SPECIFICATION FairSpec
CONSTANTS
  Pools <- MCPools
  Images <- MCImages
  Location = "here"
  Networks <- MCNetworks
  Selections <- MCSelections
  Version = "v1"
  MaxPauses = 1
  MaxFaults = 1
INVARIANTS ServerHasItsAddresses AddressesHeld ImageSelected ClaimsReleased
PROPERTIES EventuallyProvisioned MachineReleased

SPECIFICATION FairSpec
CONSTANTS
  Names = {"endpoint", "user"}
  MaxCreates = 3
  MaxFaults = 2
INVARIANTS AtMostOneBlock EndpointMatchesBlock UserEndpointKept
PROPERTIES FinalizerAfterBlock EndpointOutlivesMachines ClusterGoes ClusterProvisioned

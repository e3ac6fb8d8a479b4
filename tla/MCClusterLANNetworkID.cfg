SPECIFICATION FairSpec
CONSTANTS
  m1 = m1
  m2 = m2
  None = None
  Machines = {m1, m2}
  Names = {"cluster", "user"}
  UsesNetworkID = TRUE
  MaxCreates = 1
  MaxFaults = 0
PROPERTY AllMachinesGo

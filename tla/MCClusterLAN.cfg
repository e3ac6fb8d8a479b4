SPECIFICATION Spec
CONSTANTS
  m1 = m1
  m2 = m2
  None = None
  Machines = {m1, m2}
  Names = {"cluster", "user"}
  UsesNetworkID = FALSE
  MaxCreates = 2
  MaxFaults = 1
SYMMETRY Symmetric
INVARIANTS AtMostOneClusterLAN DeletesOnce
PROPERTIES LANManaged

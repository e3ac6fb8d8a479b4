SPECIFICATION FairSpec
CONSTANTS
  Names = {"failover"}
  Machines = {1, 2}
  MaxCreates = 2
  MaxFaults = 1
INVARIANTS AtMostOneFailoverBlock NoOrphanedFailoverBlock
PROPERTIES FailoverBlockManaged FailoverRestored LastMachineGoes

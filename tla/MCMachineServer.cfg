SPECIFICATION FairSpec
CONSTANTS
  Names = {"machine"}
  MaxCreates = 2
  MaxFaults = 1
INVARIANTS AtMostOneServer NoOrphanedServer BootVolumeNotLeaked ProvisionedHasServer
PROPERTIES ServerManaged MachineProvisioned MachineGoes

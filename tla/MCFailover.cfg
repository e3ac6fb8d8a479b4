SPECIFICATION FairSpec
CONSTANTS
  Machines = {1, 2}
  WorkerSets = {{}, {2}}
  EndpointIPs = {2, 3}
  MaxFaults = 1
INVARIANTS OneEntryPerIP PatchesSerialised ReadyNICHasIP
PROPERTIES NoLoneMachineStuck FailoverKept

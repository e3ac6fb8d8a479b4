SPECIFICATION FairSpec
CONSTANTS
  Machines = {1, 2}
  WorkerSets = {{}}
  EndpointIPs = {2}
  MaxFaults = 0
PROPERTY MachinesGo

SPECIFICATION Spec
CONSTANTS
  alice = alice
  bob = bob
  east = east
  west = west
  Requests <- MCRequests
  Sources <- MCSources
  Source <- MCSource
  Instances <- MCInstances
  Instance <- MCInstance
  CHATMaxConcurrent = 1
  CHATQueueMaxSize = 1
  Wait = 1
  Lease = 2
  Grace = 1
  HoldMax = 1
  EntryMax = 2
  LastArrival <- MCEarly
  MaxClock = 4
  MaxFaults = 1
  MaxCrashes = 0
INVARIANTS GateSound
PROPERTIES LineKept GateSpec
CHECK_DEADLOCK FALSE

SPECIFICATION Spec
CONSTANTS
  alice = alice
  bob = bob
  east = east
  west = west
  Requests <- MCFourRequests
  Sources <- MCSources
  Source <- MCCrowd
  Instances <- MCInstances
  Instance <- MCCrowdInstance
  CHATMaxConcurrent = 1
  CHATQueueMaxSize = 2
  Wait = 1
  Lease = 3
  Grace = 1
  HoldMax = 2
  EntryMax = 2
  LastArrival <- MCCrowdEarly
  MaxClock = 5
  MaxFaults = 0
  MaxCrashes = 0
INVARIANT OnePerSource
CHECK_DEADLOCK FALSE

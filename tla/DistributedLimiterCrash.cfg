SPECIFICATION FairSpec
CONSTANTS
  alice = alice
  bob = bob
  east = east
  west = west
  Requests <- MCRequests
  Sources <- MCSources
  Source <- MCSource
  Instances <- MCInstances
  Instance <- MCInstance
  CHATMaxConcurrent = 1
  CHATQueueMaxSize = 2
  Wait = 1
  Lease = 2
  Grace = 1
  HoldMax = 1
  EntryMax = 2
  LastArrival <- MCReturns
  MaxClock = 6
  MaxFaults = 0
  MaxCrashes = 1
PROPERTIES CrashSurvived Settles
CHECK_DEADLOCK FALSE

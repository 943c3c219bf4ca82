SPECIFICATION FairSpec
CONSTANTS
  r1 = r1
  r2 = r2
  r3 = r3
  r4 = r4
  alice = alice
  bob = bob
  carol = carol
  dave = dave
  None = None
  Requests <- MCThreeRequests
  Sources <- MCTwoSources
  Source <- MCSameSource
  maximum = 1
  queueMax = 1
  wait = 0
  LastArrival = 1
  MaxClock = 2
INVARIANTS SourcesSound
PROPERTIES Settles
CHECK_DEADLOCK FALSE

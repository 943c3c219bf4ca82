SPECIFICATION Spec
CONSTANTS
  r1 = r1
  r2 = r2
  r3 = r3
  r4 = r4
  alice = alice
  bob = bob
  carol = carol
  dave = dave
  None = None
  Requests <- MCRequests
  Sources <- MCSources
  Source <- MCVisitors
  maximum = 1
  queueMax = 2
  wait = 0
  LastArrival = 1
  MaxClock = 2
INVARIANTS LineSound
PROPERTIES GateSpec
SYMMETRY MCSymmetry
CHECK_DEADLOCK FALSE

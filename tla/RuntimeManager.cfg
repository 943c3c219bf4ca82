SPECIFICATION FairSpec
CONSTANTS
  s1 = s1
  s2 = s2
  s3 = s3
  d1 = d1
  Turns <- MCFewTurns
  Streamed <- MCFewStreamed
  CHATMaxConcurrent = 2
INVARIANTS RuntimeSound
PROPERTIES ShutdownEnds TurnsEnd
CHECK_DEADLOCK FALSE

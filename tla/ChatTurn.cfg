SPECIFICATION TurnSpec
CONSTANTS
  CHATStreamMaxEvents = 2
  CHATStreamMaxBytes = 3
  MergeBytes = 2
  Messages = {"first", "second"}
  MaxPublished = 4
  MaxNotificationEvents = 2
  MaxPipe = 1
  Scripts <- ChildScripts
INVARIANTS StreamSound EndingSound ClientSound
PROPERTIES TurnSettles
CHECK_DEADLOCK FALSE

SPECIFICATION Spec
CONSTANTS
  alice = alice
  bob = bob
  a1 = a1
  a2 = a2
  a3 = a3
  a4 = a4
  b1 = b1
  LocalRequests <- MCLocalRequests
  LocalSource <- MCLocalSource
  LocalClock = 7
  SharedRequests <- MCSharedRequests
  SharedSource <- MCSharedSource
  SharedClock = 6
  Sources <- MCSources
  Second = 2
  Minute = 2
  Hour = 4
  Day = 6
  CHATIPMinuteLimit = 1
  CHATIPHourLimit = 2
  CHATIPDailyLimit = 3
  CHATDailyLimit = 3
  Skew = 1
  MaxFaults = 1
  Identities = {i1, i2}
  CHATAttemptBurst = 1
  CHATAttemptRefillSeconds = 2
  CHATAbuseCooldownSeconds = 3
  CHATAbuseMaxCooldownSeconds = 6
  CHATAttemptCacheSize = 1
  CHATAttemptCacheTTLSeconds = 4
  CHATGlobalAttemptBurst = 3
  CHATGlobalAttemptsPerSecond = 1
  MaxChecks = 5
  MaxSetBack = 1
  LastSecond = 8
INVARIANTS QuotaSound BucketsSound
PROPERTY RetryWithinASecond
SYMMETRY MCSymmetry
CHECK_DEADLOCK FALSE

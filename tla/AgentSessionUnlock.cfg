SPECIFICATION Spec
CONSTANTS
    MaxTurns = 1
    MaxRuns = 1
    MaxDeltas = 1
    MaxReloads = 1
    Unlocking = {1}
    HasCookie = FALSE
INVARIANT OnlyACompletedReplyUnlocks

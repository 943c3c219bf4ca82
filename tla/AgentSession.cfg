SPECIFICATION Spec
CONSTANTS
    MaxTurns = 2
    MaxRuns = 2
    MaxDeltas = 1
    MaxReloads = 1
    Unlocking = {2}
    HasCookie = FALSE
INVARIANTS ConversationSound NothingReceivedIsLost StoredFollowsShown
PROPERTIES StaleRunsAreSilent DesktopFollowsReplies

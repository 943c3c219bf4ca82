SPECIFICATION Spec
CONSTANTS
    Edges = {0, 1, 2}
    PlayerSlots = {"panel", "window"}
    MaxMoves = 2
    Tabs = {"t1", "t2"}
    Songs = {"a", "b", "c"}
    MaxSaved = 2
    MaxWrites = 4
    HasCookie = TRUE
    Others = {}
    MaxZ = 4
    Titles = {"a", "b"}
    Rooms = {1, 2}
    Pointers = {"p1", "p2"}
    Accounts = {"a", "b"}
    Amounts = {1, 2}
    MaxEvents = 2
    MaxRequests = 2
    MaxPolls = 1
    Visitors = {"a", "b"}
    Fetches = {1, 2}
    MaxLogins = 3
    MaxLogouts = 2
    MaxHistory = 4
    Stages = {"s1", "s2"}
    Tools = {"site_info"}
    Calls = {"c1", "c2"}
    MaxActivities = 3
    MaxReports = 6
    Windows = {"w1", "w2"}
    MaxWishes = 2
    MaxAdded = 2
    StartMonths = {0, 1, 13}
    StartDays = {1, 28, 29, 30, 31}
    LastMonth = 27
    MaxAsleep = 2
INVARIANTS MusicSound DesktopPartsSound SponsorSound VisitorSound ActivitiesSound DatesTrue
PROPERTIES BehavesAsStacks OverStaysOver
CHECK_DEADLOCK FALSE

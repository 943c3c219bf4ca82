SPECIFICATION Spec
CONSTANTS
    Keys = {k1, k2, k3}
    Limit = 2
    Window = 2
    Cooldown = 3
    SweepEvery = 2
    MaxKeys = 2
    MaxTime = 7
    MaxChunks = 2
    Questions = 5
    SitePages = {about, blog}
    SiteApps = {desktop}
    Items = {"a", "b"}
    Slots = {"panel", "window"}
    MaxLoads = 4
    MaxReleases = 3
    Durations = {1, 3}
    Offsets = {0, 2}
    MaxFrames = 2
    MaxTicks = 6
    MaxAttempts = 2
    MaxToggles = 3
INVARIANTS LimiterSound ServerSound PageSound ClockSound
PROPERTIES GuardSpec NewestKeepsSlot RequestsEnd PageSettles
CHECK_DEADLOCK FALSE

SPECIFICATION PolicySpec
CONSTANTS
    Req = {r1, r2, r3}
    MaxRunning = 2
    BatchTokens = 4
    ConfiguredThreshold = 2
    Interval = 3
    Absent = Absent
    BadType = BadType
    RawProfiles <- AllRaw
    FirstRaw <- MCFirstRaw
    FallbackPacket = 4
    FallbackInterval = 2
    MaxEdits = 2
INVARIANTS
    CadenceIsStrict
    OpenEveryInterval
    CacheIsAccepted
PROPERTIES
    SettingsRestored
    OpenAgainAndAgain
    ProfileIsKept
    GoodFileIsUsed

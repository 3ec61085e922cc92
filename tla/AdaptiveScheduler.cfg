SPECIFICATION FairSpec
CONSTANTS
    Req = {r1, r2, r3}
    MaxRunning = 3
    BatchTokens = 5
    ConfiguredThreshold = 5
    Burst = 5
    Profiles <- CoveringProfiles
INVARIANTS
    TypeOK
    DecodeProtection
    StrictPacket
    BucketConformance
    BoundedDeferral
PROPERTIES
    SettingsRestored
    AdmissionProgress

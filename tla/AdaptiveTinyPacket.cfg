SPECIFICATION Spec
CONSTANTS
    Req = {r1, r2, r3, r4}
    MaxRunning = 3
    BatchTokens = 5
    ConfiguredThreshold = 5
    Burst = 5
    Profiles <- TinyProfiles
SYMMETRY Symmetry
INVARIANTS
    StrictPacket

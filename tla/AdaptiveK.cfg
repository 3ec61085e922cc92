SPECIFICATION FairSpec
CONSTANTS
    Req = {r1, r2}
    Drafts = 3
    BootSet = {1, 3}
    BootPolicy <- MCBootPolicy
    Overrides <- MCOverrides
    MaxEdits = 1
    MaxSeen = 2
    Scale = 2
    ReloadEvery = 2
    HistEvery = 2
    Depth = 2
    Absent = Absent
    Bad = Bad
INVARIANTS
    LengthIsCaptured
    StepIsUniform
PROPERTIES
    ClimbsBack

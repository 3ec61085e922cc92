SPECIFICATION Spec
CONSTANTS
    Req = {r1, r2}
    Blocks = {b1, b2, b3}
    Null = Null
    MaxRows = 3
    NumSpec = 2
    Graphs = {2}
    MaxTokens = 4
SYMMETRY Symmetry
INVARIANTS
    StateIsAcceptedPrefix
PROPERTIES
    PagesAreFrozen
    ImplementsKdaState
CHECK_DEADLOCK FALSE

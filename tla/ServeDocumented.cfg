SPECIFICATION ServeSpec
CONSTANTS
    Overrides <- MCDocumented
INVARIANTS
    DocumentedStartsServe
CHECK_DEADLOCK FALSE

SPECIFICATION KpSpec
CONSTANTS
    PoolSize = 2
    StorageBlock = 2
    DcpSize = 2
    Requests = 2
    MaxVerify = 3
    MaxLen = 6
INVARIANTS
    PoolsAreExact
CHECK_DEADLOCK FALSE

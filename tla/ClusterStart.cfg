SPECIFICATION FairSpec
CONSTANTS
    head = head
    worker = worker
    Rank <- MCRank
    HeadRank = head
    Worker = worker
    MaxGen = 3
    MaxFaults = 2
    Deadline = 2
    SshFails = TRUE
    Interrupts = TRUE
INVARIANTS OneRendezvous FailedStartIsClean
PROPERTIES StartReturns
CHECK_DEADLOCK FALSE

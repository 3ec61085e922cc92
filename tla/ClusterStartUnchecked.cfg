SPECIFICATION Spec
CONSTANTS
    head = head
    worker = worker
    Rank <- MCRank
    HeadRank = head
    Worker = worker
    MaxGen = 2
    MaxFaults = 2
    Deadline = 2
    SshFails = FALSE
    Interrupts = FALSE
PROPERTIES SettingsAreCheckedFirst
CHECK_DEADLOCK FALSE

CONSTANTS
    Entries <- MCEntries
    Id <- MCId
    Bad = {"bad"}
    MaxDeploys = 2
    MaxSwaps = 1
SPECIFICATION Spec
CHECK_DEADLOCK FALSE
INVARIANTS
    ReadyIsRecorded
    NoLostRetry
PROPERTIES
    EventuallyReady

SPECIFICATION Spec
CONSTANTS
    Histories <- MCHistories
    Others = {{}, {"whole"}}
    MaxEvents = 3
    MaxRestarts = 1
INVARIANTS
    FinishedIsFresh
    NothingOlderThanManifest
PROPERTIES
    EventuallyServesMerge
CHECK_DEADLOCK FALSE

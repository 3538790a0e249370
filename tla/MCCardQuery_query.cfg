CONSTANTS
    MaxBit = 8
    MaxByte = 255
    Buckets = 16
    IdMod = 65536
    MaxLimit = 200
    MaxCost = 15
    MaxBuilds = 2
    Datasets <- MCDatasets
    FormatDefs <- MCFormatDefs
    Collections <- MCCollections
    Requests <- MCRequests
    Edited <- MCEdited
SPECIFICATION Spec
CHECK_DEADLOCK FALSE
INVARIANTS
    AnswerIsReading
    PagesPartition
    FamiliesCountAnswer
    OptionsLead
    ToolsAgree
PROPERTIES
    PagingEnds

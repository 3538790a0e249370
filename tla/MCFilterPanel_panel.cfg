CONSTANTS
    MaxBit = 8
    MaxByte = 255
    Buckets = 16
    IdMod = 65536
    MaxLimit = 200
    MaxCost = 15
    MaxSlots = 3
    MaxFilled = 2
    MaxFiltered = 1
    Blank = Blank
    NoBox = NoBox
    Codes = {"AX"}
    Sets = {"KS"}
    FormatDefs <- MCFormatDefs
    Collections <- MCCollections
    Crawled <- MCCrawled
    Typed <- MCTyped
    Containing <- MCContaining
    CostTexts <- MCCostTexts
    Limits <- MCLimits
    Words <- MCWords
SPECIFICATION PanelSpec
CHECK_DEADLOCK FALSE
INVARIANTS
    AnswerIsPanel
    PickLeads

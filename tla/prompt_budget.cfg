SPECIFICATION FairSpec
CONSTANTS
    MaxPrompt = 2048
    PadSystem = TRUE
    MaxPadding = 65536
    MaxRecent = 3
    SystemChars = 300
    MemoryChars = {0, 310, 1400, 1729, 1800}
    ContentChars = {0, 700, 1430}
    Widths = {1, 3}
    MaxHistory = 3
CHECK_DEADLOCK FALSE
INVARIANT TypeOK
INVARIANT WithinBudget
INVARIANT KeepsQuestion
INVARIANT KeepsNewest
INVARIANT LengthHidden
PROPERTY EndsIfBlocksFit

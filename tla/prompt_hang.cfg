SPECIFICATION FairSpec
CONSTANTS
    MaxPrompt = 2048
    PadSystem = TRUE
    MaxPadding = 65536
    MaxRecent = 3
    SystemChars = 300
    MemoryChars = {310, 1800}
    ContentChars = {0, 700}
    Widths = {1, 3}
    MaxHistory = 2
CHECK_DEADLOCK FALSE
PROPERTY AlwaysEnds

SPECIFICATION Spec
CONSTANTS
    Mode = "strict"
    DigitHashed <- SplitHashes
    IndexMessages = TRUE
    MaxIndexed = 1
    Inputs <- Typable
    Notes <- Noted
    Terms <- Hidden
    Prompts <- Instructions
    ExtraTerms <- Given
    MaxRecent = 2
    MaxMemories = 1
    MaxRecall = 1
    MemoryChars = 5
    RecallChars = 3
    LineChars = 4
    SummaryBytes = 6
    LocalAi = TRUE
    MaxMessages = 4
    MaxNotes = 1
    MaxEdits = 2
INVARIANT TypeOK
INVARIANT IndexAgrees
INVARIANT RecallIsOld
INVARIANT EditsSurvive
INVARIANT NoSecretSent
INVARIANT Resolvable
INVARIANT UserSeesOriginals
INVARIANT SummaryWindow

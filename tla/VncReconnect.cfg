CONSTANTS
    Tile = 2
    SCREEN_WIDTH = 3
    SCREEN_HEIGHT = 4
    VNC_BUFFER_MAX = 25
    UlongRange = 1048576
    TxBytes = 30
    Scripts <- MCScriptsShort
    AuthTypes = {1}
    AuthResults = {0}
    NameLength = 1
    MaxBells = 0
    MaxSessions = 2
    Buttons = {"a"}
    MaxPresses = 1
    PromptHost = TRUE
    FifoSurvives = FALSE
    PatientHost = TRUE
SPECIFICATION FairSystemSpec
INVARIANTS
    Aligned
    PictureExact
PROPERTIES
    AllShownEventually
    KeyLeaves

CONSTANTS
    Tile = 2
    SCREEN_WIDTH = 3
    SCREEN_HEIGHT = 4
    VNC_BUFFER_MAX = 30
    UlongRange = 1048576
    TxBytes = 20
    Scripts <- MCScriptsShort
    AuthTypes = {1}
    AuthResults = {0}
    NameLength = 5
    MaxBells = 1
    MaxSessions = 1
    Buttons = {}
    MaxPresses = 0
    PromptHost = TRUE
    FifoSurvives = FALSE
    PatientHost = TRUE
SPECIFICATION FairSystemSpec
PROPERTIES
    ErrorResets
CHECK_DEADLOCK FALSE

CONSTANTS
    Tile = 2
    SCREEN_WIDTH = 3
    SCREEN_HEIGHT = 4
    VNC_BUFFER_MAX = 30
    UlongRange = 1048576
    TxBytes = 20
    Scripts <- MCScriptsAll
    AuthTypes = {0, 1, 2}
    AuthResults = {0, 1}
    NameLength = 5
    MaxBells = 1
    MaxSessions = 1
    Buttons = {"a", "c"}
    MaxPresses = 1
    PromptHost = TRUE
    FifoSurvives = FALSE
    PatientHost = TRUE
SPECIFICATION SystemSpec
INVARIANTS
    TypeOK
    SendOrder
    RawTileExact
    Aligned
    PictureExact
    TileBufferSafe
    NoProtocolError
    KeyPerPress
CHECK_DEADLOCK FALSE

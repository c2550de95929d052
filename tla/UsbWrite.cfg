SPECIFICATION Spec
CONSTANTS
    TxSize = 2
    RxSize = 1
    FlushTimeout = 2
    Timeout = 2
    FrameRange = 4
    WriteSizes = {3}
    PromptPolls = TRUE
    MaxEvents = 2
INVARIANT RegistersGuarded

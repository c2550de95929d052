SPECIFICATION FairSpec
CONSTANTS
    TxSize = 2
    RxSize = 2
    FlushTimeout = 2
    Timeout = 2
    FrameRange = 4
    WriteSizes = {1}
    PromptPolls = TRUE
    MaxEvents = 3
INVARIANTS TypeOK TxExact RxExact FlushArmed ShortPacketEnds OfflineSeen RegistersGuarded
PROPERTIES CallsReturn PartialSent RxDrains

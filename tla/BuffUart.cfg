CONSTANTS
    TxSize = 4
    RxSize = 3
    MaxTx = 9
    MaxRx = 8
SPECIFICATION FairSpec
INVARIANTS
    TypeOK
    TxInOrder
    NoLostWakeup
    RxInOrder
PROPERTIES
    RxLossless
    ImplementsChannel
    TxDrains
CHECK_DEADLOCK FALSE

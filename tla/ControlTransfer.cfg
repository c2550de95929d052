CONSTANTS
    Chunk = 2
    BufferSize = 5
    ByteRange = 8
    EchoSize = 1
    Lengths = {2, 5, 7}
    Addresses = {1}
    MaxTransfers = 3
    MaxResets = 1
SPECIFICATION FairSpec
INVARIANTS TypeOK ReplyCurrent ReadExact WriteStored AddressAgrees
PROPERTY TransfersEnd

CONSTANTS
    MaxSequenceNumber = 3
    NumIterations = 5
SPECIFICATION FairSpec
INVARIANTS
    TypeOK
    NothingStranded
    BackBufferIsCoalesced
    FrontIsMean
PROPERTIES
    ImplementsFrame
    EveryPacketIsMerged

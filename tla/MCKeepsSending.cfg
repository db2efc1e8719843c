CONSTANTS
    s1 = s1
    Servers = {s1}
    RenderMethods = {"VCM_BIDIRECTIONAL_PATH_TRACING"}
    MaxSequenceNumber = 3
    NumIterations = 5
    MaxIterationsPerPacket = 1
    PendingIterationsLimit = 2
    TotalPacketsPendingLimit = 3
SPECIFICATION FairSpec
PROPERTY KeepsSending
CHECK_DEADLOCK FALSE

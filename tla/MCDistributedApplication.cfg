CONSTANTS
    s1 = s1
    s2 = s2
    Servers = {s1, s2}
    RenderMethods = {"PROGRESSIVE_PHOTON_MAPPING", "VCM_BIDIRECTIONAL_PATH_TRACING"}
    MaxSequenceNumber = 4
    NumIterations = 2
    MaxIterationsPerPacket = 1
    PendingIterationsLimit = 2
    TotalPacketsPendingLimit = 2
SPECIFICATION Spec
SYMMETRY Symmetry
INVARIANTS
    TypeOK
    PendingCoversInFlight
    StalePendingDoesNotBlock
PROPERTIES
    IterationsAreNumberedOnce
\* The bounds on sequences and iterations end the behaviours.
CHECK_DEADLOCK FALSE

SPECIFICATION Spec
CONSTANTS
    Sizes <- MCSizes
    MethodChoices <- MCMethodChoices
    ScenesFor <- MCScenesFor
    AccelerationStructures <- MCMaps
    PHOTON_LAUNCH_WIDTH = 2
    PHOTON_LAUNCH_HEIGHT = 1
    MaxPhotonDeposits = 2
    MAX_PHOTON_TRACE_DEPTH = 4
    PHOTON_TRACING_RR_START_DEPTH = 1
    MAX_RADIANCE_TRACE_DEPTH = 1
    PATH_TRACING_RR_START_DEPTH = 1
    NumPaths = 3
    MaxPathVertices = 2
    PhotonPositions <- MCPhotonPositions
    HitPoints <- MCHitPoints
    Radii <- MCRadii
    PHOTON_GRID_MAX_SIZE = 8
    CellSizeMargin <- MCMargin
    Padding = 1
    MaxSequence = 2
    MaxIteration = 1
INVARIANTS
    TypeOK
    BuffersFitLaunch
    FrameIsSumOfIterations
    DepositsStayInOwnSlots
    GatherFindsEachPhotonOnce
    LightCountedOnce
    VerticesOfOwnPath
    ScenesAreSound
CHECK_DEADLOCK FALSE

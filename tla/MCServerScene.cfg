CONSTANTS
    SceneChoices <- MCChoices
    ReadableHere <- MCReadableHere
    ReadableThere <- MCReadableThere
    WithLights <- MCWithLights
    NumIterations = 2
    PendingLimit = 1
    MaxInputs = 2
SPECIFICATION Spec
INVARIANTS
    TypeOK
    LoadableSceneIsRendered
    FrameOfCurrentScene
CHECK_DEADLOCK FALSE

SPECIFICATION Spec
CONSTANTS
    Addresses = {a1, a2}
    RenderMethods = {pt, ppm}
    a1 = a1
    a2 = a2
    pt = pt
    ppm = ppm
    OutputPeriod = 2
    NumIterations = 3
    MaxInputs = 3
    Kinds <- InputKinds
    InputChoices <- UserChoices
    Resolutions <- TypedResolutions
SYMMETRY Symmetry
INVARIANTS
    TypeOK
    OneContinueQueued
    DisplayedScaleIsClose
    FrameOfOnePicture
    ManagerFollowsApplication
    PictureIsNotDistorted
CHECK_DEADLOCK FALSE

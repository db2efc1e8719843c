SPECIFICATION FairSpec
CONSTANTS
    Addresses = {a1, a2}
    RenderMethods = {pt}
    OutputPeriod = 2
    NumIterations = 1
    MaxInputs = 3
    Kinds <- InputKinds
    InputChoices <- PauseAndRestart
    Resolutions <- TypedResolutions
PROPERTY ResumeRenders
CHECK_DEADLOCK FALSE

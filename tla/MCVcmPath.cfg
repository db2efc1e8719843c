SPECIFICATION Spec
CONSTANTS
    Numbers <- MCNumbers
    Zero = 0
    One = 1
    Plus <- MCPlus
    Times <- MCTimes
    Reciprocal <- MCReciprocal
    Lights <- MCLights
    Surfaces <- MCSurfaces
    SquaredLengths <- MCSquaredLengths
    MaxSurfaces = 3
    maxPathLen = 4
    lightSubpathCount = 2
    cameraPdfW <- MCCameraPdfW
    InvPi <- Third
    Prime = 101
INVARIANTS
    WeightsAreBalanced
    EveryTechniqueOnce
CHECK_DEADLOCK FALSE

SPECIFICATION FairSpec
CONSTANTS
    Connections = {c1, c2}
    NoConnection = NoConnection
    MaxRequests = 2
    BodyUnits = 1
INVARIANTS
    TypeOK
    ReadyIsComplete
    OneClientServed
    RequestsArrive
    ResultsAreRead
    IntroductionSucceeds
PROPERTIES
    DialogSettles
CHECK_DEADLOCK FALSE

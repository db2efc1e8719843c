CONSTANTS
    MaxConnections = 2
    MaxRequests = 2
    MaxSequenceNumber = 1
    MaxIterations = 1
SPECIFICATION FairSpec
INVARIANT OwnResultsAreComplete
CHECK_DEADLOCK FALSE

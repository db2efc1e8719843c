CONSTANTS
    MaxConnections = 1
    MaxRequests = 1
    MaxSequenceNumber = 1
    MaxIterations = 1
SPECIFICATION FairSpec
PROPERTY QueueIsServed
CHECK_DEADLOCK FALSE

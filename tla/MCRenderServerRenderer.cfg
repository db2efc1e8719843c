CONSTANTS
    MaxConnections = 2
    MaxRequests = 3
    MaxSequenceNumber = 2
    MaxIterations = 2
SPECIFICATION FairSpec
INVARIANTS
    TypeOK
    ResultsInOrderAndComplete
PROPERTIES
    FirstClientLosesOldRequestsOnly
    BusyRendererQuits
\* The program ends, by quitting, by a crash or by waiting for ever.
CHECK_DEADLOCK FALSE

SPECIFICATION Spec
CONSTANTS
    c1 = c1
    c2 = c2
    e1 = e1
    e2 = e2
    NULL = NULL
    Calls <- MCCalls
    Endpoints <- MCEndpoints
    EndpointOf <- MCEndpointOf
    MaxRetry = 1
    MaxRestarts = 1
CHECK_DEADLOCK FALSE
INVARIANTS
    TypeOK
    RecordedOwner
    UniqueIds
    IncreasingIds
    NoGaps

\* The three loops under every sampled policy, on the clock.
SPECIFICATION FairSpec
CONSTANTS
    Policy <- MCPolicy
    AttemptTimeout = 2
    StreamPatience = 2
    HttpStatus <- MCHttpStatus
    GrpcCode <- MCGrpcCode
    RetryAfter <- MCRetryAfter
    LongestRetryAfter = 5
INVARIANTS
    TotalBounded
    OnlyTransientRetried
    LastErrorReturned
    WaitsAsAsked
PROPERTIES
    Returns
CHECK_DEADLOCK FALSE

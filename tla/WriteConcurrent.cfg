\* Three batches, one at a time (0 is read as 1) or two at a time, a budget, one retry
\* each, requests that arrive after their attempt was given up.
SPECIFICATION MCFairSpec
CONSTANTS
    N = 3
    Inflights = {0, 2}
    MaxRetries = 1
    HasBudget = TRUE
    Stamped = TRUE
    LateDelivery = TRUE
INVARIANTS
    IInv
    OkMeansStored
    InflightBounded
    CopiesBounded
    NothingPastBadBatch
    NothingLeftBehind
    PrefixStored
PROPERTIES
    SilentAfterReturn
    ImplementsCall
    Returns
CHECK_DEADLOCK FALSE

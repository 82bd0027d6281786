\* One batch of points without timestamps, one retry.
SPECIFICATION MCSpec
CONSTANTS
    N = 1
    Inflights = {1}
    MaxRetries = 1
    HasBudget = FALSE
    Stamped = FALSE
    LateDelivery = FALSE
INVARIANTS
    NoDoubleCount
CHECK_DEADLOCK FALSE

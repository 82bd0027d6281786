\* Three queries, so that one can wait behind another while a third holds the
\* permit; every mix of awaited and streaming, one retry each, two batches.
SPECIFICATION FairSpec
CONSTANTS
    Query = {q1, q2, q3}
    None = None
    MaxRetries = 1
    HasBudget = TRUE
    Answer = 2
INVARIANTS
    PermitNotLost
    WholeAnswer
PROPERTIES
    NotReissued
    WaiterServed
    CollectEnds

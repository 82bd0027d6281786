\* A success, a rejection, an old server, a busy one and a broken one.
SPECIFICATION ErrorSpec
CONSTANTS
    Code = {204, 400, 404, 429, 503}
    MaxItems = 2
INVARIANTS
    PartialAsAsked
    EveryRejectedLineTold
    SaysSomething
    PartialIsFatal
CHECK_DEADLOCK FALSE

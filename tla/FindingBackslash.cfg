\* Every text of one or two characters in one place of a line: a backslash in a
\* key or a tag is read as an escape.
SPECIFICATION TripSpec
CONSTANTS
    Half = 1
    Factor = 3
    Longest = 2
    Beyond = 1
    NoTime = NoTime
INVARIANTS
    EveryTextReadBack
CHECK_DEADLOCK FALSE

\* Every text of up to three characters in every place of a line, any two texts
\* of up to three characters together in every two places, or every time
\* of every source under every precision, with integers of six bits.
SPECIFICATION TripSpec
CONSTANTS
    Half = 32
    Factor = 3
    Longest = 3
    Beyond = 40
    NoTime = NoTime
INVARIANTS
    TextReadBack
    NextLineIntact
    TimeKept
    TimeThereAndBack
CHECK_DEADLOCK FALSE

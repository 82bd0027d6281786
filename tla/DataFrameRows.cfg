\* Frames of up to four rows, a tag, two fields and a timestamp column, in
\* slices of 1, 2 or 3 rows (batch_size 0 is read as 1).
SPECIFICATION Spec
CONSTANTS
    Tags <- TagColumns
    Fields <- FieldColumns
    Time = "time"
    Iterated <- ByIterator
    MaxRows = 4
    BatchSize = {0, 2, 3}
    NewLine = NewLine
INVARIANTS
    FrameWritten
    BodiesWellFormed
CHECK_DEADLOCK FALSE

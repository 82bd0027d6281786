\* Answers of up to three record batches and two rows.
SPECIFICATION Spec
CONSTANTS
    Names <- ColumnNames
    Schemas <- AnswerSchemas
    Slot = {1, 2}
    MaxBatches = 3
    MaxRows = 2
    Null = Null
    Err = Err
    None = None
INVARIANTS
    EveryRowOnce
    RowsAllOrNothing
    NamesAgree
CHECK_DEADLOCK FALSE

--------------------------- MODULE DataFrameWriter ---------------------------
(***************************************************************************)
(* `DataFrameWrite::into_lp_batches` and `dataframe_to_line_protocol`: a   *)
(* frame is cut in slices of `batch_size` rows, and each slice is written  *)
(* row by row, by readers built once per slice.  Most readers are          *)
(* iterators that know nothing of the row they are at; columns of other    *)
(* types are read by row index, which cannot fail: it is below the height. *)
(*                                                                         *)
(* The value of a cell is the number of its row in the frame, so that a    *)
(* value read from another row shows.  A line says for each column what    *)
(* was read for it; the order of its columns, and its text, are not        *)
(* modelled, but the newlines between lines are.                           *)
(***************************************************************************)
EXTENDS Integers, FiniteSets, SequencesExt

CONSTANTS
    Tags,               \* tag columns
    Fields,             \* field columns
    Time,               \* the timestamp column
    Iterated,           \* the columns read by an iterator
    MaxRows,            \* bound: the height of the frame
    BatchSize,          \* the values of WriteOptions::batch_size
    NewLine             \* what stands between two lines

Column == Tags \cup Fields \cup {Time}

\* For each column the value that is written, or none for a null.
Lines == [Column -> SUBSET Nat]

ASSUME ConstantsAssumption ==
    /\ {Time} \subseteq Iterated /\ Iterated \subseteq Column
    /\ MaxRows \in Nat
    /\ BatchSize \subseteq Nat
    /\ NewLine \notin Lines

VARIABLES
    height,             \* rows of the frame
    present,            \* for each column, the rows whose cell is not null
    chunk,              \* batch_size.max(1)
    start,              \* rows before the slice
    row_idx,            \* rows of the slice written; -1 between two slices
    cursor,             \* cells that each iterator has yielded
    buf,                \* the lines of the slice and the newlines between them
    batches             \* the bodies to send

vars == <<height, present, chunk, start, row_idx, cursor, buf, batches>>
input == <<height, present, chunk>>

-----------------------------------------------------------------------------
Height == IF start + chunk < height THEN chunk ELSE height - start

\* The row that the next cell of a reader comes from.
RowRead(col) == start + 1 + (IF col \in Iterated THEN cursor[col] ELSE row_idx)

\* Every row of the slice asks each of its iterators for one cell.
Advanced == [col \in Iterated |-> cursor[col] + 1]

\* The row as it is read: a null, whatever its column, writes nothing.
Line == [col \in Column |-> {RowRead(col)} \cap present[col]]

NoField == \A col \in Fields : Line[col] = {}

Init ==
    /\ height \in 0..MaxRows
    /\ present \in [Column -> SUBSET (1..height)]
    /\ chunk \in {IF b = 0 THEN 1 ELSE b : b \in BatchSize}
    /\ start = 0
    /\ row_idx = -1
    /\ cursor = [col \in Iterated |-> 0]
    /\ buf = <<>>
    /\ batches = <<>>

\* A slice is taken and its readers are built.
StartSlice ==
    /\ row_idx = -1 /\ start < height
    /\ row_idx' = 0
    /\ cursor' = [col \in Iterated |-> 0]
    /\ UNCHANGED <<input, start, buf, batches>>

\* Mutant of WriteRow: a row that is dropped does not take its timestamp.
WriteRowLateTime ==
    /\ row_idx \in 0..(Height - 1)
    /\ buf' = IF NoField THEN buf
              ELSE (IF buf = <<>> THEN buf ELSE Append(buf, NewLine)) \o <<Line>>
    /\ row_idx' = row_idx + 1
    /\ cursor' = IF NoField THEN [Advanced EXCEPT ![Time] = cursor[Time]]
                 ELSE Advanced
    /\ UNCHANGED <<input, start, batches>>

\* Mutant of WriteRow: a dropped row is cut off after its newline.
WriteRowKeepsNewLine ==
    /\ row_idx \in 0..(Height - 1)
    /\ buf' = (IF buf = <<>> THEN buf ELSE Append(buf, NewLine))
              \o (IF NoField THEN <<>> ELSE <<Line>>)
    /\ row_idx' = row_idx + 1
    /\ cursor' = Advanced
    /\ UNCHANGED <<input, start, batches>>

\* A row is written; if all its fields are null, `buf` is cut back to where
\* the row began, before the newline.
WriteRow ==
    /\ row_idx \in 0..(Height - 1)
    /\ LET row_start == Len(buf)
           written == (IF row_start > 0 THEN Append(buf, NewLine) ELSE buf) \o <<Line>>
       IN  buf' = IF NoField THEN SubSeq(written, 1, row_start)
                  ELSE written
    /\ row_idx' = row_idx + 1
    /\ cursor' = Advanced
    /\ UNCHANGED <<input, start, batches>>

\* The slice is a body to send, unless none of its rows was kept.
EndSlice ==
    /\ row_idx # -1 /\ row_idx = Height
    /\ batches' = IF buf = <<>> THEN batches ELSE Append(batches, buf)
    /\ buf' = <<>>
    /\ start' = start + chunk
    /\ row_idx' = -1
    /\ UNCHANGED <<input, cursor>>

Next == StartSlice \/ WriteRow \/ EndSlice

Spec == Init /\ [][Next]_vars

-----------------------------------------------------------------------------
(* Properties                                                              *)

\* The lines of a body in which every second part is a newline.
LinesOf(body) == [i \in 1..((Len(body) + 1) \div 2) |-> body[2 * i - 1]]

Written == FlattenSeq([b \in DOMAIN batches |-> LinesOf(batches[b])]) \o LinesOf(buf)

\* What is to be written for a row, read cell by cell from the frame.
Wanted(row) == [col \in Column |-> {row} \cap present[col]]

\* The rows passed so far; a row with no field is not written.
Passed == IF row_idx = -1 THEN IF start < height THEN start ELSE height
          ELSE start + row_idx
Kept == {r \in 1..Passed : \E col \in Fields : r \in present[col]}

\* Every row with a field is written once, in order, from the cells of that
\* row alone, whatever was null in the rows before it and wherever the slices
\* begin ("stays in lockstep with the row index even when the row is dropped",
\* dataframe_to_line_protocol).
FrameWritten ==
    /\ Len(Written) = Cardinality(Kept)
    /\ \A r \in Kept : Written[Cardinality({s \in Kept : s <= r})] = Wanted(r)

\* Newlines stand between two lines and nowhere else.
WellFormed(body) ==
    /\ \A i \in DOMAIN body : body[i] = NewLine <=> i % 2 = 0
    /\ body # <<>> => Last(body) # NewLine

\* A body has from one to `batch_size` lines, so that no empty request is sent,
\* and newlines stand between two lines and nowhere else, also around rows that
\* were dropped.
BodiesWellFormed ==
    /\ \A b \in DOMAIN batches :
          WellFormed(batches[b]) /\ Len(LinesOf(batches[b])) \in 1..chunk
    /\ WellFormed(buf)
=============================================================================

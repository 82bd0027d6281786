------------------------------ MODULE QueryRows -------------------------------
(***************************************************************************)
(* From the record batches of an answer to the rows a caller reads: the    *)
(* collecting loop of `FlightQueryClient::query`, `QueryIterator`,         *)
(* `extract_value`, `QueryResult::rows`, and the lookups of `Row`.         *)
(*                                                                         *)
(* A value is the slot of the Arrow array it comes from, <<batch, column,  *)
(* slot>>, so that a value taken from elsewhere shows.  All the Arrow      *)
(* types that `extract_value` has an arm for are one type here, "known";   *)
(* the ones it has none for are "other"; the arrays of DataType::Null,     *)
(* "Null", have no null mask, so that is_null is false for each of their   *)
(* slots, which Arrow counts as null; a "Dictionary" array holds keys into *)
(* an array of values.                                                     *)
(***************************************************************************)
EXTENDS Integers, SequencesExt

CONSTANTS
    Names,              \* the names of columns
    Schemas,            \* the schemas of an answer: sequences of columns
    Slot,               \* the slots of a dictionary
    MaxBatches,         \* bound: record batches of an answer
    MaxRows,            \* bound: rows of an answer
    Null, Err, None     \* Value::Null, Err(UnsupportedArrowType), Option::None

Type == {"known", "other", "Null", "Dictionary"}

\* A column: its name, its type, and the type of the values of a dictionary.
Column == [name : Names, type : Type, of : {"known", "other"}]

\* A value that is not null.
Value == Nat \X Nat \X Nat

ASSUME ConstantsAssumption ==
    /\ Schemas \subseteq Seq(Column)
    /\ Slot \subseteq Nat
    /\ MaxBatches \in Nat /\ MaxRows \in Nat
    /\ None \notin Schemas \cup {<<>>}
    /\ Err \notin Value \cup {Null}
    /\ \A schema \in Schemas : Err \notin [DOMAIN schema -> Value \cup {Null}]

VARIABLES
    schema,             \* the schema of the answer
    result,             \* QueryResult, while it is collected and after
    reader,             \* "none" while the answer is collected; then "iter"
                        \* (`for row in result`) or "rows" (`result.rows()`)
    batch_idx, row_idx, \* QueryIterator; a batch counts from 1, a row from 0
    items,              \* what `next` has returned, but for the last None
    ended               \* `next` returned None, or `rows` stopped asking

vars == <<schema, result, reader, batch_idx, row_idx, items, ended>>

-----------------------------------------------------------------------------
(* Arrow                                                                   *)

\* The arrays of n slots that a column can have; `valid` is the null mask.
Arrays(col, n) ==
    CASE col.type = "Null" -> {[type |-> col.type, valid |-> 1..n]}
      [] col.type = "Dictionary" ->
            [type : {col.type}, valid : SUBSET (1..n), keys : [1..n -> Slot],
             values : [type : {col.of}, valid : SUBSET Slot]]
      [] OTHER -> [type : {col.type}, valid : SUBSET (1..n)]

\* The record batches of n rows.
Batch(n) == [num_rows : {n}, columns :
    {arrays \in [DOMAIN schema -> UNION {Arrays(schema[c], n) : c \in DOMAIN schema}] :
        \A c \in DOMAIN schema : arrays[c] \in Arrays(schema[c], n)}]

\* For each b the rows of the first b batches.
rows_of_first(batches) ==
    LET sum[b \in 0..Len(batches)] ==
            IF b = 0 THEN 0 ELSE sum[b - 1] + batches[b].num_rows
    IN  sum

num_rows == rows_of_first(result.batches)[Len(result.batches)]

Init ==
    /\ schema \in Schemas
    /\ result = [schema |-> None, batches |-> <<>>]
    /\ reader = "none"
    /\ batch_idx = 1 /\ row_idx = 0
    /\ items = <<>>
    /\ ended = FALSE

-----------------------------------------------------------------------------
(* FlightQueryClient::query                                                *)

\* `stream.try_next()` yields a batch; the first one gives the schema.
Collect ==
    /\ reader = "none" /\ Len(result.batches) < MaxBatches
    /\ \E n \in 0..(MaxRows - num_rows) : \E batch \in Batch(n) :
        result' = [schema |-> IF result.schema = None THEN schema ELSE result.schema,
                   batches |-> Append(result.batches, batch)]
    /\ UNCHANGED <<schema, reader, batch_idx, row_idx, items, ended>>

\* The stream is over: without a batch, the schema is `Schema::empty()`.
Collected ==
    /\ reader = "none"
    /\ result' = [result EXCEPT !.schema = IF @ = None THEN <<>> ELSE @]
    /\ reader' \in {"iter", "rows"}
    /\ UNCHANGED <<schema, batch_idx, row_idx, items, ended>>

-----------------------------------------------------------------------------
(* QueryIterator                                                           *)

columns == [c \in DOMAIN result.schema |-> result.schema[c].name]

\* Mutant of index: the first column of a name keeps it.
indexOfFirst ==
    [name \in ToSet(columns) |-> Min({c \in DOMAIN columns : columns[c] = name})]

\* Collecting zipped names and values into a map: of the pairs with one name the
\* last replaces the others.
Mapped(names, values) ==
    LET pairs == DOMAIN names \cap DOMAIN values
    IN  [name \in {names[i] : i \in pairs} |->
            values[Max({i \in pairs : names[i] = name})]]

\* The position of each name.
index == Mapped(columns, [c \in DOMAIN columns |-> c])

is_null(array, slot) == slot \notin array.valid

\* The null check, then the arm of the type of the array.
primitive(array, slot, value) ==
    IF is_null(array, slot) THEN Null
    ELSE IF array.type = "known" THEN value ELSE Err

\* Mutant of extract_value: the key is resolved before the null check.
extract_valueKeyFirst(b, c, row) ==
    LET array == result.batches[b].columns[c]
        slot == IF array.type = "Dictionary" THEN array.keys[row] ELSE row
    IN  primitive(IF array.type = "Dictionary" THEN array.values ELSE array,
                  slot, <<b, c, slot>>)

\* A dictionary's key is resolved in its values, one of which may be null too.
extract_value(b, c, row) ==
    LET array == result.batches[b].columns[c]
    IN  IF array.type # "Dictionary" THEN primitive(array, row, <<b, c, row>>)
        ELSE IF is_null(array, row) THEN Null
        ELSE primitive(array.values, array.keys[row], <<b, c, array.keys[row]>>)

\* The values of a row, or the first error among them.
Row(b, row) ==
    LET values == [c \in DOMAIN result.batches[b].columns |-> extract_value(b, c, row)]
    IN  IF \E c \in DOMAIN values : values[c] = Err THEN Err ELSE values

\* Mutant of Seek: at most one batch is passed.
SeekOnce ==
    IF batch_idx <= Len(result.batches) /\ row_idx >= result.batches[batch_idx].num_rows
    THEN [batch_idx |-> batch_idx + 1, row_idx |-> 0]
    ELSE [batch_idx |-> batch_idx, row_idx |-> row_idx]

\* The while loop at the head of `next`: pass what has no row left.
Seek ==
    LET left == {b \in batch_idx..Len(result.batches) :
                    (IF b = batch_idx THEN row_idx ELSE 0) < result.batches[b].num_rows}
        b == IF left = {} THEN Len(result.batches) + 1 ELSE Min(left)
    IN  [batch_idx |-> b, row_idx |-> IF b = batch_idx THEN row_idx ELSE 0]

\* `next` yields the row it stands on.
NextRow ==
    /\ reader # "none" /\ ~ended
    /\ Seek.batch_idx <= Len(result.batches)
    /\ batch_idx' = Seek.batch_idx
    /\ row_idx' = Seek.row_idx + 1
    /\ items' = Append(items, Row(Seek.batch_idx, Seek.row_idx + 1))
    \* Collecting into a Result stops at the first error.
    /\ ended' = (reader = "rows" /\ Last(items') = Err)
    /\ UNCHANGED <<schema, result, reader>>

\* `next` returns None.
NextNone ==
    /\ reader # "none" /\ ~ended
    /\ Seek.batch_idx > Len(result.batches)
    /\ batch_idx' = Seek.batch_idx
    /\ row_idx' = Seek.row_idx
    /\ ended' = TRUE
    /\ UNCHANGED <<schema, result, reader, items>>

Next == Collect \/ Collected \/ NextRow \/ NextNone

Spec == Init /\ [][Next]_vars

-----------------------------------------------------------------------------
(* Row and QueryResult                                                     *)

get(row, name) ==
    IF name \in DOMAIN index /\ index[name] \in DOMAIN row THEN row[index[name]] ELSE None

into_map(row) == Mapped(columns, row)

\* What `rows()` returns.
rows == IF \E i \in DOMAIN items : items[i] = Err THEN Err ELSE items

-----------------------------------------------------------------------------
(* Properties                                                              *)

\* The cell of a column in a row of a batch, as Arrow defines it: a null is
\* null in the mask of the column or in the dictionary.
Cell(b, c, row) ==
    LET array == result.batches[b].columns[c]
        isDict == array.type = "Dictionary"
        slot == IF isDict THEN array.keys[row] ELSE row
        holder == IF isDict THEN array.values ELSE array
    IN  [null |-> row \notin array.valid \/ slot \notin holder.valid,
         decodable |-> holder.type = "known", value |-> <<b, c, slot>>]

\* The rows of the answer: batch and row of each, in order.
AllRows == FlattenSeq([b \in DOMAIN result.batches |->
    [row \in 1..result.batches[b].num_rows |-> <<b, row>>]])

Undecodable(at) == \E c \in DOMAIN schema :
    LET cell == Cell(at[1], c, at[2]) IN ~cell.null /\ ~cell.decodable

\* Item i is row i of the answer, with its own cells in the order of the
\* columns, or the error that one of them has no Rust value: empty batches are
\* passed, however many, and iteration goes on after a row it cannot decode
\* (QueryIterator::next, extract_value).  None comes after the last row.
EveryRowOnce ==
    /\ Len(items) <= Len(AllRows)
    /\ \A i \in DOMAIN items :
        IF Undecodable(AllRows[i]) THEN items[i] = Err
        ELSE /\ Len(items[i]) = Len(schema)
             /\ \A c \in DOMAIN schema :
                    LET cell == Cell(AllRows[i][1], c, AllRows[i][2])
                    IN  items[i][c] = IF cell.null THEN Null ELSE cell.value
    /\ reader = "iter" /\ ended => Len(items) = num_rows

\* `rows()` gives all the rows or none: Ok with every row of the answer, or
\* the error of the first row that cannot be decoded, after which it does not
\* look at the answer any more (QueryResult::rows).
RowsAllOrNothing == reader = "rows" /\ ended =>
    IF \E i \in DOMAIN AllRows : Undecodable(AllRows[i])
    THEN /\ rows = Err
         /\ Undecodable(AllRows[Len(items)])
         /\ \A i \in 1..(Len(items) - 1) : ~Undecodable(AllRows[i])
    ELSE rows = items /\ Len(items) = num_rows

\* The ways to look a value up in a row agree: by name (`get`, `row["name"]`)
\* and in the map (`into_map`), also where two columns have one name; and each
\* name finds the value of a column that has it.
NamesAgree == \A i \in DOMAIN items : items[i] # Err =>
    LET row == items[i]
    IN  /\ DOMAIN into_map(row) = ToSet(columns)
        /\ \A name \in ToSet(columns) :
            /\ get(row, name) = into_map(row)[name]
            /\ \E c \in DOMAIN columns : columns[c] = name /\ row[c] = get(row, name)
=============================================================================

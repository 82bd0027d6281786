--------------------------- MODULE QueryRowsProofs ----------------------------
(***************************************************************************)
(* Proofs about QueryRows, for answers of any number of record batches and *)
(* rows, of any schemas: as many items were yielded as there are rows      *)
(* before the place of the iterator (Placed), and each is the row of that  *)
(* number (InTheirPlaces).                                                 *)
(***************************************************************************)
EXTENDS QueryRows, DataLemmas

AnyBatch == UNION {Batch(n) : n \in Nat}
Values == [DOMAIN schema -> Value \cup {Null}]

RowsTypeOK ==
    /\ schema \in Schemas
    /\ result \in [schema : Schemas \cup {<<>>, None}, batches : Seq(AnyBatch)]
    /\ reader \in {"none", "iter", "rows"}
    /\ batch_idx \in 1..(Len(result.batches) + 1)
    /\ row_idx \in Nat
    /\ items \in Seq(Values \cup {Err})
    /\ ended \in BOOLEAN

\* The answer has the schema of its batches; nothing is read while it is collected.
Gathered ==
    /\ result.batches # <<>> => result.schema = schema
    /\ reader = "none" =>
        /\ result.batches = <<>> => result.schema = None
        /\ batch_idx = 1 /\ row_idx = 0 /\ items = <<>> /\ ~ended

\* Where the iterator stands is where what it has yielded ends.
Placed == reader # "none" =>
    /\ row_idx <= IF batch_idx <= Len(result.batches)
                  THEN result.batches[batch_idx].num_rows ELSE 0
    /\ Len(items) = rows_of_first(result.batches)[batch_idx - 1] + row_idx
    /\ Len(items) <= num_rows

IsRow(b, row) == b \in DOMAIN result.batches /\ row \in 1..result.batches[b].num_rows

InTheirPlaces == \A i \in DOMAIN items : \E b, row :
    /\ IsRow(b, row)
    /\ AllRows[i] = <<b, row>>
    /\ items[i] = Row(b, row)

\* Where the reading ends: after the last row or, in `rows`, at the first error.
EndsWhere ==
    /\ reader = "iter" /\ ended => Len(items) = num_rows
    /\ reader = "rows" =>
        /\ \A i \in 1..(Len(items) - 1) : items[i] # Err
        /\ ended => \/ items # <<>> /\ items[Len(items)] = Err
                    \/ Len(items) = num_rows
        /\ ~ended /\ items # <<>> => items[Len(items)] # Err

RowsInv == RowsTypeOK /\ Gathered /\ Placed /\ InTheirPlaces /\ EndsWhere

-----------------------------------------------------------------------------
(* The rows of an answer                                                   *)

\* A record batch has an array for each column of the schema.
LEMMA BatchShape ==
    ASSUME schema \in Schemas, NEW batch \in AnyBatch
    PROVE  /\ batch.num_rows \in Nat
           /\ DOMAIN batch.columns = DOMAIN schema
           /\ \A c \in DOMAIN schema :
                batch.columns[c] \in Arrays(schema[c], batch.num_rows)
  <1>1. PICK n \in Nat : batch \in Batch(n)
    BY DEF AnyBatch
  <1>2. batch.num_rows = n
    BY <1>1 DEF Batch
  <1>3. /\ batch.columns \in [DOMAIN schema -> UNION {Arrays(schema[c], n) : c \in DOMAIN schema}]
        /\ \A c \in DOMAIN schema : batch.columns[c] \in Arrays(schema[c], n)
    BY <1>1 DEF Batch
  <1> QED
    BY <1>2, <1>3

LEMMA RowsOfFirst ==
    ASSUME RowsTypeOK
    PROVE  LET n == Len(result.batches)
               before == rows_of_first(result.batches)
           IN  /\ before \in [0..n -> Nat]
               /\ before[0] = 0
               /\ \A k \in 1..n : before[k] = before[k - 1] + result.batches[k].num_rows
  <1> DEFINE n == Len(result.batches)
             before == rows_of_first(result.batches)
             size == [k \in 1..n |-> result.batches[k].num_rows]
             Eqn(f) == f = [b \in 0..n |-> IF b = 0 THEN 0
                                           ELSE f[b - 1] + result.batches[b].num_rows]
  <1>1. n \in Nat /\ \A k \in 1..n : result.batches[k] \in AnyBatch
    BY DEF RowsTypeOK
  <1>2. \A k \in 1..n : result.batches[k].num_rows \in Nat
    BY <1>1, BatchShape DEF RowsTypeOK
  <1>3. size \in [1..n -> Nat]
    BY <1>2
  <1>4. ASSUME NEW f
        PROVE  IsSum(f, n, size) <=> Eqn(f)
    <2>1. \A b \in 0..n : b # 0 => size[b] = result.batches[b].num_rows
      BY <1>1
    <2>2. [b \in 0..n |-> IF b = 0 THEN 0 ELSE f[b - 1] + size[b]]
            = [b \in 0..n |-> IF b = 0 THEN 0 ELSE f[b - 1] + result.batches[b].num_rows]
      <3> HIDE DEF size
      <3> QED
        BY <2>1
    <2> HIDE DEF size
    <2> QED
      BY <2>2 DEF IsSum
  <1> HIDE DEF size
  <1>5. \E f : Eqn(f)
    <2> HIDE DEF Eqn, n
    <2> QED
      BY <1>1, <1>3, <1>4, Sums
  <1>6. before = CHOOSE f : Eqn(f)
    BY DEF rows_of_first
  <1> HIDE DEF Eqn, before, n
  <1>7. Eqn(before)
    BY <1>5, <1>6
  <1>8. /\ before \in [0..n -> Nat] /\ before[0] = 0
        /\ \A k \in 1..n : before[k] = before[k - 1] + size[k]
    BY <1>1, <1>3, <1>4, <1>7, Sums
  <1> QED
    BY <1>8 DEF size, n, before

\* AllRows has the rows of each batch after those of the batches before it.
LEMMA AllRowsAt ==
    ASSUME RowsTypeOK
    PROVE  /\ AllRows \in Seq(Nat \X Nat)
           /\ Len(AllRows) = num_rows
           /\ \A b, row : IsRow(b, row) =>
                LET place == rows_of_first(result.batches)[b - 1] + row
                IN  place \in 1..num_rows /\ AllRows[place] = <<b, row>>
  <1> DEFINE n == Len(result.batches)
             before == rows_of_first(result.batches)
             ss == [b \in DOMAIN result.batches |->
                        [row \in 1..result.batches[b].num_rows |-> <<b, row>>]]
  <1>1. /\ n \in Nat /\ DOMAIN result.batches = 1..n
        /\ \A k \in 1..n : result.batches[k].num_rows \in Nat
    <2>1. n \in Nat /\ DOMAIN result.batches = 1..n /\ \A k \in 1..n : result.batches[k] \in AnyBatch
      BY DEF RowsTypeOK
    <2> QED
      BY <2>1, BatchShape DEF RowsTypeOK
  <1>2. ASSUME NEW b \in 1..n
        PROVE  /\ ss[b] \in Seq(Nat \X Nat)
               /\ Len(ss[b]) = result.batches[b].num_rows
               /\ \A row \in 1..result.batches[b].num_rows : ss[b][row] = <<b, row>>
    <2>1. ss[b] = [row \in 1..result.batches[b].num_rows |-> <<b, row>>]
      BY <1>1
    <2>2. \A row \in 1..result.batches[b].num_rows : <<b, row>> \in Nat \X Nat
      BY <1>1
    <2> HIDE DEF ss
    <2> QED
      BY <1>1, <2>1, <2>2
  <1>3. ss \in Seq(Seq(Nat \X Nat)) /\ Len(ss) = n
    <2> DEFINE V == Seq(Nat \X Nat)
    <2>1. ss = [b \in 1..n |-> ss[b]]
      BY <1>1
    <2>2. \A b \in 1..n : ss[b] \in V
      BY <1>2
    <2> HIDE DEF ss, n, V
    <2>3. ss \in [1..n -> V]
      BY <2>1, <2>2
    <2>4. ss \in Seq(V) /\ Len(ss) = n
      BY <1>1, <2>3
    <2> QED
      BY <2>4 DEF V
  <1>4. /\ before \in [0..n -> Nat] /\ before[0] = 0
        /\ \A k \in 1..n : before[k] = before[k - 1] + result.batches[k].num_rows
    BY RowsOfFirst
  <1>5. AllRows = FlattenSeq(ss) /\ num_rows = before[n]
    BY DEF AllRows, num_rows
  <1>6. \A k \in 1..n : before[k] = before[k - 1] + Len(ss[k])
    BY <1>2, <1>4
  <1> HIDE DEF ss, before, n
  <1>7. /\ FlattenSeq(ss) \in Seq(Nat \X Nat)
        /\ Len(FlattenSeq(ss)) = before[n]
        /\ \A k \in 1..n : \A j \in 1..Len(ss[k]) :
             /\ before[k - 1] + j \in 1..before[n]
             /\ FlattenSeq(ss)[before[k - 1] + j] = ss[k][j]
    <2> DEFINE T == Nat \X Nat
    <2>1. ss \in Seq(Seq(T)) /\ AreCounted(ss, before)
      BY <1>3, <1>4, <1>6 DEF AreCounted
    <2> HIDE DEF T
    <2>2. FlattenSeq(ss) \in Seq(T) /\ LieIn(FlattenSeq(ss), ss, before)
      BY <2>1, FlattenAt
    <2> QED
      BY <1>3, <2>2 DEF T, LieIn
  <1>8. ASSUME NEW b, NEW row, IsRow(b, row)
        PROVE  before[b - 1] + row \in 1..num_rows /\ AllRows[before[b - 1] + row] = <<b, row>>
    <2>1. b \in 1..n /\ row \in 1..result.batches[b].num_rows
      BY <1>1, <1>8 DEF IsRow
    <2>2. row \in 1..Len(ss[b]) /\ ss[b][row] = <<b, row>>
      BY <1>2, <2>1
    <2> QED
      BY <1>5, <1>7, <2>1, <2>2
  <1> QED
    BY <1>5, <1>7, <1>8 DEF before

\* What `extract_value` makes of a cell.
LEMMA ExtractedIs ==
    ASSUME NEW b, NEW c, NEW row
    PROVE  LET cell == Cell(b, c, row)
           IN  extract_value(b, c, row) = IF cell.null THEN Null
                                          ELSE IF cell.decodable THEN cell.value ELSE Err
  <1> DEFINE array == result.batches[b].columns[c]
  <1>1. CASE array.type # "Dictionary"
    BY <1>1 DEF extract_value, primitive, is_null, Cell
  <1>2. CASE array.type = "Dictionary"
    BY <1>2 DEF extract_value, primitive, is_null, Cell
  <1> QED
    BY <1>1, <1>2

\* A row is the error or all its values.
LEMMA RowIs ==
    ASSUME RowsTypeOK, NEW b, NEW row, IsRow(b, row)
    PROVE  /\ Row(b, row) \in Values \cup {Err}
           /\ Row(b, row) = Err <=> Undecodable(<<b, row>>)
           /\ Row(b, row) # Err => \A c \in DOMAIN schema :
                LET cell == Cell(b, c, row)
                IN  Row(b, row)[c] = IF cell.null THEN Null ELSE cell.value
  <1> DEFINE array(c) == result.batches[b].columns[c]
             values == [c \in DOMAIN result.batches[b].columns |-> extract_value(b, c, row)]
             cell(c) == Cell(b, c, row)
  <1>1. /\ schema \in Schemas /\ result.batches[b] \in AnyBatch
        /\ b \in Nat /\ row \in 1..result.batches[b].num_rows
    BY DEF RowsTypeOK, IsRow
  <1>2. /\ DOMAIN result.batches[b].columns = DOMAIN schema
        /\ row \in Nat
        /\ \A c \in DOMAIN schema :
                array(c) \in Arrays(schema[c], result.batches[b].num_rows)
    BY <1>1, BatchShape
  <1>3. \A c \in DOMAIN schema : c \in Nat
    BY <1>1, ConstantsAssumption
  <1>4. \A c \in DOMAIN schema : cell(c).value \in Value
    <2> SUFFICES ASSUME NEW c \in DOMAIN schema PROVE cell(c).value \in Value
      OBVIOUS
    <2>1. CASE array(c).type = "Dictionary"
      <3>1. array(c).keys \in [1..result.batches[b].num_rows -> Slot]
        <4>1. array(c) \in Arrays(schema[c], result.batches[b].num_rows)
          BY <1>2
        <4>2. CASE schema[c].type = "Dictionary"
          BY <4>1, <4>2 DEF Arrays
        <4>3. CASE schema[c].type = "Null"
          BY <2>1, <4>1, <4>3 DEF Arrays
        <4>4. CASE schema[c].type \notin {"Null", "Dictionary"}
          BY <2>1, <4>1, <4>4 DEF Arrays
        <4> QED
          BY <4>2, <4>3, <4>4
      <3>2. array(c).keys[row] \in Nat
        BY <1>1, <3>1, ConstantsAssumption
      <3>3. cell(c).value = <<b, c, array(c).keys[row]>>
        BY <2>1 DEF Cell
      <3> QED
        BY <1>1, <1>3, <3>2, <3>3 DEF Value
    <2>2. CASE array(c).type # "Dictionary"
      <3>1. cell(c).value = <<b, c, row>>
        BY <2>2 DEF Cell
      <3> QED
        BY <1>1, <1>2, <1>3, <3>1 DEF Value
    <2> QED
      BY <2>1, <2>2
  <1>5. \A c \in DOMAIN schema : values[c] = IF cell(c).null THEN Null
                                 ELSE IF cell(c).decodable THEN cell(c).value ELSE Err
    BY <1>2, ExtractedIs
  <1>6. DOMAIN values = DOMAIN schema
    BY <1>2
  <1>7. Row(b, row) = IF \E c \in DOMAIN values : values[c] = Err THEN Err ELSE values
    BY DEF Row
  <1>8. Undecodable(<<b, row>>) <=> \E c \in DOMAIN schema : ~cell(c).null /\ ~cell(c).decodable
    BY DEF Undecodable
  <1>9. values = [c \in DOMAIN schema |-> values[c]]
    BY <1>2
  <1>10. Err \notin Value \cup {Null} /\ Err \notin Values
    BY <1>1, ConstantsAssumption DEF Values
  <1> HIDE DEF values, cell
  <1>11. \A c \in DOMAIN schema : values[c] = Err <=> ~cell(c).null /\ ~cell(c).decodable
    BY <1>4, <1>5, <1>10
  <1>12. (\E c \in DOMAIN values : values[c] = Err) <=> Undecodable(<<b, row>>)
    BY <1>6, <1>8, <1>11
  <1>13. ASSUME ~Undecodable(<<b, row>>)
         PROVE  /\ values \in Values
                /\ \A c \in DOMAIN schema : values[c] = IF cell(c).null THEN Null ELSE cell(c).value
    <2>1. \A c \in DOMAIN schema : values[c] = IF cell(c).null THEN Null ELSE cell(c).value
      BY <1>5, <1>8, <1>13
    <2>2. \A c \in DOMAIN schema : values[c] \in Value \cup {Null}
      BY <1>4, <2>1
    <2> QED
      BY <1>9, <2>1, <2>2 DEF Values
  <1>14. Row(b, row) = IF Undecodable(<<b, row>>) THEN Err ELSE values
    BY <1>7, <1>12
  <1> QED
    BY <1>10, <1>13, <1>14 DEF cell

\* The place that `next` goes to has as many rows before it as the place it
\* leaves, and a row of its own unless the batches are over.
LEMMA SeekSkips ==
    ASSUME RowsInv, reader # "none"
    PROVE  LET n == Len(result.batches)
               b == Seek.batch_idx
               row == Seek.row_idx
           IN  /\ b \in 1..(n + 1) /\ row \in Nat
               /\ rows_of_first(result.batches)[b - 1] + row = Len(items)
               /\ b <= n => row < result.batches[b].num_rows
               /\ b > n => row = 0
  <1> DEFINE n == Len(result.batches)
             before == rows_of_first(result.batches)
             left == {k \in batch_idx..n :
                        (IF k = batch_idx THEN row_idx ELSE 0) < result.batches[k].num_rows}
             b == IF left = {} THEN n + 1 ELSE Min(left)
             row == IF b = batch_idx THEN row_idx ELSE 0
  <1>1. Seek.batch_idx = b /\ Seek.row_idx = row
    BY DEF Seek
  <1>2. /\ n \in Nat /\ batch_idx \in 1..(n + 1) /\ row_idx \in Nat
        /\ \A k \in 1..n : result.batches[k].num_rows \in Nat
    <2>1. \A k \in 1..n : result.batches[k] \in AnyBatch
      BY DEF RowsInv, RowsTypeOK
    <2> QED
      BY <2>1, BatchShape DEF RowsInv, RowsTypeOK
  <1>3. /\ before \in [0..n -> Nat] /\ before[0] = 0
        /\ \A k \in 1..n : before[k] = before[k - 1] + result.batches[k].num_rows
    BY RowsOfFirst DEF RowsInv
  <1>4. /\ row_idx <= IF batch_idx <= n THEN result.batches[batch_idx].num_rows ELSE 0
        /\ Len(items) = before[batch_idx - 1] + row_idx
    BY DEF RowsInv, Placed
  <1> HIDE DEF before, n
  <1>5. /\ b \in batch_idx..(n + 1)
        /\ b <= n => b \in left
        /\ \A k \in batch_idx..(b - 1) : k \in 1..n /\ k \notin left
    <2>1. CASE left = {}
      BY <1>2, <2>1
    <2>2. CASE left # {}
      <3>1. left \in SUBSET Nat
        BY <1>2
      <3>2. Min(left) \in left /\ \A y \in left : Min(left) <= y
        BY <2>2, <3>1, MinIsLeast
      <3>3. b = Min(left) /\ b \in batch_idx..n
        BY <2>2, <3>2
      <3> HIDE DEF b
      <3>4. \A k \in batch_idx..(b - 1) : k \in 1..n
        BY <1>2, <3>3
      <3>5. \A k \in batch_idx..(b - 1) : k \notin left
        <4> SUFFICES ASSUME NEW k \in batch_idx..(b - 1), k \in left PROVE FALSE
          OBVIOUS
        <4>1. b <= k /\ b \in Int /\ k \in Int
          BY <1>2, <3>2, <3>3
        <4> QED
          BY <4>1
      <3> QED
        BY <1>2, <3>2, <3>3, <3>4, <3>5
    <2> QED
      BY <2>1, <2>2
  <1>6. CASE b = batch_idx
    <2>1. row = row_idx
      BY <1>6
    <2>2. b <= n => row < result.batches[b].num_rows
      BY <1>5, <1>6
    <2>3. b > n => row = 0
      BY <1>2, <1>4, <1>6
    <2> HIDE DEF b, row
    <2> QED
      BY <1>1, <1>2, <1>4, <1>6, <2>1, <2>2, <2>3 DEF n, before
  <1>7. CASE b # batch_idx
    <2>1. row = 0 /\ b \in (batch_idx + 1)..(n + 1) /\ b \in Int
      BY <1>2, <1>5, <1>7
    <2>2. ASSUME NEW k \in batch_idx..(b - 1)
          PROVE  /\ k \in 1..n /\ k \in Nat
                 /\ result.batches[k].num_rows = IF k = batch_idx THEN row_idx ELSE 0
      <3>1. k \in 1..n /\ k \in batch_idx..n /\ k \notin left
        BY <1>2, <1>5, <2>1
      <3>2. ~((IF k = batch_idx THEN row_idx ELSE 0) < result.batches[k].num_rows)
        BY <3>1
      <3>3. result.batches[k].num_rows \in Nat
        BY <1>2, <3>1
      <3>4. k = batch_idx => row_idx <= result.batches[k].num_rows
        BY <1>4, <3>1
      <3> QED
        BY <1>2, <3>1, <3>2, <3>3, <3>4
    <2>3. b <= n => 0 < result.batches[b].num_rows
      BY <1>5, <1>7
    <2> HIDE DEF b, row, left
    <2> DEFINE d == b - 1 - batch_idx
               S == {m \in 0..d : before[batch_idx + m] = Len(items)}
    <2>4. d \in Nat /\ batch_idx \in batch_idx..(b - 1)
      BY <1>2, <2>1
    <2>5. 0 \in S
      <3>1. before[batch_idx] = before[batch_idx - 1] + row_idx
        BY <1>3, <2>2, <2>4
      <3> QED
        BY <1>2, <1>4, <2>4, <3>1
    <2>6. ASSUME NEW m \in 0..(d - 1), m \in S
          PROVE  m + 1 \in S
      <3> DEFINE k == batch_idx + m + 1
      <3>1. /\ k \in batch_idx..(b - 1) /\ k # batch_idx /\ k - 1 = batch_idx + m
            /\ m + 1 \in 0..d /\ batch_idx + (m + 1) = k
        BY <1>2, <2>1, <2>4
      <3>2. k \in 1..n /\ result.batches[k].num_rows = 0
        BY <2>2, <3>1
      <3>3. before[k] = before[k - 1] /\ before[k - 1] = Len(items)
        <4>1. before[k] = before[k - 1] + 0
          BY <1>3, <3>2
        <4>2. k - 1 \in 0..n
          BY <1>2, <3>2
        <4>3. before[k - 1] \in Nat
          BY <1>3, <4>2
        <4>4. before[k - 1] = Len(items)
          BY <2>6, <3>1
        <4> HIDE DEF k
        <4> QED
          BY <4>1, <4>3, <4>4
      <3> QED
        BY <3>1, <3>3
    <2>7. S \in SUBSET (0..d)
      OBVIOUS
    <2> HIDE DEF S
    <2>8. d \in S
      <3> HIDE DEF d
      <3>1. S = 0..d
        BY <2>4, <2>5, <2>6, <2>7, UpTo
      <3> QED
        BY <2>4, <3>1
    <2>9. before[b - 1] = Len(items)
      <3>1. batch_idx + d = b - 1
        BY <1>2, <2>1
      <3> QED
        BY <2>8, <3>1 DEF S
    <2>10. Len(items) \in Nat
      BY DEF RowsInv, RowsTypeOK
    <2>11. b \in 1..(n + 1) /\ before[b - 1] + row = Len(items)
      BY <1>2, <2>1, <2>9, <2>10
    <2> QED
      BY <1>1, <2>1, <2>3, <2>11 DEF n, before
  <1> QED
    BY <1>6, <1>7

-----------------------------------------------------------------------------
(* The inductive invariant                                                 *)

LEMMA InitRowsInv == Init => RowsInv
  <1> SUFFICES ASSUME Init PROVE RowsInv
    OBVIOUS
  <1>1. RowsTypeOK
    <2>1. <<>> \in Seq(AnyBatch) /\ <<>> \in Seq(Values \cup {Err}) /\ Len(<<>>) = 0
      OBVIOUS
    <2>2. result \in [schema : Schemas \cup {<<>>, None}, batches : Seq(AnyBatch)]
      BY <2>1 DEF Init
    <2>3. batch_idx \in 1..(Len(result.batches) + 1)
      BY <2>1 DEF Init
    <2> QED
      BY <2>1, <2>2, <2>3 DEF Init, RowsTypeOK
  <1> QED
    BY <1>1 DEF Init, RowsInv, Gathered, Placed, InTheirPlaces, EndsWhere

LEMMA CollectKeeps ==
    ASSUME RowsInv, Collect
    PROVE  RowsInv'
  <1>1. /\ RowsTypeOK /\ reader = "none"
        /\ UNCHANGED <<schema, reader, batch_idx, row_idx, items, ended>>
    BY DEF RowsInv, Collect
  <1>2. num_rows \in Nat
    <2>1. AllRows \in Seq(Nat \X Nat) /\ Len(AllRows) = num_rows
      BY <1>1, AllRowsAt
    <2> QED
      BY <2>1
  <1>3. PICK n \in 0..(MaxRows - num_rows) : \E batch \in Batch(n) :
          result' = [schema |-> IF result.schema = None THEN schema ELSE result.schema,
                     batches |-> Append(result.batches, batch)]
    BY DEF Collect
  <1>4. n \in Nat
    BY <1>2, ConstantsAssumption
  <1>5. PICK batch \in Batch(n) :
          result' = [schema |-> IF result.schema = None THEN schema ELSE result.schema,
                     batches |-> Append(result.batches, batch)]
    BY <1>3
  <1>6. batch \in AnyBatch /\ AnyBatch' = AnyBatch
    BY <1>1, <1>4 DEF AnyBatch, Batch
  <1>7. /\ result'.schema = schema
        /\ result'.batches = Append(result.batches, batch)
    BY <1>1, <1>5 DEF RowsInv, Gathered
  <1>8. /\ result.batches \in Seq(AnyBatch) /\ schema \in Schemas
        /\ batch_idx = 1 /\ row_idx = 0 /\ items = <<>> /\ ~ended
    BY <1>1 DEF RowsInv, RowsTypeOK, Gathered
  <1>9. /\ result'.batches \in Seq(AnyBatch)
        /\ result'.batches # <<>>
        /\ Len(result'.batches) \in Nat
    BY <1>6, <1>7, <1>8
  <1>10. RowsTypeOK'
    <2>1. Values' = Values
      BY <1>1 DEF Values
    <2>2. result' \in [schema : Schemas \cup {<<>>, None}, batches : Seq(AnyBatch)]
      BY <1>5, <1>7, <1>8, <1>9
    <2> QED
      BY <1>1, <1>6, <1>8, <1>9, <2>1, <2>2 DEF RowsTypeOK
  <1>11. Gathered'
    BY <1>1, <1>7, <1>8, <1>9 DEF Gathered
  <1>12. Placed' /\ InTheirPlaces' /\ EndsWhere'
    BY <1>1, <1>8 DEF Placed, InTheirPlaces, EndsWhere
  <1> QED
    BY <1>10, <1>11, <1>12 DEF RowsInv

LEMMA CollectedKeeps ==
    ASSUME RowsInv, Collected
    PROVE  RowsInv'
  <1>1. /\ RowsTypeOK /\ reader = "none" /\ reader' \in {"iter", "rows"}
        /\ result' = [result EXCEPT !.schema = IF @ = None THEN <<>> ELSE @]
        /\ UNCHANGED <<schema, batch_idx, row_idx, items, ended>>
    BY DEF RowsInv, Collected
  <1>2. batch_idx = 1 /\ row_idx = 0 /\ items = <<>> /\ ~ended
    BY <1>1 DEF RowsInv, Gathered
  <1>3. /\ result'.batches = result.batches
        /\ result'.schema = IF result.schema = None THEN <<>> ELSE result.schema
        /\ result' \in [schema : Schemas \cup {<<>>, None}, batches : Seq(AnyBatch)]
    BY <1>1 DEF RowsTypeOK
  <1>4. RowsTypeOK'
    BY <1>1, <1>3 DEF RowsTypeOK, Values, AnyBatch, Batch
  <1>5. Gathered'
    <2>1. result.batches # <<>> => result.schema = schema /\ schema # None
      BY <1>1, ConstantsAssumption DEF RowsInv, Gathered, RowsTypeOK
    <2> QED
      BY <1>1, <1>3, <2>1 DEF Gathered
  <1>6. Placed'
    <2>1. /\ rows_of_first(result.batches) \in [0..Len(result.batches) -> Nat]
          /\ rows_of_first(result.batches)[0] = 0
      BY <1>1, RowsOfFirst
    <2>2. Len(result.batches) \in Nat /\ num_rows \in Nat
      <3>1. Len(result.batches) \in Nat
        BY <1>1 DEF RowsTypeOK
      <3> QED
        BY <2>1, <3>1 DEF num_rows
    <2>3. 1 <= Len(result.batches) => result.batches[1].num_rows \in Nat
      <3>1. 1 <= Len(result.batches) => result.batches[1] \in AnyBatch
        BY <1>1 DEF RowsTypeOK
      <3> QED
        BY <1>1, <3>1, BatchShape DEF RowsTypeOK
    <2>4. \A batches : rows_of_first(batches)' = rows_of_first(batches')
      BY DEF rows_of_first
    <2>5. rows_of_first(result.batches)' = rows_of_first(result.batches) /\ num_rows' = num_rows
      BY <1>3, <2>4 DEF num_rows
    <2>6. 1 - 1 = 0 /\ Len(items) = 0
      BY <1>2
    <2> HIDE DEF num_rows, rows_of_first
    <2> QED
      BY <1>1, <1>2, <1>3, <2>1, <2>2, <2>3, <2>5, <2>6 DEF Placed
  <1>7. InTheirPlaces' /\ EndsWhere'
    <2>1. items' = <<>> /\ ~ended' /\ Len(<<>>) = 0
      BY <1>1, <1>2
    <2> QED
      BY <2>1 DEF InTheirPlaces, EndsWhere
  <1> QED
    BY <1>4, <1>5, <1>6, <1>7 DEF RowsInv

\* The rows of an answer are the rows of its batches.
LEMMA SameRows ==
    ASSUME UNCHANGED result
    PROVE  /\ \A b, row : Row(b, row)' = Row(b, row) /\ (IsRow(b, row)' <=> IsRow(b, row))
           /\ AllRows' = AllRows
  BY DEF Row, extract_value, IsRow, AllRows

LEMMA NextRowKeeps ==
    ASSUME RowsInv, NextRow
    PROVE  RowsInv'
  <1> DEFINE n == Len(result.batches)
             b == Seek.batch_idx
             row == Seek.row_idx + 1
             before == rows_of_first(result.batches)
             item == Row(b, row)
  <1>1. /\ RowsTypeOK /\ reader # "none" /\ ~ended /\ b <= n
        /\ batch_idx' = b /\ row_idx' = row
        /\ items' = Append(items, item)
        /\ ended' = (reader = "rows" /\ Last(items') = Err)
        /\ UNCHANGED <<schema, result, reader>>
    BY DEF RowsInv, NextRow
  <1>2. /\ b \in 1..(n + 1) /\ row \in Nat /\ row >= 1
        /\ before[b - 1] + row = Len(items) + 1
        /\ row <= result.batches[b].num_rows
    <2>1. /\ b \in 1..(n + 1) /\ Seek.row_idx \in Nat
          /\ before[b - 1] + Seek.row_idx = Len(items)
          /\ b <= n => Seek.row_idx < result.batches[b].num_rows
      BY <1>1, SeekSkips
    <2>2. n \in Nat /\ (b <= n => b \in 1..n /\ b - 1 \in 0..n)
      BY <2>1 DEF RowsInv, RowsTypeOK
    <2>3. before[b - 1] \in Nat
      BY <1>1, <2>2, RowsOfFirst
    <2>4. result.batches[b].num_rows \in Nat
      <3>1. result.batches[b] \in AnyBatch
        BY <1>1, <2>2 DEF RowsTypeOK
      <3> QED
        BY <1>1, <3>1, BatchShape DEF RowsTypeOK
    <2> HIDE DEF before, b, n
    <2>5. before[b - 1] + row = Len(items) + 1
      BY <2>1, <2>3
    <2> QED
      BY <1>1, <2>1, <2>2, <2>4, <2>5
  <1> HIDE DEF b, row, before, n, item
  <1>3. IsRow(b, row)
    <2>1. DOMAIN result.batches = 1..n /\ n \in Nat
      BY <1>1 DEF RowsTypeOK, n
    <2>2. b \in 1..n
      BY <1>1, <1>2, <2>1
    <2>3. result.batches[b].num_rows \in Nat
      <3>1. result.batches[b] \in AnyBatch
        BY <1>1, <2>2 DEF RowsTypeOK, n
      <3> QED
        BY <1>1, <3>1, BatchShape DEF RowsTypeOK
    <2> QED
      BY <1>2, <2>1, <2>2, <2>3 DEF IsRow
  <1>4. item \in Values \cup {Err}
    BY <1>1, <1>3, RowIs DEF item
  <1>5. Len(items) + 1 <= num_rows /\ AllRows[Len(items) + 1] = <<b, row>>
    <2>1. before[b - 1] + row \in 1..num_rows /\ AllRows[before[b - 1] + row] = <<b, row>>
      BY <1>1, <1>3, AllRowsAt DEF before
    <2>2. num_rows \in Nat
      <3>1. AllRows \in Seq(Nat \X Nat) /\ Len(AllRows) = num_rows
        BY <1>1, AllRowsAt
      <3> QED
        BY <3>1
    <2> QED
      BY <1>2, <2>1, <2>2
  <1>6. /\ Len(items) \in Nat /\ Len(items') = Len(items) + 1
        /\ items' \in Seq(Values \cup {Err})
        /\ \A i \in 1..Len(items) : items'[i] = items[i]
        /\ items'[Len(items) + 1] = item
        /\ Last(items') = item
        /\ DOMAIN items = 1..Len(items) /\ DOMAIN items' = 1..(Len(items) + 1)
        /\ items' # <<>>
    <2>1. items \in Seq(Values \cup {Err})
      BY <1>1 DEF RowsTypeOK
    <2> QED
      BY <1>1, <1>4, <2>1 DEF Last
  <1>7. RowsTypeOK'
    BY <1>1, <1>2, <1>6 DEF RowsTypeOK, Values, AnyBatch, Batch, n
  <1>8. Gathered'
    BY <1>1 DEF RowsInv, Gathered
  <1>9. Placed'
    <2>1. num_rows' = num_rows /\ rows_of_first(result.batches)' = before
      BY <1>1 DEF num_rows, rows_of_first, before
    <2> QED
      BY <1>1, <1>2, <1>5, <1>6, <2>1 DEF Placed, n
  <1>10. InTheirPlaces'
    <2>1. /\ \A c, r : Row(c, r)' = Row(c, r) /\ (IsRow(c, r)' <=> IsRow(c, r))
          /\ AllRows' = AllRows
      BY <1>1, SameRows
    <2>2. ASSUME NEW i \in 1..(Len(items) + 1)
          PROVE  \E c, r : IsRow(c, r) /\ AllRows[i] = <<c, r>> /\ items'[i] = Row(c, r)
      <3>1. CASE i = Len(items) + 1
        BY <1>3, <1>5, <1>6, <3>1 DEF item
      <3>2. CASE i # Len(items) + 1
        <4>1. i \in 1..Len(items) /\ items'[i] = items[i]
          BY <1>6, <3>2
        <4> QED
          BY <1>6, <4>1 DEF RowsInv, InTheirPlaces
      <3> QED
        BY <3>1, <3>2
    <2> QED
      BY <1>6, <2>1, <2>2 DEF InTheirPlaces
  <1>11. EndsWhere'
    <2>1. reader = "rows" => \A i \in 1..Len(items) : items[i] # Err
      <3> SUFFICES ASSUME reader = "rows", NEW i \in 1..Len(items) PROVE items[i] # Err
        OBVIOUS
      <3>1. CASE i = Len(items)
        BY <1>1, <1>6, <3>1 DEF RowsInv, EndsWhere
      <3>2. CASE i # Len(items)
        <4>0. Len(items) \in Nat
          BY <1>6
        <4>1. i \in 1..(Len(items) - 1)
          BY <3>2, <4>0
        <4> QED
          BY <4>1 DEF RowsInv, EndsWhere
      <3> QED
        BY <3>1, <3>2
    <2>2. Len(items') - 1 = Len(items)
      BY <1>6
    <2> QED
      BY <1>1, <1>6, <2>1, <2>2 DEF EndsWhere
  <1> QED
    BY <1>7, <1>8, <1>9, <1>10, <1>11 DEF RowsInv

LEMMA NextNoneKeeps ==
    ASSUME RowsInv, NextNone
    PROVE  RowsInv'
  <1> DEFINE n == Len(result.batches)
             before == rows_of_first(result.batches)
  <1>1. /\ RowsTypeOK /\ reader # "none" /\ ~ended /\ Seek.batch_idx > n
        /\ batch_idx' = Seek.batch_idx /\ row_idx' = Seek.row_idx /\ ended' = TRUE
        /\ UNCHANGED <<schema, result, reader, items>>
    BY DEF RowsInv, NextNone
  <1>2. n \in Nat /\ Len(items) \in Nat
    BY <1>1 DEF RowsTypeOK
  <1>3. batch_idx' = n + 1 /\ row_idx' = 0 /\ before[n] = Len(items)
    <2>1. /\ Seek.batch_idx \in 1..(n + 1)
          /\ before[Seek.batch_idx - 1] + Seek.row_idx = Len(items)
          /\ Seek.row_idx = 0
      BY <1>1, SeekSkips
    <2>2. Seek.batch_idx = n + 1 /\ (n + 1) - 1 = n
      BY <1>1, <1>2, <2>1
    <2>3. before[n] \in Nat
      BY <1>1, <1>2, RowsOfFirst
    <2> HIDE DEF before, n
    <2> QED
      BY <1>1, <2>1, <2>2, <2>3
  <1>4. Len(items) = num_rows /\ num_rows' = num_rows
        /\ rows_of_first(result.batches)' = before
    BY <1>1, <1>3 DEF num_rows, rows_of_first
  <1>5. RowsTypeOK'
    BY <1>1, <1>2, <1>3 DEF RowsTypeOK, Values, AnyBatch, Batch
  <1>6. Gathered'
    BY <1>1 DEF RowsInv, Gathered
  <1>7. Placed'
    <2>1. (n + 1) - 1 = n /\ ~(n + 1 <= n)
      BY <1>2
    <2> HIDE DEF before
    <2> QED
      BY <1>1, <1>2, <1>3, <1>4, <2>1 DEF Placed
  <1>8. InTheirPlaces'
    BY <1>1, SameRows DEF RowsInv, InTheirPlaces
  <1>9. EndsWhere'
    BY <1>1, <1>4 DEF RowsInv, EndsWhere
  <1> QED
    BY <1>5, <1>6, <1>7, <1>8, <1>9 DEF RowsInv

LEMMA NextKeepsRowsInv == RowsInv /\ [Next]_vars => RowsInv'
  <1> SUFFICES ASSUME RowsInv, [Next]_vars PROVE RowsInv'
    OBVIOUS
  <1>1. CASE UNCHANGED vars
    <2>1. RowsTypeOK' /\ Gathered'
      BY <1>1 DEF RowsInv, vars, RowsTypeOK, Gathered, Values, AnyBatch, Batch
    <2>2. Placed' /\ EndsWhere'
      BY <1>1 DEF RowsInv, vars, Placed, EndsWhere, num_rows, rows_of_first
    <2>3. InTheirPlaces'
      BY <1>1, SameRows DEF RowsInv, vars, InTheirPlaces
    <2> QED
      BY <2>1, <2>2, <2>3 DEF RowsInv
  <1> QED
    BY <1>1, CollectKeeps, CollectedKeeps, NextRowKeeps, NextNoneKeeps DEF Next

\* What was yielded ends where the iterator stands, each item being the row of its
\* number, for answers of any size.
THEOREM RowsInvariance == Spec => []RowsInv
  BY InitRowsInv, NextKeepsRowsInv, PTL DEF Spec

-----------------------------------------------------------------------------
(* What a caller relies on                                                 *)

\* An item is an error if, and only if, its row has a cell without a Rust value.
LEMMA ItemIs ==
    ASSUME RowsInv, NEW i \in DOMAIN items
    PROVE  /\ items[i] = Err <=> Undecodable(AllRows[i])
           /\ items[i] # Err =>
                /\ items[i] \in Values
                /\ \A c \in DOMAIN schema :
                     LET cell == Cell(AllRows[i][1], c, AllRows[i][2])
                     IN  items[i][c] = IF cell.null THEN Null ELSE cell.value
  <1>1. PICK b, row : IsRow(b, row) /\ AllRows[i] = <<b, row>> /\ items[i] = Row(b, row)
    BY DEF RowsInv, InTheirPlaces
  <1>2. /\ Row(b, row) \in Values \cup {Err}
        /\ Row(b, row) = Err <=> Undecodable(<<b, row>>)
        /\ Row(b, row) # Err => \A c \in DOMAIN schema :
             LET cell == Cell(b, c, row)
             IN  Row(b, row)[c] = IF cell.null THEN Null ELSE cell.value
    BY <1>1, RowIs DEF RowsInv
  <1>3. AllRows[i][1] = b /\ AllRows[i][2] = row
    BY <1>1
  <1> QED
    BY <1>1, <1>2, <1>3

\* As many items as rows: there is room for them, and in the end one for each.
LEMMA ItemsCounted ==
    ASSUME RowsInv
    PROVE  /\ Len(items) \in Nat /\ DOMAIN items = 1..Len(items)
           /\ num_rows \in Nat /\ DOMAIN AllRows = 1..num_rows /\ Len(AllRows) = num_rows
           /\ Len(items) <= num_rows
  <1>1. Len(items) \in Nat /\ DOMAIN items = 1..Len(items)
    BY DEF RowsInv, RowsTypeOK
  <1>2. AllRows \in Seq(Nat \X Nat) /\ Len(AllRows) = num_rows
    BY AllRowsAt DEF RowsInv
  <1>3. num_rows \in Nat /\ DOMAIN AllRows = 1..num_rows
    BY <1>2
  <1>4. CASE reader = "none"
    <2>1. Len(items) = 0
      BY <1>4 DEF RowsInv, Gathered
    <2> QED
      BY <1>1, <1>2, <1>3, <2>1
  <1>5. CASE reader # "none"
    BY <1>1, <1>2, <1>3, <1>5 DEF RowsInv, Placed
  <1> QED
    BY <1>4, <1>5

\* Item i is row i of the answer with its own cells, or its error; None comes after
\* the last row, however many empty batches stand between (QueryIterator::next).
THEOREM EachRowIsYieldedOnce == Spec => []EveryRowOnce
  <1>1. RowsInv => EveryRowOnce
    <2> SUFFICES ASSUME RowsInv PROVE EveryRowOnce
      OBVIOUS
    <2>1. Len(items) <= Len(AllRows)
      BY ItemsCounted
    <2>2. ASSUME NEW i \in DOMAIN items, ~Undecodable(AllRows[i])
          PROVE  /\ Len(items[i]) = Len(schema)
                 /\ \A c \in DOMAIN schema :
                        LET cell == Cell(AllRows[i][1], c, AllRows[i][2])
                        IN  items[i][c] = IF cell.null THEN Null ELSE cell.value
      <3>1. items[i] # Err
        BY <2>2, ItemIs
      <3>2. items[i] \in Values
        BY <3>1, ItemIs
      <3>3. Len(schema) \in Nat /\ DOMAIN schema = 1..Len(schema)
        BY ConstantsAssumption DEF RowsInv, RowsTypeOK
      <3>4. Len(items[i]) = Len(schema)
        BY <3>2, <3>3 DEF Values
      <3> QED
        BY <3>1, <3>4, ItemIs
    <2>3. \A i \in DOMAIN items : Undecodable(AllRows[i]) => items[i] = Err
      BY ItemIs
    <2>4. reader = "iter" /\ ended => Len(items) = num_rows
      BY DEF RowsInv, EndsWhere
    <2> QED
      BY <2>1, <2>2, <2>3, <2>4 DEF EveryRowOnce
  <1> QED
    BY <1>1, RowsInvariance, PTL

\* `rows()` gives every row, or the error of the first that cannot be decoded, behind
\* which it does not look (QueryResult::rows).
THEOREM RowsGivesAllOrNothing == Spec => []RowsAllOrNothing
  <1>1. RowsInv => RowsAllOrNothing
    <2> SUFFICES ASSUME RowsInv, reader = "rows", ended PROVE RowsAllOrNothing
      BY DEF RowsAllOrNothing
    <2> DEFINE m == Len(items)
    <2>1. /\ m \in Nat /\ DOMAIN items = 1..m /\ DOMAIN AllRows = 1..num_rows
          /\ m <= num_rows /\ num_rows \in Nat
      BY ItemsCounted
    <2>2. \A i \in 1..m : items[i] = Err <=> Undecodable(AllRows[i])
      BY <2>1, ItemIs
    <2>3. /\ \A i \in 1..(m - 1) : items[i] # Err
          /\ (items # <<>> /\ items[m] = Err) \/ m = num_rows
      BY DEF RowsInv, EndsWhere
    <2>4. \A i \in 1..(m - 1) : ~Undecodable(AllRows[i])
      <3>1. \A i \in 1..(m - 1) : i \in 1..m
        BY <2>1
      <3> QED
        BY <2>2, <2>3, <3>1
    <2>5. CASE items # <<>> /\ items[m] = Err
      <3>1. m # 0
        BY <2>5 DEF RowsInv, RowsTypeOK
      <3>2. m \in 1..m /\ m \in 1..num_rows
        BY <2>1, <3>1
      <3>3. Undecodable(AllRows[m])
        BY <2>2, <2>5, <3>2
      <3>4. rows = Err
        BY <2>1, <2>5, <3>2 DEF rows
      <3> QED
        BY <2>1, <2>4, <3>2, <3>3, <3>4 DEF RowsAllOrNothing
    <2>6. CASE m = num_rows /\ (items # <<>> => items[m] # Err)
      <3>1. ASSUME NEW i \in 1..m
            PROVE  items[i] # Err
        <4>1. CASE i = m
          <5>1. items # <<>>
            BY <2>1
          <5> QED
            BY <2>6, <4>1, <5>1
        <4>2. CASE i # m
          <5>0. m \in Nat
            BY <2>1
          <5>1. i \in 1..(m - 1)
            BY <4>2, <5>0
          <5> QED
            BY <2>3, <5>1
        <4> QED
          BY <4>1, <4>2
      <3>2. rows = items /\ \A i \in DOMAIN AllRows : ~Undecodable(AllRows[i])
        BY <2>1, <2>2, <2>6, <3>1 DEF rows
      <3> QED
        BY <2>6, <3>2 DEF RowsAllOrNothing
    <2> QED
      BY <2>3, <2>5, <2>6
  <1> QED
    BY <1>1, RowsInvariance, PTL

\* What a map of names and values of the same places holds.
LEMMA MappedIs ==
    ASSUME NEW n \in Nat, NEW names, NEW values,
           DOMAIN names = 1..n, DOMAIN values = 1..n
    PROVE  /\ DOMAIN Mapped(names, values) = ToSet(names)
           /\ \A name \in ToSet(names) :
                LET last == Max({i \in 1..n : names[i] = name})
                IN  /\ last \in 1..n /\ names[last] = name
                    /\ Mapped(names, values)[name] = values[last]
  <1>1. ToSet(names) = {names[i] : i \in 1..n}
    BY DEF ToSet
  <1>2. Mapped(names, values) = [name \in ToSet(names) |->
                                    values[Max({i \in 1..n : names[i] = name})]]
    BY <1>1 DEF Mapped
  <1>3. ASSUME NEW name \in ToSet(names)
        PROVE  LET last == Max({i \in 1..n : names[i] = name})
               IN  last \in 1..n /\ names[last] = name
    <2> DEFINE places == {i \in 1..n : names[i] = name}
    <2>1. places # {} /\ places \in SUBSET (0..n)
      BY <1>1
    <2> HIDE DEF places
    <2>2. Max(places) \in places
      BY <2>1, MaxIsGreatest
    <2> QED
      BY <2>2 DEF places
  <1> QED
    BY <1>2, <1>3

\* A value is the same by name and in the map, and of a column that has the name,
\* also where columns share one (Row::get, Row::into_map).
THEOREM LookupsAgree == Spec => []NamesAgree
  <1>1. RowsInv => NamesAgree
    <2> SUFFICES ASSUME RowsInv, NEW i \in DOMAIN items, items[i] # Err
                 PROVE  LET row == items[i]
                        IN  /\ DOMAIN into_map(row) = ToSet(columns)
                            /\ \A name \in ToSet(columns) :
                                /\ get(row, name) = into_map(row)[name]
                                /\ \E c \in DOMAIN columns :
                                     columns[c] = name /\ row[c] = get(row, name)
      BY DEF NamesAgree
    <2> DEFINE row == items[i]
               n == Len(schema)
               places == [c \in DOMAIN columns |-> c]
    <2>1. row \in Values
      BY ItemIs
    <2>2. n \in Nat /\ DOMAIN schema = 1..n
      BY ConstantsAssumption DEF RowsInv, RowsTypeOK
    <2>3. result.schema = schema
      <3>1. PICK b, r : IsRow(b, r)
        BY DEF RowsInv, InTheirPlaces
      <3>2. result.batches # <<>>
        BY <3>1 DEF IsRow
      <3> QED
        BY <3>2 DEF RowsInv, Gathered
    <2>4. DOMAIN columns = 1..n /\ DOMAIN row = 1..n /\ DOMAIN places = 1..n
      BY <2>1, <2>2, <2>3 DEF columns, Values
    <2>5. \A c \in 1..n : places[c] = c
      BY <2>4
    <2> HIDE DEF row, n, places
    <2>6. /\ DOMAIN Mapped(columns, row) = ToSet(columns)
          /\ DOMAIN Mapped(columns, places) = ToSet(columns)
          /\ \A name \in ToSet(columns) :
               LET last == Max({c \in 1..n : columns[c] = name})
               IN  /\ last \in 1..n /\ columns[last] = name
                   /\ Mapped(columns, row)[name] = row[last]
                   /\ Mapped(columns, places)[name] = places[last]
      BY <2>2, <2>4, MappedIs
    <2>7. index = Mapped(columns, places)
      BY DEF index, places
    <2>8. ASSUME NEW name \in ToSet(columns)
          PROVE  /\ get(row, name) = into_map(row)[name]
                 /\ \E c \in DOMAIN columns : columns[c] = name /\ row[c] = get(row, name)
      <3> DEFINE last == Max({c \in 1..n : columns[c] = name})
      <3>1. /\ last \in 1..n /\ columns[last] = name
            /\ into_map(row)[name] = row[last] /\ index[name] = last
            /\ name \in DOMAIN index
        BY <2>5, <2>6, <2>7 DEF into_map
      <3> HIDE DEF last
      <3>2. get(row, name) = row[last]
        BY <2>4, <3>1 DEF get
      <3> QED
        BY <2>4, <3>1, <3>2
    <2> QED
      BY <2>6, <2>8 DEF into_map, row
  <1> QED
    BY <1>1, RowsInvariance, PTL
=============================================================================

-------------------------- MODULE LineProtocolProofs --------------------------
(***************************************************************************)
(* Proofs about LineProtocol, for any points and any options: how the      *)
(* batches cut the input, and what is in the lines; and about              *)
(* LineRoundTrip: the time, for integers of any width, and the texts of a  *)
(* line, for texts of any length.                                          *)
(***************************************************************************)
EXTENDS LineProtocol, LineRoundTrip, DataLemmas, FiniteSetTheorems

\* The line of a point made by these calls, under the options of the write.
LineOf == [calls \in Chains |-> Line(Point(calls))]
Written == {LineOf[calls] : calls \in Chains}

Item == [ok : BOOLEAN, lines : Seq(Written)]

LineTypeOK ==
    /\ opts \in [batch_size : BatchSize, default_tags : DefaultTags, tag_order : TagOrder]
    /\ made \in Seq(Chains)
    /\ idx \in (-1)..Len(made)
    /\ items \in Seq(Item)

\* All the batches are full, but for one that ends the input.
FullBatches == \A b \in DOMAIN items : items[b].ok =>
    /\ Len(items[b].lines) \in 1..chunk
    /\ Len(items[b].lines) = chunk \/ (b = Len(items) /\ idx = Len(made))

\* The lines are those of the first points, in order, and all of these have fields.
InStepWithInput ==
    /\ Len(Lines) <= Len(made)
    /\ \A p \in 1..Len(Lines) : /\ Encodable(Point(made[p]))
                                /\ Lines[p] = LineOf[made[p]]
    /\ idx = -1 => Len(items) = 0
    /\ idx >= 0 /\ (\A b \in DOMAIN items : items[b].ok) => Len(Lines) = idx

\* An error is the last item, and a point of the batch given up has no field.
ErrorEnds == \A e \in DOMAIN items : ~items[e].ok =>
    /\ e = Len(items) /\ idx = Len(made) /\ items[e].lines = <<>>
    /\ \E p \in DOMAIN made :
        /\ Point(made[p]).fields = <<>>
        /\ \A q \in 1..(p - 1) : Point(made[q]).fields # <<>>
        /\ Len(Lines) < p /\ p <= Len(Lines) + chunk

LineInv == LineTypeOK /\ FullBatches /\ InStepWithInput /\ ErrorEnds

-----------------------------------------------------------------------------
(* How the batches cut the input                                           *)

LEMMA ChunkIsPositive ==
    ASSUME LineTypeOK
    PROVE  chunk \in Nat /\ chunk >= 1
  <1>1. opts.batch_size \in Nat
    BY ConstantsAssumption DEF LineTypeOK
  <1> QED
    BY <1>1 DEF chunk

\* The options never change, so neither does what a point is written as.
LEMMA LineOfIsKept ==
    ASSUME opts' = opts
    PROVE  LineOf' = LineOf /\ Written' = Written /\ chunk' = chunk
  <1>1. LineOf' = LineOf
    BY DEF LineOf, Line, LineTags, ordered_keys, tag_map
  <1> QED
    BY <1>1 DEF Written, chunk

LEMMA PiecesType ==
    ASSUME LineTypeOK
    PROVE  LET ss == [b \in DOMAIN items |-> items[b].lines]
           IN  ss \in Seq(Seq(Written)) /\ Len(ss) = Len(items)
  <1>1. items \in Seq(Item) /\ Len(items) \in Nat
    BY DEF LineTypeOK
  <1>2. \A b \in 1..Len(items) : items[b].lines \in Seq(Written)
    <2>1. \A b \in 1..Len(items) : items[b] \in Item
      BY <1>1
    <2> QED
      BY <2>1 DEF Item
  <1> DEFINE S == Seq(Written)
  <1> HIDE DEF S
  <1>3. [b \in 1..Len(items) |-> items[b].lines] \in Seq(S)
    BY <1>1, <1>2 DEF S
  <1> QED
    BY <1>1, <1>3 DEF S

LEMMA LinesType ==
    ASSUME LineTypeOK
    PROVE  Lines \in Seq(Written) /\ (Len(items) = 0 => Lines = <<>>)
  <1> DEFINE ss == [b \in DOMAIN items |-> items[b].lines]
  <1>1. ss \in Seq(Seq(Written)) /\ Len(ss) = Len(items)
    BY PiecesType
  <1>2. Lines = FlattenSeq(ss)
    BY DEF Lines
  <1> HIDE DEF ss
  <1>3. <<>> \in Seq(Written)
    OBVIOUS
  <1>4. Lines \in Seq(Written)
    BY <1>1, <1>2, <1>3, FlattenAppend
  <1>5. ASSUME Len(items) = 0 PROVE Lines = <<>>
    <2>1. ss = <<>>
      BY <1>1, <1>5
    <2> QED
      BY <1>2, <2>1, FlattenEmpty
  <1> QED
    BY <1>4, <1>5

\* What an item adds to the lines.
LEMMA LinesGrow ==
    ASSUME LineTypeOK, NEW item \in Item, items' = Append(items, item)
    PROVE  Lines' = Lines \o item.lines
  <1> DEFINE ss == [b \in DOMAIN items |-> items[b].lines]
             longer == [b \in DOMAIN items' |-> items'[b].lines]
  <1>1. ss \in Seq(Seq(Written)) /\ item.lines \in Seq(Written)
    BY PiecesType DEF Item
  <1>2. longer = Append(ss, item.lines)
    BY DEF LineTypeOK, Item
  <1>3. Lines = FlattenSeq(ss) /\ Lines' = FlattenSeq(longer)
    BY DEF Lines
  <1> HIDE DEF ss, longer
  <1> QED
    BY <1>1, <1>2, <1>3, FlattenAppend

\* As long as there is a batch to write there has been no error.
LEMMA NoErrorYet ==
    ASSUME LineInv, idx >= 0, idx < Len(made)
    PROVE  /\ \A b \in DOMAIN items : items[b].ok /\ Len(items[b].lines) = chunk
           /\ Len(Lines) = idx
           /\ end \in Nat /\ idx < end /\ end <= Len(made) /\ end - idx <= chunk
           /\ end - idx = chunk \/ end = Len(made)
           /\ Slice \in Seq({Point(calls) : calls \in Chains}) /\ Len(Slice) = end - idx
           /\ \A i \in 1..(end - idx) : idx + i \in 1..Len(made) /\ Slice[i] = Point(made[idx + i])
  <1>0. /\ idx \in Nat /\ Len(made) \in Nat /\ chunk \in Nat /\ chunk >= 1
        /\ \A b \in DOMAIN items : items[b].ok \in BOOLEAN
        /\ \A i \in 1..Len(made) : made[i] \in Chains
    <2>1. items \in Seq(Item) /\ idx \in Int
      BY DEF LineInv, LineTypeOK
    <2>2. \A b \in DOMAIN items : items[b] \in Item
      BY <2>1
    <2>3. \A b \in DOMAIN items : items[b].ok \in BOOLEAN
      BY <2>2 DEF Item
    <2> QED
      BY <2>1, <2>3, ChunkIsPositive DEF LineInv, LineTypeOK
  <1>1. \A b \in DOMAIN items : items[b].ok
    BY <1>0 DEF LineInv, ErrorEnds
  <1>2. \A b \in DOMAIN items : Len(items[b].lines) = chunk
    BY <1>0, <1>1 DEF LineInv, FullBatches
  <1>3. Len(Lines) = idx
    BY <1>1 DEF LineInv, InStepWithInput
  <1>4. /\ end \in Nat /\ idx < end /\ end <= Len(made) /\ end - idx <= chunk
        /\ end - idx = chunk \/ end = Len(made)
    BY <1>0 DEF end
  <1>5. \A i \in 1..(end - idx) : idx + i \in 1..Len(made)
    BY <1>0, <1>4
  <1>6. /\ Slice = [i \in 1..(end - idx) |-> Point(made[idx + i])]
        /\ end - idx \in Nat
    BY <1>0, <1>4 DEF Slice
  <1>7. \A i \in 1..(end - idx) : Point(made[idx + i]) \in {Point(calls) : calls \in Chains}
    BY <1>0, <1>5
  <1>8. /\ Slice \in Seq({Point(calls) : calls \in Chains}) /\ Len(Slice) = end - idx
        /\ \A i \in 1..(end - idx) : Slice[i] = Point(made[idx + i])
    BY <1>6, <1>7
  <1> QED
    BY <1>1, <1>2, <1>3, <1>4, <1>5, <1>8

LEMMA NextBatchKeeps ==
    ASSUME LineInv, NextBatch
    PROVE  LineInv'
  <1> DEFINE new == [i \in DOMAIN Slice |-> Line(Slice[i])]
             n == end - idx
  <1>1. /\ idx >= 0 /\ idx < Len(made)
        /\ \A i \in DOMAIN Slice : Encodable(Slice[i])
        /\ items' = Append(items, Ok(new))
        /\ idx' = end /\ opts' = opts /\ made' = made
    BY DEF NextBatch
  <1>2. /\ \A b \in DOMAIN items : items[b].ok /\ Len(items[b].lines) = chunk
        /\ Len(Lines) = idx
        /\ end \in Nat /\ idx < end /\ end <= Len(made) /\ n <= chunk
        /\ n = chunk \/ end = Len(made)
        /\ DOMAIN Slice = 1..n
        /\ \A i \in 1..n : idx + i \in 1..Len(made) /\ Slice[i] = Point(made[idx + i])
    BY <1>1, NoErrorYet
  <1>3. /\ idx \in Nat /\ n \in Nat \ {0} /\ chunk \in Nat \ {0} /\ Len(made) \in Nat
        /\ items \in Seq(Item) /\ \A i \in 1..Len(made) : made[i] \in Chains
    BY <1>1, <1>2, ChunkIsPositive DEF LineInv, LineTypeOK
  <1>4. /\ chunk' = chunk /\ Written' = Written /\ Item' = Item /\ LineOf' = LineOf
    <2>1. /\ chunk' = chunk /\ Written' = Written /\ LineOf' = LineOf
      BY <1>1, LineOfIsKept
    <2> QED
      BY <2>1 DEF Item
  <1>5. /\ new \in Seq(Written) /\ Len(new) = n
        /\ \A i \in 1..n : new[i] = LineOf[made[idx + i]]
    <2>1. \A i \in 1..n : Line(Slice[i]) = LineOf[made[idx + i]] /\ LineOf[made[idx + i]] \in Written
      BY <1>2, <1>3 DEF LineOf, Written
    <2>2. new = [i \in 1..n |-> Line(Slice[i])]
      BY <1>2
    <2> HIDE DEF n
    <2>3. new \in [1..n -> Written] /\ n \in Nat
      BY <1>3, <2>1, <2>2
    <2> HIDE DEF new
    <2>4. new \in Seq(Written) /\ Len(new) = n
      BY <2>3
    <2> QED
      BY <2>1, <2>2, <2>4
  <1> HIDE DEF new, n
  <1>6. /\ Ok(new) \in Item /\ Ok(new).ok /\ Ok(new).lines = new
    BY <1>5 DEF Ok, Item
  <1>7. /\ items' \in Seq(Item) /\ Len(items') = Len(items) + 1
        /\ \A b \in 1..Len(items) : items'[b] = items[b]
        /\ items'[Len(items) + 1] = Ok(new)
    BY <1>1, <1>3, <1>6
  <1>8. LineTypeOK'
    BY <1>1, <1>2, <1>4, <1>7 DEF LineInv, LineTypeOK
  <1>9. /\ Lines' = Lines \o new /\ Lines \in Seq(Written)
    BY <1>1, <1>6, LinesGrow, LinesType DEF LineInv
  <1>10. /\ Len(Lines') = end
         /\ \A p \in 1..idx : Lines'[p] = Lines[p]
         /\ \A i \in 1..n : Lines'[idx + i] = new[i]
    <2>1. /\ Len(Lines \o new) = idx + n
          /\ \A p \in 1..idx : (Lines \o new)[p] = Lines[p]
          /\ \A i \in 1..n : (Lines \o new)[idx + i] = new[i]
      <3>1. Lines \in Seq(Written) /\ new \in Seq(Written) /\ Len(Lines) = idx /\ Len(new) = n
        BY <1>2, <1>5, <1>9
      <3>2. /\ Len(Lines \o new) = Len(Lines) + Len(new)
            /\ \A p \in 1..Len(Lines) : (Lines \o new)[p] = Lines[p]
            /\ \A i \in 1..Len(new) : (Lines \o new)[Len(Lines) + i] = new[i]
        <4>1. IsConcat(Lines \o new, Lines, new)
          BY <3>1, ConcatAt
        <4> QED
          BY <4>1 DEF IsConcat
      <3> QED
        BY <3>1, <3>2
    <2>2. idx + n = end
      BY <1>2, <1>3 DEF n
    <2> QED
      BY <1>9, <2>1, <2>2
  <1>11. FullBatches'
    <2> SUFFICES ASSUME NEW b \in 1..(Len(items) + 1)
                 PROVE  /\ Len(items'[b].lines) \in 1..chunk
                        /\ Len(items'[b].lines) = chunk \/ (b = Len(items') /\ idx' = Len(made'))
      BY <1>4, <1>7 DEF FullBatches
    <2>1. CASE b = Len(items) + 1
      BY <1>1, <1>2, <1>3, <1>5, <1>6, <1>7, <2>1
    <2>2. CASE b # Len(items) + 1
      <3>1. b \in DOMAIN items /\ items'[b] = items[b]
        BY <1>3, <1>7, <2>2
      <3> QED
        BY <1>2, <1>3, <3>1
    <2> QED
      BY <2>1, <2>2
  <1>12. InStepWithInput'
    <2>1. Len(Lines') <= Len(made')
      BY <1>1, <1>2, <1>10
    <2>2. ASSUME NEW p \in 1..Len(Lines')
          PROVE  Encodable(Point(made'[p])) /\ Lines'[p] = LineOf'[made'[p]]
      <3>1. CASE p <= idx
        <4>1. p \in 1..idx
          BY <1>3, <1>10, <1>2, <3>1
        <4>2. Encodable(Point(made[p])) /\ Lines[p] = LineOf[made[p]]
          BY <1>2, <4>1 DEF LineInv, InStepWithInput
        <4> QED
          BY <1>1, <1>4, <1>10, <4>1, <4>2
      <3>2. CASE ~(p <= idx)
        <4>1. p - idx \in 1..n /\ p = idx + (p - idx)
          BY <1>2, <1>3, <1>10, <3>2 DEF n
        <4>2. Encodable(Point(made[p])) /\ Lines'[p] = LineOf[made[p]]
          BY <1>1, <1>2, <1>5, <1>10, <4>1
        <4> QED
          BY <1>1, <1>4, <4>2
      <3> QED
        BY <3>1, <3>2
    <2>3. idx' # -1
      BY <1>1, <1>2
    <2>4. Len(Lines') = idx'
      BY <1>1, <1>10
    <2> QED
      BY <2>1, <2>2, <2>3, <2>4 DEF InStepWithInput
  <1>13. ErrorEnds'
    <2>1. \A b \in 1..(Len(items) + 1) : b \in 1..Len(items) \/ b = Len(items) + 1
      BY <1>3
    <2>2. ASSUME NEW b \in 1..Len(items) PROVE items'[b].ok
      <3>1. b \in DOMAIN items
        BY <1>3
      <3>2. items[b].ok /\ items'[b] = items[b]
        BY <1>2, <1>7, <3>1
      <3> QED
        BY <3>2
    <2>3. items'[Len(items) + 1].ok
      BY <1>6, <1>7
    <2>4. \A b \in DOMAIN items' : items'[b].ok
      BY <1>3, <1>7, <2>1, <2>2, <2>3
    <2> QED
      BY <2>4 DEF ErrorEnds
  <1> QED
    BY <1>8, <1>11, <1>12, <1>13 DEF LineInv

LEMMA NextErrKeeps ==
    ASSUME LineInv, NextErr
    PROVE  LineInv'
  <1> DEFINE n == end - idx
  <1>1. /\ idx >= 0 /\ idx < Len(made)
        /\ \E i \in DOMAIN Slice : ~Encodable(Slice[i])
        /\ items' = Append(items, Err)
        /\ idx' = Len(made) /\ opts' = opts /\ made' = made
    BY DEF NextErr
  <1>2. /\ \A b \in DOMAIN items : items[b].ok /\ Len(items[b].lines) = chunk
        /\ Len(Lines) = idx
        /\ end \in Nat /\ idx < end /\ end <= Len(made) /\ n <= chunk
        /\ DOMAIN Slice = 1..n
        /\ \A i \in 1..n : idx + i \in 1..Len(made) /\ Slice[i] = Point(made[idx + i])
    BY <1>1, NoErrorYet
  <1>3. /\ idx \in Nat /\ n \in Nat \ {0} /\ chunk \in Nat \ {0} /\ Len(made) \in Nat
        /\ items \in Seq(Item) /\ \A i \in 1..Len(made) : made[i] \in Chains
    BY <1>1, <1>2, ChunkIsPositive DEF LineInv, LineTypeOK
  <1>4. /\ chunk' = chunk /\ Written' = Written /\ Item' = Item /\ LineOf' = LineOf
    <2>1. /\ chunk' = chunk /\ Written' = Written /\ LineOf' = LineOf
      BY <1>1, LineOfIsKept
    <2> QED
      BY <2>1 DEF Item
  <1>5. /\ Err \in Item /\ ~Err.ok /\ Err.lines = <<>>
    BY DEF Err, Item
  <1>6. /\ items' \in Seq(Item) /\ Len(items') = Len(items) + 1
        /\ \A b \in 1..Len(items) : items'[b] = items[b]
        /\ items'[Len(items) + 1] = Err
    BY <1>1, <1>3, <1>5
  <1>7. LineTypeOK'
    BY <1>1, <1>3, <1>4, <1>6 DEF LineInv, LineTypeOK
  <1>8. Lines' = Lines
    <2>1. Lines' = Lines \o <<>> /\ Lines \in Seq(Written)
      BY <1>1, <1>5, LinesGrow, LinesType DEF LineInv
    <2> QED
      BY <2>1
  <1>9. FullBatches'
    <2> SUFFICES ASSUME NEW b \in 1..(Len(items) + 1), items'[b].ok
                 PROVE  Len(items'[b].lines) \in 1..chunk /\ Len(items'[b].lines) = chunk
      BY <1>4, <1>6 DEF FullBatches
    <2>1. b \in DOMAIN items /\ items'[b] = items[b]
      BY <1>3, <1>5, <1>6
    <2> QED
      BY <1>2, <1>3, <2>1
  <1>10. InStepWithInput'
    <2>1. ~(\A b \in DOMAIN items' : items'[b].ok)
      BY <1>3, <1>5, <1>6
    <2>2. ~(idx' = -1)
      BY <1>1, <1>3
    <2>3. \A p \in 1..Len(Lines) : Encodable(Point(made[p])) /\ Lines[p] = LineOf[made[p]]
      BY DEF LineInv, InStepWithInput
    <2>4. \A p \in 1..Len(Lines') : Encodable(Point(made'[p])) /\ Lines'[p] = LineOf'[made'[p]]
      BY <1>1, <1>4, <1>8, <2>3
    <2> QED
      BY <1>1, <1>2, <1>3, <1>8, <2>1, <2>2, <2>4 DEF InStepWithInput
  <1>11. \E p \in DOMAIN made :
            /\ Point(made[p]).fields = <<>>
            /\ \A q \in 1..(p - 1) : Point(made[q]).fields # <<>>
            /\ Len(Lines) < p /\ p <= Len(Lines) + chunk
    <2> DEFINE Bad == {i \in 1..n : ~Encodable(Slice[i])}
    <2>1. Bad \in SUBSET Nat /\ Bad # {}
      BY <1>1, <1>2
    <2>2. PICK i \in Bad : \A j \in Bad : i <= j
      BY <2>1, Least
    <2>3. i \in 1..n /\ i \in Int /\ ~Encodable(Slice[i])
      BY <2>2
    <2>4. \A j \in 1..n : j < i => Encodable(Slice[j])
      BY <2>2
    <2> HIDE DEF Bad, n
    <2>5. /\ idx + i \in DOMAIN made /\ ~Encodable(Point(made[idx + i]))
          /\ idx < idx + i /\ idx + i <= idx + chunk
      BY <1>2, <1>3, <2>3 DEF LineInv, LineTypeOK
    <2>6. ASSUME NEW q \in 1..((idx + i) - 1) PROVE Encodable(Point(made[q]))
      <3>1. CASE q <= idx
        <4>1. q \in 1..Len(Lines)
          BY <1>2, <1>3, <2>3, <3>1
        <4> QED
          BY <4>1 DEF LineInv, InStepWithInput
      <3>2. CASE ~(q <= idx)
        <4>1. q - idx \in 1..n /\ q - idx < i /\ q = idx + (q - idx)
          BY <1>3, <2>3, <3>2
        <4> QED
          BY <1>2, <2>4, <4>1
      <3> QED
        BY <3>1, <3>2
    <2> DEFINE p == idx + i
    <2>7. /\ Point(made[p]).fields = <<>>
          /\ \A q \in 1..(p - 1) : Point(made[q]).fields # <<>>
          /\ Len(Lines) < p /\ p <= Len(Lines) + chunk
      <3>1. Point(made[p]).fields = <<>>
        BY <2>5 DEF Encodable
      <3>2. \A q \in 1..(p - 1) : Point(made[q]).fields # <<>>
        BY <2>6 DEF Encodable
      <3>3. Len(Lines) < p /\ p <= Len(Lines) + chunk
        BY <1>2, <2>5
      <3> QED
        BY <3>1, <3>2, <3>3
    <2> HIDE DEF p
    <2>8. p \in DOMAIN made
      BY <2>5 DEF p
    <2> QED
      BY <2>7, <2>8
  <1>12. ErrorEnds'
    <2> SUFFICES ASSUME NEW e \in 1..(Len(items) + 1), ~items'[e].ok
                 PROVE  e = Len(items') /\ items'[e].lines = <<>>
      BY <1>1, <1>4, <1>6, <1>8, <1>11 DEF ErrorEnds
    <2>1. e = Len(items) + 1
      BY <1>2, <1>3, <1>6
    <2> QED
      BY <1>5, <1>6, <2>1
  <1> QED
    BY <1>7, <1>9, <1>10, <1>12 DEF LineInv

LEMMA PushKeeps ==
    ASSUME LineInv, Push
    PROVE  LineInv'
  <1>1. PICK calls \in Chains : /\ idx = -1 /\ made' = Append(made, calls)
                                /\ opts' = opts /\ idx' = idx /\ items' = items
    BY DEF Push
  <1>2. /\ made \in Seq(Chains) /\ items \in Seq(Item) /\ Len(made) \in Nat
        /\ Len(items) = 0 /\ Lines = <<>>
    BY <1>1, LinesType DEF LineInv, LineTypeOK, InStepWithInput
  <1>3. made' \in Seq(Chains) /\ Len(made') = Len(made) + 1
    BY <1>1, <1>2
  <1>4. Lines' = Lines
    BY <1>1 DEF Lines
  <1>5. Item' = Item
    BY <1>1, LineOfIsKept DEF Item
  <1>6. LineTypeOK'
    BY <1>1, <1>2, <1>3, <1>5 DEF LineInv, LineTypeOK
  <1>7. DOMAIN items' = {} /\ Len(Lines') = 0 /\ Len(items') = 0 /\ ~(idx' >= 0)
    BY <1>1, <1>2, <1>4
  <1> QED
    BY <1>2, <1>3, <1>6, <1>7 DEF LineInv, FullBatches, InStepWithInput, ErrorEnds

LEMMA IntoBatchesKeeps ==
    ASSUME LineInv, IntoBatches
    PROVE  LineInv'
  <1>1. /\ idx = -1 /\ idx' = 0
        /\ opts' = opts /\ made' = made /\ items' = items
    BY DEF IntoBatches
  <1>2. /\ made \in Seq(Chains) /\ items \in Seq(Item) /\ Len(made) \in Nat
        /\ Len(items) = 0 /\ Lines = <<>>
    BY <1>1, LinesType DEF LineInv, LineTypeOK, InStepWithInput
  <1>3. Lines' = Lines
    BY <1>1 DEF Lines
  <1>4. Item' = Item
    BY <1>1, LineOfIsKept DEF Item
  <1>5. LineTypeOK'
    BY <1>1, <1>2, <1>4 DEF LineInv, LineTypeOK
  <1>6. DOMAIN items' = {} /\ Len(Lines') = 0 /\ Len(items') = 0
    BY <1>1, <1>2, <1>3
  <1> QED
    BY <1>1, <1>2, <1>5, <1>6 DEF LineInv, FullBatches, InStepWithInput, ErrorEnds

LEMMA LineInvInit ==
    ASSUME Init
    PROVE  LineInv
  <1>1. /\ opts \in [batch_size : BatchSize, default_tags : DefaultTags, tag_order : TagOrder]
        /\ made = <<>> /\ idx = -1 /\ items = <<>>
    BY DEF Init
  <1>2. LineTypeOK
    BY <1>1 DEF LineTypeOK
  <1>3. Lines = <<>>
    BY <1>1, <1>2, LinesType
  <1> QED
    BY <1>1, <1>2, <1>3 DEF LineInv, FullBatches, InStepWithInput, ErrorEnds

LEMMA LineStutter ==
    ASSUME LineInv, UNCHANGED vars
    PROVE  LineInv'
  <1>1. opts' = opts /\ made' = made /\ idx' = idx /\ items' = items
    BY DEF vars
  <1>2. LineOf' = LineOf /\ Written' = Written /\ chunk' = chunk
    BY <1>1, LineOfIsKept
  <1>3. Lines' = Lines
    BY <1>1 DEF Lines
  <1>4. LineTypeOK'
    BY <1>1, <1>2 DEF LineInv, LineTypeOK, Item
  <1>5. FullBatches' /\ InStepWithInput' /\ ErrorEnds'
    BY <1>1, <1>2, <1>3 DEF LineInv, FullBatches, InStepWithInput, ErrorEnds
  <1> QED
    BY <1>4, <1>5 DEF LineInv

\* Every reachable state satisfies the inductive invariant: the lines are those of
\* the first points of the input, in order (PointBatchIter::next).
THEOREM LineInvariance == Spec => []LineInv
  <1>1. Init => LineInv
    BY LineInvInit
  <1>2. LineInv /\ [Next]_vars => LineInv'
    BY PushKeeps, IntoBatchesKeeps, NextBatchKeeps, NextErrKeeps, LineStutter DEF Next
  <1> QED
    BY <1>1, <1>2, PTL DEF Spec

\* The batches cut the input in order, all of one size but for the last, and an
\* error ends the iteration before the first point without fields (PointBatchIter).
THEOREM BatchesCut == Spec => []BatchesCutTheInput
  <1>1. LineInv => BatchesCutTheInput
    <2> HAVE LineInv
    <2>1. \A b \in DOMAIN items : items[b].ok =>
            /\ Len(items[b].lines) \in 1..chunk
            /\ b < Len(items) => Len(items[b].lines) = chunk
      <3> TAKE b \in DOMAIN items
      <3>1. b < Len(items) => b # Len(items)
        BY DEF LineInv, LineTypeOK
      <3> QED
        BY <3>1 DEF LineInv, FullBatches
    <2> QED
      BY <2>1 DEF BatchesCutTheInput, LineInv, InStepWithInput, ErrorEnds
  <1> QED
    BY <1>1, LineInvariance, PTL

-----------------------------------------------------------------------------
(* What a chain of calls makes of a point                                  *)

Entries(K) == Seq([key : K, value : Nat])

\* For each key the calls on it among the first n calls of the chain.
OnCalls(calls, op, K, n) ==
    [k \in K |-> {m \in 1..n : calls[m].op = op /\ calls[m].key = k}]

\* The map has the keys called, in the order of the first call on each, with the
\* value of the last.
IsMapOf(map, K, on) ==
    /\ map \in Entries(K)
    /\ \A k \in K : on[k] # {} <=> \E i \in DOMAIN map : map[i].key = k
    /\ \A i \in DOMAIN map : /\ map[i].value \in on[map[i].key]
                             /\ \A m \in on[map[i].key] : m <= map[i].value
    /\ \A i, j \in DOMAIN map : i < j =>
          \E m \in on[map[i].key] : \A q \in on[map[j].key] : m < q

LEMMA PutKeeps ==
    ASSUME NEW K, NEW n \in Nat, NEW on \in [K -> SUBSET (1..n)], NEW map, IsMapOf(map, K, on),
           NEW key \in K, NEW more,
           more = [k \in K |-> IF k = key THEN on[k] \cup {n + 1} ELSE on[k]]
    PROVE  IsMapOf(Put(map, key, n + 1), K, more)
  <1> DEFINE new == [key |-> key, value |-> n + 1]
             put == Put(map, key, n + 1)
             Entry == [key : K, value : Nat]
  <1>1. /\ map \in Seq(Entry) /\ Len(map) \in Nat /\ DOMAIN map = 1..Len(map)
        /\ \A i \in 1..Len(map) : map[i] \in Entry
    <2>1. map \in Seq(Entry)
      BY DEF IsMapOf, Entries
    <2> HIDE DEF Entry
    <2> QED
      BY <2>1
  <1>2. /\ new \in Entry /\ new.key = key /\ new.value = n + 1
        /\ \A i \in 1..Len(map) : map[i].key \in K
    BY <1>1
  <1>3. /\ \A k \in K : k # key => more[k] = on[k]
        /\ more[key] = on[key] \cup {n + 1}
        /\ \A k \in K : on[k] \subseteq more[k]
        /\ \A k \in K : \A m \in on[k] : m \in Nat /\ m < n + 1
    OBVIOUS
  <1>4. /\ \A k \in K : on[k] # {} <=> \E i \in 1..Len(map) : map[i].key = k
        /\ \A i \in 1..Len(map) : /\ map[i].value \in on[map[i].key]
                                  /\ \A m \in on[map[i].key] : m <= map[i].value
        /\ \A i, j \in 1..Len(map) : i < j =>
              \E m \in on[map[i].key] : \A q \in on[map[j].key] : m < q
    BY <1>1 DEF IsMapOf
  <1> HIDE DEF new, Entry
  <1>5. CASE \E i \in 1..Len(map) : map[i].key = key
    <2>1. put = [i \in 1..Len(map) |-> IF map[i].key = key THEN new ELSE map[i]]
      BY <1>1, <1>5 DEF Put, new
    <2> HIDE DEF put
    <2>2. /\ put \in Seq(Entry) /\ DOMAIN put = 1..Len(map)
          /\ \A i \in 1..Len(map) : /\ put[i].key = map[i].key
                                    /\ map[i].key = key => put[i] = new
                                    /\ map[i].key # key => put[i] = map[i]
      <3>1. \A i \in 1..Len(map) : (IF map[i].key = key THEN new ELSE map[i]) \in Entry
        BY <1>1, <1>2
      <3>2. put \in [1..Len(map) -> Entry]
        BY <2>1, <3>1
      <3> QED
        BY <1>1, <1>2, <2>1, <3>2
    <2>3. \A k \in K : more[k] # {} <=> \E i \in DOMAIN put : put[i].key = k
      <3> TAKE k \in K
      <3>1. (\E i \in DOMAIN put : put[i].key = k) <=> (\E i \in 1..Len(map) : map[i].key = k)
        BY <2>2
      <3>2. CASE k = key
        BY <1>3, <1>5, <3>1, <3>2
      <3>3. CASE k # key
        BY <1>3, <1>4, <3>1, <3>3
      <3> QED
        BY <3>2, <3>3
    <2>4. ASSUME NEW i \in 1..Len(map)
          PROVE  /\ put[i].value \in more[put[i].key]
                 /\ \A m \in more[put[i].key] : m <= put[i].value
      <3>1. CASE map[i].key = key
        <4>1. put[i].value = n + 1 /\ more[put[i].key] = on[key] \cup {n + 1}
          BY <1>2, <1>3, <2>2, <3>1
        <4> QED
          <5>1. more[put[i].key] = on[key] \cup {put[i].value} /\ put[i].value = n + 1
            BY <4>1
          <5>2. \A m \in on[key] : m \in Nat /\ m < n + 1
            BY <1>3
          <5>3. n + 1 <= n + 1 /\ \A m \in Nat : m < n + 1 => m <= n + 1
            OBVIOUS
          <5> HIDE DEF put
          <5> QED
            BY <5>1, <5>2, <5>3
      <3>2. CASE map[i].key # key
        <4>1. put[i] = map[i] /\ more[put[i].key] = on[map[i].key]
          BY <1>2, <1>3, <2>2, <3>2
        <4> QED
          BY <1>4, <4>1
      <3> QED
        BY <3>1, <3>2
    <2>5. ASSUME NEW i \in 1..Len(map), NEW j \in 1..Len(map), i < j
          PROVE  \E m \in more[put[i].key] : \A q \in more[put[j].key] : m < q
      <3>1. PICK m \in on[map[i].key] : \A q \in on[map[j].key] : m < q
        BY <1>4, <2>5
      <3>2. m < n + 1 /\ m \in more[put[i].key]
        BY <1>2, <1>3, <2>2
      <3>3. \A q \in more[put[j].key] : m < q
        BY <1>2, <1>3, <2>2, <3>1, <3>2
      <3> QED
        BY <3>2, <3>3
    <2>6. put \in Entries(K)
      BY <2>2 DEF Entries, Entry
    <2>7. \A i \in DOMAIN put : i \in 1..Len(map)
      BY <2>2
    <2>8. IsMapOf(put, K, more)
      BY <2>3, <2>4, <2>5, <2>6, <2>7 DEF IsMapOf
    <2> QED
      BY <2>8 DEF put
  <1>6. CASE ~\E i \in 1..Len(map) : map[i].key = key
    <2>1. put = Append(map, new)
      BY <1>1, <1>6 DEF Put, new
    <2> HIDE DEF put
    <2>2. /\ put \in Seq(Entry) /\ DOMAIN put = 1..(Len(map) + 1)
          /\ \A i \in 1..Len(map) : put[i] = map[i] /\ map[i].key # key
          /\ put[Len(map) + 1] = new
      <3>1. put \in Seq(Entry) /\ Len(put) = Len(map) + 1
        BY <1>1, <1>2, <2>1
      <3>2. \A i \in 1..Len(map) : put[i] = map[i]
        BY <1>1, <1>2, <2>1
      <3>3. put[Len(map) + 1] = new
        BY <1>1, <1>2, <2>1
      <3> QED
        BY <1>6, <3>1, <3>2, <3>3
    <2>3. /\ \A i \in DOMAIN put : i \in 1..Len(map) \/ i = Len(map) + 1
          /\ Len(map) + 1 \in DOMAIN put /\ \A i \in 1..Len(map) : i \in DOMAIN put
      BY <1>1, <2>2
    <2>4. on[key] = {} /\ more[key] = {n + 1}
      BY <1>3, <1>4, <1>6
    <2>5. \A k \in K : more[k] # {} <=> \E i \in DOMAIN put : put[i].key = k
      <3> TAKE k \in K
      <3>1. CASE k = key
        BY <1>2, <2>2, <2>3, <2>4, <3>1
      <3>2. CASE k # key
        <4>1. (\E i \in DOMAIN put : put[i].key = k) <=> (\E i \in 1..Len(map) : map[i].key = k)
          BY <1>2, <2>2, <2>3, <3>2
        <4> QED
          BY <1>3, <1>4, <3>2, <4>1
      <3> QED
        BY <3>1, <3>2
    <2>6. ASSUME NEW i \in DOMAIN put
          PROVE  /\ put[i].value \in more[put[i].key]
                 /\ \A m \in more[put[i].key] : m <= put[i].value
      <3>1. CASE i = Len(map) + 1
        BY <1>2, <2>2, <2>4, <3>1
      <3>2. CASE i \in 1..Len(map)
        BY <1>2, <1>3, <1>4, <2>2, <3>2
      <3> QED
        BY <2>3, <3>1, <3>2
    <2>7. ASSUME NEW i \in DOMAIN put, NEW j \in DOMAIN put, i < j
          PROVE  \E m \in more[put[i].key] : \A q \in more[put[j].key] : m < q
      <3>1. i \in 1..Len(map)
        BY <1>1, <2>2, <2>7
      <3>2. CASE j \in 1..Len(map)
        <4>1. put[i] = map[i] /\ put[j] = map[j] /\ map[i].key # key /\ map[j].key # key
          BY <2>2, <3>1, <3>2
        <4>2. more[put[i].key] = on[map[i].key] /\ more[put[j].key] = on[map[j].key]
          BY <1>2, <1>3, <3>1, <3>2, <4>1
        <4> QED
          BY <1>4, <2>7, <3>1, <3>2, <4>2
      <3>3. CASE j = Len(map) + 1
        <4>1. map[i].value \in more[put[i].key] /\ map[i].value < n + 1
          BY <1>2, <1>3, <1>4, <2>2, <3>1
        <4>2. more[put[j].key] = {n + 1}
          BY <1>2, <2>2, <2>4, <3>3
        <4> QED
          BY <4>1, <4>2
      <3> QED
        BY <2>3, <3>2, <3>3
    <2>8. put \in Entries(K)
      BY <2>2 DEF Entries, Entry
    <2>9. IsMapOf(put, K, more)
      BY <2>5, <2>6, <2>7, <2>8 DEF IsMapOf
    <2> QED
      BY <2>9 DEF put
  <1> QED
    BY <1>5, <1>6

\* The values of a point.
AnyPoint == [tags : Entries(TagKey), fields : Entries(FieldKey), time : Nanos \cup {None}]

LEMMA PutType ==
    ASSUME NEW K, NEW map \in Entries(K), NEW key \in K, NEW n \in Nat
    PROVE  Put(map, key, n) \in Entries(K)
  <1> DEFINE new == [key |-> key, value |-> n]
             Entry == [key : K, value : Nat]
  <1>1. new \in Entry
    OBVIOUS
  <1>2. map \in Seq(Entry)
    BY DEF Entries
  <1> HIDE DEF new, Entry
  <1>3. CASE \E i \in DOMAIN map : map[i].key = key
    <2>4. DOMAIN map = 1..Len(map)
      BY <1>2
    <2>5. Put(map, key, n) = [i \in DOMAIN map |-> IF map[i].key = key THEN new ELSE map[i]]
      BY <1>3, Zenon DEF Put, new
    <2>1. Put(map, key, n) = [i \in 1..Len(map) |-> IF map[i].key = key THEN new ELSE map[i]]
      BY <2>4, <2>5
    <2>2. \A i \in 1..Len(map) : (IF map[i].key = key THEN new ELSE map[i]) \in Entry
      BY <1>1, <1>2
    <2>3. Put(map, key, n) \in [1..Len(map) -> Entry] /\ Len(map) \in Nat
      BY <1>2, <2>1, <2>2
    <2> QED
      BY <2>3 DEF Entries, Entry
  <1>4. CASE ~\E i \in DOMAIN map : map[i].key = key
    <2>1. Put(map, key, n) = Append(map, new)
      BY <1>4 DEF Put, new
    <2> QED
      BY <1>1, <1>2, <2>1 DEF Entries, Entry
  <1> QED
    BY <1>3, <1>4

LEMMA BuiltType ==
    ASSUME NEW point \in AnyPoint, NEW call \in Call, NEW n \in Nat
    PROVE  /\ Built(point, call, n) \in AnyPoint
           /\ Built(point, call, n).tags =
                IF call.op = "tag" THEN Put(point.tags, call.key, n) ELSE point.tags
           /\ Built(point, call, n).fields =
                IF call.op = "field" THEN Put(point.fields, call.key, n) ELSE point.fields
           /\ call.op = "tag" => call.key \in TagKey
           /\ call.op = "field" => call.key \in FieldKey
  <1>1. /\ point.tags \in Entries(TagKey) /\ point.fields \in Entries(FieldKey)
        /\ point.time \in Nanos \cup {None}
        /\ point = [tags |-> point.tags, fields |-> point.fields, time |-> point.time]
    BY DEF AnyPoint
  <1>2. \/ call.op = "tag" /\ call.key \in TagKey
        \/ call.op = "field" /\ call.key \in FieldKey
        \/ call.op = "timestamp" /\ call.nanos \in Nanos
    BY DEF Call
  <1>3. CASE call.op = "tag" /\ call.key \in TagKey
    <2>1. Put(point.tags, call.key, n) \in Entries(TagKey)
      BY <1>1, <1>3, PutType
    <2>2. Built(point, call, n) = [point EXCEPT !.tags = Put(point.tags, call.key, n)]
      BY <1>3 DEF Built
    <2> QED
      BY <1>1, <1>3, <2>1, <2>2 DEF AnyPoint
  <1>4. CASE call.op = "field" /\ call.key \in FieldKey
    <2>1. Put(point.fields, call.key, n) \in Entries(FieldKey)
      BY <1>1, <1>4, PutType
    <2>2. Built(point, call, n) = [point EXCEPT !.fields = Put(point.fields, call.key, n)]
      BY <1>4 DEF Built
    <2> QED
      BY <1>1, <1>4, <2>1, <2>2 DEF AnyPoint
  <1>5. CASE call.op = "timestamp" /\ call.nanos \in Nanos
    <2>1. Built(point, call, n) = [point EXCEPT !.time = call.nanos]
      BY <1>5 DEF Built
    <2> QED
      BY <1>1, <1>5, <2>1 DEF AnyPoint
  <1> QED
    BY <1>2, <1>3, <1>4, <1>5

\* A point is what its calls make of it, one after the other.
LEMMA PointByCalls ==
    ASSUME NEW calls \in Seq(Call)
    PROVE  \E after \in [0..Len(calls) -> AnyPoint] :
             /\ after[0] = NewPoint
             /\ \A n \in 1..Len(calls) : after[n] = Built(after[n - 1], calls[n], n)
             /\ Point(calls) = after[Len(calls)]
  <1> DEFINE N == Len(calls)
             step == [n \in 1..N |-> [x \in AnyPoint |-> Built(x, calls[n], n)]]
             Eqn(f) == f = [n \in 0..N |-> IF n = 0 THEN NewPoint
                                           ELSE Built(f[n - 1], calls[n], n)]
             after == CHOOSE f : Eqn(f)
             IsChain(f) == /\ f \in [0..N -> AnyPoint]
                           /\ f[0] = NewPoint
                           /\ \A n \in 1..N : f[n] = Built(f[n - 1], calls[n], n)
  <1>1. N \in Nat /\ \A n \in 1..N : calls[n] \in Call /\ n \in Nat
    OBVIOUS
  <1>2. NewPoint \in AnyPoint
    BY DEF NewPoint, AnyPoint, Entries
  <1>3. \A n \in 1..N : \A x \in AnyPoint : Built(x, calls[n], n) \in AnyPoint
    BY <1>1, BuiltType
  <1>4. step \in [1..N -> [AnyPoint -> AnyPoint]]
    BY <1>3
  <1>5. \A n \in 1..N : \A x \in AnyPoint : step[n][x] = Built(x, calls[n], n)
    OBVIOUS
  <1> HIDE DEF step, N
  <1>6. PICK g : IsIteration(g, N, AnyPoint, NewPoint, step)
    BY <1>1, <1>2, <1>4, Iterates
  <1>7. /\ g \in [0..N -> AnyPoint] /\ g[0] = NewPoint
        /\ \A n \in 1..N : g[n] = Built(g[n - 1], calls[n], n)
    <2>1. \A n \in 1..N : n - 1 \in 0..N
      BY <1>1
    <2> QED
      BY <1>5, <1>6, <2>1 DEF IsIteration
  <1>8. Eqn(g)
    <2>1. \A n \in 0..N : g[n] = IF n = 0 THEN NewPoint ELSE Built(g[n - 1], calls[n], n)
      BY <1>1, <1>7
    <2> QED
      BY <1>7, <2>1
  <1>9. Eqn(after)
    BY <1>8
  <1> HIDE DEF after
  <1>10. IsChain(after)
    <2>1. after = [n \in 0..N |-> after[n]]
      BY <1>9
    <2>2. \A n \in 0..N : after[n] = IF n = 0 THEN NewPoint ELSE Built(after[n - 1], calls[n], n)
      BY <1>9
    <2>3. after[0] = NewPoint /\ \A n \in 1..N : after[n] = Built(after[n - 1], calls[n], n)
      BY <1>1, <2>2
    <2> DEFINE S == {n \in 0..N : after[n] \in AnyPoint}
    <2>4. S \in SUBSET (0..N) /\ 0 \in S
      BY <1>1, <1>2, <2>3
    <2>5. \A k \in 0..(N - 1) : k \in S => k + 1 \in S
      <3> TAKE k \in 0..(N - 1)
      <3> HAVE k \in S
      <3>1. k + 1 \in 1..N /\ k + 1 \in 0..N /\ (k + 1) - 1 = k /\ after[k] \in AnyPoint
        BY <1>1
      <3>2. after[k + 1] = Built(after[k], calls[k + 1], k + 1)
        BY <2>3, <3>1
      <3> QED
        BY <1>3, <3>1, <3>2
    <2> HIDE DEF S
    <2>6. S = 0..N
      BY <1>1, <2>4, <2>5, UpTo
    <2>7. \A n \in 0..N : after[n] \in AnyPoint
      BY <2>6 DEF S
    <2> QED
      BY <2>1, <2>3, <2>7
  <1>11. Point(calls) = after[N]
    BY DEF Point, after, N
  <1> QED
    BY <1>10, <1>11 DEF N

\* The builder's maps after each call (Point::tag, Point::field).
LEMMA PointIs ==
    ASSUME NEW calls \in Seq(Call)
    PROVE  /\ IsMapOf(Point(calls).tags, TagKey, OnCalls(calls, "tag", TagKey, Len(calls)))
           /\ IsMapOf(Point(calls).fields, FieldKey, OnCalls(calls, "field", FieldKey, Len(calls)))
  <1> DEFINE N == Len(calls)
             on(op, K, n) == OnCalls(calls, op, K, n)
  <1>1. PICK after \in [0..N -> AnyPoint] :
             /\ after[0] = NewPoint
             /\ \A n \in 1..N : after[n] = Built(after[n - 1], calls[n], n)
             /\ Point(calls) = after[N]
    BY PointByCalls
  <1> DEFINE S == {n \in 0..N : /\ IsMapOf(after[n].tags, TagKey, on("tag", TagKey, n))
                                /\ IsMapOf(after[n].fields, FieldKey, on("field", FieldKey, n))}
  <1>2. N \in Nat /\ \A n \in 1..N : calls[n] \in Call
    OBVIOUS
  <1> HIDE DEF N
  <1>3. ASSUME NEW K, NEW op
        PROVE  IsMapOf(<<>>, K, on(op, K, 0))
    <2>1. \A k \in K : on(op, K, 0)[k] = {}
      BY DEF OnCalls
    <2>2. <<>> \in Entries(K) /\ DOMAIN <<>> = {}
      BY DEF Entries
    <2> HIDE DEF on
    <2> QED
      BY <2>1, <2>2 DEF IsMapOf
  <1>4. 0 \in S
    <2>1. after[0].tags = <<>> /\ after[0].fields = <<>>
      BY <1>1 DEF NewPoint
    <2> HIDE DEF on
    <2> QED
      BY <1>2, <1>3, <2>1
  <1>5. ASSUME NEW K, NEW op, NEW n \in 0..(N - 1), NEW map, IsMapOf(map, K, on(op, K, n)),
               calls[n + 1].op = op => calls[n + 1].key \in K
        PROVE  IsMapOf(IF calls[n + 1].op = op THEN Put(map, calls[n + 1].key, n + 1) ELSE map,
                       K, on(op, K, n + 1))
    <2> DEFINE call == calls[n + 1]
               less == on(op, K, n)
               more == on(op, K, n + 1)
    <2>1. less \in [K -> SUBSET (1..n)] /\ n \in Nat
      BY <1>2 DEF OnCalls
    <2>2. \A k \in K : more[k] = IF call.op = op /\ call.key = k THEN less[k] \cup {n + 1} ELSE less[k]
      <3>1. \A m \in 1..(n + 1) : m \in 1..n \/ m = n + 1
        BY <2>1
      <3>2. \A m \in 1..n : m \in 1..(n + 1)
        BY <2>1
      <3>3. n + 1 \in 1..(n + 1)
        BY <2>1
      <3> QED
        BY <3>1, <3>2, <3>3 DEF OnCalls
    <2>3. more = [k \in K |-> more[k]]
      BY DEF OnCalls
    <2> HIDE DEF less, more, call
    <2>4. CASE call.op = op
      <3>1. more = [k \in K |-> IF k = call.key THEN less[k] \cup {n + 1} ELSE less[k]]
        BY <2>2, <2>3, <2>4
      <3> QED
        BY <1>5, <2>1, <2>4, <3>1, PutKeeps DEF less, more, call
    <2>5. CASE call.op # op
      <3>1. more = less
        BY <2>1, <2>2, <2>3, <2>5
      <3> QED
        BY <1>5, <2>5, <3>1 DEF less, more, call
    <2> QED
      BY <2>4, <2>5
  <1>6. \A n \in 0..(N - 1) : n \in S => n + 1 \in S
    <2> TAKE n \in 0..(N - 1)
    <2> HAVE n \in S
    <2>1. /\ n + 1 \in 1..N /\ n + 1 \in 0..N /\ n \in 0..N /\ n + 1 \in Nat /\ (n + 1) - 1 = n
          /\ after[n] \in AnyPoint /\ calls[n + 1] \in Call
      BY <1>1, <1>2
    <2>2. after[n + 1] = Built(after[n], calls[n + 1], n + 1)
      BY <1>1, <2>1
    <2>3. /\ after[n + 1].tags = IF calls[n + 1].op = "tag"
                                 THEN Put(after[n].tags, calls[n + 1].key, n + 1) ELSE after[n].tags
          /\ after[n + 1].fields = IF calls[n + 1].op = "field"
                                   THEN Put(after[n].fields, calls[n + 1].key, n + 1) ELSE after[n].fields
          /\ calls[n + 1].op = "tag" => calls[n + 1].key \in TagKey
          /\ calls[n + 1].op = "field" => calls[n + 1].key \in FieldKey
      <3> DEFINE point == after[n]
                 call == calls[n + 1]
      <3>1. point \in AnyPoint /\ call \in Call /\ n + 1 \in Nat
        BY <2>1
      <3>2. after[n + 1] = Built(point, call, n + 1)
        BY <2>2
      <3> HIDE DEF point, call
      <3>3. /\ Built(point, call, n + 1).tags =
                 IF call.op = "tag" THEN Put(point.tags, call.key, n + 1) ELSE point.tags
            /\ Built(point, call, n + 1).fields =
                 IF call.op = "field" THEN Put(point.fields, call.key, n + 1) ELSE point.fields
            /\ call.op = "tag" => call.key \in TagKey
            /\ call.op = "field" => call.key \in FieldKey
        BY <3>1, BuiltType
      <3> QED
        BY <3>2, <3>3 DEF point, call
    <2> HIDE DEF on
    <2>4. IsMapOf(after[n + 1].tags, TagKey, on("tag", TagKey, n + 1))
      BY <1>5, <2>3
    <2>5. IsMapOf(after[n + 1].fields, FieldKey, on("field", FieldKey, n + 1))
      BY <1>5, <2>3
    <2> QED
      BY <2>1, <2>4, <2>5
  <1>7. S \in SUBSET (0..N)
    OBVIOUS
  <1> HIDE DEF S
  <1>8. N \in S
    BY <1>2, <1>4, <1>6, <1>7, UpTo
  <1> QED
    BY <1>1, <1>8 DEF S, N

-----------------------------------------------------------------------------
(* What is in the lines                                                    *)

LEMMA LineAt ==
    ASSUME LineInv, NEW p \in DOMAIN Lines
    PROVE  /\ p \in DOMAIN made /\ made[p] \in Seq(Call)
           /\ Lines[p] = Line(Point(made[p]))
           /\ Encodable(Point(made[p]))
  <1>1. Lines \in Seq(Written) /\ made \in Seq(Chains) /\ Len(Lines) <= Len(made)
    BY LinesType DEF LineInv, LineTypeOK, InStepWithInput
  <1>2. p \in 1..Len(Lines) /\ p \in 1..Len(made)
    BY <1>1
  <1>3. made[p] \in Chains
    BY <1>1, <1>2
  <1>4. Encodable(Point(made[p])) /\ Lines[p] = LineOf[made[p]]
    BY <1>2 DEF LineInv, InStepWithInput
  <1> QED
    BY <1>1, <1>2, <1>3, <1>4, ConstantsAssumption DEF LineOf

CallsIn(calls, op, k) == {n \in DOMAIN calls : calls[n].op = op /\ calls[n].key = k}

\* The calls on its key tell the value of an entry, and its place.
IsToldBy(map, K, calls, op) ==
    /\ Keys(map) = {k \in K : CallsIn(calls, op, k) # {}}
    /\ \A i \in DOMAIN map : map[i].value = Max(CallsIn(calls, op, map[i].key))
    /\ \A i, j \in DOMAIN map : i < j =>
         Min(CallsIn(calls, op, map[i].key)) < Min(CallsIn(calls, op, map[j].key))

LEMMA CallsTell ==
    ASSUME NEW calls \in Seq(Call), NEW op, NEW K, NEW map,
           IsMapOf(map, K, OnCalls(calls, op, K, Len(calls)))
    PROVE  IsToldBy(map, K, calls, op)
  <1> DEFINE on(k) == CallsIn(calls, op, k)
             f == OnCalls(calls, op, K, Len(calls))
  <1>1. \A k \in K : f[k] = on(k)
    BY DEF OnCalls, CallsIn
  <1>2. /\ \A k \in K : f[k] # {} <=> \E i \in DOMAIN map : map[i].key = k
        /\ \A i \in DOMAIN map : /\ map[i].value \in f[map[i].key]
                                 /\ \A m \in f[map[i].key] : m <= map[i].value
        /\ \A i, j \in DOMAIN map : i < j =>
              \E m \in f[map[i].key] : \A q \in f[map[j].key] : m < q
        /\ \A i \in DOMAIN map : map[i].key \in K
    <2> HIDE DEF f
    <2>1. \A i \in DOMAIN map : map[i].key \in K
      <3> DEFINE Entry == [key : K, value : Nat]
      <3>1. map \in Seq(Entry)
        BY DEF IsMapOf, Entries
      <3>2. \A e \in Entry : e.key \in K
        OBVIOUS
      <3> HIDE DEF Entry
      <3> QED
        BY <3>1, <3>2
    <2> QED
      BY <2>1 DEF IsMapOf, f
  <1>3. Len(calls) \in Nat /\ \A k \in K : on(k) \in SUBSET (0..Len(calls)) /\ on(k) \in SUBSET Nat
    BY DEF CallsIn
  <1> HIDE DEF f, on
  <1>4. Keys(map) = {k \in K : on(k) # {}}
    BY <1>1, <1>2 DEF Keys
  <1>5. ASSUME NEW i \in DOMAIN map
        PROVE  map[i].value = Max(on(map[i].key))
    <2> DEFINE S == on(map[i].key)
    <2>1. /\ S \in SUBSET (0..Len(calls)) /\ map[i].value \in S
          /\ \A m \in S : m <= map[i].value
      BY <1>1, <1>2, <1>3
    <2> HIDE DEF S
    <2> DEFINE v == map[i].value
    <2>2. v \in S /\ \A m \in S : m <= v
      BY <2>1
    <2> HIDE DEF v
    <2>3. Max(S) = v
      BY <1>3, <2>1, <2>2, MaxIs
    <2> QED
      BY <2>3 DEF S, v
  <1>6. ASSUME NEW i \in DOMAIN map, NEW j \in DOMAIN map, i < j
        PROVE  Min(on(map[i].key)) < Min(on(map[j].key))
    <2> DEFINE S == on(map[i].key)
               R == on(map[j].key)
    <2>1. /\ S \in SUBSET Nat /\ R \in SUBSET Nat /\ S # {} /\ R # {}
      BY <1>1, <1>2, <1>3
    <2>2. PICK m \in S : \A q \in R : m < q
      <3>1. S = f[map[i].key] /\ R = f[map[j].key]
        BY <1>1, <1>2
      <3> QED
        BY <1>2, <1>6, <3>1
    <2> HIDE DEF S, R
    <2>3. Min(S) \in S /\ Min(S) <= m /\ Min(R) \in R
      BY <2>1, <2>2, MinIsLeast
    <2>4. m < Min(R) /\ m \in Nat /\ Min(S) \in Nat /\ Min(R) \in Nat
      BY <2>1, <2>2, <2>3
    <2> QED
      BY <2>3, <2>4 DEF S, R
  <1> QED
    BY <1>4, <1>5, <1>6 DEF on, IsToldBy

\* A line has the fields of its point in the order of the first call on each, with
\* the value of the last (Point::field, IndexMap::insert).
THEOREM FieldsAreOfThePoint == Spec => []FieldsOfThePoint
  <1>1. LineInv => FieldsOfThePoint
    <2> HAVE LineInv
    <2> SUFFICES ASSUME NEW p \in DOMAIN Lines
                 PROVE  LET fields == Lines[p].fields
                            on(k) == CallsOn(p, "field", k)
                        IN  /\ fields # <<>>
                            /\ Keys(fields) = {k \in FieldKey : on(k) # {}}
                            /\ \A i, j \in DOMAIN fields : i < j =>
                                 Min(on(fields[i].key)) < Min(on(fields[j].key))
                            /\ \A i \in DOMAIN fields : fields[i].value = Max(on(fields[i].key))
      BY DEF FieldsOfThePoint
    <2> DEFINE calls == made[p]
               map == Point(calls).fields
    <2>1. calls \in Seq(Call) /\ Lines[p].fields = map /\ map # <<>>
      BY LineAt DEF Line, Encodable
    <2>2. \A k : CallsOn(p, "field", k) = CallsIn(calls, "field", k)
      BY DEF CallsOn, CallsIn
    <2> HIDE DEF calls
    <2>3. IsMapOf(map, FieldKey, OnCalls(calls, "field", FieldKey, Len(calls)))
      BY <2>1, PointIs
    <2> HIDE DEF map
    <2>4. IsToldBy(map, FieldKey, calls, "field")
      BY <2>1, <2>3, CallsTell
    <2> QED
      BY <2>1, <2>2, <2>4 DEF IsToldBy
  <1> QED
    BY <1>1, LineInvariance, PTL

-----------------------------------------------------------------------------
(* Sorted                                                                  *)

\* A set of integers that is finite and not empty has a greatest element.
LEMMA HasGreatest ==
    ASSUME NEW Q \in SUBSET Int, IsFiniteSet(Q), Q # {}
    PROVE  \E x \in Q : \A y \in Q : y <= x
  <1> DEFINE Good(m) == \A R \in SUBSET Q : Cardinality(R) = m /\ R # {} =>
                            \E x \in R : \A y \in R : y <= x
             n == Cardinality(Q)
             S == {m \in 0..n : Good(m)}
  <1>1. n \in Nat
    BY FS_CardinalityType
  <1>2. \A R \in SUBSET Q : IsFiniteSet(R)
    BY FS_Subset
  <1>3. Good(0)
    BY <1>2, FS_EmptySet
  <1>4. ASSUME NEW m \in 0..(n - 1), Good(m)
        PROVE  Good(m + 1)
    <2> SUFFICES ASSUME NEW R \in SUBSET Q, Cardinality(R) = m + 1, R # {}
                 PROVE  \E x \in R : \A y \in R : y <= x
      OBVIOUS
    <2>1. PICK z \in R : TRUE
      OBVIOUS
    <2> DEFINE rest == R \ {z}
    <2>2. rest \in SUBSET Q /\ Cardinality(rest) = m
      <3>1. IsFiniteSet(R) /\ Cardinality(R) - 1 = m
        BY <1>2
      <3> QED
        BY <3>1, FS_RemoveElement
    <2>3. CASE rest = {}
      <3>1. \A y \in R : y = z /\ y \in Int
        BY <2>3
      <3> QED
        BY <3>1
    <2>4. CASE rest # {}
      <3>1. PICK x \in rest : \A y \in rest : y <= x
        BY <1>4, <2>2, <2>4
      <3>2. x \in Int /\ z \in Int /\ x \in R /\ \A y \in R : y = z \/ y \in rest
        OBVIOUS
      <3>3. CASE x <= z
        <4>1. \A y \in R : y <= z
          BY <3>1, <3>2, <3>3
        <4> QED
          BY <4>1
      <3>4. CASE z <= x
        <4>1. \A y \in R : y <= x
          BY <3>1, <3>2, <3>4
        <4> QED
          BY <3>2, <4>1
      <3> QED
        BY <3>2, <3>3, <3>4
    <2> QED
      BY <2>3, <2>4
  <1> HIDE DEF Good
  <1>5. S \in SUBSET (0..n) /\ 0 \in S /\ \A k \in 0..(n - 1) : k \in S => k + 1 \in S
    BY <1>1, <1>3, <1>4
  <1> HIDE DEF S, n
  <1>6. n \in S
    BY <1>1, <1>5, UpTo
  <1>7. Good(n)
    BY <1>6 DEF S
  <1> QED
    BY <1>7 DEF Good, n

\* The elements of seq are n elements of the set, in increasing order.
IsSorting(seq, keys, n) ==
    /\ seq \in [1..n -> keys]
    /\ \A i, j \in 1..n : i < j => seq[i] < seq[j]

LEMMA SortingExists ==
    ASSUME NEW keys \in SUBSET Int, IsFiniteSet(keys)
    PROVE  \E seq : IsSorting(seq, keys, Cardinality(keys))
  <1> DEFINE n == Cardinality(keys)
             Good(m) == \A Q \in SUBSET keys : Cardinality(Q) = m =>
                            \E seq : IsSorting(seq, Q, m)
             S == {m \in 0..n : Good(m)}
  <1>1. n \in Nat /\ \A Q \in SUBSET keys : IsFiniteSet(Q)
    BY FS_CardinalityType, FS_Subset
  <1>2. Good(0)
    <2> SUFFICES ASSUME NEW Q \in SUBSET keys
                 PROVE  \E seq : IsSorting(seq, Q, 0)
      OBVIOUS
    <2>1. IsSorting([i \in 1..0 |-> 0], Q, 0)
      BY DEF IsSorting
    <2> QED
      BY <2>1
  <1>3. ASSUME NEW m \in 0..(n - 1), Good(m)
        PROVE  Good(m + 1)
    <2> SUFFICES ASSUME NEW Q \in SUBSET keys, Cardinality(Q) = m + 1
                 PROVE  \E seq : IsSorting(seq, Q, m + 1)
      OBVIOUS
    <2>1. IsFiniteSet(Q) /\ Q # {} /\ Q \in SUBSET Int
      <3>1. m + 1 # 0
        OBVIOUS
      <3> QED
        BY <1>1, <3>1, FS_EmptySet
    <2>2. PICK x \in Q : \A y \in Q : y <= x
      BY <2>1, HasGreatest
    <2> DEFINE rest == Q \ {x}
    <2>3. rest \in SUBSET keys /\ Cardinality(rest) = m
      <3>1. Cardinality(Q) - 1 = m
        OBVIOUS
      <3> QED
        BY <2>1, <3>1, FS_RemoveElement
    <2>4. \A y \in rest : y < x /\ y \in Q
      BY <2>1, <2>2
    <2> HIDE DEF rest
    <2>5. PICK seq : IsSorting(seq, rest, m)
      BY <1>3, <2>3
    <2> DEFINE longer == [i \in 1..(m + 1) |-> IF i = m + 1 THEN x ELSE seq[i]]
    <2>6. /\ \A i \in 1..(m + 1) : i # m + 1 => i \in 1..m
          /\ \A i \in 1..m : seq[i] \in rest
          /\ \A i, j \in 1..m : i < j => seq[i] < seq[j]
      BY <2>5 DEF IsSorting
    <2>7. longer \in [1..(m + 1) -> Q]
      BY <2>4, <2>6
    <2>8. ASSUME NEW i \in 1..(m + 1), NEW j \in 1..(m + 1), i < j
          PROVE  longer[i] < longer[j]
      <3>1. i \in 1..m /\ longer[i] = seq[i] /\ seq[i] \in rest
        BY <2>6, <2>8
      <3>2. CASE j = m + 1
        BY <2>4, <3>1, <3>2
      <3>3. CASE j # m + 1
        <4>1. j \in 1..m /\ longer[j] = seq[j]
          BY <2>6, <3>3
        <4> QED
          BY <2>6, <2>8, <3>1, <4>1
      <3> QED
        BY <3>2, <3>3
    <2> HIDE DEF longer
    <2>9. IsSorting(longer, Q, m + 1)
      BY <2>7, <2>8 DEF IsSorting
    <2> QED
      BY <2>9
  <1> HIDE DEF Good
  <1>4. S \in SUBSET (0..n) /\ 0 \in S /\ \A k \in 0..(n - 1) : k \in S => k + 1 \in S
    BY <1>1, <1>2, <1>3
  <1> HIDE DEF S, n
  <1>5. n \in S
    BY <1>1, <1>4, UpTo
  <1>6. Good(n)
    BY <1>5 DEF S
  <1> QED
    BY <1>6 DEF Good, n

\* Sorted gives every key once, in increasing order (BTreeMap, sort_unstable).
LEMMA SortedIs ==
    ASSUME NEW keys \in SUBSET Int, IsFiniteSet(keys)
    PROVE  /\ Sorted(keys) \in Seq(keys)
           /\ \A i, j \in DOMAIN Sorted(keys) : i < j => Sorted(keys)[i] < Sorted(keys)[j]
           /\ \A k \in keys : \E i \in DOMAIN Sorted(keys) : Sorted(keys)[i] = k
  <1> DEFINE n == Cardinality(keys)
             seq == Sorted(keys)
  <1>1. n \in Nat
    BY FS_CardinalityType
  <1>2. \E f \in [1..n -> keys] : \A i, j \in DOMAIN f : i < j => f[i] < f[j]
    <2>1. PICK f : IsSorting(f, keys, n)
      BY SortingExists
    <2> QED
      BY <2>1 DEF IsSorting
  <1>3. seq \in [1..n -> keys] /\ \A i, j \in DOMAIN seq : i < j => seq[i] < seq[j]
    BY <1>2 DEF Sorted
  <1> HIDE DEF seq, n
  <1>4. seq \in Seq(keys)
    BY <1>1, <1>3
  <1>5. seq \in Injection(1..n, keys)
    <2>1. ASSUME NEW i \in 1..n, NEW j \in 1..n, seq[i] = seq[j]
          PROVE  i = j
      <3>1. DOMAIN seq = 1..n /\ seq[i] \in Int /\ seq[j] \in Int
        BY <1>3
      <3>2. ~(i < j) /\ ~(j < i)
        BY <1>3, <2>1, <3>1
      <3> QED
        BY <1>1, <3>2
    <2> QED
      BY <1>3, <2>1 DEF Injection, IsInjective
  <1>6. IsFiniteSet(1..n) /\ Cardinality(1..n) = Cardinality(keys)
    <2>1. Cardinality(1..n) = n
      BY <1>1, FS_Interval
    <2> QED
      BY <1>1, <2>1, FS_Interval DEF n
  <1>7. seq \in Surjection(1..n, keys)
    BY <1>5, <1>6, FS_Injection
  <1> QED
    BY <1>3, <1>4, <1>7 DEF Surjection, seq

-----------------------------------------------------------------------------
(* The order of the tags                                                   *)

\* The pieces whose concatenation keeps the elements of the first n of order that
\* are among the keys.
Pieces(order, keys, n) == [i \in 1..n |-> IF order[i] \in keys THEN <<order[i]>> ELSE <<>>]

\* kept has the elements of the first n of order that are among the keys: the j-th
\* is that at place at[j].
IsKept(kept, order, keys, n, at) ==
    /\ at \in [1..Len(kept) -> 1..n]
    /\ \A i, j \in 1..Len(kept) : i < j => at[i] < at[j]
    /\ \A j \in 1..Len(kept) : kept[j] = order[at[j]] /\ order[at[j]] \in keys
    /\ \A i \in 1..n : order[i] \in keys => \E j \in 1..Len(kept) : at[j] = i

LEMMA KeptGrows ==
    ASSUME NEW K, NEW order \in Seq(K), NEW keys, NEW n \in 0..(Len(order) - 1),
           NEW kept \in Seq(K), NEW at, IsKept(kept, order, keys, n, at)
    PROVE  \E more : IsKept(IF order[n + 1] \in keys THEN kept \o <<order[n + 1]>> ELSE kept \o <<>>,
                            order, keys, n + 1, more)
  <1> DEFINE key == order[n + 1]
             L == Len(kept)
  <1>1. /\ key \in K /\ n \in Nat /\ L \in Nat
        /\ \A i \in 1..(n + 1) : i \in 1..n \/ i = n + 1
        /\ \A i \in 1..n : i \in 1..(n + 1) /\ i < n + 1
    OBVIOUS
  <1>2. /\ at \in [1..L -> 1..n]
        /\ \A i, j \in 1..L : i < j => at[i] < at[j]
        /\ \A j \in 1..L : kept[j] = order[at[j]] /\ order[at[j]] \in keys
        /\ \A i \in 1..n : order[i] \in keys => \E j \in 1..L : at[j] = i
    BY DEF IsKept
  <1> HIDE DEF L
  <1>3. CASE key \notin keys
    <2>1. kept \o <<>> = kept
      OBVIOUS
    <2>2. at \in [1..L -> 1..(n + 1)]
      BY <1>1, <1>2
    <2>3. \A i \in 1..(n + 1) : order[i] \in keys => \E j \in 1..L : at[j] = i
      BY <1>1, <1>2, <1>3
    <2>4. IsKept(kept, order, keys, n + 1, at)
      BY <1>2, <2>2, <2>3 DEF IsKept, L
    <2> QED
      BY <1>3, <2>1, <2>4
  <1>4. CASE key \in keys
    <2> DEFINE longer == kept \o <<key>>
               more == [j \in 1..(L + 1) |-> IF j = L + 1 THEN n + 1 ELSE at[j]]
    <2>1. /\ Len(longer) = L + 1 /\ longer[L + 1] = key
          /\ \A j \in 1..L : longer[j] = kept[j]
      BY <1>1 DEF L
    <2>2. /\ \A j \in 1..(L + 1) : j \in 1..L \/ j = L + 1
          /\ \A j \in 1..L : j \in 1..(L + 1) /\ j # L + 1 /\ at[j] \in 1..n
          /\ L + 1 \in 1..(L + 1)
      BY <1>1, <1>2
    <2>3. /\ more \in [1..(L + 1) -> 1..(n + 1)]
          /\ more[L + 1] = n + 1
          /\ \A j \in 1..L : more[j] = at[j]
      <3>1. \A j \in 1..(L + 1) : (IF j = L + 1 THEN n + 1 ELSE at[j]) \in 1..(n + 1)
        BY <1>1, <2>2
      <3> QED
        BY <2>2, <3>1
    <2> HIDE DEF longer, more
    <2>4. ASSUME NEW i \in 1..(L + 1), NEW j \in 1..(L + 1), i < j
          PROVE  more[i] < more[j]
      <3>1. i \in 1..L
        BY <1>1, <2>4
      <3>2. CASE j = L + 1
        BY <1>1, <2>2, <2>3, <3>1, <3>2
      <3>3. CASE j \in 1..L
        BY <1>2, <2>3, <2>4, <3>1, <3>3
      <3> QED
        BY <2>2, <3>2, <3>3
    <2>5. ASSUME NEW j \in 1..(L + 1)
          PROVE  longer[j] = order[more[j]] /\ order[more[j]] \in keys
      <3>1. CASE j = L + 1
        BY <1>4, <2>1, <2>3, <3>1
      <3>2. CASE j \in 1..L
        BY <1>2, <2>1, <2>3, <3>2
      <3> QED
        BY <2>2, <3>1, <3>2
    <2>6. ASSUME NEW i \in 1..(n + 1), order[i] \in keys
          PROVE  \E j \in 1..(L + 1) : more[j] = i
      <3>1. CASE i = n + 1
        BY <2>2, <2>3, <3>1
      <3>2. CASE i \in 1..n
        <4>1. PICK j \in 1..L : at[j] = i
          BY <1>2, <2>6, <3>2
        <4> QED
          BY <2>2, <2>3, <4>1
      <3> QED
        BY <1>1, <3>1, <3>2
    <2>7. IsKept(longer, order, keys, n + 1, more)
      BY <2>1, <2>3, <2>4, <2>5, <2>6 DEF IsKept
    <2> QED
      BY <1>4, <2>7 DEF longer
  <1> QED
    BY <1>3, <1>4

LEMMA KeptIs ==
    ASSUME NEW K, NEW order \in Seq(K), NEW keys
    PROVE  LET kept == FlattenSeq(Pieces(order, keys, Len(order)))
           IN  kept \in Seq(K) /\ \E at : IsKept(kept, order, keys, Len(order), at)
  <1> DEFINE N == Len(order)
             kept(n) == FlattenSeq(Pieces(order, keys, n))
             Good(n) == kept(n) \in Seq(K) /\ \E at : IsKept(kept(n), order, keys, n, at)
             S == {n \in 0..N : Good(n)}
             KS == Seq(K)
  <1>1. N \in Nat /\ \A i \in 1..N : order[i] \in K
    OBVIOUS
  <1>2. \A i \in 1..N : (IF order[i] \in keys THEN <<order[i]>> ELSE <<>>) \in KS
    BY <1>1
  <1> HIDE DEF N, KS
  <1>3. ASSUME NEW n \in 0..N
        PROVE  Pieces(order, keys, n) \in Seq(KS)
    <2>1. \A i \in 1..n : i \in 1..N
      BY <1>1
    <2> QED
      BY <1>2, <2>1 DEF Pieces
  <1>4. Good(0)
    <2>1. Pieces(order, keys, 0) = <<>>
      BY DEF Pieces
    <2>2. kept(0) = <<>> /\ <<>> \in Seq(K) /\ Len(<<>>) = 0
      BY <2>1, FlattenEmpty
    <2> HIDE DEF kept
    <2>3. IsKept(<<>>, order, keys, 0, <<>>)
      BY DEF IsKept
    <2> QED
      BY <2>2, <2>3
  <1>5. ASSUME NEW n \in 0..(N - 1), Good(n)
        PROVE  Good(n + 1)
    <2> DEFINE ss == Pieces(order, keys, n)
               piece == IF order[n + 1] \in keys THEN <<order[n + 1]>> ELSE <<>>
    <2>1. n + 1 \in 1..N /\ n \in 0..N /\ n \in Nat /\ \A i \in 1..n : i \in 1..(n + 1) /\ i # n + 1
      BY <1>1
    <2>2. ss \in Seq(KS) /\ piece \in KS /\ Len(ss) = n
      <3>1. Len(ss) = n
        BY <2>1 DEF Pieces
      <3> QED
        BY <1>2, <1>3, <2>1, <3>1
    <2>3. Pieces(order, keys, n + 1) = Append(ss, piece)
      <3>1. \A i \in 1..(n + 1) : i \in 1..n \/ i = n + 1
        BY <2>1
      <3>2. /\ DOMAIN Append(ss, piece) = 1..(n + 1)
            /\ \A i \in 1..n : Append(ss, piece)[i] = ss[i]
            /\ Append(ss, piece)[n + 1] = piece
            /\ Append(ss, piece) \in Seq(KS)
        <4> HIDE DEF ss, piece
        <4> QED
          BY <2>1, <2>2
      <3>3. \A i \in 1..(n + 1) : Append(ss, piece)[i] = IF order[i] \in keys THEN <<order[i]>> ELSE <<>>
        <4> TAKE i \in 1..(n + 1)
        <4>1. CASE i = n + 1
          BY <3>2, <4>1
        <4>2. CASE i \in 1..n
          BY <3>2, <4>2 DEF Pieces
        <4> QED
          BY <3>1, <4>1, <4>2
      <3>4. Append(ss, piece) = [i \in 1..(n + 1) |-> Append(ss, piece)[i]]
        <4>1. ASSUME NEW s \in Seq(KS), DOMAIN s = 1..(n + 1)
              PROVE  s = [i \in 1..(n + 1) |-> s[i]]
          BY <4>1
        <4> HIDE DEF ss, piece
        <4> QED
          BY <3>2, <4>1
      <3> DEFINE app == Append(ss, piece)
      <3> HIDE DEF app
      <3> QED
        BY <3>3, <3>4 DEF Pieces, app
    <2> HIDE DEF ss
    <2>4. kept(n + 1) = kept(n) \o piece /\ kept(n) \in Seq(K)
      <3>1. piece \in Seq(K) /\ ss \in Seq(Seq(K))
        BY <2>2 DEF KS
      <3> HIDE DEF piece
      <3>2. FlattenSeq(Append(ss, piece)) = FlattenSeq(ss) \o piece /\ FlattenSeq(ss) \in Seq(K)
        BY <3>1, FlattenAppend
      <3> QED
        BY <2>3, <3>2 DEF ss
    <2> HIDE DEF kept
    <2>5. PICK at : IsKept(kept(n), order, keys, n, at)
      BY <1>5
    <2>6. n \in 0..(Len(order) - 1)
      BY DEF N
    <2>7. \E more : IsKept(IF order[n + 1] \in keys THEN kept(n) \o <<order[n + 1]>> ELSE kept(n) \o <<>>,
                           order, keys, n + 1, more)
      <3> DEFINE old == kept(n)
      <3>1. old \in Seq(K) /\ IsKept(old, order, keys, n, at)
        BY <2>4, <2>5
      <3> HIDE DEF old
      <3>2. \E more : IsKept(IF order[n + 1] \in keys THEN old \o <<order[n + 1]>> ELSE old \o <<>>,
                             order, keys, n + 1, more)
        BY <2>6, <3>1, KeptGrows
      <3> QED
        BY <3>2 DEF old
    <2>8. kept(n + 1) = IF order[n + 1] \in keys THEN kept(n) \o <<order[n + 1]>> ELSE kept(n) \o <<>>
      BY <2>4
    <2>9. kept(n) \o piece \in Seq(K)
      <3>1. piece \in Seq(K)
        BY <2>2 DEF KS
      <3> HIDE DEF piece
      <3> QED
        BY <2>4, <3>1
    <2> QED
      BY <2>4, <2>7, <2>8, <2>9
  <1> HIDE DEF Good
  <1>6. S \in SUBSET (0..N) /\ 0 \in S /\ \A k \in 0..(N - 1) : k \in S => k + 1 \in S
    BY <1>1, <1>4, <1>5
  <1> HIDE DEF S
  <1>7. N \in S
    BY <1>1, <1>6, UpTo
  <1>8. Good(N)
    BY <1>7 DEF S
  <1> QED
    BY <1>8 DEF Good, N

\* The order that the options give to the tags: those that `tag_order` names come
\* first and as it names them, the others come in the order of their keys.
Precedes(order, k, l) ==
    \/ \E i, j \in DOMAIN order : i < j /\ order[i] = k /\ order[j] = l
    \/ k \in ToSet(order) /\ l \notin ToSet(order)
    \/ k \notin ToSet(order) /\ l \notin ToSet(order) /\ k < l

\* It is an order, if `tag_order` names no key twice.
LEMMA PrecedesOneWay ==
    ASSUME NEW order \in Seq(TagKey), Unrepeated(order), NEW k \in TagKey, NEW l \in TagKey,
           Precedes(order, k, l)
    PROVE  ~Precedes(order, l, k)
  <1>1. k \in Int /\ l \in Int /\ DOMAIN order \subseteq Int
    BY ConstantsAssumption
  <1>2. \A i, j \in DOMAIN order : order[i] = order[j] => i = j
    BY DEF Unrepeated
  <1>3. \A i \in DOMAIN order : order[i] \in ToSet(order)
    BY DEF ToSet
  <1> SUFFICES ASSUME Precedes(order, l, k) PROVE FALSE
    OBVIOUS
  <1>4. CASE \E i, j \in DOMAIN order : i < j /\ order[i] = k /\ order[j] = l
    <2>1. PICK i \in DOMAIN order, j \in DOMAIN order : i < j /\ order[i] = k /\ order[j] = l
      BY <1>4
    <2>2. k \in ToSet(order) /\ l \in ToSet(order)
      BY <1>3, <2>1
    <2>3. PICK a \in DOMAIN order, b \in DOMAIN order : a < b /\ order[a] = l /\ order[b] = k
      BY <2>2 DEF Precedes
    <2>4. a = j /\ b = i
      BY <1>2, <2>1, <2>3
    <2> QED
      BY <1>1, <2>1, <2>3, <2>4
  <1>5. CASE k \in ToSet(order) /\ l \notin ToSet(order)
    BY <1>3, <1>5 DEF Precedes
  <1>6. CASE k \notin ToSet(order) /\ l \notin ToSet(order) /\ k < l
    BY <1>1, <1>3, <1>6 DEF Precedes
  <1> QED
    BY <1>4, <1>5, <1>6 DEF Precedes

\* Sequence ks has the keys and no other, in the order of the options.
AreInOrder(ks, keys, order) ==
    /\ ks \in Seq(TagKey)
    /\ keys = {ks[i] : i \in DOMAIN ks}
    /\ \A i, j \in DOMAIN ks : i < j => Precedes(order, ks[i], ks[j])

\* What merges the keys of `tag_order` with the others puts them in that order.
LEMMA MergedInOrder ==
    ASSUME NEW order \in Seq(TagKey), NEW keys \in SUBSET TagKey, IsFiniteSet(keys)
    PROVE  AreInOrder(FlattenSeq([i \in DOMAIN order |-> IF order[i] \in keys THEN <<order[i]>>
                                                        ELSE <<>>])
                        \o Sorted(keys \ ToSet(order)), keys, order)
  <1> DEFINE x == FlattenSeq(Pieces(order, keys, Len(order)))
             rest == keys \ ToSet(order)
             y == Sorted(rest)
             n == Len(x)
             ks == x \o y
  <1>1. Pieces(order, keys, Len(order))
          = [i \in DOMAIN order |-> IF order[i] \in keys THEN <<order[i]>> ELSE <<>>]
    BY DEF Pieces
  <1>2. x \in Seq(TagKey) /\ \E at : IsKept(x, order, keys, Len(order), at)
    BY KeptIs
  <1>3. rest \in SUBSET Int /\ rest \in SUBSET TagKey /\ IsFiniteSet(rest)
    BY ConstantsAssumption, FS_Subset
  <1>4. \A i \in DOMAIN order : order[i] \in ToSet(order)
    BY DEF ToSet
  <1>5. \A k \in ToSet(order) : \E i \in DOMAIN order : k = order[i]
    BY DEF ToSet
  <1>6. \A k \in keys : k \in rest \/ k \in ToSet(order)
    OBVIOUS
  <1>7. \A k \in rest : k \in keys /\ k \notin ToSet(order)
    OBVIOUS
  <1> HIDE DEF x, rest
  <1>8. /\ y \in Seq(rest)
        /\ \A i, j \in DOMAIN y : i < j => y[i] < y[j]
        /\ \A k \in rest : \E i \in DOMAIN y : y[i] = k
    BY <1>3, SortedIs
  <1> HIDE DEF y
  <1>9. y \in Seq(TagKey)
    <2>1. Len(y) \in Nat /\ y \in [1..Len(y) -> rest]
      BY <1>8
    <2>2. y \in [1..Len(y) -> TagKey]
      BY <1>3, <2>1
    <2> QED
      BY <2>1, <2>2
  <1>10. PICK at : /\ at \in [1..n -> 1..Len(order)]
                   /\ \A i, j \in 1..n : i < j => at[i] < at[j]
                   /\ \A j \in 1..n : x[j] = order[at[j]] /\ order[at[j]] \in keys
                   /\ \A i \in 1..Len(order) : order[i] \in keys => \E j \in 1..n : at[j] = i
    BY <1>2 DEF IsKept
  <1>11. IsConcat(ks, x, y) /\ ks \in Seq(TagKey)
    BY <1>2, <1>9, ConcatAt
  <1>12. n \in Nat /\ Len(y) \in Nat /\ DOMAIN y = 1..Len(y) /\ DOMAIN ks = 1..Len(ks)
         /\ DOMAIN order = 1..Len(order)
    BY <1>2, <1>8, <1>11
  <1> HIDE DEF ks
  <1>13. /\ Len(ks) = n + Len(y)
         /\ \A i \in 1..n : ks[i] = x[i] /\ i \in 1..Len(ks)
         /\ \A j \in 1..Len(y) : n + j \in 1..Len(ks) /\ ks[n + j] = y[j]
         /\ \A i \in 1..Len(ks) : i \in 1..n \/ (i - n \in 1..Len(y) /\ i = n + (i - n))
    BY <1>11, <1>12 DEF IsConcat
  <1>14. /\ \A i \in 1..n : x[i] \in keys /\ x[i] \in ToSet(order)
         /\ \A j \in 1..Len(y) : y[j] \in rest /\ y[j] \in keys /\ y[j] \notin ToSet(order)
    <2>1. ASSUME NEW i \in 1..n
          PROVE  x[i] \in keys /\ x[i] \in ToSet(order)
      <3>1. at[i] \in DOMAIN order /\ x[i] = order[at[i]] /\ order[at[i]] \in keys
        BY <1>10, <1>12
      <3> QED
        BY <1>4, <3>1
    <2>2. ASSUME NEW j \in 1..Len(y)
          PROVE  y[j] \in rest
      BY <1>8, <1>12
    <2> QED
      BY <1>7, <2>1, <2>2
  <1>15. keys = {ks[i] : i \in DOMAIN ks}
    <2>1. ASSUME NEW i \in DOMAIN ks
          PROVE  ks[i] \in keys
      <3>1. CASE i \in 1..n
        BY <1>13, <1>14, <3>1
      <3>2. CASE i - n \in 1..Len(y) /\ i = n + (i - n)
        BY <1>13, <1>14, <3>2
      <3> QED
        BY <1>12, <1>13, <3>1, <3>2
    <2>2. ASSUME NEW k \in keys
          PROVE  \E i \in DOMAIN ks : ks[i] = k
      <3>1. CASE k \in rest
        <4>1. PICK j \in 1..Len(y) : y[j] = k
          BY <1>8, <1>12, <3>1
        <4> QED
          BY <1>12, <1>13, <4>1
      <3>2. CASE k \in ToSet(order)
        <4>1. PICK i \in 1..Len(order) : order[i] = k
          BY <1>5, <1>12, <3>2
        <4>2. PICK j \in 1..n : at[j] = i
          BY <1>10, <2>2, <4>1
        <4> QED
          BY <1>10, <1>12, <1>13, <4>1, <4>2
      <3> QED
        BY <1>6, <3>1, <3>2
    <2> QED
      BY <2>1, <2>2
  <1>16. ASSUME NEW i \in DOMAIN ks, NEW j \in DOMAIN ks, i < j
         PROVE  Precedes(order, ks[i], ks[j])
    <2>1. CASE i \in 1..n /\ j \in 1..n
      <3>1. /\ at[i] \in DOMAIN order /\ at[j] \in DOMAIN order /\ at[i] < at[j]
            /\ order[at[i]] = ks[i] /\ order[at[j]] = ks[j]
        BY <1>10, <1>12, <1>13, <1>16, <2>1
      <3> QED
        BY <3>1 DEF Precedes
    <2>2. CASE i \in 1..n /\ j - n \in 1..Len(y) /\ j = n + (j - n)
      <3>1. ks[i] \in ToSet(order) /\ ks[j] \notin ToSet(order)
        BY <1>13, <1>14, <2>2
      <3> QED
        BY <3>1 DEF Precedes
    <2>3. CASE i - n \in 1..Len(y) /\ i = n + (i - n) /\ j - n \in 1..Len(y) /\ j = n + (j - n)
      <3>1. i - n < j - n
        BY <1>12, <1>16
      <3>2. ks[i] = y[i - n] /\ ks[j] = y[j - n]
        BY <1>13, <2>3
      <3>3. ks[i] < ks[j] /\ ks[i] \notin ToSet(order) /\ ks[j] \notin ToSet(order)
        BY <1>8, <1>12, <1>14, <2>3, <3>1, <3>2
      <3> QED
        BY <3>3 DEF Precedes
    <2>4. j \in 1..n => i \in 1..n
      BY <1>12, <1>16
    <2> QED
      BY <1>12, <1>13, <2>1, <2>2, <2>3, <2>4
  <1> QED
    BY <1>1, <1>11, <1>15, <1>16 DEF AreInOrder, ks, x, y, rest

\* The tags of a line, whichever path writes them (Point::write_line_protocol).
LEMMA LineTagsAre ==
    ASSUME LineTypeOK, NEW point, Keys(point.tags) \in SUBSET TagKey, IsFiniteSet(Keys(point.tags))
    PROVE  \E ks :
             /\ AreInOrder(ks, opts.default_tags \cup Keys(point.tags), opts.tag_order)
             /\ LineTags(point) = [i \in DOMAIN ks |->
                   [key |-> ks[i],
                    value |-> IF ks[i] \in Keys(point.tags) THEN Value(point.tags, ks[i]) ELSE Default]]
  <1> DEFINE own == Keys(point.tags)
             keys == opts.default_tags \cup own
             order == opts.tag_order
             hot == opts.default_tags = {} /\ order = <<>>
             ks == IF hot THEN Sorted(own) ELSE ordered_keys(point)
             value(k) == IF k \in own THEN Value(point.tags, k) ELSE Default
  <1>1. /\ order \in Seq(TagKey) /\ opts.default_tags \in SUBSET TagKey
        /\ IsFiniteSet(opts.default_tags) /\ TagKey \subseteq Int
    BY ConstantsAssumption DEF LineTypeOK
  <1>2. keys \in SUBSET TagKey /\ IsFiniteSet(keys)
    BY <1>1, FS_Union
  <1>3. DOMAIN tag_map(point) = keys /\ \A k \in keys : tag_map(point)[k] = value(k)
    BY DEF tag_map
  <1>4. AreInOrder(ks, keys, order)
    <2>1. CASE hot
      <3>1. keys = own /\ ks = Sorted(own) /\ own \in SUBSET Int /\ IsFiniteSet(own)
            /\ ToSet(order) = {}
        <4>1. ToSet(<<>>) = {}
          BY DEF ToSet
        <4>2. keys = own
          BY <2>1
        <4> HIDE DEF own
        <4> QED
          BY <1>1, <1>2, <2>1, <4>1, <4>2
      <3> HIDE DEF ks, own, order
      <3>2. /\ ks \in Seq(own)
            /\ \A i, j \in DOMAIN ks : i < j => ks[i] < ks[j]
            /\ \A k \in own : \E i \in DOMAIN ks : ks[i] = k
        BY <3>1, SortedIs
      <3>3. ks \in Seq(TagKey) /\ \A i \in DOMAIN ks : ks[i] \in own
        BY <1>2, <3>1, <3>2
      <3>4. own = {ks[i] : i \in DOMAIN ks}
        BY <3>2, <3>3
      <3>5. \A i, j \in DOMAIN ks : i < j => Precedes(order, ks[i], ks[j])
        BY <3>1, <3>2 DEF Precedes
      <3> QED
        BY <3>1, <3>3, <3>4, <3>5 DEF AreInOrder
    <2>2. CASE ~hot
      <3>1. ks = FlattenSeq([i \in DOMAIN order |-> IF order[i] \in keys THEN <<order[i]>> ELSE <<>>])
                   \o Sorted(keys \ ToSet(order))
        BY <1>3, <2>2 DEF ordered_keys
      <3> HIDE DEF ks, keys, order
      <3> QED
        BY <1>1, <1>2, <3>1, MergedInOrder
    <2> QED
      BY <2>1, <2>2
  <1>5. LineTags(point) = [i \in DOMAIN ks |-> [key |-> ks[i], value |-> value(ks[i])]]
    <2>1. \A i \in DOMAIN ks : ks[i] \in keys
      <3> HIDE DEF ks, keys
      <3> QED
        BY <1>4 DEF AreInOrder
    <2>2. \A i \in DOMAIN ks : value(ks[i]) =
              IF hot THEN Value(point.tags, ks[i]) ELSE tag_map(point)[ks[i]]
      <3> HIDE DEF ks
      <3> QED
        BY <1>3, <2>1
    <2>3. LineTags(point) = [i \in DOMAIN ks |-> [key |-> ks[i],
              value |-> IF hot THEN Value(point.tags, ks[i]) ELSE tag_map(point)[ks[i]]]]
      BY DEF LineTags
    <2> HIDE DEF ks, value, hot
    <2> QED
      BY <2>2, <2>3
  <1> QED
    BY <1>4, <1>5

\* The keys that the point sets a tag on.
Given(p) == {k \in TagKey : CallsOn(p, "tag", k) # {}}
TagValue(p, k) == IF k \in Given(p) THEN Max(CallsOn(p, "tag", k)) ELSE Default

LEMMA TagsAt ==
    ASSUME LineInv, NEW p \in DOMAIN Lines
    PROVE  \E ks : /\ AreInOrder(ks, opts.default_tags \cup Given(p), opts.tag_order)
                   /\ Lines[p].tags = [i \in DOMAIN ks |-> [key |-> ks[i], value |-> TagValue(p, ks[i])]]
  <1> DEFINE calls == made[p]
             point == Point(calls)
             map == point.tags
  <1>1. calls \in Seq(Call) /\ Lines[p].tags = LineTags(point)
    BY LineAt DEF Line
  <1>2. \A k : CallsOn(p, "tag", k) = CallsIn(calls, "tag", k)
    BY DEF CallsOn, CallsIn
  <1> HIDE DEF calls
  <1>3. IsMapOf(map, TagKey, OnCalls(calls, "tag", TagKey, Len(calls)))
    BY <1>1, PointIs
  <1> HIDE DEF point
  <1>4. IsToldBy(map, TagKey, calls, "tag")
    BY <1>1, <1>3, CallsTell
  <1>5. map \in Entries(TagKey)
    BY <1>3 DEF IsMapOf
  <1> HIDE DEF map
  <1>6. Keys(map) = Given(p)
    BY <1>2, <1>4 DEF IsToldBy, Given
  <1>7. \A k \in Keys(map) : Value(map, k) = TagValue(p, k)
    <2> TAKE k \in Keys(map)
    <2>1. \E i \in DOMAIN map : map[i].key = k
      BY DEF Keys
    <2>2. PICK i \in DOMAIN map : map[i].key = k /\ Value(map, k) = map[i].value
      BY <2>1 DEF Value
    <2>3. map[i].value = Max(CallsOn(p, "tag", k))
      BY <1>2, <1>4, <2>2 DEF IsToldBy
    <2> QED
      BY <1>6, <2>2, <2>3 DEF TagValue
  <1>8. Keys(map) \in SUBSET TagKey /\ IsFiniteSet(Keys(map))
    <2> DEFINE n == Len(map)
               f == [i \in 1..n |-> map[i].key]
    <2>1. n \in Nat /\ DOMAIN map = 1..n
      BY <1>5 DEF Entries
    <2>2. \A i \in 1..n : map[i].key \in Keys(map)
      BY <2>1 DEF Keys
    <2>3. \A k \in Keys(map) : \E i \in 1..n : map[i].key = k
      BY <2>1 DEF Keys
    <2> HIDE DEF n
    <2>4. f \in [1..n -> Keys(map)] /\ \A k \in Keys(map) : \E i \in 1..n : f[i] = k
      BY <2>2, <2>3
    <2> HIDE DEF f
    <2>5. f \in Surjection(1..n, Keys(map))
      BY <2>4 DEF Surjection
    <2>6. IsFiniteSet(1..n)
      BY <2>1, FS_Interval
    <2>7. IsFiniteSet(Keys(map))
      BY <2>5, <2>6, FS_Surjection
    <2> QED
      BY <1>6, <2>7 DEF Given
  <1>9. PICK ks :
             /\ AreInOrder(ks, opts.default_tags \cup Keys(map), opts.tag_order)
             /\ LineTags(point) = [i \in DOMAIN ks |->
                   [key |-> ks[i],
                    value |-> IF ks[i] \in Keys(map) THEN Value(map, ks[i]) ELSE Default]]
    BY <1>8, LineTagsAre DEF LineInv, map
  <1>10. \A i \in DOMAIN ks :
            (IF ks[i] \in Keys(map) THEN Value(map, ks[i]) ELSE Default) = TagValue(p, ks[i])
    BY <1>6, <1>7 DEF TagValue
  <1>11. LineTags(point) = [i \in DOMAIN ks |-> [key |-> ks[i], value |-> TagValue(p, ks[i])]]
    BY <1>9, <1>10
  <1> QED
    BY <1>1, <1>6, <1>9, <1>11 DEF point

\* A sequence in the order of the options names no key twice.
LEMMA InOrderOnce ==
    ASSUME LineTypeOK, Unrepeated(opts.tag_order), NEW ks, NEW keys,
           AreInOrder(ks, keys, opts.tag_order)
    PROVE  \A i, j \in DOMAIN ks : ks[i] = ks[j] => i = j
  <1> SUFFICES ASSUME NEW i \in DOMAIN ks, NEW j \in DOMAIN ks, ks[i] = ks[j]
               PROVE  i = j
    OBVIOUS
  <1>1. /\ ks \in Seq(TagKey) /\ opts.tag_order \in Seq(TagKey)
        /\ \A a, b \in DOMAIN ks : a < b => Precedes(opts.tag_order, ks[a], ks[b])
    BY ConstantsAssumption DEF AreInOrder, LineTypeOK
  <1>2. ks[i] \in TagKey /\ i \in Int /\ j \in Int
    BY <1>1
  <1>3. ~Precedes(opts.tag_order, ks[i], ks[i])
    <2> DEFINE order == opts.tag_order
               k == ks[i]
    <2> HIDE DEF order, k
    <2>1. order \in Seq(TagKey) /\ Unrepeated(order) /\ k \in TagKey
      BY <1>1, <1>2 DEF order, k
    <2>2. ~Precedes(order, k, k)
      BY <2>1, PrecedesOneWay
    <2> QED
      BY <2>2 DEF order, k
  <1>4. ~(i < j) /\ ~(j < i)
    BY <1>1, <1>3
  <1> QED
    BY <1>2, <1>4

\* Whatever path wrote it, a line has each tag of its point and of the defaults
\* once, with the value given last by the point, else the default.
THEOREM TagsAreOfThePoint == Spec => []TagsOfThePoint
  <1>1. LineInv => TagsOfThePoint
    <2> HAVE LineInv
    <2> SUFFICES ASSUME Unrepeated(opts.tag_order), NEW p \in DOMAIN Lines
                 PROVE  LET tags == Lines[p].tags
                        IN  /\ Len(tags) = Cardinality(Keys(tags))
                            /\ Keys(tags) = Given(p) \cup opts.default_tags
                            /\ \A k \in Keys(tags) : Value(tags, k) = TagValue(p, k)
      BY DEF TagsOfThePoint, Given, TagValue
    <2> DEFINE tags == Lines[p].tags
    <2>1. PICK ks : /\ AreInOrder(ks, opts.default_tags \cup Given(p), opts.tag_order)
                    /\ tags = [i \in DOMAIN ks |-> [key |-> ks[i], value |-> TagValue(p, ks[i])]]
      BY TagsAt
    <2> HIDE DEF tags
    <2>2. \A i, j \in DOMAIN ks : ks[i] = ks[j] => i = j
      BY <2>1, InOrderOnce DEF LineInv
    <2> DEFINE n == Len(ks)
    <2>3. n \in Nat /\ DOMAIN ks = 1..n /\ {ks[i] : i \in 1..n} = opts.default_tags \cup Given(p)
      BY <2>1 DEF AreInOrder
    <2> HIDE DEF n
    <2>4. /\ DOMAIN tags = 1..n /\ Len(tags) = n
          /\ \A i \in 1..n : tags[i].key = ks[i] /\ tags[i].value = TagValue(p, ks[i])
      BY <2>1, <2>3
    <2>5. Keys(tags) = {ks[i] : i \in 1..n}
      BY <2>4 DEF Keys
    <2>6. \A k \in Keys(tags) : Value(tags, k) = TagValue(p, k)
      <3> TAKE k \in Keys(tags)
      <3>1. \E i \in DOMAIN tags : tags[i].key = k
        BY DEF Keys
      <3>2. PICK i \in DOMAIN tags : tags[i].key = k /\ Value(tags, k) = tags[i].value
        BY <3>1 DEF Value
      <3> QED
        BY <2>4, <3>2
    <2>7. Cardinality(Keys(tags)) = n
      <3> DEFINE f == [i \in 1..n |-> ks[i]]
                 K == Keys(tags)
      <3>1. f \in [1..n -> K] /\ \A k \in K : \E i \in 1..n : f[i] = k
        BY <2>5
      <3>2. \A i, j \in 1..n : f[i] = f[j] => i = j
        BY <2>2, <2>3
      <3> HIDE DEF f, K
      <3>3. f \in Bijection(1..n, K)
        BY <3>1, <3>2 DEF Bijection, Injection, Surjection, IsInjective
      <3>4. ExistsBijection(1..n, K)
        BY <3>3 DEF ExistsBijection
      <3>5. IsFiniteSet(1..n) /\ Cardinality(1..n) = n
        BY <2>3, FS_Interval
      <3>6. Cardinality(K) = n
        BY <3>4, <3>5, FS_Bijection
      <3> QED
        BY <3>6 DEF K
    <2> QED
      BY <2>3, <2>4, <2>5, <2>6, <2>7 DEF tags
  <1> QED
    BY <1>1, LineInvariance, PTL

\* Two tags come in one order in all the lines that have both
\* (WriteOptions::tag_order).
THEOREM TagsInOneOrder == Spec => []OneTagOrder
  <1>1. LineInv => OneTagOrder
    <2> HAVE LineInv
    <2> SUFFICES ASSUME Unrepeated(opts.tag_order),
                        NEW p \in DOMAIN Lines, NEW q \in DOMAIN Lines,
                        NEW i \in DOMAIN Lines[p].tags, NEW j \in DOMAIN Lines[p].tags,
                        NEW k \in DOMAIN Lines[q].tags, NEW l \in DOMAIN Lines[q].tags,
                        i < j, Lines[p].tags[i].key = Lines[q].tags[k].key,
                        Lines[p].tags[j].key = Lines[q].tags[l].key
                 PROVE  k < l
      BY DEF OneTagOrder
    <2> DEFINE s == Lines[p].tags
               t == Lines[q].tags
               order == opts.tag_order
    <2>1. PICK ks : /\ AreInOrder(ks, opts.default_tags \cup Given(p), order)
                    /\ s = [a \in DOMAIN ks |-> [key |-> ks[a], value |-> TagValue(p, ks[a])]]
      BY TagsAt
    <2>2. PICK ms : /\ AreInOrder(ms, opts.default_tags \cup Given(q), order)
                    /\ t = [a \in DOMAIN ms |-> [key |-> ms[a], value |-> TagValue(q, ms[a])]]
      BY TagsAt
    <2>3. /\ i \in DOMAIN ks /\ j \in DOMAIN ks /\ k \in DOMAIN ms /\ l \in DOMAIN ms
          /\ ks[i] = ms[k] /\ ks[j] = ms[l]
      BY <2>1, <2>2
    <2>4. order \in Seq(TagKey) /\ Unrepeated(order)
      BY ConstantsAssumption DEF LineInv, LineTypeOK
    <2> HIDE DEF order
    <2>5. /\ ks \in Seq(TagKey) /\ ms \in Seq(TagKey)
          /\ Precedes(order, ks[i], ks[j])
          /\ \A a, b \in DOMAIN ms : a < b => Precedes(order, ms[a], ms[b])
      BY <2>1, <2>2, <2>3 DEF AreInOrder
    <2>6. k \in Int /\ l \in Int /\ ms[k] \in TagKey /\ ms[l] \in TagKey
      BY <2>3, <2>5
    <2> DEFINE x == ms[k]
               y == ms[l]
    <2>7. x \in TagKey /\ y \in TagKey /\ Precedes(order, x, y)
      BY <2>3, <2>5, <2>6
    <2> HIDE DEF x, y
    <2>8. ~Precedes(order, y, x)
      BY <2>4, <2>7, PrecedesOneWay
    <2>9. ~(l < k) /\ k # l
      BY <2>3, <2>5, <2>7, <2>8 DEF x, y
    <2> QED
      BY <2>6, <2>9
  <1> QED
    BY <1>1, LineInvariance, PTL

-----------------------------------------------------------------------------
(* The time of a line (LineRoundTrip)                                      *)

\* What is known of the time at each status.
TimeInv ==
    /\ source \in Source /\ precision \in Precision
    /\ status \in {"new", "sent", "panicked", "stored", "rejected", "read"}
    /\ status = "new" => sent = NoTime /\ stored = NoTime
    /\ status \in {"sent", "stored", "read", "rejected"} => sent = Timestamp
    /\ status \in {"new", "sent", "rejected", "panicked"} => stored = NoTime
    /\ status \in {"stored", "read"} =>
        IF sent = NoTime THEN stored = NoTime
        ELSE ~Overflows(sent, precision) /\ stored = sent * nanos_per_unit(precision)
    /\ status = "rejected" => sent # NoTime /\ Overflows(sent, precision)
    /\ status = "panicked" =>
        \/ source.kind = "column" /\ Overflows(source.value, source.unit)
        \/ Timestamp = NoTime
    /\ status = "read" =>
        /\ asked.unit \in Unit /\ asked.value \in I64
        /\ stored # NoTime => asked.value = truncated(stored, nanos_per_unit(asked.unit))
        /\ read = extract_value(asked.unit, asked.value)

LEMMA UnitIsPositive ==
    ASSUME NEW unit \in Unit
    PROVE  nanos_per_unit(unit) \in Nat \ {0}
  <1>1. \A m, n \in Nat \ {0} : m * n \in Nat \ {0}
    OBVIOUS
  <1>2. Factor * Factor \in Nat \ {0}
    BY <1>1, TripAssumption
  <1>3. Factor * Factor * Factor \in Nat \ {0}
    BY <1>1, <1>2, TripAssumption
  <1> QED
    BY <1>2, <1>3, TripAssumption DEF Unit, nanos_per_unit

\* What is cut off is less than a unit, and a multiple of a unit has no rest.
LEMMA DivMod ==
    ASSUME NEW m \in Int, NEW d \in Nat \ {0}
    PROVE  /\ m \div d \in Int /\ m % d \in 0..(d - 1)
           /\ m = (m \div d) * d + (m % d)
  OBVIOUS

LEMMA MultipleHasNoRest ==
    ASSUME NEW q \in Int, NEW d \in Nat \ {0}
    PROVE  (q * d) % d = 0
  OBVIOUS

\* A number cut to a unit is less than a unit away, and not farther from 0.
LEMMA CutToUnit ==
    ASSUME NEW n \in Int, NEW d \in Nat \ {0}
    PROVE  /\ truncated(n, d) \in Int
           /\ (truncated(n, d) * d) % d = 0
           /\ n >= 0 => truncated(n, d) * d \in 0..n /\ n - truncated(n, d) * d < d
           /\ n < 0 => truncated(n, d) * d \in n..0 /\ truncated(n, d) * d - n < d
  <1>1. \A m \in Nat : /\ m \div d \in Nat /\ (m \div d) * d \in 0..m
                       /\ m - (m \div d) * d < d
    <2> TAKE m \in Nat
    <2> DEFINE q == m \div d
               k == q * d
               r == m % d
    <2>1. q \in Nat
      OBVIOUS
    <2>2. k \in Nat
      <3> HIDE DEF q
      <3> QED
        BY <2>1
    <2>3. m = k + r /\ r \in 0..(d - 1)
      BY DivMod
    <2>4. k \in 0..m /\ m - k < d
      <3> HIDE DEF k, r
      <3> QED
        BY <2>2, <2>3
    <2> QED
      BY <2>1, <2>4
  <1>2. CASE n >= 0
    <2>1. n \in Nat /\ truncated(n, d) = n \div d
      BY <1>2 DEF truncated
    <2> QED
      BY <1>1, <1>2, <2>1, MultipleHasNoRest
  <1>3. CASE n < 0
    <2> DEFINE q == (-n) \div d
    <2>1. -n \in Nat /\ truncated(n, d) = -q
      BY <1>3 DEF truncated
    <2>2. q \in Nat /\ q * d \in 0..(-n) /\ (-n) - q * d < d
      BY <1>1, <2>1
    <2> HIDE DEF q
    <2>3. (-q) * d = -(q * d)
      BY <2>2
    <2> QED
      BY <1>3, <2>1, <2>2, <2>3, MultipleHasNoRest
  <1> QED
    BY <1>2, <1>3

\* Nothing that fits is changed.
LEMMA FitsUnwrapped ==
    ASSUME NEW n \in I64
    PROVE  wrapped(n) = n
  <1>1. n \in Int /\ n + Half \in 0..(2 * Half - 1) /\ 2 * Half \in Nat \ {0}
    BY TripAssumption DEF I64
  <1>2. \A m \in Nat \ {0}, x \in Int : x \in 0..(m - 1) => x % m = x
    OBVIOUS
  <1>3. (n + Half) % (2 * Half) = n + Half
    BY <1>1, <1>2
  <1> QED
    BY <1>1, <1>3, TripAssumption DEF wrapped

LEMMA CutFits ==
    ASSUME NEW n \in I64, NEW unit \in Unit,
           NEW p, p = nanos_per_unit(unit), NEW s, s = truncated(n, p)
    PROVE  /\ s \in Int /\ s * p \in I64 /\ (s * p) % p = 0
           /\ (n - s * p) * n >= 0 /\ -p < n - s * p /\ n - s * p < p
  <1> DEFINE k == s * p
  <1>1. n \in Int /\ n \in (-Half)..(Half - 1) /\ Half \in Nat \ {0} /\ p \in Nat \ {0}
    BY UnitIsPositive, TripAssumption DEF I64
  <1>2. /\ s \in Int /\ k % p = 0
        /\ n >= 0 => k \in 0..n /\ n - k < p
        /\ n < 0 => k \in n..0 /\ k - n < p
    BY <1>1, CutToUnit
  <1>3. k \in Int
    <2>1. n >= 0 \/ n < 0
      BY <1>1
    <2> QED
      BY <1>1, <1>2, <2>1
  <1> HIDE DEF k
  <1>4. k \in I64 /\ -p < n - k /\ n - k < p
    BY <1>1, <1>2, <1>3 DEF I64
  <1>5. (n - k) * n >= 0
    <2>1. \A x, y \in Int : (x >= 0 /\ y >= 0) \/ (x <= 0 /\ y <= 0) => x * y >= 0
      OBVIOUS
    <2>2. n - k \in Int /\ ((n - k >= 0 /\ n >= 0) \/ (n - k <= 0 /\ n <= 0))
      BY <1>1, <1>2, <1>3
    <2> QED
      BY <1>1, <2>1, <2>2
  <1> QED
    BY <1>2, <1>4, <1>5 DEF k

\* A time that fits in nanoseconds is written, and means a time less than a unit
\* away; a DateTime that does not fit is left out.
LEMMA TimestampMeans ==
    ASSUME source \in Source, precision \in Precision, source.kind # "none",
           NEW p, p = nanos_per_unit(precision)
    PROVE  /\ Exact \in I64 =>
                /\ Timestamp # NoTime /\ ~Overflows(Timestamp, precision)
                /\ source.kind = "column" => ~Overflows(source.value, source.unit)
                /\ (Timestamp * p) % p = 0
                /\ (Exact - Timestamp * p) * Exact >= 0
                /\ -p < Exact - Timestamp * p /\ Exact - Timestamp * p < p
           /\ source.kind = "datetime" /\ Exact \notin I64 => Timestamp = NoTime
  <1>1. precision \in Unit /\ p \in Nat \ {0} /\ Half \in Nat \ {0} /\ NoTime \notin Int
    BY UnitIsPositive, TripAssumption DEF Precision
  <1>2. source.kind \in {"nanos", "datetime", "column", "integer"}
    BY DEF Source
  <1>3. \A n \in Int : n * nanos_per_unit(0) = n
    BY DEF nanos_per_unit
  <1>4. \A n \in I64 : /\ truncated(n, p) \in Int /\ truncated(n, p) * p \in I64
                       /\ (truncated(n, p) * p) % p = 0
                       /\ (n - truncated(n, p) * p) * n >= 0
                       /\ -p < n - truncated(n, p) * p /\ n - truncated(n, p) * p < p
    BY <1>1, CutFits
  <1>5. CASE source.kind = "nanos"
    <2>1. source.unit = 0 /\ source.value \in I64 /\ source.value \in Int
      BY <1>1, <1>5 DEF Source, I64
    <2>2. Exact = source.value /\ Timestamp = truncated(source.value, p)
      BY <1>3, <1>5, <2>1 DEF Exact, Timestamp, scale_timestamp
    <2> QED
      BY <1>1, <1>4, <1>5, <2>1, <2>2 DEF Overflows
  <1>6. CASE source.kind = "datetime"
    <2>1. source.unit = 0 /\ source.value \in Int
      BY <1>1, <1>6, TripAssumption DEF Source
    <2>2. Exact = source.value
      BY <1>3, <1>6, <2>1 DEF Exact
    <2>3. Timestamp = IF Exact \in I64 THEN truncated(Exact, p) ELSE NoTime
      BY <1>6, <2>2 DEF Timestamp, scale_timestamp
    <2> QED
      BY <1>1, <1>4, <1>6, <2>2, <2>3 DEF Overflows
  <1>7. CASE source.kind = "column"
    <2>1. Exact = source.value * nanos_per_unit(source.unit)
      BY <1>7 DEF Exact
    <2>2. Exact \in I64 => Timestamp = truncated(Exact, p)
      BY <1>7, <2>1, FitsUnwrapped DEF Timestamp, scale_timestamp
    <2>3. Exact \in I64 => ~Overflows(source.value, source.unit)
      BY <2>1 DEF Overflows
    <2> QED
      BY <1>1, <1>4, <1>7, <2>2, <2>3 DEF Overflows
  <1>8. CASE source.kind = "integer"
    <2> DEFINE v == source.value
    <2>1. v \in Int /\ Exact = v * p /\ Timestamp = wrapped(v)
      BY <1>1, <1>8 DEF Source, Exact, Timestamp, I64, U64
    <2> HIDE DEF v
    <2>2. Exact \in I64 => v \in I64
      <3>1. \A x \in Int : (x >= 0 => x * p >= x) /\ (x < 0 => x * p <= x)
        BY <1>1
      <3> QED
        BY <1>1, <2>1, <3>1 DEF I64
    <2>3. Exact \in I64 => Timestamp = v
      BY <2>1, <2>2, FitsUnwrapped
    <2>4. Exact \in I64 => Timestamp \in Int /\ Timestamp * p = Exact
      BY <2>1, <2>3
    <2>5. (v * p) % p = 0
      BY <1>1, <2>1, MultipleHasNoRest
    <2> DEFINE tp == Timestamp * p
    <2>6. Exact \in I64 => /\ Timestamp # NoTime /\ tp = Exact /\ tp \in Int /\ tp % p = 0
                           /\ ~Overflows(Timestamp, precision)
      BY <1>1, <2>1, <2>4, <2>5 DEF Overflows, I64
    <2>7. Exact \in I64 => (Exact - tp) * Exact >= 0 /\ -p < Exact - tp /\ Exact - tp < p
      <3> HIDE DEF tp
      <3> SUFFICES ASSUME Exact \in I64
                   PROVE  (Exact - tp) * Exact >= 0 /\ -p < Exact - tp /\ Exact - tp < p
        OBVIOUS
      <3>1. Exact - tp = 0 /\ Exact \in Int
        BY <2>6
      <3> QED
        BY <1>1, <3>1
    <2> QED
      BY <1>8, <2>6, <2>7
  <1> QED
    BY <1>2, <1>5, <1>6, <1>7, <1>8

LEMMA TimeInvInit ==
    ASSUME TripInit
    PROVE  TimeInv
  <1>1. [kind |-> "none", unit |-> 0, value |-> 0] \in Source
    BY DEF Source
  <1>2. 0 \in Precision
    BY DEF Precision, Unit
  <1> QED
    BY <1>1, <1>2 DEF TripInit, TimeInv

\* Nothing that the time depends on changes while the body is read.
LEMMA TimeStutter ==
    ASSUME TimeInv,
           UNCHANGED <<source, precision, status, sent, stored, asked, read>>
    PROVE  TimeInv'
  <1>1. Timestamp' = Timestamp
    BY DEF Timestamp
  <1> QED
    BY <1>1 DEF TimeInv, Overflows

LEMMA TimeStep ==
    ASSUME TimeInv, [TripNext]_tripVars
    PROVE  TimeInv'
  <1>1. UNCHANGED <<source, precision>> => Timestamp' = Timestamp
    BY DEF Timestamp
  <1>2. CASE Write
    <2>1. /\ status = "new" /\ stored = NoTime /\ UNCHANGED <<source, precision, stored>>
          /\ Timestamp' = Timestamp /\ source' \in Source /\ precision' \in Precision
      BY <1>1, <1>2 DEF Write, line, TimeInv
    <2>2. CASE status' = "sent" /\ sent' = Timestamp
      BY <2>1, <2>2 DEF TimeInv
    <2>3. CASE source.kind = "column" /\ Overflows(source.value, source.unit) /\ status' = "panicked"
      BY <2>1, <2>3 DEF TimeInv, Overflows
    <2> QED
      BY <1>2, <2>2, <2>3 DEF Write
  <1>3. CASE ReadChar
    BY <1>3, TimeStutter DEF ReadChar, line
  <1>4. CASE EndLine
    BY <1>4, TimeStutter DEF EndLine, line
  <1>5. CASE Store
    <2>1. /\ status = "sent" /\ sent = Timestamp /\ UNCHANGED <<source, precision, sent>>
          /\ Timestamp' = Timestamp /\ source' \in Source /\ precision' \in Precision
      BY <1>1, <1>5 DEF Store, line, TimeInv
    <2>2. CASE sent = NoTime
      BY <1>5, <2>1, <2>2 DEF Store, TimeInv
    <2>3. CASE sent # NoTime /\ Overflows(sent, precision)
      BY <1>5, <2>1, <2>3 DEF Store, TimeInv, Overflows
    <2>4. CASE sent # NoTime /\ ~Overflows(sent, precision)
      BY <1>5, <2>1, <2>4 DEF Store, TimeInv, Overflows
    <2> QED
      BY <2>2, <2>3, <2>4
  <1>6. CASE Query
    <2>1. /\ status = "stored" /\ sent = Timestamp /\ UNCHANGED <<source, precision, sent, stored>>
          /\ Timestamp' = Timestamp /\ source' \in Source /\ precision' \in Precision
      BY <1>1, <1>6 DEF Query, line, TimeInv
    <2>2. /\ IF sent = NoTime THEN stored = NoTime
             ELSE ~Overflows(sent, precision) /\ stored = sent * nanos_per_unit(precision)
      BY <2>1 DEF TimeInv
    <2>3. stored # NoTime => stored \in I64
      BY <2>2 DEF Overflows
    <2>4. PICK unit \in Unit :
            /\ asked' \in [unit : {unit}, value : IF stored = NoTime THEN I64
                                       ELSE {truncated(stored, nanos_per_unit(unit))}]
            /\ \/ status' = "read" /\ read' = extract_value(unit, asked'.value)
               \/ Overflows(asked'.value, unit) /\ status' = "panicked" /\ UNCHANGED read
      BY <1>6 DEF Query
    <2>5. /\ asked'.unit = unit
          /\ stored # NoTime => asked'.value = truncated(stored, nanos_per_unit(unit))
          /\ stored = NoTime => asked'.value \in I64
      BY <2>4
    <2>6. stored # NoTime => /\ asked'.value * nanos_per_unit(unit) \in I64
                             /\ asked'.value \in I64
      <3> SUFFICES ASSUME stored # NoTime
                   PROVE  asked'.value * nanos_per_unit(unit) \in I64 /\ asked'.value \in I64
        OBVIOUS
      <3> DEFINE v == truncated(stored, nanos_per_unit(unit))
                 d == nanos_per_unit(unit)
      <3>1. v \in Int /\ v * d \in I64
        BY <2>3, CutFits
      <3>2. \A x \in Int, y \in Nat \ {0} : (x >= 0 => x * y >= x) /\ (x < 0 => x * y <= x)
        OBVIOUS
      <3>3. d \in Nat \ {0}
        BY UnitIsPositive
      <3> HIDE DEF v, d
      <3>4. v \in I64
        BY <3>1, <3>2, <3>3, TripAssumption DEF I64
      <3> QED
        BY <2>5, <3>1, <3>4 DEF v, d
    <2>7. CASE status' = "read" /\ read' = extract_value(unit, asked'.value)
      <3>1. extract_value(asked'.unit, asked'.value) = read'
        BY <2>5, <2>7
      <3> QED
        BY <2>1, <2>2, <2>5, <2>6, <2>7, <3>1 DEF TimeInv, Overflows, extract_value
    <2>8. CASE Overflows(asked'.value, unit) /\ status' = "panicked"
      <3>1. stored = NoTime
        BY <2>6, <2>8 DEF Overflows
      <3>2. Timestamp = NoTime
        BY <2>1, <2>2, <3>1, UnitIsPositive, TripAssumption DEF Overflows, I64, TimeInv, Precision
      <3> QED
        BY <2>1, <2>8, <3>1, <3>2 DEF TimeInv
    <2> QED
      BY <2>4, <2>7, <2>8
  <1>7. CASE UNCHANGED tripVars
    BY <1>7, TimeStutter DEF tripVars
  <1> QED
    BY <1>2, <1>3, <1>4, <1>5, <1>6, <1>7 DEF TripNext

\* The time of a line is at each status what the source and the precision say,
\* on the way to the server and back (Point::timestamp_datetime,
\* timestamp_reader, Precision::scale_timestamp, extract_value).
THEOREM TimeInvariance == TripSpec => []TimeInv
  <1>1. TripInit => TimeInv
    BY TimeInvInit
  <1>2. TimeInv /\ [TripNext]_tripVars => TimeInv'
    BY TimeStep
  <1> QED
    BY <1>1, <1>2, PTL DEF TripSpec

\* A time that fits in the nanoseconds of an i64 is stored, less than a unit of
\* the precision from where it was, and a DateTime that does not fit is left to
\* the server: for integers of any width, any factor between units and any time.
THEOREM TimeIsKept == TripSpec => []TimeKept
  <1>1. TimeInv => TimeKept
    <2> SUFFICES ASSUME TimeInv, source.kind # "none" PROVE TimeKept
      BY DEF TimeKept
    <2> DEFINE p == nanos_per_unit(precision)
    <2>1. source \in Source /\ precision \in Precision
      BY DEF TimeInv
    <2>2. /\ Exact \in I64 =>
                /\ Timestamp # NoTime /\ ~Overflows(Timestamp, precision)
                /\ source.kind = "column" => ~Overflows(source.value, source.unit)
                /\ (Timestamp * p) % p = 0
                /\ (Exact - Timestamp * p) * Exact >= 0
                /\ -p < Exact - Timestamp * p /\ Exact - Timestamp * p < p
          /\ source.kind = "datetime" /\ Exact \notin I64 => Timestamp = NoTime
      BY <2>1, TimestampMeans
    <2>3. Exact \in I64 => status # "panicked" /\ status # "rejected"
      BY <2>2 DEF TimeInv
    <2>4. status \in {"stored", "read"} /\ Exact \in I64 =>
            ~Overflows(Timestamp, precision) /\ stored = Timestamp * p
      <3> SUFFICES ASSUME status \in {"stored", "read"}, Exact \in I64
                   PROVE  ~Overflows(Timestamp, precision) /\ stored = Timestamp * p
        OBVIOUS
      <3>1. Timestamp # NoTime /\ ~Overflows(Timestamp, precision)
        BY <2>2
      <3>2. sent = Timestamp
        BY DEF TimeInv
      <3>3. sent # NoTime => stored = sent * nanos_per_unit(precision)
        BY DEF TimeInv
      <3> QED
        BY <3>1, <3>2, <3>3
    <2>5. status \in {"stored", "read"} /\ Exact \in I64 => stored # NoTime
      BY <2>4, TripAssumption DEF Overflows, I64
    <2>6. Timestamp = NoTime => stored = NoTime
      <3>1. status \in {"new", "sent", "rejected", "panicked"} \/ status \in {"stored", "read"}
        BY DEF TimeInv
      <3>2. status \in {"stored", "read"} => sent = Timestamp
        BY DEF TimeInv
      <3>3. status \in {"stored", "read"} /\ sent = NoTime => stored = NoTime
        BY DEF TimeInv
      <3>4. status \in {"new", "sent", "rejected", "panicked"} => stored = NoTime
        BY DEF TimeInv
      <3> QED
        BY <3>1, <3>2, <3>3, <3>4
    <2> QED
      BY <2>2, <2>3, <2>4, <2>5, <2>6 DEF TimeKept
  <1> QED
    BY <1>1, TimeInvariance, PTL

\* A number without rest is so many times the divisor.
LEMMA NoRestMeans ==
    ASSUME NEW m \in Int, NEW d \in Nat \ {0}, m % d = 0
    PROVE  \E q \in Int : m = q * d
  <1> DEFINE q == m \div d
  <1>1. q \in Int /\ m = q * d + (m % d)
    BY DivMod
  <1> HIDE DEF q
  <1>2. q * d \in Int
    BY <1>1
  <1>3. m = q * d
    BY <1>1, <1>2
  <1> QED
    BY <1>1, <1>3

\* What it means that m is n cut to d: it has the sign of n, or is 0.
LEMMA CutMeans ==
    ASSUME NEW n \in Int, NEW d \in Nat \ {0}, NEW m \in Int, m % d = 0,
           (n - m) * n >= 0, -d < n - m, n - m < d
    PROVE  /\ n >= 0 => 0 <= m /\ m <= n
           /\ n < 0 => n <= m /\ m <= 0
  <1>0. PICK q \in Int : m = q * d
    BY NoRestMeans
  <1> DEFINE k == q * d
  <1>1. q \in Int /\ m = k
    BY <1>0
  <1>2. \A x, y \in Int : (x * y >= 0 /\ y > 0 => x >= 0) /\ (x * y >= 0 /\ y < 0 => x <= 0)
    OBVIOUS
  \* A multiple of d above -d is not negative, and one below d not positive.
  <1>3. -d < k => k >= 0
    <2>1. \A x \in Int : x <= -1 => x * d <= -d
      OBVIOUS
    <2>2. \A x \in Int : x >= 0 => x * d >= 0
      OBVIOUS
    <2> QED
      BY <1>1, <2>1, <2>2
  <1>4. k < d => k <= 0
    <2>1. \A x \in Int : x >= 1 => x * d >= d
      OBVIOUS
    <2>2. \A x \in Int : x <= 0 => x * d <= 0
      OBVIOUS
    <2> QED
      BY <1>1, <2>1, <2>2
  <1>5. n - m \in Int /\ k \in Int
    BY <1>1
  <1> HIDE DEF k
  <1>6. CASE n > 0
    <2>1. n - m >= 0
      BY <1>2, <1>5, <1>6
    <2> QED
      BY <1>1, <1>3, <1>6, <2>1
  <1>7. CASE n < 0
    <2>1. n - m <= 0
      BY <1>2, <1>5, <1>7
    <2> QED
      BY <1>1, <1>4, <1>7, <2>1
  <1>8. CASE n = 0
    BY <1>1, <1>3, <1>4, <1>8
  <1> QED
    BY <1>6, <1>7, <1>8

\* Between two multiples of p lies at least p.
LEMMA NextMultiple ==
    ASSUME NEW p \in Nat \ {0}, NEW x \in Int, NEW y \in Int, NEW a \in Int, NEW b \in Int,
           a = x * p, b = y * p, a < b
    PROVE  a + p <= b
  <1>1. \A z \in Int : z >= 0 => z * p >= 0
    OBVIOUS
  <1>2. x < y
    <2> SUFFICES ASSUME x >= y PROVE FALSE
      OBVIOUS
    <2>1. (x - y) * p >= 0 /\ (x - y) * p = x * p - y * p
      BY <1>1
    <2> QED
      BY <2>1
  <1>3. (y - x - 1) * p >= 0 /\ (y - x - 1) * p = y * p - x * p - p
    BY <1>1, <1>2
  <1> QED
    BY <1>3

\* n, cut to p and then to a multiple of p, is n cut to the latter.
LEMMA CutTwice ==
    ASSUME NEW n \in Int, NEW p \in Nat \ {0}, NEW d \in Nat \ {0}, d % p = 0,
           NEW a \in Int, a % p = 0, (n - a) * n >= 0, -p < n - a, n - a < p,
           NEW r \in Int, r % d = 0, (a - r) * a >= 0, -d < a - r, a - r < d
    PROVE  (n - r) * n >= 0 /\ -d < n - r /\ n - r < d
  <1>1. /\ n >= 0 => 0 <= a /\ a <= n
        /\ n < 0 => n <= a /\ a <= 0
    BY CutMeans
  <1>2. /\ a >= 0 => 0 <= r /\ r <= a
        /\ a < 0 => a <= r /\ r <= 0
    BY CutMeans
  <1>3. PICK x \in Int : a = x * p
    BY NoRestMeans
  <1>4. PICK k \in Int : d = k * p
    BY NoRestMeans
  <1>5. PICK y \in Int : r = y * d
    BY NoRestMeans
  <1>6. /\ r + d = (y * k + k) * p /\ a + d = (x + k) * p /\ r = (y * k) * p
        /\ y * k \in Int /\ y * k + k \in Int /\ x + k \in Int
    BY <1>3, <1>4, <1>5
  <1>7. a + p <= r + d
    <2>1. r + d \in Int /\ a < r + d
      OBVIOUS
    <2> QED
      BY <1>3, <1>6, <2>1, NextMultiple
  <1>8. r + p <= a + d
    <2>1. a + d \in Int /\ r < a + d
      OBVIOUS
    <2> QED
      BY <1>6, <2>1, NextMultiple
  <1>9. \A v, w \in Int : (v >= 0 /\ w >= 0) \/ (v <= 0 /\ w <= 0) => v * w >= 0
    OBVIOUS
  <1>10. n - r \in Int /\ ((n - r >= 0 /\ n >= 0) \/ (n - r <= 0 /\ n <= 0))
    BY <1>1, <1>2
  <1>11. (n - r) * n >= 0
    BY <1>9, <1>10
  <1>12. -d < n - r /\ n - r < d
    BY <1>1, <1>2, <1>7, <1>8
  <1> QED
    BY <1>11, <1>12

\* Of two units one is so many of the other.
LEMMA UnitsNest ==
    ASSUME NEW i \in Unit, NEW j \in Unit, NEW p, p = nanos_per_unit(i), NEW u, u = nanos_per_unit(j)
    PROVE  p \in Nat \ {0} /\ u \in Nat \ {0} /\ (u % p = 0 \/ p % u = 0)
  <1> DEFINE two == Factor * Factor
             three == Factor * Factor * Factor
  <1>1. p \in Nat \ {0} /\ u \in Nat \ {0}
    BY UnitIsPositive
  <1>2. /\ Factor \in Nat \ {0} /\ two \in Nat \ {0} /\ three \in Nat \ {0}
        /\ three = two * Factor /\ three = Factor * two
    <2>1. \A m, n \in Nat \ {0} : m * n \in Nat \ {0}
      OBVIOUS
    <2>2. Factor \in Nat \ {0} /\ two \in Nat \ {0}
      BY <2>1, TripAssumption
    <2> QED
      BY <2>1, <2>2
  <1> HIDE DEF two, three
  <1>3. \A d \in Nat \ {0} : d % d = 0 /\ d % 1 = 0
    <2> TAKE d \in Nat \ {0}
    <2>1. (1 * d) % d = 0 /\ 1 * d = d /\ (d * 1) % 1 = 0 /\ d * 1 = d
      BY MultipleHasNoRest
    <2> QED
      BY <2>1
  <1>4. two % Factor = 0 /\ three % Factor = 0 /\ three % two = 0
    <2>1. two = Factor * Factor
      BY DEF two
    <2> QED
      BY <1>2, <2>1, MultipleHasNoRest
  <1>5. p \in {1, Factor, two, three} /\ u \in {1, Factor, two, three}
    BY DEF Unit, nanos_per_unit, two, three
  <1> QED
    BY <1>1, <1>2, <1>3, <1>4, <1>5

\* A time that fits in the nanoseconds of an i64 comes back from a query, cut to
\* the coarser of the column's unit and of the precision it was written with
\* (scale_timestamp, extract_value): for integers of any width and every time.
THEOREM TimeComesBack == TripSpec => []TimeThereAndBack
  <1>1. TimeInv => TimeThereAndBack
    <2> SUFFICES ASSUME TimeInv, source.kind # "none", Exact \in I64, status = "read"
                 PROVE  TimeThereAndBack
      BY DEF TimeThereAndBack
    <2> DEFINE p == nanos_per_unit(precision)
               u == nanos_per_unit(asked.unit)
               v == truncated(stored, u)
               r == v * u
    <2>1. source \in Source /\ precision \in Unit /\ asked.unit \in Unit
      BY DEF TimeInv, Precision
    <2>2. /\ Timestamp # NoTime /\ ~Overflows(Timestamp, precision)
          /\ (Timestamp * p) % p = 0
          /\ (Exact - Timestamp * p) * Exact >= 0
          /\ -p < Exact - Timestamp * p /\ Exact - Timestamp * p < p
      BY <2>1, TimestampMeans DEF Precision
    <2>3. stored = Timestamp * p /\ stored \in I64
      BY <2>2 DEF TimeInv, Overflows
    <2>4. I64 \subseteq Int /\ stored # NoTime
      BY <2>3, TripAssumption DEF I64
    <2>5. asked.value = v /\ read = wrapped(asked.value * u)
      BY <2>4 DEF TimeInv, extract_value
    <2> HIDE DEF p, v
    <2>6. /\ r \in I64 /\ r % u = 0
          /\ (stored - r) * stored >= 0 /\ -u < stored - r /\ stored - r < u
      BY <2>1, <2>3, CutFits DEF v
    <2>7. read = r
      BY <2>5, <2>6, FitsUnwrapped
    <2>8. p \in Nat \ {0} /\ u \in Nat \ {0} /\ (u % p = 0 \/ p % u = 0)
      BY <2>1, UnitsNest DEF p
    <2>9. /\ Exact \in Int /\ stored \in Int /\ stored % p = 0 /\ (Exact - stored) * Exact >= 0
          /\ -p < Exact - stored /\ Exact - stored < p
      BY <2>2, <2>3, <2>4 DEF p
    <2>10. r \in Int
      BY <2>4, <2>6
    <2> HIDE DEF r, u
    <2>11. \A x \in Int : x % p = 0 /\ p % u = 0 => x % u = 0
      <3> SUFFICES ASSUME NEW x \in Int, x % p = 0, p % u = 0
                   PROVE  x % u = 0
        OBVIOUS
      <3>0. p \in Int /\ p \in Nat \ {0} /\ u \in Nat \ {0}
        BY <2>8
      <3>1. PICK h \in Int : x = h * p
        BY <3>0, NoRestMeans
      <3>2. PICK k \in Int : p = k * u
        BY <3>0, NoRestMeans
      <3>3. x = (h * k) * u /\ h * k \in Int
        BY <2>8, <3>1, <3>2
      <3> QED
        BY <2>8, <3>3, MultipleHasNoRest
    <2>12. \A c, d \in Nat \ {0} : c % d = 0 => d <= c
      <3> TAKE c, d \in Nat \ {0}
      <3> HAVE c % d = 0
      <3>1. PICK k \in Int : c = k * d
        BY NoRestMeans
      <3>2. 0 = 0 * d
        OBVIOUS
      <3>3. 0 + d <= c
        BY <3>1, <3>2, NextMultiple
      <3> QED
        BY <3>3
    <2>13. p <= u => Max({p, u}) = u
      BY <2>8 DEF Max
    <2>14. u <= p => Max({p, u}) = p
      BY <2>8 DEF Max
    <2>15. CASE u % p = 0
      <3>1. (Exact - r) * Exact >= 0 /\ -u < Exact - r /\ Exact - r < u
        BY <2>6, <2>8, <2>9, <2>10, <2>15, CutTwice
      <3>2. Max({p, u}) = u
        BY <2>8, <2>12, <2>13, <2>15
      <3> QED
        BY <2>6, <2>7, <3>1, <3>2 DEF TimeThereAndBack, p, u
    <2>16. CASE p % u = 0
      <3>1. stored % u = 0
        BY <2>8, <2>9, <2>11, <2>16
      <3>2. PICK h \in Int : stored = h * u
        BY <2>8, <2>9, <3>1, NoRestMeans
      <3>3. PICK k \in Int : r = k * u
        BY <2>6, <2>8, <2>10, NoRestMeans
      <3>4. r < stored => r + u <= stored
        BY <2>8, <2>9, <2>10, <3>2, <3>3, NextMultiple
      <3>5. stored < r => stored + u <= r
        BY <2>8, <2>9, <2>10, <3>2, <3>3, NextMultiple
      <3>6. r = stored
        BY <2>6, <2>8, <2>9, <2>10, <3>4, <3>5
      <3>7. Max({p, u}) = p
        BY <2>8, <2>12, <2>14, <2>16
      <3> QED
        BY <2>7, <2>9, <3>6, <3>7 DEF TimeThereAndBack, p, u
    <2> QED
      BY <2>8, <2>15, <2>16
  <1> QED
    BY <1>1, TimeInvariance, PTL

-----------------------------------------------------------------------------
(* The texts of a line (LineRoundTrip)                                     *)

\* The characters of a body.
Sign == Char \cup {"0"}

\* What a character of a text becomes.
Code(c, part) ==
    IF c \notin needs_escape(part) THEN <<c>>
    ELSE <<Backslash, IF c = NL THEN "n" ELSE c>>

\* What the server reads of it.
Seen(c) == IF c = NL THEN <<Backslash, "n">> ELSE <<c>>

\* The first i characters of a text, and how many characters they become.
Upto(t, i) == SubSeq(t, 1, i)
Behind(t, part, i) == Len(escape_with(Upto(t, i), part))

\* What a character becomes, case by case.
LEMMA CodeIs ==
    ASSUME NEW c \in Char, NEW part \in Part
    PROVE  /\ Code(c, part) \in Seq(Sign) /\ Seen(c) \in Seq(Sign)
           /\ c \notin needs_escape(part) =>
                /\ c # NL /\ Code(c, part) = <<c>> /\ Len(Code(c, part)) = 1 /\ Code(c, part)[1] = c
           /\ c = NL => /\ Len(Code(c, part)) = 2
                        /\ Code(c, part)[1] = Backslash /\ Code(c, part)[2] = "n"
           /\ c \in needs_escape(part) /\ c # NL =>
                /\ Len(Code(c, part)) = 2
                /\ Code(c, part)[1] = Backslash /\ Code(c, part)[2] = c
  <1>1. NL \in needs_escape(part)
    BY DEF needs_escape, Part
  <1>2. Backslash \in Sign /\ "n" \in Sign /\ c \in Sign
    BY DEF Sign, Char
  <1> QED
    BY <1>1, <1>2 DEF Code, Seen

\* A text is escaped character by character (escape_with).
LEMMA EscapeGrows ==
    ASSUME NEW t \in Seq(Char), NEW c \in Char, NEW part \in Part
    PROVE  /\ escape_with(t, part) \in Seq(Sign)
           /\ escape_with(Append(t, c), part) = escape_with(t, part) \o Code(c, part)
  <1> DEFINE ss == [i \in 1..Len(t) |-> Code(t[i], part)]
  <1>1. ss \in Seq(Seq(Sign))
    <2>1. \A i \in 1..Len(t) : Code(t[i], part) \in Seq(Sign)
      BY CodeIs
    <2> QED
      BY <2>1
  <1>2. escape_with(t, part) = FlattenSeq(ss)
    BY DEF escape_with, Code
  <1>3. escape_with(Append(t, c), part) = FlattenSeq([i \in DOMAIN Append(t, c) |-> Code(Append(t, c)[i], part)])
    BY DEF escape_with, Code
  <1>4. [i \in DOMAIN Append(t, c) |-> Code(Append(t, c)[i], part)] = Append(ss, Code(c, part))
    OBVIOUS
  <1>5. Code(c, part) \in Seq(Sign)
    BY CodeIs
  <1> QED
    BY <1>1, <1>2, <1>3, <1>4, <1>5, FlattenAppend

\* So it is shown.
LEMMA ShownGrows ==
    ASSUME NEW t \in Seq(Char), NEW c \in Char
    PROVE  /\ Shown(t) \in Seq(Sign)
           /\ Shown(Append(t, c)) = Shown(t) \o Seen(c)
  <1> DEFINE ss == [i \in 1..Len(t) |-> Seen(t[i])]
  <1>0. \A d \in Char : Seen(d) \in Seq(Sign)
    BY CodeIs DEF Part
  <1>1. ss \in Seq(Seq(Sign))
    <2>1. \A i \in 1..Len(t) : Seen(t[i]) \in Seq(Sign)
      BY <1>0
    <2> QED
      BY <2>1
  <1>9. \A s : Shown(s) = FlattenSeq([i \in DOMAIN s |-> Seen(s[i])])
    BY Zenon DEF Shown, Seen
  <1>2. Shown(t) = FlattenSeq(ss)
    BY <1>9
  <1>3. Shown(Append(t, c)) = FlattenSeq([i \in DOMAIN Append(t, c) |-> Seen(Append(t, c)[i])])
    BY <1>9
  <1>4. [i \in DOMAIN Append(t, c) |-> Seen(Append(t, c)[i])] = Append(ss, Seen(c))
    OBVIOUS
  <1> QED
    BY <1>0, <1>1, <1>2, <1>3, <1>4, FlattenAppend

\* The beginnings of a text.
LEMMA UptoGrows ==
    ASSUME NEW t \in Seq(Char)
    PROVE  /\ Upto(t, 0) = <<>> /\ Upto(t, Len(t)) = t
           /\ \A i \in 0..Len(t) : Upto(t, i) \in Seq(Char)
           /\ \A i \in 1..Len(t) : Upto(t, i) = Append(Upto(t, i - 1), t[i])
  <1>1. \A i \in 0..Len(t) : Upto(t, i) \in Seq(Char) /\ Len(Upto(t, i)) = i
                             /\ \A j \in 1..i : Upto(t, i)[j] = t[j]
    BY DEF Upto
  <1>2. Upto(t, 0) = <<>> /\ Upto(t, Len(t)) = t
    BY SubSeqFull, SubSeqEmpty DEF Upto
  <1>3. ASSUME NEW i \in 1..Len(t)
        PROVE  Upto(t, i) = Append(Upto(t, i - 1), t[i])
    <2> DEFINE long == Upto(t, i)
               short == Upto(t, i - 1)
    <2>1. i - 1 \in 0..Len(t) /\ i \in 0..Len(t) /\ t[i] \in Char
      OBVIOUS
    <2>2. /\ long \in Seq(Char) /\ Len(long) = i /\ \A j \in 1..i : long[j] = t[j]
          /\ short \in Seq(Char) /\ Len(short) = i - 1 /\ \A j \in 1..(i - 1) : short[j] = t[j]
      BY <1>1, <2>1
    <2> HIDE DEF long, short
    <2>3. Append(short, t[i]) \in Seq(Char) /\ Len(Append(short, t[i])) = i
          /\ \A j \in 1..i : Append(short, t[i])[j] = t[j]
      BY <2>1, <2>2
    <2>4. long = Append(short, t[i])
      BY <2>2, <2>3, SeqEqual
    <2> QED
      BY <2>4 DEF long, short
  <1> QED
    BY <1>1, <1>2, <1>3

\* Where the characters of a text stand when it is escaped.
LEMMA EscapedAt ==
    ASSUME NEW t \in Seq(Char), NEW part \in Part
    PROVE  /\ escape_with(t, part) \in Seq(Sign)
           /\ Behind(t, part, 0) = 0
           /\ Behind(t, part, Len(t)) = Len(escape_with(t, part))
           /\ \A i \in 0..Len(t) : Behind(t, part, i) \in Nat
           /\ \A i \in 1..Len(t) :
                /\ Behind(t, part, i) = Behind(t, part, i - 1) + Len(Code(t[i], part))
                /\ \A j \in 1..Len(Code(t[i], part)) :
                    /\ Behind(t, part, i - 1) + j \in 1..Len(escape_with(t, part))
                    /\ escape_with(t, part)[Behind(t, part, i - 1) + j] = Code(t[i], part)[j]
  <1> DEFINE n == Len(t)
             ss == [i \in 1..n |-> Code(t[i], part)]
             before == [i \in 0..n |-> Behind(t, part, i)]
  <1>1. ss \in Seq(Seq(Sign)) /\ Len(ss) = n /\ n \in Nat /\ \A i \in 1..n : t[i] \in Char
    <2>1. \A i \in 1..n : Code(t[i], part) \in Seq(Sign)
      BY CodeIs
    <2> QED
      BY <2>1
  <1>2. escape_with(t, part) = FlattenSeq(ss)
    BY DEF escape_with, Code
  <1>3. \A i \in 0..n : Upto(t, i) \in Seq(Char)
    BY UptoGrows
  <1>4. \A i \in 0..n : escape_with(Upto(t, i), part) \in Seq(Sign) /\ Behind(t, part, i) \in Nat
    <2> TAKE i \in 0..n
    <2>1. "a" \in Char /\ Upto(t, i) \in Seq(Char)
      BY <1>3 DEF Char
    <2>2. escape_with(Upto(t, i), part) \in Seq(Sign)
      BY <2>1, EscapeGrows
    <2> QED
      BY <2>2 DEF Behind
  <1>5. Behind(t, part, 0) = 0
    <2>1. Upto(t, 0) = <<>>
      BY UptoGrows
    <2>2. [i \in DOMAIN <<>> |-> IF <<>>[i] \notin needs_escape(part) THEN <<<<>>[i]>>
                ELSE <<Backslash, IF <<>>[i] = NL THEN "n" ELSE <<>>[i]>>] = <<>>
      OBVIOUS
    <2>3. escape_with(<<>>, part) = <<>>
      BY <2>2, FlattenEmpty DEF escape_with
    <2> QED
      BY <2>1, <2>3 DEF Behind
  <1>6. \A i \in 1..n : Behind(t, part, i) = Behind(t, part, i - 1) + Len(ss[i])
    <2> TAKE i \in 1..n
    <2>1. i - 1 \in 0..n /\ Upto(t, i - 1) \in Seq(Char) /\ t[i] \in Char
      BY <1>1, <1>3
    <2>2. Upto(t, i) = Append(Upto(t, i - 1), t[i])
      BY UptoGrows
    <2>3. escape_with(Upto(t, i), part) = escape_with(Upto(t, i - 1), part) \o Code(t[i], part)
      BY <2>1, <2>2, EscapeGrows
    <2>4. escape_with(Upto(t, i - 1), part) \in Seq(Sign) /\ Code(t[i], part) \in Seq(Sign)
      BY <1>4, <2>1, CodeIs
    <2> QED
      BY <2>3, <2>4 DEF Behind
  <1>7. AreCounted(ss, before)
    <2>1. before \in [0..n -> Nat] /\ before[0] = 0
      BY <1>1, <1>4, <1>5
    <2>2. \A k \in 1..n : before[k] = before[k - 1] + Len(ss[k])
      BY <1>1, <1>6
    <2> HIDE DEF before, ss
    <2> QED
      BY <1>1, <2>1, <2>2 DEF AreCounted
  <1>8. FlattenSeq(ss) \in Seq(Sign) /\ LieIn(FlattenSeq(ss), ss, before)
    <2> HIDE DEF before, ss
    <2> QED
      BY <1>1, <1>7, FlattenAt
  <1>9. \A i \in 1..n : before[i - 1] = Behind(t, part, i - 1) /\ ss[i] = Code(t[i], part)
    BY <1>1
  <1>10. before[n] = Behind(t, part, n)
    BY <1>1
  <1> HIDE DEF before, ss
  <1>11. /\ Len(FlattenSeq(ss)) = Behind(t, part, n)
         /\ \A i \in 1..n : \A j \in 1..Len(ss[i]) :
              /\ before[i - 1] + j \in 1..Behind(t, part, n)
              /\ FlattenSeq(ss)[before[i - 1] + j] = ss[i][j]
    BY <1>1, <1>8, <1>10 DEF LieIn
  <1> QED
    BY <1>2, <1>4, <1>5, <1>6, <1>8, <1>9, <1>11

\* Each character of an escaped text comes of one of the text.
LEMMA PlaceOf ==
    ASSUME NEW t \in Seq(Char), NEW part \in Part, NEW j \in 1..Len(escape_with(t, part))
    PROVE  \E i \in 1..Len(t) : \E k \in 1..Len(Code(t[i], part)) :
             j = Behind(t, part, i - 1) + k
  <1> DEFINE n == Len(t)
             B(i) == Behind(t, part, i)
             S == {m \in 0..n : B(m) < j}
             m == Max(S)
  <1>1. /\ B(0) = 0 /\ B(n) = Len(escape_with(t, part)) /\ \A i \in 0..n : B(i) \in Nat
        /\ \A i \in 1..n : B(i) = B(i - 1) + Len(Code(t[i], part))
        /\ escape_with(t, part) \in Seq(Sign) /\ n \in Nat
    BY EscapedAt
  <1> HIDE DEF B
  <1>2. 0 \in S /\ S \in SUBSET (0..n) /\ j \in Nat /\ j <= B(n)
    BY <1>1
  <1>3. m \in S /\ \A y \in S : m >= y
    BY <1>1, <1>2, MaxIsGreatest
  <1>4. m \in 0..n /\ B(m) < j /\ m # n
    BY <1>1, <1>2, <1>3
  <1>5. m + 1 \in 1..n /\ m + 1 \notin S
    <2> HIDE DEF m, S
    <2> QED
      BY <1>1, <1>3, <1>4
  <1>6. ~(B(m + 1) < j) /\ (m + 1) - 1 = m /\ m + 1 \in 0..n
    BY <1>1, <1>4, <1>5
  <1> HIDE DEF m, S
  <1>7. Code(t[m + 1], part) \in Seq(Sign)
    BY <1>1, <1>5, CodeIs
  <1>8. B(m + 1) = B(m) + Len(Code(t[m + 1], part))
    BY <1>1, <1>5, <1>6
  <1>9. j - B(m) \in 1..Len(Code(t[m + 1], part)) /\ j = B(m) + (j - B(m))
    BY <1>1, <1>2, <1>4, <1>6, <1>7, <1>8
  <1> QED
    BY <1>5, <1>6, <1>9 DEF B

\* In an escaped text there is no newline, and no character to escape that a
\* backslash does not precede; it ends as the text does.
LEMMA EscapedText ==
    ASSUME NEW t \in Seq(Char), NEW part \in Part, NEW e, e = escape_with(t, part)
    PROVE  /\ \A j \in 1..Len(e) :
                /\ e[j] # NL
                /\ e[j] \in needs_escape(part) =>
                     \/ j - 1 \in 1..Len(e) /\ e[j - 1] = Backslash
                     \/ part = "string" /\ e[j] = Backslash
           /\ t # <<>> => Len(e) >= 1 /\ (e[Len(e)] = t[Len(t)] \/ e[Len(e)] = "n")
  <1>0. e \in Seq(Sign)
    BY EscapedAt
  <1>1. ASSUME NEW j \in 1..Len(e)
        PROVE  /\ e[j] # NL
               /\ e[j] \in needs_escape(part) =>
                     \/ j - 1 \in 1..Len(e) /\ e[j - 1] = Backslash
                     \/ part = "string" /\ e[j] = Backslash
    <2>0. PICK i \in 1..Len(t) : \E k \in 1..Len(Code(t[i], part)) : j = Behind(t, part, i - 1) + k
      BY PlaceOf
    <2>1. PICK k \in 1..Len(Code(t[i], part)) : j = Behind(t, part, i - 1) + k
      BY <2>0
    <2> DEFINE c == t[i]
               x == Code(c, part)
               h == Behind(t, part, i - 1)
    <2>2. c \in Char /\ h \in Nat
      BY EscapedAt
    <2>3. \A l \in 1..Len(x) : h + l \in 1..Len(e) /\ e[h + l] = x[l]
      BY EscapedAt
    <2>4. e[j] = x[k] /\ k \in 1..Len(x)
      BY <2>1, <2>3
    <2>5. /\ c \notin needs_escape(part) => c # NL /\ Len(x) = 1 /\ x[1] = c
          /\ c = NL => Len(x) = 2 /\ x[1] = Backslash /\ x[2] = "n"
          /\ c \in needs_escape(part) /\ c # NL => Len(x) = 2 /\ x[1] = Backslash /\ x[2] = c
      BY <2>2, CodeIs
    <2> HIDE DEF x, c, h
    <2>6. CASE k = 1
      <3>1. \/ e[j] = c /\ c \notin needs_escape(part) /\ c # NL
            \/ e[j] = Backslash
        BY <2>4, <2>5, <2>6
      <3>2. Backslash # NL /\ (Backslash \in needs_escape(part) => part = "string")
        BY DEF needs_escape, Part, Backslash, Comma, Equals, Space, NL
      <3> QED
        BY <3>1, <3>2
    <2>7. CASE k # 1
      <3>1. Len(x) = 2 /\ k = 2 /\ x[1] = Backslash /\ (x[2] = "n" \/ (x[2] = c /\ c # NL))
        BY <2>4, <2>5, <2>7
      <3>2. h + 1 \in 1..Len(e) /\ e[h + 1] = Backslash /\ j - 1 = h + 1
        BY <2>1, <2>2, <2>3, <3>1 DEF h
      <3>3. e[j] # NL
        BY <2>4, <3>1 DEF NL
      <3> QED
        BY <3>2, <3>3
    <2> QED
      BY <2>6, <2>7
  <1>2. ASSUME t # <<>> PROVE Len(e) >= 1 /\ (e[Len(e)] = t[Len(t)] \/ e[Len(e)] = "n")
    <2> DEFINE n == Len(t)
               c == t[n]
               x == Code(c, part)
               h == Behind(t, part, n - 1)
    <2>1. n \in 1..Len(t) /\ c \in Char
      BY <1>2
    <2>2. /\ n - 1 \in 0..Len(t) /\ h \in Nat /\ Len(e) = h + Len(x)
          /\ \A l \in 1..Len(x) : h + l \in 1..Len(e) /\ e[h + l] = x[l]
      <3>1. n - 1 \in 0..Len(t)
        BY <2>1
      <3>2. h \in Nat /\ Behind(t, part, n) = h + Len(x) /\ Behind(t, part, n) = Len(e)
        BY <2>1, <3>1, EscapedAt
      <3>3. \A l \in 1..Len(x) : h + l \in 1..Len(e) /\ e[h + l] = x[l]
        BY <2>1, EscapedAt
      <3> QED
        BY <3>1, <3>2, <3>3
    <2>3. \/ Len(x) = 1 /\ x[1] = c
          \/ Len(x) = 2 /\ (x[2] = c \/ x[2] = "n")
      BY <2>1, CodeIs
    <2> HIDE DEF h, x, c, n
    <2>4. Len(e) >= 1 /\ (e[Len(e)] = c \/ e[Len(e)] = "n")
      BY <2>2, <2>3
    <2> QED
      BY <2>4 DEF c, n
  <1> QED
    BY <1>1, <1>2

\* Texts for the places of a line.
Texts == [Part -> Seq(Char)]

Size(T, part) == Len(escape_with(T[part], part))

\* How many characters lie before each text in a line that follows b others.
TagKeyAt(T, b) == b + Size(T, "measurement") + 1
TagValueAt(T, b) == TagKeyAt(T, b) + Size(T, "tag_key") + 1
FieldKeyAt(T, b) == TagValueAt(T, b) + Size(T, "tag_value") + 1
StringAt(T, b) == FieldKeyAt(T, b) + Size(T, "field_key") + 2
Begin(T, part, b) ==
    CASE part = "measurement" -> b
      [] part = "tag_key"     -> TagKeyAt(T, b)
      [] part = "tag_value"   -> TagValueAt(T, b)
      [] part = "field_key"   -> FieldKeyAt(T, b)
      [] part = "string"      -> StringAt(T, b)

\* The places of the closing quote and of the last character.
Close(T, b) == StringAt(T, b) + Size(T, "string") + 1
End(T, time, b) == IF time = NoTime THEN Close(T, b) ELSE Close(T, b) + 2

\* A line with these texts lies in w behind b characters.
LiesIn(w, T, time, b) ==
    /\ \A part \in Part : \A j \in 1..Size(T, part) :
         w[Begin(T, part, b) + j] = escape_with(T[part], part)[j]
    /\ w[Begin(T, "tag_key", b)] = Comma
    /\ w[Begin(T, "tag_value", b)] = Equals
    /\ w[Begin(T, "field_key", b)] = Space
    /\ w[Begin(T, "string", b) - 1] = Equals /\ w[Begin(T, "string", b)] = Quote
    /\ w[Close(T, b)] = Quote
    /\ time # NoTime => w[Close(T, b) + 1] = Space /\ w[Close(T, b) + 2] = "0"

\* h is a beginning of w.
Agree(h, w) == Len(h) <= Len(w) /\ \A i \in 1..Len(h) : w[i] = h[i]

\* The texts escaped are sequences of characters.
LEMMA SizeIs ==
    ASSUME NEW T \in Texts, NEW part \in Part
    PROVE  escape_with(T[part], part) \in Seq(Sign) /\ Size(T, part) \in Nat
  <1>1. T[part] \in Seq(Char)
    BY DEF Texts
  <1>2. escape_with(T[part], part) \in Seq(Sign)
    BY <1>1, EscapedAt
  <1> QED
    BY <1>2 DEF Size

\* h, then x.
Chained(u, h, x) ==
    /\ u \in Seq(Sign) /\ h \in Seq(Sign) /\ x \in Seq(Sign)
    /\ Len(h) \in Nat /\ Len(x) \in Nat /\ Len(u) = Len(h) + Len(x)
    /\ \A i \in 1..Len(h) : u[i] = h[i]
    /\ \A j \in 1..Len(x) : u[Len(h) + j] = x[j]

\* What a concatenation is.
LEMMA Joined ==
    ASSUME NEW h \in Seq(Sign), NEW x \in Seq(Sign)
    PROVE  Chained(h \o x, h, x) /\ h \o x \in Seq(Sign)
  <1>1. h \o x \in Seq(Sign) /\ IsConcat(h \o x, h, x)
    BY ConcatAt
  <1> QED
    BY <1>1 DEF IsConcat, Chained

\* A beginning of w that ends in x.
LEMMA PieceOf ==
    ASSUME NEW u, NEW h, NEW x, NEW w, Chained(u, h, x), Agree(u, w), Len(w) \in Nat
    PROVE  /\ Agree(h, w)
           /\ \A j \in 1..Len(x) : w[Len(h) + j] = x[j]
  <1>1. /\ Len(h) \in Nat /\ Len(x) \in Nat /\ Len(u) = Len(h) + Len(x)
        /\ \A i \in 1..Len(h) : u[i] = h[i] /\ i \in 1..Len(u)
        /\ \A j \in 1..Len(x) : u[Len(h) + j] = x[j] /\ Len(h) + j \in 1..Len(u)
    BY DEF Chained
  <1> QED
    BY <1>1 DEF Agree

\* The places of the texts, one from the other.
LEMMA BeginIs ==
    ASSUME NEW T \in Texts, NEW b \in Nat
    PROVE  /\ Begin(T, "measurement", b) = b
           /\ Begin(T, "tag_key", b) = b + Size(T, "measurement") + 1
           /\ Begin(T, "tag_value", b) = Begin(T, "tag_key", b) + Size(T, "tag_key") + 1
           /\ Begin(T, "field_key", b) = Begin(T, "tag_value", b) + Size(T, "tag_value") + 1
           /\ Begin(T, "string", b) = Begin(T, "field_key", b) + Size(T, "field_key") + 2
           /\ Close(T, b) = Begin(T, "string", b) + Size(T, "string") + 1
           /\ Close(T, b) \in Nat
           /\ \A part \in Part : Begin(T, part, b) \in Nat /\ Size(T, part) \in Nat
  <1>1. \A part \in Part : Size(T, part) \in Nat
    BY SizeIs
  <1>2. /\ Size(T, "measurement") \in Nat /\ Size(T, "tag_key") \in Nat
        /\ Size(T, "tag_value") \in Nat /\ Size(T, "field_key") \in Nat
        /\ Size(T, "string") \in Nat
    BY <1>1 DEF Part
  <1>3. /\ Begin(T, "measurement", b) = b /\ Begin(T, "tag_key", b) = TagKeyAt(T, b)
        /\ Begin(T, "tag_value", b) = TagValueAt(T, b)
        /\ Begin(T, "field_key", b) = FieldKeyAt(T, b) /\ Begin(T, "string", b) = StringAt(T, b)
    BY DEF Begin
  <1>4. TagKeyAt(T, b) = b + Size(T, "measurement") + 1 /\ TagKeyAt(T, b) \in Nat
    BY <1>2 DEF TagKeyAt
  <1>5. TagValueAt(T, b) = TagKeyAt(T, b) + Size(T, "tag_key") + 1 /\ TagValueAt(T, b) \in Nat
    BY <1>2, <1>4 DEF TagValueAt
  <1>6. FieldKeyAt(T, b) = TagValueAt(T, b) + Size(T, "tag_value") + 1 /\ FieldKeyAt(T, b) \in Nat
    BY <1>2, <1>5 DEF FieldKeyAt
  <1>7. StringAt(T, b) = FieldKeyAt(T, b) + Size(T, "field_key") + 2 /\ StringAt(T, b) \in Nat
    BY <1>2, <1>6 DEF StringAt
  <1>8. Close(T, b) = StringAt(T, b) + Size(T, "string") + 1 /\ Close(T, b) \in Nat
    BY <1>2, <1>7 DEF Close
  <1>9. \A part \in Part : Begin(T, part, b) \in Nat
    BY <1>3, <1>4, <1>5, <1>6, <1>7 DEF Part
  <1> QED
    BY <1>1, <1>3, <1>4, <1>5, <1>6, <1>7, <1>8, <1>9

\* The texts of a line come one after the other.
LEMMA InOrder ==
    ASSUME NEW T \in Texts, NEW b \in Nat
    PROVE  /\ \A part \in Part : /\ Begin(T, part, b) \in Nat /\ Size(T, part) \in Nat
                                 /\ b <= Begin(T, part, b)
                                 /\ Begin(T, part, b) + Size(T, part) < Close(T, b)
           /\ b < Begin(T, "tag_key", b) /\ Begin(T, "tag_key", b) < Begin(T, "tag_value", b)
           /\ Begin(T, "tag_value", b) < Begin(T, "field_key", b)
           /\ Begin(T, "field_key", b) + 1 < Begin(T, "string", b)
           /\ 0 < Begin(T, "tag_key", b) /\ 0 < Begin(T, "tag_value", b)
           /\ 0 < Begin(T, "field_key", b) /\ 1 < Begin(T, "string", b)
           /\ Begin(T, "string", b) < Close(T, b) /\ Close(T, b) \in Nat
  <1> DEFINE m == Size(T, "measurement")
             k == Size(T, "tag_key")
             v == Size(T, "tag_value")
             f == Size(T, "field_key")
             s == Size(T, "string")
             km == Begin(T, "tag_key", b)
             vm == Begin(T, "tag_value", b)
             fm == Begin(T, "field_key", b)
             sm == Begin(T, "string", b)
             c == Close(T, b)
  <1>1. /\ Begin(T, "measurement", b) = b /\ km = b + m + 1 /\ vm = km + k + 1 /\ fm = vm + v + 1
        /\ sm = fm + f + 2 /\ c = sm + s + 1 /\ c \in Nat
        /\ \A part \in Part : Begin(T, part, b) \in Nat /\ Size(T, part) \in Nat
    BY BeginIs
  <1>2. /\ m \in Nat /\ k \in Nat /\ v \in Nat /\ f \in Nat /\ s \in Nat
        /\ km \in Nat /\ vm \in Nat /\ fm \in Nat /\ sm \in Nat
    BY <1>1 DEF Part
  <1> HIDE DEF m, k, v, f, s, km, vm, fm, sm, c
  <1>3. /\ b < km /\ km < vm /\ vm < fm /\ fm + 1 < sm /\ sm < c
        /\ 0 < km /\ 0 < vm /\ 0 < fm /\ 1 < sm
    BY <1>1, <1>2
  <1>4. /\ b <= b /\ b <= km /\ b <= vm /\ b <= fm /\ b <= sm
        /\ b + m < c /\ km + k < c /\ vm + v < c /\ fm + f < c /\ sm + s < c
    BY <1>1, <1>2
  <1>5. \A part \in Part : b <= Begin(T, part, b) /\ Begin(T, part, b) + Size(T, part) < c
    BY <1>1, <1>4 DEF Part, m, k, v, f, s, km, vm, fm, sm
  <1> QED
    BY <1>1, <1>3, <1>5 DEF km, vm, fm, sm, c

\* What write_line_protocol writes.
LEMMA WrittenLiesIn ==
    ASSUME NEW T \in Texts, NEW time
    PROVE  /\ write_line_protocol(T, time) \in Seq(Sign)
           /\ Len(write_line_protocol(T, time)) = End(T, time, 0)
           /\ LiesIn(write_line_protocol(T, time), T, time, 0)
  <1> DEFINE m == escape_with(T["measurement"], "measurement")
             k == escape_with(T["tag_key"], "tag_key")
             v == escape_with(T["tag_value"], "tag_value")
             f == escape_with(T["field_key"], "field_key")
             s == escape_with(T["string"], "string")
             tail == IF time = NoTime THEN <<>> ELSE <<Space, "0">>
             comma == <<Comma>>
             equals == <<Equals>>
             space == <<Space>>
             open == <<Equals, Quote>>
             close == <<Quote>>
             h2 == m \o comma
             h3 == h2 \o k
             h4 == h3 \o equals
             h5 == h4 \o v
             h6 == h5 \o space
             h7 == h6 \o f
             h8 == h7 \o open
             h9 == h8 \o s
             h10 == h9 \o close
             w == h10 \o tail
  <1>1. write_line_protocol(T, time) = w
    BY DEF write_line_protocol
  <1>2. /\ m \in Seq(Sign) /\ k \in Seq(Sign) /\ v \in Seq(Sign) /\ f \in Seq(Sign) /\ s \in Seq(Sign)
    BY SizeIs DEF Part
  <1>3. /\ comma \in Seq(Sign) /\ equals \in Seq(Sign) /\ space \in Seq(Sign)
        /\ open \in Seq(Sign) /\ close \in Seq(Sign) /\ tail \in Seq(Sign)
    <2>1. Comma \in Sign /\ Equals \in Sign /\ Space \in Sign /\ Quote \in Sign /\ "0" \in Sign
      BY DEF Sign, Char
    <2> QED
      BY <2>1
  <1>4. /\ Len(comma) = 1 /\ Len(equals) = 1 /\ Len(space) = 1 /\ Len(open) = 2 /\ Len(close) = 1
        /\ Len(tail) = IF time = NoTime THEN 0 ELSE 2
        /\ comma[1] = Comma /\ equals[1] = Equals /\ space[1] = Space
        /\ open[1] = Equals /\ open[2] = Quote /\ close[1] = Quote
        /\ time # NoTime => tail[1] = Space /\ tail[2] = "0"
    OBVIOUS
  <1>5. /\ Len(m) = Size(T, "measurement") /\ Len(k) = Size(T, "tag_key")
        /\ Len(v) = Size(T, "tag_value") /\ Len(f) = Size(T, "field_key")
        /\ Len(s) = Size(T, "string")
    BY DEF Size
  <1> HIDE DEF m, k, v, f, s, tail, comma, equals, space, open, close
  <1>6. Chained(h2, m, comma) /\ h2 \in Seq(Sign)
    BY <1>2, <1>3, Joined
  <1> HIDE DEF h2
  <1>7. Chained(h3, h2, k) /\ h3 \in Seq(Sign)
    BY <1>2, <1>3, <1>6, Joined
  <1> HIDE DEF h3
  <1>8. Chained(h4, h3, equals) /\ h4 \in Seq(Sign)
    BY <1>2, <1>3, <1>7, Joined
  <1> HIDE DEF h4
  <1>9. Chained(h5, h4, v) /\ h5 \in Seq(Sign)
    BY <1>2, <1>3, <1>8, Joined
  <1> HIDE DEF h5
  <1>10. Chained(h6, h5, space) /\ h6 \in Seq(Sign)
    BY <1>2, <1>3, <1>9, Joined
  <1> HIDE DEF h6
  <1>11. Chained(h7, h6, f) /\ h7 \in Seq(Sign)
    BY <1>2, <1>3, <1>10, Joined
  <1> HIDE DEF h7
  <1>12. Chained(h8, h7, open) /\ h8 \in Seq(Sign)
    BY <1>2, <1>3, <1>11, Joined
  <1> HIDE DEF h8
  <1>13. Chained(h9, h8, s) /\ h9 \in Seq(Sign)
    BY <1>2, <1>3, <1>12, Joined
  <1> HIDE DEF h9
  <1>14. Chained(h10, h9, close) /\ h10 \in Seq(Sign)
    BY <1>2, <1>3, <1>13, Joined
  <1> HIDE DEF h10
  <1>15. Chained(w, h10, tail) /\ w \in Seq(Sign)
    BY <1>2, <1>3, <1>14, Joined
  <1> HIDE DEF w
  <1>16. /\ Len(h2) = Len(m) + 1 /\ Len(h3) = Len(h2) + Len(k) /\ Len(h4) = Len(h3) + 1
         /\ Len(h5) = Len(h4) + Len(v) /\ Len(h6) = Len(h5) + 1
         /\ Len(m) \in Nat /\ Len(k) \in Nat /\ Len(v) \in Nat /\ Len(h2) \in Nat
         /\ Len(h3) \in Nat /\ Len(h4) \in Nat /\ Len(h5) \in Nat /\ Len(h6) \in Nat
    BY <1>4, <1>6, <1>7, <1>8, <1>9, <1>10, <1>11 DEF Chained
  <1>17. /\ Len(h7) = Len(h6) + Len(f) /\ Len(h8) = Len(h7) + 2 /\ Len(h9) = Len(h8) + Len(s)
         /\ Len(h10) = Len(h9) + 1 /\ Len(w) = Len(h10) + Len(tail) /\ Len(tail) \in Nat
         /\ Len(f) \in Nat /\ Len(s) \in Nat /\ Len(h7) \in Nat /\ Len(h8) \in Nat
         /\ Len(h9) \in Nat /\ Len(h10) \in Nat /\ w \in Seq(Sign)
    BY <1>4, <1>11, <1>12, <1>13, <1>14, <1>15 DEF Chained
  <1>20. Agree(w, w) /\ Len(w) \in Nat
    BY <1>15 DEF Agree, Chained
  <1>21. Agree(h10, w) /\ \A j \in 1..Len(tail) : w[Len(h10) + j] = tail[j]
    BY <1>15, <1>20, PieceOf
  <1>22. Agree(h9, w) /\ \A j \in 1..Len(close) : w[Len(h9) + j] = close[j]
    BY <1>14, <1>20, <1>21, PieceOf
  <1>23. Agree(h8, w) /\ \A j \in 1..Len(s) : w[Len(h8) + j] = s[j]
    BY <1>13, <1>20, <1>22, PieceOf
  <1>24. Agree(h7, w) /\ \A j \in 1..Len(open) : w[Len(h7) + j] = open[j]
    BY <1>12, <1>20, <1>23, PieceOf
  <1>25. Agree(h6, w) /\ \A j \in 1..Len(f) : w[Len(h6) + j] = f[j]
    BY <1>11, <1>20, <1>24, PieceOf
  <1>26. Agree(h5, w) /\ \A j \in 1..Len(space) : w[Len(h5) + j] = space[j]
    BY <1>10, <1>20, <1>25, PieceOf
  <1>27. Agree(h4, w) /\ \A j \in 1..Len(v) : w[Len(h4) + j] = v[j]
    BY <1>9, <1>20, <1>26, PieceOf
  <1>28. Agree(h3, w) /\ \A j \in 1..Len(equals) : w[Len(h3) + j] = equals[j]
    BY <1>8, <1>20, <1>27, PieceOf
  <1>29. Agree(h2, w) /\ \A j \in 1..Len(k) : w[Len(h2) + j] = k[j]
    BY <1>7, <1>20, <1>28, PieceOf
  <1>30. Agree(m, w) /\ \A j \in 1..Len(comma) : w[Len(m) + j] = comma[j]
    BY <1>6, <1>20, <1>29, PieceOf
  <1>31. /\ Begin(T, "tag_key", 0) = Len(h2) /\ Begin(T, "tag_value", 0) = Len(h4)
         /\ Begin(T, "field_key", 0) = Len(h6) /\ Begin(T, "string", 0) = Len(h8)
         /\ Close(T, 0) = Len(h10)
         /\ Len(h7) + 1 = Len(h8) - 1 /\ Len(h7) + 2 = Len(h8) /\ Len(h9) + 1 = Len(h10)
         /\ Len(m) + 1 = Len(h2) /\ Len(h3) + 1 = Len(h4) /\ Len(h5) + 1 = Len(h6)
         /\ Len(h10) \in Nat /\ Len(tail) \in Nat
    <2>1. /\ Begin(T, "measurement", 0) = 0
          /\ Begin(T, "tag_key", 0) = Begin(T, "measurement", 0) + Len(m) + 1
          /\ Begin(T, "tag_value", 0) = Begin(T, "tag_key", 0) + Len(k) + 1
          /\ Begin(T, "field_key", 0) = Begin(T, "tag_value", 0) + Len(v) + 1
          /\ Begin(T, "string", 0) = Begin(T, "field_key", 0) + Len(f) + 2
          /\ Close(T, 0) = Begin(T, "string", 0) + Len(s) + 1
      BY <1>5, BeginIs
    <2>2. Begin(T, "tag_key", 0) = Len(h2)
      BY <1>16, <2>1
    <2>3. Begin(T, "tag_value", 0) = Len(h4)
      BY <1>16, <2>1, <2>2
    <2>4. Begin(T, "field_key", 0) = Len(h6)
      BY <1>16, <2>1, <2>3
    <2>5. Begin(T, "string", 0) = Len(h8)
      BY <1>16, <1>17, <2>1, <2>4
    <2>6. Close(T, 0) = Len(h10)
      BY <1>17, <2>1, <2>5
    <2> QED
      BY <1>16, <1>17, <2>2, <2>3, <2>4, <2>5, <2>6
  <1>32. Len(w) = End(T, time, 0)
    <2>1. CASE time = NoTime
      BY <1>4, <1>17, <1>31, <2>1 DEF End
    <2>2. CASE time # NoTime
      BY <1>4, <1>17, <1>31, <2>2 DEF End
    <2> QED
      BY <2>1, <2>2
  <1>33. LiesIn(w, T, time, 0)
    <2>1. \A j \in 1..Len(m) : w[Begin(T, "measurement", 0) + j] = m[j]
      <3>1. Begin(T, "measurement", 0) = 0 /\ \A j \in 1..Len(m) : 0 + j = j
        BY <1>6, BeginIs
      <3> QED
        BY <1>30, <3>1 DEF Agree
    <2>2. \A j \in 1..Len(k) : w[Begin(T, "tag_key", 0) + j] = k[j]
      BY <1>29, <1>31
    <2>3. \A j \in 1..Len(v) : w[Begin(T, "tag_value", 0) + j] = v[j]
      BY <1>27, <1>31
    <2>4. \A j \in 1..Len(f) : w[Begin(T, "field_key", 0) + j] = f[j]
      BY <1>25, <1>31
    <2>5. \A j \in 1..Len(s) : w[Begin(T, "string", 0) + j] = s[j]
      BY <1>23, <1>31
    <2>6. ASSUME NEW part \in Part, NEW j \in 1..Size(T, part)
          PROVE  w[Begin(T, part, 0) + j] = escape_with(T[part], part)[j]
      BY <1>5, <2>1, <2>2, <2>3, <2>4, <2>5 DEF Part, m, k, v, f, s
    <2>7. 1 \in 1..Len(comma) /\ 1 \in 1..Len(equals) /\ 1 \in 1..Len(space)
          /\ 1 \in 1..Len(open) /\ 2 \in 1..Len(open) /\ 1 \in 1..Len(close)
      BY <1>4
    <2>8. /\ w[Len(m) + 1] = Comma /\ w[Len(h3) + 1] = Equals /\ w[Len(h5) + 1] = Space
          /\ w[Len(h7) + 1] = Equals /\ w[Len(h7) + 2] = Quote /\ w[Len(h9) + 1] = Quote
      BY <1>4, <1>22, <1>24, <1>26, <1>28, <1>30, <2>7
    <2>9. /\ w[Begin(T, "tag_key", 0)] = Comma /\ w[Begin(T, "tag_value", 0)] = Equals
          /\ w[Begin(T, "field_key", 0)] = Space
          /\ w[Begin(T, "string", 0) - 1] = Equals /\ w[Begin(T, "string", 0)] = Quote
          /\ w[Close(T, 0)] = Quote
      BY <1>31, <2>8
    <2>10. time # NoTime => w[Close(T, 0) + 1] = Space /\ w[Close(T, 0) + 2] = "0"
      <3> SUFFICES ASSUME time # NoTime PROVE w[Close(T, 0) + 1] = Space /\ w[Close(T, 0) + 2] = "0"
        OBVIOUS
      <3>1. 1 \in 1..Len(tail) /\ 2 \in 1..Len(tail) /\ tail[1] = Space /\ tail[2] = "0"
        BY <1>4
      <3> QED
        BY <1>21, <1>31, <3>1
    <2> QED
      BY <2>6, <2>9, <2>10 DEF LiesIn
  <1> QED
    BY <1>1, <1>17, <1>32, <1>33 DEF w

\* Every place of a line is within it.
LEMMA Within ==
    ASSUME NEW T \in Texts, NEW time, NEW n, n = End(T, time, 0)
    PROVE  /\ Begin(T, "tag_key", 0) \in 1..n /\ Begin(T, "tag_value", 0) \in 1..n
           /\ Begin(T, "field_key", 0) \in 1..n /\ Begin(T, "string", 0) - 1 \in 1..n
           /\ Begin(T, "string", 0) \in 1..n /\ Close(T, 0) \in 1..n
           /\ \A part \in Part : \A j \in 1..Size(T, part) : Begin(T, part, 0) + j \in 1..n
  <1> DEFINE km == Begin(T, "tag_key", 0)
             vm == Begin(T, "tag_value", 0)
             fm == Begin(T, "field_key", 0)
             sm == Begin(T, "string", 0)
             c == Close(T, 0)
  <1>1. 0 \in Nat
    OBVIOUS
  <1>2. /\ \A part \in Part : Begin(T, part, 0) \in Nat /\ Size(T, part) \in Nat
                              /\ Begin(T, part, 0) + Size(T, part) < c
        /\ 0 < km /\ km < vm /\ vm < fm /\ fm + 1 < sm /\ 1 < sm /\ sm < c /\ c \in Nat
    BY <1>1, InOrder
  <1>3. km \in Nat /\ vm \in Nat /\ fm \in Nat /\ sm \in Nat
    BY <1>2 DEF Part
  <1>4. n \in Nat /\ c <= n
    BY <1>2 DEF End
  <1> HIDE DEF km, vm, fm, sm, c
  <1>5. km \in 1..n /\ vm \in 1..n /\ fm \in 1..n /\ sm - 1 \in 1..n /\ sm \in 1..n /\ c \in 1..n
    BY <1>2, <1>3, <1>4
  <1>6. \A part \in Part : \A j \in 1..Size(T, part) : Begin(T, part, 0) + j \in 1..n
    BY <1>2, <1>4
  <1> QED
    BY <1>5, <1>6 DEF km, vm, fm, sm, c

\* A line lies in a longer text as it lies in itself.
\* longer has w behind b characters.
Shifted(longer, b, w) == \A i \in 1..Len(w) : longer[b + i] = w[i]

\* A line that is copied behind b characters lies there.
LEMMA LiesFurther ==
    ASSUME NEW T \in Texts, NEW time, NEW w, NEW longer, NEW b \in Nat,
           LiesIn(w, T, time, 0), Len(w) = End(T, time, 0), Shifted(longer, b, w)
    PROVE  LiesIn(longer, T, time, b) /\ End(T, time, b) = b + Len(w)
  <1>0. \A i \in 1..Len(w) : longer[b + i] = w[i]
    BY DEF Shifted
  <1>1. \A part \in Part : Begin(T, part, b) = b + Begin(T, part, 0) /\ Begin(T, part, 0) \in Nat
                           /\ Size(T, part) \in Nat
    <2>1. b \in Nat /\ 0 \in Nat
      OBVIOUS
    <2>2. \A part \in Part : Begin(T, part, 0) \in Nat /\ Size(T, part) \in Nat
      BY <2>1, BeginIs
    <2>3. /\ Begin(T, "measurement", b) = b + Begin(T, "measurement", 0)
          /\ Begin(T, "tag_key", b) = b + Begin(T, "tag_key", 0)
          /\ Begin(T, "tag_value", b) = b + Begin(T, "tag_value", 0)
          /\ Begin(T, "field_key", b) = b + Begin(T, "field_key", 0)
          /\ Begin(T, "string", b) = b + Begin(T, "string", 0)
      <3> DEFINE m == Size(T, "measurement")
                 k == Size(T, "tag_key")
                 v == Size(T, "tag_value")
                 f == Size(T, "field_key")
                 k0 == Begin(T, "tag_key", 0)
                 v0 == Begin(T, "tag_value", 0)
                 f0 == Begin(T, "field_key", 0)
                 s0 == Begin(T, "string", 0)
                 kb == Begin(T, "tag_key", b)
                 vb == Begin(T, "tag_value", b)
                 fb == Begin(T, "field_key", b)
                 sb == Begin(T, "string", b)
      <3>1. m \in Nat /\ k \in Nat /\ v \in Nat /\ f \in Nat
        BY <2>2 DEF Part
      <3>2. kb = b + m + 1 /\ vb = kb + k + 1 /\ fb = vb + v + 1 /\ sb = fb + f + 2
        BY BeginIs
      <3>3. k0 = 0 + m + 1 /\ v0 = k0 + k + 1 /\ f0 = v0 + v + 1 /\ s0 = f0 + f + 2
        BY <2>1, BeginIs
      <3>4. Begin(T, "measurement", b) = b + Begin(T, "measurement", 0)
        <4>1. Begin(T, "measurement", b) = b /\ Begin(T, "measurement", 0) = 0
          BY <2>1, BeginIs
        <4> QED
          BY <4>1
      <3> HIDE DEF m, k, v, f, k0, v0, f0, s0, kb, vb, fb, sb
      \* In turn, each from the one before it.
      <3>5. k0 \in Nat /\ kb = b + k0
        BY <3>1, <3>2, <3>3
      <3>6. v0 \in Nat /\ vb = b + v0
        BY <3>1, <3>2, <3>3, <3>5
      <3>7. f0 \in Nat /\ fb = b + f0
        BY <3>1, <3>2, <3>3, <3>6
      <3>8. sb = b + s0
        BY <3>1, <3>2, <3>3, <3>7
      <3> QED
        BY <3>4, <3>5, <3>6, <3>7, <3>8 DEF k0, v0, f0, s0, kb, vb, fb, sb
    <2> QED
      BY <2>2, <2>3 DEF Part
  <1>2. Close(T, b) = b + Close(T, 0) /\ Close(T, 0) \in Nat
    <2>1. "string" \in Part
      BY DEF Part
    <2>2. /\ Begin(T, "string", b) = b + Begin(T, "string", 0) /\ Begin(T, "string", 0) \in Nat
          /\ Size(T, "string") \in Nat
      BY <1>1, <2>1
    <2>3. /\ Close(T, b) = Begin(T, "string", b) + Size(T, "string") + 1
          /\ Close(T, 0) = Begin(T, "string", 0) + Size(T, "string") + 1
      BY BeginIs
    <2> QED
      BY <2>2, <2>3
  <1>3. End(T, time, b) = b + Len(w) /\ Close(T, 0) <= Len(w) /\ Len(w) \in Nat
        /\ (time # NoTime => Len(w) = Close(T, 0) + 2)
    BY <1>2 DEF End
  <1>4. /\ Begin(T, "tag_key", 0) \in 1..Len(w) /\ Begin(T, "tag_value", 0) \in 1..Len(w)
        /\ Begin(T, "field_key", 0) \in 1..Len(w) /\ Begin(T, "string", 0) - 1 \in 1..Len(w)
        /\ Begin(T, "string", 0) \in 1..Len(w) /\ Close(T, 0) \in 1..Len(w)
        /\ \A part \in Part : \A j \in 1..Size(T, part) : Begin(T, part, 0) + j \in 1..Len(w)
    BY Within
  <1>5. \A part \in Part : \A j \in 1..Size(T, part) :
          longer[Begin(T, part, b) + j] = escape_with(T[part], part)[j]
    <2> TAKE part \in Part
    <2> TAKE j \in 1..Size(T, part)
    <2>1. Begin(T, part, b) + j = b + (Begin(T, part, 0) + j)
      BY <1>1
    <2>2. w[Begin(T, part, 0) + j] = escape_with(T[part], part)[j]
      BY DEF LiesIn
    <2> QED
      BY <1>0, <1>4, <2>1, <2>2
  <1>6. /\ longer[Begin(T, "tag_key", b)] = Comma /\ longer[Begin(T, "tag_value", b)] = Equals
        /\ longer[Begin(T, "field_key", b)] = Space /\ longer[Begin(T, "string", b)] = Quote
        /\ longer[Close(T, b)] = Quote
    <2> DEFINE km == Begin(T, "tag_key", 0)
               vm == Begin(T, "tag_value", 0)
               fm == Begin(T, "field_key", 0)
               sm == Begin(T, "string", 0)
               cl == Close(T, 0)
    <2>1. /\ Begin(T, "tag_key", b) = b + km /\ Begin(T, "tag_value", b) = b + vm
          /\ Begin(T, "field_key", b) = b + fm /\ Begin(T, "string", b) = b + sm
          /\ Close(T, b) = b + cl
      BY <1>1, <1>2 DEF Part
    <2>2. /\ w[km] = Comma /\ w[vm] = Equals /\ w[fm] = Space /\ w[sm] = Quote /\ w[cl] = Quote
      BY DEF LiesIn
    <2>3. /\ km \in 1..Len(w) /\ vm \in 1..Len(w) /\ fm \in 1..Len(w)
          /\ sm \in 1..Len(w) /\ cl \in 1..Len(w)
      BY <1>4
    <2> HIDE DEF km, vm, fm, sm, cl
    <2>4. /\ longer[b + km] = w[km] /\ longer[b + vm] = w[vm] /\ longer[b + fm] = w[fm]
          /\ longer[b + sm] = w[sm] /\ longer[b + cl] = w[cl]
      BY <1>0, <2>3
    <2> QED
      BY <2>1, <2>2, <2>4
  <1>7. longer[Begin(T, "string", b) - 1] = Equals
    <2>1. Begin(T, "string", b) - 1 = b + (Begin(T, "string", 0) - 1)
      <3>1. "string" \in Part
        BY DEF Part
      <3>2. Begin(T, "string", b) = b + Begin(T, "string", 0) /\ Begin(T, "string", 0) \in Nat
        BY <1>1, <3>1
      <3> QED
        BY <3>2
    <2> QED
      BY <1>0, <1>4, <2>1 DEF LiesIn
  <1>8. time # NoTime => longer[Close(T, b) + 1] = Space /\ longer[Close(T, b) + 2] = "0"
    <2> SUFFICES ASSUME time # NoTime
                 PROVE  longer[Close(T, b) + 1] = Space /\ longer[Close(T, b) + 2] = "0"
      OBVIOUS
    <2>1. /\ Close(T, 0) + 1 \in 1..Len(w) /\ Close(T, b) + 1 = b + (Close(T, 0) + 1)
          /\ Close(T, 0) + 2 \in 1..Len(w) /\ Close(T, b) + 2 = b + (Close(T, 0) + 2)
      BY <1>2, <1>3
    <2> QED
      BY <1>0, <2>1 DEF LiesIn
  <1> QED
    BY <1>3, <1>5, <1>6, <1>7, <1>8 DEF LiesIn

-----------------------------------------------------------------------------
(* The server's parser, without the rest of the state                      *)

PartRead == (Part \cup {"time"}) \X Seq(Sign)
Reader == [pos : Nat \ {0}, part : Part \cup {"time"}, text : Seq(Sign), parts : Seq(PartRead)]

\* The separators of one character.
Cut == {<<"measurement", Comma, "tag_key">>, <<"measurement", Space, "field_key">>,
        <<"tag_key", Equals, "tag_value">>,
        <<"tag_value", Comma, "tag_key">>, <<"tag_value", Space, "field_key">>,
        <<"string", Quote, "time">>, <<"time", Comma, "field_key">>}

\* What the reader r of the text w sees before it.
Escapes(w, r) == w[r.pos] = Backslash /\ r.pos < Len(w) /\ w[r.pos + 1] \in Escapable(r.part)
Cuts(w, r, next) == <<r.part, w[r.pos], next>> \in Cut
Opens(w, r) == r.part = "field_key" /\ w[r.pos] = Equals /\ w[r.pos + 1] = Quote

Further(r, n, c) == [pos |-> r.pos + n, part |-> r.part, text |-> Append(r.text, c), parts |-> r.parts]
Turned(r, n, next) == [pos |-> r.pos + n, part |-> next, text |-> <<>>,
                       parts |-> Append(r.parts, <<r.part, r.text>>)]

\* The reader r becomes q.
Reads(w, r, q) ==
    \/ Escapes(w, r) /\ q = Further(r, 2, w[r.pos + 1])
    \/ \E next \in Part \cup {"time"} : Cuts(w, r, next) /\ q = Turned(r, 1, next)
    \/ Opens(w, r) /\ q = Turned(r, 2, "string")
    \/ /\ ~Escapes(w, r) /\ ~Opens(w, r) /\ \A next \in Part \cup {"time"} : ~Cuts(w, r, next)
       /\ q = Further(r, 1, w[r.pos])

\* ReadChar is a step of the parser, and reads no newline that ends a line.
LEMMA ReadCharReads ==
    ASSUME body \in Seq(Sign), reader \in Reader, ReadChar,
           reader.pos = Len(body) => body[reader.pos] # Equals
    PROVE  /\ Reads(body, reader, reader')
           /\ reader.pos <= Len(body) /\ (body[reader.pos] # NL \/ reader.part = "string")
  <1> DEFINE p == reader.pos
             c == body[p]
             escapes == Ahead(1) = <<Backslash>> /\ reader.pos < Len(body)
                        /\ body[reader.pos + 1] \in Escapable(reader.part)
             ends == {s \in Separator : s[1] = reader.part /\ Ahead(Len(s[2])) = s[2]}
  <1>1. p \in 1..Len(body) /\ (body[reader.pos] # NL \/ reader.part = "string") /\ p <= Len(body)
    BY DEF Reader, ReadChar, AtLineEnd
  <1>2. Ahead(1) = <<c>>
    BY <1>1, NextOnes DEF Ahead
  <1>3. Ahead(2) = SubSeq(body, p, p + 1)
    BY <1>1 DEF Ahead
  <1>4. /\ p < Len(body) => Ahead(2) = <<c, body[p + 1]>>
        /\ c # Equals => Ahead(2) # <<Equals, Quote>>
    <2>0. /\ SubSeq(body, p, p + 1)[1] = body[p]
          /\ p < Len(body) => SubSeq(body, p, p + 1) = <<body[p], body[p + 1]>>
      BY <1>1, NextOnes
    <2>1. p < Len(body) => Ahead(2) = <<c, body[p + 1]>>
      BY <1>3, <2>0
    <2>2. Ahead(2)[1] = c /\ <<Equals, Quote>>[1] = Equals
      BY <1>3, <2>0
    <2> QED
      BY <2>1, <2>2
  <1>5. Ahead(2) = <<Equals, Quote>> <=> c = Equals /\ body[p + 1] = Quote
    BY <1>1, <1>4
  <1>6. /\ reader.part \in Part \cup {"time"}
        /\ reader = [pos |-> reader.pos, part |-> reader.part, text |-> reader.text, parts |-> reader.parts]
    BY DEF Reader
  <1>7. escapes <=> Escapes(body, reader)
    BY <1>2 DEF Escapes
  <1>8. \A s : s \in ends =>
           \/ s[3] \in Part \cup {"time"} /\ Cuts(body, reader, s[3]) /\ Len(s[2]) = 1
           \/ Opens(body, reader) /\ s[3] = "string" /\ Len(s[2]) = 2
    <2> SUFFICES ASSUME NEW s \in ends
                 PROVE  \/ s[3] \in Part \cup {"time"} /\ Cuts(body, reader, s[3]) /\ Len(s[2]) = 1
                        \/ Opens(body, reader) /\ s[3] = "string" /\ Len(s[2]) = 2
      OBVIOUS
    <2>1. s \in Separator /\ s[1] = reader.part /\ Ahead(Len(s[2])) = s[2]
      OBVIOUS
    <2>2. CASE s = <<"field_key", <<Equals, Quote>>, "string">>
      <3>1. Len(s[2]) = 2 /\ s[2] = <<Equals, Quote>> /\ s[3] = "string" /\ s[1] = "field_key"
        BY <2>2
      <3> QED
        BY <1>5, <2>1, <3>1 DEF Opens
    <2>3. CASE s # <<"field_key", <<Equals, Quote>>, "string">>
      <3>1. \E x, y, z : s = <<x, <<y>>, z>> /\ <<x, y, z>> \in Cut /\ z \in Part \cup {"time"}
        BY <2>1, <2>3 DEF Separator, Cut, Part
      <3>2. PICK x, y, z : s = <<x, <<y>>, z>> /\ <<x, y, z>> \in Cut /\ z \in Part \cup {"time"}
        BY <3>1
      <3>3. Len(s[2]) = 1 /\ s[2] = <<y>> /\ s[3] = z /\ s[1] = x
        BY <3>2
      <3>4. y = c
        BY <1>2, <2>1, <3>3
      <3> QED
        BY <2>1, <3>2, <3>3, <3>4 DEF Cuts
    <2> QED
      BY <2>2, <2>3
  <1>9. Opens(body, reader) => ends # {}
    <2> SUFFICES ASSUME Opens(body, reader) PROVE ends # {}
      OBVIOUS
    <2> DEFINE s == <<"field_key", <<Equals, Quote>>, "string">>
    <2>1. s \in Separator /\ s[1] = reader.part /\ Len(s[2]) = 2 /\ s[2] = <<Equals, Quote>>
      BY DEF Separator, Opens
    <2>2. Ahead(2) = <<Equals, Quote>>
      BY <1>5 DEF Opens
    <2>3. s \in ends
      BY <2>1, <2>2
    <2> QED
      BY <2>3
  <1>10. \A next \in Part \cup {"time"} : Cuts(body, reader, next) => ends # {}
    <2> SUFFICES ASSUME NEW next \in Part \cup {"time"}, Cuts(body, reader, next) PROVE ends # {}
      OBVIOUS
    <2> DEFINE s == <<reader.part, <<c>>, next>>
    <2>1. <<reader.part, c, next>> \in Cut => s \in Separator
      BY DEF Separator, Cut
    <2>2. s \in Separator /\ s[1] = reader.part /\ Len(s[2]) = 1 /\ s[2] = <<c>>
      BY <2>1 DEF Cuts
    <2>3. s \in ends
      BY <1>2, <2>2
    <2> QED
      BY <2>3
  <1>11. \/ escapes /\ reader' = [reader EXCEPT !.pos = @ + 2, !.text = Append(@, body[reader.pos + 1])]
         \/ \E s \in ends :
                reader' = [pos |-> reader.pos + Len(s[2]), part |-> s[3], text |-> <<>>, parts |-> Ended]
         \/ /\ ~escapes /\ ends = {}
            /\ reader' = [reader EXCEPT !.pos = @ + 1, !.text = Append(@, body[reader.pos])]
    BY DEF ReadChar
  <1> HIDE DEF escapes, ends
  <1>12. CASE escapes /\ reader' = [reader EXCEPT !.pos = @ + 2, !.text = Append(@, body[reader.pos + 1])]
    <2>1. reader' = Further(reader, 2, body[reader.pos + 1])
      BY <1>6, <1>12 DEF Further
    <2> QED
      BY <1>1, <1>7, <1>12, <2>1 DEF Reads
  <1>13. CASE \E s \in ends :
                reader' = [pos |-> reader.pos + Len(s[2]), part |-> s[3], text |-> <<>>, parts |-> Ended]
    <2>1. PICK s \in ends :
                reader' = [pos |-> reader.pos + Len(s[2]), part |-> s[3], text |-> <<>>, parts |-> Ended]
      BY <1>13
    <2>2. reader' = Turned(reader, Len(s[2]), s[3])
      BY <2>1 DEF Turned, Ended
    <2> QED
      BY <1>1, <1>8, <2>2 DEF Reads
  <1>14. CASE /\ ~escapes /\ ends = {}
              /\ reader' = [reader EXCEPT !.pos = @ + 1, !.text = Append(@, body[reader.pos])]
    <2>1. reader' = Further(reader, 1, body[reader.pos])
      BY <1>6, <1>14 DEF Further
    <2> QED
      BY <1>1, <1>7, <1>9, <1>10, <1>14, <2>1 DEF Reads
  <1> QED
    BY <1>11, <1>12, <1>13, <1>14

-----------------------------------------------------------------------------
(* A reader in step with a line                                            *)

\* What has been read of a line where a part begins.
Whole(T, part) == <<part, Shown(T[part])>>
Done(T, part) ==
    CASE part = "measurement" -> <<>>
      [] part = "tag_key"   -> <<Whole(T, "measurement")>>
      [] part = "tag_value" -> <<Whole(T, "measurement"), Whole(T, "tag_key")>>
      [] part = "field_key" -> <<Whole(T, "measurement"), Whole(T, "tag_key"), Whole(T, "tag_value")>>
      [] part = "string"    -> <<Whole(T, "measurement"), Whole(T, "tag_key"), Whole(T, "tag_value"),
                                 Whole(T, "field_key")>>
      [] part = "time"      -> <<Whole(T, "measurement"), Whole(T, "tag_key"), Whole(T, "tag_value"),
                                 Whole(T, "field_key"), Whole(T, "string")>>

\* After i characters of a text; half: between the two of a newline.
At(T, b, part, i, half) ==
    [pos |-> Begin(T, part, b) + Behind(T[part], part, i) + 1 + half, part |-> part,
     text |-> IF half = 0 THEN Shown(Upto(T[part], i)) ELSE Append(Shown(Upto(T[part], i)), Backslash),
     parts |-> Done(T, part)]

InText(T, b, r) ==
    \E part \in Part : \E i \in 0..Len(T[part]) : \E half \in {0, 1} :
        /\ half = 1 => i + 1 \in 1..Len(T[part]) /\ T[part][i + 1] = NL
        /\ r = At(T, b, part, i, half)

\* After k characters of the time.
TimeText(k) == CASE k = 0 -> <<>> [] k = 1 -> <<Space>> [] k = 2 -> <<Space, "0">>
AtTime(T, b, k) == [pos |-> Close(T, b) + 1 + k, part |-> "time", text |-> TimeText(k),
                    parts |-> Done(T, "time")]
TimeLen(time) == IF time = NoTime THEN 0 ELSE 2
InTime(T, time, b, r) == \E k \in 0..TimeLen(time) : r = AtTime(T, b, k)

InStep(T, time, b, r) == InText(T, b, r) \/ InTime(T, time, b, r)

\* w has the line with these texts behind b characters, and a newline or
\* nothing follows it.
OnLine(w, T, time, b) ==
    /\ w \in Seq(Sign) /\ LiesIn(w, T, time, b)
    /\ End(T, time, b) <= Len(w)
    /\ End(T, time, b) < Len(w) => w[End(T, time, b) + 1] = NL

\* Only a text in quotes has a backslash before a character that a backslash
\* escapes, or at its end.
Sound(T, part) == part = "string" \/ \A i \in 1..Len(T[part]) : T[part][i] = Backslash =>
    i < Len(T[part]) /\ T[part][i + 1] \notin needs_escape(part) \cup {Backslash}
Unspoilt(T) == \A part \in Part : Sound(T, part)

\* The character of a text that comes after i others, where it is in the line.
IsAt(T, b, w, part, i) ==
    LET t == T[part]
        p == Begin(T, part, b) + Behind(t, part, i)
    IN  /\ p \in Nat /\ p < Close(T, b) /\ Close(T, b) <= Len(w) /\ Len(w) \in Nat
        /\ i = Len(t) => p = Begin(T, part, b) + Size(T, part)
        /\ i < Len(t) =>
             /\ t[i + 1] \in Char
             /\ Begin(T, part, b) + Behind(t, part, i + 1) = p + Len(Code(t[i + 1], part))
             /\ p + Len(Code(t[i + 1], part)) < Close(T, b)
             /\ \A j \in 1..Len(Code(t[i + 1], part)) : w[p + j] = Code(t[i + 1], part)[j]

\* Where the characters of an escaped text are in the body.
LEMMA TextAt ==
    ASSUME NEW T \in Texts, NEW time, NEW b \in Nat, NEW w, OnLine(w, T, time, b),
           NEW part \in Part, NEW i \in 0..Len(T[part])
    PROVE  IsAt(T, b, w, part, i)
  <1> DEFINE t == T[part]
             h == Begin(T, part, b)
             B(k) == Behind(t, part, k)
             e == escape_with(t, part)
  <1>1. t \in Seq(Char) /\ Len(t) \in Nat
    BY DEF Texts
  <1>2. /\ h \in Nat /\ Size(T, part) \in Nat /\ h + Size(T, part) < Close(T, b) /\ Close(T, b) \in Nat
    BY InOrder
  <1>3. Close(T, b) <= Len(w) /\ Len(w) \in Nat
    BY <1>2 DEF OnLine, End
  <1>4. /\ e \in Seq(Sign) /\ \A k \in 0..Len(t) : B(k) \in Nat
        /\ B(Len(t)) = Len(e) /\ Size(T, part) = Len(e)
        /\ \A k \in 1..Len(t) :
             /\ B(k) = B(k - 1) + Len(Code(t[k], part))
             /\ \A j \in 1..Len(Code(t[k], part)) :
                  B(k - 1) + j \in 1..Len(e) /\ e[B(k - 1) + j] = Code(t[k], part)[j]
    BY <1>1, EscapedAt DEF Size
  <1>5. \A j \in 1..Size(T, part) : w[h + j] = e[j]
    BY DEF OnLine, LiesIn
  <1> HIDE DEF B, e, h
  <1>6. CASE i = Len(t)
    BY <1>1, <1>2, <1>3, <1>4, <1>6 DEF B, h, IsAt
  <1>7. CASE i < Len(t)
    <2> DEFINE x == Code(t[i + 1], part)
    <2>1. i + 1 \in 1..Len(t) /\ (i + 1) - 1 = i /\ i \in 0..Len(t) /\ t[i + 1] \in Char
      BY <1>1, <1>7
    <2>2. x \in Seq(Sign) /\ Len(x) \in Nat /\ 1 <= Len(x)
      <3>1. x \in Seq(Sign) /\ (Len(x) = 1 \/ Len(x) = 2)
        BY <2>1, CodeIs
      <3>2. \A n : n = 1 \/ n = 2 => n \in Nat /\ 1 <= n
        OBVIOUS
      <3> HIDE DEF x
      <3> QED
        BY <3>1, <3>2
    <2>3. /\ B(i) \in Nat /\ B(i + 1) = B(i) + Len(x)
          /\ \A j \in 1..Len(x) : B(i) + j \in 1..Len(e) /\ e[B(i) + j] = x[j]
      BY <1>4, <2>1
    <2> HIDE DEF x
    <2>4. \A j \in 1..Len(x) : w[h + B(i) + j] = x[j]
      <3> TAKE j \in 1..Len(x)
      <3>1. B(i) + j \in 1..Size(T, part) /\ e[B(i) + j] = x[j]
        BY <1>4, <2>3
      <3>2. h + B(i) + j = h + (B(i) + j)
        BY <1>2, <2>3, <3>1
      <3> QED
        BY <1>5, <3>1, <3>2
    <2>5. B(i) + Len(x) <= Size(T, part)
      <3>1. Len(x) \in 1..Len(x)
        BY <2>2
      <3> QED
        BY <1>4, <2>3, <3>1
    <2>6. h + B(i) \in Nat /\ h + B(i) + Len(x) < Close(T, b) /\ h + B(i) < Close(T, b)
          /\ h + B(i + 1) = h + B(i) + Len(x)
      <3>1. \A g, l, y, z, c \in Nat : l + y <= z /\ g + z < c /\ 1 <= y =>
               g + l \in Nat /\ g + l + y < c /\ g + l < c
        OBVIOUS
      <3>2. h \in Nat /\ B(i) \in Nat /\ Len(x) \in Nat /\ Size(T, part) \in Nat /\ Close(T, b) \in Nat
        BY <1>2, <2>2, <2>3
      <3>3. h + Size(T, part) < Close(T, b) /\ B(i) + Len(x) <= Size(T, part) /\ 1 <= Len(x)
        BY <1>2, <2>2, <2>5
      <3>4. h + B(i) \in Nat /\ h + B(i) + Len(x) < Close(T, b) /\ h + B(i) < Close(T, b)
        BY <3>1, <3>2, <3>3
      <3>5. B(i + 1) = B(i) + Len(x)
        BY <2>3
      <3> QED
        BY <3>2, <3>4, <3>5
    <2> QED
      BY <1>3, <1>7, <2>1, <2>4, <2>6 DEF B, h, x, IsAt
  <1> QED
    BY <1>1, <1>6, <1>7

\* The server takes back the escapes that the client writes, and the client
\* escapes every separator.
LEMMA EscapableIs ==
    ASSUME NEW part \in Part
    PROVE  /\ Escapable(part) = (needs_escape(part) \ {NL}) \cup {Backslash}
           /\ NL \in needs_escape(part) /\ "n" \notin needs_escape(part)
           /\ Backslash \in needs_escape(part) <=> part = "string"
           /\ \A c, next : <<part, c, next>> \in Cut => c \in needs_escape(part) /\ c # NL
           /\ part = "field_key" => Equals \in needs_escape(part)
  <1> USE DEF Part, Comma, Equals, Space, Quote, Backslash, NL
  <1>1. Escapable(part) = (needs_escape(part) \ {NL}) \cup {Backslash}
    BY DEF Escapable, needs_escape
  <1>2. /\ NL \in needs_escape(part) /\ "n" \notin needs_escape(part)
        /\ Backslash \in needs_escape(part) <=> part = "string"
        /\ part = "field_key" => Equals \in needs_escape(part)
    BY DEF needs_escape
  <1>3. \A c, next : <<part, c, next>> \in Cut => c \in needs_escape(part) /\ c # NL
    BY DEF needs_escape, Cut
  <1> QED
    BY <1>1, <1>2, <1>3

\* One more character of a text is shown.
LEMMA ShownNext ==
    ASSUME NEW t \in Seq(Char), NEW i \in 1..Len(t)
    PROVE  LET s == Shown(Upto(t, i - 1))
           IN  /\ s \in Seq(Sign)
               /\ t[i] # NL => Shown(Upto(t, i)) = Append(s, t[i])
               /\ t[i] = NL => Shown(Upto(t, i)) = Append(Append(s, Backslash), "n")
  <1> DEFINE s == Shown(Upto(t, i - 1))
  <1>1. /\ Upto(t, i - 1) \in Seq(Char) /\ t[i] \in Char
        /\ Upto(t, i) = Append(Upto(t, i - 1), t[i])
    <2>1. i - 1 \in 0..Len(t)
      OBVIOUS
    <2> QED
      BY <2>1, UptoGrows
  <1>2. s \in Seq(Sign) /\ Shown(Upto(t, i)) = s \o Seen(t[i])
    BY <1>1, ShownGrows
  <1>3. t[i] \in Sign /\ Backslash \in Sign /\ "n" \in Sign
    BY <1>1 DEF Sign, Char
  <1> HIDE DEF s
  <1>4. CASE t[i] # NL
    <2>1. s \o <<t[i]>> = Append(s, t[i])
      BY <1>2, <1>3
    <2> QED
      BY <1>2, <1>4, <2>1 DEF Seen, s
  <1>5. CASE t[i] = NL
    <2>1. s \o <<Backslash, "n">> = Append(Append(s, Backslash), "n")
      BY <1>2, <1>3
    <2> QED
      BY <1>2, <1>5, <2>1 DEF Seen, s
  <1> QED
    BY <1>4, <1>5

\* A reader in step within a text stays in step.
LEMMA CharStep ==
    ASSUME NEW T \in Texts, NEW time, NEW b \in Nat, NEW w, OnLine(w, T, time, b),
           NEW part \in Part, Sound(T, part), NEW i \in 0..Len(T[part]), i < Len(T[part]),
           NEW half \in {0, 1}, half = 1 => T[part][i + 1] = NL,
           NEW q, Reads(w, At(T, b, part, i, half), q)
    PROVE  InText(T, b, q)
  <1> DEFINE t == T[part]
             p == Begin(T, part, b) + Behind(t, part, i)
             c == t[i + 1]
             x == Code(c, part)
             r == At(T, b, part, i, half)
  <1>1. t \in Seq(Char) /\ Len(t) \in Nat /\ i + 1 \in 1..Len(t) /\ (i + 1) - 1 = i /\ i + 1 \in 0..Len(t)
    BY DEF Texts
  <1>2. /\ p \in Nat /\ Len(w) \in Nat /\ c \in Char
        /\ Begin(T, part, b) + Behind(t, part, i + 1) = p + Len(x)
        /\ p + Len(x) < Len(w)
        /\ \A j \in 1..Len(x) : w[p + j] = x[j]
    <2>0. IsAt(T, b, w, part, i)
      BY TextAt
    <2>1. /\ p \in Nat /\ Len(w) \in Nat /\ Close(T, b) <= Len(w) /\ c \in Char
          /\ Begin(T, part, b) + Behind(t, part, i + 1) = p + Len(x)
          /\ p + Len(x) < Close(T, b) /\ \A j \in 1..Len(x) : w[p + j] = x[j]
      BY <2>0 DEF IsAt
    <2>2. x \in Seq(Sign) /\ Close(T, b) \in Nat
      BY <2>1, CodeIs, InOrder
    <2> HIDE DEF p, x, c, t
    <2> QED
      BY <2>1, <2>2
  <1>3. /\ c \notin needs_escape(part) => c # NL /\ Len(x) = 1 /\ x[1] = c
        /\ c = NL => Len(x) = 2 /\ x[1] = Backslash /\ x[2] = "n"
        /\ c \in needs_escape(part) /\ c # NL => Len(x) = 2 /\ x[1] = Backslash /\ x[2] = c
    BY <1>2, CodeIs
  <1>4. /\ r.pos = p + 1 + half /\ r.part = part /\ r.parts = Done(T, part)
        /\ r.text = IF half = 0 THEN Shown(Upto(t, i)) ELSE Append(Shown(Upto(t, i)), Backslash)
    BY DEF At
  <1>5. /\ Shown(Upto(t, i)) \in Seq(Sign)
        /\ c # NL => Shown(Upto(t, i + 1)) = Append(Shown(Upto(t, i)), c)
        /\ c = NL => Shown(Upto(t, i + 1)) = Append(Append(Shown(Upto(t, i)), Backslash), "n")
    BY <1>1, ShownNext
  <1>6. /\ Escapable(part) = (needs_escape(part) \ {NL}) \cup {Backslash}
        /\ NL \in needs_escape(part) /\ "n" \notin needs_escape(part)
        /\ Backslash \in needs_escape(part) <=> part = "string"
        /\ \A d, next : <<part, d, next>> \in Cut => d \in needs_escape(part) /\ d # NL
        /\ part = "field_key" => Equals \in needs_escape(part)
    BY EscapableIs
  <1>7. Backslash # Equals /\ "n" # Backslash /\ \A next : <<part, Backslash, next>> \notin Cut
    BY DEF Backslash, Equals, Cut, Comma, Space, Quote
  <1> HIDE DEF p, c, x, r, t
  <1>20. /\ Len(x) = 1 \/ Len(x) = 2
         /\ w[p + 1] = x[1] /\ (Len(x) = 2 => w[p + 2] = x[2])
    <2>1. Len(x) = 1 \/ Len(x) = 2
      BY <1>3
    <2>2. 1 \in 1..Len(x) /\ (Len(x) = 2 => 2 \in 1..Len(x))
      <3>1. CASE Len(x) = 1
        BY <3>1
      <3>2. CASE Len(x) = 2
        BY <3>2
      <3> QED
        BY <2>1, <3>1, <3>2
    <2> QED
      BY <1>2, <2>1, <2>2
  <1>21. p + 1 + 0 = p + 1 /\ p + 1 + 1 = p + 2 /\ p + 1 <= Len(w) /\ p + 1 < Len(w) /\ p \in Int
    BY <1>2, <1>20
  \* What it means to be in step after the next character, or half of it.
  <1>8. q = [pos |-> p + Len(x) + 1, part |-> part, text |-> Shown(Upto(t, i + 1)), parts |-> Done(T, part)]
        => InText(T, b, q)
    <2> SUFFICES ASSUME q = [pos |-> p + Len(x) + 1, part |-> part, text |-> Shown(Upto(t, i + 1)),
                             parts |-> Done(T, part)]
                 PROVE  InText(T, b, q)
      OBVIOUS
    <2>1. Len(x) \in Nat
      BY <1>3
    <2>2. p + Len(x) + 1 = Begin(T, part, b) + Behind(t, part, i + 1) + 1 + 0
      BY <1>2, <2>1
    <2>3. q = At(T, b, part, i + 1, 0)
      BY <2>2 DEF At, t
    <2> QED
      BY <1>1, <2>3 DEF InText, t
  <1>9. c = NL /\ q = [pos |-> p + 2, part |-> part, text |-> Append(Shown(Upto(t, i)), Backslash),
                       parts |-> Done(T, part)]
        => InText(T, b, q)
    <2> SUFFICES ASSUME c = NL, q = [pos |-> p + 2, part |-> part,
                             text |-> Append(Shown(Upto(t, i)), Backslash), parts |-> Done(T, part)]
                 PROVE  InText(T, b, q)
      OBVIOUS
    <2>1. p + 2 = p + 1 + 1
      BY <1>2
    <2>2. At(T, b, part, i, 1) = [pos |-> p + 1 + 1, part |-> part,
                                  text |-> Append(Shown(Upto(t, i)), Backslash), parts |-> Done(T, part)]
      BY DEF At, p, t
    <2>3. q = At(T, b, part, i, 1)
      BY <2>1, <2>2
    <2> QED
      BY <1>1, <2>3 DEF InText, t, c
  <1>10. CASE half = 1
    <2>1. c = NL /\ r.pos = p + 2 /\ w[r.pos] = "n"
      <3>1. c = NL
        BY <1>10 DEF c, t
      <3> QED
        BY <1>3, <1>4, <1>10, <1>20, <1>21, <3>1
    <2>2. ~Escapes(w, r) /\ ~Opens(w, r) /\ \A next : ~Cuts(w, r, next)
      <3>1. "n" # Equals /\ "n" # Backslash
        BY DEF Equals, Backslash
      <3> QED
        BY <1>4, <1>6, <2>1, <3>1 DEF Escapes, Opens, Cuts
    <2>3. q = Further(r, 1, "n")
      BY <2>1, <2>2 DEF Reads, r
    <2>4. q = [pos |-> p + Len(x) + 1, part |-> part, text |-> Shown(Upto(t, i + 1)), parts |-> Done(T, part)]
      <3>1. r.pos + 1 = p + Len(x) + 1
        BY <1>2, <1>3, <2>1
      <3>2. Append(r.text, "n") = Shown(Upto(t, i + 1))
        BY <1>4, <1>5, <1>10, <2>1
      <3> QED
        BY <1>4, <2>3, <3>1, <3>2 DEF Further
    <2> QED
      BY <1>8, <2>4
  <1>11. CASE half = 0 /\ c = NL
    <2>1. r.pos = p + 1 /\ w[r.pos] = Backslash /\ w[r.pos + 1] = "n"
      BY <1>3, <1>4, <1>11, <1>20, <1>21
    <2>2. ~Escapes(w, r) /\ ~Opens(w, r) /\ \A next : ~Cuts(w, r, next)
      BY <1>4, <1>6, <1>7, <2>1 DEF Escapes, Opens, Cuts
    <2>3. q = Further(r, 1, Backslash)
      BY <2>1, <2>2 DEF Reads, r
    <2>4. q = [pos |-> p + 2, part |-> part, text |-> Append(Shown(Upto(t, i)), Backslash),
               parts |-> Done(T, part)]
      <3>1. r.pos + 1 = p + 2
        BY <1>2, <2>1
      <3> QED
        BY <1>4, <1>11, <2>3, <3>1 DEF Further
    <2> QED
      BY <1>9, <1>11, <2>4
  <1>12. CASE half = 0 /\ c \in needs_escape(part) /\ c # NL
    <2>1. r.pos = p + 1 /\ w[r.pos] = Backslash /\ w[r.pos + 1] = c /\ r.pos < Len(w)
      BY <1>3, <1>4, <1>12, <1>20, <1>21
    <2>2. Escapes(w, r) /\ ~Opens(w, r) /\ \A next : ~Cuts(w, r, next)
      BY <1>4, <1>6, <1>7, <1>12, <2>1 DEF Escapes, Opens, Cuts
    <2>3. q = Further(r, 2, c)
      BY <2>1, <2>2 DEF Reads, r
    <2>4. q = [pos |-> p + Len(x) + 1, part |-> part, text |-> Shown(Upto(t, i + 1)), parts |-> Done(T, part)]
      <3>1. r.pos + 2 = p + Len(x) + 1
        <4>1. Len(x) = 2 /\ r.pos = p + 1 /\ p \in Int
          BY <1>3, <1>12, <1>21, <2>1
        <4> QED
          BY <4>1
      <3>2. Append(r.text, c) = Shown(Upto(t, i + 1))
        BY <1>4, <1>5, <1>12
      <3> QED
        BY <1>4, <2>3, <3>1, <3>2 DEF Further
    <2> QED
      BY <1>8, <2>4
  <1>13. CASE half = 0 /\ c \notin needs_escape(part)
    <2>1. r.pos = p + 1 /\ w[r.pos] = c /\ r.pos < Len(w) /\ Len(x) = 1 /\ c # NL
      BY <1>3, <1>4, <1>13, <1>20, <1>21
    <2>2. ~Opens(w, r) /\ \A next : ~Cuts(w, r, next)
      BY <1>4, <1>6, <1>13, <2>1 DEF Opens, Cuts
    <2>3. ~Escapes(w, r)
      <3> SUFFICES ASSUME c = Backslash PROVE w[r.pos + 1] \notin Escapable(part)
        BY <1>4, <2>1 DEF Escapes
      <3>1. part # "string"
        BY <1>6, <1>13
      <3>2. i + 1 < Len(t) /\ t[(i + 1) + 1] \notin needs_escape(part) \cup {Backslash}
        BY <1>1, <3>1 DEF Sound, c, t
      <3> DEFINE d == t[(i + 1) + 1]
                 y == Code(d, part)
      <3>9. (i + 1) \in 0..Len(T[part]) /\ i + 1 < Len(T[part])
        BY <1>1, <3>2 DEF t
      <3>3. /\ d \in Char
            /\ \A j \in 1..Len(y) : w[Begin(T, part, b) + Behind(t, part, i + 1) + j] = y[j]
        <4>1. IsAt(T, b, w, part, i + 1)
          BY <3>9, TextAt
        <4> QED
          BY <3>9, <4>1 DEF IsAt, t
      <3>4. Len(y) \in Nat /\ 1 <= Len(y) /\ y[1] = d /\ d \notin needs_escape(part) \cup {Backslash}
        BY <3>2, <3>3, CodeIs
      <3> HIDE DEF d, y
      <3>5. Begin(T, part, b) + Behind(t, part, i + 1) + 1 = r.pos + 1
        BY <1>2, <2>1
      <3>6. w[r.pos + 1] = y[1]
        BY <3>3, <3>4, <3>5
      <3> QED
        BY <1>6, <3>4, <3>6
    <2>4. q = Further(r, 1, c)
      BY <2>1, <2>2, <2>3 DEF Reads, r
    <2>5. q = [pos |-> p + Len(x) + 1, part |-> part, text |-> Shown(Upto(t, i + 1)), parts |-> Done(T, part)]
      <3>1. r.pos + 1 = p + Len(x) + 1
        BY <1>2, <2>1
      <3>2. Append(r.text, c) = Shown(Upto(t, i + 1))
        BY <1>4, <1>5, <1>13, <2>1
      <3> QED
        BY <1>4, <2>4, <3>1, <3>2 DEF Further
    <2> QED
      BY <1>8, <2>5
  <1> QED
    BY <1>10, <1>11, <1>12, <1>13

\* A reader at the beginning of a part is in step.
LEMMA BeginsPart ==
    ASSUME NEW T \in Texts, NEW b \in Nat, NEW part \in Part,
           NEW q, q = [pos |-> Begin(T, part, b) + 1, part |-> part, text |-> <<>>, parts |-> Done(T, part)]
    PROVE  InText(T, b, q)
  <1>1. T[part] \in Seq(Char) /\ Begin(T, part, b) \in Nat /\ 0 \in 0..Len(T[part])
    BY InOrder DEF Texts
  <1>2. Upto(T[part], 0) = <<>> /\ Behind(T[part], part, 0) = 0
    BY <1>1, UptoGrows, EscapedAt
  <1>3. Shown(<<>>) = <<>>
    <2>1. [i \in DOMAIN <<>> |-> IF <<>>[i] = NL THEN <<Backslash, "n">> ELSE <<<<>>[i]>>] = <<>>
      OBVIOUS
    <2> QED
      BY <2>1, FlattenEmpty DEF Shown
  <1>4. q = At(T, b, part, 0, 0)
    <2>1. Begin(T, part, b) + 0 + 1 + 0 = Begin(T, part, b) + 1
      BY <1>1
    <2> QED
      BY <1>2, <1>3, <2>1 DEF At
  <1> QED
    BY <1>1, <1>4 DEF InText

\* What has been read once a part is read.
LEMMA DoneNext ==
    ASSUME NEW T \in Texts
    PROVE  /\ Append(Done(T, "measurement"), Whole(T, "measurement")) = Done(T, "tag_key")
           /\ Append(Done(T, "tag_key"), Whole(T, "tag_key")) = Done(T, "tag_value")
           /\ Append(Done(T, "tag_value"), Whole(T, "tag_value")) = Done(T, "field_key")
           /\ Append(Done(T, "field_key"), Whole(T, "field_key")) = Done(T, "string")
           /\ Append(Done(T, "string"), Whole(T, "string")) = Done(T, "time")
           /\ \A time : Append(Done(T, "time"), <<"time", TimeText(TimeLen(time))>>) = Parts(T, time)
  <1> DEFINE m == Whole(T, "measurement")
             k == Whole(T, "tag_key")
             v == Whole(T, "tag_value")
             f == Whole(T, "field_key")
             s == Whole(T, "string")
  <1>1. /\ Append(<<>>, m) = <<m>> /\ Append(<<m>>, k) = <<m, k>>
        /\ Append(<<m, k>>, v) = <<m, k, v>> /\ Append(<<m, k, v>>, f) = <<m, k, v, f>>
        /\ Append(<<m, k, v, f>>, s) = <<m, k, v, f, s>>
        /\ \A x : Append(<<m, k, v, f, s>>, x) = <<m, k, v, f, s, x>>
    <2>1. Append(<<>>, m) = <<m>>
      OBVIOUS
    <2>2. Append(<<m>>, k) = <<m, k>>
      BY ListOf2, Zenon
    <2>3. Append(<<m, k>>, v) = <<m, k, v>>
      BY ListOf3, Zenon
    <2>4. Append(<<m, k, v>>, f) = <<m, k, v, f>>
      BY ListOf4, Zenon
    <2>5. Append(<<m, k, v, f>>, s) = <<m, k, v, f, s>>
      BY ListOf5, Zenon
    <2>6. \A x : Append(<<m, k, v, f, s>>, x) = <<m, k, v, f, s, x>>
      BY ListOf6, Zenon
    <2> QED
      BY <2>1, <2>2, <2>3, <2>4, <2>5, <2>6
  <1>2. /\ Done(T, "measurement") = <<>> /\ Done(T, "tag_key") = <<m>> /\ Done(T, "tag_value") = <<m, k>>
        /\ Done(T, "field_key") = <<m, k, v>> /\ Done(T, "string") = <<m, k, v, f>>
        /\ Done(T, "time") = <<m, k, v, f, s>>
    BY DEF Done
  <1>3. \A time : TimeText(TimeLen(time)) = IF time = NoTime THEN <<>> ELSE <<Space, "0">>
    BY DEF TimeText, TimeLen
  <1>4. \A time : Parts(T, time) = <<m, k, v, f, s, <<"time", TimeText(TimeLen(time))>>>>
    BY <1>3 DEF Whole, Parts
  <1> HIDE DEF m, k, v, f, s
  <1>5. \A time : Append(Done(T, "time"), <<"time", TimeText(TimeLen(time))>>) = Parts(T, time)
    BY <1>1, <1>2, <1>4
  <1> QED
    BY <1>1, <1>2, <1>5 DEF m, k, v, f, s

\* A reader in step at the end of a text goes to the next part.
LEMMA PartStep ==
    ASSUME NEW T \in Texts, NEW time, NEW b \in Nat, NEW w, OnLine(w, T, time, b),
           NEW part \in Part, NEW q, Reads(w, At(T, b, part, Len(T[part]), 0), q)
    PROVE  InStep(T, time, b, q)
  <1> DEFINE r == At(T, b, part, Len(T[part]), 0)
  <1>1. T[part] \in Seq(Char) /\ Len(T[part]) \in Nat
    BY DEF Texts
  <1>2. /\ Behind(T[part], part, Len(T[part])) = Size(T, part) /\ Upto(T[part], Len(T[part])) = T[part]
        /\ Begin(T, part, b) \in Nat /\ Size(T, part) \in Nat
    BY <1>1, EscapedAt, UptoGrows, InOrder DEF Size
  <1>3. /\ r.pos = Begin(T, part, b) + Size(T, part) + 1 /\ r.part = part
        /\ <<r.part, r.text>> = Whole(T, part) /\ r.parts = Done(T, part)
    <2>1. Begin(T, part, b) + Size(T, part) + 1 + 0 = Begin(T, part, b) + Size(T, part) + 1
      BY <1>2
    <2> QED
      BY <1>2, <2>1 DEF At, Whole
  <1> HIDE DEF r
  <1>4. /\ Begin(T, "tag_key", b) = Begin(T, "measurement", b) + Size(T, "measurement") + 1
        /\ Begin(T, "tag_value", b) = Begin(T, "tag_key", b) + Size(T, "tag_key") + 1
        /\ Begin(T, "field_key", b) = Begin(T, "tag_value", b) + Size(T, "tag_value") + 1
        /\ Begin(T, "string", b) = Begin(T, "field_key", b) + Size(T, "field_key") + 2
        /\ Close(T, b) = Begin(T, "string", b) + Size(T, "string") + 1
    BY BeginIs
  <1>5. /\ w[Begin(T, "tag_key", b)] = Comma
        /\ w[Begin(T, "tag_value", b)] = Equals
        /\ w[Begin(T, "field_key", b)] = Space
        /\ w[Begin(T, "string", b) - 1] = Equals /\ w[Begin(T, "string", b)] = Quote
        /\ w[Close(T, b)] = Quote
    BY DEF OnLine, LiesIn
  <1>6. /\ Comma # Backslash /\ Equals # Backslash /\ Space # Backslash /\ Quote # Backslash
        /\ Comma # Equals /\ Comma # Space /\ Equals # Space /\ Quote # Equals
    BY DEF Comma, Equals, Space, Quote, Backslash
  <1>7. \/ part = "measurement" \/ part = "tag_key" \/ part = "tag_value" \/ part = "field_key"
        \/ part = "string"
    BY DEF Part
  <1>8. CASE part = "measurement"
    <2>1. r.pos = Begin(T, "tag_key", b) /\ w[r.pos] = Comma
      BY <1>3, <1>4, <1>5, <1>8
    <2>2. /\ ~Escapes(w, r) /\ ~Opens(w, r) /\ Cuts(w, r, "tag_key")
          /\ \A next \in Part \cup {"time"} : Cuts(w, r, next) => next = "tag_key"
      BY <1>3, <1>6, <1>8, <2>1 DEF Escapes, Opens, Cuts, Cut, Part
    <2>3. q = Turned(r, 1, "tag_key")
      BY <2>2 DEF Reads, r, Part
    <2>4. q = [pos |-> Begin(T, "tag_key", b) + 1, part |-> "tag_key", text |-> <<>>,
               parts |-> Done(T, "tag_key")]
      BY <1>3, <1>8, <2>1, <2>3, DoneNext DEF Turned
    <2> QED
      BY <2>4, BeginsPart DEF Part, InStep
  <1>9. CASE part = "tag_key"
    <2>1. r.pos = Begin(T, "tag_value", b) /\ w[r.pos] = Equals
      BY <1>3, <1>4, <1>5, <1>9
    <2>2. /\ ~Escapes(w, r) /\ ~Opens(w, r) /\ Cuts(w, r, "tag_value")
          /\ \A next \in Part \cup {"time"} : Cuts(w, r, next) => next = "tag_value"
      BY <1>3, <1>6, <1>9, <2>1 DEF Escapes, Opens, Cuts, Cut, Part
    <2>3. q = Turned(r, 1, "tag_value")
      BY <2>2 DEF Reads, r, Part
    <2>4. q = [pos |-> Begin(T, "tag_value", b) + 1, part |-> "tag_value", text |-> <<>>,
               parts |-> Done(T, "tag_value")]
      BY <1>3, <1>9, <2>1, <2>3, DoneNext DEF Turned
    <2> QED
      BY <2>4, BeginsPart DEF Part, InStep
  <1>10. CASE part = "tag_value"
    <2>1. r.pos = Begin(T, "field_key", b) /\ w[r.pos] = Space
      BY <1>3, <1>4, <1>5, <1>10
    <2>2. /\ ~Escapes(w, r) /\ ~Opens(w, r) /\ Cuts(w, r, "field_key")
          /\ \A next \in Part \cup {"time"} : Cuts(w, r, next) => next = "field_key"
      BY <1>3, <1>6, <1>10, <2>1 DEF Escapes, Opens, Cuts, Cut, Part
    <2>3. q = Turned(r, 1, "field_key")
      BY <2>2 DEF Reads, r, Part
    <2>4. q = [pos |-> Begin(T, "field_key", b) + 1, part |-> "field_key", text |-> <<>>,
               parts |-> Done(T, "field_key")]
      BY <1>3, <1>10, <2>1, <2>3, DoneNext DEF Turned
    <2> QED
      BY <2>4, BeginsPart DEF Part, InStep
  <1>11. CASE part = "field_key"
    <2>1. /\ r.pos = Begin(T, "string", b) - 1 /\ r.pos + 1 = Begin(T, "string", b)
          /\ r.pos + 2 = Begin(T, "string", b) + 1
      BY <1>2, <1>3, <1>4, <1>11
    <2>2. w[r.pos] = Equals /\ w[r.pos + 1] = Quote
      BY <1>5, <2>1
    <2>3. /\ ~Escapes(w, r) /\ Opens(w, r) /\ \A next : ~Cuts(w, r, next)
      BY <1>3, <1>6, <1>11, <2>2 DEF Escapes, Opens, Cuts, Cut
    <2>4. q = Turned(r, 2, "string")
      BY <2>3 DEF Reads, r
    <2>5. q = [pos |-> Begin(T, "string", b) + 1, part |-> "string", text |-> <<>>,
               parts |-> Done(T, "string")]
      BY <1>3, <1>11, <2>1, <2>4, DoneNext DEF Turned
    <2> QED
      BY <2>5, BeginsPart DEF Part, InStep
  <1>12. CASE part = "string"
    <2>1. r.pos = Close(T, b) /\ w[r.pos] = Quote
      BY <1>3, <1>4, <1>5, <1>12
    <2>2. /\ ~Escapes(w, r) /\ ~Opens(w, r) /\ Cuts(w, r, "time")
          /\ \A next \in Part \cup {"time"} : Cuts(w, r, next) => next = "time"
      BY <1>3, <1>6, <1>12, <2>1 DEF Escapes, Opens, Cuts, Cut, Part
    <2>3. q = Turned(r, 1, "time")
      BY <2>2 DEF Reads, r, Part
    <2>4. q = [pos |-> Close(T, b) + 1, part |-> "time", text |-> <<>>, parts |-> Done(T, "time")]
      BY <1>3, <1>12, <2>1, <2>3, DoneNext DEF Turned
    <2>5. Close(T, b) + 1 = Close(T, b) + 1 + 0 /\ 0 \in 0..TimeLen(time)
      <3>1. Close(T, b) \in Nat
        BY InOrder
      <3> QED
        BY <3>1 DEF TimeLen
    <2>6. q = AtTime(T, b, 0)
      BY <2>4, <2>5 DEF AtTime, TimeText
    <2> QED
      BY <2>5, <2>6 DEF InTime, InStep
  <1> QED
    BY <1>7, <1>8, <1>9, <1>10, <1>11, <1>12

\* A reader in step in the time of a line stays in step.
LEMMA InTimeStep ==
    ASSUME NEW T \in Texts, NEW time, NEW b \in Nat, NEW w, OnLine(w, T, time, b),
           NEW k \in 0..TimeLen(time), NEW q, Reads(w, AtTime(T, b, k), q),
           Close(T, b) + 1 + k <= End(T, time, b)
    PROVE  InStep(T, time, b, q)
  <1> DEFINE r == AtTime(T, b, k)
             c == Close(T, b)
  <1>1. c \in Nat
    BY InOrder
  <1>2. time # NoTime /\ (k = 0 \/ k = 1) /\ TimeLen(time) = 2
    BY <1>1 DEF End, TimeLen
  <1>3. w[c + 1] = Space /\ w[c + 2] = "0"
    BY <1>2 DEF OnLine, LiesIn
  <1>4. r.pos = c + 1 + k /\ r.part = "time" /\ r.text = TimeText(k) /\ r.parts = Done(T, "time")
    BY DEF AtTime
  <1>5. ~Opens(w, r) /\ ~Escapes(w, r) /\ \A next : ~Cuts(w, r, next)
    <2>1. w[r.pos] # Comma
      BY <1>1, <1>2, <1>3, <1>4 DEF Space, Comma
    <2> QED
      BY <1>4, <2>1 DEF Opens, Escapes, Escapable, Cuts, Cut
  <1>6. q = Further(r, 1, w[c + 1 + k])
    BY <1>4, <1>5 DEF Reads
  <1> HIDE DEF c, r
  <1>7. CASE k = 0
    <2>1. c + 1 + k = c + 1 /\ c + 1 + k + 1 = c + 1 + 1 /\ 1 \in 0..TimeLen(time)
      BY <1>1, <1>2, <1>7
    <2>2. Append(TimeText(0), Space) = TimeText(1)
      BY DEF TimeText
    <2>3. q = AtTime(T, b, 1)
      BY <1>3, <1>4, <1>6, <1>7, <2>1, <2>2 DEF Further, AtTime, c
    <2> QED
      BY <2>1, <2>3 DEF InTime, InStep
  <1>8. CASE k = 1
    <2>1. c + 1 + k = c + 2 /\ c + 1 + k + 1 = c + 1 + 2 /\ 2 \in 0..TimeLen(time)
      BY <1>1, <1>2, <1>8
    <2>2. Append(TimeText(1), "0") = TimeText(2)
      <3>1. Append(<<Space>>, "0") = <<Space, "0">>
        BY ListOf2, Zenon
      <3> QED
        BY <3>1 DEF TimeText
    <2>3. q = AtTime(T, b, 2)
      BY <1>3, <1>4, <1>6, <1>8, <2>1, <2>2 DEF Further, AtTime, c
    <2> QED
      BY <2>1, <2>3 DEF InTime, InStep
  <1> QED
    BY <1>2, <1>7, <1>8

\* A reader in step reads on in step.
LEMMA TextStep ==
    ASSUME NEW T \in Texts, NEW time, NEW b \in Nat, NEW w, OnLine(w, T, time, b),
           NEW r, InText(T, b, r), Sound(T, r.part), NEW q, Reads(w, r, q)
    PROVE  InStep(T, time, b, q)
  <1>1. PICK part \in Part : \E i \in 0..Len(T[part]) : \E half \in {0, 1} :
            /\ half = 1 => i + 1 \in 1..Len(T[part]) /\ T[part][i + 1] = NL
            /\ r = At(T, b, part, i, half)
    BY DEF InText
  <1>2. PICK i \in 0..Len(T[part]), half \in {0, 1} :
            /\ half = 1 => i + 1 \in 1..Len(T[part]) /\ T[part][i + 1] = NL
            /\ r = At(T, b, part, i, half)
    BY <1>1
  <1>3. Len(T[part]) \in Nat /\ r.part = part
    BY <1>2 DEF Texts, At
  <1>4. CASE i < Len(T[part])
    <2>1. Reads(w, At(T, b, part, i, half), q) /\ Sound(T, part)
      BY <1>2, <1>3
    <2>2. half = 1 => T[part][i + 1] = NL
      BY <1>2
    <2>3. InText(T, b, q)
      BY <1>4, <2>1, <2>2, CharStep
    <2> QED
      BY <2>3 DEF InStep
  <1>5. CASE ~(i < Len(T[part]))
    <2>1. i = Len(T[part]) /\ half = 0
      BY <1>2, <1>3, <1>5
    <2>2. Reads(w, At(T, b, part, Len(T[part]), 0), q)
      BY <1>2, <2>1
    <2> QED
      BY <2>2, PartStep
  <1> QED
    BY <1>4, <1>5

\* A reader in step with a line stays so until the line ends.
LEMMA StepInStep ==
    ASSUME NEW T \in Texts, Unspoilt(T), NEW time, NEW b \in Nat, NEW w, OnLine(w, T, time, b),
           NEW r, InStep(T, time, b, r), r.pos <= End(T, time, b), NEW q, Reads(w, r, q)
    PROVE  InStep(T, time, b, q)
  <1>1. CASE InText(T, b, r)
    <2>1. r.part \in Part
      BY <1>1 DEF InText, At
    <2>2. Sound(T, r.part)
      BY <2>1 DEF Unspoilt
    <2> QED
      BY <1>1, <2>2, TextStep
  <1>2. CASE InTime(T, time, b, r)
    <2>1. PICK k \in 0..TimeLen(time) : r = AtTime(T, b, k)
      BY <1>2 DEF InTime
    <2>2. Close(T, b) + 1 + k <= End(T, time, b) /\ Reads(w, AtTime(T, b, k), q)
      BY <2>1 DEF AtTime
    <2> QED
      BY <2>2, InTimeStep
  <1> QED
    BY <1>1, <1>2 DEF InStep

\* Where the text of a line ends.
LEMMA EndIs ==
    ASSUME NEW T \in Texts, NEW time, NEW b \in Nat
    PROVE  /\ End(T, time, b) = Close(T, b) + TimeLen(time) /\ TimeLen(time) \in {0, 2}
           /\ End(T, time, b) \in Nat /\ Close(T, b) <= End(T, time, b) /\ b < Close(T, b)
           /\ Close(T, b) \in Nat
           /\ TimeLen(time) = 2 <=> time # NoTime
  <1>1. Close(T, b) \in Nat /\ b < Close(T, b)
    <2>1. /\ b < Begin(T, "tag_key", b) /\ Begin(T, "tag_key", b) < Begin(T, "tag_value", b)
          /\ Begin(T, "tag_value", b) < Begin(T, "field_key", b)
          /\ Begin(T, "field_key", b) + 1 < Begin(T, "string", b)
          /\ Begin(T, "string", b) < Close(T, b) /\ Close(T, b) \in Nat
      BY InOrder
    <2>2. /\ Begin(T, "tag_key", b) \in Nat /\ Begin(T, "tag_value", b) \in Nat
          /\ Begin(T, "field_key", b) \in Nat /\ Begin(T, "string", b) \in Nat
      BY InOrder DEF Part
    <2> QED
      BY <2>1, <2>2
  <1> QED
    BY <1>1 DEF End, TimeLen

\* Where the characters of a line come from.
LEMMA Regions ==
    ASSUME NEW T \in Texts, NEW time, NEW b \in Nat, NEW w, OnLine(w, T, time, b),
           NEW x \in Nat, b < x, x <= End(T, time, b)
    PROVE  \/ \E part \in Part : \E j \in 1..Size(T, part) : x = Begin(T, part, b) + j
           \/ x = Begin(T, "tag_key", b) /\ w[x] = Comma
           \/ x = Begin(T, "tag_value", b) /\ w[x] = Equals
           \/ x = Begin(T, "field_key", b) /\ w[x] = Space
           \/ x = Begin(T, "string", b) - 1 /\ w[x] = Equals
           \/ x = Begin(T, "string", b) /\ w[x] = Quote
           \/ x = Close(T, b) /\ w[x] = Quote
           \/ x = Close(T, b) + 1 /\ w[x] = Space
           \/ x = Close(T, b) + 2 /\ w[x] = "0"
  <1> DEFINE m == Size(T, "measurement")
             k == Size(T, "tag_key")
             v == Size(T, "tag_value")
             f == Size(T, "field_key")
             s == Size(T, "string")
             km == Begin(T, "tag_key", b)
             vm == Begin(T, "tag_value", b)
             fm == Begin(T, "field_key", b)
             sm == Begin(T, "string", b)
             c == Close(T, b)
             InA(h, n) == \E j \in 1..n : x = h + j
  <1>1. /\ Begin(T, "measurement", b) = b /\ km = b + m + 1 /\ vm = km + k + 1 /\ fm = vm + v + 1
        /\ sm = fm + f + 2 /\ c = sm + s + 1 /\ c \in Nat
        /\ \A part \in Part : Begin(T, part, b) \in Nat /\ Size(T, part) \in Nat
    BY BeginIs
  <1>2. /\ m \in Nat /\ k \in Nat /\ v \in Nat /\ f \in Nat /\ s \in Nat
        /\ km \in Nat /\ vm \in Nat /\ fm \in Nat /\ sm \in Nat
    BY <1>1 DEF Part
  <1>3. /\ w[km] = Comma /\ w[vm] = Equals /\ w[fm] = Space /\ w[sm - 1] = Equals /\ w[sm] = Quote
        /\ w[c] = Quote /\ (time # NoTime => w[c + 1] = Space /\ w[c + 2] = "0")
    BY DEF OnLine, LiesIn
  <1>4. x <= c \/ (time # NoTime /\ (x = c + 1 \/ x = c + 2))
    <2>1. End(T, time, b) = IF time = NoTime THEN c ELSE c + 2
      BY DEF End
    <2> HIDE DEF c
    <2> QED
      BY <1>1, <2>1
  <1>5. InA(b, m) \/ InA(km, k) \/ InA(vm, v) \/ InA(fm, f) \/ InA(sm, s)
        => \E part \in Part : \E j \in 1..Size(T, part) : x = Begin(T, part, b) + j
    BY <1>1 DEF Part
  <1> HIDE DEF m, k, v, f, s, km, vm, fm, sm, c
  <1>6. \A h, n \in Nat : h < x /\ x < h + n + 1 => InA(h, n)
    <2> TAKE h, n \in Nat
    <2> HAVE h < x /\ x < h + n + 1
    <2>1. x - h \in 1..n /\ x = h + (x - h)
      OBVIOUS
    <2> QED
      BY <2>1
  <1> HIDE DEF InA
  <1>7. x <= c => \/ InA(b, m) \/ x = km \/ InA(km, k) \/ x = vm \/ InA(vm, v) \/ x = fm \/ InA(fm, f)
                  \/ x = sm - 1 \/ x = sm \/ InA(sm, s) \/ x = c
    <2>1. x < km => InA(b, m)
      BY <1>1, <1>2, <1>6
    <2>2. km < x /\ x < vm => InA(km, k)
      BY <1>1, <1>2, <1>6
    <2>3. vm < x /\ x < fm => InA(vm, v)
      BY <1>1, <1>2, <1>6
    <2>4. fm < x /\ x < sm - 1 => InA(fm, f)
      BY <1>1, <1>2, <1>6
    <2>5. sm < x /\ x < c => InA(sm, s)
      BY <1>1, <1>2, <1>6
    <2> QED
      BY <1>1, <1>2, <2>1, <2>2, <2>3, <2>4, <2>5
  <1> QED
    BY <1>3, <1>4, <1>5, <1>7 DEF km, vm, fm, sm, c

\* There is no newline in a line, and it ends in a quote or in its time.
LEMMA LineChars ==
    ASSUME NEW T \in Texts, NEW time, NEW b \in Nat, NEW w, OnLine(w, T, time, b)
    PROVE  /\ \A x \in Nat : b < x /\ x <= End(T, time, b) => w[x] # NL
           /\ w[End(T, time, b)] \in {Quote, "0"}
           /\ End(T, time, b) \in Nat /\ Len(w) \in Nat
  <1>0. /\ End(T, time, b) \in Nat /\ Len(w) \in Nat
    BY EndIs DEF OnLine
  <1>1. ASSUME NEW part \in Part, NEW j \in 1..Size(T, part)
        PROVE  w[Begin(T, part, b) + j] # NL
    <2> DEFINE e == escape_with(T[part], part)
    <2>1. T[part] \in Seq(Char)
      BY DEF Texts
    <2>2. j \in 1..Len(e) /\ w[Begin(T, part, b) + j] = e[j]
      BY DEF OnLine, LiesIn, Size
    <2>3. e = escape_with(T[part], part)
      OBVIOUS
    <2> DEFINE t == T[part]
    <2>4. t \in Seq(Char) /\ e = escape_with(t, part)
      BY <2>1, <2>3
    <2> HIDE DEF e, t
    <2>5. \A k \in 1..Len(e) :
            /\ e[k] # NL
            /\ e[k] \in needs_escape(part) =>
                 \/ k - 1 \in 1..Len(e) /\ e[k - 1] = Backslash
                 \/ part = "string" /\ e[k] = Backslash
      BY <2>4, EscapedText
    <2> QED
      BY <2>2, <2>5
  <1>2. ASSUME NEW x \in Nat, b < x, x <= End(T, time, b) PROVE w[x] # NL
    <2>1. NL \notin {Comma, Equals, Space, Quote, "0"}
      BY DEF NL, Comma, Equals, Space, Quote
    <2> QED
      BY <1>1, <1>2, <2>1, Regions
  <1>3. w[End(T, time, b)] \in {Quote, "0"}
    BY DEF OnLine, LiesIn, End
  <1> QED
    BY <1>0, <1>1, <1>2, <1>3

\* The parts read are those of a reader.
LEMMA DoneIs ==
    ASSUME NEW T \in Texts, NEW part \in Part \cup {"time"}
    PROVE  Done(T, part) \in Seq(PartRead)
  <1>1. \A p \in Part : Whole(T, p) \in PartRead
    <2> TAKE p \in Part
    <2>1. T[p] \in Seq(Char) /\ "a" \in Char
      BY DEF Texts, Char
    <2>2. Shown(T[p]) \in Seq(Sign)
      BY <2>1, ShownGrows
    <2> QED
      BY <2>2 DEF Whole, PartRead
  <1>2. /\ Whole(T, "measurement") \in PartRead /\ Whole(T, "tag_key") \in PartRead
        /\ Whole(T, "tag_value") \in PartRead /\ Whole(T, "field_key") \in PartRead
        /\ Whole(T, "string") \in PartRead
    BY <1>1 DEF Part
  <1> QED
    BY <1>2 DEF Done, Part

\* Where a reader is that is in step.
LEMMA InStepPlace ==
    ASSUME NEW T \in Texts, NEW time, NEW b \in Nat, NEW w, OnLine(w, T, time, b),
           NEW r, InStep(T, time, b, r)
    PROVE  /\ r \in Reader /\ b < r.pos /\ r.pos <= End(T, time, b) + 1
           /\ r.part \in Part => r.pos <= Close(T, b)
           /\ r.pos = End(T, time, b) + 1 =>
                r.part = "time" /\ Append(r.parts, <<r.part, r.text>>) = Parts(T, time)
  <1>0. /\ End(T, time, b) = Close(T, b) + TimeLen(time) /\ TimeLen(time) \in {0, 2}
        /\ End(T, time, b) \in Nat /\ Close(T, b) <= End(T, time, b) /\ b < Close(T, b)
        /\ Close(T, b) \in Nat
    BY EndIs
  <1>9. "time" \notin Part
    BY DEF Part
  <1>1. CASE InText(T, b, r)
    <2>1. PICK part \in Part : \E i \in 0..Len(T[part]) : \E half \in {0, 1} :
              /\ half = 1 => i + 1 \in 1..Len(T[part]) /\ T[part][i + 1] = NL
              /\ r = At(T, b, part, i, half)
      BY <1>1 DEF InText
    <2>2. PICK i \in 0..Len(T[part]), half \in {0, 1} :
              /\ half = 1 => i + 1 \in 1..Len(T[part]) /\ T[part][i + 1] = NL
              /\ r = At(T, b, part, i, half)
      BY <2>1
    <2> DEFINE t == T[part]
               p == Begin(T, part, b) + Behind(t, part, i)
    <2>3. t \in Seq(Char) /\ Len(t) \in Nat /\ Upto(t, i) \in Seq(Char)
      BY UptoGrows DEF Texts
    <2>4. IsAt(T, b, w, part, i)
      BY TextAt
    <2>5. /\ p \in Nat /\ p < Close(T, b)
          /\ i < Len(t) => t[i + 1] \in Char /\ p + Len(Code(t[i + 1], part)) < Close(T, b)
      BY <2>4 DEF IsAt
    <2>6. half = 1 => p + 2 < Close(T, b)
      <3> SUFFICES ASSUME half = 1 PROVE p + 2 < Close(T, b)
        OBVIOUS
      <3>1. i < Len(t) /\ t[i + 1] = NL
        BY <2>2, <2>3
      <3>2. Len(Code(t[i + 1], part)) = 2
        BY <2>5, <3>1, CodeIs
      <3> QED
        BY <2>5, <3>1, <3>2
    <2>7. Behind(t, part, i) \in Nat /\ Begin(T, part, b) \in Nat /\ b <= Begin(T, part, b)
      BY <2>3, EscapedAt, InOrder
    <2>8. r.pos = p + 1 + half /\ r.part = part
      BY <2>2 DEF At
    <2>9. r.pos \in Nat /\ b < r.pos /\ r.pos <= Close(T, b)
      <3>1. b <= p
        BY <2>7
      <3> HIDE DEF p
      <3> QED
        BY <1>0, <2>5, <2>6, <2>8, <3>1
    <2>10. Shown(Upto(t, i)) \in Seq(Sign) /\ Backslash \in Sign
      <3>1. "a" \in Char
        BY DEF Char
      <3> QED
        BY <2>3, <3>1, ShownGrows DEF Sign, Char
    <2>11. r \in Reader
      <3>1. r.text \in Seq(Sign)
        BY <2>2, <2>10 DEF At
      <3>2. r = [pos |-> r.pos, part |-> part, text |-> r.text, parts |-> Done(T, part)]
        BY <2>2 DEF At
      <3>3. r.pos \in Nat \ {0}
        BY <2>9
      <3> QED
        BY <3>1, <3>2, <3>3, DoneIs DEF Reader
    <2> QED
      BY <1>0, <2>9, <2>11
  <1>2. CASE InTime(T, time, b, r)
    <2>1. PICK k \in 0..TimeLen(time) : r = AtTime(T, b, k)
      BY <1>2 DEF InTime
    <2>2. /\ r.pos = Close(T, b) + 1 + k /\ r.part = "time" /\ r.text = TimeText(k)
          /\ r.parts = Done(T, "time")
      BY <2>1 DEF AtTime
    <2>3. r.pos \in Nat \ {0} /\ b < r.pos /\ r.pos <= End(T, time, b) + 1
      BY <1>0, <2>2
    <2>4. k \in {0, 1, 2} /\ TimeText(k) \in Seq(Sign)
      <3>1. k \in {0, 1, 2}
        BY <1>0
      <3>2. Space \in Sign /\ "0" \in Sign
        BY DEF Sign, Char
      <3> QED
        BY <3>1, <3>2 DEF TimeText
    <2>5. r \in Reader
      <3>1. r = [pos |-> r.pos, part |-> r.part, text |-> r.text, parts |-> r.parts]
        BY <2>1 DEF AtTime
      <3> QED
        BY <2>2, <2>3, <2>4, <3>1, DoneIs DEF Reader
    <2>6. ASSUME r.pos = End(T, time, b) + 1
          PROVE  Append(r.parts, <<r.part, r.text>>) = Parts(T, time)
      <3>1. k = TimeLen(time)
        BY <1>0, <2>2, <2>6
      <3> QED
        BY <2>2, <3>1, DoneNext
    <2> QED
      BY <1>9, <2>2, <2>3, <2>5, <2>6
  <1> QED
    BY <1>1, <1>2 DEF InStep

\* The reader r, had it read the parts as they were written.
Like(T, r) == [pos |-> r.pos, part |-> r.part, text |-> r.text, parts |-> Done(T, "string")]

\* Where a reader may be that a backslash has led astray: anywhere up to the
\* quote that opens the string, and behind it in a string only where that is.
Astray(T, time, b, r) ==
    /\ r \in Reader /\ b < r.pos /\ r.pos <= End(T, time, b) + 1
    /\ r.part = "string" /\ Begin(T, "string", b) < r.pos => InText(T, b, Like(T, r))

\* Behind the quote that opens the string no sign comes before a quote.
LEMMA NoSignBeforeQuote ==
    ASSUME NEW T \in Texts, NEW time, NEW b \in Nat, NEW w, OnLine(w, T, time, b),
           T["string"] # <<>>, T["string"][Len(T["string"])] # Equals,
           NEW x \in Nat, x <= End(T, time, b), w[x] = Equals, w[x + 1] = Quote
    PROVE  x < Begin(T, "string", b)
  <1> DEFINE S == Begin(T, "string", b)
             C == Close(T, b)
             E == End(T, time, b)
             s == Size(T, "string")
             e == escape_with(T["string"], "string")
  <1> SUFFICES ASSUME S <= x PROVE FALSE
    <2>1. S \in Nat
      BY InOrder DEF Part
    <2> HIDE DEF S
    <2> QED
      BY <2>1 DEF S
  <1>1. x \in Nat /\ x <= E /\ w[x] = Equals /\ w[x + 1] = Quote
    OBVIOUS
  <1>2. /\ S \in Nat /\ C \in Nat /\ E \in Nat /\ C = S + s + 1 /\ s \in Nat
        /\ E = C \/ E = C + 2
    <2>1. S \in Nat /\ s \in Nat
      BY InOrder DEF Part
    <2>2. C \in Nat /\ E \in Nat
      BY EndIs
    <2>3. C = S + s + 1
      BY BeginIs
    <2>4. E = C \/ E = C + 2
      BY DEF End
    <2> QED
      BY <2>1, <2>2, <2>3, <2>4
  <1>3. Equals \notin {Comma, Space, Quote, "0", Backslash, NL} /\ Quote # Backslash
    BY DEF Equals, Comma, Space, Quote, Backslash, NL
  <1>4. Quote \in needs_escape("string")
    BY DEF needs_escape
  <1>5. T["string"] \in Seq(Char) /\ "string" \in Part
    BY DEF Texts, Part
  <1>6. /\ \A j \in 1..Len(e) : e[j] \in needs_escape("string") =>
              \/ j - 1 \in 1..Len(e) /\ e[j - 1] = Backslash
              \/ e[j] = Backslash
        /\ Len(e) >= 1 /\ (e[Len(e)] = T["string"][Len(T["string"])] \/ e[Len(e)] = "n")
    <2> DEFINE t == T["string"]
    <2>1. t \in Seq(Char) /\ t # <<>> /\ e = escape_with(t, "string")
      BY <1>5
    <2> HIDE DEF e, t
    <2>2. /\ \A j \in 1..Len(e) : e[j] \in needs_escape("string") =>
                \/ j - 1 \in 1..Len(e) /\ e[j - 1] = Backslash
                \/ e[j] = Backslash
          /\ Len(e) >= 1 /\ (e[Len(e)] = t[Len(t)] \/ e[Len(e)] = "n")
      BY <1>5, <2>1, EscapedText
    <2> QED
      BY <2>2 DEF t
  <1>7. e \in Seq(Sign) /\ s = Len(e) /\ \A j \in 1..Len(e) : w[S + j] = e[j]
    BY <1>5, EscapedAt DEF OnLine, LiesIn, Size
  <1>8. "n" # Equals /\ e[Len(e)] # Equals
    BY <1>6 DEF Equals
  <1> HIDE DEF S, C, E, s, e
  <1>9. x # S
    BY <1>1, <1>3 DEF OnLine, LiesIn, S
  <1>10. CASE x + 1 < C
    <2>1. /\ x - S \in 1..Len(e) /\ x + 1 - S \in 1..Len(e)
          /\ S + (x - S) = x /\ S + (x + 1 - S) = x + 1 /\ (x + 1 - S) - 1 = x - S
      BY <1>1, <1>2, <1>7, <1>9, <1>10
    <2>2. e[x - S] = Equals /\ e[x + 1 - S] = Quote
      BY <1>1, <1>7, <2>1
    <2> QED
      BY <1>3, <1>4, <1>6, <2>1, <2>2
  <1>11. CASE x + 1 = C
    <2>1. s \in 1..s /\ S + s = x
      <3>1. s >= 1
        BY <1>6, <1>7
      <3> QED
        BY <1>1, <1>2, <1>11, <3>1
    <2>2. Len(e) \in 1..Len(e) /\ S + Len(e) = x
      BY <1>7, <2>1
    <2>3. w[x] = e[Len(e)]
      BY <1>7, <2>2
    <2> QED
      BY <1>1, <1>8, <2>3
  <1>12. CASE x = C
    BY <1>1, <1>3, <1>12 DEF OnLine, LiesIn, C
  <1>13. CASE x > C
    <2>1. E = C + 2 /\ (x = C + 1 \/ x = C + 2)
      BY <1>1, <1>2, <1>13
    <2>2. w[C + 1] = Space /\ w[C + 2] = "0"
      <3>1. time # NoTime
        BY <1>2, <2>1 DEF End, C, E
      <3> QED
        BY <3>1 DEF OnLine, LiesIn, C
    <2> QED
      BY <1>1, <1>3, <2>1, <2>2
  <1> QED
    BY <1>1, <1>2, <1>10, <1>11, <1>12, <1>13

\* A step of the parser leaves a reader.
LEMMA ReadsIs ==
    ASSUME NEW w \in Seq(Sign), NEW r \in Reader, r.pos <= Len(w), NEW q, Reads(w, r, q)
    PROVE  q \in Reader
  <1>1. /\ r.pos \in Nat \ {0} /\ r.part \in Part \cup {"time"} /\ r.text \in Seq(Sign)
        /\ r.parts \in Seq(PartRead) /\ <<r.part, r.text>> \in PartRead
    BY DEF Reader, PartRead
  <1>2. w[r.pos] \in Sign /\ (r.pos < Len(w) => w[r.pos + 1] \in Sign) /\ Len(w) \in Nat
    BY <1>1
  <1>3. \A n \in {1, 2} : \A c \in Sign : Further(r, n, c) \in Reader
    BY <1>1 DEF Further, Reader
  <1>4. \A n \in {1, 2} : \A next \in Part \cup {"time"} : Turned(r, n, next) \in Reader
    BY <1>1 DEF Turned, Reader
  <1>5. "string" \in Part
    BY DEF Part
  <1>6. q \in {Further(r, n, c) : n \in {1, 2}, c \in Sign}
          \cup {Turned(r, n, next) : n \in {1, 2}, next \in Part \cup {"time"}}
    BY <1>2, <1>5 DEF Reads, Escapes
  <1> QED
    BY <1>3, <1>4, <1>6

\* A reader that is astray stays so, if the string does not end in a sign.
LEMMA AstrayStep ==
    ASSUME NEW T \in Texts, NEW time, NEW b \in Nat, NEW w, OnLine(w, T, time, b),
           End(T, time, b) < Len(w), T["string"] # <<>>, T["string"][Len(T["string"])] # Equals,
           NEW r, Astray(T, time, b, r), r.pos <= End(T, time, b),
           NEW q, Reads(w, r, q)
    PROVE  Astray(T, time, b, q)
  <1> DEFINE x == r.pos
             S == Begin(T, "string", b)
             E == End(T, time, b)
  <1>1. r \in Reader /\ x \in Nat /\ b < x /\ x <= E /\ x <= Len(w) /\ w \in Seq(Sign)
    BY EndIs DEF Astray, Reader, OnLine
  <1>2. S \in Nat /\ E \in Nat
    BY InOrder, EndIs DEF Part
  <1>3. w[S - 1] = Equals /\ w[S] = Quote /\ w[E] \in {Quote, "0"}
    BY LineChars DEF OnLine, LiesIn
  <1>4. q \in Reader
    BY <1>1, ReadsIs
  <1>5. \/ Escapes(w, r) /\ q = Further(r, 2, w[x + 1])
        \/ \E next \in Part \cup {"time"} : Cuts(w, r, next) /\ q = Turned(r, 1, next)
        \/ Opens(w, r) /\ q = Turned(r, 2, "string")
        \/ /\ ~Escapes(w, r) /\ ~Opens(w, r) /\ \A next \in Part \cup {"time"} : ~Cuts(w, r, next)
           /\ q = Further(r, 1, w[x])
    BY DEF Reads
  <1> HIDE DEF x, S, E
  \* It leaps over neither the opening quote nor the end of the line.
  <1>6. w[x] \in {Backslash, Equals} => x # E /\ x # S
    BY <1>3 DEF Quote, Backslash, Equals
  <1>7. w[x] = Backslash => x # S - 1
    BY <1>3 DEF Backslash, Equals
  <1>8. ASSUME NEW n \in {1, 2}, q.pos = x + n, n = 2 => w[x] \in {Backslash, Equals},
               q.part = "string" /\ S < x + n => InText(T, b, Like(T, q))
        PROVE  Astray(T, time, b, q)
    <2>1. b < x + n /\ x + n <= E + 1
      BY <1>1, <1>2, <1>6, <1>8
    <2> QED
      BY <1>4, <1>8, <2>1 DEF Astray, S, E
  <1>9. CASE \E next \in Part \cup {"time"} : Cuts(w, r, next) /\ q = Turned(r, 1, next)
    <2>1. PICK next \in Part \cup {"time"} : Cuts(w, r, next) /\ q = Turned(r, 1, next)
      BY <1>9
    <2>2. next # "string"
      BY <2>1 DEF Cuts, Cut
    <2>3. q.pos = x + 1 /\ q.part # "string"
      BY <2>1, <2>2 DEF Turned, x
    <2> QED
      BY <1>8, <2>3
  <1>10. CASE Opens(w, r) /\ q = Turned(r, 2, "string")
    <2>1. w[x] = Equals /\ w[x + 1] = Quote
      BY <1>10 DEF Opens, x
    <2>2. x < S
      BY <1>1, <2>1, NoSignBeforeQuote DEF E, S
    <2>3. q.pos = x + 2 /\ q.part = "string" /\ q.text = <<>>
      BY <1>10 DEF Turned, x
    <2>4. ASSUME S < x + 2 PROVE InText(T, b, Like(T, q))
      <3>1. x + 2 = S + 1
        BY <1>1, <1>2, <2>2, <2>4
      <3>2. Like(T, q) = [pos |-> S + 1, part |-> "string", text |-> <<>>, parts |-> Done(T, "string")]
        BY <2>3, <3>1 DEF Like
      <3> QED
        BY <3>2, BeginsPart DEF S, Part
    <2> QED
      BY <1>8, <2>1, <2>3, <2>4
  \* In the string it reads what is written.
  <1>11. ASSUME NEW n \in {1, 2}, NEW c, q = Further(r, n, c), n = 2 => w[x] = Backslash,
                x = S => n = 1 /\ r.part # "string",
                r.part = "string" => Reads(w, Like(T, r), Further(Like(T, r), n, c))
         PROVE  Astray(T, time, b, q)
    <2>1. q.pos = x + n /\ q.part = r.part
      BY <1>11 DEF Further, x
    <2>2. ASSUME q.part = "string", S < x + n
          PROVE  InText(T, b, Like(T, q))
      <3>1. S < x
        <4>1. r.part = "string" /\ (n = 1 \/ n = 2)
          BY <2>1, <2>2
        <4>2. x # S
          BY <1>11, <2>2, <4>1
        <4>3. n = 2 => x # S - 1
          BY <1>7, <1>11
        <4> QED
          BY <1>1, <1>2, <2>2, <4>1, <4>2, <4>3
      <3>2. InText(T, b, Like(T, r)) /\ Like(T, r).part = "string"
        BY <2>1, <2>2, <3>1 DEF Astray, Like, S, x
      <3>3. Like(T, q) = Further(Like(T, r), n, c)
        BY <1>11 DEF Like, Further
      <3>4. Reads(w, Like(T, r), Like(T, q))
        BY <1>11, <2>1, <2>2, <3>3
      <3>5. InStep(T, time, b, Like(T, q))
        BY <3>2, <3>4, TextStep DEF Sound
      <3>6. Like(T, q).part = "string"
        BY <2>2 DEF Like
      <3> QED
        BY <3>5, <3>6 DEF InStep, InTime, AtTime
    <2> QED
      BY <1>8, <1>11, <2>1, <2>2
  \* The parts read so far do not matter to the parser.
  <1>12. /\ Escapes(w, Like(T, r)) <=> Escapes(w, r)
         /\ Opens(w, Like(T, r)) <=> Opens(w, r)
         /\ \A next : Cuts(w, Like(T, r), next) <=> Cuts(w, r, next)
         /\ Like(T, r).pos = x
    BY DEF Escapes, Opens, Cuts, Like, x
  <1>13. CASE Escapes(w, r) /\ q = Further(r, 2, w[x + 1])
    <2>1. w[x] = Backslash
      BY <1>13 DEF Escapes, x
    <2>2. Reads(w, Like(T, r), Further(Like(T, r), 2, w[x + 1]))
      BY <1>12, <1>13 DEF Reads
    <2>3. x # S
      BY <1>6, <2>1
    <2> QED
      BY <1>11, <1>13, <2>1, <2>2, <2>3
  <1>14. CASE /\ ~Escapes(w, r) /\ ~Opens(w, r) /\ \A next \in Part \cup {"time"} : ~Cuts(w, r, next)
              /\ q = Further(r, 1, w[x])
    <2>1. Reads(w, Like(T, r), Further(Like(T, r), 1, w[x]))
      BY <1>12, <1>14 DEF Reads
    <2>2. x = S => r.part # "string"
      <3> SUFFICES ASSUME x = S, r.part = "string" PROVE FALSE
        OBVIOUS
      <3>1. <<r.part, w[x], "time">> \in Cut
        BY <1>3 DEF Cut
      <3>2. Cuts(w, r, "time")
        BY <3>1 DEF Cuts, x
      <3> QED
        BY <1>14, <3>2
    <2> QED
      BY <1>11, <1>14, <2>1, <2>2
  <1> QED
    BY <1>5, <1>9, <1>10, <1>13, <1>14

\* Where the two lines are in the body.
LEMMA BodyLines ==
    ASSUME NEW T \in Texts, NEW time, NEW w,
           w = write_line_protocol(T, time) \o <<NL>> \o write_line_protocol(Plain, NoTime)
    PROVE  /\ w \in Seq(Sign) /\ Plain \in Texts
           /\ OnLine(w, T, time, 0) /\ OnLine(w, Plain, NoTime, End(T, time, 0) + 1)
           /\ End(T, time, 0) < Len(w) /\ End(T, time, 0) \in Nat
           /\ End(Plain, NoTime, End(T, time, 0) + 1) = Len(w)
  <1> DEFINE wa == write_line_protocol(T, time)
             wb == write_line_protocol(Plain, NoTime)
             nl == <<NL>>
             h == wa \o nl
             n == End(T, time, 0)
  <1>1. Plain \in Texts
    <2>1. <<"a">> \in Seq(Char)
      BY DEF Char
    <2> QED
      BY <2>1 DEF Plain, Texts
  <1>2. /\ wa \in Seq(Sign) /\ Len(wa) = n /\ LiesIn(wa, T, time, 0)
        /\ wb \in Seq(Sign) /\ Len(wb) = End(Plain, NoTime, 0) /\ LiesIn(wb, Plain, NoTime, 0)
    BY <1>1, WrittenLiesIn
  <1>3. nl \in Seq(Sign) /\ Len(nl) = 1 /\ nl[1] = NL
    BY DEF Sign, Char
  <1>4. n \in Nat /\ 0 \in Nat /\ n + 1 \in Nat
    BY EndIs
  <1> HIDE DEF wa, wb, nl, n
  <1>5. Chained(h, wa, nl)
    BY <1>2, <1>3, Joined
  <1> HIDE DEF h
  <1>6. Chained(w, h, wb)
    <2>1. h \in Seq(Sign)
      BY <1>5 DEF Chained
    <2>2. w = h \o wb
      BY DEF h, wa, wb, nl
    <2> QED
      BY <1>2, <2>1, <2>2, Joined
  <1>7. /\ w \in Seq(Sign) /\ Len(h) = n + 1 /\ Len(w) = n + 1 + Len(wb) /\ Len(wb) \in Nat
        /\ \A i \in 1..n : w[i] = wa[i]
        /\ w[n + 1] = NL
        /\ \A i \in 1..Len(wb) : w[n + 1 + i] = wb[i]
    <2>1. /\ Len(h) = n + 1 /\ \A i \in 1..n : h[i] = wa[i]
      BY <1>2, <1>3, <1>5 DEF Chained
    <2>2. h[n + 1] = NL
      <3>1. 1 \in 1..Len(nl) /\ \A j \in 1..Len(nl) : h[Len(wa) + j] = nl[j]
        BY <1>3, <1>5 DEF Chained
      <3> QED
        BY <1>2, <1>3, <3>1
    <2>3. \A i \in 1..(n + 1) : w[i] = h[i]
      BY <1>6, <2>1 DEF Chained
    <2>4. n + 1 \in 1..(n + 1) /\ \A i \in 1..n : i \in 1..(n + 1)
      BY <1>4
    <2>5. /\ w \in Seq(Sign) /\ Len(w) = n + 1 + Len(wb) /\ Len(wb) \in Nat
          /\ \A i \in 1..Len(wb) : w[n + 1 + i] = wb[i]
      BY <1>6, <2>1 DEF Chained
    <2> QED
      BY <2>1, <2>2, <2>3, <2>4, <2>5
  <1>8. LiesIn(w, T, time, 0)
    <2>1. Shifted(w, 0, wa)
      <3>1. \A i \in 1..n : 0 + i = i /\ w[i] = wa[i]
        BY <1>4, <1>7
      <3>2. \A i \in 1..n : w[0 + i] = wa[i]
        BY <3>1
      <3> QED
        BY <1>2, <3>2 DEF Shifted
    <2>2. LiesIn(wa, T, time, 0) /\ Len(wa) = End(T, time, 0)
      BY <1>2 DEF n
    <2> QED
      BY <1>4, <2>1, <2>2, LiesFurther
  <1>9. LiesIn(w, Plain, NoTime, n + 1) /\ End(Plain, NoTime, n + 1) = n + 1 + Len(wb)
    <2>1. Shifted(w, n + 1, wb)
      BY <1>7 DEF Shifted
    <2>2. LiesIn(wb, Plain, NoTime, 0) /\ Len(wb) = End(Plain, NoTime, 0)
      BY <1>2
    <2> DEFINE k == n + 1
    <2>3. k \in Nat /\ Shifted(w, k, wb)
      BY <1>4, <2>1
    <2> HIDE DEF k
    <2>4. LiesIn(w, Plain, NoTime, k) /\ End(Plain, NoTime, k) = k + Len(wb)
      BY <1>1, <2>2, <2>3, LiesFurther
    <2> QED
      BY <2>4 DEF k
  <1>10. n < Len(w) /\ End(Plain, NoTime, n + 1) = Len(w)
    BY <1>4, <1>7, <1>9
  <1>11. OnLine(w, T, time, 0)
    BY <1>7, <1>8, <1>10, <1>4 DEF OnLine, n
  <1>12. OnLine(w, Plain, NoTime, n + 1)
    <2>1. Len(w) \in Nat
      BY <1>4, <1>7
    <2> QED
      BY <1>7, <1>9, <1>10, <2>1 DEF OnLine
  <1> QED
    BY <1>1, <1>4, <1>7, <1>10, <1>11, <1>12 DEF n

\* Where the server begins, and what it is given.
Start == [pos |-> 1, part |-> "measurement", text |-> <<>>, parts |-> <<>>]
TwoLines(T, time) == write_line_protocol(T, time) \o <<NL>> \o write_line_protocol(Plain, NoTime)

\* No backslash is taken for an escape, or the string does not end in a sign.
Tame(T) == Unspoilt(T) \/ T["string"][Len(T["string"])] # Equals
Along(T, time, r) == IF Unspoilt(T) THEN InStep(T, time, 0, r) ELSE Astray(T, time, 0, r)

\* How far the server is with the two lines.
Unread == status \in {"new", "panicked"} /\ lines = <<>> /\ (status = "new" => reader = Start)
InFirst ==
    /\ status = "sent" /\ lines = <<>> /\ body = TwoLines(texts, sent)
    /\ Along(texts, sent, reader)
FirstAsGiven == Unspoilt(texts) => lines[1] = Parts(texts, sent)
InSecond ==
    /\ status = "sent" /\ Len(lines) = 1 /\ lines = <<lines[1]>> /\ FirstAsGiven
    /\ body = TwoLines(texts, sent)
    /\ InStep(Plain, NoTime, End(texts, sent, 0) + 1, reader)
BothRead ==
    /\ status # "new" /\ lines = <<lines[1], Parts(Plain, NoTime)>> /\ FirstAsGiven
    /\ status = "sent" => reader.pos = Len(body) + 2

\* Whatever the texts are, unless a backslash is taken for an escape and an equals
\* sign ends the string, the server has read nothing, is in one of the lines, or has read both.
TextInv ==
    /\ texts \in Texts /\ \A part \in Part : texts[part] # <<>>
    /\ Tame(texts) => Unread \/ InFirst \/ InSecond \/ BothRead

\* The server begins in step with any line.
LEMMA StartIsBegun ==
    ASSUME NEW T \in Texts, NEW time
    PROVE  Along(T, time, Start) /\ Start \in Reader
  <1>1. Start \in Reader
    <2>1. 1 \in Nat \ {0} /\ "measurement" \in Part /\ <<>> \in Seq(Sign) /\ <<>> \in Seq(PartRead)
      BY DEF Part
    <2> QED
      BY <2>1 DEF Start, Reader
  <1>2. InStep(T, time, 0, Start)
    <2>1. "measurement" \in Part /\ 0 \in Nat /\ 0 + 1 = 1
      BY DEF Part
    <2>2. Begin(T, "measurement", 0) = 0
      BY <2>1, BeginIs
    <2>3. Done(T, "measurement") = <<>>
      BY DEF Done
    <2>4. Start = [pos |-> Begin(T, "measurement", 0) + 1, part |-> "measurement", text |-> <<>>,
                   parts |-> Done(T, "measurement")]
      BY <2>1, <2>2, <2>3 DEF Start
    <2> QED
      BY <2>1, <2>4, BeginsPart DEF InStep
  <1>3. Astray(T, time, 0, Start)
    <2>1. Start.pos = 1 /\ Start.part = "measurement" /\ 0 \in Nat
      BY DEF Start
    <2>2. End(T, time, 0) \in Nat
      BY <2>1, EndIs
    <2>3. 0 < 1 /\ 1 <= End(T, time, 0) + 1
      BY <2>2
    <2> QED
      BY <1>1, <2>1, <2>3 DEF Astray
  <1> QED
    BY <1>1, <1>2, <1>3 DEF Along

\* The two lines in the body, and the newline between them.
LEMMA TwoLinesIs ==
    ASSUME NEW T \in Texts, NEW time, NEW w, w = TwoLines(T, time), NEW e, e = End(T, time, 0)
    PROVE  /\ w \in Seq(Sign) /\ Plain \in Texts /\ Len(w) \in Nat /\ e \in Nat /\ 0 \in Nat
           /\ OnLine(w, T, time, 0) /\ OnLine(w, Plain, NoTime, e + 1)
           /\ e < Len(w) /\ End(Plain, NoTime, e + 1) = Len(w) /\ w[e + 1] = NL
           /\ \A x \in Nat : 0 < x /\ x <= e => w[x] # NL
           /\ \A x \in Nat : e + 1 < x /\ x <= Len(w) => w[x] # NL
           /\ w[Len(w)] # Equals
  <1>1. /\ w \in Seq(Sign) /\ Plain \in Texts
        /\ OnLine(w, T, time, 0) /\ OnLine(w, Plain, NoTime, e + 1)
        /\ e < Len(w) /\ e \in Nat /\ End(Plain, NoTime, e + 1) = Len(w)
    BY BodyLines DEF TwoLines
  <1>2. 0 \in Nat /\ e + 1 \in Nat
    BY <1>1
  <1>3. \A x \in Nat : 0 < x /\ x <= e => w[x] # NL
    BY <1>1, <1>2, LineChars
  <1>4. /\ \A x \in Nat : e + 1 < x /\ x <= Len(w) => w[x] # NL
        /\ w[Len(w)] \in {Quote, "0"} /\ Len(w) \in Nat
    <2>1. \A x \in Nat : e + 1 < x /\ x <= End(Plain, NoTime, e + 1) => w[x] # NL
      BY <1>1, <1>2, LineChars
    <2>2. w[End(Plain, NoTime, e + 1)] \in {Quote, "0"}
      BY <1>1, <1>2, LineChars
    <2>3. Len(w) \in Nat
      BY <1>1
    <2> QED
      BY <1>1, <2>1, <2>2, <2>3
  <1>5. w[e + 1] = NL
    BY <1>1 DEF OnLine
  <1>6. Equals \notin {Quote, "0"}
    BY DEF Equals, Quote
  <1> QED
    BY <1>1, <1>2, <1>3, <1>4, <1>5, <1>6

\* No text of the second line has a backslash.
LEMMA PlainIs ==
    Unspoilt(Plain)
  <1>1. \A part \in Part : Plain[part] = <<"a">> /\ Len(<<"a">>) = 1 /\ <<"a">>[1] = "a"
    BY DEF Plain
  <1>2. "a" # Backslash
    BY DEF Backslash
  <1> QED
    BY <1>1, <1>2 DEF Unspoilt, Sound

\* Where a reader of the first line is.
LEMMA AlongPlace ==
    ASSUME NEW T \in Texts, NEW time, NEW w, OnLine(w, T, time, 0), End(T, time, 0) < Len(w),
           NEW r, Along(T, time, r)
    PROVE  /\ r \in Reader /\ r.pos \in Nat /\ 0 < r.pos /\ r.pos <= End(T, time, 0) + 1
           /\ r.part = "string" => r.pos <= End(T, time, 0)
           /\ Unspoilt(T) /\ r.pos = End(T, time, 0) + 1 =>
                Append(r.parts, <<r.part, r.text>>) = Parts(T, time)
  <1>0. 0 \in Nat /\ "string" \in Part
    BY DEF Part
  <1>1. /\ End(T, time, 0) \in Nat /\ Close(T, 0) \in Nat /\ Close(T, 0) <= End(T, time, 0)
    BY <1>0, EndIs
  <1>2. r \in Reader => r.pos \in Nat
    BY DEF Reader
  <1>3. CASE Unspoilt(T)
    <2>1. InStep(T, time, 0, r)
      BY <1>3 DEF Along
    <2>2. /\ r \in Reader /\ 0 < r.pos /\ r.pos <= End(T, time, 0) + 1
          /\ r.part \in Part => r.pos <= Close(T, 0)
          /\ r.pos = End(T, time, 0) + 1 => Append(r.parts, <<r.part, r.text>>) = Parts(T, time)
      BY <1>0, <2>1, InStepPlace
    <2>3. r.part = "string" => r.pos <= End(T, time, 0)
      BY <1>0, <1>1, <1>2, <2>2
    <2> QED
      BY <1>2, <2>2, <2>3
  <1>4. CASE ~Unspoilt(T)
    <2>1. Astray(T, time, 0, r)
      BY <1>4 DEF Along
    <2>2. r \in Reader /\ 0 < r.pos /\ r.pos <= End(T, time, 0) + 1
      BY <2>1 DEF Astray
    <2>3. ASSUME r.part = "string", Begin(T, "string", 0) < r.pos PROVE r.pos <= End(T, time, 0)
      <3>1. InStep(T, time, 0, Like(T, r))
        BY <2>1, <2>3 DEF Astray, InStep
      <3>2. Like(T, r).part = "string" /\ Like(T, r).pos = r.pos
        BY <2>3 DEF Like
      <3>3. Like(T, r).part \in Part => Like(T, r).pos <= Close(T, 0)
        BY <1>0, <3>1, InStepPlace
      <3> QED
        BY <1>0, <1>1, <1>2, <2>2, <3>2, <3>3
    <2>4. Begin(T, "string", 0) \in Nat /\ Begin(T, "string", 0) <= End(T, time, 0)
      <3>1. Begin(T, "string", 0) \in Nat /\ Begin(T, "string", 0) < Close(T, 0)
        BY <1>0, InOrder
      <3> QED
        BY <1>1, <3>1
    <2>5. r.part = "string" => r.pos <= End(T, time, 0)
      BY <1>1, <1>2, <2>2, <2>3, <2>4
    <2> QED
      BY <1>2, <1>4, <2>2, <2>5
  <1> QED
    BY <1>3, <1>4

\* The server stays in the first line until that ends.
LEMMA AlongStep ==
    ASSUME NEW T \in Texts, Tame(T), \A part \in Part : T[part] # <<>>, NEW time,
           NEW w, OnLine(w, T, time, 0), End(T, time, 0) < Len(w),
           NEW r, Along(T, time, r), r.pos <= End(T, time, 0), NEW q, Reads(w, r, q)
    PROVE  Along(T, time, q)
  <1>0. 0 \in Nat /\ T["string"] # <<>>
    BY DEF Part
  <1>1. CASE Unspoilt(T)
    BY <1>0, <1>1, StepInStep DEF Along
  <1>2. CASE ~Unspoilt(T)
    <2>1. T["string"][Len(T["string"])] # Equals
      BY <1>2 DEF Tame
    <2> QED
      BY <1>0, <1>2, <2>1, AstrayStep DEF Along
  <1> QED
    BY <1>1, <1>2

\* The first state has read nothing.
LEMMA TextInvInit ==
    ASSUME TripInit
    PROVE  TextInv
  <1>1. \A s \in BoundedSeq(Char, Longest) : s \in Seq(Char)
    <2>1. \A m \in 0..Longest : \A s \in [1..m -> Char] : s \in Seq(Char)
      <3> TAKE m \in 0..Longest
      <3>1. m \in Nat
        BY TripAssumption
      <3> QED
        BY <3>1
    <2> QED
      BY <2>1 DEF BoundedSeq, SeqOf
  <1>2. <<"a">> \in Seq(Char) /\ <<"a">> # <<>>
    BY DEF Char
  <1>3. Plain \in Texts /\ \A part \in Part : Plain[part] # <<>>
    BY <1>2 DEF Plain, Texts
  <1>4. texts \in Texts /\ \A part \in Part : texts[part] # <<>>
    <2>1. CASE texts = Plain
      BY <1>3, <2>1
    <2>2. CASE \E p, q \in Part, text, other \in BoundedSeq(Char, Longest) \ {<<>>} :
                 texts = [Plain EXCEPT ![p] = text, ![q] = other]
      <3>1. PICK p, q \in Part, text, other \in BoundedSeq(Char, Longest) \ {<<>>} :
                 texts = [Plain EXCEPT ![p] = text, ![q] = other]
        BY <2>2
      <3>2. text \in Seq(Char) /\ other \in Seq(Char) /\ text # <<>> /\ other # <<>>
        BY <1>1
      <3>3. texts = [part \in Part |-> IF part = q THEN other ELSE IF part = p THEN text ELSE Plain[part]]
        BY <3>1 DEF Plain
      <3> QED
        BY <1>3, <3>2, <3>3 DEF Texts
    <2> QED
      BY <2>1, <2>2 DEF TripInit
  <1>5. Unread
    BY DEF TripInit, Unread, Start
  <1> QED
    BY <1>4, <1>5 DEF TextInv

\* A line that is written is about to be read.
LEMMA WriteText ==
    ASSUME texts \in Texts, Unread, Write
    PROVE  Unread' \/ InFirst'
  <1>1. status = "new" /\ lines' = <<>> /\ reader' = Start /\ texts' = texts
    BY DEF Write, Unread, line
  <1>2. CASE status' = "panicked"
    BY <1>1, <1>2 DEF Unread
  <1>3. CASE status' = "sent" /\ body' = TwoLines(texts, sent')
    <2>1. Along(texts', sent', reader')
      BY <1>1, StartIsBegun
    <2> QED
      BY <1>1, <1>3, <2>1 DEF InFirst
  <1> QED
    BY <1>2, <1>3 DEF Write, TwoLines

\* Reading a character of the first line ends nothing.
LEMMA ReadFirst ==
    ASSUME texts \in Texts, \A part \in Part : texts[part] # <<>>, Tame(texts), InFirst, ReadChar
    PROVE  InFirst'
  <1> DEFINE e == End(texts, sent, 0)
  <1>1. /\ body \in Seq(Sign) /\ Len(body) \in Nat /\ e \in Nat /\ OnLine(body, texts, sent, 0)
        /\ e < Len(body) /\ body[e + 1] = NL /\ body[Len(body)] # Equals
    BY TwoLinesIs DEF InFirst
  <1>2. /\ reader \in Reader /\ reader.pos \in Nat /\ reader.pos <= e + 1
        /\ reader.part = "string" => reader.pos <= e
    BY <1>1, AlongPlace DEF InFirst
  <1>3. Reads(body, reader, reader') /\ (body[reader.pos] # NL \/ reader.part = "string")
    BY <1>1, <1>2, ReadCharReads
  <1> HIDE DEF e
  <1>4. reader.pos <= e
    <2>1. reader.pos = e + 1 => reader.part = "string"
      BY <1>1, <1>3
    <2> QED
      BY <1>1, <1>2, <2>1
  <1>5. Along(texts, sent, reader')
    BY <1>1, <1>3, <1>4, AlongStep DEF InFirst, e
  <1> QED
    BY <1>5 DEF ReadChar, InFirst, line

\* The first line ends where it was written to, and the second begins.
LEMMA EndFirst ==
    ASSUME texts \in Texts, InFirst, EndLine
    PROVE  InSecond'
  <1> DEFINE e == End(texts, sent, 0)
  <1>1. /\ body \in Seq(Sign) /\ Len(body) \in Nat /\ e \in Nat /\ OnLine(body, texts, sent, 0)
        /\ e < Len(body) /\ Plain \in Texts /\ \A x \in Nat : 0 < x /\ x <= e => body[x] # NL
    BY TwoLinesIs DEF InFirst
  <1>2. /\ reader \in Reader /\ reader.pos \in Nat /\ 0 < reader.pos /\ reader.pos <= e + 1
        /\ Unspoilt(texts) /\ reader.pos = e + 1 => Ended = Parts(texts, sent)
    BY <1>1, AlongPlace DEF InFirst, Ended
  <1> HIDE DEF e
  <1>3. reader.pos = e + 1
    BY <1>1, <1>2 DEF EndLine, AtLineEnd
  <1>4. /\ lines' = <<Ended>> /\ reader' = [pos |-> e + 1 + 1, part |-> "measurement", text |-> <<>>, parts |-> <<>>]
    BY <1>3 DEF EndLine, InFirst
  <1>5. InStep(Plain, NoTime, e + 1, reader')
    <2>1. e + 1 \in Nat /\ "measurement" \in Part
      BY <1>1 DEF Part
    <2>2. Begin(Plain, "measurement", e + 1) = e + 1 /\ Done(Plain, "measurement") = <<>>
      BY <1>1, <2>1, BeginIs DEF Done
    <2>3. reader' = [pos |-> Begin(Plain, "measurement", e + 1) + 1, part |-> "measurement", text |-> <<>>,
                     parts |-> Done(Plain, "measurement")]
      BY <1>4, <2>2
    <2> QED
      BY <1>1, <2>1, <2>3, BeginsPart DEF InStep
  <1>6. Unspoilt(texts) => lines'[1] = Parts(texts, sent)
    BY <1>2, <1>3, <1>4
  <1> QED
    BY <1>4, <1>5, <1>6 DEF EndLine, InFirst, InSecond, FirstAsGiven, line, e

\* Reading a character of the second line ends nothing.
LEMMA ReadSecond ==
    ASSUME texts \in Texts, InSecond, ReadChar
    PROVE  InSecond'
  <1> DEFINE e == End(texts, sent, 0)
  <1>1. /\ body \in Seq(Sign) /\ Len(body) \in Nat /\ e + 1 \in Nat /\ OnLine(body, Plain, NoTime, e + 1)
        /\ End(Plain, NoTime, e + 1) = Len(body) /\ body[Len(body)] # Equals /\ Plain \in Texts
    BY TwoLinesIs DEF InSecond
  <1>2. reader \in Reader
    BY <1>1, InStepPlace DEF InSecond
  <1>3. Reads(body, reader, reader') /\ reader.pos <= Len(body)
    BY <1>1, <1>2, ReadCharReads
  <1>4. InStep(Plain, NoTime, e + 1, reader')
    <2>1. InStep(Plain, NoTime, e + 1, reader)
      BY DEF InSecond
    <2> HIDE DEF e
    <2> QED
      BY <1>1, <1>3, <2>1, PlainIs, StepInStep
  <1> QED
    BY <1>4 DEF ReadChar, InSecond, FirstAsGiven, line

\* The second line ends with the body, and was read as it was written.
LEMMA EndSecond ==
    ASSUME texts \in Texts, InSecond, EndLine
    PROVE  BothRead'
  <1> DEFINE e == End(texts, sent, 0)
  <1>1. /\ body \in Seq(Sign) /\ Len(body) \in Nat /\ e + 1 \in Nat /\ OnLine(body, Plain, NoTime, e + 1)
        /\ End(Plain, NoTime, e + 1) = Len(body) /\ Plain \in Texts
        /\ \A x \in Nat : e + 1 < x /\ x <= Len(body) => body[x] # NL
    BY TwoLinesIs DEF InSecond
  <1>2. /\ reader \in Reader /\ e + 1 < reader.pos /\ reader.pos <= Len(body) + 1
        /\ reader.pos = Len(body) + 1 => Ended = Parts(Plain, NoTime)
    BY <1>1, InStepPlace DEF InSecond, Ended
  <1>3. reader.pos \in Nat
    BY <1>2 DEF Reader
  <1> HIDE DEF e
  <1>4. reader.pos = Len(body) + 1
    BY <1>1, <1>2, <1>3 DEF EndLine, AtLineEnd
  <1>5. lines' = <<lines[1], Parts(Plain, NoTime)>>
    <2>1. lines' = Append(<<lines[1]>>, Parts(Plain, NoTime))
      BY <1>2, <1>4 DEF EndLine, InSecond
    <2> QED
      BY <2>1, ListOf2
  <1>6. lines'[1] = lines[1] /\ lines' = <<lines'[1], Parts(Plain, NoTime)>>
    BY <1>5
  <1>7. reader'.pos = Len(body') + 2
    BY <1>1, <1>4 DEF EndLine
  <1> QED
    BY <1>6, <1>7 DEF EndLine, InSecond, BothRead, FirstAsGiven, line

\* Every step keeps the server with the two lines.
LEMMA TextInvStep ==
    ASSUME TextInv, [TripNext]_tripVars
    PROVE  TextInv'
  <1>1. texts' = texts /\ texts \in Texts /\ \A part \in Part : texts[part] # <<>>
    BY DEF TextInv, TripNext, Write, ReadChar, EndLine, Store, Query, tripVars, line
  <1>2. SUFFICES ASSUME Tame(texts)
                 PROVE  Unread' \/ InFirst' \/ InSecond' \/ BothRead'
    BY <1>1 DEF TextInv
  <1>3. Unread \/ InFirst \/ InSecond \/ BothRead
    BY <1>2 DEF TextInv
  <1>4. CASE Write
    <2>1. Unread
      BY <1>3, <1>4 DEF Write, InFirst, InSecond, BothRead
    <2> QED
      BY <1>1, <1>4, <2>1, WriteText
  <1>5. BothRead /\ status = "sent" => Len(lines) = 2
    BY DEF BothRead
  <1>6. CASE ReadChar
    <2>1. ~Unread
      BY <1>6 DEF ReadChar, Unread
    <2>2. ~BothRead
      BY <1>6 DEF ReadChar, BothRead
    <2> QED
      BY <1>1, <1>2, <1>3, <1>6, <2>1, <2>2, ReadFirst, ReadSecond
  <1>7. CASE EndLine
    <2>1. ~Unread
      BY <1>7 DEF EndLine, Unread
    <2>2. ~BothRead
      BY <1>7 DEF EndLine, AtLineEnd, BothRead
    <2> QED
      BY <1>1, <1>3, <1>7, <2>1, <2>2, EndFirst, EndSecond
  <1>8. CASE Store
    <2>1. status = "sent" /\ reader.pos > Len(body) + 1
      BY <1>8 DEF Store
    <2>2. ~InFirst
      <3> SUFFICES ASSUME InFirst PROVE FALSE
        OBVIOUS
      <3> DEFINE e == End(texts, sent, 0)
      <3>1. /\ OnLine(body, texts, sent, 0) /\ e < Len(body) /\ Len(body) \in Nat /\ e \in Nat
        BY <1>1, TwoLinesIs DEF InFirst
      <3>2. reader.pos \in Nat /\ reader.pos <= e + 1
        BY <1>1, <3>1, AlongPlace DEF InFirst
      <3> HIDE DEF e
      <3> QED
        BY <2>1, <3>1, <3>2
    <2>3. ~InSecond
      <3> SUFFICES ASSUME InSecond PROVE FALSE
        OBVIOUS
      <3> DEFINE e == End(texts, sent, 0)
      <3>1. /\ Plain \in Texts /\ OnLine(body, Plain, NoTime, e + 1) /\ e + 1 \in Nat
            /\ End(Plain, NoTime, e + 1) = Len(body) /\ Len(body) \in Nat
        BY <1>1, TwoLinesIs DEF InSecond
      <3>2. reader \in Reader /\ reader.pos <= Len(body) + 1
        BY <3>1, InStepPlace DEF InSecond
      <3>3. reader.pos \in Nat
        BY <3>2 DEF Reader
      <3> QED
        BY <2>1, <3>1, <3>2, <3>3
    <2>4. BothRead
      BY <1>3, <2>1, <2>2, <2>3 DEF Unread
    <2>5. status' \in {"stored", "rejected"} /\ UNCHANGED <<texts, sent, lines>>
      BY <1>8 DEF Store, line
    <2> QED
      BY <2>4, <2>5 DEF BothRead, FirstAsGiven
  <1>9. CASE Query
    <2>1. status = "stored" /\ status' \in {"read", "panicked"} /\ UNCHANGED <<texts, sent, lines>>
      BY <1>9 DEF Query, line
    <2>2. BothRead
      BY <1>3, <2>1 DEF Unread, InFirst, InSecond
    <2> QED
      BY <2>1, <2>2 DEF BothRead, FirstAsGiven
  <1>10. CASE UNCHANGED tripVars
    BY <1>3, <1>10 DEF tripVars, Unread, InFirst, InSecond, BothRead, FirstAsGiven
  <1> QED
    BY <1>4, <1>6, <1>7, <1>8, <1>9, <1>10 DEF TripNext

\* The server is in step with every line whose texts a backslash does not spoil,
\* and if the string does not end in an equals sign it leaves even a spoilt line
\* where that ends (Point::write_line_protocol, escape_with).
THEOREM TextInvariance == TripSpec => []TextInv
  <1>1. TripInit => TextInv
    BY TextInvInit
  <1>2. TextInv /\ [TripNext]_tripVars => TextInv'
    BY TextInvStep
  <1> QED
    BY <1>1, <1>2, PTL DEF TripSpec

\* The exception of TextReadBack, in the words of the proof.
LEMMA StrayBackslashIs ==
    ASSUME texts \in Texts
    PROVE  ~StrayBackslash <=> Unspoilt(texts)
  <1>1. \A p \in Part : DOMAIN texts[p] = 1..Len(texts[p]) /\ Len(texts[p]) \in Nat
    BY DEF Texts
  <1>2. ASSUME NEW p \in Part \ {"string"}
        PROVE  Sound(texts, p) <=> \A i \in DOMAIN texts[p] :
                 ~(/\ texts[p][i] = Backslash
                   /\ i < Len(texts[p]) => texts[p][i + 1] \in needs_escape(p) \cup {Backslash})
    BY <1>1 DEF Sound
  <1>3. Sound(texts, "string")
    BY DEF Sound
  <1> QED
    BY <1>2, <1>3 DEF StrayBackslash, Unspoilt

\* The server reads in each place of a line the text that the caller gave for it
\* (escape_measurement, escape_tag, escape_string_field): for texts of any length.
THEOREM TextIsReadBack == TripSpec => []TextReadBack
  <1>1. TextInv => TextReadBack
    <2> SUFFICES ASSUME TextInv, lines # <<>>, ~StrayBackslash
                 PROVE  lines[1] = Parts(texts, sent)
      BY DEF TextReadBack
    <2>1. Unspoilt(texts)
      BY StrayBackslashIs DEF TextInv
    <2>2. InSecond \/ BothRead
      BY <2>1 DEF TextInv, Tame, Unread, InFirst
    <2> QED
      BY <2>1, <2>2 DEF InSecond, BothRead, FirstAsGiven
  <1> QED
    BY <1>1, TextInvariance, PTL

\* No text reaches past its own line, and the next line is read as it was written
\* (tag_needs_escape, string_field_needs_escape): for texts of any length.
THEOREM NextLineStaysIntact == TripSpec => []NextLineIntact
  <1>1. TextInv => NextLineIntact
    <2> SUFFICES ASSUME TextInv, ~StrayBackslash \/ Last(texts["string"]) # Equals
                 PROVE  /\ Len(lines) <= 2
                        /\ Len(lines) = 2 => lines[2] = Parts(Plain, NoTime)
                        /\ status = "stored" => Len(lines) = 2
      BY DEF NextLineIntact
    <2>1. Tame(texts)
      BY StrayBackslashIs DEF TextInv, Tame, Last
    <2>2. CASE Unread
      BY <2>2 DEF Unread
    <2>3. CASE InFirst
      BY <2>3 DEF InFirst
    <2>4. CASE InSecond
      BY <2>4 DEF InSecond
    <2>5. CASE BothRead
      <3>1. Len(lines) = 2 /\ lines[2] = Parts(Plain, NoTime)
        BY <2>5 DEF BothRead
      <3> QED
        BY <3>1
    <2> QED
      BY <2>1, <2>2, <2>3, <2>4, <2>5 DEF TextInv
  <1> QED
    BY <1>1, TextInvariance, PTL
=============================================================================

------------------------ MODULE DataFrameWriterProofs -------------------------
(***************************************************************************)
(* Proofs about DataFrameWriter, for frames of any height and any columns, *)
(* whatever is null, in slices of any size.  In a slice each iterator has  *)
(* yielded as many cells as there are rows behind (InStep); so a row is    *)
(* read from its own cells, and what is written so far are the rows with a *)
(* field among those that were passed.                                     *)
(***************************************************************************)
EXTENDS DataFrameWriter, DataLemmas, FiniteSetTheorems

Part == Lines \cup {NewLine}

FrameTypeOK ==
    /\ height \in Nat
    /\ present \in [Column -> SUBSET (1..height)]
    /\ chunk \in Nat \ {0}
    /\ start \in Nat
    /\ row_idx \in Nat \cup {-1}
    /\ cursor \in [Iterated -> Nat]
    /\ buf \in Seq(Part)
    /\ batches \in Seq(Seq(Part))

\* No iterator is ahead of its row or behind it, whether rows were dropped or not.
InStep == row_idx # -1 =>
    /\ start < height
    /\ row_idx <= Height
    /\ \A col \in Iterated : cursor[col] = row_idx

\* What is in `buf` are lines of this slice.
OfThisSlice ==
    /\ row_idx = -1 => buf = <<>>
    /\ row_idx # -1 => Len(LinesOf(buf)) <= row_idx

FrameInv == FrameTypeOK /\ InStep /\ OfThisSlice /\ BodiesWellFormed /\ FrameWritten

\* The lines are those of the rows in kept, in the order of the rows.
InOrder(lines, kept) ==
    /\ Len(lines) = Cardinality(kept)
    /\ \A r \in kept : lines[Cardinality({s \in kept : s <= r})] = Wanted(r)

-----------------------------------------------------------------------------
(* Lines and newlines                                                      *)

LEMMA LinesOfBody ==
    ASSUME NEW body \in Seq(Part)
    PROVE  /\ LinesOf(body) \in Seq(Part)
           /\ Len(LinesOf(body)) = (Len(body) + 1) \div 2
  <1> DEFINE n == (Len(body) + 1) \div 2
  <1>1. n \in Nat /\ \A i \in 1..n : 2 * i - 1 \in 1..Len(body)
    OBVIOUS
  <1>2. LinesOf(body) = [i \in 1..n |-> body[2 * i - 1]]
    BY DEF LinesOf
  <1> HIDE DEF n
  <1>3. \A i \in 1..n : body[2 * i - 1] \in Part
    BY <1>1
  <1>4. LinesOf(body) \in [1..n -> Part]
    BY <1>2, <1>3
  <1> QED
    BY <1>1, <1>2, <1>4 DEF n

LEMMA NoLines == LinesOf(<<>>) = <<>>
  <1>1. <<>> \in Seq(Part) /\ Len(<<>>) = 0 /\ (0 + 1) \div 2 = 0
    OBVIOUS
  <1>2. LinesOf(<<>>) \in Seq(Part) /\ Len(LinesOf(<<>>)) = 0
    BY <1>1, LinesOfBody
  <1> QED
    BY <1>2

\* A body that is not empty ends in a line, which stands at an odd place.
LEMMA OddLength ==
    ASSUME NEW body \in Seq(Part), WellFormed(body), body # <<>>
    PROVE  \E k \in Nat : Len(body) = 2 * k + 1
  <1>1. Len(body) \in Nat \ {0} /\ Len(body) \in DOMAIN body
    OBVIOUS
  <1>2. Len(body) % 2 # 0
    BY <1>1 DEF WellFormed, Last
  <1>3. Len(body) = 2 * (Len(body) \div 2) + 1 /\ Len(body) \div 2 \in Nat
    BY <1>1, <1>2
  <1> QED
    BY <1>3

\* What WriteRow adds to `buf`.
Longer(body, line) == (IF Len(body) > 0 THEN Append(body, NewLine) ELSE body) \o <<line>>

LEMMA OneMoreLine ==
    ASSUME NEW body \in Seq(Part), WellFormed(body), NEW line \in Lines
    PROVE  /\ Longer(body, line) \in Seq(Part)
           /\ WellFormed(Longer(body, line))
           /\ LinesOf(Longer(body, line)) = Append(LinesOf(body), line)
           /\ SubSeq(Longer(body, line), 1, Len(body)) = body
  <1> DEFINE longer == Longer(body, line)
             lines == LinesOf(body)
  <1>1. line \in Part /\ NewLine \in Part /\ line # NewLine
    BY ConstantsAssumption DEF Part
  <1>2. longer \in Seq(Part)
    BY <1>1 DEF Longer
  <1>3. lines \in Seq(Part) /\ Len(lines) = (Len(body) + 1) \div 2
    BY LinesOfBody
  <1>4. CASE Len(body) = 0
    <2>1. body = <<>> /\ longer = <<line>>
      BY <1>1, <1>4 DEF Longer
    <2>2. WellFormed(<<line>>)
      BY <1>1 DEF WellFormed, Last
    <2>3. LinesOf(<<line>>) = <<line>>
      <3>1. (Len(<<line>>) + 1) \div 2 = 1
        OBVIOUS
      <3>2. LinesOf(<<line>>) = [i \in 1..1 |-> <<line>>[2 * i - 1]]
        BY <3>1 DEF LinesOf
      <3>3. \A i \in 1..1 : <<line>>[2 * i - 1] = <<line>>[i]
        OBVIOUS
      <3> QED
        BY <3>2, <3>3
    <2>4. lines = <<>>
      BY <1>3, <2>1
    <2>5. SubSeq(longer, 1, 0) = <<>>
      BY <1>2, SubSeqEmpty
    <2>6. LinesOf(longer) = Append(lines, line)
      <3>1. Append(<<>>, line) = <<line>>
        BY <1>1
      <3> QED
        BY <2>1, <2>3, <2>4, <3>1
    <2>7. SubSeq(longer, 1, Len(body)) = body
      BY <1>4, <2>1, <2>5
    <2> QED
      BY <1>2, <2>1, <2>2, <2>6, <2>7
  <1>5. CASE Len(body) # 0
    <2>1. PICK k \in Nat : Len(body) = 2 * k + 1
      BY <1>5, OddLength
    <2>2. /\ Len(longer) = 2 * k + 3
          /\ \A i \in 1..(2 * k + 1) : longer[i] = body[i]
          /\ longer[2 * k + 2] = NewLine
          /\ longer[2 * k + 3] = line
      <3> DEFINE cut == Append(body, NewLine)
      <3>1. longer = cut \o <<line>>
        <4>1. Len(body) > 0
          BY <2>1
        <4> QED
          BY <4>1 DEF Longer
      <3>2. /\ cut \in Seq(Part) /\ Len(cut) = 2 * k + 2
            /\ \A i \in 1..(2 * k + 1) : cut[i] = body[i]
            /\ cut[2 * k + 2] = NewLine
        BY <1>1, <2>1
      <3> HIDE DEF cut, longer
      <3>3. \A i \in 1..(2 * k + 2) : longer[i] = cut[i]
        BY <1>1, <3>1, <3>2
      <3>4. Len(longer) = 2 * k + 3 /\ longer[2 * k + 3] = line
        BY <1>1, <3>1, <3>2
      <3> QED
        BY <3>2, <3>3, <3>4
    <2> HIDE DEF longer, lines
    <2>3. WellFormed(longer)
      <3>1. ASSUME NEW i \in 1..(2 * k + 3)
            PROVE  longer[i] = NewLine <=> i % 2 = 0
        <4>1. i \in 1..(2 * k + 1) \/ i = 2 * k + 2 \/ i = 2 * k + 3
          OBVIOUS
        <4>2. CASE i \in 1..(2 * k + 1)
          BY <2>1, <2>2, <4>2 DEF WellFormed
        <4>3. CASE i = 2 * k + 2
          BY <2>2, <4>3
        <4>4. CASE i = 2 * k + 3
          <5>1. i % 2 = 1
            BY <4>4
          <5> QED
            BY <1>1, <2>2, <4>4, <5>1
        <4> QED
          BY <4>1, <4>2, <4>3, <4>4
      <3>2. DOMAIN longer = 1..(2 * k + 3) /\ Last(longer) = line
        BY <1>2, <2>2 DEF Last
      <3> QED
        BY <1>1, <3>1, <3>2 DEF WellFormed
    <2>4. LinesOf(longer) = Append(lines, line)
      <3>1. LinesOf(longer) \in Seq(Part) /\ Len(LinesOf(longer)) = k + 2
        <4>1. ((2 * k + 3) + 1) \div 2 = k + 2
          OBVIOUS
        <4> QED
          BY <1>2, <2>2, <4>1, LinesOfBody
      <3>2. lines \in Seq(Part) /\ Len(lines) = k + 1
        BY <1>3, <2>1
      <3>3. Append(lines, line) \in Seq(Part) /\ Len(Append(lines, line)) = k + 2
        BY <1>1, <3>2
      <3>4. ASSUME NEW i \in 1..(k + 2)
            PROVE  LinesOf(longer)[i] = Append(lines, line)[i]
        <4>1. LinesOf(longer)[i] = longer[2 * i - 1]
          BY <2>2, <3>1 DEF LinesOf
        <4>2. CASE i = k + 2
          <5>1. 2 * i - 1 = 2 * k + 3
            BY <4>2
          <5> QED
            BY <2>2, <3>2, <4>1, <4>2, <5>1
        <4>3. CASE i # k + 2
          <5>1. i \in 1..(k + 1) /\ 2 * i - 1 \in 1..(2 * k + 1)
            BY <4>3
          <5>2. lines[i] = body[2 * i - 1]
            BY <2>1, <3>2, <5>1 DEF LinesOf, lines
          <5> QED
            BY <2>2, <3>2, <4>1, <5>1, <5>2
        <4> QED
          BY <4>2, <4>3
      <3> QED
        BY <3>1, <3>3, <3>4
    <2>5. SubSeq(longer, 1, Len(body)) = body
      <3> DEFINE cut == SubSeq(longer, 1, 2 * k + 1)
      <3>1. /\ cut \in Seq(Part) /\ Len(cut) = 2 * k + 1
            /\ \A i \in 1..(2 * k + 1) : cut[i] = longer[i]
        BY <1>2, <2>2
      <3> HIDE DEF cut
      <3>2. cut = body
        BY <2>1, <2>2, <3>1
      <3> QED
        BY <2>1, <3>2 DEF cut
    <2> QED
      BY <1>2, <2>3, <2>4, <2>5 DEF longer, lines
  <1> QED
    BY <1>4, <1>5

-----------------------------------------------------------------------------
(* Rows                                                                    *)

\* A row is read from its own cells.
LEMMA LineIsWanted ==
    ASSUME FrameTypeOK, InStep, row_idx \in 0..(Height - 1)
    PROVE  /\ Passed = start + row_idx
           /\ Line = Wanted(Passed + 1)
           /\ Line \in Lines
           /\ NoField <=> ~ \E col \in Fields : Passed + 1 \in present[col]
  <1>1. Passed = start + row_idx /\ Passed + 1 \in Nat
    BY DEF FrameTypeOK, Passed
  <1>2. \A col \in Column : RowRead(col) = Passed + 1
    <2>1. row_idx \in Nat /\ row_idx # -1 /\ start \in Nat
      BY DEF FrameTypeOK
    <2>2. \A col \in Iterated : cursor[col] = row_idx
      BY <2>1 DEF InStep
    <2> QED
      BY <1>1, <2>1, <2>2 DEF RowRead
  <1>3. Line = [col \in Column |-> {Passed + 1} \cap present[col]]
    BY <1>2 DEF Line
  <1>4. Line = Wanted(Passed + 1)
    BY <1>3 DEF Wanted
  <1>5. Line \in Lines
    <2>1. \A col \in Column : {Passed + 1} \cap present[col] \in SUBSET Nat
      BY <1>1
    <2> QED
      BY <1>3, <2>1 DEF Lines
  <1>6. \A col \in Fields : Line[col] = {} <=> Passed + 1 \notin present[col]
    BY <1>3 DEF Column
  <1> QED
    BY <1>1, <1>4, <1>5, <1>6 DEF NoField

\* One more row is kept, and its line comes last.
LEMMA OneMoreKept ==
    ASSUME NEW p \in Nat, NEW kept \in SUBSET (1..p),
           NEW lines \in Seq(Part), InOrder(lines, kept), Wanted(p + 1) \in Part
    PROVE  InOrder(Append(lines, Wanted(p + 1)), kept \cup {p + 1})
  <1> DEFINE more == kept \cup {p + 1}
             longer == Append(lines, Wanted(p + 1))
  <1>1. IsFiniteSet(kept) /\ Cardinality(kept) \in Nat
    <2>1. IsFiniteSet(1..p)
      BY FS_Interval
    <2> QED
      BY <2>1, FS_Subset, FS_CardinalityType
  <1>2. p + 1 \notin kept /\ Cardinality(more) = Cardinality(kept) + 1
    <2>1. p + 1 \notin kept
      OBVIOUS
    <2> QED
      BY <1>1, <2>1, FS_AddElement
  <1>3. Len(longer) = Cardinality(more)
    BY <1>2 DEF InOrder
  <1>4. ASSUME NEW r \in more
        PROVE  longer[Cardinality({s \in more : s <= r})] = Wanted(r)
    <2>1. CASE r = p + 1
      <3>0. \A s \in more : s <= p + 1
        OBVIOUS
      <3>1. {s \in more : s <= r} = more
        BY <2>1, <3>0
      <3> QED
        <4>1. Len(lines) = Cardinality(kept) /\ Cardinality(more) = Len(lines) + 1
          BY <1>2 DEF InOrder
        <4>2. longer[Len(lines) + 1] = Wanted(p + 1)
          OBVIOUS
        <4> HIDE DEF more, longer
        <4> QED
          BY <2>1, <3>1, <4>1, <4>2
    <2>2. CASE r # p + 1
      <3> DEFINE upto == {s \in kept : s <= r}
      <3>1. r \in kept /\ {s \in more : s <= r} = upto
        BY <2>2
      <3>2. upto \subseteq kept /\ r \in upto
        BY <3>1
      <3> HIDE DEF upto
      <3>3. IsFiniteSet(upto) /\ Cardinality(upto) \in Nat /\ Cardinality(upto) <= Cardinality(kept)
        BY <1>1, <3>2, FS_Subset, FS_CardinalityType
      <3>4. Cardinality(upto) # 0
        BY <3>2, <3>3, FS_EmptySet
      <3>5. Cardinality(upto) \in 1..Len(lines)
        BY <3>3, <3>4 DEF InOrder
      <3>6. lines[Cardinality(upto)] = Wanted(r)
        BY <3>1 DEF InOrder, upto
      <3>7. longer[Cardinality(upto)] = lines[Cardinality(upto)]
        BY <3>5
      <3> HIDE DEF more, longer
      <3> QED
        BY <3>1, <3>6, <3>7
    <2> QED
      BY <2>1, <2>2
  <1> QED
    BY <1>3, <1>4 DEF InOrder

\* The lines of the bodies, one body after the other.
LEMMA WrittenType ==
    ASSUME FrameTypeOK
    PROVE  /\ [b \in DOMAIN batches |-> LinesOf(batches[b])] \in Seq(Seq(Part))
           /\ LinesOf(buf) \in Seq(Part)
           /\ Written \in Seq(Part)
  <1> DEFINE bodies == [b \in DOMAIN batches |-> LinesOf(batches[b])]
  <1>1. \A b \in DOMAIN batches : LinesOf(batches[b]) \in Seq(Part)
    BY LinesOfBody DEF FrameTypeOK
  <1>2. DOMAIN batches = 1..Len(batches) /\ Len(batches) \in Nat
    BY DEF FrameTypeOK
  <1>3. bodies \in Seq(Seq(Part))
    BY <1>1, <1>2
  <1>4. LinesOf(buf) \in Seq(Part)
    BY LinesOfBody DEF FrameTypeOK
  <1> HIDE DEF bodies
  <1>5. FlattenSeq(bodies) \in Seq(Part)
    BY <1>3, <1>4, FlattenAppend
  <1>6. FlattenSeq(bodies) \o LinesOf(buf) \in Seq(Part)
    BY <1>4, <1>5
  <1> QED
    BY <1>3, <1>4, <1>6 DEF Written, bodies

-----------------------------------------------------------------------------
(* The inductive invariant                                                 *)

LEMMA InitFrameInv == Init => FrameInv
  <1> SUFFICES ASSUME Init PROVE FrameInv
    OBVIOUS
  <1>1. FrameTypeOK
    <2>1. chunk \in Nat \ {0}
      BY ConstantsAssumption DEF Init
    <2> QED
      BY <2>1, ConstantsAssumption DEF Init, FrameTypeOK
  <1>2. LinesOf(<<>>) = <<>>
    BY NoLines
  <1>3. InStep /\ OfThisSlice
    BY DEF Init, InStep, OfThisSlice
  <1>4. BodiesWellFormed
    BY DEF Init, BodiesWellFormed, WellFormed
  <1>5. FrameWritten
    <2>1. Kept = {}
      BY DEF Init, Kept, Passed
    <2>2. Written = <<>>
      <3>1. [b \in DOMAIN batches |-> LinesOf(batches[b])] = <<>>
        BY DEF Init
      <3> QED
        BY <1>2, <3>1, FlattenEmpty DEF Init, Written
    <2>3. Cardinality({}) = 0
      BY FS_EmptySet
    <2> QED
      BY <2>1, <2>2, <2>3 DEF FrameWritten
  <1> QED
    BY <1>1, <1>3, <1>4, <1>5 DEF FrameInv

LEMMA StartSliceKeeps ==
    ASSUME FrameInv, StartSlice
    PROVE  FrameInv'
  <1> USE DEF StartSlice, input
  <1>1. FrameTypeOK'
    BY DEF FrameInv, FrameTypeOK
  <1>2. InStep'
    <2>1. Height' \in Nat
      BY DEF FrameInv, FrameTypeOK, Height
    <2> QED
      BY <2>1 DEF InStep
  <1>3. buf = <<>> /\ buf' = <<>>
    BY DEF FrameInv, OfThisSlice
  <1>4. OfThisSlice'
    <2>1. LinesOf(buf)' = LinesOf(buf')
      BY DEF LinesOf
    <2>2. Len(LinesOf(buf)') = 0
      BY <1>3, <2>1, NoLines
    <2> QED
      BY <1>3, <2>2 DEF OfThisSlice
  <1>5. BodiesWellFormed'
    BY DEF FrameInv, BodiesWellFormed, WellFormed, LinesOf
  <1>6. FrameWritten'
    <2>1. Passed' = Passed
      BY DEF FrameInv, FrameTypeOK, Passed
    <2>2. Kept' = Kept /\ Written' = Written
      BY <2>1 DEF Kept, Written, LinesOf
    <2>3. \A r : Wanted(r)' = Wanted(r)
      BY DEF Wanted
    <2> QED
      BY <2>2, <2>3 DEF FrameInv, FrameWritten
  <1> QED
    BY <1>1, <1>2, <1>4, <1>5, <1>6 DEF FrameInv

LEMMA WriteRowKeeps ==
    ASSUME FrameInv, WriteRow
    PROVE  FrameInv'
  <1>1. /\ FrameTypeOK /\ InStep /\ row_idx \in 0..(Height - 1)
        /\ WellFormed(buf) /\ buf \in Seq(Part)
    BY DEF FrameInv, FrameTypeOK, WriteRow, BodiesWellFormed
  <1>2. /\ Passed = start + row_idx
        /\ Line = Wanted(Passed + 1)
        /\ Line \in Lines
        /\ NoField <=> ~ \E col \in Fields : Passed + 1 \in present[col]
    BY <1>1, LineIsWanted
  <1>3. /\ Longer(buf, Line) \in Seq(Part)
        /\ WellFormed(Longer(buf, Line))
        /\ LinesOf(Longer(buf, Line)) = Append(LinesOf(buf), Line)
        /\ SubSeq(Longer(buf, Line), 1, Len(buf)) = buf
    BY <1>1, <1>2, OneMoreLine
  <1>4. buf' = IF NoField THEN buf ELSE Longer(buf, Line)
    <2>1. buf' = IF NoField THEN SubSeq(Longer(buf, Line), 1, Len(buf)) ELSE Longer(buf, Line)
      BY DEF WriteRow, Longer
    <2> QED
      BY <1>3, <2>1
  <1>5. /\ row_idx' = row_idx + 1 /\ cursor' = Advanced
        /\ UNCHANGED <<height, present, chunk, start, batches>>
    BY DEF WriteRow, input
  <1>6. /\ row_idx \in Nat /\ row_idx # -1 /\ Height \in Nat /\ row_idx + 1 <= Height
        /\ start < height /\ start \in Nat /\ height \in Nat
    BY <1>1 DEF FrameTypeOK, Height, InStep
  <1>7. Height' = Height
    BY <1>5 DEF Height
  <1>8. FrameTypeOK'
    <2>1. buf' \in Seq(Part)
      BY <1>1, <1>3, <1>4
    <2>2. cursor' \in [Iterated -> Nat]
      BY <1>1, <1>5 DEF FrameTypeOK, Advanced
    <2> QED
      BY <1>1, <1>5, <1>6, <2>1, <2>2 DEF FrameTypeOK
  <1>9. InStep'
    <2>1. \A col \in Iterated : cursor'[col] = row_idx'
      BY <1>1, <1>5, <1>6 DEF InStep, Advanced
    <2> QED
      BY <1>5, <1>6, <1>7, <2>1 DEF InStep
  <1>10. LinesOf(buf) \in Seq(Part) /\ Len(LinesOf(buf)) <= row_idx
    BY <1>1, <1>6, LinesOfBody DEF FrameInv, OfThisSlice
  <1>11. LinesOf(buf)' = IF NoField THEN LinesOf(buf) ELSE Append(LinesOf(buf), Line)
    <2>1. LinesOf(buf)' = LinesOf(buf')
      BY DEF LinesOf
    <2> QED
      BY <1>3, <1>4, <2>1
  <1>12. Line \in Part
    BY <1>2 DEF Part
  <1>13. OfThisSlice'
    <2>1. Len(LinesOf(buf)') <= row_idx'
      BY <1>5, <1>6, <1>10, <1>11, <1>12
    <2>2. row_idx' # -1
      BY <1>5, <1>6
    <2> QED
      BY <2>1, <2>2 DEF OfThisSlice
  <1>14. BodiesWellFormed'
    <2>1. WellFormed(buf)' = WellFormed(buf')
      BY DEF WellFormed
    <2>2. WellFormed(buf')
      BY <1>1, <1>3, <1>4
    <2>3. \A b \in DOMAIN batches :
            (WellFormed(batches[b]) /\ Len(LinesOf(batches[b])) \in 1..chunk)'
      BY <1>5 DEF FrameInv, BodiesWellFormed, WellFormed, LinesOf
    <2> QED
      BY <1>5, <2>1, <2>2, <2>3 DEF BodiesWellFormed
  <1>15. FrameWritten'
    <2>1. Passed' = Passed + 1 /\ Passed \in Nat
      BY <1>2, <1>5, <1>6 DEF Passed
    <2>2. Kept' = IF NoField THEN Kept ELSE Kept \cup {Passed + 1}
      <3>1. 1..(Passed + 1) = 1..Passed \cup {Passed + 1}
        BY <2>1
      <3>2. Kept' = {r \in 1..(Passed + 1) : \E col \in Fields : r \in present[col]}
        BY <1>5, <2>1 DEF Kept
      <3>3. Kept' = Kept \cup
              {r \in {Passed + 1} : \E col \in Fields : r \in present[col]}
        BY <3>1, <3>2 DEF Kept
      <3> QED
        BY <1>2, <3>3
    <2>3. Written' = IF NoField THEN Written ELSE Append(Written, Line)
      <3> DEFINE bodies == [b \in DOMAIN batches |-> LinesOf(batches[b])]
                 flat == FlattenSeq(bodies)
      <3>1. bodies \in Seq(Seq(Part)) /\ Written = flat \o LinesOf(buf)
        BY <1>1, WrittenType DEF Written
      <3>2. flat \in Seq(Part)
        BY <1>10, <3>1, FlattenAppend
      <3>3. Written' = flat \o LinesOf(buf)'
        BY <1>5 DEF Written, LinesOf
      <3> HIDE DEF flat
      <3>4. flat \o Append(LinesOf(buf), Line) = Append(flat \o LinesOf(buf), Line)
        BY <1>10, <1>12, <3>2
      <3> QED
        BY <1>11, <3>1, <3>3, <3>4
    <2>4. InOrder(Written, Kept) /\ Written \in Seq(Part) /\ Kept \in SUBSET (1..Passed)
      BY <1>1, WrittenType DEF FrameInv, FrameWritten, InOrder, Kept
    <2>5. InOrder(Written', Kept')
      BY <1>2, <1>12, <2>1, <2>2, <2>3, <2>4, OneMoreKept
    <2>6. \A r : Wanted(r)' = Wanted(r)
      BY <1>5 DEF Wanted
    <2> QED
      BY <2>5, <2>6 DEF FrameWritten, InOrder
  <1> QED
    BY <1>8, <1>9, <1>13, <1>14, <1>15 DEF FrameInv

LEMMA EndSliceKeeps ==
    ASSUME FrameInv, EndSlice
    PROVE  FrameInv'
  <1>1. /\ FrameTypeOK /\ row_idx = Height /\ buf \in Seq(Part) /\ batches \in Seq(Seq(Part))
        /\ LinesOf(buf) \in Seq(Part)
    BY WrittenType DEF FrameInv, FrameTypeOK, EndSlice
  <1>2. /\ batches' = IF buf = <<>> THEN batches ELSE Append(batches, buf)
        /\ buf' = <<>> /\ start' = start + chunk /\ row_idx' = -1
        /\ UNCHANGED <<height, present, chunk, cursor>>
    BY DEF EndSlice, input
  <1>3. /\ start \in Nat /\ chunk \in Nat \ {0} /\ height \in Nat
        /\ row_idx \in Nat \cup {-1}
    BY <1>1 DEF FrameTypeOK
  <1>4. row_idx \in Nat /\ start < height /\ row_idx <= chunk /\ InStep
    <2>1. row_idx # -1 /\ InStep
      BY DEF FrameInv, EndSlice
    <2>2. start < height /\ Height <= chunk
      BY <1>3, <2>1 DEF InStep, Height
    <2> QED
      BY <1>1, <1>3, <2>1, <2>2
  <1>5. Written' = Written
    <2> DEFINE bodies == [b \in DOMAIN batches |-> LinesOf(batches[b])]
               flat == FlattenSeq(bodies)
    <2>1. bodies \in Seq(Seq(Part)) /\ Written = flat \o LinesOf(buf)
      BY <1>1, WrittenType DEF Written
    <2>2. /\ flat \in Seq(Part)
          /\ FlattenSeq(Append(bodies, LinesOf(buf))) = flat \o LinesOf(buf)
      BY <1>1, <2>1, FlattenAppend
    <2>3. /\ LinesOf(buf)' = <<>>
          /\ \A body : LinesOf(body)' = LinesOf(body')
      BY <1>2, NoLines DEF LinesOf
    <2>4. CASE buf = <<>>
      <3>1. Written' = flat \o <<>>
        BY <1>2, <2>3, <2>4 DEF Written, LinesOf
      <3>2. Written = flat \o <<>>
        BY <2>1, <2>4, NoLines
      <3> QED
        BY <3>1, <3>2
    <2>5. CASE buf # <<>>
      <3>1. [b \in DOMAIN batches' |-> LinesOf(batches'[b])] = Append(bodies, LinesOf(buf))
        <4> DEFINE n == Len(batches)
        <4>1. /\ n \in Nat /\ DOMAIN batches = 1..n /\ DOMAIN batches' = 1..(n + 1)
              /\ \A b \in 1..n : batches'[b] = batches[b]
              /\ batches'[n + 1] = buf
          BY <1>1, <1>2, <2>5
        <4>2. Len(bodies) = n
          BY <4>1
        <4> HIDE DEF n
        <4>3. \A b \in 1..(n + 1) : LinesOf(batches'[b]) = Append(bodies, LinesOf(buf))[b]
          BY <1>1, <2>1, <4>1, <4>2
        <4> DEFINE more == Append(bodies, LinesOf(buf))
        <4>4. more \in Seq(Seq(Part)) /\ Len(more) = n + 1
          BY <1>1, <2>1, <4>2
        <4> HIDE DEF bodies, more
        <4>5. more = [b \in 1..(n + 1) |-> more[b]]
          BY <4>4
        <4> QED
          BY <4>1, <4>3, <4>5 DEF more
      <3>2. Written' = FlattenSeq(Append(bodies, LinesOf(buf))) \o <<>>
        BY <2>3, <3>1 DEF Written, LinesOf
      <3>3. flat \o LinesOf(buf) \in Seq(Part)
        BY <1>1, <2>2
      <3> HIDE DEF bodies, flat
      <3>4. Written' = (flat \o LinesOf(buf)) \o <<>>
        BY <2>2, <3>2
      <3> QED
        BY <2>1, <3>3, <3>4
    <2> QED
      BY <2>4, <2>5
  <1>6. FrameTypeOK'
    <2>1. batches' \in Seq(Seq(Part)) /\ buf' \in Seq(Part)
      BY <1>1, <1>2
    <2> QED
      BY <1>1, <1>2, <1>3, <2>1 DEF FrameTypeOK
  <1>7. InStep' /\ OfThisSlice'
    BY <1>2 DEF InStep, OfThisSlice
  <1>8. BodiesWellFormed'
    <2>1. WellFormed(buf) /\ Len(LinesOf(buf)) <= chunk
      BY <1>1, <1>3, <1>4, LinesOfBody DEF FrameInv, BodiesWellFormed, OfThisSlice
    <2>2. buf # <<>> => Len(LinesOf(buf)) \in 1..chunk
      <3>1. buf # <<>> => Len(buf) \in Nat \ {0}
        BY <1>1
      <3>2. Len(LinesOf(buf)) = (Len(buf) + 1) \div 2
        BY <1>1, LinesOfBody
      <3>3. buf # <<>> => Len(LinesOf(buf)) \in Nat \ {0}
        BY <3>1, <3>2
      <3> QED
        BY <1>3, <2>1, <3>3
    <2>3. WellFormed(<<>>)
      BY DEF WellFormed
    <2>4. /\ \A body : WellFormed(body)' = WellFormed(body')
          /\ \A body : LinesOf(body)' = LinesOf(body')
      BY DEF WellFormed, LinesOf
    <2>5. ASSUME NEW b \in DOMAIN batches'
          PROVE  WellFormed(batches'[b]) /\ Len(LinesOf(batches'[b])) \in 1..chunk
      <3>1. (batches'[b] = buf /\ buf # <<>>) \/ \E c \in DOMAIN batches : batches'[b] = batches[c]
        BY <1>1, <1>2
      <3>2. \A c \in DOMAIN batches :
              WellFormed(batches[c]) /\ Len(LinesOf(batches[c])) \in 1..chunk
        BY DEF FrameInv, BodiesWellFormed
      <3> QED
        BY <2>1, <2>2, <3>1, <3>2
    <2> QED
      BY <1>2, <2>3, <2>5 DEF BodiesWellFormed, WellFormed, LinesOf
  <1>9. FrameWritten'
    <2>1. Passed' = Passed
      <3>1. Passed = start + row_idx
        BY <1>4 DEF Passed
      <3>2. Passed' = IF start + chunk < height THEN start + chunk ELSE height
        BY <1>2 DEF Passed
      <3> QED
        BY <1>1, <1>3, <3>1, <3>2 DEF Height
    <2>2. Kept' = Kept /\ \A r : Wanted(r)' = Wanted(r)
      BY <1>2, <2>1 DEF Kept, Wanted
    <2> QED
      BY <1>5, <2>2 DEF FrameInv, FrameWritten
  <1> QED
    BY <1>6, <1>7, <1>8, <1>9 DEF FrameInv

LEMMA NextKeepsFrameInv == FrameInv /\ [Next]_vars => FrameInv'
  <1> SUFFICES ASSUME FrameInv, [Next]_vars PROVE FrameInv'
    OBVIOUS
  <1>1. CASE UNCHANGED vars
    <2>1. /\ FrameTypeOK' /\ InStep' /\ OfThisSlice'
      BY <1>1 DEF FrameInv, vars, FrameTypeOK, InStep, Height, OfThisSlice, LinesOf
    <2>2. BodiesWellFormed'
      BY <1>1 DEF FrameInv, vars, BodiesWellFormed, WellFormed, LinesOf
    <2>3. Written' = Written /\ Kept' = Kept /\ \A r : Wanted(r)' = Wanted(r)
      BY <1>1 DEF vars, Written, LinesOf, Kept, Passed, Wanted
    <2>4. FrameWritten'
      BY <2>3 DEF FrameInv, FrameWritten
    <2> QED
      BY <2>1, <2>2, <2>4 DEF FrameInv
  <1> QED
    BY <1>1, StartSliceKeeps, WriteRowKeeps, EndSliceKeeps DEF Next

\* The readers keep step with the rows, and the rows written are the rows passed,
\* at every step of a frame of any height.
THEOREM FrameInvariance == Spec => []FrameInv
  BY InitFrameInv, NextKeepsFrameInv, PTL DEF Spec

-----------------------------------------------------------------------------
(* What a caller relies on                                                 *)

\* Every row with a field is written once, in order, from its own cells alone,
\* whatever the other rows hold and wherever the slices begin.
THEOREM WholeFrameIsWritten == Spec => []FrameWritten
  <1>1. FrameInv => FrameWritten
    BY DEF FrameInv
  <1> QED
    BY <1>1, FrameInvariance, PTL

\* Every body has from one to batch_size lines with newlines between them, and
\* neither an empty line nor a newline at an end.
THEOREM BodiesAreWellFormed == Spec => []BodiesWellFormed
  <1>1. FrameInv => BodiesWellFormed
    BY DEF FrameInv
  <1> QED
    BY <1>1, FrameInvariance, PTL

\* A reader that keeps its own place is at the row that is written, also after
\* rows that were dropped ("stays in lockstep with the row index").
THEOREM ReadersInLockstep ==
    Spec => [](row_idx # -1 => \A col \in Iterated : cursor[col] = row_idx)
  <1>1. FrameInv => (row_idx # -1 => \A col \in Iterated : cursor[col] = row_idx)
    BY DEF FrameInv, InStep
  <1> QED
    BY <1>1, FrameInvariance, PTL
=============================================================================

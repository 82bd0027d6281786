-------------------------- MODULE FlightQueryProofs --------------------------
(***************************************************************************)
(* Proofs about FlightQuery, for any number of queries, any number of      *)
(* retries and answers of any length.  CellInv says who holds the permit   *)
(* and who waits for it; BatchesInv that what a query holds is a prefix of *)
(* the answer to its current attempt.                                      *)
(***************************************************************************)
EXTENDS FlightQuery, SequenceTheorems, TLAPS

\* Nobody is queued twice, nor queued while holding the permit.
CellInv ==
    /\ IsInjective(queue)
    /\ permit # None => /\ pc[permit] \in {"waiting", "connecting"}
                        /\ permit \notin ToSet(queue)
                        /\ cell = None
    /\ permit = None => queue = <<>>
    /\ \A q \in ToSet(queue) : pc[q] = "waiting"
    /\ \A q \in Query :
        /\ pc[q] = "connecting" => permit = q
        /\ pc[q] = "waiting" => permit = q \/ cell # None \/ q \in ToSet(queue)

\* Places where a query holds no batch.
Empty == {"idle", "loop", "waiting", "connecting", "request", "backoff"}

BatchesInv == \A q \in Query :
    /\ pc[q] \in Empty => got[q] = <<>>
    /\ \A i \in 1..Len(got[q]) : got[q][i] = [attempt |-> attempt[q], index |-> i]
    /\ mode[q] = "collect" /\ pc[q] = "ok" => Len(got[q]) = Answer

\* A query that sleeps has a retry left; an awaited one is never "open", and a
\* stream is never read by its own loop.
PlacesInv == \A q \in Query :
    /\ pc[q] = "backoff" => attempt[q] < MaxRetries
    /\ pc[q] = "reading" => mode[q] = "collect"
    /\ pc[q] = "open" => mode[q] = "stream"

FInv == TypeOK /\ CellInv /\ BatchesInv /\ PlacesInv

-----------------------------------------------------------------------------
(* The queue of the cell                                                   *)

LEMMA Removed ==
    ASSUME NEW s \in Seq(Query), IsInjective(s), NEW i \in 1..Len(s)
    PROVE  /\ RemoveAt(s, i) \in Seq(Query)
           /\ IsInjective(RemoveAt(s, i))
           /\ ToSet(RemoveAt(s, i)) = ToSet(s) \ {s[i]}
  <1> DEFINE n == Len(s)
             a == SubSeq(s, 1, i - 1)
             b == SubSeq(s, i + 1, n)
             r == a \o b
  <1>1. n \in Nat /\ i \in Int /\ 1 <= i /\ i <= n /\ DOMAIN s = 1..n
    OBVIOUS
  <1>2. RemoveAt(s, i) = r
    BY DEF RemoveAt
  <1> HIDE DEF n
  <1>3. \A k \in 1..n : s[k] \in Query
    BY <1>1
  <1>4. /\ a \in Seq(Query) /\ Len(a) = i - 1
        /\ \A k \in 1..(i - 1) : a[k] = s[k]
    <2>1. \A k \in 1..(i - 1) : s[k] \in Query
      BY <1>1, <1>3
    <2>2. /\ a \in Seq(Query)
          /\ Len(a) = IF 1 <= i - 1 THEN (i - 1) - 1 + 1 ELSE 0
          /\ \A k \in 1..((i - 1) - 1 + 1) : a[k] = s[1 + k - 1]
      BY <1>1, <2>1, SubSeqProperties
    <2> HIDE DEF a
    <2> QED
      BY <1>1, <2>2
  <1>5. /\ b \in Seq(Query) /\ Len(b) = n - i
        /\ \A k \in 1..(n - i) : b[k] = s[i + k]
    <2>1. \A k \in (i + 1)..n : s[k] \in Query
      BY <1>1, <1>3
    <2>2. /\ b \in Seq(Query)
          /\ Len(b) = IF i + 1 <= n THEN n - (i + 1) + 1 ELSE 0
          /\ \A k \in 1..(n - (i + 1) + 1) : b[k] = s[(i + 1) + k - 1]
      BY <1>1, <2>1, SubSeqProperties
    <2> HIDE DEF b
    <2> QED
      BY <1>1, <2>2
  <1> HIDE DEF a, b
  <1>6. /\ r \in Seq(Query) /\ Len(r) = n - 1
        /\ \A k \in 1..(n - 1) : r[k] = IF k < i THEN s[k] ELSE s[k + 1]
    <2>1. /\ r \in Seq(Query) /\ Len(r) = Len(a) + Len(b)
          /\ \A k \in 1..(Len(a) + Len(b)) : r[k] = IF k <= Len(a) THEN a[k] ELSE b[k - Len(a)]
      BY <1>4, <1>5, ConcatProperties
    <2> HIDE DEF r
    <2>2. ASSUME NEW k \in 1..(n - 1)
          PROVE  r[k] = IF k < i THEN s[k] ELSE s[k + 1]
      <3>1. CASE k < i
        BY <1>1, <1>4, <1>5, <2>1, <3>1
      <3>2. CASE ~(k < i)
        <4>1. k - (i - 1) \in 1..(n - i) /\ i + (k - (i - 1)) = k + 1 /\ ~(k <= i - 1)
          BY <1>1, <3>2
        <4>2. r[k] = b[k - (i - 1)]
          BY <1>1, <1>4, <1>5, <2>1, <4>1
        <4> QED
          BY <1>5, <3>2, <4>1, <4>2
      <3> QED
        BY <3>1, <3>2
    <2> QED
      BY <1>1, <1>4, <1>5, <2>1, <2>2
  <1> HIDE DEF r
  <1>7. DOMAIN r = 1..(n - 1)
    BY <1>1, <1>6
  <1>8. IsInjective(r)
    <2> SUFFICES ASSUME NEW j \in 1..(n - 1), NEW k \in 1..(n - 1), r[j] = r[k]
                 PROVE  j = k
      BY <1>7 DEF IsInjective
    <2>1. \A x, y \in 1..n : s[x] = s[y] => x = y
      BY <1>1 DEF IsInjective
    <2> QED
      BY <1>1, <1>6, <2>1
  <1>9. ToSet(r) \subseteq ToSet(s) \ {s[i]}
    <2> SUFFICES ASSUME NEW k \in 1..(n - 1) PROVE r[k] \in ToSet(s) \ {s[i]}
      BY <1>7 DEF ToSet
    <2>1. PICK j \in 1..n : r[k] = s[j] /\ j # i
      BY <1>1, <1>6
    <2> QED
      BY <1>1, <2>1 DEF ToSet, IsInjective
  <1>10. ASSUME NEW x \in ToSet(s) \ {s[i]}
         PROVE  x \in ToSet(r)
    <2>1. PICK k \in 1..n : x = s[k]
      BY <1>1, <1>10 DEF ToSet
    <2>2. CASE k < i
      BY <1>1, <1>6, <1>7, <2>1, <2>2 DEF ToSet
    <2>3. CASE k > i
      <3>1. k - 1 \in 1..(n - 1) /\ r[k - 1] = s[k]
        BY <1>1, <1>6, <2>1, <2>3
      <3> QED
        BY <1>7, <2>1, <3>1 DEF ToSet
    <2> QED
      BY <1>1, <1>10, <2>1, <2>2, <2>3
  <1> QED
    BY <1>2, <1>6, <1>8, <1>9, <1>10

LEMMA TakenFirst ==
    ASSUME NEW s \in Seq(Query), IsInjective(s), s # <<>>
    PROVE  /\ Head(s) \in ToSet(s) /\ Head(s) \in Query
           /\ Tail(s) \in Seq(Query)
           /\ IsInjective(Tail(s))
           /\ ToSet(Tail(s)) = ToSet(s) \ {Head(s)}
  <1>1. Len(s) \in Nat \ {0} /\ DOMAIN s = 1..Len(s)
    BY EmptySeq
  <1>2. Head(s) = s[1] /\ Head(s) \in Query
    BY <1>1
  <1>3. /\ Tail(s) \in Seq(Query) /\ Len(Tail(s)) = Len(s) - 1
        /\ DOMAIN Tail(s) = 1..(Len(s) - 1)
        /\ \A k \in 1..(Len(s) - 1) : Tail(s)[k] = s[k + 1]
    BY <1>1, HeadTailProperties
  <1>4. IsInjective(Tail(s))
    BY <1>1, <1>3 DEF IsInjective
  <1>5. ToSet(Tail(s)) \subseteq ToSet(s) \ {Head(s)}
    BY <1>1, <1>2, <1>3 DEF ToSet, IsInjective
  <1>6. ASSUME NEW x \in ToSet(s) \ {Head(s)}
        PROVE  x \in ToSet(Tail(s))
    <2>1. PICK k \in 1..Len(s) : x = s[k]
      BY <1>1 DEF ToSet
    <2>2. k - 1 \in 1..(Len(s) - 1) /\ Tail(s)[k - 1] = s[k]
      BY <1>1, <1>2, <1>3, <1>6, <2>1
    <2> QED
      BY <1>3, <2>1, <2>2 DEF ToSet
  <1> QED
    <2>1. Head(s) \in ToSet(s)
      BY <1>1, <1>2 DEF ToSet
    <2> QED
      BY <1>2, <1>3, <1>4, <1>5, <1>6, <2>1

LEMMA PutLast ==
    ASSUME NEW s \in Seq(Query), IsInjective(s), NEW q \in Query, q \notin ToSet(s)
    PROVE  /\ Append(s, q) \in Seq(Query)
           /\ IsInjective(Append(s, q))
           /\ ToSet(Append(s, q)) = ToSet(s) \cup {q}
  <1>1. /\ Len(s) \in Nat /\ DOMAIN s = 1..Len(s)
        /\ Append(s, q) \in Seq(Query)
        /\ DOMAIN Append(s, q) = 1..(Len(s) + 1)
        /\ \A k \in 1..Len(s) : Append(s, q)[k] = s[k]
        /\ Append(s, q)[Len(s) + 1] = q
    OBVIOUS
  <1>2. IsInjective(Append(s, q))
    BY <1>1 DEF IsInjective, ToSet
  <1>3. ToSet(Append(s, q)) \subseteq ToSet(s) \cup {q}
    BY <1>1 DEF ToSet
  <1>4. ToSet(s) \cup {q} \subseteq ToSet(Append(s, q))
    BY <1>1 DEF ToSet
  <1> QED
    BY <1>1, <1>2, <1>3, <1>4

-----------------------------------------------------------------------------
(* The OnceCell                                                            *)

\* A query that leaves the cell, for whatever reason, gives back what it holds
\* of it: the permit or its place (LeaveCell).
LEMMA LeaveCellKeeps ==
    ASSUME TypeOK, CellInv, NEW q \in Query, LeaveCell(q),
           NEW place, pc' = [pc EXCEPT ![q] = place],
           place \notin {"waiting", "connecting"}
    PROVE  CellInv' /\ permit' \in Query \cup {None} /\ queue' \in Seq(Query)
  <1>1. /\ queue \in Seq(Query) /\ IsInjective(queue) /\ permit \in Query \cup {None}
        /\ pc'[q] = place /\ \A r \in Query : r # q => pc'[r] = pc[r]
        /\ cell' = cell /\ None \notin Query
    BY ConstantsAssumption DEF TypeOK, CellInv, LeaveCell
  <1>2. ToSet(queue) \subseteq Query
    BY <1>1 DEF ToSet
  <1>3. CASE permit = q /\ queue = <<>> /\ permit' = None /\ UNCHANGED queue
    <2>1. ToSet(queue) = {}
      BY <1>3 DEF ToSet
    <2> QED
      BY <1>1, <1>3, <2>1 DEF CellInv
  <1>4. CASE permit = q /\ queue # <<>> /\ permit' = Head(queue) /\ queue' = Tail(queue)
    <2>1. /\ permit' \in ToSet(queue) /\ permit' \in Query
          /\ queue' \in Seq(Query) /\ IsInjective(queue')
          /\ ToSet(queue') = ToSet(queue) \ {permit'}
      BY <1>1, <1>4, TakenFirst
    <2>2. q \notin ToSet(queue) /\ cell = None /\ permit # None
      BY <1>1, <1>4 DEF CellInv
    <2> QED
      BY <1>1, <1>2, <2>1, <2>2, <1>4 DEF CellInv
  <1>5. CASE permit # q /\ q \notin ToSet(queue) /\ UNCHANGED <<permit, queue>>
    BY <1>1, <1>2, <1>5 DEF CellInv
  <1>6. CASE /\ permit # q /\ UNCHANGED permit
             /\ \E i \in DOMAIN queue : queue[i] = q /\ queue' = RemoveAt(queue, i)
    <2>1. PICK i \in 1..Len(queue) : queue[i] = q /\ queue' = RemoveAt(queue, i)
      BY <1>1, <1>6
    <2>2. /\ queue' \in Seq(Query) /\ IsInjective(queue')
          /\ ToSet(queue') = ToSet(queue) \ {q}
      BY <1>1, <2>1, Removed
    <2>3. permit # None
      <3>1. queue # <<>>
        BY <2>1
      <3> QED
        BY <3>1 DEF CellInv
    <2> QED
      BY <1>1, <1>2, <1>6, <2>2, <2>3 DEF CellInv
  <1> QED
    BY <1>3, <1>4, <1>5, <1>6 DEF LeaveCell

\* A query that neither holds nor waits for the permit moves between other places.
LEMMA ElsewhereKeepsCell ==
    ASSUME TypeOK, CellInv, NEW q \in Query,
           pc[q] \notin {"waiting", "connecting"},
           NEW place, pc' = [pc EXCEPT ![q] = place],
           place \notin {"waiting", "connecting"}, UNCHANGED cellVars
    PROVE  CellInv'
  <1>1. /\ pc'[q] = place /\ \A r \in Query : r # q => pc'[r] = pc[r]
        /\ ToSet(queue) \subseteq Query
    BY DEF TypeOK, ToSet
  <1> QED
    BY <1>1, ConstantsAssumption DEF CellInv, cellVars, TypeOK

LEMMA EnterCellKeepsCell ==
    ASSUME TypeOK, CellInv, NEW q \in Query, EnterCell(q)
    PROVE  CellInv' /\ permit' \in Query \cup {None} /\ queue' \in Seq(Query)
  <1>1. /\ queue \in Seq(Query) /\ IsInjective(queue) /\ permit \in Query \cup {None}
        /\ \A r \in Query : r # q => pc'[r] = pc[r]
        /\ pc[q] = "loop" /\ ToSet(queue) \subseteq Query /\ None \notin Query
    BY ConstantsAssumption DEF TypeOK, CellInv, EnterCell, Goto, ToSet
  <1>2. CASE cell # None /\ Goto(q, "request") /\ UNCHANGED cellVars
    BY <1>1, <1>2, ElsewhereKeepsCell DEF Goto, cellVars
  <1>3. CASE /\ cell = None /\ permit = None
             /\ permit' = q
             /\ Goto(q, "connecting")
             /\ UNCHANGED <<cell, queue>>
    <2>1. pc'[q] = "connecting" /\ ToSet(queue) = {} /\ queue = <<>>
      BY <1>3 DEF TypeOK, Goto, CellInv, ToSet
    <2> QED
      BY <1>1, <1>3, <2>1 DEF CellInv
  <1>4. CASE /\ cell = None /\ permit # None
             /\ queue' = Append(queue, q)
             /\ Goto(q, "waiting")
             /\ UNCHANGED <<cell, permit>>
    <2>1. q \notin ToSet(queue) /\ permit # q /\ pc'[q] = "waiting"
      BY <1>1, <1>4 DEF CellInv, TypeOK, Goto
    <2>2. /\ queue' \in Seq(Query) /\ IsInjective(queue')
          /\ ToSet(queue') = ToSet(queue) \cup {q}
      BY <1>1, <1>4, <2>1, PutLast
    <2> QED
      BY <1>1, <1>4, <2>1, <2>2 DEF CellInv
  <1> QED
    BY <1>2, <1>3, <1>4 DEF EnterCell

LEMMA LeaveQueueKeepsCell ==
    ASSUME TypeOK, CellInv, NEW q \in Query, LeaveQueue(q)
    PROVE  CellInv'
  <1>1. /\ queue \in Seq(Query) /\ permit \in Query \cup {None}
        /\ \A r \in Query : r # q => pc'[r] = pc[r]
        /\ pc[q] = "waiting" /\ ToSet(queue) \subseteq Query /\ None \notin Query
        /\ UNCHANGED <<cell, permit, queue>>
    BY ConstantsAssumption DEF TypeOK, CellInv, LeaveQueue, Goto, ToSet, cellVars
  <1>2. CASE permit = q /\ Goto(q, "connecting")
    <2>1. pc'[q] = "connecting" /\ q \notin ToSet(queue)
      BY <1>1, <1>2 DEF TypeOK, Goto, CellInv
    <2> QED
      BY <1>1, <1>2, <2>1 DEF CellInv
  <1>3. CASE cell # None /\ Goto(q, "request")
    <2>1. pc'[q] = "request" /\ permit = None /\ ToSet(queue) = {}
      BY <1>1, <1>3 DEF TypeOK, Goto, CellInv, ToSet
    <2> QED
      BY <1>1, <1>3, <2>1 DEF CellInv
  <1> QED
    BY <1>2, <1>3 DEF LeaveQueue

LEMMA ConnectedKeepsCell ==
    ASSUME TypeOK, CellInv, NEW q \in Query, Connected(q)
    PROVE  CellInv' /\ cell' \in Query
  <1>1. /\ \A r \in Query : r # q => pc'[r] = pc[r]
        /\ pc'[q] = "request" /\ permit = q /\ permit' = None
        /\ queue' = <<>> /\ cell' = q /\ None \notin Query /\ ToSet(queue') = {}
    BY ConstantsAssumption DEF TypeOK, CellInv, Connected, Goto, ToSet
  <1>2. IsInjective(queue')
    BY <1>1 DEF IsInjective
  <1>3. \A r \in Query : pc'[r] # "connecting"
    BY <1>1 DEF CellInv
  <1> QED
    BY <1>1, <1>2, <1>3 DEF CellInv

-----------------------------------------------------------------------------
(* The inductive invariant                                                 *)

Place == Running \cup Ended \cup {"idle", "open"}
Batches == Seq([attempt : 0..MaxRetries, index : 1..Answer])

LEMMA NoBatch == <<>> \in Batches /\ Len(<<>>) = 0
  BY DEF Batches

LEMMA InitFInv == Init => FInv
  <1> SUFFICES ASSUME Init PROVE FInv
    OBVIOUS
  <1>1. TypeOK
    <2>1. <<>> \in Seq([attempt : 0..MaxRetries, index : 1..Answer]) /\ <<>> \in Seq(Query)
      OBVIOUS
    <2> QED
      BY <2>1, ConstantsAssumption DEF Init, TypeOK, Running
  <1>2. CellInv
    <2>1. ToSet(<<>>) = {} /\ IsInjective(<<>>)
      BY DEF ToSet, IsInjective
    <2> QED
      BY <2>1 DEF Init, CellInv
  <1>3. BatchesInv /\ PlacesInv
    BY DEF Init, BatchesInv, PlacesInv
  <1> QED
    BY <1>1, <1>2, <1>3 DEF FInv

\* One query moves: what it holds afterwards must be a prefix of the answer to
\* its attempt, and the cell is as its own lemmas say.
LEMMA OneMoves ==
    ASSUME FInv, NEW q \in Query, mode' = mode,
           NEW place \in Place, pc' = [pc EXCEPT ![q] = place],
           NEW n \in 0..MaxRetries, attempt' = [attempt EXCEPT ![q] = n],
           NEW held \in Batches, got' = [got EXCEPT ![q] = held],
           place \in Empty => held = <<>>,
           \A i \in 1..Len(held) : held[i] = [attempt |-> n, index |-> i],
           mode[q] = "collect" /\ place = "ok" => Len(held) = Answer,
           place = "backoff" => n < MaxRetries,
           place = "reading" => mode[q] = "collect",
           place = "open" => mode[q] = "stream",
           CellInv', cell' \in Query \cup {None}, permit' \in Query \cup {None},
           queue' \in Seq(Query)
    PROVE  FInv'
  <1>1. /\ pc \in [Query -> Place] /\ attempt \in [Query -> 0..MaxRetries]
        /\ got \in [Query -> Batches]
    BY DEF FInv, TypeOK, Place, Batches
  <1>2. /\ pc' \in [Query -> Place] /\ attempt' \in [Query -> 0..MaxRetries]
        /\ got' \in [Query -> Batches]
    BY <1>1
  <1>3. TypeOK'
    BY <1>2 DEF FInv, TypeOK, Place, Batches
  <1>4. /\ pc'[q] = place /\ attempt'[q] = n /\ got'[q] = held
        /\ \A r \in Query : r # q => /\ pc'[r] = pc[r]
                                     /\ attempt'[r] = attempt[r]
                                     /\ got'[r] = got[r]
    BY <1>1
  <1>5. BatchesInv'
    BY <1>4 DEF FInv, BatchesInv
  <1>6. PlacesInv'
    BY <1>4 DEF FInv, PlacesInv
  <1> QED
    BY <1>3, <1>5, <1>6 DEF FInv

\* The same for a query that stays in its attempt and keeps its batches.
LEMMA OneGoes ==
    ASSUME FInv, NEW q \in Query, UNCHANGED <<mode, attempt, got>>,
           NEW place \in Place, pc' = [pc EXCEPT ![q] = place],
           place \in Empty => got[q] = <<>>,
           mode[q] = "collect" /\ place = "ok" => Len(got[q]) = Answer,
           place # "backoff",
           place = "reading" => mode[q] = "collect",
           place = "open" => mode[q] = "stream",
           CellInv', cell' \in Query \cup {None}, permit' \in Query \cup {None},
           queue' \in Seq(Query)
    PROVE  FInv'
  <1>1. /\ attempt[q] \in 0..MaxRetries /\ attempt' = [attempt EXCEPT ![q] = attempt[q]]
        /\ got[q] \in Batches /\ got' = [got EXCEPT ![q] = got[q]]
    BY DEF FInv, TypeOK, Batches
  <1>2. \A i \in 1..Len(got[q]) : got[q][i] = [attempt |-> attempt[q], index |-> i]
    BY DEF FInv, BatchesInv
  <1>3. PICK n \in 0..MaxRetries : n = attempt[q]
    BY <1>1
  <1>4. PICK held \in Batches : held = got[q]
    BY <1>1
  <1>5. /\ attempt' = [attempt EXCEPT ![q] = n]
        /\ got' = [got EXCEPT ![q] = held]
        /\ place \in Empty => held = <<>>
        /\ \A i \in 1..Len(held) : held[i] = [attempt |-> n, index |-> i]
        /\ mode[q] = "collect" /\ place = "ok" => Len(held) = Answer
    BY <1>1, <1>2, <1>3, <1>4
  <1> QED
    BY <1>5, OneMoves

\* And for one whose attempt fails, or which is dropped.
LEMMA OneLosesAll ==
    ASSUME FInv, NEW q \in Query, UNCHANGED <<mode, attempt>>,
           got' = [got EXCEPT ![q] = <<>>],
           NEW place \in {"err", "backoff", "dropped"}, pc' = [pc EXCEPT ![q] = place],
           place = "backoff" => attempt[q] < MaxRetries,
           CellInv', cell' \in Query \cup {None}, permit' \in Query \cup {None},
           queue' \in Seq(Query)
    PROVE  FInv'
  <1>1. /\ attempt[q] \in 0..MaxRetries /\ attempt' = [attempt EXCEPT ![q] = attempt[q]]
        /\ place \in Place /\ place \notin {"ok", "reading", "open"}
    BY DEF FInv, TypeOK, Place, Running, Ended
  <1>2. PICK held \in Batches : held = <<>> /\ Len(held) = 0
    BY NoBatch
  <1>3. \A i \in 1..Len(held) : held[i] = [attempt |-> attempt[q], index |-> i]
    BY <1>2
  <1>4. got' = [got EXCEPT ![q] = held]
    BY <1>2
  <1> QED
    BY <1>1, <1>2, <1>3, <1>4, OneMoves

\* AttemptFailed with the permit given back, or without a part in the cell.
LEMMA FailedKeepsFInv ==
    ASSUME FInv, NEW q \in Query, NEW retryable \in BOOLEAN, AttemptFailed(q, retryable),
           \/ LeaveCell(q)
           \/ pc[q] \notin {"waiting", "connecting"} /\ UNCHANGED cellVars
    PROVE  FInv'
  <1>1. PICK place \in {"err", "backoff"} :
            pc' = [pc EXCEPT ![q] = place] /\ (place = "backoff" => attempt[q] < MaxRetries)
    BY ConstantsAssumption DEF AttemptFailed, Goto, FInv, TypeOK
  <1>2. TypeOK /\ CellInv
    BY DEF FInv
  <1>3. /\ CellInv' /\ cell' \in Query \cup {None}
        /\ permit' \in Query \cup {None} /\ queue' \in Seq(Query)
    <2>1. CASE LeaveCell(q)
      <3>1. cell' \in Query \cup {None}
        BY <1>2, <2>1 DEF LeaveCell, TypeOK
      <3> QED
        BY <1>1, <1>2, <2>1, <3>1, LeaveCellKeeps
    <2>2. CASE pc[q] \notin {"waiting", "connecting"} /\ UNCHANGED cellVars
      <3>1. CellInv'
        BY <1>1, <1>2, <2>2, ElsewhereKeepsCell
      <3> QED
        BY <1>2, <2>2, <3>1 DEF TypeOK, cellVars
    <2> QED
      BY <2>1, <2>2
  <1> QED
    BY <1>1, <1>3, OneLosesAll DEF AttemptFailed

LEMMA NextKeepsFInv == FInv /\ [Next]_vars => FInv'
  <1> SUFFICES ASSUME FInv, [Next]_vars PROVE FInv'
    OBVIOUS
  <1> USE DEF Place, Running, Ended, Empty
  <1>1. /\ TypeOK /\ CellInv /\ None \notin Query
        /\ cell \in Query \cup {None} /\ permit \in Query \cup {None} /\ queue \in Seq(Query)
        /\ UNCHANGED cellVars => /\ cell' \in Query \cup {None}
                                 /\ permit' \in Query \cup {None}
                                 /\ queue' \in Seq(Query)
    BY ConstantsAssumption DEF FInv, TypeOK, cellVars
  <1>2. ASSUME NEW q \in Query, Start(q)
        PROVE  FInv'
    <2>1. CellInv'
      BY <1>1, <1>2, ElsewhereKeepsCell DEF Start, Goto
    <2> QED
      BY <1>1, <1>2, <2>1, OneGoes DEF Start, Goto, FInv, BatchesInv
  <1>3. ASSUME NEW q \in Query, EnterCell(q)
        PROVE  FInv'
    <2>1. /\ CellInv' /\ permit' \in Query \cup {None} /\ queue' \in Seq(Query)
          /\ cell' \in Query \cup {None}
      BY <1>1, <1>3, EnterCellKeepsCell DEF EnterCell, cellVars
    <2>2. PICK place \in {"request", "connecting", "waiting"} : Goto(q, place)
      BY <1>3 DEF EnterCell
    <2>3. got[q] = <<>> /\ UNCHANGED <<mode, attempt, got>>
      BY <1>3 DEF EnterCell, FInv, BatchesInv
    <2> QED
      BY <2>1, <2>2, <2>3, OneGoes DEF Goto
  <1>4. ASSUME NEW q \in Query, LeaveQueue(q)
        PROVE  FInv'
    <2>1. CellInv' /\ UNCHANGED cellVars
      BY <1>1, <1>4, LeaveQueueKeepsCell DEF LeaveQueue
    <2>2. PICK place \in {"request", "connecting"} : Goto(q, place)
      BY <1>4 DEF LeaveQueue
    <2>3. got[q] = <<>> /\ UNCHANGED <<mode, attempt, got>>
      BY <1>4 DEF LeaveQueue, FInv, BatchesInv
    <2> QED
      BY <1>1, <2>1, <2>2, <2>3, OneGoes DEF Goto
  <1>5. ASSUME NEW q \in Query, Connected(q)
        PROVE  FInv'
    <2>1. CellInv' /\ cell' \in Query /\ permit' = None /\ queue' = <<>>
      BY <1>1, <1>5, ConnectedKeepsCell DEF Connected
    <2>2. got[q] = <<>> /\ UNCHANGED <<mode, attempt, got>>
      BY <1>5 DEF Connected, FInv, BatchesInv
    <2>3. queue' \in Seq(Query)
      BY <2>1
    <2> QED
      BY <1>5, <2>1, <2>2, <2>3, OneGoes DEF Connected, Goto
  <1>6. ASSUME NEW q \in Query, ConnectFails(q)
        PROVE  FInv'
    BY <1>6, FailedKeepsFInv DEF ConnectFails
  <1>7. ASSUME NEW q \in Query, Answered(q)
        PROVE  FInv'
    <2>1. PICK place \in {"reading", "open"} :
            /\ Goto(q, place)
            /\ place = "reading" => mode[q] = "collect"
            /\ place = "open" => mode[q] = "stream"
      BY <1>1, <1>7 DEF Answered, TypeOK
    <2>2. CellInv'
      BY <1>1, <1>7, <2>1, ElsewhereKeepsCell DEF Answered, Goto
    <2> QED
      BY <1>1, <1>7, <2>1, <2>2, OneGoes DEF Answered, Goto
  <1>8. ASSUME NEW q \in Query, RequestFails(q)
        PROVE  FInv'
    BY <1>8, FailedKeepsFInv DEF RequestFails
  <1>9. ASSUME NEW q \in Query, NextBatch(q)
        PROVE  FInv'
    <2> DEFINE batch == [attempt |-> attempt[q], index |-> Len(got[q]) + 1]
    <2>1. /\ got[q] \in Batches /\ Len(got[q]) \in Nat /\ Len(got[q]) < Answer
          /\ attempt[q] \in 0..MaxRetries /\ pc[q] \in {"reading", "open"}
      <3>1. got[q] \in Batches
        BY <1>1 DEF TypeOK, Batches
      <3>2. Len(got[q]) \in Nat
        BY <3>1 DEF Batches
      <3> QED
        BY <1>1, <1>9, <3>1, <3>2 DEF TypeOK, NextBatch
    <2>2. batch \in [attempt : 0..MaxRetries, index : 1..Answer]
      BY <2>1, ConstantsAssumption
    <2>3. PICK held \in Batches : held = Append(got[q], batch)
      <3>1. Append(got[q], batch) \in Batches
        BY <2>1, <2>2, AppendProperties DEF Batches
      <3> QED
        BY <3>1
    <2>4. /\ Len(held) = Len(got[q]) + 1 /\ held[Len(got[q]) + 1] = batch
          /\ \A i \in 1..Len(got[q]) : held[i] = got[q][i]
      BY <2>1, <2>2, <2>3 DEF Batches
    <2>5. \A i \in 1..Len(held) : held[i] = [attempt |-> attempt[q], index |-> i]
      <3>1. \A i \in 1..Len(got[q]) : got[q][i] = [attempt |-> attempt[q], index |-> i]
        BY DEF FInv, BatchesInv
      <3> QED
        BY <2>1, <2>4, <3>1
    <2>6. /\ got' = [got EXCEPT ![q] = held] /\ UNCHANGED <<mode, pc, attempt, cellVars>>
          /\ pc' = [pc EXCEPT ![q] = pc[q]] /\ attempt' = [attempt EXCEPT ![q] = attempt[q]]
      BY <1>1, <1>9, <2>3 DEF NextBatch, TypeOK
    <2>7. CellInv'
      BY <1>1, <2>6 DEF CellInv, cellVars
    <2>8. /\ pc[q] = "reading" => mode[q] = "collect"
          /\ pc[q] = "open" => mode[q] = "stream"
      BY DEF FInv, PlacesInv
    <2> HIDE DEF batch
    <2> QED
      BY <1>1, <2>1, <2>3, <2>5, <2>6, <2>7, <2>8, OneMoves
  <1>10. ASSUME NEW q \in Query, EndOfStream(q)
         PROVE  FInv'
    <2>1. CellInv'
      BY <1>1, <1>10, ElsewhereKeepsCell DEF EndOfStream, Goto
    <2> QED
      BY <1>1, <1>10, <2>1, OneGoes DEF EndOfStream, Goto
  <1>11. ASSUME NEW q \in Query, StreamBreaks(q)
         PROVE  FInv'
    <2>1. CASE pc[q] = "reading" /\ AttemptFailed(q, FALSE)
      BY <1>11, <2>1, FailedKeepsFInv DEF StreamBreaks
    <2>2. CASE pc[q] = "open" /\ Goto(q, "err") /\ UNCHANGED <<mode, attempt, got>>
      <3>1. CellInv'
        BY <1>1, <1>11, <2>2, ElsewhereKeepsCell DEF StreamBreaks, Goto
      <3> QED
        BY <1>1, <1>11, <2>2, <3>1, OneGoes DEF StreamBreaks, Goto
    <2> QED
      BY <1>11, <2>1, <2>2 DEF StreamBreaks
  <1>12. ASSUME NEW q \in Query, TimesOut(q)
         PROVE  FInv'
    BY <1>12, FailedKeepsFInv DEF TimesOut
  <1>13. ASSUME NEW q \in Query, WakeUp(q)
         PROVE  FInv'
    <2>1. CellInv'
      BY <1>1, <1>13, ElsewhereKeepsCell DEF WakeUp, Goto
    <2>2. PICK n \in 0..MaxRetries :
            n = attempt[q] + 1 /\ attempt' = [attempt EXCEPT ![q] = n]
      <3>1. attempt[q] \in 0..MaxRetries /\ attempt[q] < MaxRetries
        BY <1>1, <1>13 DEF WakeUp, FInv, PlacesInv, TypeOK
      <3>2. attempt[q] + 1 \in 0..MaxRetries
        BY <3>1, ConstantsAssumption
      <3>3. attempt' = [attempt EXCEPT ![q] = attempt[q] + 1]
        BY <1>13 DEF WakeUp
      <3> QED
        BY <3>2, <3>3
    <2>3. PICK held \in Batches : held = <<>> /\ Len(held) = 0
      BY NoBatch
    <2>4. got' = [got EXCEPT ![q] = held]
      BY <1>1, <1>13, <2>3 DEF WakeUp, FInv, BatchesInv, TypeOK
    <2>5. \A i \in 1..Len(held) : held[i] = [attempt |-> n, index |-> i]
      BY <2>3
    <2>6. PICK place \in Place : place = "loop" /\ pc' = [pc EXCEPT ![q] = place]
      BY <1>13 DEF WakeUp, Goto, Place, Running
    <2>7. mode' = mode /\ UNCHANGED <<cell, permit, queue>>
      BY <1>13 DEF WakeUp, cellVars
    <2>8. /\ cell' \in Query \cup {None} /\ permit' \in Query \cup {None}
          /\ queue' \in Seq(Query)
      BY <2>7 DEF FInv, TypeOK
    <2> QED
      BY <2>1, <2>2, <2>3, <2>4, <2>5, <2>6, <2>7, <2>8, OneMoves
  <1>14. ASSUME NEW q \in Query, Dropped(q)
         PROVE  FInv'
    <2>1. /\ CellInv' /\ permit' \in Query \cup {None} /\ queue' \in Seq(Query)
          /\ cell' \in Query \cup {None}
      <3>1. LeaveCell(q) /\ pc' = [pc EXCEPT ![q] = "dropped"]
        BY <1>14 DEF Dropped, Goto
      <3>2. cell' = cell /\ cell \in Query \cup {None}
        BY <1>1, <3>1 DEF LeaveCell, TypeOK
      <3>3. CellInv' /\ permit' \in Query \cup {None} /\ queue' \in Seq(Query)
        BY <1>1, <3>1, LeaveCellKeeps
      <3> QED
        BY <3>2, <3>3
    <2> QED
      BY <1>14, <2>1, OneLosesAll DEF Dropped, Goto
  <1>15. CASE UNCHANGED vars
    BY <1>15 DEF FInv, TypeOK, CellInv, BatchesInv, PlacesInv, vars
  <1> QED
    BY <1>2, <1>3, <1>4, <1>5, <1>6, <1>7, <1>8, <1>9, <1>10, <1>11, <1>12, <1>13, <1>14, <1>15
       DEF Next, CellStep, ConnectEnds, Server, Done

\* The inductive invariant holds along every behaviour.
THEOREM ChannelInvariance == Spec => []FInv
  BY InitFInv, NextKeepsFInv, PTL DEF Spec

-----------------------------------------------------------------------------
(* What the queries rely on                                                *)

\* No query counts more than `max_retries` failed attempts, and the cell, the
\* permit and the queue hold queries only.
THEOREM ChannelTypeCorrect == Spec => []TypeOK
  <1>1. FInv => TypeOK
    BY DEF FInv
  <1> QED
    BY <1>1, ChannelInvariance, PTL

\* The permit of the OnceCell is never lost, whichever query fails, times out or
\* is dropped, in any order and among any number of them.
THEOREM PermitIsKept == Spec => []PermitNotLost
  <1>1. FInv => PermitNotLost
    <2> SUFFICES ASSUME TypeOK, CellInv PROVE PermitNotLost
      BY DEF FInv
    <2>1. \A i \in DOMAIN queue : queue[i] \in ToSet(queue)
      BY DEF ToSet
    <2>2. \A q \in ToSet(queue) : \E i \in DOMAIN queue : queue[i] = q
      BY DEF ToSet
    <2>3. permit = None => queue = <<>>
      BY DEF CellInv
    <2>4. ASSUME NEW i \in DOMAIN queue
          PROVE  pc[queue[i]] = "waiting" /\ queue[i] # permit
      <3>1. permit # None
        <4>1. queue # <<>>
          BY <2>4
        <4> QED
          BY <2>3, <4>1
      <3> QED
        BY <2>1, <2>4, <3>1 DEF CellInv
    <2> QED
      BY <2>2, <2>3, <2>4 DEF CellInv, PermitNotLost
  <1> QED
    BY <1>1, ChannelInvariance, PTL

\* What an awaited query returns is the whole answer to its last attempt.
THEOREM AnswerIsWhole == Spec => []WholeAnswer
  <1>1. FInv => WholeAnswer
    <2> SUFFICES ASSUME FInv, NEW q \in Query, mode[q] = "collect", pc[q] = "ok"
                 PROVE  got[q] = [i \in 1..Answer |-> [attempt |-> attempt[q], index |-> i]]
      BY DEF WholeAnswer
    <2>1. PICK held \in Batches : held = got[q]
      BY DEF FInv, TypeOK, Batches
    <2>2. /\ Len(held) = Answer
          /\ \A i \in 1..Answer : held[i] = [attempt |-> attempt[q], index |-> i]
      BY <2>1 DEF FInv, BatchesInv
    <2>3. held = [i \in 1..Answer |-> held[i]]
      BY <2>2 DEF Batches
    <2> QED
      BY <2>1, <2>2, <2>3
  <1> QED
    BY <1>1, ChannelInvariance, PTL

\* A query whose stream was handed out, or which has ended, never goes back to
\* its retry loop: DoGet is not called again for it.
THEOREM StreamsAreNotReplayed == Spec => NotReissued
  <1> DEFINE Final(q) == /\ pc[q] = "open" => pc'[q] \in Ended \cup {"open"}
                         /\ pc[q] \in Ended => pc'[q] = pc[q]
  <1>1. ASSUME TypeOK, [Next]_vars
        PROVE  \A q \in Query : Final(q)
    <2>1. ASSUME NEW q \in Query, NEW r \in Query, NEW place,
                 pc' = [pc EXCEPT ![r] = place],
                 pc[r] \notin Ended,
                 pc[r] = "open" => place \in Ended \cup {"open"}
          PROVE  Final(q)
      BY <1>1, <2>1 DEF TypeOK
    <2>2. CASE UNCHANGED pc
      BY <2>2
    <2>3. CASE \E r \in Query :
                 \/ Start(r) \/ CellStep(r) \/ ConnectEnds(r) \/ Answered(r)
                 \/ RequestFails(r) \/ TimesOut(r) \/ WakeUp(r)
      <3>1. PICK r \in Query :
              /\ pc[r] \notin Ended \cup {"open"}
              /\ \E place \in Place : pc' = [pc EXCEPT ![r] = place]
        BY <2>3 DEF Start, CellStep, EnterCell, LeaveQueue, ConnectEnds, Connected, ConnectFails,
                    Answered, RequestFails, AttemptFailed, TimesOut, WakeUp,
                    Goto, Ended, Place, Running
      <3> QED
        BY <2>1, <3>1
    <2>4. CASE \E r \in Query : EndOfStream(r) \/ StreamBreaks(r) \/ Dropped(r)
      <3>1. PICK r \in Query :
              /\ pc[r] \notin Ended
              /\ \E place \in Place : /\ pc' = [pc EXCEPT ![r] = place]
                                      /\ pc[r] = "open" => place \in Ended
        BY <2>4 DEF EndOfStream, StreamBreaks, Dropped, AttemptFailed,
                    Goto, Ended, Place, Running
      <3>2. PICK place \in Place : /\ pc' = [pc EXCEPT ![r] = place]
                                   /\ pc[r] = "open" => place \in Ended \cup {"open"}
        BY <3>1
      <3> QED
        BY <2>1, <3>1, <3>2
    <2>5. ASSUME NEW r \in Query, NextBatch(r)
          PROVE  UNCHANGED pc
      BY <2>5 DEF NextBatch
    <2>6. Done \/ UNCHANGED vars => UNCHANGED pc
      BY DEF Done, vars
    <2> QED
      BY <1>1, <2>2, <2>3, <2>4, <2>5, <2>6 DEF Next, Server
  <1> QED
    BY <1>1, ChannelTypeCorrect, PTL DEF Spec, NotReissued
=============================================================================

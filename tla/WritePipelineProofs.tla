------------------------- MODULE WritePipelineProofs -------------------------
(***************************************************************************)
(* Proofs about WritePipeline, for every number of batches, every limit,   *)
(* every retry policy and both kinds of network.                           *)
(***************************************************************************)
EXTENDS WritePipeline, FiniteSetTheorems, TLAPS

-----------------------------------------------------------------------------
(* The log only grows                                                      *)

\* What is stored stays stored: a step of the pipeline appends to the log or
\* leaves it alone.
LEMMA AppendKeeps ==
    ASSUME NEW l \in Seq(Entry), NEW e \in Entry
    PROVE  /\ Append(l, e) \in Seq(Entry)
           /\ DOMAIN Append(l, e) = DOMAIN l \cup {Len(l) + 1}
           /\ \A i \in DOMAIN l : Append(l, e)[i] = l[i]
           /\ Append(l, e)[Len(l) + 1] = e
  OBVIOUS

\* A request that is stored, in full or in part, is stored at the end of the log.
LEMMA HandleAppends ==
    ASSUME TypeOK, NEW r \in net, NEW e \in Effect, e[1] # "none",
           log' = Append(log, [batch |-> r.batch, lines |-> e[1]])
    PROVE  /\ log' \in Seq(Entry)
           /\ DOMAIN log = 1..Len(log) /\ Len(log) \in Nat
           /\ DOMAIN log' = DOMAIN log \cup {Len(log) + 1}
           /\ \A k \in DOMAIN log : log'[k] = log[k]
           /\ log'[Len(log) + 1] = [batch |-> r.batch, lines |-> e[1]]
  <1>1. r \in Request /\ r.batch \in Batch
    BY DEF TypeOK, Request
  <1>2. [batch |-> r.batch, lines |-> e[1]] \in Entry
    BY <1>1 DEF Entry, Effect
  <1>3. log \in Seq(Entry)
    BY DEF TypeOK
  <1>4. DOMAIN log = 1..Len(log) /\ Len(log) \in Nat
    BY <1>3
  <1> QED
    BY <1>2, <1>3, <1>4, AppendKeeps

\* A request of the network, once handled, is stored in full, in part or not
\* at all; what was stored before still is.
LEMMA HandleStores ==
    ASSUME TypeOK, NEW r \in net, NEW e \in Effect,
           log' = IF e[1] = "none" THEN log
                  ELSE Append(log, [batch |-> r.batch, lines |-> e[1]])
    PROVE  /\ log' \in Seq(Entry)
           /\ \A b \in Batch : Stored(b) => Stored(b)'
           /\ e[1] = "all" => Stored(r.batch)'
           /\ \A i \in DOMAIN log' :
                \/ i \in DOMAIN log /\ log'[i] = log[i]
                \/ log'[i].batch = r.batch
  <1>1. r \in Request /\ r.batch \in Batch
    BY DEF TypeOK, Request
  <1>2. CASE e[1] = "none"
    BY <1>2 DEF TypeOK, Stored
  <1>3. CASE e[1] # "none"
    <2>1. /\ log' \in Seq(Entry)
          /\ DOMAIN log' = DOMAIN log \cup {Len(log) + 1}
          /\ \A i \in DOMAIN log : log'[i] = log[i]
          /\ log'[Len(log) + 1] = [batch |-> r.batch, lines |-> e[1]]
      BY <1>3, HandleAppends
    <2> QED
      BY <2>1 DEF Stored
  <1> QED
    BY <1>2, <1>3
-----------------------------------------------------------------------------
(* The inductive invariant                                                 *)

ErrorKind == Kind \ {"new", "pending", "ok"}

\* A call that was built and not awaited satisfies the invariant.
LEMMA InitIInv == Init => IInv
  <1> SUFFICES ASSUME Init PROVE IInv
    OBVIOUS
  <1>1. TypeOK
    BY ConstantsAssumption DEF Init, TypeOK, Kind, TaskState, Batch
  <1>2. AckedStored /\ FuturesArePulled /\ AttemptsCounted /\ ReturnSettles
    BY ConstantsAssumption
    DEF Init, AckedStored, FuturesArePulled, AttemptsCounted, ReturnSettles,
        Returned, Live, Batch
  <1> QED
    BY <1>1, <1>2 DEF IInv

\* Returning an error, from whatever place in the code, keeps the invariant.
LEMMA FailKeepsIInv ==
    ASSUME IInv, ~Returned, NEW kind \in ErrorKind, NEW b \in Live \cup {0},
           Fail(kind, b)
    PROVE  IInv'
  <1> USE ConstantsAssumption
  <1>1. Live \subseteq Batch /\ 0 \notin Batch
    BY DEF Live, Batch
  <1>2. TypeOK'
    BY <1>1 DEF IInv, TypeOK, Fail, callConst, NetWithout, ErrorKind, Kind, TaskState, Batch
  <1>3. \A c \in Batch : /\ task'[c] = "waiting" <=> task[c] = "waiting"
                         /\ task'[c] = "done" <=> task[c] = "done"
                         /\ task'[c] \notin {"ready", "sending", "backoff"}
    BY <1>1 DEF IInv, TypeOK, Fail, Live, TaskState
  <1>4. AckedStored'
    BY <1>3 DEF IInv, AckedStored, Fail, Stored
  <1>5. FuturesArePulled'
    BY <1>3 DEF IInv, FuturesArePulled, Fail, callConst
  <1>6. AttemptsCounted'
    BY <1>3 DEF IInv, AttemptsCounted, Fail, NetWithout
  <1>7. ReturnSettles'
    BY <1>3 DEF IInv, ReturnSettles, Fail, Returned, Live, ErrorKind, Kind
  <1> QED
    BY <1>2, <1>4, <1>5, <1>6, <1>7 DEF IInv

\* A future that moves from one live state to another, or finishes, as its
\* neighbours stay as they are: the facts common to those steps.
LEMMA MoveKeepsIInv ==
    ASSUME IInv, ~Returned, NEW b \in Live,
           NEW to \in {"ready", "sending", "backoff", "done"},
           task' = [task EXCEPT ![b] = to],
           attempts' \in [Batch -> 0..(MaxRetries + 1)],
           \A c \in Batch : attempts'[c] = attempts[c] \/ (c = b /\ attempts'[c] > 0),
           to \in {"ready", "backoff"} => attempts'[b] <= MaxRetries,
           to \in {"sending", "backoff", "done"} => attempts'[b] > 0,
           to = "done" => Stored(b),
           net' \subseteq Request, \A r \in net' : attempts'[r.batch] > 0,
           replies' \subseteq {m \in replies : m.batch # b},
           UNCHANGED <<callConst, result, pulled, log>>
    PROVE  IInv'
  <1> USE ConstantsAssumption
  <1>1. b \in Batch
    BY DEF Live
  <1>2. TypeOK'
    BY <1>1 DEF IInv, TypeOK, callConst, TaskState
  <1>3. AckedStored'
    BY <1>1 DEF IInv, TypeOK, AckedStored, Stored
  <1>4. FuturesArePulled'
    BY <1>1 DEF IInv, TypeOK, FuturesArePulled, callConst, Live
  <1>5. AttemptsCounted'
    <2>1. \A i \in DOMAIN log' : attempts'[log'[i].batch] > 0
      <3> SUFFICES ASSUME NEW i \in DOMAIN log PROVE attempts'[log[i].batch] > 0
        BY DEF callConst
      <3>1. log \in Seq(Entry) /\ i \in 1..Len(log)
        BY DEF IInv, TypeOK
      <3>2. log[i] \in Entry
        BY <3>1
      <3>3. log[i].batch \in Batch
        BY <3>2 DEF Entry
      <3> QED
        BY <3>3 DEF IInv, TypeOK, AttemptsCounted
    <2> QED
      BY <1>1, <2>1 DEF IInv, TypeOK, AttemptsCounted, Live
  <1>6. ReturnSettles'
    BY <1>1 DEF IInv, TypeOK, ReturnSettles, Returned, Live, Kind, callConst
  <1> QED
    BY <1>2, <1>3, <1>4, <1>5, <1>6 DEF IInv

\* The caller's own steps.
LEMMA CallerKeepsIInv == IInv /\ (Caller \/ Cancel) => IInv'
  <1> USE ConstantsAssumption
  <1> SUFFICES ASSUME IInv, Caller \/ Cancel PROVE IInv'
    OBVIOUS
  <1>1. CASE Validate
    <2>1. CASE Fail("config", 0)
      BY <1>1, <2>1, FailKeepsIInv DEF Validate, Returned, ErrorKind, Kind
    <2>2. CASE /\ result' = [kind |-> "pending", batch |-> 0]
               /\ UNCHANGED <<callConst, pulled, task, attempts, net, replies, log>>
      <3>1. TypeOK'
        BY <2>2 DEF IInv, TypeOK, callConst, Kind
      <3>2. AckedStored' /\ FuturesArePulled' /\ AttemptsCounted'
        BY <2>2 DEF IInv, AckedStored, Stored, FuturesArePulled, AttemptsCounted, callConst
      <3>3. ReturnSettles'
        BY <1>1, <2>2 DEF Validate, IInv, TypeOK, ReturnSettles, Returned, Live
      <3> QED
        BY <3>1, <3>2, <3>3 DEF IInv
    <2> QED
      BY <1>1, <2>1, <2>2 DEF Validate
  <1>2. CASE Pull
    <2> DEFINE p == pulled + 1
    <2>1. p \in Batch /\ p <= input.n /\ task[p] = "waiting" /\ attempts[p] = 0
      BY <1>2 DEF Pull, MayPull, IInv, TypeOK, FuturesArePulled, AttemptsCounted, Batch
    <2>2. TypeOK'
      BY <1>2, <2>1 DEF Pull, IInv, TypeOK, callConst, TaskState, Batch
    <2>3. AckedStored'
      BY <1>2, <2>1 DEF Pull, IInv, TypeOK, AckedStored, Stored
    <2>4. FuturesArePulled'
      BY <1>2, <2>1 DEF Pull, IInv, TypeOK, FuturesArePulled, callConst, Batch
    <2>5. AttemptsCounted'
      BY <1>2, <2>1 DEF Pull, IInv, TypeOK, AttemptsCounted
    <2>6. ReturnSettles'
      BY <1>2, <2>1 DEF Pull, MayPull, Pending, IInv, TypeOK, ReturnSettles, Returned, Live
    <2> QED
      BY <2>2, <2>3, <2>4, <2>5, <2>6 DEF IInv
  <1>3. CASE PullErr
    BY <1>3, FailKeepsIInv DEF PullErr, MayPull, Pending, Returned, ErrorKind, Kind
  <1>4. CASE Finish
    <2>1. \A b \in 1..input.n : task[b] = "done"
      <3> SUFFICES ASSUME NEW b \in 1..input.n PROVE task[b] = "done"
        OBVIOUS
      <3>1. b \in Batch /\ b <= pulled /\ pulled \in Nat
        BY <1>4 DEF Finish, IInv, TypeOK, Batch
      <3>2. task[b] # "waiting"
        BY <3>1 DEF IInv, FuturesArePulled, Batch
      <3>3. task[b] \notin {"ready", "sending", "backoff"}
        BY <1>4, <3>1 DEF Finish, Live
      <3>4. task[b] \notin {"failed", "dropped"}
        BY <1>4, <3>1 DEF Finish, Pending, Returned, IInv, ReturnSettles
      <3> QED
        BY <3>1, <3>2, <3>3, <3>4 DEF IInv, TypeOK, TaskState
    <2>2. replies = {}
      BY <1>4 DEF Finish, IInv, TypeOK, AckedStored, Live, Reply
    <2>3. TypeOK'
      BY <1>4 DEF Finish, IInv, TypeOK, callConst, Kind
    <2>4. AckedStored' /\ FuturesArePulled' /\ AttemptsCounted'
      BY <1>4 DEF Finish, IInv, AckedStored, Stored, FuturesArePulled, AttemptsCounted, callConst
    <2>5. ReturnSettles'
      BY <1>4, <2>1, <2>2 DEF Finish, ReturnSettles, Returned, Live, callConst
    <2> QED
      BY <2>3, <2>4, <2>5 DEF IInv
  <1>5. CASE Cancel
    BY <1>5, FailKeepsIInv DEF Cancel, ErrorKind, Kind
  <1> QED
    BY <1>1, <1>2, <1>3, <1>4, <1>5 DEF Caller

\* What the network loses when an attempt is given up was on it before.
LEMMA NetWithoutShrinks == \A gone : NetWithout(gone) \subseteq net
  BY DEF NetWithout

\* After a failed attempt the future fails with the last error or sleeps.
LEMMA GiveUpOrSleepKeepsIInv ==
    ASSUME IInv, ~Returned, NEW b \in Batch, task[b] = "sending", GiveUpOrSleep(b)
    PROVE  IInv'
  <1>1. b \in Live /\ attempts[b] > 0
    BY DEF Live, IInv, AttemptsCounted
  <1>2. CASE Fail("exhausted", b)
    BY <1>1, <1>2, FailKeepsIInv DEF ErrorKind, Kind
  <1>3. CASE /\ attempts[b] <= MaxRetries
             /\ task' = [task EXCEPT ![b] = "backoff"]
             /\ net' = NetWithout({b})
             /\ replies' = {m \in replies : m.batch # b}
             /\ UNCHANGED <<callConst, result, pulled, attempts, log>>
    <2>1. net' \subseteq net
      BY <1>3, NetWithoutShrinks
    <2>2. net' \subseteq Request /\ \A r \in net' : attempts'[r.batch] > 0
      BY <1>3, <2>1 DEF IInv, TypeOK, AttemptsCounted
    <2>3. attempts' \in [Batch -> 0..(MaxRetries + 1)]
      BY <1>3 DEF IInv, TypeOK
    <2> QED
      BY <1>1, <1>3, <2>2, <2>3, MoveKeepsIInv
  <1> QED
    BY <1>2, <1>3 DEF GiveUpOrSleep

\* The steps of a batch future.
LEMMA FutureKeepsIInv ==
    ASSUME IInv, NEW b \in Batch, Future(b)
    PROVE  IInv'
  <1> USE ConstantsAssumption
  <1>1. task[b] \in {"ready", "sending", "backoff"} => b \in Live /\ ~Returned
    BY DEF Live, IInv, ReturnSettles
  <1>2. CASE SetupFails(b)
    BY <1>1, <1>2, FailKeepsIInv DEF SetupFails, ErrorKind, Kind
  <1>3. CASE Send(b)
    <2>1. attempts[b] \in Nat /\ attempts[b] <= MaxRetries
      BY <1>3 DEF Send, IInv, TypeOK, AttemptsCounted
    <2>2. attempts' \in [Batch -> 0..(MaxRetries + 1)] /\ attempts'[b] > 0
      BY <1>3, <2>1 DEF Send, IInv, TypeOK
    <2>3. \A c \in Batch : attempts'[c] = attempts[c] \/ (c = b /\ attempts'[c] > 0)
      BY <1>3, <2>2 DEF Send, IInv, TypeOK
    <2>4. net' \subseteq Request
      BY <1>3, <2>1 DEF Send, IInv, TypeOK, Request
    <2>5. \A r \in net' : attempts'[r.batch] > 0
      BY <1>3, <2>2, <2>3 DEF Send, IInv, TypeOK, AttemptsCounted, Request
    <2>6. replies' \subseteq {m \in replies : m.batch # b}
      BY <1>3 DEF Send, IInv, AckedStored
    <2> QED
      BY <1>1, <1>3, <2>2, <2>3, <2>4, <2>5, <2>6, MoveKeepsIInv DEF Send
  <1>4. CASE Answered(b)
    <2>1. PICK m \in replies :
            /\ m.batch = b
            /\ \/ /\ m.code = "ok"
                  /\ task' = [task EXCEPT ![b] = "done"]
                  /\ replies' = {c \in replies : c.batch # b}
                  /\ UNCHANGED <<callConst, result, pulled, attempts, net, log>>
               \/ m.code = "fatal" /\ Fail("fatal", b)
               \/ m.code = "transient" /\ GiveUpOrSleep(b)
      BY <1>4 DEF Answered
    <2>2. task[b] = "sending"
      BY <2>1 DEF IInv, AckedStored
    <2>3. CASE m.code = "ok"
      <3>1. Stored(b) /\ attempts[b] > 0
        BY <2>1, <2>2, <2>3 DEF IInv, AckedStored, AttemptsCounted
      <3>2. /\ task' = [task EXCEPT ![b] = "done"]
            /\ replies' = {c \in replies : c.batch # b}
            /\ UNCHANGED <<callConst, result, pulled, attempts, net, log>>
        BY <2>1, <2>3
      <3>3. attempts' \in [Batch -> 0..(MaxRetries + 1)]
        BY <3>2 DEF IInv, TypeOK
      <3>4. net' \subseteq Request /\ \A r \in net' : attempts'[r.batch] > 0
        BY <3>2 DEF IInv, TypeOK, AttemptsCounted
      <3> QED
        BY <1>1, <2>2, <3>1, <3>2, <3>3, <3>4, MoveKeepsIInv
    <2>4. CASE Fail("fatal", b)
      BY <1>1, <2>2, <2>4, FailKeepsIInv DEF ErrorKind, Kind
    <2>5. CASE GiveUpOrSleep(b)
      BY <1>1, <2>2, <2>5, GiveUpOrSleepKeepsIInv
    <2> QED
      BY <2>1, <2>3, <2>4, <2>5
  <1>5. CASE TransportError(b)
    <2>1. CASE GiveUpOrSleep(b)
      BY <1>1, <1>5, <2>1, GiveUpOrSleepKeepsIInv DEF TransportError
    <2>2. CASE Fail("fatal", b)
      BY <1>1, <1>5, <2>2, FailKeepsIInv DEF TransportError, ErrorKind, Kind
    <2> QED
      BY <1>5, <2>1, <2>2 DEF TransportError
  <1>6. CASE Wake(b)
    <2>1. attempts[b] \in Nat /\ attempts[b] > 0 /\ attempts[b] <= MaxRetries
      BY <1>6 DEF Wake, IInv, TypeOK, AttemptsCounted
    <2>2. attempts' \in [Batch -> 0..(MaxRetries + 1)]
      BY <1>6 DEF Wake, IInv, TypeOK
    <2>3. net' \subseteq Request /\ \A r \in net' : attempts'[r.batch] > 0
      BY <1>6 DEF Wake, IInv, TypeOK, AttemptsCounted
    <2>4. replies' \subseteq {m \in replies : m.batch # b}
      BY <1>6 DEF Wake, IInv, AckedStored
    <2> QED
      BY <1>1, <1>6, <2>1, <2>2, <2>3, <2>4, MoveKeepsIInv DEF Wake
  <1> QED
    BY <1>2, <1>3, <1>4, <1>5, <1>6 DEF Future

\* The steps of the server and of the network.
LEMMA ServerKeepsIInv ==
    ASSUME IInv, NEW r \in net, ServerHandles(r) \/ RequestLost(r)
    PROVE  IInv'
  <1> USE ConstantsAssumption
  <1>1. r \in Request /\ r.batch \in Batch /\ attempts[r.batch] > 0
    BY DEF IInv, TypeOK, Request, AttemptsCounted
  <1>2. CASE ServerHandles(r)
    <2>1. PICK e \in Effect :
            /\ net' = net \ {r}
            /\ log' = IF e[1] = "none" THEN log
                      ELSE Append(log, [batch |-> r.batch, lines |-> e[1]])
            /\ replies' = IF Awaited(r)
                          THEN replies \cup {[batch |-> r.batch, code |-> e[2]]}
                          ELSE replies
            /\ UNCHANGED <<callConst, result, pulled, task, attempts>>
      BY <1>2 DEF ServerHandles
    <2>2. /\ log' \in Seq(Entry)
          /\ \A b \in Batch : Stored(b) => Stored(b)'
          /\ e[1] = "all" => Stored(r.batch)'
          /\ \A i \in DOMAIN log' :
               (i \in DOMAIN log /\ log'[i] = log[i]) \/ log'[i].batch = r.batch
      BY <2>1, HandleStores DEF IInv
    <2>3. e[2] \in {"ok", "transient", "fatal"} /\ (e[2] = "ok" => e[1] = "all")
      BY DEF Effect
    <2>4. replies' \subseteq Reply
      BY <1>1, <2>1, <2>3 DEF IInv, TypeOK, Reply
    <2>5. TypeOK'
      BY <2>1, <2>2, <2>4 DEF IInv, TypeOK, callConst
    <2>6. AckedStored'
      BY <1>1, <2>1, <2>2, <2>3 DEF IInv, TypeOK, AckedStored, Awaited, Reply
    <2>7. FuturesArePulled' /\ AttemptsCounted'
      BY <1>1, <2>1, <2>2 DEF IInv, FuturesArePulled, AttemptsCounted, callConst
    <2>8. ReturnSettles'
      BY <1>1, <2>1 DEF IInv, ReturnSettles, Returned, Live, Awaited, callConst
    <2> QED
      BY <2>5, <2>6, <2>7, <2>8 DEF IInv
  <1>3. CASE RequestLost(r)
    BY <1>3 DEF RequestLost, IInv, TypeOK, AckedStored, Stored, FuturesArePulled,
                AttemptsCounted, ReturnSettles, Returned, Live, callConst
  <1> QED
    BY <1>2, <1>3

\* The invariant of every write call.
THEOREM Invariance == Spec => []IInv
  <1>1. IInv /\ [Next]_vars => IInv'
    <2> SUFFICES ASSUME IInv, [Next]_vars PROVE IInv'
      OBVIOUS
    <2>1. CASE Caller \/ Cancel
      BY <2>1, CallerKeepsIInv
    <2>2. CASE \E b \in Batch : Future(b)
      BY <2>2, FutureKeepsIInv
    <2>3. CASE \E r \in net : ServerHandles(r) \/ RequestLost(r)
      BY <2>3, ServerKeepsIInv
    <2>4. CASE UNCHANGED vars
      BY <2>4 DEF vars, callConst, IInv, TypeOK, AckedStored, Stored, FuturesArePulled,
                  AttemptsCounted, ReturnSettles, Returned, Live
    <2> QED
      BY <2>1, <2>2, <2>3, <2>4 DEF Next
  <1> QED
    BY <1>1, InitIInv, PTL DEF Spec

\* Every variable of a call stays in its type.
THEOREM TypeCorrect == Spec => []TypeOK
  BY Invariance, PTL DEF IInv

\* `Ok(())` means stored: over any input, any network and any retry policy.
THEOREM OkIsStored == Spec => []OkMeansStored
  <1>1. IInv => OkMeansStored
    <2> SUFFICES ASSUME IInv, result.kind = "ok"
                 PROVE  (\A b \in 1..input.n : Stored(b)) /\ input.bad = 0
      BY DEF OkMeansStored
    <2>1. \A b \in 1..input.n : b \in Batch /\ task[b] = "done"
      BY ConstantsAssumption DEF IInv, TypeOK, ReturnSettles, Batch
    <2>2. input.bad = 0
      BY ConstantsAssumption DEF IInv, TypeOK, ReturnSettles, FuturesArePulled
    <2> QED
      BY <2>1, <2>2 DEF IInv, AckedStored
  <1> QED
    BY <1>1, Invariance, PTL

\* A batch that cannot be encoded, and every batch after it, stays unsent.
THEOREM BadBatchStops == Spec => []NothingPastBadBatch
  <1>1. IInv => NothingPastBadBatch
    <2> SUFFICES ASSUME IInv, input.bad > 0, NEW i \in DOMAIN log
                 PROVE  log[i].batch < input.bad
      BY DEF NothingPastBadBatch
    <2>1. log[i] \in Entry
      BY DEF IInv, TypeOK
    <2>2. log[i].batch \in Batch /\ task[log[i].batch] # "waiting"
      BY <2>1 DEF IInv, AttemptsCounted, Entry
    <2> QED
      BY <2>2, ConstantsAssumption DEF IInv, TypeOK, FuturesArePulled, Batch
  <1> QED
    BY <1>1, Invariance, PTL

-----------------------------------------------------------------------------
(* The pool                                                                *)

\* Only Pull puts a future in the pool or takes a batch out of the iterator,
\* and a batch that is done stays done.
LEMMA OnlyPullGrows ==
    ASSUME IInv, [Next]_vars
    PROVE  /\ \A b \in Batch : task[b] = "done" => task'[b] = "done"
           /\ Pull \/ /\ Live' \subseteq Live
                      /\ \A b \in Batch : task'[b] = "waiting" <=> task[b] = "waiting"
  <1> DEFINE Kept == /\ \A b \in Batch : task[b] = "done" => task'[b] = "done"
                     /\ Live' \subseteq Live
                     /\ \A b \in Batch : task'[b] = "waiting" <=> task[b] = "waiting"
  <1> USE DEF IInv, TypeOK, TaskState
  <1>1. ASSUME NEW kind, NEW b \in Live \cup {0}, Fail(kind, b) PROVE Kept
    BY <1>1, ConstantsAssumption DEF Fail, Live, Batch
  <1>2. ASSUME NEW b \in Live, NEW to \in {"ready", "sending", "backoff", "done"},
               task' = [task EXCEPT ![b] = to]
        PROVE  Kept
    BY <1>2 DEF Live
  <1>3. ASSUME NEW b \in Batch, task[b] = "sending", GiveUpOrSleep(b) PROVE Kept
    BY <1>1, <1>2, <1>3 DEF GiveUpOrSleep, Live
  <1>4. CASE Caller \/ Cancel
    <2>1. CASE Pull
      <3>1. task[pulled + 1] = "waiting" /\ pulled + 1 \in Batch
        BY <2>1, ConstantsAssumption DEF Pull, MayPull, FuturesArePulled, Batch
      <3> QED
        BY <2>1, <3>1 DEF Pull
    <2>2. CASE UNCHANGED task
      BY <2>2 DEF Live
    <2> QED
      BY <1>1, <1>4, <2>1, <2>2 DEF Caller, Cancel, Validate, PullErr, Finish
  <1>5. ASSUME NEW b \in Batch, Future(b) PROVE Kept
    <2>1. CASE SetupFails(b)
      BY <1>1, <2>1 DEF SetupFails, Live
    <2>2. CASE Send(b) \/ Wake(b)
      BY <1>2, <2>2 DEF Send, Wake, Live
    <2>3. CASE Answered(b)
      <3>1. task[b] = "sending"
        BY <2>3 DEF Answered, AckedStored
      <3> QED
        BY <1>1, <1>2, <1>3, <2>3, <3>1 DEF Answered, Live
    <2>4. CASE TransportError(b)
      BY <1>1, <1>3, <2>4 DEF TransportError, Live
    <2> QED
      BY <1>5, <2>1, <2>2, <2>3, <2>4 DEF Future
  <1>6. CASE UNCHANGED task
    BY <1>6 DEF Live
  <1>7. (\E r \in net : ServerHandles(r) \/ RequestLost(r)) => UNCHANGED task
    BY DEF ServerHandles, RequestLost
  <1> QED
    BY <1>4, <1>5, <1>6, <1>7 DEF Next, vars

\* The limit of a call is a positive number and does not change.
LEMMA LimitKept ==
    ASSUME IInv, [Next]_vars
    PROVE  Limit \in Nat \ {0} /\ Limit' = Limit
  <1>1. options.max_inflight \in Nat
    BY ConstantsAssumption DEF IInv, TypeOK, Options
  <1>2. ASSUME NEW kind, NEW b, Fail(kind, b) PROVE options' = options
    BY <1>2 DEF Fail, callConst
  <1>3. ASSUME NEW b, GiveUpOrSleep(b) PROVE options' = options
    BY <1>2, <1>3 DEF GiveUpOrSleep, callConst
  <1>4. CASE Caller \/ Cancel
    BY <1>1, <1>2, <1>4
    DEF Caller, Cancel, Validate, Pull, PullErr, Finish, callConst, Limit
  <1>5. ASSUME NEW b \in Batch, Future(b) PROVE options' = options
    BY <1>2, <1>3, <1>5
    DEF Future, SetupFails, Send, Answered, TransportError, Wake, callConst
  <1>6. ASSUME NEW q \in net, ServerHandles(q) \/ RequestLost(q) PROVE options' = options
    BY <1>6 DEF ServerHandles, RequestLost, callConst
  <1> QED
    BY <1>1, <1>4, <1>5, <1>6 DEF Next, vars, Limit

\* At most `max_inflight` bodies are held, whatever finishes or fails when.
THEOREM PoolIsBounded == Spec => []InflightBounded
  <1> USE ConstantsAssumption
  <1>1. IsFiniteSet(Live) /\ Cardinality(Live) \in Nat
    <2>1. IsFiniteSet(Batch)
      BY FS_Interval DEF Batch
    <2> QED
      BY <2>1, FS_Subset, FS_CardinalityType DEF Live
  <1>2. Init => InflightBounded
    <2>1. Init => Live = {}
      BY DEF Init, Live
    <2>2. Cardinality({}) = 0
      BY FS_EmptySet
    <2>3. Init => Limit \in Nat
      BY DEF Init, Options, Limit
    <2>4. ASSUME Init PROVE Cardinality(Live) <= Limit
      <3>1. Cardinality(Live) = 0 /\ Limit \in Nat
        BY <2>1, <2>2, <2>3, <2>4
      <3> QED
        BY <3>1
    <2> QED
      BY <2>4 DEF InflightBounded
  <1>3. IInv /\ InflightBounded /\ [Next]_vars => InflightBounded'
    <2> SUFFICES ASSUME IInv, InflightBounded, [Next]_vars PROVE InflightBounded'
      OBVIOUS
    <2>0. Limit \in Nat \ {0} /\ Limit' = Limit
      BY LimitKept
    <2>1. CASE Pull
      <3>1. Live' = Live \cup {pulled + 1}
        BY <2>1 DEF Pull, MayPull, Live, IInv, TypeOK, Batch
      <3>a. Cardinality(Live \cup {pulled + 1}) = IF pulled + 1 \in Live
                THEN Cardinality(Live) ELSE Cardinality(Live) + 1
        BY <1>1, FS_AddElement
      <3>2. Cardinality(Live') <= Cardinality(Live) + 1
        BY <1>1, <3>1, <3>a
      <3>3. Cardinality(Live') \in Nat
        BY <1>1, <3>1, FS_AddElement
      <3> QED
        BY <1>1, <2>0, <2>1, <3>2, <3>3 DEF Pull, MayPull, InflightBounded
    <2>2. CASE Live' \subseteq Live
      <3>1. Cardinality(Live') <= Cardinality(Live) /\ Cardinality(Live') \in Nat
        BY <1>1, <2>2, FS_Subset, FS_CardinalityType
      <3> QED
        BY <1>1, <2>0, <3>1 DEF InflightBounded
    <2> QED
      BY <2>1, <2>2, OnlyPullGrows
  <1> QED
    BY <1>2, <1>3, Invariance, PTL DEF Spec

\* With max_inflight = 1 (or 0) a batch is sent only once every earlier one is
\* acknowledged.
THEOREM Sequential == Spec => []OneAtATime
  <1> USE ConstantsAssumption
  <1>1. Init => OneAtATime
    BY DEF Init, OneAtATime
  <1>2. IInv /\ OneAtATime /\ [Next]_vars => OneAtATime'
    <2> SUFFICES ASSUME IInv, OneAtATime, [Next]_vars, Limit = 1,
                        NEW b \in Batch, NEW c \in Batch, c < b, task'[b] # "waiting"
                 PROVE  task'[c] = "done"
      BY LimitKept DEF OneAtATime
    <2>1. CASE task[b] # "waiting"
      BY <2>1, OnlyPullGrows DEF OneAtATime
    <2>2. CASE task[b] = "waiting"
      <3>1. Pull /\ b = pulled + 1
        BY <2>2, OnlyPullGrows DEF Pull, IInv, TypeOK
      <3>2. IsFiniteSet(Live) /\ Cardinality(Live) = 0
        <4>1. IsFiniteSet(Live)
          <5>1. IsFiniteSet(Batch)
            BY FS_Interval DEF Batch
          <5> QED
            BY <5>1, FS_Subset DEF Live
        <4> QED
          BY <3>1, <4>1, FS_CardinalityType DEF Pull, MayPull
      <3>3. Live = {}
        BY <3>2, FS_EmptySet
      <3>4. task[c] # "waiting"
        BY <3>1 DEF IInv, TypeOK, FuturesArePulled, Batch
      <3>5. task[c] \notin {"failed", "dropped"}
        BY <3>1 DEF Pull, MayPull, Pending, Returned, IInv, ReturnSettles
      <3>6. task[c] = "done"
        BY <3>3, <3>4, <3>5 DEF Live, IInv, TypeOK, TaskState
      <3> QED
        BY <3>6, OnlyPullGrows
    <2> QED
      BY <2>1, <2>2
  <1> QED
    BY <1>1, <1>2, Invariance, PTL DEF Spec

\* Only the server writes the log.
LEMMA LogIsTheServers ==
    ASSUME [Next]_vars, ~\E r \in net : ServerHandles(r)
    PROVE  log' = log
  <1>1. ASSUME NEW kind, NEW b, Fail(kind, b) PROVE log' = log
    BY <1>1 DEF Fail
  <1>2. ASSUME NEW b, GiveUpOrSleep(b) PROVE log' = log
    BY <1>1, <1>2 DEF GiveUpOrSleep
  <1>3. CASE Caller \/ Cancel
    BY <1>1, <1>3 DEF Caller, Cancel, Validate, Pull, PullErr, Finish
  <1>4. ASSUME NEW b \in Batch, Future(b) PROVE log' = log
    BY <1>1, <1>2, <1>4 DEF Future, SetupFails, Send, Answered, TransportError, Wake
  <1> QED
    BY <1>3, <1>4 DEF Next, RequestLost, vars

\* With max_inflight = 1, and over any network, what the server holds of a batch
\* came after a full copy of each earlier one.
THEOREM PrefixKept == Spec => []PrefixStored
  <1> USE ConstantsAssumption
  <1>1. Init => PrefixStored
    BY DEF Init, PrefixStored
  <1>2. IInv /\ OneAtATime /\ PrefixStored /\ [Next]_vars => PrefixStored'
    <2> SUFFICES ASSUME IInv, OneAtATime, PrefixStored, [Next]_vars PROVE PrefixStored'
      OBVIOUS
    <2>1. CASE log' = log
      BY <2>1, LimitKept DEF PrefixStored
    <2>2. ASSUME NEW r \in net, ServerHandles(r)
          PROVE  PrefixStored'
      <3>1. r.batch \in Batch /\ attempts[r.batch] > 0
        BY DEF IInv, TypeOK, Request, AttemptsCounted
      <3>2. PICK e \in Effect :
              log' = IF e[1] = "none" THEN log
                     ELSE Append(log, [batch |-> r.batch, lines |-> e[1]])
        BY <2>2 DEF ServerHandles
      <3>3. CASE e[1] = "none"
        BY <2>1, <3>2, <3>3
      <3>4. CASE e[1] # "none"
        <4>1. /\ DOMAIN log' = DOMAIN log \cup {Len(log) + 1}
              /\ \A k \in DOMAIN log : log'[k] = log[k]
              /\ log'[Len(log) + 1] = [batch |-> r.batch, lines |-> e[1]]
              /\ DOMAIN log = 1..Len(log) /\ Len(log) \in Nat
          BY <3>2, <3>4, HandleAppends DEF IInv
        <4> SUFFICES ASSUME Limit = 1, NEW i \in DOMAIN log',
                            NEW b \in 1..(log'[i].batch - 1)
                     PROVE  \E j \in 1..(i - 1) : log'[j].batch = b /\ log'[j].lines = "all"
          BY LimitKept DEF PrefixStored
        <4>2. CASE i \in DOMAIN log
          <5>1. log'[i] = log[i]
            BY <4>1, <4>2
          <5>2. PICK j \in 1..(i - 1) : log[j].batch = b /\ log[j].lines = "all"
            BY <4>2, <5>1 DEF PrefixStored
          <5>3. j \in DOMAIN log
            BY <4>1, <4>2, <5>2
          <5> QED
            BY <4>1, <5>2, <5>3
        <4>3. CASE i = Len(log) + 1
          <5>1. b \in Batch /\ b < r.batch
            BY <3>1, <4>1, <4>3 DEF Batch
          <5>2. task[r.batch] # "waiting"
            BY <3>1 DEF IInv, AttemptsCounted
          <5>3. task[b] = "done"
            BY <3>1, <5>1, <5>2 DEF OneAtATime
          <5>4. PICK j \in DOMAIN log : log[j].batch = b /\ log[j].lines = "all"
            BY <5>1, <5>3 DEF IInv, AckedStored, Stored
          <5>5. j \in 1..(i - 1)
            BY <4>1, <4>3, <5>4
          <5> QED
            BY <4>1, <5>4, <5>5
        <4> QED
          BY <4>1, <4>2, <4>3
      <3> QED
        BY <3>3, <3>4
    <2>3. CASE ~\E r \in net : ServerHandles(r)
      BY <2>1, <2>3, LogIsTheServers
    <2> QED
      BY <2>2, <2>3
  <1> QED
    BY <1>1, <1>2, Invariance, Sequential, PTL DEF Spec

-----------------------------------------------------------------------------
(* Strict order                                                            *)

\* Where no request outlives its attempt, a request on the wire is the one that
\* the future of its batch awaits, and has no answer yet.
WireAwaited == \A r \in net : Awaited(r) /\ \A m \in replies : m.batch # r.batch

\* An error that ends the call takes every request off the wire: each was
\* awaited by a future that is dropped.
LEMMA FailClearsWire ==
    ASSUME ~LateDelivery, WireAwaited, IInv, NEW kind, NEW b, Fail(kind, b)
    PROVE  net' = {} /\ log' = log
  <1>1. \A r \in net : r.batch \in Live
    BY DEF WireAwaited, Awaited, IInv, TypeOK, Request, Live
  <1> QED
    BY <1>1 DEF Fail, NetWithout

\* A future gives its attempt up: its request leaves the wire and no other is
\* touched.
LEMMA GiveUpKeepsWire ==
    ASSUME ~LateDelivery, WireAwaited, IInv, NEW b \in Batch, GiveUpOrSleep(b)
    PROVE  WireAwaited' /\ log' = log
  <1>1. CASE Fail("exhausted", b)
    BY <1>1, FailClearsWire DEF WireAwaited
  <1>2. CASE /\ task' = [task EXCEPT ![b] = "backoff"]
             /\ net' = NetWithout({b})
             /\ replies' = {m \in replies : m.batch # b}
             /\ UNCHANGED <<callConst, result, pulled, attempts, log>>
    BY <1>2 DEF WireAwaited, Awaited, NetWithout, IInv, TypeOK, Request
  <1> QED
    BY <1>1, <1>2 DEF GiveUpOrSleep

\* The steps of the client keep the wire in that state and store nothing.
LEMMA ClientKeepsWire ==
    ASSUME ~LateDelivery, WireAwaited, IInv, Caller \/ Cancel \/ \E b \in Batch : Future(b)
    PROVE  WireAwaited' /\ log' = log
  <1> USE ConstantsAssumption
  <1>1. CASE Cancel \/ PullErr
    BY <1>1, FailClearsWire DEF Cancel, PullErr, WireAwaited
  <1>2. CASE Validate
    <2>1. CASE Fail("config", 0)
      BY <2>1, FailClearsWire DEF WireAwaited
    <2>2. CASE UNCHANGED <<task, attempts, net, replies, log>>
      BY <2>2 DEF WireAwaited, Awaited
    <2> QED
      BY <1>2, <2>1, <2>2 DEF Validate
  <1>3. CASE Pull
    <2>1. task[pulled + 1] = "waiting"
      BY <1>3 DEF Pull, MayPull, IInv, TypeOK, FuturesArePulled, Batch
    <2> QED
      BY <1>3, <2>1 DEF Pull, WireAwaited, Awaited, IInv, TypeOK, Request
  <1>4. CASE Finish
    BY <1>4 DEF Finish, WireAwaited, Awaited
  <1>5. ASSUME NEW b \in Batch, Future(b)
        PROVE  WireAwaited' /\ log' = log
    <2>1. CASE SetupFails(b)
      BY <2>1, FailClearsWire DEF SetupFails, WireAwaited
    <2>2. CASE Send(b)
      <3>1. task'[b] = "sending" /\ attempts'[b] = attempts[b] + 1
        BY <2>2 DEF Send, IInv, TypeOK
      <3>2. \A m \in replies : m.batch # b
        BY <2>2 DEF Send, IInv, AckedStored
      <3>3. \A r \in net : r.batch # b
        BY <2>2 DEF Send, WireAwaited, Awaited
      <3>4. \A r \in net : Awaited(r)' /\ \A m \in replies' : m.batch # r.batch
        BY <2>2, <3>3 DEF Send, WireAwaited, Awaited, IInv, TypeOK, Request
      <3>5. \A r \in net' \ net : /\ task'[r.batch] = "sending"
                                  /\ attempts'[r.batch] = r.attempt
                                  /\ \A m \in replies' : m.batch # r.batch
        BY <2>2, <3>1, <3>2 DEF Send
      <3> QED
        BY <2>2, <3>4, <3>5 DEF WireAwaited, Awaited, Send
    <2>3. CASE Answered(b)
      <3>1. CASE GiveUpOrSleep(b)
        BY <3>1, GiveUpKeepsWire
      <3>2. CASE Fail("fatal", b)
        BY <3>2, FailClearsWire DEF WireAwaited
      <3>3. CASE /\ \E m \in replies : m.batch = b
                 /\ task' = [task EXCEPT ![b] = "done"]
                 /\ replies' = {c \in replies : c.batch # b}
                 /\ UNCHANGED <<callConst, result, pulled, attempts, net, log>>
        BY <3>3 DEF WireAwaited, Awaited, IInv, TypeOK, Request
      <3> QED
        BY <2>3, <3>1, <3>2, <3>3 DEF Answered
    <2>4. CASE TransportError(b)
      BY <2>4, GiveUpKeepsWire, FailClearsWire DEF TransportError, WireAwaited
    <2>5. CASE Wake(b)
      BY <2>5 DEF Wake, WireAwaited, Awaited, IInv, TypeOK, Request
    <2> QED
      BY <1>5, <2>1, <2>2, <2>3, <2>4, <2>5 DEF Future
  <1> QED
    BY <1>1, <1>2, <1>3, <1>4, <1>5 DEF Caller

\* So do those of the network and the server: a batch has one request on the
\* wire, and it is handled before it is answered.
LEMMA ServerKeepsWire ==
    ASSUME WireAwaited, IInv, NEW r \in net, ServerHandles(r) \/ RequestLost(r)
    PROVE  WireAwaited'
  <1>1. \A q \in net \ {r} : q.batch # r.batch
    <2> SUFFICES ASSUME NEW q \in net, q.batch = r.batch PROVE q = r
      OBVIOUS
    <2>1. q.attempt = r.attempt
      BY DEF WireAwaited, Awaited
    <2> QED
      BY <2>1 DEF IInv, TypeOK, Request
  <1>2. CASE ServerHandles(r)
    BY <1>1, <1>2 DEF ServerHandles, WireAwaited, Awaited
  <1>3. CASE RequestLost(r)
    BY <1>3 DEF RequestLost, WireAwaited, Awaited
  <1> QED
    BY <1>2, <1>3

\* With max_inflight = 1, and where no request outlives its attempt, the server
\* stores the batches in the order of the input.
THEOREM Ordered ==
    ASSUME ~LateDelivery
    PROVE  Spec => []StrictOrder
  <1>1. Init => WireAwaited /\ StrictOrder
    BY DEF Init, WireAwaited, StrictOrder
  <1>2. IInv /\ WireAwaited /\ [Next]_vars => WireAwaited'
    <2> SUFFICES ASSUME IInv, WireAwaited, [Next]_vars PROVE WireAwaited'
      OBVIOUS
    <2>1. CASE UNCHANGED vars
      BY <2>1 DEF vars, WireAwaited, Awaited
    <2> QED
      BY <2>1, ClientKeepsWire, ServerKeepsWire DEF Next
  <1>3. IInv /\ WireAwaited /\ OneAtATime /\ StrictOrder /\ [Next]_vars => StrictOrder'
    <2> SUFFICES ASSUME IInv, WireAwaited, OneAtATime, StrictOrder, [Next]_vars
                 PROVE  StrictOrder'
      OBVIOUS
    <2>1. CASE log' = log
      BY <2>1, LimitKept DEF StrictOrder
    <2>2. ASSUME NEW r \in net, ServerHandles(r)
          PROVE  StrictOrder'
      <3> SUFFICES ASSUME Limit = 1, NEW i \in DOMAIN log', NEW j \in DOMAIN log', i < j
                   PROVE  log'[i].batch <= log'[j].batch
        BY LimitKept DEF StrictOrder
      <3>1. r.batch \in Batch /\ task[r.batch] = "sending"
        BY DEF WireAwaited, Awaited, IInv, TypeOK, Request
      <3>2. PICK e \in Effect :
              log' = IF e[1] = "none" THEN log
                     ELSE Append(log, [batch |-> r.batch, lines |-> e[1]])
        BY <2>2 DEF ServerHandles
      <3>3. CASE e[1] = "none"
        BY <3>2, <3>3 DEF StrictOrder
      <3>4. CASE e[1] # "none"
        <4>1. /\ DOMAIN log' = DOMAIN log \cup {Len(log) + 1}
              /\ \A k \in DOMAIN log : log'[k] = log[k]
              /\ log'[Len(log) + 1] = [batch |-> r.batch, lines |-> e[1]]
              /\ DOMAIN log = 1..Len(log) /\ Len(log) \in Nat
          BY <3>2, <3>4, HandleAppends DEF IInv
        <4>2. i \in DOMAIN log
          BY <4>1
        <4>3. CASE j \in DOMAIN log
          BY <4>1, <4>2, <4>3 DEF StrictOrder
        <4>4. CASE j = Len(log) + 1
          <5>1. log \in Seq(Entry) /\ i \in 1..Len(log)
            BY <4>1, <4>2 DEF IInv, TypeOK
          <5>2. log[i] \in Entry
            BY <5>1
          <5>3. log[i].batch \in Batch /\ attempts[log[i].batch] > 0
            BY <4>2, <5>2 DEF IInv, AttemptsCounted, Entry
          <5>4. task[log[i].batch] # "waiting"
            BY <5>3 DEF IInv, AttemptsCounted
          <5>5. ~(r.batch < log[i].batch)
            BY <3>1, <5>3, <5>4 DEF OneAtATime
          <5> QED
            BY <3>1, <4>1, <4>2, <4>4, <5>3, <5>5 DEF Batch
        <4> QED
          BY <4>1, <4>3, <4>4
      <3> QED
        BY <3>3, <3>4
    <2>3. CASE \E r \in net : RequestLost(r)
      BY <2>1, <2>3 DEF RequestLost
    <2>4. CASE UNCHANGED vars
      BY <2>1, <2>4 DEF vars
    <2> QED
      BY <2>1, <2>2, <2>3, <2>4, ClientKeepsWire DEF Next
  <1> QED
    BY <1>1, <1>2, <1>3, Invariance, Sequential, PTL DEF Spec

-----------------------------------------------------------------------------
(* Replays are bounded                                                     *)

\* The log is long but finite, and so are its parts.
LEMMA CopiesFinite ==
    ASSUME TypeOK, NEW b
    PROVE  IsFiniteSet(Copies(b)) /\ Cardinality(Copies(b)) \in Nat
  <1>1. IsFiniteSet(DOMAIN log)
    <2>1. DOMAIN log = 1..Len(log) /\ Len(log) \in Nat
      BY DEF TypeOK
    <2> QED
      BY <2>1, FS_Interval
  <1> QED
    BY <1>1, FS_Subset, FS_CardinalityType DEF Copies

\* Finitely many of them are of one batch.
LEMMA WireFinite ==
    ASSUME IsFiniteSet(net), NEW b
    PROVE  IsFiniteSet(OnTheWire(b)) /\ Cardinality(OnTheWire(b)) \in Nat
  BY FS_Subset, FS_CardinalityType DEF OnTheWire

\* A step that stores nothing and sends nothing.
LEMMA QuietKeepsCounts ==
    ASSUME TypeOK, CopiesCounted, net' \subseteq net, UNCHANGED <<log, attempts>>
    PROVE  CopiesCounted'
  <1>1. IsFiniteSet(net')
    BY FS_Subset DEF CopiesCounted
  <1>2. ASSUME NEW b \in Batch
        PROVE  Cardinality(Copies(b)') + Cardinality(OnTheWire(b)') <= attempts'[b]
    <2>1. Copies(b)' = Copies(b)
      BY DEF Copies
    <2>2. Cardinality(OnTheWire(b)') <= Cardinality(OnTheWire(b))
      <3>1. OnTheWire(b)' \subseteq OnTheWire(b)
        BY DEF OnTheWire
      <3> QED
        BY <3>1, WireFinite, FS_Subset DEF CopiesCounted
    <2>3. Cardinality(OnTheWire(b)') \in Nat
      BY <1>1, FS_Subset, FS_CardinalityType DEF OnTheWire
    <2> QED
      BY <2>1, <2>2, <2>3, CopiesFinite, WireFinite DEF CopiesCounted, TypeOK
  <1> QED
    BY <1>1, <1>2 DEF CopiesCounted

\* The server stores a batch at most once per attempt the policy allows.
THEOREM ReplaysBounded == Spec => []CopiesBounded
  <1> USE ConstantsAssumption
  <1>1. Init => CopiesCounted
    <2>1. ASSUME Init, NEW b \in Batch PROVE Copies(b) = {} /\ OnTheWire(b) = {}
      BY <2>1 DEF Init, Copies, OnTheWire
    <2>2. Cardinality({}) = 0 /\ IsFiniteSet({})
      BY FS_EmptySet
    <2>3. ASSUME Init, NEW b \in Batch
          PROVE  Cardinality(Copies(b)) + Cardinality(OnTheWire(b)) <= attempts[b]
      <3>1. Copies(b) = {} /\ OnTheWire(b) = {} /\ attempts[b] = 0
        BY <2>1, <2>3 DEF Init
      <3> QED
        BY <2>2, <3>1
    <2> QED
      BY <2>2, <2>3 DEF Init, CopiesCounted
  <1>2. IInv /\ CopiesCounted /\ [Next]_vars => CopiesCounted'
    <2> SUFFICES ASSUME IInv, CopiesCounted, [Next]_vars PROVE CopiesCounted'
      OBVIOUS
    <2> USE DEF IInv
    <2>1. ASSUME NEW kind, NEW b, Fail(kind, b) PROVE CopiesCounted'
      BY <2>1, NetWithoutShrinks, QuietKeepsCounts DEF Fail
    <2>2. ASSUME NEW b, GiveUpOrSleep(b) PROVE CopiesCounted'
      BY <2>1, <2>2, NetWithoutShrinks, QuietKeepsCounts DEF GiveUpOrSleep
    <2>3. CASE Caller \/ Cancel
      BY <2>1, <2>3, QuietKeepsCounts
      DEF Caller, Validate, Pull, PullErr, Finish, Cancel
    <2>4. ASSUME NEW b \in Batch, Send(b) PROVE CopiesCounted'
      <3> DEFINE new == [batch |-> b, attempt |-> attempts[b] + 1]
      <3>1. IsFiniteSet(net')
        BY <2>4, FS_AddElement DEF Send, CopiesCounted
      <3>2. ASSUME NEW c \in Batch
            PROVE  Cardinality(Copies(c)') + Cardinality(OnTheWire(c)') <= attempts'[c]
        <4>1. Copies(c)' = Copies(c)
          BY <2>4 DEF Send, Copies
        <4>2. attempts[c] \in Nat /\ Cardinality(Copies(c)) \in Nat
                /\ Cardinality(OnTheWire(c)) \in Nat
          BY CopiesFinite, WireFinite DEF CopiesCounted, TypeOK
        <4>3. CASE c = b
          <5>1. OnTheWire(c)' = OnTheWire(c) \cup {new}
            BY <2>4, <4>3 DEF Send, OnTheWire
          <5>2. Cardinality(OnTheWire(c) \cup {new})
                  = IF new \in OnTheWire(c) THEN Cardinality(OnTheWire(c))
                    ELSE Cardinality(OnTheWire(c)) + 1
            BY WireFinite, FS_AddElement DEF CopiesCounted
          <5>3. attempts'[c] = attempts[c] + 1
            BY <2>4, <4>3 DEF Send, TypeOK
          <5> QED
            BY <4>1, <4>2, <5>1, <5>2, <5>3 DEF CopiesCounted
        <4>4. CASE c # b
          <5>1. OnTheWire(c)' = OnTheWire(c) /\ attempts'[c] = attempts[c]
            BY <2>4, <4>4 DEF Send, OnTheWire, TypeOK
          <5> QED
            BY <4>1, <5>1 DEF CopiesCounted
        <4> QED
          BY <4>3, <4>4
      <3> QED
        BY <3>1, <3>2 DEF CopiesCounted
    <2>5. ASSUME NEW b \in Batch, Future(b) PROVE CopiesCounted'
      BY <2>1, <2>2, <2>4, <2>5, QuietKeepsCounts
      DEF Future, SetupFails, Answered, TransportError, Wake
    <2>6. ASSUME NEW r \in net, ServerHandles(r) PROVE CopiesCounted'
      <3>1. r.batch \in Batch /\ IsFiniteSet(net')
        BY <2>6, FS_Subset DEF ServerHandles, CopiesCounted, TypeOK, Request
      <3>2. PICK e \in Effect :
              /\ net' = net \ {r}
              /\ log' = IF e[1] = "none" THEN log
                        ELSE Append(log, [batch |-> r.batch, lines |-> e[1]])
              /\ UNCHANGED attempts
        BY <2>6 DEF ServerHandles
      <3>3. ASSUME NEW c \in Batch
            PROVE  Cardinality(Copies(c)') + Cardinality(OnTheWire(c)') <= attempts'[c]
        <4>1. attempts[c] \in Nat /\ Cardinality(Copies(c)) \in Nat
                /\ Cardinality(OnTheWire(c)) \in Nat
          BY CopiesFinite, WireFinite DEF CopiesCounted, TypeOK
        <4>2. \/ Copies(c)' = Copies(c)
              \/ c = r.batch /\ Copies(c)' = Copies(c) \cup {Len(log) + 1}
          <5>1. CASE e[1] = "none"
            <6>1. log' = log
              BY <3>2, <5>1
            <6> QED
              BY <6>1 DEF Copies
          <5>2. CASE e[1] # "none"
            <6> DEFINE new == [batch |-> r.batch, lines |-> e[1]]
            <6>1. new \in Entry
              BY <3>1, <5>2 DEF Entry, Effect
            <6>2. /\ DOMAIN log' = DOMAIN log \cup {Len(log) + 1}
                  /\ \A i \in DOMAIN log : log'[i] = log[i]
                  /\ log'[Len(log) + 1] = new
              BY <3>2, <5>2, <6>1, AppendKeeps DEF TypeOK
            <6>3. CASE c = r.batch
              <7>1. Copies(c)' = Copies(c) \cup {Len(log) + 1}
                BY <6>2, <6>3 DEF Copies
              <7> QED
                BY <6>3, <7>1
            <6>4. CASE c # r.batch
              <7>1. Copies(c)' = Copies(c)
                BY <6>2, <6>4 DEF Copies
              <7> QED
                BY <7>1
            <6> QED
              BY <6>3, <6>4
          <5> QED
            BY <5>1, <5>2
        <4>3. Cardinality(Copies(c) \cup {Len(log) + 1}) \in
                {Cardinality(Copies(c)), Cardinality(Copies(c)) + 1}
          BY CopiesFinite, FS_AddElement
        <4>4. CASE c = r.batch
          <5>1. OnTheWire(c)' = OnTheWire(c) \ {r} /\ r \in OnTheWire(c)
            BY <3>2, <4>4 DEF OnTheWire
          <5>2. Cardinality(OnTheWire(c) \ {r}) = Cardinality(OnTheWire(c)) - 1
            BY <5>1, WireFinite, FS_RemoveElement DEF CopiesCounted
          <5>3. Cardinality(Copies(c)') \in {Cardinality(Copies(c)), Cardinality(Copies(c)) + 1}
            BY <4>2, <4>3
          <5>4. Cardinality(Copies(c)) + Cardinality(OnTheWire(c)) <= attempts[c]
            BY DEF CopiesCounted
          <5>5. Cardinality(OnTheWire(c)') = Cardinality(OnTheWire(c)) - 1
            BY <5>1, <5>2
          <5> QED
            BY <3>2, <4>1, <5>3, <5>4, <5>5
        <4>5. CASE c # r.batch
          <5>1. OnTheWire(c)' = OnTheWire(c)
            BY <3>2, <4>5 DEF OnTheWire
          <5> QED
            BY <3>2, <4>2, <4>5, <5>1 DEF CopiesCounted
        <4> QED
          BY <4>4, <4>5
      <3> QED
        BY <3>1, <3>3 DEF CopiesCounted
    <2>7. ASSUME NEW r \in net, RequestLost(r) PROVE CopiesCounted'
      BY <2>7, QuietKeepsCounts DEF RequestLost
    <2>8. CASE UNCHANGED vars
      BY <2>8, QuietKeepsCounts DEF vars
    <2> QED
      BY <2>3, <2>5, <2>6, <2>7, <2>8 DEF Next
  <1>3. IInv /\ CopiesCounted => CopiesBounded
    <2> SUFFICES ASSUME IInv, CopiesCounted, NEW b \in Batch
                 PROVE  Cardinality(Copies(b)) <= MaxRetries + 1
      BY DEF CopiesBounded
    <2>1. Cardinality(Copies(b)) \in Nat /\ Cardinality(OnTheWire(b)) \in Nat
      BY CopiesFinite, WireFinite DEF IInv, CopiesCounted
    <2> QED
      BY <2>1 DEF CopiesCounted, IInv, TypeOK
  <1> QED
    BY <1>1, <1>2, <1>3, Invariance, PTL DEF Spec

-----------------------------------------------------------------------------
(* What a step may never do                                                *)

\* A call that has returned has no step of its own left.
LEMMA ReturnedIsSilent ==
    ASSUME IInv, Returned, [Next]_vars
    PROVE  net' \subseteq net /\ UNCHANGED <<task, attempts, result>>
  <1>1. ~Caller /\ ~Cancel
    BY DEF Caller, Validate, Pull, PullErr, MayPull, Finish, Cancel, Pending, Returned
  <1>2. ASSUME NEW b \in Batch PROVE ~Future(b)
    <2>1. task[b] \notin {"ready", "sending", "backoff"} /\ replies = {}
      BY DEF IInv, ReturnSettles, Live
    <2> QED
      BY <2>1 DEF Future, SetupFails, Send, Answered, TransportError, Wake
  <1>3. (\E r \in net : ServerHandles(r) \/ RequestLost(r)) \/ UNCHANGED vars
    BY <1>1, <1>2 DEF Next
  <1> QED
    BY <1>3 DEF ServerHandles, RequestLost, vars

\* After the call has returned, or was dropped, no request is sent and no
\* future moves.
THEOREM Silence == Spec => SilentAfterReturn
  <1>1. IInv /\ [Next]_vars =>
          [Returned => /\ net' \subseteq net
                       /\ UNCHANGED <<task, attempts, result>>]_vars
    BY ReturnedIsSilent
  <1> QED
    BY <1>1, Invariance, PTL DEF Spec, SilentAfterReturn

\* A running call goes on, returns Ok(()), or fails over a future it holds or
\* over none.
LEMMA WaysToReturn ==
    ASSUME IInv, ~Returned, [Next]_vars
    PROVE  \/ ~Returned'
           \/ Finish
           \/ \E kind \in ErrorKind : \E b \in Live \cup {0} : Fail(kind, b)
  <1>0. {"config", "encode", "setup", "exhausted", "fatal", "cancelled"} \subseteq ErrorKind
    BY DEF ErrorKind, Kind
  <1>1. ASSUME NEW b \in Batch, GiveUpOrSleep(b)
        PROVE  result' = result \/ \E kind \in ErrorKind : Fail(kind, b)
    BY <1>0, <1>1 DEF GiveUpOrSleep
  <1>2. CASE Caller \/ Cancel
    <2>1. CASE Validate
      <3>1. Fail("config", 0) \/ result'.kind = "pending"
        BY <2>1 DEF Validate
      <3> QED
        BY <1>0, <3>1 DEF Returned
    <2>2. CASE Pull
      BY <2>2 DEF Pull, Returned
    <2>3. CASE PullErr \/ Cancel
      <3>1. Fail("encode", 0) \/ Fail("cancelled", 0)
        BY <2>3 DEF PullErr, Cancel
      <3> QED
        BY <1>0, <3>1
    <2> QED
      BY <1>2, <2>1, <2>2, <2>3 DEF Caller
  <1>3. ASSUME NEW b \in Batch, Future(b)
        PROVE  result' = result \/ (b \in Live /\ \E kind \in ErrorKind : Fail(kind, b))
    <2>1. CASE SetupFails(b)
      BY <1>0, <2>1 DEF SetupFails, Live
    <2>2. CASE Send(b) \/ Wake(b)
      BY <2>2 DEF Send, Wake
    <2>3. CASE Answered(b)
      <3>1. b \in Live
        BY <2>3 DEF Answered, IInv, AckedStored, Live
      <3> QED
        BY <1>0, <1>1, <2>3, <3>1 DEF Answered
    <2>4. CASE TransportError(b)
      BY <1>0, <1>1, <2>4 DEF TransportError, Live
    <2> QED
      BY <1>3, <2>1, <2>2, <2>3, <2>4 DEF Future
  <1>4. CASE \E r \in net : ServerHandles(r) \/ RequestLost(r)
    BY <1>4 DEF ServerHandles, RequestLost, Returned
  <1>5. CASE UNCHANGED vars
    BY <1>5 DEF vars, Returned
  <1> QED
    BY <1>2, <1>3, <1>4, <1>5 DEF Next, Returned

\* The batch that the result names is the one that failed.
Blamed == Returned => \A b \in Batch : task[b] = "failed" <=> b = result.batch

\* A call that has returned holds no future, has accounted for every batch it
\* took, and names the only one that failed.
THEOREM AllAccounted == Spec => []NothingLeftBehind
  <1> USE ConstantsAssumption
  <1>1. Init => Blamed
    BY DEF Init, Blamed, Returned
  <1>2. IInv /\ Blamed /\ [Next]_vars => Blamed'
    <2> SUFFICES ASSUME IInv, Blamed, [Next]_vars PROVE Blamed'
      OBVIOUS
    <2>1. CASE Returned
      BY <2>1, ReturnedIsSilent DEF Blamed, Returned
    <2>2. CASE ~Returned
      <3>1. \A b \in Batch : task[b] # "failed" /\ b # 0
        BY <2>2 DEF IInv, ReturnSettles, Batch
      <3>2. ASSUME NEW kind \in ErrorKind, NEW b \in Live \cup {0}, Fail(kind, b)
            PROVE  Blamed'
        BY <3>1, <3>2 DEF Fail, Blamed, Live
      <3>3. CASE Finish
        BY <3>1, <3>3 DEF Finish, Blamed
      <3> QED
        BY <2>2, <3>2, <3>3, WaysToReturn DEF Blamed
    <2> QED
      BY <2>1, <2>2
  <1>3. IInv /\ Blamed => NothingLeftBehind
    <2> SUFFICES ASSUME IInv, Blamed, Returned PROVE NothingLeftBehind
      BY DEF NothingLeftBehind
    <2>1. Live = {} /\ replies = {}
      BY DEF IInv, ReturnSettles
    <2>2. ASSUME NEW b \in 1..pulled PROVE task[b] \in {"done", "failed", "dropped"}
      <3>1. b \in Batch /\ task[b] # "waiting"
        BY DEF IInv, TypeOK, FuturesArePulled, Batch
      <3> QED
        BY <2>1, <3>1 DEF Live, IInv, TypeOK, TaskState
    <2> QED
      BY <2>1, <2>2 DEF NothingLeftBehind, Blamed
  <1> QED
    BY <1>1, <1>2, <1>3, Invariance, PTL DEF Spec

-----------------------------------------------------------------------------
(* The pipeline implements WriteCall                                       *)

\* The abstract state of a call.
Wanted == 1..input.n
StoredBatches == {b \in Batch : Stored(b)}
Outcome == IF result.kind \in {"new", "pending"} THEN "pending"
           ELSE IF result.kind = "ok" THEN "ok" ELSE "err"

\* Returning an error is the abstract Fail.
LEMMA FailIsFail ==
    ASSUME IInv, ~Returned, NEW kind \in ErrorKind, NEW b, Fail(kind, b)
    PROVE  Call!Fail
  <1>1. UNCHANGED <<input, attempts, log>>
    BY DEF Fail, callConst
  <1>2. Outcome = "pending" /\ Outcome' = "err"
    BY DEF Outcome, Fail, Returned, ErrorKind, Kind
  <1> QED
    BY <1>1, <1>2 DEF Call!Fail, Outcome, Issued, Stored

\* A step that touches neither the counters, the log nor the result is not seen
\* by the caller.
LEMMA Stutter ==
    ASSUME UNCHANGED <<input, attempts, log>>, Outcome' = Outcome
    PROVE  UNCHANGED Call!callVars
  BY DEF Call!callVars, Outcome, Issued, Stored

\* Every step of the pipeline is a step of WriteCall or none.
LEMMA StepRefines ==
    ASSUME IInv, IInv', [Next]_vars
    PROVE  [Call!CallNext]_(Call!callVars)
  <1> USE ConstantsAssumption
  <1> USE DEF Call!CallNext
  <1>1. ASSUME NEW kind \in ErrorKind, ~Returned, NEW b, Fail(kind, b)
        PROVE  Call!CallNext
    BY <1>1, FailIsFail
  <1>2. ASSUME UNCHANGED <<input, attempts, log, result>>
        PROVE  UNCHANGED Call!callVars
    BY <1>2, Stutter DEF Outcome
  <1>3. CASE Caller \/ Cancel
    <2>1. CASE Validate
      <3>1. CASE Fail("config", 0)
        BY <1>1, <2>1, <3>1 DEF Validate, Returned, ErrorKind, Kind
      <3>2. CASE result' = [kind |-> "pending", batch |-> 0] /\ UNCHANGED <<callConst, attempts, log>>
        BY <2>1, <3>2, Stutter DEF Validate, Outcome, callConst
      <3> QED
        BY <2>1, <3>1, <3>2 DEF Validate
    <2>2. CASE Pull
      BY <1>2, <2>2 DEF Pull, callConst
    <2>3. CASE PullErr
      BY <1>1, <2>3 DEF PullErr, MayPull, Pending, Returned, ErrorKind, Kind
    <2>4. CASE Finish
      <3>1. Outcome = "pending" /\ Outcome' = "ok" /\ UNCHANGED <<input, attempts, log>>
        BY <2>4 DEF Finish, Pending, Outcome, callConst
      <3>2. Wanted \subseteq StoredBatches
        <4>1. OkMeansStored' /\ result'.kind = "ok"
          BY <2>4 DEF Finish, IInv, TypeOK, OkMeansStored, ReturnSettles, FuturesArePulled,
                      AckedStored, Stored, Batch, callConst
        <4>2. \A b \in 1..input.n : Stored(b)
          BY <3>1, <4>1 DEF OkMeansStored, Stored
        <4>3. \A b \in 1..input.n : b \in Batch
          BY DEF IInv, TypeOK, Batch
        <4> QED
          BY <4>2, <4>3 DEF Wanted, StoredBatches
      <3> QED
        BY <3>1, <3>2 DEF Call!Succeed, Outcome, Wanted, StoredBatches, Issued, Stored
    <2>5. CASE Cancel
      BY <1>1, <2>5 DEF Cancel, ErrorKind, Kind
    <2> QED
      BY <1>3, <2>1, <2>2, <2>3, <2>4, <2>5 DEF Caller
  <1>4. ASSUME NEW b \in Batch, Future(b)
        PROVE  Call!CallNext \/ UNCHANGED Call!callVars
    <2>0. task[b] \in {"ready", "sending", "backoff"} => ~Returned
      BY DEF IInv, ReturnSettles, Live
    <2>1. CASE SetupFails(b)
      BY <1>1, <2>0, <2>1 DEF SetupFails, ErrorKind, Kind
    <2>2. CASE Send(b)
      <3>1. task[b] = "ready" /\ ~Returned /\ Outcome = "pending"
        BY <2>0, <2>2 DEF Send, Returned, Outcome
      <3>2. b \in Wanted
        <4>1. ~(b > pulled) /\ pulled <= input.n
          BY <3>1 DEF IInv, FuturesArePulled
        <4>2. b \in Int /\ 1 <= b /\ pulled \in Int /\ input.n \in Int
          BY DEF IInv, TypeOK, Batch
        <4> QED
          BY <4>1, <4>2 DEF Wanted
      <3>3. Issued' = Issued \cup {b}
        BY <2>2 DEF Send, Issued, IInv, TypeOK
      <3>4. UNCHANGED <<input, log, result>>
        BY <2>2 DEF Send, callConst
      <3>5. Call!Issue(b)
        BY <3>1, <3>2, <3>3, <3>4 DEF Call!Issue, Outcome, Wanted, Stored
      <3> QED
        BY <3>5
    <2>3. ASSUME GiveUpOrSleep(b), ~Returned
          PROVE  Call!CallNext \/ UNCHANGED Call!callVars
      BY <1>1, <1>2, <2>3 DEF GiveUpOrSleep, callConst, ErrorKind, Kind
    <2>4. CASE Answered(b)
      <3>1. ~Returned
        BY <2>0, <2>4 DEF Answered, IInv, AckedStored
      <3> QED
        BY <1>1, <1>2, <2>3, <2>4, <3>1 DEF Answered, callConst, ErrorKind, Kind
    <2>5. CASE TransportError(b)
      BY <1>1, <2>0, <2>3, <2>5 DEF TransportError, ErrorKind, Kind
    <2>6. CASE Wake(b)
      BY <1>2, <2>6 DEF Wake, callConst
    <2> QED
      BY <1>4, <2>1, <2>2, <2>4, <2>5, <2>6 DEF Future
  <1>5. ASSUME NEW r \in net, ServerHandles(r) \/ RequestLost(r)
        PROVE  Call!CallNext \/ UNCHANGED Call!callVars
    <2>1. CASE RequestLost(r)
      BY <1>2, <2>1 DEF RequestLost, callConst
    <2>2. CASE ServerHandles(r)
      <3>1. r.batch \in Issued
        BY DEF IInv, TypeOK, AttemptsCounted, Request, Issued
      <3>2. PICK e \in Effect :
              /\ log' = IF e[1] = "none" THEN log
                        ELSE Append(log, [batch |-> r.batch, lines |-> e[1]])
              /\ UNCHANGED <<callConst, result, attempts>>
        BY <2>2 DEF ServerHandles
      <3>3. /\ \A b \in Batch : Stored(b) => Stored(b)'
            /\ \A i \in DOMAIN log' :
                 (i \in DOMAIN log /\ log'[i] = log[i]) \/ log'[i].batch = r.batch
        BY <3>2, HandleStores DEF IInv
      <3>4. \A b \in Batch : Stored(b)' => Stored(b) \/ b = r.batch
        BY <3>3 DEF Stored
      <3>5. StoredBatches' = StoredBatches \/ StoredBatches' = StoredBatches \cup {r.batch}
        BY <3>1, <3>3, <3>4 DEF StoredBatches, Issued
      <3>6. UNCHANGED <<Wanted, Issued, Outcome>>
        BY <3>2 DEF Wanted, Issued, Outcome, callConst
      <3>7. CASE StoredBatches' = StoredBatches
        BY <3>6, <3>7 DEF Call!callVars, Wanted, StoredBatches, Outcome, Issued
      <3>8. CASE StoredBatches' = StoredBatches \cup {r.batch}
        <4>1. Call!Store(r.batch)
          BY <3>1, <3>6, <3>8 DEF Call!Store, Wanted, StoredBatches, Outcome
        <4> QED
          BY <3>1, <4>1 DEF Issued
      <3> QED
        BY <3>5, <3>7, <3>8
    <2> QED
      BY <1>5, <2>1, <2>2
  <1>6. CASE UNCHANGED vars
    BY <1>2, <1>6 DEF vars, callConst
  <1> QED
    BY <1>3, <1>4, <1>5, <1>6 DEF Next

\* The batches, the concurrency, the retries and the network together keep the
\* promise of WriteCall.
THEOREM Refinement == Spec => ImplementsCall
  <1>1. Init => Call!CallInit
    <2> SUFFICES ASSUME Init PROVE Call!CallInit
      OBVIOUS
    <2>1. Wanted \subseteq Batch
      BY ConstantsAssumption DEF Init, Wanted, Batch
    <2>2. Issued = {} /\ StoredBatches = {} /\ Outcome = "pending"
      BY DEF Init, Issued, StoredBatches, Stored, Outcome
    <2> QED
      BY <2>1, <2>2 DEF Call!CallInit, Wanted, StoredBatches, Outcome
  <1>2. IInv /\ IInv' /\ [Next]_vars => [Call!CallNext]_(Call!callVars)
    BY StepRefines
  <1> QED
    BY <1>1, <1>2, Invariance, PTL DEF Spec, ImplementsCall, Call!CallSpec
=============================================================================

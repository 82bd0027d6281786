-------------------------- MODULE RetryLoopProofs --------------------------
(***************************************************************************)
(* Proofs about RetryLoop, for every policy, every timeout and every set   *)
(* of outcomes.  RInv says what is known at each place of the loop: how    *)
(* many failures are behind it, when the attempt or the sleep it is in     *)
(* began and ends, and that the budget was not spent then.  All the        *)
(* properties follow from it.  The second half is about WriteErrors, which *)
(* judges one answer to one attempt: EInv says what is held of the request *)
(* and of the answer on the way to the verdict.                            *)
(***************************************************************************)
EXTENDS RetryLoop, WriteErrors, DataLemmas

Patience == IF mode = "stream" THEN StreamPatience ELSE AttemptTimeout

\* A failure that was followed by another attempt, or is about to be.
Waited(i, next) ==
    /\ Retryable(history[i].outcome)
    /\ next \in Nat
    /\ IF mode = "write" /\ history[i].outcome.after # None /\ policy.honor_retry_after
       THEN next - history[i].ended = history[i].outcome.after
       ELSE next - history[i].ended <= policy.max_delay

\* Each failure was waited for, and the next attempt began then.
Chained ==
    /\ \A i \in 1..attempt : i < Len(history) => Waited(i, history[i + 1].began)
    /\ attempt > 0 /\ Len(history) = attempt => Waited(attempt, began)

\* How many failures there are at each place, and what the last one was.
Counted ==
    /\ pc = "attempt" => Len(history) = attempt
    /\ pc = "sleep" =>
        /\ attempt < policy.max_retries
        /\ Len(history) = attempt + 1
        /\ Waited(attempt + 1, wakeAt)
    /\ pc = "returned" =>
        \/ Len(history) = attempt
        \/ Len(history) = attempt + 1 /\ history[attempt + 1].outcome = result

\* Why the loop gave up.
Settled == (pc = "returned" /\ result # Ok) =>
    /\ Len(history) = attempt + 1
    /\ \/ ~Retryable(result)
       \/ attempt = policy.max_retries
       \/ \E delay \in Delay(result) : OverBudget(delay)

\* Where the clock is, at each place.
Clocked ==
    /\ pc = "attempt" => began <= now /\ now <= began + Patience
    /\ pc = "sleep" => now <= wakeAt

\* With a budget, no sleep ends after it.
Budgeted == (mode # "stream" /\ policy.max_elapsed # None) =>
    /\ began <= policy.max_elapsed
    /\ now <= policy.max_elapsed + AttemptTimeout
    /\ pc = "sleep" => wakeAt <= policy.max_elapsed

\* Without one, the attempts and the sleeps are bounded one by one.
Stretched == mode # "stream" =>
    /\ began <= attempt * AttemptTimeout + attempt * LongestSleep
    /\ now <= (attempt + 1) * AttemptTimeout + attempt * LongestSleep
        \/ pc = "sleep"
    /\ pc = "sleep" =>
        wakeAt <= (attempt + 1) * AttemptTimeout + (attempt + 1) * LongestSleep

RInv == TypeOK /\ Counted /\ Chained /\ Settled /\ Clocked /\ Budgeted /\ Stretched

-----------------------------------------------------------------------------
(* Facts about single operators                                            *)

\* A delay that the loop picks is the one the server asked for, or at most
\* `max_delay`; either way no sleep is longer than LongestSleep (`Delay`).
LEMMA DelayBounded ==
    ASSUME policy \in Policy, NEW o \in Outcome, NEW d \in Delay(o)
    PROVE  /\ d \in 0..LongestSleep
           /\ IF o.after # None /\ policy.honor_retry_after
              THEN d = o.after ELSE d <= policy.max_delay
  <1>1. policy.max_delay \in Nat
    BY PolicyAssumption
  <1>2. o.after \in RetryAfter \cup {None}
    BY DEF Outcome, HttpOutcome, GrpcOutcome
  <1>3. o.after # None => o.after \in 0..LongestRetryAfter
    BY <1>2, PolicyAssumption
  <1>4. CASE o.after # None /\ policy.honor_retry_after
    <2>1. d = o.after
      BY <1>4 DEF Delay
    <2> QED
      BY <1>1, <1>3, <1>4, <2>1, PolicyAssumption DEF LongestSleep
  <1>5. CASE ~(o.after # None /\ policy.honor_retry_after)
    <2>1. d \in 0..policy.max_delay
      BY <1>5 DEF Delay, backoff
    <2> QED
      BY <1>1, <1>5, <2>1, PolicyAssumption DEF LongestSleep
  <1> QED
    BY <1>4, <1>5

\* Only a write can see a Retry-After.
LEMMA OnlyWritesAreTold ==
    ASSUME mode \in Mode, NEW o \in Failure(mode)
    PROVE  o \in Outcome /\ (mode # "write" => o.after = None)
  BY DEF Mode, Failure, Outcome, HttpOutcome, GrpcOutcome

LEMMA OkIsNoOutcome == ASSUME NEW o \in Outcome PROVE o # Ok
  BY DEF Outcome, HttpOutcome, GrpcOutcome, Ok

LEMMA OneMoreTime ==
    ASSUME NEW n \in Nat, NEW m \in Nat
    PROVE  n * m \in Nat /\ (n + 1) * m = n * m + m
  OBVIOUS

LEMMA TimesGrow ==
    ASSUME NEW n \in Nat, NEW k \in Nat, NEW m \in Nat, n <= k
    PROVE  n * m <= k * m
  <1>1. PICK d \in Nat : k = n + d
    <2>1. k - n \in Nat /\ k = n + (k - n)
      OBVIOUS
    <2> QED
      BY <2>1
  <1>2. k * m = n * m + d * m
    BY <1>1
  <1>3. n * m \in Nat /\ d * m \in Nat
    OBVIOUS
  <1> QED
    BY <1>2, <1>3

-----------------------------------------------------------------------------
(* The inductive invariant                                                 *)

LEMMA InitRInv == Init => RInv
  <1> SUFFICES ASSUME Init PROVE RInv
    OBVIOUS
  <1>1. policy \in Policy /\ policy.max_retries \in Nat /\ LongestSleep \in Nat
    BY PolicyAssumption DEF Init, LongestSleep
  <1>2. TypeOK
    BY <1>1 DEF Init, TypeOK
  <1>3. Counted /\ Chained /\ Settled
    BY DEF Init, Counted, Chained, Settled
  <1>4. Clocked /\ Budgeted
    BY <1>1, PolicyAssumption DEF Init, Clocked, Budgeted, Patience
  <1>5. Stretched
    BY <1>1, PolicyAssumption DEF Init, Stretched
  <1> QED
    BY <1>2, <1>3, <1>4, <1>5 DEF RInv

\* What an attempt that fails leaves in the history.
LEMMA FailureRecorded ==
    ASSUME RInv, NEW o \in Failure(mode), AttemptFails(o)
    PROVE  /\ o \in Outcome
           /\ history' \in Seq(Failed)
           /\ Len(history) = attempt /\ Len(history') = attempt + 1
           /\ history'[attempt + 1] = [began |-> began, ended |-> now, outcome |-> o]
           /\ \A i \in 1..attempt : history'[i] = history[i]
  <1>1. o \in Outcome
    BY OnlyWritesAreTold DEF RInv, TypeOK
  <1>2. history \in Seq(Failed) /\ Len(history) = attempt /\ attempt \in Nat
    BY DEF RInv, TypeOK, AttemptFails, Counted
  <1>3. [began |-> began, ended |-> now, outcome |-> o] \in Failed
    BY <1>1 DEF RInv, TypeOK, Failed
  <1>4. history' = Append(history, [began |-> began, ended |-> now, outcome |-> o])
    BY DEF AttemptFails
  <1> QED
    BY <1>1, <1>2, <1>3, <1>4

\* The failures that were waited for stay so when another one is recorded.
LEMMA FailureKeepsChain ==
    ASSUME RInv, NEW o \in Failure(mode), AttemptFails(o), UNCHANGED <<mode, policy, attempt, began>>
    PROVE  Chained'
  <1>1. /\ attempt \in Nat
        /\ Len(history) = attempt /\ Len(history') = attempt + 1
        /\ history'[attempt + 1] = [began |-> began, ended |-> now, outcome |-> o]
        /\ \A i \in 1..attempt : history'[i] = history[i]
    BY FailureRecorded DEF RInv, TypeOK
  <1>2. ASSUME NEW i \in 1..attempt, i < Len(history')
        PROVE  Waited(i, history[i + 1].began)'
    <2>1. history'[i] = history[i]
      BY <1>1
    <2>2. CASE i < attempt
      <3>1. i < Len(history) /\ history'[i + 1] = history[i + 1]
        BY <1>1, <2>2
      <3>2. Waited(i, history[i + 1].began)
        BY <3>1 DEF RInv, Chained
      <3> QED
        BY <2>1, <3>1, <3>2 DEF Waited, Retryable
    <2>3. CASE i = attempt
      <3>1. history'[i + 1].began = began
        BY <1>1, <2>3
      <3>2. Waited(i, began)
        BY <1>1, <2>3 DEF RInv, Chained
      <3> QED
        BY <2>1, <3>1, <3>2 DEF Waited, Retryable
    <2> QED
      BY <1>1, <2>2, <2>3
  <1>3. Len(history') # attempt'
    BY <1>1
  <1> QED
    BY <1>2, <1>3 DEF Chained

\* An attempt fails and the loop gives up.
LEMMA ReturnKeepsRInv ==
    ASSUME RInv, NEW o \in Failure(mode), AttemptFails(o), Return(o),
           \/ ~Retryable(o)
           \/ attempt >= policy.max_retries
           \/ \E delay \in Delay(o) : OverBudget(delay)
    PROVE  RInv'
  <1>0. /\ o \in Outcome /\ history' \in Seq(Failed)
        /\ Len(history) = attempt /\ Len(history') = attempt + 1
        /\ history'[attempt + 1] = [began |-> began, ended |-> now, outcome |-> o]
    BY FailureRecorded
  <1>1. TypeOK'
    BY <1>0 DEF RInv, TypeOK, Return
  <1>2. Chained'
    BY FailureKeepsChain DEF Return
  <1>3. Counted'
    BY <1>0 DEF Return, Counted
  <1>4. Settled'
    <2>1. ~Retryable(o)' \/ attempt' = policy'.max_retries
            \/ \E delay \in Delay(o)' : OverBudget(delay)'
      <3>1. CASE ~Retryable(o)
        BY <3>1 DEF Return, Retryable
      <3>2. CASE attempt >= policy.max_retries
        BY <3>2, PolicyAssumption DEF Return, RInv, TypeOK
      <3>3. CASE \E delay \in Delay(o) : OverBudget(delay)
        BY <3>3 DEF Return, Delay, backoff, OverBudget
      <3> QED
        BY <3>1, <3>2, <3>3
    <2> QED
      BY <1>0, <2>1 DEF Return, Settled
  <1>5. Clocked' /\ Budgeted'
    BY DEF RInv, Clocked, Budgeted, Return
  <1>6. Stretched'
    BY DEF RInv, Stretched, Return, AttemptFails, LongestSleep
  <1> QED
    BY <1>1, <1>2, <1>3, <1>4, <1>5, <1>6 DEF RInv

\* An attempt fails and the loop sleeps.
LEMMA SleepKeepsRInv ==
    ASSUME RInv, NEW o \in Failure(mode), AttemptFails(o), Retryable(o),
           attempt < policy.max_retries,
           NEW delay \in Delay(o), ~OverBudget(delay),
           pc' = "sleep", wakeAt' = now + delay,
           UNCHANGED <<mode, policy, now, attempt, began, result>>
    PROVE  RInv'
  <1>0. /\ o \in Outcome /\ history' \in Seq(Failed)
        /\ Len(history) = attempt /\ Len(history') = attempt + 1
        /\ history'[attempt + 1] = [began |-> began, ended |-> now, outcome |-> o]
    BY FailureRecorded
  <1>1. /\ delay \in 0..LongestSleep
        /\ IF o.after # None /\ policy.honor_retry_after
           THEN delay = o.after ELSE delay <= policy.max_delay
    BY <1>0, DelayBounded DEF RInv, TypeOK
  <1>2. /\ delay \in Nat /\ now \in Nat /\ began \in Nat /\ attempt \in Nat
        /\ LongestSleep \in Nat /\ AttemptTimeout \in Nat /\ policy.max_delay \in Nat
    <2>1. LongestSleep \in Nat /\ policy.max_delay \in Nat
      BY PolicyAssumption DEF RInv, TypeOK, LongestSleep
    <2> QED
      BY <1>1, <2>1, PolicyAssumption DEF RInv, TypeOK
  <1>3. TypeOK'
    BY <1>0, <1>2 DEF RInv, TypeOK
  <1>4. Chained'
    BY FailureKeepsChain
  <1>5. Counted'
    <2>1. Waited(attempt + 1, wakeAt)'
      <3>1. mode # "write" => o.after = None
        BY OnlyWritesAreTold DEF RInv, TypeOK
      <3>2. wakeAt' \in Nat /\ wakeAt' - now = delay
        BY <1>2
      <3>3. Retryable(o)'
        BY DEF Retryable
      <3> QED
        BY <1>0, <1>1, <3>1, <3>2, <3>3 DEF Waited
    <2> QED
      BY <1>0, <2>1 DEF Counted
  <1>6. Settled'
    BY DEF Settled
  <1>7. Clocked'
    BY <1>2 DEF Clocked
  <1>8. Budgeted'
    BY <1>2, PolicyAssumption DEF RInv, TypeOK, Budgeted, OverBudget
  <1>9. Stretched'
    <2>1. SUFFICES ASSUME mode # "stream" PROVE
            /\ began <= attempt * AttemptTimeout + attempt * LongestSleep
            /\ wakeAt' <= (attempt + 1) * AttemptTimeout + (attempt + 1) * LongestSleep
      BY DEF Stretched, LongestSleep
    <2>2. /\ began <= attempt * AttemptTimeout + attempt * LongestSleep
          /\ now <= (attempt + 1) * AttemptTimeout + attempt * LongestSleep
      BY <2>1 DEF RInv, Stretched, AttemptFails
    <2>3. /\ attempt * LongestSleep \in Nat
          /\ (attempt + 1) * LongestSleep = attempt * LongestSleep + LongestSleep
          /\ (attempt + 1) * AttemptTimeout \in Nat
      BY <1>2, OneMoreTime
    <2> QED
      BY <1>1, <1>2, <2>2, <2>3
  <1> QED
    BY <1>3, <1>4, <1>5, <1>6, <1>7, <1>8, <1>9 DEF RInv

LEMMA Numbers ==
    ASSUME RInv
    PROVE  /\ now \in Nat /\ began \in Nat /\ wakeAt \in Nat /\ attempt \in Nat
           /\ AttemptTimeout \in Nat /\ Patience \in Nat /\ LongestSleep \in Nat
           /\ policy.max_elapsed \in Nat \cup {None}
           /\ attempt * AttemptTimeout \in Nat /\ attempt * LongestSleep \in Nat
           /\ (attempt + 1) * AttemptTimeout = attempt * AttemptTimeout + AttemptTimeout
           /\ (attempt + 1) * LongestSleep = attempt * LongestSleep + LongestSleep
  <1>1. /\ now \in Nat /\ began \in Nat /\ wakeAt \in Nat /\ attempt \in Nat
        /\ AttemptTimeout \in Nat /\ Patience \in Nat /\ LongestSleep \in Nat
        /\ policy.max_elapsed \in Nat \cup {None}
    BY PolicyAssumption DEF RInv, TypeOK, Patience, LongestSleep
  <1> QED
    BY <1>1, OneMoreTime

LEMMA SuccessKeepsRInv == RInv /\ AttemptSucceeds => RInv'
  <1> SUFFICES ASSUME RInv, AttemptSucceeds PROVE RInv'
    OBVIOUS
  <1> USE DEF AttemptSucceeds, Return
  <1>1. TypeOK'
    BY DEF RInv, TypeOK
  <1>2. Chained'
    BY DEF RInv, Chained, Waited, Retryable
  <1>3. Counted' /\ Settled' /\ Clocked'
    BY DEF RInv, Counted, Settled, Clocked
  <1>4. Budgeted' /\ Stretched'
    BY DEF RInv, Budgeted, Stretched, LongestSleep
  <1> QED
    BY <1>1, <1>2, <1>3, <1>4 DEF RInv

LEMMA WakeUpKeepsRInv == RInv /\ WakeUp => RInv'
  <1> SUFFICES ASSUME RInv, WakeUp PROVE RInv'
    OBVIOUS
  <1> USE DEF WakeUp
  <1>1. /\ attempt < policy.max_retries /\ Len(history) = attempt + 1
        /\ Waited(attempt + 1, wakeAt)
    BY DEF RInv, Counted
  <1>2. policy.max_retries \in Nat
    BY PolicyAssumption DEF RInv, TypeOK
  <1>3. TypeOK'
    BY <1>1, <1>2, Numbers DEF RInv, TypeOK
  <1>4. Chained'
    <2>1. ASSUME NEW i \in 1..attempt', i < Len(history')
          PROVE  Waited(i, history[i + 1].began)'
      <3>1. i \in 1..attempt /\ i < Len(history)
        BY <1>1, <2>1, Numbers
      <3> QED
        BY <3>1 DEF RInv, Chained, Waited, Retryable
    <2>2. Waited(attempt, began)'
      BY <1>1 DEF Waited, Retryable
    <2> QED
      BY <2>1, <2>2 DEF Chained
  <1>5. Counted' /\ Settled'
    BY <1>1 DEF Counted, Settled
  <1>6. Clocked' /\ Budgeted'
    BY Numbers DEF RInv, Clocked, Budgeted, Patience
  <1>7. Stretched'
    <2> SUFFICES ASSUME mode # "stream"
                 PROVE  /\ now <= (attempt + 1) * AttemptTimeout + (attempt + 1) * LongestSleep
                        /\ now <= (attempt + 1 + 1) * AttemptTimeout + (attempt + 1) * LongestSleep
      BY DEF Stretched, LongestSleep
    <2>1. now <= (attempt + 1) * AttemptTimeout + (attempt + 1) * LongestSleep
      BY DEF RInv, Stretched
    <2>2. /\ (attempt + 1 + 1) * AttemptTimeout = (attempt + 1) * AttemptTimeout + AttemptTimeout
          /\ (attempt + 1) * AttemptTimeout \in Nat /\ (attempt + 1) * LongestSleep \in Nat
      <3>1. attempt + 1 \in Nat
        BY Numbers
      <3> QED
        BY <3>1, Numbers, OneMoreTime
    <2> QED
      BY <2>1, <2>2, Numbers
  <1> QED
    BY <1>3, <1>4, <1>5, <1>6, <1>7 DEF RInv

LEMMA TickKeepsRInv == RInv /\ Tick => RInv'
  <1> SUFFICES ASSUME RInv, Tick PROVE RInv'
    OBVIOUS
  <1> USE DEF Tick
  <1>1. TypeOK'
    BY DEF RInv, TypeOK
  <1>2. Chained' /\ Counted'
    BY DEF RInv, Chained, Counted, Waited, Retryable
  <1>3. Settled'
    BY DEF RInv, Settled
  <1>4. Clocked'
    BY Numbers DEF RInv, Clocked, Deadline, Patience
  <1>5. Budgeted'
    BY Numbers DEF RInv, Clocked, Budgeted, Deadline, None
  <1>6. Stretched'
    <2> SUFFICES ASSUME mode # "stream", pc = "attempt"
                 PROVE  now + 1 <= (attempt + 1) * AttemptTimeout + attempt * LongestSleep
      BY DEF RInv, Stretched, LongestSleep
    <2>1. /\ began <= attempt * AttemptTimeout + attempt * LongestSleep
          /\ now < began + AttemptTimeout
      BY DEF RInv, Stretched, Deadline
    <2> QED
      BY <2>1, Numbers
  <1> QED
    BY <1>1, <1>2, <1>3, <1>4, <1>5, <1>6 DEF RInv

LEMMA NextKeepsRInv == RInv /\ [Next]_vars => RInv'
  <1> SUFFICES ASSUME RInv, [Next]_vars PROVE RInv'
    OBVIOUS
  <1>1. CASE AttemptSucceeds
    BY <1>1, SuccessKeepsRInv
  <1>2. ASSUME NEW o \in Failure(mode), AttemptFails(o)
        PROVE  RInv'
    <2>1. CASE Return(o) /\ (~Retryable(o) \/ attempt >= policy.max_retries)
      BY <1>2, <2>1, ReturnKeepsRInv
    <2>2. ASSUME Retryable(o), attempt < policy.max_retries, NEW delay \in Delay(o),
                 \/ OverBudget(delay) /\ Return(o)
                 \/ /\ ~OverBudget(delay)
                    /\ pc' = "sleep"
                    /\ wakeAt' = now + delay
                    /\ UNCHANGED <<mode, policy, now, attempt, began, result>>
          PROVE  RInv'
      <3>1. CASE OverBudget(delay) /\ Return(o)
        BY <1>2, <2>2, <3>1, ReturnKeepsRInv
      <3>2. CASE ~OverBudget(delay)
        BY <1>2, <2>2, <3>2, SleepKeepsRInv
      <3> QED
        BY <2>2, <3>1, <3>2
    <2> QED
      BY <1>2, <2>1, <2>2 DEF AttemptFails
  <1>3. CASE WakeUp
    BY <1>3, WakeUpKeepsRInv
  <1>4. CASE Tick
    BY <1>4, TickKeepsRInv
  <1>5. CASE UNCHANGED vars
    BY <1>5 DEF vars, RInv, TypeOK, Counted, Chained, Waited, Retryable, Settled, Delay, backoff,
                OverBudget, Clocked, Patience, Budgeted, Stretched, LongestSleep
  <1> QED
    BY <1>1, <1>2, <1>3, <1>4, <1>5 DEF Next, AttemptEnds

-----------------------------------------------------------------------------
(* Theorems                                                                *)

\* What is known of the loop at each of its places holds throughout, for every
\* policy and whatever the attempts end with (`send_lp`, `into_future`, `stream`).
THEOREM LoopInvariance == Spec => []RInv
  BY InitRInv, NextKeepsRInv, PTL DEF Spec

\* Every variable keeps its type: in particular no loop counts more retries
\* than its policy allows, and no failure is recorded that its mode cannot meet.
THEOREM LoopTypeCorrect == Spec => []TypeOK
  <1>1. RInv => TypeOK
    BY DEF RInv
  <1> QED
    BY <1>1, LoopInvariance, PTL

\* No loop ever retries what is deterministic, in HTTP and in gRPC terms.
THEOREM TransientOnly == Spec => []OnlyTransientRetried
  <1>1. RInv => OnlyTransientRetried
    <2> SUFFICES ASSUME RInv, NEW i \in 1..attempt
                 PROVE  ~Deterministic(history[i].outcome)
      BY DEF OnlyTransientRetried
    <2>1. attempt \in Nat /\ (Len(history) = attempt \/ Len(history) = attempt + 1)
      BY DEF RInv, TypeOK, Counted
    <2>2. Retryable(history[i].outcome)
      <3>1. CASE i < Len(history)
        BY <3>1 DEF RInv, Chained, Waited
      <3>2. CASE i = attempt /\ Len(history) = attempt
        BY <3>2 DEF RInv, Chained, Waited
      <3> QED
        BY <2>1, <3>1, <3>2
    <2> QED
      BY <2>2 DEF Retryable, Deterministic, retryable_status, retryable_reqwest,
                  retryable_tonic, is_retryable_query_err
  <1> QED
    BY <1>1, LoopInvariance, PTL

\* The caller gets the error of the last attempt, and only when the policy
\* leaves no choice.
THEOREM LastErrorIsReturned == Spec => []LastErrorReturned
  <1>1. RInv => LastErrorReturned
    BY DEF RInv, TypeOK, Counted, Settled, LastErrorReturned
  <1> QED
    BY <1>1, LoopInvariance, PTL

\* The loop waits as long as the server asked for, where the policy says so, and
\* else no longer than `max_delay`.
THEOREM WaitsAsAskedFor == Spec => []WaitsAsAsked
  <1>1. RInv => WaitsAsAsked
    <2> SUFFICES ASSUME RInv, NEW i \in 1..attempt
                 PROVE  Waited(i, IF i < Len(history) THEN history[i + 1].began ELSE began)
      BY DEF WaitsAsAsked, Waited
    <2>1. attempt \in Nat /\ (Len(history) = attempt \/ Len(history) = attempt + 1)
      BY DEF RInv, TypeOK, Counted
    <2>2. CASE i < Len(history)
      BY <2>2 DEF RInv, Chained
    <2>3. CASE ~(i < Len(history))
      <3>1. i = attempt /\ attempt > 0 /\ Len(history) = attempt
        BY <2>1, <2>3
      <3> QED
        BY <2>3, <3>1 DEF RInv, Chained
    <2> QED
      BY <2>2, <2>3
  <1> QED
    BY <1>1, LoopInvariance, PTL

\* A batch or an awaited query keeps its caller no longer than the budget and
\* one attempt, and no longer than its attempts and its sleeps one by one.
THEOREM TotalIsBounded == Spec => []TotalBounded
  <1>1. RInv => TotalBounded
    <2> SUFFICES ASSUME RInv, mode # "stream"
                 PROVE  /\ policy.max_elapsed # None => now <= policy.max_elapsed + AttemptTimeout
                        /\ now <= (attempt + 1) * AttemptTimeout + policy.max_retries * LongestSleep
      BY DEF TotalBounded
    <2>1. policy.max_elapsed # None => now <= policy.max_elapsed + AttemptTimeout
      BY DEF RInv, Budgeted
    <2>2. attempt \in Nat /\ attempt <= policy.max_retries /\ policy.max_retries \in Nat
      BY PolicyAssumption DEF RInv, TypeOK
    <2>3. PICK n \in Nat : /\ n <= policy.max_retries
                           /\ now <= (attempt + 1) * AttemptTimeout + n * LongestSleep
      <3>1. CASE pc # "sleep"
        BY <2>2, <3>1, Numbers DEF RInv, Stretched
      <3>2. CASE pc = "sleep"
        <4>1. attempt + 1 \in Nat /\ attempt + 1 <= policy.max_retries
          BY <2>2, <3>2 DEF RInv, Counted
        <4>2. now <= (attempt + 1) * AttemptTimeout + (attempt + 1) * LongestSleep
          BY <3>2, Numbers DEF RInv, Clocked, Stretched
        <4> QED
          BY <4>1, <4>2
      <3> QED
        BY <3>1, <3>2
    <2>4. n * LongestSleep <= policy.max_retries * LongestSleep
      BY <2>2, <2>3, Numbers, TimesGrow
    <2>5. n * LongestSleep \in Nat /\ policy.max_retries * LongestSleep \in Nat
      BY <2>2, Numbers, OneMoreTime
    <2> QED
      BY <2>1, <2>3, <2>4, <2>5, Numbers
  <1> QED
    BY <1>1, LoopInvariance, PTL

-----------------------------------------------------------------------------
(* The verdict on one attempt (WriteErrors)                                *)

Params == [use_v2_api : BOOLEAN, accept_partial : BOOLEAN, no_sync : BOOLEAN]

\* The verdict of Classify.
Judgement == IF answer.code \in 200..299 THEN NoError("Ok")
             ELSE [parse_write_error EXCEPT !.retry = retryable_status(answer.code)]

\* What the request asked for is what the options say.
AskedFor == verdict.kind # "unsent" =>
    (opts.accept_partial /\ ~opts.use_v2_api => "accept_partial=true" \in asked)

AnswerHeld == verdict.kind \notin {"unsent", "waiting"} =>
    answer \in Answer /\ items \in Elements(answer.data)

Judged == IF verdict.kind \in {"unsent", "waiting", "answered"} THEN ~verdict.retry
          ELSE verdict = Judgement

EInv == opts \in Params /\ AskedFor /\ AnswerHeld /\ Judged

LEMMA ElementsAreItems ==
    ASSUME NEW data, NEW s \in Elements(data)
    PROVE  s \in Seq(Item) /\ (data = "array" \/ data = "object" \/ s = <<>>)
  <1>1. CASE data = "array"
    <2>1. Elements(data) = BoundedSeq(Item, MaxItems)
      BY <1>1 DEF Elements
    <2>2. PICK n \in 0..MaxItems : s \in [1..n -> Item]
      BY <2>1 DEF BoundedSeq, SeqOf
    <2> QED
      BY <1>1, <2>2, ConstantsAssumption
  <1>2. CASE data = "object"
    <2>1. PICK item \in Item : s = <<item>>
      BY <1>2 DEF Elements
    <2> QED
      BY <1>2, <2>1
  <1>3. CASE data \notin {"array", "object"}
    <2>1. s \in {<<>>}
      BY <1>3, Zenon DEF Elements
    <2> QED
      BY <2>1
  <1> QED
    BY <1>1, <1>2, <1>3

\* The places of the elements that are a LineError.
Typed == {i \in DOMAIN items : parse_single_line_error(items[i])}

\* s has the elements of T that are at most n, once each.
IsFound(s, n, T) ==
    /\ s \in Seq(Nat)
    /\ \A k \in 1..Len(s) : s[k] \in 1..n
    /\ \A i \in 1..n : i \in T <=> \E k \in 1..Len(s) : s[k] = i
    /\ Len(s) <= n
    /\ Len(s) = n <=> 1..n \subseteq T

LEMMA FoundGrows ==
    ASSUME NEW n \in Nat, NEW T, NEW s, IsFound(s, n, T)
    PROVE  IsFound(IF n + 1 \in T THEN Append(s, n + 1) ELSE s, n + 1, T)
  <1>1. /\ s \in Seq(Nat) /\ Len(s) \in Nat
        /\ \A k \in 1..Len(s) : s[k] \in 1..n
        /\ \A i \in 1..n : i \in T <=> \E k \in 1..Len(s) : s[k] = i
        /\ Len(s) <= n
        /\ Len(s) = n <=> 1..n \subseteq T
    BY DEF IsFound
  <1>2. /\ \A i \in 1..(n + 1) : i \in 1..n \/ i = n + 1
        /\ \A i \in 1..n : i \in 1..(n + 1) /\ i # n + 1
        /\ n + 1 \in 1..(n + 1)
        /\ 1..(n + 1) \subseteq T <=> 1..n \subseteq T /\ n + 1 \in T
    OBVIOUS
  <1>3. CASE n + 1 \in T
    <2> DEFINE longer == Append(s, n + 1)
    <2>1. /\ longer \in Seq(Nat) /\ Len(longer) = Len(s) + 1
          /\ \A k \in 1..Len(s) : longer[k] = s[k]
          /\ longer[Len(s) + 1] = n + 1
      BY <1>1
    <2>2. /\ \A k \in 1..(Len(s) + 1) : k \in 1..Len(s) \/ k = Len(s) + 1
          /\ \A k \in 1..Len(s) : k \in 1..(Len(s) + 1)
          /\ Len(s) + 1 \in 1..(Len(s) + 1)
      BY <1>1
    <2> HIDE DEF longer
    <2>3. \A k \in 1..Len(longer) : longer[k] \in 1..(n + 1)
      BY <1>1, <1>2, <2>1, <2>2
    <2>4. ASSUME NEW i \in 1..(n + 1)
          PROVE  i \in T <=> \E k \in 1..Len(longer) : longer[k] = i
      <3>1. CASE i = n + 1
        BY <1>3, <2>1, <2>2, <3>1
      <3>2. CASE i \in 1..n
        <4>1. (\E k \in 1..Len(longer) : longer[k] = i) <=> \E k \in 1..Len(s) : s[k] = i
          BY <1>2, <2>1, <2>2, <3>2
        <4> QED
          BY <1>1, <3>2, <4>1
      <3> QED
        BY <1>2, <3>1, <3>2
    <2>5. Len(longer) <= n + 1 /\ (Len(longer) = n + 1 <=> 1..(n + 1) \subseteq T)
      BY <1>1, <1>2, <1>3, <2>1
    <2>6. IsFound(longer, n + 1, T)
      BY <2>1, <2>3, <2>4, <2>5 DEF IsFound
    <2> QED
      BY <1>3, <2>6 DEF longer
  <1>4. CASE n + 1 \notin T
    <2>1. \A k \in 1..Len(s) : s[k] \in 1..(n + 1) /\ s[k] # n + 1
      BY <1>1, <1>2
    <2>2. \A i \in 1..(n + 1) : i \in T <=> \E k \in 1..Len(s) : s[k] = i
      BY <1>1, <1>2, <1>4, <2>1
    <2>3. Len(s) <= n + 1 /\ Len(s) # n + 1
      BY <1>1
    <2>4. IsFound(s, n + 1, T)
      BY <1>1, <1>2, <1>4, <2>1, <2>2, <2>3 DEF IsFound
    <2> QED
      BY <1>4, <2>4
  <1> QED
    BY <1>3, <1>4

\* The loop of `parse_line_errors` finds the elements that are a LineError.
LEMMA LineErrorsFound ==
    ASSUME items \in Seq(Item)
    PROVE  IsFound(parse_line_errors, Len(items), Typed)
  <1> DEFINE N == Len(items)
             V == Seq(Nat)
             step == [n \in 1..N |-> [s \in V |->
                        IF parse_single_line_error(items[n]) THEN Append(s, n) ELSE s]]
             Eqn(f) == f = [n \in 0..N |->
                        IF n = 0 THEN <<>>
                        ELSE IF parse_single_line_error(items[n]) THEN Append(f[n - 1], n)
                        ELSE f[n - 1]]
  <1>1. N \in Nat /\ \A n \in 1..N : n - 1 \in 0..N /\ n \in 0..N /\ n # 0
    OBVIOUS
  <1> HIDE DEF N
  <1>2. <<>> \in V /\ step \in [1..N -> [V -> V]]
    <2>1. \A n \in 1..N, s \in V :
            (IF parse_single_line_error(items[n]) THEN Append(s, n) ELSE s) \in V
      BY <1>1
    <2> HIDE DEF V
    <2>2. \A n \in 1..N : [s \in V |-> IF parse_single_line_error(items[n])
                                       THEN Append(s, n) ELSE s] \in [V -> V]
      BY <2>1
    <2> QED
      BY <2>2 DEF V
  <1>3. PICK f : IsIteration(f, N, V, <<>>, step)
    <2> HIDE DEF V, step
    <2> QED
      BY <1>1, <1>2, Iterates
  <1>4. /\ f \in [0..N -> V] /\ f[0] = <<>>
        /\ \A n \in 1..N : f[n] = IF parse_single_line_error(items[n])
                                  THEN Append(f[n - 1], n) ELSE f[n - 1]
    <2>1. f \in [0..N -> V] /\ f[0] = <<>> /\ \A n \in 1..N : f[n] = step[n][f[n - 1]]
      BY <1>3 DEF IsIteration
    <2>2. \A n \in 1..N : f[n - 1] \in V
      BY <1>1, <2>1
    <2> HIDE DEF V
    <2> QED
      BY <2>1, <2>2
  <1>5. Eqn(f)
    <2>1. \A n \in 0..N : n = 0 \/ n \in 1..N
      BY <1>1
    <2>2. f = [n \in 0..N |-> f[n]]
      BY <1>4
    <2>3. \A n \in 0..N : f[n] = IF n = 0 THEN <<>>
                                 ELSE IF parse_single_line_error(items[n]) THEN Append(f[n - 1], n)
                                 ELSE f[n - 1]
      BY <1>1, <1>4, <2>1
    <2> QED
      BY <2>2, <2>3
  <1>6. PICK g : Eqn(g) /\ parse_line_errors = g[N]
    <2>1. parse_line_errors = (CHOOSE g : Eqn(g))[N]
      BY DEF parse_line_errors, N
    <2> HIDE DEF Eqn
    <2> QED
      BY <1>5, <2>1
  <1>7. g[0] = <<>>
    BY <1>1, <1>6
  <1>8. \A n \in 0..(N - 1) : g[n + 1] = IF parse_single_line_error(items[n + 1])
                                         THEN Append(g[n], n + 1) ELSE g[n]
    <2> TAKE n \in 0..(N - 1)
    <2>1. n + 1 \in 0..N /\ n + 1 # 0 /\ (n + 1) - 1 = n
      BY <1>1
    <2> QED
      BY <1>6, <2>1
  <1> DEFINE S == {n \in 0..N : IsFound(g[n], n, Typed)}
  <1>9. 0 \in S
    <2>1. IsFound(<<>>, 0, Typed)
      BY DEF IsFound
    <2> QED
      BY <1>1, <1>7, <2>1
  <1>10. \A n \in 0..(N - 1) : n \in S => n + 1 \in S
    <2> TAKE n \in 0..(N - 1)
    <2> HAVE n \in S
    <2>1. n \in Nat /\ n + 1 \in 0..N
      BY <1>1
    <2> DEFINE s == g[n]
    <2>2. IsFound(s, n, Typed)
      OBVIOUS
    <2>3. g[n + 1] = IF n + 1 \in Typed THEN Append(s, n + 1) ELSE s
      <3>1. n + 1 \in DOMAIN items
        BY <1>1, <2>1 DEF N
      <3> QED
        BY <1>8, <3>1 DEF Typed
    <2> HIDE DEF s
    <2>4. IsFound(g[n + 1], n + 1, Typed)
      BY <2>1, <2>2, <2>3, FoundGrows
    <2> QED
      BY <2>1, <2>4
  <1>11. S \in SUBSET (0..N)
    OBVIOUS
  <1> HIDE DEF S
  <1>12. N \in S
    BY <1>1, <1>9, <1>10, <1>11, UpTo
  <1> QED
    BY <1>6, <1>12 DEF S, N

\* The verdict depends on nothing that changes after it.
LEMMA JudgementKept ==
    ASSUME UNCHANGED <<opts, answer, items>>
    PROVE  Judgement' = Judgement
  BY DEF Judgement, parse_write_error, PartialWrite, format_object_data_error,
         is_partial_write_error, create_error_msg_details, parse_line_errors,
         Server, NoError, Verdict

\* What parse_write_error makes of an answer.
LEMMA ParsedIs ==
    ASSUME answer \in Answer
    PROVE  \/ parse_write_error = PartialWrite /\ is_partial_write_error /\ answer.body = "object"
           \/ \E message \in {"", "body", "message", "error"} : \E details :
                /\ parse_write_error = [kind |-> "Server", message |-> message, details |-> details,
                                        line_errors |-> <<>>, retry |-> FALSE]
                /\ message = "" <=> answer.body = "none"
  <1> DEFINE server(m, d) == [kind |-> "Server", message |-> m, details |-> d,
                              line_errors |-> <<>>, retry |-> FALSE]
  <1>1. /\ answer.body \in {"none", "plain", "scalar", "object"}
        /\ answer.body # "object" => ~answer.message /\ ~answer.error
    BY DEF Answer
  <1>2. \A m, d : Server(m, d) = server(m, d)
    BY DEF Server, NoError, Verdict
  <1>3. \E d : format_object_data_error = server("error", d)
    <2> HIDE DEF server
    <2> QED
      BY <1>2 DEF format_object_data_error
  <1> HIDE DEF server
  <1>4. CASE answer.body = "none"
    BY <1>2, <1>4 DEF parse_write_error, server
  <1>5. CASE answer.body = "plain"
    BY <1>2, <1>5 DEF parse_write_error, server
  <1>6. CASE answer.body \in {"scalar", "object"} /\ answer.message
    BY <1>2, <1>6 DEF parse_write_error, server
  <1>7. CASE answer.body \in {"scalar", "object"} /\ ~answer.message /\ ~answer.error
    BY <1>2, <1>7 DEF parse_write_error, server
  <1>8. CASE answer.body \in {"scalar", "object"} /\ ~answer.message /\ answer.error
    <2>1. parse_write_error = IF is_partial_write_error THEN PartialWrite
                              ELSE format_object_data_error
      BY <1>8 DEF parse_write_error
    <2>2. CASE is_partial_write_error
      BY <1>1, <1>8, <2>1, <2>2
    <2>3. CASE ~is_partial_write_error
      BY <1>3, <1>8, <2>1, <2>3 DEF server
    <2> QED
      BY <2>2, <2>3
  <1> QED
    BY <1>1, <1>4, <1>5, <1>6, <1>7, <1>8

\* What becomes of it in the verdict.
LEMMA RetrySet ==
    ASSUME NEW kind, NEW message, NEW details, NEW lines, NEW b, NEW v,
           v = [[kind |-> kind, message |-> message, details |-> details,
                 line_errors |-> lines, retry |-> FALSE] EXCEPT !.retry = b]
    PROVE  /\ v.kind = kind /\ v.message = message /\ v.details = details
           /\ v.line_errors = lines /\ v.retry = b
  OBVIOUS

LEMMA JudgementIs ==
    ASSUME answer \in Answer
    PROVE  \/ Judgement.kind = "Ok" /\ ~Judgement.retry
           \/ /\ is_partial_write_error
              /\ Judgement.kind = "PartialWrite"
              /\ Judgement.message = "error" /\ answer.body = "object"
              /\ Judgement.details = create_error_msg_details
              /\ Judgement.line_errors = parse_line_errors
              /\ ~Judgement.retry
           \/ /\ Judgement.kind = "Server"
              /\ Judgement.message = "" <=> answer.body = "none"
  <1> DEFINE b == retryable_status(answer.code)
             error == parse_write_error
  <1>1. CASE answer.code \in 200..299
    BY <1>1 DEF Judgement, NoError, Verdict
  <1>2. CASE answer.code \notin 200..299
    <2>1. Judgement = [error EXCEPT !.retry = b]
      BY <1>2 DEF Judgement
    <2> HIDE DEF b
    <2>2. CASE error = PartialWrite /\ is_partial_write_error /\ answer.body = "object"
      <3>1. ~b
        BY <2>2 DEF is_partial_write_error, retryable_status, b
      <3>2. PartialWrite = [kind |-> "PartialWrite", message |-> "error",
                            details |-> create_error_msg_details,
                            line_errors |-> parse_line_errors, retry |-> FALSE]
        BY DEF PartialWrite, Verdict
      <3> HIDE DEF error
      <3>3. /\ Judgement.kind = "PartialWrite" /\ Judgement.message = "error"
            /\ Judgement.details = create_error_msg_details
            /\ Judgement.line_errors = parse_line_errors
            /\ Judgement.retry = b
        BY <2>1, <2>2, <3>2, RetrySet
      <3> QED
        BY <2>2, <3>1, <3>3
    <2>3. ASSUME NEW message \in {"", "body", "message", "error"}, NEW details,
                 error = [kind |-> "Server", message |-> message, details |-> details,
                          line_errors |-> <<>>, retry |-> FALSE],
                 message = "" <=> answer.body = "none"
          PROVE  /\ Judgement.kind = "Server"
                 /\ Judgement.message = "" <=> answer.body = "none"
      <3> HIDE DEF error
      <3>1. Judgement.kind = "Server" /\ Judgement.message = message
        BY <2>1, <2>3, RetrySet
      <3> QED
        BY <2>3, <3>1
    <2> QED
      BY <2>2, <2>3, ParsedIs
  <1> QED
    BY <1>1, <1>2

LEMMA InitEInv == ErrorInit => EInv
  <1> SUFFICES ASSUME ErrorInit PROVE EInv
    OBVIOUS
  <1>1. opts \in Params
    BY Zenon DEF ErrorInit, Params
  <1>2. verdict.kind = "unsent" /\ ~verdict.retry
    BY DEF ErrorInit, NoError, Verdict
  <1> QED
    BY <1>1, <1>2 DEF EInv, AskedFor, AnswerHeld, Judged

LEMMA NextKeepsEInv == EInv /\ [ErrorNext]_errorVars => EInv'
  <1> SUFFICES ASSUME EInv, [ErrorNext]_errorVars PROVE EInv'
    OBVIOUS
  <1> USE DEF EInv, Params, AskedFor, AnswerHeld, Judged
  <1>1. CASE Send
    BY <1>1 DEF Send, NoError, Verdict
  <1>2. CASE Arrive
    BY <1>2 DEF Arrive, NoError, Verdict
  <1>3. CASE Classify
    <2>1. verdict' = Judgement /\ UNCHANGED <<opts, asked, answer, items>>
      BY <1>3 DEF Classify, Judgement
    <2>2. Judgement' = Judgement
      BY <2>1, JudgementKept
    <2>3. verdict.kind = "answered"
      BY <1>3 DEF Classify
    <2> QED
      BY <2>1, <2>2, <2>3, JudgementIs
  <1>4. CASE UNCHANGED errorVars
    <2>1. Judgement' = Judgement
      BY <1>4, JudgementKept DEF errorVars
    <2> QED
      BY <1>4, <2>1 DEF errorVars
  <1> QED
    BY <1>1, <1>2, <1>3, <1>4 DEF ErrorNext

\* Whatever the server answers, the verdict is that of Classify for the request
\* that was made (Client::send_lp, send_write_once).
THEOREM VerdictInvariance == ErrorSpec => []EInv
  BY InitEInv, NextKeepsEInv, PTL DEF ErrorSpec

\* What an error of the kind PartialWrite tells of the answer.
LEMMA PartialIs ==
    ASSUME EInv, verdict.kind = "PartialWrite"
    PROVE  /\ is_partial_write_error
           /\ items \in Seq(Item) /\ items # <<>>
           /\ verdict.details = create_error_msg_details
           /\ verdict.line_errors = parse_line_errors
           /\ ~verdict.retry
  <1>1. answer \in Answer /\ items \in Elements(answer.data) /\ verdict = Judgement
    BY DEF EInv, AnswerHeld, Judged
  <1>2. items \in Seq(Item)
    BY <1>1, ElementsAreItems
  <1>3. /\ is_partial_write_error
        /\ verdict.details = create_error_msg_details
        /\ verdict.line_errors = parse_line_errors
        /\ ~verdict.retry
    BY <1>1, JudgementIs
  <1> QED
    BY <1>2, <1>3 DEF is_partial_write_error

\* A partial write is reported only to a request that asked for one, and names
\* the lines that were rejected (is_partial_write_error).
THEOREM PartialOnlyAsAsked == ErrorSpec => []PartialAsAsked
  <1>1. EInv => PartialAsAsked
    <2> SUFFICES ASSUME EInv, verdict.kind = "PartialWrite"
                 PROVE  "accept_partial=true" \in asked /\ items # <<>>
      BY DEF PartialAsAsked
    <2>1. is_partial_write_error
      BY PartialIs
    <2> QED
      BY <2>1 DEF EInv, AskedFor, is_partial_write_error
  <1> QED
    BY <1>1, VerdictInvariance, PTL

\* The message tells of each element of `data` once and in order, and line_errors
\* has exactly those that are well formed, for a list of any length
\* (parse_line_errors, create_error_msg_details).
THEOREM EveryLineIsTold == ErrorSpec => []EveryRejectedLineTold
  <1>1. EInv => EveryRejectedLineTold
    <2> SUFFICES ASSUME EInv, verdict.kind = "PartialWrite" PROVE EveryRejectedLineTold
      BY DEF EveryRejectedLineTold
    <2>1. /\ items \in Seq(Item) /\ Len(items) \in Nat /\ DOMAIN items = 1..Len(items)
          /\ verdict.details = create_error_msg_details
          /\ verdict.line_errors = parse_line_errors
      BY PartialIs
    <2>2. Len(verdict.details) = Len(items) /\ \A i \in DOMAIN items : verdict.details[i][2] = i
      BY <2>1 DEF create_error_msg_details
    <2> DEFINE found == verdict.line_errors
    <2>3. IsFound(found, Len(items), Typed)
      BY <2>1, LineErrorsFound
    <2> HIDE DEF found
    <2>4. \A i \in DOMAIN items : i \in ToSet(found) <=> i \in Typed
      BY <2>1, <2>3 DEF IsFound, ToSet
    <2>5. (\E i \in DOMAIN items : i \notin Typed) <=> Len(found) < Len(items)
      <3>1. Len(found) \in Nat
        BY <2>3 DEF IsFound
      <3> QED
        BY <2>1, <2>3, <3>1 DEF IsFound
    <2>6. \A i \in DOMAIN items : i \in Typed <=> parse_single_line_error(items[i])
      BY DEF Typed
    <2> QED
      BY <2>2, <2>4, <2>5, <2>6 DEF EveryRejectedLineTold, found
  <1> QED
    BY <1>1, VerdictInvariance, PTL

\* A caller is given an empty message only where the server sent no body
\* (parse_write_error).
THEOREM AlwaysSaysSomething == ErrorSpec => []SaysSomething
  <1>1. EInv => SaysSomething
    <2> SUFFICES ASSUME EInv, verdict.kind \in {"Server", "PartialWrite"}
                 PROVE  verdict.message = "" <=> answer.body = "none"
      BY DEF SaysSomething
    <2>1. answer \in Answer /\ verdict = Judgement
      BY DEF EInv, AnswerHeld, Judged
    <2> QED
      BY <2>1, JudgementIs
  <1> QED
    BY <1>1, VerdictInvariance, PTL

\* A partial write is never retried, nor is anything but an error of the server
\* (send_write_once).
THEOREM PartialIsNeverRetried == ErrorSpec => []PartialIsFatal
  <1>1. EInv => PartialIsFatal
    <2> SUFFICES ASSUME EInv PROVE PartialIsFatal
      OBVIOUS
    <2>1. verdict.kind = "PartialWrite" => ~verdict.retry
      BY PartialIs
    <2>2. verdict.retry => verdict.kind = "Server"
      <3>1. CASE verdict.kind \in {"unsent", "waiting", "answered"}
        BY <3>1 DEF EInv, Judged
      <3>2. CASE verdict.kind \notin {"unsent", "waiting", "answered"}
        <4>1. answer \in Answer /\ verdict = Judgement
          BY <3>2 DEF EInv, AnswerHeld, Judged
        <4> QED
          BY <4>1, JudgementIs
      <3> QED
        BY <3>1, <3>2
    <2> QED
      BY <2>1, <2>2 DEF PartialIsFatal
  <1> QED
    BY <1>1, VerdictInvariance, PTL
=============================================================================

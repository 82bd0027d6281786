------------------------------ MODULE RetryLoop ------------------------------
(***************************************************************************)
(* One request under a RetryConfig, on a discrete clock: the loop of       *)
(* Client::send_lp (mode "write"), that of an awaited query ("query") and  *)
(* that of QueryRequest::stream ("stream").  The three read the policy in  *)
(* the same way but for two things: only a write sees a Retry-After, and   *)
(* `stream` neither bounds an attempt nor looks at `max_elapsed`.          *)
(*                                                                         *)
(* The clock counts milliseconds, the unit of `backoff`.  An attempt takes *)
(* any time its mode allows; a timer fires as soon as it is due.           *)
(***************************************************************************)
EXTENDS RetryClasses, Integers, Sequences

CONSTANTS
    Policy,             \* the RetryConfigs considered
    AttemptTimeout,     \* write_timeout, or query_timeout
    StreamPatience,     \* bound: how long a stream attempt may take
    HttpStatus,         \* response statuses considered
    GrpcCode,           \* gRPC status codes considered
    RetryAfter,         \* Retry-After delays considered
    LongestRetryAfter   \* none of them is longer

\* An absent Option<Duration>: no Retry-After in seconds form, or no max_elapsed.
None == -1

ASSUME PolicyAssumption ==
    /\ Policy \subseteq [max_retries : Nat, base_delay : Nat, max_delay : Nat,
                         multiplier : Nat, honor_retry_after : BOOLEAN,
                         max_elapsed : Nat \cup {None}]
    /\ AttemptTimeout \in Nat
    /\ StreamPatience \in Nat
    /\ HttpStatus \subseteq 100..599
    /\ GrpcCode \subseteq 1..16
    /\ LongestRetryAfter \in Nat
    /\ RetryAfter \subseteq 0..LongestRetryAfter

VARIABLES
    mode,               \* which of the three loops this is
    policy,             \* its RetryConfig
    now,                \* time since `start`
    pc,                 \* "attempt", "sleep" or "returned"
    attempt,            \* the loop's attempt counter, from 0
    began,              \* when the current attempt began
    wakeAt,             \* when the current sleep ends
    history,            \* the failed attempts: begin, end and outcome of each
    result              \* the outcome the caller got

vars == <<mode, policy, now, pc, attempt, began, wakeAt, history, result>>

Mode == {"write", "query", "stream"}

-----------------------------------------------------------------------------
(* How one attempt ends, and whether that is worth a retry                 *)

Ok == [kind |-> "ok", code |-> 0, after |-> None]

\* A status with its Retry-After, a reqwest error, or for a query a gRPC
\* status, a tonic transport error, an elapsed timeout, an error inside the
\* record-batch stream (Error::Arrow), or a Config error.
HttpOutcome ==
    [kind : {"status"}, code : HttpStatus, after : RetryAfter \cup {None}]
        \cup [kind : {"timeout", "connect", "request", "body"}, code : {0}, after : {None}]
GrpcOutcome ==
    [kind : {"grpc"}, code : GrpcCode, after : {None}]
        \cup [kind : {"transport", "timeout", "arrow", "config"}, code : {0}, after : {None}]

Outcome == HttpOutcome \cup GrpcOutcome

\* Mutant of Failure: no attempt times out.
FailureUntimed(m) ==
    {o \in IF m = "write" THEN HttpOutcome ELSE GrpcOutcome :
        /\ o.kind # "timeout"
        /\ o.kind = "status" => o.code \notin 200..299
        /\ m = "stream" => o.kind # "arrow"}

\* Opening a stream decodes nothing and has no timeout of its own.
Failure(m) ==
    CASE m = "write"  -> {o \in HttpOutcome : o.kind = "status" => o.code \notin 200..299}
      [] m = "query"  -> GrpcOutcome
      [] m = "stream" -> {o \in GrpcOutcome : o.kind \notin {"timeout", "arrow"}}

is_retryable_query_err(o) ==
    \/ o.kind = "grpc" /\ retryable_tonic(o.code)
    \/ o.kind \in {"transport", "timeout"}

Retryable(o) ==
    IF mode = "write"
    THEN IF o.kind = "status" THEN retryable_status(o.code) ELSE retryable_reqwest(o.kind)
    ELSE is_retryable_query_err(o)

-----------------------------------------------------------------------------
(* How long to wait                                                        *)

\* Full jitter under min(max_delay, base_delay * multiplier^attempt): as
\* `fastrand::f64()` is below 1 and the product is truncated, the delay stays
\* below that ceiling unless the ceiling is 0.
backoff(a) == {d \in 0..policy.max_delay :
    d = 0 \/ (d < policy.max_delay /\ d < policy.base_delay * policy.multiplier ^ a)}

\* Mutant of Delay: the policy is not asked whether to honour Retry-After.
DelayAlwaysHonoured(o) == IF o.after # None THEN {o.after} ELSE backoff(attempt)

Delay(o) ==
    IF o.after # None /\ policy.honor_retry_after THEN {o.after} ELSE backoff(attempt)

\* Mutant of OverBudget: the sleep is not counted.
OverBudgetNow(delay) ==
    /\ mode # "stream"
    /\ policy.max_elapsed # None
    /\ now > policy.max_elapsed

\* `start.elapsed() + delay > budget`; `stream` has no such test.
OverBudget(delay) ==
    /\ mode # "stream"
    /\ policy.max_elapsed # None
    /\ now + delay > policy.max_elapsed

-----------------------------------------------------------------------------
Init ==
    /\ mode \in Mode
    /\ policy \in Policy
    /\ now = 0 /\ began = 0 /\ wakeAt = 0
    /\ pc = "attempt"
    /\ attempt = 0
    /\ history = <<>>
    /\ result = Ok

\* Mutant of Return: the first error is the one that is kept.
ReturnFirst(o) ==
    /\ pc' = "returned"
    /\ result' = IF history = <<>> THEN o ELSE history[1].outcome
    /\ UNCHANGED <<mode, policy, now, attempt, began, wakeAt>>

Return(o) ==
    /\ pc' = "returned"
    /\ result' = o
    /\ UNCHANGED <<mode, policy, now, attempt, began, wakeAt>>

AttemptSucceeds ==
    /\ pc = "attempt"
    /\ Return(Ok)
    /\ UNCHANGED history

\* A timeout ends an attempt when its time is up, no sooner.
Deadline == began + (IF mode = "stream" THEN StreamPatience ELSE AttemptTimeout)

AttemptFails(o) ==
    /\ pc = "attempt"
    /\ o.kind = "timeout" => now = Deadline
    /\ history' = Append(history, [began |-> began, ended |-> now, outcome |-> o])
    /\ \/ ~Retryable(o) /\ Return(o)
       \/ attempt >= policy.max_retries /\ Return(o)
       \/ /\ Retryable(o) /\ attempt < policy.max_retries
          /\ \E delay \in Delay(o) :
              \/ OverBudget(delay) /\ Return(o)
              \/ /\ ~OverBudget(delay)
                 /\ pc' = "sleep"
                 /\ wakeAt' = now + delay
                 /\ UNCHANGED <<mode, policy, now, attempt, began, result>>

WakeUp ==
    /\ pc = "sleep"
    /\ now = wakeAt
    /\ pc' = "attempt"
    /\ attempt' = attempt + 1
    /\ began' = now
    /\ UNCHANGED <<mode, policy, now, wakeAt, history, result>>

\* Time passes while the loop awaits an attempt or a sleep.
Tick ==
    /\ \/ pc = "attempt" /\ now < Deadline
       \/ pc = "sleep" /\ now < wakeAt
    /\ now' = now + 1
    /\ UNCHANGED <<mode, policy, pc, attempt, began, wakeAt, history, result>>

AttemptEnds == AttemptSucceeds \/ \E o \in Failure(mode) : AttemptFails(o)

Next == AttemptEnds \/ WakeUp \/ Tick

Spec == Init /\ [][Next]_vars

\* Time does not stop, due timers fire and the woken task is polled; nothing
\* makes an attempt end but its own timeout.
FairSpec ==
    /\ Spec
    /\ WF_vars(Tick)
    /\ WF_vars(WakeUp)
    /\ WF_vars(\E o \in Failure(mode) : o.kind = "timeout" /\ AttemptFails(o))

-----------------------------------------------------------------------------
(* Properties                                                              *)

Failed == [began : Nat, ended : Nat, outcome : Outcome]

\* The shape of one loop: the attempt counter never passes max_retries, and the
\* clock readings it subtracts are never negative.
TypeOK ==
    /\ mode \in Mode
    /\ policy \in Policy
    /\ now \in Nat /\ began \in Nat /\ wakeAt \in Nat
    /\ pc \in {"attempt", "sleep", "returned"}
    /\ attempt \in 0..policy.max_retries
    /\ history \in Seq(Failed)
    /\ result \in Outcome \cup {Ok}

\* The longest sleep a policy can ask for, given the Retry-After delays that
\* the server sends.
LongestSleep == IF policy.max_delay > LongestRetryAfter THEN policy.max_delay
                ELSE LongestRetryAfter

\* How long one batch or an awaited query can keep its caller: a budget is
\* overrun by one attempt at most, and without one the attempts and the sleeps
\* are bounded one by one.
TotalBounded == mode # "stream" =>
    /\ policy.max_elapsed # None =>
        now <= policy.max_elapsed + AttemptTimeout
    /\ now <= (attempt + 1) * AttemptTimeout + policy.max_retries * LongestSleep

\* "Deterministic failures (other `4xx`, and partial writes) are never retried"
\* (retry.rs), nor is a rejected, undecodable or misconfigured query.
Deterministic(o) ==
    \/ o.kind = "status" /\ o.code \in 400..499 /\ o.code # 429
    \/ o.kind = "grpc" /\ o.code \in {3, 16}
    \/ o.kind \in {"body", "arrow", "config"}
OnlyTransientRetried == \A i \in 1..attempt : ~Deterministic(history[i].outcome)

\* The caller gets the error of the last attempt, and gets it only when the
\* policy leaves no choice: not a transient one, no retry left, or a delay the
\* policy may pick that the budget cannot afford.
LastErrorReturned == (pc = "returned" /\ result # Ok) =>
    /\ Len(history) = attempt + 1
    /\ history[attempt + 1].outcome = result
    /\ \/ ~Retryable(result)
       \/ attempt = policy.max_retries
       \/ \E delay \in Delay(result) : OverBudget(delay)

\* Between a failure and the next attempt the loop waits as long as the server
\* asked for, when it did and the policy says so, and else at most
\* `max_delay` ("Upper bound on any single backoff delay").
WaitsAsAsked == \A i \in 1..attempt :
    LET o == history[i].outcome
        next == IF i < Len(history) THEN history[i + 1].began ELSE began
        waited == next - history[i].ended
    IN  IF mode = "write" /\ o.after # None /\ policy.honor_retry_after
        THEN waited = o.after
        ELSE waited <= policy.max_delay

\* A write or an awaited query returns even if the server never answers.
Returns == <>(mode # "stream" => pc = "returned")
=============================================================================

---------------------------- MODULE WritePipeline ----------------------------
(***************************************************************************)
(* One `client.write(data).await`: the batch iterator, the pool of         *)
(* concurrent batch futures (WriteRequest::into_future), the retry loop of *)
(* each batch (Client::send_lp with send_write_once), the network and the  *)
(* server.                                                                 *)
(*                                                                         *)
(* Client actions are the code between two awaits.  The network and the    *)
(* server are external: a request is processed at most once, at any time,  *)
(* is answered or not, and the client may give an attempt up (timeout,     *)
(* broken connection) whatever happened to it.                             *)
(*                                                                         *)
(* Time is left out here (RetryLoop has a clock): running out of the       *)
(* `max_elapsed` budget is a choice open whenever a budget is configured.  *)
(***************************************************************************)
EXTENDS Integers, Sequences, FiniteSets

CONSTANTS
    N,                  \* the most batches an input has
    Inflights,          \* the values WriteOptions::max_inflight may have
    MaxRetries,         \* RetryConfig::max_retries
    HasBudget,          \* RetryConfig::max_elapsed is Some(_)
    Stamped,            \* the points of the input carry timestamps
    LateDelivery        \* a request may reach the server after its attempt
                        \* was given up by the client

ASSUME ConstantsAssumption ==
    /\ N \in Nat
    /\ Inflights \subseteq Nat
    /\ MaxRetries \in Nat
    /\ HasBudget \in BOOLEAN
    /\ Stamped \in BOOLEAN
    /\ LateDelivery \in BOOLEAN

Batch == 1..N

(***************************************************************************)
(* A batch future is "waiting" in the iterator, "ready" to send, "sending" *)
(* (an attempt is awaited), in "backoff", "done" (2xx received), "failed"  *)
(* (it made the call fail) or "dropped" (another one did).                 *)
(***************************************************************************)
TaskState ==
    {"waiting", "ready", "sending", "backoff", "done", "failed", "dropped"}

\* How the call stands: not polled yet, running, returned Ok, returned one of
\* five errors, or dropped by the caller (a timeout or a select of its own).
Kind == {"new", "pending", "ok",
         "config", "encode", "setup", "exhausted", "fatal", "cancelled"}

Request == [batch : Batch, attempt : 1..(MaxRetries + 1)]
Reply == [batch : Batch, code : {"ok", "transient", "fatal"}]
Entry == [batch : Batch, lines : {"all", "some"}]

VARIABLES
    options,            \* the WriteOptions that `validate` and the pool look at
    input,              \* n batches, of which number bad (0: none) cannot be
                        \* encoded
    result,             \* the call's Result, with the batch an error is about
    pulled,             \* how many items the iterator has yielded
    task,               \* the state of each batch future
    attempts,           \* attempts started for each batch
    net,                \* requests on their way to the server
    replies,            \* replies on their way to a waiting attempt
    log                 \* what the server stored, in the order it did

vars == <<options, input, result, pulled, task, attempts, net, replies, log>>
callConst == <<options, input>>

Options == [max_inflight : Inflights, use_v2_api : BOOLEAN, no_sync : BOOLEAN]

-----------------------------------------------------------------------------
\* `options.max_inflight.max(1)`
Limit == IF options.max_inflight = 0 THEN 1 ELSE options.max_inflight

\* The futures held by the pool; each one owns the body of its batch.
Live == {b \in Batch : task[b] \in {"ready", "sending", "backoff"}}

Pending == result.kind = "pending"
Returned == result.kind \notin {"new", "pending"}

\* The stored copies of batch b, and its requests on their way.
Copies(b) == {i \in DOMAIN log : log[i].batch = b}
OnTheWire(b) == {r \in net : r.batch = b}

\* Batch b is stored in full.
Stored(b) == \E i \in DOMAIN log : log[i].batch = b /\ log[i].lines = "all"

Init ==
    /\ options \in Options
    /\ input \in [n : 0..N, bad : 0..N]
    /\ input.bad <= input.n
    /\ result = [kind |-> "new", batch |-> 0]
    /\ pulled = 0
    /\ task = [b \in Batch |-> "waiting"]
    /\ attempts = [b \in Batch |-> 0]
    /\ net = {}
    /\ replies = {}
    /\ log = <<>>

-----------------------------------------------------------------------------
(* The network and the server                                              *)

\* What is left of the network once the futures of the batches gone have
\* closed their connections.
NetWithout(gone) ==
    IF LateDelivery THEN net ELSE {r \in net : r.batch \notin gone}

\* How much of a request the server stores, and how it answers: a gateway
\* may fail a request that the server stored, and a 400 partial write stores
\* the valid lines of the batch.
Effect == {<<"all", "ok">>, <<"all", "transient">>, <<"some", "transient">>,
           <<"none", "transient">>, <<"some", "fatal">>, <<"none", "fatal">>}

Awaited(r) == task[r.batch] = "sending" /\ attempts[r.batch] = r.attempt

ServerHandles(r) == \E e \in Effect :
    /\ net' = net \ {r}
    /\ log' = IF e[1] = "none" THEN log
              ELSE Append(log, [batch |-> r.batch, lines |-> e[1]])
    /\ replies' = IF Awaited(r)
                  THEN replies \cup {[batch |-> r.batch, code |-> e[2]]}
                  ELSE replies
    /\ UNCHANGED <<callConst, result, pulled, task, attempts>>

RequestLost(r) ==
    /\ net' = net \ {r}
    /\ UNCHANGED <<callConst, result, pulled, task, attempts, replies, log>>

-----------------------------------------------------------------------------
(* WriteRequest::into_future                                               *)

\* Mutant of Fail: the other futures live on (as spawned tasks would).
FailKeepsFutures(kind, b) ==
    /\ result' = [kind |-> kind, batch |-> b]
    /\ task' = [c \in Batch |-> IF c = b THEN "failed" ELSE task[c]]
    /\ UNCHANGED <<callConst, pulled, attempts, net, replies, log>>

\* The call returns an error.  Every future still in the pool is dropped,
\* which closes its connection; b = 0 when the error is not about a batch
\* that had a future.
Fail(kind, b) ==
    /\ result' = [kind |-> kind, batch |-> b]
    /\ task' = [c \in Batch |-> IF c = b THEN "failed"
                                ELSE IF c \in Live THEN "dropped"
                                ELSE task[c]]
    /\ net' = NetWithout(Live)
    /\ replies' = {}
    /\ UNCHANGED <<callConst, pulled, attempts, log>>

\* `options.validate()?`
Validate ==
    /\ result.kind = "new"
    /\ \/ options.use_v2_api /\ options.no_sync /\ Fail("config", 0)
       \/ /\ ~(options.use_v2_api /\ options.no_sync)
          /\ result' = [kind |-> "pending", batch |-> 0]
          /\ UNCHANGED <<callConst, pulled, task, attempts, net, replies, log>>

\* Mutant of MayPull: one future too many.
MayPullOneMore == Pending /\ pulled < input.n /\ Cardinality(Live) <= Limit

\* The pool takes the next batch when it holds fewer futures than the limit
\* (try_for_each_concurrent); with a limit of 1 this is the sequential loop.
MayPull == Pending /\ pulled < input.n /\ Cardinality(Live) < Limit

Pull ==
    /\ MayPull
    /\ pulled + 1 # input.bad
    /\ pulled' = pulled + 1
    /\ task' = [task EXCEPT ![pulled + 1] = "ready"]
    /\ UNCHANGED <<callConst, result, attempts, net, replies, log>>

\* Mutant of PullErr: the batch is skipped and the iteration goes on.
PullErrSkips ==
    /\ MayPull
    /\ pulled + 1 = input.bad
    /\ pulled' = pulled + 1
    /\ UNCHANGED <<callConst, result, task, attempts, net, replies, log>>

\* The iterator yields Err: the batch cannot be encoded.
PullErr ==
    /\ MayPull
    /\ pulled + 1 = input.bad
    /\ Fail("encode", 0)

\* Mutant of Finish: the call returns when the iterator is exhausted.
FinishEarly ==
    /\ Pending
    /\ pulled = input.n
    /\ result' = [kind |-> "ok", batch |-> 0]
    /\ UNCHANGED <<callConst, pulled, task, attempts, net, replies, log>>

\* The iterator is exhausted and no future is left.
Finish ==
    /\ Pending
    /\ pulled = input.n
    /\ Live = {}
    /\ result' = [kind |-> "ok", batch |-> 0]
    /\ UNCHANGED <<callConst, pulled, task, attempts, net, replies, log>>

\* The caller drops the future of the call.
Cancel == ~Returned /\ Fail("cancelled", 0)

-----------------------------------------------------------------------------
(* Client::send_lp                                                         *)

\* gzip or the authorization header fails before the first attempt.
SetupFails(b) ==
    /\ task[b] = "ready"
    /\ attempts[b] = 0
    /\ Fail("setup", b)

\* `send_write_once(req, opts)`, up to its await.
Send(b) ==
    /\ task[b] = "ready"
    /\ task' = [task EXCEPT ![b] = "sending"]
    /\ attempts' = [attempts EXCEPT ![b] = @ + 1]
    /\ net' = net \cup {[batch |-> b, attempt |-> attempts[b] + 1]}
    /\ UNCHANGED <<callConst, result, pulled, replies, log>>

\* Mutant of GiveUpOrSleep: one retry too many (`attempt > max_retries`).
GiveUpLate(b) ==
    \/ (attempts[b] > MaxRetries + 1 \/ HasBudget) /\ Fail("exhausted", b)
    \/ /\ attempts[b] <= MaxRetries + 1
       /\ task' = [task EXCEPT ![b] = "backoff"]
       /\ net' = NetWithout({b})
       /\ replies' = {m \in replies : m.batch # b}
       /\ UNCHANGED <<callConst, result, pulled, attempts, log>>

\* WriteAttempt::Retry: give up when the attempts or the budget are used up,
\* else sleep.  `attempt >= max_retries` reads attempts[b] > MaxRetries: the
\* code counts from 0 the attempts that attempts[b] counts from 1.
GiveUpOrSleep(b) ==
    \/ (attempts[b] > MaxRetries \/ HasBudget) /\ Fail("exhausted", b)
    \/ /\ attempts[b] <= MaxRetries
       /\ task' = [task EXCEPT ![b] = "backoff"]
       /\ net' = NetWithout({b})
       /\ replies' = {m \in replies : m.batch # b}
       /\ UNCHANGED <<callConst, result, pulled, attempts, log>>

\* The attempt got a response.
Answered(b) == \E m \in replies :
    /\ m.batch = b
    /\ \/ /\ m.code = "ok"
          /\ task' = [task EXCEPT ![b] = "done"]
          /\ replies' = {c \in replies : c.batch # b}
          /\ UNCHANGED <<callConst, result, pulled, attempts, net, log>>
       \/ m.code = "fatal" /\ Fail("fatal", b)
       \/ m.code = "transient" /\ GiveUpOrSleep(b)

\* The attempt failed with no response: a timeout, a connect or request error
\* (retried), or another transport error (not retried).
TransportError(b) ==
    /\ task[b] = "sending"
    /\ GiveUpOrSleep(b) \/ Fail("fatal", b)

\* Mutant of Wake: the attempt counter starts again.
WakeForgets(b) ==
    /\ task[b] = "backoff"
    /\ task' = [task EXCEPT ![b] = "ready"]
    /\ attempts' = [attempts EXCEPT ![b] = 0]
    /\ UNCHANGED <<callConst, result, pulled, net, replies, log>>

\* The sleep is over; the loop goes round.
Wake(b) ==
    /\ task[b] = "backoff"
    /\ task' = [task EXCEPT ![b] = "ready"]
    /\ UNCHANGED <<callConst, result, pulled, attempts, net, replies, log>>

-----------------------------------------------------------------------------
Future(b) == SetupFails(b) \/ Send(b) \/ Answered(b) \/ TransportError(b) \/ Wake(b)
Caller == Validate \/ Pull \/ PullErr \/ Finish

Next ==
    \/ Caller
    \/ Cancel
    \/ \E b \in Batch : Future(b)
    \/ \E r \in net : ServerHandles(r) \/ RequestLost(r)

Spec == Init /\ [][Next]_vars

(***************************************************************************)
(* Tokio polls a woken task and fires timers; `write_timeout` (reqwest's   *)
(* ClientBuilder::timeout) ends every attempt.  So the caller's task and   *)
(* each of its futures keep moving.  Nothing is asked of the server, nor   *)
(* of the caller, who may or may not drop the call.                        *)
(***************************************************************************)
Fairness == WF_vars(Caller) /\ \A b \in Batch : WF_vars(Future(b))

FairSpec == Spec /\ Fairness

-----------------------------------------------------------------------------
(* Properties                                                              *)

\* The shape of one call: no batch starts attempt number max_retries + 2, and what
\* the network carries and the server holds are parts of the input's batches.
TypeOK ==
    /\ options \in Options
    /\ input \in [n : 0..N, bad : 0..N]
    /\ result \in [kind : Kind, batch : 0..N]
    /\ pulled \in 0..N
    /\ task \in [Batch -> TaskState]
    /\ attempts \in [Batch -> 0..(MaxRetries + 1)]
    /\ net \subseteq Request
    /\ replies \subseteq Reply
    /\ log \in Seq(Entry)

\* `Ok(())` means that every batch of the input is stored in full, however
\* many requests were lost, retried, answered late or answered wrongly.
OkMeansStored ==
    result.kind = "ok" => /\ \A b \in 1..input.n : Stored(b)
                          /\ input.bad = 0

\* At most `max_inflight` bodies are held and awaited at once.
InflightBounded == Cardinality(Live) <= Limit

\* Replays are bounded: the server stores a batch, in whole or in part, at
\* most once per attempt the retry policy allows.
CopiesBounded == \A b \in Batch : Cardinality(Copies(b)) <= MaxRetries + 1

\* Encoding stops at the first batch that fails: nothing from that batch on
\* ever reaches the server.
NothingPastBadBatch ==
    input.bad > 0 => \A i \in DOMAIN log : log[i].batch < input.bad

\* A batch is given to the pool only when it is owed an answer, and a call
\* that has returned owes none: it has no future left, every batch taken from
\* the iterator is accounted for, and the one named in the error is the only
\* one that failed.
NothingLeftBehind == Returned =>
    /\ Live = {} /\ replies = {}
    /\ \A b \in 1..pulled : task[b] \in {"done", "failed", "dropped"}
    /\ \A b \in Batch : task[b] = "failed" <=> b = result.batch

\* With a limit of 1 a batch is sent only after every earlier one was
\* acknowledged.
OneAtATime == Limit = 1 => \A b, c \in Batch :
    c < b /\ task[b] # "waiting" => task[c] = "done"

\* What a limit of 1 gives over any network: when the server stores any part of
\* a batch, it holds every earlier batch in full.  A request that was given up
\* may arrive after later batches, so the copies need not be in order.
PrefixStored == Limit = 1 => \A i \in DOMAIN log : \A b \in 1..(log[i].batch - 1) :
    \E j \in 1..(i - 1) : log[j].batch = b /\ log[j].lines = "all"

\* "Set to `1` for strict ordering" (WriteOptions::max_inflight): the server
\* stores the batches in the order of the input.  It does only where no request
\* outlives its attempt (theorem Ordered of WritePipelineProofs).
StrictOrder == Limit = 1 => \A i, j \in DOMAIN log :
    i < j => log[i].batch <= log[j].batch

\* Once the call has returned the client is silent: no request enters the
\* network and no future moves.  Only the server may still act.
SilentAfterReturn == [][Returned => /\ net' \subseteq net
                                    /\ UNCHANGED <<task, attempts, result>>]_vars

\* Each call returns, whatever the server does.
Returns == <>Returned

\* The promise to the caller.
Issued == {b \in Batch : attempts[b] > 0}
Call == INSTANCE WriteCall WITH
    wanted <- 1..input.n,
    issued <- Issued,
    stored <- {b \in Batch : Stored(b)},
    outcome <- IF result.kind \in {"new", "pending"} THEN "pending"
               ELSE IF result.kind = "ok" THEN "ok" ELSE "err"
ImplementsCall == Call!CallSpec

(***************************************************************************)
(* The inductive invariant behind the safety properties.  OkMeansStored is *)
(* not inductive: the last step to Ok(()) looks at the futures only, so    *)
(* each finished future must stand for a stored batch, and each 2xx reply  *)
(* still on its way must do so before it finishes its future.              *)
(***************************************************************************)
\* A future that finished, or is about to, was acknowledged for a stored batch;
\* a reply has a future that waits for it.
AckedStored ==
    /\ \A b \in Batch : task[b] = "done" => Stored(b)
    /\ \A m \in replies : /\ m.code = "ok" => Stored(m.batch)
                          /\ task[m.batch] = "sending"

\* The futures are those of the batches pulled so far, in the order of the
\* input and short of the one that cannot be encoded.
FuturesArePulled ==
    /\ pulled <= input.n
    /\ input.bad <= input.n
    /\ input.bad > 0 => pulled < input.bad
    /\ \A b \in Batch : task[b] = "waiting" <=> b > pulled

\* How many attempts a future has started, by its state; no request and no
\* stored entry is of a batch that has started none.
AttemptsCounted ==
    /\ \A b \in Batch :
        /\ task[b] = "waiting" => attempts[b] = 0
        /\ task[b] \in {"ready", "backoff"} => attempts[b] <= MaxRetries
        /\ task[b] \in {"sending", "backoff", "done"} => attempts[b] > 0
    /\ \A r \in net : attempts[r.batch] > 0
    /\ \A i \in DOMAIN log : attempts[log[i].batch] > 0

\* A future fails or is dropped only as the call returns, and then none is left;
\* Ok(()) is returned over finished futures only.
ReturnSettles ==
    /\ Returned => Live = {} /\ replies = {}
    /\ ~Returned => \A b \in Batch : task[b] \notin {"failed", "dropped"}
    /\ result.kind = "new" => pulled = 0
    /\ result.kind = "ok" => pulled = input.n /\ \A b \in 1..input.n : task[b] = "done"

\* Each attempt made one request, which is on its way, was stored, or is gone.
CopiesCounted ==
    /\ IsFiniteSet(net)
    /\ \A b \in Batch :
        Cardinality(Copies(b)) + Cardinality(OnTheWire(b)) <= attempts[b]

IInv == TypeOK /\ AckedStored /\ FuturesArePulled /\ AttemptsCounted /\ ReturnSettles

-----------------------------------------------------------------------------
(* What the documentation says and the code does not do                    *)

\* "a batch the server partially applied before a dropped connection cannot
\* be double-counted on replay" (retry.rs).  The server gives the time of
\* arrival to a point sent without one, so each stored copy of an unstamped
\* batch is a row of its own.
RowsOf(b) == {IF Stamped THEN 0 ELSE i :
                i \in Copies(b)}
NoDoubleCount == \A b \in Batch : Cardinality(RowsOf(b)) <= 1
=============================================================================

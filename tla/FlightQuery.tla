----------------------------- MODULE FlightQuery -----------------------------
(***************************************************************************)
(* Concurrent queries of one Client.  They share the Flight channel, a     *)
(* tokio OnceCell that the first of them fills (Client::flight), and each  *)
(* runs its own attempts: an awaited query under a timeout per attempt     *)
(* (QueryRequest::into_future), a streaming one without (stream).          *)
(*                                                                         *)
(* The OnceCell is external and modelled from its use: a FIFO semaphore    *)
(* with one permit guards the initialiser; a failed or dropped initialiser *)
(* hands the permit to the next waiter; success closes the semaphore,      *)
(* which lets every waiter through.                                        *)
(***************************************************************************)
EXTENDS Integers, SequencesExt

CONSTANTS
    Query,              \* the queries under way
    None,               \* no query
    MaxRetries,         \* RetryConfig::max_retries
    HasBudget,          \* RetryConfig::max_elapsed is Some(_)
    Answer              \* how many record batches the server answers with

ASSUME ConstantsAssumption ==
    /\ None \notin Query
    /\ MaxRetries \in Nat
    /\ HasBudget \in BOOLEAN
    /\ Answer \in Nat

VARIABLES
    mode,               \* of each query: "collect" (awaited) or "stream"
    pc,                 \* where each query is
    attempt,            \* the attempt counter of each, from 0
    got,                \* the record batches each holds, [attempt, index]
    cell,               \* the query that filled the OnceCell, or None
    permit,             \* the query that holds the semaphore's permit, or None
    queue               \* the queries that wait for it

vars == <<mode, pc, attempt, got, cell, permit, queue>>
cellVars == <<cell, permit, queue>>

(***************************************************************************)
(* "idle": not polled; "loop": at the head of the retry loop; "waiting":   *)
(* for the permit; "connecting": in FlightQueryClient::new; "request": has *)
(* called DoGet and awaits its answer; "reading": an awaited query reads   *)
(* batches; "backoff"; and the ends "ok", "err", "dropped" (by the caller).*)
(* A stream that was handed out is "open" while its caller reads it.       *)
(***************************************************************************)
Running == {"loop", "waiting", "connecting", "request", "reading", "backoff"}
Ended == {"ok", "err", "dropped"}

Init ==
    /\ mode \in [Query -> {"collect", "stream"}]
    /\ pc = [q \in Query |-> "idle"]
    /\ attempt = [q \in Query |-> 0]
    /\ got = [q \in Query |-> <<>>]
    /\ cell = None
    /\ permit = None
    /\ queue = <<>>

Goto(q, place) == pc' = [pc EXCEPT ![q] = place]

-----------------------------------------------------------------------------
(* The OnceCell                                                            *)

\* Mutant of LeaveCell: a permit that is given up goes to nobody.
LeaveCellLeaking(q) ==
    /\ UNCHANGED <<cell, permit>>
    /\ queue' = SelectSeq(queue, LAMBDA r : r # q)

\* A query that leaves the cell without filling it drops its permit, which
\* passes to the next waiter, or its place in the queue.
LeaveCell(q) ==
    /\ UNCHANGED cell
    /\ \/ permit = q /\ queue = <<>> /\ permit' = None /\ UNCHANGED queue
       \/ permit = q /\ queue # <<>> /\ permit' = Head(queue) /\ queue' = Tail(queue)
       \/ permit # q /\ q \notin ToSet(queue) /\ UNCHANGED <<permit, queue>>
       \/ /\ permit # q /\ UNCHANGED permit
          /\ \E i \in DOMAIN queue : queue[i] = q /\ queue' = RemoveAt(queue, i)

\* Client::flight: `get_or_try_init` up to its first await.
EnterCell(q) ==
    /\ pc[q] = "loop"
    /\ \/ /\ cell # None
          /\ Goto(q, "request")
          /\ UNCHANGED cellVars
       \/ /\ cell = None /\ permit = None
          /\ permit' = q
          /\ Goto(q, "connecting")
          /\ UNCHANGED <<cell, queue>>
       \/ /\ cell = None /\ permit # None
          /\ queue' = Append(queue, q)
          /\ Goto(q, "waiting")
          /\ UNCHANGED <<cell, permit>>
    /\ UNCHANGED <<mode, attempt, got>>

\* The waiter gets the permit, or finds the semaphore closed and the cell full.
LeaveQueue(q) ==
    /\ pc[q] = "waiting"
    /\ \/ permit = q /\ Goto(q, "connecting")
       \/ cell # None /\ Goto(q, "request")
    /\ UNCHANGED <<mode, attempt, got, cellVars>>

\* FlightQueryClient::new returns Ok: the value is set, the semaphore closed.
Connected(q) ==
    /\ pc[q] = "connecting"
    /\ cell' = q
    /\ permit' = None
    /\ queue' = <<>>
    /\ Goto(q, "request")
    /\ UNCHANGED <<mode, attempt, got>>

-----------------------------------------------------------------------------
(* The retry loops                                                         *)

\* Mutant of AttemptFailed: batches are kept from one attempt to the next.
AttemptFailedKeepsBatches(q, retryable) ==
    /\ IF retryable /\ attempt[q] < MaxRetries THEN Goto(q, "backoff") ELSE Goto(q, "err")
    /\ UNCHANGED <<mode, attempt, got>>

\* An attempt ended with an error: sleep and go round, or return it.  Only the
\* loop of an awaited query looks at the budget.  What the attempt had read is
\* gone with it.
AttemptFailed(q, retryable) ==
    /\ \/ /\ \/ ~retryable
             \/ attempt[q] >= MaxRetries
             \/ HasBudget /\ mode[q] = "collect"
          /\ Goto(q, "err")
       \/ /\ retryable
          /\ attempt[q] < MaxRetries
          /\ Goto(q, "backoff")
    /\ got' = [got EXCEPT ![q] = <<>>]
    /\ UNCHANGED <<mode, attempt>>

Start(q) ==
    /\ pc[q] = "idle"
    /\ Goto(q, "loop")
    /\ UNCHANGED <<mode, attempt, got, cellVars>>

\* The connection fails within `connect_timeout` (Error::Transport), or the
\* URL or the certificates are unusable (Error::Config).
ConnectFails(q) ==
    /\ pc[q] = "connecting"
    /\ \E retryable \in BOOLEAN : AttemptFailed(q, retryable)
    /\ LeaveCell(q)

\* DoGet is answered: an awaited query starts to read, a stream is handed out.
Answered(q) ==
    /\ pc[q] = "request"
    /\ Goto(q, IF mode[q] = "collect" THEN "reading" ELSE "open")
    /\ UNCHANGED <<mode, attempt, got, cellVars>>

\* DoGet fails with a gRPC status, transient or not, or the request cannot be
\* built (a token that is not valid metadata).
RequestFails(q) ==
    /\ pc[q] = "request"
    /\ \E retryable \in BOOLEAN : AttemptFailed(q, retryable)
    /\ UNCHANGED cellVars

\* FlightQueryClient::query and BatchStream::poll_next: the next batch, the end
\* of the stream, or an error inside it.  Error::Arrow is not retryable.
NextBatch(q) ==
    /\ pc[q] \in {"reading", "open"}
    /\ Len(got[q]) < Answer
    /\ got' = [got EXCEPT ![q] =
                Append(@, [attempt |-> attempt[q], index |-> Len(@) + 1])]
    /\ UNCHANGED <<mode, pc, attempt, cellVars>>

EndOfStream(q) ==
    /\ pc[q] \in {"reading", "open"}
    /\ Len(got[q]) = Answer
    /\ Goto(q, "ok")
    /\ UNCHANGED <<mode, attempt, got, cellVars>>

\* Mutant of StreamBreaks: a stream that breaks is set up again.
StreamBreaksRetried(q) ==
    /\ pc[q] \in {"reading", "open"}
    /\ AttemptFailed(q, TRUE)
    /\ UNCHANGED cellVars

StreamBreaks(q) ==
    /\ \/ pc[q] = "reading" /\ AttemptFailed(q, FALSE)
       \/ pc[q] = "open" /\ Goto(q, "err") /\ UNCHANGED <<mode, attempt, got>>
    /\ UNCHANGED cellVars

\* Mutant of TimesOut: the timeout covers the setup of the stream only.
TimesOutSetup(q) ==
    /\ mode[q] = "collect"
    /\ pc[q] \in {"waiting", "connecting", "request"}
    /\ AttemptFailed(q, TRUE)
    /\ LeaveCell(q)

\* `tokio::time::timeout` drops the attempt of an awaited query, wherever it
\* is, and Error::Timeout is retryable.
TimesOut(q) ==
    /\ mode[q] = "collect"
    /\ pc[q] \in {"waiting", "connecting", "request", "reading"}
    /\ AttemptFailed(q, TRUE)
    /\ LeaveCell(q)

WakeUp(q) ==
    /\ pc[q] = "backoff"
    /\ Goto(q, "loop")
    /\ attempt' = [attempt EXCEPT ![q] = @ + 1]
    /\ UNCHANGED <<mode, got, cellVars>>

\* The caller drops the future, or the stream.
Dropped(q) ==
    /\ pc[q] \in Running \cup {"idle", "open"}
    /\ Goto(q, "dropped")
    /\ got' = [got EXCEPT ![q] = <<>>]
    /\ LeaveCell(q)
    /\ UNCHANGED <<mode, attempt>>

-----------------------------------------------------------------------------
CellStep(q) == EnterCell(q) \/ LeaveQueue(q)
ConnectEnds(q) == Connected(q) \/ ConnectFails(q)
Server(q) == Answered(q) \/ RequestFails(q) \/ NextBatch(q) \/ EndOfStream(q) \/ StreamBreaks(q)

\* Every query has ended: nothing is left to do.
Done == (\A q \in Query : pc[q] \in Ended) /\ UNCHANGED vars

Next ==
    \/ \E q \in Query :
        \/ Start(q) \/ CellStep(q) \/ ConnectEnds(q) \/ Server(q)
        \/ TimesOut(q) \/ WakeUp(q) \/ Dropped(q)
    \/ Done

Spec == Init /\ [][Next]_vars

(***************************************************************************)
(* A woken task is polled, timers fire, and a connection attempt ends      *)
(* within `connect_timeout`.  Nothing makes the server answer.             *)
(***************************************************************************)
FairSpec ==
    /\ Spec
    /\ \A q \in Query : /\ WF_vars(CellStep(q))
                        /\ WF_vars(ConnectEnds(q))
                        /\ WF_vars(TimesOut(q))
                        /\ WF_vars(WakeUp(q))

-----------------------------------------------------------------------------
(* Properties                                                              *)

\* The shape of the client and its queries: no query counts more than
\* `max_retries` failed attempts, and the cell holds the channel of one of them.
TypeOK ==
    /\ mode \in [Query -> {"collect", "stream"}]
    /\ pc \in [Query -> Running \cup Ended \cup {"idle", "open"}]
    /\ attempt \in [Query -> 0..MaxRetries]
    /\ got \in [Query -> Seq([attempt : 0..MaxRetries, index : 1..Answer])]
    /\ cell \in Query \cup {None}
    /\ permit \in Query \cup {None}
    /\ queue \in Seq(Query)

\* The permit is never lost: who holds it is connecting or about to, nobody else
\* is, and when nobody does nobody waits; a query that waits is in the queue,
\* has just been given the permit, or may go.  A timeout, a failed connection
\* and a dropped query, in any order, give it back.
PermitNotLost ==
    /\ permit # None => pc[permit] \in {"waiting", "connecting"} /\ cell = None
    /\ permit = None => queue = <<>>
    /\ \A i \in DOMAIN queue : pc[queue[i]] = "waiting" /\ queue[i] # permit
    /\ \A q \in Query :
        /\ pc[q] = "connecting" => permit = q
        /\ pc[q] = "waiting" => \/ permit = q
                                \/ cell # None
                                \/ \E i \in DOMAIN queue : queue[i] = q

\* An awaited query returns the whole answer to one attempt: no batch of an
\* attempt that failed, none twice, none missing.
WholeAnswer == \A q \in Query :
    mode[q] = "collect" /\ pc[q] = "ok" =>
        got[q] = [i \in 1..Answer |-> [attempt |-> attempt[q], index |-> i]]

\* "once batches start arriving a stream can't be replayed" (stream): no query
\* calls DoGet again after its stream was handed out or its future ended.
NotReissued == [][\A q \in Query :
    /\ pc[q] = "open" => pc'[q] \in Ended \cup {"open"}
    /\ pc[q] \in Ended => pc'[q] = pc[q]]_vars

\* Whoever waits for the channel gets through, fails, or is given the permit,
\* whatever the others do: no wake-up is lost.
WaiterServed == \A q \in Query : pc[q] = "waiting" ~> pc[q] # "waiting"

\* An awaited query ends even if the server never answers.
CollectEnds == \A q \in Query :
    (mode[q] = "collect" /\ pc[q] = "loop") ~> pc[q] \in Ended
=============================================================================

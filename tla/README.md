# TLA+ models of influxdb3-client

This directory holds TLA+ models of the InfluxDB 3 client for Rust, the TLC
configurations that check them on small instances, and TLAPS proofs of what
matters most for every instance. File names without a directory are modules of
this directory; `client.rs` and the like are files of `src/src/`.

To run: `tlc -config WriteConcurrent.cfg MCWritePipeline` (one such line per row of
the table in section 4) and `tlapm WritePipelineProofs.tla` (one such line per proof
module of section 5, and for `DataLemmas`).

## 1. The system and its parts

A `Client` owns an HTTP client (reqwest) for writes and a lazily opened gRPC
channel (tonic, Arrow Flight) for queries. It spawns no task of its own: all its
concurrency is inside futures that the caller polls, and any of them may be
dropped at any await.

| Component | State it keeps | Operations | Talks to |
|---|---|---|---|
| **Write pipeline**: `WriteRequest::into_future`, `Client::send_lp`, `send_write_once` (client.rs) | per call: the batch iterator, the pool of at most `max_inflight` batch futures; per batch: body, attempt counter, start time | validate, pull a batch, gzip, send, classify, sleep, return | batch iterator, retry policy, HTTP server |
| **Retry policy**: `RetryConfig` and three hand-written loops (retry.rs; client.rs `send_lp`, `QueryRequest::into_future`, `QueryRequest::stream`) | attempt counter, start time | backoff with full jitter, Retry-After, budget, classification | all requests |
| **Flight channel and queries**: `Client::flight`, `QueryRequest`, `FlightQueryClient`, `BatchStream` (client.rs, flight.rs) | a `OnceCell` shared by all queries of a client; per query: attempt counter, collected batches | connect once, DoGet, collect or hand out the stream | Flight server |
| **Point serialiser and batches**: `Point`, `PointBatchIter`, `Precision` (point.rs, write.rs, precision.rs) | insertion-ordered tags and fields, a cursor over the points | builder calls, `write_line_protocol`, `next` | write pipeline (pulled lazily) |
| **DataFrame writer**: `DataFrameWrite`, `dataframe_to_line_protocol` (write_dataframe.rs) | one iterator per column and slice, the output buffer | cut slices, write or drop a row | write pipeline |
| **Write error bodies**: `parse_write_error`, `is_partial_write_error`, ... (client.rs, error.rs) | none | turn an answer into an `Error` | write pipeline, caller |
| **Query results**: `QueryResult`, `QueryIterator`, `Row`, `extract_value` (query.rs) | two cursors (batch, row), a column index | next row, decode a cell, look a name up | Flight queries, caller |
| **Configuration**: `ClientConfig`, its builder, environment, connection string (config.rs), the setters of a `WriteRequest` (client.rs) | settings and write options | parse, set, validate, make a request | everything |
| HTTP client construction, gzip (client.rs); polars and Arrow conversions (query.rs); crate root, examples | none | one library call each | libraries |

What is hard, and what makes each part correct:

* **Write pipeline.** Futures of several batches are answered, retried and failed
  in any order; `try_for_each_concurrent` drops the others mid-request when one
  fails, and so does the caller who drops the call. A request may be stored though
  its answer was lost, so every retry may store the batch again. Correct means:
  `Ok(())` says that *every* batch is stored; replays are bounded; nothing past a
  batch that cannot be encoded is sent; the pool respects its limit; a call that
  has returned sends nothing any more; a call returns even if the server is mute.
* **Retry loops.** Three loops that share no code must agree on what is transient,
  how often, how long to wait and when to give up. Off-by-ones in the counter and
  the place where the budget is compared are invisible to a test that waits once.
* **Flight channel.** Queries that start together share one initialisation, which
  may fail, time out or be dropped while others wait for it. Correct means: the
  permit of the initialiser is never lost, one connection at a time, and the answer
  to a query is the whole answer to one attempt.
* **Serialisers.** Two code paths write tags; a frame is read through column
  iterators that must take one cell per row even when the row is dropped; batches
  must cut the input without loss, also when an error interrupts them.
* **One line, there and back.** Each place in a line has its own characters to
  escape, and a text that is escaped wrongly is read as another line. Times are
  converted between units, through 64-bit integers, on the way out and on the way
  back. Correct means: the server reads the texts that the caller gave, no text
  reaches past its line, and a time that can be held is kept.
* **Query results.** Batches may be empty, cells null in two masks, columns of one
  name, values without a Rust type. Correct means: each row once, in order, with
  its own cells or an error, and lookups that agree.
* **Configuration.** Options are set in three ways and again on a request, checked
  in two places. Correct means: what was asked for last is what is sent, a pair
  the endpoint cannot honour is never sent, options and a token that `build`
  accepted are not refused later.
* **Error bodies.** What the caller may rely on depends on both the request (was a
  partial write asked for) and the shape of the answer.

The complete list of hazards, each with its line, is under `hazards` in
PROJECT.json.

## 2. Modules

| Module | Models | Kind |
|---|---|---|
| `WriteCall` | what a caller may rely on from one `write(..).await` | abstract specification |
| `WritePipeline` | the write pipeline, the network and the server | state machine, refines `WriteCall` |
| `WritePipelineProofs` | the proofs about it | theorems |
| `RetryLoop` | one request under a `RetryConfig`, on a clock: the three loops | state machine |
| `RetryClasses` | the three classifiers of retry.rs | operators shared by `RetryLoop` and `WriteErrors` |
| `RetryLoopProofs` | the proofs about `RetryLoop` and `WriteErrors` | theorems |
| `FlightQuery` | the shared channel and the queries that race for it | state machine |
| `FlightQueryProofs` | the proofs about it | theorems |
| `LineProtocol` | `Point`, both tag paths, `PointBatchIter` | data, as a state machine that builds an input and iterates it |
| `Precisions` | `Precision::scale_timestamp` | an operator shared by `LineProtocol` and `LineRoundTrip` |
| `DataFrameWriter` | `DataFrameWrite::into_lp_batches` with `dataframe_to_line_protocol` | data, row by row |
| `DataFrameWriterProofs` | the proofs about it | theorems |
| `WriteErrors` | request parameters, `parse_write_error`, retry or not | one request and its answer |
| `QueryRows` | the collecting loop of a query, `QueryIterator`, `extract_value`, `rows()`, `Row` | an answer that is collected and then read |
| `QueryRowsProofs` | the proofs about it | theorems |
| `LineRoundTrip` | `escape_with`, the timestamps of points and frames, a reader of line protocol, the timestamp arms of `extract_value` | one line, character by character, and one time |
| `LineProtocolProofs` | the proofs about `LineProtocol` and `LineRoundTrip` | theorems |
| `Configuration` | the ways to a `ClientConfig`, `build`, the setters of a request, what a write, a query and a ping send | a chain of calls |
| `ConfigurationProofs` | the proofs about it | theorems |
| `DataLemmas` | least and greatest numbers, iteration, flattened sequences | lemmas shared by the proofs about data |
| `MC*` | sampled inputs and bounds for TLC | |

The three parts of a write meet in `WritePipeline` through what they promise:
`LineProtocol` (`BatchesCutTheInput`) and `DataFrameWriter` justify
that an input is *n* batches of which at most one, the last that is looked at,
cannot be encoded; `WriteErrors` (`PartialIsFatal`) and `RetryLoop` justify the
three kinds of reply, `ok`, `transient` and `fatal`; `RetryLoop` has the clock that
`WritePipeline` leaves out (there, running out of the budget is a choice that is
open whenever a budget is configured).

### How state and actions correspond to the code

**WritePipeline.** An action is the code between two awaits. `task[b]` is the state
of the future of batch `b` in `try_for_each_concurrent`: *waiting* in the iterator,
*ready*, *sending* (inside `send_write_once`), *backoff* (inside `sleep`), *done*,
*failed*, *dropped*. `attempts[b]` counts from 1 the attempts that `send_lp` counts
from 0. `Validate`, `Pull`, `PullErr`, `Finish` are the branches of `into_future`
(the sequential loop for `max_inflight <= 1` is the pool with a limit of 1: it
takes a batch only when it holds none; `options.max_inflight` is picked in `Init`,
and `Limit` is its `max(1)`); `SetupFails`, `Send`, `Answered`,
`TransportError`, `GiveUpOrSleep`, `Wake` are those of `send_lp`. `Fail` is every
way to return an error: it drops the other futures, and with `LateDelivery =
FALSE` their requests. `Cancel` is the caller who drops the call. The network and
the server are external: a request is processed at most once, at any time, in full,
in part or not at all, and answered rightly, wrongly or never. A batch future that
was just dropped or timed out may leave its request behind (`LateDelivery`). "Stored"
means accepted by the server with 2xx; with `no_sync` that is what the option
promises and no more.

**RetryLoop.** `mode` picks the loop. `attempt`, `began`, `now`, `wakeAt` are the
counter, the clock of the attempt and that of the call. `Delay` is the choice
between Retry-After and backoff, `backoff` is `RetryConfig::backoff`
with its jitter (every delay up to the ceiling), `OverBudget` the comparison that
`stream` lacks. `LongestRetryAfter` bounds what a server may ask for. `Outcome` lists the errors an attempt may end with, HTTP and gRPC.

**FlightQuery.** `cell` is the `OnceCell`; `permit` and `queue` are the semaphore
inside it, modelled as the code uses it (tokio is external): first come, first
served, a failed or dropped initialiser hands the permit on, success closes it.
`pc[q]` is the await at which the query is. `TimesOut` is
`tokio::time::timeout` around an attempt of an awaited query (connection,
request and all batches); `Dropped` is the caller. The batches an attempt collected
belong to the attempt and die with it.

**LineProtocol.** A point is the chain of builder calls that made it; the value of a
tag or field is the position of the call that set it, so that a wrong or stale
value shows. `Put` is `IndexMap::insert` (a second insert keeps the place).
`LineTags` is the fast path (no defaults, no order: sort), or `tag_map` and
`ordered_keys`. A line is the record of its tags, fields and time; an item of the
iterator is an Ok with lines or an Err. `NextBatch`/`NextErr` are
`PointBatchIter::next`. The characters of a line are in `LineRoundTrip`.

**DataFrameWriter.** The value of a cell is its row number, so that a value read
from another row shows. `cursor` counts what each column iterator has yielded.
`WriteRow` is one turn of the row loop: all cells are read, then the row is kept or
`buf` is truncated to `row_start`.

**WriteErrors.** An answer is its status and the shape of its body: absent, not
JSON, JSON with or without `message`, `error`, `data`; the elements of `data` say
which parts of a `LineError` they have. `Classify` is `parse_write_error` in its
order of precedence, and the retry decision.

**QueryRows.** A value is the slot of the array it was read from. `Collect` and
`Collected` are the loop of `FlightQueryClient::query` (flight.rs), `Seek` the
`while` at the head of `next`, `Row` the collecting of its cells into a `Result`,
`extract_value` the null check, the dictionary arm and the match. The arms for the
twenty-odd types with a Rust value differ only in that type and stand together as
"known". `batch_idx` counts from 1 here. An answer without a batch has no
columns (`Schema::empty()`), as in the code.

**LineRoundTrip.** `Write` puts one line and a plain second one in `body`;
`ReadChar` and `EndLine` are a parser of line protocol, external and modelled from
the reference that point.rs cites (point.rs:346): a backslash escapes the separators
of its place and another backslash (`Escapable`), and is a character before anything
else. A character stands for its class; newline, carriage
return and tab are one. `Timestamp` is the conversion for each source of a time,
`wrapped` the arithmetic of an integer from `-Half` to `Half - 1`, and `Overflows` marks where
a debug build panics instead. `Store` is the server, which keeps nanoseconds;
`Query` the column it answers with, in any unit, and the arm that reads it.

**Configuration.** `asked` and `called` record the options set on the way to the
config and on the request. `Start`, `Set`, `Malformed`, `Build` are `from_env`,
`from_connection_string` and the builder: which settings can follow which is
`Settable` (the environment is read in a fixed order, each variable once; pairs of a
connection string and calls of the builder come in any order and again).
`SetOnRequest` are the setters of `WriteRequest`. `Write`, `Query` and `Ping` give
what of the settings leaves the client, or the error or panic in the order the code
reaches it. Settings are classes (a host that is empty, not a URL, without
authority, or good). Of the write options the three switches and the precision
are followed; the others have no check and no parameter, and travel with them.

## 3. Properties

Each property is stated in words above its definition. The main ones:

* `OkMeansStored`, `ImplementsCall`: the promise of a write.
* `CopiesBounded`: a batch is stored at most `max_retries + 1` times.
* `NothingPastBadBatch`, `InflightBounded`: what is sent, and how much at once.
* `PrefixStored`: with a pool of one, the server holds a prefix of the input, over
  any network.
* `NothingLeftBehind`, `SilentAfterReturn`: what a failed or dropped call leaves.
* `TotalBounded`: how long one batch or one awaited query keeps its caller: the
  budget plus one attempt and, without one, attempts and sleeps one by one.
  `OnlyTransientRetried`, `LastErrorReturned`, `WaitsAsAsked`.
* `PermitNotLost`, `WaiterServed`: the channel. `WholeAnswer`, `NotReissued`: the
  answers. `Returns`, `CollectEnds`: calls end.
* `TagsOfThePoint`, `FieldsOfThePoint`, `OneTagOrder`, `BatchesCutTheInput`: the
  lines of points. `FrameWritten`, `BodiesWellFormed`: the lines of a frame.
* `TextReadBack`, `NextLineIntact`: what the server reads of a line, up to stray
  backslashes (section 7). `TimeKept`: what it stores. `TimeThereAndBack`: what is left
  of a time after it was cut on the way out and again on the way back.
* `EveryRowOnce`, `RowsAllOrNothing`, `NamesAgree`: the rows of an answer.
* `LastWordWins`, `SyncAsAsked`, `BuiltIsGood`: the settings.
* `PartialAsAsked`, `EveryRejectedLineTold`, `SaysSomething`, `PartialIsFatal`.

`OneAtATime` and `StrictOrder` are proved only (section 5).

For each property a mutant of the code is kept next to the definition it mutates
(`PullErrSkips`, `FinishEarly`, `LeaveCellLeaking`, ...): a plausible mistake in
that place, under which TLC finds the property violated. No specification uses
them.

## 4. Runs

| Configuration (module) | Bounds | States | Shows |
|---|---|---|---|
| `WriteConcurrent` (`MCWritePipeline`) | 0 to 3 batches, `max_inflight` 0 (read as 1) and 2, 1 retry, a budget, late delivery | 384k | the safety properties of the pipeline, the inductive invariant `IInv`, the refinement of `WriteCall`, and `Returns` |
| `RetryTiming` (`MCRetryLoop`) | up to 2 retries, delays to 5 ms, budgets none, 0, 4 | 714k | the retry loops |
| `FlightQueries` (`FlightQuery`) | 3 queries, 1 retry, 2 record batches | 223k | the channel and the answers |
| `PointBatches` (`MCLineProtocol`) | up to 3 points of 12 shapes, 2 tag keys, 2 field keys | 225k | the lines of points |
| `WriteVerdicts` (`WriteErrors`) | 5 statuses, all body shapes, up to 2 elements | 79k | the errors of a write |
| `DataFrameRows` (`MCDataFrameWriter`) | up to 4 rows, 4 columns, slices of 1, 2, 3 | 2.1M | the lines of a frame |
| `QueryRows` (`MCQueryRows`) | 5 schemas of up to 3 columns, 3 batches, 2 rows, dictionaries of 2 slots | 564k | the rows of an answer |
| `LineRoundTrips` (`LineRoundTrip`) | texts of up to 3 characters, alone or two together, 6-bit integers, units 3 apart | 5.6M | one line and one time, there and back |
| `Configurations` (`MCConfiguration`) | 3 options before the config, 2 on the request, all classes of settings | 1.3M | the settings |
| `FindingDoubleCount`, `FindingPanic`, `FindingBackslash` | as the runs of their modules, smaller | small | one disagreement each (section 7) |

Why the bounds are enough to be of interest. Three batches through a pool of two
is the smallest input where one batch still waits in the iterator while one
future fails and another is under way; a single retry already lets an old request
arrive after a new one, and between the batches that follow; every theorem of
section 5 extends the result to all bounds. Three queries are needed for one
to hold the permit, one to be next and one behind it to be dropped or to time out. Two
retries reach the cap of the backoff (2, then 4 against 3 or 1), the sampled
Retry-After of 5 exceeds both `max_delay` and the budgets, and a budget of 0 is the
boundary of the comparison. Three points under a batch size of 2 give a full and a
short batch and an error in either; the timestamps -4 and 2 with a unit of 3 fall
on both sides of the epoch and on no multiple. Four rows in slices of 3 give a
dropped row at the start, in the middle and at the end of a slice. Two elements in
`data` are what it takes for one to be well formed and the other not. Three batches
give an empty one before, between and after others, and two empty ones in a row. A
text of three characters can put a backslash before a separator, after one and before
another backslash; two of the five texts vary together, because the end of one and the
end of another can meet in what the server makes of the line (`NextLineIntact`,
section 5). (Two texts of up to five characters together were checked once; the
theorems have any length.)
Six bits and units that are three apart keep what matters of 64
bits and 1000: the largest unit (27) times a value overflows for most values,
nothing divides evenly, and both signs occur. Three options before a config and two
after let each be set, overridden and replaced wholesale.

`CHECK_DEADLOCK FALSE` is set where the system stops for good: a call that has
returned and whose requests are gone, an iterator that is exhausted, an answer
that was classified. `FlightQueries` checks for deadlock: its `Done` step is
enabled only when all queries have ended.

`WritePipeline` is finite as it stands, so its runs need no state constraint.
`MCWritePipeline` only samples the initial options: one pair that `validate`
refuses (`use_v2_api` with `no_sync`) and one that it accepts.

### Fairness

* `WritePipeline`: weak fairness of the caller's steps and of each batch future.
  Tokio polls a task that was woken, and what wakes it is under the client's
  control: `sleep` ends, and `write_timeout` ends every attempt
  (`ClientBuilder::timeout`). Nothing is asked of the server, of the network or of
  the caller's decision to drop the call.
* `RetryLoop`: time passes, a due timer fires, and an attempt that has no other end
  ends with its timeout. `stream` has no timeout and is excluded from `Returns`.
* `FlightQuery`: a woken query is polled, timers of awaited queries fire, and a
  connection attempt ends within `connect_timeout` (flight.rs). No answer of the server is assumed.

## 5. What is proved

The proofs hold for every value of the constants, under the assumptions that the
modules name (`ConstantsAssumption`, in `RetryLoop` `PolicyAssumption`, in
`LineRoundTrip` `TripAssumption`). They type the constants: bounds, limits and
sizes are natural numbers, switches are Booleans, keys are integers, a policy has
the fields of a `RetryConfig`, an input is made of the calls, columns and cells that
exist. They say that a mark is none of what it marks (`None` no query, no schema and
no time, `Err` no row, `NewLine` no line). And two tie the sampled values together:
`LongestRetryAfter` bounds the Retry-After values, and the timestamp column is one
of those that are read.

| Module | Theorem | States |
|---|---|---|
| `WritePipelineProofs` | `Invariance` | `Spec => []IInv` |
| | `TypeCorrect` | `Spec => []TypeOK` |
| | `OkIsStored` | `Spec => []OkMeansStored` |
| | `BadBatchStops` | `Spec => []NothingPastBadBatch` |
| | `PoolIsBounded` | `Spec => []InflightBounded` |
| | `Sequential` | `Spec => []OneAtATime` |
| | `PrefixKept` | `Spec => []PrefixStored` |
| | `Ordered` | `Spec => []StrictOrder`, assuming `~LateDelivery` |
| | `ReplaysBounded` | `Spec => []CopiesBounded` |
| | `Silence` | `Spec => SilentAfterReturn` |
| | `AllAccounted` | `Spec => []NothingLeftBehind` |
| | `Refinement` | `Spec => ImplementsCall` |
| `RetryLoopProofs` | `LoopInvariance` | `Spec => []RInv` |
| | `LoopTypeCorrect` | `Spec => []TypeOK` |
| | `TransientOnly` | `Spec => []OnlyTransientRetried` |
| | `LastErrorIsReturned` | `Spec => []LastErrorReturned` |
| | `WaitsAsAskedFor` | `Spec => []WaitsAsAsked` |
| | `TotalIsBounded` | `Spec => []TotalBounded` |
| | `VerdictInvariance` | `ErrorSpec => []EInv` |
| | `PartialOnlyAsAsked` | `ErrorSpec => []PartialAsAsked` |
| | `EveryLineIsTold` | `ErrorSpec => []EveryRejectedLineTold` |
| | `AlwaysSaysSomething` | `ErrorSpec => []SaysSomething` |
| | `PartialIsNeverRetried` | `ErrorSpec => []PartialIsFatal` |
| `FlightQueryProofs` | `ChannelInvariance` | `Spec => []FInv` |
| | `ChannelTypeCorrect` | `Spec => []TypeOK` |
| | `PermitIsKept` | `Spec => []PermitNotLost` |
| | `AnswerIsWhole` | `Spec => []WholeAnswer` |
| | `StreamsAreNotReplayed` | `Spec => NotReissued` |
| `LineProtocolProofs` | `LineInvariance` | `Spec => []LineInv` |
| | `BatchesCut` | `Spec => []BatchesCutTheInput` |
| | `FieldsAreOfThePoint` | `Spec => []FieldsOfThePoint` |
| | `TagsAreOfThePoint` | `Spec => []TagsOfThePoint` |
| | `TagsInOneOrder` | `Spec => []OneTagOrder` |
| | `TimeInvariance` | `TripSpec => []TimeInv` |
| | `TimeIsKept` | `TripSpec => []TimeKept` |
| | `TimeComesBack` | `TripSpec => []TimeThereAndBack` |
| | `TextInvariance` | `TripSpec => []TextInv` |
| | `TextIsReadBack` | `TripSpec => []TextReadBack` |
| | `NextLineStaysIntact` | `TripSpec => []NextLineIntact` |
| `DataFrameWriterProofs` | `FrameInvariance` | `Spec => []FrameInv` |
| | `WholeFrameIsWritten` | `Spec => []FrameWritten` |
| | `BodiesAreWellFormed` | `Spec => []BodiesWellFormed` |
| | `ReadersInLockstep` | `Spec => [](row_idx # -1 => \A col \in Iterated : cursor[col] = row_idx)` |
| `QueryRowsProofs` | `RowsInvariance` | `Spec => []RowsInv` |
| | `EachRowIsYieldedOnce` | `Spec => []EveryRowOnce` |
| | `RowsGivesAllOrNothing` | `Spec => []RowsAllOrNothing` |
| | `LookupsAgree` | `Spec => []NamesAgree` |
| `ConfigurationProofs` | `SettingsInvariance` | `Spec => []CInv` |
| | `LastWordIsSent` | `Spec => []LastWordWins` |
| | `SyncIsAsAsked` | `Spec => []SyncAsAsked` |
| | `BuiltStaysGood` | `Spec => []BuiltIsGood` |

**The write pipeline**: every number of batches, every limit, every retry policy,
with and without a budget, with and without late delivery.
`OkMeansStored` is not inductive: `Finish` looks at the futures, not at
the server. `IInv` adds what connects them. `AckedStored`: a finished future, and a
2xx reply that is still on its way, stand for a batch in the log; a reply has a
future that waits for it. `FuturesArePulled`: the futures are exactly those of the
batches pulled, all before the bad one. `AttemptsCounted`: how many attempts each
state has behind it, and that nothing is on the wire or stored for a batch with
none (without this the refinement could not map a late `ServerHandles` to
`Store`). `ReturnSettles`: futures fail or are dropped only as the call
returns. TLC checks `IInv` in `WriteConcurrent`.

`Invariance` is proved action by action. The steps that return an error, wherever in
the code, share one lemma (`FailKeepsIInv`), and those that move one future
another (`MoveKeepsIInv`). That the log only grows (`AppendKeeps`,
`HandleStores`) keeps stored batches stored. `ReplaysBounded` needs a second
invariant over cardinalities, `CopiesCounted`: each attempt made one request, which
is on the wire, was stored once, or is gone. `PoolIsBounded` and `Sequential`
are inductive over `IInv`. `Ordered` adds `WireAwaited` to it: where no request
outlives its attempt, what is on the wire is awaited by the one future that
`Sequential` allows to be sending, so what the server stores next belongs to the
latest batch. (Without that assumption a late copy can arrive after the next
batch: `PrefixStored` is what is left, and follows from `AckedStored`
and `OneAtATime`, because a batch is only sent once the earlier ones are in the
log.) `AllAccounted` adds `Blamed`: the batch that the error names is the one
whose future failed, and a call returns in one of three ways (`WaysToReturn`). `Refinement` maps `Send` to `Issue`, the server's step to `Store` or a
stutter, `Finish` to `Succeed` and every `Fail` to `Fail`.

**The retry loops**: every set of policies, outcomes and Retry-After values, and
every timeout. None of the properties is inductive: they speak of the whole history
or of the end. `RInv` says what each place of the loop knows. `Counted`: how many
failures are behind it, and, asleep, that a retry is left. `Chained`: between two
attempts lies the wait that was asked for. `Settled`: why the loop gave up.
`Clocked`: where the clock stands between the start of the attempt or sleep and its
end. `Budgeted` and `Stretched`: the two halves of `TotalBounded`, on the moment the
attempt began; the budget is compared before a sleep, so the sleep ends within
it and one attempt may still follow.

**The channel and the queries**: any number of queries, retries and batches.
`CellInv` is about the queue, which `PermitNotLost` leaves out: nobody is queued
twice, nor while holding the permit. Without it, a query that leaves could
leave a second entry behind, which would be given the permit later. What the
operators on the queue do to its elements are lemmas of their own (`Removed`,
`TakenFirst`, `PutLast`), and so is each way in and out of the cell
(`LeaveCellKeeps`, `EnterCellKeepsCell`, ...). `BatchesInv` says that what a query
holds is a prefix of the answer to its current attempt and nothing between two
attempts; the rest of `FInv` says which places a query of each kind can be in. A
step of one query is then one lemma (`OneMoves`), whatever the step.

**The verdicts on a write**: every status and every `data` array. The properties
speak of the end of one attempt, so `EInv` says what is held on the way: the
parameters that the options asked for (`AskedFor`), an answer that a server can
give (`AnswerHeld`), and the verdict of `parse_write_error` on it (`Judged`). What
takes work is `parse_line_errors`, a recursive function over the elements:
`IsFound` is what it has after *n* of them.

**The lines of points**: every chain of builder calls, every batch size, defaults
and `tag_order`. `LineInv` says that the lines yielded are those of the first points
(`InStepWithInput`), that only a batch that ends the input is short (`FullBatches`),
and what an error leaves (`ErrorEnds`). That a point is what its calls say is a
second induction, over the calls (`IsMapOf`, `PointByCalls`): an entry is in the place of the
first call on its key and has the value of the last. For the order of tags,
`Precedes` is one order on keys (the place in `tag_order`, then the bytes), and both
ways of writing tags put the keys of any set in that order.

**The time of a line**: integers of any width, any factor between units, every
time. `TimeInv` says at each status what the time is in terms of the source and the
precision. What it rests on is arithmetic: a number cut to a unit lies between the
number and 0 and less than a unit away (`CutToUnit`), so whatever fits still
fits after it is cut and multiplied up again (`CutFits`), and what fits is not
changed by wrapping (`FitsUnwrapped`). `TimeComesBack` is about two cuts, by
`scale_timestamp` on the way out and by the column's unit on the way back. They
lose no more than one, because of any two units one divides the other (`UnitsNest`),
and a number cut to a unit and then to a multiple or a divisor of it is the number
cut to the larger of them (`CutTwice`): with units that did not nest, the second cut
could end farther from the time than either unit.

**The texts of a line**: texts of any length, escaped and read back character by
character. `EscapedAt` says where the characters of a text stand once it is escaped,
`LiesIn` where the texts stand in a line, `BodyLines` where both lines are in the
body. The invariant `TextInv` follows the server through them. A backslash of an
unquoted text is *stray* (`StrayBackslash`) where it stands before another, before a
character that is escaped, or at the end: the server takes it for the escape of what
follows. As long as there is none, the reader is in step (`InStep`): it stands behind
some number of characters of one of the caller's texts, in the place that this text
was written to, and has read just those characters, or it stands between the two of
a newline. There is one lemma for each kind of step: within a text (`TextStep`), from one
to the next (`PartStep`), through the time (`InTimeStep`). Once a stray backslash has
shifted the cuts, the reader may be anywhere before the quote that opens the string, in
any place of a line (`Astray`). What is left to show is that it does not take the
quote that closes the string for one that opens a string, which would reach past the
newline. At the opening quote, a reader that is in a string closes it there, one that
is in a field key has the sign before it and opens it, as it should, and any other reads
on past it; from then on no sign stands before a quote (`NoSignBeforeQuote`), unless the string ends in one. That is
the exception of `NextLineIntact`: a string that ends in an equals sign, behind a
stray backslash, has its last two characters taken for the beginning of a string. No
single text does that, which is why the run varies two. TLC checked `TextInv` with
texts of two characters before it was proved.

**The lines of a frame**: every height, every set of nulls, every slice.
`InStep` says that the cursor of each column iterator is the row. An attempt to
prove it showed that the end of a slice had to be guarded by its beginning in the
model: as it stood, an empty body could be ended between two slices, which changed
nothing that the properties see. `InOrder` counts: the line of a row is preceded by
as many lines as rows were kept before it.

**The rows of an answer**: every number of batches and rows, every schema.
`Placed` says that as many items were yielded as rows lie before the two cursors,
`InTheirPlaces` that each item is the row of its number, `EndsWhere` when the reading
stops. `rows_of_first`, the rows in the first *n* batches, is what ties the two
cursors to one number; batches without rows do not move it.

**The settings**: every chain of settings. `Followed` says that the options held are
those asked for last, in one induction over the chain for the config and the
request together; `Checked` that what `build` saw stays true but for what a setter of
the request changed.

Induction over data is not open to these provers, so each such induction is
carried out over a set: by the least-number principle (`DataLemmas`), the set of
numbers for which a statement holds is all of `0..n` (`UpTo`), and what a recursive
function computes is followed from one number to the next (`Iterates`,
`FlattenIs`). That is why those definitions of the models are recursive functions.

Only model-checked: liveness (`Returns`, `WaiterServed`, `CollectEnds`), which is
out of reach of the prover. Every other property of the passing runs is a theorem.

## 6. What is not modelled

* The notation of numbers and booleans in line protocol, and of each dtype of a
  frame: one `write!` each. (An `f32` is widened first and written with the digits
  of the `f64`.)
* HTTP client construction and gzip: one library call each, without state; their
  failures before the first attempt are `SetupFails`.
* `to_polars`: a round trip through two libraries.
* The query's ticket: values handed through. Timeouts, pool sizes, proxy, roots and
  organisation in the configuration, likewise.
* Retry-After as an HTTP date: `parse_retry_after` reads seconds only, and anything
  else is an absent value.
* tokio, reqwest, tonic, Arrow, polars and the server are external and modelled from
  their use.

## 7. Where code and documentation disagree

Each of these three has a run that shows it.

1. Replays "cannot be double-counted" (retry.rs:9-11), "line-protocol writes are
   idempotent" (README.md:287-288): not for points without a timestamp
   (`FindingDoubleCount`).
2. `expect("write body is cloneable")` (client.rs:197): `localhost:8181` parses as a
   URL without an authority, passes `build`, and the first write with it panics; a
   ping or a query gives an error (`FindingPanic`).
3. Of two contiguous backslashes the first escapes the second, says the reference that
   point.rs:346 cites; `tag_needs_escape` and `measurement_needs_escape`
   (point.rs:371-377) leave a backslash as it is, and a test is called
   `line_protocol_preserves_literal_backslash_sequences` (tests/point_tests.rs:121). A
   tag value `a\,b` is written `a\\,b` and read as `a\` with a live comma behind it;
   `a\\b` is read as `a\b`; a backslash at the end hides the separator that follows
   (`FindingBackslash`). `TextReadBack` excepts these backslashes, and
   `NextLineIntact` those that meet a string that ends in an equals sign, where what
   the server reads goes on into the next line. With the backslash added to what
   `needs_escape` gives for every place, TLC finds both to hold without an exception.

Noted while modelling, without a run of their own:

* "Errors per batch are returned in the iterator so partially-valid inputs can still
  send what they can" (write.rs:104-106): the first batch that cannot be encoded ends
  the call, nothing behind it is sent, and the requests of earlier batches that are
  still in flight are dropped with the pool. `NothingPastBadBatch` and
  `BatchesCutTheInput` state what the code does, which is also what the
  comment at write.rs:174, "stop iteration after error", says of the iterator of points.
* "Extra HTTP headers sent with every request" (config.rs:37 and 321): only writes
  send them (client.rs:189-191); a ping (client.rs:111-124) and a Flight query
  (client.rs:126-140, flight.rs:101-118) build their requests without them
  (`Configuration.Ping`, `Configuration.Query`).
* "Set to `1` for strict ordering" (write.rs:51): a timed-out attempt may be
  delivered after its retry and after the next batch. `Ordered` (section 5) proves
  strict order where no request outlives its attempt; what holds over any network
  is `PrefixStored`.
* "only one batch buffer lives in memory at a time" (write.rs:98-100): each batch
  future holds one, `max_inflight` at once (`InflightBounded` is the bound).
* "When the next backoff would exceed the budget, the last error is returned
  instead" (retry.rs:36-37): `stream` never reads `max_elapsed`
  (`RetryLoop.OverBudget`).
* "`5xx`" is retried (retry.rs:3, README.md:285): only 500, 502, 503, 504 are.
* A Datetime column in a coarser unit is converted through nanoseconds and can
  overflow `i64` although the precision could hold the time
  (write_dataframe.rs:173-178): a panic in a debug build, another time in a release
  build. A `UInt64` timestamp from 2^63 on becomes negative (write_dataframe.rs:165).
* `tag_order` that names a key twice writes that tag twice (point.rs:294);
  `default_tags` and `tag_order` have no effect on a `DataFrameWrite`.

## 8. Plan

Done, in order of importance: the write pipeline with its abstract specification
and proofs, the retry loops, the channel and the queries, the serialisers, the
error bodies, the query results, one line there and back, the configuration.

Proved since: every safety and action property of the passing runs (section 5).

To prove next: that an abstract specification of one query on the shared channel (it
gets the channel, or an error that is its own) is implemented by `FlightQuery`, as
`WritePipeline` implements `WriteCall`; and for liveness the safety half of each
argument, that some step is possible in every state that is not final.

---------------------------- MODULE LineProtocol -----------------------------
(***************************************************************************)
(* From `Point` builder calls to the batches of lines a write sends: the   *)
(* builder (IndexMap semantics), `Point::write_line_protocol` with its hot *)
(* path and its merge path, and `PointBatchIter`.                          *)
(*                                                                         *)
(* A line is the record of what the server reads in it: the tags and the   *)
(* fields in the order they are written, and the timestamp in the unit of  *)
(* the write precision.  Keys are numbers that stand for their byte order; *)
(* the value given by a builder call is its place in the chain of calls,   *)
(* so that no two calls on a point give the same value.  Escaping is not   *)
(* modelled.                                                               *)
(***************************************************************************)
EXTENDS Precisions, Integers, FiniteSets, SequencesExt

CONSTANTS
    TagKey, FieldKey,   \* keys, numbered in byte order
    Nanos,              \* timestamps, in nanoseconds
    NanosPerUnit,       \* Precision::nanos_per_unit
    MaxPoints,          \* bound: points of the input
    Chains,             \* the chains of builder calls that make a point
    BatchSize,          \* the values of WriteOptions::batch_size
    DefaultTags,        \* the key sets of WriteOptions::default_tags
    TagOrder,           \* the values of WriteOptions::tag_order
    None                \* no timestamp

\* `tag(key, _)`, `field(key, _)` and `timestamp_nanos(nanos)`.
Call == [op : {"tag"}, key : TagKey] \cup [op : {"field"}, key : FieldKey]
        \cup [op : {"timestamp"}, nanos : Nanos]

ASSUME ConstantsAssumption ==
    /\ TagKey \subseteq Int /\ FieldKey \subseteq Int /\ Nanos \subseteq Int
    /\ NanosPerUnit \in Nat \ {0}
    /\ MaxPoints \in Nat
    /\ Chains \subseteq Seq(Call)
    /\ BatchSize \subseteq Nat
    /\ DefaultTags \subseteq SUBSET TagKey
    /\ \A keys \in DefaultTags : IsFiniteSet(keys)
    /\ TagOrder \subseteq Seq(TagKey)

VARIABLES
    opts,               \* the WriteOptions
    made,               \* for each point of the input, its chain of calls
    idx,                \* PointBatchIter::idx; -1 before into_lp_batches
    items               \* what the iterator has yielded

vars == <<opts, made, idx, items>>

-----------------------------------------------------------------------------
(* Point                                                                   *)

\* Mutant of Put: as Vec::push would, with no deduplication.
PutAgain(map, key, value) == Append(map, [key |-> key, value |-> value])

\* IndexMap::insert: an entry keeps its place and takes the new value.
Put(map, key, value) ==
    IF \E i \in DOMAIN map : map[i].key = key
    THEN [i \in DOMAIN map |-> IF map[i].key = key
                               THEN [key |-> key, value |-> value] ELSE map[i]]
    ELSE Append(map, [key |-> key, value |-> value])

Keys(map) == {map[i].key : i \in DOMAIN map}
Value(map, key) == map[CHOOSE i \in DOMAIN map : map[i].key = key].value

\* The point after its n-th builder call.
Built(point, call, n) ==
    CASE call.op = "tag"   -> [point EXCEPT !.tags = Put(@, call.key, n)]
      [] call.op = "field" -> [point EXCEPT !.fields = Put(@, call.key, n)]
      [] OTHER             -> [point EXCEPT !.time = call.nanos]

NewPoint == [tags |-> <<>>, fields |-> <<>>, time |-> None]

Point(calls) ==
    LET after[n \in 0..Len(calls)] ==
            IF n = 0 THEN NewPoint ELSE Built(after[n - 1], calls[n], n)
    IN  after[Len(calls)]

-----------------------------------------------------------------------------
(* Point::write_line_protocol                                              *)

Sorted(keys) == CHOOSE seq \in [1..Cardinality(keys) -> keys] :
                    \A i, j \in DOMAIN seq : i < j => seq[i] < seq[j]

\* The value a default tag has in every point.
Default == 0

\* Mutant of tag_map: the defaults are inserted last.
tag_mapDefaultsWin(point) == [key \in opts.default_tags \cup Keys(point.tags) |->
    IF key \in opts.default_tags THEN Default ELSE Value(point.tags, key)]

\* Defaults, overridden by the point's own tags.
tag_map(point) == [key \in opts.default_tags \cup Keys(point.tags) |->
    IF key \in Keys(point.tags) THEN Value(point.tags, key) ELSE Default]

\* The keys of `tag_order` that the line has, then its other keys, sorted.
ordered_keys(point) ==
    LET keys == DOMAIN tag_map(point)
    IN  FlattenSeq([i \in DOMAIN opts.tag_order |->
            IF opts.tag_order[i] \in keys THEN <<opts.tag_order[i]>> ELSE <<>>])
            \o Sorted(keys \ ToSet(opts.tag_order))

\* Mutant of LineTags: the hot path does not sort.
LineTagsUnsorted(point) ==
    IF opts.default_tags = {} /\ opts.tag_order = <<>> THEN point.tags
    ELSE [i \in DOMAIN ordered_keys(point) |->
            [key |-> ordered_keys(point)[i],
             value |-> tag_map(point)[ordered_keys(point)[i]]]]

\* The hot path when there is nothing to merge, else the merge path.
LineTags(point) ==
    LET hot == opts.default_tags = {} /\ opts.tag_order = <<>>
        keys == IF hot THEN Sorted(Keys(point.tags)) ELSE ordered_keys(point)
        value(k) == IF hot THEN Value(point.tags, k) ELSE tag_map(point)[k]
    IN  [i \in DOMAIN keys |-> [key |-> keys[i], value |-> value(keys[i])]]

Line(point) ==
    [tags |-> LineTags(point), fields |-> point.fields,
     time |-> IF point.time = None THEN None
             ELSE scale_timestamp(point.time, NanosPerUnit)]

Encodable(point) == point.fields # <<>>

-----------------------------------------------------------------------------
Init ==
    /\ opts \in [batch_size : BatchSize, default_tags : DefaultTags,
                 tag_order : TagOrder]
    /\ made = <<>>
    /\ idx = -1
    /\ items = <<>>

\* The caller adds a point to the input.
Push ==
    /\ idx = -1 /\ Len(made) < MaxPoints
    /\ \E calls \in Chains : made' = Append(made, calls)
    /\ UNCHANGED <<opts, idx, items>>

\* `Vec<Point>::into_lp_batches`
IntoBatches ==
    /\ idx = -1
    /\ idx' = 0
    /\ UNCHANGED <<opts, made, items>>

\* `opts.batch_size.max(1)`
chunk == IF opts.batch_size = 0 THEN 1 ELSE opts.batch_size

\* The points of the next batch.
end == IF idx + chunk < Len(made) THEN idx + chunk ELSE Len(made)
Slice == [i \in 1..(end - idx) |-> Point(made[idx + i])]

\* An item: Ok(lines) or Err(error).
Ok(lines) == [ok |-> TRUE, lines |-> lines]
Err == [ok |-> FALSE, lines |-> <<>>]

NextBatch ==
    /\ idx >= 0 /\ idx < Len(made)
    /\ \A i \in DOMAIN Slice : Encodable(Slice[i])
    /\ items' = Append(items, Ok([i \in DOMAIN Slice |-> Line(Slice[i])]))
    /\ idx' = end
    /\ UNCHANGED <<opts, made>>

\* Mutant of NextErr: the iteration goes on past the batch.
NextErrGoesOn ==
    /\ idx >= 0 /\ idx < Len(made)
    /\ \E i \in DOMAIN Slice : ~Encodable(Slice[i])
    /\ items' = Append(items, Err)
    /\ idx' = idx + chunk
    /\ UNCHANGED <<opts, made>>

\* A point with no field: the whole batch is given up, and the iteration ends.
NextErr ==
    /\ idx >= 0 /\ idx < Len(made)
    /\ \E i \in DOMAIN Slice : ~Encodable(Slice[i])
    /\ items' = Append(items, Err)
    /\ idx' = Len(made)
    /\ UNCHANGED <<opts, made>>

Next == Push \/ IntoBatches \/ NextBatch \/ NextErr

Spec == Init /\ [][Next]_vars

-----------------------------------------------------------------------------
(* Properties                                                              *)

\* The lines yielded so far; line n is that of point n.
Lines == FlattenSeq([b \in DOMAIN items |-> items[b].lines])

\* The calls of point p on key k.
CallsOn(p, op, k) == {n \in DOMAIN made[p] : made[p][n].op = op /\ made[p][n].key = k}

Unrepeated(seq) == \A i, j \in DOMAIN seq : i # j => seq[i] # seq[j]

\* Whatever path wrote it, a line has each tag of its point and of the
\* defaults exactly once, with the value given last by the point, else the
\* default (Point::tag, WriteOptions::default_tags).  A key that `tag_order`
\* repeats is repeated in the line.
TagsOfThePoint == Unrepeated(opts.tag_order) => \A p \in DOMAIN Lines :
    LET tags == Lines[p].tags
        given == {k \in TagKey : CallsOn(p, "tag", k) # {}}
    IN  /\ Len(tags) = Cardinality(Keys(tags))
        /\ Keys(tags) = given \cup opts.default_tags
        /\ \A k \in Keys(tags) :
            Value(tags, k) = IF k \in given THEN Max(CallsOn(p, "tag", k)) ELSE Default

\* The fields of a line are in the order of the first call on each, with the
\* value of the last, and there is at least one (Point::field).
FieldsOfThePoint == \A p \in DOMAIN Lines :
    LET fields == Lines[p].fields
    IN  /\ fields # <<>>
        /\ Keys(fields) = {k \in FieldKey : CallsOn(p, "field", k) # {}}
        /\ \A i, j \in DOMAIN fields : i < j =>
            Min(CallsOn(p, "field", fields[i].key)) < Min(CallsOn(p, "field", fields[j].key))
        /\ \A i \in DOMAIN fields :
            fields[i].value = Max(CallsOn(p, "field", fields[i].key))

\* Two tags come in one order in all the lines that have both, whichever
\* points set them and whichever took them from the defaults
\* (WriteOptions::tag_order, "deterministic line-protocol output").
OneTagOrder == Unrepeated(opts.tag_order) => \A p, q \in DOMAIN Lines :
    LET s == Lines[p].tags
        t == Lines[q].tags
    IN  \A i, j \in DOMAIN s, k, l \in DOMAIN t :
        i < j /\ s[i].key = t[k].key /\ s[j].key = t[l].key => k < l

\* The batches cut the input in order, with no point twice and none skipped:
\* each has `batch_size` lines (at least one), but for the last.  An error ends
\* the iteration, and is the last item: none of the lines from the first point
\* without fields on, nor of those that share its batch, is sent.
BatchesCutTheInput ==
    /\ \A b \in DOMAIN items : items[b].ok =>
        /\ Len(items[b].lines) \in 1..chunk
        /\ b < Len(items) => Len(items[b].lines) = chunk
    /\ idx >= 0 /\ (\A b \in DOMAIN items : items[b].ok) => Len(Lines) = idx
    /\ \A e \in DOMAIN items : ~items[e].ok =>
        /\ e = Len(items) /\ idx = Len(made)
        /\ \E p \in DOMAIN made :
            /\ Point(made[p]).fields = <<>>
            /\ \A q \in 1..(p - 1) : Point(made[q]).fields # <<>>
            /\ Len(Lines) < p /\ p <= Len(Lines) + chunk
=============================================================================

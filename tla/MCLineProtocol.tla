--------------------------- MODULE MCLineProtocol ----------------------------
EXTENDS LineProtocol

\* Two tag keys, given as defaults or not, and the orders that can name them
\* (one of them names a key twice).
Keys12 == 1..2
TagSets == SUBSET Keys12
Orders == {<<>>, <<2>>, <<2, 1>>, <<2, 2>>}

\* On both sides of the epoch, and not a multiple of the unit (3).
Times == {-4, 2}

\* Chains that set a tag or a field once, again, in the byte order and against
\* it, or not at all; the time goes with the tags.
On(op, keys) == [i \in DOMAIN keys |-> [op |-> op, key |-> keys[i]]]
At(t) == <<[op |-> "timestamp", nanos |-> t]>>
Tagged == {<<>>, On("tag", <<2, 1>>) \o At(-4), On("tag", <<1, 2, 1>>) \o At(2),
           On("tag", <<2>>) \o At(-4) \o At(2)}
FieldCalls == {On("field", keys) : keys \in {<<>>, <<1>>, <<2, 1, 2>>}}
PointChains == {tagged \o fields : tagged \in Tagged, fields \in FieldCalls}
=============================================================================

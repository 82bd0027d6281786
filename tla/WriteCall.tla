------------------------------ MODULE WriteCall ------------------------------
(***************************************************************************)
(* What a caller of `client.write(data).await` may rely on, whatever the   *)
(* batching, the concurrency, the retries and the network do.              *)
(*                                                                         *)
(* A call has a set of batches it was asked to write.  While it is pending *)
(* it hands batches over to the network (issues them); the server stores   *)
(* an issued batch in full at a moment of its own, possibly after the call *)
(* has returned.  The call reports success only when every batch it was    *)
(* asked to write is stored; it may report a failure at any time, and then *)
(* issues nothing more.                                                    *)
(***************************************************************************)
CONSTANT Batch          \* the identities of batches

VARIABLES
    wanted,             \* the batches of the call's input
    issued,             \* the batches handed to the network
    stored,             \* the batches the server holds in full
    outcome             \* "pending", "ok" or "err"

callVars == <<wanted, issued, stored, outcome>>

CallInit ==
    /\ wanted \in SUBSET Batch
    /\ issued = {}
    /\ stored = {}
    /\ outcome = "pending"

Issue(b) ==
    /\ outcome = "pending"
    /\ b \in wanted
    /\ issued' = issued \cup {b}
    /\ UNCHANGED <<wanted, stored, outcome>>

Store(b) ==
    /\ b \in issued
    /\ stored' = stored \cup {b}
    /\ UNCHANGED <<wanted, issued, outcome>>

Succeed ==
    /\ outcome = "pending"
    /\ wanted \subseteq stored
    /\ outcome' = "ok"
    /\ UNCHANGED <<wanted, issued, stored>>

Fail ==
    /\ outcome = "pending"
    /\ outcome' = "err"
    /\ UNCHANGED <<wanted, issued, stored>>

CallNext ==
    \/ \E b \in Batch : Issue(b) \/ Store(b)
    \/ Succeed
    \/ Fail

CallSpec == CallInit /\ [][CallNext]_callVars
=============================================================================

------------------------------ MODULE Delivery -----------------------------
(***************************************************************************)
(* What the bridge promises for every event it takes: it keeps the event   *)
(* until the gateway has stored it or until it parks the event for good.   *)
(* Module Drain implements this while its uploads are prompt.              *)
(***************************************************************************)
EXTENDS FiniteSets

CONSTANT Events

VARIABLES
    promise,   \* event -> where the bridge stands with it
    archived   \* the events the gateway has stored

delivery == <<promise, archived>>

Promised(state) == {e \in Events : promise[e] = state}

Init ==
    /\ promise = [e \in Events |-> "none"]
    /\ archived = {}

Moved(S, state) == [e \in Events |-> IF e \in S THEN state ELSE promise[e]]

\* The bridge takes charge of an event it does not know.
Take(e) ==
    /\ promise[e] = "none"
    /\ promise' = Moved({e}, "open")
    /\ UNCHANGED archived

\* The gateway stores events still open at the bridge, perhaps once more.
Store(S) ==
    /\ archived' = archived \cup S
    /\ UNCHANGED promise

\* The bridge is done with events the gateway has stored ...
Confirm(S) ==
    /\ S \subseteq archived
    /\ promise' = Moved(S, "done")
    /\ UNCHANGED archived

\* ... or gives up on events, and keeps them for inspection.
Park(S) ==
    /\ promise' = Moved(S, "parked")
    /\ UNCHANGED archived

\* Only what is done may be forgotten.
Forget(S) ==
    /\ promise' = Moved(S, "none")
    /\ UNCHANGED archived

Next ==
    \/ \E e \in Events : Take(e)
    \/ \E S \in SUBSET Promised("open") : Store(S) \/ Confirm(S) \/ Park(S)
    \/ \E S \in SUBSET Promised("done") : Forget(S)

Spec == Init /\ [][Next]_delivery

=============================================================================

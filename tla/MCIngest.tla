------------------------------ MODULE MCIngest ------------------------------
(* Ingest on small instances. *)
EXTENDS Ingest, TLC

CONSTANTS e1, e2, e3, e4, c1, c2, c3, conv, branch, hooked, declared

\* e1 and e2 are the hook's and the transcript's copy of one message, e3 is
\* another message; e3 may also come in a second version.
Copies == {<<e1, c1>>, <<e2, c1>>, <<e3, c2>>}

\* The copies, an event that is never rendered, and a content that is too large.
Mixed == {<<e1, c1>>, <<e2, c1>>, <<e4, c2>>, <<e2, c3>>}
Conflicting == Copies \cup {<<e3, c1>>}

Whole == {<<conv, NoBranch>>}
Branched == {<<conv, NoBranch>>, <<conv, branch>>}

OneThread == [e \in Events |-> <<conv, NoBranch>>]
OneBranch == [e \in Events |-> <<conv, branch>>]
TwoThreads == [e \in Events |-> IF e = e3 THEN <<conv, branch>> ELSE <<conv, NoBranch>>]

OneOwner == [e \in Events |-> hooked]
TwoOwners == [e \in Events |-> IF e = e3 THEN declared ELSE hooked]

=============================================================================

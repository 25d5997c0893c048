------------------------------ MODULE Sessions ------------------------------
(***************************************************************************)
(* The bridge's session rows: what hooks record of a session, and how the  *)
(* end of one is declared to the gateway (main.rs record_session_state,    *)
(* watcher.rs finalize_session, spool.rs, drain.rs reconcile_sessions).    *)
(*                                                                         *)
(* Every hook of the agent is a process of its own, so hooks of a session  *)
(* overlap; a drain declares ends while hooks run.  The events themselves  *)
(* are counted, not named: module Drain is about them.  The gateway counts *)
(* what it has stored and compares (service.py session_end).               *)
(***************************************************************************)
EXTENDS Naturals, Sequences, FiniteSets

CONSTANTS
    SessionIds, Hooks, Drains,
    Daemons,      \* the resident drains
    ListLimit,    \* unreconciled_sessions(50)
    Claims,       \* counts an operator may give finalize-session
    MaxMessages,  \* bound on the messages of a session
    MaxEnds,      \* bound on how often a session ends
    MaxFaults     \* bound on kills, busy transactions and lost answers

ASSUME SessionsAssumption ==
    /\ Daemons \subseteq Drains
    /\ ListLimit \in Nat \ {0} /\ Claims \subseteq Nat
    /\ MaxMessages \in Nat /\ MaxEnds \in Nat /\ MaxFaults \in Nat

\* The sessions table holds finitely many rows.
ASSUME SessionsAreFinite == IsFiniteSet(SessionIds)

VARIABLES
    captured,  \* session -> messages ever spooled
    rows,      \* session -> messages the spool holds now
    stored,    \* session -> messages the gateway holds
    entry,     \* session -> its row in the spool's sessions table
    before,    \* <<s, t>>: s was updated before t
    hook,      \* hook process -> what it is doing
    drain,     \* drain -> the declarations it still has to make
    heard,     \* session -> the last declaration the gateway served
    ends,      \* session -> how often it ended
    faults

\* What the properties remember of a session: the largest count an operator
\* gave, and the most messages there were when a hook counted whose count has
\* been written.
VARIABLES claimed, noted

history == <<claimed, noted>>
vars == <<captured, rows, stored, entry, before, hook, drain, heard, ends, faults, history>>

Count == 0 .. MaxMessages

Observable == Count \cup Claims

Entry == [known : BOOLEAN, observed : Observable, ended : BOOLEAN,
          declared : BOOLEAN]  \* the meta key session_end:<system>:<session>

\* A capture of the agent's hook, one that carries the session's end, or the
\* command finalize-session. at: the messages there were when it counted.
Kinds == {"capture", "end", "finalize"}
HookState == [pc : {"count", "upsert", "mark"}, kind : Kinds,
              session : SessionIds, count : Observable, at : Count]
IdleHook == [pc |-> "idle"]

Declaration == [session : SessionIds, observed : Observable]

DrainState == [pc : {"idle", "post", "mark"}, todo : Seq(Declaration)]
IdleDrain == [pc |-> "idle", todo |-> <<>>]

TypeOK ==
    /\ captured \in [SessionIds -> Count]
    /\ rows \in [SessionIds -> Count] /\ stored \in [SessionIds -> Count]
    /\ entry \in [SessionIds -> Entry]
    /\ before \subseteq SessionIds \X SessionIds
    /\ hook \in [Hooks -> HookState \cup {IdleHook}]
    /\ \A d \in Drains : drain[d] \in DrainState /\ Len(drain[d].todo) <= ListLimit
    /\ heard \in [SessionIds -> [ends : 0 .. MaxEnds, observed : Observable]]
    /\ ends \in [SessionIds -> 0 .. MaxEnds]
    /\ faults \in 0 .. MaxFaults
    /\ claimed \in [SessionIds -> Claims \cup {0}] /\ noted \in [SessionIds -> Count]

Init ==
    /\ captured = [s \in SessionIds |-> 0]
    /\ rows = captured /\ stored = captured /\ ends = captured
    /\ claimed = captured /\ noted = captured
    /\ entry = [s \in SessionIds |->
            [known |-> FALSE, observed |-> 0, ended |-> FALSE, declared |-> FALSE]]
    /\ before = {}
    /\ hook = [h \in Hooks |-> IdleHook]
    /\ drain = [d \in Drains |-> IdleDrain]
    /\ heard = [s \in SessionIds |-> [ends |-> 0, observed |-> 0]]
    /\ faults = 0

Fault == faults < MaxFaults /\ faults' = faults + 1

Larger(a, b) == IF a >= b THEN a ELSE b
Smaller(a, b) == IF a <= b THEN a ELSE b

-----------------------------------------------------------------------------
(* Messages: spooled, uploaded, pruned once acknowledged *)

Spooled(s) ==
    /\ captured[s] < MaxMessages
    /\ captured' = [captured EXCEPT ![s] = @ + 1]
    /\ rows' = [rows EXCEPT ![s] = @ + 1]

\* The watcher spools what it reads in the transcript; it does not touch the
\* session's row.
WatcherSpools(s) ==
    /\ Spooled(s)
    /\ UNCHANGED <<stored, entry, before, hook, drain, heard, ends, faults, history>>

Deliver(s) ==
    /\ stored[s] < captured[s]
    /\ stored' = [stored EXCEPT ![s] = @ + 1]
    /\ UNCHANGED <<captured, rows, entry, before, hook, drain, heard, ends, faults, history>>

\* prune_acked: what is left are the messages not delivered yet.
PruneRows(s) ==
    /\ rows[s] > captured[s] - stored[s]
    /\ rows' = [rows EXCEPT ![s] = captured[s] - stored[s]]
    /\ UNCHANGED <<captured, stored, entry, before, hook, drain, heard, ends, faults, history>>

-----------------------------------------------------------------------------
(* A hook: run_capture and record_session_state, or the command of run_finalize *)

Ending(s) == {h \in Hooks :
    hook[h] # IdleHook /\ hook[h].session = s /\ hook[h].kind # "capture"}

MayEnd(s) == ends[s] + Cardinality(Ending(s)) < MaxEnds

\* The hook's events are spooled: a message, or none (a turn's end, an event
\* that is there already). The hook may carry the session's end.
HookSpools(h, s, kind) ==
    /\ hook[h] = IdleHook
    /\ kind = "end" => MayEnd(s)
    /\ Spooled(s) \/ UNCHANGED <<captured, rows>>
    /\ hook' = [hook EXCEPT ![h] = [pc |-> "count", kind |-> kind, session |-> s,
                                   count |-> 0, at |-> 0]]
    /\ UNCHANGED <<stored, entry, before, drain, heard, ends, faults, history>>

\* finalize-session spools nothing. It counts, or takes the operator's count
\* (--observed-message-count) for what it is worth.
Finalize(h, s) ==
    /\ hook[h] = IdleHook /\ MayEnd(s)
    /\ \/ /\ hook' = [hook EXCEPT ![h] = [pc |-> "count", kind |-> "finalize", session |-> s,
                                         count |-> 0, at |-> 0]]
          /\ UNCHANGED claimed
       \/ \E n \in Claims :
          /\ hook' = [hook EXCEPT ![h] = [pc |-> "upsert", kind |-> "finalize", session |-> s,
                                         count |-> n, at |-> 0]]
          /\ claimed' = [claimed EXCEPT ![s] = Larger(@, n)]
    /\ UNCHANGED <<captured, rows, stored, entry, before, drain, heard, ends, faults, noted>>

\* count_session_messages; a hook that cannot count takes 0 (unwrap_or),
\* finalize-session fails.
HookCounts(h) ==
    /\ hook[h].pc = "count"
    /\ \/ /\ hook' = [hook EXCEPT ![h].pc = "upsert", ![h].count = rows[hook[h].session],
                                   ![h].at = captured[hook[h].session]]
          /\ UNCHANGED faults
       \/ /\ hook[h].kind # "finalize" /\ Fault
          /\ hook' = [hook EXCEPT ![h].pc = "upsert"]
    /\ UNCHANGED <<captured, rows, stored, entry, before, drain, heard, ends, history>>

\* ORDER BY updated_at
Touched(s) ==
    {p \in before : s \notin {p[1], p[2]}} \cup
    {<<t, s>> : t \in {u \in SessionIds \ {s} : entry[u].known}}

\* Seeded fault: the count replaces the one on record, an older one too.
UpsertOver(h) ==
    LET s == hook[h].session IN
    /\ entry' = [entry EXCEPT ![s].known = TRUE, ![s].ended = FALSE,
                              ![s].observed = hook[h].count]
    /\ before' = Touched(s)

\* session_upsert
Upsert(h) ==
    LET s == hook[h].session IN
    /\ entry' = [entry EXCEPT ![s].known = TRUE, ![s].ended = FALSE,
                              ![s].observed = Larger(@, hook[h].count)]
    /\ before' = Touched(s)

\* What it counted is not needed any more.
Marking(v) ==
    [pc |-> "mark", kind |-> v.kind, session |-> v.session, count |-> 0, at |-> 0]

\* A hook that cannot write the row still marks the end, finalize-session fails.
HookUpserts(h) ==
    /\ hook[h].pc = "upsert"
    /\ \/ /\ Upsert(h)
          /\ noted' = [noted EXCEPT ![hook[h].session] = Larger(@, hook[h].at)]
          /\ hook' = [hook EXCEPT ![h] =
                IF @.kind = "capture" THEN IdleHook ELSE Marking(@)]
          /\ UNCHANGED faults
       \/ /\ Fault
          /\ hook' = [hook EXCEPT ![h] =
                IF @.kind = "end" THEN Marking(@) ELSE IdleHook]
          /\ UNCHANGED <<entry, before, noted>>
    /\ UNCHANGED <<captured, rows, stored, drain, heard, ends, claimed>>

\* session_mark_ended: an UPDATE, of nothing if the row is not there.
HookMarks(h) ==
    /\ hook[h].pc = "mark"
    /\ LET s == hook[h].session IN
       \/ /\ entry[s].known
          /\ entry' = [entry EXCEPT ![s].ended = TRUE]
          /\ ends' = [ends EXCEPT ![s] = @ + 1]
          /\ before' = Touched(s)
          /\ UNCHANGED faults
       \/ ~entry[s].known /\ UNCHANGED <<entry, ends, before, faults>>
       \/ Fault /\ UNCHANGED <<entry, ends, before>>
    /\ hook' = [hook EXCEPT ![h] = IdleHook]
    /\ UNCHANGED <<captured, rows, stored, drain, heard, history>>

HookDies(h) ==
    /\ hook[h] # IdleHook /\ Fault
    /\ hook' = [hook EXCEPT ![h] = IdleHook]
    /\ UNCHANGED <<captured, rows, stored, entry, before, drain, heard, ends, history>>

-----------------------------------------------------------------------------
(* A drain pass: reconcile_sessions *)

\* Seeded fault: a session of which nothing was observed is passed over.
UnreconciledNonEmpty ==
    {s \in SessionIds : entry[s].ended /\ ~entry[s].declared /\ entry[s].observed > 0}

\* unreconciled_sessions
Unreconciled == {s \in SessionIds : entry[s].ended /\ ~entry[s].declared}

Rank(s) == Cardinality({t \in Unreconciled : <<t, s>> \in before}) + 1

Listed == [i \in 1 .. Smaller(Cardinality(Unreconciled), ListLimit) |->
            LET s == CHOOSE t \in Unreconciled : Rank(t) = i IN
            [session |-> s, observed |-> entry[s].observed]]

ListUnreconciled(d) ==
    /\ drain[d].pc = "idle" /\ Unreconciled # {}
    /\ drain' = [drain EXCEPT ![d] = [pc |-> "post", todo |-> Listed]]
    /\ UNCHANGED <<captured, rows, stored, entry, before, hook, heard, ends, faults, history>>

\* The gateway serves the declaration, ACK and all. How many messages it misses
\* is for the bridge's log only.
Hear(s, observed) == heard' = [heard EXCEPT ![s] = [ends |-> ends[s], observed |-> observed]]

Declare(d) ==
    /\ drain[d].pc = "post"
    /\ LET next == Head(drain[d].todo) IN Hear(next.session, next.observed)
    /\ drain' = [drain EXCEPT ![d].pc = "mark"]
    /\ UNCHANGED <<captured, rows, stored, entry, before, hook, ends, faults, history>>

\* Seeded fault: the session is marked reconciled whatever the answer was.
MarkAnyway(d) ==
    /\ drain[d].pc = "post" /\ Fault
    /\ entry' = [entry EXCEPT ![Head(drain[d].todo).session].declared = TRUE]
    /\ drain' = [drain EXCEPT ![d] = IdleDrain]
    /\ UNCHANGED <<captured, rows, stored, before, hook, heard, ends, history>>

\* The request, or its answer, is lost, or the answer is an error: the pass
\* gives up.
DeclarationLost(d) ==
    /\ drain[d].pc = "post" /\ Fault
    /\ LET next == Head(drain[d].todo) IN
       Hear(next.session, next.observed) \/ UNCHANGED heard
    /\ drain' = [drain EXCEPT ![d] = IdleDrain]
    /\ UNCHANGED <<captured, rows, stored, entry, before, hook, ends, history>>

\* mark_session_reconciled, whatever the gateway said is missing.
MarkReconciled(d) ==
    /\ drain[d].pc = "mark"
    /\ \/ /\ entry' = [entry EXCEPT ![Head(drain[d].todo).session].declared = TRUE]
          /\ UNCHANGED faults
       \/ Fault /\ UNCHANGED entry
    /\ drain' = [drain EXCEPT ![d] =
            IF Len(@.todo) = 1 THEN IdleDrain ELSE [pc |-> "post", todo |-> Tail(@.todo)]]
    /\ UNCHANGED <<captured, rows, stored, before, hook, heard, ends, history>>

DrainDies(d) ==
    /\ drain[d] # IdleDrain /\ Fault
    /\ drain' = [drain EXCEPT ![d] = IdleDrain]
    /\ UNCHANGED <<captured, rows, stored, entry, before, hook, heard, ends, history>>

HookStep(h) == HookCounts(h) \/ HookUpserts(h) \/ HookMarks(h)

DrainStep(d) ==
    \/ ListUnreconciled(d) \/ Declare(d)
    \/ DeclarationLost(d) \/ MarkReconciled(d)

Next ==
    \/ \E s \in SessionIds : WatcherSpools(s) \/ Deliver(s) \/ PruneRows(s)
    \/ \E h \in Hooks :
        \/ \E s \in SessionIds, kind \in {"capture", "end"} : HookSpools(h, s, kind)
        \/ \E s \in SessionIds : Finalize(h, s)
        \/ HookStep(h) \/ HookDies(h)
    \/ \E d \in Drains : DrainStep(d) \/ DrainDies(d)

Spec == Init /\ [][Next]_vars

\* A hook runs to its end or dies; the daemon passes again and again, and
\* delivers what is spooled (module Drain).
FairSpec ==
    /\ Spec
    /\ \A s \in SessionIds : WF_vars(Deliver(s))
    /\ \A h \in Hooks : WF_vars(HookStep(h))
    /\ \A d \in Daemons : WF_vars(DrainStep(d))

-----------------------------------------------------------------------------
(* Properties *)

\* A session marked reconciled was declared to the gateway: no lost answer,
\* kill or busy database makes the bridge believe so too early.
ReconciledWasHeard ==
    \A s \in SessionIds : entry[s].declared => heard[s].ends > 0

\* What the bridge observes of a session, and reports, is a number it "can
\* actually justify" (main.rs record_session_state): no more messages than were
\* captured, unless an operator said so, however counts and uploads interleave;
\* and no fewer than there were when a hook counted whose count was written, but
\* for those pruned: the older count of an overlapping hook that writes later, or
\* the 0 of one that could not count, does not undo it.
ObservedIsJustified ==
    \A s \in SessionIds :
        /\ entry[s].observed <= captured[s] \/ entry[s].observed <= claimed[s]
        /\ heard[s].observed <= captured[s] \/ heard[s].observed <= claimed[s]
        /\ entry[s].observed + (captured[s] - rows[s]) >= noted[s]

\* s has ended, the spool does not hold it declared, and no drain is about to
\* mark it for a declaration made before.
EndIsOpen(s) ==
    /\ entry[s].ended /\ ~entry[s].declared
    /\ \A d \in Drains : drain[d].pc = "mark" => Head(drain[d].todo).session # s

\* Such an end reaches the gateway, the second one of a session too, unless a later
\* hook reopens the session first (watcher.rs finalize_session: "marks the session
\* for session-end reconciliation on the next drain"). Nothing is promised of a
\* session that is resumed and ends again after one of its ends was marked as
\* declared: the mark stays, and the code declares that session no more.
EndIsDeclared ==
    \A s \in SessionIds :
        EndIsOpen(s) ~> (heard[s].ends = ends[s] \/ ~entry[s].ended)

=============================================================================

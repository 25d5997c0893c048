------------------------------- MODULE Ingest -------------------------------
(***************************************************************************)
(* The gateway's ingest service: the ledger of conversation events, the    *)
(* session rows, and the Markdown notes rendered from the ledger           *)
(* (ingest/service.py, store.py, render.py).                               *)
(*                                                                         *)
(* The HTTP handlers are synchronous inside one event loop, so requests do *)
(* not overlap; but a request is a series of SQLite transactions and file  *)
(* writes, and the process may die between any two of them.  Each is a     *)
(* step here.  An exception in the middle, answered with a 500, leaves the *)
(* same state as a crash.                                                  *)
(*                                                                         *)
(* A block is an event id with the content it carries: what the ledger     *)
(* stores and what a note shows.  Left out: wording and frontmatter, the   *)
(* order of the blocks in a note, and the progress columns of a session    *)
(* row, which nothing in the code decides upon.                            *)
(***************************************************************************)
EXTENDS Naturals, FiniteSets

CONSTANTS
    Events, Contents,
    Submissions,  \* the blocks clients may send
    Threads,      \* <<conversation, branch>>; branch NoBranch is the empty pair
    NoBranch,
    Owners,       \* <<namespace, session id>> pairs; a session row is one per
                  \* thread and owner
    ThreadOf,     \* event id -> its thread
    OwnerOf,      \* event id -> its owner
    Provider,     \* events with an id of the provider's own (id_source)
    Telemetry,    \* events whose type is not rendered
    Oversized,    \* contents longer than max_content_chars
    BatchLimit,   \* max_batch_events
    Faults,       \* which of "crash", "write_fails", "unreadable" happen
    MaxFaults,    \* bound on faults in a behaviour
    MaxPrunes     \* bound on retention runs in a behaviour

Blocks == Events \X Contents

ASSUME IngestAssumption ==
    /\ Submissions \subseteq Blocks
    /\ ThreadOf \in [Events -> Threads]
    /\ OwnerOf \in [Events -> Owners]
    /\ Provider \subseteq Events /\ Telemetry \subseteq Events
    /\ Oversized \subseteq Contents
    /\ BatchLimit \in Nat \ {0}
    /\ Faults \subseteq {"crash", "write_fails", "unreadable"}
    /\ MaxFaults \in Nat /\ MaxPrunes \in Nat
    \* event_content_hash takes the type of the event in
    /\ \A b, c \in Submissions :
            b[2] = c[2] => (b[1] \in Telemetry <=> c[1] \in Telemetry)

VARIABLES
    ledger,    \* ingest_events: the blocks stored
    session,   \* ingest_sessions: <<thread, owner>> -> its row
    first,     \* thread -> the owner of its oldest session row, {} if it has none
    note,      \* block -> how often the note of its thread shows it
    written,   \* threads whose note exists, with its managed region
    manual,    \* threads whose note carries text of its user
    request,   \* the request being served
    acked,     \* blocks clients were told are stored (history)
    faults, prunes

store == <<ledger, session, first>>
archive == <<note, written, manual>>
vars == <<store, archive, request, acked, faults, prunes>>

SessionRow == [known : BOOLEAN, ended : BOOLEAN, pruned : BOOLEAN]
Keys == Threads \X Owners

Request == [pc : {"idle", "insert", "touch", "render", "mark", "respond"},
            batch : SUBSET Blocks,
            acks : SUBSET Blocks,
            touch : SUBSET Keys,       \* session rows still to upsert
            render : SUBSET Threads,   \* notes still to materialize
            ends : SUBSET Keys,        \* the session this request declares ended
            final : BOOLEAN]           \* rendering for session_end

Idle == [pc |-> "idle", batch |-> {}, acks |-> {}, touch |-> {},
         render |-> {}, ends |-> {}, final |-> FALSE]

\* event_id is the key of ingest_events.
DistinctIds(S) == \A b, c \in S : b[1] = c[1] => b = c

TypeOK ==
    /\ ledger \subseteq Blocks /\ DistinctIds(ledger)
    /\ session \in [Keys -> SessionRow]
    /\ first \in [Threads -> SUBSET Owners]
    /\ note \in [Blocks -> Nat]
    /\ written \subseteq Threads /\ manual \subseteq written
    /\ request \in Request
    /\ acked \subseteq Blocks
    /\ faults \in 0 .. MaxFaults /\ prunes \in 0 .. MaxPrunes

Init ==
    /\ ledger = {}
    /\ session = [k \in Keys |-> [known |-> FALSE, ended |-> FALSE, pruned |-> FALSE]]
    /\ first = [t \in Threads |-> {}]
    /\ note = [b \in Blocks |-> 0]
    /\ written = {} /\ manual = {}
    /\ request = Idle
    /\ acked = {}
    /\ faults = 0 /\ prunes = 0

Fault(kind) == kind \in Faults /\ faults < MaxFaults /\ faults' = faults + 1

At(pc) == request.pc = pc

KeyOf(e) == <<ThreadOf[e], OwnerOf[e]>>
On(t, S) == {b \in S : ThreadOf[b[1]] = t}
Ids(S) == {b[1] : b \in S}

-----------------------------------------------------------------------------
(* What a client may send *)

\* POST events and events/batch.  An oversized batch is refused as a whole.
IngestBatch(batch) ==
    /\ At("idle") /\ batch # {}
    /\ Cardinality(batch) <= BatchLimit
    /\ DistinctIds(batch)
    /\ request' = [Idle EXCEPT !.pc = "insert", !.batch = batch]
    /\ UNCHANGED <<store, archive, acked, faults, prunes>>

\* upsert_session, and the reopen of _upsert_session.
Upserted(k) == [session EXCEPT ![k].known = TRUE, ![k].ended = FALSE]
FirstRow(k) == [first EXCEPT ![k[1]] = IF @ = {} THEN {k[2]} ELSE @]

\* POST snapshot: messages of one session, all of one thread.
Snapshot(batch, k, ended) ==
    /\ At("idle") /\ batch # {}
    /\ DistinctIds(batch)
    /\ \A b \in batch : KeyOf(b[1]) = k /\ b[2] \notin Oversized
    /\ session' = Upserted(k)
    /\ first' = FirstRow(k)
    /\ request' = [Idle EXCEPT !.pc = "insert", !.batch = batch,
                               !.ends = IF ended THEN {k} ELSE {}]
    /\ UNCHANGED <<ledger, archive, acked, faults, prunes>>

\* _resolve_session_thread: an omitted branch is filled in when the
\* conversation has exactly one session row.
Resolved(t) ==
    LET rows == {k \in Keys : session[k].known /\ k[1][1] = t[1]} IN
    IF t[2] = NoBranch /\ Cardinality(rows) = 1
    THEN (CHOOSE k \in rows : TRUE)[1]
    ELSE t

\* POST session-end.
SessionEnd(t, o) ==
    /\ At("idle")
    /\ LET k == <<Resolved(t), o>> IN
       /\ session' = Upserted(k)
       /\ first' = FirstRow(k)
       /\ request' = [Idle EXCEPT !.pc = "mark", !.ends = {k}]
    /\ UNCHANGED <<ledger, archive, acked, faults, prunes>>

-----------------------------------------------------------------------------
(* _ingest_events *)

Stored(e) == e \in Ids(ledger)

Accepted(valid) == {b \in valid : ~Stored(b[1])}

Duplicates(valid) == valid \cap ledger

\* Seeded fault: a duplicate does not touch its thread.
TouchedByNew(valid) == {ThreadOf[e] : e \in Ids(Accepted(valid))}
Touched(valid) == {ThreadOf[e] : e \in Ids(valid)}

\* _validate_event, then insert_events in one transaction.  A conflict is
\* neither stored nor acknowledged; its thread is still touched, on behalf of
\* the first event of the batch that names the thread.
Insert ==
    /\ At("insert")
    /\ LET valid == {b \in request.batch : b[2] \notin Oversized} IN
       /\ ledger' = ledger \cup Accepted(valid)
       /\ \E lead \in [Touched(valid) -> Ids(valid)] :
            /\ \A t \in Touched(valid) : ThreadOf[lead[t]] = t
            /\ request' = [request EXCEPT
                    !.pc = "touch", !.batch = {},
                    !.acks = Accepted(valid) \cup Duplicates(valid),
                    !.touch = {KeyOf(lead[t]) : t \in Touched(valid)},
                    !.render = Touched(valid)]
    /\ UNCHANGED <<session, first, archive, acked, faults, prunes>>

Touch(k) ==
    /\ At("touch") /\ k \in request.touch
    /\ session' = Upserted(k)
    /\ first' = FirstRow(k)
    /\ request' = [request EXCEPT !.touch = @ \ {k}]
    /\ UNCHANGED <<ledger, archive, acked, faults, prunes>>

TouchedAll ==
    /\ At("touch") /\ request.touch = {}
    /\ request' = [request EXCEPT !.pc = "render"]
    /\ UNCHANGED <<store, archive, acked, faults, prunes>>

-----------------------------------------------------------------------------
(* _materialize *)

\* _drop_superseded: a block whose id the adapter made up gives way to one of
\* the provider's with the same content.
Superseded(b, S) ==
    b[1] \notin Provider /\ \E p \in S : p[1] \in Provider /\ p[2] = b[2]

Rendered(candidates, S) ==
    {b \in candidates : b[1] \notin Telemetry /\ ~Superseded(b, S)}

Shown(t) == {b \in On(t, Blocks) : note[b] > 0}

\* Seeded fault: every ledger is taken for complete.
IsNeverPruned(t) == FALSE

\* Only the oldest session row is asked whether the ledger was pruned.
IsPruned(t) == \E o \in first[t] : session[<<t, o>>].pruned

\* Seeded fault: the manual part is not carried over.
AppendOverManual(t, S) ==
    /\ note' = [b \in Blocks |-> IF b \in S THEN note[b] + 1 ELSE note[b]]
    /\ manual' = manual \ {t}
    /\ UNCHANGED written

\* append_to_note: the unseen blocks go behind what the note has.
AppendNote(t, S) ==
    /\ note' = [b \in Blocks |-> IF b \in S THEN note[b] + 1 ELSE note[b]]
    /\ UNCHANGED <<written, manual>>

\* Seeded fault: the blocks are added to those the note has.
RewriteByAppending(t, S, keepsManual) ==
    /\ note' = [b \in Blocks |-> IF b \in S THEN note[b] + 1 ELSE note[b]]
    /\ written' = written \cup {t}
    /\ manual' = IF keepsManual THEN manual ELSE manual \ {t}

\* render_note: the note is what the ledger says now.
RewriteNote(t, S, keepsManual) ==
    /\ note' = [b \in Blocks |->
                    IF ThreadOf[b[1]] # t THEN note[b] ELSE IF b \in S THEN 1 ELSE 0]
    /\ written' = written \cup {t}
    /\ manual' = IF keepsManual THEN manual ELSE manual \ {t}

\* What _materialize does to the note of t; `readable` is FALSE when reading
\* the old note raised an OSError, `final` stands for extra_frontmatter.
Materialized(t, readable, final) ==
    LET evs == On(t, ledger)
        hasNote == t \in written /\ readable
        unseen == {b \in evs : b[1] \notin Ids(Shown(t))}
    IN
    IF evs = {} THEN UNCHANGED archive
    ELSE IF hasNote /\ IsPruned(t)
    THEN IF Rendered(unseen, evs) = {}
         THEN UNCHANGED archive
         ELSE AppendNote(t, Rendered(unseen, evs))
    ELSE IF hasNote /\ ~final /\ unseen = {}
    THEN UNCHANGED archive
    ELSE RewriteNote(t, Rendered(evs, evs), hasNote)

\* One note of the request.  An exception is logged and swallowed.
Materialize(t) ==
    /\ At("render") /\ t \in request.render
    /\ \/ Materialized(t, TRUE, request.final) /\ UNCHANGED faults
       \/ Fault("write_fails") /\ UNCHANGED archive
       \/ t \in written /\ Fault("unreadable") /\ Materialized(t, FALSE, request.final)
    /\ request' = [request EXCEPT !.render = @ \ {t}]
    /\ UNCHANGED <<store, acked, prunes>>

MaterializedAll ==
    /\ At("render") /\ request.render = {}
    /\ request' = [request EXCEPT
            !.pc = IF request.ends = {} THEN "respond" ELSE "mark"]
    /\ UNCHANGED <<store, archive, acked, faults, prunes>>

\* mark_session_ended; the note is then rendered once more.
MarkEnded ==
    /\ At("mark")
    /\ session' = [k \in Keys |-> IF k \in request.ends
                                  THEN [session[k] EXCEPT !.ended = TRUE] ELSE session[k]]
    /\ request' = [request EXCEPT !.pc = "render", !.ends = {}, !.final = TRUE,
                                  !.render = {k[1] : k \in request.ends}]
    /\ UNCHANGED <<ledger, first, archive, acked, faults, prunes>>

Respond ==
    /\ At("respond")
    /\ acked' = acked \cup request.acks
    /\ request' = Idle
    /\ UNCHANGED <<store, archive, faults, prunes>>

Crash ==
    /\ ~At("idle")
    /\ Fault("crash")
    /\ request' = Idle
    /\ UNCHANGED <<store, archive, acked, prunes>>

-----------------------------------------------------------------------------
(* Retention, and the note's user *)

\* store.prune: `stale` are the ended sessions untouched for retention_days.
\* The events of their threads go; each of these rows is marked pruned.
Prune(stale) ==
    /\ At("idle") /\ prunes < MaxPrunes
    /\ stale # {} /\ \A k \in stale : session[k].known /\ session[k].ended
    /\ prunes' = prunes + 1
    /\ ledger' = {b \in ledger : \A k \in stale : ThreadOf[b[1]] # k[1]}
    /\ session' = [k \in Keys |-> IF k \in stale
                                  THEN [session[k] EXCEPT !.pruned = TRUE] ELSE session[k]]
    /\ UNCHANGED <<first, archive, request, acked, faults>>

WriteManual(t) ==
    /\ At("idle") /\ t \in written \ manual
    /\ manual' = manual \cup {t}
    /\ UNCHANGED <<store, note, written, request, acked, faults, prunes>>

ServeRequest ==
    \/ Insert
    \/ \E k \in Keys : Touch(k)
    \/ TouchedAll
    \/ \E t \in Threads : Materialize(t)
    \/ MaterializedAll \/ MarkEnded \/ Respond

Next ==
    \/ \E batch \in SUBSET Submissions :
        \/ IngestBatch(batch)
        \/ \E k \in Keys, ended \in BOOLEAN : Snapshot(batch, k, ended)
    \/ \E t \in Threads, o \in Owners : SessionEnd(t, o)
    \/ ServeRequest
    \/ Crash
    \/ \E stale \in SUBSET Keys : Prune(stale)
    \/ \E t \in Threads : WriteManual(t)

Spec == Init /\ [][Next]_vars

\* The server serves the request it has, and a client sends what it was not
\* told is stored until it is (module Drain).
FairSpec ==
    /\ Spec
    /\ WF_vars(ServeRequest)
    /\ \A b \in Submissions : SF_vars(b \notin acked /\ IngestBatch({b}))

-----------------------------------------------------------------------------
(* Properties *)

\* A provider's copy of the message b, if b's own id was made up.
Covered(b, S) == Superseded(b, On(ThreadOf[b[1]], S))

\* What a client was told is stored can be found: in the ledger or the note,
\* itself or as the provider's copy of the same message (insert_events
\* acknowledges, prune deletes, _drop_superseded hides).
AckedIsKept ==
    LET kept == ledger \cup {b \in Blocks : note[b] > 0} IN
    \A b \in acked : b[1] \in Telemetry \/ b \in kept \/ Covered(b, kept)

\* The note shows an event at most once, however often it was sent, across
\* crashes between the ledger and the note and across retention.
EventShownOnce ==
    \A e \in Events :
        /\ \A c \in Contents : note[<<e, c>>] <= 1
        /\ Cardinality({c \in Contents : note[<<e, c>>] > 0}) <= 1

\* A message captured twice, by the hook and from the transcript, is shown
\* once: never a made-up id beside the provider's copy.
CopyShownOnce ==
    \A t \in Threads : \A b \in Shown(t) : ~Superseded(b, Shown(t))

ShownOnce == EventShownOnce /\ CopyShownOnce

\* A block once shown stays: a note only grows, but for a block that gives
\* way to the provider's copy.
NoteIsNeverTruncated ==
    [][\A t \in Threads : \A b \in Shown(t) :
        b \in Shown(t)' \/ Superseded(b, Shown(t)')]_vars

\* Text the user wrote into a note survives every rendering.
ManualTextSurvives == [][manual \subseteq manual']_vars

\* A crash between the ledger and the note heals: what is stored is shown in
\* the end, since the client repeats what was not acknowledged and a
\* duplicate renders the note too.
NoteCatchesUp ==
    \A b \in Submissions \ (Telemetry \X Contents) :
        b \in ledger ~> (note[b] > 0 \/ Covered(b, Shown(ThreadOf[b[1]])))

-----------------------------------------------------------------------------
(* What makes these inductive (module IngestProofs) *)

Storable == {b \in Submissions : b[2] \notin Oversized}

\* What a note shows was stored, is rendered, and is there once.
NotesAreSound ==
    \A b \in Blocks : note[b] > 0 =>
        /\ note[b] = 1
        /\ b \in Storable /\ b[1] \notin Telemetry
        /\ ThreadOf[b[1]] \in written
        /\ \A c \in Blocks : note[c] > 0 /\ c[1] = b[1] => c = b

StoreIsSound ==
    /\ ledger \subseteq Storable
    /\ request.batch \subseteq Submissions /\ DistinctIds(request.batch)
    /\ request.acks \subseteq ledger
    /\ At("idle") \/ At("insert") => request.acks = {}

IngestInv == TypeOK /\ NotesAreSound /\ StoreIsSound

\* Without retention the ledger is complete.
LedgerIsWhole ==
    /\ \A k \in Keys : ~session[k].pruned
    /\ \A b \in Blocks : note[b] > 0 => b \in ledger
    /\ acked \subseteq ledger

\* With retention, and one owner of all: a note shows what the ledger has lost
\* only where the oldest row says so.
PrunesAreMarked ==
    /\ \A k \in Keys : session[k].known => first[k[1]] # {}
    /\ \A t \in Threads : Shown(t) \subseteq ledger \/ IsPruned(t)

\* A block the note of its thread shows, or need not show.
Found(b) == b[1] \in Telemetry \/ note[b] > 0 \/ Superseded(b, Shown(ThreadOf[b[1]]))

\* What is acknowledged has been rendered; what is about to be, is rendered
\* before the answer goes out.
AcksAreRendered ==
    /\ \A b \in acked : Found(b)
    /\ \A b \in request.acks :
          \/ Found(b)
          \/ (At("touch") \/ At("render")) /\ ThreadOf[b[1]] \in request.render

=============================================================================

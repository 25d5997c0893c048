---------------------------- MODULE IngestProofs ----------------------------
(***************************************************************************)
(* What holds of the ledger and the notes of Ingest for every set of       *)
(* events, threads and owners, with any number of requests, faults and     *)
(* retention runs.                                                         *)
(*                                                                         *)
(* IngestInv says what a note shows was stored, once, and that a request   *)
(* acknowledges only what the ledger has.  LedgerIsWhole adds what holds   *)
(* without retention.  With retention, PrunesAreMarked says that a note    *)
(* shows more than the ledger has only where the oldest session row tells, *)
(* and AcksAreRendered that nothing is acknowledged before it is shown.    *)
(***************************************************************************)
EXTENDS Ingest, FiniteSetTheorems, TLAPS

-----------------------------------------------------------------------------
(* The session rows *)

\* What upsert_session leaves of the rows: the pruned mark and the order.
LEMMA UpsertKeeps ==
    ASSUME TypeOK, NEW k \in Keys
    PROVE  /\ Upserted(k) \in [Keys -> SessionRow]
           /\ FirstRow(k) \in [Threads -> SUBSET Owners]
           /\ \A j \in Keys : /\ Upserted(k)[j].pruned = session[j].pruned
                              /\ Upserted(k)[j].known => j = k \/ session[j].known
           /\ \A t \in Threads : first[t] # {} => FirstRow(k)[t] = first[t]
           /\ FirstRow(k)[k[1]] # {}
<1> DEFINE row == [[session[k] EXCEPT !.known = TRUE] EXCEPT !.ended = FALSE]
<1>1. k[1] \in Threads /\ k[2] \in Owners
    BY DEF Keys
<1>2. session[k] \in SessionRow
    BY DEF TypeOK
<1>3. row \in SessionRow /\ row.pruned = session[k].pruned
    BY <1>2 DEF SessionRow
<1>4. Upserted(k) = [session EXCEPT ![k] = row]
    BY DEF Upserted, TypeOK
<1>5. \A j \in Keys : Upserted(k)[j] = IF j = k THEN row ELSE session[j]
    BY <1>4 DEF TypeOK
<1>6. Upserted(k) \in [Keys -> SessionRow]
    BY <1>3, <1>4 DEF TypeOK
<1>7. FirstRow(k) \in [Threads -> SUBSET Owners]
    BY <1>1 DEF FirstRow, TypeOK
<1>8. \A t \in Threads : first[t] # {} => FirstRow(k)[t] = first[t]
    BY <1>1 DEF FirstRow, TypeOK
<1>9. FirstRow(k)[k[1]] # {}
    BY <1>1 DEF FirstRow, TypeOK
<1>10. \A j \in Keys : /\ Upserted(k)[j].pruned = session[j].pruned
                       /\ Upserted(k)[j].known => j = k \/ session[j].known
    <2> HIDE DEF row
    <2> TAKE j \in Keys
    <2>1. CASE j = k
        BY <2>1, <1>3, <1>5
    <2>2. CASE j # k
        <3>1. Upserted(k)[j] = session[j]
            BY <2>2, <1>5
        <3> QED BY <3>1
    <2> QED BY <2>1, <2>2
<1> QED BY <1>6, <1>7, <1>8, <1>9, <1>10

\* _resolve_session_thread finds a thread.
LEMMA ResolvedIsThread ==
    ASSUME NEW t \in Threads
    PROVE  Resolved(t) \in Threads
<1> DEFINE rows == {k \in Keys : session[k].known /\ k[1][1] = t[1]}
<1>1. Cardinality(rows) = 1 => rows # {}
    <2> HIDE DEF rows
    <2>1. Cardinality({}) = 0
        BY FS_EmptySet
    <2>2. rows = {} => Cardinality(rows) = 0
        BY <2>1
    <2> QED BY <2>2
<1>2. rows # {} => (CHOOSE k \in rows : TRUE) \in Keys
    OBVIOUS
<1>3. rows # {} => (CHOOSE k \in rows : TRUE)[1] \in Threads
    BY <1>2 DEF Keys
<1> QED BY <1>1, <1>3 DEF Resolved

LEMMA KeyOfIsKey ==
    ASSUME NEW e \in Events
    PROVE  KeyOf(e) \in Keys
BY IngestAssumption DEF KeyOf, Keys

\* A request at its start.
LEMMA IdleIsRequest == Idle \in Request
BY DEF Idle, Request

\* The rows stay pruned, or not, and the oldest row the oldest, except in
\* retention.
RowsStay ==
    /\ \A k \in Keys : session'[k].pruned = session[k].pruned
    /\ \A t \in Threads : first[t] # {} => first'[t] = first[t]

-----------------------------------------------------------------------------
(* The notes *)

LEMMA ShownIs ==
    ASSUME NEW t, NEW b
    PROVE  b \in Shown(t) <=> b \in Blocks /\ ThreadOf[b[1]] = t /\ note[b] > 0
BY DEF Shown, On

\* What _materialize may do to a note: nothing, append, or rewrite it.
MaterializedOutcome(t, readable) ==
    LET evs == On(t, ledger)
        unseen == {b \in evs : b[1] \notin Ids(Shown(t))}
    IN
    \/ Rendered(unseen, evs) = {} /\ UNCHANGED archive
    \/ t \in written /\ IsPruned(t) /\ AppendNote(t, Rendered(unseen, evs))
    \/ /\ ~(t \in written /\ readable /\ IsPruned(t))
       /\ RewriteNote(t, Rendered(evs, evs), t \in written /\ readable)

LEMMA MaterializedIsOutcome ==
    ASSUME NEW t, NEW readable \in BOOLEAN, NEW final, Materialized(t, readable, final)
    PROVE  MaterializedOutcome(t, readable)
BY DEF Materialized, MaterializedOutcome, Rendered

\* Only stored, rendered and unseen blocks come into a note, each once.
LEMMA MaterializedKeepsNotes ==
    ASSUME IngestInv, NEW t \in Threads, NEW readable \in BOOLEAN,
           MaterializedOutcome(t, readable)
    PROVE  /\ note' \in [Blocks -> Nat]
           /\ written' \subseteq Threads /\ manual' \subseteq written'
           /\ NotesAreSound'
<1> DEFINE evs == On(t, ledger)
           unseen == {b \in evs : b[1] \notin Ids(Shown(t))}
<1>1. evs \subseteq Storable /\ evs \subseteq Blocks /\ evs \subseteq ledger
      /\ \A b \in evs : ThreadOf[b[1]] = t
    BY DEF IngestInv, StoreIsSound, TypeOK, On
<1>2. DistinctIds(evs)
    BY <1>1 DEF IngestInv, TypeOK, DistinctIds
<1>3. CASE UNCHANGED archive
    BY <1>3 DEF archive, IngestInv, TypeOK, NotesAreSound
<1>4. CASE t \in written /\ AppendNote(t, Rendered(unseen, evs))
    <2> DEFINE new == Rendered(unseen, evs)
    <2>1. \A b \in new : b \in evs /\ b[1] \notin Telemetry /\ b[1] \notin Ids(Shown(t))
        BY DEF Rendered
    <2>2. note' = [b \in Blocks |-> IF b \in new THEN note[b] + 1 ELSE note[b]]
          /\ written' = written /\ manual' = manual
        BY <1>4 DEF AppendNote
    <2> HIDE DEF new
    <2>3. note' \in [Blocks -> Nat]
        BY <2>2 DEF IngestInv, TypeOK
    <2>4. ASSUME NEW b \in new, NEW c \in Blocks, c[1] = b[1]
          PROVE  note[c] = 0
        <3>1. ThreadOf[c[1]] = t
            BY <2>1, <1>1, <2>4
        <3>2. c[1] \notin Ids(Shown(t))
            BY <2>1, <2>4
        <3>3. c \notin Shown(t)
            BY <3>2 DEF Ids
        <3>4. ~(note[c] > 0)
            BY <3>1, <3>3, ShownIs
        <3> QED BY <3>4 DEF IngestInv, TypeOK
    <2>5. ASSUME NEW b \in Blocks, note'[b] > 0
          PROVE  /\ note'[b] = 1 /\ b \in Storable /\ b[1] \notin Telemetry
                 /\ ThreadOf[b[1]] \in written
                 /\ \A c \in Blocks : note'[c] > 0 /\ c[1] = b[1] => c = b
        <3>1. CASE b \in new
            <4>1. note'[b] = 1
                BY <2>2, <2>4, <3>1
            <4>2. ASSUME NEW c \in Blocks, note'[c] > 0, c[1] = b[1]
                  PROVE  c = b
                <5>1. c \in new
                    BY <2>2, <2>4, <3>1, <4>2
                <5> QED BY <5>1, <3>1, <2>1, <1>2, <4>2 DEF DistinctIds
            <4> QED BY <4>1, <4>2, <3>1, <2>1, <1>1, <1>4
        <3>2. CASE b \notin new
            <4>1. note'[b] = note[b]
                BY <2>2, <3>2
            <4>2. note[b] > 0
                BY <4>1, <2>5
            <4>3. ASSUME NEW c \in Blocks, note'[c] > 0, c[1] = b[1]
                  PROVE  c = b
                <5>1. c \notin new
                    BY <2>4, <4>2, <4>3
                <5>2. note[c] > 0
                    BY <5>1, <2>2, <4>3
                <5> QED BY <5>2, <4>2, <4>3 DEF IngestInv, NotesAreSound
            <4> QED BY <4>1, <4>2, <4>3 DEF IngestInv, NotesAreSound
        <3> QED BY <3>1, <3>2
    <2>6. NotesAreSound'
        BY <2>5, <2>2 DEF NotesAreSound, Storable
    <2> QED BY <2>2, <2>3, <2>6 DEF IngestInv, TypeOK
<1>5. CASE RewriteNote(t, Rendered(evs, evs), t \in written /\ readable)
    <2> DEFINE new == Rendered(evs, evs)
    <2>1. \A b \in new : b \in evs /\ b[1] \notin Telemetry
        BY DEF Rendered
    <2>2. note' = [b \in Blocks |->
                    IF ThreadOf[b[1]] # t THEN note[b] ELSE IF b \in new THEN 1 ELSE 0]
          /\ written' = written \cup {t} /\ manual' \subseteq manual
        BY <1>5 DEF RewriteNote
    <2> HIDE DEF new
    <2>3. note' \in [Blocks -> Nat]
        BY <2>2 DEF IngestInv, TypeOK
    <2>4. ASSUME NEW b \in Blocks, note'[b] > 0
          PROVE  /\ note'[b] = 1 /\ b \in Storable /\ b[1] \notin Telemetry
                 /\ ThreadOf[b[1]] \in written'
                 /\ \A c \in Blocks : note'[c] > 0 /\ c[1] = b[1] => c = b
        <3>1. CASE ThreadOf[b[1]] = t
            <4>1. b \in new /\ note'[b] = 1
                BY <2>2, <2>4, <3>1
            <4>2. ASSUME NEW c \in Blocks, note'[c] > 0, c[1] = b[1]
                  PROVE  c = b
                <5>1. c \in new
                    BY <2>2, <3>1, <4>2
                <5> QED BY <5>1, <4>1, <2>1, <1>2, <4>2 DEF DistinctIds
            <4> QED BY <4>1, <4>2, <3>1, <2>1, <2>2, <1>1
        <3>2. CASE ThreadOf[b[1]] # t
            <4>1. note'[b] = note[b]
                BY <2>2, <3>2
            <4>2. note[b] > 0
                BY <4>1, <2>4
            <4>3. ASSUME NEW c \in Blocks, note'[c] > 0, c[1] = b[1]
                  PROVE  c = b
                <5>1. note[c] > 0
                    BY <2>2, <3>2, <4>3
                <5> QED BY <5>1, <4>2, <4>3 DEF IngestInv, NotesAreSound
            <4> QED BY <4>1, <4>2, <4>3, <2>2 DEF IngestInv, NotesAreSound
        <3> QED BY <3>1, <3>2
    <2>5. NotesAreSound'
        BY <2>4 DEF NotesAreSound, Storable
    <2> QED BY <2>2, <2>3, <2>5 DEF IngestInv, TypeOK
<1> QED BY <1>3, <1>4, <1>5 DEF MaterializedOutcome

-----------------------------------------------------------------------------
(* IngestInv *)

\* A step that leaves the ledger and the notes alone.
LEMMA StoresStay ==
    ASSUME IngestInv, UNCHANGED <<ledger, archive>>,
           session' \in [Keys -> SessionRow], first' \in [Threads -> SUBSET Owners],
           acked' \subseteq Blocks, faults' \in 0 .. MaxFaults, prunes' \in 0 .. MaxPrunes,
           request' \in Request,
           request'.batch \subseteq Submissions, DistinctIds(request'.batch),
           request'.acks \subseteq ledger,
           request'.pc \in {"idle", "insert"} => request'.acks = {}
    PROVE  IngestInv'
<1>1. TypeOK'
    BY DEF IngestInv, TypeOK, archive
<1>2. NotesAreSound'
    BY DEF IngestInv, NotesAreSound, archive
<1>3. StoreIsSound'
    <2>1. DistinctIds(request.batch)'
        BY DEF DistinctIds
    <2> QED BY <2>1 DEF IngestInv, StoreIsSound, At
<1> QED BY <1>1, <1>2, <1>3 DEF IngestInv

LEMMA InitIngestInv == Init => IngestInv
<1> SUFFICES ASSUME Init PROVE IngestInv
    OBVIOUS
<1>1. TypeOK
    BY IdleIsRequest, IngestAssumption DEF Init, TypeOK, SessionRow, DistinctIds
<1>2. NotesAreSound
    BY DEF Init, NotesAreSound
<1>3. StoreIsSound
    BY DEF Init, StoreIsSound, Idle, DistinctIds
<1> QED BY <1>1, <1>2, <1>3 DEF IngestInv

\* A new request, with its batch and nothing acknowledged.
Begun(r, pc, batch) ==
    r \in Request /\ r.pc = pc /\ r.batch = batch /\ r.acks = {}

LEMMA NewRequest ==
    ASSUME NEW pc \in {"insert", "mark"}, NEW batch \in SUBSET Blocks, NEW ends \in SUBSET Keys
    PROVE  /\ Begun([Idle EXCEPT !.pc = pc, !.batch = batch], pc, batch)
           /\ Begun([Idle EXCEPT !.pc = pc, !.ends = ends], pc, {})
           /\ Begun([Idle EXCEPT !.pc = pc, !.batch = batch, !.ends = ends], pc, batch)
<1>1. Idle \in Request /\ Idle.batch = {} /\ Idle.acks = {}
    BY DEF Idle, Request
<1>2. Begun([Idle EXCEPT !.pc = pc, !.batch = batch], pc, batch)
    BY <1>1 DEF Begun, Request
<1>3. Begun([Idle EXCEPT !.pc = pc, !.ends = ends], pc, {})
    BY <1>1 DEF Begun, Request
<1>4. Begun([Idle EXCEPT !.pc = pc, !.batch = batch, !.ends = ends], pc, batch)
    BY <1>1 DEF Begun, Request
<1> QED BY <1>2, <1>3, <1>4

LEMMA BeginInv ==
    ASSUME IngestInv, NEW batch \in SUBSET Submissions,
           IngestBatch(batch) \/ \E k \in Keys, ended \in BOOLEAN : Snapshot(batch, k, ended)
    PROVE  IngestInv'
<1>1. batch \subseteq Blocks
    BY IngestAssumption
<1>2. CASE IngestBatch(batch)
    <2>1. {} \in SUBSET Keys
        OBVIOUS
    <2>2. Begun(request', "insert", batch)
        BY <1>1, <1>2, <2>1, NewRequest DEF IngestBatch
    <2> QED BY <2>2, <1>2, StoresStay DEF Begun, IngestBatch, store, IngestInv, TypeOK
<1>3. ASSUME NEW k \in Keys, NEW ended \in BOOLEAN, Snapshot(batch, k, ended)
      PROVE  IngestInv'
    <2> DEFINE ends == IF ended THEN {k} ELSE {}
    <2>1. request' = [Idle EXCEPT !.pc = "insert", !.batch = batch, !.ends = ends]
        BY <1>3 DEF Snapshot
    <2>2. ends \in SUBSET Keys
        OBVIOUS
    <2> HIDE DEF ends
    <2>3. Begun(request', "insert", batch)
        BY <1>1, <2>1, <2>2, NewRequest
    <2>4. session' \in [Keys -> SessionRow] /\ first' \in [Threads -> SUBSET Owners]
        BY <1>3, UpsertKeeps DEF Snapshot, IngestInv
    <2> QED BY <2>3, <2>4, <1>3, StoresStay DEF Begun, Snapshot, IngestInv, TypeOK
<1> QED BY <1>2, <1>3

LEMMA SessionEndInv ==
    ASSUME IngestInv, NEW t \in Threads, NEW o \in Owners, SessionEnd(t, o)
    PROVE  IngestInv'
<1> DEFINE k == <<Resolved(t), o>>
<1>1. k \in Keys
    BY ResolvedIsThread DEF Keys
<1>2. request' = [Idle EXCEPT !.pc = "mark", !.ends = {k}]
    BY DEF SessionEnd
<1>3. session' = Upserted(k) /\ first' = FirstRow(k)
    BY DEF SessionEnd
<1>4. UNCHANGED <<ledger, archive, acked, faults, prunes>>
    BY DEF SessionEnd
<1> HIDE DEF k
<1>5. Begun(request', "mark", {})
    <2>1. {k} \in SUBSET Keys /\ {} \in SUBSET Blocks
        BY <1>1
    <2> QED BY <2>1, <1>2, NewRequest
<1>6. session' \in [Keys -> SessionRow] /\ first' \in [Threads -> SUBSET Owners]
    BY <1>1, <1>3, UpsertKeeps DEF IngestInv
<1> QED BY <1>4, <1>5, <1>6, StoresStay DEF Begun, IngestInv, TypeOK, DistinctIds

\* What Insert makes of the request.
InsertedRequest(r) ==
    /\ r \in Request
    /\ r.pc = "touch" /\ r.batch = {}
    /\ r.render = {ThreadOf[b[1]] : b \in {c \in request.batch : c[2] \notin Oversized}}
    /\ r.acks = {b \in ledger' : b \in request.batch /\ b[2] \notin Oversized}

LEMMA InsertDoes ==
    ASSUME IngestInv, Insert
    PROVE  /\ InsertedRequest(request')
           /\ ledger \subseteq ledger' /\ ledger' \subseteq Storable
           /\ DistinctIds(ledger')
<1> DEFINE valid == {b \in request.batch : b[2] \notin Oversized}
<1>1. valid \subseteq Storable /\ valid \subseteq Blocks /\ DistinctIds(valid)
    BY IngestAssumption DEF IngestInv, StoreIsSound, Storable, DistinctIds
<1>2. ledger' = ledger \cup Accepted(valid)
    BY DEF Insert
<1>3. PICK lead \in [Touched(valid) -> Ids(valid)] :
        /\ \A t \in Touched(valid) : ThreadOf[lead[t]] = t
        /\ request' = [request EXCEPT
                !.pc = "touch", !.batch = {},
                !.acks = Accepted(valid) \cup Duplicates(valid),
                !.touch = {KeyOf(lead[t]) : t \in Touched(valid)},
                !.render = Touched(valid)]
    BY DEF Insert
<1>4. Accepted(valid) = {b \in valid : \A c \in ledger : c[1] # b[1]}
    BY DEF Accepted, Stored, Ids
<1>5. DistinctIds(ledger')
    BY <1>1, <1>2, <1>4 DEF IngestInv, TypeOK, DistinctIds
<1>6. Accepted(valid) \cup Duplicates(valid) = {b \in ledger' : b \in valid}
    BY <1>2, <1>4 DEF Duplicates
<1>7. Touched(valid) = {ThreadOf[b[1]] : b \in valid}
    BY DEF Touched, Ids
<1>8. Ids(valid) \subseteq Events
    BY <1>1 DEF Ids, Blocks
<1>9. {KeyOf(lead[t]) : t \in Touched(valid)} \subseteq Keys
    BY <1>8, KeyOfIsKey
<1>10. Touched(valid) \subseteq Threads
    BY <1>7, <1>1, IngestAssumption DEF Blocks
<1>11. Accepted(valid) \cup Duplicates(valid) \subseteq Blocks
    BY <1>6, <1>1
<1>12. request \in Request
    BY DEF IngestInv, TypeOK
<1> HIDE DEF valid
<1>13. /\ request' \in Request /\ request'.pc = "touch" /\ request'.batch = {}
       /\ request'.acks = Accepted(valid) \cup Duplicates(valid)
       /\ request'.render = Touched(valid)
    BY <1>3, <1>9, <1>10, <1>11, <1>12 DEF Request
<1>14. InsertedRequest(request')
    BY <1>6, <1>7, <1>13 DEF InsertedRequest, valid
<1>15. ledger \subseteq ledger' /\ ledger' \subseteq Storable
    BY <1>1, <1>2 DEF Accepted, IngestInv, StoreIsSound
<1> QED BY <1>5, <1>14, <1>15

LEMMA InsertInv == IngestInv /\ Insert => IngestInv'
<1> SUFFICES ASSUME IngestInv, Insert PROVE IngestInv'
    OBVIOUS
<1>1. /\ InsertedRequest(request')
      /\ ledger \subseteq ledger' /\ ledger' \subseteq Storable
      /\ DistinctIds(ledger')
    BY InsertDoes
<1>2. UNCHANGED <<session, first, archive, acked, faults, prunes>>
    BY DEF Insert
<1>3. TypeOK'
    <2>1. DistinctIds(ledger)' /\ ledger' \subseteq Blocks
        BY <1>1, IngestAssumption DEF DistinctIds, Storable
    <2> QED BY <2>1, <1>1, <1>2 DEF IngestInv, TypeOK, archive, InsertedRequest
<1>4. NotesAreSound'
    BY <1>2 DEF IngestInv, NotesAreSound, archive
<1>5. StoreIsSound'
    BY <1>1 DEF StoreIsSound, InsertedRequest, DistinctIds, At, Storable
<1> QED BY <1>3, <1>4, <1>5 DEF IngestInv

\* A step within a request that only advances it.
LEMMA AdvanceInv ==
    ASSUME IngestInv, UNCHANGED <<ledger, archive, acked, faults, prunes>>,
           session' \in [Keys -> SessionRow], first' \in [Threads -> SUBSET Owners],
           request' \in Request, request'.batch = request.batch,
           request'.acks = request.acks, request'.pc \notin {"idle", "insert"}
    PROVE  IngestInv'
BY StoresStay DEF IngestInv, StoreIsSound, TypeOK

LEMMA TouchInv ==
    ASSUME IngestInv, NEW k \in Keys, Touch(k)
    PROVE  IngestInv'
<1>1. request \in Request
    BY DEF IngestInv, TypeOK
<1>2. request' = [request EXCEPT !.touch = request.touch \ {k}] /\ request.pc = "touch"
    BY DEF Touch, At
<1>3. /\ request' \in Request /\ request'.batch = request.batch
      /\ request'.acks = request.acks /\ request'.pc = "touch"
    BY <1>1, <1>2 DEF Request
<1>4. session' \in [Keys -> SessionRow] /\ first' \in [Threads -> SUBSET Owners]
    BY UpsertKeeps DEF Touch, IngestInv
<1> QED BY <1>3, <1>4, AdvanceInv DEF Touch

LEMMA AllDoneInv == IngestInv /\ (TouchedAll \/ MaterializedAll) => IngestInv'
<1> SUFFICES ASSUME IngestInv, TouchedAll \/ MaterializedAll PROVE IngestInv'
    OBVIOUS
<1>1. request \in Request
    BY DEF IngestInv, TypeOK
<1>2. PICK pc \in {"render", "respond", "mark"} : request' = [request EXCEPT !.pc = pc]
    BY DEF TouchedAll, MaterializedAll
<1>3. /\ request' \in Request /\ request'.batch = request.batch
      /\ request'.acks = request.acks /\ request'.pc = pc
    BY <1>1, <1>2 DEF Request
<1>4. UNCHANGED <<store, archive, acked, faults, prunes>>
    BY DEF TouchedAll, MaterializedAll
<1> QED BY <1>3, <1>4, AdvanceInv DEF store, IngestInv, TypeOK

LEMMA MarkEndedInv == IngestInv /\ MarkEnded => IngestInv'
<1> SUFFICES ASSUME IngestInv, MarkEnded PROVE IngestInv'
    OBVIOUS
<1>1. request \in Request /\ request.ends \subseteq Keys
    BY DEF IngestInv, TypeOK, Request
<1>2. {k[1] : k \in request.ends} \subseteq Threads
    BY <1>1 DEF Keys
<1>3. request' = [request EXCEPT !.pc = "render", !.ends = {}, !.final = TRUE,
                                 !.render = {k[1] : k \in request.ends}]
    BY DEF MarkEnded
<1>4. /\ request' \in Request /\ request'.batch = request.batch
      /\ request'.acks = request.acks /\ request'.pc = "render"
    BY <1>1, <1>2, <1>3 DEF Request
<1>5. session' \in [Keys -> SessionRow]
    <2>1. \A k \in Keys : [session[k] EXCEPT !.ended = TRUE] \in SessionRow
        BY DEF IngestInv, TypeOK, SessionRow
    <2> QED BY <2>1 DEF MarkEnded, IngestInv, TypeOK
<1> QED BY <1>4, <1>5, AdvanceInv DEF MarkEnded, IngestInv, TypeOK

LEMMA RespondOrCrashInv == IngestInv /\ (Respond \/ Crash) => IngestInv'
<1> SUFFICES ASSUME IngestInv, Respond \/ Crash PROVE IngestInv'
    OBVIOUS
<1>1. request' = Idle /\ UNCHANGED <<ledger, session, first, archive, prunes>>
    BY DEF Respond, Crash, store
<1>2. acked' \subseteq Blocks
    BY DEF Respond, Crash, IngestInv, StoreIsSound, TypeOK
<1>3. faults' \in 0 .. MaxFaults
    BY IngestAssumption DEF Respond, Crash, Fault, IngestInv, TypeOK
<1>4. Idle.batch = {} /\ Idle.acks = {}
    BY DEF Idle
<1> QED BY <1>1, <1>2, <1>3, <1>4, IdleIsRequest, StoresStay
        DEF IngestInv, TypeOK, DistinctIds

LEMMA MaterializeDoes ==
    ASSUME IngestInv, NEW t \in Threads, Materialize(t)
    PROVE  /\ UNCHANGED <<store, acked, prunes>>
           /\ faults' \in 0 .. MaxFaults
           /\ request' \in Request
           /\ request'.render = request.render \ {t}
           /\ request'.pc = request.pc /\ request'.batch = request.batch
           /\ request'.acks = request.acks
           /\ request.pc = "render"
           /\ \/ "write_fails" \in Faults /\ UNCHANGED archive
              \/ \E readable \in BOOLEAN :
                    /\ readable \/ "unreadable" \in Faults
                    /\ MaterializedOutcome(t, readable)
<1>1. request \in Request
    BY DEF IngestInv, TypeOK
<1>2. request' = [request EXCEPT !.render = request.render \ {t}] /\ request.pc = "render"
    BY DEF Materialize, At
<1>3. /\ request' \in Request /\ request'.render = request.render \ {t}
      /\ request'.pc = request.pc /\ request'.batch = request.batch
      /\ request'.acks = request.acks
    BY <1>1, <1>2 DEF Request
<1>4. faults' \in 0 .. MaxFaults
    <2>1. faults' = faults \/ (faults < MaxFaults /\ faults' = faults + 1)
        BY DEF Materialize, Fault
    <2> QED BY <2>1, IngestAssumption DEF IngestInv, TypeOK
<1>5. \/ Materialized(t, TRUE, request.final)
      \/ "write_fails" \in Faults /\ UNCHANGED archive
      \/ "unreadable" \in Faults /\ Materialized(t, FALSE, request.final)
    BY DEF Materialize, Fault
<1>6. \/ "write_fails" \in Faults /\ UNCHANGED archive
      \/ \E readable \in BOOLEAN :
            /\ readable \/ "unreadable" \in Faults
            /\ MaterializedOutcome(t, readable)
    BY <1>5, MaterializedIsOutcome
<1>7. UNCHANGED <<store, acked, prunes>>
    BY DEF Materialize
<1> QED BY <1>2, <1>3, <1>4, <1>6, <1>7

LEMMA MaterializeInv ==
    ASSUME IngestInv, NEW t \in Threads, Materialize(t)
    PROVE  IngestInv'
<1>1. /\ note' \in [Blocks -> Nat]
      /\ written' \subseteq Threads /\ manual' \subseteq written'
      /\ NotesAreSound'
    <2>1. CASE UNCHANGED archive
        BY <2>1 DEF archive, IngestInv, TypeOK, NotesAreSound
    <2>2. ASSUME NEW readable \in BOOLEAN, MaterializedOutcome(t, readable)
          PROVE  /\ note' \in [Blocks -> Nat]
                 /\ written' \subseteq Threads /\ manual' \subseteq written'
                 /\ NotesAreSound'
        BY <2>2, MaterializedKeepsNotes
    <2> QED BY <2>1, <2>2, MaterializeDoes
<1>2. TypeOK'
    BY <1>1, MaterializeDoes DEF IngestInv, TypeOK, store, DistinctIds
<1>3. StoreIsSound'
    BY MaterializeDoes DEF IngestInv, StoreIsSound, store, At, DistinctIds
<1> QED BY <1>1, <1>2, <1>3 DEF IngestInv

LEMMA PruneInv ==
    ASSUME IngestInv, NEW stale \in SUBSET Keys, Prune(stale)
    PROVE  IngestInv'
<1>1. ledger' \subseteq ledger /\ UNCHANGED <<first, archive, request, acked, faults>>
    BY DEF Prune
<1>2. session' \in [Keys -> SessionRow]
    <2>1. \A k \in Keys : [session[k] EXCEPT !.pruned = TRUE] \in SessionRow
        BY DEF IngestInv, TypeOK, SessionRow
    <2> QED BY <2>1 DEF Prune, IngestInv, TypeOK
<1>3. prunes' \in 0 .. MaxPrunes
    BY IngestAssumption DEF Prune, IngestInv, TypeOK
<1>4. TypeOK'
    BY <1>1, <1>2, <1>3 DEF IngestInv, TypeOK, archive, DistinctIds
<1>5. NotesAreSound'
    BY <1>1 DEF IngestInv, NotesAreSound, archive
<1>6. StoreIsSound'
    BY <1>1 DEF IngestInv, StoreIsSound, Prune, At, DistinctIds
<1> QED BY <1>4, <1>5, <1>6 DEF IngestInv

LEMMA WriteManualInv ==
    ASSUME IngestInv, NEW t \in Threads, WriteManual(t)
    PROVE  IngestInv'
<1>1. TypeOK'
    BY DEF WriteManual, IngestInv, TypeOK, store, DistinctIds
<1>2. NotesAreSound'
    BY DEF WriteManual, IngestInv, NotesAreSound
<1>3. StoreIsSound'
    BY DEF WriteManual, IngestInv, StoreIsSound, store, At, DistinctIds
<1> QED BY <1>1, <1>2, <1>3 DEF IngestInv

LEMMA StepKeepsIngestInv == IngestInv /\ [Next]_vars => IngestInv'
<1> SUFFICES ASSUME IngestInv, [Next]_vars PROVE IngestInv'
    OBVIOUS
<1>1. CASE \E batch \in SUBSET Submissions :
              \/ IngestBatch(batch)
              \/ \E k \in Keys, ended \in BOOLEAN : Snapshot(batch, k, ended)
    BY <1>1, BeginInv
<1>2. CASE \E t \in Threads, o \in Owners : SessionEnd(t, o)
    BY <1>2, SessionEndInv
<1>3. CASE ServeRequest
    BY <1>3, InsertInv, TouchInv, AllDoneInv, MaterializeInv, MarkEndedInv,
       RespondOrCrashInv DEF ServeRequest
<1>4. CASE Crash
    BY <1>4, RespondOrCrashInv
<1>5. CASE \E stale \in SUBSET Keys : Prune(stale)
    BY <1>5, PruneInv
<1>6. CASE \E t \in Threads : WriteManual(t)
    BY <1>6, WriteManualInv
<1>7. CASE UNCHANGED vars
    <2>1. UNCHANGED <<ledger, session, first, note, written, manual, request, acked,
                      faults, prunes>>
        BY <1>7 DEF vars, store, archive
    <2> QED BY <2>1 DEF IngestInv, TypeOK, NotesAreSound, StoreIsSound, At, DistinctIds
<1> QED BY <1>1, <1>2, <1>3, <1>4, <1>5, <1>6, <1>7 DEF Next

\* Types, and what a note shows was stored, is rendered, and is there once.
THEOREM IngestInvariant == Spec => []IngestInv
<1>1. Init => IngestInv
    BY InitIngestInv
<1>2. IngestInv /\ [Next]_vars => IngestInv'
    BY StepKeepsIngestInv
<1> QED BY <1>1, <1>2, PTL DEF Spec

\* Whatever is sent, in whatever order, with any faults and any retention, a
\* note shows an event at most once and never two versions of one.
THEOREM EventsAreShownOnce == Spec => []EventShownOnce
<1>1. IngestInv => EventShownOnce
    <2> SUFFICES ASSUME IngestInv, NEW e \in Events
                 PROVE  /\ \A c \in Contents : note[<<e, c>>] <= 1
                        /\ Cardinality({c \in Contents : note[<<e, c>>] > 0}) <= 1
        BY DEF EventShownOnce
    <2> DEFINE shown == {c \in Contents : note[<<e, c>>] > 0}
    <2>1. ASSUME NEW c \in Contents
          PROVE  <<e, c>> \in Blocks /\ <<e, c>>[1] = e
        BY DEF Blocks
    <2>2. \A c \in Contents : note[<<e, c>>] <= 1
        <3> TAKE c \in Contents
        <3>1. note[<<e, c>>] \in Nat
            BY <2>1 DEF IngestInv, TypeOK
        <3>2. note[<<e, c>>] > 0 => note[<<e, c>>] = 1
            BY <2>1 DEF IngestInv, NotesAreSound
        <3> QED BY <3>1, <3>2
    <2>3. \A c, d \in shown : c = d
        <3> TAKE c, d \in shown
        <3>1. <<e, c>> = <<e, d>>
            BY <2>1 DEF IngestInv, NotesAreSound
        <3> QED BY <3>1
    <2> HIDE DEF shown
    <2>4. shown = {} \/ \E c : shown = {c}
        BY <2>3
    <2>5. Cardinality(shown) <= 1
        <3>1. CASE shown = {}
            <4>1. Cardinality(shown) = 0
                BY <3>1, FS_EmptySet
            <4> QED BY <4>1
        <3>2. ASSUME NEW c, shown = {c}
              PROVE  Cardinality(shown) <= 1
            <4>1. Cardinality({c}) = 1
                BY FS_Singleton
            <4>2. Cardinality(shown) = 1
                BY <3>2, <4>1
            <4> QED BY <4>2
        <3> QED BY <2>4, <3>1, <3>2
    <2> QED BY <2>2, <2>5 DEF shown
<1> QED BY <1>1, IngestInvariant, PTL

-----------------------------------------------------------------------------
(* What a rendering shows and hides *)

\* Only the ledger adds to a note.
LEMMA OnlyStoredIsAdded ==
    ASSUME IngestInv, NEW t, NEW readable, MaterializedOutcome(t, readable),
           NEW b \in Blocks, note'[b] > 0
    PROVE  note[b] > 0 \/ b \in ledger
<1> DEFINE evs == On(t, ledger)
           unseen == {c \in evs : c[1] \notin Ids(Shown(t))}
<1>1. \A S, R : Rendered(S, R) \subseteq S
    BY DEF Rendered
<1>2. Rendered(unseen, evs) \subseteq ledger /\ Rendered(evs, evs) \subseteq ledger
    BY <1>1 DEF On
<1>3. CASE UNCHANGED archive
    BY <1>3 DEF archive
<1>4. CASE AppendNote(t, Rendered(unseen, evs))
    BY <1>2, <1>4 DEF AppendNote
<1>5. CASE RewriteNote(t, Rendered(evs, evs), t \in written /\ readable)
    BY <1>2, <1>5 DEF RewriteNote
<1> QED BY <1>3, <1>4, <1>5 DEF MaterializedOutcome

\* A rewritten note shows what the ledger has of its thread, but for telemetry
\* and for what gives way to the provider's copy, which it shows.
LEMMA RewriteShows ==
    ASSUME IngestInv, NEW t,
           NEW keeps, RewriteNote(t, Rendered(On(t, ledger), On(t, ledger)), keeps),
           NEW b \in ledger, ThreadOf[b[1]] = t, b[1] \notin Telemetry
    PROVE  note'[b] > 0 \/ Superseded(b, Shown(t)')
<1> DEFINE evs == On(t, ledger)
           new == Rendered(evs, evs)
<1>1. evs \subseteq Submissions /\ evs \subseteq Blocks /\ b \in evs
      /\ \A p \in evs : ThreadOf[p[1]] = t
    BY DEF IngestInv, StoreIsSound, TypeOK, On, Storable
<1>2. \A p \in Blocks : ThreadOf[p[1]] = t /\ p \in new => note'[p] = 1
    BY DEF RewriteNote
<1>3. CASE b \in new
    BY <1>1, <1>2, <1>3
<1>4. CASE b \notin new
    <2>1. PICK p \in evs : b[1] \notin Provider /\ p[1] \in Provider /\ p[2] = b[2]
        BY <1>1, <1>4 DEF Rendered, Superseded
    <2>2. p[1] \notin Telemetry
        BY <1>1, <2>1, IngestAssumption
    <2>3. p \in new
        BY <2>1, <2>2 DEF Rendered, Superseded
    <2>4. p \in Shown(t)'
        BY <1>1, <1>2, <2>3 DEF Shown, On
    <2> QED BY <2>1, <2>4 DEF Superseded
<1> QED BY <1>3, <1>4

\* A note loses nothing but what gives way to the provider's copy, if what it
\* shows and the ledger lacks is guarded by the pruned mark.
LEMMA NothingIsCut ==
    ASSUME IngestInv, NEW t, NEW readable \in BOOLEAN, MaterializedOutcome(t, readable),
           Shown(t) \subseteq ledger \/ (IsPruned(t) /\ readable),
           NEW b \in Blocks, note[b] > 0
    PROVE  note'[b] > 0 \/ Superseded(b, Shown(ThreadOf[b[1]])')
<1> DEFINE evs == On(t, ledger)
           unseen == {c \in evs : c[1] \notin Ids(Shown(t))}
<1>0. note[b] \in Nat
    BY DEF IngestInv, TypeOK
<1>1. CASE UNCHANGED archive
    BY <1>1 DEF archive
<1>2. CASE AppendNote(t, Rendered(unseen, evs))
    BY <1>0, <1>2 DEF AppendNote
<1>3. CASE /\ ~(t \in written /\ readable /\ IsPruned(t))
           /\ RewriteNote(t, Rendered(evs, evs), t \in written /\ readable)
    <2>1. CASE ThreadOf[b[1]] # t
        BY <1>3, <2>1 DEF RewriteNote
    <2>2. CASE ThreadOf[b[1]] = t
        <3>1. b \in Shown(t)
            BY <2>2, ShownIs
        <3>2. t \in written /\ b[1] \notin Telemetry
            BY <2>2 DEF IngestInv, NotesAreSound
        <3>3. b \in ledger
            BY <3>1, <3>2, <1>3
        <3> QED BY <1>3, <2>2, <3>2, <3>3, RewriteShows
    <2> QED BY <2>1, <2>2
<1> QED BY <1>1, <1>2, <1>3 DEF MaterializedOutcome

-----------------------------------------------------------------------------
(* Without retention *)

\* An upserted row is not pruned unless it was.
LEMMA RowsAreNotPruned ==
    ASSUME TypeOK, NEW k \in Keys, session' = Upserted(k),
           \A j \in Keys : ~session[j].pruned
    PROVE  \A j \in Keys : ~session'[j].pruned
BY UpsertKeeps

LEMMA StepKeepsLedgerWhole ==
    MaxPrunes = 0 /\ IngestInv /\ LedgerIsWhole /\ [Next]_vars => LedgerIsWhole'
<1> SUFFICES ASSUME MaxPrunes = 0, IngestInv, LedgerIsWhole, [Next]_vars
             PROVE  LedgerIsWhole'
    OBVIOUS
<1>0. TypeOK
    BY DEF IngestInv
<1>1. ASSUME UNCHANGED <<ledger, archive, acked>>,
             session' = session \/ \E k \in Keys : session' = Upserted(k)
      PROVE  LedgerIsWhole'
    BY <1>0, <1>1, RowsAreNotPruned DEF LedgerIsWhole, archive
<1>2. ASSUME NEW batch \in SUBSET Submissions,
             \/ IngestBatch(batch)
             \/ \E k \in Keys, ended \in BOOLEAN : Snapshot(batch, k, ended)
      PROVE  LedgerIsWhole'
    BY <1>1, <1>2 DEF IngestBatch, Snapshot, store
<1>3. ASSUME NEW t \in Threads, NEW o \in Owners, SessionEnd(t, o)
      PROVE  LedgerIsWhole'
    <2>1. <<Resolved(t), o>> \in Keys
        BY ResolvedIsThread DEF Keys
    <2> QED BY <1>1, <1>3, <2>1 DEF SessionEnd
<1>4. CASE Insert
    BY <1>4, InsertDoes DEF Insert, LedgerIsWhole, archive
<1>5. ASSUME NEW k \in Keys, Touch(k)
      PROVE  LedgerIsWhole'
    BY <1>1, <1>5 DEF Touch
<1>6. CASE TouchedAll \/ MaterializedAll
    BY <1>1, <1>6 DEF TouchedAll, MaterializedAll, store
<1>7. ASSUME NEW t \in Threads, Materialize(t)
      PROVE  LedgerIsWhole'
    <2>1. ASSUME NEW b \in Blocks, note'[b] > 0
          PROVE  b \in ledger
        BY <1>7, <2>1, MaterializeDoes, OnlyStoredIsAdded DEF LedgerIsWhole, archive
    <2> QED BY <1>7, <2>1, MaterializeDoes DEF LedgerIsWhole, store
<1>8. CASE MarkEnded
    <2>1. \A k \in Keys : ~session'[k].pruned
        <3> TAKE k \in Keys
        <3>1. session[k] \in SessionRow /\ ~session[k].pruned
            BY <1>0 DEF TypeOK, LedgerIsWhole
        <3>2. ~[session[k] EXCEPT !.ended = TRUE].pruned
            BY <3>1 DEF SessionRow
        <3> QED BY <1>8, <3>1, <3>2 DEF MarkEnded
    <2> QED BY <1>8, <2>1 DEF MarkEnded, LedgerIsWhole, archive
<1>9. CASE Respond
    BY <1>9 DEF Respond, LedgerIsWhole, IngestInv, StoreIsSound, store, archive
<1>10. CASE Crash
    BY <1>1, <1>10 DEF Crash, store
<1>11. ASSUME NEW stale, Prune(stale)
       PROVE  FALSE
    BY <1>0, <1>11 DEF Prune, TypeOK
<1>12. ASSUME NEW t \in Threads, WriteManual(t)
       PROVE  LedgerIsWhole'
    BY <1>12 DEF WriteManual, LedgerIsWhole, store
<1>13. CASE UNCHANGED vars
    BY <1>1, <1>13 DEF vars, store
<1> QED BY <1>2, <1>3, <1>4, <1>5, <1>6, <1>7, <1>8, <1>9, <1>10, <1>11, <1>12, <1>13
        DEF Next, ServeRequest

\* Without retention a note is rewritten from a complete ledger.
LEMMA StepKeepsCopiesOnce ==
    IngestInv /\ LedgerIsWhole /\ CopyShownOnce /\ [Next]_vars => CopyShownOnce'
<1> SUFFICES ASSUME IngestInv, LedgerIsWhole, CopyShownOnce, [Next]_vars,
                    NEW u \in Threads, NEW b \in Shown(u)',
                    NEW p \in Shown(u)', b[1] \notin Provider, p[1] \in Provider, p[2] = b[2]
             PROVE  FALSE
    BY DEF CopyShownOnce, Superseded
<1>1. CASE UNCHANGED note
    <2>1. b \in Shown(u) /\ p \in Shown(u)
        BY <1>1 DEF Shown
    <2> QED BY <2>1 DEF CopyShownOnce, Superseded
<1>2. ASSUME NEW t \in Threads, Materialize(t), ~UNCHANGED note
      PROVE  FALSE
    <2> DEFINE evs == On(t, ledger)
    <2>1. ~IsPruned(t)
        BY DEF LedgerIsWhole, IsPruned, Keys, IngestInv, TypeOK
    <2>2. PICK keeps : RewriteNote(t, Rendered(evs, evs), keeps)
        BY <1>2, <2>1, MaterializeDoes DEF MaterializedOutcome, archive
    <2>3. CASE u = t
        <3>1. b \in Rendered(evs, evs) /\ p \in Rendered(evs, evs)
            BY <2>2, <2>3 DEF RewriteNote, Shown, On
        <3> QED BY <3>1 DEF Rendered, Superseded
    <2>4. CASE u # t
        <3>1. b \in Shown(u) /\ p \in Shown(u)
            BY <2>2, <2>4 DEF RewriteNote, Shown, On
        <3> QED BY <3>1 DEF CopyShownOnce, Superseded
    <2> QED BY <2>3, <2>4
<1> QED BY <1>1, <1>2 DEF Next, ServeRequest, vars, archive, IngestBatch, Snapshot, SessionEnd,
        Insert, Touch, TouchedAll, MaterializedAll, MarkEnded, Respond, Crash, Prune, WriteManual

THEOREM LedgerStaysWhole ==
    ASSUME MaxPrunes = 0
    PROVE  Spec => [](IngestInv /\ LedgerIsWhole /\ CopyShownOnce)
<1>1. Init => LedgerIsWhole /\ CopyShownOnce
    BY DEF Init, LedgerIsWhole, CopyShownOnce, Shown, On
<1>2. /\ IngestInv /\ LedgerIsWhole /\ CopyShownOnce
      /\ [Next]_vars
      => IngestInv' /\ LedgerIsWhole' /\ CopyShownOnce'
    BY StepKeepsIngestInv, StepKeepsLedgerWhole, StepKeepsCopiesOnce
<1> QED BY <1>1, <1>2, InitIngestInv, PTL DEF Spec

\* Where nothing is retired, a message captured twice, with the hook's id and
\* with the provider's, is shown once, and no event twice, whatever fails.
THEOREM MessagesAreShownOnce ==
    ASSUME MaxPrunes = 0
    PROVE  Spec => []ShownOnce
<1>1. EventShownOnce /\ CopyShownOnce => ShownOnce
    BY DEF ShownOnce
<1> QED BY <1>1, LedgerStaysWhole, EventsAreShownOnce, PTL

-----------------------------------------------------------------------------
(* The user's text *)

LEMMA StepKeepsManualText ==
    "unreadable" \notin Faults /\ IngestInv /\ [Next]_vars => manual \subseteq manual'
<1> SUFFICES ASSUME "unreadable" \notin Faults, IngestInv, [Next]_vars
             PROVE  manual \subseteq manual'
    OBVIOUS
<1>1. ASSUME NEW t \in Threads, Materialize(t)
      PROVE  manual \subseteq manual'
    <2>1. manual \subseteq written
        BY DEF IngestInv, TypeOK
    <2>2. UNCHANGED archive \/ MaterializedOutcome(t, TRUE)
        BY <1>1, MaterializeDoes
    <2> QED BY <2>1, <2>2 DEF MaterializedOutcome, archive, AppendNote, RewriteNote
<1>2. CASE UNCHANGED manual
    BY <1>2
<1> QED BY <1>1, <1>2 DEF Next, ServeRequest, vars, archive, IngestBatch, Snapshot, SessionEnd,
        Insert, Touch, TouchedAll, MaterializedAll, MarkEnded, Respond, Crash, Prune, WriteManual

\* As long as every note can be read, no rendering drops what its user wrote,
\* whatever else fails and whatever is retired.
THEOREM UserTextIsKept ==
    ASSUME "unreadable" \notin Faults
    PROVE  Spec => ManualTextSurvives
<1>1. IngestInv /\ [Next]_vars => [manual \subseteq manual']_vars
    BY StepKeepsManualText
<1> QED BY <1>1, IngestInvariant, PTL DEF Spec, ManualTextSurvives

-----------------------------------------------------------------------------
(* With retention *)

\* One owner of all: then a thread has one session row, and it is the oldest.
OneRowPerThread == \A o, p \in Owners : o = p

LEMMA UpsertKeepsMarks ==
    ASSUME TypeOK, PrunesAreMarked, NEW k \in Keys,
           session' = Upserted(k), first' = FirstRow(k)
    PROVE  /\ \A j \in Keys : session'[j].known => first'[j[1]] # {}
           /\ \A t \in Threads : IsPruned(t) => IsPruned(t)'
<1>1. \A j \in Keys : j[1] \in Threads
    BY DEF Keys
<1>2. \A j \in Keys : session'[j].known => first'[j[1]] # {}
    BY <1>1, UpsertKeeps DEF PrunesAreMarked
<1>3. ASSUME NEW t \in Threads, IsPruned(t)
      PROVE  IsPruned(t)'
    <2>1. PICK o \in first[t] : session[<<t, o>>].pruned
        BY <1>3 DEF IsPruned
    <2>2. o \in Owners
        BY <2>1 DEF TypeOK
    <2>3. <<t, o>> \in Keys
        BY <2>2 DEF Keys
    <2>4. session'[<<t, o>>].pruned /\ first'[t] = first[t]
        BY <2>1, <2>3, UpsertKeeps
    <2> QED BY <2>1, <2>4 DEF IsPruned
<1> QED BY <1>2, <1>3

\* The mark goes with the events: what leaves the ledger leaves its mark.
LEMMA PruneMarks ==
    ASSUME OneRowPerThread, IngestInv, PrunesAreMarked, NEW stale \in SUBSET Keys, Prune(stale)
    PROVE  PrunesAreMarked'
<1>0. TypeOK
    BY DEF IngestInv
<1>1. first' = first /\ UNCHANGED archive
    BY DEF Prune
<1>2. ASSUME NEW k \in Keys
      PROVE  /\ session'[k].known = session[k].known
             /\ session[k].pruned => session'[k].pruned
             /\ k \in stale => session'[k].pruned
    <2>1. session[k] \in SessionRow
        BY <1>0 DEF TypeOK
    <2>2. /\ [session[k] EXCEPT !.pruned = TRUE].known = session[k].known
          /\ [session[k] EXCEPT !.pruned = TRUE].pruned
        BY <2>1 DEF SessionRow
    <2>3. session'[k] = IF k \in stale THEN [session[k] EXCEPT !.pruned = TRUE]
                                       ELSE session[k]
        BY DEF Prune
    <2> QED BY <2>2, <2>3
<1>3. \A k \in Keys : session'[k].known => first'[k[1]] # {}
    BY <1>1, <1>2 DEF PrunesAreMarked
<1>4. ASSUME NEW t \in Threads
      PROVE  Shown(t)' \subseteq ledger' \/ IsPruned(t)'
    <2>1. Shown(t)' = Shown(t)
        BY <1>1 DEF Shown, archive
    <2>2. CASE IsPruned(t)
        <3>1. PICK o \in first[t] : session[<<t, o>>].pruned
            BY <2>2 DEF IsPruned
        <3>2. o \in Owners
            BY <3>1, <1>0 DEF TypeOK
        <3>3. <<t, o>> \in Keys
            BY <3>2 DEF Keys
        <3> QED BY <3>1, <3>3, <1>1, <1>2 DEF IsPruned
    <2>3. CASE \E k \in stale : k[1] = t
        <3>1. PICK k \in stale : k[1] = t
            BY <2>3
        <3>2. k \in Keys /\ k[2] \in Owners /\ session[k].known /\ k = <<t, k[2]>>
            BY <3>1 DEF Prune, Keys
        <3>3. first[t] # {} /\ first[t] \subseteq Owners
            BY <3>1, <3>2, <1>0 DEF PrunesAreMarked, TypeOK
        <3>4. k[2] \in first[t]
            BY <3>2, <3>3 DEF OneRowPerThread
        <3>5. session'[<<t, k[2]>>].pruned
            BY <3>1, <3>2, <1>2
        <3> QED BY <3>4, <3>5, <1>1 DEF IsPruned
    <2>4. CASE Shown(t) \subseteq ledger /\ \A k \in stale : k[1] # t
        <3>1. \A b \in Shown(t) : ThreadOf[b[1]] = t
            BY ShownIs
        <3> QED BY <2>1, <2>4, <3>1 DEF Prune
    <2> QED BY <2>2, <2>3, <2>4 DEF PrunesAreMarked
<1> QED BY <1>3, <1>4 DEF PrunesAreMarked

LEMMA StepKeepsMarks ==
    OneRowPerThread /\ IngestInv /\ PrunesAreMarked /\ [Next]_vars => PrunesAreMarked'
<1> SUFFICES ASSUME OneRowPerThread, IngestInv, PrunesAreMarked, [Next]_vars
             PROVE  PrunesAreMarked'
    OBVIOUS
<1>0. TypeOK
    BY DEF IngestInv
<1>1. ASSUME \A t \in Threads : Shown(t)' \subseteq Shown(t) \cup ledger', ledger \subseteq ledger',
             \/ UNCHANGED <<session, first>>
             \/ \E k \in Keys : session' = Upserted(k) /\ first' = FirstRow(k)
      PROVE  PrunesAreMarked'
    <2>1. /\ \A k \in Keys : session'[k].known => first'[k[1]] # {}
          /\ \A t \in Threads : IsPruned(t) => IsPruned(t)'
        <3>1. CASE UNCHANGED <<session, first>>
            BY <3>1 DEF PrunesAreMarked, IsPruned
        <3> QED BY <3>1, <1>0, <1>1, UpsertKeepsMarks
    <2> QED BY <1>1, <2>1 DEF PrunesAreMarked
<1>2. ASSUME UNCHANGED note
      PROVE  \A t \in Threads : Shown(t)' = Shown(t)
    BY <1>2 DEF Shown
<1>3. ASSUME NEW batch \in SUBSET Submissions,
             \/ IngestBatch(batch)
             \/ \E k \in Keys, ended \in BOOLEAN : Snapshot(batch, k, ended)
      PROVE  PrunesAreMarked'
    BY <1>1, <1>2, <1>3 DEF IngestBatch, Snapshot, store, archive
<1>4. ASSUME NEW t \in Threads, NEW o \in Owners, SessionEnd(t, o)
      PROVE  PrunesAreMarked'
    <2>1. <<Resolved(t), o>> \in Keys
        BY ResolvedIsThread DEF Keys
    <2> QED BY <1>1, <1>2, <1>4, <2>1 DEF SessionEnd, archive
<1>5. CASE Insert
    BY <1>1, <1>2, <1>5, InsertDoes DEF Insert, archive
<1>6. ASSUME NEW k \in Keys, Touch(k)
      PROVE  PrunesAreMarked'
    BY <1>1, <1>2, <1>6 DEF Touch, archive
<1>7. CASE TouchedAll \/ MaterializedAll \/ Respond \/ Crash
    BY <1>1, <1>2, <1>7 DEF TouchedAll, MaterializedAll, Respond, Crash, store, archive
<1>8. ASSUME NEW t \in Threads, Materialize(t)
      PROVE  PrunesAreMarked'
    <2>1. ASSUME NEW u \in Threads, NEW b \in Shown(u)'
          PROVE  b \in Shown(u) \cup ledger
        <3>1. b \in Blocks /\ ThreadOf[b[1]] = u /\ note'[b] > 0
            BY <2>1 DEF Shown, On
        <3>2. note[b] > 0 \/ b \in ledger
            BY <1>8, <3>1, MaterializeDoes, OnlyStoredIsAdded DEF archive
        <3> QED BY <3>1, <3>2, ShownIs
    <2> QED BY <1>1, <1>8, <2>1, MaterializeDoes DEF store
<1>9. CASE MarkEnded
    <2>1. ASSUME NEW k \in Keys
          PROVE  session'[k].known = session[k].known /\ session'[k].pruned = session[k].pruned
        <3>1. session[k] \in SessionRow
            BY <1>0 DEF TypeOK
        <3>2. /\ [session[k] EXCEPT !.ended = TRUE].known = session[k].known
              /\ [session[k] EXCEPT !.ended = TRUE].pruned = session[k].pruned
            BY <3>1 DEF SessionRow
        <3>3. session'[k] = IF k \in request.ends THEN [session[k] EXCEPT !.ended = TRUE]
                                                  ELSE session[k]
            BY <1>9 DEF MarkEnded
        <3> QED BY <3>2, <3>3
    <2>2. UNCHANGED <<ledger, first, note>>
        BY <1>9 DEF MarkEnded, archive
    <2>3. ASSUME NEW t \in Threads
          PROVE  IsPruned(t)' = IsPruned(t)
        <3>1. \A o \in first[t] : <<t, o>> \in Keys
            BY <1>0 DEF TypeOK, Keys
        <3> QED BY <2>1, <2>2, <3>1 DEF IsPruned
    <2> QED BY <1>2, <2>1, <2>2, <2>3 DEF PrunesAreMarked
<1>10. ASSUME NEW stale \in SUBSET Keys, Prune(stale)
       PROVE  PrunesAreMarked'
    BY <1>10, PruneMarks
<1>11. ASSUME NEW t \in Threads, WriteManual(t)
       PROVE  PrunesAreMarked'
    BY <1>1, <1>2, <1>11 DEF WriteManual, store
<1>12. CASE UNCHANGED vars
    BY <1>1, <1>2, <1>12 DEF vars, store, archive
<1> QED BY <1>3, <1>4, <1>5, <1>6, <1>7, <1>8, <1>9, <1>10, <1>11, <1>12
        DEF Next, ServeRequest

THEOREM PrunesStayMarked ==
    ASSUME OneRowPerThread
    PROVE  Spec => [](IngestInv /\ PrunesAreMarked)
<1>1. Init => PrunesAreMarked
    BY DEF Init, PrunesAreMarked, Shown, On
<1>2. IngestInv /\ PrunesAreMarked /\ [Next]_vars => IngestInv' /\ PrunesAreMarked'
    BY StepKeepsIngestInv, StepKeepsMarks
<1> QED BY <1>1, <1>2, InitIngestInv, PTL DEF Spec

\* A block leaves a note only for the provider's copy.
LEMMA StepCutsNothing ==
    ASSUME IngestInv, [Next]_vars,
           \A t \in Threads :
              Shown(t) \subseteq ledger \/ (IsPruned(t) /\ "unreadable" \notin Faults),
           NEW b \in Blocks, note[b] > 0
    PROVE  note'[b] > 0 \/ Superseded(b, Shown(ThreadOf[b[1]])')
<1>1. CASE UNCHANGED note
    BY <1>1
<1>2. ASSUME NEW t \in Threads, Materialize(t)
      PROVE  note'[b] > 0 \/ Superseded(b, Shown(ThreadOf[b[1]])')
    BY <1>2, MaterializeDoes, NothingIsCut DEF archive
<1> QED BY <1>1, <1>2 DEF Next, ServeRequest, vars, archive, IngestBatch, Snapshot, SessionEnd,
        Insert, Touch, TouchedAll, MaterializedAll, MarkEnded, Respond, Crash, Prune, WriteManual

LEMMA StepNeverTruncates ==
    ASSUME IngestInv, [Next]_vars,
           \A t \in Threads :
              Shown(t) \subseteq ledger \/ (IsPruned(t) /\ "unreadable" \notin Faults)
    PROVE  \A t \in Threads : \A b \in Shown(t) :
              b \in Shown(t)' \/ Superseded(b, Shown(t)')
<1> TAKE t \in Threads
<1> TAKE b \in Shown(t)
<1>1. b \in Blocks /\ ThreadOf[b[1]] = t /\ note[b] > 0
    BY ShownIs
<1>2. note'[b] > 0 \/ Superseded(b, Shown(t)')
    BY <1>1, StepCutsNothing
<1>3. note'[b] > 0 => b \in Shown(t)'
    BY <1>1 DEF Shown, On
<1> QED BY <1>2, <1>3

\* A note only grows, but for the made-up copies that give way: always where
\* nothing is retired; and with retention, where a thread has one session row
\* and its note can be read.
THEOREM NotesAreNeverTruncated ==
    ASSUME MaxPrunes = 0 \/ (OneRowPerThread /\ "unreadable" \notin Faults)
    PROVE  Spec => NoteIsNeverTruncated
<1> DEFINE A == \A t \in Threads : \A b \in Shown(t) :
                    b \in Shown(t)' \/ Superseded(b, Shown(t)')
<1>1. CASE MaxPrunes = 0
    <2>1. IngestInv /\ LedgerIsWhole /\ [Next]_vars => [A]_vars
        BY StepNeverTruncates DEF LedgerIsWhole, Shown, On
    <2>2. Spec => [](IngestInv /\ LedgerIsWhole /\ CopyShownOnce)
        BY <1>1, LedgerStaysWhole
    <2> QED BY <2>1, <2>2, PTL DEF Spec, NoteIsNeverTruncated
<1>2. CASE OneRowPerThread /\ "unreadable" \notin Faults
    <2>1. IngestInv /\ PrunesAreMarked /\ [Next]_vars => [A]_vars
        BY <1>2, StepNeverTruncates DEF PrunesAreMarked
    <2>2. Spec => [](IngestInv /\ PrunesAreMarked)
        BY <1>2, PrunesStayMarked
    <2> QED BY <2>1, <2>2, PTL DEF Spec, NoteIsNeverTruncated
<1> QED BY <1>1, <1>2

-----------------------------------------------------------------------------
(* What is acknowledged *)

\* A client never sends one event in two versions that could both be stored.
OneVersionPerEvent == \A b, c \in Storable : b[1] = c[1] => b = c

\* What is found stays found when nothing is cut.
LEMMA FoundStays ==
    ASSUME \A b \in Blocks : note[b] > 0 =>
              note'[b] > 0 \/ Superseded(b, Shown(ThreadOf[b[1]])'),
           NEW b \in Blocks, Found(b)
    PROVE  Found(b)'
<1>1. CASE note[b] > 0
    BY <1>1 DEF Found
<1>2. CASE Superseded(b, Shown(ThreadOf[b[1]]))
    <2>1. PICK p \in Shown(ThreadOf[b[1]]) :
            b[1] \notin Provider /\ p[1] \in Provider /\ p[2] = b[2]
        BY <1>2 DEF Superseded
    <2>2. p \in Blocks /\ ThreadOf[p[1]] = ThreadOf[b[1]] /\ note[p] > 0
        BY ShownIs
    <2>3. note'[p] > 0
        BY <2>1, <2>2 DEF Superseded
    <2>4. p \in Shown(ThreadOf[b[1]])'
        BY <2>2, <2>3 DEF Shown, On
    <2> QED BY <2>1, <2>4 DEF Found, Superseded
<1> QED BY <1>1, <1>2 DEF Found

\* A rendering shows all that the ledger has of the thread.
LEMMA RenderingShows ==
    ASSUME OneVersionPerEvent, IngestInv, NEW t \in Threads, MaterializedOutcome(t, TRUE),
           NEW b \in ledger, ThreadOf[b[1]] = t
    PROVE  Found(b)'
<1> DEFINE evs == On(t, ledger)
           unseen == {c \in evs : c[1] \notin Ids(Shown(t))}
<1>1. CASE b[1] \in Telemetry
    BY <1>1 DEF Found
<1>2. CASE b[1] \notin Telemetry /\ RewriteNote(t, Rendered(evs, evs), t \in written)
    BY <1>2, RewriteShows DEF Found
<1>3. ASSUME b[1] \notin Telemetry,
             \A c \in Blocks : note[c] > 0 => note'[c] > 0,
             \A c \in Rendered(unseen, evs) : note'[c] > 0
      PROVE  Found(b)'
    <2>1. evs \subseteq Storable /\ evs \subseteq Blocks /\ b \in evs
          /\ \A p \in evs : ThreadOf[p[1]] = t
        BY DEF IngestInv, StoreIsSound, TypeOK, On
    <2>2. ASSUME NEW c \in evs, c \notin unseen
          PROVE  note'[c] > 0
        <3>1. PICK d \in Shown(t) : d[1] = c[1]
            BY <2>2 DEF Ids
        <3>2. d \in Blocks /\ note[d] > 0
            BY ShownIs
        <3>3. d = c
            BY <3>1, <3>2, <2>1 DEF OneVersionPerEvent, IngestInv, NotesAreSound
        <3> QED BY <3>2, <3>3, <1>3
    <2>3. CASE \E p \in evs : b[1] \notin Provider /\ p[1] \in Provider /\ p[2] = b[2]
        <3>1. PICK p \in evs : b[1] \notin Provider /\ p[1] \in Provider /\ p[2] = b[2]
            BY <2>3
        <3>2. p[1] \notin Telemetry
            BY <1>3, <2>1, <3>1, IngestAssumption DEF Storable
        <3>3. p \in unseen => p \in Rendered(unseen, evs)
            BY <3>1, <3>2 DEF Rendered, Superseded
        <3>4. note'[p] > 0
            BY <2>2, <3>3, <1>3
        <3>5. p \in Shown(t)'
            BY <2>1, <3>4 DEF Shown, On
        <3> QED BY <3>1, <3>5 DEF Found, Superseded
    <2>4. CASE ~\E p \in evs : b[1] \notin Provider /\ p[1] \in Provider /\ p[2] = b[2]
        <3>1. b \in unseen => b \in Rendered(unseen, evs)
            BY <1>3, <2>4 DEF Rendered, Superseded
        <3>2. note'[b] > 0
            BY <2>1, <2>2, <3>1, <1>3
        <3> QED BY <3>2 DEF Found
    <2> QED BY <2>3, <2>4
<1>4. CASE b[1] \notin Telemetry /\ Rendered(unseen, evs) = {} /\ UNCHANGED archive
    BY <1>3, <1>4 DEF archive
<1>5. CASE b[1] \notin Telemetry /\ AppendNote(t, Rendered(unseen, evs))
    <2> DEFINE new == Rendered(unseen, evs)
    <2>1. note' = [c \in Blocks |-> IF c \in new THEN note[c] + 1 ELSE note[c]]
        BY <1>5 DEF AppendNote
    <2>2. new \subseteq Blocks
        BY DEF Rendered, On, IngestInv, TypeOK
    <2>3. \A c \in Blocks : note[c] \in Nat
        BY DEF IngestInv, TypeOK
    <2> HIDE DEF new
    <2>4. /\ \A c \in Blocks : note[c] > 0 => note'[c] > 0
          /\ \A c \in new : note'[c] > 0
        BY <2>1, <2>2, <2>3
    <2> QED BY <1>3, <1>5, <2>4 DEF new
<1> QED BY <1>1, <1>2, <1>4, <1>5 DEF MaterializedOutcome

LEMMA StepKeepsAcks ==
    /\ OneRowPerThread /\ OneVersionPerEvent /\ Faults \subseteq {"crash"}
    /\ IngestInv /\ PrunesAreMarked /\ AcksAreRendered /\ [Next]_vars
    => AcksAreRendered'
<1> SUFFICES ASSUME OneRowPerThread, OneVersionPerEvent, Faults \subseteq {"crash"},
                    IngestInv, PrunesAreMarked, AcksAreRendered, [Next]_vars
             PROVE  AcksAreRendered'
    OBVIOUS
<1>0. acked \subseteq Blocks /\ request.acks \subseteq Blocks /\ request.acks \subseteq ledger
      /\ ledger \subseteq Blocks
    BY DEF IngestInv, TypeOK, StoreIsSound
<1>1. "unreadable" \notin Faults /\ "write_fails" \notin Faults
    OBVIOUS
<1>2. \A b \in Blocks : Found(b) => Found(b)'
    <2>1. \A b \in Blocks : note[b] > 0 =>
              note'[b] > 0 \/ Superseded(b, Shown(ThreadOf[b[1]])')
        BY <1>1, StepCutsNothing DEF PrunesAreMarked
    <2> QED BY <2>1, FoundStays
<1>3. \A b \in acked : Found(b)'
    BY <1>0, <1>2 DEF AcksAreRendered
<1>4. ASSUME acked' = acked, request'.acks = {}
      PROVE  AcksAreRendered'
    BY <1>3, <1>4 DEF AcksAreRendered
<1>5. ASSUME acked' = acked, request'.acks = request.acks,
             \A b \in request.acks :
                Found(b) \/ ((At("touch") \/ At("render")) /\ ThreadOf[b[1]] \in request.render)
                => \/ Found(b)'
                   \/ /\ request'.pc \in {"touch", "render"}
                      /\ ThreadOf[b[1]] \in request'.render
      PROVE  AcksAreRendered'
    BY <1>3, <1>5 DEF AcksAreRendered, At
<1>6. request \in Request
    BY DEF IngestInv, TypeOK
<1>7. ASSUME NEW batch \in SUBSET Submissions,
             \/ IngestBatch(batch)
             \/ \E k \in Keys, ended \in BOOLEAN : Snapshot(batch, k, ended)
      PROVE  AcksAreRendered'
    <2>1. request'.acks = {}
        BY <1>7 DEF IngestBatch, Snapshot, Idle
    <2> QED BY <1>4, <1>7, <2>1 DEF IngestBatch, Snapshot
<1>8. ASSUME NEW t \in Threads, NEW o \in Owners, SessionEnd(t, o)
      PROVE  AcksAreRendered'
    <2>1. request'.acks = {} /\ acked' = acked
        BY <1>8 DEF SessionEnd, Idle
    <2> QED BY <1>4, <2>1
<1>9. CASE Insert
    <2>1. InsertedRequest(request') /\ acked' = acked
        BY <1>9, InsertDoes DEF Insert
    <2>2. \A b \in request'.acks : ThreadOf[b[1]] \in request'.render
        BY <2>1 DEF InsertedRequest
    <2> QED BY <1>3, <2>1, <2>2 DEF AcksAreRendered, InsertedRequest, At
<1>10. ASSUME NEW k \in Keys, Touch(k)
       PROVE  AcksAreRendered'
    <2>1. /\ request'.acks = request.acks /\ request'.pc = request.pc
          /\ request'.render = request.render /\ acked' = acked
        BY <1>6, <1>10 DEF Touch, Request
    <2> QED BY <1>0, <1>2, <1>5, <2>1 DEF At
<1>11. CASE TouchedAll
    <2>1. /\ request'.acks = request.acks /\ request'.pc = "render"
          /\ request'.render = request.render /\ acked' = acked
        BY <1>6, <1>11 DEF TouchedAll, Request
    <2> QED BY <1>0, <1>2, <1>5, <2>1
<1>12. ASSUME NEW t \in Threads, Materialize(t)
       PROVE  AcksAreRendered'
    <2>1. /\ request'.acks = request.acks /\ request'.pc = "render"
          /\ request'.render = request.render \ {t} /\ acked' = acked
          /\ MaterializedOutcome(t, TRUE)
        BY <1>1, <1>12, MaterializeDoes
    <2>2. \A b \in request.acks : ThreadOf[b[1]] = t => Found(b)'
        BY <1>0, <2>1, RenderingShows
    <2> QED BY <1>0, <1>2, <1>5, <2>1, <2>2
<1>13. CASE MaterializedAll
    <2>1. request'.acks = request.acks /\ acked' = acked /\ request.render = {}
        BY <1>6, <1>13 DEF MaterializedAll, Request
    <2> QED BY <1>0, <1>2, <1>5, <2>1
<1>14. CASE MarkEnded
    <2>1. request'.acks = request.acks /\ acked' = acked /\ request.pc = "mark"
        BY <1>6, <1>14 DEF MarkEnded, Request, At
    <2> QED BY <1>0, <1>2, <1>5, <2>1 DEF At
<1>15. CASE Respond
    <2>1. acked' = acked \cup request.acks /\ request' = Idle /\ request.pc = "respond"
        BY <1>15 DEF Respond, At
    <2>2. \A b \in request.acks : Found(b)
        BY <2>1 DEF AcksAreRendered, At
    <2>3. Idle.acks = {}
        BY DEF Idle
    <2> QED BY <1>0, <1>2, <1>3, <2>1, <2>2, <2>3 DEF AcksAreRendered
<1>16. CASE Crash
    <2>1. request'.acks = {} /\ acked' = acked
        BY <1>16 DEF Crash, Idle
    <2> QED BY <1>4, <2>1
<1>17. CASE (\E stale \in SUBSET Keys : Prune(stale)) \/ (\E t \in Threads : WriteManual(t))
    <2>1. acked' = acked /\ request' = request
        BY <1>17 DEF Prune, WriteManual
    <2> QED BY <1>0, <1>2, <1>5, <2>1 DEF At
<1>18. CASE UNCHANGED vars
    <2>1. acked' = acked /\ request' = request
        BY <1>18 DEF vars
    <2> QED BY <1>0, <1>2, <1>5, <2>1 DEF At
<1> QED BY <1>7, <1>8, <1>9, <1>10, <1>11, <1>12, <1>13, <1>14, <1>15, <1>16, <1>17, <1>18
        DEF Next, ServeRequest

\* What a client was told is stored can be found ever after, whatever crashes:
\* where nothing is retired, whatever else fails; and with retention, where a
\* thread has one session row, notes can be read and written, and no event is
\* sent in two versions.
THEOREM AcknowledgedIsKept ==
    ASSUME \/ MaxPrunes = 0
           \/ OneRowPerThread /\ OneVersionPerEvent /\ Faults \subseteq {"crash"}
    PROVE  Spec => []AckedIsKept
<1>1. CASE MaxPrunes = 0
    <2>1. LedgerIsWhole => AckedIsKept
        BY DEF LedgerIsWhole, AckedIsKept
    <2> QED BY <1>1, <2>1, LedgerStaysWhole, PTL
<1>2. CASE OneRowPerThread /\ OneVersionPerEvent /\ Faults \subseteq {"crash"}
    <2>1. Init => AcksAreRendered
        BY DEF Init, AcksAreRendered, Idle
    <2>2. IngestInv /\ PrunesAreMarked /\ AcksAreRendered /\ [Next]_vars => AcksAreRendered'
        BY <1>2, StepKeepsAcks
    <2>3. IngestInv /\ AcksAreRendered => AckedIsKept
        <3> SUFFICES ASSUME IngestInv, AcksAreRendered, NEW b \in acked
                     PROVE  LET kept == ledger \cup {c \in Blocks : note[c] > 0}
                            IN  b[1] \in Telemetry \/ b \in kept \/ Covered(b, kept)
            BY DEF AckedIsKept
        <3> DEFINE kept == ledger \cup {c \in Blocks : note[c] > 0}
        <3>1. b \in Blocks /\ Found(b)
            BY DEF IngestInv, TypeOK, AcksAreRendered
        <3>2. Shown(ThreadOf[b[1]]) \subseteq On(ThreadOf[b[1]], kept)
            BY DEF Shown, On
        <3>3. Superseded(b, Shown(ThreadOf[b[1]])) => Covered(b, kept)
            BY <3>2 DEF Superseded, Covered
        <3> QED BY <3>1, <3>3 DEF Found
    <2>4. Spec => [](IngestInv /\ PrunesAreMarked)
        BY <1>2, PrunesStayMarked
    <2> QED BY <2>1, <2>2, <2>3, <2>4, PTL DEF Spec
<1> QED BY <1>1, <1>2

=============================================================================

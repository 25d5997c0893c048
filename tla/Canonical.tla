----------------------------- MODULE Canonical -----------------------------
(***************************************************************************)
(* The review of duplicates: which source records belong to one canonical  *)
(* conversation, who decides it and what recall makes of it                *)
(* (conversations/identity_store.py, duplicates.py, cli.py, pipeline.py,   *)
(* index.py, retrieval.py).                                                *)
(*                                                                         *)
(* Each reviewer is a `dedup-resolve` process; one process imports, one    *)
(* rebuilds the index.  Python's sqlite3 opens a transaction at the first  *)
(* write, so a SELECT in front of it sees whatever is committed by then:   *)
(* a review is a series of reads, and one transaction that writes.         *)
(*                                                                         *)
(* A pair's evidence does not change here.  Scores, notes of reviewers,    *)
(* and the number of equal rows in dedup_decisions are left out, and so is *)
(* link_sources_to_canonical, which nothing calls.                         *)
(***************************************************************************)
EXTENDS Naturals, FiniteSets, FiniteSetsExt

CONSTANTS
    Sources,    \* one branch of a provider's conversation, or all of one
    Ids,        \* canonical ids
    Homes,      \* which id may be derived for the new record of each source
    Kinds,      \* candidate types
    Evidence,   \* pair -> the kinds the detector finds
    Reviewers,
    NoId,       \* no canonical id
    MaxReviews, \* bound on the reviews begun
    MaxEvents   \* bound on continued exports, files indexed and processes that die

Pairs == kSubset(2, Sources)
Candidates == {c \in [pair : Pairs, kind : Kinds] : c.kind \in Evidence[c.pair]}
Verdicts == {"confirmed_same", "rejected"}

ASSUME CanonicalAssumption ==
    /\ Homes \subseteq [Sources -> Ids]
    /\ NoId \notin Ids
    /\ MaxReviews \in Nat /\ MaxEvents \in Nat
    /\ Evidence \in [Pairs -> SUBSET Kinds]

VARIABLES
    home,      \* source -> the id derived for its new record, one for all branches
    record,    \* source -> canonical_conversation_id of its record, NoId: no record
    rows,      \* the ids with a row in canonical_conversations
    into,      \* id -> merged_into_id, and the alias written with it; NoId: active
    candidate, \* candidate -> its status
    decided,   \* dedup_decisions
    note,      \* source -> the id in its note's front matter
    indexed,   \* source -> the id of its documents and sections in the index
    importer,  \* the import under way
    review,    \* reviewer -> the review under way
    settled,   \* sources whose record got its canonical row (history)
    joined,    \* pairs confirmed by a review no other commit fell into (history)
    reviews, events

identity == <<home, record, rows, into, settled>>
queue == <<candidate, decided, joined>>
bounds == <<reviews, events>>
vars == <<identity, queue, note, indexed, importer, review, bounds>>

AnId == Ids \cup {NoId}
IdleImport == [pc |-> "idle"]
IdleReview == [pc |-> "idle"]

Init ==
    /\ home \in Homes
    /\ record = [s \in Sources |-> NoId]
    /\ rows = {} /\ into = [i \in Ids |-> NoId] /\ settled = {}
    /\ candidate = [c \in Candidates |-> "none"] /\ decided = {} /\ joined = {}
    /\ note = [s \in Sources |-> NoId]
    /\ indexed = [s \in Sources |-> NoId]
    /\ importer = IdleImport
    /\ review = [r \in Reviewers |-> IdleReview]
    /\ reviews = 0 /\ events = 0

-----------------------------------------------------------------------------
(* An import.  The note is written first, then the record, the row of its  *)
(* canonical conversation, and the candidates, each in its transaction.    *)

\* A source without a record is new.
WriteNew(s) ==
    /\ importer.pc = "idle"
    /\ record[s] = NoId
    /\ note' = [note EXCEPT ![s] = home[s]]
    /\ importer' = [pc |-> "noted", source |-> s]
    /\ UNCHANGED <<identity, queue, indexed, review, bounds>>

\* A continued source carries the id read with its record into its note.
DecideContinued(s) ==
    /\ importer.pc = "idle"
    /\ record[s] # NoId
    /\ importer' = [pc |-> "continued", source |-> s, id |-> record[s]]
    /\ events < MaxEvents /\ events' = events + 1
    /\ UNCHANGED <<identity, queue, note, indexed, review, reviews>>

WriteContinued ==
    /\ importer.pc = "continued"
    /\ note' = [note EXCEPT ![importer.source] = importer.id]
    /\ importer' = IdleImport
    /\ UNCHANGED <<identity, queue, indexed, review, bounds>>

CreateRecord ==
    /\ importer.pc = "noted"
    /\ record' = [record EXCEPT ![importer.source] = home[importer.source]]
    /\ importer' = [importer EXCEPT !.pc = "recorded"]
    /\ UNCHANGED <<home, rows, into, settled, queue, note, indexed, review, bounds>>

\* A row that exists, even one merged away, stays as it is.
EnsureCanonical ==
    /\ importer.pc = "recorded"
    /\ rows' = rows \cup {home[importer.source]}
    /\ settled' = settled \cup {importer.source}
    /\ importer' = [importer EXCEPT !.pc = "ensured"]
    /\ UNCHANGED <<home, record, into, queue, note, indexed, review, bounds>>

IsDecided(pair) == \E c \in Candidates : c.pair = pair /\ candidate[c] \in Verdicts

\* The proposals of a new record: not with its group, not a decided pair.
Proposals(s) ==
    {c \in Candidates :
        /\ \E t \in Sources : /\ c.pair = {s, t}
                              /\ record[t] \notin {NoId, record[s]}
        /\ ~IsDecided(c.pair)}

Waiting(s, proposals) ==
    IF proposals = {} THEN IdleImport
    ELSE [pc |-> "detected", source |-> s, proposals |-> proposals]

Detect ==
    /\ importer.pc = "ensured"
    /\ importer' = Waiting(importer.source, Proposals(importer.source))
    /\ UNCHANGED <<identity, queue, note, indexed, review, bounds>>

\* One transaction each; a candidate that exists keeps its status.
Upsert(c) ==
    /\ importer.pc = "detected"
    /\ c \in importer.proposals
    /\ candidate' = IF candidate[c] = "none" THEN [candidate EXCEPT ![c] = "pending"]
                    ELSE candidate
    /\ importer' = Waiting(importer.source, importer.proposals \ {c})
    /\ UNCHANGED <<identity, decided, joined, note, indexed, review, bounds>>

\* A failed write, or the end of the process.
ImportDies ==
    /\ importer.pc # "idle"
    /\ importer' = IdleImport
    /\ events < MaxEvents /\ events' = events + 1
    /\ UNCHANGED <<identity, queue, note, indexed, review, reviews>>

\* index_file prefers the front matter; a rebuild does it for every note.
IndexFile(s) ==
    /\ note[s] # NoId
    /\ indexed' = [indexed EXCEPT ![s] = note[s]]
    /\ events < MaxEvents /\ events' = events + 1
    /\ UNCHANGED <<identity, queue, note, importer, review, reviews>>

-----------------------------------------------------------------------------
(* dedup-resolve.                                                          *)

\* --reject reads the status in a connection of its own.
ReadToReject(r, c) ==
    /\ review[r].pc = "idle"
    /\ candidate[c] = "pending"
    /\ review' = [review EXCEPT ![r] = [pc |-> "reject", candidate |-> c]]
    /\ reviews < MaxReviews /\ reviews' = reviews + 1
    /\ UNCHANGED <<identity, queue, note, indexed, importer, events>>

WriteRejected(r) ==
    LET c == review[r].candidate IN
    /\ review[r].pc = "reject"
    /\ candidate' = [candidate EXCEPT ![c] = "rejected"]
    /\ decided' = decided \cup {<<c.pair, "rejected">>}
    /\ review' = [review EXCEPT ![r] = IdleReview]
    /\ UNCHANGED <<identity, joined, note, indexed, importer, bounds>>

\* --confirm-same reads the candidate and both records, here at one moment.
ReadToConfirm(r, c, winner, loser) ==
    /\ review[r].pc = "idle"
    /\ candidate[c] \in {"pending", "confirmed_same"}
    /\ c.pair = {winner, loser} /\ winner # loser
    /\ record[winner] # NoId /\ record[loser] # NoId
    /\ review' = [review EXCEPT ![r] =
           [pc |-> "winner", candidate |-> c, status |-> candidate[c],
            at |-> record[winner], seen |-> {}, to |-> NoId,
            loser |-> record[loser], overtaken |-> FALSE]]
    /\ reviews < MaxReviews /\ reviews' = reviews + 1
    /\ UNCHANGED <<identity, queue, note, indexed, importer, events>>

Resolving(r) == review[r].pc \in {"winner", "loser"}

\* One row of _resolve_canonical_in_conn: it is merged, and leads on.
FollowMerged(r) ==
    LET i == review[r].at IN
    /\ Resolving(r)
    /\ i \in rows /\ i \notin review[r].seen /\ into[i] # NoId
    /\ review' = [review EXCEPT ![r].at = into[i], ![r].seen = @ \cup {i}]
    /\ UNCHANGED <<identity, queue, note, indexed, importer, bounds>>

\* A missing row counts as an active one.
ResolvedMissing(r) ==
    LET i == review[r].at IN
    /\ review[r].pc = "winner"
    /\ i \notin review[r].seen /\ into[i] = NoId
    /\ review' = [review EXCEPT ![r].pc = "loser", ![r].to = i,
                      ![r].at = review[r].loser, ![r].seen = {}]
    /\ UNCHANGED <<identity, queue, note, indexed, importer, bounds>>

ResolvedWinner(r) ==
    LET i == review[r].at IN
    /\ review[r].pc = "winner"
    /\ i \in rows /\ i \notin review[r].seen /\ into[i] = NoId
    /\ review' = [review EXCEPT ![r].pc = "loser", ![r].to = i,
                      ![r].at = review[r].loser, ![r].seen = {}]
    /\ UNCHANGED <<identity, queue, note, indexed, importer, bounds>>

ResolvedLoser(r) ==
    LET i == review[r].at IN
    /\ review[r].pc = "loser"
    /\ i \in rows /\ i \notin review[r].seen /\ into[i] = NoId
    /\ review' = [review EXCEPT ![r].pc = "write"]
    /\ UNCHANGED <<identity, queue, note, indexed, importer, bounds>>

\* No row, or a circle: the assertion that both ids resolve fails.
Unresolved(r) ==
    /\ Resolving(r)
    /\ review[r].at \notin rows \/ review[r].at \in review[r].seen
    /\ review' = [review EXCEPT ![r] = IdleReview]
    /\ UNCHANGED <<identity, queue, note, indexed, importer, bounds>>

\* Only the record the loser began with is moved.
LinkFirst(from, to) ==
    IF from = to THEN UNCHANGED <<record, into>>
    ELSE /\ into' = [into EXCEPT ![from] = to]
         /\ record' = [s \in Sources |->
                IF record[s] = from /\ home[s] = from THEN to ELSE record[s]]

\* The row and the alias of the loser, and every record that carries its id.
Link(from, to) ==
    IF from = to THEN UNCHANGED <<record, into>>
    ELSE /\ into' = [into EXCEPT ![from] = to]
         /\ record' = [s \in Sources |-> IF record[s] = from THEN to ELSE record[s]]

RowExists(to) == to \in rows

\* The post-conditions of confirm_candidate_link, on what the transaction sees.
StaysActive(to) == to \in rows /\ into[to] = NoId

\* The transaction of --confirm-same.
WriteConfirmed(r) ==
    LET c == review[r].candidate IN
    /\ review[r].pc = "write"
    /\ StaysActive(review[r].to)
    /\ IF review[r].status = "pending"
       THEN /\ candidate' = [candidate EXCEPT ![c] = "confirmed_same"]
            /\ decided' = decided \cup {<<c.pair, "confirmed_same">>}
       ELSE UNCHANGED <<candidate, decided>>
    /\ Link(review[r].at, review[r].to)
    /\ joined' = IF review[r].overtaken THEN joined ELSE joined \cup {c.pair}
    /\ review' = [q \in Reviewers |->
           IF q = r THEN [pc |-> "refresh", pair |-> c.pair, to |-> review[r].to]
           ELSE IF Resolving(q) \/ review[q].pc = "write"
           THEN [review[q] EXCEPT !.overtaken = TRUE]
           ELSE review[q]]
    /\ UNCHANGED <<home, rows, settled, note, indexed, importer, bounds>>

\* The winner was merged away in the meantime: everything is rolled back.
RollBack(r) ==
    /\ review[r].pc = "write"
    /\ ~StaysActive(review[r].to)
    /\ review' = [review EXCEPT ![r] = IdleReview]
    /\ UNCHANGED <<identity, queue, note, indexed, importer, bounds>>

RefreshEvery(r) ==
    /\ review[r].pc = "refresh"
    /\ indexed' = [s \in Sources |-> IF indexed[s] # NoId THEN review[r].to ELSE NoId]
    /\ review' = [review EXCEPT ![r] = IdleReview]
    /\ UNCHANGED <<identity, queue, note, importer, bounds>>

\* The index of the two sources follows, in another database.
RefreshIndex(r) ==
    /\ review[r].pc = "refresh"
    /\ indexed' = [s \in Sources |->
           IF s \in review[r].pair /\ indexed[s] # NoId THEN review[r].to ELSE indexed[s]]
    /\ review' = [review EXCEPT ![r] = IdleReview]
    /\ UNCHANGED <<identity, queue, note, importer, bounds>>

\* The database stays busy, or the process ends.
ReviewDies(r) ==
    /\ review[r].pc # "idle"
    /\ review' = [review EXCEPT ![r] = IdleReview]
    /\ events < MaxEvents /\ events' = events + 1
    /\ UNCHANGED <<identity, queue, note, indexed, importer, reviews>>

-----------------------------------------------------------------------------
Import ==
    \/ \E s \in Sources : WriteNew(s) \/ DecideContinued(s)
    \/ WriteContinued \/ CreateRecord \/ EnsureCanonical \/ Detect
    \/ \E c \in Candidates : Upsert(c)
    \/ ImportDies

Review(r) ==
    \/ \E c \in Candidates : ReadToReject(r, c)
    \/ \E c \in Candidates, s, t \in Sources : ReadToConfirm(r, c, s, t)
    \/ WriteRejected(r) \/ FollowMerged(r) \/ ResolvedWinner(r) \/ ResolvedLoser(r)
    \/ Unresolved(r) \/ WriteConfirmed(r) \/ RollBack(r) \/ RefreshIndex(r) \/ ReviewDies(r)

Next == Import \/ (\E s \in Sources : IndexFile(s)) \/ (\E r \in Reviewers : Review(r))

Spec == Init /\ [][Next]_vars

-----------------------------------------------------------------------------
(* Properties.                                                             *)

Reads == [pc : {"winner", "loser", "write"}, candidate : Candidates,
          status : {"pending", "confirmed_same"}, at : Ids, seen : SUBSET Ids,
          to : AnId, loser : Ids, overtaken : BOOLEAN]
Reviews ==
    {IdleReview} \cup Reads \cup [pc : {"reject"}, candidate : Candidates]
    \cup [pc : {"refresh"}, pair : Pairs, to : Ids]
Imports ==
    {IdleImport} \cup [pc : {"noted", "recorded", "ensured"}, source : Sources]
    \cup [pc : {"continued"}, source : Sources, id : Ids]
    \cup [pc : {"detected"}, source : Sources, proposals : SUBSET Candidates]

\* The type of every variable; a merged row and the row it leads to exist, a
\* whole record's id has a row, and a reviewer about to link has two ids with rows.
CanonicalInv ==
    /\ home \in Homes
    /\ record \in [Sources -> AnId] /\ note \in [Sources -> AnId] /\ indexed \in [Sources -> AnId]
    /\ rows \subseteq Ids /\ into \in [Ids -> AnId]
    /\ candidate \in [Candidates -> {"none", "pending"} \cup Verdicts]
    /\ decided \subseteq Pairs \X Verdicts /\ joined \subseteq Pairs
    /\ settled \subseteq Sources
    /\ importer \in Imports /\ review \in [Reviewers -> Reviews]
    /\ reviews \in 0 .. MaxReviews /\ events \in 0 .. MaxEvents
    /\ \A i \in Ids : into[i] # NoId => i \in rows /\ into[i] \in rows
    /\ \A s \in settled : record[s] \in rows
    /\ importer.pc = "noted" => importer.source \notin settled
    /\ importer.pc = "recorded" => record[importer.source] \in rows \cup {home[importer.source]}
    /\ \A r \in Reviewers :
           /\ review[r].pc \in {"loser", "write"} => review[r].to \in rows
           /\ review[r].pc = "write" => review[r].at \in rows

\* Following merged_into_id from i ends at an active row: there is one in every
\* set that holds i and is not left that way.
LeadsToActive(i) ==
    \A S \in SUBSET Ids :
        i \in S /\ (\A j \in S : into[j] # NoId => into[j] \in S)
        => \E j \in S : j \in rows /\ into[j] = NoId

\* Whatever reviewers merge at the same time, of what they read before the
\* other committed: a record that was created whole leads to an active
\* canonical conversation, never into a circle (identity_store.py:319-344).
EveryRecordResolves == \A s \in settled : LeadsToActive(record[s])

IsOnlyBranch(s) == \A t \in Sources \ {s} : home[t] # home[s]

\* A confirmed pair carries one canonical id, and nothing parts it later, if no
\* other reviewer committed between the reads of the review and its transaction
\* (which lets the link get lost) and neither source may come as one more branch
\* of a conversation merged before (whose record keeps the id merged away).
ConfirmedAreLinked ==
    \A p \in joined : (\A s \in p : IsOnlyBranch(s)) => \A s, t \in p : record[s] = record[t]

\* A set of sources that no confirmed pair and no family of branches leaves.
IsClosed(group) ==
    \A s, t \in Sources :
        home[s] = home[t] \/ <<{s, t}, "confirmed_same">> \in decided
        => (s \in group <=> t \in group)

Tied(s, t) == \A group \in SUBSET Sources : IsClosed(group) => (s \in group <=> t \in group)

Collapse(s, t) == indexed[s] = indexed[t] /\ indexed[s] # NoId

\* Recall shows one of two sources for both only if a reviewer confirmed them,
\* be it by way of others, or they are branches of one conversation: similarity
\* alone never hides a source (README.md:739-740), however stale the index is.
CollapseIsEarned == \A s, t \in Sources : Collapse(s, t) => Tied(s, t)

=============================================================================

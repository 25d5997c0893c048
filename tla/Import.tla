------------------------------- MODULE Import -------------------------------
(***************************************************************************)
(* Importing exported conversations: the decision what to do with an       *)
(* export (conversations/decisions.py), the pipeline that carries it out   *)
(* (pipeline.py), and the three stores it writes one after the other, each *)
(* in transactions of its own: the note (vault_writer.py), the source      *)
(* record with its message fingerprints (identity_store.py) and the ledger *)
(* of imports (manifest.py).                                               *)
(*                                                                         *)
(* A step is one transaction or one file write; the importer may die       *)
(* between any two, and the user and the indexer may act there.  A text is *)
(* the sequence of its messages; an entry is a text as one export packages *)
(* it, and stands for the hash of the raw entry.  Left out: what no        *)
(* decision reads (snapshots, canonical rows, duplicate candidates,        *)
(* .candidate.md files), a fingerprint version other than 0 and the        *)
(* current one, providers that give a conversation no id, dry runs, which   *)
(* change nothing, and the archive hash, which only tells two skips with   *)
(* equal effects apart.                                                    *)
(***************************************************************************)
EXTENDS Naturals, SequencesExt

CONSTANTS
    Sources,     \* source identities
    Texts,       \* transcripts, non-empty sequences of messages
    Packagings,  \* ways an export packages one text
    Titles,      \* titles (and dates) a conversation may bear
    Kinships,    \* how sources may be related, see kin
    Migratable,  \* sources that may come from the ledger of v0.2.3
    NoOne,
    Faults,      \* which of "crash", "write_fails" happen
    MaxImports, MaxFaults, MaxEdits   \* bounds on a behaviour

Entries == Texts \X Packagings

ASSUME ImportAssumption ==
    /\ Texts \subseteq Seq(UNION {{t[k] : k \in 1 .. Len(t)} : t \in Texts}) \ {<<>>}
    /\ Kinships \subseteq {"alone", "namesakes", "siblings"}
    /\ Migratable \subseteq Sources /\ NoOne \notin Sources /\ Sources # {}
    /\ Faults \subseteq {"crash", "write_fails"}
    /\ MaxImports \in Nat /\ MaxFaults \in Nat /\ MaxEdits \in Nat

VARIABLES
    kin,     \* how the sources are related, which never changes: "namesakes"
             \* have one bare id on several systems, "siblings" are branches of
             \* one provider conversation; "alone": there is one source only
    record,  \* conversation_source_records and their fingerprints
    note,    \* path -> the Markdown note
    ledger,  \* conversation_imports, by record key
    job,     \* the import in progress
    imports, faults, edits

stores == <<record, note, ledger>>
counts == <<imports, faults, edits>>
vars == <<kin, stores, job, counts>>

Active == IF kin = "alone" THEN {CHOOSE r \in Sources : TRUE} ELSE Sources

\* The bare id of s: the key of its ledger row and the stem of its file name.
\* Only branch siblings do not share theirs though they share the id.
Name(s) == IF kin = "namesakes" THEN CHOOSE r \in Sources : TRUE ELSE s

Path == [name : Sources, title : Titles, suffix : Sources \cup {NoOne}]
NoPath == [name |-> NoOne, title |-> NoOne, suffix |-> NoOne]

\* target_path, target_path_for_source_key.
TargetPath(s, title) == [name |-> Name(s), title |-> title, suffix |-> NoOne]
SuffixedPath(s, title) == [TargetPath(s, title) EXCEPT !.suffix = s]

NoText == <<>>
NoEntry == <<NoText, NoOne>>

Record == [state : {"absent", "unhydrated", "current"},
           entry : Entries \cup {NoEntry},  \* last_source_entry_sha256
           text : Texts \cup {NoText},      \* normalized_transcript_sha256
           prints : Texts \cup {NoText},    \* message_fingerprints, own table
           path : Path \cup {NoPath}]

\* owner is NoOne where the frontmatter has no source_key (before v0.2.4).
Note == [owner : Sources \cup {NoOne}, entry : Entries,
         edited : BOOLEAN,   \* the user changed the managed region
         manual : BOOLEAN]   \* the user wrote below it

\* compute_managed_hash
Managed(n) == [n EXCEPT !.manual = FALSE]

Row == [status : {"none", "written", "failed_retryable", "index_stale"},
        path : Path \cup {NoPath},
        hash : SUBSET Note,      \* managed_output_sha256, if known
        indexed : SUBSET Note]   \* index_source_hash, once indexed
NoRow == [status |-> "none", path |-> NoPath, hash |-> {}, indexed |-> {}]

Written == {"new_source_record", "source_continued", "failed_retryable",
            "output_missing", "attachment_changed", "parser_upgrade", "forced_reimport"}
Skipped == {"unchanged", "source_packaging_changed", "stale_snapshot"}
Reasons == Written \cup Skipped \cup
    {"identity_hydrated", "index_stale", "managed_output_modified",
     "fingerprints_unhydrated", "source_diverged"}

Idle == [pc |-> "idle", source |-> NoOne, entry |-> NoEntry, title |-> NoOne,
         reason |-> "unchanged", into |-> NoOne, path |-> NoPath,
         status |-> "written", indexed |-> FALSE]

\* What remains of an import that is through.
Finished == [Idle EXCEPT !.pc = "done", !.source = job.source, !.entry = job.entry]

TypeOK ==
    /\ kin \in Kinships
    /\ record \in [Sources -> Record]
    /\ DOMAIN note \subseteq Path /\ \A p \in DOMAIN note : note[p] \in Note
    /\ \A s \in Sources : /\ ledger[s].path \in Path \cup {NoPath}
                          /\ Cardinality(ledger[s].hash) <= 1
    /\ job.pc \in {"idle", "write", "adopt", "fingerprint", "place", "sync", "done"}
    /\ job.reason \in Reasons
    /\ job.into \in Sources \cup {NoOne} /\ job.path \in Path \cup {NoPath}
    /\ imports \in 0 .. MaxImports /\ faults \in 0 .. MaxFaults /\ edits \in 0 .. MaxEdits

Exists(p) == p \in DOMAIN note
Fault(kind) == kind \in Faults /\ faults < MaxFaults /\ faults' = faults + 1

-----------------------------------------------------------------------------
(* migrate_legacy_imports has run before: the note and the ledger row of a  *)
(* migrated source are there, its fingerprints are not.                     *)

Rendering(owner, entry) ==
    [owner |-> owner, entry |-> entry, edited |-> FALSE, manual |-> FALSE]

Init ==
    /\ kin \in Kinships
    /\ \E old \in SUBSET (Migratable \cap Active), e \in Entries, t \in Titles :
        LET home(s) == TargetPath(s, t) IN
        /\ Cardinality(old) <= 1
        /\ kin = "siblings" => old = {}
        /\ record = [s \in Sources |->
                IF s \in old
                THEN [state |-> "unhydrated", entry |-> e, text |-> NoText,
                      prints |-> NoText, path |-> home(s)]
                ELSE [state |-> "absent", entry |-> NoEntry, text |-> NoText,
                      prints |-> NoText, path |-> NoPath]]
        /\ note = [p \in {home(s) : s \in old} |-> Rendering(NoOne, e)]
        /\ ledger = [k \in Sources |->
                IF \E s \in old : k = Name(s)
                THEN [status |-> "written", hash |-> {Rendering(NoOne, e)}, indexed |-> {},
                      path |-> home(CHOOSE s \in old : k = Name(s))]
                ELSE NoRow]
    /\ job = Idle
    /\ imports = 0 /\ faults = 0 /\ edits = 0

-----------------------------------------------------------------------------
(* decide_source_import *)

Known(s) == record[s].state # "absent"
RowOf(s) == ledger[Name(s)]

\* The ledger row, if it points at the note of s.
Trusted(s) ==
    IF RowOf(s).path # NoPath /\ RowOf(s).path = record[s].path THEN RowOf(s) ELSE NoRow

\* Active siblings with fingerprints (find_family_records).
Family(s) ==
    IF kin = "siblings"
    THEN {r \in Sources \ {s} : record[r].state = "current" /\ record[r].prints # NoText}
    ELSE {}

Longest(R) == {r \in R : \A q \in R : Len(record[q].prints) <= Len(record[r].prints)}

\* _family_branch_relation, for a branch never seen: of equal candidates the
\* first seen is taken, which is any of them here.
Unseen(s, text) ==
    LET ahead == {r \in Family(s) : IsStrictPrefix(record[r].prints, text)}
        behind == {r \in Family(s) : IsStrictPrefix(text, record[r].prints)}
    IN IF ahead # {} THEN {<<"source_continued", r>> : r \in Longest(ahead)}
       ELSE IF behind # {} THEN {<<"stale_snapshot", r>> : r \in Longest(behind)}
       ELSE {<<"new_source_record", s>>}

\* _note_integrity_decision, hydration and _index_stale.
SameEntry(s, attachmentsNew) ==
    LET row == Trusted(s)
        here == note[record[s].path]   \* only where it exists
    IN IF row.status = "failed_retryable" THEN "failed_retryable"
       ELSE IF ~Exists(record[s].path) THEN "output_missing"
       ELSE IF row.hash # {} /\ Managed(here) \notin row.hash THEN "managed_output_modified"
       ELSE IF row # NoRow /\ attachmentsNew THEN "attachment_changed"
       ELSE IF record[s].state = "unhydrated" THEN "identity_hydrated"
       ELSE IF row.status = "index_stale" THEN "index_stale"
       ELSE IF row.indexed # {} /\ here \notin row.indexed THEN "index_stale"
       ELSE "unchanged"

\* The texts are compared by their hash, then message by message.
OtherEntry(s, text, parserNew) ==
    IF record[s].state = "unhydrated" THEN "fingerprints_unhydrated"
    ELSE IF record[s].text = text
    THEN IF parserNew THEN "parser_upgrade" ELSE "source_packaging_changed"
    ELSE IF record[s].prints = text THEN "source_packaging_changed"
    ELSE IF IsStrictPrefix(record[s].prints, text) THEN "source_continued"
    ELSE IF IsStrictPrefix(text, record[s].prints) THEN "stale_snapshot"
    ELSE "source_diverged"

\* Pairs of a reason and the source whose record the import goes into.
Decision(s, entry, parserNew, attachmentsNew) ==
    IF ~Known(s) THEN Unseen(s, entry[1])
    ELSE IF record[s].entry = entry THEN {<<SameEntry(s, attachmentsNew), s>>}
    ELSE {<<OtherEntry(s, entry[1], parserNew), s>>}

\* Seeded fault: --no-resume overrides every skip.
ForcedAlways(reason, resume) ==
    IF ~resume /\ reason \in Skipped THEN "forced_reimport" ELSE reason

\* FORCEABLE_SKIP_REASONS
Forced(reason, resume) ==
    IF ~resume /\ reason \in Skipped \ {"stale_snapshot"} THEN "forced_reimport" ELSE reason

-----------------------------------------------------------------------------
(* ConversationIngestionPipeline.run, one conversation *)

Resting == job.pc \in {"idle", "done"}

\* Where a decision leads: conflicts and stale indexes are only reported.
\* _apply_skip adopts a new packaging, _apply_hydrate fingerprints.
FirstStep(reason) ==
    CASE reason \in Written -> "write"
      [] reason \in {"source_packaging_changed", "identity_hydrated"} -> "adopt"
      [] reason \in {"unchanged", "stale_snapshot"} -> "done"
      [] OTHER -> "idle"

Import(s, entry, title, parserNew, attachmentsNew, resume) ==
    /\ Resting /\ imports < MaxImports
    /\ imports' = imports + 1
    /\ \E d \in Decision(s, entry, parserNew, attachmentsNew) :
        LET reason == Forced(d[1], resume)
            started == [Idle EXCEPT !.pc = FirstStep(reason), !.source = s, !.entry = entry]
        IN job' = IF FirstStep(reason) = "idle" THEN Idle
                  ELSE IF FirstStep(reason) = "done" THEN started
                  ELSE [started EXCEPT !.title = title, !.reason = reason, !.into = d[2],
                            !.path = record[d[2]].path, !.status = RowOf(s).status,
                            !.indexed = RowOf(s).indexed # {}]
    /\ UNCHANGED <<kin, stores, faults, edits>>

\* Seeded fault: the hash of the managed region is not refreshed.
RowForStale(old, p, status) ==
    [old EXCEPT !.status = status, !.path = p,
                !.hash = IF @ = {} /\ Exists(p) THEN {Managed(note[p])} ELSE @]

\* ImportManifest.record: hashes are taken from the file that is there now;
\* what is not given keeps its old value.
RowFor(old, p, status) ==
    [old EXCEPT !.status = status, !.path = p,
                !.hash = IF Exists(p) THEN {Managed(note[p])} ELSE @]

\* _handle_parse_failure.  The row is written whoever else shares the key.
ParseFails(s, entry, title) ==
    /\ Resting /\ imports < MaxImports
    /\ imports' = imports + 1
    /\ job' = Idle
    /\ IF Known(s) /\ record[s].entry = entry /\ Exists(record[s].path)
             /\ RowOf(s).status # "failed_retryable"
       THEN UNCHANGED ledger
       ELSE LET p == IF RowOf(s).path # NoPath THEN RowOf(s).path ELSE TargetPath(s, title)
            IN ledger' = [ledger EXCEPT ![Name(s)] = RowFor(@, p, "failed_retryable")]
    /\ UNCHANGED <<kin, record, note, faults, edits>>

\* Seeded fault: the note of another source is taken over.
NeverBlocked(p, s) == FALSE

\* FileExistsError: the note belongs to another source.
Blocked(p, s) == Exists(p) /\ note[p].owner \notin {s, NoOne}

Target ==
    IF job.reason # "new_source_record" /\ job.path # NoPath THEN job.path
    ELSE IF job.reason = "new_source_record"
            /\ Blocked(TargetPath(job.source, job.title), job.into)
    THEN SuffixedPath(job.source, job.title)
    ELSE TargetPath(job.source, job.title)

\* Seeded fault: the manual region is not extracted.
RenderedAfresh(p, owner, entry) == Rendering(owner, entry)

\* writer.write: rendered anew around the manual region.
Rendered(p, owner, entry) ==
    [Rendering(owner, entry) EXCEPT !.manual = Exists(p) /\ note[p].manual]

IndexedBefore(reason) == job.indexed /\ reason \in {"source_continued", "parser_upgrade"}

\* Seeded fault: an error while writing is not noticed.
WriteFailsUnnoticed ==
    /\ job.pc = "write"
    /\ Fault("write_fails")
    /\ job' = [job EXCEPT !.pc = "adopt", !.path = Target, !.status = "written"]
    /\ UNCHANGED <<kin, stores, imports, edits>>

\* The failure is noted in the ledger, for the path known so far; the one
\* derived from the reference alone may bear another date.
WriteFails ==
    /\ job.pc = "write"
    /\ \/ Fault("write_fails")
       \/ Blocked(Target, job.into) /\ UNCHANGED faults
    /\ \E t \in Titles :
        job' = [job EXCEPT !.pc = "sync", !.status = "failed_retryable",
            !.title = NoOne, !.indexed = FALSE,
            !.path = IF @ # NoPath THEN @ ELSE TargetPath(job.source, t)]
    /\ UNCHANGED <<kin, stores, imports, edits>>

Write ==
    /\ job.pc = "write" /\ ~Blocked(Target, job.into)
    /\ note' = [p \in DOMAIN note \cup {Target} |->
                    IF p = Target THEN Rendered(p, job.into, job.entry) ELSE note[p]]
    /\ job' = [job EXCEPT !.pc = "adopt", !.path = Target, !.title = NoOne, !.indexed = FALSE,
            !.status = IF IndexedBefore(job.reason) THEN "index_stale" ELSE "written"]
    /\ UNCHANGED <<kin, record, ledger, counts>>

\* create_source_record, update_source_content, hydrate_source_record, mark_seen:
\* the first transaction of each.  Only hydration writes fingerprints in it.
Adopt ==
    LET r == job.into
        text == job.entry[1]
        noRow == job.reason = "source_packaging_changed" /\ job.status = "none"
    IN
    /\ job.pc = "adopt"
    /\ \/ /\ job.reason = "new_source_record"
          /\ record' = [record EXCEPT ![r] =
                [state |-> "current", entry |-> job.entry, text |-> text,
                 prints |-> NoText, path |-> job.path]]
          /\ job' = [job EXCEPT !.pc = "fingerprint"]
       \/ /\ job.reason = "source_continued"
          /\ record' = [record EXCEPT ![r].state = "current",
                                      ![r].entry = job.entry, ![r].text = text]
          /\ job' = [job EXCEPT !.pc = "fingerprint"]
       \/ /\ job.reason \notin {"new_source_record", "source_continued"}
          /\ record' = IF record[r].state = "unhydrated"
                       THEN [record EXCEPT ![r].state = "current", ![r].entry = job.entry,
                                           ![r].text = text, ![r].prints = text]
                       ELSE [record EXCEPT ![r].entry = job.entry]
          /\ job' = IF job.reason \in Written THEN [job EXCEPT !.pc = "place"]
                    ELSE IF job.reason = "identity_hydrated" \/ noRow THEN Finished
                    ELSE [job EXCEPT !.pc = "sync"]
    /\ UNCHANGED <<kin, note, ledger, counts>>

\* write_message_fingerprints
StoreFingerprints ==
    /\ job.pc = "fingerprint"
    /\ record' = [record EXCEPT ![job.into].prints = job.entry[1]]
    /\ job' = [job EXCEPT !.pc = IF job.reason = "new_source_record" THEN "sync" ELSE "place"]
    /\ UNCHANGED <<kin, note, ledger, counts>>

\* set_output_path
Place ==
    /\ job.pc = "place"
    /\ record' = [record EXCEPT ![job.into].path = job.path]
    /\ job' = [job EXCEPT !.pc = "sync"]
    /\ UNCHANGED <<kin, note, ledger, counts>>

\* _sync_legacy_record: not where other records share the bare id.
Sync ==
    /\ job.pc = "sync"
    /\ ledger' = IF kin = "namesakes" /\ \E r \in Sources \ {job.source} : Known(r)
                 THEN ledger
                 ELSE [ledger EXCEPT ![Name(job.source)] = RowFor(@, job.path, job.status)]
    /\ job' = IF job.status = "failed_retryable" /\ job.reason \in Written
              THEN Idle ELSE Finished
    /\ UNCHANGED <<kin, record, note, counts>>

Crash ==
    /\ ~Resting /\ Fault("crash")
    /\ job' = Idle
    /\ UNCHANGED <<kin, stores, imports, edits>>

-----------------------------------------------------------------------------
(* The indexer and the note's user *)

\* record_indexing, by the bare id: there is no such row for branch siblings.
Index(p) ==
    /\ kin # "siblings" /\ ledger[p.name].status # "none"
    /\ ledger[p.name].indexed # {note[p]} /\ edits < MaxEdits
    /\ edits' = edits + 1
    /\ ledger' = [ledger EXCEPT ![p.name].indexed = {note[p]},
                                ![p.name].status = IF @ = "index_stale" THEN "written" ELSE @]
    /\ UNCHANGED <<kin, record, note, job, imports, faults>>

UserActs(notes) ==
    /\ notes # note /\ edits < MaxEdits
    /\ edits' = edits + 1
    /\ note' = notes
    /\ job' = IF job.pc = "done" THEN Idle ELSE job
    /\ UNCHANGED <<kin, record, ledger, imports, faults>>

UserEdits ==
    \E p \in DOMAIN note :
        \/ UserActs([note EXCEPT ![p].edited = TRUE])
        \/ UserActs([note EXCEPT ![p].manual = TRUE])
        \/ UserActs([q \in DOMAIN note \ {p} |-> note[q]])

Next ==
    \/ \E s \in Active, e \in Entries, t \in Titles :
        \/ ParseFails(s, e, t)
        \/ \E parserNew, attachmentsNew, resume \in BOOLEAN :
            Import(s, e, t, parserNew, attachmentsNew, resume)
    \/ Write \/ WriteFails \/ Adopt \/ StoreFingerprints \/ Place \/ Sync \/ Crash
    \/ \E p \in DOMAIN note : Index(p)
    \/ UserEdits

Spec == Init /\ [][Next]_vars

-----------------------------------------------------------------------------
(* Properties *)

\* The record of s, its fingerprints and its note tell the same.
Agrees(s) ==
    LET r == record[s] IN
    /\ r.state = "current" /\ Exists(r.path) /\ note[r.path].owner = s
    /\ r.text = r.prints /\ note[r.path].entry[1] = r.text

Lengthens(p) == IsPrefix(note[p].entry[1], note'[p].entry[1])

\* An older, a diverged, a forced or a repeated export never takes messages
\* out of a note its record agrees with (the decision table of decisions.py).
NoteOnlyGrows ==
    [][\A s \in Sources, p \in DOMAIN note :
        Agrees(s) /\ p = record[s].path /\ Exists(p)' => Lengthens(p)]_vars

\* The note is written ahead of its record: what the record claims to have
\* imported is in the note, also when the importer dies half way.
NoteHoldsRecord ==
    \A s \in Sources : LET r == record[s] IN
        r.state = "current" /\ r.text = r.prints /\ Exists(r.path) /\ note[r.path].owner = s
            => IsPrefix(r.text, note[r.path].entry[1])

\* No import takes the note of another source, even under the same file name.
NoTakeover ==
    [][\A p \in DOMAIN note : note[p].owner # NoOne /\ Exists(p)'
        => note'[p].owner = note[p].owner]_vars

\* What the user wrote below the managed region survives every import.
UserTextSurvives ==
    [][\A p \in DOMAIN note : note[p].manual /\ Exists(p)' => note'[p].manual]_vars

\* Importing an export again right after it was imported does nothing, for a
\* source whose id no other source shares, that owes no retry, and whose note
\* the user left as it was generated.
RepeatIsSkipped ==
    /\ job.pc = "done" /\ kin = "alone"
    /\ Exists(record[job.source].path) /\ ~note[record[job.source].path].edited
    /\ RowOf(job.source).status # "failed_retryable"
    =>
        \A d \in Decision(job.source, job.entry, FALSE, FALSE) :
            d[1] \in Skipped \cup {"index_stale"}

=============================================================================

---------------------------- MODULE ImportProofs ----------------------------
(***************************************************************************)
(* What holds of imports for any sources and texts, any number of imports, *)
(* faults and steps of the user and the indexer.                           *)
(*                                                                         *)
(* ImportInv follows the import under way through its writes (OnTrack):    *)
(* what was decided of a record stays so until the record is written, and  *)
(* until the import is through its note, if it is there, tells the entry   *)
(* imported (Landed).  A record in which a crash left the hash of one text *)
(* and the fingerprints of another claims nothing of the note (NotesTell). *)
(* Repeatable is what makes the same import again a skip.                  *)
(***************************************************************************)
EXTENDS Import, FiniteSetTheorems, TLAPS

Jobs == [pc : {"idle", "write", "adopt", "fingerprint", "place", "sync", "done"},
         source : Sources \cup {NoOne}, entry : Entries \cup {NoEntry},
         title : Titles \cup {NoOne}, reason : Reasons,
         into : Sources \cup {NoOne}, path : Path \cup {NoPath},
         status : {"none", "written", "failed_retryable", "index_stale"},
         indexed : BOOLEAN]

ImportType ==
    /\ kin \in Kinships
    /\ record \in [Sources -> Record]
    /\ DOMAIN note \subseteq Path /\ note \in [DOMAIN note -> Note]
    /\ ledger \in [Sources -> Row]
    /\ job \in Jobs
    /\ imports \in 0 .. MaxImports /\ faults \in 0 .. MaxFaults /\ edits \in 0 .. MaxEdits

\* The row of a source known by now.  After an import that was not cut short its
\* texts are one, that of the last entry.
IsSound(R) ==
    R.state # "absent" =>
        /\ R.path \in Path /\ R.entry \in Entries
        /\ R.state = "current" /\ R.text = R.prints => R.entry[1] = R.text

RecordsAreSound(rec) == \A s \in Sources : IsSound(rec[s])

\* It knows what it imported: the text of its last entry.
Settled(R) == R.state # "absent" /\ (R.state = "current" => R.text = R.prints)

\* The note of such a source has that text, or goes on where it ends.
NotesTell(rec, nt) ==
    \A s \in Sources :
        LET R == rec[s] IN
        Settled(R) /\ R.path \in DOMAIN nt /\ nt[R.path].owner = s
            => IsPrefix(R.entry[1], nt[R.path].entry[1])

\* A row has one hash of the note, or none, as has what is no row.
LedgerIsSound(led) ==
    \A k \in Sources :
        /\ led[k].hash = {} \/ \E n \in Note : led[k].hash = {n}
        /\ led[k].status = "none" => led[k].hash = {}

\* What was decided of the record still holds.
Decided(j, R) ==
    /\ j.reason = "new_source_record" => R.state = "absent"
    /\ j.reason = "source_continued" =>
            R.state = "current" /\ IsStrictPrefix(R.prints, j.entry[1])
    /\ j.reason \notin {"new_source_record", "source_continued"} =>
            /\ R.state # "absent"
            /\ \/ R.entry = j.entry
               \/ R.state = "current" /\ j.entry[1] \in {R.text, R.prints}
    /\ j.reason # "new_source_record" => j.path = R.path

\* The record has the entry imported.
Adopted(j, R) == R.state = "current" /\ R.entry = j.entry /\ R.path = j.path

Gives(j) == j.status = "failed_retryable" /\ j.reason \in Written

\* How far the import under way has come.
OnTrack(j, rec) ==
    LET R == rec[j.into] IN
    /\ j.pc \notin {"idle", "done"} =>
            j.source \in Sources /\ j.entry \in Entries /\ j.into \in Sources
    /\ j.pc = "write" => j.title \in Titles /\ j.reason \in Written
    /\ j.pc = "adopt" => j.path \in Path
            /\ j.reason \in Written \cup {"source_packaging_changed", "identity_hydrated"}
    /\ j.pc \in {"write", "adopt"} => Decided(j, R)
    /\ j.pc = "fingerprint" => R.text = j.entry[1]
    /\ j.pc \in {"fingerprint", "place"} => j.reason \in Written
    /\ j.pc \in {"fingerprint", "place"} \/ (j.pc = "sync" /\ ~Gives(j)) => Adopted(j, R)
    /\ j.pc = "sync" => j.path \in Path
    /\ j.pc \in {"fingerprint", "place", "sync"} \/ (j.pc = "adopt" /\ j.reason \in Written)
            => j.status # "none"

\* The note it wrote, unless the user deleted it since.
Landed(j, nt) ==
    /\ j.pc \in {"adopt", "fingerprint", "place"}
    /\ j.reason \in Written
    /\ j.path \in DOMAIN nt
    => nt[j.path].owner = j.into /\ nt[j.path].entry = j.entry

\* The ledger knows the note of R as the user finds it, if it knows it at all.
HashFits(R, row, nt) ==
    R.path \in DOMAIN nt /\ ~nt[R.path].edited /\ row.path = R.path
        => row.hash = {} \/ Managed(nt[R.path]) \in row.hash

\* The import of the only source there is, and what its decision would be again.
Repeatable(j, rec, nt, led) ==
    LET R == rec[j.source] IN
    kin = "alone" =>
        /\ j.pc \notin {"idle", "done"} => j.into = j.source
        /\ j.pc = "adopt" /\ j.reason = "source_packaging_changed" =>
                /\ R.state = "current"
                /\ j.status = "none" => led[j.source].status = "none"
        /\ j.pc = "adopt" /\ j.reason = "identity_hydrated" =>
                R.state = "unhydrated" /\ HashFits(R, led[j.source], nt)
        /\ j.pc = "done" =>
                /\ j.source \in Sources /\ j.entry \in Entries /\ R.state = "current"
                /\ \/ R.entry = j.entry /\ HashFits(R, led[j.source], nt)
                   \/ R.entry # j.entry /\ OtherEntry(j.source, j.entry[1], FALSE) \in Skipped

ImportInv ==
    /\ ImportType
    /\ RecordsAreSound(record) /\ NotesTell(record, note) /\ LedgerIsSound(ledger)
    /\ OnTrack(job, record) /\ Landed(job, note)
    /\ Repeatable(job, record, note, ledger)

-----------------------------------------------------------------------------
(* Names, paths and texts *)

LEMMA PathsArePaths ==
    ASSUME NEW s \in Sources, NEW t \in Titles
    PROVE  /\ Name(s) \in Sources
           /\ TargetPath(s, t) \in Path /\ SuffixedPath(s, t) \in Path
           /\ kin # "namesakes" => Name(s) = s
BY DEF Name, TargetPath, SuffixedPath, Path

LEMMA NoPathIsNone == NoPath \notin Path
BY ImportAssumption DEF NoPath, Path

LEMMA ActiveAreSources == Active \subseteq Sources
BY ImportAssumption DEF Active

LEMMA TextsAreTexts ==
    ASSUME NEW t \in Texts
    PROVE  t # NoText /\ IsPrefix(t, t)
<1> DEFINE Messages == UNION {{u[k] : k \in 1 .. Len(u)} : u \in Texts}
<1>1. t \in Seq(Messages) /\ t # <<>>
    BY ImportAssumption
<1> HIDE DEF Messages
<1>2. Len(t) \in Nat
    BY <1>1
<1> QED BY <1>1, <1>2 DEF NoText, IsPrefix

LEMMA EntriesAreEntries ==
    ASSUME NEW e \in Entries
    PROVE  e[1] \in Texts /\ e # NoEntry
BY TextsAreTexts DEF Entries, NoEntry

\* At rest nothing is promised.
LEMMA AtRest ==
    ASSUME NEW rec, NEW nt, NEW led
    PROVE  /\ Idle \in Jobs /\ Idle.pc = "idle"
           /\ OnTrack(Idle, rec) /\ Landed(Idle, nt) /\ Repeatable(Idle, rec, nt, led)
BY DEF Idle, Jobs, Reasons, Skipped, OnTrack, Landed, Repeatable

\* A record that knows what it imported is told by what is imported next.
LEMMA ImportExtends ==
    ASSUME ImportInv, job.pc \in {"write", "adopt"}, Settled(record[job.into])
    PROVE  IsPrefix(record[job.into].entry[1], job.entry[1])
<1> DEFINE R == record[job.into]
<1>1. job.into \in Sources /\ Decided(job, R) /\ job.entry \in Entries /\ IsSound(R)
    BY DEF ImportInv, OnTrack, RecordsAreSound
<1>2. R.entry \in Entries
    BY <1>1 DEF IsSound, Settled
<1>3. CASE job.reason = "new_source_record"
    BY <1>1, <1>3 DEF Decided, Settled
<1>4. CASE job.reason = "source_continued"
    BY <1>1, <1>4 DEF Decided, Settled, IsSound, IsStrictPrefix
<1>5. CASE job.reason \notin {"new_source_record", "source_continued"}
    <2>1. R.entry[1] = job.entry[1]
        BY <1>1, <1>5 DEF Decided, Settled, IsSound
    <2> QED BY <2>1, <1>2, EntriesAreEntries, TextsAreTexts
<1> QED BY <1>3, <1>4, <1>5

-----------------------------------------------------------------------------
(* The decision *)

\* Of an entry imported before, for a source known by now.
LEMMA SameEntryIsSound ==
    ASSUME ImportInv, NEW s \in Sources, Known(s), NEW new \in BOOLEAN
    PROVE  LET reason == SameEntry(s, new) IN
           /\ reason \in {"failed_retryable", "output_missing", "managed_output_modified",
                          "attachment_changed", "identity_hydrated", "index_stale", "unchanged"}
           /\ reason \in {"identity_hydrated", "unchanged"}
                => HashFits(record[s], RowOf(s), note)
           /\ reason = "identity_hydrated" => record[s].state = "unhydrated"
           /\ reason = "unchanged" => record[s].state = "current"
<1>1. record[s] \in Record /\ record[s].path \in Path /\ record[s].state # "absent"
    BY DEF ImportInv, ImportType, RecordsAreSound, IsSound, Known
<1>2. record[s].state \in {"unhydrated", "current"}
    BY <1>1 DEF Record
<1>3. RowOf(s).path = record[s].path => Trusted(s) = RowOf(s)
    BY <1>1, NoPathIsNone DEF Trusted
<1>4. CASE Trusted(s).hash # {} /\ Managed(note[record[s].path]) \notin Trusted(s).hash
    BY <1>4 DEF SameEntry
<1>5. CASE ~(Trusted(s).hash # {} /\ Managed(note[record[s].path]) \notin Trusted(s).hash)
    <2>1. HashFits(record[s], RowOf(s), note)
        BY <1>3, <1>5 DEF HashFits
    <2> QED BY <1>2, <2>1 DEF SameEntry
<1> QED BY <1>4, <1>5

\* Of another one.
LEMMA OtherEntryIsSound ==
    ASSUME ImportInv, NEW s \in Sources, Known(s), NEW text, NEW new \in BOOLEAN
    PROVE  LET reason == OtherEntry(s, text, new) IN
           /\ reason \in {"fingerprints_unhydrated", "parser_upgrade", "source_packaging_changed",
                          "source_continued", "stale_snapshot", "source_diverged"}
           /\ reason # "fingerprints_unhydrated" => record[s].state = "current"
           /\ reason \in {"parser_upgrade", "source_packaging_changed"}
                => text \in {record[s].text, record[s].prints}
           /\ reason = "source_continued" => IsStrictPrefix(record[s].prints, text)
           /\ reason = "stale_snapshot" => OtherEntry(s, text, FALSE) = "stale_snapshot"
<1>1. record[s].state \in {"unhydrated", "current"}
    BY DEF ImportInv, ImportType, Known, Record
<1> QED BY <1>1 DEF OtherEntry

\* Of a source never seen.
LEMMA UnseenIsSound ==
    ASSUME ImportInv, NEW s \in Sources, NEW text, NEW d \in Unseen(s, text)
    PROVE  /\ d = <<"new_source_record", s>>
              \/ /\ d[1] \in {"source_continued", "stale_snapshot"} /\ kin = "siblings"
                 /\ d[2] \in Sources /\ record[d[2]].state = "current"
                 /\ d[1] = "source_continued" => IsStrictPrefix(record[d[2]].prints, text)
<1> DEFINE ahead == {r \in Family(s) : IsStrictPrefix(record[r].prints, text)}
           behind == {r \in Family(s) : IsStrictPrefix(text, record[r].prints)}
<1>1. \/ d = <<"new_source_record", s>>
      \/ \E r \in Longest(ahead) : d = <<"source_continued", r>>
      \/ \E r \in Longest(behind) : d = <<"stale_snapshot", r>>
    BY DEF Unseen
<1>2. \A r \in Family(s) : kin = "siblings" /\ r \in Sources /\ record[r].state = "current"
    BY DEF Family
<1>3. Longest(ahead) \subseteq ahead /\ Longest(behind) \subseteq behind
    BY DEF Longest
<1>4. \A r \in ahead : r \in Family(s) /\ IsStrictPrefix(record[r].prints, text)
    OBVIOUS
<1>5. \A r \in behind : r \in Family(s)
    OBVIOUS
<1> HIDE DEF ahead, behind
<1> QED BY <1>1, <1>2, <1>3, <1>4, <1>5

\* What a decision says of the record it names.
Grounds(d, s, e) ==
    LET R == record[d[2]] IN
    /\ d[1] \in Reasons \ {"forced_reimport"} /\ d[2] \in Sources
    /\ kin = "alone" => d[2] = s
    /\ d[1] = "new_source_record" => R.state = "absent"
    /\ d[1] = "source_continued" => R.state = "current" /\ IsStrictPrefix(R.prints, e[1])
    /\ d[1] \in {"failed_retryable", "output_missing", "attachment_changed", "parser_upgrade",
                 "unchanged", "source_packaging_changed", "identity_hydrated"} =>
            /\ R.state # "absent"
            /\ R.entry = e \/ (R.state = "current" /\ e[1] \in {R.text, R.prints})
    /\ d[1] \in {"source_packaging_changed", "unchanged"} => R.state = "current"
    /\ d[1] \in {"identity_hydrated", "unchanged"} =>
            d[2] = s /\ R.entry = e /\ HashFits(R, RowOf(s), note)
    /\ d[1] = "identity_hydrated" => R.state = "unhydrated"
    /\ d[1] = "stale_snapshot" /\ kin = "alone" =>
            R.state = "current" /\ R.entry # e /\ OtherEntry(s, e[1], FALSE) = "stale_snapshot"

LEMMA DecisionIsSound ==
    ASSUME ImportInv, NEW s \in Sources, NEW e \in Entries,
           NEW parserNew \in BOOLEAN, NEW attachmentsNew \in BOOLEAN,
           NEW d \in Decision(s, e, parserNew, attachmentsNew)
    PROVE  Grounds(d, s, e)
<1>1. CASE ~Known(s)
    <2>1. d \in Unseen(s, e[1])
        BY <1>1 DEF Decision
    <2>2. CASE d = <<"new_source_record", s>>
        BY <1>1, <2>2 DEF Grounds, Reasons, Written, Skipped, Known
    <2>3. CASE d # <<"new_source_record", s>>
        <3>1. /\ d[1] \in {"source_continued", "stale_snapshot"} /\ kin = "siblings"
              /\ d[2] \in Sources /\ record[d[2]].state = "current"
              /\ d[1] = "source_continued" => IsStrictPrefix(record[d[2]].prints, e[1])
            BY <2>1, <2>3, UnseenIsSound
        <3> QED BY <3>1 DEF Grounds, Reasons, Written, Skipped
    <2> QED BY <2>2, <2>3
<1>2. CASE Known(s) /\ record[s].entry = e
    <2>1. d = <<SameEntry(s, attachmentsNew), s>>
        BY <1>2 DEF Decision
    <2>2. record[s].state # "absent"
        BY <1>2 DEF Known
    <2> DEFINE reason == SameEntry(s, attachmentsNew)
    <2>3. /\ reason \in {"failed_retryable", "output_missing", "managed_output_modified",
                          "attachment_changed", "identity_hydrated", "index_stale", "unchanged"}
          /\ reason \in {"identity_hydrated", "unchanged"}
                => HashFits(record[s], RowOf(s), note)
          /\ reason = "identity_hydrated" => record[s].state = "unhydrated"
          /\ reason = "unchanged" => record[s].state = "current"
        BY <1>2, SameEntryIsSound
    <2>4. d[1] = reason /\ d[2] = s
        BY <2>1
    <2> HIDE DEF reason
    <2> QED BY <1>2, <2>2, <2>3, <2>4 DEF Grounds, Reasons, Written, Skipped
<1>3. CASE Known(s) /\ record[s].entry # e
    <2> DEFINE reason == OtherEntry(s, e[1], parserNew)
    <2>1. d = <<reason, s>>
        BY <1>3 DEF Decision
    <2>2. record[s].state # "absent"
        BY <1>3 DEF Known
    <2>3. /\ reason \in {"fingerprints_unhydrated", "parser_upgrade", "source_packaging_changed",
                          "source_continued", "stale_snapshot", "source_diverged"}
          /\ reason # "fingerprints_unhydrated" => record[s].state = "current"
          /\ reason \in {"parser_upgrade", "source_packaging_changed"}
                => e[1] \in {record[s].text, record[s].prints}
          /\ reason = "source_continued" => IsStrictPrefix(record[s].prints, e[1])
          /\ reason = "stale_snapshot" => OtherEntry(s, e[1], FALSE) = "stale_snapshot"
        BY <1>3, OtherEntryIsSound
    <2>4. d[1] = reason /\ d[2] = s
        BY <2>1
    <2> HIDE DEF reason
    <2> QED BY <1>3, <2>2, <2>3, <2>4 DEF Grounds, Reasons, Written, Skipped
<1> QED BY <1>1, <1>2, <1>3

-----------------------------------------------------------------------------
(* Steps that leave the records alone *)

LEMMA InitImportInv == Init => ImportInv
<1> SUFFICES ASSUME Init PROVE ImportInv
    OBVIOUS
<1>1. job = Idle /\ kin \in Kinships
    BY DEF Init
<1>2. PICK old \in SUBSET (Migratable \cap Active), e \in Entries, t \in Titles :
        LET home(s) == TargetPath(s, t) IN
        /\ Cardinality(old) <= 1
        /\ kin = "siblings" => old = {}
        /\ record = [s \in Sources |->
                IF s \in old
                THEN [state |-> "unhydrated", entry |-> e, text |-> NoText,
                      prints |-> NoText, path |-> home(s)]
                ELSE [state |-> "absent", entry |-> NoEntry, text |-> NoText,
                      prints |-> NoText, path |-> NoPath]]
        /\ note = [p \in {home(s) : s \in old} |-> Rendering(NoOne, e)]
        /\ ledger = [k \in Sources |->
                IF \E s \in old : k = Name(s)
                THEN [status |-> "written", hash |-> {Rendering(NoOne, e)}, indexed |-> {},
                      path |-> home(CHOOSE s \in old : k = Name(s))]
                ELSE NoRow]
    BY DEF Init
<1>3. old \subseteq Sources /\ \A s \in old : TargetPath(s, t) \in Path
    BY <1>2, PathsArePaths, ImportAssumption
<1>4. Rendering(NoOne, e) \in Note
    BY <1>2 DEF Rendering, Note
<1>5. record \in [Sources -> Record]
    BY <1>2, <1>3 DEF Record
<1>6. DOMAIN note \subseteq Path /\ note \in [DOMAIN note -> Note]
    BY <1>2, <1>3, <1>4
<1>7. \A k \in Sources : (\E s \in old : k = Name(s)) =>
            TargetPath(CHOOSE s \in old : k = Name(s), t) \in Path
    BY <1>3
<1>8. ledger \in [Sources -> Row]
    BY <1>2, <1>4, <1>7 DEF Row, NoRow
<1>9. imports = 0 /\ faults = 0 /\ edits = 0
    BY DEF Init
<1>10. ImportType
    BY <1>1, <1>5, <1>6, <1>8, <1>9, AtRest, ImportAssumption DEF ImportType
<1>11. RecordsAreSound(record)
    BY <1>2, <1>3 DEF RecordsAreSound, IsSound
<1>12. NotesTell(record, note)
    BY <1>2, ImportAssumption DEF NotesTell, Rendering
<1>13. LedgerIsSound(ledger)
    BY <1>2, <1>4 DEF LedgerIsSound, NoRow
<1> QED BY <1>1, <1>10, <1>11, <1>12, <1>13, AtRest DEF ImportInv

\* A step that only ends the import, and perhaps writes a sound ledger.
LEMMA EndingKeeps ==
    ASSUME ImportInv, job' = Idle, UNCHANGED <<kin, record, note>>,
           ledger' \in [Sources -> Row], LedgerIsSound(ledger'),
           imports' \in 0 .. MaxImports, faults' \in 0 .. MaxFaults, edits' \in 0 .. MaxEdits
    PROVE  ImportInv'
<1>1. ImportType'
    BY AtRest DEF ImportInv, ImportType
<1>2. RecordsAreSound(record)' /\ NotesTell(record, note)' /\ LedgerIsSound(ledger)'
    BY DEF ImportInv
<1>3. OnTrack(job, record)' /\ Landed(job, note)'
    BY AtRest
<1>4. Repeatable(job, record, note, ledger)'
    BY DEF Repeatable, Idle
<1> QED BY <1>1, <1>2, <1>3, <1>4 DEF ImportInv

\* What ImportManifest.record writes.
LEMMA RowForIsSound ==
    ASSUME ImportInv, NEW old \in Row, NEW p \in Path,
           NEW status \in {"written", "failed_retryable", "index_stale"},
           old.hash = {} \/ \E n \in Note : old.hash = {n}
    PROVE  LET row == RowFor(old, p, status) IN
           /\ row \in Row /\ row.status = status /\ row.path = p
           /\ row.hash = {} \/ \E n \in Note : row.hash = {n}
           /\ Exists(p) => row.hash = {Managed(note[p])}
<1> DEFINE hash == IF Exists(p) THEN {Managed(note[p])} ELSE old.hash
<1>1. Exists(p) => Managed(note[p]) \in Note
    BY DEF Exists, Managed, ImportInv, ImportType, Note
<1>2. hash \in SUBSET Note /\ (hash = {} \/ \E n \in Note : hash = {n})
    BY <1>1 DEF Row
<1>3. RowFor(old, p, status) = [old EXCEPT !.status = status, !.path = p, !.hash = hash]
    BY DEF RowFor
<1>4. Exists(p) => hash = {Managed(note[p])}
    OBVIOUS
<1> HIDE DEF hash
<1>5. LET row == [old EXCEPT !.status = status, !.path = p, !.hash = hash] IN
      row \in Row /\ row.status = status /\ row.path = p /\ row.hash = hash
    BY <1>2 DEF Row
<1> QED BY <1>2, <1>3, <1>4, <1>5

LEMMA LedgerWrites ==
    ASSUME ImportInv, NEW k \in Sources, NEW row \in Row, row.status # "none",
           row.hash = {} \/ \E n \in Note : row.hash = {n}
    PROVE  LET led == [ledger EXCEPT ![k] = row] IN
           led \in [Sources -> Row] /\ LedgerIsSound(led) /\ led[k] = row
BY DEF ImportInv, ImportType, LedgerIsSound

LEMMA ParseFailsKeeps ==
    ASSUME ImportInv, NEW s \in Active, NEW e \in Entries, NEW t \in Titles, ParseFails(s, e, t)
    PROVE  ImportInv'
<1> DEFINE p == IF RowOf(s).path # NoPath THEN RowOf(s).path ELSE TargetPath(s, t)
<1>1. s \in Sources /\ Name(s) \in Sources
    BY ActiveAreSources, PathsArePaths
<1>2. RowOf(s) \in Row
    BY <1>1 DEF RowOf, ImportInv, ImportType
<1>3. p \in Path
    BY <1>1, <1>2, PathsArePaths DEF Row
<1>4. /\ job' = Idle /\ UNCHANGED <<kin, record, note, faults, edits>>
      /\ imports < MaxImports /\ imports' = imports + 1
      /\ \/ UNCHANGED ledger
         \/ ledger' = [ledger EXCEPT ![Name(s)] = RowFor(@, p, "failed_retryable")]
    BY DEF ParseFails
<1>5. imports' \in 0 .. MaxImports /\ faults' \in 0 .. MaxFaults /\ edits' \in 0 .. MaxEdits
    BY <1>4, ImportAssumption DEF ImportInv, ImportType
<1> HIDE DEF p
<1>6. CASE UNCHANGED ledger
    BY <1>4, <1>5, <1>6, EndingKeeps DEF ImportInv, ImportType
<1>7. CASE ledger' = [ledger EXCEPT ![Name(s)] = RowFor(@, p, "failed_retryable")]
    <2> DEFINE row == RowFor(RowOf(s), p, "failed_retryable")
    <2>1. RowOf(s).hash = {} \/ \E n \in Note : RowOf(s).hash = {n}
        BY <1>1 DEF RowOf, ImportInv, LedgerIsSound
    <2>2. row \in Row /\ row.status = "failed_retryable"
            /\ (row.hash = {} \/ \E n \in Note : row.hash = {n})
        BY <1>2, <1>3, <2>1, RowForIsSound
    <2>3. ledger' = [ledger EXCEPT ![Name(s)] = row]
        BY <1>7 DEF RowOf
    <2> HIDE DEF row
    <2>4. ledger' \in [Sources -> Row] /\ LedgerIsSound(ledger')
        BY <1>1, <2>2, <2>3, LedgerWrites
    <2> QED BY <1>4, <1>5, <2>4, EndingKeeps
<1> QED BY <1>4, <1>6, <1>7

LEMMA CrashKeeps == ASSUME ImportInv, Crash PROVE ImportInv'
<1>1. faults' \in 0 .. MaxFaults
    BY ImportAssumption DEF Crash, Fault, ImportInv, ImportType
<1> QED BY <1>1, EndingKeeps DEF Crash, stores, ImportInv, ImportType

LEMMA ImportKeeps ==
    ASSUME ImportInv, NEW s \in Active, NEW e \in Entries, NEW t \in Titles,
           NEW parserNew \in BOOLEAN, NEW attachmentsNew \in BOOLEAN, NEW resume \in BOOLEAN,
           Import(s, e, t, parserNew, attachmentsNew, resume)
    PROVE  ImportInv'
<1>1. s \in Sources /\ Name(s) \in Sources /\ (kin = "alone" => Name(s) = s)
    BY ActiveAreSources, PathsArePaths
<1>2. PICK d \in Decision(s, e, parserNew, attachmentsNew) :
        LET reason == Forced(d[1], resume)
            started == [Idle EXCEPT !.pc = FirstStep(reason), !.source = s, !.entry = e]
        IN job' = IF FirstStep(reason) = "idle" THEN Idle
                  ELSE IF FirstStep(reason) = "done" THEN started
                  ELSE [started EXCEPT !.title = t, !.reason = reason, !.into = d[2],
                            !.path = record[d[2]].path, !.status = RowOf(s).status,
                            !.indexed = RowOf(s).indexed # {}]
    BY DEF Import
<1> DEFINE reason == Forced(d[1], resume)
           R == record[d[2]]
           known == RowOf(s).indexed # {}
<1>3. Grounds(d, s, e)
    BY <1>1, DecisionIsSound
<1>4. /\ UNCHANGED <<kin, record, note, ledger, faults, edits>> /\ imports' \in 0 .. MaxImports
      /\ faults' \in 0 .. MaxFaults /\ edits' \in 0 .. MaxEdits
    BY ImportAssumption DEF Import, stores, ImportInv, ImportType
<1>5. ledger' \in [Sources -> Row] /\ LedgerIsSound(ledger')
    BY <1>4 DEF ImportInv, ImportType
<1>6. /\ reason \in Reasons
      /\ reason # d[1] => reason = "forced_reimport" /\ d[1] \in {"unchanged", "source_packaging_changed"}
    BY <1>3 DEF Forced, Grounds, Reasons, Written, Skipped
<1>7. FirstStep(reason) \in {"write", "adopt", "done", "idle"}
      /\ (FirstStep(reason) = "write" => reason \in Written)
      /\ (FirstStep(reason) = "adopt" => reason \in {"source_packaging_changed", "identity_hydrated"})
      /\ (FirstStep(reason) = "done" => reason \in {"unchanged", "stale_snapshot"})
    BY DEF FirstStep
<1>8. RowOf(s) \in Row /\ d[2] \in Sources /\ R \in Record /\ known \in BOOLEAN
    BY <1>1, <1>3 DEF RowOf, Grounds, ImportInv, ImportType
<1>9. CASE FirstStep(reason) = "idle"
    BY <1>2, <1>4, <1>5, <1>9, EndingKeeps
<1> DEFINE started == [Idle EXCEPT !.pc = FirstStep(reason), !.source = s, !.entry = e]
<1>10. /\ started \in Jobs
       /\ started.pc = FirstStep(reason) /\ started.source = s /\ started.entry = e
    BY <1>1, <1>7, AtRest DEF Idle, Jobs
<1>11. RecordsAreSound(record)' /\ NotesTell(record, note)' /\ LedgerIsSound(ledger)'
    BY <1>4 DEF ImportInv
<1>12. CASE FirstStep(reason) = "done"
    <2>1. job' = started /\ job'.pc = "done"
        BY <1>2, <1>10, <1>12
    <2>2. reason = d[1] /\ d[1] \in {"unchanged", "stale_snapshot"}
        BY <1>6, <1>7, <1>12
    <2>3. kin = "alone" =>
            /\ record[s].state = "current"
            /\ \/ record[s].entry = e /\ HashFits(record[s], ledger[s], note)
               \/ record[s].entry # e /\ OtherEntry(s, e[1], FALSE) \in Skipped
        BY <1>1, <1>3, <2>2 DEF Grounds, Skipped, RowOf
    <2>4. (OtherEntry(s, e[1], FALSE))' = OtherEntry(s, e[1], FALSE)
        BY <1>4 DEF OtherEntry
    <2> HIDE DEF started
    <2>5. job'.source = s /\ job'.entry = e
        BY <1>10, <2>1
    <2>6. Repeatable(job, record, note, ledger)'
        BY <1>1, <1>4, <2>1, <2>3, <2>4, <2>5 DEF Repeatable
    <2>7. OnTrack(job, record)' /\ Landed(job, note)'
        BY <2>1 DEF OnTrack, Landed
    <2>8. ImportType'
        BY <1>4, <1>5, <1>10, <2>1 DEF ImportInv, ImportType
    <2> QED BY <1>11, <2>6, <2>7, <2>8 DEF ImportInv
<1>13. CASE FirstStep(reason) \in {"write", "adopt"}
    <2> DEFINE status == RowOf(s).status
               path == R.path
               into == d[2]
               begun == [started EXCEPT !.title = t, !.reason = reason, !.into = into,
                            !.path = path, !.status = status, !.indexed = known]
    <2>1. job' = begun
        BY <1>2, <1>13
    <2>2. status \in {"none", "written", "failed_retryable", "index_stale"}
            /\ path \in Path \cup {NoPath} /\ into \in Sources
        BY <1>8 DEF Row, Record
    <2> HIDE DEF reason, known, status, path, into, started
    <2>3. begun \in Jobs
        BY <1>6, <1>8, <1>10, <2>2 DEF Jobs
    <2>4. /\ begun \in Jobs
          /\ begun.pc = FirstStep(reason) /\ begun.source = s /\ begun.entry = e
          /\ begun.title = t /\ begun.reason = reason /\ begun.into = into
          /\ begun.path = path /\ begun.status = status
        BY <1>10, <2>3 DEF Jobs
    <2> HIDE DEF begun
    <2>5. \/ reason = d[1]
          \/ reason = "forced_reimport" /\ d[1] \in {"unchanged", "source_packaging_changed"}
        BY <1>6
    <2>6. Decided(begun, R)
        <3>1. begun.path = R.path
            BY <2>4 DEF path
        <3>2. CASE reason = "new_source_record"
            BY <2>4, <2>5, <3>1, <3>2, <1>3 DEF Decided, Grounds
        <3>3. CASE reason = "source_continued"
            BY <2>4, <2>5, <3>1, <3>3, <1>3 DEF Decided, Grounds
        <3>4. CASE reason \notin {"new_source_record", "source_continued"}
            <4>1. d[1] \in {"failed_retryable", "output_missing", "attachment_changed",
                            "parser_upgrade", "unchanged", "source_packaging_changed",
                            "identity_hydrated"}
                BY <1>3, <1>7, <1>13, <2>5, <3>4 DEF Grounds, Written
            <4> QED BY <2>4, <3>1, <3>4, <4>1, <1>3 DEF Decided, Grounds
        <3> QED BY <3>2, <3>3, <3>4
    <2>7. FirstStep(reason) = "adopt" => path \in Path /\ R.state # "absent"
        <3>1. FirstStep(reason) = "adopt" => R.state # "absent"
            BY <1>7, <2>4, <2>6 DEF Decided
        <3> QED BY <3>1, <1>8 DEF ImportInv, RecordsAreSound, IsSound, path
    <2>8. OnTrack(begun, record)
        BY <1>1, <1>7, <1>13, <2>2, <2>4, <2>6, <2>7 DEF OnTrack, Written, into
    <2>9. FirstStep(reason) = "adopt" => reason = d[1]
        BY <1>7, <2>5
    <2>10. Repeatable(begun, record, note, ledger)
        BY <1>1, <1>3, <1>13, <2>4, <2>9 DEF Repeatable, Grounds, into, status, RowOf
    <2>11. Landed(begun, note)
        BY <1>7, <1>13, <2>4 DEF Landed, Written
    <2>12. ImportType'
        BY <1>4, <1>5, <2>1, <2>4 DEF ImportInv, ImportType
    <2>13. OnTrack(job, record)' /\ Landed(job, note)'
        BY <1>4, <2>1, <2>8, <2>11
    <2>14. Repeatable(job, record, note, ledger)'
        BY <1>4, <1>13, <2>1, <2>4, <2>10 DEF Repeatable
    <2> QED BY <1>11, <2>12, <2>13, <2>14 DEF ImportInv
<1> QED BY <1>7, <1>9, <1>12, <1>13

-----------------------------------------------------------------------------
(* The import's own steps *)

\* Where the note is written: where the record has it, for a record there is.
LEMMA TargetIsPath ==
    ASSUME ImportInv, job.pc = "write"
    PROVE  /\ Target \in Path
           /\ job.reason # "new_source_record" => Target = record[job.into].path
           /\ job.into \in Sources /\ job.entry \in Entries /\ job.reason \in Written
<1>1. /\ job.source \in Sources /\ job.title \in Titles /\ job.into \in Sources
      /\ job.entry \in Entries /\ job.reason \in Written /\ Decided(job, record[job.into])
    BY DEF ImportInv, OnTrack
<1>2. TargetPath(job.source, job.title) \in Path /\ SuffixedPath(job.source, job.title) \in Path
    BY <1>1, PathsArePaths
<1>3. CASE job.reason = "new_source_record"
    BY <1>1, <1>2, <1>3 DEF Target
<1>4. CASE job.reason # "new_source_record"
    <2>1. record[job.into].state # "absent" /\ job.path = record[job.into].path
        BY <1>1, <1>4 DEF Decided
    <2>2. job.path \in Path
        BY <1>1, <2>1 DEF ImportInv, RecordsAreSound, IsSound
    <2> QED BY <1>1, <1>4, <2>1, <2>2, NoPathIsNone DEF Target
<1> QED BY <1>3, <1>4

LEMMA WriteFailsKeeps == ASSUME ImportInv, WriteFails PROVE ImportInv'
<1>1. PICK t \in Titles :
        job' = [job EXCEPT !.pc = "sync", !.status = "failed_retryable",
            !.title = NoOne, !.indexed = FALSE,
            !.path = IF @ # NoPath THEN @ ELSE TargetPath(job.source, t)]
    BY DEF WriteFails
<1> DEFINE path == IF job.path # NoPath THEN job.path ELSE TargetPath(job.source, t)
           failed == [job EXCEPT !.pc = "sync", !.status = "failed_retryable",
                            !.title = NoOne, !.indexed = FALSE, !.path = path]
<1>2. job \in Jobs /\ job.pc = "write" /\ job.source \in Sources /\ job.into \in Sources
        /\ job.entry \in Entries /\ job.reason \in Written
    BY DEF WriteFails, ImportInv, ImportType, OnTrack
<1>3. path \in Path
    BY <1>2, PathsArePaths DEF Jobs
<1>4. job' = failed
    BY <1>1
<1> HIDE DEF path
<1>5. /\ failed \in Jobs /\ failed.pc = "sync" /\ failed.status = "failed_retryable"
      /\ failed.path = path /\ failed.source = job.source /\ failed.entry = job.entry
      /\ failed.into = job.into /\ failed.reason = job.reason
    BY <1>2, <1>3 DEF Jobs
<1> HIDE DEF failed
<1>6. /\ UNCHANGED <<kin, record, note, ledger, imports, edits>> /\ faults' \in 0 .. MaxFaults
    BY ImportAssumption DEF WriteFails, Fault, stores, ImportInv, ImportType
<1>7. ImportType'
    BY <1>4, <1>5, <1>6 DEF ImportInv, ImportType
<1>8. OnTrack(job, record)'
    BY <1>2, <1>3, <1>4, <1>5 DEF OnTrack, Gives
<1>9. Landed(job, note)'
    BY <1>4, <1>5 DEF Landed
<1>10. Repeatable(job, record, note, ledger)'
    BY <1>2, <1>4, <1>5, <1>6 DEF Repeatable, ImportInv
<1>11. RecordsAreSound(record)' /\ NotesTell(record, note)' /\ LedgerIsSound(ledger)'
    BY <1>6 DEF ImportInv
<1> QED BY <1>7, <1>8, <1>9, <1>10, <1>11 DEF ImportInv

\* The note is written anew; no other one is touched.
LEMMA WrittenNote ==
    ASSUME ImportInv, Write
    PROVE  /\ DOMAIN note' = DOMAIN note \cup {Target} /\ DOMAIN note' \subseteq Path
           /\ note' \in [DOMAIN note' -> Note]
           /\ note'[Target].owner = job.into /\ note'[Target].entry = job.entry
           /\ Exists(Target) => note'[Target].manual = note[Target].manual
           /\ \A p \in DOMAIN note \ {Target} : note'[p] = note[p]
<1> DEFINE text == Rendered(Target, job.into, job.entry)
           manual == Exists(Target) /\ note[Target].manual
<1>1. note' = [p \in DOMAIN note \cup {Target} |-> IF p = Target THEN text ELSE note[p]]
    BY DEF Write
<1>2. Target \in Path /\ job.into \in Sources /\ job.entry \in Entries
    BY TargetIsPath DEF Write
<1>3. DOMAIN note \subseteq Path /\ note \in [DOMAIN note -> Note]
    BY DEF ImportInv, ImportType
<1>4. manual \in BOOLEAN /\ (Exists(Target) => manual = note[Target].manual)
    BY <1>3, Zenon DEF Exists, Note
<1>5. text = [Rendering(job.into, job.entry) EXCEPT !.manual = manual]
    BY DEF Rendered
<1> HIDE DEF manual, text
<1>6. text \in Note /\ text.owner = job.into /\ text.entry = job.entry /\ text.manual = manual
    BY <1>2, <1>4, <1>5 DEF Rendering, Note
<1> QED BY <1>1, <1>2, <1>3, <1>4, <1>6

LEMMA WriteKeeps == ASSUME ImportInv, Write PROVE ImportInv'
<1> DEFINE status == IF IndexedBefore(job.reason) THEN "index_stale" ELSE "written"
           done == [job EXCEPT !.pc = "adopt", !.path = Target, !.title = NoOne,
                               !.indexed = FALSE, !.status = status]
<1>1. job' = done /\ UNCHANGED <<kin, record, ledger, imports, faults, edits>>
    BY DEF Write, counts
<1>2. /\ job \in Jobs /\ job.pc = "write" /\ job.source \in Sources
      /\ Decided(job, record[job.into])
    BY DEF Write, ImportInv, ImportType, OnTrack
<1>3. /\ Target \in Path /\ job.into \in Sources /\ job.entry \in Entries /\ job.reason \in Written
      /\ job.reason # "new_source_record" => Target = record[job.into].path
    BY <1>2, TargetIsPath
<1>4. status \in {"index_stale", "written"}
    OBVIOUS
<1> HIDE DEF status
<1>5. /\ done \in Jobs /\ done.pc = "adopt" /\ done.path = Target /\ done.status = status
      /\ done.source = job.source /\ done.entry = job.entry /\ done.into = job.into
      /\ done.reason = job.reason
    BY <1>2, <1>3, <1>4 DEF Jobs
<1> HIDE DEF done
<1>6. ImportType'
    BY <1>1, <1>5, WrittenNote DEF ImportInv, ImportType
<1>7. RecordsAreSound(record)' /\ LedgerIsSound(ledger)'
    BY <1>1 DEF ImportInv
<1>8. NotesTell(record, note)'
    <2> SUFFICES ASSUME NEW s \in Sources, Settled(record[s]), record[s].path \in DOMAIN note',
                        note'[record[s].path].owner = s
                 PROVE  IsPrefix(record[s].entry[1], note'[record[s].path].entry[1])
        BY <1>1 DEF NotesTell
    <2>1. CASE record[s].path = Target
        <3>1. s = job.into /\ note'[record[s].path].entry = job.entry
            BY <2>1, WrittenNote
        <3> QED BY <3>1, <1>2, ImportExtends
    <2>2. CASE record[s].path # Target
        <3>1. record[s].path \in DOMAIN note /\ note'[record[s].path] = note[record[s].path]
            BY <2>2, WrittenNote
        <3> QED BY <3>1 DEF ImportInv, NotesTell
    <2> QED BY <2>1, <2>2
<1>9. Decided(done, record[done.into])
    BY <1>2, <1>3, <1>5 DEF Decided
<1>10. OnTrack(job, record)'
    BY <1>1, <1>2, <1>3, <1>4, <1>5, <1>9 DEF OnTrack
<1>11. Landed(job, note)'
    BY <1>1, <1>5, WrittenNote DEF Landed
<1>12. Repeatable(job, record, note, ledger)'
    BY <1>1, <1>2, <1>3, <1>5 DEF Repeatable, ImportInv, Written
<1> QED BY <1>6, <1>7, <1>8, <1>10, <1>11, <1>12 DEF ImportInv

\* A write of one record, R, which becomes S.
LEMMA RecordWrites ==
    ASSUME ImportInv, NEW r \in Sources, NEW S \in Record, IsSound(S),
           record' = [record EXCEPT ![r] = S], note' = note,
           Settled(S) /\ S.path \in DOMAIN note /\ note[S.path].owner = r
               => IsPrefix(S.entry[1], note[S.path].entry[1])
    PROVE  /\ record' \in [Sources -> Record] /\ record'[r] = S
           /\ RecordsAreSound(record)' /\ NotesTell(record, note)'
<1>1. record' \in [Sources -> Record] /\ record'[r] = S /\ \A s \in Sources \ {r} : record'[s] = record[s]
    BY DEF ImportInv, ImportType
<1>2. RecordsAreSound(record)'
    BY <1>1 DEF ImportInv, RecordsAreSound
<1>3. NotesTell(record, note)'
    <2> SUFFICES ASSUME NEW s \in Sources, Settled(record'[s]), record'[s].path \in DOMAIN note,
                        note[record'[s].path].owner = s
                 PROVE  IsPrefix(record'[s].entry[1], note[record'[s].path].entry[1])
        BY DEF NotesTell
    <2>1. CASE s = r
        BY <1>1, <2>1
    <2>2. CASE s # r
        BY <1>1, <2>2 DEF ImportInv, NotesTell
    <2> QED BY <2>1, <2>2
<1> QED BY <1>1, <1>2, <1>3

LEMMA FinishedIsJob ==
    ASSUME ImportInv, job.source \in Sources, job.entry \in Entries
    PROVE  /\ Finished \in Jobs /\ Finished.pc = "done"
           /\ Finished.source = job.source /\ Finished.entry = job.entry
BY AtRest DEF Finished, Idle, Jobs

\* The import goes on to pc, or is through.
LEMMA GoesOn ==
    ASSUME ImportInv, NEW pc \in {"fingerprint", "place", "sync"}
    PROVE  LET on == [job EXCEPT !.pc = pc] IN
           /\ on \in Jobs /\ on.pc = pc /\ on.source = job.source /\ on.entry = job.entry
           /\ on.into = job.into /\ on.path = job.path /\ on.reason = job.reason
           /\ on.status = job.status
BY DEF ImportInv, ImportType, Jobs

\* What follows the write of the record, whichever it was.
LEMMA RecordStep ==
    ASSUME ImportInv, job.pc \in {"adopt", "fingerprint", "place"},
           NEW S \in Record, IsSound(S), Adopted(job, S),
           record' = [record EXCEPT ![job.into] = S],
           UNCHANGED <<kin, note, ledger, imports, faults, edits>>,
           Settled(S) /\ S.path \in DOMAIN note /\ note[S.path].owner = job.into
               => IsPrefix(S.entry[1], note[S.path].entry[1]),
           \/ \E pc \in {"fingerprint", "place", "sync"} :
                /\ job' = [job EXCEPT !.pc = pc]
                /\ job.status # "none"
                /\ pc = "fingerprint" => S.text = job.entry[1]
                /\ pc \in {"fingerprint", "place"} => job.reason \in Written
           \/ job' = Finished /\ (kin = "alone" => HashFits(S, ledger[job.source], note))
    PROVE  ImportInv'
<1>1. /\ job.source \in Sources /\ job.entry \in Entries /\ job.into \in Sources
      /\ job \in Jobs /\ S.path \in Path /\ job.path = S.path
    BY DEF ImportInv, ImportType, OnTrack, Adopted, IsSound
<1>2. /\ record' \in [Sources -> Record] /\ record'[job.into] = S
      /\ RecordsAreSound(record)' /\ NotesTell(record, note)'
    BY <1>1, RecordWrites
<1>3. LedgerIsSound(ledger)'
    BY DEF ImportInv
<1>4. ASSUME NEW pc \in {"fingerprint", "place", "sync"}, job' = [job EXCEPT !.pc = pc],
             job.status # "none", pc = "fingerprint" => S.text = job.entry[1],
             pc \in {"fingerprint", "place"} => job.reason \in Written
      PROVE  ImportInv'
    <2>1. /\ job' \in Jobs /\ job'.pc = pc /\ job'.source = job.source /\ job'.entry = job.entry
          /\ job'.into = job.into /\ job'.path = job.path /\ job'.reason = job.reason
          /\ job'.status = job.status
        BY <1>4, GoesOn
    <2>2. ImportType'
        BY <1>2, <2>1 DEF ImportInv, ImportType
    <2>3. Adopted(job', S)
        BY <2>1 DEF Adopted
    <2>4. OnTrack(job, record)'
        BY <1>1, <1>2, <1>4, <2>1, <2>3 DEF OnTrack
    <2>5. Landed(job, note)'
        BY <2>1, <1>4 DEF Landed, ImportInv
    <2>6. Repeatable(job, record, note, ledger)'
        BY <2>1 DEF Repeatable, ImportInv
    <2> QED BY <1>2, <1>3, <2>2, <2>4, <2>5, <2>6 DEF ImportInv
<1>5. ASSUME job' = Finished, kin = "alone" => HashFits(S, ledger[job.source], note)
      PROVE  ImportInv'
    <2>1. /\ job' \in Jobs /\ job'.pc = "done"
          /\ job'.source = job.source /\ job'.entry = job.entry
        BY <1>1, <1>5, FinishedIsJob
    <2>2. ImportType'
        BY <1>2, <2>1 DEF ImportInv, ImportType
    <2>3. kin = "alone" => job.into = job.source
        BY DEF ImportInv, Repeatable
    <2>4. Repeatable(job, record, note, ledger)'
        BY <1>1, <1>2, <1>5, <2>1, <2>3 DEF Repeatable, Adopted
    <2>5. OnTrack(job, record)' /\ Landed(job, note)'
        BY <2>1 DEF OnTrack, Landed
    <2> QED BY <1>2, <1>3, <2>2, <2>4, <2>5 DEF ImportInv
<1> QED BY <1>4, <1>5

LEMMA AdoptKeeps == ASSUME ImportInv, Adopt PROVE ImportInv'
<1> DEFINE r == job.into
           R == record[r]
           text == job.entry[1]
           noRow == job.reason = "source_packaging_changed" /\ job.status = "none"
<1>1. /\ job.pc = "adopt" /\ job.source \in Sources /\ job.entry \in Entries /\ r \in Sources
      /\ job.path \in Path /\ Decided(job, R)
      /\ job.reason \in Written \cup {"source_packaging_changed", "identity_hydrated"}
      /\ job.reason \in Written => job.status # "none"
    BY DEF Adopt, ImportInv, OnTrack
<1>2. R \in Record /\ IsSound(R) /\ text \in Texts /\ text # NoText
    BY <1>1, EntriesAreEntries, TextsAreTexts DEF ImportInv, ImportType, RecordsAreSound
<1>3. UNCHANGED <<kin, note, ledger, imports, faults, edits>>
    BY DEF Adopt, counts
<1>4. CASE job.reason = "new_source_record"
    <2> DEFINE S == [state |-> "current", entry |-> job.entry, text |-> text,
                     prints |-> NoText, path |-> job.path]
    <2>1. S \in Record /\ IsSound(S) /\ ~Settled(S) /\ Adopted(job, S) /\ S.text = text
        BY <1>1, <1>2 DEF Record, IsSound, Settled, Adopted
    <2>2. record' = [record EXCEPT ![r] = S] /\ job' = [job EXCEPT !.pc = "fingerprint"]
        BY <1>4 DEF Adopt
    <2>3. job.reason \in Written
        BY <1>4 DEF Written
    <2> HIDE DEF S
    <2> QED BY <1>1, <1>3, <2>1, <2>2, <2>3, RecordStep
<1>5. CASE job.reason = "source_continued"
    <2> DEFINE S == [R EXCEPT !.state = "current", !.entry = job.entry, !.text = text]
    <2>1. R.path = job.path /\ R.prints # text
        BY <1>1, <1>5 DEF Decided, IsStrictPrefix
    <2>2. /\ S \in Record /\ S.state = "current" /\ S.entry = job.entry /\ S.text = text
          /\ S.prints = R.prints /\ S.path = R.path
        BY <1>1, <1>2 DEF Record
    <2>3. job' = [job EXCEPT !.pc = "fingerprint"]
        BY <1>5 DEF Adopt
    <2>4. record' = [record EXCEPT ![r] = S]
        <3>1. record' = [record EXCEPT ![r].state = "current",
                                       ![r].entry = job.entry, ![r].text = text]
            BY <1>5 DEF Adopt
        <3> QED BY <3>1, <1>1 DEF ImportInv, ImportType
    <2> HIDE DEF S
    <2>5. IsSound(S) /\ ~Settled(S) /\ Adopted(job, S)
        BY <1>1, <2>1, <2>2 DEF IsSound, Settled, Adopted
    <2>6. job.reason \in Written
        BY <1>5 DEF Written
    <2> QED BY <1>1, <1>3, <2>2, <2>3, <2>4, <2>5, <2>6, RecordStep
<1>6. CASE job.reason \notin {"new_source_record", "source_continued"}
    <2>1. /\ record' = IF R.state = "unhydrated"
                       THEN [record EXCEPT ![r].state = "current", ![r].entry = job.entry,
                                           ![r].text = text, ![r].prints = text]
                       ELSE [record EXCEPT ![r].entry = job.entry]
          /\ job' = IF job.reason \in Written THEN [job EXCEPT !.pc = "place"]
                    ELSE IF job.reason = "identity_hydrated" \/ noRow THEN Finished
                    ELSE [job EXCEPT !.pc = "sync"]
        BY <1>6 DEF Adopt
    <2>2. /\ R.state \in {"unhydrated", "current"} /\ R.path = job.path
          /\ R.entry = job.entry \/ (R.state = "current" /\ text \in {R.text, R.prints})
        BY <1>1, <1>2, <1>6 DEF Decided, Record
    <2>3. PICK S \in Record :
            /\ record' = [record EXCEPT ![r] = S]
            /\ S.state = "current" /\ S.entry = job.entry /\ S.path = R.path
            /\ R.state = "unhydrated" => S.text = text /\ S.prints = text
            /\ R.state = "current" => S.text = R.text /\ S.prints = R.prints
        <3>1. CASE R.state = "unhydrated"
            <4> DEFINE S == [R EXCEPT !.state = "current", !.entry = job.entry,
                                      !.text = text, !.prints = text]
            <4>1. /\ S \in Record /\ S.state = "current" /\ S.entry = job.entry
                  /\ S.text = text /\ S.prints = text /\ S.path = R.path
                BY <1>1, <1>2 DEF Record
            <4>2. record' = [record EXCEPT ![r] = S]
                BY <1>1, <2>1, <3>1 DEF ImportInv, ImportType
            <4> HIDE DEF S
            <4> QED BY <3>1, <4>1, <4>2
        <3>2. CASE R.state = "current"
            <4> DEFINE S == [R EXCEPT !.entry = job.entry]
            <4>1. /\ S \in Record /\ S.state = "current" /\ S.entry = job.entry
                  /\ S.text = R.text /\ S.prints = R.prints /\ S.path = R.path
                BY <1>1, <1>2, <3>2 DEF Record
            <4>2. record' = [record EXCEPT ![r] = S]
                BY <1>1, <2>1, <3>2 DEF ImportInv, ImportType
            <4> HIDE DEF S
            <4> QED BY <3>2, <4>1, <4>2
        <3> QED BY <2>2, <3>1, <3>2
    <2>4. IsSound(S) /\ Adopted(job, S)
        BY <1>1, <1>2, <2>2, <2>3 DEF IsSound, Adopted
    <2>5. ASSUME Settled(S), S.path \in DOMAIN note, note[S.path].owner = r
          PROVE  IsPrefix(S.entry[1], note[S.path].entry[1])
        <3>1. Settled(R) /\ R.entry[1] = S.entry[1]
            BY <1>2, <2>2, <2>3, <2>5 DEF Settled, IsSound
        <3>2. IsPrefix(R.entry[1], note[R.path].entry[1])
            BY <1>1, <2>3, <2>5, <3>1 DEF ImportInv, NotesTell
        <3> QED BY <2>3, <3>1, <3>2
    <2>6. CASE job.reason \in Written
        BY <1>1, <1>3, <2>1, <2>3, <2>4, <2>5, <2>6, RecordStep
    <2>7. CASE job.reason \notin Written /\ (job.reason = "identity_hydrated" \/ noRow)
        <3>1. job' = Finished
            BY <2>1, <2>7
        <3>2. ASSUME kin = "alone" PROVE HashFits(S, ledger[job.source], note)
            <4>1. r = job.source /\ LedgerIsSound(ledger)
                BY <1>1, <3>2 DEF ImportInv, Repeatable
            <4>2. CASE job.reason = "identity_hydrated"
                <5>1. HashFits(R, ledger[job.source], note)
                    BY <1>1, <3>2, <4>1, <4>2 DEF ImportInv, Repeatable
                <5> QED BY <2>3, <5>1 DEF HashFits
            <4>3. CASE noRow
                <5>1. ledger[job.source].hash = {}
                    BY <1>1, <3>2, <4>1, <4>3 DEF ImportInv, Repeatable, LedgerIsSound
                <5> QED BY <5>1 DEF HashFits
            <4> QED BY <2>7, <4>2, <4>3
        <3> QED BY <1>1, <1>3, <2>3, <2>4, <2>5, <3>1, <3>2, RecordStep
    <2>8. CASE job.reason \notin Written /\ ~(job.reason = "identity_hydrated" \/ noRow)
        <3>1. job' = [job EXCEPT !.pc = "sync"] /\ job.status # "none"
            BY <1>1, <2>1, <2>8
        <3> QED BY <1>1, <1>3, <2>3, <2>4, <2>5, <3>1, RecordStep
    <2> QED BY <2>6, <2>7, <2>8
<1> QED BY <1>4, <1>5, <1>6

LEMMA StoreFingerprintsKeeps == ASSUME ImportInv, StoreFingerprints PROVE ImportInv'
<1> DEFINE R == record[job.into]
           text == job.entry[1]
           S == [R EXCEPT !.prints = text]
<1>1. /\ job.pc = "fingerprint" /\ job.source \in Sources /\ job.entry \in Entries
      /\ job.into \in Sources /\ job.reason \in Written
      /\ R.text = text /\ Adopted(job, R) /\ job.status # "none"
    BY DEF StoreFingerprints, ImportInv, OnTrack
<1>2. R \in Record /\ IsSound(R) /\ text \in Texts
    BY <1>1, EntriesAreEntries DEF ImportInv, ImportType, RecordsAreSound
<1>3. /\ S \in Record /\ S.state = R.state /\ S.entry = R.entry /\ S.text = R.text
      /\ S.prints = text /\ S.path = R.path
    BY <1>1, <1>2 DEF Record
<1>4. record' = [record EXCEPT ![job.into] = S]
    BY <1>1 DEF StoreFingerprints, ImportInv, ImportType
<1>5. \E pc \in {"place", "sync"} : job' = [job EXCEPT !.pc = pc]
    BY DEF StoreFingerprints
<1>6. UNCHANGED <<kin, note, ledger, imports, faults, edits>>
    BY DEF StoreFingerprints, counts
<1> HIDE DEF S
<1>7. IsSound(S) /\ Adopted(job, S)
    BY <1>1, <1>2, <1>3 DEF IsSound, Adopted
<1>8. S.path \in DOMAIN note => IsPrefix(S.entry[1], note[S.path].entry[1])
    <2>1. S.path = job.path /\ S.entry = job.entry
        BY <1>7 DEF Adopted
    <2>2. job.path \in DOMAIN note => note[job.path].entry = job.entry
        BY <1>1 DEF ImportInv, Landed
    <2> QED BY <1>2, <2>1, <2>2, TextsAreTexts
<1> QED BY <1>1, <1>3, <1>4, <1>5, <1>6, <1>7, <1>8, RecordStep

\* The note has not moved: the record has its path by now.
LEMMA PlaceKeeps == ASSUME ImportInv, Place PROVE ImportInv'
<1> DEFINE R == record[job.into]
<1>1. /\ job.pc = "place" /\ job.into \in Sources /\ Adopted(job, R) /\ job.status # "none"
    BY DEF Place, ImportInv, OnTrack
<1>2. R \in Record /\ IsSound(R) /\ record \in [Sources -> Record]
    BY <1>1 DEF ImportInv, ImportType, RecordsAreSound
<1>3. record' = [record EXCEPT ![job.into] = R]
    <2>1. [R EXCEPT !.path = job.path] = R
        BY <1>1, <1>2 DEF Adopted, Record
    <2>2. record' = [record EXCEPT ![job.into] = [R EXCEPT !.path = job.path]]
        BY DEF Place
    <2> QED BY <2>1, <2>2
<1>4. job' = [job EXCEPT !.pc = "sync"] /\ UNCHANGED <<kin, note, ledger, imports, faults, edits>>
    BY DEF Place, counts
<1>5. Settled(R) /\ R.path \in DOMAIN note /\ note[R.path].owner = job.into
        => IsPrefix(R.entry[1], note[R.path].entry[1])
    BY <1>1 DEF ImportInv, NotesTell
<1> QED BY <1>1, <1>2, <1>3, <1>4, <1>5, RecordStep

LEMMA SyncKeeps == ASSUME ImportInv, Sync PROVE ImportInv'
<1> DEFINE k == Name(job.source)
           p == job.path
           row == RowFor(ledger[k], p, job.status)
           R == record[job.into]
<1>1. /\ job.pc = "sync" /\ job.source \in Sources /\ job.entry \in Entries
      /\ job.into \in Sources /\ p \in Path /\ (~Gives(job) => Adopted(job, R))
      /\ job.status # "none" /\ job \in Jobs
    BY DEF Sync, ImportInv, ImportType, OnTrack
<1>2. k \in Sources /\ (kin = "alone" => k = job.source)
    BY <1>1 DEF Name
<1>3. /\ ledger' = IF kin = "namesakes" /\ \E r \in Sources \ {job.source} : Known(r)
                   THEN ledger
                   ELSE [ledger EXCEPT ![k] = row]
      /\ job' = IF Gives(job) THEN Idle ELSE Finished
      /\ UNCHANGED <<kin, record, note, imports, faults, edits>>
    BY DEF Sync, counts, Gives
<1>4. ledger[k] \in Row /\ (ledger[k].hash = {} \/ \E n \in Note : ledger[k].hash = {n})
    BY <1>2 DEF ImportInv, ImportType, LedgerIsSound
<1>5. job.status \in {"written", "failed_retryable", "index_stale"}
    BY <1>1 DEF Jobs
<1>6. /\ row \in Row /\ row.status # "none" /\ row.path = p
      /\ row.hash = {} \/ \E n \in Note : row.hash = {n}
      /\ Exists(p) => row.hash = {Managed(note[p])}
    BY <1>1, <1>4, <1>5, RowForIsSound
<1> HIDE DEF row
<1>7. ledger' \in [Sources -> Row] /\ LedgerIsSound(ledger)'
    <2>1. CASE ledger' = ledger
        BY <2>1 DEF ImportInv, ImportType
    <2>2. CASE ledger' = [ledger EXCEPT ![k] = row]
        BY <1>2, <1>6, <2>2, LedgerWrites
    <2> QED BY <1>3, <2>1, <2>2
<1>8. CASE Gives(job)
    <2>1. imports' \in 0 .. MaxImports /\ faults' \in 0 .. MaxFaults /\ edits' \in 0 .. MaxEdits
        BY <1>3 DEF ImportInv, ImportType
    <2> QED BY <1>3, <1>7, <1>8, <2>1, EndingKeeps
<1>9. CASE ~Gives(job)
    <2>1. /\ job' \in Jobs /\ job'.pc = "done"
          /\ job'.source = job.source /\ job'.entry = job.entry
        BY <1>1, <1>3, <1>9, FinishedIsJob
    <2>2. ImportType'
        BY <1>3, <1>7, <2>1 DEF ImportInv, ImportType
    <2>3. OnTrack(job, record)' /\ Landed(job, note)'
        BY <2>1 DEF OnTrack, Landed
    <2>4. Repeatable(job, record, note, ledger)'
        <3> SUFFICES ASSUME kin = "alone"
                     PROVE  /\ record[job.source].state = "current"
                            /\ record[job.source].entry = job.entry
                            /\ HashFits(record[job.source], ledger'[job.source], note)
            BY <1>1, <1>3, <2>1 DEF Repeatable
        <3>1. job.into = job.source /\ k = job.source
            BY <1>1, <1>2 DEF ImportInv, Repeatable
        <3>2. Adopted(job, record[job.source])
            BY <1>1, <1>9, <3>1
        <3>3. ledger'[job.source] = row
            BY <1>1, <1>3, <3>1 DEF ImportInv, ImportType
        <3>4. HashFits(record[job.source], row, note)
            BY <1>6, <3>2 DEF HashFits, Adopted, Exists
        <3> QED BY <3>2, <3>3, <3>4 DEF Adopted
    <2>5. RecordsAreSound(record)' /\ NotesTell(record, note)'
        BY <1>3 DEF ImportInv
    <2> QED BY <1>7, <2>2, <2>3, <2>4, <2>5 DEF ImportInv
<1> QED BY <1>8, <1>9

-----------------------------------------------------------------------------
(* The indexer and the user *)

LEMMA IndexKeeps ==
    ASSUME ImportInv, NEW p \in DOMAIN note, Index(p)
    PROVE  ImportInv'
<1> DEFINE k == p.name
           status == IF ledger[k].status = "index_stale" THEN "written" ELSE ledger[k].status
           row == [ledger[k] EXCEPT !.indexed = {note[p]}, !.status = status]
<1>1. p \in Path /\ note[p] \in Note /\ k \in Sources /\ ledger[k] \in Row
    BY DEF ImportInv, ImportType, Path
<1>2. /\ UNCHANGED <<kin, record, note, job, imports, faults>> /\ edits' \in 0 .. MaxEdits
      /\ ledger[k].status # "none"
    BY ImportAssumption DEF Index, ImportInv, ImportType
<1>3. ledger' = [ledger EXCEPT ![k] = row]
    BY <1>1 DEF Index, ImportInv, ImportType
<1>4. status \in {"written", "failed_retryable", "index_stale"}
    BY <1>1, <1>2 DEF Row
<1> HIDE DEF status
<1>5. row \in Row /\ row.status = status /\ row.hash = ledger[k].hash /\ row.path = ledger[k].path
    BY <1>1, <1>4 DEF Row
<1> HIDE DEF row
<1>6. ledger[k].hash = {} \/ \E n \in Note : ledger[k].hash = {n}
    BY <1>1 DEF ImportInv, LedgerIsSound
<1>7. ledger' \in [Sources -> Row] /\ LedgerIsSound(ledger)' /\ ledger'[k] = row
    BY <1>1, <1>3, <1>4, <1>5, <1>6, LedgerWrites
<1>8. \A s \in Sources : /\ ledger'[s].hash = ledger[s].hash /\ ledger'[s].path = ledger[s].path
                         /\ ledger[s].status = "none" => ledger'[s].status = "none"
    <2> SUFFICES ASSUME NEW s \in Sources
                 PROVE  /\ ledger'[s].hash = ledger[s].hash /\ ledger'[s].path = ledger[s].path
                        /\ ledger[s].status = "none" => ledger'[s].status = "none"
        OBVIOUS
    <2>1. CASE s = k
        BY <1>2, <1>5, <1>7, <2>1
    <2>2. CASE s # k
        BY <1>3, <2>2 DEF ImportInv, ImportType
    <2> QED BY <2>1, <2>2
<1>9. ImportType'
    BY <1>2, <1>7 DEF ImportInv, ImportType
<1>10. /\ RecordsAreSound(record)' /\ NotesTell(record, note)'
       /\ OnTrack(job, record)' /\ Landed(job, note)'
    BY <1>2 DEF ImportInv
<1>11. Repeatable(job, record, note, ledger)'
    <2>1. (OtherEntry(job.source, job.entry[1], FALSE))' = OtherEntry(job.source, job.entry[1], FALSE)
        BY <1>2 DEF OtherEntry
    <2>2. CASE kin # "alone"
        BY <1>2, <2>2 DEF Repeatable
    <2>3. CASE kin = "alone"
        <3>1. job.pc \in {"adopt", "done"} => job.source \in Sources
            BY <2>3 DEF ImportInv, OnTrack, Repeatable
        <3> QED BY <1>2, <1>8, <2>1, <2>3, <3>1 DEF Repeatable, ImportInv, HashFits
    <2> QED BY <2>2, <2>3
<1> QED BY <1>7, <1>9, <1>10, <1>11 DEF ImportInv

\* What a user does to notes: some go, and of those that stay owner and entry do;
\* one that does not count as edited has the managed region it had.
UserMay(notes) ==
    /\ DOMAIN notes \subseteq DOMAIN note /\ notes \in [DOMAIN notes -> Note]
    /\ \A p \in DOMAIN notes :
        /\ notes[p].owner = note[p].owner /\ notes[p].entry = note[p].entry
        /\ note[p].manual => notes[p].manual
        /\ ~notes[p].edited => ~note[p].edited /\ Managed(notes[p]) = Managed(note[p])

LEMMA UserEditsNotes ==
    ASSUME ImportInv, UserEdits
    PROVE  \E notes : UserActs(notes) /\ UserMay(notes)
<1>1. PICK p \in DOMAIN note :
        \/ UserActs([note EXCEPT ![p].edited = TRUE])
        \/ UserActs([note EXCEPT ![p].manual = TRUE])
        \/ UserActs([q \in DOMAIN note \ {p} |-> note[q]])
    BY DEF UserEdits
<1>2. note \in [DOMAIN note -> Note] /\ note[p] \in Note
    BY DEF ImportInv, ImportType
<1>3. UserMay([note EXCEPT ![p].edited = TRUE])
    <2> DEFINE n == [note[p] EXCEPT !.edited = TRUE]
    <2>1. n \in Note /\ n.owner = note[p].owner /\ n.entry = note[p].entry /\ n.edited
            /\ n.manual = note[p].manual
        BY <1>2 DEF Note
    <2>2. [note EXCEPT ![p].edited = TRUE] = [note EXCEPT ![p] = n]
        BY <1>2
    <2> HIDE DEF n
    <2>3. UserMay([note EXCEPT ![p] = n])
        BY <1>2, <2>1 DEF UserMay
    <2> QED BY <2>2, <2>3
<1>4. UserMay([note EXCEPT ![p].manual = TRUE])
    <2> DEFINE n == [note[p] EXCEPT !.manual = TRUE]
    <2>1. n \in Note /\ n.owner = note[p].owner /\ n.entry = note[p].entry
            /\ n.edited = note[p].edited /\ n.manual
        BY <1>2 DEF Note
    <2>2. [n EXCEPT !.manual = FALSE] = [note[p] EXCEPT !.manual = FALSE]
        BY <1>2 DEF Note
    <2>3. Managed(n) = Managed(note[p])
        BY <2>2 DEF Managed
    <2>4. [note EXCEPT ![p].manual = TRUE] = [note EXCEPT ![p] = n]
        BY <1>2
    <2> HIDE DEF n
    <2>5. UserMay([note EXCEPT ![p] = n])
        BY <1>2, <2>1, <2>3 DEF UserMay
    <2> QED BY <2>4, <2>5
<1>5. UserMay([q \in DOMAIN note \ {p} |-> note[q]])
    BY <1>2 DEF UserMay
<1> QED BY <1>1, <1>3, <1>4, <1>5

LEMMA UserEditsKeeps == ASSUME ImportInv, UserEdits PROVE ImportInv'
<1>1. PICK notes : UserActs(notes) /\ UserMay(notes)
    BY UserEditsNotes
<1>2. /\ note' = notes /\ job' = IF job.pc = "done" THEN Idle ELSE job
      /\ UNCHANGED <<kin, record, ledger, imports, faults>> /\ edits' \in 0 .. MaxEdits
    BY <1>1, ImportAssumption DEF UserActs, ImportInv, ImportType
<1>3. DOMAIN notes \subseteq Path /\ notes \in [DOMAIN notes -> Note]
    BY <1>1 DEF UserMay, ImportInv, ImportType
<1>4. job' = Idle \/ (job' = job /\ job.pc # "done")
    BY <1>2
<1>5. ImportType'
    BY <1>2, <1>3, <1>4, AtRest DEF ImportInv, ImportType
<1>6. RecordsAreSound(record)' /\ LedgerIsSound(ledger)'
    BY <1>2 DEF ImportInv
<1>7. NotesTell(record, note)'
    BY <1>1, <1>2 DEF ImportInv, NotesTell, UserMay
<1>8. OnTrack(job, record)'
    BY <1>2, <1>4, AtRest DEF ImportInv
<1>9. Landed(job, note)'
    BY <1>1, <1>2, <1>4, AtRest DEF ImportInv, Landed, UserMay
<1>10. Repeatable(job, record, note, ledger)'
    <2>1. CASE job' = Idle
        BY <2>1 DEF Repeatable, Idle
    <2>2. CASE job' = job /\ job.pc # "done"
        <3>1. ASSUME NEW R, NEW row, HashFits(R, row, note) PROVE HashFits(R, row, notes)
            BY <1>1, <3>1 DEF HashFits, UserMay
        <3> QED BY <1>2, <2>2, <3>1 DEF Repeatable, ImportInv
    <2> QED BY <1>4, <2>1, <2>2
<1> QED BY <1>5, <1>6, <1>7, <1>8, <1>9, <1>10 DEF ImportInv

-----------------------------------------------------------------------------
(* Theorems *)

LEMMA NothingMovesKeeps == ASSUME ImportInv, UNCHANGED vars PROVE ImportInv'
<1>1. UNCHANGED <<kin, record, note, ledger, job, imports, faults, edits>>
    BY DEF vars, stores, counts
<1>2. /\ ImportType' /\ RecordsAreSound(record)' /\ NotesTell(record, note)'
      /\ LedgerIsSound(ledger)' /\ OnTrack(job, record)' /\ Landed(job, note)'
    BY <1>1 DEF ImportInv, ImportType
<1>3. (OtherEntry(job.source, job.entry[1], FALSE))' = OtherEntry(job.source, job.entry[1], FALSE)
    BY <1>1 DEF OtherEntry
<1>4. Repeatable(job, record, note, ledger)'
    BY <1>1, <1>3 DEF Repeatable, ImportInv
<1> QED BY <1>2, <1>4 DEF ImportInv

\* The inductive invariant of imports: what was decided of a record stays so until
\* the record is written, and note, record and ledger agree as far as the import
\* under way, or the one that was cut short, has come.
THEOREM ImportInvariant == Spec => []ImportInv
<1>1. ImportInv /\ [Next]_vars => ImportInv'
    <2> SUFFICES ASSUME ImportInv, [Next]_vars PROVE ImportInv'
        OBVIOUS
    <2>1. CASE UNCHANGED vars
        BY <2>1, NothingMovesKeeps
    <2>2. CASE Next
        BY <2>2, ParseFailsKeeps, ImportKeeps, WriteKeeps, WriteFailsKeeps, AdoptKeeps,
           StoreFingerprintsKeeps, PlaceKeeps, SyncKeeps, CrashKeeps, IndexKeeps, UserEditsKeeps
        DEF Next
    <2> QED BY <2>1, <2>2
<1> QED BY InitImportInv, <1>1, PTL DEF Spec

\* All variables have their types; the ledger has at most one hash of a note.
THEOREM ImportTypeCorrect == Spec => []TypeOK
<1>1. ImportInv => TypeOK
    <2> SUFFICES ASSUME ImportInv PROVE TypeOK
        OBVIOUS
    <2>1. ASSUME NEW s \in Sources
          PROVE  ledger[s].path \in Path \cup {NoPath} /\ Cardinality(ledger[s].hash) <= 1
        <3>1. ledger[s].path \in Path \cup {NoPath}
            BY DEF ImportInv, ImportType, Row
        <3>2. CASE ledger[s].hash = {}
            <4>1. Cardinality({}) = 0
                BY FS_EmptySet
            <4> QED BY <3>1, <3>2, <4>1
        <3>3. ASSUME NEW n, ledger[s].hash = {n} PROVE Cardinality(ledger[s].hash) <= 1
            <4>1. Cardinality({n}) = 1
                BY FS_Singleton
            <4> QED BY <3>3, <4>1
        <3> QED BY <3>1, <3>2, <3>3 DEF ImportInv, LedgerIsSound
    <2>2. \A p \in DOMAIN note : note[p] \in Note
        BY DEF ImportInv, ImportType
    <2> QED BY <2>1, <2>2 DEF TypeOK, ImportInv, ImportType, Jobs
<1> QED BY <1>1, ImportInvariant, PTL

\* The note is written ahead of its record (pipeline.py, _apply_write): whenever the
\* importer died, what the record claims to have imported is in the note.
THEOREM NotesHoldRecords == Spec => []NoteHoldsRecord
<1>1. ImportInv => NoteHoldsRecord
    <2> SUFFICES ASSUME ImportInv, NEW s \in Sources, record[s].state = "current",
                        record[s].text = record[s].prints, Exists(record[s].path),
                        note[record[s].path].owner = s
                 PROVE  IsPrefix(record[s].text, note[record[s].path].entry[1])
        BY DEF NoteHoldsRecord
    <2>1. Settled(record[s]) /\ record[s].entry[1] = record[s].text
        BY DEF Settled, ImportInv, RecordsAreSound, IsSound
    <2> QED BY <2>1 DEF ImportInv, NotesTell, Exists
<1> QED BY <1>1, ImportInvariant, PTL

\* Importing once more what was just imported does nothing (the decision table of
\* decisions.py), for a source that shares its id with no other.
THEOREM RepeatsAreSkipped == Spec => []RepeatIsSkipped
<1>1. ImportInv => RepeatIsSkipped
    <2> SUFFICES ASSUME ImportInv, job.pc = "done", kin = "alone",
                        Exists(record[job.source].path), ~note[record[job.source].path].edited,
                        RowOf(job.source).status # "failed_retryable",
                        NEW d \in Decision(job.source, job.entry, FALSE, FALSE)
                 PROVE  d[1] \in Skipped \cup {"index_stale"}
        BY DEF RepeatIsSkipped
    <2> DEFINE s == job.source
    <2>1. /\ s \in Sources /\ record[s].state = "current"
          /\ \/ record[s].entry = job.entry /\ HashFits(record[s], ledger[s], note)
             \/ record[s].entry # job.entry /\ OtherEntry(s, job.entry[1], FALSE) \in Skipped
        BY DEF ImportInv, Repeatable
    <2>2. Known(s) /\ RowOf(s) = ledger[s]
        BY <2>1, PathsArePaths DEF Known, RowOf, Name
    <2>3. CASE record[s].entry # job.entry
        <3>1. d = <<OtherEntry(s, job.entry[1], FALSE), s>>
            BY <2>2, <2>3 DEF Decision
        <3> QED BY <2>1, <2>3, <3>1
    <2>4. CASE record[s].entry = job.entry
        <3>1. d = <<SameEntry(s, FALSE), s>>
            BY <2>2, <2>4 DEF Decision
        <3>2. Trusted(s).status # "failed_retryable"
            BY DEF Trusted, NoRow
        <3>3. Trusted(s).hash = {} \/ Managed(note[record[s].path]) \in Trusted(s).hash
            BY <2>1, <2>2, <2>4 DEF HashFits, Trusted, NoRow, Exists
        <3>4. SameEntry(s, FALSE) \in {"index_stale", "unchanged"}
            BY <2>1, <3>2, <3>3 DEF SameEntry
        <3> QED BY <3>1, <3>4 DEF Skipped
    <2> QED BY <2>3, <2>4
<1> QED BY <1>1, ImportInvariant, PTL

\* What a step does to a note that stays.
LEMMA NotesStay ==
    ASSUME ImportInv, [Next]_vars, NEW p \in DOMAIN note, p \in DOMAIN note'
    PROVE  /\ note[p].owner # NoOne => note'[p].owner = note[p].owner
           /\ note[p].manual => note'[p].manual
           /\ \/ note'[p].entry = note[p].entry
              \/ Write /\ p = Target
<1>1. CASE note' = note
    BY <1>1
<1>2. CASE Write
    <2>1. CASE p = Target
        <3>1. note'[p].owner = job.into /\ note'[p].manual = note[p].manual
            BY <1>2, <2>1, WrittenNote DEF Exists
        <3>2. note[p].owner \in {job.into, NoOne}
            BY <1>2, <2>1 DEF Write, Blocked, Exists
        <3> QED BY <1>2, <2>1, <3>1, <3>2
    <2>2. CASE p # Target
        BY <1>2, <2>2, WrittenNote
    <2> QED BY <2>1, <2>2
<1>3. CASE UserEdits
    <2>1. PICK notes : UserActs(notes) /\ UserMay(notes)
        BY <1>3, UserEditsNotes
    <2> QED BY <2>1 DEF UserActs, UserMay
<1>4. Write \/ UserEdits \/ note' = note
    BY DEF Next, ParseFails, Import, WriteFails, Adopt, StoreFingerprints, Place, Sync, Crash,
        Index, vars, stores
<1> QED BY <1>1, <1>2, <1>3, <1>4

\* No import takes the note of another source, whichever file names titles give
\* (FileExistsError in vault_writer.py).
THEOREM NotesAreNotTaken == Spec => NoTakeover
<1> DEFINE Stay == \A p \in DOMAIN note : note[p].owner # NoOne /\ Exists(p)'
                        => note'[p].owner = note[p].owner
<1>1. ImportInv /\ [Next]_vars => [Stay]_vars
    BY NotesStay DEF Exists
<1>2. Spec => [][Stay]_vars
    BY ImportInvariant, <1>1, PTL DEF Spec
<1> QED BY <1>2 DEF NoTakeover

\* What the user wrote below the managed region survives every import.
THEOREM UserTextStays == Spec => UserTextSurvives
<1> DEFINE Stay == \A p \in DOMAIN note : note[p].manual /\ Exists(p)' => note'[p].manual
<1>1. ImportInv /\ [Next]_vars => [Stay]_vars
    BY NotesStay DEF Exists
<1>2. Spec => [][Stay]_vars
    BY ImportInvariant, <1>1, PTL DEF Spec
<1> QED BY <1>2 DEF UserTextSurvives

\* An older, a diverged, a forced or a repeated export never takes messages out of
\* a note its record agrees with.
THEOREM NotesOnlyGrow == Spec => NoteOnlyGrows
<1> DEFINE Grow == \A s \in Sources, p \in DOMAIN note :
                        Agrees(s) /\ p = record[s].path /\ Exists(p)' => Lengthens(p)
<1>1. ImportInv /\ [Next]_vars => Grow
    <2> SUFFICES ASSUME ImportInv, [Next]_vars, NEW s \in Sources, NEW p \in DOMAIN note,
                        Agrees(s), p = record[s].path, p \in DOMAIN note'
                 PROVE  IsPrefix(note[p].entry[1], note'[p].entry[1])
        BY DEF Exists, Lengthens
    <2>1. /\ record[s].state = "current" /\ p \in DOMAIN note /\ note[p].owner = s
          /\ record[s].text = record[s].prints /\ note[p].entry[1] = record[s].text
        BY DEF Agrees, Exists
    <2>2. record[s].entry[1] = note[p].entry[1] /\ Settled(record[s])
        BY <2>1 DEF ImportInv, RecordsAreSound, IsSound, Settled
    <2>3. CASE note'[p].entry = note[p].entry
        <3>1. note[p].entry[1] \in Texts
            BY <2>1, EntriesAreEntries DEF ImportInv, ImportType, Note
        <3> QED BY <2>3, <3>1, TextsAreTexts
    <2>4. CASE Write /\ p = Target
        <3>1. s = job.into
            BY <2>1, <2>4, ImportAssumption DEF Write, Blocked, Exists
        <3>2. note'[p].entry = job.entry
            BY <2>4, WrittenNote
        <3> QED BY <2>2, <2>4, <3>1, <3>2, ImportExtends DEF Write
    <2> QED BY <2>1, <2>3, <2>4, NotesStay
<1>2. ImportInv /\ [Next]_vars => [Grow]_vars
    BY <1>1
<1>3. Spec => [][Grow]_vars
    BY ImportInvariant, <1>2, PTL DEF Spec
<1> QED BY <1>3 DEF NoteOnlyGrows

=============================================================================

# Research Memory Gateway: a TLA+ development

The repository has two programs. The **bridge** (Rust, `bridge/`) runs on a
user's machine: agents call it from hooks, it reads their transcripts, keeps what
it captured in a durable spool and uploads it. The **gateway** (Python,
`src/research_memory_gateway/`) stores what bridges upload, renders it into an
archive of Markdown notes, imports exported conversations into the same archive,
indexes the archive, keeps research memories that go through a proposal life
cycle, and serves both to agents over MCP and to people over a web UI.

This directory models their protocols in TLA+, checks the models with TLC on
small instances, and proves the main safety properties with TLAPS for every
value of the constants.

1. Inventory
2. Modules, and how they correspond to the code
3. Runs: what is checked, with which bounds, and what it shows
4. Fairness
5. Proofs
6. Where the code and its documents disagree
7. Limits the models made visible
8. Not modelled, and the plan

`PROJECT.json` lists for every definition the lines of source it models (`map`),
for every property a plausible fault of the code that breaks it (`mutants`; the
faulty forms are the operators commented *Seeded fault*), and under `hazards`
what is hard to test in this code, each at its line with the properties that
would notice.

Paths below are relative to the repository; gateway modules are named without
`src/research_memory_gateway/`, bridge modules without `bridge/src/`.

## 1. Inventory

| Component | State it keeps | Operations | What is hard | What makes it correct |
|---|---|---|---|---|
| Bridge spool (`spool.rs`) | `events` rows (status, attempts, retry time, claim time), `sessions`, `cursors`, `meta`; SQLite, one transaction per method | enqueue, claim, ack, reschedule, dead-letter, reclaim, prune, cap | several processes share it; every caller ignores a busy database | no captured event leaves before it is stored; a row has one holder |
| Bridge drain (`drain.rs`, `transport.rs`) | nothing but a batch in hand | housekeeping, claim, upload, apply the answer, reconcile sessions | daemon and detached drains overlap, are killed, stall; answers get lost or are partial | an ACK never runs ahead of the gateway; every event is settled |
| Bridge sessions (`main.rs`, `spool.rs`) | session rows, declaration marks | upsert, mark ended, finalize (with a count of the operator's), declare, mark reconciled | hooks of one session overlap and cannot always count; sessions are resumed | declared only if heard; counts are justified and not undone; ends are declared |
| Bridge watcher (`watcher.rs`, `adapters/`) | a cursor per transcript | read cursor, parse, spool, advance | two transactions; two watchers; half-written lines | the cursor never runs ahead of the spool; every line is spooled |
| Gateway ingest (`ingest/`) | ledger of events, session rows, a note per thread | batch, snapshot, session end, materialize, prune | a crash between ledger and note; retention; copies of a message under different ids | what was acknowledged is found, and shown once |
| Conversation import (`conversations/pipeline.py` ...) | notes, identity store, ledger of imports | decide, write note, record, fingerprints, ledger | a crash between any two stores; exports in any order; the user edits notes | notes only grow, keep their owner and the user's text |
| Conversation identity (`identity_store.py`, `duplicates.py`, `cli.py`) | source records, canonical conversations and what merged into what, duplicate candidates, decisions | assign an id, detect, confirm, reject, refresh the index | reviewers race each other and the importer; two databases; ids in front matter go stale | merges never make a circle; confirmed pairs stay together; recall hides nothing that was not confirmed |
| Conversation index (`conversations/index.py`) | FTS and embedding tables derived from notes | index, reindex, search, backfill | staleness against the notes and the embedding model | only vectors of current weights are searched |
| Memory service (`service.py`, `backends.py`) | memories, proposals, audit trail, a dictionary of proposals per process | propose, commit, decide, supersede, merge, delete | multi-transaction calls; several processes; crashes | nothing is marked saved that was not stored; decisions are final |
| Vector jobs (`webui/runtime.py`, `admin.py`) | job records, generation of the vector index | start, cancel, batch, rebuild | tasks and threads; a generation opened while calls are out | a generation holds nothing of older weights; "completed" is true |
| Agent surface (`agent_surface/`) | none of its own | capture, recall, verify, uploads | automatic saves into slots | one active value per slot |
| Uploads (`uploads/`) | upload sessions, files | create, put, commit, expire | expiry against commit | a committed file is whole |
| OAuth (`oauth.py`) | clients, codes, tokens | authorize, exchange, refresh, revoke | single use of codes, rotation | a code is redeemed once |
| Web UI back end (`webui/`) | admin account, sessions, login attempts, runtime settings | setup, login, change settings, reload | throttling, stale sessions | a changed password ends sessions |
| Media index (`media_index.py`) | media rows and embeddings | scan, embed, search | partial scans | as for the index |
| Readers, redaction, classification, rendering | none | pure functions of text | parsing | |
| Web UI client (`lib/api.ts`; `security.py` behind it) | tokens and cookie of the browser; per tab a flag and a list of waiting requests; at the gateway the refresh tokens it knows and when the password changed | request, refresh, send again, login, logout, change the password | tabs share the tokens, tokens expire in the middle of anything, the gateway restarts | a write runs once; one refresh per tab; old sessions end with the password |
| Web UI query cache (`lib/query.ts`) | per key the data shown and the fetch under way | mount, poll, invalidate, join | answers given before a change arrive after it | one's own changes are shown, or on their way |
| Web UI job panels (`pages/Config.tsx`, `Conversations.tsx`) | the job observed, its query and the status | start, cancel, poll, refresh, remount | the job ends, is started elsewhere or forgotten while the buttons are locked by what was read before | whoever is locked out is about to hear that nothing runs |
| Web UI proposals and memories (`Proposals.tsx`, `Memories.tsx`, `MemoryDetail.tsx`) | filter, selection, checked rows, an open editor | decide one or many, archive, restore, edit, delete, purge | agents and other tabs decide too; filters and pages change while a call is out | what the user did is on the page shown, or on its way |
| Web UI configuration forms (`Config.tsx`) | what was edited, over what the gateway reported | edit, save a credential and the fields, save a mode | a save is two calls; another tab saves | no provider is configured with a credential that is missing |
| Web UI search, recall, reader, audit (`Conversations.tsx`, `Audit.tsx`) | what was typed, submitted, selected; cached answers | submit, read, page | answers come in any order | what is shown was answered for what is asked |
| Web UI security page (`Security.tsx`, `OAuthClientsTab.tsx`) | dialogs, a secret just made | create, revoke | a secret is answered once, and its dialog may be gone | every secret is shown to the user |
| Other pages (dashboard, import, export), layout, scripts | none of record | | | |

How they interact. Hooks and watchers write the spool; drains read it and call
the ingest API over HTTP; ingest writes notes and asks the index to index them;
imports write notes through the same vault and index them; agents call the MCP
surface, which reads the index and writes the memory service; the web UI decides
proposals, and starts imports and vector jobs. The gateway's MCP server and its
web UI run in one asyncio loop of one process (`server.py:671-688`); agents may
start stdio servers of their own over the same SQLite file
(`docs/client-config.md`), and the command line of `admin.py` is one more
process. The Web UI's page runs in browser tabs: a tab has its own client, cache
and pages; tabs share the browser's storage and cookie, and meet at the gateway.

## 2. Modules, and how they correspond to the code

One action is one transaction, one file write or one stretch between two awaits
of the code; it carries everything the code does there. What processes share is
what the code shares: the database and the files. Local variables that live
across such a step are a record with a program counter per process or call.

| Module | Models | State against the code |
|---|---|---|
| `Spool` | the `events` table | `row`: status, attempts, and the three clock columns as distances from now, saturating at the thresholds the queries compare with (`wait`, `held`, `age`); `older`: the order of `created_at, rowid`. One operator per public method: the table after its transaction as a function of the table before |
| `Drain` | `drain_once`, `apply_outcome`, `handle_transport_error` over `Spool` | `worker`: the locals of a pass. Every spool call may meet a busy database and is then skipped, as the code does (it logs and goes on). Kills forget the worker. The gateway is its contract: it stores some of a request and names a verdict for each |
| `Delivery` | what the bridge promises of an event (abstract) | open, done, parked; `Drain` is shown to implement it |
| `Sessions` | `record_session_state`, `run_finalize` and `finalize_session`, `reconcile_sessions`, gateway `session_end` | `entry`: the session row; `heard`: what the gateway was told; `hook`: a capture or a `finalize-session` under way. Messages are counted, not named. `claimed` and `noted` remember for the properties what an operator claimed and what there was when a written count was taken |
| `Watcher` | `watch_once`, `parse_rollout`, `parse_transcript` | offsets in half lines: even on a line boundary, odd inside a line |
| `Ingest` | `service.py`, `store.py`, `render.py` of `ingest/` | `ledger`, session rows per thread and owner, `note`: how often a block is shown, `manual`: the user's text |
| `Import` | `decisions.py`, `pipeline.py`, `vault_writer.py`, `manifest.py`, the source records of `identity_store.py` | `note` (one per file name), `record` with its fingerprints, `row` of the ledger of imports, `job`: the importer between two writes |
| `Memory` | `service.py`, the memories and proposals of `backends.py` | the two tables, the audit trail, `cache`: the dictionary of each process, `call`: the locals of a call in progress |
| `Vectors` | vectors of memories, notes and images; the three managers and the unified rebuild of `webui/runtime.py`; `backfill_embeddings` | `vector[thing][generation]`, `job` per manager, `calls`: embeddings in the hands of a job, `rebuild`, `cli` |
| `Canonical` | the review of duplicates: `identity_store.py`, `duplicates.py`, `dedup-resolve` of `cli.py`, the ids that `pipeline.py` and `index.py` carry along, the collapse of `retrieval.py` | `record`, `rows`, `into` (merged into, and its alias), `candidate`, `decided`: the tables; `note`: the id in the front matter; `indexed`: the id in the index; `review`: the locals of one `dedup-resolve`; `importer`: the import under way |
| `Client` | `lib/api.ts` and `SessionManager` of `webui/security.py`, login, refresh, logout, password change | `at`: where each request of a page is (sent, refused, leading the refresh, parked, settled); `access`, `refresh`, `cookie`: the browser; `isRefreshing`, `refreshSubscribers`: module variables of each tab; `active`, `invalidAfter`, `era`: the session manager, on the clock of password changes |
| `Query` | one entry of the TanStack Query cache, as `lib/query.ts` uses it | the data shown, and a fetch that is sent and answered before it arrives; joining, dropping and asking anew |
| `Panels` | the four job panels, with the managers' start, status and job handlers | `tab`: the job this mount started, the one it observes, both queries and the calls; `jobs`, `listed`, `counted`: the manager |
| `Review` | `Proposals.tsx`, the proposal handlers | `desk`: filter, list, the proposal observed and selected, the checked ones, the call out; `proposals`: their status at the gateway |
| `Library` | `Memories.tsx`, `MemoryDetail.tsx`, the memory handlers | `shelf`: view, list, detail, editor, dialog, the write out; `memory`: its status at the gateway |
| `Forms` | the provider form and the retrieval mode of `Config.tsx`, the handlers of secrets and web config | `sheet`: the edits over what was reported, and the save under way; `config`, `credentials`: the gateway |
| `Explorer` | search, recall and note reader of `Conversations.tsx`, `Audit.tsx` | what was typed, submitted, selected; `answers`: for which parameters the answer under each key was given |
| `Secrets` | API keys and OAuth clients: `Security.tsx`, `OAuthClientsTab.tsx`, the handlers | `desktop`: editor, dialog with the secret, the call out, the list; `made`, `valid`: the gateway; `seen`, `dropped`: what became of each secret |
| `MCDrain`, `MCIngest`, `MCImport`, `MCMemory`, `MCVectors`, `MCCanonical`, `MCWebUI` | | small instances and their symmetries; `MCWebUI` puts the parts of the Web UI together |
| `DrainProofs`, `BridgeProofs` (`Watcher`, `Sessions`), `IngestProofs`, `ImportProofs`, `MemoryProofs`, `VectorsProofs`, `CanonicalProofs`, `WebUIProofs` | | the proofs |

`Drain` extends `Spool` and is composed with `Delivery` by a refinement mapping.
`Sessions` counts what `Drain` names, and `Drain`'s gateway is the contract
`Ingest` keeps (`AckedIsKept`). `Import` and `Canonical` are two views of one
import: the first follows the contents of the note and of the record, the second
their canonical id, and only there a record that exists may still change hands.
`Memory` and `Vectors` model their own stores; what modules share with the others
enters as a nondeterministic step (the indexer and the user in `Import`, writers
of notes and images in `Vectors`).

Some choices that need a word:

* **Who overlaps with whom.** The ingest handlers are synchronous inside one
  event loop, so requests do not overlap there, but the process may die between
  any two transactions; an exception answered with a 500 leaves the same state.
  In `Memory` a caller is a thread of control. Whether the MCP library runs
  synchronous tools in worker threads is not decided in the repository, so two
  threads in one process are among the setups beside one caller and two
  processes. In `Vectors` a job is a task of the loop; its provider calls run in
  threads, so everything between two awaits is one step.
* **Where a transaction begins.** Python's `sqlite3` opens a transaction at the first
  write; a `SELECT` in front of it sees whatever is committed by then. A review in
  `Canonical` is therefore one read after the other, and then one transaction.
* **Clocks.** Only distances that a query compares are kept. In `Drain` `Prompt`
  says that an upload ends before its rows count as stale. The configuration
  allows it (30 s request timeout by default against 120 s), but a suspended
  machine or a `request_timeout` above 120 breaks it, and then two drains do hold
  one row; what needs it says so.
* **Contents** are model values: a message, a text or a hash is told apart by
  equality, texts of `Import` by their sequence of messages, since "older",
  "continued" and "diverged" are prefixes.
* **Pages.** One event of a page (a click, an answer, a timer) with the render and
  the effects it causes is one step, since JavaScript runs it to its end. A call
  to the gateway is three: sent, served, answered. What the gateway holds is
  stamped with the change it was read after (`after` in `Review` and `Library`),
  so "shown" and "on its way" compare two numbers. One panel, desk, shelf or form
  stands for a mounted page; other tabs and agents are its environment
  (`StartElsewhere`, `DecideElsewhere`, `ChangeElsewhere`, `SaveElsewhere`).
* **What the pages leave to their environment.** The list under another filter starts
  unloaded in `Review` and `Library`: its cached copy would be shown and asked
  for anew. The proposal's detail in `Review` is answered and taken at once, the
  delay is the list's. `Review` and `Library` start with proposals and a memory
  in any status, so that one change is enough to meet every transition. In
  `Client` leaving the page drops its requests.
* **One part at a time.** `MCWebUI` fixes in `part` which page runs. The pages share
  the client, whose tokens no page reads, and the cache, where no two of these
  parts read the same key but to display it; running two at once would multiply
  states and show nothing more.

## 3. Runs

Every bound is a constant named in the `.cfg`; constants whose name starts with
`Max` exist only to bound a run.

| Run | Question | Instance |
|---|---|---|
| `DrainPrompt` | Do two drains ever hold, lose, revive or prematurely forget a row? `NothingLost`, `ClaimsAreExclusive`, `DeadLetterIsTerminal`, and the refinement `KeepsThePromise` | 2 events, 2 drains, 2 attempts, a cap of one pending row, retention, every verdict, one kill or busy database |
| `DrainSettles` | With uploads that may outlive the reclaim window, is every event settled, and no ACK ahead of the ledger? `EventuallySettled`, `AckedIsStored` | a fair daemon beside a detached drain that owes nothing |
| `Sessions` | `ReconciledWasHeard`, `ObservedIsJustified`, `EndIsDeclared` | one session that may end twice; two overlapping hooks, a watcher, a daemon; 2 messages, an operator's claim of 3, 2 faults. 914,000 states |
| `Watcher` | `NothingSkipped`, `EveryLineIsSpooled` | 3 lines, one of them unusable, two watchers, 2 faults |
| `IngestLedger` | Without retention, `ShownOnce`: no block, and no message under two ids, is shown twice | 2 threads of a conversation, 2 owners of session rows, conflicting versions, batches of 2, every kind of fault once |
| `IngestRetention` | With retention: what was acknowledged is found (`AckedIsKept`), `NoteIsNeverTruncated`, `ManualTextSurvives`, and that a crash heals (`NoteCatchesUp`) | one session row per thread, telemetry and oversized contents, 2 prunes, one crash |
| `Import` | `NoteOnlyGrows`, `NoteHoldsRecord`, `NoTakeover`, `UserTextSurvives`, `RepeatIsSkipped` | one source, two with one bare id, or two branches of one conversation; a text, its continuation and an edit of it; 3 imports, one fault, one step of the user or the indexer |
| `Memory` | `SavedWasStored`, `MergedWasStored`; of a single caller `DecisionsAreFinalAlone`, `NewestValueOnly` | one caller, two threads, two processes; 3 memories, one proposal, 4 calls, one crash |
| `Vectors` | `GenerationIsFresh`, `RebuildIsComplete` | two memories, or a note or an image and a memory yet to come; one change of weights, one other change, 2 starts, one fault |
| `Canonical` | `EveryRecordResolves`, `ConfirmedAreLinked`, `CollapseIsEarned` | three sources, alone or in a family of branches; two reviewers, three reviews; two of continued exports, files indexed and processes that die |
| `WebUI` | Each part of the Web UI by itself: `OneRefreshPerTab`, `RunsAtMostOnce`, `SessionsEndWithPassword`; `LockedIsWaiting`, `CoverageCatchesUp`; `OwnChangesAreShown`; `CredentialFirst`; `ShownMatchesAsked`; `SecretsAreShown` | two tabs, two requests in one of them, one a write; 2 tokens (`MaxTokens`), one password change (`MaxEras`), one restart (`MaxRestarts`); 2 job starts, one lost call or restart; 2 proposals and one decision, one change of a memory; 2 saves; 2 queries, one heading, 2 pages; 2 secrets. 700,000 states |
| `ExpiredRetried` | a disagreement, section 6 | one tab, no restart, no password change |

Why the bounds are enough. Two actors meet every race of two; the code has no
step that takes three. Two rows with a cap of one make the cap park something
while something stays; two attempts are the first and the last. Two attempts of
a call, one of them interrupted, show every repetition the code makes of it:
it keeps no counter a third could see. Three imports are a first export, a
second that meets its record, and a third that meets what a crash left. Four
calls let one caller propose and decide while another does. Two starts are a
rebuild and a job that may be in its way. Three sources are what makes merging
transitive, and three reviews by two reviewers let one that is late meet two that
were merged meanwhile. In the Web UI two requests are one that leads a refresh and one
that waits, two tokens are the one that expires and its successor, and the second
tab is the other holder of the storage; two starts, saves, pages and secrets are
the one under way and the one that overtakes it, and one decision or change is the
one whose answer races a fetch (a second only moves the stamps further apart: the
theorems of section 5 have no such bound). Most of the safety part does not rest
on the bounds at all: it is proved for every value of the constants (section 5).

Deadlock is not checked where the system may stop: an importer that is done and
a user who does nothing, callers without calls left, jobs that have ended.

## 4. Fairness

* `Drain`: time passes, and the daemon's loop goes on (`run_drain` loops for
  ever). Detached drains, the gateway and captures owe nothing: a request may be
  refused or lost each time, and `max_attempts` parks the event in the end.
* `Sessions`: a hook runs to its end or dies, the daemon passes again and again,
  and what is spooled is delivered, which is `EventuallySettled` of `Drain`.
* `Watcher`: the resident watcher passes again and again (`watch_loop`). The
  agent owes nothing.
* `Ingest`: the server serves the request it has, and a client sends what it was
  not told is stored until it is: strong fairness, since a crash in between
  disables the request for a while. That is what `Drain` does.
* `Client`: a call that was sent is answered, or fails, and the answer is handled
  (`ClientFairness`, weak fairness of each request's own steps). Nobody has to ask,
  to log in or out, and nothing has to expire: a later refresh that would serve a
  forgotten request is owed by nobody.
* The pages of the Web UI are checked for safety: "is on its way" in their
  properties is a state, a call that is out or a poll that is armed.
* `Import`, `Memory`, `Vectors` and `Canonical` are checked for safety only. An import is one
  pass a user starts, a call ends or dies, and a job may rightly never end
  (section 7).

## 5. Proofs

`tlapm` checks every theorem to its last leaf, from the assumptions named with
the constants (`ConfigIsValid`, `EventsAreFinite`, `DrainAssumption`,
`WatcherAssumption`, `SessionsAssumption`, `SessionsAreFinite`, `IngestAssumption`, `ImportAssumption`, `MemoryAssumption`,
`VectorsAssumption`, `CanonicalAssumption`; of the Web UI `RequestsAssumption`,
`BoundsAssumption`, `ReviewAssumption`, `LibraryAssumption`, `FormsAssumption`,
`ExplorerAssumption`, `SecretsAssumption` and `NothingIsNoData`, that a status not
yet asked for is none the gateway answers), which say what `config.rs` and the code's
own defaults ensure, that tables are finite, and what the bounds are.

* `DrainProofs`. `SafetyInv` is `TypeOK`, `AckedIsStored` and `NothingLost` with
  `AnswersMatchBatches`: what a drain still has to apply concerns rows of its
  own batch, each named once, and what the answer calls delivered is stored.
  Without it a step that applies a remembered answer could acknowledge anything.
  This needs no promptness: a drain that lost its rows to the reclaim may
  acknowledge them late, but only what is stored. `ExclusiveClaims`,
  `DeadLettersAreFinal` and `DrainKeepsThePromise` (every step of every drain is
  a step of `Delivery` or a stutter) assume `Prompt` and rest on `PromptInv`:
  rows in hand are inflight and younger than the reclaim window, so that
  nobody else touches them.
* `BridgeProofs`, the watcher. `WatcherInv` says of the offsets watchers carry what
  `NothingSkipped` says of the cursor: a second watcher may set the cursor back,
  never ahead of the spool.
* `BridgeProofs`, the sessions. `SessionsInv` says of what hooks and drains carry across their
  transactions that counts are of messages captured, or claimed by an operator, and
  short of the messages a hook found by no more than were pruned since (`noted`);
  and that declarations are of sessions that ended, so that a mark set late, after a reopening or by a second drain, still
  stands for an end the gateway was told of. The list a drain works through is
  ordered by `updated_at`: `RowsAreOrdered` (the order is total on the known rows)
  and `EveryPlaceIsTaken` (in any finite total order the ranks are 1, 2, ...) make
  sure that every place of the list holds such a session.
* `IngestProofs`. `IngestInv` says of the tables what the code takes for granted:
  an event has one row and a place among the rows of its session, a row holds what
  a bridge could have sent, what a request or a crashed one left between two
  transactions is of that kind too, and what a note shows was sent. It holds under
  every fault. Three kinds of hypotheses decide how much more does, and each is
  needed (with retention, TLC finds `AckedIsKept` violated without it): nothing is pruned (`MaxPrunes = 0`), or every
  thread has one row of sessions and what is pruned stays marked
  (`PrunesStayMarked`); no write fails and no note is unreadable; an event comes in
  one version. With them `LedgerStaysWhole` (each row of the ledger keeps what was stored, and no
  copy is made of it), `MessagesAreShownOnce`, `UserTextIsKept`,
  `NotesAreNeverTruncated` and `AcknowledgedIsKept`, which is the contract `Drain`
  assumes of the gateway. With retention `AckedIsKept` rests on `AcksAreRendered`:
  what a pruned session acknowledged is in a note that no later rendering may
  empty. A failed write or an unreadable note breaks that (section 7), so there the
  only fault allowed is a crash. `IngestAssumption` also says that events with
  equal contents are of one type, as the type is part of what
  `event_content_hash` hashes (`conversations/ingest/identity.py`).
* `ImportProofs`. An import decides by the record, writes the note, then the record,
  its fingerprints and the ledger, with crashes between. `ImportInv` says that what was
  decided holds until the record is written (`OnTrack`, `Decided`), that a note just
  written tells the entry imported unless it was deleted since (`Landed`), and what a
  record claims of its note (`NotesTell`). A record in which a crash left the hash of
  one text and the fingerprints of another is not `Settled` and claims nothing; it is
  what makes `NotesHoldRecords` hard. `RepeatsAreSkipped` needs `Repeatable`: the
  ledger has no hash of the note, or the one of the note as it is. No step moves the
  path of a source to a note of another one or of the user, nor shortens a note its
  record agrees with: hence `NotesAreNotTaken`, `UserTextStays`, `NotesOnlyGrow`.
* `MemoryProofs`. `MemoryInv` adds to `SavedWasStored` and `MergedWasStored` what
  a call carries between its transactions: a save that has yet to mark its
  proposal has stored its memory; a row waiting in a local variable of another
  call, to be written back as a whole, says nothing of a merge that is not so.
  `AloneInv` is about a single caller: no other process keeps copies, and what a
  call was told of a proposal is still true when it writes; hence
  `CopiesOfASingleCallerAgree` and `ASingleCallerDecidesOnce`. For two callers
  the conclusion is false (section 6). `CaptureInv` is about a single caller that
  captures a value: it has listed every active memory of the slot but its own, and
  stores its own when it has superseded all of them; hence `NewestValueStands`.
* `VectorsProofs`. `VectorsInv` says that a call its job still counts was begun
  in the current generation, that notes and images are embedded one by one, and
  that nothing is filed under a generation yet to come. A generation is opened
  only while nothing runs, and a job ends when no call of it is left or disowns
  those that are; so no counted call sees the generation change. `RebuildInv` is
  about what a rebuild must not leave behind (`PartsAreComplete`): a part at work
  loses none of its targets without an error, and a part that ended as completed has
  each in the current generation or passed it over; hence `RebuildsAreComplete`.
* `CanonicalProofs`. `CanonicalInv` says that a merged row and the row it leads to
  exist. `EveryRowResolves` strengthens `EveryRecordResolves` to all rows: the
  post-conditions of the transaction make sure that the row others are linked to is
  active at that moment, so a link can close no circle, whatever was read before.
  "Leads to an active row" is said of sets closed under `merged_into_id`, not by
  recursion. `EarnedInv` says of every place that holds an id (records, notes, the
  index, merged rows, what reviews and the import carry) that it belongs to a
  source tied to the one it stands for; ties only grow, so stale ids stay earned. `LinkedInv` says that what a review
  read of its two records stays so until another commits, and that the record of an
  only branch carries an active id; as a link takes all records of an id along,
  `ConfirmedStayLinked` follows.
* `WebUIProofs`, the client. `OneRefreshPerTab` is inductive together with the types: the flag
  and the list change only where a request becomes, or ceases to be, the leader.
  `RunsAtMostOnce` needs `RanIsSettled`: what the gateway carried out has been
  answered, and only what is not settled is ever sent, or sent again.
  `SessionsEndWithPassword` needs `TokensAreOfThePassword`: an access token the
  gateway still takes, and a refresh token it still knows, stand for a password it
  still takes; a refresh begun with an older one is refused when it is served.
* `WebUIProofs`, the pages. `CredentialIsFirst` needs `StoredIsKept`: a save that has come to
  its second call has stored what it sends; `ShownIsAsked` needs `FiledAsAsked`:
  an answer is filed under the key of its own parameters; `EverySecretIsShown`
  needs `AnswersCarryTheirSecret`: a call carries a secret from the moment it is
  served, so none is made without a call to bring it. `OwnChangesShow` rests on one
  predicate of a cache entry, `IsFresh`, which the steps of `Query` keep, for the
  desk (its list and its detail) and for the shelf (the page it shows).
* `WebUIProofs`, the job panels. `LockedPanelsWait` and `CoverageFollows` rest on
  `PanelsInv`: what the tab has heard of jobs and of the index was so when the
  gateway said it (`TabIsSound`), each job took one start (`StartsAreCounted`), and
  `View`, what every render leaves behind: the job observed has been asked for, and
  an end the panel shows, or the conversations panel has seen once, is followed by a
  status that counts that job (`Covers`) and no longer says that it runs (`Tells`).
  The one end that is followed by none is the backfill's `completed_with_errors`,
  which its effect takes no notice of (`EndsSeen`); `CoverageCatchesUp` excepts it.
  Rendering and its effects are treated once, in `RenderingKeepsView`; each action
  adds what it changed beforehand.
* `WebUIProofs`, all parts. `WebUITypeCorrect` joins these invariants with what they
  say nothing of: decisions are of proposals there are
  (`DecisionsAreOfProposals`), secrets are of credentials made (`SecretsAreMade`).

Every invariant and every action property the passing runs check is stated by a
theorem. Only model-checked is what is temporal beyond that (`EventuallySettled`,
`EndIsDeclared`, `EveryLineIsSpooled`, `NoteCatchesUp`), since liveness under
fairness and `ENABLED` are out of the prover's reach. The inductive invariants
(`ImportInv`, `MemoryInv`, `VectorsInv`, `CanonicalInv` ...) are proved and in no run.

## 6. Where the code and its documents disagree

One disagreement has a run of its own, which must find the violation.

* `ExpiredRetried`: `webui/frontend/src/lib/api.ts:114` says "Handle auth expired &
  retry with refreshed token". The request that leads the refresh calls
  `onRefreshed` (line 132), which serves the list of subscribers and empties it,
  and only afterwards, at line 151, subscribes itself. It is not sent again, and its
  caller waits until some later refresh of the same page serves it, a write
  included. `RunsAtMostOnce` holds nonetheless.

Others were met while modelling and have no run, being of the same kinds or
plain from one line of code:

* `docs/CONVERSATION_INGEST_PROTOCOL.md:257-260` says a pruned ledger "can only cause
  an append, never a truncation". `_materialize` asks only the oldest session row of
  the thread whether its ledger was pruned (`ingest/service.py:347`), and the session
  end the bridge declares (`drain.rs:271-281`) names no account namespace and so
  makes a second row. `IngestRetention` has one session row per thread.
* `conversations/retrieval.py:460-463` says rejected pairs "never share a canonical id
  and therefore never collapse". `confirm_candidate_link` looks at the decision on
  its own pair only: with a-b and b-c confirmed, a and c share an id though a
  reviewer rejected a-c. `CollapseIsEarned` is what does hold.
* `conversations/pipeline.py:28-30` says an older export must not truncate a newer
  stored note. The note is written before its record (`pipeline.py:403`) and the
  record before its fingerprints (`identity_store.py:495`): after a crash in
  between, an older export is taken for new, or for a continuation, and replaces
  the newer note. `NoteOnlyGrows` speaks of notes their record agrees with.
* `tests/test_models.py:1209-1219` calls rejected and expired proposals terminal. With
  two processes over one database one decides and the other, which has the proposal
  in its dictionary (`service.py:775`), decides again: no `UPDATE` names the status
  it expects. `DecisionsAreFinalAlone` is about a single caller.
* `docs/RESEARCH_MEMORY_BRIDGE.md:285` calls dead-letter rows terminal; `ack` and
  `reschedule` update by id whatever the status is (`spool.rs:297`), so a drain
  that outlived the reclaim window revives a row another one parked.
  `DeadLetterIsTerminal` is therefore checked and proved under `Prompt`.
* `transport.rs:10-11` against `drain.rs:223`: an expired token uses up attempts.
* `docs/RESEARCH_MEMORY_BRIDGE.md:15` against `drain.rs:235`: the delay after a
  failed request does not grow with the attempts.
* `watcher.rs:239-240` against `spool.rs:576`: a session that ends, is declared,
  is resumed and ends again is not declared again, since the first declaration
  leaves its key in `meta`. `EndIsDeclared` is about ends the spool does not hold
  declared; in `Sessions.cfg` a session ends twice.
* `main.rs:377-378` calls the count of a session "a number the bridge can actually
  justify", and `spool.rs:533-535` "exactly what the bridge actually holds".
  `finalize-session` takes the operator's `--observed-message-count` unchecked
  (`main.rs:921`), and the larger of two counts stays. `ObservedIsJustified` says so.
* `docs/CONVERSATION_INGEST_PROTOCOL.md:257-258` against `ingest/store.py:703`: an
  event that was stored and never rendered may be pruned.
* `docs/REMEDIATION_TASKBOOK.md:474-480` and `docs/IMPLEMENTATION_TASKBOOK.md:286`
  against `pipeline.py`: after a crash before `_sync_legacy_record`, or with a
  namesake's row in the ledger, an untouched note is reported as
  `managed_output_modified` from then on. `RepeatIsSkipped` is about a source
  that is alone.
* `docs/TASKBOOK_V026.md:471` against `chatgpt_export.py:512-528`: the branch of a
  ChatGPT conversation is its last node, so the continued conversation comes as
  another branch and gets a second note.
* `README.md:528` says an outdated vector is marked; a backfill that read a memory
  before it was saved anew replaces the newer vector by the older one
  (`webui/runtime.py:312`), and the command line removes the mark.

## 7. Limits the models made visible

These are what the code does, not promised otherwise, and each property is
worded so that it does not hide them.

* Bridge: a batch refused with a 400 parks all of it (`drain.rs:155`), and a
  refused declaration holds up the sessions behind it (`drain.rs:300`); the
  pending cap is counted and applied in two statements, so two drains may park
  twice the excess; transient rejections are retried for ever (`drain.rs:193`). An
  end may be declared while events of the session still wait, and it is marked
  reconciled however many the gateway misses, which is only logged (`drain.rs:288`).
* Ingest: a note that cannot be read is taken for missing (`service.py:381`), and
  text the user saves between the read and the write of a rendering is lost
  (`service.py:376`). An event id that comes again with another content after its row
  was pruned is accepted, acknowledged and not shown, since the note already shows
  the id. A note that was written but not indexed is not indexed by a later
  duplicate (`service.py:532`).
* Import: two importers at once, a parser upgrade over an unchanged entry (never
  rebuilt), a migrated note without a source key (may be taken over) and branch
  siblings' ledger rows (never marked as indexed) are outside the properties.
* Identity: of two reviews that overlap, the later may link a conversation that was
  merged away in between, and the pair it confirmed stays apart
  (`ConfirmedAreLinked` leaves out reviews another commit fell into); a rejection
  and a confirmation of one candidate may both go through; a branch imported after
  its family was merged away keeps the family's old id, whose row leads on, but
  `recall` compares ids without following them; a crash between a record and its
  canonical row leaves a record that can never be confirmed; a rebuild of the index
  takes the ids of the front matter, which no confirmation changes.
* Memory: rows are read, changed and written back whole, so of two concurrent
  callers one update is lost, and a deleted memory may come back; two captures of
  one slot may leave two active values. A crash after the store leaves a proposal
  pending that was saved.
* Vectors: after a busy database fails a job, its other calls go on and may file
  vectors of old weights under a generation opened meanwhile (`GenerationIsFresh`
  leaves out what such a stray call wrote); a start whose audit event cannot be
  written leaves a job that runs for ever and blocks its manager until a restart;
  "completed" may cover things a cancellation or a switched-off provider made the
  job pass over (`RebuildIsComplete` leaves those out); a rebuild once cancelled
  is reported completed if all its parts completed; a vector kept after an update
  whose own embedding failed is not backfilled, since the mark is informational.
* Bridge watcher and memory vectors: a transcript that was truncated or replaced is
  shorter than its cursor, and the clamped offset may lie inside a line
  (`adapters/codex.rs:338`); a memory saved anew while a backfill embeds its older
  text ends with the older vector (`webui/runtime.py:312`).
* Web UI, sessions: a restart of the gateway forgets when the password was changed
  (`SessionsEndWithPassword` speaks of one run of it), so an access token of the old
  password is good again until it expires.
* Web UI, panels: the conversations panel does not poll its status, so after a failed
  status query, or a first failed job query, it stays locked until it is
  refreshed; the backfill panel refreshes its coverage when a job completed, failed
  or was cancelled, not when it completed with errors (`Config.tsx:500-506`); a
  refetch joins a page's first fetch, which may have been answered before the
  change. The properties name these cases.
* Web UI, edits: the editor of a memory sends back the whole memory as it was when the
  editor was opened (`MemoryDetail.tsx:87`), and so undoes what changed meanwhile;
  the retrieval mode and the fields beside it are saved as displayed, stale or
  not, so the last of two tabs wins.
* Web UI, secrets: an API key whose dialog was closed while its creation was under way
  exists and is never shown; all calls of the OAuth tab are of one mutation, whose
  callback only the latest call gets.

## 8. Not modelled, and the plan

Not modelled because there is no state to go wrong: readers of export formats,
redaction, classification, scoring, the Markdown of notes, operational scripts,
and of the Web UI what shows one query or sends one form: the dashboard, the
import and export pages, the page that enters a memory, connection tests, model
lists, dry runs, sorting, search and paging of the memories, styling, translations
and generated controls. Enabling, disabling and renaming OAuth clients are calls
like those of `Secrets`, without a secret to lose.

Not modelled yet, in the order planned:

1. `TextIndex`: what ingest, imports and the command line index of a note, the
   sections, renames and deletions (`conversations/index.py`), and recall's view
   of it; `Vectors` and `Canonical` then take their notes from there.
2. `Access`: OAuth codes, tokens and refresh rotation (`oauth.py`), the admin's
   setup and login throttling (`webui/auth_routes.py`); the session manager is in
   `Client`.
3. `Uploads`: upload sessions, expiry and commits (`uploads/`), attachments.
4. `Settings`: runtime settings, their reload and the clients built from them.

Each of them comes with its theorems; of the modules there are, no invariant or
action property is left to prove.

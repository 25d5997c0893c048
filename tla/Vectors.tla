------------------------------ MODULE Vectors ------------------------------
(***************************************************************************)
(* Embedding vectors of memories, conversation notes and images, and the   *)
(* jobs that rebuild them (webui/runtime.py, backends.py, admin.py,        *)
(* conversations/index.py, media_index.py).                                *)
(*                                                                         *)
(* The provider may put new weights behind the name of its model; the      *)
(* operator then opens a new generation, and only vectors of the current   *)
(* generation are searched.  Weights are numbered in the order they come.  *)
(* A job is an asyncio task of the web UI; its calls of the provider run   *)
(* in threads, everything between two awaits is one step.  The command     *)
(* line of admin.py is a process of its own.                               *)
(*                                                                         *)
(* Left out: scopes, limits and `force`, a change of the model's name, and *)
(* dimensions.  A file or an image is embedded by its content, so only a   *)
(* memory's text can be older than the memory.                             *)
(***************************************************************************)
EXTENDS Naturals, FiniteSets

CONSTANTS
    Memories, Files, Media,
    Setups,        \* what may be configured beside the memories, and what there is
    BatchSize, Concurrency,      \* of the memory job
    MaxGeneration, MaxWeights, MaxText, \* bounds on counters
    MaxChanges,    \* bound on switches, memories, notes and images written or deleted
    MaxRuns,       \* bound on the jobs and rebuilds started
    MaxFaults      \* bound on restarts, kills and busy databases

Things == Memories \cup Files \cup Media
Of == [memory |-> Memories, conversation |-> Files, media |-> Media]
Stores == DOMAIN Of

ASSUME VectorsAssumption ==
    /\ Setups \subseteq [stores : SUBSET Stores, things : SUBSET Things]
    /\ \A u \in Setups : "memory" \in u.stores
    /\ Memories \cap Files = {} /\ Memories \cap Media = {} /\ Files \cap Media = {}
    /\ BatchSize \in Nat \ {0} /\ Concurrency \in Nat \ {0}
    /\ MaxGeneration \in Nat \ {0} /\ MaxWeights \in Nat \ {0} /\ MaxText \in Nat \ {0}
    /\ MaxChanges \in Nat /\ MaxRuns \in Nat /\ MaxFaults \in Nat

VARIABLES
    setup,       \* the managers that are configured
    weights,     \* the provider's, now
    generation,  \* vector_index_state
    born,        \* generation -> the weights when it was opened (history)
    text,        \* thing -> the version of its text, 0 if there is none
    vector,      \* thing -> generation -> what was embedded, with which weights
    needed,      \* embedding_backfill_needed
    enabled,     \* embedding is configured
    job,         \* store -> the job its manager started last
    calls,       \* embeddings in the hands of a job
    rebuild,     \* the unified rebuild started last
    cli,         \* the process of backfill_embeddings
    changes, runs, faults

stored == <<text, vector, needed>>
world == <<setup, weights, generation, born, enabled>>
vars == <<world, stored, job, calls, rebuild, cli, changes, runs, faults>>

Generations == 1 .. MaxGeneration
Weights == 1 .. MaxWeights
Row == Things \X (1 .. MaxText)    \* a thing and its text, as it was read
Terminal == {"completed", "completed_with_errors", "failed", "cancelled"}
Status == Terminal \cup {"none", "running"}

Vector == [weights : Weights \cup {0}, text : 0 .. MaxText, stray : BOOLEAN]
NoVector == [weights |-> 0, text |-> 0, stray |-> FALSE]

Job == [status : Status, pc : {"first", "run", "stuck", "over"}, cancel : BOOLEAN,
        todo : SUBSET Row,       \* targets of batches to come
        errors : BOOLEAN,        \* failed > 0
        left : SUBSET Things,    \* done with, but not embedded and no error
        part : BOOLEAN]          \* of the rebuild
NoJob == [status |-> "none", pc |-> "over", cancel |-> FALSE, todo |-> {},
          errors |-> FALSE, left |-> {}, part |-> FALSE]

Call == [store : Stores, row : Row, phase : {"waiting", "embedding"},
         weights : Weights \cup {0},
         generation : Generations,  \* when it was begun
         stray : BOOLEAN]           \* its job has failed

Rebuild == [status : Status, job : [Stores -> Status], asked : SUBSET Things,
            left : SUBSET Things]
NoRebuild == [status |-> "none", job |-> [s \in Stores |-> "none"], asked |-> {}, left |-> {}]

Cli == [generation : Generations, todo : SUBSET Row]
NoCli == [generation |-> 1, todo |-> {}]

TypeOK ==
    /\ setup \subseteq Stores
    /\ weights \in Weights /\ generation \in Generations /\ born \in [Generations -> Weights]
    /\ text \in [Things -> 0 .. MaxText]
    /\ vector \in [Things -> [Generations -> Vector]]
    /\ needed \subseteq Memories /\ enabled \in BOOLEAN
    /\ job \in [Stores -> Job] /\ calls \subseteq Call
    /\ rebuild \in Rebuild /\ cli \in Cli
    /\ changes \in 0 .. MaxChanges /\ runs \in 0 .. MaxRuns /\ faults \in 0 .. MaxFaults

Init ==
    /\ \E u \in Setups :
        /\ setup = u.stores
        /\ text = [x \in Things |-> IF x \in u.things THEN 1 ELSE 0]
    /\ weights = 1 /\ generation = 1 /\ born = [g \in Generations |-> 1]
    /\ vector = [x \in Things |-> [g \in Generations |-> NoVector]]
    /\ needed = {} /\ enabled \in BOOLEAN
    /\ job = [s \in Stores |-> NoJob] /\ calls = {}
    /\ rebuild = NoRebuild /\ cli = NoCli
    /\ changes = 0 /\ runs = 0 /\ faults = 0

Has(x, g) == vector[x][g] # NoVector
Exists(x) == text[x] # 0
Running(s) == job[s].status = "running"

\* Seeded fault: a vector of any generation will do.
LackingAny(xs, g) == {<<x, text[x]>> :
    x \in {y \in xs : Exists(y) /\ \A h \in Generations : ~Has(y, h)}}

Lacking(xs, g) == {<<x, text[x]>> : x \in {y \in xs : Exists(y) /\ ~Has(y, g)}}

Put(x, g, w, t, stray) ==
    vector' = [vector EXCEPT ![x][g] = [weights |-> w, text |-> t, stray |-> stray]]
Changes == changes < MaxChanges /\ changes' = changes + 1
Begins == runs < MaxRuns /\ runs' = runs + 1
Faulty == faults < MaxFaults /\ faults' = faults + 1

-----------------------------------------------------------------------------
(* The provider, the operator's settings, and what writes memories, notes and
   images; each runs in a transaction, or on the web UI's one loop. *)

SwapWeights ==
    /\ weights < MaxWeights /\ weights' = weights + 1
    /\ UNCHANGED <<setup, generation, born, enabled, stored, job, calls, rebuild, cli, changes, runs, faults>>

Configure ==
    /\ Changes
    /\ enabled' = ~enabled
    /\ UNCHANGED <<setup, weights, generation, born, stored, job, calls, rebuild, cli, runs, faults>>

\* SQLiteMemoryBackend.save: the row, then its vector or the mark of a missing one.
Save(m, answered) ==
    /\ Changes
    /\ text[m] < MaxText /\ text' = [text EXCEPT ![m] = @ + 1]
    /\ \/ /\ enabled /\ answered
          /\ Put(m, generation, weights, text[m] + 1, FALSE)
          /\ needed' = needed \ {m}
       \/ /\ enabled /\ ~answered
          /\ needed' = needed \cup {m} /\ UNCHANGED vector
       \/ /\ ~enabled /\ ~answered
          /\ needed' = IF \E g \in Generations : Has(m, g) THEN needed \cup {m} ELSE needed
          /\ UNCHANGED vector
    /\ UNCHANGED <<world, job, calls, rebuild, cli, runs, faults>>

\* SQLiteMemoryBackend.delete; what a rebuild was asked for is gone with it.
Delete(m) ==
    /\ Changes
    /\ Exists(m)
    /\ text' = [text EXCEPT ![m] = 0]
    /\ vector' = [vector EXCEPT ![m] = [g \in Generations |-> NoVector]]
    /\ needed' = needed \ {m}
    /\ rebuild' = [rebuild EXCEPT !.asked = @ \ {m}]
    /\ UNCHANGED <<world, job, calls, cli, runs, faults>>

\* audit_integrity(repair_orphans)
RepairOrphans ==
    /\ \E m \in Memories : ~Exists(m) /\ \E g \in Generations : Has(m, g)
    /\ vector' = [x \in Things |-> IF x \in Memories /\ ~Exists(x)
                                   THEN [g \in Generations |-> NoVector] ELSE vector[x]]
    /\ UNCHANGED <<world, text, needed, job, calls, rebuild, cli, changes, runs, faults>>

\* index_file of a note that was written, index_image_file of an image; the
\* conversation job reports the index's failures as its own.
Index(x, answered) ==
    /\ Changes
    /\ ~Exists(x) /\ text' = [text EXCEPT ![x] = 1]
    /\ IF enabled /\ answered /\ ~Has(x, generation)
       THEN Put(x, generation, weights, 1, FALSE) ELSE UNCHANGED vector
    /\ IF enabled /\ ~answered /\ x \in Files
       THEN job' = [job EXCEPT !["conversation"].errors = @ \/ Running("conversation")]
       ELSE UNCHANGED job
    /\ UNCHANGED <<world, needed, calls, rebuild, cli, runs, faults>>

-----------------------------------------------------------------------------
(* Starting and cancelling *)

\* A new job; the targets of the memory job are read by its first step.
NewJob(s, part) ==
    [NoJob EXCEPT !.status = "running", !.part = part,
                  !.pc = IF s = "memory" THEN "first" ELSE "run",
                  !.todo = IF s = "memory" THEN {} ELSE Lacking(Of[s], generation)]

\* start appends an audit event after it registered the job and before it
\* creates the task: if that fails the job runs for ever.
Stuck(s, part) == [NewJob(s, part) EXCEPT !.pc = "stuck"]

MayStart(s) == s \in setup /\ ~Running(s) /\ (s # "memory" => enabled)

StartJob(s) ==
    /\ Begins
    /\ MayStart(s)
    /\ \/ job' = [job EXCEPT ![s] = NewJob(s, FALSE)] /\ UNCHANGED faults
       \/ Faulty /\ job' = [job EXCEPT ![s] = Stuck(s, FALSE)]
    /\ UNCHANGED <<world, stored, calls, rebuild, cli, changes>>

Cancel(s) ==
    /\ Running(s) /\ ~job[s].cancel
    /\ job' = [job EXCEPT ![s].cancel = TRUE]
    /\ UNCHANGED <<world, stored, calls, rebuild, cli, changes, runs, faults>>

\* UnifiedVectorRebuildManager.start: the current generation, or a new one.
Opens(new) ==
    /\ generation' = IF new THEN generation + 1 ELSE generation
    /\ generation' \in Generations
    /\ born' = IF new THEN [born EXCEPT ![generation'] = weights] ELSE born
    /\ UNCHANGED <<setup, weights, enabled>>

\* Seeded fault: jobs that run on their own are not asked for.
MayRebuildAnyTime == rebuild.status # "running" /\ enabled

MayRebuild ==
    /\ rebuild.status # "running" /\ enabled
    /\ \A s \in Stores : ~Running(s)

\* Candidates of the jobs, under the generation just opened.
Part(s) == [NewJob(s, TRUE) EXCEPT
    !.todo = IF s = "memory" THEN {} ELSE Lacking(Of[s], generation')]

StartRebuild(new) ==
    /\ Begins
    /\ MayRebuild /\ Opens(new)
    /\ job' = [s \in Stores |-> IF s \in setup THEN Part(s) ELSE job[s]]
    /\ rebuild' = [NoRebuild EXCEPT !.status = "running",
                        !.job = [s \in Stores |-> IF s \in setup THEN "running" ELSE "none"],
                        !.asked = {x \in UNION {Of[s] : s \in setup} : Exists(x)}]
    /\ UNCHANGED <<stored, calls, cli, changes, faults>>

\* The jobs started before another, or before the rebuild's own audit event.
Before == [memory |-> {}, conversation |-> {"memory"}, media |-> {"memory", "conversation"},
           end |-> Stores]

\* An audit event cannot be written on the way: the jobs started before are
\* cancelled, the one it belongs to is stuck.
StartRebuildFails(new, at) ==
    LET started == setup \cap Before[at] IN
    /\ Begins
    /\ at \in setup \cup {"end"}
    /\ Faulty /\ MayRebuild /\ Opens(new)
    /\ job' = [s \in Stores |->
            IF s \in started THEN [Part(s) EXCEPT !.cancel = TRUE]
            ELSE IF s = at THEN [Part(s) EXCEPT !.pc = "stuck", !.part = FALSE]
            ELSE job[s]]
    /\ rebuild' = [NoRebuild EXCEPT !.status = "failed",
                        !.job = [s \in Stores |-> IF s \in started THEN "running" ELSE "none"]]
    /\ UNCHANGED <<stored, calls, cli, changes>>

\* get: what the parts come to, once all have ended.
Sum(statuses) ==
    IF \E status \in statuses : status \in {"failed", "completed_with_errors"}
    THEN "completed_with_errors"
    ELSE IF "cancelled" \in statuses THEN "cancelled" ELSE "completed"

Seen(r) ==
    LET statuses == {r.job[s] : s \in {t \in Stores : r.job[t] # "none"}} IN
    IF statuses # {} /\ statuses \subseteq Terminal
    THEN [r EXCEPT !.status = Sum(statuses)] ELSE r

Poll ==
    /\ rebuild' = Seen(rebuild) /\ rebuild' # rebuild
    /\ UNCHANGED <<world, stored, job, calls, cli, changes, runs, faults>>

CancelRebuild ==
    /\ rebuild.status # "none"
    /\ job' = [s \in Stores |-> IF job[s].part /\ Running(s)
                                THEN [job[s] EXCEPT !.cancel = TRUE] ELSE job[s]]
    /\ rebuild' = Seen([rebuild EXCEPT !.status = "cancelled"])
    /\ UNCHANGED <<world, stored, calls, cli, changes, runs, faults>>

-----------------------------------------------------------------------------
(* The task of a job *)

Mine(s) == {c \in calls : c.store = s /\ ~c.stray}
AtLoop(s) == Running(s) /\ job[s].pc = "run" /\ Mine(s) = {}

\* The rebuild sees its part's status through the part.
Ended(s, status) ==
    /\ job' = [job EXCEPT ![s] = [NoJob EXCEPT !.status = status]]
    /\ rebuild' = IF job[s].part
                  THEN [rebuild EXCEPT !.job[s] = status, !.left = @ \cup job[s].left]
                  ELSE rebuild

\* The end of a job is audited; if that fails the job has failed, but a
\* cancelled memory job is not audited.
Ends(s, status) ==
    \/ Ended(s, status) /\ UNCHANGED faults
    \/ Faulty /\ ~(s = "memory" /\ status = "cancelled") /\ Ended(s, "failed")

\* While embedding is off no memory counts as embedded.
Targets == IF enabled THEN Lacking(Memories, generation)
           ELSE {<<m, text[m]>> : m \in {n \in Memories : Exists(n)}}

ReadTargets ==
    /\ Running("memory") /\ job["memory"].pc = "first"
    /\ \/ /\ job' = [job EXCEPT !["memory"].pc = "run", !["memory"].todo = Targets]
          /\ UNCHANGED <<rebuild, faults>>
       \/ Faulty /\ Ended("memory", "failed")
    /\ UNCHANGED <<world, stored, calls, cli, changes, runs>>

Finish(s) ==
    /\ AtLoop(s) /\ job[s].todo = {}
    /\ Ends(s, IF job[s].errors THEN "completed_with_errors" ELSE "completed")
    /\ UNCHANGED <<world, stored, calls, cli, changes, runs>>

Stop(s) ==
    /\ AtLoop(s) /\ job[s].todo # {} /\ job[s].cancel
    /\ Ends(s, "cancelled")
    /\ UNCHANGED <<world, stored, calls, cli, changes, runs>>

TimeOut(s) ==
    /\ AtLoop(s) /\ job[s].todo # {} /\ ~job[s].cancel
    /\ Ends(s, "failed")
    /\ UNCHANGED <<world, stored, calls, cli, changes, runs>>

\* Memories come in batches, notes and images one by one.
Batches(s) ==
    LET todo == job[s].todo IN
    IF s = "memory"
    THEN {b \in SUBSET todo : \/ Cardinality(b) = BatchSize
                              \/ b = todo /\ b # {} /\ Cardinality(b) < BatchSize}
    ELSE {{row} : row \in todo}

NextBatch(s, batch) ==
    /\ AtLoop(s) /\ ~job[s].cancel
    /\ job' = [job EXCEPT ![s].todo = @ \ batch]
    /\ calls' = calls \cup [store : {s}, row : batch, phase : {"waiting"}, weights : {0},
                            generation : {generation}, stray : {FALSE}]
    /\ UNCHANGED <<world, stored, rebuild, cli, changes, runs, faults>>

\* A call comes back; what it means for its job, if that still counts it.
Returns(c, errors, left) ==
    /\ calls' = calls \ {c}
    /\ job' = IF c.stray THEN job
              ELSE [job EXCEPT ![c.store].errors = @ \/ errors, ![c.store].left = @ \cup left]

\* Nothing to embed: the memory call finds its job cancelled or embedding off, the
\* conversation has its vector or embedding off, and is counted completed.
Skip(c) ==
    /\ c.phase = "waiting"
    /\ \/ c.store = "memory" /\ (~enabled \/ c.stray \/ job["memory"].cancel)
       \/ c.store = "conversation" /\ (~enabled \/ Has(c.row[1], generation))
       \/ c.store = "media" /\ enabled /\ Has(c.row[1], generation)
    /\ Returns(c, FALSE, {c.row[1]} \ {x \in Things : Has(x, generation)})
    /\ UNCHANGED <<world, stored, rebuild, cli, changes, runs, faults>>

Embed(c) ==
    /\ c.phase = "waiting" /\ enabled
    /\ c.store = "memory" => ~job["memory"].cancel \/ c.stray
    /\ c.store # "memory" => ~Has(c.row[1], generation)
    /\ Cardinality({d \in calls : d.store = c.store /\ d.stray = c.stray
                                  /\ d.phase = "embedding"}) < Concurrency
    /\ calls' = (calls \ {c}) \cup {[c EXCEPT !.phase = "embedding", !.weights = weights,
                                              !.generation = generation]}
    /\ UNCHANGED <<world, stored, job, rebuild, cli, changes, runs, faults>>

\* The vector goes into the generation of this moment, but an image's into the
\* one its call began with.
WriteUnder(c) == IF c.store = "media" THEN c.generation ELSE generation

Write(c) ==
    /\ c.phase = "embedding"
    /\ Put(c.row[1], WriteUnder(c), c.weights, c.row[2], c.stray)
    /\ Returns(c, FALSE, {})
    /\ UNCHANGED <<world, text, needed, rebuild, cli, changes, runs, faults>>

\* No vector comes back, or it cannot be kept.
Fail(c) ==
    /\ c.phase = "embedding" \/ (c.store = "media" /\ ~enabled)
    /\ Returns(c, TRUE, {})
    /\ UNCHANGED <<world, stored, rebuild, cli, changes, runs, faults>>

\* An image the provider will not take ends its job.
Reject(c) ==
    /\ c.store = "media" /\ c.phase = "embedding"
    /\ calls' = calls \ {c} /\ Ends("media", "failed")
    /\ UNCHANGED <<world, stored, cli, changes, runs>>

\* The write of a memory's vector finds the database busy: gather raises, the
\* job has failed, and its other calls go on without it.
Busy(c) ==
    /\ c.store = "memory" /\ c.phase = "embedding" /\ ~c.stray /\ Faulty
    /\ calls' = {[d EXCEPT !.stray = @ \/ d.store = "memory"] : d \in calls \ {c}}
    /\ Ended("memory", "failed")
    /\ UNCHANGED <<world, stored, cli, changes, runs>>

Restart ==
    /\ Faulty
    /\ \E s \in Stores : job[s] # NoJob
    /\ job' = [s \in Stores |-> NoJob] /\ calls' = {} /\ rebuild' = NoRebuild
    /\ UNCHANGED <<world, stored, cli, changes, runs>>

-----------------------------------------------------------------------------
(* backfill_embeddings, of the command line: rows and generation are read once *)

CliStart ==
    /\ Begins
    /\ cli.todo = {}
    /\ cli' = [generation |-> generation, todo |-> Lacking(Memories, generation)]
    /\ UNCHANGED <<world, stored, job, calls, rebuild, changes, faults>>

CliWrite(row) ==
    /\ row \in cli.todo
    /\ Put(row[1], cli.generation, weights, row[2], FALSE)
    /\ needed' = needed \ {row[1]}
    /\ cli' = IF cli.todo = {row} THEN NoCli ELSE [cli EXCEPT !.todo = @ \ {row}]
    /\ UNCHANGED <<world, text, job, calls, rebuild, changes, runs, faults>>

\* The provider does not answer for this one; or the process is killed.
CliDrops(rows) ==
    /\ rows # {} /\ rows \subseteq cli.todo
    /\ cli' = IF cli.todo = rows THEN NoCli ELSE [cli EXCEPT !.todo = @ \ rows]
    /\ UNCHANGED <<world, stored, job, calls, rebuild, changes, runs, faults>>

-----------------------------------------------------------------------------

Next ==
    \/ SwapWeights \/ Configure \/ RepairOrphans
    \/ \E m \in Memories : (\E answered \in BOOLEAN : Save(m, answered)) \/ Delete(m)
    \/ \E x \in Files \cup Media, answered \in BOOLEAN : Index(x, answered)
    \/ \E new \in BOOLEAN : StartRebuild(new)
                            \/ \E at \in Stores \cup {"end"} : StartRebuildFails(new, at)
    \/ Poll \/ CancelRebuild \/ ReadTargets
    \/ \E s \in Stores :
        \/ StartJob(s) \/ Cancel(s) \/ Finish(s) \/ Stop(s) \/ TimeOut(s)
        \/ \E batch \in Batches(s) : NextBatch(s, batch)
    \/ \E c \in calls : Skip(c) \/ Embed(c) \/ Write(c) \/ Fail(c) \/ Reject(c) \/ Busy(c)
    \/ Restart
    \/ CliStart
    \/ \E row \in cli.todo : CliWrite(row)
    \/ \E rows \in SUBSET cli.todo : CliDrops(rows)

Spec == Init /\ [][Next]_vars

-----------------------------------------------------------------------------
(* Properties *)

\* Opening a generation leaves the old weights behind: nothing in a generation
\* was embedded with weights older than it, unless by a call whose job failed.
GenerationIsFresh ==
    \A x \in Things, g \in Generations :
        Has(x, g) /\ ~vector[x][g].stray => vector[x][g].weights >= born[g]

\* What keeps it so: a call belongs to a running job and was begun in the current
\* generation, or its job has failed; a job of notes or images has one call at a
\* time; and nothing is filed under a generation yet to come.
CallsAreCounted ==
    \A c \in calls :
        /\ c.stray => c.store = "memory"
        /\ ~c.stray =>
            /\ Running(c.store) /\ job[c.store].pc = "run"
            /\ c.generation = generation
            /\ c.phase = "embedding" => c.weights >= born[generation]

OneByOne == \A c, d \in calls : c.store = d.store /\ c.store # "memory" => c = d

NothingAhead ==
    /\ \A x \in Things, g \in Generations : g > generation => ~Has(x, g)
    /\ \A g \in Generations : born[g] <= weights
    /\ cli.generation <= generation

\* The inductive invariant of VectorsProofs.
VectorsInv == TypeOK /\ CallsAreCounted /\ OneByOne /\ NothingAhead /\ GenerationIsFresh

\* A rebuild that reports "completed" has covered what there was when it
\* started, except what a cancellation or a setting made it pass over.
RebuildIsComplete ==
    rebuild.status = "completed" =>
        \A x \in rebuild.asked \ rebuild.left : Has(x, generation)

\* A part that has read its targets works on them.
WorksOn(s) == Running(s) /\ job[s].part /\ job[s].pc = "run"

\* x is embedded, passed over, or still to come in the job of s.
Waits(s, x) == (\E row \in job[s].todo : row[1] = x) \/ \E c \in Mine(s) : c.row[1] = x
Covered(s, x) == Has(x, generation) \/ x \in rebuild.left \cup job[s].left \/ Waits(s, x)

\* What keeps it so: a part at work loses none of its targets without an error,
\* and a part that ended "completed" has left none behind.
PartsAreComplete ==
    \A s \in Stores : \A x \in rebuild.asked \cap Of[s] :
        /\ rebuild.job[s] = "completed" => x \in rebuild.left \/ Has(x, generation)
        /\ WorksOn(s) => job[s].errors \/ Covered(s, x)

RebuildInv ==
    /\ \A x \in rebuild.asked : Exists(x) /\ \E s \in Stores : rebuild.job[s] # "none" /\ x \in Of[s]
    /\ PartsAreComplete
    /\ RebuildIsComplete

=============================================================================

--------------------------- MODULE VectorsProofs ---------------------------
(***************************************************************************)
(* What holds of the vectors of Vectors for every number of memories,      *)
(* notes, images, generations, batches and concurrent calls, with any      *)
(* number of jobs and faults.                                              *)
(*                                                                         *)
(* VectorsInv adds to GenerationIsFresh what makes it inductive: a call    *)
(* that its job still counts was begun in the current generation, since a  *)
(* generation is opened only while no job runs and a job ends only when    *)
(* none of its calls is left, or disowns them.                             *)
(***************************************************************************)
EXTENDS Vectors, TLAPS

\* The three stores, and the things each of them holds.
LEMMA TheStores ==
    /\ Stores = {"memory", "conversation", "media"}
    /\ \A s \in Stores : Of[s] \subseteq Things
BY DEF Stores, Of, Things

\* What lacks a vector is read with the text it has.
LEMMA LackingAreRows ==
    ASSUME text \in [Things -> 0 .. MaxText], NEW xs, xs \subseteq Things, NEW g
    PROVE  Lacking(xs, g) \subseteq Row
<1>1. ASSUME NEW x \in xs, text[x] # 0
      PROVE  <<x, text[x]>> \in Row
    BY <1>1, VectorsAssumption DEF Row
<1> QED BY <1>1 DEF Lacking, Exists

\* So are the targets of the memory job.
LEMMA TargetsAreRows ==
    ASSUME text \in [Things -> 0 .. MaxText]
    PROVE  Targets \subseteq Row
<1>1. Memories \subseteq Things
    BY DEF Things
<1>2. ASSUME NEW m \in Memories, text[m] # 0
      PROVE  <<m, text[m]>> \in Row
    BY <1>1, <1>2, VectorsAssumption DEF Row
<1>3. {<<m, text[m]>> : m \in {n \in Memories : Exists(n)}} \subseteq Row
    BY <1>2 DEF Exists
<1> QED BY <1>1, <1>3, LackingAreRows DEF Targets

\* The jobs a start makes are jobs.
LEMMA NewJobsAreJobs ==
    ASSUME text \in [Things -> 0 .. MaxText], NEW s \in Stores, NEW part \in BOOLEAN
    PROVE  NoJob \in Job /\ NewJob(s, part) \in Job /\ Stuck(s, part) \in Job /\ Part(s) \in Job
<1>1. \A g : Lacking(Of[s], g) \subseteq Row
    BY TheStores, LackingAreRows
<1>2. NoJob \in Job
    BY DEF NoJob, Job, Status, Terminal
<1>3. \A p \in BOOLEAN : NewJob(s, p) \in Job
    BY <1>1 DEF NewJob, NoJob, Job, Status, Terminal
<1>4. Stuck(s, part) \in Job
    BY <1>3 DEF Stuck, Job
<1>5. Part(s) \in Job
    BY <1>1, <1>3 DEF Part, Job
<1> QED BY <1>2, <1>3, <1>4, <1>5

\* Nothing is filed and no generation opened: the vectors stay as fresh as they were.
LEMMA VectorsStay ==
    ASSUME VectorsInv, UNCHANGED <<vector, generation, born>>,
           weights' \in Weights, weights' >= weights, cli'.generation <= generation
    PROVE  NothingAhead' /\ GenerationIsFresh'
<1>1. weights \in Nat /\ weights' \in Nat /\ \A g \in Generations : born[g] \in Nat
    BY DEF VectorsInv, TypeOK, Weights
<1>2. \A g \in Generations : born'[g] <= weights'
    BY <1>1 DEF VectorsInv, NothingAhead
<1> QED BY <1>2 DEF VectorsInv, NothingAhead, GenerationIsFresh, Has

\* One vector is filed, under weights at least as young as its generation.
LEMMA VectorFiled ==
    ASSUME VectorsInv, UNCHANGED <<weights, generation, born>>,
           NEW x \in Things, NEW g \in Generations, g <= generation,
           NEW w \in Weights \cup {0}, NEW t \in 0 .. MaxText, NEW stray \in BOOLEAN,
           stray \/ w >= born[g],
           Put(x, g, w, t, stray), cli'.generation <= generation
    PROVE  vector' \in [Things -> [Generations -> Vector]] /\ NothingAhead' /\ GenerationIsFresh'
<1>1. vector \in [Things -> [Generations -> Vector]] /\ generation \in Generations
    BY DEF VectorsInv, TypeOK
<1>2. [weights |-> w, text |-> t, stray |-> stray] \in Vector
    BY DEF Vector
<1>3. vector' \in [Things -> [Generations -> Vector]]
    BY <1>1, <1>2 DEF Put
<1>4. ASSUME NEW y \in Things, NEW h \in Generations, y # x \/ h # g
      PROVE  vector'[y][h] = vector[y][h]
    BY <1>1, <1>4 DEF Put
<1>5. vector'[x][g] = [weights |-> w, text |-> t, stray |-> stray]
    BY <1>1 DEF Put
<1>6. ASSUME NEW y \in Things, NEW h \in Generations, h > generation
      PROVE  vector'[y][h] = NoVector
    <2>1. h # g
        BY <1>1, <1>6 DEF Generations
    <2> QED BY <2>1, <1>4, <1>6 DEF VectorsInv, NothingAhead, Has
<1>7. NothingAhead'
    BY <1>6 DEF VectorsInv, NothingAhead, Has
<1>8. GenerationIsFresh'
    <2>1. ASSUME NEW y \in Things, NEW h \in Generations,
                 vector'[y][h] # NoVector, ~vector'[y][h].stray
          PROVE  vector'[y][h].weights >= born[h]
        <3>1. CASE y = x /\ h = g
            BY <3>1, <1>5, <2>1
        <3>2. CASE y # x \/ h # g
            BY <3>2, <1>4, <2>1 DEF VectorsInv, GenerationIsFresh, Has
        <3> QED BY <3>1, <3>2
    <2> QED BY <2>1 DEF GenerationIsFresh, Has
<1> QED BY <1>3, <1>7, <1>8

\* Vectors are dropped.
LEMMA VectorsDropped ==
    ASSUME VectorsInv, UNCHANGED <<weights, generation, born, cli>>,
           vector' \in [Things -> [Generations -> Vector]],
           \A x \in Things, g \in Generations : vector'[x][g] \in {vector[x][g], NoVector}
    PROVE  NothingAhead' /\ GenerationIsFresh'
<1>1. NothingAhead'
    BY DEF VectorsInv, NothingAhead, Has
<1>2. GenerationIsFresh'
    BY DEF VectorsInv, GenerationIsFresh, Has
<1> QED BY <1>1, <1>2

\* The calls stay counted while their jobs run on.
LEMMA CallsStay ==
    ASSUME VectorsInv, UNCHANGED <<generation, born>>, calls' \subseteq calls,
           \A s \in Stores : job'[s].status = job[s].status /\ job'[s].pc = job[s].pc
    PROVE  CallsAreCounted' /\ OneByOne'
<1>1. \A c \in calls : c.store \in Stores
    BY DEF VectorsInv, TypeOK, Call
<1>2. CallsAreCounted'
    BY <1>1 DEF VectorsInv, CallsAreCounted, Running
<1> QED BY <1>2 DEF VectorsInv, OneByOne

\* They stay counted when a job starts or ends that counts none.
LEMMA CallsOfOthersStay ==
    ASSUME VectorsInv, UNCHANGED <<generation, born>>, calls' \subseteq calls,
           NEW s \in Stores, \A c \in calls' : c.store = s => c.stray,
           \A t \in Stores \ {s} : job'[t] = job[t]
    PROVE  CallsAreCounted' /\ OneByOne'
<1>1. \A c \in calls : c.store \in Stores
    BY DEF VectorsInv, TypeOK, Call
<1>2. CallsAreCounted'
    BY <1>1 DEF VectorsInv, CallsAreCounted, Running
<1> QED BY <1>2 DEF VectorsInv, OneByOne

\* A job that ends is a job, and the rebuild keeps its form.
LEMMA EndedKeepsTypes ==
    ASSUME VectorsInv, NEW s \in Stores, NEW status \in Status, Ended(s, status)
    PROVE  /\ job' \in [Stores -> Job] /\ rebuild' \in Rebuild
           /\ \A t \in Stores \ {s} : job'[t] = job[t]
<1>1. job \in [Stores -> Job] /\ rebuild \in Rebuild
    BY DEF VectorsInv, TypeOK
<1>2. [NoJob EXCEPT !.status = status] \in Job
    BY DEF NoJob, Job
<1>3. job' \in [Stores -> Job] /\ \A t \in Stores \ {s} : job'[t] = job[t]
    BY <1>1, <1>2 DEF Ended
<1>4. job[s].left \subseteq Things
    BY <1>1 DEF Job
<1>5. rebuild' \in Rebuild
    BY <1>1, <1>4 DEF Ended, Rebuild
<1> QED BY <1>3, <1>5

\* Reading the parts' statuses changes the rebuild's own, no more.
LEMMA SeenIsRebuild ==
    ASSUME NEW r \in Rebuild
    PROVE  Seen(r) \in Rebuild
<1> DEFINE statuses == {r.job[s] : s \in {t \in Stores : r.job[t] # "none"}}
<1>1. Sum(statuses) \in Status
    BY DEF Sum, Status, Terminal
<1> QED BY <1>1 DEF Seen, Rebuild

-----------------------------------------------------------------------------
(* The initial states, and each action *)

LEMMA InitInv == Init => VectorsInv
<1> SUFFICES ASSUME Init PROVE VectorsInv
    OBVIOUS
<1>1. NoJob \in Job
    BY DEF NoJob, Job, Status, Terminal
<1>2. NoRebuild \in Rebuild
    BY DEF NoRebuild, Rebuild, Status, Terminal
<1>3. NoCli \in Cli
    BY VectorsAssumption DEF NoCli, Cli, Generations
<1>4. NoVector \in Vector
    BY VectorsAssumption DEF NoVector, Vector
<1>5. setup \subseteq Stores /\ text \in [Things -> 0 .. MaxText]
    BY VectorsAssumption DEF Init
<1>6. weights \in Weights /\ generation \in Generations /\ born \in [Generations -> Weights]
    BY VectorsAssumption DEF Init, Weights, Generations
<1>7. vector \in [Things -> [Generations -> Vector]]
    BY <1>4 DEF Init
<1>8. TypeOK
    BY <1>1, <1>2, <1>3, <1>5, <1>6, <1>7, VectorsAssumption DEF Init, TypeOK
<1>9. CallsAreCounted /\ OneByOne
    BY DEF Init, CallsAreCounted, OneByOne
<1>10. NothingAhead
    BY DEF Init, NothingAhead, Has, NoCli
<1>11. GenerationIsFresh
    BY DEF Init, GenerationIsFresh, Has
<1> QED BY <1>8, <1>9, <1>10, <1>11 DEF VectorsInv

LEMMA SwapWeightsInv == VectorsInv /\ SwapWeights => VectorsInv'
<1> SUFFICES ASSUME VectorsInv, SwapWeights PROVE VectorsInv'
    OBVIOUS
<1>1. weights \in Nat /\ weights' \in Weights /\ weights' >= weights
    BY VectorsAssumption DEF VectorsInv, TypeOK, SwapWeights, Weights
<1>2. CallsAreCounted' /\ OneByOne'
    BY CallsStay DEF SwapWeights
<1>3. NothingAhead' /\ GenerationIsFresh'
    BY <1>1, VectorsStay DEF SwapWeights, stored, VectorsInv, NothingAhead
<1>4. TypeOK'
    BY <1>1 DEF VectorsInv, TypeOK, SwapWeights, stored
<1> QED BY <1>2, <1>3, <1>4 DEF VectorsInv

\* Counters stay within their bounds.
LEMMA Bounds ==
    ASSUME VectorsInv
    PROVE  /\ Changes => changes' \in 0 .. MaxChanges
           /\ Begins => runs' \in 0 .. MaxRuns
           /\ Faulty => faults' \in 0 .. MaxFaults
BY VectorsAssumption DEF VectorsInv, TypeOK, Changes, Begins, Faulty

LEMMA ConfigureInv == VectorsInv /\ Configure => VectorsInv'
<1> SUFFICES ASSUME VectorsInv, Configure PROVE VectorsInv'
    OBVIOUS
<1>1. CallsAreCounted' /\ OneByOne'
    BY CallsStay DEF Configure
<1>2. NothingAhead' /\ GenerationIsFresh'
    BY VectorsStay DEF Configure, stored, VectorsInv, NothingAhead, TypeOK, Weights
<1>3. TypeOK'
    BY Bounds DEF VectorsInv, TypeOK, Configure, stored
<1> QED BY <1>1, <1>2, <1>3 DEF VectorsInv

LEMMA SaveInv ==
    ASSUME VectorsInv, NEW m \in Memories, NEW answered \in BOOLEAN, Save(m, answered)
    PROVE  VectorsInv'
<1>1. /\ UNCHANGED <<weights, generation, born, cli, job, calls>>
      /\ m \in Things
    BY DEF Save, world, Things
<1>2. CallsAreCounted' /\ OneByOne'
    BY <1>1, CallsStay
<1>3. cli'.generation <= generation /\ weights' \in Weights /\ weights' >= weights
    BY <1>1 DEF VectorsInv, NothingAhead, TypeOK, Weights
<1>4. text[m] + 1 \in 0 .. MaxText /\ text' \in [Things -> 0 .. MaxText]
    BY <1>1, VectorsAssumption DEF Save, VectorsInv, TypeOK
<1>5. vector' \in [Things -> [Generations -> Vector]] /\ NothingAhead' /\ GenerationIsFresh'
    <2>1. CASE Put(m, generation, weights, text[m] + 1, FALSE)
        <3>1. weights \in Weights \cup {0} /\ generation \in Generations /\ generation <= generation
            BY DEF VectorsInv, TypeOK, Generations
        <3>2. weights >= born[generation]
            BY <3>1 DEF VectorsInv, NothingAhead, TypeOK, Weights
        <3> QED BY <1>1, <1>3, <1>4, <2>1, <3>1, <3>2, VectorFiled
    <2>2. CASE UNCHANGED vector
        <3>1. NothingAhead' /\ GenerationIsFresh'
            BY <1>1, <1>3, <2>2, VectorsStay
        <3> QED BY <2>2, <3>1 DEF VectorsInv, TypeOK
    <2> QED BY <2>1, <2>2 DEF Save
<1>6. needed' \subseteq Memories
    BY DEF Save, VectorsInv, TypeOK
<1>7. changes' \in 0 .. MaxChanges
    BY Bounds DEF Save
<1>8. TypeOK'
    BY <1>1, <1>4, <1>5, <1>6, <1>7 DEF VectorsInv, TypeOK, Save, world
<1> QED BY <1>2, <1>5, <1>8 DEF VectorsInv

LEMMA DeleteInv ==
    ASSUME VectorsInv, NEW m \in Memories, Delete(m)
    PROVE  VectorsInv'
<1>1. UNCHANGED <<weights, generation, born, cli, job, calls>> /\ m \in Things
    BY DEF Delete, world, Things
<1>2. CallsAreCounted' /\ OneByOne'
    BY <1>1, CallsStay
<1>3. [g \in Generations |-> NoVector] \in [Generations -> Vector]
    BY VectorsAssumption DEF NoVector, Vector
<1>4. /\ vector' \in [Things -> [Generations -> Vector]]
      /\ \A x \in Things, g \in Generations : vector'[x][g] \in {vector[x][g], NoVector}
    BY <1>1, <1>3 DEF Delete, VectorsInv, TypeOK
<1>5. NothingAhead' /\ GenerationIsFresh'
    BY <1>1, <1>4, VectorsDropped
<1>6. rebuild' \in Rebuild
    BY DEF Delete, VectorsInv, TypeOK, Rebuild
<1>7. text' \in [Things -> 0 .. MaxText] /\ needed' \subseteq Memories /\ changes' \in 0 .. MaxChanges
    BY <1>1, Bounds, VectorsAssumption DEF Delete, VectorsInv, TypeOK
<1>8. TypeOK'
    BY <1>1, <1>4, <1>6, <1>7 DEF VectorsInv, TypeOK, Delete, world
<1> QED BY <1>2, <1>5, <1>8 DEF VectorsInv

LEMMA RepairOrphansInv == VectorsInv /\ RepairOrphans => VectorsInv'
<1> SUFFICES ASSUME VectorsInv, RepairOrphans PROVE VectorsInv'
    OBVIOUS
<1>1. UNCHANGED <<weights, generation, born, cli, job, calls>>
    BY DEF RepairOrphans, world
<1>2. CallsAreCounted' /\ OneByOne'
    BY <1>1, CallsStay
<1>3. [g \in Generations |-> NoVector] \in [Generations -> Vector]
    BY VectorsAssumption DEF NoVector, Vector
<1>4. /\ vector' \in [Things -> [Generations -> Vector]]
      /\ \A x \in Things, g \in Generations : vector'[x][g] \in {vector[x][g], NoVector}
    BY <1>3 DEF RepairOrphans, VectorsInv, TypeOK
<1>5. NothingAhead' /\ GenerationIsFresh'
    BY <1>1, <1>4, VectorsDropped
<1>6. TypeOK'
    BY <1>1, <1>4 DEF VectorsInv, TypeOK, RepairOrphans, world
<1> QED BY <1>2, <1>5, <1>6 DEF VectorsInv

LEMMA IndexInv ==
    ASSUME VectorsInv, NEW x \in Files \cup Media, NEW answered \in BOOLEAN, Index(x, answered)
    PROVE  VectorsInv'
<1>1. /\ UNCHANGED <<weights, generation, born, cli, calls>>
      /\ x \in Things
    BY DEF Index, world, Things
<1>2. /\ job' \in [Stores -> Job]
      /\ \A s \in Stores : job'[s].status = job[s].status /\ job'[s].pc = job[s].pc
    <2>1. job \in [Stores -> Job]
        BY DEF VectorsInv, TypeOK
    <2>2. CASE UNCHANGED job
        BY <2>1, <2>2
    <2>3. CASE job' = [job EXCEPT !["conversation"].errors = @ \/ Running("conversation")]
        <3> DEFINE new == [job["conversation"] EXCEPT !.errors = @ \/ Running("conversation")]
        <3>1. "conversation" \in Stores
            BY TheStores
        <3>2. new \in Job /\ new.status = job["conversation"].status /\ new.pc = job["conversation"].pc
            BY <2>1, <3>1 DEF Job
        <3>3. job' = [job EXCEPT !["conversation"] = new]
            BY <2>3
        <3> HIDE DEF new
        <3> QED BY <2>1, <3>1, <3>2, <3>3
    <2> QED BY <2>2, <2>3 DEF Index
<1>3. CallsAreCounted' /\ OneByOne'
    BY <1>1, <1>2, CallsStay
<1>4. cli'.generation <= generation /\ weights' \in Weights /\ weights' >= weights
    BY <1>1 DEF VectorsInv, NothingAhead, TypeOK, Weights
<1>5. 1 \in 0 .. MaxText /\ text' \in [Things -> 0 .. MaxText]
    BY <1>1, VectorsAssumption DEF Index, VectorsInv, TypeOK
<1>6. vector' \in [Things -> [Generations -> Vector]] /\ NothingAhead' /\ GenerationIsFresh'
    <2>1. CASE Put(x, generation, weights, 1, FALSE)
        <3>1. weights \in Weights \cup {0} /\ generation \in Generations /\ generation <= generation
            BY DEF VectorsInv, TypeOK, Generations
        <3>2. weights >= born[generation]
            BY <3>1 DEF VectorsInv, NothingAhead, TypeOK, Weights
        <3> QED BY <1>1, <1>4, <1>5, <2>1, <3>1, <3>2, VectorFiled
    <2>2. CASE UNCHANGED vector
        <3>1. NothingAhead' /\ GenerationIsFresh'
            BY <1>1, <1>4, <2>2, VectorsStay
        <3> QED BY <2>2, <3>1 DEF VectorsInv, TypeOK
    <2> QED BY <2>1, <2>2 DEF Index
<1>7. changes' \in 0 .. MaxChanges
    BY Bounds DEF Index
<1>8. TypeOK'
    BY <1>1, <1>2, <1>5, <1>6, <1>7 DEF VectorsInv, TypeOK, Index, world
<1> QED BY <1>3, <1>6, <1>8 DEF VectorsInv

\* What a step of the jobs keeps when it files no vector and opens no generation.
LEMMA OnlyTheJobs ==
    ASSUME VectorsInv, UNCHANGED <<world, stored, cli, changes>>,
           job' \in [Stores -> Job], calls' \subseteq Call, rebuild' \in Rebuild,
           runs' \in 0 .. MaxRuns, faults' \in 0 .. MaxFaults,
           CallsAreCounted', OneByOne'
    PROVE  VectorsInv'
<1>1. weights' \in Weights /\ weights' >= weights /\ cli'.generation <= generation
    BY DEF world, VectorsInv, NothingAhead, TypeOK, Weights
<1>2. NothingAhead' /\ GenerationIsFresh'
    BY <1>1, VectorsStay DEF world, stored
<1>3. TypeOK'
    BY DEF VectorsInv, TypeOK, world, stored
<1> QED BY <1>2, <1>3 DEF VectorsInv

LEMMA StartJobInv ==
    ASSUME VectorsInv, NEW s \in Stores, StartJob(s)
    PROVE  VectorsInv'
<1>1. /\ UNCHANGED <<world, stored, calls, rebuild, cli, changes>> /\ ~Running(s)
      /\ runs' \in 0 .. MaxRuns
    BY Bounds DEF StartJob, MayStart
<1>2. PICK new \in Job : job' = [job EXCEPT ![s] = new]
    BY NewJobsAreJobs DEF StartJob, VectorsInv, TypeOK
<1>3. job' \in [Stores -> Job] /\ \A t \in Stores \ {s} : job'[t] = job[t]
    BY <1>2 DEF VectorsInv, TypeOK
<1>4. \A c \in calls' : c.store = s => c.stray
    BY <1>1 DEF VectorsInv, CallsAreCounted
<1>5. CallsAreCounted' /\ OneByOne'
    BY <1>1, <1>3, <1>4, CallsOfOthersStay DEF world
<1>6. faults' \in 0 .. MaxFaults
    BY Bounds DEF StartJob, VectorsInv, TypeOK
<1>7. calls' \subseteq Call /\ rebuild' \in Rebuild
    BY <1>1 DEF VectorsInv, TypeOK
<1> QED BY <1>1, <1>3, <1>5, <1>6, <1>7, OnlyTheJobs

LEMMA CancelInv ==
    ASSUME VectorsInv, NEW s \in Stores, Cancel(s)
    PROVE  VectorsInv'
<1> DEFINE new == [job[s] EXCEPT !.cancel = TRUE]
<1>1. /\ UNCHANGED <<world, stored, calls, rebuild, cli, changes, runs, faults>>
      /\ job' = [job EXCEPT ![s] = new]
    BY DEF Cancel
<1>2. new \in Job /\ new.status = job[s].status /\ new.pc = job[s].pc
    BY DEF VectorsInv, TypeOK, Job
<1> HIDE DEF new
<1>3. /\ job' \in [Stores -> Job]
      /\ \A t \in Stores : job'[t].status = job[t].status /\ job'[t].pc = job[t].pc
    BY <1>1, <1>2 DEF VectorsInv, TypeOK
<1>4. CallsAreCounted' /\ OneByOne'
    BY <1>1, <1>3, CallsStay DEF world
<1>5. /\ calls' \subseteq Call /\ rebuild' \in Rebuild
      /\ runs' \in 0 .. MaxRuns /\ faults' \in 0 .. MaxFaults
    BY <1>1 DEF VectorsInv, TypeOK
<1> QED BY <1>1, <1>3, <1>4, <1>5, OnlyTheJobs

\* No generation is opened while a call is counted, and the new one is empty.
LEMMA GenerationOpened ==
    ASSUME VectorsInv, MayRebuild, NEW new \in BOOLEAN, Opens(new),
           UNCHANGED <<stored, calls, cli, changes>>,
           job' \in [Stores -> Job], rebuild' \in Rebuild,
           runs' \in 0 .. MaxRuns, faults' \in 0 .. MaxFaults
    PROVE  VectorsInv'
<1>1. UNCHANGED <<setup, weights, enabled, vector, text, needed, calls, cli>>
    BY DEF Opens, stored
<1>2. \A c \in calls : c.stray
    <2>1. \A c \in calls : c.store \in Stores
        BY DEF VectorsInv, TypeOK, Call
    <2> QED BY <2>1 DEF VectorsInv, CallsAreCounted, MayRebuild
<1>3. CallsAreCounted' /\ OneByOne'
    BY <1>1, <1>2 DEF VectorsInv, CallsAreCounted, OneByOne
<1>4. /\ generation \in Nat /\ generation' \in Generations /\ generation' >= generation
      /\ weights \in Weights /\ weights \in Nat
    BY DEF Opens, VectorsInv, TypeOK, Generations, Weights
<1>5. born' \in [Generations -> Weights]
    BY <1>4 DEF Opens, VectorsInv, TypeOK
<1>6. \A g \in Generations : born'[g] = born[g] \/ (g > generation /\ born'[g] = weights)
    BY <1>4 DEF Opens, VectorsInv, TypeOK
<1>7. NothingAhead'
    <2>1. \A x \in Things, g \in Generations : g > generation' => ~Has(x, g)
        BY <1>4 DEF VectorsInv, NothingAhead, Generations
    <2>2. \A g \in Generations : born'[g] <= weights
        BY <1>4, <1>6 DEF VectorsInv, NothingAhead
    <2>3. cli.generation <= generation'
        BY <1>4 DEF VectorsInv, NothingAhead, TypeOK, Cli, Generations
    <2> QED BY <1>1, <2>1, <2>2, <2>3 DEF NothingAhead, Has
<1>8. GenerationIsFresh'
    BY <1>1, <1>6 DEF VectorsInv, NothingAhead, GenerationIsFresh, Has
<1>9. TypeOK'
    BY <1>1, <1>4, <1>5 DEF VectorsInv, TypeOK
<1> QED BY <1>3, <1>7, <1>8, <1>9 DEF VectorsInv

LEMMA StartRebuildInv ==
    ASSUME VectorsInv, NEW new \in BOOLEAN, StartRebuild(new)
    PROVE  VectorsInv'
<1>1. text \in [Things -> 0 .. MaxText] /\ job \in [Stores -> Job]
    BY DEF VectorsInv, TypeOK
<1>2. \A s \in Stores : Part(s) \in Job
    BY <1>1, NewJobsAreJobs
<1>3. job' \in [Stores -> Job]
    BY <1>1, <1>2 DEF StartRebuild
<1>4. rebuild' \in Rebuild
    <2>1. {x \in UNION {Of[s] : s \in setup} : Exists(x)} \subseteq Things
        BY TheStores DEF VectorsInv, TypeOK
    <2>2. NoRebuild \in Rebuild
        BY DEF NoRebuild, Rebuild, Status, Terminal
    <2>3. [s \in Stores |-> IF s \in setup THEN "running" ELSE "none"] \in [Stores -> Status]
        BY DEF Status
    <2>4. "running" \in Status
        BY DEF Status
    <2> QED BY <2>1, <2>2, <2>3, <2>4 DEF StartRebuild, Rebuild
<1>5. runs' \in 0 .. MaxRuns /\ faults' \in 0 .. MaxFaults
    BY Bounds DEF StartRebuild, VectorsInv, TypeOK
<1> QED BY <1>3, <1>4, <1>5, GenerationOpened DEF StartRebuild

LEMMA StartRebuildFailsInv ==
    ASSUME VectorsInv, NEW new \in BOOLEAN, NEW at \in Stores \cup {"end"},
           StartRebuildFails(new, at)
    PROVE  VectorsInv'
<1>1. text \in [Things -> 0 .. MaxText] /\ job \in [Stores -> Job]
    BY DEF VectorsInv, TypeOK
<1>2. \A s \in Stores : Part(s) \in Job
    BY <1>1, NewJobsAreJobs
<1>3. \A s \in Stores : /\ [Part(s) EXCEPT !.cancel = TRUE] \in Job
                        /\ [Part(s) EXCEPT !.pc = "stuck", !.part = FALSE] \in Job
    BY <1>2 DEF Job
<1>4. job' \in [Stores -> Job]
    BY <1>1, <1>3 DEF StartRebuildFails
<1>5. rebuild' \in Rebuild
    <2> DEFINE parts == [s \in Stores |-> IF s \in setup \cap Before[at] THEN "running" ELSE "none"]
    <2>1. NoRebuild \in Rebuild
        BY DEF NoRebuild, Rebuild, Status, Terminal
    <2>2. parts \in [Stores -> Status] /\ "failed" \in Status
        BY DEF Status, Terminal
    <2>3. rebuild' = [NoRebuild EXCEPT !.status = "failed", !.job = parts]
        BY DEF StartRebuildFails
    <2> HIDE DEF parts
    <2> QED BY <2>1, <2>2, <2>3 DEF Rebuild
<1>6. runs' \in 0 .. MaxRuns /\ faults' \in 0 .. MaxFaults
    BY Bounds DEF StartRebuildFails
<1> QED BY <1>4, <1>5, <1>6, GenerationOpened DEF StartRebuildFails

LEMMA PollInv == VectorsInv /\ Poll => VectorsInv'
<1> SUFFICES ASSUME VectorsInv, Poll PROVE VectorsInv'
    OBVIOUS
<1>1. UNCHANGED <<world, stored, job, calls, cli, changes, runs, faults>>
    BY DEF Poll
<1>2. CallsAreCounted' /\ OneByOne'
    BY <1>1, CallsStay DEF world
<1>3. rebuild' \in Rebuild
    BY SeenIsRebuild DEF Poll, VectorsInv, TypeOK
<1>4. /\ job' \in [Stores -> Job] /\ calls' \subseteq Call
      /\ runs' \in 0 .. MaxRuns /\ faults' \in 0 .. MaxFaults
    BY <1>1 DEF VectorsInv, TypeOK
<1> QED BY <1>1, <1>2, <1>3, <1>4, OnlyTheJobs

LEMMA CancelRebuildInv == VectorsInv /\ CancelRebuild => VectorsInv'
<1> SUFFICES ASSUME VectorsInv, CancelRebuild PROVE VectorsInv'
    OBVIOUS
<1>1. UNCHANGED <<world, stored, calls, cli, changes, runs, faults>>
    BY DEF CancelRebuild
<1>2. job \in [Stores -> Job]
    BY DEF VectorsInv, TypeOK
<1>3. \A s \in Stores : [job[s] EXCEPT !.cancel = TRUE] \in Job
    BY <1>2 DEF Job
<1>4. \A s \in Stores : /\ [job[s] EXCEPT !.cancel = TRUE].status = job[s].status
                        /\ [job[s] EXCEPT !.cancel = TRUE].pc = job[s].pc
    BY <1>2 DEF Job
<1>5. /\ job' \in [Stores -> Job]
      /\ \A s \in Stores : job'[s].status = job[s].status /\ job'[s].pc = job[s].pc
    BY <1>2, <1>3, <1>4 DEF CancelRebuild
<1>6. CallsAreCounted' /\ OneByOne'
    BY <1>1, <1>5, CallsStay DEF world
<1>7. [rebuild EXCEPT !.status = "cancelled"] \in Rebuild
    BY DEF VectorsInv, TypeOK, Rebuild, Status, Terminal
<1>8. rebuild' \in Rebuild
    BY <1>7, SeenIsRebuild DEF CancelRebuild
<1>9. calls' \subseteq Call /\ runs' \in 0 .. MaxRuns /\ faults' \in 0 .. MaxFaults
    BY <1>1 DEF VectorsInv, TypeOK
<1> QED BY <1>1, <1>5, <1>6, <1>8, <1>9, OnlyTheJobs

-----------------------------------------------------------------------------
(* The task of a job *)

\* A job ends when none of its calls is left that it still counts.
LEMMA JobEnds ==
    ASSUME VectorsInv, UNCHANGED <<world, stored, cli, changes, runs>>,
           NEW s \in Stores, NEW status \in Status, Ended(s, status),
           calls' \subseteq Call, faults' \in 0 .. MaxFaults, CallsAreCounted', OneByOne'
    PROVE  VectorsInv'
<1>1. job' \in [Stores -> Job] /\ rebuild' \in Rebuild
    BY EndedKeepsTypes
<1>2. runs' \in 0 .. MaxRuns
    BY DEF VectorsInv, TypeOK
<1> QED BY <1>1, <1>2, OnlyTheJobs

\* Its last step, audited or not.
LEMMA EndsInv ==
    ASSUME VectorsInv, UNCHANGED <<world, stored, cli, changes, runs>>,
           NEW s \in Stores, NEW status \in Status, Ends(s, status),
           calls' \subseteq calls, \A c \in calls' : c.store = s => c.stray
    PROVE  VectorsInv'
<1>1. PICK last \in Status : Ended(s, last)
    BY DEF Ends, Status, Terminal
<1>2. \A t \in Stores \ {s} : job'[t] = job[t]
    BY <1>1, EndedKeepsTypes
<1>3. CallsAreCounted' /\ OneByOne'
    BY <1>2, CallsOfOthersStay DEF world
<1>4. faults' \in 0 .. MaxFaults
    BY Bounds DEF Ends, VectorsInv, TypeOK
<1>5. calls' \subseteq Call
    BY DEF VectorsInv, TypeOK
<1> QED BY <1>1, <1>3, <1>4, <1>5, JobEnds

LEMMA ReadTargetsInv == VectorsInv /\ ReadTargets => VectorsInv'
<1> SUFFICES ASSUME VectorsInv, ReadTargets PROVE VectorsInv'
    OBVIOUS
<1>1. UNCHANGED <<world, stored, calls, cli, changes, runs>> /\ "memory" \in Stores
    BY TheStores DEF ReadTargets
<1>2. \A c \in calls : c.store = "memory" => c.stray
    BY DEF VectorsInv, CallsAreCounted, ReadTargets
<1>3. CASE job' = [job EXCEPT !["memory"].pc = "run", !["memory"].todo = Targets]
           /\ UNCHANGED <<rebuild, faults>>
    <2> DEFINE new == [job["memory"] EXCEPT !.pc = "run", !.todo = Targets]
    <2>1. job \in [Stores -> Job] /\ Targets \subseteq Row
        BY TargetsAreRows DEF VectorsInv, TypeOK
    <2>2. new \in Job
        BY <1>1, <2>1 DEF Job
    <2>3. job' = [job EXCEPT !["memory"] = new]
        BY <1>1, <1>3, <2>1
    <2> HIDE DEF new
    <2>4. job' \in [Stores -> Job] /\ \A t \in Stores \ {"memory"} : job'[t] = job[t]
        BY <1>1, <2>1, <2>2, <2>3
    <2>5. CallsAreCounted' /\ OneByOne'
        BY <1>1, <1>2, <2>4, CallsOfOthersStay DEF world
    <2>6. /\ calls' \subseteq Call /\ rebuild' \in Rebuild
          /\ runs' \in 0 .. MaxRuns /\ faults' \in 0 .. MaxFaults
        BY <1>1, <1>3 DEF VectorsInv, TypeOK
    <2> QED BY <1>1, <2>4, <2>5, <2>6, OnlyTheJobs
<1>4. CASE Faulty /\ Ended("memory", "failed")
    <2>1. Ends("memory", "failed") /\ "failed" \in Status
        BY <1>4 DEF Ends, Status, Terminal
    <2> QED BY <1>1, <1>2, <2>1, EndsInv
<1> QED BY <1>3, <1>4 DEF ReadTargets

LEMMA TheLoopEnds ==
    ASSUME VectorsInv, NEW s \in Stores, Finish(s) \/ Stop(s) \/ TimeOut(s)
    PROVE  VectorsInv'
<1>1. UNCHANGED <<world, stored, calls, cli, changes, runs>> /\ AtLoop(s)
    BY DEF Finish, Stop, TimeOut
<1>2. PICK status \in Status : Ends(s, status)
    <2>1. {"completed", "completed_with_errors", "cancelled", "failed"} \subseteq Status
        BY DEF Status, Terminal
    <2> QED BY <2>1 DEF Finish, Stop, TimeOut
<1>3. \A c \in calls' : c.store = s => c.stray
    BY <1>1 DEF AtLoop, Mine
<1> QED BY <1>1, <1>2, <1>3, EndsInv

LEMMA NextBatchInv ==
    ASSUME VectorsInv, NEW s \in Stores, NEW batch \in Batches(s), NextBatch(s, batch)
    PROVE  VectorsInv'
<1> DEFINE new == [job[s] EXCEPT !.todo = @ \ batch]
           more == [store : {s}, row : batch, phase : {"waiting"}, weights : {0},
                    generation : {generation}, stray : {FALSE}]
<1>1. /\ UNCHANGED <<world, stored, rebuild, cli, changes, runs, faults>>
      /\ AtLoop(s) /\ job' = [job EXCEPT ![s] = new] /\ calls' = calls \cup more
    BY DEF NextBatch
<1>2. job \in [Stores -> Job] /\ calls \subseteq Call /\ generation \in Generations
    BY DEF VectorsInv, TypeOK
<1>3. batch \subseteq Row
    BY <1>2 DEF Batches, Job
<1>4. new \in Job /\ new.status = job[s].status /\ new.pc = job[s].pc
    BY <1>2 DEF Job
<1>5. more \subseteq Call
    BY <1>2, <1>3 DEF Call
<1>6. \A c \in more : /\ c.store = s /\ c.phase = "waiting" /\ ~c.stray
                      /\ c.generation = generation
    OBVIOUS
<1>7. ASSUME s # "memory" PROVE \A c, d \in more : c = d
    <2>1. PICK row \in job[s].todo : batch = {row}
        BY <1>7 DEF Batches
    <2>2. ASSUME NEW c \in more
          PROVE  c = [store |-> s, row |-> row, phase |-> "waiting", weights |-> 0,
                      generation |-> generation, stray |-> FALSE]
        BY <2>1
    <2> HIDE DEF more
    <2> QED BY <2>2
<1> HIDE DEF new, more
<1>8. /\ job' \in [Stores -> Job]
      /\ \A t \in Stores : job'[t].status = job[t].status /\ job'[t].pc = job[t].pc
    BY <1>1, <1>2, <1>4
<1>9. \A c \in calls : c.store = s => c.stray
    BY <1>1 DEF AtLoop, Mine
<1>10. \A c \in calls : c.store \in Stores
    BY <1>2 DEF Call
<1>11. CallsAreCounted'
    BY <1>1, <1>6, <1>8, <1>10 DEF VectorsInv, CallsAreCounted, Running, AtLoop, world
<1>12. OneByOne'
    BY <1>1, <1>6, <1>7, <1>9 DEF VectorsInv, CallsAreCounted, OneByOne
<1>13. /\ calls' \subseteq Call /\ rebuild' \in Rebuild
       /\ runs' \in 0 .. MaxRuns /\ faults' \in 0 .. MaxFaults
    BY <1>1, <1>2, <1>5 DEF VectorsInv, TypeOK
<1> QED BY <1>1, <1>8, <1>11, <1>12, <1>13, OnlyTheJobs

\* A call that comes back leaves its job running.
LEMMA ReturnsKeepsJobs ==
    ASSUME VectorsInv, NEW c \in calls, NEW errors \in BOOLEAN, NEW left, left \subseteq Things,
           Returns(c, errors, left)
    PROVE  /\ job' \in [Stores -> Job] /\ calls' \subseteq calls
           /\ \A s \in Stores : job'[s].status = job[s].status /\ job'[s].pc = job[s].pc
<1>1. job \in [Stores -> Job] /\ c.store \in Stores
    BY DEF VectorsInv, TypeOK, Call
<1>2. CASE c.stray
    BY <1>1, <1>2 DEF Returns
<1>3. CASE ~c.stray
    <2> DEFINE new == [job[c.store] EXCEPT !.errors = @ \/ errors, !.left = @ \cup left]
    <2>1. new \in Job /\ new.status = job[c.store].status /\ new.pc = job[c.store].pc
        BY <1>1 DEF Job
    <2>2. job' = [job EXCEPT ![c.store] = new] /\ calls' \subseteq calls
        BY <1>1, <1>3 DEF Returns
    <2> HIDE DEF new
    <2> QED BY <1>1, <2>1, <2>2
<1> QED BY <1>2, <1>3

LEMMA SkipOrFailInv ==
    ASSUME VectorsInv, NEW c \in calls, Skip(c) \/ Fail(c)
    PROVE  VectorsInv'
<1>1. UNCHANGED <<world, stored, rebuild, cli, changes, runs, faults>>
    BY DEF Skip, Fail
<1>2. c.row[1] \in Things
    BY DEF VectorsInv, TypeOK, Call, Row
<1>3. PICK errors \in BOOLEAN, left \in SUBSET Things : Returns(c, errors, left)
    <2>1. {c.row[1]} \ {x \in Things : Has(x, generation)} \in SUBSET Things
        BY <1>2
    <2>2. {} \in SUBSET Things
        OBVIOUS
    <2> QED BY <2>1, <2>2 DEF Skip, Fail
<1>4. /\ job' \in [Stores -> Job] /\ calls' \subseteq calls
      /\ \A s \in Stores : job'[s].status = job[s].status /\ job'[s].pc = job[s].pc
    BY <1>3, ReturnsKeepsJobs
<1>5. CallsAreCounted' /\ OneByOne'
    BY <1>1, <1>4, CallsStay DEF world
<1>6. /\ calls' \subseteq Call /\ rebuild' \in Rebuild
      /\ runs' \in 0 .. MaxRuns /\ faults' \in 0 .. MaxFaults
    BY <1>1, <1>4 DEF VectorsInv, TypeOK
<1> QED BY <1>1, <1>4, <1>5, <1>6, OnlyTheJobs

\* The provider is asked with the weights of this moment, in the current generation.
LEMMA EmbedInv ==
    ASSUME VectorsInv, NEW c \in calls, Embed(c)
    PROVE  VectorsInv'
<1> DEFINE new == [c EXCEPT !.phase = "embedding", !.weights = weights, !.generation = generation]
<1>1. /\ UNCHANGED <<world, stored, job, rebuild, cli, changes, runs, faults>>
      /\ calls' = (calls \ {c}) \cup {new}
    BY DEF Embed
<1>2. weights \in Weights /\ generation \in Generations /\ c \in Call /\ calls \subseteq Call
    BY DEF VectorsInv, TypeOK
<1>3. /\ new \in Call /\ new.store = c.store /\ new.stray = c.stray
      /\ new.weights = weights /\ new.generation = generation
    BY <1>2 DEF Call
<1> HIDE DEF new
<1>4. weights >= born[generation]
    BY <1>2 DEF VectorsInv, NothingAhead, TypeOK, Weights
<1>5. CallsAreCounted'
    BY <1>1, <1>3, <1>4 DEF VectorsInv, CallsAreCounted, Running, world
<1>6. OneByOne'
    BY <1>1, <1>3 DEF VectorsInv, OneByOne
<1>7. /\ calls' \subseteq Call /\ job' \in [Stores -> Job] /\ rebuild' \in Rebuild
      /\ runs' \in 0 .. MaxRuns /\ faults' \in 0 .. MaxFaults
    BY <1>1, <1>2, <1>3 DEF VectorsInv, TypeOK
<1> QED BY <1>1, <1>5, <1>6, <1>7, OnlyTheJobs

\* What a counted call files is as young as the generation it files it under.
LEMMA WriteInv ==
    ASSUME VectorsInv, NEW c \in calls, Write(c)
    PROVE  VectorsInv'
<1>1. UNCHANGED <<world, text, needed, rebuild, cli, changes, runs, faults>>
    BY DEF Write
<1>2. c \in Call /\ c.row[1] \in Things /\ c.row[2] \in 0 .. MaxText
    BY VectorsAssumption DEF VectorsInv, TypeOK, Call, Row
<1>3. WriteUnder(c) = generation
    BY <1>2 DEF WriteUnder, VectorsInv, CallsAreCounted, Call
<1>4. generation \in Generations /\ generation <= generation
    BY DEF VectorsInv, TypeOK, Generations
<1>5. c.stray \/ c.weights >= born[generation]
    BY DEF VectorsInv, CallsAreCounted, Write
<1>6. /\ c.weights \in Weights \cup {0} /\ c.stray \in BOOLEAN
      /\ cli'.generation <= generation
    BY <1>1, <1>2 DEF Call, VectorsInv, NothingAhead
<1>7. Put(c.row[1], generation, c.weights, c.row[2], c.stray)
    BY <1>3 DEF Write
<1>8. vector' \in [Things -> [Generations -> Vector]] /\ NothingAhead' /\ GenerationIsFresh'
    BY <1>1, <1>2, <1>4, <1>5, <1>6, <1>7, VectorFiled DEF world
<1>9. PICK errors \in BOOLEAN, left \in SUBSET Things : Returns(c, errors, left)
    BY DEF Write
<1>10. /\ job' \in [Stores -> Job] /\ calls' \subseteq calls
       /\ \A s \in Stores : job'[s].status = job[s].status /\ job'[s].pc = job[s].pc
    BY <1>9, ReturnsKeepsJobs
<1>11. CallsAreCounted' /\ OneByOne'
    BY <1>1, <1>10, CallsStay DEF world
<1>12. TypeOK'
    BY <1>1, <1>8, <1>10 DEF VectorsInv, TypeOK, world
<1> QED BY <1>8, <1>11, <1>12 DEF VectorsInv

LEMMA RejectInv ==
    ASSUME VectorsInv, NEW c \in calls, Reject(c)
    PROVE  VectorsInv'
<1>1. /\ UNCHANGED <<world, stored, cli, changes, runs>> /\ Ends("media", "failed")
      /\ calls' \subseteq calls
    BY DEF Reject
<1>2. \A d \in calls' : d.store = "media" => d.stray
    BY DEF Reject, VectorsInv, OneByOne
<1>3. "media" \in Stores /\ "failed" \in Status
    BY TheStores DEF Status, Terminal
<1> QED BY <1>1, <1>2, <1>3, EndsInv

\* The job that fails over a busy database disowns the calls it leaves behind.
LEMMA BusyInv ==
    ASSUME VectorsInv, NEW c \in calls, Busy(c)
    PROVE  VectorsInv'
<1> DEFINE Disowned(d) == [d EXCEPT !.stray = @ \/ d.store = "memory"]
<1>1. /\ UNCHANGED <<world, stored, cli, changes, runs>>
      /\ Ended("memory", "failed") /\ faults' \in 0 .. MaxFaults
      /\ calls' = {Disowned(d) : d \in calls \ {c}}
    BY Bounds DEF Busy
<1>2. calls \subseteq Call
    BY DEF VectorsInv, TypeOK
<1>3. ASSUME NEW d \in calls
      PROVE  /\ Disowned(d) \in Call
             /\ Disowned(d).store = d.store /\ Disowned(d).phase = d.phase
             /\ Disowned(d).weights = d.weights /\ Disowned(d).generation = d.generation
             /\ Disowned(d).stray = (d.stray \/ d.store = "memory")
    BY <1>2 DEF Call
<1>4. "memory" \in Stores /\ "failed" \in Status
    BY TheStores DEF Status, Terminal
<1>5. \A t \in Stores \ {"memory"} : job'[t] = job[t]
    BY <1>1, <1>4, EndedKeepsTypes
<1> HIDE DEF Disowned
<1>6. ASSUME NEW e \in calls'
      PROVE  \E d \in calls : /\ e = Disowned(d) /\ e \in Call
                              /\ e.store = d.store /\ e.phase = d.phase
                              /\ e.weights = d.weights /\ e.generation = d.generation
                              /\ e.stray = (d.stray \/ d.store = "memory")
    BY <1>1, <1>3
<1>7. ASSUME NEW e \in calls'
      PROVE  /\ e.stray => e.store = "memory"
             /\ ~e.stray =>
                /\ job'[e.store].status = "running" /\ job'[e.store].pc = "run"
                /\ e.generation = generation
                /\ e.phase = "embedding" => e.weights >= born[generation]
    <2>1. PICK d \in calls : /\ e = Disowned(d) /\ e.store = d.store /\ e.phase = d.phase
                             /\ e.weights = d.weights /\ e.generation = d.generation
                             /\ e.stray = (d.stray \/ d.store = "memory")
        BY <1>6
    <2>2. d.store \in Stores /\ d.stray \in BOOLEAN
        BY <1>2 DEF Call
    <2> QED BY <2>1, <2>2, <1>5 DEF VectorsInv, CallsAreCounted, Running
<1>8. CallsAreCounted'
    BY <1>1, <1>7 DEF CallsAreCounted, Running, world
<1>9. OneByOne'
    <2>1. ASSUME NEW e \in calls', NEW f \in calls', e.store = f.store, e.store # "memory"
          PROVE  e = f
        <3>1. PICK d \in calls : e = Disowned(d) /\ e.store = d.store
            BY <1>6
        <3>2. PICK h \in calls : f = Disowned(h) /\ f.store = h.store
            BY <1>6
        <3>3. d = h
            BY <2>1, <3>1, <3>2 DEF VectorsInv, OneByOne
        <3> QED BY <3>1, <3>2, <3>3
    <2> QED BY <2>1 DEF OneByOne
<1>10. calls' \subseteq Call
    BY <1>6
<1> QED BY <1>1, <1>4, <1>8, <1>9, <1>10, JobEnds

LEMMA RestartInv == VectorsInv /\ Restart => VectorsInv'
<1> SUFFICES ASSUME VectorsInv, Restart PROVE VectorsInv'
    OBVIOUS
<1>1. UNCHANGED <<world, stored, cli, changes, runs>> /\ calls' = {} /\ faults' \in 0 .. MaxFaults
    BY Bounds DEF Restart
<1>2. NoJob \in Job /\ NoRebuild \in Rebuild
    BY DEF NoJob, Job, NoRebuild, Rebuild, Status, Terminal
<1>3. job' \in [Stores -> Job] /\ rebuild' \in Rebuild
    BY <1>2 DEF Restart
<1>4. CallsAreCounted' /\ OneByOne'
    BY <1>1 DEF CallsAreCounted, OneByOne
<1>5. calls' \subseteq Call /\ runs' \in 0 .. MaxRuns
    BY <1>1 DEF VectorsInv, TypeOK
<1> QED BY <1>1, <1>3, <1>4, <1>5, OnlyTheJobs

-----------------------------------------------------------------------------
(* The command line *)

LEMMA CliStartInv == VectorsInv /\ CliStart => VectorsInv'
<1> SUFFICES ASSUME VectorsInv, CliStart PROVE VectorsInv'
    OBVIOUS
<1>1. /\ UNCHANGED <<world, stored, job, calls, rebuild, changes, faults>>
      /\ cli' = [generation |-> generation, todo |-> Lacking(Memories, generation)]
      /\ runs' \in 0 .. MaxRuns
    BY Bounds DEF CliStart
<1>2. CallsAreCounted' /\ OneByOne'
    BY <1>1, CallsStay DEF world
<1>3. Lacking(Memories, generation) \subseteq Row
    BY LackingAreRows DEF VectorsInv, TypeOK, Things
<1>4. cli' \in Cli /\ cli'.generation <= generation
    BY <1>1, <1>3 DEF Cli, VectorsInv, TypeOK, Generations
<1>5. NothingAhead' /\ GenerationIsFresh'
    BY <1>1, <1>4, VectorsStay DEF world, stored, VectorsInv, TypeOK, Weights
<1>6. TypeOK'
    BY <1>1, <1>4 DEF VectorsInv, TypeOK, world, stored
<1> QED BY <1>2, <1>5, <1>6 DEF VectorsInv

\* The command line's generation may be an old one, but its weights are today's.
LEMMA CliWriteInv ==
    ASSUME VectorsInv, NEW row \in cli.todo, CliWrite(row)
    PROVE  VectorsInv'
<1>1. UNCHANGED <<world, text, job, calls, rebuild, changes, runs, faults>>
    BY DEF CliWrite
<1>2. CallsAreCounted' /\ OneByOne'
    BY <1>1, CallsStay DEF world
<1>3. /\ cli \in Cli /\ cli.generation \in Generations /\ generation \in Generations
      /\ cli.generation <= generation /\ row[1] \in Things /\ row[2] \in 0 .. MaxText
    BY VectorsAssumption DEF VectorsInv, TypeOK, NothingAhead, Cli, Row
<1>4. cli' \in Cli /\ cli'.generation <= generation
    <2>1. NoCli \in Cli /\ NoCli.generation <= generation
        BY <1>3, VectorsAssumption DEF NoCli, Cli, Generations
    <2>2. [cli EXCEPT !.todo = @ \ {row}] \in Cli
          /\ [cli EXCEPT !.todo = @ \ {row}].generation = cli.generation
        BY <1>3 DEF Cli
    <2> QED BY <1>3, <2>1, <2>2 DEF CliWrite
<1>5. weights \in Weights \cup {0} /\ weights >= born[cli.generation]
    BY <1>3 DEF VectorsInv, TypeOK, NothingAhead
<1>6. vector' \in [Things -> [Generations -> Vector]] /\ NothingAhead' /\ GenerationIsFresh'
    BY <1>1, <1>3, <1>4, <1>5, VectorFiled DEF CliWrite, world
<1>7. TypeOK'
    BY <1>1, <1>4, <1>6 DEF VectorsInv, TypeOK, CliWrite, world
<1> QED BY <1>2, <1>6, <1>7 DEF VectorsInv

LEMMA CliDropsInv ==
    ASSUME VectorsInv, NEW rows \in SUBSET cli.todo, CliDrops(rows)
    PROVE  VectorsInv'
<1>1. UNCHANGED <<world, stored, job, calls, rebuild, changes, runs, faults>>
    BY DEF CliDrops
<1>2. CallsAreCounted' /\ OneByOne'
    BY <1>1, CallsStay DEF world
<1>3. cli \in Cli /\ generation \in Generations /\ cli.generation <= generation
    BY DEF VectorsInv, TypeOK, NothingAhead
<1>4. cli' \in Cli /\ cli'.generation <= generation
    <2>1. NoCli \in Cli /\ NoCli.generation <= generation
        BY <1>3, VectorsAssumption DEF NoCli, Cli, Generations
    <2>2. [cli EXCEPT !.todo = @ \ rows] \in Cli
          /\ [cli EXCEPT !.todo = @ \ rows].generation = cli.generation
        BY <1>3 DEF Cli
    <2> QED BY <1>3, <2>1, <2>2 DEF CliDrops
<1>5. NothingAhead' /\ GenerationIsFresh'
    BY <1>1, <1>4, VectorsStay DEF world, stored, VectorsInv, TypeOK, Weights
<1>6. TypeOK'
    BY <1>1, <1>4 DEF VectorsInv, TypeOK, world, stored
<1> QED BY <1>2, <1>5, <1>6 DEF VectorsInv

-----------------------------------------------------------------------------

\* Every step keeps the invariant.
LEMMA NextInv == VectorsInv /\ [Next]_vars => VectorsInv'
<1> SUFFICES ASSUME VectorsInv, [Next]_vars PROVE VectorsInv'
    OBVIOUS
<1>1. CASE SwapWeights \/ Configure \/ RepairOrphans
    BY <1>1, SwapWeightsInv, ConfigureInv, RepairOrphansInv
<1>2. CASE \E m \in Memories : (\E answered \in BOOLEAN : Save(m, answered)) \/ Delete(m)
    BY <1>2, SaveInv, DeleteInv
<1>3. CASE \E x \in Files \cup Media, answered \in BOOLEAN : Index(x, answered)
    BY <1>3, IndexInv
<1>4. CASE \E new \in BOOLEAN : StartRebuild(new)
                                \/ \E at \in Stores \cup {"end"} : StartRebuildFails(new, at)
    BY <1>4, StartRebuildInv, StartRebuildFailsInv
<1>5. CASE Poll \/ CancelRebuild \/ ReadTargets
    BY <1>5, PollInv, CancelRebuildInv, ReadTargetsInv
<1>6. CASE \E s \in Stores :
            \/ StartJob(s) \/ Cancel(s) \/ Finish(s) \/ Stop(s) \/ TimeOut(s)
            \/ \E batch \in Batches(s) : NextBatch(s, batch)
    BY <1>6, StartJobInv, CancelInv, TheLoopEnds, NextBatchInv
<1>7. CASE \E c \in calls : Skip(c) \/ Embed(c) \/ Write(c) \/ Fail(c) \/ Reject(c) \/ Busy(c)
    BY <1>7, SkipOrFailInv, EmbedInv, WriteInv, RejectInv, BusyInv
<1>8. CASE Restart \/ CliStart
    BY <1>8, RestartInv, CliStartInv
<1>9. CASE \E row \in cli.todo : CliWrite(row)
    BY <1>9, CliWriteInv
<1>10. CASE \E rows \in SUBSET cli.todo : CliDrops(rows)
    BY <1>10, CliDropsInv
<1>11. CASE UNCHANGED vars
    BY <1>11 DEF vars, world, stored, VectorsInv, TypeOK, CallsAreCounted, OneByOne,
                 NothingAhead, GenerationIsFresh, Has, Running
<1> QED BY <1>1, <1>2, <1>3, <1>4, <1>5, <1>6, <1>7, <1>8, <1>9, <1>10, <1>11 DEF Next

\* The inductive invariant holds of every behaviour: a job loses its calls before it
\* loses its status, so that no generation is opened over them (webui/runtime.py).
THEOREM VectorsInvariant == Spec => []VectorsInv
<1>1. Init => VectorsInv
    BY InitInv
<1>2. VectorsInv /\ [Next]_vars => VectorsInv'
    BY NextInv
<1> QED BY <1>1, <1>2, PTL DEF Spec

\* What is searched under a generation was embedded with weights at least as young
\* as the generation, unless by a call whose job has failed over a busy database.
THEOREM GenerationsAreFresh == Spec => []GenerationIsFresh
<1>1. VectorsInv => GenerationIsFresh
    BY DEF VectorsInv
<1> QED BY <1>1, VectorsInvariant, PTL

-----------------------------------------------------------------------------
(* A completed rebuild.                                                    *)

\* A filed vector is there, and every other stays.
LEMMA FiledIsThere ==
    ASSUME VectorsInv, NEW x \in Things, NEW g \in Generations, NEW w, NEW t, NEW stray,
           t # 0, Put(x, g, w, t, stray)
    PROVE  /\ vector'[x][g] # NoVector
           /\ \A y \in Things, h \in Generations : vector[y][h] # NoVector => vector'[y][h] # NoVector
<1>1. vector \in [Things -> [Generations -> Vector]]
    BY DEF VectorsInv, TypeOK
<1>2. vector'[x][g] = [weights |-> w, text |-> t, stray |-> stray]
    BY <1>1 DEF Put
<1>3. vector'[x][g] # NoVector
    BY <1>2 DEF NoVector
<1>4. \A y \in Things, h \in Generations : y # x \/ h # g => vector'[y][h] = vector[y][h]
    BY <1>1 DEF Put
<1> QED BY <1>3, <1>4

\* What the rebuild speaks of are things, and the stores' things are things.
LEMMA AskedAreThings ==
    ASSUME VectorsInv
    PROVE  /\ rebuild.asked \subseteq Things /\ generation \in Generations
           /\ \A s \in Stores : /\ job[s] \in Job
                                /\ Of[s] \subseteq Things
BY TheStores DEF VectorsInv, TypeOK, Rebuild

\* Steps that end no part and begin none.
LEMMA RebuildStays ==
    ASSUME VectorsInv, RebuildInv, UNCHANGED generation,
           rebuild'.asked \subseteq rebuild.asked,
           rebuild'.job = rebuild.job, rebuild'.left = rebuild.left, rebuild'.status = rebuild.status,
           \A x \in rebuild'.asked : /\ text'[x] # 0
                                     /\ vector[x][generation] # NoVector
                                        => vector'[x][generation] # NoVector,
           \A s \in Stores : WorksOn(s)' => WorksOn(s),
           \A s \in Stores : \A x \in rebuild'.asked :
               WorksOn(s)' /\ (job[s].errors \/ Covered(s, x))
               => job'[s].errors \/ Covered(s, x)'
    PROVE  RebuildInv'
<1>1. \A x \in rebuild'.asked : Exists(x)' /\ \E s \in Stores : rebuild'.job[s] # "none" /\ x \in Of[s]
    BY DEF RebuildInv, Exists
<1>2. PartsAreComplete'
    <2> SUFFICES ASSUME NEW s \in Stores, NEW x \in rebuild'.asked \cap Of[s]
                 PROVE  /\ rebuild'.job[s] = "completed" => x \in rebuild'.left \/ Has(x, generation)'
                        /\ WorksOn(s)' => job'[s].errors \/ Covered(s, x)'
        BY DEF PartsAreComplete
    <2>1. x \in rebuild.asked \cap Of[s]
        OBVIOUS
    <2>2. rebuild'.job[s] = "completed" => x \in rebuild'.left \/ Has(x, generation)'
        BY <2>1 DEF RebuildInv, PartsAreComplete, Has
    <2>3. WorksOn(s)' => job'[s].errors \/ Covered(s, x)'
        BY <2>1 DEF RebuildInv, PartsAreComplete
    <2> QED BY <2>2, <2>3
<1>3. RebuildIsComplete'
    BY DEF RebuildInv, RebuildIsComplete, Has
<1> QED BY <1>1, <1>2, <1>3 DEF RebuildInv

\* The steps of others leave the jobs and their calls alone; an error is never taken back.
LEMMA OthersKeepRebuild ==
    ASSUME VectorsInv, RebuildInv, UNCHANGED <<generation, calls>>,
           rebuild'.asked \subseteq rebuild.asked,
           rebuild'.job = rebuild.job, rebuild'.left = rebuild.left, rebuild'.status = rebuild.status,
           \A x \in rebuild'.asked : /\ text'[x] # 0
                                     /\ vector[x][generation] # NoVector
                                        => vector'[x][generation] # NoVector,
           \A s \in Stores : /\ job'[s].status = job[s].status /\ job'[s].pc = job[s].pc
                             /\ job'[s].part = job[s].part /\ job'[s].todo = job[s].todo
                             /\ job'[s].left = job[s].left /\ (job[s].errors => job'[s].errors)
    PROVE  RebuildInv'
<1>1. \A s \in Stores : WorksOn(s)' => WorksOn(s)
    BY DEF WorksOn, Running
<1>2. \A s \in Stores : \A x : Waits(s, x) => Waits(s, x)'
    BY DEF Waits, Mine
<1>3. \A s \in Stores : \A x \in rebuild'.asked : Covered(s, x) => Covered(s, x)'
    BY <1>2 DEF Covered, Has
<1> QED BY <1>1, <1>3, RebuildStays

\* A job ends: if it was a part that completed, nothing was left to do.
LEMMA EndedKeepsRebuild ==
    ASSUME VectorsInv, RebuildInv, UNCHANGED <<generation, text, vector>>,
           NEW s \in Stores, NEW status \in Terminal, Ended(s, status),
           \A t \in Stores \ {s} : \A x : Waits(t, x) => Waits(t, x)',
           status = "completed" /\ job[s].part =>
               \A x \in rebuild.asked \cap Of[s] : x \in rebuild.left \cup job[s].left \/ Has(x, generation)
    PROVE  RebuildInv'
<1>1. rebuild \in Rebuild /\ job \in [Stores -> Job]
    BY DEF VectorsInv, TypeOK
<1>2. /\ rebuild'.asked = rebuild.asked /\ rebuild'.status = rebuild.status
      /\ rebuild.left \subseteq rebuild'.left
      /\ \A t \in Stores \ {s} : rebuild'.job[t] = rebuild.job[t]
      /\ job[s].part => rebuild'.job[s] = status /\ rebuild'.left = rebuild.left \cup job[s].left
      /\ ~job[s].part => rebuild'.job[s] = rebuild.job[s]
    BY <1>1 DEF Ended, Rebuild
<1>3. \A t \in Stores \ {s} : job'[t] = job[t]
    BY <1>1 DEF Ended
<1>4. ~WorksOn(s)'
    BY <1>1 DEF Ended, WorksOn, Running, NoJob, Terminal
<1>5. \A x \in rebuild'.asked : Exists(x)' /\ \E t \in Stores : rebuild'.job[t] # "none" /\ x \in Of[t]
    <2> SUFFICES ASSUME NEW x \in rebuild.asked
                 PROVE  Exists(x)' /\ \E t \in Stores : rebuild'.job[t] # "none" /\ x \in Of[t]
        BY <1>2
    <2>1. PICK t \in Stores : rebuild.job[t] # "none" /\ x \in Of[t]
        BY DEF RebuildInv
    <2>2. status # "none"
        BY DEF Terminal
    <2>3. rebuild'.job[t] # "none"
        BY <1>2, <2>1, <2>2
    <2> QED BY <2>1, <2>3 DEF RebuildInv, Exists
<1>6. PartsAreComplete'
    <2> SUFFICES ASSUME NEW t \in Stores, NEW x \in rebuild.asked \cap Of[t]
                 PROVE  /\ rebuild'.job[t] = "completed" => x \in rebuild'.left \/ Has(x, generation)'
                        /\ WorksOn(t)' => job'[t].errors \/ Covered(t, x)'
        BY <1>2 DEF PartsAreComplete
    <2>1. CASE t # s
        <3>1. /\ rebuild.job[t] = "completed" => x \in rebuild.left \/ Has(x, generation)
              /\ WorksOn(t) => job[t].errors \/ Covered(t, x)
            BY DEF RebuildInv, PartsAreComplete
        <3>2. WorksOn(t)' => WorksOn(t)
            BY <1>3, <2>1 DEF WorksOn, Running
        <3>3. Covered(t, x) => Covered(t, x)'
            BY <1>2, <1>3, <2>1 DEF Covered, Has
        <3> QED BY <1>2, <1>3, <2>1, <3>1, <3>2, <3>3 DEF Has
    <2>2. CASE t = s
        <3>1. CASE job[s].part
            BY <1>2, <1>4, <2>2, <3>1 DEF Has
        <3>2. CASE ~job[s].part
            BY <1>2, <1>4, <2>2, <3>2 DEF RebuildInv, PartsAreComplete, Has
        <3> QED BY <3>1, <3>2
    <2> QED BY <2>1, <2>2
<1>7. RebuildIsComplete'
    BY <1>2 DEF RebuildInv, RebuildIsComplete, Has
<1> QED BY <1>5, <1>6, <1>7 DEF RebuildInv

LEMMA EndsKeepRebuild ==
    ASSUME VectorsInv, RebuildInv, UNCHANGED <<generation, text, vector>>,
           NEW s \in Stores, NEW status \in Terminal, Ends(s, status),
           \A t \in Stores \ {s} : \A x : Waits(t, x) => Waits(t, x)',
           status = "completed" /\ job[s].part =>
               \A x \in rebuild.asked \cap Of[s] : x \in rebuild.left \cup job[s].left \/ Has(x, generation)
    PROVE  RebuildInv'
<1>1. CASE Ended(s, status)
    BY <1>1, EndedKeepsRebuild
<1>2. CASE Ended(s, "failed")
    <2>1. "failed" \in Terminal
        BY DEF Terminal
    <2> QED BY <1>2, <2>1, EndedKeepsRebuild
<1> QED BY <1>1, <1>2 DEF Ends

\* Writers of memories, notes and images, settings and the command line.
LEMMA WritersKeepRebuild ==
    ASSUME VectorsInv, RebuildInv,
           \/ SwapWeights \/ Configure \/ RepairOrphans \/ CliStart
           \/ \E m \in Memories : (\E answered \in BOOLEAN : Save(m, answered)) \/ Delete(m)
           \/ \E x \in Files \cup Media, answered \in BOOLEAN : Index(x, answered)
           \/ \E row \in cli.todo : CliWrite(row)
           \/ \E rows \in SUBSET cli.todo : CliDrops(rows)
    PROVE  RebuildInv'
<1>0. /\ rebuild.asked \subseteq Things /\ generation \in Generations
      /\ \A x \in rebuild.asked : text[x] # 0
      /\ text \in [Things -> 0 .. MaxText] /\ vector \in [Things -> [Generations -> Vector]]
    BY AskedAreThings DEF RebuildInv, Exists, VectorsInv, TypeOK
<1>1. CASE SwapWeights \/ Configure \/ CliStart \/ \E rows \in SUBSET cli.todo : CliDrops(rows)
    <2>1. UNCHANGED <<generation, calls, job, rebuild, text, vector>>
        BY <1>1 DEF SwapWeights, Configure, CliStart, CliDrops, world, stored
    <2> QED BY <1>0, <2>1, OthersKeepRebuild
<1>2. CASE RepairOrphans
    <2>1. UNCHANGED <<generation, calls, job, rebuild, text>>
        BY <1>2 DEF RepairOrphans, world
    <2>2. \A x \in rebuild.asked : vector'[x] = vector[x]
        BY <1>0, <1>2 DEF RepairOrphans, Exists
    <2> QED BY <1>0, <2>1, <2>2, OthersKeepRebuild
<1>3. ASSUME NEW m \in Memories, NEW answered \in BOOLEAN, Save(m, answered) PROVE RebuildInv'
    <2>1. UNCHANGED <<generation, calls, job, rebuild>> /\ m \in Things
        BY <1>3 DEF Save, world, Things
    <2>2. text[m] \in Nat /\ text[m] + 1 # 0
        BY <1>0, <2>1
    <2>3. \A x \in Things : text[x] # 0 => text'[x] # 0
        BY <1>0, <1>3, <2>1, <2>2 DEF Save
    <2>4. \A x \in Things : vector[x][generation] # NoVector => vector'[x][generation] # NoVector
        BY <1>0, <1>3, <2>1, <2>2, FiledIsThere DEF Save
    <2> QED BY <1>0, <2>1, <2>3, <2>4, OthersKeepRebuild
<1>4. ASSUME NEW m \in Memories, Delete(m) PROVE RebuildInv'
    <2>1. UNCHANGED <<generation, calls, job>> /\ rebuild \in Rebuild
        BY <1>4 DEF Delete, world, VectorsInv, TypeOK
    <2>2. /\ rebuild'.asked = rebuild.asked \ {m} /\ rebuild'.job = rebuild.job
          /\ rebuild'.left = rebuild.left /\ rebuild'.status = rebuild.status
        BY <1>4, <2>1 DEF Delete, Rebuild
    <2>3. \A x \in Things \ {m} : text'[x] = text[x] /\ vector'[x] = vector[x]
        BY <1>0, <1>4 DEF Delete
    <2>4. \A x \in rebuild'.asked : x \in Things \ {m}
        BY <1>0, <2>2
    <2> QED BY <1>0, <2>1, <2>2, <2>3, <2>4, OthersKeepRebuild
<1>5. ASSUME NEW x \in Files \cup Media, NEW answered \in BOOLEAN, Index(x, answered)
      PROVE  RebuildInv'
    <2>1. UNCHANGED <<generation, calls, rebuild>> /\ x \in Things
        BY <1>5 DEF Index, world, Things
    <2>2. \A y \in Things : text[y] # 0 => text'[y] # 0
        BY <1>0, <1>5 DEF Index
    <2>3. \A y \in Things : vector[y][generation] # NoVector => vector'[y][generation] # NoVector
        <3>1. vector' = vector \/ Put(x, generation, weights, 1, FALSE)
            BY <1>5 DEF Index
        <3>2. CASE Put(x, generation, weights, 1, FALSE)
            <4>1. 1 # 0
                OBVIOUS
            <4> QED BY <1>0, <2>1, <3>2, <4>1, FiledIsThere
        <3> QED BY <3>1, <3>2
    <2>4. \A s \in Stores : /\ job'[s].status = job[s].status /\ job'[s].pc = job[s].pc
                            /\ job'[s].part = job[s].part /\ job'[s].todo = job[s].todo
                            /\ job'[s].left = job[s].left /\ (job[s].errors => job'[s].errors)
        <3>1. job \in [Stores -> Job] /\ "conversation" \in Stores
            BY TheStores DEF VectorsInv, TypeOK
        <3>2. CASE UNCHANGED job
            BY <3>2
        <3>3. CASE job' = [job EXCEPT !["conversation"].errors = @ \/ Running("conversation")]
            <4> DEFINE new == [job["conversation"] EXCEPT !.errors = @ \/ Running("conversation")]
            <4>1. /\ new.status = job["conversation"].status /\ new.pc = job["conversation"].pc
                  /\ new.part = job["conversation"].part /\ new.todo = job["conversation"].todo
                  /\ new.left = job["conversation"].left
                  /\ job["conversation"].errors => new.errors
                BY <3>1 DEF Job
            <4>2. job' = [job EXCEPT !["conversation"] = new]
                BY <3>3
            <4> HIDE DEF new
            <4> QED BY <3>1, <4>1, <4>2
        <3> QED BY <1>5, <3>2, <3>3 DEF Index
    <2> QED BY <1>0, <2>1, <2>2, <2>3, <2>4, OthersKeepRebuild
<1>6. ASSUME NEW row \in cli.todo, CliWrite(row) PROVE RebuildInv'
    <2>1. UNCHANGED <<generation, calls, job, rebuild, text>>
        BY <1>6 DEF CliWrite, world
    <2>2. row[1] \in Things /\ row[2] # 0 /\ cli.generation \in Generations
        BY VectorsAssumption DEF VectorsInv, TypeOK, Cli, Row
    <2>3. \A x \in Things : vector[x][generation] # NoVector => vector'[x][generation] # NoVector
        BY <1>0, <1>6, <2>2, FiledIsThere DEF CliWrite
    <2> QED BY <1>0, <2>1, <2>3, OthersKeepRebuild
<1> QED BY <1>1, <1>2, <1>3, <1>4, <1>5, <1>6

\* A job that starts on its own is no part.
LEMMA StartJobKeepsRebuild ==
    ASSUME VectorsInv, RebuildInv, NEW s \in Stores, StartJob(s)
    PROVE  RebuildInv'
<1>1. UNCHANGED <<generation, vector, text, calls, rebuild>>
    BY DEF StartJob, world, stored
<1>2. NewJob(s, FALSE).part = FALSE /\ Stuck(s, FALSE).part = FALSE
    BY DEF NewJob, Stuck, NoJob
<1>3. job'[s].part = FALSE /\ \A t \in Stores \ {s} : job'[t] = job[t]
    BY <1>2 DEF StartJob, VectorsInv, TypeOK
<1>4. \A t \in Stores : WorksOn(t)' => WorksOn(t) /\ job'[t] = job[t]
    BY <1>3 DEF WorksOn, Running
<1>5. \A t \in Stores : \A x : job'[t] = job[t] /\ Covered(t, x) => Covered(t, x)'
    BY <1>1 DEF Covered, Waits, Mine, Has
<1> QED BY <1>1, <1>4, <1>5, RebuildStays DEF RebuildInv, Exists

LEMMA CancelKeepsRebuild ==
    ASSUME VectorsInv, RebuildInv, NEW s \in Stores, Cancel(s)
    PROVE  RebuildInv'
<1> DEFINE new == [job[s] EXCEPT !.cancel = TRUE]
<1>1. UNCHANGED <<generation, vector, text, calls, rebuild>> /\ job' = [job EXCEPT ![s] = new]
    BY DEF Cancel, world, stored
<1>2. job \in [Stores -> Job]
    BY DEF VectorsInv, TypeOK
<1>3. /\ new.status = job[s].status /\ new.pc = job[s].pc /\ new.part = job[s].part
      /\ new.todo = job[s].todo /\ new.left = job[s].left /\ new.errors = job[s].errors
    BY <1>2 DEF Job
<1> HIDE DEF new
<1>4. \A t \in Stores : /\ job'[t].status = job[t].status /\ job'[t].pc = job[t].pc
                        /\ job'[t].part = job[t].part /\ job'[t].todo = job[t].todo
                        /\ job'[t].left = job[t].left /\ (job[t].errors => job'[t].errors)
    BY <1>1, <1>2, <1>3
<1> QED BY <1>1, <1>4, OthersKeepRebuild DEF RebuildInv, Exists

\* A rebuild is seen to be completed when all its parts are.
LEMMA WhatIsSeen ==
    ASSUME NEW r \in Rebuild
    PROVE  /\ Seen(r).asked = r.asked /\ Seen(r).job = r.job /\ Seen(r).left = r.left
           /\ Seen(r).status = "completed" =>
                 r.status = "completed" \/ \A s \in Stores : r.job[s] \in {"none", "completed"}
<1> DEFINE statuses == {r.job[s] : s \in {t \in Stores : r.job[t] # "none"}}
<1>1. CASE statuses # {} /\ statuses \subseteq Terminal
    <2>1. Seen(r) = [r EXCEPT !.status = Sum(statuses)]
        BY <1>1 DEF Seen
    <2>2. Sum(statuses) = "completed" => \A s \in Stores : r.job[s] \in {"none", "completed"}
        BY <1>1 DEF Sum, Terminal
    <2> HIDE DEF statuses
    <2> QED BY <2>1, <2>2 DEF Rebuild
<1>2. CASE ~(statuses # {} /\ statuses \subseteq Terminal)
    BY <1>2 DEF Seen
<1> QED BY <1>1, <1>2

\* The rebuild is looked at; its parts and what they cover stay.
LEMMA SeeingKeepsRebuild ==
    ASSUME VectorsInv, RebuildInv, UNCHANGED <<generation, vector, text, calls>>,
           rebuild' \in {Seen(rebuild), Seen([rebuild EXCEPT !.status = "cancelled"])},
           \A t \in Stores : /\ job'[t].status = job[t].status /\ job'[t].pc = job[t].pc
                             /\ job'[t].part = job[t].part /\ job'[t].todo = job[t].todo
                             /\ job'[t].left = job[t].left /\ job'[t].errors = job[t].errors
    PROVE  RebuildInv'
<1>1. rebuild \in Rebuild
    BY DEF VectorsInv, TypeOK
<1>2. PICK r \in Rebuild : /\ rebuild' = Seen(r) /\ r.asked = rebuild.asked /\ r.job = rebuild.job
                           /\ r.left = rebuild.left /\ r.status \in {rebuild.status, "cancelled"}
    <2>1. [rebuild EXCEPT !.status = "cancelled"] \in Rebuild
        BY <1>1 DEF Rebuild, Status, Terminal
    <2>2. LET r == [rebuild EXCEPT !.status = "cancelled"] IN
          /\ r.asked = rebuild.asked /\ r.job = rebuild.job
          /\ r.left = rebuild.left /\ r.status = "cancelled"
        BY <1>1 DEF Rebuild
    <2> QED BY <1>1, <2>1, <2>2
<1>3. /\ rebuild'.asked = rebuild.asked /\ rebuild'.job = rebuild.job /\ rebuild'.left = rebuild.left
      /\ rebuild'.status = "completed" =>
            rebuild.status = "completed" \/ \A s \in Stores : rebuild.job[s] \in {"none", "completed"}
    BY <1>2, WhatIsSeen
<1>4. \A x \in rebuild'.asked : Exists(x)' /\ \E s \in Stores : rebuild'.job[s] # "none" /\ x \in Of[s]
    BY <1>3 DEF RebuildInv, Exists
<1>5. \A s \in Stores : (WorksOn(s)' => WorksOn(s)) /\ \A x : Covered(s, x) => Covered(s, x)'
    BY <1>3 DEF WorksOn, Running, Covered, Waits, Mine, Has
<1>6. PartsAreComplete'
    BY <1>3, <1>5 DEF RebuildInv, PartsAreComplete, Has
<1>7. RebuildIsComplete'
    <2> SUFFICES ASSUME rebuild'.status = "completed", NEW x \in rebuild.asked \ rebuild.left
                 PROVE  Has(x, generation)
        BY <1>3 DEF RebuildIsComplete, Has
    <2>1. CASE rebuild.status = "completed"
        BY <2>1 DEF RebuildInv, RebuildIsComplete
    <2>2. CASE \A s \in Stores : rebuild.job[s] \in {"none", "completed"}
        BY <2>2 DEF RebuildInv, PartsAreComplete
    <2> QED BY <1>3, <2>1, <2>2
<1> QED BY <1>4, <1>6, <1>7 DEF RebuildInv

LEMMA LookingKeepsRebuild ==
    ASSUME VectorsInv, RebuildInv, Poll \/ CancelRebuild
    PROVE  RebuildInv'
<1>1. UNCHANGED <<generation, vector, text, calls>>
    BY DEF Poll, CancelRebuild, world, stored
<1>2. rebuild' \in {Seen(rebuild), Seen([rebuild EXCEPT !.status = "cancelled"])}
    BY DEF Poll, CancelRebuild
<1>3. job \in [Stores -> Job]
    BY DEF VectorsInv, TypeOK
<1>4. \A t \in Stores : job'[t] = job[t] \/ job'[t] = [job[t] EXCEPT !.cancel = TRUE]
    BY <1>3 DEF Poll, CancelRebuild
<1>5. \A t \in Stores : /\ job'[t].status = job[t].status /\ job'[t].pc = job[t].pc
                        /\ job'[t].part = job[t].part /\ job'[t].todo = job[t].todo
                        /\ job'[t].left = job[t].left /\ job'[t].errors = job[t].errors
    <2> SUFFICES ASSUME NEW t \in Stores, job'[t] = [job[t] EXCEPT !.cancel = TRUE]
                 PROVE  /\ job'[t].status = job[t].status /\ job'[t].pc = job[t].pc
                        /\ job'[t].part = job[t].part /\ job'[t].todo = job[t].todo
                        /\ job'[t].left = job[t].left /\ job'[t].errors = job[t].errors
        BY <1>4
    <2> QED BY <1>3 DEF Job
<1> QED BY <1>1, <1>2, <1>5, SeeingKeepsRebuild

\* A rebuild begins: its parts have their targets or are yet to read them.
LEMMA StartRebuildKeepsRebuild ==
    ASSUME VectorsInv, RebuildInv, NEW new \in BOOLEAN, StartRebuild(new)
    PROVE  RebuildInv'
<1>1. UNCHANGED <<text, vector>> /\ setup \subseteq Stores
    BY DEF StartRebuild, stored, VectorsInv, TypeOK
<1>2. /\ rebuild'.asked = {x \in UNION {Of[s] : s \in setup} : Exists(x)}
      /\ rebuild'.status = "running"
      /\ rebuild'.job = [s \in Stores |-> IF s \in setup THEN "running" ELSE "none"]
    BY DEF StartRebuild, NoRebuild
<1>3. \A x \in rebuild'.asked : Exists(x)' /\ \E s \in Stores : rebuild'.job[s] # "none" /\ x \in Of[s]
    BY <1>1, <1>2 DEF Exists
<1>4. \A s \in Stores : rebuild'.job[s] # "completed"
    BY <1>2
<1>5. ASSUME NEW s \in Stores, NEW x \in rebuild'.asked \cap Of[s], WorksOn(s)'
      PROVE  Covered(s, x)'
    <2>1. CASE s \notin setup
        BY <1>5, <2>1 DEF WorksOn, StartRebuild, MayRebuild, Running
    <2>2. CASE s \in setup
        <3>1. job'[s] = Part(s)
            BY <2>2 DEF StartRebuild
        <3>2. Part(s).pc = IF s = "memory" THEN "first" ELSE "run"
            BY DEF Part, NewJob, NoJob
        <3>3. s # "memory"
            BY <1>5, <3>1, <3>2 DEF WorksOn
        <3>4. Part(s).todo = Lacking(Of[s], generation')
            BY <3>3 DEF Part, NewJob, NoJob
        <3>5. text[x] # 0
            BY <1>2 DEF Exists
        <3>6. CASE vector[x][generation'] # NoVector
            BY <1>1, <3>6 DEF Covered, Has
        <3>7. CASE vector[x][generation'] = NoVector
            <4>1. <<x, text[x]>> \in job'[s].todo
                BY <3>1, <3>4, <3>5, <3>7 DEF Lacking, Exists, Has
            <4> QED BY <4>1 DEF Covered, Waits
        <3> QED BY <3>6, <3>7
    <2> QED BY <2>1, <2>2
<1> QED BY <1>2, <1>3, <1>4, <1>5 DEF RebuildInv, PartsAreComplete, RebuildIsComplete

\* Nothing is asked of a rebuild that failed to start, or of none.
LEMMA NothingAsked ==
    ASSUME rebuild'.asked = {}
    PROVE  RebuildInv'
BY DEF RebuildInv, PartsAreComplete, RebuildIsComplete

LEMMA NoneKeepsRebuild ==
    ASSUME Restart \/ \E new \in BOOLEAN, at \in Stores \cup {"end"} : StartRebuildFails(new, at)
    PROVE  RebuildInv'
<1>1. CASE Restart
    BY <1>1, NothingAsked DEF Restart, NoRebuild
<1>2. ASSUME NEW new \in BOOLEAN, NEW at \in Stores \cup {"end"}, StartRebuildFails(new, at)
      PROVE  rebuild'.asked = {}
    BY <1>2 DEF StartRebuildFails, NoRebuild
<1> QED BY <1>1, <1>2, NothingAsked

LEMMA ReadTargetsKeepsRebuild ==
    ASSUME VectorsInv, RebuildInv, ReadTargets
    PROVE  RebuildInv'
<1>1. UNCHANGED <<generation, vector, text, calls, enabled>> /\ "memory" \in Stores
    BY TheStores DEF ReadTargets, world, stored
<1>2. CASE job' = [job EXCEPT !["memory"].pc = "run", !["memory"].todo = Targets]
           /\ UNCHANGED rebuild
    <2> DEFINE new == [job["memory"] EXCEPT !.pc = "run", !.todo = Targets]
    <2>1. job \in [Stores -> Job]
        BY DEF VectorsInv, TypeOK
    <2>2. new.todo = Targets
        BY <1>1, <2>1 DEF Job
    <2>3. job' = [job EXCEPT !["memory"] = new]
        BY <1>1, <1>2, <2>1
    <2> HIDE DEF new
    <2>4. job'["memory"].todo = Targets /\ \A t \in Stores \ {"memory"} : job'[t] = job[t]
        BY <1>1, <2>1, <2>2, <2>3
    <2>5. ASSUME NEW x \in rebuild.asked \cap Of["memory"]
          PROVE  Covered("memory", x)'
        <3>1. x \in Memories /\ Exists(x)
            BY DEF Of, RebuildInv
        <3>2. CASE vector[x][generation] # NoVector
            BY <1>1, <3>2 DEF Covered, Has
        <3>3. CASE vector[x][generation] = NoVector
            <4>1. <<x, text[x]>> \in Targets
                BY <3>1, <3>3 DEF Targets, Lacking, Has
            <4> QED BY <2>4, <4>1 DEF Covered, Waits
        <3> QED BY <3>2, <3>3
    <2>6. \A t \in Stores \ {"memory"} : /\ WorksOn(t)' => WorksOn(t)
                                        /\ \A x : Covered(t, x) => Covered(t, x)'
        BY <1>1, <1>2, <2>4 DEF WorksOn, Running, Covered, Waits, Mine, Has
    <2>7. PartsAreComplete'
        <3> SUFFICES ASSUME NEW t \in Stores, NEW x \in rebuild.asked \cap Of[t]
                     PROVE  /\ rebuild.job[t] = "completed" => x \in rebuild.left \/ Has(x, generation)'
                            /\ WorksOn(t)' => job'[t].errors \/ Covered(t, x)'
            BY <1>2 DEF PartsAreComplete
        <3>1. rebuild.job[t] = "completed" => x \in rebuild.left \/ Has(x, generation)'
            BY <1>1 DEF RebuildInv, PartsAreComplete, Has
        <3>2. CASE t = "memory"
            BY <2>5, <3>1, <3>2
        <3>3. CASE t # "memory"
            BY <2>4, <2>6, <3>1, <3>3 DEF RebuildInv, PartsAreComplete
        <3> QED BY <3>2, <3>3
    <2> QED BY <1>1, <1>2, <2>7 DEF RebuildInv, RebuildIsComplete, Has, Exists
<1>3. CASE Ended("memory", "failed")
    <2>1. "failed" \in Terminal
        BY DEF Terminal
    <2>2. ASSUME NEW t \in Stores \ {"memory"} PROVE \A x : Waits(t, x) => Waits(t, x)'
        BY <1>1, <1>3 DEF Ended, Waits, Mine, VectorsInv, TypeOK
    <2> QED BY <1>1, <1>3, <2>1, <2>2, EndedKeepsRebuild
<1> QED BY <1>2, <1>3 DEF ReadTargets

\* Where a job says "completed", it has no target and no call left, and no error.
LEMMA TheLoopKeepsRebuild ==
    ASSUME VectorsInv, RebuildInv, NEW s \in Stores, Finish(s) \/ Stop(s) \/ TimeOut(s)
    PROVE  RebuildInv'
<1>1. UNCHANGED <<generation, vector, text, calls>> /\ AtLoop(s)
    BY DEF Finish, Stop, TimeOut, world, stored
<1>2. PICK status \in Terminal :
          /\ Ends(s, status)
          /\ status = "completed" => job[s].todo = {} /\ ~job[s].errors
    <2>1. {"completed", "completed_with_errors", "cancelled", "failed"} \subseteq Terminal
        BY DEF Terminal
    <2> QED BY <2>1 DEF Finish, Stop, TimeOut
<1>3. ASSUME status = "completed", job[s].part, NEW x \in rebuild.asked \cap Of[s]
      PROVE  x \in rebuild.left \cup job[s].left \/ Has(x, generation)
    <2>1. WorksOn(s)
        BY <1>1, <1>3 DEF WorksOn, AtLoop
    <2>2. Covered(s, x)
        BY <1>2, <1>3, <2>1 DEF RebuildInv, PartsAreComplete
    <2> QED BY <1>1, <1>2, <1>3, <2>2 DEF Covered, Waits, AtLoop
<1>4. ASSUME NEW t \in Stores \ {s} PROVE \A x : Waits(t, x) => Waits(t, x)'
    <2>1. job'[t] = job[t]
        BY <1>2 DEF Ends, Ended, VectorsInv, TypeOK
    <2> QED BY <1>1, <2>1 DEF Waits, Mine
<1> QED BY <1>1, <1>2, <1>3, <1>4, EndsKeepRebuild

\* Targets become calls.
LEMMA NextBatchKeepsRebuild ==
    ASSUME VectorsInv, RebuildInv, NEW s \in Stores, NEW batch \in Batches(s), NextBatch(s, batch)
    PROVE  RebuildInv'
<1> DEFINE new == [job[s] EXCEPT !.todo = @ \ batch]
<1>1. /\ UNCHANGED <<generation, vector, text, rebuild>> /\ job' = [job EXCEPT ![s] = new]
      /\ calls' = calls \cup [store : {s}, row : batch, phase : {"waiting"}, weights : {0},
                              generation : {generation}, stray : {FALSE}]
    BY DEF NextBatch, world, stored
<1>2. job \in [Stores -> Job]
    BY DEF VectorsInv, TypeOK
<1>3. /\ new.status = job[s].status /\ new.pc = job[s].pc /\ new.part = job[s].part
      /\ new.todo = job[s].todo \ batch /\ new.left = job[s].left /\ new.errors = job[s].errors
    BY <1>2 DEF Job
<1> HIDE DEF new
<1>4. job'[s] = new /\ \A t \in Stores \ {s} : job'[t] = job[t]
    BY <1>1, <1>2
<1>5. \A t \in Stores : (WorksOn(t)' => WorksOn(t)) /\ (job[t].errors => job'[t].errors)
    BY <1>3, <1>4 DEF WorksOn, Running
<1>6. ASSUME NEW t \in Stores, NEW x, Covered(t, x)
      PROVE  Covered(t, x)'
    <2>1. job'[t].left = job[t].left
        BY <1>3, <1>4
    <2>2. CASE ~Waits(t, x)
        BY <1>1, <1>6, <2>1, <2>2 DEF Covered, Has
    <2>3. CASE \E c \in Mine(t) : c.row[1] = x
        BY <1>1, <2>3 DEF Covered, Waits, Mine
    <2>4. ASSUME NEW row \in job[t].todo, row[1] = x
          PROVE  Covered(t, x)'
        <3>1. CASE row \in job'[t].todo
            BY <2>4, <3>1 DEF Covered, Waits
        <3>2. CASE row \notin job'[t].todo
            <4>1. t = s /\ row \in batch
                BY <1>3, <1>4, <2>4, <3>2
            <4> DEFINE c == [store |-> s, row |-> row, phase |-> "waiting", weights |-> 0,
                             generation |-> generation, stray |-> FALSE]
            <4>2. c \in calls' /\ c.store = t /\ ~c.stray /\ c.row[1] = x
                BY <1>1, <2>4, <4>1
            <4> HIDE DEF c
            <4> QED BY <4>2 DEF Covered, Waits, Mine
        <3> QED BY <3>1, <3>2
    <2> QED BY <2>2, <2>3, <2>4 DEF Waits
<1> QED BY <1>1, <1>5, <1>6, RebuildStays DEF RebuildInv, Exists

\* A call comes back: its thing has a vector, or is noted, or the job has an error.
LEMMA ReturnsKeepsRebuild ==
    ASSUME VectorsInv, RebuildInv, UNCHANGED <<generation, text, rebuild>>,
           \A x \in Things : vector[x][generation] # NoVector => vector'[x][generation] # NoVector,
           NEW c \in calls, NEW errors \in BOOLEAN, NEW left, left \subseteq Things,
           Returns(c, errors, left),
           errors \/ vector'[c.row[1]][generation] # NoVector \/ c.row[1] \in left
    PROVE  RebuildInv'
<1>1. job \in [Stores -> Job] /\ c.store \in Stores
    BY DEF VectorsInv, TypeOK, Call
<1>2. ASSUME NEW t \in Stores
      PROVE  /\ job'[t].status = job[t].status /\ job'[t].pc = job[t].pc
             /\ job'[t].part = job[t].part /\ job'[t].todo = job[t].todo
             /\ job[t].left \subseteq job'[t].left /\ (job[t].errors => job'[t].errors)
             /\ ~c.stray /\ t = c.store => left \subseteq job'[t].left /\ (errors => job'[t].errors)
    <2>1. CASE c.stray
        BY <1>1, <2>1 DEF Returns
    <2>2. CASE ~c.stray
        <3> DEFINE new == [job[c.store] EXCEPT !.errors = @ \/ errors, !.left = @ \cup left]
        <3>1. /\ new.status = job[c.store].status /\ new.pc = job[c.store].pc
              /\ new.part = job[c.store].part /\ new.todo = job[c.store].todo
              /\ new.left = job[c.store].left \cup left
              /\ new.errors = (job[c.store].errors \/ errors)
            BY <1>1 DEF Job
        <3>2. job' = [job EXCEPT ![c.store] = new]
            BY <1>1, <2>2 DEF Returns
        <3> HIDE DEF new
        <3> QED BY <1>1, <3>1, <3>2
    <2> QED BY <2>1, <2>2
<1>3. \A t \in Stores : WorksOn(t)' => WorksOn(t)
    BY <1>2 DEF WorksOn, Running
<1>4. ASSUME NEW t \in Stores, NEW x \in rebuild.asked, Covered(t, x)
      PROVE  job'[t].errors \/ Covered(t, x)'
    <2>0. x \in Things
        BY AskedAreThings
    <2>1. CASE ~Waits(t, x)
        BY <1>2, <1>4, <2>0, <2>1 DEF Covered, Has
    <2>2. CASE \E row \in job[t].todo : row[1] = x
        BY <1>2, <2>2 DEF Covered, Waits
    <2>3. ASSUME NEW d \in Mine(t), d.row[1] = x
          PROVE  job'[t].errors \/ Covered(t, x)'
        <3>1. CASE d # c
            <4>1. d \in Mine(t)'
                BY <2>3, <3>1 DEF Returns, Mine
            <4> QED BY <2>3, <4>1 DEF Covered, Waits
        <3>2. CASE d = c
            <4>1. ~c.stray /\ t = c.store
                BY <2>3, <3>2 DEF Mine
            <4> QED BY <1>2, <2>3, <3>2, <4>1 DEF Covered, Has
        <3> QED BY <3>1, <3>2
    <2> QED BY <2>1, <2>2, <2>3 DEF Waits
<1>5. \A x \in rebuild.asked : x \in Things
    BY AskedAreThings
<1> QED BY <1>2, <1>3, <1>4, <1>5, RebuildStays DEF RebuildInv, Exists

LEMMA SkipOrFailKeepsRebuild ==
    ASSUME VectorsInv, RebuildInv, NEW c \in calls, Skip(c) \/ Fail(c)
    PROVE  RebuildInv'
<1>1. UNCHANGED <<generation, text, vector, rebuild>>
    BY DEF Skip, Fail, world, stored
<1>2. c.row[1] \in Things
    BY DEF VectorsInv, TypeOK, Call, Row
<1>3. CASE Skip(c)
    <2> DEFINE left == {c.row[1]} \ {x \in Things : Has(x, generation)}
    <2>1. left \subseteq Things /\ (c.row[1] \in left \/ vector'[c.row[1]][generation] # NoVector)
        BY <1>1, <1>2 DEF Has
    <2>2. Returns(c, FALSE, left)
        BY <1>3 DEF Skip
    <2> HIDE DEF left
    <2> QED BY <1>1, <2>1, <2>2, ReturnsKeepsRebuild
<1>4. CASE Fail(c)
    <2>1. PICK left : left = {}
        OBVIOUS
    <2>2. Returns(c, TRUE, left) /\ left \subseteq Things
        BY <1>4, <2>1 DEF Fail
    <2> QED BY <1>1, <2>2, ReturnsKeepsRebuild
<1> QED BY <1>3, <1>4

\* A counted call writes into the current generation.
LEMMA WriteKeepsRebuild ==
    ASSUME VectorsInv, RebuildInv, NEW c \in calls, Write(c)
    PROVE  RebuildInv'
<1>1. UNCHANGED <<generation, text, rebuild>>
    BY DEF Write, world
<1>2. c \in Call /\ c.row[1] \in Things /\ c.row[2] # 0
    BY VectorsAssumption DEF VectorsInv, TypeOK, Call, Row
<1>3. WriteUnder(c) = generation /\ generation \in Generations
    BY <1>2 DEF WriteUnder, VectorsInv, CallsAreCounted, Call, TypeOK
<1>4. Put(c.row[1], generation, c.weights, c.row[2], c.stray)
    BY <1>3 DEF Write
<1>5. /\ vector'[c.row[1]][generation] # NoVector
      /\ \A x \in Things : vector[x][generation] # NoVector => vector'[x][generation] # NoVector
    BY <1>2, <1>3, <1>4, FiledIsThere
<1>6. PICK left : left = {}
    OBVIOUS
<1>7. Returns(c, FALSE, left) /\ left \subseteq Things
    BY <1>6 DEF Write
<1> QED BY <1>1, <1>5, <1>7, ReturnsKeepsRebuild

LEMMA EmbedKeepsRebuild ==
    ASSUME VectorsInv, RebuildInv, NEW c \in calls, Embed(c)
    PROVE  RebuildInv'
<1> DEFINE new == [c EXCEPT !.phase = "embedding", !.weights = weights, !.generation = generation]
<1>1. /\ UNCHANGED <<generation, text, vector, job, rebuild>>
      /\ calls' = (calls \ {c}) \cup {new}
    BY DEF Embed, world, stored
<1>2. new.store = c.store /\ new.row = c.row /\ new.stray = c.stray
    BY DEF VectorsInv, TypeOK, Call
<1> HIDE DEF new
<1>3. ASSUME NEW t \in Stores, NEW x, Covered(t, x)
      PROVE  Covered(t, x)'
    <2>1. CASE \E d \in Mine(t) : d.row[1] = x
        <3>1. PICK d \in Mine(t) : d.row[1] = x
            BY <2>1
        <3>2. CASE d = c
            <4>1. new \in Mine(t)' /\ new.row[1] = x
                BY <1>1, <1>2, <3>1, <3>2 DEF Mine
            <4> QED BY <4>1 DEF Covered, Waits
        <3>3. CASE d # c
            <4>1. d \in Mine(t)'
                BY <1>1, <3>1, <3>3 DEF Mine
            <4> QED BY <3>1, <4>1 DEF Covered, Waits
        <3> QED BY <3>2, <3>3
    <2>2. CASE ~\E d \in Mine(t) : d.row[1] = x
        BY <1>1, <1>3, <2>2 DEF Covered, Waits, Has
    <2> QED BY <2>1, <2>2
<1>4. \A t \in Stores : WorksOn(t)' => WorksOn(t)
    BY <1>1 DEF WorksOn, Running
<1> QED BY <1>1, <1>3, <1>4, RebuildStays DEF RebuildInv, Exists

\* A job that fails over one call fails as a whole.
LEMMA JobFailsKeepsRebuild ==
    ASSUME VectorsInv, RebuildInv, NEW c \in calls, Reject(c) \/ Busy(c)
    PROVE  RebuildInv'
<1>1. UNCHANGED <<generation, text, vector>> /\ calls \subseteq Call /\ "failed" \in Terminal
    BY DEF Reject, Busy, world, stored, VectorsInv, TypeOK, Terminal
<1>2. CASE Reject(c)
    <2>1. "media" \in Stores /\ c.store = "media"
        BY <1>2, TheStores DEF Reject
    <2>2. ASSUME NEW t \in Stores \ {"media"} PROVE \A x : Waits(t, x) => Waits(t, x)'
        <3>1. job'[t] = job[t]
            BY <1>2, <2>1 DEF Reject, Ends, Ended, VectorsInv, TypeOK
        <3>2. \A d \in Mine(t) : d \in Mine(t)'
            BY <1>2, <2>1 DEF Reject, Mine
        <3> QED BY <3>1, <3>2 DEF Waits
    <2> QED BY <1>1, <1>2, <2>1, <2>2, EndsKeepRebuild DEF Reject
<1>3. CASE Busy(c)
    <2> DEFINE Disowned(d) == [d EXCEPT !.stray = @ \/ d.store = "memory"]
    <2>1. "memory" \in Stores /\ c.store = "memory"
        BY <1>3, TheStores DEF Busy
    <2>2. calls' = {Disowned(d) : d \in calls \ {c}}
        BY <1>3 DEF Busy
    <2>3. \A d \in calls : /\ Disowned(d).store = d.store /\ Disowned(d).row = d.row
                           /\ Disowned(d).stray = (d.stray \/ d.store = "memory")
        BY <1>1 DEF Call
    <2> HIDE DEF Disowned
    <2>4. ASSUME NEW t \in Stores \ {"memory"} PROVE \A x : Waits(t, x) => Waits(t, x)'
        <3>1. job'[t] = job[t]
            BY <1>3, <2>1 DEF Busy, Ended, VectorsInv, TypeOK
        <3>2. ASSUME NEW d \in Mine(t)
              PROVE  Disowned(d) \in Mine(t)' /\ Disowned(d).row = d.row
            BY <2>1, <2>2, <2>3, <3>2 DEF Mine
        <3> QED BY <3>1, <3>2 DEF Waits
    <2> QED BY <1>1, <1>3, <2>1, <2>4, EndedKeepsRebuild DEF Busy
<1> QED BY <1>2, <1>3

LEMMA NextKeepsRebuild == VectorsInv /\ RebuildInv /\ [Next]_vars => RebuildInv'
<1> SUFFICES ASSUME VectorsInv, RebuildInv, [Next]_vars PROVE RebuildInv'
    OBVIOUS
<1>1. CASE \/ SwapWeights \/ Configure \/ RepairOrphans \/ CliStart
           \/ \E m \in Memories : (\E answered \in BOOLEAN : Save(m, answered)) \/ Delete(m)
           \/ \E x \in Files \cup Media, answered \in BOOLEAN : Index(x, answered)
           \/ \E row \in cli.todo : CliWrite(row)
           \/ \E rows \in SUBSET cli.todo : CliDrops(rows)
    BY <1>1, WritersKeepRebuild
<1>2. CASE \E new \in BOOLEAN : StartRebuild(new)
                                \/ \E at \in Stores \cup {"end"} : StartRebuildFails(new, at)
    BY <1>2, StartRebuildKeepsRebuild, NoneKeepsRebuild
<1>3. CASE Poll \/ CancelRebuild \/ ReadTargets \/ Restart
    BY <1>3, LookingKeepsRebuild, ReadTargetsKeepsRebuild, NoneKeepsRebuild
<1>4. CASE \E s \in Stores :
            \/ StartJob(s) \/ Cancel(s) \/ Finish(s) \/ Stop(s) \/ TimeOut(s)
            \/ \E batch \in Batches(s) : NextBatch(s, batch)
    BY <1>4, StartJobKeepsRebuild, CancelKeepsRebuild, TheLoopKeepsRebuild, NextBatchKeepsRebuild
<1>5. CASE \E c \in calls : Skip(c) \/ Embed(c) \/ Write(c) \/ Fail(c) \/ Reject(c) \/ Busy(c)
    BY <1>5, SkipOrFailKeepsRebuild, EmbedKeepsRebuild, WriteKeepsRebuild, JobFailsKeepsRebuild
<1>6. CASE UNCHANGED vars
    <2>1. UNCHANGED <<generation, calls, job, rebuild, text, vector>>
        BY <1>6 DEF vars, world, stored
    <2> QED BY <2>1, OthersKeepRebuild DEF RebuildInv, Exists
<1> QED BY <1>1, <1>2, <1>3, <1>4, <1>5, <1>6 DEF Next

\* For any numbers of memories, notes and images, whatever is written, deleted,
\* cancelled, started beside it or fails: a rebuild that says "completed" has
\* given a vector of its generation to everything it was asked for, but for what
\* a cancellation or a setting made it pass over.
THEOREM RebuildsAreComplete == Spec => []RebuildIsComplete
<1>1. Init => RebuildInv
    BY DEF Init, RebuildInv, PartsAreComplete, RebuildIsComplete, NoRebuild
<1>2. RebuildInv => RebuildIsComplete
    BY DEF RebuildInv
<1> QED BY <1>1, <1>2, NextKeepsRebuild, VectorsInvariant, PTL DEF Spec

=============================================================================

------------------------------- MODULE Panels -------------------------------
(***************************************************************************)
(* The four job panels of the Web UI: the unified index rebuild and media  *)
(* panels and the memory backfill of the configuration page, and the       *)
(* vectorization panel of the conversations page. Each starts a job on the *)
(* gateway, polls it, locks its buttons while it thinks a job runs, and    *)
(* asks for the status (the coverage, for the backfill) when it ends.      *)
(*                                                                         *)
(* tab is one mounted panel with the cache entries it observes; jobs are   *)
(* also started elsewhere. Every event of the tab ends with the render it  *)
(* causes: the job observed, its query, and the effect.                    *)
(***************************************************************************)
EXTENDS Integers, Query

CONSTANTS
    MaxStarts,  \* bounds: start requests, from this tab or elsewhere,
    MaxFaults   \* lost calls and gateway restarts

ASSUME PanelsAssumption == MaxStarts \in Nat /\ MaxFaults \in Nat

VARIABLES
    kind,       \* which of the four panels this is
    tab,
    jobs,       \* what the gateway's manager knows of each job
    listed,     \* its running_job_id
    counted,    \* the jobs whose vectors are in the index
    starts, faults

panelVars == <<kind, tab, jobs, listed, counted, starts, faults>>

Kinds == {"unified", "media", "conversation", "backfill"}
Jobs == 1..MaxStarts
NoJob == 0
\* partial: completed_with_errors, told apart only where the panel does.
Ended == {"done", "partial"}
Ends == IF kind = "backfill" THEN Ended ELSE {"done"}
Report == [job : Jobs \cup {NoJob}, state : {"none", "running"} \cup Ended, counted : SUBSET Jobs]

\* No data is none of the gateway's answers.
ASSUME NothingIsNoData == Nothing \notin Report \cup {"running"} \cup Ended

NoReport == [job |-> NoJob, state |-> "none", counted |-> {}]
NoKey == [job |-> NoJob, state |-> "none"]

PanelsTypeOK ==
    /\ kind \in Kinds
    /\ tab.active \in Jobs \cup {NoJob}         \* the job this mount started
    /\ tab.start \in {"idle", "sent", "answered"}
    /\ tab.answer \in Jobs \cup {NoJob}         \* NoJob: refused, a job runs
    /\ tab.mine \in BOOLEAN                     \* the start is this mount's
    /\ IsEntry(tab.status, Report)
    /\ \A j \in Jobs : IsEntry(tab.jobq[j], {"running"} \cup Ended)
    /\ tab.observed \in Jobs \cup {NoJob}
    /\ tab.seen \in [job : Jobs \cup {NoJob}, state : {"none", "running"} \cup Ended]
    /\ {tab.joined, tab.missed} \subseteq BOOLEAN
    /\ jobs \in [Jobs -> {"none", "running", "gone"} \cup Ended]
    /\ listed \in Jobs \cup {NoJob}
    /\ counted \subseteq Jobs
    /\ starts \in 0..MaxStarts /\ faults \in 0..MaxFaults

-----------------------------------------------------------------------------
(* What the panel shows.                                                   *)

HasStatusJob == kind \in {"unified", "media"}

StatusOf(x) == IF x.status.data = Nothing THEN NoReport ELSE x.status.data

\* The job whose query is enabled: this mount's, else the one the status names.
EffectiveId(x) ==
    IF x.active # NoJob \/ kind = "backfill" THEN x.active
    ELSE IF HasStatusJob \/ StatusOf(x).state = "running" THEN StatusOf(x).job
    ELSE NoJob

\* The job shown: what its query holds, else (unified, media) what the status says.
ShownJob(x) ==
    LET id == EffectiveId(x) IN
    IF id # NoJob /\ x.jobq[id].data # Nothing THEN [job |-> id, state |-> x.jobq[id].data]
    ELSE IF HasStatusJob THEN [job |-> StatusOf(x).job, state |-> StatusOf(x).state]
    ELSE NoKey

\* The start and dry-run buttons are disabled.
Locked(x) ==
    \/ ShownJob(x).state = "running"
    \/ kind = "conversation" /\ StatusOf(x).state = "running"

\* The ends the panel's effect reacts to: the backfill's takes no notice of a job
\* that completed with errors.
EndsSeen == IF kind = "backfill" THEN {"done"} ELSE Ended

\* What the effect compares: status and id; the status alone (backfill); the id
\* (conversation, whose ref is only set when it refetches).
EffectKey(x) ==
    LET shown == ShownJob(x) IN
    CASE kind = "backfill" -> [shown EXCEPT !.job = NoJob]
      [] kind = "conversation" -> [shown EXCEPT !.state = "done"]
      [] OTHER -> shown

\* Seeded fault: the refetch joins a request already under way.
EffectThatJoins(x) ==
    LET fires == ShownJob(x).state \in EndsSeen /\ EffectKey(x) # x.seen IN
    IF fires
    THEN [x EXCEPT !.seen = EffectKey(x), !.status = Joined(@)]
    ELSE [x EXCEPT !.seen = IF kind = "conversation" THEN @ ELSE EffectKey(x)]

\* After a change of the shown job to an ended one: the status is asked again.
Effect(x) ==
    LET fires == ShownJob(x).state \in EndsSeen /\ EffectKey(x) # x.seen IN
    IF fires
    THEN [x EXCEPT !.seen = EffectKey(x),
                   !.status = Invalidated(@),
                   !.joined = @ \/ (x.status.data = Nothing /\ x.status.fetch # "idle")]
    ELSE [x EXCEPT !.seen = IF kind = "conversation" THEN @ ELSE EffectKey(x)]

\* A render: a newly observed job is asked for, and the effect runs.
Rendered(x) ==
    LET id == EffectiveId(x) IN
    Effect(IF id = x.observed \/ id = NoJob THEN [x EXCEPT !.observed = id]
           ELSE [x EXCEPT !.observed = id, !.jobq[id] = Joined(@)])

-----------------------------------------------------------------------------
(* The user.                                                               *)

\* The conversations panel is shown once there is a status.
PressStart ==
    /\ kind = "conversation" => tab.status.data # Nothing
    /\ ~Locked(tab) /\ tab.start = "idle" /\ starts < MaxStarts
    /\ starts' = starts + 1
    /\ tab' = [tab EXCEPT !.start = "sent", !.mine = TRUE]
    /\ UNCHANGED <<kind, jobs, listed, counted, faults>>

\* The hook invalidates the status (unified, media); the panel's own callback runs
\* only if the panel is still mounted.
StartAnswered ==
    /\ tab.start = "answered"
    /\ LET started == tab.answer # NoJob
           heard == [tab EXCEPT !.start = "idle", !.answer = NoJob,
                        !.status = IF started /\ HasStatusJob THEN Invalidated(@) ELSE @]
       IN tab' = Rendered(IF started /\ tab.mine
                          THEN [heard EXCEPT !.active = tab.answer,
                                             !.seen = IF kind = "conversation" THEN NoKey ELSE @]
                          ELSE heard)
    /\ UNCHANGED <<kind, jobs, listed, counted, starts, faults>>

\* Cancel: the unified rebuild is over at once, the others when their worker sees it.
Cancel ==
    LET id == EffectiveId(tab) IN
    /\ Locked(tab) /\ id # NoJob /\ jobs[id] \notin {"none", "gone"}
    /\ IF kind = "unified" /\ jobs[id] = "running"
       THEN /\ jobs' = [jobs EXCEPT ![id] = "done"]
            /\ listed' = NoJob
            /\ counted' = counted \cup {id}
       ELSE UNCHANGED <<jobs, listed, counted>>
    /\ tab' = Rendered([tab EXCEPT !.jobq[id] = Invalidated(@),
                                   !.status = IF HasStatusJob THEN Invalidated(@) ELSE @])
    /\ UNCHANGED <<kind, starts, faults>>

\* The refresh button; the backfill's is disabled during the first request only.
Refresh ==
    /\ tab.status.fetch = "idle" \/ (kind = "backfill" /\ tab.status.data # Nothing)
    /\ tab' = [tab EXCEPT !.status = Invalidated(@)]
    /\ UNCHANGED <<kind, jobs, listed, counted, starts, faults>>

\* The window gets the focus: what is observed is asked for again.
Focus ==
    /\ tab' = [tab EXCEPT !.status = Joined(@),
                          !.jobq = [j \in Jobs |-> IF j = tab.observed THEN Joined(@[j]) ELSE @[j]]]
    /\ UNCHANGED <<kind, jobs, listed, counted, starts, faults>>

\* Another tab of the page and back: the component's state is lost, the cache stays.
Remount ==
    /\ tab' = Rendered([tab EXCEPT !.active = NoJob, !.mine = FALSE, !.observed = NoJob,
                                   !.seen = NoKey, !.status = Joined(@)])
    /\ UNCHANGED <<kind, jobs, listed, counted, starts, faults>>

-----------------------------------------------------------------------------
(* The queries: the intervals, the gateway's answers, and their arrival.   *)

\* Seeded fault: the status has no refetchInterval.
StatusNotPolled(x) == FALSE

\* refetchInterval: the status, and the job, are polled while they say running.
StatusPolled(x) == HasStatusJob /\ StatusOf(x).state = "running"
JobPolled(x, j) == j = x.observed /\ x.jobq[j].data = "running"

PollStatus ==
    /\ StatusPolled(tab) /\ tab.status.fetch = "idle"
    /\ tab' = [tab EXCEPT !.status = Joined(@)]
    /\ UNCHANGED <<kind, jobs, listed, counted, starts, faults>>

PollJob(j) ==
    /\ JobPolled(tab, j) /\ tab.jobq[j].fetch = "idle"
    /\ tab' = [tab EXCEPT !.jobq[j] = Joined(@)]
    /\ UNCHANGED <<kind, jobs, listed, counted, starts, faults>>

\* The unified manager only notices that its parts have ended when it is asked.
Reaped == IF listed # NoJob /\ jobs[listed] \in Ended THEN NoJob ELSE listed

AnswerStatus ==
    /\ tab.status.fetch = "sent"
    /\ tab' = [tab EXCEPT !.status = Answered(@,
                  IF listed = NoJob \/ kind = "backfill" THEN [NoReport EXCEPT !.counted = counted]
                  ELSE [job |-> listed, state |-> jobs[listed], counted |-> counted])]
    /\ listed' = Reaped
    /\ UNCHANGED <<kind, jobs, counted, starts, faults>>

TakeStatus ==
    /\ tab.status.fetch = "answered"
    /\ tab' = Rendered([tab EXCEPT !.status = Taken(@)])
    /\ UNCHANGED <<kind, jobs, listed, counted, starts, faults>>

\* The answer is taken as it is given: a job only moves forward, and one that was
\* still running is polled again.
TakeJob(j) ==
    /\ tab.jobq[j].fetch = "sent" /\ jobs[j] # "gone"
    /\ tab' = Rendered([tab EXCEPT !.jobq[j] = Taken(Answered(@, jobs[j]))])
    /\ listed' = IF j = listed THEN Reaped ELSE listed
    /\ UNCHANGED <<kind, jobs, counted, starts, faults>>

\* 404: the gateway has forgotten the job. What the panel had stays.
JobNotFound(j) ==
    /\ tab.jobq[j].fetch = "sent" /\ jobs[j] = "gone"
    /\ tab' = [tab EXCEPT !.jobq[j] = Failed(@)]
    /\ UNCHANGED <<kind, jobs, listed, counted, starts, faults>>

\* A start is refused while a job is running, or listed and not yet noticed to have
\* ended; the job number is new.
RunsOne == listed # NoJob

ServeStart ==
    /\ tab.start = "sent"
    /\ IF RunsOne
       THEN /\ tab' = [tab EXCEPT !.start = "answered", !.answer = NoJob]
            /\ UNCHANGED <<jobs, listed>>
       ELSE LET j == CHOOSE k \in Jobs : jobs[k] = "none" IN
            /\ tab' = [tab EXCEPT !.start = "answered", !.answer = j]
            /\ jobs' = [jobs EXCEPT ![j] = "running"]
            /\ listed' = j
    /\ UNCHANGED <<kind, counted, starts, faults>>

-----------------------------------------------------------------------------
(* The gateway, the other tabs, and what is lost.                          *)

Finish(j) ==
    /\ jobs[j] = "running"
    /\ \E how \in Ends : jobs' = [jobs EXCEPT ![j] = how]
    /\ listed' = IF kind = "unified" THEN listed ELSE NoJob
    /\ counted' = counted \cup {j}
    /\ UNCHANGED <<kind, tab, starts, faults>>

StartElsewhere ==
    /\ starts < MaxStarts /\ ~RunsOne
    /\ starts' = starts + 1
    /\ LET j == CHOOSE k \in Jobs : jobs[k] = "none" IN
          /\ jobs' = [jobs EXCEPT ![j] = "running"]
          /\ listed' = j
    /\ UNCHANGED <<kind, tab, counted, faults>>

\* A start, or its answer, is lost; a query fails, its retries too.
LoseStart ==
    /\ tab.start \in {"sent", "answered"}
    /\ tab' = [tab EXCEPT !.start = "idle", !.answer = NoJob]

LoseStatus ==
    /\ tab.status.fetch \in {"sent", "answered"}
    /\ tab' = [tab EXCEPT !.status = Failed(@), !.missed = TRUE]

LoseJob(j) ==
    /\ tab.jobq[j].fetch = "sent"
    /\ tab' = [tab EXCEPT !.jobq[j] = Failed(@), !.missed = @ \/ tab.jobq[j].data = Nothing]

Lost ==
    /\ faults < MaxFaults
    /\ faults' = faults + 1
    /\ LoseStart \/ LoseStatus \/ \E j \in Jobs : LoseJob(j)
    /\ UNCHANGED <<kind, jobs, listed, counted, starts>>

\* The managers keep their jobs in memory.
GatewayRestarts ==
    /\ faults < MaxFaults
    /\ faults' = faults + 1
    /\ jobs' = [j \in Jobs |-> IF jobs[j] = "none" THEN "none" ELSE "gone"]
    /\ listed' = NoJob
    /\ UNCHANGED <<kind, tab, counted, starts>>

PanelsInit ==
    /\ kind \in Kinds
    /\ tab = [active |-> NoJob, start |-> "idle", answer |-> NoJob, mine |-> FALSE,
              status |-> Sent(Unasked), jobq |-> [j \in Jobs |-> Unasked],
              observed |-> NoJob, seen |-> NoKey, joined |-> FALSE, missed |-> FALSE]
    /\ jobs = [j \in Jobs |-> "none"] /\ listed = NoJob /\ counted = {}
    /\ starts = 0 /\ faults = 0

PanelsNext ==
    \/ PressStart \/ StartAnswered \/ Cancel \/ Refresh \/ Focus \/ Remount
    \/ PollStatus \/ AnswerStatus \/ TakeStatus \/ ServeStart
    \/ \E j \in Jobs : PollJob(j) \/ TakeJob(j) \/ JobNotFound(j) \/ Finish(j)
    \/ StartElsewhere \/ Lost \/ GatewayRestarts

PanelsSpec == PanelsInit /\ [][PanelsNext]_panelVars

-----------------------------------------------------------------------------
NoneRuns == \A j \in Jobs : jobs[j] # "running"
Forgotten == \E j \in Jobs : jobs[j] = "gone"

NamesAnother(report) == report.job \notin {NoJob, tab.observed}

\* A status answer of this kind is about to be taken; or one asked for, or due to be,
\* that the gateway has yet to give.
StatusArrives(Says(_)) == tab.status.fetch = "answered" /\ Says(tab.status.got)
StatusComing(Says(_)) ==
    tab.status.fetch = "sent" \/ StatusPolled(tab) \/ StatusArrives(Says)

\* A panel whose buttons are locked while no job runs is about to learn it, whoever
\* started the job and wherever it ended: the job it observes is still asked for, or
\* a status that names no running job, or another one, is on its way. Excepted are a job the gateway
\* forgot in a restart, and the conversations panel, which neither polls its status
\* nor asks again for one that failed, when that or the job's first query failed, or
\* the status names another job than the one observed.
LockedIsWaiting ==
    Locked(tab) /\ NoneRuns =>
        \/ \E j \in Jobs : j = tab.observed /\ (JobPolled(tab, j) \/ tab.jobq[j].fetch = "sent")
        \/ StatusComing(LAMBDA got : got.state # "running" \/ NamesAnother(got))
        \/ Forgotten
        \/ kind = "conversation" /\ (tab.missed \/ NamesAnother(StatusOf(tab))
                                       \/ StatusArrives(NamesAnother))

\* While the panel shows a job as ended and the coverage beside it does not count
\* that job's vectors, a status that does is on its way. Excepted are a query
\* that failed, a refetch that joined the page's first status request, which may have
\* been answered before the end, and a backfill that completed with errors, after which
\* its panel does not ask for the coverage (Config.tsx coverage effect).
CoverageCatchesUp ==
    LET shown == ShownJob(tab) IN
    shown.state \in Ended =>
        \/ shown.job \in StatusOf(tab).counted
        \/ StatusComing(LAMBDA got : shown.job \in got.counted)
        \/ tab.joined \/ tab.missed
        \/ kind = "backfill" /\ shown.state = "partial"

=============================================================================

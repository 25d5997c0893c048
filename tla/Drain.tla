------------------------------- MODULE Drain -------------------------------
(***************************************************************************)
(* The drains that move spooled events to the gateway (bridge/src/drain.rs *)
(* and transport.rs) over the shared spool.                                *)
(*                                                                         *)
(* Several drains run at the same time: the resident `drain --daemon` and  *)
(* the detached `drain --once` every capture may spawn.  Each is a program *)
(* counter here, and each spool method it calls is a step of its own, since*)
(* the method is its own transaction.  A step may find the database busy:  *)
(* the code logs a warning and carries on, so the step then changes no row.*)
(* A drain may be killed anywhere, a request or its answer may be lost.    *)
(*                                                                         *)
(* The gateway is its contract: it stores some events of a request and     *)
(* names a verdict for each; module Ingest is the gateway itself.          *)
(***************************************************************************)
EXTENDS Spool

CONSTANTS
    Drains,      \* the drain processes
    Daemons,     \* those among them that are resident (drain --daemon)
    MaxBatches,  \* batches a pass uploads at most (50 for the daemon)
    Verdicts,    \* verdicts the gateway gives beside success
    Errors,      \* how a request can fail
    Prompt,      \* an upload ends before its rows count as stale
    MaxFaults    \* bound on kills and busy transactions in a behaviour

ASSUME DrainAssumption ==
    /\ Daemons \subseteq Drains
    /\ MaxBatches \in Nat \ {0}
    /\ Verdicts \subseteq {"permanent", "transient", "unmentioned"}
    /\ Errors \subseteq {"network", "unauthorized", "refused"}
    /\ Prompt \in BOOLEAN
    /\ MaxFaults \in Nat

VARIABLES
    worker,    \* drain -> its local state
    ledger,    \* events the gateway has stored
    captured,  \* events ever spooled (history)
    faults     \* kills and busy transactions so far

vars == <<row, older, worker, ledger, captured, faults>>

Step == {"reclaim", "prune", "count", "cap", "claim", "sent", "answered",
         "reject", "reschedule", "park"}

Worker == [pc : Step,
           left : 0 .. MaxBatches,             \* batches this pass may still claim
           excess : Nat,                       \* what enforce_pending_cap counted
           batch : SUBSET Events,              \* rows claimed and not yet settled
           tries : [Events -> 0 .. MaxAttempts],  \* SpoolRow.attempts + 1 of the claim
           ok : SUBSET Events,                 \* accepted and duplicates of the answer
           permanent : SUBSET Events,          \* rejected, is_permanent_rejection
           transient : SUBSET Events,          \* rejected with another code
           error : Errors \cup {"none"}]

Idle == [pc |-> "reclaim", left |-> 0, excess |-> 0, batch |-> {},
         tries |-> [e \in Events |-> 0],
         ok |-> {}, permanent |-> {}, transient |-> {}, error |-> "none"]

TypeOK ==
    /\ SpoolTypeOK
    /\ worker \in [Drains -> Worker]
    /\ ledger \subseteq Events
    /\ captured \subseteq Events
    /\ faults \in 0 .. MaxFaults

Init ==
    /\ SpoolInit
    /\ worker = [d \in Drains |-> Idle]
    /\ ledger = {}
    /\ captured = {}
    /\ faults = 0

At(d, pc) == worker[d].pc = pc

\* A transaction that changes rows only: it commits, or it meets a busy
\* database and the caller goes on without it.
Write(newRows) ==
    /\ \/ /\ row' = newRows
          /\ UNCHANGED faults
       \/ /\ faults < MaxFaults
          /\ faults' = faults + 1
          /\ UNCHANGED row
    /\ UNCHANGED older

\* The next batch of the pass, or its end.
NextBatch(w) == IF w.left = 0 THEN Idle
                ELSE [Idle EXCEPT !.pc = "claim", !.left = w.left]

-----------------------------------------------------------------------------
(* The capture side: a hook, or the transcript watcher, spools an event. *)

Enqueue(e) ==
    /\ EnqueueRow(e)
    /\ captured' = captured \cup {e}
    /\ UNCHANGED <<worker, ledger, faults>>

-----------------------------------------------------------------------------
(* drain_once: housekeeping *)

ReclaimStaleInflight(d) ==
    /\ At(d, "reclaim")
    /\ Write(Reclaimed)
    /\ worker' = [worker EXCEPT ![d] = [Idle EXCEPT !.pc = "prune", !.left = MaxBatches]]
    /\ UNCHANGED <<ledger, captured>>

PruneAcked(d) ==
    /\ At(d, "prune")
    /\ \/ PruneRows /\ UNCHANGED faults
       \/ faults < MaxFaults /\ faults' = faults + 1 /\ UNCHANGED table
    /\ worker' = [worker EXCEPT ![d].pc = "count"]
    /\ UNCHANGED <<ledger, captured>>

CountPending(d) ==
    /\ At(d, "count")
    /\ worker' = [worker EXCEPT ![d].pc = IF Excess = 0 THEN "claim" ELSE "cap",
                                ![d].excess = Excess]
    /\ UNCHANGED <<table, ledger, captured, faults>>

ParkExcess(d) ==
    /\ At(d, "cap")
    /\ Write(ParkedOldest(worker[d].excess))
    /\ worker' = [worker EXCEPT ![d].pc = "claim", ![d].excess = 0]
    /\ UNCHANGED <<ledger, captured>>

-----------------------------------------------------------------------------
(* drain_once: one batch *)

ClaimBatch(d) ==
    /\ At(d, "claim")
    /\ Claimable # {}
    /\ row' = Claimed(Claimable)
    /\ worker' = [worker EXCEPT
            ![d].pc = "sent",
            ![d].left = worker[d].left - 1,
            ![d].batch = Claimable,
            ![d].tries = [e \in Events |->
                IF e \in Claimable THEN Smaller(row[e].attempts + 1, MaxAttempts) ELSE 0]]
    /\ UNCHANGED <<older, ledger, captured, faults>>

\* Nothing is due, or the claim met a busy database: the pass is over.
EndPass(d) ==
    /\ At(d, "claim")
    /\ \/ Claimable = {} /\ UNCHANGED faults
       \/ faults < MaxFaults /\ faults' = faults + 1
    /\ worker' = [worker EXCEPT ![d] = Idle]
    /\ UNCHANGED <<table, ledger, captured>>

\* The gateway serves the request and its answer is on the way.
GatewayAnswers(d) ==
    /\ At(d, "sent")
    /\ \E ok, permanent, transient \in SUBSET worker[d].batch :
        /\ ok \cap permanent = {} /\ ok \cap transient = {} /\ permanent \cap transient = {}
        /\ permanent # {} => "permanent" \in Verdicts
        /\ transient # {} => "transient" \in Verdicts
        /\ ok \cup permanent \cup transient # worker[d].batch => "unmentioned" \in Verdicts
        /\ ledger' = ledger \cup ok
        /\ worker' = [worker EXCEPT ![d].pc = "answered", ![d].ok = ok,
                                    ![d].permanent = permanent, ![d].transient = transient]
    /\ UNCHANGED <<table, captured, faults>>

\* The request is lost, refused, or its answer is lost.
RequestFails(d) ==
    /\ \E error \in Errors :
        /\ At(d, "sent") \/ (At(d, "answered") /\ error = "network")
        /\ worker' = [worker EXCEPT ![d].pc = "reschedule", ![d].error = error,
                ![d].ok = {}, ![d].permanent = {}, ![d].transient = {}]
    /\ UNCHANGED <<table, ledger, captured, faults>>

-----------------------------------------------------------------------------
(* apply_outcome: the ACK, each rejection, then what was not mentioned *)

\* Seeded fault: an answer acknowledges the batch it is about.
AckWholeBatch(d) ==
    /\ At(d, "answered")
    /\ Write(Acked(worker[d].batch))
    /\ worker' = [worker EXCEPT ![d].pc = "reject", ![d].ok = {}, ![d].batch = {},
                                ![d].permanent = {}, ![d].transient = {}]
    /\ UNCHANGED <<ledger, captured>>

Ack(d) ==
    /\ At(d, "answered")
    /\ Write(Acked(worker[d].ok))
    /\ worker' = [worker EXCEPT ![d].pc = "reject", ![d].ok = {},
                                ![d].batch = @ \ worker[d].ok]
    /\ UNCHANGED <<ledger, captured>>

DeadLetterRejected(d, e) ==
    /\ At(d, "reject") /\ e \in worker[d].permanent
    /\ Write(DeadLettered({e}))
    /\ worker' = [worker EXCEPT ![d].permanent = @ \ {e}, ![d].batch = @ \ {e}]
    /\ UNCHANGED <<ledger, captured>>

RescheduleRejected(d, e) ==
    /\ At(d, "reject") /\ e \in worker[d].transient
    /\ \E delay \in BackoffDelays(worker[d].tries[e]) : Write(Rescheduled({e}, delay))
    /\ worker' = [worker EXCEPT ![d].transient = @ \ {e}, ![d].batch = @ \ {e}]
    /\ UNCHANGED <<ledger, captured>>

RescheduleUnmentioned(d) ==
    /\ At(d, "reject") /\ worker[d].permanent = {} /\ worker[d].transient = {}
    /\ Write(Rescheduled(worker[d].batch, BaseBackoff))
    /\ worker' = [worker EXCEPT ![d] = NextBatch(worker[d])]
    /\ UNCHANGED <<ledger, captured>>

-----------------------------------------------------------------------------
(* handle_transport_error: reschedule those with attempts left, park the rest *)

Retryable(error) == error # "refused"

Exhausted(d) == {e \in worker[d].batch :
                    ~Retryable(worker[d].error) \/ worker[d].tries[e] >= MaxAttempts}

RescheduleBatch(d) ==
    /\ At(d, "reschedule")
    /\ \E delay \in BackoffDelays(1) :
        Write(Rescheduled(worker[d].batch \ Exhausted(d), delay))
    /\ worker' = [worker EXCEPT ![d].pc = "park", ![d].batch = Exhausted(d)]
    /\ UNCHANGED <<ledger, captured>>

ParkBatch(d) ==
    /\ At(d, "park")
    /\ Write(DeadLettered(worker[d].batch))
    /\ worker' = [worker EXCEPT ![d] =
            IF Retryable(worker[d].error) THEN NextBatch(worker[d]) ELSE Idle]
    /\ UNCHANGED <<ledger, captured>>

-----------------------------------------------------------------------------
(* The environment *)

Kill(d) ==
    /\ worker[d] # Idle
    /\ faults < MaxFaults
    /\ faults' = faults + 1
    /\ worker' = [worker EXCEPT ![d] = Idle]
    /\ UNCHANGED <<table, ledger, captured>>

\* The rows a drain holds on to.  With the shipped timeouts (10 s to connect,
\* 30 s per request) it settles them well inside the 120 s window: Prompt.
Outlives(d) == \E e \in worker[d].batch :
                    row[e].status = "inflight" /\ row[e].held + 1 >= StaleAfter

Tick ==
    /\ Prompt => \A d \in Drains : ~Outlives(d)
    /\ row' = Aged
    /\ UNCHANGED <<older, worker, ledger, captured, faults>>

DrainStep(d) ==
    \/ ReclaimStaleInflight(d) \/ PruneAcked(d)
    \/ CountPending(d) \/ ParkExcess(d)
    \/ ClaimBatch(d) \/ EndPass(d)
    \/ GatewayAnswers(d) \/ RequestFails(d)
    \/ Ack(d) \/ RescheduleUnmentioned(d)
    \/ \E e \in Events : DeadLetterRejected(d, e) \/ RescheduleRejected(d, e)
    \/ RescheduleBatch(d) \/ ParkBatch(d)

Next ==
    \/ \E e \in Events : Enqueue(e)
    \/ \E d \in Drains : DrainStep(d) \/ Kill(d)
    \/ Tick

Spec == Init /\ [][Next]_vars

\* The daemon loops for ever and time passes.  The other drains come and go
\* as captures spawn them, and owe nothing.
FairSpec ==
    /\ Spec
    /\ WF_vars(Tick)
    /\ \A d \in Daemons : WF_vars(DrainStep(d))

-----------------------------------------------------------------------------
(* Safety *)

\* An event the bridge believes delivered is stored by the gateway: whatever
\* is lost, late, retried or killed, the ACK of drain.rs never runs ahead of
\* the ledger (apply_outcome ACKs only what the answer names).
AckedIsStored == Having("acked") \subseteq ledger

\* An event that was ever captured is still in the spool or is stored by the
\* gateway: prune_acked is the only way out of the spool.
NothingLost == captured \subseteq Spooled \cup ledger

\* Two drains never hold the same row: claim_batch hands a row to one drain,
\* and reclaim_stale_inflight takes it back from none that is alive.
ClaimsAreExclusive ==
    \A d1, d2 \in Drains : d1 # d2 => worker[d1].batch \cap worker[d2].batch = {}

\* docs/RESEARCH_MEMORY_BRIDGE.md: `dead_letter` rows are terminal and never
\* retried.
DeadLetterIsTerminal ==
    [][\A e \in Events :
        row[e].status = "dead_letter" => row'[e].status = "dead_letter"]_vars

-----------------------------------------------------------------------------
(* What makes the safety properties inductive *)

\* A drain holds rows only between the claim and the last update of the
\* batch; the answer it applies is about rows it still holds, each named once,
\* and what the answer calls delivered is stored.
AnswersMatchBatches ==
    \A d \in Drains :
        LET w == worker[d] IN
        /\ w.pc \in {"reclaim", "prune", "count", "cap", "claim"} => w.batch = {}
        /\ w.pc \in {"prune", "count", "cap", "claim"} => w.left > 0
        /\ w.pc \in {"reschedule", "park"} => w.ok \cup w.permanent \cup w.transient = {}
        /\ w.ok \subseteq w.batch \cap ledger
        /\ w.permanent \subseteq w.batch \ w.ok
        /\ w.transient \subseteq w.batch \ (w.ok \cup w.permanent)

\* While uploads are prompt, a row a drain holds is inflight: nobody parked,
\* acknowledged, pruned or returned it to the queue behind the drain's back.
HeldRowsAreInflight ==
    \A d \in Drains : worker[d].batch \subseteq Having("inflight")

\* While uploads are prompt, no row of a living drain is old enough for
\* reclaim_stale_inflight.
HeldRowsAreFresh ==
    \A d \in Drains : \A e \in worker[d].batch : row[e].held < StaleAfter

SafetyInv == TypeOK /\ AnswersMatchBatches /\ AckedIsStored /\ NothingLost

PromptInv == HeldRowsAreInflight /\ HeldRowsAreFresh /\ ClaimsAreExclusive

-----------------------------------------------------------------------------
(* Liveness *)

\* Every captured event is settled: delivered, or parked for inspection.  No
\* kill, busy database or hung drain leaves it pending or inflight for good.
EventuallySettled ==
    \A e \in Events :
        row[e].status \in {"pending", "inflight"} ~>
            row[e].status \in {"acked", "dead_letter"}

-----------------------------------------------------------------------------
(* The drains implement what the bridge promises (module Delivery). *)

PromiseOf(rows) == [e \in Events |->
    CASE rows[e].status = "absent" -> "none"
      [] rows[e].status \in {"pending", "inflight"} -> "open"
      [] rows[e].status = "acked" -> "done"
      [] rows[e].status = "dead_letter" -> "parked"]

D == INSTANCE Delivery WITH promise <- PromiseOf(row), archived <- ledger

\* Under prompt uploads, every step of every drain, kills and busy
\* transactions included, is a step of Delivery or leaves it alone.
KeepsThePromise == D!Spec

=============================================================================

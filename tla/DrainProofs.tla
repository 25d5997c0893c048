---------------------------- MODULE DrainProofs ----------------------------
(***************************************************************************)
(* Proofs about Drain, for every set of events and drains and every        *)
(* configuration the bridge accepts.                                       *)
(***************************************************************************)
EXTENDS Drain, FiniteSetTheorems, TLAPS

-----------------------------------------------------------------------------
(* What the spool's operators return *)

\* A retry delay fits the wait column.
LEMMA DelaysFit ==
    ASSUME NEW k
    PROVE  BackoffDelays(k) \subseteq 0 .. MaxBackoff
<1> DEFINE base == Smaller(BaseBackoff * 2 ^ Smaller(k - 1, 20), MaxBackoff)
<1>1. 1 \in 0 .. MaxBackoff
    BY ConfigIsValid
<1>2. BackoffDelays(k) = IF base <= 1 THEN {1}
                         ELSE {x \in 1 .. MaxBackoff : base \div 2 <= x /\ x < base}
    BY DEF BackoffDelays
<1> HIDE DEF base
<1>3. {x \in 1 .. MaxBackoff : base \div 2 <= x /\ x < base} \subseteq 0 .. MaxBackoff
    BY ConfigIsValid
<1> QED
    BY <1>1, <1>2, <1>3

\* The smaller of two numbers is a number no larger than either.
LEMMA SmallerFits ==
    ASSUME NEW a \in Nat, NEW b \in Nat
    PROVE  Smaller(a, b) \in 0 .. b
BY DEF Smaller

\* The columns of a row (spool.rs SCHEMA) and their ranges.
LEMMA RowFields ==
    ASSUME NEW r \in Row
    PROVE  /\ r.status \in Status
           /\ r.attempts \in 0 .. MaxAttempts
           /\ r.wait \in 0 .. MaxBackoff
           /\ r.held \in 0 .. StaleAfter
           /\ r.age \in 0 .. Retention
BY DEF Row

\* A row whose clocks moved is a row.
LEMMA RowAged ==
    ASSUME NEW r \in Row, NEW w \in 0 .. MaxBackoff,
           NEW h \in 0 .. StaleAfter, NEW g \in 0 .. Retention
    PROVE  [r EXCEPT !.wait = w, !.held = h, !.age = g] \in Row
BY DEF Row

\* Every update of spool.rs makes a row of a row.
LEMMA RowUpdated ==
    ASSUME NEW r \in Row, NEW s \in Status, NEW a \in 0 .. MaxAttempts,
           NEW w \in 0 .. MaxBackoff, NEW h \in 0 .. StaleAfter
    PROVE  /\ [r EXCEPT !.status = s] \in Row
           /\ [r EXCEPT !.status = s, !.held = h] \in Row
           /\ [r EXCEPT !.status = s, !.wait = w, !.held = h] \in Row
           /\ [r EXCEPT !.status = s, !.attempts = a, !.held = h] \in Row
BY DEF Row

\* Every method of the spool that rewrites rows gives a table of rows.
LEMMA TablesFit ==
    ASSUME row \in [Events -> Row], NEW S, NEW delay \in 0 .. MaxBackoff, NEW n
    PROVE  /\ Claimed(S) \in [Events -> Row]
           /\ Acked(S) \in [Events -> Row]
           /\ Rescheduled(S, delay) \in [Events -> Row]
           /\ DeadLettered(S) \in [Events -> Row]
           /\ Reclaimed \in [Events -> Row]
           /\ ParkedOldest(n) \in [Events -> Row]
           /\ Aged \in [Events -> Row]
<1> USE ConfigIsValid
<1>1. /\ 0 \in 0 .. StaleAfter /\ 0 \in 0 .. Retention /\ 0 \in 0 .. MaxBackoff
      /\ {"pending", "inflight", "acked", "dead_letter"} \subseteq Status
    BY DEF Status
<1>2. ASSUME NEW e \in Events, NEW s \in {"pending", "inflight", "acked", "dead_letter"}
      PROVE  /\ [row[e] EXCEPT !.status = s] \in Row
             /\ [row[e] EXCEPT !.status = s, !.held = 0] \in Row
             /\ [row[e] EXCEPT !.status = s, !.wait = delay, !.held = 0] \in Row
             /\ [row[e] EXCEPT !.status = s,
                               !.attempts = Smaller(row[e].attempts + 1, MaxAttempts),
                               !.held = 0] \in Row
    <2>1. Smaller(row[e].attempts + 1, MaxAttempts) \in 0 .. MaxAttempts
        <3>1. row[e].attempts + 1 \in Nat
            BY RowFields
        <3> QED
            BY <3>1, SmallerFits
    <2> QED
        BY <1>1, <2>1, RowUpdated
<1>3. Claimed(S) \in [Events -> Row]
    BY <1>2 DEF Claimed
<1>4. Acked(S) \in [Events -> Row]
    BY <1>2 DEF Acked
<1>5. Rescheduled(S, delay) \in [Events -> Row]
    BY <1>2 DEF Rescheduled
<1>6. DeadLettered(S) \in [Events -> Row]
    BY <1>2 DEF DeadLettered
<1>7. Reclaimed \in [Events -> Row]
    BY <1>2 DEF Reclaimed
<1>8. ParkedOldest(n) \in [Events -> Row]
    BY <1>2 DEF ParkedOldest
<1>9. Aged \in [Events -> Row]
    <2>1. ASSUME NEW e \in Events
          PROVE  Later(row[e]) \in Row
        <3> DEFINE w == IF row[e].wait = 0 THEN 0 ELSE row[e].wait - 1
                   h == IF row[e].status = "inflight"
                        THEN Smaller(row[e].held + 1, StaleAfter) ELSE 0
                   g == IF row[e].status = "absent"
                        THEN 0 ELSE Smaller(row[e].age + 1, Retention)
        <3>1. row[e] \in Row
            OBVIOUS
        <3>2. w \in 0 .. MaxBackoff
            BY <3>1, RowFields
        <3>3. h \in 0 .. StaleAfter
            <4>1. row[e].held + 1 \in Nat
                BY <3>1, RowFields
            <4> QED
                BY <4>1, <1>1, SmallerFits
        <3>4. g \in 0 .. Retention
            <4>1. row[e].age + 1 \in Nat
                BY <3>1, RowFields
            <4> QED
                BY <4>1, <1>1, SmallerFits
        <3>5. Later(row[e]) = [row[e] EXCEPT !.wait = w, !.held = h, !.age = g]
            BY DEF Later
        <3> HIDE DEF w, h, g
        <3>6. [row[e] EXCEPT !.wait = w, !.held = h, !.age = g] \in Row
            BY <3>1, <3>2, <3>3, <3>4, RowAged
        <3> QED
            BY <3>5, <3>6
    <2> QED
        BY <2>1 DEF Aged
<1> QED
    BY <1>3, <1>4, <1>5, <1>6, <1>7, <1>8, <1>9


-----------------------------------------------------------------------------
(* What the steps of a drain leave in its local state *)

\* The parts of a drain's local state.
LEMMA WorkerFields ==
    ASSUME NEW w \in Worker
    PROVE  /\ w.pc \in Step /\ w.left \in 0 .. MaxBatches /\ w.excess \in Nat
           /\ w.batch \subseteq Events /\ w.tries \in [Events -> 0 .. MaxAttempts]
           /\ w.ok \subseteq Events /\ w.permanent \subseteq Events
           /\ w.transient \subseteq Events /\ w.error \in Errors \cup {"none"}
BY DEF Worker

\* A drain between two passes has a proper local state.
LEMMA IdleIsWorker == Idle \in Worker
<1>1. 0 \in 0 .. MaxBatches /\ [e \in Events |-> 0] \in [Events -> 0 .. MaxAttempts]
    BY ConfigIsValid, DrainAssumption
<1> QED
    BY <1>1 DEF Idle, Worker, Step

\* The updates of the housekeeping steps and of the loop.
LEMMA PassUpdates ==
    ASSUME NEW w \in Worker
    PROVE  /\ [w EXCEPT !.pc = "count"] \in Worker
           /\ [w EXCEPT !.pc = "claim", !.excess = 0] \in Worker
           /\ \A x \in Nat : [w EXCEPT !.pc = IF x = 0 THEN "claim" ELSE "cap",
                                       !.excess = x] \in Worker
           /\ \A n \in 0 .. MaxBatches :
                /\ [w EXCEPT !.pc = "prune", !.left = n] \in Worker
                /\ [w EXCEPT !.pc = "claim", !.left = n] \in Worker
<1>1. [w EXCEPT !.pc = "count"] \in Worker
    BY DEF Worker, Step
<1>2. [w EXCEPT !.pc = "claim", !.excess = 0] \in Worker
    BY DEF Worker, Step
<1>3. ASSUME NEW x \in Nat
      PROVE  [w EXCEPT !.pc = IF x = 0 THEN "claim" ELSE "cap", !.excess = x] \in Worker
    BY DEF Worker, Step
<1>4. ASSUME NEW n \in 0 .. MaxBatches
      PROVE  [w EXCEPT !.pc = "prune", !.left = n] \in Worker
    BY DEF Worker, Step
<1>5. ASSUME NEW n \in 0 .. MaxBatches
      PROVE  [w EXCEPT !.pc = "claim", !.left = n] \in Worker
    BY DEF Worker, Step
<1> QED
    BY <1>1, <1>2, <1>3, <1>4, <1>5

\* The updates of the steps that upload and settle a batch.
LEMMA BatchUpdates ==
    ASSUME NEW w \in Worker, NEW B \in SUBSET Events
    PROVE  /\ \A t \in [Events -> 0 .. MaxAttempts], n \in 0 .. MaxBatches :
                [w EXCEPT !.pc = "sent", !.left = n, !.batch = B, !.tries = t] \in Worker
           /\ \A P, T \in SUBSET Events :
                [w EXCEPT !.pc = "answered", !.ok = B, !.permanent = P,
                          !.transient = T] \in Worker
           /\ \A x \in Errors :
                [w EXCEPT !.pc = "reschedule", !.error = x, !.ok = {},
                          !.permanent = {}, !.transient = {}] \in Worker
           /\ [w EXCEPT !.pc = "reject", !.ok = {}, !.batch = B] \in Worker
           /\ [w EXCEPT !.pc = "park", !.batch = B] \in Worker
           /\ \A S \in SUBSET Events : /\ [w EXCEPT !.permanent = S, !.batch = B] \in Worker
                                       /\ [w EXCEPT !.transient = S, !.batch = B] \in Worker
<1>1. ASSUME NEW t \in [Events -> 0 .. MaxAttempts], NEW n \in 0 .. MaxBatches
      PROVE  [w EXCEPT !.pc = "sent", !.left = n, !.batch = B, !.tries = t] \in Worker
    BY DEF Worker, Step
<1>2. ASSUME NEW P \in SUBSET Events, NEW T \in SUBSET Events
      PROVE  [w EXCEPT !.pc = "answered", !.ok = B, !.permanent = P,
                       !.transient = T] \in Worker
    BY DEF Worker, Step
<1>3. ASSUME NEW x \in Errors
      PROVE  [w EXCEPT !.pc = "reschedule", !.error = x, !.ok = {},
                       !.permanent = {}, !.transient = {}] \in Worker
    BY DEF Worker, Step
<1>4. [w EXCEPT !.pc = "reject", !.ok = {}, !.batch = B] \in Worker
    BY DEF Worker, Step
<1>5. [w EXCEPT !.pc = "park", !.batch = B] \in Worker
    BY DEF Worker, Step
<1>6. ASSUME NEW S \in SUBSET Events
      PROVE  [w EXCEPT !.permanent = S, !.batch = B] \in Worker
    BY DEF Worker, Step
<1>7. ASSUME NEW S \in SUBSET Events
      PROVE  [w EXCEPT !.transient = S, !.batch = B] \in Worker
    BY DEF Worker, Step
<1> QED
    BY <1>1, <1>2, <1>3, <1>4, <1>5, <1>6, <1>7

\* After a batch the drain holds nothing, and it goes on only with a batch to
\* its name.
LEMMA NextBatchIsClean ==
    ASSUME NEW w \in Worker
    PROVE  /\ NextBatch(w) \in Worker
           /\ NextBatch(w).batch = {} /\ NextBatch(w).ok = {}
           /\ NextBatch(w).permanent = {} /\ NextBatch(w).transient = {}
           /\ NextBatch(w).pc \in {"prune", "count", "cap", "claim"} => NextBatch(w).left > 0
<1>1. w.left \in 0 .. MaxBatches
    BY WorkerFields
<1>2. [Idle EXCEPT !.pc = "claim", !.left = w.left] \in Worker
    BY <1>1, IdleIsWorker, PassUpdates
<1>3. NextBatch(w) \in Worker
    BY <1>2, IdleIsWorker DEF NextBatch
<1>4. /\ NextBatch(w).batch = {} /\ NextBatch(w).ok = {}
      /\ NextBatch(w).permanent = {} /\ NextBatch(w).transient = {}
    BY DEF NextBatch, Idle
<1>5. NextBatch(w).pc \in {"prune", "count", "cap", "claim"} => NextBatch(w).left > 0
    BY <1>1, DrainAssumption DEF NextBatch, Idle
<1> QED
    BY <1>3, <1>4, <1>5

-----------------------------------------------------------------------------
(* Type correctness *)

\* A transaction that commits or finds the database busy keeps the types.
LEMMA WriteFits ==
    ASSUME SpoolTypeOK, faults \in 0 .. MaxFaults,
           NEW new \in [Events -> Row], Write(new)
    PROVE  SpoolTypeOK' /\ faults' \in 0 .. MaxFaults
BY DrainAssumption DEF Write, SpoolTypeOK

\* Every step keeps the types, given that a drain that may claim has a batch
\* left in its pass.
LEMMA TypeStep ==
    TypeOK /\ AnswersMatchBatches /\ [Next]_vars => TypeOK'
<1> SUFFICES ASSUME TypeOK, AnswersMatchBatches, [Next]_vars
             PROVE  TypeOK'
    OBVIOUS
<1> USE DEF TypeOK
<1>1. ASSUME NEW e \in Events, Enqueue(e)
      PROVE  TypeOK'
    <2>1. [NoRow EXCEPT !.status = "pending"] \in Row
        BY ConfigIsValid DEF NoRow, Row, Status
    <2>2. SpoolTypeOK'
        BY <1>1, <2>1 DEF Enqueue, EnqueueRow, SpoolTypeOK, Spooled, table
    <2> QED
        BY <1>1, <2>2 DEF Enqueue
<1>2. ASSUME NEW d \in Drains, DrainStep(d)
      PROVE  TypeOK'
    <2> DEFINE w == worker[d]
    <2>0. w \in Worker
        OBVIOUS
    <2>15. /\ w.left \in 0 .. MaxBatches /\ w.batch \in SUBSET Events
          /\ w.ok \in SUBSET Events /\ w.permanent \in SUBSET Events
          /\ w.transient \in SUBSET Events
        BY <2>0, WorkerFields
    <2>16. /\ Reclaimed \in [Events -> Row]
          /\ \A S : Acked(S) \in [Events -> Row] /\ DeadLettered(S) \in [Events -> Row]
          /\ \A T : Claimed(T) \in [Events -> Row]
          /\ \A n : ParkedOldest(n) \in [Events -> Row]
          /\ \A U : \A delay \in 0 .. MaxBackoff : Rescheduled(U, delay) \in [Events -> Row]
        <3>1. 0 \in 0 .. MaxBackoff
            BY ConfigIsValid
        <3> QED
            BY <3>1, TablesFit DEF SpoolTypeOK
    <2> HIDE DEF w
    <2>1. CASE ReclaimStaleInflight(d)
        <3>1. [Idle EXCEPT !.pc = "prune", !.left = MaxBatches] \in Worker
            <4>1. MaxBatches \in 0 .. MaxBatches
                BY DrainAssumption
            <4> QED
                BY <4>1, IdleIsWorker, PassUpdates
        <3>2. SpoolTypeOK' /\ faults' \in 0 .. MaxFaults
            BY <2>1, <2>16, WriteFits DEF ReclaimStaleInflight
        <3> QED
            BY <2>1, <3>1, <3>2 DEF ReclaimStaleInflight
    <2>2. CASE PruneAcked(d)
        <3>1. [w EXCEPT !.pc = "count"] \in Worker
            BY <2>0, PassUpdates
        <3>2. NoRow \in Row
            BY ConfigIsValid DEF NoRow, Row, Status
        <3>3. SpoolTypeOK' /\ faults' \in 0 .. MaxFaults
            BY <2>2, <3>2, DrainAssumption DEF PruneAcked, PruneRows, SpoolTypeOK, table
        <3> QED
            BY <2>2, <3>1, <3>3 DEF PruneAcked, w
    <2>3. CASE CountPending(d)
        <3>1. Excess \in Nat
            <4>1. Cardinality(Having("pending")) \in Nat
                BY EventsAreFinite, FS_Subset, FS_CardinalityType DEF Having
            <4> QED
                BY <4>1, ConfigIsValid DEF Excess
        <3>2. [w EXCEPT !.pc = IF Excess = 0 THEN "claim" ELSE "cap",
                        !.excess = Excess] \in Worker
            BY <2>0, <3>1, PassUpdates
        <3> QED
            BY <2>3, <3>2 DEF CountPending, SpoolTypeOK, table, w
    <2>4. CASE ParkExcess(d)
        <3>1. [w EXCEPT !.pc = "claim", !.excess = 0] \in Worker
            BY <2>0, PassUpdates
        <3>2. SpoolTypeOK' /\ faults' \in 0 .. MaxFaults
            BY <2>4, <2>16, WriteFits DEF ParkExcess
        <3> QED
            BY <2>4, <3>1, <3>2 DEF ParkExcess, w
    <2>5. CASE ClaimBatch(d)
        <3>1. w.left - 1 \in 0 .. MaxBatches
            BY <2>5, <2>15, DrainAssumption DEF ClaimBatch, At, AnswersMatchBatches, w
        <3> DEFINE t == [e \in Events |-> IF e \in Claimable
                            THEN Smaller(row[e].attempts + 1, MaxAttempts) ELSE 0]
        <3>2. t \in [Events -> 0 .. MaxAttempts]
            <4>1. ASSUME NEW e \in Events
                  PROVE  Smaller(row[e].attempts + 1, MaxAttempts) \in 0 .. MaxAttempts
                <5>1. row[e].attempts + 1 \in Nat
                    BY ConfigIsValid, RowFields DEF SpoolTypeOK
                <5> QED
                    BY <5>1, ConfigIsValid, SmallerFits
            <4> QED
                BY <4>1, ConfigIsValid
        <3>3. Claimable \in SUBSET Events
            BY DEF Claimable, Oldest, Due, Having
        <3> HIDE DEF t
        <3>4. [w EXCEPT !.pc = "sent", !.left = w.left - 1, !.batch = Claimable,
                        !.tries = t] \in Worker
            BY <2>0, <3>1, <3>2, <3>3, BatchUpdates
        <3>5. worker' = [worker EXCEPT ![d] =
                [w EXCEPT !.pc = "sent", !.left = w.left - 1, !.batch = Claimable,
                          !.tries = t]]
            BY <2>5 DEF ClaimBatch, w, t
        <3>6. SpoolTypeOK'
            BY <2>5, <2>16 DEF ClaimBatch, SpoolTypeOK
        <3>7. worker' \in [Drains -> Worker]
            BY <3>4, <3>5
        <3> QED
            BY <2>5, <3>6, <3>7 DEF ClaimBatch
    <2>6. CASE EndPass(d)
        BY <2>6, IdleIsWorker, DrainAssumption DEF EndPass, SpoolTypeOK, table
    <2>7. CASE GatewayAnswers(d)
        <3>1. PICK ok, permanent, transient \in SUBSET worker[d].batch :
                /\ ledger' = ledger \cup ok
                /\ worker' = [worker EXCEPT ![d].pc = "answered", ![d].ok = ok,
                                    ![d].permanent = permanent, ![d].transient = transient]
            BY <2>7 DEF GatewayAnswers
        <3>2. [w EXCEPT !.pc = "answered", !.ok = ok, !.permanent = permanent,
                        !.transient = transient] \in Worker
            <4>1. ok \in SUBSET Events /\ permanent \in SUBSET Events
                  /\ transient \in SUBSET Events
                BY <2>15 DEF w
            <4> QED
                BY <2>0, <4>1, BatchUpdates
        <3>3. ledger' \subseteq Events
            BY <2>15, <3>1 DEF w
        <3>4. worker' \in [Drains -> Worker]
            BY <3>1, <3>2 DEF w
        <3> QED
            BY <2>7, <3>3, <3>4 DEF GatewayAnswers, SpoolTypeOK, table
    <2>8. CASE RequestFails(d)
        <3>1. PICK x \in Errors :
                worker' = [worker EXCEPT ![d].pc = "reschedule", ![d].error = x,
                                ![d].ok = {}, ![d].permanent = {}, ![d].transient = {}]
            BY <2>8 DEF RequestFails
        <3>2. [w EXCEPT !.pc = "reschedule", !.error = x, !.ok = {},
                        !.permanent = {}, !.transient = {}] \in Worker
            BY <2>0, <2>15, BatchUpdates
        <3>3. worker' \in [Drains -> Worker]
            BY <3>1, <3>2 DEF w
        <3> QED
            BY <2>8, <3>3 DEF RequestFails, SpoolTypeOK, table
    <2>9. CASE Ack(d)
        <3>1. [w EXCEPT !.pc = "reject", !.ok = {}, !.batch = w.batch \ w.ok] \in Worker
            BY <2>0, <2>15, BatchUpdates
        <3>2. worker' = [worker EXCEPT ![d] =
                [w EXCEPT !.pc = "reject", !.ok = {}, !.batch = w.batch \ w.ok]]
            BY <2>9 DEF Ack, w
        <3>3. SpoolTypeOK' /\ faults' \in 0 .. MaxFaults
            BY <2>9, <2>16, WriteFits DEF Ack
        <3> QED
            BY <2>9, <3>1, <3>2, <3>3 DEF Ack
    <2>10. CASE RescheduleUnmentioned(d)
        <3>1. NextBatch(w) \in Worker
            BY <2>0, NextBatchIsClean
        <3>2. BaseBackoff \in 0 .. MaxBackoff
            BY ConfigIsValid
        <3>3. SpoolTypeOK' /\ faults' \in 0 .. MaxFaults
            BY <2>10, <2>16, <3>2, WriteFits DEF RescheduleUnmentioned
        <3> QED
            BY <2>10, <3>1, <3>3 DEF RescheduleUnmentioned, w
    <2>11. ASSUME NEW e \in Events, DeadLetterRejected(d, e)
           PROVE  TypeOK'
        <3>1. [w EXCEPT !.permanent = w.permanent \ {e}, !.batch = w.batch \ {e}] \in Worker
            BY <2>0, <2>15, BatchUpdates
        <3>2. worker' = [worker EXCEPT ![d] =
                [w EXCEPT !.permanent = w.permanent \ {e}, !.batch = w.batch \ {e}]]
            BY <2>11 DEF DeadLetterRejected, w
        <3>3. SpoolTypeOK' /\ faults' \in 0 .. MaxFaults
            BY <2>11, <2>16, WriteFits DEF DeadLetterRejected
        <3> QED
            BY <2>11, <3>1, <3>2, <3>3 DEF DeadLetterRejected
    <2>12. ASSUME NEW e \in Events, RescheduleRejected(d, e)
           PROVE  TypeOK'
        <3>1. [w EXCEPT !.transient = w.transient \ {e}, !.batch = w.batch \ {e}] \in Worker
            BY <2>0, <2>15, BatchUpdates
        <3>2. worker' = [worker EXCEPT ![d] =
                [w EXCEPT !.transient = w.transient \ {e}, !.batch = w.batch \ {e}]]
            BY <2>12 DEF RescheduleRejected, w
        <3>3. PICK delay \in 0 .. MaxBackoff : Write(Rescheduled({e}, delay))
            BY <2>12, DelaysFit DEF RescheduleRejected
        <3>4. SpoolTypeOK' /\ faults' \in 0 .. MaxFaults
            BY <2>16, <3>3, WriteFits
        <3> QED
            BY <2>12, <3>1, <3>2, <3>4 DEF RescheduleRejected
    <2>13. CASE RescheduleBatch(d)
        <3>1. Exhausted(d) \in SUBSET Events
            BY <2>15 DEF Exhausted, w
        <3>2. [w EXCEPT !.pc = "park", !.batch = Exhausted(d)] \in Worker
            BY <2>0, <3>1, BatchUpdates
        <3>3. worker' = [worker EXCEPT ![d] =
                [w EXCEPT !.pc = "park", !.batch = Exhausted(d)]]
            BY <2>13 DEF RescheduleBatch, w
        <3>4. PICK delay \in 0 .. MaxBackoff :
                Write(Rescheduled(worker[d].batch \ Exhausted(d), delay))
            BY <2>13, DelaysFit DEF RescheduleBatch
        <3>5. SpoolTypeOK' /\ faults' \in 0 .. MaxFaults
            BY <2>16, <3>4, WriteFits
        <3> QED
            BY <2>13, <3>2, <3>3, <3>5 DEF RescheduleBatch
    <2>14. CASE ParkBatch(d)
        <3>1. NextBatch(w) \in Worker /\ Idle \in Worker
            BY <2>0, NextBatchIsClean, IdleIsWorker
        <3>2. SpoolTypeOK' /\ faults' \in 0 .. MaxFaults
            BY <2>14, <2>16, WriteFits DEF ParkBatch
        <3> QED
            BY <2>14, <3>1, <3>2 DEF ParkBatch, w
    <2> QED
        BY <1>2, <2>1, <2>2, <2>3, <2>4, <2>5, <2>6, <2>7, <2>8, <2>9, <2>10, <2>11,
           <2>12, <2>13, <2>14 DEF DrainStep
<1>3. ASSUME NEW d \in Drains, Kill(d)
      PROVE  TypeOK'
    BY <1>3, IdleIsWorker, DrainAssumption DEF Kill, SpoolTypeOK, table
<1>4. CASE Tick
    <2>1. 0 \in 0 .. MaxBackoff
        BY ConfigIsValid
    <2>2. Aged \in [Events -> Row]
        BY <2>1, TablesFit DEF SpoolTypeOK
    <2> QED
        BY <1>4, <2>2 DEF Tick, SpoolTypeOK
<1>5. CASE UNCHANGED vars
    BY <1>5 DEF vars, SpoolTypeOK
<1> QED
    BY <1>1, <1>2, <1>3, <1>4, <1>5 DEF Next

-----------------------------------------------------------------------------
(* Safety *)

\* An answer splits its batch.
LEMMA AnswerSplits ==
    ASSUME NEW d \in Drains, GatewayAnswers(d)
    PROVE  \E ok, permanent, transient \in SUBSET worker[d].batch :
                /\ ok \cap permanent = {} /\ ok \cap transient = {}
                /\ permanent \cap transient = {}
                /\ ledger' = ledger \cup ok
                /\ worker' = [worker EXCEPT ![d].pc = "answered", ![d].ok = ok,
                                    ![d].permanent = permanent, ![d].transient = transient]
BY Zenon DEF GatewayAnswers

\* What a drain is about to apply stays about its own batch, and stays stored.
LEMMA AnswersStep ==
    TypeOK /\ AnswersMatchBatches /\ [Next]_vars => AnswersMatchBatches'
<1> SUFFICES ASSUME TypeOK, AnswersMatchBatches, [Next]_vars
             PROVE  AnswersMatchBatches'
    OBVIOUS
<1> USE DEF TypeOK, AnswersMatchBatches
<1>1. ASSUME NEW e \in Events, Enqueue(e)
      PROVE  AnswersMatchBatches'
    BY <1>1 DEF Enqueue
<1>2. ASSUME NEW d \in Drains, DrainStep(d)
      PROVE  AnswersMatchBatches'
    <2>1. CASE ReclaimStaleInflight(d)
        BY <2>1, DrainAssumption DEF ReclaimStaleInflight, Idle, At
    <2>2. CASE PruneAcked(d)
        BY <2>2 DEF PruneAcked, At
    <2>3. CASE CountPending(d)
        BY <2>3 DEF CountPending, At
    <2>4. CASE ParkExcess(d)
        BY <2>4 DEF ParkExcess, At
    <2>5. CASE ClaimBatch(d)
        BY <2>5 DEF ClaimBatch, At
    <2>6. CASE EndPass(d)
        BY <2>6 DEF EndPass, Idle
    <2>7. CASE GatewayAnswers(d)
        <3>1. PICK ok, permanent, transient \in SUBSET worker[d].batch :
                /\ ok \cap permanent = {} /\ ok \cap transient = {}
                /\ permanent \cap transient = {}
                /\ ledger' = ledger \cup ok
                /\ worker' = [worker EXCEPT ![d].pc = "answered", ![d].ok = ok,
                                    ![d].permanent = permanent, ![d].transient = transient]
            BY <2>7, AnswerSplits
        <3> QED
            BY <3>1
    <2>8. CASE RequestFails(d)
        BY <2>8 DEF RequestFails, At
    <2>9. CASE Ack(d)
        BY <2>9 DEF Ack, At
    <2>10. CASE RescheduleUnmentioned(d)
        BY <2>10, NextBatchIsClean DEF RescheduleUnmentioned
    <2>11. ASSUME NEW e \in Events, DeadLetterRejected(d, e)
           PROVE  AnswersMatchBatches'
        BY <2>11 DEF DeadLetterRejected, At
    <2>12. ASSUME NEW e \in Events, RescheduleRejected(d, e)
           PROVE  AnswersMatchBatches'
        BY <2>12 DEF RescheduleRejected, At
    <2>13. CASE RescheduleBatch(d)
        BY <2>13 DEF RescheduleBatch, Exhausted, At
    <2>14. CASE ParkBatch(d)
        <3>1. worker'[d] = Idle \/ worker'[d] = NextBatch(worker[d])
            BY <2>14 DEF ParkBatch
        <3>2. \A c \in Drains : c # d => worker'[c] = worker[c]
            BY <2>14 DEF ParkBatch
        <3>3. ledger' = ledger
            BY <2>14 DEF ParkBatch
        <3> QED
            BY <3>1, <3>2, <3>3, NextBatchIsClean DEF Idle
    <2> QED
        BY <1>2, <2>1, <2>2, <2>3, <2>4, <2>5, <2>6, <2>7, <2>8, <2>9, <2>10, <2>11,
           <2>12, <2>13, <2>14 DEF DrainStep
<1>3. ASSUME NEW d \in Drains, Kill(d)
      PROVE  AnswersMatchBatches'
    BY <1>3 DEF Kill, Idle
<1>4. CASE Tick
    BY <1>4 DEF Tick
<1>5. CASE UNCHANGED vars
    BY <1>5 DEF vars
<1> QED
    BY <1>1, <1>2, <1>3, <1>4, <1>5 DEF Next

\* A table that drops no row and acknowledges at most the rows of S.
Keeps(new, S) ==
    \A e \in Events : /\ new[e].status = "absent" => row[e].status = "absent"
                      /\ new[e].status = "acked" => row[e].status = "acked" \/ e \in S

\* Only the ACK acknowledges, and only pruning drops a row.
LEMMA TablesKeep ==
    ASSUME row \in [Events -> Row], NEW S, NEW delay, NEW n
    PROVE  /\ Keeps(Claimed(S), {})
           /\ Keeps(Acked(S), S)
           /\ Keeps(Rescheduled(S, delay), {})
           /\ Keeps(DeadLettered(S), {})
           /\ Keeps(Reclaimed, {})
           /\ Keeps(ParkedOldest(n), {})
           /\ Keeps(Aged, {})
           /\ Keeps(row, {})
<1>1. \A e \in Events : row[e] \in Row
    OBVIOUS
<1>2. Keeps(Claimed(S), {})
    BY <1>1 DEF Keeps, Claimed, Row
<1>3. Keeps(Acked(S), S)
    BY <1>1 DEF Keeps, Acked, Row
<1>4. Keeps(Rescheduled(S, delay), {})
    BY <1>1 DEF Keeps, Rescheduled, Row
<1>5. Keeps(DeadLettered(S), {})
    BY <1>1 DEF Keeps, DeadLettered, Row
<1>6. Keeps(Reclaimed, {})
    BY <1>1 DEF Keeps, Reclaimed, Row
<1>7. Keeps(ParkedOldest(n), {})
    BY <1>1 DEF Keeps, ParkedOldest, Row
<1>8. Keeps(Aged, {})
    BY <1>1 DEF Keeps, Aged, Later, Row
<1>9. Keeps(row, {})
    BY DEF Keeps
<1> QED
    BY <1>2, <1>3, <1>4, <1>5, <1>6, <1>7, <1>8, <1>9

\* Such a table, over a ledger that only grows, loses nothing.
LEMMA KeepingIsSafe ==
    ASSUME TypeOK, AckedIsStored, NothingLost,
           NEW S \in SUBSET ledger, Keeps(row', S),
           ledger \subseteq ledger', captured' = captured
    PROVE  AckedIsStored' /\ NothingLost'
BY DEF TypeOK, AckedIsStored, NothingLost, Keeps, Having, Spooled

\* Every step keeps delivered events stored and captured events in reach.
LEMMA StoredStep ==
    SafetyInv /\ [Next]_vars => AckedIsStored' /\ NothingLost'
<1> SUFFICES ASSUME SafetyInv, [Next]_vars
             PROVE  AckedIsStored' /\ NothingLost'
    OBVIOUS
<1>1. TypeOK /\ AnswersMatchBatches /\ AckedIsStored /\ NothingLost
    BY DEF SafetyInv
<1>2. row \in [Events -> Row]
    BY <1>1 DEF TypeOK, SpoolTypeOK
<1>3. ASSUME NEW e \in Events, Enqueue(e)
      PROVE  AckedIsStored' /\ NothingLost'
    BY <1>1, <1>2, <1>3
       DEF Enqueue, EnqueueRow, table, AckedIsStored, NothingLost, Having, Spooled, NoRow
<1>4. ASSUME NEW d \in Drains, DrainStep(d)
      PROVE  AckedIsStored' /\ NothingLost'
    <2>1. CASE PruneAcked(d)
        <3>1. CASE PruneRows
            <4>1. Expired \subseteq Having("acked")
                BY DEF Expired
            <4>2. row' = [e \in Events |-> IF e \in Expired THEN NoRow ELSE row[e]]
                BY <3>1 DEF PruneRows
            <4>3. Having("acked")' \subseteq Having("acked")
                BY <1>2, <4>2 DEF Having, NoRow
            <4>4. Spooled \subseteq Spooled' \cup Having("acked")
                BY <1>2, <4>1, <4>2 DEF Spooled
            <4>5. ledger' = ledger /\ captured' = captured
                BY <2>1 DEF PruneAcked
            <4> QED
                BY <1>1, <4>3, <4>4, <4>5 DEF AckedIsStored, NothingLost
        <3>2. CASE UNCHANGED table
            BY <1>1, <2>1, <3>2
               DEF PruneAcked, table, AckedIsStored, NothingLost, Having, Spooled
        <3> QED
            BY <2>1, <3>1, <3>2 DEF PruneAcked
    <2>2. CASE Ack(d)
        <3>1. worker[d].ok \in SUBSET ledger
            BY <1>1 DEF AnswersMatchBatches
        <3>2. Keeps(row', worker[d].ok)
            <4>1. Keeps(row, worker[d].ok) /\ Keeps(Acked(worker[d].ok), worker[d].ok)
                BY <1>2, TablesKeep DEF Keeps
            <4> QED
                BY <2>2, <4>1 DEF Ack, Write
        <3>3. ledger' = ledger /\ captured' = captured
            BY <2>2 DEF Ack
        <3> QED
            BY <1>1, <3>1, <3>2, <3>3, KeepingIsSafe
    <2>3. ASSUME ~PruneAcked(d), ~Ack(d)
          PROVE  /\ Keeps(row', {})
                 /\ ledger \subseteq ledger'
                 /\ captured' = captured
        <3>1. ASSUME NEW new, Write(new), Keeps(new, {})
              PROVE  Keeps(row', {})
            BY <1>2, <3>1, TablesKeep DEF Write
        <3>2. Keeps(row, {}) /\ (UNCHANGED row => Keeps(row', {}))
            BY DEF Keeps
        <3>3. CASE ReclaimStaleInflight(d)
            BY <1>2, <3>1, <3>3, TablesKeep DEF ReclaimStaleInflight
        <3>4. CASE CountPending(d) \/ EndPass(d) \/ GatewayAnswers(d) \/ RequestFails(d)
            BY <3>2, <3>4 DEF CountPending, EndPass, GatewayAnswers, RequestFails, table
        <3>5. CASE ParkExcess(d)
            BY <1>2, <3>1, <3>5, TablesKeep DEF ParkExcess
        <3>6. CASE ClaimBatch(d)
            BY <1>2, <3>6, TablesKeep DEF ClaimBatch
        <3>7. CASE \E e \in Events : DeadLetterRejected(d, e)
            BY <1>2, <3>1, <3>7, TablesKeep DEF DeadLetterRejected
        <3>8. CASE \E e \in Events : RescheduleRejected(d, e)
            BY <1>2, <3>1, <3>8, TablesKeep DEF RescheduleRejected
        <3>9. CASE RescheduleUnmentioned(d)
            BY <1>2, <3>1, <3>9, TablesKeep DEF RescheduleUnmentioned
        <3>10. CASE RescheduleBatch(d)
            BY <1>2, <3>1, <3>10, TablesKeep DEF RescheduleBatch
        <3>11. CASE ParkBatch(d)
            BY <1>2, <3>1, <3>11, TablesKeep DEF ParkBatch
        <3>12. Keeps(row', {})
            BY <1>4, <2>3, <3>3, <3>4, <3>5, <3>6, <3>7, <3>8, <3>9, <3>10, <3>11
               DEF DrainStep
        <3>13. ledger \subseteq ledger' /\ captured' = captured
            BY <1>4, <2>3
               DEF DrainStep, ReclaimStaleInflight, CountPending, ParkExcess, ClaimBatch,
                   EndPass, GatewayAnswers, RequestFails, DeadLetterRejected,
                   RescheduleRejected, RescheduleUnmentioned, RescheduleBatch, ParkBatch
        <3> QED
            BY <3>12, <3>13
    <2> QED
        BY <1>1, <2>1, <2>2, <2>3, KeepingIsSafe
<1>5. ASSUME NEW d \in Drains, Kill(d)
      PROVE  AckedIsStored' /\ NothingLost'
    BY <1>1, <1>5 DEF Kill, table, AckedIsStored, NothingLost, Having, Spooled
<1>6. CASE Tick
    <2>1. Keeps(row', {})
        BY <1>2, <1>6, TablesKeep DEF Tick
    <2> QED
        BY <1>1, <1>6, <2>1, KeepingIsSafe DEF Tick
<1>7. CASE UNCHANGED vars
    BY <1>1, <1>7 DEF vars, AckedIsStored, NothingLost, Having, Spooled
<1> QED
    BY <1>3, <1>4, <1>5, <1>6, <1>7 DEF Next

\* The invariant holds initially.
LEMMA InitSafe == Init => SafetyInv
<1> SUFFICES ASSUME Init PROVE SafetyInv
    OBVIOUS
<1>1. NoRow \in Row /\ 0 \in 0 .. MaxFaults
    BY ConfigIsValid, DrainAssumption DEF NoRow, Row, Status
<1>2. TypeOK
    BY <1>1, IdleIsWorker DEF Init, SpoolInit, TypeOK, SpoolTypeOK
<1>3. AnswersMatchBatches
    BY DEF Init, AnswersMatchBatches, Idle
<1>4. AckedIsStored /\ NothingLost
    BY DEF Init, SpoolInit, NoRow, AckedIsStored, NothingLost, Having
<1> QED
    BY <1>2, <1>3, <1>4 DEF SafetyInv

\* Under any number of drains, however slow, killed or unlucky, the invariant
\* behind the delivery guarantee of the bridge holds.
THEOREM SafetyInvariant == Spec => []SafetyInv
<1>1. Init => SafetyInv
    BY InitSafe
<1>2. SafetyInv /\ [Next]_vars => SafetyInv'
    BY TypeStep, AnswersStep, StoredStep DEF SafetyInv
<1> QED
    BY <1>1, <1>2, PTL DEF Spec

\* Every variable keeps its type.
THEOREM TypeCorrect == Spec => []TypeOK
<1>1. SafetyInv => TypeOK
    BY DEF SafetyInv
<1> QED
    BY <1>1, SafetyInvariant, PTL

\* What the spool marks acked, the gateway has stored.
THEOREM AckedEventsAreStored == Spec => []AckedIsStored
<1>1. SafetyInv => AckedIsStored
    BY DEF SafetyInv
<1> QED
    BY <1>1, SafetyInvariant, PTL

\* An event once captured is in the spool or stored by the gateway.
THEOREM NoCapturedEventIsLost == Spec => []NothingLost
<1>1. SafetyInv => NothingLost
    BY DEF SafetyInv
<1> QED
    BY <1>1, SafetyInvariant, PTL

-----------------------------------------------------------------------------
(* Prompt uploads: a row belongs to one living drain at a time *)

\* A step of d that touches only rows no other drain holds, and gives up the
\* rows it touches, leaves every claim intact.
LEMMA ClaimsUndisturbed ==
    ASSUME PromptInv, NEW d \in Drains, NEW S,
           \A e \in Events \ S : row'[e] = row[e],
           \A c \in Drains : worker[c].batch \subseteq Events,
           \A c \in Drains \ {d} : worker'[c] = worker[c] /\ worker[c].batch \cap S = {},
           worker'[d].batch \subseteq worker[d].batch \ S
    PROVE  PromptInv'
<1>1. \A c \in Drains : worker'[c].batch \subseteq worker[c].batch \ S
    OBVIOUS
<1>2. HeldRowsAreInflight'
    BY <1>1 DEF PromptInv, HeldRowsAreInflight, Having
<1>3. HeldRowsAreFresh'
    BY <1>1 DEF PromptInv, HeldRowsAreFresh
<1>4. ClaimsAreExclusive'
    BY <1>1 DEF PromptInv, ClaimsAreExclusive
<1> QED
    BY <1>2, <1>3, <1>4 DEF PromptInv

\* Which rows each transaction touches.
LEMMA TablesTouch ==
    ASSUME row \in [Events -> Row], NEW S, NEW delay, NEW n
    PROVE  /\ \A e \in Events \ S : /\ Claimed(S)[e] = row[e]
                                    /\ Acked(S)[e] = row[e]
                                    /\ Rescheduled(S, delay)[e] = row[e]
                                    /\ DeadLettered(S)[e] = row[e]
           /\ \A e \in Events \ Stale : Reclaimed[e] = row[e]
           /\ \A e \in Events \ Having("pending") : ParkedOldest(n)[e] = row[e]
BY DEF Claimed, Acked, Rescheduled, DeadLettered, Reclaimed, ParkedOldest, Oldest, Having

\* While uploads are prompt, no step takes a row from a living drain.
LEMMA PromptStep ==
    ASSUME Prompt
    PROVE  SafetyInv /\ PromptInv /\ [Next]_vars => PromptInv'
<1> SUFFICES ASSUME SafetyInv, PromptInv, [Next]_vars
             PROVE  PromptInv'
    OBVIOUS
<1>1. TypeOK /\ AnswersMatchBatches
    BY DEF SafetyInv
<1>2. row \in [Events -> Row] /\ worker \in [Drains -> Worker]
    BY <1>1 DEF TypeOK, SpoolTypeOK
<1>3. \A c \in Drains : worker[c].batch \subseteq Events
    BY <1>2, WorkerFields
<1>4. \A c \in Drains : \A e \in worker[c].batch :
            row[e].status = "inflight" /\ row[e].held < StaleAfter
    BY DEF PromptInv, HeldRowsAreInflight, HeldRowsAreFresh, Having
<1>5. \A c1, c2 \in Drains : c1 # c2 => worker[c1].batch \cap worker[c2].batch = {}
    BY DEF PromptInv, ClaimsAreExclusive
<1>6. ASSUME NEW e \in Events, Enqueue(e)
      PROVE  PromptInv'
    <2>1. worker' = worker
        BY <1>6 DEF Enqueue
    <2>2. \A f \in Events : row[f].status = "inflight" => row'[f] = row[f]
        BY <1>2, <1>6 DEF Enqueue, EnqueueRow, Spooled, table
    <2> QED
        BY <1>3, <1>4, <1>5, <2>1, <2>2
           DEF PromptInv, HeldRowsAreInflight, HeldRowsAreFresh, ClaimsAreExclusive, Having
<1>7. ASSUME NEW d \in Drains, DrainStep(d)
      PROVE  PromptInv'
    <2>1. \A c \in Drains \ {d} : worker'[c] = worker[c]
        BY <1>2, <1>7 DEF DrainStep, ReclaimStaleInflight, PruneAcked, CountPending,
            ParkExcess, ClaimBatch, EndPass, GatewayAnswers, RequestFails, Ack,
            DeadLetterRejected, RescheduleRejected, RescheduleUnmentioned,
            RescheduleBatch, ParkBatch
    <2>2. ASSUME NEW S,
                 \A e \in Events \ S : row'[e] = row[e],
                 \A c \in Drains \ {d} : worker[c].batch \cap S = {},
                 worker'[d].batch \subseteq worker[d].batch \ S
          PROVE  PromptInv'
        BY <1>3, <2>1, <2>2, ClaimsUndisturbed
    <2>3. CASE ReclaimStaleInflight(d)
        <3>1. \A e \in Events \ Stale : row'[e] = row[e]
            BY <1>2, <2>3, TablesTouch DEF ReclaimStaleInflight, Write
        <3>2. \A c \in Drains : worker[c].batch \cap Stale = {}
            <4>1. ASSUME NEW c \in Drains, NEW e \in worker[c].batch, e \in Stale
                  PROVE  FALSE
                <5>1. row[e].held \in Nat
                    BY <1>2, <1>3, <4>1, ConfigIsValid, RowFields
                <5> QED
                    BY <1>4, <4>1, <5>1, ConfigIsValid DEF Stale
            <4> QED
                BY <4>1
        <3>3. worker'[d].batch = {}
            BY <1>2, <2>3 DEF ReclaimStaleInflight, Idle
        <3> QED
            BY <2>2, <3>1, <3>2, <3>3
    <2>4. CASE PruneAcked(d)
        <3>1. \A e \in Events \ Having("acked") : row'[e] = row[e]
            BY <1>2, <2>4 DEF PruneAcked, PruneRows, Expired, table, Having
        <3>2. \A c \in Drains : worker[c].batch \cap Having("acked") = {}
            BY <1>4 DEF Having
        <3>3. worker'[d].batch = worker[d].batch
            BY <1>2, <2>4 DEF PruneAcked
        <3> QED
            BY <2>2, <3>1, <3>2, <3>3
    <2>5. CASE ParkExcess(d)
        <3>1. \A e \in Events \ Having("pending") : row'[e] = row[e]
            BY <1>2, <2>5, TablesTouch DEF ParkExcess, Write
        <3>2. \A c \in Drains : worker[c].batch \cap Having("pending") = {}
            BY <1>4 DEF Having
        <3>3. worker'[d].batch = worker[d].batch
            BY <1>2, <2>5 DEF ParkExcess
        <3> QED
            BY <2>2, <3>1, <3>2, <3>3
    <2>6. CASE ClaimBatch(d)
        <3>1. Claimable \subseteq Having("pending")
            BY DEF Claimable, Oldest, Due
        <3>2. \A e \in Claimable : /\ row'[e].status = "inflight"
                                   /\ row'[e].held = 0
            BY <1>2, <2>6, <3>1 DEF ClaimBatch, Claimed, Having, Row
        <3>3. \A e \in Events \ Claimable : row'[e] = row[e]
            BY <1>2, <2>6, TablesTouch DEF ClaimBatch
        <3>4. worker'[d].batch = Claimable
            BY <1>2, <2>6 DEF ClaimBatch
        <3>5. \A c \in Drains : worker[c].batch \cap Claimable = {}
            BY <1>4, <3>1 DEF Having
        <3>6. \A c \in Drains : \A e \in worker'[c].batch :
                row'[e].status = "inflight" /\ row'[e].held < StaleAfter /\ e \in Events
            BY <1>3, <1>4, <2>1, <3>1, <3>2, <3>3, <3>4, <3>5, ConfigIsValid DEF Having
        <3>7. ClaimsAreExclusive'
            BY <1>5, <2>1, <3>4, <3>5 DEF ClaimsAreExclusive
        <3> QED
            BY <3>6, <3>7 DEF PromptInv, HeldRowsAreInflight, HeldRowsAreFresh, Having
    <2>7. CASE CountPending(d) \/ EndPass(d) \/ GatewayAnswers(d) \/ RequestFails(d)
        <3>1. \A e \in Events \ {} : row'[e] = row[e]
            BY <2>7 DEF CountPending, EndPass, GatewayAnswers, RequestFails, table
        <3>2. worker'[d].batch \subseteq worker[d].batch \ {}
            <4>1. CASE CountPending(d)
                BY <1>2, <4>1 DEF CountPending
            <4>2. CASE EndPass(d)
                BY <1>2, <4>2 DEF EndPass, Idle
            <4>3. CASE GatewayAnswers(d)
                <5>1. PICK ok, permanent, transient \in SUBSET worker[d].batch :
                        /\ ok \cap permanent = {} /\ ok \cap transient = {}
                        /\ permanent \cap transient = {}
                        /\ ledger' = ledger \cup ok
                        /\ worker' = [worker EXCEPT ![d].pc = "answered", ![d].ok = ok,
                            ![d].permanent = permanent, ![d].transient = transient]
                    BY <4>3, AnswerSplits
                <5>2. worker'[d].batch = worker[d].batch
                    BY <1>2, <5>1
                <5> QED
                    BY <5>2
            <4>4. CASE RequestFails(d)
                BY <1>2, <4>4 DEF RequestFails
            <4> QED
                BY <2>7, <4>1, <4>2, <4>3, <4>4
        <3>3. \A c \in Drains \ {d} : worker[c].batch \cap {} = {}
            OBVIOUS
        <3> QED
            BY <2>2, <3>1, <3>2, <3>3
    <2>8. ASSUME NEW S \in SUBSET worker[d].batch, NEW new,
                 Write(new), \A e \in Events \ S : new[e] = row[e],
                 worker'[d].batch \subseteq worker[d].batch \ S
          PROVE  PromptInv'
        <3>1. \A e \in Events \ S : row'[e] = row[e]
            BY <2>8 DEF Write
        <3>2. \A c \in Drains \ {d} : worker[c].batch \cap S = {}
            BY <1>5, <2>8
        <3> QED
            BY <2>2, <2>8, <3>1, <3>2
    <2>9. CASE Ack(d)
        <3>1. worker[d].ok \in SUBSET worker[d].batch
            BY <1>1 DEF AnswersMatchBatches
        <3>2. worker'[d].batch = worker[d].batch \ worker[d].ok
            BY <1>2, <2>9 DEF Ack
        <3>3. \A e \in Events \ worker[d].ok : Acked(worker[d].ok)[e] = row[e]
            BY <1>2, TablesTouch
        <3>4. Write(Acked(worker[d].ok))
            BY <2>9 DEF Ack
        <3> QED
            BY <2>8, <3>1, <3>2, <3>3, <3>4
    <2>10. ASSUME NEW e \in Events, DeadLetterRejected(d, e)
           PROVE  PromptInv'
        <3>1. {e} \in SUBSET worker[d].batch
            BY <1>1, <2>10 DEF AnswersMatchBatches, DeadLetterRejected
        <3>2. worker'[d].batch = worker[d].batch \ {e}
            BY <1>2, <2>10 DEF DeadLetterRejected
        <3>3. \A f \in Events \ {e} : DeadLettered({e})[f] = row[f]
            BY <1>2, TablesTouch
        <3>4. Write(DeadLettered({e}))
            BY <2>10 DEF DeadLetterRejected
        <3> QED
            BY <2>8, <3>1, <3>2, <3>3, <3>4
    <2>11. ASSUME NEW e \in Events, RescheduleRejected(d, e)
           PROVE  PromptInv'
        <3>1. {e} \in SUBSET worker[d].batch
            BY <1>1, <2>11 DEF AnswersMatchBatches, RescheduleRejected
        <3>2. worker'[d].batch = worker[d].batch \ {e}
            BY <1>2, <2>11 DEF RescheduleRejected
        <3>3. PICK delay : Write(Rescheduled({e}, delay))
            BY <2>11 DEF RescheduleRejected
        <3>4. \A f \in Events \ {e} : Rescheduled({e}, delay)[f] = row[f]
            BY <1>2, TablesTouch
        <3> QED
            BY <2>8, <3>1, <3>2, <3>3, <3>4
    <2>12. CASE RescheduleUnmentioned(d)
        <3>1. worker'[d].batch = {}
            BY <1>2, <2>12, NextBatchIsClean DEF RescheduleUnmentioned
        <3> DEFINE S == worker[d].batch
        <3>2. \A e \in Events \ S : Rescheduled(S, BaseBackoff)[e] = row[e]
            BY <1>2, TablesTouch
        <3>3. Write(Rescheduled(S, BaseBackoff))
            BY <2>12 DEF RescheduleUnmentioned
        <3>4. S \in SUBSET worker[d].batch /\ worker'[d].batch \subseteq worker[d].batch \ S
            BY <3>1
        <3> QED
            BY <2>8, <3>2, <3>3, <3>4
    <2>13. CASE RescheduleBatch(d)
        <3>1. Exhausted(d) \subseteq worker[d].batch
            BY DEF Exhausted
        <3>2. worker'[d].batch = Exhausted(d)
            BY <1>2, <2>13 DEF RescheduleBatch
        <3> DEFINE S == worker[d].batch \ Exhausted(d)
        <3>3. PICK delay : Write(Rescheduled(S, delay))
            BY <2>13 DEF RescheduleBatch
        <3>4. \A e \in Events \ S : Rescheduled(S, delay)[e] = row[e]
            BY <1>2, TablesTouch
        <3>5. S \in SUBSET worker[d].batch /\ worker'[d].batch \subseteq worker[d].batch \ S
            BY <3>1, <3>2
        <3> QED
            BY <2>8, <3>3, <3>4, <3>5
    <2>14. CASE ParkBatch(d)
        <3>1. worker'[d].batch = {}
            BY <1>2, <2>14, NextBatchIsClean DEF ParkBatch, Idle
        <3> DEFINE S == worker[d].batch
        <3>2. \A e \in Events \ S : DeadLettered(S)[e] = row[e]
            BY <1>2, TablesTouch
        <3>3. Write(DeadLettered(S))
            BY <2>14 DEF ParkBatch
        <3>4. S \in SUBSET worker[d].batch /\ worker'[d].batch \subseteq worker[d].batch \ S
            BY <3>1
        <3> QED
            BY <2>8, <3>2, <3>3, <3>4
    <2> QED
        BY <1>7, <2>3, <2>4, <2>5, <2>6, <2>7, <2>9, <2>10, <2>11, <2>12, <2>13, <2>14
           DEF DrainStep
<1>8. ASSUME NEW d \in Drains, Kill(d)
      PROVE  PromptInv'
    <2>1. row' = row /\ worker'[d].batch = {} /\ \A c \in Drains \ {d} : worker'[c] = worker[c]
        BY <1>2, <1>8 DEF Kill, Idle, table
    <2>2. \A e \in Events \ {} : row'[e] = row[e]
        BY <2>1
    <2>3. \A c \in Drains \ {d} : worker'[c] = worker[c] /\ worker[c].batch \cap {} = {}
        BY <2>1
    <2>4. worker'[d].batch \subseteq worker[d].batch \ {}
        BY <2>1
    <2> QED
        BY <1>3, <1>8, <2>2, <2>3, <2>4, ClaimsUndisturbed
<1>9. CASE Tick
    <2>1. \A c \in Drains : \A e \in worker[c].batch :
            row'[e].status = "inflight" /\ row'[e].held < StaleAfter
        <3>1. ASSUME NEW c \in Drains, NEW e \in worker[c].batch
              PROVE  row'[e].status = "inflight" /\ row'[e].held < StaleAfter
            <4>1. ~(row[e].held + 1 >= StaleAfter)
                BY <1>4, <1>9 DEF Tick, Outlives
            <4>2. row[e] \in Row /\ row'[e] = Later(row[e])
                BY <1>2, <1>3, <1>9 DEF Tick, Aged
            <4>3. Later(row[e]).status = "inflight"
                BY <1>4, <4>2 DEF Later, Row
            <4>4. Later(row[e]).held = Smaller(row[e].held + 1, StaleAfter)
                BY <1>4, <4>2 DEF Later, Row
            <4>5. row[e].held \in Nat
                BY <4>2, ConfigIsValid, RowFields
            <4> QED
                BY <4>1, <4>2, <4>3, <4>4, <4>5, ConfigIsValid DEF Smaller
        <3> QED
            BY <3>1
    <2>2. worker' = worker
        BY <1>9 DEF Tick
    <2> QED
        BY <1>3, <1>5, <2>1, <2>2
           DEF PromptInv, HeldRowsAreInflight, HeldRowsAreFresh, ClaimsAreExclusive, Having
<1>10. CASE UNCHANGED vars
    BY <1>10 DEF vars, PromptInv, HeldRowsAreInflight, HeldRowsAreFresh,
                 ClaimsAreExclusive, Having
<1> QED
    BY <1>6, <1>7, <1>8, <1>9, <1>10 DEF Next

-----------------------------------------------------------------------------
(* The drains implement Delivery *)

\* Where the bridge stands with an event is a matter of its row's status.
LEMMA PromiseMeans ==
    ASSUME NEW rows \in [Events -> Row], NEW e \in Events
    PROVE  /\ PromiseOf(rows)[e] = "none" <=> rows[e].status = "absent"
           /\ PromiseOf(rows)[e] = "open" <=> rows[e].status \in {"pending", "inflight"}
           /\ PromiseOf(rows)[e] = "done" <=> rows[e].status = "acked"
           /\ PromiseOf(rows)[e] = "parked" <=> rows[e].status = "dead_letter"
           /\ PromiseOf(rows)[e] \in {"none", "open", "done", "parked"}
<1>1. rows[e].status \in Status
    BY RowFields
<1> QED
    BY <1>1 DEF PromiseOf, Status

\* Where the bridge stands with an event depends on the row's status alone.
LEMMA SameStatusSamePromise ==
    ASSUME NEW rows1 \in [Events -> Row], NEW rows2 \in [Events -> Row],
           NEW e \in Events,
           \/ rows1[e].status = rows2[e].status
           \/ /\ rows1[e].status \in {"pending", "inflight"}
              /\ rows2[e].status \in {"pending", "inflight"}
    PROVE  PromiseOf(rows1)[e] = PromiseOf(rows2)[e]
BY PromiseMeans

\* The promise is a function on the events, of the four standings.
LEMMA PromiseIsFunction ==
    ASSUME NEW rows
    PROVE  PromiseOf(rows) = [e \in Events |-> PromiseOf(rows)[e]]
<1> DEFINE c(e) == CASE rows[e].status = "absent" -> "none"
                     [] rows[e].status \in {"pending", "inflight"} -> "open"
                     [] rows[e].status = "acked" -> "done"
                     [] rows[e].status = "dead_letter" -> "parked"
<1>1. PromiseOf(rows) = [e \in Events |-> c(e)]
    BY DEF PromiseOf
<1> HIDE DEF c
<1> QED
    BY <1>1

\* A table whose rows of S change to one state, and whose other rows keep
\* theirs, is a move of Delivery.
LEMMA PromiseMoves ==
    ASSUME row \in [Events -> Row], NEW new \in [Events -> Row],
           NEW S \in SUBSET Events, NEW state,
           \A e \in S : PromiseOf(new)[e] = state,
           \A e \in Events \ S : PromiseOf(new)[e] = PromiseOf(row)[e]
    PROVE  PromiseOf(new) = D!Moved(S, state)
<1>1. PromiseOf(new) = [e \in Events |-> PromiseOf(new)[e]]
    BY PromiseIsFunction
<1> QED
    BY <1>1 DEF D!Moved

\* A table with the same statuses makes the same promise.
LEMMA SamePromise ==
    ASSUME NEW new, \A e \in Events : PromiseOf(new)[e] = PromiseOf(row)[e]
    PROVE  PromiseOf(new) = PromiseOf(row)
BY PromiseIsFunction

\* What each transaction does to the promises, when it is about open events.
LEMMA TablesMove ==
    ASSUME row \in [Events -> Row], NEW S \in SUBSET D!Promised("open"),
           NEW delay \in 0 .. MaxBackoff, NEW n
    PROVE  /\ PromiseOf(Acked(S)) = D!Moved(S, "done")
           /\ PromiseOf(DeadLettered(S)) = D!Moved(S, "parked")
           /\ PromiseOf(Claimed(S)) = PromiseOf(row)
           /\ PromiseOf(Rescheduled(S, delay)) = PromiseOf(row)
           /\ PromiseOf(Reclaimed) = PromiseOf(row)
           /\ PromiseOf(Aged) = PromiseOf(row)
           /\ PromiseOf(ParkedOldest(n)) =
                D!Moved(Oldest(n, Having("pending")), "parked")
<1>1. S \in SUBSET Events /\ \A e \in S : row[e].status \in {"pending", "inflight"}
    BY PromiseMeans DEF D!Promised
<1>2. \A e \in Events : row[e] \in Row
    OBVIOUS
<1>3. /\ Claimed(S) \in [Events -> Row] /\ Acked(S) \in [Events -> Row]
      /\ Rescheduled(S, delay) \in [Events -> Row]
      /\ DeadLettered(S) \in [Events -> Row] /\ Reclaimed \in [Events -> Row]
      /\ ParkedOldest(n) \in [Events -> Row] /\ Aged \in [Events -> Row]
    BY TablesFit
<1>4. PromiseOf(Acked(S)) = D!Moved(S, "done")
    <2>1. \A e \in S : Acked(S)[e].status = "acked"
        BY <1>1, <1>2 DEF Acked, Spooled, Row
    <2>2. \A e \in Events \ S : Acked(S)[e] = row[e]
        BY DEF Acked
    <2>3. \A e \in S : PromiseOf(Acked(S))[e] = "done"
        BY <1>1, <1>3, <2>1, PromiseMeans
    <2>4. \A e \in Events \ S : PromiseOf(Acked(S))[e] = PromiseOf(row)[e]
        BY <1>3, <2>2, SameStatusSamePromise
    <2> QED
        BY <1>1, <1>3, <2>3, <2>4, PromiseMoves
<1>5. PromiseOf(DeadLettered(S)) = D!Moved(S, "parked")
    <2>1. \A e \in S : DeadLettered(S)[e].status = "dead_letter"
        BY <1>1, <1>2 DEF DeadLettered, Spooled, Row
    <2>2. \A e \in Events \ S : DeadLettered(S)[e] = row[e]
        BY DEF DeadLettered
    <2>3. \A e \in S : PromiseOf(DeadLettered(S))[e] = "parked"
        BY <1>1, <1>3, <2>1, PromiseMeans
    <2>4. \A e \in Events \ S : PromiseOf(DeadLettered(S))[e] = PromiseOf(row)[e]
        BY <1>3, <2>2, SameStatusSamePromise
    <2> QED
        BY <1>1, <1>3, <2>3, <2>4, PromiseMoves
<1>6. ASSUME NEW new \in [Events -> Row],
             \A e \in Events : \/ new[e].status = row[e].status
                               \/ /\ new[e].status \in {"pending", "inflight"}
                                  /\ row[e].status \in {"pending", "inflight"}
      PROVE  PromiseOf(new) = PromiseOf(row)
    <2>1. \A e \in Events : PromiseOf(new)[e] = PromiseOf(row)[e]
        BY <1>6, SameStatusSamePromise
    <2> QED
        BY <2>1, SamePromise
<1>7. PromiseOf(Claimed(S)) = PromiseOf(row)
    <2>1. \A e \in Events : \/ Claimed(S)[e].status = row[e].status
                            \/ /\ Claimed(S)[e].status \in {"pending", "inflight"}
                               /\ row[e].status \in {"pending", "inflight"}
        BY <1>1, <1>2 DEF Claimed, Row
    <2> QED
        BY <1>3, <1>6, <2>1
<1>8. PromiseOf(Rescheduled(S, delay)) = PromiseOf(row)
    <2>1. \A e \in Events : \/ Rescheduled(S, delay)[e].status = row[e].status
                            \/ /\ Rescheduled(S, delay)[e].status \in {"pending", "inflight"}
                               /\ row[e].status \in {"pending", "inflight"}
        BY <1>1, <1>2 DEF Rescheduled, Row
    <2> QED
        BY <1>3, <1>6, <2>1
<1>9. PromiseOf(Reclaimed) = PromiseOf(row)
    <2>1. \A e \in Events : \/ Reclaimed[e].status = row[e].status
                            \/ /\ Reclaimed[e].status \in {"pending", "inflight"}
                               /\ row[e].status \in {"pending", "inflight"}
        BY <1>2 DEF Reclaimed, Stale, Having, Row
    <2> QED
        BY <1>3, <1>6, <2>1
<1>10. PromiseOf(Aged) = PromiseOf(row)
    <2>1. \A e \in Events : Aged[e].status = row[e].status
        BY <1>2 DEF Aged, Later, Row
    <2> QED
        BY <1>3, <1>6, <2>1
<1>11. PromiseOf(ParkedOldest(n)) = D!Moved(Oldest(n, Having("pending")), "parked")
    <2> DEFINE P == Oldest(n, Having("pending"))
    <2>1. P \in SUBSET Events
        BY DEF Oldest, Having
    <2>2. \A e \in P : ParkedOldest(n)[e].status = "dead_letter"
        BY <1>2, <2>1 DEF ParkedOldest, Row
    <2>3. \A e \in Events \ P : ParkedOldest(n)[e] = row[e]
        BY DEF ParkedOldest
    <2> HIDE DEF P
    <2>4. \A e \in P : PromiseOf(ParkedOldest(n))[e] = "parked"
        BY <1>3, <2>1, <2>2, PromiseMeans
    <2>5. \A e \in Events \ P : PromiseOf(ParkedOldest(n))[e] = PromiseOf(row)[e]
        BY <1>3, <2>3, SameStatusSamePromise
    <2>6. PromiseOf(ParkedOldest(n)) = D!Moved(P, "parked")
        BY <1>3, <2>1, <2>4, <2>5, PromiseMoves
    <2> QED
        BY <2>6 DEF P
<1> QED
    BY <1>4, <1>5, <1>7, <1>8, <1>9, <1>10, <1>11

\* The steps of Delivery, as the steps of Drain need them.
LEMMA DeliverySteps ==
    ASSUME \/ PromiseOf(row') = PromiseOf(row) /\ ledger' = ledger
           \/ /\ PromiseOf(row') = PromiseOf(row)
              /\ \E S \in SUBSET D!Promised("open") : ledger' = ledger \cup S
           \/ /\ ledger' = ledger
              /\ \E S \in SUBSET D!Promised("open") :
                    \/ S \subseteq ledger /\ PromiseOf(row') = D!Moved(S, "done")
                    \/ PromiseOf(row') = D!Moved(S, "parked")
           \/ /\ ledger' = ledger
              /\ \E S \in SUBSET D!Promised("done") : PromiseOf(row') = D!Moved(S, "none")
           \/ /\ ledger' = ledger
              /\ \E e \in Events : /\ PromiseOf(row)[e] = "none"
                                   /\ PromiseOf(row') = D!Moved({e}, "open")
    PROVE  [D!Next]_(D!delivery)
BY DEF D!Next, D!delivery, D!Store, D!Confirm, D!Park, D!Forget, D!Take

\* While uploads are prompt, a step of Drain is a step of Delivery.
LEMMA PromiseStep ==
    ASSUME SafetyInv, PromptInv, SafetyInv', [Next]_vars
    PROVE  [D!Next]_(D!delivery)
<1>1. row \in [Events -> Row] /\ row' \in [Events -> Row] /\ worker \in [Drains -> Worker]
    BY DEF SafetyInv, TypeOK, SpoolTypeOK
<1>2. AnswersMatchBatches
    BY DEF SafetyInv
<1>3. \A d \in Drains : worker[d].batch \in SUBSET D!Promised("open")
    <2>1. ASSUME NEW d \in Drains, NEW e \in worker[d].batch
          PROVE  e \in D!Promised("open")
        <3>1. e \in Events /\ row[e].status = "inflight"
            BY DEF PromptInv, HeldRowsAreInflight, Having
        <3> QED
            BY <1>1, <3>1, PromiseMeans DEF D!Promised
    <2> QED
        BY <2>1
<1>4. {} \in SUBSET D!Promised("open") /\ 0 \in 0 .. MaxBackoff
    BY ConfigIsValid
<1>5. ASSUME UNCHANGED row, UNCHANGED ledger
      PROVE  [D!Next]_(D!delivery)
    BY <1>5, DeliverySteps
<1>6. ASSUME UNCHANGED ledger, PromiseOf(row') = PromiseOf(row)
      PROVE  [D!Next]_(D!delivery)
    BY <1>6, DeliverySteps
<1>7. ASSUME NEW e \in Events, Enqueue(e)
      PROVE  [D!Next]_(D!delivery)
    <2>1. CASE e \in Spooled
        BY <1>5, <1>7, <2>1 DEF Enqueue, EnqueueRow, table
    <2>2. CASE e \notin Spooled
        <3>1. row[e].status = "absent" /\ ledger' = ledger
            BY <1>7, <2>2 DEF Enqueue, Spooled
        <3>2. row'[e].status = "pending" /\ \A f \in Events \ {e} : row'[f] = row[f]
            BY <1>1, <1>7, <2>2 DEF Enqueue, EnqueueRow, NoRow
        <3>3. PromiseOf(row')[e] = "open" /\ PromiseOf(row)[e] = "none"
            BY <1>1, <3>1, <3>2, PromiseMeans
        <3>4. \A f \in Events \ {e} : PromiseOf(row')[f] = PromiseOf(row)[f]
            BY <1>1, <3>2, SameStatusSamePromise
        <3>5. PromiseOf(row') = D!Moved({e}, "open")
            BY <1>1, <3>3, <3>4, PromiseMoves
        <3> QED
            BY <3>1, <3>3, <3>5, DeliverySteps
    <2> QED
        BY <2>1, <2>2
<1>8. ASSUME NEW d \in Drains, DrainStep(d)
      PROVE  [D!Next]_(D!delivery)
    <2>1. ASSUME NEW new, Write(new), PromiseOf(new) = PromiseOf(row), UNCHANGED ledger
          PROVE  [D!Next]_(D!delivery)
        BY <1>6, <2>1 DEF Write
    <2>2. ASSUME NEW S \in SUBSET D!Promised("open"), Write(DeadLettered(S)), UNCHANGED ledger
          PROVE  [D!Next]_(D!delivery)
        <3>1. PromiseOf(DeadLettered(S)) = D!Moved(S, "parked")
            BY <1>1, <1>4, TablesMove
        <3> QED
            BY <1>5, <2>2, <3>1, DeliverySteps DEF Write
    <2>3. ASSUME NEW S \in SUBSET D!Promised("open"), NEW delay \in 0 .. MaxBackoff,
                 Write(Rescheduled(S, delay)), UNCHANGED ledger
          PROVE  [D!Next]_(D!delivery)
        <3>1. PromiseOf(Rescheduled(S, delay)) = PromiseOf(row)
            BY <1>1, TablesMove
        <3> QED
            BY <2>1, <2>3, <3>1
    <2>4. CASE ReclaimStaleInflight(d)
        <3>1. PromiseOf(Reclaimed) = PromiseOf(row)
            BY <1>1, <1>4, TablesMove
        <3> QED
            BY <2>1, <2>4, <3>1 DEF ReclaimStaleInflight
    <2>5. CASE PruneAcked(d)
        <3>1. CASE UNCHANGED table
            BY <1>5, <2>5, <3>1 DEF PruneAcked, table
        <3>2. CASE PruneRows
            <4>1. \A e \in Expired : e \in Events /\ row[e].status = "acked"
                BY DEF Expired, Having
            <4>2. row' = [e \in Events |-> IF e \in Expired THEN NoRow ELSE row[e]]
                BY <3>2 DEF PruneRows
            <4>3. Expired \in SUBSET D!Promised("done")
                BY <1>1, <4>1, PromiseMeans DEF D!Promised
            <4>4. \A e \in Expired : PromiseOf(row')[e] = "none"
                BY <1>1, <4>1, <4>2, PromiseMeans DEF NoRow
            <4>5. \A e \in Events \ Expired : PromiseOf(row')[e] = PromiseOf(row)[e]
                BY <1>1, <4>2, SameStatusSamePromise
            <4>6. PromiseOf(row') = D!Moved(Expired, "none")
                BY <1>1, <4>1, <4>4, <4>5, PromiseMoves
            <4>7. ledger' = ledger
                BY <2>5 DEF PruneAcked
            <4> QED
                BY <4>3, <4>6, <4>7, DeliverySteps
        <3> QED
            BY <2>5, <3>1, <3>2 DEF PruneAcked
    <2>6. CASE ParkExcess(d)
        <3> DEFINE P == Oldest(worker[d].excess, Having("pending"))
        <3>1. PromiseOf(ParkedOldest(worker[d].excess)) = D!Moved(P, "parked")
            BY <1>1, <1>4, TablesMove
        <3>2. P \in SUBSET D!Promised("open")
            BY <1>1, PromiseMeans DEF Oldest, Having, D!Promised
        <3>3. ledger' = ledger
            BY <2>6 DEF ParkExcess
        <3> HIDE DEF P
        <3> QED
            BY <1>5, <2>6, <3>1, <3>2, <3>3, DeliverySteps DEF ParkExcess, Write
    <2>7. CASE ClaimBatch(d)
        <3>1. Claimable \in SUBSET D!Promised("open")
            BY <1>1, PromiseMeans DEF Claimable, Oldest, Due, Having, D!Promised
        <3>2. PromiseOf(Claimed(Claimable)) = PromiseOf(row)
            BY <1>1, <1>4, <3>1, TablesMove
        <3> QED
            BY <1>6, <2>7, <3>2 DEF ClaimBatch
    <2>8. CASE CountPending(d) \/ EndPass(d) \/ RequestFails(d)
        BY <1>5, <2>8 DEF CountPending, EndPass, RequestFails, table
    <2>9. CASE GatewayAnswers(d)
        <3>1. PICK ok \in SUBSET worker[d].batch : ledger' = ledger \cup ok
            BY <2>9 DEF GatewayAnswers
        <3>2. row' = row
            BY <2>9 DEF GatewayAnswers, table
        <3>3. ok \in SUBSET D!Promised("open")
            BY <1>3, <3>1
        <3> QED
            BY <3>1, <3>2, <3>3, DeliverySteps
    <2>10. CASE Ack(d)
        <3>1. worker[d].ok \in SUBSET D!Promised("open") /\ worker[d].ok \subseteq ledger
            BY <1>2, <1>3 DEF AnswersMatchBatches
        <3>2. PromiseOf(Acked(worker[d].ok)) = D!Moved(worker[d].ok, "done")
            BY <1>1, <1>4, <3>1, TablesMove
        <3>3. ledger' = ledger
            BY <2>10 DEF Ack
        <3> QED
            BY <1>5, <2>10, <3>1, <3>2, <3>3, DeliverySteps DEF Ack, Write
    <2>11. ASSUME NEW e \in Events, DeadLetterRejected(d, e)
           PROVE  [D!Next]_(D!delivery)
        <3>1. {e} \in SUBSET D!Promised("open")
            BY <1>2, <1>3, <2>11 DEF AnswersMatchBatches, DeadLetterRejected
        <3> QED
            BY <2>2, <2>11, <3>1 DEF DeadLetterRejected
    <2>12. ASSUME NEW e \in Events, RescheduleRejected(d, e)
           PROVE  [D!Next]_(D!delivery)
        <3>1. {e} \in SUBSET D!Promised("open")
            BY <1>2, <1>3, <2>12 DEF AnswersMatchBatches, RescheduleRejected
        <3>2. PICK delay \in 0 .. MaxBackoff : Write(Rescheduled({e}, delay))
            BY <2>12, DelaysFit DEF RescheduleRejected
        <3> QED
            BY <2>3, <2>12, <3>1, <3>2 DEF RescheduleRejected
    <2>13. CASE RescheduleUnmentioned(d)
        <3>1. BaseBackoff \in 0 .. MaxBackoff
            BY ConfigIsValid
        <3> QED
            BY <1>3, <2>3, <2>13, <3>1 DEF RescheduleUnmentioned
    <2>14. CASE RescheduleBatch(d)
        <3> DEFINE S == worker[d].batch \ Exhausted(d)
        <3>1. S \in SUBSET D!Promised("open")
            BY <1>3
        <3>2. PICK delay \in 0 .. MaxBackoff : Write(Rescheduled(S, delay))
            BY <2>14, DelaysFit DEF RescheduleBatch
        <3> HIDE DEF S
        <3> QED
            BY <2>3, <2>14, <3>1, <3>2 DEF RescheduleBatch
    <2>15. CASE ParkBatch(d)
        BY <1>3, <2>2, <2>15 DEF ParkBatch
    <2> QED
        BY <1>8, <2>4, <2>5, <2>6, <2>7, <2>8, <2>9, <2>10, <2>11, <2>12, <2>13, <2>14, <2>15
           DEF DrainStep
<1>9. ASSUME NEW d \in Drains, Kill(d)
      PROVE  [D!Next]_(D!delivery)
    BY <1>5, <1>9 DEF Kill, table
<1>10. CASE Tick
    <2>1. PromiseOf(Aged) = PromiseOf(row)
        BY <1>1, <1>4, TablesMove
    <2> QED
        BY <1>6, <1>10, <2>1 DEF Tick
<1>11. CASE UNCHANGED vars
    BY <1>5, <1>11 DEF vars
<1> QED
    BY <1>7, <1>8, <1>9, <1>10, <1>11 DEF Next

\* The first state keeps every promise: nothing is claimed, nothing taken.
LEMMA InitPrompt == Init => PromptInv /\ D!Init
<1> SUFFICES ASSUME Init PROVE PromptInv /\ D!Init
    OBVIOUS
<1>1. PromptInv
    BY DEF Init, PromptInv, HeldRowsAreInflight, HeldRowsAreFresh, ClaimsAreExclusive, Idle
<1>2. \A e \in Events : row[e].status = "absent" /\ row \in [Events -> Row]
    BY InitSafe DEF Init, SpoolInit, NoRow, SafetyInv, TypeOK, SpoolTypeOK
<1>3. \A e \in Events : PromiseOf(row)[e] = "none"
    BY <1>2, PromiseMeans
<1>4. PromiseOf(row) = [e \in Events |-> "none"]
    BY <1>3, PromiseIsFunction
<1> QED
    BY <1>1, <1>4 DEF Init, D!Init

\* While uploads are prompt, no two drains ever hold the same row, and a held
\* row stays inflight until its holder settles it.
THEOREM PromptClaims == ASSUME Prompt PROVE Spec => [](SafetyInv /\ PromptInv)
<1>1. Init => SafetyInv /\ PromptInv
    BY InitSafe, InitPrompt
<1>2. SafetyInv /\ PromptInv /\ [Next]_vars => (SafetyInv /\ PromptInv)'
    BY TypeStep, AnswersStep, StoredStep, PromptStep DEF SafetyInv
<1> QED
    BY <1>1, <1>2, PTL DEF Spec

\* claim_batch hands a row to one drain at a time.
THEOREM ExclusiveClaims == ASSUME Prompt PROVE Spec => []ClaimsAreExclusive
<1>1. PromptInv => ClaimsAreExclusive
    BY DEF PromptInv
<1> QED
    BY <1>1, PromptClaims, PTL

\* While uploads are prompt, the drains keep the promise stated in Delivery.
THEOREM DrainKeepsThePromise == ASSUME Prompt PROVE Spec => KeepsThePromise
<1>1. Init => D!Init
    BY InitPrompt
<1>2. SafetyInv /\ PromptInv /\ SafetyInv' /\ [Next]_vars => [D!Next]_(D!delivery)
    BY PromiseStep
<1> QED
    BY <1>1, <1>2, PromptClaims, PTL DEF Spec, KeepsThePromise, D!Spec

\* A step of Delivery leaves what is parked parked.
LEMMA ParkedStays ==
    ASSUME [D!Next]_(D!delivery), NEW e \in Events, PromiseOf(row)[e] = "parked"
    PROVE  PromiseOf(row')[e] = "parked"
<1>1. e \notin D!Promised("open") /\ e \notin D!Promised("done")
    BY DEF D!Promised
<1> QED
    BY <1>1 DEF D!Next, D!delivery, D!Take, D!Store, D!Confirm, D!Park, D!Forget, D!Moved

\* While uploads are prompt, a dead letter is final.
THEOREM DeadLettersAreFinal == ASSUME Prompt PROVE Spec => DeadLetterIsTerminal
<1>1. SafetyInv /\ PromptInv /\ SafetyInv' /\ [Next]_vars
        => [\A e \in Events :
              row[e].status = "dead_letter" => row'[e].status = "dead_letter"]_vars
    <2> SUFFICES ASSUME SafetyInv, PromptInv, SafetyInv', [Next]_vars,
                        NEW e \in Events, row[e].status = "dead_letter"
                 PROVE  row'[e].status = "dead_letter"
        OBVIOUS
    <2>1. row \in [Events -> Row] /\ row' \in [Events -> Row]
        BY DEF SafetyInv, TypeOK, SpoolTypeOK
    <2>2. PromiseOf(row')[e] = "parked"
        BY <2>1, PromiseStep, PromiseMeans, ParkedStays
    <2> QED
        BY <2>1, <2>2, PromiseMeans
<1> QED
    BY <1>1, PromptClaims, PTL DEF Spec, DeadLetterIsTerminal

====

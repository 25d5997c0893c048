------------------------------- MODULE Spool -------------------------------
(***************************************************************************)
(* The bridge's durable spool: one SQLite table whose rows are events on   *)
(* their way to the gateway (bridge/src/spool.rs).                         *)
(*                                                                         *)
(* Every public method of the Rust type opens a connection of its own and  *)
(* runs one transaction, so a method is one operator here: it gives the    *)
(* table after the transaction as a function of the table before it.  Who  *)
(* calls which method when is the business of the module Drain.            *)
(*                                                                         *)
(* Wall-clock columns are kept as distances from the present, which is     *)
(* what every query of the module compares: `wait` is next_retry_at - now  *)
(* (0 when due), `held` is now - inflight_at, `age` is now - created_at.   *)
(* The distances saturate at the thresholds they are compared with.        *)
(***************************************************************************)
EXTENDS Naturals, FiniteSets

CONSTANTS
    Events,       \* the event ids that may be captured
    BatchSize,    \* config.batch_size
    MaxAttempts,  \* config.max_attempts
    BaseBackoff,  \* config.base_backoff_seconds
    MaxBackoff,   \* config.max_backoff_seconds
    StaleAfter,   \* the 120 s drain_once passes to reclaim_stale_inflight
    Retention,    \* config.spool_retention_days
    MaxPending    \* config.max_pending_events; 0 switches the cap off

\* What BridgeConfig::validate refuses to run without.
ASSUME ConfigIsValid ==
    /\ BatchSize \in Nat \ {0}
    /\ MaxAttempts \in Nat \ {0}
    /\ BaseBackoff \in Nat \ {0}
    /\ MaxBackoff \in Nat /\ BaseBackoff <= MaxBackoff
    /\ StaleAfter \in Nat \ {0}
    /\ Retention \in Nat
    /\ MaxPending \in Nat

ASSUME EventsAreFinite == IsFiniteSet(Events)

VARIABLES
    row,    \* event id -> its row; status "absent" when there is none
    older   \* <<f, e>>: f's row precedes e's in ORDER BY created_at, rowid

table == <<row, older>>

Status == {"absent", "pending", "inflight", "acked", "dead_letter"}

Row == [status : Status,
        attempts : 0 .. MaxAttempts,   \* saturates: only >= max_attempts matters
        wait : 0 .. MaxBackoff,
        held : 0 .. StaleAfter,
        age : 0 .. Retention]

NoRow == [status |-> "absent", attempts |-> 0, wait |-> 0, held |-> 0, age |-> 0]

SpoolTypeOK ==
    /\ row \in [Events -> Row]
    /\ older \subseteq Events \X Events

SpoolInit ==
    /\ row = [e \in Events |-> NoRow]
    /\ older = {}

Smaller(a, b) == IF a <= b THEN a ELSE b
Having(status) == {e \in Events : row[e].status = status}
Spooled == {e \in Events : row[e].status # "absent"}

-----------------------------------------------------------------------------
(* Capture *)

\* Seeded fault: INSERT OR REPLACE.
EnqueueOver(e) ==
    /\ row' = [row EXCEPT ![e] = [NoRow EXCEPT !.status = "pending"]]
    /\ older' = IF e \in Spooled THEN older ELSE older \cup (Spooled \X {e})

\* insert_event: an id that has a row in whatever status is a Duplicate.
EnqueueRow(e) ==
    IF e \in Spooled
    THEN UNCHANGED table
    ELSE /\ row' = [row EXCEPT ![e] = [NoRow EXCEPT !.status = "pending"]]
         /\ older' = older \cup (Spooled \X {e})

-----------------------------------------------------------------------------
(* The drain path *)

\* Seeded fault: parked rows are claimed again.
DueOrParked == {e \in Having("pending") \cup Having("dead_letter") : row[e].wait = 0}
Due == {e \in Having("pending") : row[e].wait = 0}

\* The first n of S in the order created_at, rowid.
Oldest(n, S) == {e \in S : Cardinality({f \in S : <<f, e>> \in older}) < n}

\* claim_batch selects the oldest due rows; the claim bumps their attempts.
Claimable == Oldest(BatchSize, Due)

Claimed(S) ==
    [e \in Events |->
        IF e \in S
        THEN [row[e] EXCEPT !.status = "inflight",
                            !.attempts = Smaller(row[e].attempts + 1, MaxAttempts),
                            !.held = 0]
        ELSE row[e]]

\* The three updates below name rows by id and do not look at the status.
Acked(S) ==
    [e \in Events |->
        IF e \in S \cap Spooled
        THEN [row[e] EXCEPT !.status = "acked", !.held = 0]
        ELSE row[e]]

Rescheduled(S, delay) ==
    [e \in Events |->
        IF e \in S \cap Spooled
        THEN [row[e] EXCEPT !.status = "pending", !.wait = delay, !.held = 0]
        ELSE row[e]]

DeadLettered(S) ==
    [e \in Events |->
        IF e \in S \cap Spooled
        THEN [row[e] EXCEPT !.status = "dead_letter", !.held = 0]
        ELSE row[e]]

\* Seeded fault: the age of a claim is not compared.
StaleAtOnce == Having("inflight")
Stale == {e \in Having("inflight") : row[e].held >= StaleAfter}

\* Seeded fault: nothing is reclaimed.
NotReclaimed == row

\* reclaim_stale_inflight leaves next_retry_at alone: the row was due when it
\* was claimed, so it is due again.
Reclaimed ==
    [e \in Events |->
        IF e \in Stale
        THEN [row[e] EXCEPT !.status = "pending", !.held = 0]
        ELSE row[e]]

-----------------------------------------------------------------------------
(* Bounds *)

\* Seeded fault: rows of every status are pruned.
ExpiredAny == IF Retention = 0 THEN {}
              ELSE {e \in Spooled : row[e].age >= Retention}

\* prune_acked: retention 0 keeps everything.
Expired == IF Retention = 0 THEN {}
           ELSE {e \in Having("acked") : row[e].age >= Retention}

PruneRows ==
    LET gone == Expired IN
    /\ row' = [e \in Events |-> IF e \in gone THEN NoRow ELSE row[e]]
    /\ older' = {p \in older : p[1] \notin gone /\ p[2] \notin gone}

\* enforce_pending_cap counts first ...
Excess == LET pending == Cardinality(Having("pending")) IN
          IF MaxPending = 0 \/ pending <= MaxPending THEN 0 ELSE pending - MaxPending

\* ... and then, in a statement of its own, parks the oldest n pending rows.
ParkedOldest(n) ==
    [e \in Events |->
        IF e \in Oldest(n, Having("pending"))
        THEN [row[e] EXCEPT !.status = "dead_letter"]
        ELSE row[e]]

-----------------------------------------------------------------------------
(* config.rs: the delays backoff_seconds can give for the k-th attempt.     *)
(* The jitter is a hash of the event id, so any delay of the range is met.  *)

BackoffDelays(k) ==
    LET base == Smaller(BaseBackoff * 2 ^ Smaller(k - 1, 20), MaxBackoff) IN
    IF base <= 1 THEN {1} ELSE {d \in 1 .. MaxBackoff : base \div 2 <= d /\ d < base}

\* One unit of wall-clock time.
Later(r) ==
    [r EXCEPT !.wait = IF r.wait = 0 THEN 0 ELSE r.wait - 1,
              !.held = IF r.status = "inflight" THEN Smaller(r.held + 1, StaleAfter) ELSE 0,
              !.age = IF r.status = "absent" THEN 0 ELSE Smaller(r.age + 1, Retention)]

Aged == [e \in Events |-> Later(row[e])]

=============================================================================

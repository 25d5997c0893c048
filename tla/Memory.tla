------------------------------- MODULE Memory -------------------------------
(***************************************************************************)
(* Research memories and the proposals they come from (service.py, the     *)
(* memories and memory_proposals tables of backends.py).                   *)
(*                                                                         *)
(* One SQLite file may be served by several processes: the gateway with    *)
(* its web UI, and the stdio servers agents start for themselves.  Each    *)
(* keeps proposals it has met in a dictionary and trusts the dictionary    *)
(* before the table.  A caller is a thread of control of a process that    *)
(* serves one call after the other; every transaction of a call is a step. *)
(* A process may die between any two, and starts again with an empty       *)
(* dictionary.                                                             *)
(*                                                                         *)
(* Left out: what a memory says, redaction and validation, the versions of *)
(* a proposal (it has one), search, and audit events other than that of a  *)
(* confirmed save.  User confirmation is required, as config.py has it.    *)
(***************************************************************************)
EXTENDS Naturals

CONSTANTS
    Memories, Proposals,
    Ambient,    \* memories that say the value of one and the same semantic slot
    Callers, Processes, NoOne,
    Homes,      \* which callers there are, and in which process, NoOne if absent
    MaxCalls,   \* bound on the calls of a behaviour
    MaxCrashes  \* bound on the crashes of a behaviour

ASSUME MemoryAssumption ==
    /\ Ambient \subseteq Memories
    /\ NoOne \notin Memories \cup Proposals \cup Processes
    /\ Homes \subseteq [Callers -> Processes \cup {NoOne}]
    /\ MaxCalls \in Nat /\ MaxCrashes \in Nat

VARIABLES
    home,      \* the one of Homes that is the case
    memory,    \* memory id -> its row
    proposal,  \* proposal id -> its row
    audited,   \* proposals whose confirmed save is in the audit trail
    cache,     \* process -> service.proposals: the status of a proposal it keeps
    call,      \* caller -> the call it serves
    stored,    \* memories ever stored (history)
    calls, crashes

tables == <<memory, proposal, audited>>
vars == <<home, tables, cache, call, stored, calls, crashes>>

Lifecycle == {"active", "archived", "deleted"}
MemoryRow == [status : Lifecycle \cup {"absent"},
              into : Memories \cup {NoOne}]  \* merged into this memory
NoMemory == [status |-> "absent", into |-> NoOne]

Saveable == {"pending", "approved"}
Terminal == {"saved", "rejected", "expired"}
Status == Saveable \cup Terminal \cup {"needs_edit"}

ProposalRow == [status : Status \cup {"none"}, memory : Memories \cup {NoOne},
                reviewed : BOOLEAN]  \* it was queued for review
NoProposal == [status |-> "none", memory |-> NoOne, reviewed |-> FALSE]

CallState == [op : {"none", "proposed", "direct", "ambient", "merge", "decide", "change"},
              pc : {"idle", "store", "mark", "audit", "decide", "refresh",
                    "supersede", "merging", "write", "delete"},
              proposal : Proposals \cup {NoOne},
              status : Status \cup {"none"},
              memory : Memories \cup {NoOne},
              rows : [Memories -> MemoryRow],  \* what it read and will write back
              todo : SUBSET Memories]    \* memories still to supersede
NoRows == [m \in Memories |-> NoMemory]
Idle == [op |-> "none", pc |-> "idle", proposal |-> NoOne, status |-> "none",
         memory |-> NoOne, rows |-> NoRows, todo |-> {}]

TypeOK ==
    /\ home \in Homes
    /\ memory \in [Memories -> MemoryRow]
    /\ proposal \in [Proposals -> ProposalRow]
    /\ audited \subseteq Proposals
    /\ cache \in [Processes -> [Proposals -> Status \cup {"none"}]]
    /\ call \in [Callers -> CallState]
    /\ stored \subseteq Memories
    /\ calls \in 0 .. MaxCalls /\ crashes \in 0 .. MaxCrashes

Init ==
    /\ home \in Homes
    /\ memory = [m \in Memories |-> NoMemory]
    /\ proposal = [p \in Proposals |-> NoProposal]
    /\ audited = {} /\ stored = {}
    /\ cache = [q \in Processes |-> [p \in Proposals |-> "none"]]
    /\ call = [c \in Callers |-> Idle]
    /\ calls = 0 /\ crashes = 0

At(c, pc) == call[c].pc = pc
Does(c, state) == call' = [call EXCEPT ![c] = state]
Goes(c, pc) == Does(c, [call[c] EXCEPT !.pc = pc])
Remembers(c, p, status) == cache' = [cache EXCEPT ![home[c]][p] = status]

\* A caller takes the next call.
Begins(c) == home[c] # NoOne /\ At(c, "idle") /\ calls < MaxCalls /\ calls' = calls + 1

-----------------------------------------------------------------------------
(* Proposals *)

\* _get_proposal: the dictionary first.
Seen(c, p) == LET kept == cache[home[c]][p] IN
              IF kept # "none" THEN kept ELSE proposal[p].status

\* Seeded fault: decided proposals are decided again.
MayBecomeAny(old, new) == old # "none" /\ new \in Status \ {"saved", old}

\* PROPOSAL_STATUS_TRANSITIONS; nothing leads to "saved" or out of Terminal.
MayBecome(old, new) ==
    /\ old \in Saveable \cup {"needs_edit"}
    /\ new \in Status \ {"saved", old}

\* propose_save
ProposeSave(c, p, m) ==
    /\ Begins(c) /\ proposal[p] = NoProposal
    /\ proposal' = [proposal EXCEPT ![p] =
            [status |-> "pending", memory |-> m, reviewed |-> TRUE]]
    /\ Remembers(c, p, "pending")
    /\ UNCHANGED <<home, memory, audited, call, stored, crashes>>

\* Seeded fault: the proposal is marked before its memory is stored.
SaveMarkingFirst(c, p) ==
    /\ Begins(c) /\ Seen(c, p) \in Saveable
    /\ proposal' = [proposal EXCEPT ![p].status = "saved"]
    /\ Does(c, [Idle EXCEPT !.op = "proposed", !.pc = "store",
                            !.proposal = p, !.memory = proposal[p].memory])
    /\ UNCHANGED <<home, memory, audited, cache, stored, crashes>>

\* save_research_memory of a proposal: it is looked up and judged ...
SaveProposal(c, p) ==
    /\ Begins(c) /\ Seen(c, p) \in Saveable
    /\ Does(c, [Idle EXCEPT !.op = "proposed", !.pc = "store",
                            !.proposal = p, !.memory = proposal[p].memory])
    /\ UNCHANGED <<home, tables, cache, stored, crashes>>

\* ... or of a memory: a proposal is made of it, saved from the start.
SaveDirect(c, p, m) ==
    /\ Begins(c) /\ proposal[p] = NoProposal
    /\ proposal' = [proposal EXCEPT ![p] =
            [status |-> "saved", memory |-> m, reviewed |-> FALSE]]
    /\ Remembers(c, p, "saved")
    /\ Does(c, [Idle EXCEPT !.op = "direct", !.pc = "store", !.proposal = p, !.memory = m])
    /\ UNCHANGED <<home, memory, audited, stored, crashes>>

\* backend.save, an upsert, and what is left to do behind it.
Store(c) ==
    LET m == call[c].memory IN
    /\ At(c, "store")
    /\ memory' = [memory EXCEPT ![m] = [status |-> "active", into |-> NoOne]]
    /\ stored' = stored \cup {m}
    /\ \/ call[c].op \in {"proposed", "direct"} /\ Goes(c, "mark")
       \/ call[c].op = "merge" /\ Goes(c, "merging")
       \/ call[c].op = "ambient" /\ Does(c, Idle)
    /\ UNCHANGED <<home, proposal, audited, cache, calls, crashes>>

\* _mark_proposal_saved: the dictionary's copy, then the row, whatever its
\* status is by now.
MarkSaved(c) ==
    LET p == call[c].proposal IN
    /\ At(c, "mark")
    /\ proposal' = [proposal EXCEPT ![p].status = "saved"]
    /\ Remembers(c, p, IF cache[home[c]][p] = "none" THEN "none" ELSE "saved")
    /\ Goes(c, "audit")
    /\ UNCHANGED <<home, memory, audited, stored, calls, crashes>>

\* The audit event; the dictionary lets go of what was saved from the queue.
Audit(c) ==
    LET p == call[c].proposal IN
    /\ At(c, "audit")
    /\ audited' = audited \cup {p}
    /\ IF call[c].op = "proposed" THEN Remembers(c, p, "none") ELSE UNCHANGED cache
    /\ Does(c, Idle)
    /\ UNCHANGED <<home, memory, proposal, stored, calls, crashes>>

\* update_memory_proposal_status: judge the transition ...
DecideProposal(c, p, status) ==
    /\ Begins(c) /\ MayBecome(Seen(c, p), status)
    /\ Does(c, [Idle EXCEPT !.op = "decide", !.pc = "decide",
                            !.proposal = p, !.status = status])
    /\ UNCHANGED <<home, tables, cache, stored, crashes>>

\* ... write it over whatever the row has ...
RecordDecision(c) ==
    /\ At(c, "decide")
    /\ proposal' = [proposal EXCEPT ![call[c].proposal].status = call[c].status]
    /\ Goes(c, "refresh")
    /\ UNCHANGED <<home, memory, audited, cache, stored, calls, crashes>>

\* ... and keep what the table then says.
RefreshCopy(c) ==
    /\ At(c, "refresh")
    /\ Remembers(c, call[c].proposal, proposal[call[c].proposal].status)
    /\ Does(c, Idle)
    /\ UNCHANGED <<home, tables, stored, calls, crashes>>

-----------------------------------------------------------------------------
(* Memories *)

Present(m) == memory[m].status # "absent"

\* update_research_memory, archive, restore, soft delete, mark_memory_status:
\* the row is read, and written back with a status.
ChangeMemory(c, m, status) ==
    /\ Begins(c) /\ Present(m)
    /\ Does(c, [Idle EXCEPT !.op = "change", !.pc = "write", !.memory = m,
                            !.rows[m] = [memory[m] EXCEPT !.status = status]])
    /\ UNCHANGED <<home, tables, cache, stored, crashes>>

\* hard_delete_memory: only what is in the bin.
HardDelete(c, m) ==
    /\ Begins(c) /\ memory[m].status = "deleted"
    /\ Does(c, [Idle EXCEPT !.op = "change", !.pc = "delete", !.memory = m])
    /\ UNCHANGED <<home, tables, cache, stored, crashes>>

Delete(c) ==
    /\ At(c, "delete")
    /\ memory' = [memory EXCEPT ![call[c].memory] = NoMemory]
    /\ Does(c, Idle)
    /\ UNCHANGED <<home, proposal, audited, cache, stored, calls, crashes>>

\* delete_research_memory, of the admin surface, asks for no status.
DeleteOutright(c, m) ==
    /\ Begins(c)
    /\ memory' = [memory EXCEPT ![m] = NoMemory]
    /\ UNCHANGED <<home, proposal, audited, cache, call, stored, crashes>>

\* Seeded fault: the sources are marked before the merged memory is stored.
MergeMarkingFirst(c, sources, m) ==
    /\ Begins(c) /\ sources # {} /\ \A x \in sources : Present(x)
    /\ Does(c, [Idle EXCEPT !.op = "merge", !.pc = "merging", !.memory = m, !.todo = sources])
    /\ UNCHANGED <<home, tables, cache, stored, crashes>>

\* merge_research_memories: the sources are read, the merged memory is stored,
\* then the sources are marked one by one.
Merge(c, sources, m) ==
    /\ Begins(c) /\ sources # {} /\ \A x \in sources : Present(x)
    /\ Does(c, [Idle EXCEPT !.op = "merge", !.pc = "store", !.memory = m, !.todo = sources])
    /\ UNCHANGED <<home, tables, cache, stored, crashes>>

\* A source that is gone ends the call with an error.
ReadSource(c, x) ==
    /\ At(c, "merging") /\ x \in call[c].todo
    /\ Does(c, IF Present(x)
               THEN [call[c] EXCEPT !.pc = "write", !.todo = @ \ {x}, !.memory = x,
                                    !.rows[x] = [memory[x] EXCEPT !.into = call[c].memory]]
               ELSE Idle)
    /\ UNCHANGED <<home, tables, cache, stored, calls, crashes>>

\* backend.save of a row read before: an upsert, of a memory deleted meanwhile
\* too.
Write(c) ==
    LET m == call[c].memory IN
    /\ At(c, "write")
    /\ memory' = [memory EXCEPT ![m] = call[c].rows[m]]
    /\ Does(c, IF call[c].todo = {} THEN Idle
               ELSE [call[c] EXCEPT !.pc = "merging", !.memory = call[c].rows[m].into,
                                    !.rows = NoRows])
    /\ UNCHANGED <<home, proposal, audited, cache, stored, calls, crashes>>

\* Seeded fault: archived values are superseded, active ones are not.
ArchivedValues == {x \in Ambient : memory[x].status = "archived"}

ActiveValues == {x \in Ambient : memory[x].status = "active"}

\* save_ambient_memory of a captured value: the active values of its slot are
\* listed, archived one by one, and then the new one is stored.
CaptureAmbient(c, m) ==
    /\ Begins(c) /\ m \in Ambient \ stored
    /\ Does(c, [Idle EXCEPT !.op = "ambient", !.memory = m, !.todo = ActiveValues,
                            !.rows = [x \in Memories |->
                                IF x \in ActiveValues
                                THEN [memory[x] EXCEPT !.status = "archived"] ELSE NoMemory],
                            !.pc = IF ActiveValues = {} THEN "store" ELSE "supersede"])
    /\ UNCHANGED <<home, tables, cache, stored, crashes>>

Supersede(c, x) ==
    /\ At(c, "supersede") /\ x \in call[c].todo
    /\ memory' = [memory EXCEPT ![x] = call[c].rows[x]]
    /\ Does(c, [call[c] EXCEPT !.todo = @ \ {x},
                               !.pc = IF call[c].todo = {x} THEN "store" ELSE "supersede"])
    /\ UNCHANGED <<home, proposal, audited, cache, stored, calls, crashes>>

Crash(q) ==
    /\ crashes < MaxCrashes /\ crashes' = crashes + 1
    /\ \E c \in Callers : home[c] = q
    /\ call' = [c \in Callers |-> IF home[c] = q THEN Idle ELSE call[c]]
    /\ cache' = [cache EXCEPT ![q] = [p \in Proposals |-> "none"]]
    /\ UNCHANGED <<home, tables, stored, calls>>

Next ==
    \/ \E c \in Callers :
        \/ \E p \in Proposals :
            \/ \E m \in Memories : ProposeSave(c, p, m) \/ SaveDirect(c, p, m)
            \/ SaveProposal(c, p)
            \/ \E status \in Status : DecideProposal(c, p, status)
        \/ Store(c) \/ MarkSaved(c) \/ Audit(c) \/ RecordDecision(c) \/ RefreshCopy(c)
        \/ \E m \in Memories :
            \/ \E status \in Lifecycle : ChangeMemory(c, m, status)
            \/ HardDelete(c, m) \/ DeleteOutright(c, m)
            \/ \E sources \in SUBSET Memories : Merge(c, sources, m)
            \/ CaptureAmbient(c, m) \/ ReadSource(c, m) \/ Supersede(c, m)
        \/ Write(c) \/ Delete(c)
    \/ \E q \in Processes : Crash(q)

Spec == Init /\ [][Next]_vars

-----------------------------------------------------------------------------
(* Properties *)

\* Whatever dies when: a proposal from the queue that is marked saved, and one
\* whose save is in the audit trail, had its memory stored.
SavedWasStored ==
    \A p \in Proposals :
        p \in audited \/ (proposal[p].status = "saved" /\ proposal[p].reviewed)
            => proposal[p].memory \in stored

\* A memory marked as merged into another one is not lost: the other was
\* stored, however far the merge got (merge_research_memories).
MergedWasStored ==
    \A m \in Memories : memory[m].into # NoOne => memory[m].into \in stored

\* What a call carries from one step to the next, against the proposals and
\* the memories ever stored.
Sound(k, proposals, kept) ==
    /\ k.pc \in {"store", "supersede", "write", "delete"} => k.memory \in Memories
    /\ k.pc = "store" /\ k.op \in {"proposed", "direct"} =>
            k.proposal \in Proposals /\ proposals[k.proposal].memory = k.memory
    /\ k.pc \in {"mark", "audit"} =>
            k.proposal \in Proposals /\ proposals[k.proposal].memory \in kept
    /\ k.pc \in {"decide", "refresh"} =>
            k.proposal \in Proposals /\ proposals[k.proposal].memory \in Memories
    /\ k.pc = "supersede" => k.op = "ambient"
    /\ k.pc = "decide" => k.status \in Status \ {"saved"}
    /\ k.pc = "merging" => k.memory \in kept
    /\ \A x \in Memories : k.rows[x].into # NoOne => k.rows[x].into \in kept
    /\ k.pc = "write" /\ k.todo # {} => k.rows[k.memory].into \in kept

CallsAreSound ==
    \A c \in Callers :
        /\ home[c] = NoOne => call[c] = Idle
        /\ Sound(call[c], proposal, stored)

\* A proposal that has a status, in the table or in a dictionary, has a memory.
ProposalsAreFilled ==
    \A p \in Proposals :
        proposal[p].status # "none" \/ (\E q \in Processes : cache[q][p] # "none")
            => proposal[p].memory \in Memories

\* The inductive invariant of MemoryProofs.
MemoryInv ==
    /\ TypeOK /\ CallsAreSound /\ ProposalsAreFilled
    /\ SavedWasStored /\ MergedWasStored

\* One caller is all there is: the gateway, which serves one call at a time.
Only(c) == \A d \in Callers : home[d] # NoOne <=> d = c
Alone == \E c \in Callers : Only(c)

Settled(c) == home[c] = NoOne \/ At(c, "idle")

\* The dictionary never contradicts the table between the calls of a single
\* caller, whichever call was cut short by a crash.
CopiesAgree ==
    Alone /\ (\A c \in Callers : Settled(c)) =>
        \A q \in Processes, p \in Proposals : cache[q][p] \in {"none", proposal[p].status}

\* What makes it so, for MemoryProofs: no other process keeps copies, only the
\* proposal of a decision to be refreshed has a stale one, and what a call was told of a
\* proposal is still true when it writes.
Fresh(c) ==
    LET k == call[c] IN
    /\ \A q \in Processes, p \in Proposals :
            /\ home[c] # q => cache[q][p] = "none"
            /\ k.pc # "refresh" \/ k.proposal # p
                    => cache[q][p] \in {"none", proposal[p].status}
    /\ k.pc = "decide" => proposal[k.proposal].status \notin Terminal
    /\ k.pc \in {"store", "mark"} /\ k.op = "proposed" =>
            proposal[k.proposal].status \in Saveable
    /\ k.pc \in {"store", "mark"} /\ k.op = "direct" => proposal[k.proposal].status = "saved"
    /\ k.pc = "mark" => k.op \in {"proposed", "direct"}
    /\ k.pc = "audit" => proposal[k.proposal].status = "saved"

AloneInv == \A c \in Callers : Only(c) => Fresh(c)

\* tests/test_models.py: "Rejected and expired proposals are terminal", and
\* saved ones are, as long as one caller decides.
DecisionsAreFinalAlone ==
    [][Alone => \A p \in Proposals : proposal[p].status \in Terminal
        => proposal'[p].status = proposal[p].status]_vars

\* docs/schema.md: a newer value of a slot archives the previous one.  Once a
\* single caller has stored the new one, no other value is active, those that
\* were restored and those a crash left behind included.
NewestValueOnly ==
    [][Alone => \A c \in Callers :
        call[c].op = "ambient" /\ memory[call[c].memory].status = "absent"
            /\ memory'[call[c].memory].status = "active"
        => \A m \in Ambient \ {call[c].memory} : memory'[m].status # "active"]_vars

=============================================================================

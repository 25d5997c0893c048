---------------------------- MODULE MemoryProofs ----------------------------
(***************************************************************************)
(* What holds of the memories and proposals of Memory for every number of  *)
(* callers, processes and memories, with any number of calls and crashes.  *)
(*                                                                         *)
(* MemoryInv adds to the two properties what a call carries between its    *)
(* transactions (CallsAreSound): a save that has yet to mark its proposal  *)
(* has stored its memory, a merge that has yet to mark its sources has     *)
(* stored the merged one, also when its row is waiting in a local variable *)
(* of another call that will write it back.                                *)
(* AloneInv and CaptureInv say what a caller that is the only one may rely *)
(* on: what it was told of a proposal is still so, and a captured value is *)
(* stored only when no other value is left to archive.                     *)
(***************************************************************************)
EXTENDS Memory, TLAPS

\* A call stays sound while proposals keep their memories and more is stored.
LEMMA SoundStays ==
    ASSUME NEW k, NEW p, NEW q, NEW s, NEW t, s \subseteq t, s \subseteq Memories,
           \A x \in Proposals : p[x].memory \in Memories => q[x].memory = p[x].memory,
           Sound(k, p, s)
    PROVE  Sound(k, q, t)
BY DEF Sound

\* An idle call carries nothing.
LEMMA IdleIsSound ==
    ASSUME NEW p, NEW s
    PROVE  Idle \in CallState /\ Sound(Idle, p, s)
BY MemoryAssumption DEF Idle, CallState, Sound, NoRows, NoMemory, MemoryRow, Status

\* A process that serves a call is there.
LEMMA BusyIsHome ==
    ASSUME MemoryInv, NEW c \in Callers, call[c].pc # "idle"
    PROVE  home[c] # NoOne
BY DEF MemoryInv, CallsAreSound, Idle

\* The other calls stay sound when one goes on, soundly.
LEMMA CallGoesOn ==
    ASSUME MemoryInv, NEW c \in Callers, NEW state \in CallState, home[c] # NoOne,
           home' = home, Does(c, state), stored \subseteq stored',
           \A x \in Proposals :
                proposal[x].memory \in Memories => proposal'[x].memory = proposal[x].memory,
           Sound(state, proposal', stored')
    PROVE  call' \in [Callers -> CallState] /\ CallsAreSound'
<1>1. call' \in [Callers -> CallState]
    BY DEF Does, MemoryInv, TypeOK
<1>2. ASSUME NEW d \in Callers
      PROVE  (home'[d] = NoOne => call'[d] = Idle) /\ Sound(call'[d], proposal', stored')
    <2>1. CASE d = c
        BY <2>1 DEF Does, MemoryInv, TypeOK
    <2>2. CASE d # c
        <3>1. call'[d] = call[d]
            BY <2>2 DEF Does, MemoryInv, TypeOK
        <3>2. Sound(call[d], proposal, stored) /\ (home[d] = NoOne => call[d] = Idle)
            BY DEF MemoryInv, CallsAreSound
        <3>3. stored \subseteq Memories
            BY DEF MemoryInv, TypeOK
        <3>4. Sound(call[d], proposal', stored')
            BY <3>2, <3>3, SoundStays
        <3> QED BY <3>1, <3>2, <3>4
    <2> QED BY <2>1, <2>2
<1> QED BY <1>1, <1>2 DEF CallsAreSound

\* Steps that only take a call on.
LEMMA OnlyTheCall ==
    ASSUME MemoryInv, NEW c \in Callers, NEW state \in CallState, home[c] # NoOne,
           Does(c, state), Sound(state, proposal, stored),
           UNCHANGED <<home, tables, cache, stored>>,
           calls' \in 0 .. MaxCalls, crashes' \in 0 .. MaxCrashes
    PROVE  MemoryInv'
<1>1. call' \in [Callers -> CallState] /\ CallsAreSound'
    BY CallGoesOn DEF tables
<1> QED BY <1>1 DEF MemoryInv, TypeOK, ProposalsAreFilled, SavedWasStored, MergedWasStored, tables

\* Steps that write the row of a memory.
LEMMA OneMemory ==
    ASSUME MemoryInv, NEW c \in Callers, NEW state \in CallState, home[c] # NoOne,
           Does(c, state), Sound(state, proposal, stored'),
           NEW m \in Memories, NEW row \in MemoryRow,
           memory' = [memory EXCEPT ![m] = row],
           stored \subseteq stored', stored' \subseteq Memories,
           row.into # NoOne => row.into \in stored',
           UNCHANGED <<home, proposal, audited, cache>>,
           calls' \in 0 .. MaxCalls, crashes' \in 0 .. MaxCrashes
    PROVE  MemoryInv'
<1>1. call' \in [Callers -> CallState] /\ CallsAreSound'
    BY CallGoesOn
<1>2. TypeOK'
    BY <1>1 DEF MemoryInv, TypeOK
<1>3. ProposalsAreFilled' /\ SavedWasStored'
    BY DEF MemoryInv, ProposalsAreFilled, SavedWasStored
<1>4. MergedWasStored'
    BY DEF MemoryInv, TypeOK, MergedWasStored
<1> QED BY <1>1, <1>2, <1>3, <1>4 DEF MemoryInv

\* Steps that write the row of a proposal that keeps the memory it has, and the
\* dictionary's copy.
LEMMA OneProposal ==
    ASSUME MemoryInv, NEW c \in Callers, NEW state \in CallState, home[c] # NoOne,
           Does(c, state), Sound(state, proposal', stored),
           NEW p \in Proposals, NEW row \in ProposalRow, NEW status \in Status \cup {"none"},
           proposal' = [proposal EXCEPT ![p] = row],
           cache' = cache \/ Remembers(c, p, status),
           row.memory \in Memories,
           proposal[p].memory \in Memories => row.memory = proposal[p].memory,
           p \in audited \/ (row.status = "saved" /\ row.reviewed) => row.memory \in stored,
           UNCHANGED <<home, memory, audited, stored>>,
           calls' \in 0 .. MaxCalls, crashes' \in 0 .. MaxCrashes
    PROVE  MemoryInv'
<1>1. \A x \in Proposals :
            proposal[x].memory \in Memories => proposal'[x].memory = proposal[x].memory
    BY DEF MemoryInv, TypeOK
<1>2. call' \in [Callers -> CallState] /\ CallsAreSound'
    BY <1>1, CallGoesOn
<1>3. home[c] \in Processes
    BY MemoryAssumption DEF MemoryInv, TypeOK
<1>4. cache' \in [Processes -> [Proposals -> Status \cup {"none"}]]
    BY <1>3 DEF Remembers, MemoryInv, TypeOK
<1>5. TypeOK'
    BY <1>2, <1>4 DEF MemoryInv, TypeOK
<1>6. ProposalsAreFilled'
    <2>1. ASSUME NEW x \in Proposals,
                 proposal'[x].status # "none" \/ (\E q \in Processes : cache'[q][x] # "none")
          PROVE  proposal'[x].memory \in Memories
        <3>1. CASE x = p
            BY <3>1 DEF MemoryInv, TypeOK
        <3>2. CASE x # p
            <4>1. proposal'[x] = proposal[x]
                BY <3>2 DEF MemoryInv, TypeOK
            <4>2. \A q \in Processes : cache'[q][x] = cache[q][x]
                BY <3>2, <1>3 DEF Remembers, MemoryInv, TypeOK
            <4> QED BY <4>1, <4>2, <2>1 DEF MemoryInv, ProposalsAreFilled
        <3> QED BY <3>1, <3>2
    <2> QED BY <2>1 DEF ProposalsAreFilled
<1>7. SavedWasStored'
    BY DEF MemoryInv, TypeOK, SavedWasStored
<1>8. MergedWasStored'
    BY DEF MemoryInv, MergedWasStored
<1> QED BY <1>2, <1>5, <1>6, <1>7, <1>8 DEF MemoryInv

-----------------------------------------------------------------------------
(* The initial states, and each action *)

\* Nothing is saved, merged or under way at first.
LEMMA InitiallySound == Init => MemoryInv
<1> SUFFICES ASSUME Init PROVE MemoryInv
    OBVIOUS
<1>1. TypeOK
    <2>1. Idle \in CallState
        BY IdleIsSound
    <2>2. NoMemory \in MemoryRow /\ NoProposal \in ProposalRow
        BY DEF MemoryRow, NoMemory, ProposalRow, NoProposal
    <2>3. calls \in 0 .. MaxCalls /\ crashes \in 0 .. MaxCrashes
        BY MemoryAssumption DEF Init
    <2> QED BY <2>1, <2>2, <2>3 DEF Init, TypeOK
<1>2. CallsAreSound
    BY IdleIsSound DEF Init, CallsAreSound
<1> QED
    BY <1>1, <1>2
    DEF Init, MemoryInv, ProposalsAreFilled, SavedWasStored, MergedWasStored,
        NoProposal, NoMemory

\* A proposal gets a memory once, before it can be saved or audited.
LEMMA ProposeSaveKeeps ==
    ASSUME MemoryInv, NEW c \in Callers, NEW p \in Proposals, NEW m \in Memories,
           ProposeSave(c, p, m)
    PROVE  MemoryInv'
<1> DEFINE row == [status |-> "pending", memory |-> m, reviewed |-> TRUE]
<1>1. row \in ProposalRow /\ row.status # "saved" /\ row.memory = m
    BY DEF ProposalRow, Status, Saveable
<1>2. proposal[p].memory \notin Memories /\ p \notin audited
    BY MemoryAssumption
    DEF ProposeSave, NoProposal, MemoryInv, SavedWasStored, TypeOK
<1>3. Does(c, call[c])
    BY DEF ProposeSave, Does, MemoryInv, TypeOK
<1>4. Sound(call[c], proposal', stored)
    <2>1. \A x \in Proposals :
            proposal[x].memory \in Memories => proposal'[x].memory = proposal[x].memory
        BY <1>2 DEF ProposeSave, MemoryInv, TypeOK
    <2>2. Sound(call[c], proposal, stored) /\ stored \subseteq Memories
        BY DEF MemoryInv, CallsAreSound, TypeOK
    <2> QED BY <2>1, <2>2, SoundStays
<1>5. call[c] \in CallState /\ home[c] # NoOne /\ "pending" \in Status
    BY DEF ProposeSave, Begins, MemoryInv, TypeOK, Status, Saveable
<1>6. calls' \in 0 .. MaxCalls /\ crashes' \in 0 .. MaxCrashes
    BY MemoryAssumption DEF ProposeSave, Begins, MemoryInv, TypeOK
<1>7. proposal' = [proposal EXCEPT ![p] = row] /\ Remembers(c, p, "pending")
        /\ UNCHANGED <<home, memory, audited, stored>>
    BY DEF ProposeSave
<1> HIDE DEF row
<1> QED BY <1>1, <1>2, <1>3, <1>4, <1>5, <1>6, <1>7, OneProposal

\* What is saved directly was not from the queue, and is stored before its save
\* is audited.
LEMMA SaveDirectKeeps ==
    ASSUME MemoryInv, NEW c \in Callers, NEW p \in Proposals, NEW m \in Memories,
           SaveDirect(c, p, m)
    PROVE  MemoryInv'
<1> DEFINE row == [status |-> "saved", memory |-> m, reviewed |-> FALSE]
           state == [Idle EXCEPT !.op = "direct", !.pc = "store", !.proposal = p, !.memory = m]
<1>1. row \in ProposalRow /\ row.reviewed = FALSE /\ row.memory = m
    BY DEF ProposalRow, Status, Terminal
<1>2. proposal[p].memory \notin Memories /\ p \notin audited
    BY MemoryAssumption
    DEF SaveDirect, NoProposal, MemoryInv, SavedWasStored, TypeOK
<1>3. Does(c, state) /\ home[c] # NoOne /\ "saved" \in Status
    BY DEF SaveDirect, Begins, Status, Terminal
<1>4. proposal' = [proposal EXCEPT ![p] = row] /\ Remembers(c, p, "saved")
        /\ UNCHANGED <<home, memory, audited, stored>>
    BY DEF SaveDirect
<1>5. proposal'[p].memory = m
    BY <1>4 DEF MemoryInv, TypeOK
<1>6. state \in CallState
    BY IdleIsSound DEF CallState, Idle
<1>7. Sound(state, proposal', stored)
    BY <1>5, IdleIsSound DEF Sound, Idle, NoRows, NoMemory
<1>8. calls' \in 0 .. MaxCalls /\ crashes' \in 0 .. MaxCrashes
    BY MemoryAssumption DEF SaveDirect, Begins, MemoryInv, TypeOK
<1> HIDE DEF row, state
<1> QED BY <1>1, <1>2, <1>3, <1>4, <1>6, <1>7, <1>8, OneProposal

\* A proposal that is seen to be saveable has a memory to save.
LEMMA SaveProposalKeeps ==
    ASSUME MemoryInv, NEW c \in Callers, NEW p \in Proposals, SaveProposal(c, p)
    PROVE  MemoryInv'
<1> DEFINE state == [Idle EXCEPT !.op = "proposed", !.pc = "store",
                                 !.proposal = p, !.memory = proposal[p].memory]
<1>1. home[c] \in Processes /\ home[c] # NoOne
    BY MemoryAssumption DEF SaveProposal, Begins, MemoryInv, TypeOK
<1>2. proposal[p].memory \in Memories
    BY <1>1 DEF SaveProposal, Seen, Saveable, MemoryInv, ProposalsAreFilled
<1>3. state \in CallState
    BY <1>2, IdleIsSound DEF CallState, Idle
<1>4. Sound(state, proposal, stored)
    BY <1>2, IdleIsSound DEF Sound, Idle, NoRows, NoMemory
<1>5. Does(c, state) /\ UNCHANGED <<home, tables, cache, stored>>
    BY DEF SaveProposal
<1>6. calls' \in 0 .. MaxCalls /\ crashes' \in 0 .. MaxCrashes
    BY MemoryAssumption DEF SaveProposal, Begins, MemoryInv, TypeOK
<1> HIDE DEF state
<1> QED BY <1>1, <1>3, <1>4, <1>5, <1>6, OnlyTheCall

\* What is stored is on record before any proposal or source is marked.
LEMMA StoreKeeps ==
    ASSUME MemoryInv, NEW c \in Callers, Store(c)
    PROVE  MemoryInv'
<1> DEFINE m == call[c].memory
           row == [status |-> "active", into |-> NoOne]
<1>1. call[c] \in CallState /\ Sound(call[c], proposal, stored) /\ home[c] # NoOne
    BY BusyIsHome DEF Store, At, MemoryInv, TypeOK, CallsAreSound
<1>2. m \in Memories
    BY <1>1 DEF Store, At, Sound
<1>3. PICK state : /\ Does(c, state)
                   /\ \/ call[c].op \in {"proposed", "direct"}
                         /\ state = [call[c] EXCEPT !.pc = "mark"]
                      \/ state = [call[c] EXCEPT !.pc = "merging"]
                      \/ state = Idle
    BY DEF Store, Goes
<1>4. state \in CallState
    BY <1>1, <1>3, IdleIsSound DEF CallState
<1>5. stored \subseteq stored' /\ m \in stored' /\ stored' \subseteq Memories
    BY <1>2 DEF Store, MemoryInv, TypeOK
<1>6. Sound(state, proposal, stored')
    <2>1. CASE state = Idle
        BY <2>1, IdleIsSound
    <2>2. CASE state # Idle
        BY <1>1, <1>3, <1>5, <2>2 DEF Sound, Store, At, CallState
    <2> QED BY <2>1, <2>2
<1>7. row \in MemoryRow /\ row.into = NoOne
    BY DEF MemoryRow, Lifecycle
<1>8. memory' = [memory EXCEPT ![m] = row] /\ UNCHANGED <<home, proposal, audited, cache>>
        /\ calls' \in 0 .. MaxCalls /\ crashes' \in 0 .. MaxCrashes
    BY DEF Store, MemoryInv, TypeOK
<1> HIDE DEF m, row
<1> QED BY <1>1, <1>2, <1>3, <1>4, <1>5, <1>6, <1>7, <1>8, OneMemory

\* Whatever was decided meanwhile, the proposal marked is one whose memory is
\* stored.
LEMMA MarkSavedKeeps ==
    ASSUME MemoryInv, NEW c \in Callers, MarkSaved(c)
    PROVE  MemoryInv'
<1> DEFINE p == call[c].proposal
           row == [proposal[p] EXCEPT !.status = "saved"]
           state == [call[c] EXCEPT !.pc = "audit"]
           status == IF cache[home[c]][p] = "none" THEN "none" ELSE "saved"
<1>1. call[c] \in CallState /\ Sound(call[c], proposal, stored) /\ home[c] # NoOne
    BY BusyIsHome DEF MarkSaved, At, MemoryInv, TypeOK, CallsAreSound
<1>2. p \in Proposals /\ proposal[p].memory \in stored /\ stored \subseteq Memories
    BY <1>1 DEF MarkSaved, At, Sound, MemoryInv, TypeOK
<1>3. row \in ProposalRow /\ row.memory = proposal[p].memory
    BY <1>2 DEF MemoryInv, TypeOK, ProposalRow, Status, Terminal
<1>4. proposal' = [proposal EXCEPT ![p] = row]
    BY <1>2 DEF MarkSaved, MemoryInv, TypeOK
<1>5. state \in CallState
    BY <1>1 DEF CallState
<1>6. Sound(state, proposal', stored)
    BY <1>1, <1>2, <1>3, <1>4 DEF Sound, MarkSaved, At, CallState, MemoryInv, TypeOK
<1>7. Does(c, state) /\ status \in Status \cup {"none"} /\ Remembers(c, p, status)
        /\ UNCHANGED <<home, memory, audited, stored>>
        /\ calls' \in 0 .. MaxCalls /\ crashes' \in 0 .. MaxCrashes
    BY DEF MarkSaved, Goes, Status, Terminal, MemoryInv, TypeOK
<1> HIDE DEF p, row, state, status
<1> QED BY <1>1, <1>2, <1>3, <1>4, <1>5, <1>6, <1>7, OneProposal

\* What enters the audit trail is stored.
LEMMA AuditKeeps ==
    ASSUME MemoryInv, NEW c \in Callers, Audit(c)
    PROVE  MemoryInv'
<1> DEFINE p == call[c].proposal
<1>1. Sound(call[c], proposal, stored) /\ home[c] # NoOne
    BY BusyIsHome DEF Audit, At, MemoryInv, TypeOK, CallsAreSound
<1>2. p \in Proposals /\ proposal[p].memory \in stored
    BY <1>1 DEF Audit, At, Sound
<1>3. home[c] \in Processes
    BY <1>1, MemoryAssumption DEF MemoryInv, TypeOK
<1>4. cache' \in [Processes -> [Proposals -> Status \cup {"none"}]]
        /\ \A q \in Processes, x \in Proposals : cache'[q][x] \in {cache[q][x], "none"}
    <2>1. CASE cache' = cache
        BY <2>1 DEF MemoryInv, TypeOK
    <2>2. CASE Remembers(c, p, "none")
        BY <2>2, <1>2, <1>3 DEF Remembers, MemoryInv, TypeOK
    <2> QED BY <2>1, <2>2 DEF Audit
<1>5. call' \in [Callers -> CallState] /\ CallsAreSound'
    BY <1>1, IdleIsSound, CallGoesOn DEF Audit
<1>6. TypeOK'
    BY <1>2, <1>4, <1>5 DEF Audit, MemoryInv, TypeOK
<1>7. ProposalsAreFilled'
    <2>1. ASSUME NEW x \in Proposals,
                 proposal[x].status # "none" \/ (\E q \in Processes : cache'[q][x] # "none")
          PROVE  proposal[x].memory \in Memories
        BY <1>4, <2>1 DEF MemoryInv, ProposalsAreFilled
    <2> QED BY <2>1 DEF Audit, ProposalsAreFilled
<1>8. SavedWasStored' /\ MergedWasStored'
    BY <1>2 DEF Audit, MemoryInv, SavedWasStored, MergedWasStored
<1> QED BY <1>5, <1>6, <1>7, <1>8 DEF MemoryInv

\* A decision is about a proposal that is there, and never says "saved".
LEMMA DecideProposalKeeps ==
    ASSUME MemoryInv, NEW c \in Callers, NEW p \in Proposals, NEW status \in Status,
           DecideProposal(c, p, status)
    PROVE  MemoryInv'
<1> DEFINE state == [Idle EXCEPT !.op = "decide", !.pc = "decide",
                                 !.proposal = p, !.status = status]
<1>1. home[c] \in Processes /\ home[c] # NoOne
    BY MemoryAssumption DEF DecideProposal, Begins, MemoryInv, TypeOK
<1>2. proposal[p].memory \in Memories /\ status # "saved"
    BY <1>1 DEF DecideProposal, MayBecome, Seen, Saveable, MemoryInv, ProposalsAreFilled
<1>3. state \in CallState
    BY IdleIsSound DEF CallState, Idle
<1>4. Sound(state, proposal, stored)
    BY <1>2, IdleIsSound DEF Sound, Idle, NoRows, NoMemory
<1>5. Does(c, state) /\ UNCHANGED <<home, tables, cache, stored>>
    BY DEF DecideProposal
<1>6. calls' \in 0 .. MaxCalls /\ crashes' \in 0 .. MaxCrashes
    BY MemoryAssumption DEF DecideProposal, Begins, MemoryInv, TypeOK
<1> HIDE DEF state
<1> QED BY <1>1, <1>3, <1>4, <1>5, <1>6, OnlyTheCall

\* A decision written late undoes a save but not what was stored.
LEMMA RecordDecisionKeeps ==
    ASSUME MemoryInv, NEW c \in Callers, RecordDecision(c)
    PROVE  MemoryInv'
<1> DEFINE p == call[c].proposal
           row == [proposal[p] EXCEPT !.status = call[c].status]
           state == [call[c] EXCEPT !.pc = "refresh"]
<1>1. call[c] \in CallState /\ Sound(call[c], proposal, stored) /\ home[c] # NoOne
    BY BusyIsHome DEF RecordDecision, At, MemoryInv, TypeOK, CallsAreSound
<1>2. p \in Proposals /\ proposal[p].memory \in Memories /\ call[c].status \in Status \ {"saved"}
    BY <1>1 DEF RecordDecision, At, Sound
<1>3. row \in ProposalRow /\ row.memory = proposal[p].memory /\ row.status # "saved"
    BY <1>2 DEF MemoryInv, TypeOK, ProposalRow
<1>4. proposal' = [proposal EXCEPT ![p] = row]
    BY <1>2 DEF RecordDecision, MemoryInv, TypeOK
<1>5. state \in CallState
    BY <1>1 DEF CallState
<1>6. Sound(state, proposal', stored)
    BY <1>1, <1>2, <1>3, <1>4 DEF Sound, RecordDecision, At, CallState, MemoryInv, TypeOK
<1>7. Does(c, state) /\ UNCHANGED <<home, memory, audited, cache, stored>>
        /\ calls' \in 0 .. MaxCalls /\ crashes' \in 0 .. MaxCrashes
    BY DEF RecordDecision, Goes, MemoryInv, TypeOK
<1>8. p \in audited => row.memory \in stored
    BY <1>2, <1>3 DEF MemoryInv, SavedWasStored
<1>9. "none" \in Status \cup {"none"}
    OBVIOUS
<1> HIDE DEF p, row, state
<1> QED BY <1>1, <1>2, <1>3, <1>4, <1>5, <1>6, <1>7, <1>8, <1>9, OneProposal

\* The dictionary takes its copy of a proposal that is there.
LEMMA RefreshCopyKeeps ==
    ASSUME MemoryInv, NEW c \in Callers, RefreshCopy(c)
    PROVE  MemoryInv'
<1> DEFINE p == call[c].proposal
<1>1. Sound(call[c], proposal, stored) /\ home[c] # NoOne
    BY BusyIsHome DEF RefreshCopy, At, MemoryInv, TypeOK, CallsAreSound
<1>2. p \in Proposals /\ proposal[p].memory \in Memories
    BY <1>1 DEF RefreshCopy, At, Sound
<1>3. proposal' = [proposal EXCEPT ![p] = proposal[p]] /\ proposal[p] \in ProposalRow
    BY <1>2 DEF RefreshCopy, tables, MemoryInv, TypeOK
<1>4. proposal[p].status \in Status \cup {"none"}
    BY <1>3 DEF ProposalRow
<1>5. Idle \in CallState /\ Sound(Idle, proposal', stored)
    BY IdleIsSound
<1>6. Does(c, Idle) /\ Remembers(c, p, proposal[p].status)
        /\ UNCHANGED <<home, memory, audited, stored>>
        /\ calls' \in 0 .. MaxCalls /\ crashes' \in 0 .. MaxCrashes
    BY DEF RefreshCopy, tables, MemoryInv, TypeOK
<1>7. p \in audited \/ (proposal[p].status = "saved" /\ proposal[p].reviewed)
            => proposal[p].memory \in stored
    BY <1>2 DEF MemoryInv, SavedWasStored
<1> HIDE DEF p
<1> QED BY <1>1, <1>2, <1>3, <1>4, <1>5, <1>6, <1>7, OneProposal

\* A row read and to be written back names only what is stored.
LEMMA ChangeMemoryKeeps ==
    ASSUME MemoryInv, NEW c \in Callers, NEW m \in Memories, NEW status \in Lifecycle,
           ChangeMemory(c, m, status)
    PROVE  MemoryInv'
<1> DEFINE row == [memory[m] EXCEPT !.status = status]
           state == [Idle EXCEPT !.op = "change", !.pc = "write", !.memory = m, !.rows[m] = row]
<1>1. row \in MemoryRow /\ row.into = memory[m].into
    BY DEF MemoryInv, TypeOK, MemoryRow
<1>2. row.into # NoOne => row.into \in stored
    BY <1>1 DEF MemoryInv, MergedWasStored
<1>3. state = [Idle EXCEPT !.op = "change", !.pc = "write", !.memory = m,
                           !.rows = [NoRows EXCEPT ![m] = row]]
    BY DEF Idle
<1>4. NoRows \in [Memories -> MemoryRow] /\ \A x \in Memories : NoRows[x].into = NoOne
    BY DEF NoRows, NoMemory, MemoryRow
<1> HIDE DEF row
<1>5. state \in CallState
    BY <1>1, <1>3, <1>4, IdleIsSound DEF CallState, Idle
<1>6. Sound(state, proposal, stored)
    BY <1>2, <1>3, <1>4 DEF Sound, Idle
<1>7. Does(c, state) /\ UNCHANGED <<home, tables, cache, stored>> /\ home[c] # NoOne
    BY DEF ChangeMemory, Begins, row
<1>8. calls' \in 0 .. MaxCalls /\ crashes' \in 0 .. MaxCrashes
    BY MemoryAssumption DEF ChangeMemory, Begins, MemoryInv, TypeOK
<1> HIDE DEF state
<1> QED BY <1>5, <1>6, <1>7, <1>8, OnlyTheCall

\* A hard delete has the memory it deletes.
LEMMA HardDeleteKeeps ==
    ASSUME MemoryInv, NEW c \in Callers, NEW m \in Memories, HardDelete(c, m)
    PROVE  MemoryInv'
<1> DEFINE state == [Idle EXCEPT !.op = "change", !.pc = "delete", !.memory = m]
<1>1. state \in CallState
    BY IdleIsSound DEF CallState, Idle
<1>2. Sound(state, proposal, stored)
    BY IdleIsSound DEF Sound, Idle, NoRows, NoMemory
<1>3. Does(c, state) /\ UNCHANGED <<home, tables, cache, stored>> /\ home[c] # NoOne
    BY DEF HardDelete, Begins
<1>4. calls' \in 0 .. MaxCalls /\ crashes' \in 0 .. MaxCrashes
    BY MemoryAssumption DEF HardDelete, Begins, MemoryInv, TypeOK
<1> HIDE DEF state
<1> QED BY <1>1, <1>2, <1>3, <1>4, OnlyTheCall

\* A row that is gone is merged into nothing.
LEMMA DeleteKeeps ==
    ASSUME MemoryInv, NEW c \in Callers, Delete(c)
    PROVE  MemoryInv'
<1>1. call[c].memory \in Memories /\ home[c] # NoOne
    BY BusyIsHome DEF Delete, At, MemoryInv, CallsAreSound, Sound
<1>2. Idle \in CallState /\ Sound(Idle, proposal, stored')
    BY IdleIsSound
<1>3. NoMemory \in MemoryRow /\ NoMemory.into = NoOne
    BY DEF NoMemory, MemoryRow
<1>4. stored \subseteq stored' /\ stored' \subseteq Memories
        /\ calls' \in 0 .. MaxCalls /\ crashes' \in 0 .. MaxCrashes
    BY DEF Delete, MemoryInv, TypeOK
<1> QED BY <1>1, <1>2, <1>3, <1>4, OneMemory DEF Delete

\* The same, of the admin surface's delete.
LEMMA DeleteOutrightKeeps ==
    ASSUME MemoryInv, NEW c \in Callers, NEW m \in Memories, DeleteOutright(c, m)
    PROVE  MemoryInv'
<1>1. Does(c, call[c]) /\ call[c] \in CallState /\ home[c] # NoOne
    BY DEF DeleteOutright, Begins, Does, MemoryInv, TypeOK
<1>2. Sound(call[c], proposal, stored')
    BY DEF DeleteOutright, MemoryInv, CallsAreSound
<1>3. NoMemory \in MemoryRow /\ NoMemory.into = NoOne
    BY DEF NoMemory, MemoryRow
<1>4. stored \subseteq stored' /\ stored' \subseteq Memories
        /\ calls' \in 0 .. MaxCalls /\ crashes' \in 0 .. MaxCrashes
    BY MemoryAssumption DEF DeleteOutright, Begins, MemoryInv, TypeOK
<1> QED BY <1>1, <1>2, <1>3, <1>4, OneMemory DEF DeleteOutright

\* A merge has the memory it stores first.
LEMMA MergeKeeps ==
    ASSUME MemoryInv, NEW c \in Callers, NEW sources \in SUBSET Memories, NEW m \in Memories,
           Merge(c, sources, m)
    PROVE  MemoryInv'
<1> DEFINE state == [Idle EXCEPT !.op = "merge", !.pc = "store", !.memory = m, !.todo = sources]
<1>1. state \in CallState
    BY IdleIsSound DEF CallState, Idle
<1>2. Sound(state, proposal, stored)
    BY IdleIsSound DEF Sound, Idle, NoRows, NoMemory
<1>3. Does(c, state) /\ UNCHANGED <<home, tables, cache, stored>> /\ home[c] # NoOne
    BY DEF Merge, Begins
<1>4. calls' \in 0 .. MaxCalls /\ crashes' \in 0 .. MaxCrashes
    BY MemoryAssumption DEF Merge, Begins, MemoryInv, TypeOK
<1> HIDE DEF state
<1> QED BY <1>1, <1>2, <1>3, <1>4, OnlyTheCall

\* A source is marked with the memory its merge has stored.
LEMMA ReadSourceKeeps ==
    ASSUME MemoryInv, NEW c \in Callers, NEW x \in Memories, ReadSource(c, x)
    PROVE  MemoryInv'
<1> DEFINE row == [memory[x] EXCEPT !.into = call[c].memory]
           rows == [call[c].rows EXCEPT ![x] = row]
           state == [call[c] EXCEPT !.pc = "write", !.todo = call[c].todo \ {x},
                                    !.memory = x, !.rows = rows]
<1>1. call[c] \in CallState /\ Sound(call[c], proposal, stored) /\ home[c] # NoOne
    BY BusyIsHome DEF ReadSource, At, MemoryInv, TypeOK, CallsAreSound
<1>2. call[c].memory \in stored /\ stored \subseteq Memories
    BY <1>1 DEF ReadSource, At, Sound, MemoryInv, TypeOK
<1>3. row \in MemoryRow /\ row.into \in stored
    BY <1>2 DEF MemoryInv, TypeOK, MemoryRow
<1> HIDE DEF row
<1>4. /\ rows \in [Memories -> MemoryRow]
      /\ \A y \in Memories : rows[y].into # NoOne => rows[y].into \in stored
      /\ rows[x].into \in stored
    <2>1. call[c].rows \in [Memories -> MemoryRow]
        BY <1>1 DEF CallState
    <2>2. \A y \in Memories : call[c].rows[y].into # NoOne => call[c].rows[y].into \in stored
        BY <1>1 DEF Sound
    <2> QED BY <2>1, <2>2, <1>3
<1>5. Does(c, state) \/ Does(c, Idle)
    BY DEF ReadSource, Does, row
<1> HIDE DEF rows
<1>6. state \in CallState
    BY <1>1, <1>4 DEF CallState
<1>7. Sound(state, proposal, stored)
    <2>1. state.pc = "write" /\ state.memory = x /\ state.rows = rows
        BY <1>1 DEF CallState
    <2> HIDE DEF state
    <2> QED BY <2>1, <1>4 DEF Sound
<1>8. UNCHANGED <<home, tables, cache, stored>>
        /\ calls' \in 0 .. MaxCalls /\ crashes' \in 0 .. MaxCrashes
    BY DEF ReadSource, MemoryInv, TypeOK
<1> HIDE DEF state
<1>9. CASE Does(c, state)
    BY <1>1, <1>6, <1>7, <1>8, <1>9, OnlyTheCall
<1>10. CASE Does(c, Idle)
    BY <1>1, <1>8, <1>10, IdleIsSound, OnlyTheCall
<1> QED BY <1>5, <1>9, <1>10

\* The row written back was sound when it was read, and still is: what is
\* stored once stays on record.
LEMMA WriteKeeps ==
    ASSUME MemoryInv, NEW c \in Callers, Write(c)
    PROVE  MemoryInv'
<1> DEFINE m == call[c].memory
           row == call[c].rows[m]
           state == IF call[c].todo = {} THEN Idle
                    ELSE [call[c] EXCEPT !.pc = "merging", !.memory = row.into, !.rows = NoRows]
<1>1. call[c] \in CallState /\ Sound(call[c], proposal, stored) /\ home[c] # NoOne
    BY BusyIsHome DEF Write, At, MemoryInv, TypeOK, CallsAreSound
<1>2. m \in Memories /\ (row.into # NoOne => row.into \in stored)
        /\ (call[c].todo # {} => row.into \in stored)
    BY <1>1 DEF Write, At, Sound
<1>3. row \in MemoryRow /\ stored \subseteq Memories
    BY <1>1, <1>2 DEF CallState, MemoryInv, TypeOK
<1>4. NoRows \in [Memories -> MemoryRow] /\ \A x \in Memories : NoRows[x].into = NoOne
    BY DEF NoRows, NoMemory, MemoryRow
<1>5. Does(c, state) /\ memory' = [memory EXCEPT ![m] = row]
        /\ UNCHANGED <<home, proposal, audited, cache, stored>>
        /\ calls' \in 0 .. MaxCalls /\ crashes' \in 0 .. MaxCrashes
    BY DEF Write, MemoryInv, TypeOK
<1>6. state \in CallState /\ Sound(state, proposal, stored)
    <2>1. CASE call[c].todo = {}
        BY <2>1, IdleIsSound
    <2>2. CASE call[c].todo # {}
        <3>1. state = [call[c] EXCEPT !.pc = "merging", !.memory = row.into, !.rows = NoRows]
            BY <2>2
        <3> HIDE DEF state, row
        <3>2. state \in CallState
            BY <3>1, <1>1, <1>2, <1>3, <1>4, <2>2 DEF CallState
        <3>3. Sound(state, proposal, stored)
            BY <3>1, <1>1, <1>2, <1>4, <2>2 DEF Sound, CallState
        <3> QED BY <3>2, <3>3
    <2> QED BY <2>1, <2>2
<1> HIDE DEF m, row, state
<1> QED BY <1>1, <1>2, <1>3, <1>5, <1>6, OneMemory

\* The values to be superseded keep what they say of their merge.
LEMMA CaptureAmbientKeeps ==
    ASSUME MemoryInv, NEW c \in Callers, NEW m \in Memories, CaptureAmbient(c, m)
    PROVE  MemoryInv'
<1> DEFINE pc == IF ActiveValues = {} THEN "store" ELSE "supersede"
           rows == [x \in Memories |-> IF x \in ActiveValues
                        THEN [memory[x] EXCEPT !.status = "archived"] ELSE NoMemory]
           state == [Idle EXCEPT !.op = "ambient", !.memory = m, !.todo = ActiveValues,
                                 !.rows = rows, !.pc = pc]
<1>1. rows \in [Memories -> MemoryRow]
        /\ \A x \in Memories : rows[x].into # NoOne => rows[x].into \in stored
    BY DEF MemoryInv, TypeOK, MemoryRow, Lifecycle, NoMemory, MergedWasStored
<1>2. pc \in {"store", "supersede"}
    OBVIOUS
<1>3. ActiveValues \subseteq Memories
    BY MemoryAssumption DEF ActiveValues
<1>4. Does(c, state) /\ UNCHANGED <<home, tables, cache, stored>> /\ home[c] # NoOne
    BY DEF CaptureAmbient, Begins
<1> HIDE DEF pc, rows
<1>5. state \in CallState
    BY <1>1, <1>2, <1>3, IdleIsSound DEF CallState, Idle
<1>6. Sound(state, proposal, stored)
    BY <1>1, <1>2 DEF Sound, Idle
<1>7. calls' \in 0 .. MaxCalls /\ crashes' \in 0 .. MaxCrashes
    BY MemoryAssumption DEF CaptureAmbient, Begins, MemoryInv, TypeOK
<1> HIDE DEF state
<1> QED BY <1>4, <1>5, <1>6, <1>7, OnlyTheCall

\* Nor does archiving one change that.
LEMMA SupersedeKeeps ==
    ASSUME MemoryInv, NEW c \in Callers, NEW x \in Memories, Supersede(c, x)
    PROVE  MemoryInv'
<1> DEFINE row == call[c].rows[x]
           pc == IF call[c].todo = {x} THEN "store" ELSE "supersede"
           state == [call[c] EXCEPT !.todo = call[c].todo \ {x}, !.pc = pc]
<1>1. call[c] \in CallState /\ Sound(call[c], proposal, stored) /\ home[c] # NoOne
    BY BusyIsHome DEF Supersede, At, MemoryInv, TypeOK, CallsAreSound
<1>2. row \in MemoryRow /\ (row.into # NoOne => row.into \in stored) /\ stored \subseteq Memories
    BY <1>1 DEF CallState, Sound, MemoryInv, TypeOK
<1>3. Does(c, state) /\ memory' = [memory EXCEPT ![x] = row]
        /\ UNCHANGED <<home, proposal, audited, cache, stored>>
        /\ calls' \in 0 .. MaxCalls /\ crashes' \in 0 .. MaxCrashes
    BY DEF Supersede, MemoryInv, TypeOK
<1>4. pc \in {"store", "supersede"}
    OBVIOUS
<1> HIDE DEF row, pc
<1>5. state \in CallState
    BY <1>1, <1>4 DEF CallState
<1>6. Sound(state, proposal, stored)
    BY <1>1, <1>4 DEF Sound, CallState, Supersede, At
<1> HIDE DEF state
<1> QED BY <1>1, <1>2, <1>3, <1>5, <1>6, OneMemory

\* A process that dies takes its calls and its dictionary along, no more.
LEMMA CrashKeeps ==
    ASSUME MemoryInv, NEW q \in Processes, Crash(q)
    PROVE  MemoryInv'
<1>1. UNCHANGED <<home, memory, proposal, audited, stored, calls>>
    BY DEF Crash, tables
<1>2. Idle \in CallState /\ Sound(Idle, proposal, stored)
    BY IdleIsSound
<1>3. \A c \in Callers : call'[c] \in {call[c], Idle}
    BY DEF Crash
<1>4. cache' \in [Processes -> [Proposals -> Status \cup {"none"}]]
        /\ \A r \in Processes, x \in Proposals : cache'[r][x] \in {cache[r][x], "none"}
    BY DEF Crash, MemoryInv, TypeOK
<1>5. TypeOK'
    BY <1>1, <1>2, <1>4, MemoryAssumption DEF Crash, MemoryInv, TypeOK
<1>6. CallsAreSound'
    BY <1>1, <1>2, <1>3 DEF MemoryInv, CallsAreSound
<1>7. ProposalsAreFilled'
    BY <1>1, <1>4 DEF MemoryInv, ProposalsAreFilled
<1>8. SavedWasStored' /\ MergedWasStored'
    BY <1>1 DEF MemoryInv, SavedWasStored, MergedWasStored
<1> QED BY <1>5, <1>6, <1>7, <1>8 DEF MemoryInv

-----------------------------------------------------------------------------
(* The theorems *)

\* Every call, of however many callers, and every crash keep the invariant.
THEOREM MemoryInvariant == Spec => []MemoryInv
<1>1. MemoryInv /\ [Next]_vars => MemoryInv'
    <2> SUFFICES ASSUME MemoryInv, [Next]_vars PROVE MemoryInv'
        OBVIOUS
    <2>1. CASE UNCHANGED vars
        BY <2>1
        DEF vars, tables, MemoryInv, TypeOK, CallsAreSound, Sound, ProposalsAreFilled,
            SavedWasStored, MergedWasStored
    <2>2. ASSUME NEW c \in Callers, NEW p \in Proposals, NEW m \in Memories,
                 ProposeSave(c, p, m) \/ SaveDirect(c, p, m)
          PROVE  MemoryInv'
        BY <2>2, ProposeSaveKeeps, SaveDirectKeeps
    <2>3. ASSUME NEW c \in Callers, NEW p \in Proposals,
                 SaveProposal(c, p) \/ \E status \in Status : DecideProposal(c, p, status)
          PROVE  MemoryInv'
        BY <2>3, SaveProposalKeeps, DecideProposalKeeps
    <2>4. ASSUME NEW c \in Callers,
                 \/ Store(c) \/ MarkSaved(c) \/ Audit(c)
                 \/ RecordDecision(c) \/ RefreshCopy(c)
          PROVE  MemoryInv'
        BY <2>4, StoreKeeps, MarkSavedKeeps, AuditKeeps, RecordDecisionKeeps, RefreshCopyKeeps
    <2>5. ASSUME NEW c \in Callers, NEW m \in Memories,
                 \/ \E status \in Lifecycle : ChangeMemory(c, m, status)
                 \/ HardDelete(c, m) \/ DeleteOutright(c, m)
                 \/ \E sources \in SUBSET Memories : Merge(c, sources, m)
          PROVE  MemoryInv'
        BY <2>5, ChangeMemoryKeeps, HardDeleteKeeps, DeleteOutrightKeeps, MergeKeeps
    <2>6. ASSUME NEW c \in Callers, NEW m \in Memories,
                 CaptureAmbient(c, m) \/ ReadSource(c, m) \/ Supersede(c, m)
          PROVE  MemoryInv'
        BY <2>6, CaptureAmbientKeeps, ReadSourceKeeps, SupersedeKeeps
    <2>7. ASSUME NEW c \in Callers, Write(c) \/ Delete(c) PROVE MemoryInv'
        BY <2>7, WriteKeeps, DeleteKeeps
    <2>8. ASSUME NEW q \in Processes, Crash(q) PROVE MemoryInv'
        BY <2>8, CrashKeeps
    <2> QED BY <2>1, <2>2, <2>3, <2>4, <2>5, <2>6, <2>7, <2>8 DEF Next
<1> QED BY InitiallySound, <1>1, PTL DEF Spec

\* A reviewed proposal that is marked saved, and every audited save, has its
\* memory stored, whatever dies when and however calls interleave.
THEOREM SavedMeansStored == Spec => []SavedWasStored
<1>1. MemoryInv => SavedWasStored
    BY DEF MemoryInv
<1> QED BY MemoryInvariant, <1>1, PTL

\* No memory is marked as merged into one that was never stored.
THEOREM MergedMeansStored == Spec => []MergedWasStored
<1>1. MemoryInv => MergedWasStored
    BY DEF MemoryInv
<1> QED BY MemoryInvariant, <1>1, PTL

-----------------------------------------------------------------------------
(* A single caller *)

\* Without calls under way and with empty dictionaries nothing is stale.
LEMMA InitiallyFresh == Init => AloneInv
BY DEF Init, AloneInv, Fresh, Idle

\* What a call is told of a proposal.
LEMMA SeenIsTrue ==
    ASSUME MemoryInv, NEW c \in Callers, home[c] # NoOne, Fresh(c), At(c, "idle"),
           NEW p \in Proposals
    PROVE  Seen(c, p) = proposal[p].status
<1>1. home[c] \in Processes
    BY MemoryAssumption DEF MemoryInv, TypeOK
<1> QED BY <1>1 DEF Fresh, At, Seen

\* A step that leaves proposals and copies alone keeps them fresh, if it does
\* not begin to save or decide, or begins to with a status that is true.
LEMMA QuietStep ==
    ASSUME NEW c \in Callers, Fresh(c), call[c].pc # "refresh", call[c].pc # "mark",
           UNCHANGED <<home, proposal, cache>>,
           LET k == call'[c] IN
           /\ k.pc \notin {"refresh", "audit"}
           /\ k.pc = "decide" => proposal[k.proposal].status \notin Terminal
           /\ k.pc \in {"store", "mark"} /\ k.op = "proposed" =>
                    proposal[k.proposal].status \in Saveable
           /\ k.pc \in {"store", "mark"} /\ k.op = "direct" =>
                    proposal[k.proposal].status = "saved"
           /\ k.pc = "mark" => k.op \in {"proposed", "direct"}
    PROVE  Fresh(c)'
BY DEF Fresh

\* The calls about memories are such steps.
LEMMA MemoryStepsAreQuiet ==
    ASSUME MemoryInv, NEW c \in Callers, Fresh(c), NEW m \in Memories,
           \/ \E status \in Lifecycle : ChangeMemory(c, m, status)
           \/ HardDelete(c, m) \/ DeleteOutright(c, m)
           \/ \E sources \in SUBSET Memories : Merge(c, sources, m)
           \/ CaptureAmbient(c, m) \/ ReadSource(c, m) \/ Supersede(c, m)
           \/ Write(c) \/ Delete(c)
    PROVE  Fresh(c)' /\ UNCHANGED proposal
<1>1. UNCHANGED <<home, proposal, cache>>
    BY DEF ChangeMemory, HardDelete, DeleteOutright, Merge, CaptureAmbient, ReadSource,
           Supersede, Write, Delete, tables
<1>2. call[c].pc \notin {"refresh", "mark"}
    BY DEF ChangeMemory, HardDelete, DeleteOutright, Merge, CaptureAmbient, ReadSource,
           Supersede, Write, Delete, Begins, At
<1>3. call[c] \in CallState /\ call \in [Callers -> CallState]
    BY DEF MemoryInv, TypeOK
<1>4. call[c].pc = "supersede" => call[c].op = "ambient"
    BY DEF MemoryInv, CallsAreSound, Sound
<1>5. \/ call'[c].pc \in {"idle", "write", "delete", "supersede", "merging"}
      \/ call'[c].pc = "store" /\ call'[c].op \in {"merge", "ambient"}
    <2>1. ASSUME NEW state, Does(c, state) PROVE call'[c] = state
        BY <2>1, <1>3 DEF Does
    <2>2. CASE (\E status \in Lifecycle : ChangeMemory(c, m, status)) \/ HardDelete(c, m)
        <3>1. ASSUME NEW status \in Lifecycle, ChangeMemory(c, m, status)
              PROVE  call'[c].pc = "write"
            <4> DEFINE state == [Idle EXCEPT !.op = "change", !.pc = "write", !.memory = m,
                                    !.rows[m] = [memory[m] EXCEPT !.status = status]]
            <4>1. Does(c, state)
                BY <3>1 DEF ChangeMemory
            <4>2. state.pc = "write"
                BY DEF Idle
            <4> QED BY <4>1, <4>2, <2>1
        <3>2. ASSUME HardDelete(c, m) PROVE call'[c].pc = "delete"
            <4> DEFINE state == [Idle EXCEPT !.op = "change", !.pc = "delete", !.memory = m]
            <4>1. Does(c, state)
                BY <3>2 DEF HardDelete
            <4>2. state.pc = "delete"
                BY DEF Idle
            <4> QED BY <4>1, <4>2, <2>1
        <3> QED BY <2>2, <3>1, <3>2
    <2>3. CASE DeleteOutright(c, m) \/ Delete(c)
        BY <2>3, <1>3 DEF DeleteOutright, Delete, Does, Idle, Begins, At
    <2>4. ASSUME NEW sources \in SUBSET Memories, Merge(c, sources, m)
          PROVE  call'[c].pc = "store" /\ call'[c].op = "merge"
        <3> DEFINE state == [Idle EXCEPT !.op = "merge", !.pc = "store",
                                         !.memory = m, !.todo = sources]
        <3>1. Does(c, state)
            BY <2>4 DEF Merge
        <3>2. state.pc = "store" /\ state.op = "merge"
            BY DEF Idle
        <3> QED BY <3>1, <3>2, <2>1
    <2>5. CASE CaptureAmbient(c, m)
        <3> DEFINE pc == IF ActiveValues = {} THEN "store" ELSE "supersede"
                   rows == [x \in Memories |-> IF x \in ActiveValues
                                THEN [memory[x] EXCEPT !.status = "archived"] ELSE NoMemory]
                   state == [Idle EXCEPT !.op = "ambient", !.memory = m,
                                         !.todo = ActiveValues, !.rows = rows, !.pc = pc]
        <3>1. Does(c, state)
            BY <2>5 DEF CaptureAmbient
        <3>2. pc \in {"store", "supersede"}
            OBVIOUS
        <3> HIDE DEF pc, rows
        <3>3. state.pc = pc /\ state.op = "ambient"
            BY DEF Idle
        <3> QED BY <3>1, <3>2, <3>3, <2>1
    <2>6. CASE ReadSource(c, m)
        <3> DEFINE state == [call[c] EXCEPT !.pc = "write", !.todo = @ \ {m}, !.memory = m,
                                !.rows[m] = [memory[m] EXCEPT !.into = call[c].memory]]
        <3>1. Does(c, state) \/ Does(c, Idle)
            BY <2>6 DEF ReadSource
        <3>2. state.pc = "write" /\ Idle.pc = "idle"
            BY <1>3 DEF Idle, CallState
        <3> QED BY <3>1, <3>2, <2>1
    <2>7. CASE Supersede(c, m)
        BY <2>7, <1>3, <1>4 DEF Supersede, At, Does, CallState
    <2>8. CASE Write(c)
        BY <2>8, <1>3 DEF Write, Does, Idle, CallState
    <2> QED BY <2>2, <2>3, <2>4, <2>5, <2>6, <2>7, <2>8
<1> QED BY <1>1, <1>2, <1>5, QuietStep

\* A decision in the table is not overwritten.
Final == \A p \in Proposals : proposal[p].status \in Terminal
            => proposal'[p].status = proposal[p].status

\* The looking up of a proposal.
LEMMA LookingUpStaysFresh ==
    ASSUME MemoryInv, NEW c \in Callers, Fresh(c), NEW p \in Proposals,
           SaveProposal(c, p) \/ (\E status \in Status : DecideProposal(c, p, status))
    PROVE  Fresh(c)' /\ Final
<1>1. call[c] \in CallState /\ call \in [Callers -> CallState]
    BY DEF MemoryInv, TypeOK
<1>2. ASSUME NEW state, Does(c, state) PROVE call'[c] = state
    BY <1>1, <1>2 DEF Does
<1>3. UNCHANGED <<home, proposal, cache>>
    BY DEF SaveProposal, DecideProposal, tables
<1>4. call[c].pc \notin {"refresh", "mark"}
    BY DEF SaveProposal, DecideProposal, Begins, At
<1>5. CASE SaveProposal(c, p)
    <2> DEFINE state == [Idle EXCEPT !.op = "proposed", !.pc = "store",
                                     !.proposal = p, !.memory = proposal[p].memory]
    <2>1. Does(c, state) /\ proposal[p].status \in Saveable
        BY <1>5, SeenIsTrue DEF SaveProposal, Begins
    <2>2. state.pc = "store" /\ state.op = "proposed" /\ state.proposal = p
        BY DEF Idle
    <2> HIDE DEF state
    <2> QED BY <2>1, <2>2, <1>2, <1>3, <1>4, QuietStep DEF Final
<1>6. ASSUME NEW status \in Status, DecideProposal(c, p, status)
      PROVE  Fresh(c)' /\ Final
    <2> DEFINE state == [Idle EXCEPT !.op = "decide", !.pc = "decide",
                                     !.proposal = p, !.status = status]
    <2>1. Does(c, state) /\ proposal[p].status \notin Terminal
        BY <1>6, SeenIsTrue DEF DecideProposal, Begins, MayBecome, Saveable, Terminal
    <2>2. state.pc = "decide" /\ state.proposal = p
        BY DEF Idle
    <2> HIDE DEF state
    <2> QED BY <2>1, <2>2, <1>2, <1>3, <1>4, QuietStep DEF Final
<1> QED BY <1>5, <1>6

\* The storing of a memory.
LEMMA StoreStaysFresh ==
    ASSUME MemoryInv, NEW c \in Callers, Fresh(c), Store(c)
    PROVE  Fresh(c)' /\ Final
<1>1. call[c] \in CallState /\ call \in [Callers -> CallState]
    BY DEF MemoryInv, TypeOK
<1>2. UNCHANGED <<home, proposal, cache>> /\ call[c].pc = "store"
    BY DEF Store, At
<1>3. PICK state : /\ Does(c, state)
                   /\ \/ call[c].op \in {"proposed", "direct"}
                         /\ state = [call[c] EXCEPT !.pc = "mark"]
                      \/ state = [call[c] EXCEPT !.pc = "merging"]
                      \/ state = Idle
    BY DEF Store, Goes
<1>4. \/ state.pc \in {"merging", "idle"}
      \/ /\ state.pc = "mark" /\ state.op = call[c].op /\ state.proposal = call[c].proposal
         /\ call[c].op \in {"proposed", "direct"}
    BY <1>1, <1>3 DEF Idle, CallState
<1>5. /\ call[c].op = "proposed" => proposal[call[c].proposal].status \in Saveable
      /\ call[c].op = "direct" => proposal[call[c].proposal].status = "saved"
    BY <1>2 DEF Fresh
<1>6. call'[c] = state
    BY <1>1, <1>3 DEF Does
<1> QED BY <1>2, <1>4, <1>5, <1>6, QuietStep DEF Final

\* A new proposal, which the table and the dictionary have alike.
LEMMA NewProposalIsFresh ==
    ASSUME MemoryInv, NEW c \in Callers, home[c] # NoOne, Fresh(c),
           NEW p \in Proposals, NEW m \in Memories,
           ProposeSave(c, p, m) \/ SaveDirect(c, p, m)
    PROVE  Fresh(c)' /\ Final
<1>1. call[c] \in CallState /\ call \in [Callers -> CallState] /\ home[c] \in Processes
    BY MemoryAssumption DEF MemoryInv, TypeOK
<1>2. proposal[p].status = "none" /\ call[c].pc = "idle"
    BY DEF ProposeSave, SaveDirect, NoProposal, Begins, At
<1>3. PICK status : /\ proposal'[p].status = status /\ Remembers(c, p, status)
                    /\ \A x \in Proposals \ {p} : proposal'[x] = proposal[x]
                    /\ SaveDirect(c, p, m) => status = "saved"
    BY DEF ProposeSave, SaveDirect, MemoryInv, TypeOK
<1>4. \A q \in Processes, x \in Proposals : cache'[q][x] \in {"none", proposal'[x].status}
    <2>1. \A q \in Processes, x \in Proposals : cache[q][x] \in {"none", proposal[x].status}
        BY <1>2 DEF Fresh
    <2>2. ASSUME NEW q \in Processes, NEW x \in Proposals
          PROVE  cache'[q][x] \in {"none", proposal'[x].status}
        <3>1. CASE x = p
            BY <3>1, <2>1, <1>1, <1>2, <1>3 DEF Remembers, MemoryInv, TypeOK
        <3>2. CASE x # p
            BY <3>2, <2>1, <1>1, <1>3 DEF Remembers, MemoryInv, TypeOK
        <3> QED BY <3>1, <3>2
    <2> QED BY <2>2
<1>5. \/ call'[c].pc = "idle"
      \/ /\ call'[c].pc = "store" /\ call'[c].op = "direct" /\ call'[c].proposal = p
         /\ proposal'[p].status = "saved"
    <2>1. CASE ProposeSave(c, p, m)
        BY <2>1, <1>2 DEF ProposeSave
    <2>2. CASE SaveDirect(c, p, m)
        <3> DEFINE state == [Idle EXCEPT !.op = "direct", !.pc = "store",
                                         !.proposal = p, !.memory = m]
        <3>1. Does(c, state)
            BY <2>2 DEF SaveDirect
        <3>2. state.pc = "store" /\ state.op = "direct" /\ state.proposal = p
            BY DEF Idle
        <3>3. call'[c] = state
            BY <3>1, <1>1 DEF Does
        <3> QED BY <3>2, <3>3, <2>2, <1>3
    <2> QED BY <2>1, <2>2
<1>6. Final
    BY <1>2, <1>3 DEF Final, Terminal
<1>7. home' = home /\ \A q \in Processes, x \in Proposals : home[c] # q => cache'[q][x] = "none"
    BY <1>1, <1>3 DEF ProposeSave, SaveDirect, Remembers, Fresh, MemoryInv, TypeOK
<1> QED BY <1>4, <1>5, <1>6, <1>7 DEF Fresh

\* What a save marks was saveable, or saved already; the copy says so too.
LEMMA MarkSavedStaysFresh ==
    ASSUME MemoryInv, NEW c \in Callers, Fresh(c), MarkSaved(c)
    PROVE  Fresh(c)' /\ Final
<1> DEFINE p == call[c].proposal
<1>1. call[c] \in CallState /\ call \in [Callers -> CallState]
    BY DEF MemoryInv, TypeOK
<1>2. home[c] \in Processes /\ p \in Proposals
    BY BusyIsHome, MemoryAssumption
    DEF MarkSaved, At, MemoryInv, TypeOK, CallsAreSound, Sound
<1>3. proposal[p].status \in Saveable \cup {"saved"}
    BY DEF MarkSaved, At, Fresh
<1>4. \A q \in Processes, x \in Proposals : cache[q][x] \in {"none", proposal[x].status}
    BY DEF MarkSaved, At, Fresh
<1>5. proposal'[p].status = "saved" /\ \A x \in Proposals \ {p} : proposal'[x] = proposal[x]
    BY <1>2 DEF MarkSaved, MemoryInv, TypeOK, ProposalRow
<1>6. call'[c].pc = "audit" /\ call'[c].proposal = p
    BY <1>1 DEF MarkSaved, Goes, Does, CallState
<1>7. \A q \in Processes, x \in Proposals : cache'[q][x] \in {"none", proposal'[x].status}
    <2>1. ASSUME NEW q \in Processes, NEW x \in Proposals
          PROVE  cache'[q][x] \in {"none", proposal'[x].status}
        <3>1. CASE q = home[c] /\ x = p
            BY <3>1, <1>2, <1>5 DEF MarkSaved, Remembers, MemoryInv, TypeOK
        <3>2. CASE q # home[c] /\ x = p
            <4>1. cache[q][x] = "none"
                BY <3>2 DEF Fresh
            <4> QED BY <4>1, <3>2, <1>2 DEF MarkSaved, Remembers, MemoryInv, TypeOK
        <3>3. CASE x # p
            BY <3>3, <1>2, <1>4, <1>5 DEF MarkSaved, Remembers, MemoryInv, TypeOK
        <3> QED BY <3>1, <3>2, <3>3
    <2> QED BY <2>1
<1>8. Final
    BY <1>3, <1>5 DEF Final, Saveable, Terminal
<1>9. home' = home /\ \A q \in Processes, x \in Proposals : home[c] # q => cache'[q][x] = "none"
    BY <1>2 DEF MarkSaved, Remembers, Fresh, MemoryInv, TypeOK
<1> HIDE DEF p
<1> QED BY <1>5, <1>6, <1>7, <1>8, <1>9 DEF Fresh

\* The dictionary's copy goes, or stays what it was.
LEMMA AuditStaysFresh ==
    ASSUME MemoryInv, NEW c \in Callers, Fresh(c), Audit(c)
    PROVE  Fresh(c)' /\ Final
<1>1. call \in [Callers -> CallState]
    BY DEF MemoryInv, TypeOK
<1>2. home[c] \in Processes /\ call[c].proposal \in Proposals
    BY BusyIsHome, MemoryAssumption
    DEF Audit, At, MemoryInv, TypeOK, CallsAreSound, Sound
<1>3. \A q \in Processes, x \in Proposals : cache'[q][x] \in {"none", cache[q][x]}
    <2>1. CASE Remembers(c, call[c].proposal, "none")
        BY <2>1, <1>2 DEF Remembers, MemoryInv, TypeOK
    <2>2. CASE UNCHANGED cache
        BY <2>2
    <2> QED BY <2>1, <2>2 DEF Audit
<1>4. call'[c].pc = "idle" /\ UNCHANGED <<home, proposal>> /\ call[c].pc = "audit"
    BY <1>1 DEF Audit, At, Does, Idle
<1> QED BY <1>3, <1>4 DEF Fresh, Final

\* A decision is written over a proposal that is still undecided; only its copy
\* is stale then.
LEMMA RecordDecisionStaysFresh ==
    ASSUME MemoryInv, NEW c \in Callers, Fresh(c), RecordDecision(c)
    PROVE  Fresh(c)' /\ Final
<1> DEFINE p == call[c].proposal
<1>1. call[c] \in CallState /\ call \in [Callers -> CallState]
    BY DEF MemoryInv, TypeOK
<1>2. p \in Proposals /\ proposal[p].status \notin Terminal /\ call[c].pc = "decide"
    BY DEF RecordDecision, At, Fresh, MemoryInv, CallsAreSound, Sound
<1>3. \A x \in Proposals \ {p} : proposal'[x] = proposal[x]
    BY <1>2 DEF RecordDecision, MemoryInv, TypeOK
<1>4. call'[c].pc = "refresh" /\ call'[c].proposal = p /\ UNCHANGED <<home, cache>>
    BY <1>1 DEF RecordDecision, Goes, Does, CallState
<1> HIDE DEF p
<1> QED BY <1>2, <1>3, <1>4 DEF Fresh, Final

\* And that is put right.
LEMMA RefreshCopyStaysFresh ==
    ASSUME MemoryInv, NEW c \in Callers, Fresh(c), RefreshCopy(c)
    PROVE  Fresh(c)' /\ Final
<1> DEFINE p == call[c].proposal
<1>1. call \in [Callers -> CallState]
    BY DEF MemoryInv, TypeOK
<1>2. home[c] \in Processes /\ p \in Proposals /\ call[c].pc = "refresh"
    BY BusyIsHome, MemoryAssumption
    DEF RefreshCopy, At, MemoryInv, TypeOK, CallsAreSound, Sound
<1>3. call'[c].pc = "idle" /\ UNCHANGED <<home, proposal>>
    BY <1>1 DEF RefreshCopy, Does, Idle, tables
<1>4. \A q \in Processes, x \in Proposals :
            cache'[q][x] = IF q = home[c] /\ x = p THEN proposal[x].status ELSE cache[q][x]
    BY <1>2 DEF RefreshCopy, Remembers, MemoryInv, TypeOK
<1> HIDE DEF p
<1>5. \A q \in Processes, x \in Proposals : cache'[q][x] \in {"none", proposal[x].status}
    BY <1>2, <1>4 DEF Fresh, p
<1> QED BY <1>2, <1>3, <1>4, <1>5 DEF Fresh, Final

\* A process that starts again has no call under way and no copies.
LEMMA CrashStaysFresh ==
    ASSUME MemoryInv, NEW c \in Callers, Only(c), Fresh(c), NEW q \in Processes, Crash(q)
    PROVE  Fresh(c)' /\ Final
<1>1. UNCHANGED <<home, proposal>> /\ home[c] = q
    BY MemoryAssumption DEF Crash, tables, Only
<1>2. call'[c].pc = "idle"
    BY <1>1 DEF Crash, Idle
<1>3. \A r \in Processes, x \in Proposals :
            cache'[r][x] = IF r = q THEN "none" ELSE cache[r][x]
    BY DEF Crash, MemoryInv, TypeOK
<1> QED BY <1>1, <1>2, <1>3 DEF Fresh, Final

\* Every step, of a caller that is the only one.
LEMMA StepStaysFresh ==
    ASSUME MemoryInv, [Next]_vars, NEW c \in Callers, Only(c), Fresh(c)
    PROVE  Fresh(c)' /\ Final
<1>1. CASE UNCHANGED vars
    BY <1>1 DEF vars, tables, Fresh, Final
<1>2. ASSUME NEW d \in Callers, home[d] # NoOne
      PROVE  d = c
    BY <1>2 DEF Only
<1>3. ASSUME NEW d \in Callers, NEW p \in Proposals, NEW m \in Memories,
             ProposeSave(d, p, m) \/ SaveDirect(d, p, m)
      PROVE  Fresh(c)' /\ Final
    <2>1. home[d] # NoOne
        BY <1>3 DEF ProposeSave, SaveDirect, Begins
    <2> QED BY <2>1, <1>2, <1>3, NewProposalIsFresh
<1>4. ASSUME NEW d \in Callers, NEW p \in Proposals,
             SaveProposal(d, p) \/ \E status \in Status : DecideProposal(d, p, status)
      PROVE  Fresh(c)' /\ Final
    <2>1. home[d] # NoOne
        BY <1>4 DEF SaveProposal, DecideProposal, Begins
    <2> QED BY <2>1, <1>2, <1>4, LookingUpStaysFresh
<1>5. ASSUME NEW d \in Callers,
             Store(d) \/ MarkSaved(d) \/ Audit(d) \/ RecordDecision(d) \/ RefreshCopy(d)
      PROVE  Fresh(c)' /\ Final
    <2>1. home[d] # NoOne
        BY <1>5, BusyIsHome DEF Store, MarkSaved, Audit, RecordDecision, RefreshCopy, At
    <2> QED BY <2>1, <1>2, <1>5, StoreStaysFresh, MarkSavedStaysFresh, AuditStaysFresh,
               RecordDecisionStaysFresh, RefreshCopyStaysFresh
<1>6. ASSUME NEW d \in Callers, NEW m \in Memories,
             \/ \E status \in Lifecycle : ChangeMemory(d, m, status)
             \/ HardDelete(d, m) \/ DeleteOutright(d, m)
             \/ \E sources \in SUBSET Memories : Merge(d, sources, m)
             \/ CaptureAmbient(d, m) \/ ReadSource(d, m) \/ Supersede(d, m)
      PROVE  Fresh(c)' /\ Final
    <2>1. home[d] # NoOne
        BY <1>6, BusyIsHome
        DEF ChangeMemory, HardDelete, DeleteOutright, Merge, CaptureAmbient, ReadSource,
            Supersede, Begins, At
    <2> QED BY <2>1, <1>2, <1>6, MemoryStepsAreQuiet DEF Final
<1>7. ASSUME NEW d \in Callers, Write(d) \/ Delete(d)
      PROVE  Fresh(c)' /\ Final
    <2>1. home[d] # NoOne
        BY <1>7, BusyIsHome DEF Write, Delete, At
    <2>2. call[d].memory \in Memories
        BY <1>7 DEF Write, Delete, At, MemoryInv, CallsAreSound, Sound
    <2> QED BY <2>1, <2>2, <1>2, <1>7, MemoryStepsAreQuiet DEF Final
<1>8. ASSUME NEW q \in Processes, Crash(q)
      PROVE  Fresh(c)' /\ Final
    BY <1>8, CrashStaysFresh
<1> QED BY <1>1, <1>3, <1>4, <1>5, <1>6, <1>7, <1>8 DEF Next

\* Who lives where never changes.
LEMMA HomesStay == [Next]_vars => home' = home
<1>1. \A c \in Callers, p \in Proposals, m \in Memories :
        ProposeSave(c, p, m) \/ SaveDirect(c, p, m) => home' = home
    BY DEF ProposeSave, SaveDirect
<1>2. \A c \in Callers, p \in Proposals, status \in Status :
        SaveProposal(c, p) \/ DecideProposal(c, p, status) => home' = home
    BY DEF SaveProposal, DecideProposal
<1>3. \A c \in Callers, p \in Proposals : SaveProposal(c, p) => home' = home
    BY DEF SaveProposal
<1>4. \A c \in Callers :
        Store(c) \/ MarkSaved(c) \/ Audit(c) \/ RecordDecision(c) \/ RefreshCopy(c)
            \/ Write(c) \/ Delete(c) => home' = home
    BY DEF Store, MarkSaved, Audit, RecordDecision, RefreshCopy, Write, Delete
<1>5. \A c \in Callers, m \in Memories, status \in Lifecycle :
        ChangeMemory(c, m, status) => home' = home
    BY DEF ChangeMemory
<1>6. \A c \in Callers, m \in Memories, sources \in SUBSET Memories :
        Merge(c, sources, m) => home' = home
    BY DEF Merge
<1>7. \A c \in Callers, m \in Memories :
        HardDelete(c, m) \/ DeleteOutright(c, m) \/ CaptureAmbient(c, m)
            \/ ReadSource(c, m) \/ Supersede(c, m) => home' = home
    BY DEF HardDelete, DeleteOutright, CaptureAmbient, ReadSource, Supersede
<1>8. \A q \in Processes : Crash(q) => home' = home
    BY DEF Crash
<1> QED BY <1>1, <1>2, <1>3, <1>4, <1>5, <1>6, <1>7, <1>8 DEF Next, vars

\* A single caller is never told of a proposal what is no longer so, whatever
\* its calls were and whenever its process died.
THEOREM CopiesOfASingleCaller == Spec => []AloneInv
<1>1. MemoryInv /\ AloneInv /\ [Next]_vars => AloneInv'
    <2> SUFFICES ASSUME MemoryInv, AloneInv, [Next]_vars, NEW c \in Callers, Only(c)'
                 PROVE  Fresh(c)'
        BY DEF AloneInv
    <2>1. home' = home
        BY HomesStay
    <2>2. Only(c) /\ Fresh(c)
        BY <2>1 DEF Only, AloneInv
    <2> QED BY <2>2, StepStaysFresh
<1> QED BY InitiallyFresh, MemoryInvariant, <1>1, PTL DEF Spec

\* Between its calls the dictionary therefore agrees with the table.
THEOREM CopiesOfASingleCallerAgree == Spec => []CopiesAgree
<1>1. MemoryInv /\ AloneInv => CopiesAgree
    <2> SUFFICES ASSUME MemoryInv, AloneInv, NEW c \in Callers, Only(c), Settled(c),
                        NEW q \in Processes, NEW p \in Proposals
                 PROVE  cache[q][p] \in {"none", proposal[p].status}
        BY DEF CopiesAgree, Alone
    <2>1. call[c].pc = "idle"
        BY DEF MemoryInv, CallsAreSound, Settled, At, Idle
    <2> QED BY <2>1 DEF AloneInv, Fresh
<1> QED BY MemoryInvariant, CopiesOfASingleCaller, <1>1, PTL

\* So what a single caller decided or saved stays decided.
THEOREM ASingleCallerDecidesOnce == Spec => DecisionsAreFinalAlone
<1> DEFINE Once == Alone => \A p \in Proposals : proposal[p].status \in Terminal
                        => proposal'[p].status = proposal[p].status
<1>1. MemoryInv /\ AloneInv /\ [Next]_vars => Once
    BY StepStaysFresh DEF Alone, AloneInv, Final
<1>2. MemoryInv /\ AloneInv /\ [Next]_vars => [Once]_vars
    BY <1>1
<1>3. Spec => [][Once]_vars
    BY MemoryInvariant, CopiesOfASingleCaller, <1>2, PTL DEF Spec
<1> QED BY <1>3 DEF DecisionsAreFinalAlone
-----------------------------------------------------------------------------
(* Captured values *)

\* A call that captures a value has listed every active one but its own, and
\* has read each as one to be archived; it stores its own when none is left.
CaptureIsComplete(c) ==
    LET k == call[c] IN
    k.op = "ambient" =>
        /\ k.pc = "supersede" \/ (k.pc = "store" /\ k.todo = {})
        /\ \A x \in k.todo : k.rows[x].status = "archived"
        /\ \A x \in Ambient : memory[x].status = "active" => x \in k.todo \cup {k.memory}

CaptureInv == \A c \in Callers : Only(c) => CaptureIsComplete(c)

\* NewestValueOnly, of one call.
LeavesNoOther(c) ==
    call[c].op = "ambient" /\ memory[call[c].memory].status = "absent"
        /\ memory'[call[c].memory].status = "active"
    => \A m \in Ambient \ {call[c].memory} : memory'[m].status # "active"

\* No other call captures, whatever its next step is.
LEMMA OthersDoNotCapture ==
    ASSUME MemoryInv, NEW c \in Callers, call[c].op # "ambient",
           \/ \E p \in Proposals :
                \/ \E m \in Memories : ProposeSave(c, p, m) \/ SaveDirect(c, p, m)
                \/ SaveProposal(c, p)
                \/ \E status \in Status : DecideProposal(c, p, status)
           \/ Store(c) \/ MarkSaved(c) \/ Audit(c) \/ RecordDecision(c) \/ RefreshCopy(c)
           \/ \E m \in Memories :
                \/ \E status \in Lifecycle : ChangeMemory(c, m, status)
                \/ HardDelete(c, m) \/ DeleteOutright(c, m)
                \/ \E sources \in SUBSET Memories : Merge(c, sources, m)
                \/ ReadSource(c, m) \/ Supersede(c, m)
           \/ Write(c) \/ Delete(c)
    PROVE  call'[c].op # "ambient"
<1>1. call[c] \in CallState /\ call \in [Callers -> CallState]
    BY DEF MemoryInv, TypeOK
<1>2. ASSUME NEW state, Does(c, state), state.op # "ambient" PROVE call'[c].op # "ambient"
    BY <1>1, <1>2 DEF Does
<1>3. ASSUME NEW pc, Goes(c, pc) PROVE call'[c].op # "ambient"
    <2>1. [call[c] EXCEPT !.pc = pc].op # "ambient"
        BY <1>1 DEF CallState
    <2> QED BY <2>1, <1>2, <1>3 DEF Goes
<1>4. Does(c, Idle) => call'[c].op # "ambient"
    BY <1>2 DEF Idle
<1>5. ASSUME NEW p \in Proposals, NEW m \in Memories, ProposeSave(c, p, m) \/ SaveDirect(c, p, m)
      PROVE  call'[c].op # "ambient"
    <2> DEFINE state == [Idle EXCEPT !.op = "direct", !.pc = "store", !.proposal = p, !.memory = m]
    <2>1. call' = call \/ Does(c, state)
        BY <1>5 DEF ProposeSave, SaveDirect
    <2>2. state.op = "direct"
        BY DEF Idle
    <2> QED BY <2>1, <2>2, <1>2
<1>6. ASSUME NEW p \in Proposals, SaveProposal(c, p)
      PROVE  call'[c].op # "ambient"
    <2> DEFINE state == [Idle EXCEPT !.op = "proposed", !.pc = "store",
                                     !.proposal = p, !.memory = proposal[p].memory]
    <2>1. Does(c, state)
        BY <1>6 DEF SaveProposal
    <2>2. state.op = "proposed"
        BY DEF Idle
    <2> QED BY <2>1, <2>2, <1>2
<1>7. ASSUME NEW p \in Proposals, NEW status \in Status, DecideProposal(c, p, status)
      PROVE  call'[c].op # "ambient"
    <2> DEFINE state == [Idle EXCEPT !.op = "decide", !.pc = "decide",
                                     !.proposal = p, !.status = status]
    <2>1. Does(c, state)
        BY <1>7 DEF DecideProposal
    <2>2. state.op = "decide"
        BY DEF Idle
    <2> QED BY <2>1, <2>2, <1>2
<1>8. Store(c) \/ MarkSaved(c) \/ Audit(c) \/ RecordDecision(c) \/ RefreshCopy(c) \/ Delete(c)
        => call'[c].op # "ambient"
    BY <1>3, <1>4 DEF Store, MarkSaved, Audit, RecordDecision, RefreshCopy, Delete
<1>9. ASSUME NEW m \in Memories, NEW status \in Lifecycle, ChangeMemory(c, m, status)
      PROVE  call'[c].op # "ambient"
    <2> DEFINE state == [Idle EXCEPT !.op = "change", !.pc = "write", !.memory = m,
                            !.rows[m] = [memory[m] EXCEPT !.status = status]]
    <2>1. Does(c, state)
        BY <1>9 DEF ChangeMemory
    <2>2. state.op = "change"
        BY DEF Idle
    <2> QED BY <2>1, <2>2, <1>2
<1>10. ASSUME NEW m \in Memories, HardDelete(c, m) \/ DeleteOutright(c, m)
       PROVE  call'[c].op # "ambient"
    <2> DEFINE state == [Idle EXCEPT !.op = "change", !.pc = "delete", !.memory = m]
    <2>1. call' = call \/ Does(c, state)
        BY <1>10 DEF HardDelete, DeleteOutright
    <2>2. state.op = "change"
        BY DEF Idle
    <2> QED BY <2>1, <2>2, <1>2
<1>11. ASSUME NEW m \in Memories, NEW sources \in SUBSET Memories, Merge(c, sources, m)
       PROVE  call'[c].op # "ambient"
    <2> DEFINE state == [Idle EXCEPT !.op = "merge", !.pc = "store", !.memory = m, !.todo = sources]
    <2>1. Does(c, state)
        BY <1>11 DEF Merge
    <2>2. state.op = "merge"
        BY DEF Idle
    <2> QED BY <2>1, <2>2, <1>2
<1>12. ASSUME NEW m \in Memories, ReadSource(c, m)
       PROVE  call'[c].op # "ambient"
    <2> DEFINE state == [call[c] EXCEPT !.pc = "write", !.todo = @ \ {m}, !.memory = m,
                            !.rows[m] = [memory[m] EXCEPT !.into = call[c].memory]]
    <2>1. Does(c, state) \/ Does(c, Idle)
        BY <1>12 DEF ReadSource
    <2>2. state.op = call[c].op
        BY <1>1 DEF CallState
    <2> QED BY <2>1, <2>2, <1>2, <1>4
<1>13. ASSUME NEW m \in Memories, Supersede(c, m)
       PROVE  call'[c].op # "ambient"
    BY <1>13 DEF Supersede, At, MemoryInv, CallsAreSound, Sound
<1>14. ASSUME Write(c)
       PROVE  call'[c].op # "ambient"
    <2> DEFINE state == [call[c] EXCEPT !.pc = "merging", !.rows = NoRows,
                            !.memory = call[c].rows[call[c].memory].into]
    <2>1. Does(c, state) \/ Does(c, Idle)
        BY <1>14, <1>1 DEF Write, CallState
    <2>2. state.op = call[c].op
        BY <1>1 DEF CallState
    <2> QED BY <2>1, <2>2, <1>2, <1>4
<1> QED BY <1>5, <1>6, <1>7, <1>8, <1>9, <1>10, <1>11, <1>12, <1>13, <1>14

\* The active values are those that are listed.
LEMMA CaptureAmbientIsComplete ==
    ASSUME MemoryInv, NEW c \in Callers, NEW m \in Memories, CaptureAmbient(c, m)
    PROVE  CaptureIsComplete(c)'
<1> DEFINE pc == IF ActiveValues = {} THEN "store" ELSE "supersede"
           rows == [x \in Memories |-> IF x \in ActiveValues
                        THEN [memory[x] EXCEPT !.status = "archived"] ELSE NoMemory]
           state == [Idle EXCEPT !.op = "ambient", !.memory = m,
                                 !.todo = ActiveValues, !.rows = rows, !.pc = pc]
<1>1. Does(c, state) /\ memory' = memory
    BY DEF CaptureAmbient, tables
<1>2. \A x \in ActiveValues : rows[x].status = "archived"
    BY MemoryAssumption DEF ActiveValues, MemoryInv, TypeOK, MemoryRow
<1>3. pc = "supersede" \/ (pc = "store" /\ ActiveValues = {})
    OBVIOUS
<1> HIDE DEF pc, rows
<1>4. state.pc = pc /\ state.todo = ActiveValues /\ state.rows = rows
    BY DEF Idle
<1> HIDE DEF state
<1>5. call'[c] = state
    BY <1>1 DEF Does, MemoryInv, TypeOK
<1>6. \A x \in Ambient : memory[x].status = "active" => x \in state.todo
    BY <1>4 DEF ActiveValues
<1> QED BY <1>1, <1>2, <1>3, <1>4, <1>5, <1>6 DEF CaptureIsComplete

\* One value less is active, and none is activated.
LEMMA SupersedeStaysComplete ==
    ASSUME MemoryInv, NEW c \in Callers, NEW x \in Memories, CaptureIsComplete(c), Supersede(c, x)
    PROVE  CaptureIsComplete(c)' /\ LeavesNoOther(c)
<1> DEFINE pc == IF call[c].todo = {x} THEN "store" ELSE "supersede"
           state == [call[c] EXCEPT !.todo = @ \ {x}, !.pc = pc]
<1>1. /\ Does(c, state) /\ x \in call[c].todo
      /\ memory' = [memory EXCEPT ![x] = call[c].rows[x]]
    BY DEF Supersede
<1>2. call[c] \in CallState /\ call \in [Callers -> CallState] /\ memory \in [Memories -> MemoryRow]
    BY DEF MemoryInv, TypeOK
<1>3. pc = "supersede" \/ (pc = "store" /\ call[c].todo = {x})
    OBVIOUS
<1> HIDE DEF pc
<1>4. /\ state.pc = pc /\ state.todo = call[c].todo \ {x} /\ state.op = call[c].op
      /\ state.rows = call[c].rows /\ state.memory = call[c].memory
    BY <1>2 DEF CallState
<1> HIDE DEF state
<1>5. call'[c] = state
    BY <1>1, <1>2 DEF Does
<1>6. call[c].op = "ambient" /\ call[c].memory \in Memories
    BY DEF Supersede, At, MemoryInv, CallsAreSound, Sound
<1>7. memory'[x].status = "archived" /\ \A m \in Memories \ {x} : memory'[m] = memory[m]
    BY <1>1, <1>2, <1>6 DEF CaptureIsComplete
<1>8. memory'[call[c].memory].status = "active" => memory[call[c].memory].status = "active"
    BY <1>6, <1>7
<1>9. LeavesNoOther(c)
    BY <1>8 DEF LeavesNoOther
<1>10. \A m \in Ambient : memory'[m].status = "active" => m \in state.todo \cup {state.memory}
    BY <1>4, <1>6, <1>7, MemoryAssumption DEF CaptureIsComplete
<1>11. \A m \in state.todo : state.rows[m].status = "archived"
    BY <1>4, <1>6 DEF CaptureIsComplete
<1>12. state.pc = "supersede" \/ (state.pc = "store" /\ state.todo = {})
    BY <1>3, <1>4
<1> QED BY <1>5, <1>9, <1>10, <1>11, <1>12 DEF CaptureIsComplete

\* When the new value is stored, none is left to archive.
LEMMA StoreLeavesNoOther ==
    ASSUME MemoryInv, NEW c \in Callers, call[c].op = "ambient", CaptureIsComplete(c), Store(c)
    PROVE  CaptureIsComplete(c)' /\ LeavesNoOther(c)
<1>1. call'[c] = Idle
    BY DEF Store, Does, MemoryInv, TypeOK
<1>2. CaptureIsComplete(c)'
    BY <1>1 DEF CaptureIsComplete, Idle
<1>3. \A m \in Memories \ {call[c].memory} : memory'[m] = memory[m]
    BY DEF Store, MemoryInv, TypeOK
<1>4. \A m \in Ambient : memory[m].status = "active" => m = call[c].memory
    BY DEF Store, At, CaptureIsComplete
<1> QED BY <1>2, <1>3, <1>4, MemoryAssumption DEF LeavesNoOther

\* Every step, of a caller that is the only one.
LEMMA StepStaysComplete ==
    ASSUME MemoryInv, [Next]_vars, NEW c \in Callers, Only(c), CaptureIsComplete(c)
    PROVE  CaptureIsComplete(c)' /\ LeavesNoOther(c)
<1>1. CASE UNCHANGED vars
    BY <1>1 DEF vars, tables, CaptureIsComplete, LeavesNoOther
<1>2. ASSUME NEW q \in Processes, Crash(q)
      PROVE  CaptureIsComplete(c)' /\ LeavesNoOther(c)
    <2>1. memory' = memory /\ home[c] = q
        BY <1>2, MemoryAssumption DEF Crash, tables, Only
    <2>2. call'[c] = Idle
        BY <1>2, <2>1 DEF Crash
    <2>3. CaptureIsComplete(c)'
        BY <2>2 DEF CaptureIsComplete, Idle
    <2>4. LeavesNoOther(c)
        BY <2>1 DEF LeavesNoOther
    <2> QED BY <2>3, <2>4
<1>3. ASSUME NEW d \in Callers, NEW m \in Memories, CaptureAmbient(d, m)
      PROVE  CaptureIsComplete(c)' /\ LeavesNoOther(c)
    <2>1. d = c /\ memory' = memory
        BY <1>3 DEF CaptureAmbient, Begins, Only, tables
    <2>2. LeavesNoOther(c)
        BY <2>1 DEF LeavesNoOther
    <2> QED BY <1>3, <2>1, <2>2, CaptureAmbientIsComplete
<1> DEFINE Acts(d) ==
           \/ \E p \in Proposals :
                \/ \E m \in Memories : ProposeSave(d, p, m) \/ SaveDirect(d, p, m)
                \/ SaveProposal(d, p)
                \/ \E status \in Status : DecideProposal(d, p, status)
           \/ Store(d) \/ MarkSaved(d) \/ Audit(d) \/ RecordDecision(d) \/ RefreshCopy(d)
           \/ \E m \in Memories :
                \/ \E status \in Lifecycle : ChangeMemory(d, m, status)
                \/ HardDelete(d, m) \/ DeleteOutright(d, m)
                \/ \E sources \in SUBSET Memories : Merge(d, sources, m)
                \/ ReadSource(d, m) \/ Supersede(d, m)
           \/ Write(d) \/ Delete(d)
<1>4. ASSUME NEW d \in Callers, Acts(d)
      PROVE  d = c
    <2>1. home[d] # NoOne \/ call[d].pc # "idle"
        BY <1>4 DEF ProposeSave, SaveDirect, SaveProposal, DecideProposal, Store, MarkSaved,
            Audit, RecordDecision, RefreshCopy, ChangeMemory, HardDelete, DeleteOutright,
            Merge, ReadSource, Supersede, Write, Delete, Begins, At
    <2> QED BY <2>1, BusyIsHome DEF Only
<1>5. ASSUME Acts(c), call[c].op # "ambient"
      PROVE  CaptureIsComplete(c)' /\ LeavesNoOther(c)
    <2>1. call'[c].op # "ambient"
        BY <1>5, OthersDoNotCapture
    <2> QED BY <2>1, <1>5 DEF CaptureIsComplete, LeavesNoOther
<1>6. ASSUME Acts(c), call[c].op = "ambient"
      PROVE  CaptureIsComplete(c)' /\ LeavesNoOther(c)
    <2>1. call[c].pc \in {"supersede", "store"}
        BY <1>6 DEF CaptureIsComplete
    <2>2. Store(c) \/ \E m \in Memories : Supersede(c, m)
        BY <1>6, <2>1 DEF ProposeSave, SaveDirect, SaveProposal, DecideProposal, MarkSaved,
            Audit, RecordDecision, RefreshCopy, ChangeMemory, HardDelete, DeleteOutright,
            Merge, ReadSource, Write, Delete, Begins, At
    <2> QED BY <1>6, <2>2, StoreLeavesNoOther, SupersedeStaysComplete
<1>7. CASE \E d \in Callers : Acts(d)
    BY <1>4, <1>5, <1>6, <1>7
<1> HIDE DEF Acts
<1>8. CASE Next
    <2>1. \/ \E d \in Callers : Acts(d)
          \/ \E d \in Callers, m \in Memories : CaptureAmbient(d, m)
          \/ \E q \in Processes : Crash(q)
        BY <1>8 DEF Next, Acts
    <2> QED BY <2>1, <1>2, <1>3, <1>7
<1> QED BY <1>1, <1>8

\* docs/schema.md: a newer value of a slot archives the previous one.  Once a
\* single caller has stored a captured value no other value of its slot is active,
\* whatever crashes cut short its earlier captures (save_ambient_memory).
THEOREM NewestValueStands == Spec => NewestValueOnly
<1> DEFINE Stands == Alone => \A c \in Callers :
        call[c].op = "ambient" /\ memory[call[c].memory].status = "absent"
            /\ memory'[call[c].memory].status = "active"
        => \A m \in Ambient \ {call[c].memory} : memory'[m].status # "active"
<1>1. Init => CaptureInv
    BY DEF Init, CaptureInv, CaptureIsComplete, Idle
<1>2. MemoryInv /\ CaptureInv /\ [Next]_vars => CaptureInv'
    <2> SUFFICES ASSUME MemoryInv, CaptureInv, [Next]_vars, NEW c \in Callers, Only(c)'
                 PROVE  CaptureIsComplete(c)'
        BY DEF CaptureInv
    <2>1. home' = home
        BY HomesStay
    <2>2. Only(c) /\ CaptureIsComplete(c)
        BY <2>1 DEF Only, CaptureInv
    <2> QED BY <2>2, StepStaysComplete
<1>3. MemoryInv /\ CaptureInv /\ [Next]_vars => Stands
    <2> SUFFICES ASSUME MemoryInv, CaptureInv, [Next]_vars, NEW c \in Callers, Only(c),
                        NEW d \in Callers
                 PROVE  LeavesNoOther(d)
        BY DEF Alone, LeavesNoOther
    <2>1. CASE d = c
        BY <2>1, StepStaysComplete DEF CaptureInv
    <2>2. CASE d # c
        <3>1. call[d] = Idle
            BY <2>2 DEF Only, MemoryInv, CallsAreSound
        <3> QED BY <3>1 DEF LeavesNoOther, Idle
    <2> QED BY <2>1, <2>2
<1>4. MemoryInv /\ CaptureInv /\ [Next]_vars => [Stands]_vars
    BY <1>3
<1>5. Spec => []CaptureInv
    BY MemoryInvariant, <1>1, <1>2, PTL DEF Spec
<1>6. Spec => [][Stands]_vars
    BY MemoryInvariant, <1>5, <1>4, PTL DEF Spec
<1> QED BY <1>6 DEF NewestValueOnly

=============================================================================

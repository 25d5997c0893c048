---------------------------- MODULE BridgeProofs ----------------------------
(***************************************************************************)
(* Two parts of the bridge that share a daemon.                            *)
(*                                                                         *)
(* Watcher: while the agent only appends to its transcript, no number of   *)
(* watchers, kills and failed transactions makes the cursor run ahead of   *)
(* the spool or stop inside a line.                                        *)
(*                                                                         *)
(* Sessions: for any number of sessions, hooks and drains, a session       *)
(* marked reconciled was declared to the gateway, and the bridge never     *)
(* observes more messages than were captured.                              *)
(***************************************************************************)
EXTENDS Watcher, Sessions, FiniteSetTheorems, SequenceTheorems, TLAPS

-----------------------------------------------------------------------------
(* Watcher                                                                 *)

\* Nothing is spooled before anything was written, and no offset is on record.
LEMMA InitWatcherInv ==
    ASSUME WatcherInit
    PROVE  WatcherInv
<1>1. WatcherTypeOK
  BY WatcherAssumption DEF WatcherInit, WatcherTypeOK, Idle, WatcherState, Offset
<1>2. OffsetsOnBoundary
  BY DEF WatcherInit, OffsetsOnBoundary, Idle
<1>3. SpooledBefore(cursor, spooled)
  BY DEF WatcherInit, SpooledBefore
<1>4. ASSUME NEW w \in Watchers
      PROVE  /\ SpooledBefore(watcher[w].offset, spooled)
             /\ watcher[w].pc = "enqueue" =>
                    SpooledBefore(watcher[w].end, spooled \cup watcher[w].found)
             /\ watcher[w].pc = "advance" => SpooledBefore(watcher[w].end, spooled)
  BY DEF WatcherInit, SpooledBefore, Idle
<1> QED
  BY <1>1, <1>2, <1>3, <1>4 DEF WatcherInv

-----------------------------------------------------------------------------

\* What a watcher carries, as the invariant has it.
Sound(s) ==
    /\ s \in WatcherState
    /\ s.offset % 2 = 0 /\ s.offset <= 2 * Len(text)
    /\ s.end % 2 = 0 /\ s.end <= 2 * Len(text)
    /\ SpooledBefore(s.offset, spooled)
    /\ s.pc = "enqueue" => SpooledBefore(s.end, spooled \cup s.found)
    /\ s.pc = "advance" => SpooledBefore(s.end, spooled)

\* What holds of the file, the cursor and the spool.
Grounded ==
    /\ text \in Seq(Lines) /\ partial \in Seq(Lines)
    /\ Len(partial) <= 1 /\ Len(text) + Len(partial) <= MaxLines
    /\ cursor \in Offset /\ cursor % 2 = 0 /\ cursor <= 2 * Len(text)
    /\ spooled \subseteq Lines
    /\ failures \in 0 .. MaxFailures
    /\ SpooledBefore(cursor, spooled)

\* WatcherInv, said watcher by watcher.
LEMMA InvIsSound ==
    WatcherInv <=> /\ Grounded
                   /\ watcher \in [Watchers -> WatcherState]
                   /\ \A w \in Watchers : Sound(watcher[w])
BY DEF WatcherInv, WatcherTypeOK, OffsetsOnBoundary, Grounded, Sound

\* The same of the next state.
LEMMA InvIsSoundNext ==
    WatcherInv' <=> /\ Grounded'
                    /\ watcher' \in [Watchers -> WatcherState]
                    /\ \A w \in Watchers : Sound(watcher[w])'
BY DEF WatcherInv, WatcherTypeOK, OffsetsOnBoundary, Grounded, Sound

\* A watcher without a file in hand is sound.
LEMMA IdleIsSound ==
    ASSUME Grounded
    PROVE  Sound(Idle)
<1>1. Len(text) \in Nat
  BY DEF Grounded
<1>2. 0 \in Offset
  BY WatcherAssumption DEF Offset
<1>3. Idle \in WatcherState /\ Idle.offset = 0 /\ Idle.end = 0 /\ Idle.pc = "read"
  BY <1>2 DEF Idle, WatcherState
<1>4. SpooledBefore(0, spooled)
  BY <1>1 DEF SpooledBefore
<1> QED
  BY <1>1, <1>3, <1>4 DEF Sound

\* A spool that grows, over the same file, takes nothing from a watcher.
LEMMA SpoolGrows ==
    ASSUME NEW s, Sound(s), spooled \subseteq spooled', UNCHANGED text
    PROVE  Sound(s)'
BY DEF Sound, SpooledBefore

\* The file after a line is finished.
LEMMA OneMoreLine ==
    ASSUME Grounded, Len(partial) = 1, text' = text \o partial
    PROVE  /\ Len(text) \in Nat
           /\ text' \in Seq(Lines) /\ Len(text') = Len(text) + 1
           /\ \A k \in 1 .. Len(text) : text'[k] = text[k]
<1>1. text \in Seq(Lines) /\ partial \in Seq(Lines)
  BY DEF Grounded
<1>2. Len(text) \in Nat
  BY <1>1, LenProperties
<1>3. /\ text \o partial \in Seq(Lines)
      /\ Len(text \o partial) = Len(text) + Len(partial)
      /\ \A k \in 1 .. Len(text) + Len(partial) :
            (text \o partial)[k] = IF k <= Len(text) THEN text[k]
                                   ELSE partial[k - Len(text)]
  BY <1>1, ConcatProperties, ZenonT(20)
<1>4. ASSUME NEW k \in 1 .. Len(text)
      PROVE  text'[k] = text[k]
  <2>1. k \in 1 .. Len(text) + Len(partial) /\ k <= Len(text)
    BY <1>2
  <2> QED
    BY <1>3, <2>1
<1> QED
  BY <1>2, <1>3, <1>4

\* What lies before an offset stays there when a line is appended.
LEMMA LineAppended ==
    ASSUME Grounded, Len(partial) = 1, text' = text \o partial,
           NEW o \in Nat, NEW S, o <= 2 * Len(text), SpooledBefore(o, S)
    PROVE  \A k \in 1 .. Len(text') : 2 * k <= o => text'[k] \in S \cup Unusable
<1>1. Len(text') = Len(text) + 1 /\ \A k \in 1 .. Len(text) : text'[k] = text[k]
  BY OneMoreLine
<1>2. Len(text) \in Nat
  BY OneMoreLine
<1>3. ASSUME NEW k \in 1 .. Len(text'), 2 * k <= o
      PROVE  text'[k] \in S \cup Unusable
  <2>1. k \in 1 .. Len(text)
    BY <1>1, <1>2, <1>3
  <2> QED
    BY <1>1, <1>3, <2>1 DEF SpooledBefore
<1> QED
  BY <1>3

\* One more line lies behind every offset that is carried.
LEMMA FileGrows ==
    ASSUME Grounded, NEW s, Sound(s), Len(partial) = 1,
           text' = text \o partial, UNCHANGED spooled
    PROVE  Sound(s)'
<1>1. Len(text') = Len(text) + 1 /\ Len(text) \in Nat
  BY OneMoreLine
<1>2. s.offset \in Nat /\ s.end \in Nat
  BY WatcherAssumption DEF Sound, WatcherState, Offset
<1>3. s.offset <= 2 * Len(text') /\ s.end <= 2 * Len(text')
  BY <1>1, <1>2 DEF Sound
<1>4. SpooledBefore(s.offset, spooled)'
  BY <1>2, LineAppended DEF Sound, SpooledBefore
<1>5. s.pc = "enqueue" => SpooledBefore(s.end, spooled \cup s.found)'
  BY <1>2, LineAppended DEF Sound, SpooledBefore
<1>6. s.pc = "advance" => SpooledBefore(s.end, spooled)'
  BY <1>2, LineAppended DEF Sound, SpooledBefore
<1> QED
  BY <1>3, <1>4, <1>5, <1>6 DEF Sound

\* A step that changes neither file nor spool leaves a watcher's state sound.
LEMMA NothingChanges ==
    ASSUME NEW s, Sound(s), UNCHANGED <<text, spooled>>
    PROVE  Sound(s)'
BY DEF Sound, SpooledBefore

-----------------------------------------------------------------------------
(* What one watcher does *)

\* The offset a sound watcher read lies in the file, so parsing begins there
\* and ends behind the last complete line.
LEMMA ParsesToTheLastLine ==
    ASSUME Grounded, NEW s, Sound(s)
    PROVE  /\ Start(s.offset) = s.offset
           /\ Consumed(s.offset) = 2 * Len(text)
           /\ 2 * Len(text) \in Offset
<1>1. Len(text) \in Nat /\ Len(partial) \in Nat
  BY LenProperties DEF Grounded
<1>2. s.offset \in Nat /\ s.offset <= 2 * Len(text)
  BY WatcherAssumption DEF Sound, WatcherState, Offset
<1>3. Start(s.offset) = s.offset
  BY <1>1, <1>2 DEF Start, Length
<1>4. 2 * Len(text) \in Offset
  BY <1>1, WatcherAssumption DEF Offset, Grounded
<1> QED
  BY <1>1, <1>2, <1>3, <1>4 DEF Consumed

\* A line behind an offset that is no line boundary's half is a whole line.
LEMMA BehindTheOffset ==
    ASSUME NEW o \in Nat, o % 2 = 0, NEW k \in Nat \ {0}, ~(2 * k <= o)
    PROVE  o <= 2 * (k - 1)
OBVIOUS

\* What a watcher parsed covers the lines up to the end it noted.
LEMMA ParsedIsSound ==
    ASSUME Grounded, NEW s, Sound(s),
           NEW found, found = WholeLines(s.offset, 2 * Len(text)) \ Unusable
    PROVE  Sound([s EXCEPT !.pc = "enqueue", !.end = 2 * Len(text), !.found = found])
<1> DEFINE r == [s EXCEPT !.pc = "enqueue", !.end = 2 * Len(text), !.found = found]
<1>1. Len(text) \in Nat
  BY LenProperties DEF Grounded
<1>2. s \in WatcherState /\ s.offset \in Nat /\ s.offset % 2 = 0
  BY WatcherAssumption DEF Sound, WatcherState, Offset
<1>3. found \subseteq Lines
  BY <1>1, LenProperties, ElementOfSeq DEF WholeLines, Grounded
<1>4. 2 * Len(text) \in Offset
  BY ParsesToTheLastLine
<1>5. r \in WatcherState /\ r.offset = s.offset /\ r.end = 2 * Len(text)
        /\ r.found = found /\ r.pc = "enqueue"
  BY <1>2, <1>3, <1>4 DEF WatcherState
<1>6. ASSUME NEW k \in 1 .. Len(text)
      PROVE  text[k] \in spooled \cup found \cup Unusable
  <2>1. CASE 2 * k <= s.offset
    BY <2>1 DEF Sound, SpooledBefore
  <2>2. CASE ~(2 * k <= s.offset)
    <3>1. k \in Nat \ {0}
      BY <1>1
    <3>2. s.offset <= 2 * (k - 1)
      BY <1>2, <2>2, <3>1, BehindTheOffset
    <3>3. 2 * k <= 2 * Len(text)
      BY <1>1
    <3>4. text[k] \in WholeLines(s.offset, 2 * Len(text))
      BY <3>2, <3>3 DEF WholeLines
    <3> QED
      BY <3>4
  <2> QED
    BY <2>1, <2>2
<1>7. SpooledBefore(r.end, spooled \cup r.found)
  BY <1>5, <1>6 DEF SpooledBefore
<1>8. (2 * Len(text)) % 2 = 0
  BY <1>1
<1> HIDE DEF r
<1>9. Sound(r)
  BY <1>1, <1>5, <1>7, <1>8 DEF Sound
<1> QED
  BY <1>9 DEF r

\* The cursor is as sound an offset as any.
LEMMA CursorReadIsSound ==
    ASSUME Grounded
    PROVE  Sound([pc |-> "parse", offset |-> cursor, found |-> {}, end |-> 0])
<1>1. Len(text) \in Nat
  BY LenProperties DEF Grounded
<1>2. 0 \in Offset
  BY WatcherAssumption DEF Offset
<1>3. cursor \in Offset
  BY DEF Grounded
<1>4. PICK r : r = [pc |-> "parse", offset |-> cursor, found |-> {}, end |-> 0]
  OBVIOUS
<1>5. r \in WatcherState /\ r.pc = "parse" /\ r.offset = cursor /\ r.end = 0
  BY <1>2, <1>3, <1>4 DEF WatcherState
<1>6. cursor % 2 = 0 /\ cursor <= 2 * Len(text) /\ SpooledBefore(cursor, spooled)
  BY DEF Grounded
<1>7. Sound(r)
  BY <1>1, <1>5, <1>6 DEF Sound
<1> QED
  BY <1>4, <1>7

\* Once the events it found are spooled, a watcher may advance the cursor.
LEMMA EnqueuedIsSound ==
    ASSUME NEW s, Sound(s), s.pc = "enqueue",
           UNCHANGED text, spooled' = spooled \cup s.found
    PROVE  Sound([s EXCEPT !.pc = "advance"])'
<1> DEFINE r == [s EXCEPT !.pc = "advance"]
<1>1. s \in WatcherState
  BY DEF Sound
<1>2. r \in WatcherState /\ r.offset = s.offset /\ r.end = s.end /\ r.pc = "advance"
  BY <1>1 DEF WatcherState
<1> HIDE DEF r
<1>3. Sound(r)'
  BY <1>2 DEF Sound, SpooledBefore
<1> QED
  BY <1>3 DEF r

-----------------------------------------------------------------------------
(* The invariant *)

\* One watcher's step that leaves the file alone, and whatever it leaves
\* behind is sound: then so are all watchers.
LEMMA OneWatcherSteps ==
    ASSUME WatcherInv, NEW w \in Watchers, NEW s,
           Sound(s)', Grounded', Go(w, s),
           UNCHANGED text, spooled \subseteq spooled'
    PROVE  WatcherInv'
<1>1. s \in WatcherState
  BY DEF Sound
<1>2. watcher' \in [Watchers -> WatcherState]
  BY <1>1, InvIsSound DEF Go
<1>3. ASSUME NEW v \in Watchers
      PROVE  Sound(watcher[v])'
  <2>1. CASE v = w
    <3>1. watcher'[v] = s
      BY <2>1, InvIsSound DEF Go
    <3> QED
      BY <3>1 DEF Sound, SpooledBefore
  <2>2. CASE v # w
    <3>1. watcher'[v] = watcher[v]
      BY <2>2, InvIsSound DEF Go
    <3>2. Sound(watcher[v])
      BY InvIsSound
    <3> QED
      BY <3>1, <3>2 DEF Sound, SpooledBefore
  <2> QED
    BY <2>1, <2>2
<1> QED
  BY <1>2, <1>3, InvIsSoundNext

\* A step of the spool or the agent that no watcher takes part in.
LEMMA NoWatcherSteps ==
    ASSUME WatcherInv, UNCHANGED watcher, Grounded',
           \A w \in Watchers : Sound(watcher[w])'
    PROVE  WatcherInv'
BY InvIsSound, InvIsSoundNext

\* Every step keeps the invariant.
LEMMA InvStep ==
    ASSUME WatcherInv, [WatcherNext]_watcherVars
    PROVE  WatcherInv'
<1>1. Grounded /\ watcher \in [Watchers -> WatcherState]
        /\ \A w \in Watchers : Sound(watcher[w])
  BY InvIsSound
<1>2. ASSUME UNCHANGED <<text, partial, cursor, spooled>>, failures' \in 0 .. MaxFailures
      PROVE  Grounded'
  BY <1>1, <1>2 DEF Grounded, SpooledBefore
<1>3. ASSUME Failure PROVE failures' \in 0 .. MaxFailures
  BY <1>1, <1>3, WatcherAssumption DEF Failure, Grounded
<1>4. ASSUME NEW line \in Lines, BeginLine(line)
      PROVE  WatcherInv'
  <2>1. partial' \in Seq(Lines) /\ Len(partial') = 1
    BY <1>4 DEF BeginLine
  <2>2. Len(text) \in Nat /\ Len(text) < MaxLines
    BY <1>1, <1>4, LenProperties DEF BeginLine, Grounded
  <2>3. Grounded'
    BY <1>1, <1>4, <2>1, <2>2, WatcherAssumption DEF BeginLine, Grounded, SpooledBefore
  <2>4. \A w \in Watchers : Sound(watcher[w])'
    BY <1>1, <1>4, NothingChanges DEF BeginLine
  <2> QED
    BY <1>4, <2>3, <2>4, NoWatcherSteps DEF BeginLine
<1>5. ASSUME NEW line \in Lines, HookCaptures(line)
      PROVE  WatcherInv'
  <2>1. Grounded'
    BY <1>1, <1>5 DEF HookCaptures, Grounded, SpooledBefore
  <2>2. \A w \in Watchers : Sound(watcher[w])'
    BY <1>1, <1>5, SpoolGrows DEF HookCaptures
  <2> QED
    BY <1>5, <2>1, <2>2, NoWatcherSteps DEF HookCaptures
<1>6. ASSUME FinishLine
      PROVE  WatcherInv'
  <2>1. Len(partial) = 1
    <3>1. partial \in Seq(Lines) /\ Len(partial) <= 1 /\ partial # <<>>
      BY <1>1, <1>6 DEF Grounded, FinishLine
    <3>2. Len(partial) \in Nat \ {0}
      BY <3>1, EmptySeq, ZenonT(20)
    <3>3. \A n \in Nat \ {0} : n <= 1 => n = 1
      OBVIOUS
    <3> QED
      BY <3>1, <3>2, <3>3, Zenon
  <2>2. /\ Len(text) \in Nat /\ text' \in Seq(Lines) /\ Len(text') = Len(text) + 1
        /\ partial' = <<>> /\ Len(partial') = 0 /\ partial' \in Seq(Lines)
    BY <1>1, <1>6, <2>1, OneMoreLine, EmptySeq DEF FinishLine
  <2>3. SpooledBefore(cursor, spooled)'
    <3>1. cursor \in Nat /\ cursor <= 2 * Len(text) /\ SpooledBefore(cursor, spooled)
      BY <1>1, WatcherAssumption DEF Grounded, Offset
    <3> QED
      BY <1>1, <1>6, <2>1, <3>1, LineAppended DEF FinishLine, SpooledBefore
  <2>4. Grounded'
    <3>1. cursor \in Nat /\ cursor <= 2 * Len(text)
      BY <1>1, WatcherAssumption DEF Grounded, Offset
    <3>2. cursor <= 2 * Len(text')
      BY <2>2, <3>1
    <3>3. Len(text') + Len(partial') <= MaxLines
      BY <1>1, <2>1, <2>2, WatcherAssumption DEF Grounded
    <3>4. UNCHANGED <<cursor, spooled, failures>>
      BY <1>6 DEF FinishLine
    <3>5. /\ cursor \in Offset /\ cursor % 2 = 0 /\ spooled \subseteq Lines
          /\ failures \in 0 .. MaxFailures
      BY <1>1 DEF Grounded
    <3>6. text' \in Seq(Lines) /\ partial' \in Seq(Lines) /\ Len(partial') <= 1
      BY <2>2
    <3> QED
      BY <2>3, <3>2, <3>3, <3>4, <3>5, <3>6 DEF Grounded
  <2>5. \A w \in Watchers : Sound(watcher[w])'
    BY <1>1, <1>6, <2>1, FileGrows DEF FinishLine
  <2> QED
    BY <1>6, <2>4, <2>5, NoWatcherSteps DEF FinishLine
<1>7. ASSUME NEW w \in Watchers, ReadCursor(w)
      PROVE  WatcherInv'
  <2>1. PICK s : s = [pc |-> "parse", offset |-> cursor, found |-> {}, end |-> 0]
    OBVIOUS
  <2>2. Sound(s)
    BY <1>1, <2>1, CursorReadIsSound
  <2>3. Go(w, s) /\ UNCHANGED <<text, partial, cursor, spooled, failures>>
    BY <1>7, <2>1 DEF ReadCursor
  <2>4. Sound(s)' /\ Grounded'
    BY <1>1, <1>2, <2>2, <2>3, NothingChanges DEF Grounded
  <2> QED
    BY <2>3, <2>4, OneWatcherSteps
<1>8. ASSUME NEW w \in Watchers, Parse(w)
      PROVE  WatcherInv'
  <2>1. PICK s : s = [watcher[w] EXCEPT
                        !.pc = "enqueue", !.end = 2 * Len(text),
                        !.found = WholeLines(watcher[w].offset, 2 * Len(text)) \ Unusable]
    OBVIOUS
  <2>2. Sound(s)
    BY <1>1, <2>1, ParsedIsSound
  <2>3. Start(watcher[w].offset) = watcher[w].offset
          /\ Consumed(watcher[w].offset) = 2 * Len(text)
    BY <1>1, ParsesToTheLastLine
  <2>4. (Go(w, s) \/ Go(w, Idle)) /\ UNCHANGED <<text, partial, cursor, spooled, failures>>
    BY <1>8, <2>1, <2>3 DEF Parse
  <2>5. Grounded'
    BY <1>1, <1>2, <2>4 DEF Grounded
  <2>6. Sound(s)'
    BY <2>2, <2>4, NothingChanges
  <2>7. Sound(Idle)'
    BY <1>1, <2>4, IdleIsSound, NothingChanges
  <2>8. CASE Go(w, s)
    BY <2>4, <2>5, <2>6, <2>8, OneWatcherSteps
  <2>9. CASE Go(w, Idle)
    BY <2>4, <2>5, <2>7, <2>9, OneWatcherSteps
  <2> QED
    BY <2>4, <2>8, <2>9
<1>9. ASSUME NEW w \in Watchers, EnqueueMany(w)
      PROVE  WatcherInv'
  <2>1. CASE spooled' = spooled \cup watcher[w].found /\ UNCHANGED failures
               /\ Go(w, [watcher[w] EXCEPT !.pc = "advance"])
    <3>1. watcher[w].found \subseteq Lines
      BY <1>1 DEF WatcherState
    <3>2. Grounded'
      BY <1>1, <1>9, <2>1, <3>1 DEF EnqueueMany, Grounded, SpooledBefore
    <3>3. PICK v : v = watcher[w]
      OBVIOUS
    <3>4. PICK s : s = [v EXCEPT !.pc = "advance"]
      OBVIOUS
    <3>5. Sound(v) /\ v.pc = "enqueue" /\ UNCHANGED text /\ spooled' = spooled \cup v.found
      BY <1>1, <1>9, <2>1, <3>3 DEF EnqueueMany
    <3>6. Sound(s)'
      BY <3>4, <3>5, EnqueuedIsSound
    <3>7. Go(w, s)
      BY <2>1, <3>3, <3>4
    <3> QED
      BY <3>2, <3>5, <3>6, <3>7, OneWatcherSteps
  <2>2. CASE Failure /\ Go(w, Idle) /\ UNCHANGED spooled
    <3>1. Sound(Idle)' /\ Grounded'
      BY <1>1, <1>2, <1>3, <1>9, <2>2, IdleIsSound, NothingChanges DEF EnqueueMany
    <3> QED
      BY <1>9, <2>2, <3>1, OneWatcherSteps DEF EnqueueMany
  <2> QED
    BY <1>9, <2>1, <2>2 DEF EnqueueMany
<1>10. ASSUME NEW w \in Watchers, AdvanceCursor(w)
       PROVE  WatcherInv'
  <2>1. Sound(Idle)'
    BY <1>1, <1>10, IdleIsSound, NothingChanges DEF AdvanceCursor
  <2>2. CASE cursor' = watcher[w].end /\ UNCHANGED failures
    <3>1. /\ watcher[w].end \in Offset /\ watcher[w].end % 2 = 0
          /\ watcher[w].end <= 2 * Len(text) /\ SpooledBefore(watcher[w].end, spooled)
      BY <1>1, <1>10 DEF Sound, AdvanceCursor, WatcherState
    <3>2. Grounded'
      BY <1>1, <1>10, <2>2, <3>1 DEF AdvanceCursor, Grounded, SpooledBefore
    <3> QED
      BY <1>10, <2>1, <3>2, OneWatcherSteps DEF AdvanceCursor
  <2>3. CASE Failure /\ UNCHANGED cursor
    <3>1. Grounded'
      BY <1>2, <1>3, <1>10, <2>3 DEF AdvanceCursor
    <3> QED
      BY <1>10, <2>1, <3>1, OneWatcherSteps DEF AdvanceCursor
  <2> QED
    BY <1>10, <2>2, <2>3 DEF AdvanceCursor
<1>11. ASSUME NEW w \in Watchers, Killed(w)
       PROVE  WatcherInv'
  <2>1. Sound(Idle)' /\ Grounded'
    BY <1>1, <1>2, <1>3, <1>11, IdleIsSound, NothingChanges DEF Killed
  <2> QED
    BY <1>11, <2>1, OneWatcherSteps DEF Killed
<1>12. CASE UNCHANGED watcherVars
  <2>1. \A w \in Watchers : Sound(watcher[w])'
    BY <1>1, <1>12, NothingChanges DEF watcherVars
  <2>2. Grounded'
    BY <1>1, <1>12 DEF watcherVars, Grounded, SpooledBefore
  <2> QED
    BY <1>12, <2>1, <2>2, NoWatcherSteps DEF watcherVars
<1> QED
  BY <1>4, <1>5, <1>6, <1>7, <1>8, <1>9, <1>10, <1>11, <1>12 DEF WatcherNext, Pass

-----------------------------------------------------------------------------

\* What lies before the cursor or before an
\* offset that a watcher carries is spooled, and all of these are boundaries.
THEOREM WatcherInvariant == WatcherSpec => []WatcherInv
<1>1. WatcherInit => WatcherInv
  BY InitWatcherInv
<1>2. WatcherInv /\ [WatcherNext]_watcherVars => WatcherInv'
  BY InvStep
<1> QED
  BY <1>1, <1>2, PTL DEF WatcherSpec

\* The cursor never runs ahead of the spool.
THEOREM CursorSkipsNothing == WatcherSpec => []NothingSkipped
<1>1. WatcherInv => NothingSkipped
  BY DEF WatcherInv, SpooledBefore, NothingSkipped
<1> QED
  BY <1>1, WatcherInvariant, PTL

\* The cursor never stops inside a line.
THEOREM CursorStaysOnBoundary == WatcherSpec => []CursorOnBoundary
<1>1. WatcherInv => CursorOnBoundary
  BY DEF WatcherInv, OffsetsOnBoundary, CursorOnBoundary
<1> QED
  BY <1>1, WatcherInvariant, PTL

-----------------------------------------------------------------------------
(* Any finite set in any strict total order: ranks are 1, 2, ...           *)

\* The elements of S that come before s.
Below(S, R, s) == {t \in S : <<t, s>> \in R}

\* ORDER BY gives every row of the result one place, and every place a row.
LEMMA EveryPlaceIsTaken ==
    ASSUME NEW S, IsFiniteSet(S), NEW R,
           \A s \in S : <<s, s>> \notin R,
           \A s, t, u \in S : <<s, t>> \in R /\ <<t, u>> \in R => <<s, u>> \in R,
           \A s, t \in S : s = t \/ <<s, t>> \in R \/ <<t, s>> \in R,
           NEW i \in 1 .. Cardinality(S)
    PROVE  \E s \in S : Cardinality(Below(S, R, s)) + 1 = i
<1> DEFINE n == Cardinality(S)
           place == [s \in S |-> Cardinality(Below(S, R, s)) + 1]
<1>1. n \in Nat
  BY FS_CardinalityType
<1>2. ASSUME NEW s \in S
      PROVE  /\ IsFiniteSet(Below(S, R, s))
             /\ Cardinality(Below(S, R, s)) \in Nat
             /\ Cardinality(Below(S, R, s)) < n
  <2>1. Below(S, R, s) \in SUBSET S /\ s \notin Below(S, R, s)
    BY DEF Below
  <2>2. IsFiniteSet(Below(S, R, s))
    BY <2>1, FS_Subset
  <2>3. Cardinality(Below(S, R, s)) \in Nat
    BY <2>2, FS_CardinalityType
  <2>4. Cardinality(Below(S, R, s)) <= n /\ n # Cardinality(Below(S, R, s))
    BY <2>1, FS_Subset
  <2> QED
    BY <1>1, <2>2, <2>3, <2>4
<1>3. place \in [S -> 1 .. n]
  BY <1>1, <1>2
<1>4. ASSUME NEW s \in S, NEW t \in S, <<s, t>> \in R
      PROVE  place[s] # place[t]
  <2>1. Below(S, R, s) \in SUBSET Below(S, R, t)
    BY <1>4 DEF Below
  <2>2. s \in Below(S, R, t) /\ s \notin Below(S, R, s)
    BY <1>4 DEF Below
  <2>3. Cardinality(Below(S, R, t)) # Cardinality(Below(S, R, s))
    BY <1>2, <2>1, <2>2, FS_Subset
  <2> QED
    BY <1>2, <2>3
<1>5. \A s, t \in S : place[s] = place[t] => s = t
  BY <1>4
<1>6. place \in Injection(S, 1 .. n)
  BY <1>3, <1>5 DEF Injection, IsInjective
<1>7. IsFiniteSet(1 .. n) /\ Cardinality(1 .. n) = n
  BY <1>1, FS_Interval
<1>8. place \in Surjection(S, 1 .. n)
  BY <1>6, <1>7, FS_Injection
<1> QED
  BY <1>8 DEF Surjection

-----------------------------------------------------------------------------
(* The inductive invariant, said of one hook, drain and session at a time.  *)

HookStates == [pc : {"count", "upsert", "mark"}, kind : Kinds, session : SessionIds,
               count : Nat, at : Nat] \cup {IdleHook}
Declarations == [session : SessionIds, observed : Nat]
DrainStates == [pc : {"idle", "post", "mark"}, todo : Seq(Declarations)]

\* So many messages were captured, or claimed by an operator.
Justified(n, s, caps, claims) == n <= caps[s] \/ n <= claims[s]

\* A hook carries such a count, short of the messages it found by those pruned.
HookIsSound(v, caps, claims, held) ==
    /\ v \in HookStates
    /\ v # IdleHook =>
        /\ Justified(v.count, v.session, caps, claims)
        /\ v.at <= v.count + (caps[v.session] - held[v.session])

\* A drain carries declarations of sessions that did end, and marks the one it made.
DrainIsSound(v, caps, claims, ended, told) ==
    /\ v \in DrainStates
    /\ v.pc # "idle" => v.todo # <<>>
    /\ \A i \in 1 .. Len(v.todo) :
        /\ Justified(v.todo[i].observed, v.todo[i].session, caps, claims)
        /\ ended[v.todo[i].session] > 0
    /\ v.pc = "mark" => told[v.todo[1].session].ends > 0

HooksAreSound == \A h \in Hooks : HookIsSound(hook[h], captured, claimed, rows)
DrainsAreSound == \A d \in Drains : DrainIsSound(drain[d], captured, claimed, ends, heard)

SessionIsSound(s) ==
    /\ rows[s] <= captured[s] /\ stored[s] <= captured[s]
    /\ Justified(entry[s].observed, s, captured, claimed)
    /\ Justified(heard[s].observed, s, captured, claimed)
    /\ noted[s] <= entry[s].observed + (captured[s] - rows[s])
    /\ entry[s].ended => entry[s].known /\ ends[s] > 0
    /\ entry[s].declared => heard[s].ends > 0

\* The rows of the table stand in one order.
RowsAreOrdered ==
    /\ \A s \in SessionIds : <<s, s>> \notin before
    /\ \A s, t, u \in SessionIds :
        <<s, t>> \in before /\ <<t, u>> \in before => <<s, u>> \in before
    /\ \A s, t \in SessionIds :
        entry[s].known /\ entry[t].known => s = t \/ <<s, t>> \in before \/ <<t, s>> \in before
    /\ \A s, t \in SessionIds : <<s, t>> \in before => entry[s].known /\ entry[t].known

SessionsType ==
    /\ captured \in [SessionIds -> Nat] /\ rows \in [SessionIds -> Nat]
    /\ stored \in [SessionIds -> Nat] /\ ends \in [SessionIds -> Nat]
    /\ entry \in [SessionIds ->
                    [known : BOOLEAN, observed : Nat, ended : BOOLEAN, declared : BOOLEAN]]
    /\ heard \in [SessionIds -> [ends : Nat, observed : Nat]]
    /\ hook \in [Hooks -> HookStates]
    /\ drain \in [Drains -> DrainStates]
    /\ claimed \in [SessionIds -> Nat] /\ noted \in [SessionIds -> Nat]

SessionsInv ==
    /\ SessionsType
    /\ \A s \in SessionIds : SessionIsSound(s)
    /\ HooksAreSound
    /\ DrainsAreSound
    /\ RowsAreOrdered

-----------------------------------------------------------------------------
LEMMA IdlesAreSound ==
    /\ \A caps, claims, held : HookIsSound(IdleHook, caps, claims, held)
    /\ \A caps, claims, ended, told : DrainIsSound(IdleDrain, caps, claims, ended, told)
<1>1. \A caps, claims, held : HookIsSound(IdleHook, caps, claims, held)
  BY DEF HookIsSound, HookStates
<1>2. IdleDrain \in DrainStates
  BY EmptySeq DEF IdleDrain, DrainStates
<1>3. Len(IdleDrain.todo) = 0
  BY DEF IdleDrain
<1> QED
  BY <1>1, <1>2, <1>3 DEF DrainIsSound, IdleDrain

\* Nothing is known of any session.
LEMMA InitSessionsInv == Init => SessionsInv
<1> SUFFICES ASSUME Init PROVE SessionsInv
  OBVIOUS
<1>1. SessionsType
  BY IdlesAreSound DEF Init, SessionsType, HookIsSound, DrainIsSound
<1>2. \A s \in SessionIds : SessionIsSound(s)
  BY DEF Init, SessionIsSound, Justified
<1>3. HooksAreSound
  BY IdlesAreSound DEF Init, HooksAreSound
<1>4. DrainsAreSound
  BY IdlesAreSound DEF Init, DrainsAreSound
<1>5. RowsAreOrdered
  BY DEF Init, RowsAreOrdered
<1> QED
  BY <1>1, <1>2, <1>3, <1>4, <1>5 DEF SessionsInv

\* What hooks and drains carry stays sound while messages and ends only add up, and
\* what was heard is not unheard.
Grows ==
    \A s \in SessionIds :
        /\ captured[s] \in Nat /\ captured'[s] \in Nat /\ captured[s] <= captured'[s]
        /\ ends[s] \in Nat /\ ends'[s] \in Nat /\ ends[s] <= ends'[s]
        /\ claimed[s] \in Nat /\ claimed'[s] \in Nat /\ claimed[s] <= claimed'[s]
        /\ rows[s] \in Nat /\ rows'[s] \in Nat
        /\ captured[s] - rows[s] <= captured'[s] - rows'[s]
        /\ heard[s].ends > 0 => heard'[s].ends > 0

LEMMA CarriedStaysSound ==
    ASSUME Grows
    PROVE  /\ \A v : HookIsSound(v, captured, claimed, rows) => HookIsSound(v, captured', claimed', rows')
           /\ \A v : DrainIsSound(v, captured, claimed, ends, heard)
                    => DrainIsSound(v, captured', claimed', ends', heard')
<1>1. ASSUME NEW v, HookIsSound(v, captured, claimed, rows)
      PROVE  HookIsSound(v, captured', claimed', rows')
  <2>1. CASE v = IdleHook
    BY <2>1, IdlesAreSound
  <2>2. CASE v # IdleHook
    <3>1. v \in HookStates /\ v.session \in SessionIds /\ v.count \in Nat /\ v.at \in Nat
      BY <1>1, <2>2 DEF HookIsSound, HookStates
    <3>2. /\ Justified(v.count, v.session, captured, claimed)
          /\ v.at <= v.count + (captured[v.session] - rows[v.session])
      BY <1>1, <2>2 DEF HookIsSound
    <3>3. Justified(v.count, v.session, captured', claimed')
      BY <3>1, <3>2 DEF Grows, Justified
    <3>4. v.at <= v.count + (captured'[v.session] - rows'[v.session])
      BY <3>1, <3>2 DEF Grows
    <3> QED
      BY <3>1, <3>3, <3>4 DEF HookIsSound
  <2> QED
    BY <2>1, <2>2
<1>2. ASSUME NEW v, DrainIsSound(v, captured, claimed, ends, heard)
      PROVE  DrainIsSound(v, captured', claimed', ends', heard')
  <2>1. ASSUME NEW i \in 1 .. Len(v.todo)
        PROVE  /\ v.todo[i].session \in SessionIds /\ v.todo[i].observed \in Nat
    <3>1. v.todo \in Seq(Declarations)
      BY <1>2 DEF DrainIsSound, DrainStates
    <3>2. v.todo[i] \in Declarations
      BY <3>1, ElementOfSeq
    <3> QED
      BY <3>2 DEF Declarations
  <2>2. \A i \in 1 .. Len(v.todo) :
            /\ Justified(v.todo[i].observed, v.todo[i].session, captured', claimed')
            /\ ends'[v.todo[i].session] > 0
    <3>1. ASSUME NEW i \in 1 .. Len(v.todo)
          PROVE  /\ Justified(v.todo[i].observed, v.todo[i].session, captured', claimed')
                 /\ ends'[v.todo[i].session] > 0
      <4> DEFINE t == v.todo[i].session
                 n == v.todo[i].observed
      <4>1. t \in SessionIds /\ n \in Nat
        BY <2>1
      <4>2. Justified(n, t, captured, claimed) /\ ends[t] > 0
        BY <1>2 DEF DrainIsSound
      <4> HIDE DEF t, n
      <4>3. Justified(n, t, captured', claimed') /\ ends'[t] > 0
        BY <4>1, <4>2 DEF Grows, Justified
      <4> QED
        BY <4>3 DEF t, n
    <3> QED
      BY <3>1
  <2>3. v.pc = "mark" => heard'[v.todo[1].session].ends > 0
    <3>1. v.pc = "mark" => 1 \in 1 .. Len(v.todo)
      BY <1>2, EmptySeq DEF DrainIsSound, DrainStates
    <3> QED
      BY <1>2, <2>1, <3>1 DEF DrainIsSound, Grows
  <2> QED
    BY <1>2, <2>2, <2>3 DEF DrainIsSound
<1> QED
  BY <1>1, <1>2

\* session_upsert and session_mark_ended make the session the last one.
LEMMA TouchedComesLast ==
    ASSUME SessionsType, RowsAreOrdered, NEW s \in SessionIds, before' = Touched(s),
           \A t \in SessionIds : entry'[t].known = (t = s \/ entry[t].known)
    PROVE  RowsAreOrdered'
<1>1. \A t, u \in SessionIds : <<t, u>> \in before' <=>
            \/ t # s /\ u # s /\ <<t, u>> \in before
            \/ u = s /\ t # s /\ entry[t].known
  BY DEF Touched
<1> QED
  BY <1>1 DEF RowsAreOrdered

LEMMA SameOrder ==
    ASSUME RowsAreOrdered, before' = before,
           \A s \in SessionIds : entry'[s].known = entry[s].known
    PROVE  RowsAreOrdered'
BY DEF RowsAreOrdered

\* Rows and what was heard stay sound while nothing is written to them.
LEMMA RowsStaySound ==
    ASSUME SessionsInv, SessionsType', Grows, UNCHANGED <<entry, heard, ends, noted>>,
           \A t \in SessionIds : rows'[t] <= captured'[t] /\ stored'[t] <= captured'[t]
    PROVE  \A t \in SessionIds : SessionIsSound(t)'
<1> SUFFICES ASSUME NEW t \in SessionIds PROVE SessionIsSound(t)'
  OBVIOUS
<1>1. SessionIsSound(t) /\ entry[t].observed \in Nat /\ heard[t].observed \in Nat /\ noted[t] \in Nat
  BY DEF SessionsInv, SessionsType
<1>2. /\ Justified(entry[t].observed, t, captured', claimed')
      /\ Justified(heard[t].observed, t, captured', claimed')
  BY <1>1 DEF SessionIsSound, Justified, Grows
<1>3. noted[t] <= entry[t].observed + (captured'[t] - rows'[t])
  BY <1>1 DEF SessionIsSound, Grows
<1> QED
  BY <1>1, <1>2, <1>3 DEF SessionIsSound

LEMMA MessagesKeepInv ==
    ASSUME SessionsInv, NEW s \in SessionIds, WatcherSpools(s) \/ Deliver(s) \/ PruneRows(s)
    PROVE  SessionsInv'
<1> USE DEF SessionsInv
<1>0. UNCHANGED <<entry, before, hook, drain, heard, ends, claimed, noted>>
  BY DEF WatcherSpools, Deliver, PruneRows, history
<1>a. /\ captured' \in [SessionIds -> Nat] /\ rows' \in [SessionIds -> Nat]
      /\ stored' \in [SessionIds -> Nat]
  <2>1. /\ captured[s] \in Nat /\ rows[s] \in Nat /\ stored[s] \in Nat
        /\ stored[s] <= captured[s]
    BY DEF SessionsType, SessionIsSound
  <2>2. CASE WatcherSpools(s)
    BY <2>1, <2>2 DEF WatcherSpools, Spooled, SessionsType
  <2>3. CASE Deliver(s)
    BY <2>1, <2>3 DEF Deliver, SessionsType
  <2>4. CASE PruneRows(s)
    BY <2>1, <2>4 DEF PruneRows, SessionsType
  <2> QED
    BY <2>2, <2>3, <2>4
<1>1. SessionsType' /\ UNCHANGED <<entry, before, hook, drain, heard, ends, claimed, noted>>
  BY <1>0, <1>a DEF SessionsType
<1>2. \A t \in SessionIds :
        /\ rows'[t] <= captured'[t] /\ stored'[t] <= captured'[t]
        /\ captured[t] <= captured'[t] /\ captured[t] - rows[t] <= captured'[t] - rows'[t]
  BY DEF SessionIsSound, SessionsType, WatcherSpools, Spooled, Deliver, PruneRows
<1>3. Grows
  BY <1>1, <1>2 DEF Grows, SessionsType
<1>6. \A t \in SessionIds : SessionIsSound(t)'
  <2>1. UNCHANGED <<entry, heard, ends, noted>>
    BY <1>1
  <2>2. \A t \in SessionIds : rows'[t] <= captured'[t] /\ stored'[t] <= captured'[t]
    BY <1>2
  <2> HIDE DEF SessionsInv
  <2> QED
    BY <1>1, <1>3, <2>1, <2>2, RowsStaySound
<1>4. HooksAreSound'
  BY <1>1, <1>3, CarriedStaysSound DEF HooksAreSound
<1>5. DrainsAreSound'
  BY <1>1, <1>3, CarriedStaysSound DEF DrainsAreSound
<1> QED
  BY <1>1, <1>4, <1>5, <1>6, SameOrder

-----------------------------------------------------------------------------
(* Hooks. *)

\* A step of one hook leaves the others, and what drains carry, as sound as before.
LEMMA OneHookSteps ==
    ASSUME SessionsInv, Grows, UNCHANGED drain, NEW h \in Hooks,
           HookIsSound(hook'[h], captured', claimed', rows'), hook' = [hook EXCEPT ![h] = hook'[h]]
    PROVE  /\ hook' \in [Hooks -> HookStates] /\ HooksAreSound'
           /\ drain' \in [Drains -> DrainStates] /\ DrainsAreSound'
<1>1. hook' \in [Hooks -> HookStates]
  BY DEF SessionsInv, SessionsType, HookIsSound
<1>2. ASSUME NEW g \in Hooks
      PROVE  HookIsSound(hook'[g], captured', claimed', rows')
  <2>1. g # h => hook'[g] = hook[g]
    BY DEF SessionsInv, SessionsType
  <2> QED
    BY <2>1, CarriedStaysSound DEF SessionsInv, HooksAreSound
<1>3. drain' \in [Drains -> DrainStates]
  BY DEF SessionsInv, SessionsType
<1>4. DrainsAreSound'
  BY CarriedStaysSound DEF SessionsInv, DrainsAreSound
<1> QED
  BY <1>1, <1>2, <1>3, <1>4 DEF HooksAreSound

LEMMA UpsertedRow ==
    ASSUME NEW f \in [SessionIds ->
                [known : BOOLEAN, observed : Nat, ended : BOOLEAN, declared : BOOLEAN]],
           NEW s \in SessionIds, NEW n \in Nat
    PROVE  [f EXCEPT ![s].known = TRUE, ![s].ended = FALSE, ![s].observed = n]
             \in [SessionIds ->
                    [known : BOOLEAN, observed : Nat, ended : BOOLEAN, declared : BOOLEAN]]
OBVIOUS

\* A hook that has not counted, or has written its count, carries none.
LEMMA NothingCarried ==
    ASSUME SessionsInv, NEW s \in SessionIds, NEW kind \in Kinds, NEW pc \in {"count", "mark"},
           NEW caps \in [SessionIds -> Nat], NEW held \in [SessionIds -> Nat], NEW claims,
           \A t \in SessionIds : held[t] <= caps[t]
    PROVE  HookIsSound([pc |-> pc, kind |-> kind, session |-> s, count |-> 0, at |-> 0],
                       caps, claims, held)
<1>1. 0 <= caps[s] /\ 0 <= 0 + (caps[s] - held[s])
  OBVIOUS
<1> QED
  BY <1>1 DEF HookIsSound, HookStates, Justified

LEMMA HookKeepsInv ==
    ASSUME SessionsInv, NEW h \in Hooks,
           \/ \E s \in SessionIds, kind \in {"capture", "end"} : HookSpools(h, s, kind)
           \/ \E s \in SessionIds : Finalize(h, s)
           \/ HookStep(h) \/ HookDies(h)
    PROVE  SessionsInv'
<1> USE DEF SessionsInv
<1>s. HookIsSound(hook[h], captured, claimed, rows) /\ hook[h] \in HookStates
  BY DEF SessionsType, HooksAreSound
<1>1. ASSUME NEW s \in SessionIds, NEW kind \in {"capture", "end"}, HookSpools(h, s, kind)
      PROVE  SessionsInv'
  <2> DEFINE v == [pc |-> "count", kind |-> kind, session |-> s, count |-> 0, at |-> 0]
  <2>1. /\ captured' \in [SessionIds -> Nat] /\ rows' \in [SessionIds -> Nat]
        /\ \A t \in SessionIds : /\ rows'[t] <= captured'[t] /\ captured[t] <= captured'[t]
                                 /\ captured'[t] - rows'[t] = captured[t] - rows[t]
        /\ UNCHANGED <<stored, entry, before, drain, heard, ends, claimed, noted>>
        /\ hook' = [hook EXCEPT ![h] = v] /\ hook'[h] = v
    <3>1. /\ UNCHANGED <<stored, entry, before, drain, heard, ends, claimed, noted>>
          /\ hook' = [hook EXCEPT ![h] = v] /\ hook'[h] = v
      BY <1>1 DEF HookSpools, SessionsType, history
    <3>2. \A t \in SessionIds : /\ captured[t] \in Nat /\ rows[t] \in Nat
                                 /\ rows[t] <= captured[t]
      BY DEF SessionsType, SessionIsSound
    <3>3. CASE Spooled(s)
      <4>1. /\ captured' = [captured EXCEPT ![s] = captured[s] + 1]
            /\ rows' = [rows EXCEPT ![s] = rows[s] + 1]
        BY <3>3 DEF Spooled
      <4>2. captured' \in [SessionIds -> Nat] /\ rows' \in [SessionIds -> Nat]
        BY <3>2, <4>1 DEF SessionsType
      <4>3. \A t \in SessionIds :
              \/ t = s /\ captured'[t] = captured[t] + 1 /\ rows'[t] = rows[t] + 1
              \/ captured'[t] = captured[t] /\ rows'[t] = rows[t]
        BY <4>1 DEF SessionsType
      <4>4. \A t \in SessionIds : /\ rows'[t] <= captured'[t] /\ captured[t] <= captured'[t]
                                   /\ captured'[t] - rows'[t] = captured[t] - rows[t]
        BY <3>2, <4>3
      <4> QED
        BY <3>1, <4>2, <4>4
    <3>4. CASE UNCHANGED <<captured, rows>>
      BY <3>1, <3>2, <3>4 DEF SessionsType
    <3> QED
      BY <1>1, <3>3, <3>4 DEF HookSpools
  <2>2. HookIsSound(hook'[h], captured', claimed', rows')
    BY <2>1, NothingCarried DEF Kinds
  <2>3. Grows
    BY <2>1 DEF Grows, SessionsType
  <2>4. SessionsType'
    BY <2>1, <2>2, <2>3, OneHookSteps DEF SessionsType
  <2>5. \A t \in SessionIds : SessionIsSound(t)'
    <3>1. \A t \in SessionIds : stored'[t] <= captured'[t]
      BY <2>1 DEF SessionIsSound, SessionsType
    <3> QED
      BY <2>1, <2>3, <2>4, <3>1, RowsStaySound
  <2> QED
    BY <2>1, <2>2, <2>3, <2>4, <2>5, OneHookSteps, SameOrder
<1>6. ASSUME NEW s \in SessionIds, Finalize(h, s)
      PROVE  SessionsInv'
  <2>1. /\ UNCHANGED <<captured, rows, stored, entry, before, drain, heard, ends, noted>>
        /\ hook' = [hook EXCEPT ![h] = hook'[h]]
    BY <1>6 DEF Finalize, SessionsType
  <2>2. /\ claimed' \in [SessionIds -> Nat] /\ \A t \in SessionIds : claimed[t] <= claimed'[t]
        /\ HookIsSound(hook'[h], captured', claimed', rows')
    <3>1. CASE /\ hook' = [hook EXCEPT ![h] = [pc |-> "count", kind |-> "finalize", session |-> s,
                                             count |-> 0, at |-> 0]]
               /\ UNCHANGED claimed
      <4>1. hook'[h] = [pc |-> "count", kind |-> "finalize", session |-> s,
                        count |-> 0, at |-> 0]
        BY <3>1 DEF SessionsType
      <4>2. /\ captured' \in [SessionIds -> Nat] /\ rows' \in [SessionIds -> Nat]
            /\ \A t \in SessionIds : rows'[t] <= captured'[t]
        BY <2>1 DEF SessionsType, SessionIsSound
      <4>3. HookIsSound(hook'[h], captured', claimed', rows')
        BY <4>1, <4>2, NothingCarried DEF Kinds
      <4>4. claimed' \in [SessionIds -> Nat] /\ \A t \in SessionIds : claimed[t] <= claimed'[t]
        BY <3>1 DEF SessionsType
      <4> QED
        BY <4>3, <4>4
    <3>2. ASSUME NEW n \in Claims,
                 hook' = [hook EXCEPT ![h] = [pc |-> "upsert", kind |-> "finalize", session |-> s,
                                             count |-> n, at |-> 0]],
                 claimed' = [claimed EXCEPT ![s] = Larger(@, n)]
          PROVE  <2>2
      <4>1. n \in Nat
        BY SessionsAssumption
      <4>2. /\ claimed' \in [SessionIds -> Nat] /\ n <= claimed'[s]
            /\ \A t \in SessionIds : claimed[t] <= claimed'[t]
        BY <3>2, <4>1 DEF SessionsType, Larger
      <4>3. hook'[h] = [pc |-> "upsert", kind |-> "finalize", session |-> s, count |-> n, at |-> 0]
        BY <3>2 DEF SessionsType
      <4>4. hook'[h] \in HookStates
        BY <4>1, <4>3 DEF HookStates, Kinds
      <4>5. 0 <= n + (captured'[s] - rows'[s])
        BY <2>1, <4>1 DEF SessionsType, SessionIsSound
      <4> QED
        BY <4>2, <4>3, <4>4, <4>5 DEF HookIsSound, Justified
    <3> QED
      BY <1>6, <3>1, <3>2 DEF Finalize
  <2>3. Grows
    BY <2>1, <2>2 DEF Grows, SessionsType
  <2>4. SessionsType'
    BY <2>1, <2>2, <2>3, OneHookSteps DEF SessionsType
  <2>5. \A t \in SessionIds : SessionIsSound(t)'
    <3>1. \A t \in SessionIds : rows'[t] <= captured'[t] /\ stored'[t] <= captured'[t]
      BY <2>1 DEF SessionIsSound
    <3> QED
      BY <2>1, <2>3, <2>4, <3>1, RowsStaySound
  <2> QED
    BY <2>1, <2>2, <2>3, <2>4, <2>5, OneHookSteps, SameOrder
<1>2. ASSUME HookCounts(h)
      PROVE  SessionsInv'
  <2> DEFINE s == hook[h].session
             v == [hook[h] EXCEPT !.pc = "upsert", !.count = rows[s], !.at = captured[s]]
             w == [hook[h] EXCEPT !.pc = "upsert"]
  <2>1. /\ UNCHANGED <<captured, rows, stored, entry, before, drain, heard, ends, claimed, noted>>
        /\ \/ hook' = [hook EXCEPT ![h] = v] /\ hook'[h] = v
           \/ hook' = [hook EXCEPT ![h] = w] /\ hook'[h] = w
    BY <1>2 DEF HookCounts, SessionsType, history
  <2>2. hook[h] # IdleHook /\ s \in SessionIds
    BY <1>2, <1>s DEF HookCounts, HookStates, IdleHook
  <2>3. HookIsSound(v, captured, claimed, rows)
    <3>1. rows[s] \in Nat /\ captured[s] \in Nat /\ rows[s] <= captured[s]
      BY <2>2 DEF SessionsType, SessionIsSound
    <3>2. /\ v \in HookStates /\ v.session = s
          /\ v.count = rows[s] /\ v.at = captured[s]
      BY <1>s, <2>2, <3>1 DEF HookStates
    <3>3. captured[s] <= rows[s] + (captured[s] - rows[s])
      BY <3>1
    <3> HIDE DEF v, s
    <3> QED
      BY <3>1, <3>2, <3>3 DEF HookIsSound, Justified
  <2>4. HookIsSound(w, captured, claimed, rows)
    <3>1. /\ w \in HookStates /\ w.session = s /\ w.count = hook[h].count /\ w.at = hook[h].at
      BY <1>s, <2>2 DEF HookStates
    <3> QED
      BY <1>s, <2>2, <3>1 DEF HookIsSound
  <2>5. HookIsSound(hook'[h], captured', claimed', rows') /\ hook' = [hook EXCEPT ![h] = hook'[h]]
    BY <2>1, <2>3, <2>4
  <2>6. Grows
    BY <2>1 DEF Grows, SessionsType
  <2>7. SessionsType'
    BY <2>1, <2>5, <2>6, OneHookSteps DEF SessionsType
  <2>8. \A t \in SessionIds : SessionIsSound(t)'
    BY <2>1 DEF SessionIsSound
  <2> QED
    BY <2>1, <2>5, <2>6, <2>7, <2>8, OneHookSteps, SameOrder
<1>3. ASSUME HookUpserts(h)
      PROVE  SessionsInv'
  <2> DEFINE s == hook[h].session
             n == hook[h].count
  <2>1. /\ UNCHANGED <<captured, rows, stored, drain, heard, ends, claimed>>
        /\ \/ hook' = [hook EXCEPT ![h] = IdleHook]
           \/ hook' = [hook EXCEPT ![h] = Marking(hook[h])]
    BY <1>3 DEF HookUpserts
  <2>2. /\ hook[h] # IdleHook /\ s \in SessionIds /\ n \in Nat /\ hook[h].at \in Nat
        /\ hook[h].kind \in Kinds
    BY <1>3, <1>s DEF HookUpserts, HookStates, IdleHook
  <2>3. HookIsSound(hook'[h], captured', claimed', rows') /\ hook' = [hook EXCEPT ![h] = hook'[h]]
    <3>1. Marking(hook[h]) =
            [pc |-> "mark", kind |-> hook[h].kind, session |-> s, count |-> 0, at |-> 0]
      BY DEF Marking
    <3>2. HookIsSound(Marking(hook[h]), captured', claimed', rows')
      <4>1. /\ captured' \in [SessionIds -> Nat] /\ rows' \in [SessionIds -> Nat]
            /\ \A t \in SessionIds : rows'[t] <= captured'[t]
        BY <2>1 DEF SessionsType, SessionIsSound
      <4> QED
        BY <2>2, <3>1, <4>1, NothingCarried
    <3>3. HookIsSound(IdleHook, captured', claimed', rows')
      BY IdlesAreSound
    <3> QED
      BY <2>1, <3>2, <3>3 DEF SessionsType
  <2>4. Grows
    BY <2>1 DEF Grows, SessionsType
  <2>5. CASE Upsert(h) /\ noted' = [noted EXCEPT ![s] = Larger(@, hook[h].at)]
    <3>1. /\ entry' = [entry EXCEPT ![s].known = TRUE, ![s].ended = FALSE,
                                     ![s].observed = Larger(@, n)]
          /\ before' = Touched(s)
      BY <2>5 DEF Upsert
    <3>2. entry' \in [SessionIds ->
                  [known : BOOLEAN, observed : Nat, ended : BOOLEAN, declared : BOOLEAN]]
      <4>1. Larger(entry[s].observed, n) \in Nat
        BY <2>2 DEF SessionsType, Larger
      <4> QED
        BY <2>2, <3>1, <4>1, UpsertedRow DEF SessionsType
    <3>3. noted' \in [SessionIds -> Nat]
      BY <2>2, <2>5 DEF SessionsType, Larger
    <3>4. SessionsType'
      BY <2>1, <2>3, <2>4, <3>2, <3>3, OneHookSteps DEF SessionsType
    <3>5. /\ Justified(n, s, captured, claimed) /\ hook[h].at <= n + (captured[s] - rows[s])
          /\ entry[s].observed \in Nat /\ noted[s] \in Nat
          /\ captured[s] \in Nat /\ rows[s] \in Nat
          /\ Justified(entry[s].observed, s, captured, claimed)
          /\ noted[s] <= entry[s].observed + (captured[s] - rows[s])
      BY <1>s, <2>2 DEF HookIsSound, SessionsType, SessionIsSound
    <3>6. /\ entry'[s].observed = Larger(entry[s].observed, n)
          /\ noted'[s] = Larger(noted[s], hook[h].at)
          /\ ~entry'[s].ended /\ entry'[s].declared = entry[s].declared
          /\ \A t \in SessionIds \ {s} : entry'[t] = entry[t] /\ noted'[t] = noted[t]
      BY <2>2, <2>5, <3>1 DEF SessionsType
    <3>7. /\ Justified(entry'[s].observed, s, captured, claimed)
          /\ noted'[s] <= entry'[s].observed + (captured[s] - rows[s])
      <4> HIDE DEF s, n
      <4> QED
        BY <2>2, <3>5, <3>6 DEF Larger, Justified
    <3>8. \A t \in SessionIds : SessionIsSound(t)'
      <4>1. ASSUME NEW t \in SessionIds, t # s PROVE SessionIsSound(t)'
        BY <2>1, <3>6, <4>1 DEF SessionIsSound
      <4>2. ASSUME NEW t \in SessionIds, t = s PROVE SessionIsSound(t)'
        <5>1. SessionIsSound(t)
          BY DEF SessionsInv
        <5>2. /\ Justified(entry'[t].observed, t, captured, claimed)
              /\ noted'[t] <= entry'[t].observed + (captured[t] - rows[t])
              /\ ~entry'[t].ended /\ entry'[t].declared = entry[t].declared
          BY <3>6, <3>7, <4>2
        <5> QED
          BY <2>1, <5>1, <5>2 DEF SessionIsSound
      <4> QED
        BY <4>1, <4>2
    <3>9. \A t \in SessionIds : entry'[t].known = (t = s \/ entry[t].known)
      BY <2>2, <3>1 DEF SessionsType
    <3>10. RowsAreOrdered'
      BY <2>2, <3>1, <3>9, TouchedComesLast
    <3> QED
      BY <2>1, <2>3, <2>4, <3>4, <3>8, <3>10, OneHookSteps
  <2>6. CASE UNCHANGED <<entry, before, noted>>
    <3>1. SessionsType'
      BY <2>1, <2>3, <2>4, <2>6, OneHookSteps DEF SessionsType
    <3>2. \A t \in SessionIds : SessionIsSound(t)'
      BY <2>1, <2>6 DEF SessionIsSound
    <3> QED
      BY <2>1, <2>3, <2>4, <2>6, <3>1, <3>2, OneHookSteps, SameOrder
  <2> QED
    BY <1>3, <2>5, <2>6 DEF HookUpserts
<1>4. ASSUME HookMarks(h)
      PROVE  SessionsInv'
  <2> DEFINE s == hook[h].session
  <2>1. /\ UNCHANGED <<captured, rows, stored, drain, heard, claimed, noted>>
        /\ hook' = [hook EXCEPT ![h] = IdleHook] /\ hook'[h] = IdleHook
    BY <1>4 DEF HookMarks, SessionsType, history
  <2>2. hook[h] # IdleHook /\ s \in SessionIds
    BY <1>4, <1>s DEF HookMarks, HookStates, IdleHook
  <2>3. CASE /\ entry[s].known /\ before' = Touched(s)
             /\ entry' = [entry EXCEPT ![s].ended = TRUE]
             /\ ends' = [ends EXCEPT ![s] = @ + 1]
    <3>1. Grows
      BY <2>1, <2>2, <2>3 DEF Grows, SessionsType
    <3>2. HookIsSound(hook'[h], captured', claimed', rows')
      BY <2>1, IdlesAreSound DEF SessionsType
    <3>3. SessionsType'
      <4>1. /\ ends' \in [SessionIds -> Nat]
            /\ entry' \in [SessionIds ->
                   [known : BOOLEAN, observed : Nat, ended : BOOLEAN, declared : BOOLEAN]]
        <5>1. [entry[s] EXCEPT !.ended = TRUE] \in
                  [known : BOOLEAN, observed : Nat, ended : BOOLEAN, declared : BOOLEAN]
          <6>1. entry[s] \in [known : BOOLEAN, observed : Nat, ended : BOOLEAN, declared : BOOLEAN]
            BY <2>2 DEF SessionsType
          <6> HIDE DEF s, SessionsInv
          <6> QED
            BY ONLY <6>1
        <5>2. ends[s] + 1 \in Nat
          BY <2>2 DEF SessionsType
        <5> HIDE DEF s
        <5> QED
          BY <2>2, <2>3, <5>1, <5>2 DEF SessionsType
      <4> QED
        BY <2>1, <3>1, <3>2, <4>1, OneHookSteps DEF SessionsType
    <3>4. \A t \in SessionIds : SessionIsSound(t)'
      BY <2>1, <2>2, <2>3 DEF SessionIsSound, SessionsType
    <3>5. \A t \in SessionIds : entry'[t].known = (t = s \/ entry[t].known)
      BY <2>2, <2>3 DEF SessionsType
    <3>6. RowsAreOrdered'
      BY <2>2, <2>3, <3>5, TouchedComesLast
    <3> QED
      BY <2>1, <3>1, <3>2, <3>3, <3>4, <3>6, OneHookSteps
  <2>4. CASE UNCHANGED <<entry, before, ends>>
    <3>1. Grows
      BY <2>1, <2>4 DEF Grows, SessionsType
    <3>2. HookIsSound(hook'[h], captured', claimed', rows')
      BY <2>1, IdlesAreSound DEF SessionsType
    <3>3. SessionsType'
      BY <2>1, <2>4, <3>1, <3>2, OneHookSteps DEF SessionsType
    <3>4. \A t \in SessionIds : SessionIsSound(t)'
      BY <2>1, <2>4 DEF SessionIsSound
    <3> QED
      BY <2>1, <2>4, <3>1, <3>2, <3>3, <3>4, OneHookSteps, SameOrder
  <2> QED
    BY <1>4, <2>3, <2>4 DEF HookMarks
<1>5. ASSUME HookDies(h)
      PROVE  SessionsInv'
  <2>1. /\ UNCHANGED <<captured, rows, stored, entry, before, drain, heard, ends, claimed, noted>>
        /\ hook' = [hook EXCEPT ![h] = IdleHook] /\ hook'[h] = IdleHook
    BY <1>5 DEF HookDies, SessionsType, history
  <2>2. Grows
    BY <2>1 DEF Grows, SessionsType
  <2>3. HookIsSound(hook'[h], captured', claimed', rows')
    BY <2>1, IdlesAreSound DEF SessionsType
  <2>4. SessionsType'
    BY <2>1, <2>2, <2>3, OneHookSteps DEF SessionsType
  <2>5. \A t \in SessionIds : SessionIsSound(t)'
    BY <2>1 DEF SessionIsSound
  <2> QED
    BY <2>1, <2>2, <2>3, <2>4, <2>5, OneHookSteps, SameOrder
<1> QED
  BY <1>1, <1>2, <1>3, <1>4, <1>5, <1>6 DEF HookStep

-----------------------------------------------------------------------------
(* Drains. *)

LEMMA OneDrainSteps ==
    ASSUME SessionsInv, Grows, UNCHANGED hook, NEW d \in Drains,
           DrainIsSound(drain'[d], captured', claimed', ends', heard'),
           drain' = [drain EXCEPT ![d] = drain'[d]]
    PROVE  /\ drain' \in [Drains -> DrainStates] /\ DrainsAreSound'
           /\ hook' \in [Hooks -> HookStates] /\ HooksAreSound'
<1>1. drain' \in [Drains -> DrainStates]
  BY DEF SessionsInv, SessionsType, DrainIsSound
<1>2. ASSUME NEW c \in Drains
      PROVE  DrainIsSound(drain'[c], captured', claimed', ends', heard')
  <2>1. c # d => drain'[c] = drain[c]
    BY DEF SessionsInv, SessionsType
  <2> QED
    BY <2>1, CarriedStaysSound DEF SessionsInv, DrainsAreSound
<1>3. hook' \in [Hooks -> HookStates]
  BY DEF SessionsInv, SessionsType
<1>4. HooksAreSound'
  BY CarriedStaysSound DEF SessionsInv, HooksAreSound
<1> QED
  BY <1>1, <1>2, <1>3, <1>4 DEF DrainsAreSound

\* What unreconciled_sessions returns: sessions that ended, with what was observed.
LEMMA ListedAreEnded ==
    ASSUME SessionsInv, Unreconciled # {}
    PROVE  /\ Listed \in Seq(Declarations) /\ Listed # <<>>
           /\ \A i \in 1 .. Len(Listed) :
                /\ Justified(Listed[i].observed, Listed[i].session, captured, claimed)
                /\ ends[Listed[i].session] > 0
<1> DEFINE at(i) == CHOOSE t \in Unreconciled : Rank(t) = i
           n == Smaller(Cardinality(Unreconciled), ListLimit)
<1>1. Unreconciled \in SUBSET SessionIds
  BY DEF Unreconciled
<1>2. IsFiniteSet(Unreconciled)
  BY <1>1, SessionsAreFinite, FS_Subset
<1>3. Cardinality(Unreconciled) \in Nat \ {0}
  BY <1>2, FS_CardinalityType, FS_EmptySet
<1>4. n \in Nat \ {0} /\ n <= Cardinality(Unreconciled)
  BY <1>3, SessionsAssumption DEF Smaller
<1>5. ASSUME NEW i \in 1 .. n
      PROVE  /\ at(i) \in SessionIds /\ entry[at(i)].observed \in Nat
             /\ Justified(entry[at(i)].observed, at(i), captured, claimed)
             /\ ends[at(i)] > 0
  <2>1. i \in 1 .. Cardinality(Unreconciled)
    BY <1>3, <1>4
  <2>2. \A s \in Unreconciled : entry[s].known
    BY <1>1 DEF Unreconciled, SessionsInv, SessionIsSound
  <2>3. \E s \in Unreconciled : Cardinality(Below(Unreconciled, before, s)) + 1 = i
    BY <1>1, <1>2, <2>1, <2>2, EveryPlaceIsTaken DEF SessionsInv, RowsAreOrdered
  <2>4. \E s \in Unreconciled : Rank(s) = i
    BY <2>3 DEF Rank, Below
  <2>5. at(i) \in Unreconciled
    BY <2>4
  <2> QED
    BY <1>1, <2>5 DEF Unreconciled, SessionsInv, SessionIsSound, SessionsType
<1>6. Listed = [i \in 1 .. n |-> [session |-> at(i), observed |-> entry[at(i)].observed]]
  BY DEF Listed
<1>7. \A i \in 1 .. n : Listed[i] = [session |-> at(i), observed |-> entry[at(i)].observed]
  BY <1>6
<1>8. Listed \in [1 .. n -> Declarations]
  BY <1>5, <1>6 DEF Declarations
<1>9. Listed \in Seq(Declarations) /\ Len(Listed) = n
  BY <1>4, <1>8
<1> HIDE DEF at, n
<1>10. Listed # <<>>
  BY <1>4, <1>9
<1> QED
  BY <1>5, <1>7, <1>9, <1>10

LEMMA DrainKeepsInv ==
    ASSUME SessionsInv, NEW d \in Drains, DrainStep(d) \/ DrainDies(d)
    PROVE  SessionsInv'
<1> USE DEF SessionsInv
<1> DEFINE s == Head(drain[d].todo).session
           e == Head(drain[d].todo)
<1>s. /\ DrainIsSound(drain[d], captured, claimed, ends, heard) /\ drain[d] \in DrainStates
      /\ drain[d].todo \in Seq(Declarations)
  BY DEF SessionsType, DrainsAreSound, DrainStates
<1>h. ASSUME drain[d].pc # "idle"
      PROVE  /\ drain[d].todo # <<>> /\ e = drain[d].todo[1]
             /\ s \in SessionIds /\ e.observed \in Nat
             /\ Justified(e.observed, s, captured, claimed) /\ ends[s] > 0
  <2>1. drain[d].todo # <<>> /\ 1 \in 1 .. Len(drain[d].todo)
    BY <1>s, <1>h, EmptySeq DEF DrainIsSound
  <2>2. e = drain[d].todo[1] /\ e \in Declarations
    BY <1>s, <2>1, HeadTailProperties
  <2> QED
    BY <1>s, <2>1, <2>2 DEF DrainIsSound, Declarations
<1>1. ASSUME ListUnreconciled(d)
      PROVE  SessionsInv'
  <2> DEFINE v == [pc |-> "post", todo |-> Listed]
  <2>1. /\ UNCHANGED <<captured, rows, stored, entry, before, hook, heard, ends, claimed, noted>>
        /\ drain' = [drain EXCEPT ![d] = v] /\ drain'[d] = v
    BY <1>1 DEF ListUnreconciled, SessionsType, history
  <2>2. DrainIsSound(drain'[d], captured', claimed', ends', heard')
    BY <1>1, <2>1, ListedAreEnded DEF ListUnreconciled, DrainIsSound, DrainStates
  <2>3. Grows
    BY <2>1 DEF Grows, SessionsType
  <2>4. SessionsType'
    BY <2>1, <2>2, <2>3, OneDrainSteps DEF SessionsType
  <2>5. \A t \in SessionIds : SessionIsSound(t)'
    BY <2>1 DEF SessionIsSound
  <2> QED
    BY <2>1, <2>2, <2>3, <2>4, <2>5, OneDrainSteps, SameOrder
<1>2. ASSUME drain[d].pc # "idle", Hear(s, e.observed)
      PROVE  /\ heard' \in [SessionIds -> [ends : Nat, observed : Nat]]
             /\ heard'[s].ends > 0 /\ Justified(heard'[s].observed, s, captured, claimed)
             /\ \A t \in SessionIds \ {s} : heard'[t] = heard[t]
  <2> DEFINE said == [ends |-> ends[s], observed |-> e.observed]
  <2>1. heard' = [heard EXCEPT ![s] = said]
    BY <1>2 DEF Hear
  <2>2. said \in [ends : Nat, observed : Nat]
    BY <1>2, <1>h DEF SessionsType
  <2>3. said.ends > 0 /\ Justified(said.observed, s, captured, claimed)
    BY <1>2, <1>h
  <2> HIDE DEF said, s
  <2> QED
    BY <1>2, <1>h, <2>1, <2>2, <2>3 DEF SessionsType
<1>3. ASSUME Declare(d)
      PROVE  SessionsInv'
  <2> DEFINE v == [drain[d] EXCEPT !.pc = "mark"]
  <2>1. /\ UNCHANGED <<captured, rows, stored, entry, before, hook, ends, claimed, noted>>
        /\ drain' = [drain EXCEPT ![d] = v] /\ drain'[d] = v
    BY <1>3 DEF Declare, SessionsType, history
  <2>2. drain[d].pc # "idle" /\ Hear(s, e.observed)
    BY <1>3 DEF Declare
  <2>3. v \in DrainStates /\ v.todo = drain[d].todo /\ v.pc = "mark"
    BY <1>s DEF DrainStates
  <2>4. DrainIsSound(drain'[d], captured', claimed', ends', heard')
    <3> HIDE DEF v
    <3> QED
      BY <1>s, <1>h, <1>2, <2>1, <2>2, <2>3 DEF DrainIsSound
  <2>5. Grows
    <3>1. \A t \in SessionIds : heard[t].ends > 0 => heard'[t].ends > 0
      <4> HIDE DEF s
      <4> QED
        BY <1>2, <2>2
    <3> QED
      BY <2>1, <3>1 DEF Grows, SessionsType
  <2>6. SessionsType'
    BY <1>2, <2>1, <2>2, <2>4, <2>5, OneDrainSteps DEF SessionsType
  <2>7. \A t \in SessionIds : SessionIsSound(t)'
    BY <1>2, <2>1, <2>2 DEF SessionIsSound
  <2> QED
    BY <2>1, <2>4, <2>5, <2>6, <2>7, OneDrainSteps, SameOrder
<1>4. ASSUME DeclarationLost(d)
      PROVE  SessionsInv'
  <2>1. /\ UNCHANGED <<captured, rows, stored, entry, before, hook, ends, claimed, noted>>
        /\ drain' = [drain EXCEPT ![d] = IdleDrain] /\ drain'[d] = IdleDrain
    BY <1>4 DEF DeclarationLost, SessionsType, history
  <2>2. DrainIsSound(drain'[d], captured', claimed', ends', heard')
    BY <2>1, IdlesAreSound
  <2>3. CASE UNCHANGED heard
    <3>1. Grows
      BY <2>1, <2>3 DEF Grows, SessionsType
    <3>2. SessionsType'
      BY <2>1, <2>2, <2>3, <3>1, OneDrainSteps DEF SessionsType
    <3>3. \A t \in SessionIds : SessionIsSound(t)'
      BY <2>1, <2>3 DEF SessionIsSound
    <3> QED
      BY <2>1, <2>2, <3>1, <3>2, <3>3, OneDrainSteps, SameOrder
  <2>4. CASE Hear(s, e.observed)
    <3>1. drain[d].pc # "idle"
      BY <1>4 DEF DeclarationLost
    <3>2. Grows
      BY <1>2, <2>1, <2>4, <3>1 DEF Grows, SessionsType
    <3>3. SessionsType'
      BY <1>2, <2>1, <2>2, <2>4, <3>1, <3>2, OneDrainSteps DEF SessionsType
    <3>4. \A t \in SessionIds : SessionIsSound(t)'
      BY <1>2, <2>1, <2>4, <3>1 DEF SessionIsSound
    <3> QED
      BY <2>1, <2>2, <3>2, <3>3, <3>4, OneDrainSteps, SameOrder
  <2> QED
    BY <1>4, <2>3, <2>4 DEF DeclarationLost
<1>5. ASSUME MarkReconciled(d)
      PROVE  SessionsInv'
  <2> DEFINE rest == Tail(drain[d].todo)
             v == IF Len(drain[d].todo) = 1 THEN IdleDrain ELSE [pc |-> "post", todo |-> rest]
  <2>1. /\ UNCHANGED <<captured, rows, stored, before, hook, heard, ends, claimed, noted>>
        /\ drain' = [drain EXCEPT ![d] = v] /\ drain'[d] = v
    BY <1>5 DEF MarkReconciled, SessionsType, history
  <2>2. drain[d].pc # "idle" /\ drain[d].pc = "mark"
    BY <1>5 DEF MarkReconciled
  <2>3. heard[s].ends > 0
    BY <1>s, <1>h, <2>2 DEF DrainIsSound
  <2>4. drain[d].todo # <<>>
    BY <1>h, <2>2
  <2>5. ASSUME Len(drain[d].todo) # 1
        PROVE  DrainIsSound(drain'[d], captured', claimed', ends', heard')
    <3> DEFINE todo == drain[d].todo
    <3>0. todo \in Seq(Declarations) /\ todo # <<>> /\ Len(todo) # 1
      BY <1>s, <2>4, <2>5
    <3>1. /\ rest \in Seq(Declarations) /\ Len(rest) = Len(todo) - 1
          /\ \A i \in 1 .. Len(rest) : rest[i] = todo[i + 1]
      BY <3>0, HeadTailProperties
    <3>2. Len(todo) \in Nat /\ Len(todo) # 0
      BY <3>0, EmptySeq
    <3>3. rest # <<>> /\ \A i \in 1 .. Len(rest) : i + 1 \in 1 .. Len(todo)
      <4> HIDE DEF rest, todo
      <4>1. Len(rest) \in Nat /\ Len(rest) # 0
        BY <3>0, <3>1, <3>2
      <4> QED
        BY <3>0, <3>1, <3>2, <4>1
    <3>4. \A i \in 1 .. Len(rest) :
              /\ Justified(rest[i].observed, rest[i].session, captured, claimed)
              /\ ends[rest[i].session] > 0
      BY <1>s, <3>1, <3>3 DEF DrainIsSound
    <3>5. v = [pc |-> "post", todo |-> rest]
      BY <2>5
    <3> HIDE DEF rest, v
    <3> QED
      BY <2>1, <3>1, <3>3, <3>4, <3>5 DEF DrainIsSound, DrainStates
  <2>6. DrainIsSound(drain'[d], captured', claimed', ends', heard')
    <3>1. CASE Len(drain[d].todo) = 1
      BY <2>1, <3>1, IdlesAreSound
    <3> QED
      BY <2>5, <3>1
  <2>7. Grows
    BY <2>1 DEF Grows, SessionsType
  <2>8. CASE entry' = [entry EXCEPT ![s].declared = TRUE]
    <3>1. entry' \in [SessionIds ->
               [known : BOOLEAN, observed : Nat, ended : BOOLEAN, declared : BOOLEAN]]
      BY <2>8 DEF SessionsType
    <3>2. SessionsType'
      BY <2>1, <2>6, <2>7, <3>1, OneDrainSteps DEF SessionsType
    <3>3. \A t \in SessionIds : SessionIsSound(t)'
      <4> HIDE DEF s
      <4>1. \A t \in SessionIds :
                /\ entry'[t].known = entry[t].known /\ entry'[t].ended = entry[t].ended
                /\ entry'[t].observed = entry[t].observed
                /\ entry'[t].declared => t = s \/ entry[t].declared
        BY <2>8 DEF SessionsType
      <4> QED
        BY <2>1, <2>3, <4>1 DEF SessionIsSound
    <3>4. \A t \in SessionIds : entry'[t].known = entry[t].known
      BY <2>8 DEF SessionsType
    <3> QED
      BY <2>1, <2>6, <2>7, <3>2, <3>3, <3>4, OneDrainSteps, SameOrder
  <2>9. CASE UNCHANGED entry
    <3>1. SessionsType'
      BY <2>1, <2>6, <2>7, <2>9, OneDrainSteps DEF SessionsType
    <3>2. \A t \in SessionIds : SessionIsSound(t)'
      BY <2>1, <2>9 DEF SessionIsSound
    <3> QED
      BY <2>1, <2>6, <2>7, <2>9, <3>1, <3>2, OneDrainSteps, SameOrder
  <2> QED
    BY <1>5, <2>8, <2>9 DEF MarkReconciled
<1>6. ASSUME DrainDies(d)
      PROVE  SessionsInv'
  <2>1. /\ UNCHANGED <<captured, rows, stored, entry, before, hook, heard, ends, claimed, noted>>
        /\ drain' = [drain EXCEPT ![d] = IdleDrain] /\ drain'[d] = IdleDrain
    BY <1>6 DEF DrainDies, SessionsType, history
  <2>2. DrainIsSound(drain'[d], captured', claimed', ends', heard')
    BY <2>1, IdlesAreSound
  <2>3. Grows
    BY <2>1 DEF Grows, SessionsType
  <2>4. SessionsType'
    BY <2>1, <2>2, <2>3, OneDrainSteps DEF SessionsType
  <2>5. \A t \in SessionIds : SessionIsSound(t)'
    BY <2>1 DEF SessionIsSound
  <2> QED
    BY <2>1, <2>2, <2>3, <2>4, <2>5, OneDrainSteps, SameOrder
<1> QED
  BY <1>1, <1>3, <1>4, <1>5, <1>6 DEF DrainStep

-----------------------------------------------------------------------------
LEMMA StepKeepsSessionsInv == SessionsInv /\ [Next]_vars => SessionsInv'
<1> SUFFICES ASSUME SessionsInv, [Next]_vars PROVE SessionsInv'
  OBVIOUS
<1>1. CASE UNCHANGED vars
  <2>1. SessionsType' /\ Grows
    BY <1>1 DEF vars, history, SessionsInv, SessionsType, Grows
  <2>2. \A s \in SessionIds : SessionIsSound(s)'
    BY <1>1 DEF vars, history, SessionsInv, SessionIsSound
  <2>3. HooksAreSound' /\ DrainsAreSound'
    BY <1>1 DEF vars, history, SessionsInv, HooksAreSound, DrainsAreSound
  <2> QED
    BY <1>1, <2>1, <2>2, <2>3, SameOrder DEF vars, history, SessionsInv
<1>2. CASE Next
  BY <1>2, MessagesKeepInv, HookKeepsInv, DrainKeepsInv DEF Next
<1> QED
  BY <1>1, <1>2

\* The inductive invariant of sessions: whatever hooks, watchers and drains overlap,
\* die or meet a busy database, what each carries concerns sessions that ended and
\* messages that were captured, and the rows keep one order.
THEOREM SessionsInvariant == Spec => []SessionsInv
<1>1. Init => SessionsInv
  BY InitSessionsInv
<1>2. SessionsInv /\ [Next]_vars => SessionsInv'
  BY StepKeepsSessionsInv
<1> QED
  BY <1>1, <1>2, PTL DEF Spec

\* A session marked reconciled was declared to the gateway.
THEOREM ReconciledMeansHeard == Spec => []ReconciledWasHeard
<1>1. SessionsInv => ReconciledWasHeard
  BY DEF SessionsInv, SessionIsSound, ReconciledWasHeard
<1> QED
  BY <1>1, SessionsInvariant, PTL

\* What the bridge observes and reports of a session was captured, or claimed by an
\* operator, and is not undone by an older count.
THEOREM ObservedMeansCaptured == Spec => []ObservedIsJustified
<1>1. SessionsInv => ObservedIsJustified
  BY DEF SessionsInv, SessionIsSound, SessionsType, Justified, ObservedIsJustified
<1> QED
  BY <1>1, SessionsInvariant, PTL

=============================================================================

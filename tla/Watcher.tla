------------------------------ MODULE Watcher ------------------------------
(***************************************************************************)
(* Transcript reconciliation: watchers read what an agent appends to its   *)
(* transcript and spool it, with a cursor per file (watcher.rs, the cursor *)
(* methods of spool.rs, parse_rollout and parse_transcript).               *)
(*                                                                         *)
(* The file is a sequence of complete lines, perhaps with the beginning of *)
(* one more.  A byte offset is counted in half lines: 2k lies behind the   *)
(* k-th newline, 2k + 1 inside the line that follows it.  The hook path    *)
(* spools some of the same messages under the same ids.  The agent only    *)
(* appends: a file that is replaced by a shorter one is out of scope.      *)
(***************************************************************************)
EXTENDS Naturals, Sequences

CONSTANTS
    Lines,      \* what a line may carry: the id of the event derived from it
    Unusable,   \* lines that give no event, or one that does not validate
    Watchers,   \* the `watch` loop, a `watch --once` beside it
    Residents,  \* the resident watchers
    MaxLines, MaxFailures

ASSUME WatcherAssumption ==
    /\ Unusable \subseteq Lines /\ Residents \subseteq Watchers
    /\ MaxLines \in Nat /\ MaxFailures \in Nat

VARIABLES
    text,      \* the complete lines of the file
    partial,   \* <<>>, or the line whose beginning follows them
    cursor,    \* the offset on record
    spooled,   \* events in the spool
    watcher,   \* watcher -> its local state
    failures

watcherVars == <<text, partial, cursor, spooled, watcher, failures>>

Offset == 0 .. 2 * MaxLines + 1

WatcherState == [pc : {"read", "parse", "enqueue", "advance"},
                 offset : Offset,       \* the cursor it read
                 found : SUBSET Lines,  \* the events it parsed
                 end : Offset]          \* the new offset

Idle == [pc |-> "read", offset |-> 0, found |-> {}, end |-> 0]

WatcherTypeOK ==
    /\ text \in Seq(Lines) /\ partial \in Seq(Lines)
    /\ Len(partial) <= 1 /\ Len(text) + Len(partial) <= MaxLines
    /\ cursor \in Offset
    /\ spooled \subseteq Lines
    /\ watcher \in [Watchers -> WatcherState]
    /\ failures \in 0 .. MaxFailures

WatcherInit ==
    /\ text = <<>> /\ partial = <<>>
    /\ cursor = 0
    /\ spooled = {}
    /\ watcher = [w \in Watchers |-> Idle]
    /\ failures = 0

Failure == failures < MaxFailures /\ failures' = failures + 1

Go(w, state) == watcher' = [watcher EXCEPT ![w] = state]

-----------------------------------------------------------------------------
(* The agent *)

Written(line) == \E k \in 1 .. Len(text) : text[k] = line

BeginLine(line) ==
    /\ partial = <<>> /\ ~Written(line) /\ Len(text) < MaxLines
    /\ partial' = <<line>>
    /\ UNCHANGED <<text, cursor, spooled, watcher, failures>>

FinishLine ==
    /\ partial # <<>>
    /\ text' = text \o partial
    /\ partial' = <<>>
    /\ UNCHANGED <<cursor, spooled, watcher, failures>>

\* run_capture: a hook spools a message on its own.
HookCaptures(line) ==
    /\ line \notin Unusable
    /\ spooled' = spooled \cup {line}
    /\ UNCHANGED <<text, partial, cursor, watcher, failures>>

-----------------------------------------------------------------------------
(* watch_once, for the one file *)

ReadCursor(w) ==
    /\ watcher[w].pc = "read"
    /\ Go(w, [pc |-> "parse", offset |-> cursor, found |-> {}, end |-> 0])
    /\ UNCHANGED <<text, partial, cursor, spooled, failures>>

Length == 2 * Len(text) + Len(partial)

Start(offset) == IF offset <= Length THEN offset ELSE Length

\* Seeded fault: the beginning of a line is consumed too.
ConsumedToEnd(offset) == Length

\* The newline the buffer ends with, or the start if it has none.
Consumed(offset) ==
    IF Start(offset) < 2 * Len(text) THEN 2 * Len(text) ELSE Start(offset)

\* Of a line entered in the middle, only the rest is read: no JSON, no event.
WholeLines(from, to) == {text[k] : k \in {i \in 1 .. Len(text) :
                            from <= 2 * (i - 1) /\ 2 * i <= to}}

Parse(w) ==
    /\ watcher[w].pc = "parse"
    /\ LET from == Start(watcher[w].offset)
           to == Consumed(watcher[w].offset)
       IN Go(w, IF to = watcher[w].offset THEN Idle
                ELSE [watcher[w] EXCEPT !.pc = "enqueue", !.end = to,
                                        !.found = WholeLines(from, to) \ Unusable])
    /\ UNCHANGED <<text, partial, cursor, spooled, failures>>

\* Seeded fault: the cursor moves on though the events were not spooled.
EnqueueOrSkip(w) ==
    /\ watcher[w].pc = "enqueue"
    /\ \/ spooled' = spooled \cup watcher[w].found /\ UNCHANGED failures
       \/ Failure /\ UNCHANGED spooled
    /\ Go(w, [watcher[w] EXCEPT !.pc = "advance"])
    /\ UNCHANGED <<text, partial, cursor>>

\* enqueue_many is one transaction; when it fails the file is left for the
\* next pass, cursor and all.
EnqueueMany(w) ==
    /\ watcher[w].pc = "enqueue"
    /\ \/ /\ spooled' = spooled \cup watcher[w].found
          /\ Go(w, [watcher[w] EXCEPT !.pc = "advance"])
          /\ UNCHANGED failures
       \/ /\ Failure /\ watcher[w].found # {}
          /\ Go(w, Idle)
          /\ UNCHANGED spooled
    /\ UNCHANGED <<text, partial, cursor>>

\* cursor_set, a transaction of its own.
AdvanceCursor(w) ==
    /\ watcher[w].pc = "advance"
    /\ \/ cursor' = watcher[w].end /\ UNCHANGED failures
       \/ Failure /\ UNCHANGED cursor
    /\ Go(w, Idle)
    /\ UNCHANGED <<text, partial, spooled>>

Killed(w) ==
    /\ watcher[w] # Idle /\ Failure
    /\ Go(w, Idle)
    /\ UNCHANGED <<text, partial, cursor, spooled>>

Pass(w) == ReadCursor(w) \/ Parse(w) \/ EnqueueMany(w) \/ AdvanceCursor(w)

WatcherNext ==
    \/ \E line \in Lines : BeginLine(line) \/ HookCaptures(line)
    \/ FinishLine
    \/ \E w \in Watchers : Pass(w) \/ Killed(w)

WatcherSpec == WatcherInit /\ [][WatcherNext]_watcherVars

\* The resident watcher passes again and again; the agent owes nothing.
FairWatcherSpec == WatcherSpec /\ \A w \in Residents : WF_watcherVars(Pass(w))

-----------------------------------------------------------------------------
(* Properties *)

\* What lies before the cursor is spooled: no kill, failed transaction or
\* second watcher makes the cursor run ahead of the spool.
NothingSkipped ==
    \A k \in 1 .. Len(text) :
        2 * k <= cursor => text[k] \in spooled \cup Unusable

\* parse_rollout: "the returned offset always lands on a line boundary so a
\* partially written trailing line is re-read rather than lost".
CursorOnBoundary == cursor % 2 = 0

\* The inductive form: the same of the offsets the watchers carry.
OffsetsOnBoundary ==
    /\ cursor % 2 = 0 /\ cursor <= 2 * Len(text)
    /\ \A w \in Watchers :
        LET s == watcher[w] IN
        /\ s.offset % 2 = 0 /\ s.offset <= 2 * Len(text)
        /\ s.end % 2 = 0 /\ s.end <= 2 * Len(text)

SpooledBefore(offset, events) ==
    \A k \in 1 .. Len(text) : 2 * k <= offset => text[k] \in events \cup Unusable

WatcherInv ==
    /\ WatcherTypeOK
    /\ OffsetsOnBoundary
    /\ SpooledBefore(cursor, spooled)
    /\ \A w \in Watchers :
        /\ SpooledBefore(watcher[w].offset, spooled)
        /\ watcher[w].pc = "enqueue" =>
                SpooledBefore(watcher[w].end, spooled \cup watcher[w].found)
        /\ watcher[w].pc = "advance" => SpooledBefore(watcher[w].end, spooled)

\* Every complete line is spooled in the end, the hook path or not.
EveryLineIsSpooled ==
    \A line \in Lines \ Unusable :
        Written(line) ~> line \in spooled

=============================================================================

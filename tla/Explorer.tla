------------------------------ MODULE Explorer ------------------------------
(***************************************************************************)
(* The screens that show the answer to what was asked: the conversation    *)
(* search, the recall and the note reader (pages/Conversations.tsx), and   *)
(* the audit log (pages/Audit.tsx). Each answer is cached under a key made *)
(* of the parameters, and the cached answers come back at any time, in any *)
(* order.                                                                  *)
(***************************************************************************)
EXTENDS Integers, Query

CONSTANTS
    Texts,      \* what can be typed or chosen: queries, notes
    Headings,
    MaxPages    \* bound on the audit log's pages

ASSUME ExplorerAssumption == MaxPages \in Nat \ {0}

VARIABLES
    screen,
    typed,      \* the form of the search and the recall
    submitted,     \* what was submitted, or NoParams
    item,       \* the search result the reader shows, or NoParams
    readFullNote,
    eventType, auditPage,
    answers,    \* the cache: the parameters each answer was given for
    asking      \* the parameters of the fetch under way, by key

explorerVars == <<screen, typed, submitted, item, readFullNote, eventType, auditPage, answers, asking>>

Screens == {"search", "recall", "reader", "audit"}
NoParams == [of |-> "none", narrowed |-> "none"]

\* of is the query, the note's path or the event type, narrowed the filter, the token
\* budget, the heading or the page.
Whole == "whole"
Params == [of : Texts, narrowed : Headings \cup {Whole}]
Audits == [of : Texts, narrowed : 0..(MaxPages - 1)]
Asked == IF screen = "audit" THEN Audits ELSE Params

ExplorerTypeOK ==
    /\ screen \in Screens
    /\ typed \in Params \cup {NoParams}
    /\ submitted \in Params \cup {NoParams}
    /\ item \in Params \cup {NoParams}
    /\ readFullNote \in BOOLEAN
    /\ eventType \in Texts /\ auditPage \in 0..(MaxPages - 1)
    /\ DOMAIN answers = Asked /\ \A k \in Asked : IsEntry(answers[k], Asked)
    /\ asking \in [Asked -> Asked \cup {NoParams}]

-----------------------------------------------------------------------------
\* Seeded fault: the reader's key is the note alone.
QueryKeyOfNote(params) ==
    IF screen = "reader" THEN [params EXCEPT !.narrowed = Whole] ELSE params

\* queryKeys: the whole of the parameters.
QueryKey(params) == params

\* What the mounted query asks for.
Wanted ==
    CASE screen \in {"search", "recall"} -> submitted
      [] screen = "reader" -> IF item # NoParams /\ readFullNote
                              THEN [item EXCEPT !.narrowed = Whole] ELSE item
      [] screen = "audit" -> [of |-> eventType, narrowed |-> auditPage]

\* The answer displayed.
OnDisplay == IF Wanted = NoParams THEN Unasked ELSE answers[QueryKey(Wanted)]

\* The render after an event: a query whose key is new is fetched, with the parameters
\* of that render.
Observes ==
    LET key == QueryKey(Wanted') IN
    IF Wanted' = NoParams \/ (Wanted # NoParams /\ key = QueryKey(Wanted))
    THEN UNCHANGED <<answers, asking>>
    ELSE /\ answers' = [answers EXCEPT ![key] = Joined(@)]
         /\ asking' = IF answers[key].fetch = "idle" THEN [asking EXCEPT ![key] = Wanted'] ELSE asking

Type(params) ==
    /\ screen \in {"search", "recall"}
    /\ typed' = params
    /\ UNCHANGED <<screen, submitted, item, readFullNote, eventType, auditPage, answers, asking>>

\* handleSearchSubmit, handleRecallSubmit: an empty query is only reported.
HandleSubmit ==
    /\ screen \in {"search", "recall"} /\ typed # NoParams
    /\ submitted' = typed
    /\ UNCHANGED <<screen, typed, item, readFullNote, eventType, auditPage>>
    /\ Observes

\* The read button of a result: its last heading, or the whole note if it has none.
ReadNote(params) ==
    /\ screen = "reader"
    /\ item' = params /\ readFullNote' = FALSE
    /\ UNCHANGED <<screen, typed, submitted, eventType, auditPage>>
    /\ Observes

\* Shown when the result has a heading.
ToggleFullNote ==
    /\ screen = "reader" /\ item # NoParams /\ item.narrowed # Whole
    /\ readFullNote' = ~readFullNote
    /\ UNCHANGED <<screen, typed, submitted, item, eventType, auditPage>>
    /\ Observes

CloseReader ==
    /\ screen = "reader" /\ item # NoParams
    /\ item' = NoParams
    /\ UNCHANGED <<screen, typed, submitted, readFullNote, eventType, auditPage, answers, asking>>

\* Another event type starts at its first page.
SetEventType(type) ==
    /\ screen = "audit"
    /\ eventType' = type /\ auditPage' = 0
    /\ UNCHANGED <<screen, typed, submitted, item, readFullNote>>
    /\ Observes

\* The arrows, shown with an answer.
SetPage(n) ==
    /\ screen = "audit" /\ OnDisplay.data # Nothing
    /\ n \in {auditPage - 1, auditPage + 1} \cap (0..(MaxPages - 1))
    /\ auditPage' = n
    /\ UNCHANGED <<screen, typed, submitted, item, readFullNote, eventType>>
    /\ Observes

\* The window gets the focus, or the refresh button is pressed.
RefetchAnswer ==
    /\ Wanted # NoParams /\ OnDisplay.fetch = "idle"
    /\ answers' = [answers EXCEPT ![QueryKey(Wanted)] = Joined(@)]
    /\ asking' = [asking EXCEPT ![QueryKey(Wanted)] = Wanted]
    /\ UNCHANGED <<screen, typed, submitted, item, readFullNote, eventType, auditPage>>

TakeAnswer(key) ==
    /\ answers[key].fetch = "sent"
    /\ \/ answers' = [answers EXCEPT ![key] = Taken(Answered(@, asking[key]))]
       \/ answers' = [answers EXCEPT ![key] = Failed(@)]
    /\ asking' = [asking EXCEPT ![key] = NoParams]
    /\ UNCHANGED <<screen, typed, submitted, item, readFullNote, eventType, auditPage>>

ExplorerInit ==
    /\ screen \in Screens
    /\ typed = NoParams /\ submitted = NoParams /\ item = NoParams /\ readFullNote = FALSE
    /\ eventType \in Texts /\ auditPage = 0
    /\ answers = [k \in Asked |-> IF k = Wanted THEN Sent(Unasked) ELSE Unasked]
    /\ asking = [k \in Asked |-> IF k = Wanted THEN Wanted ELSE NoParams]

ExplorerNext ==
    \/ \E params \in Params : Type(params) \/ ReadNote(params)
    \/ HandleSubmit \/ ToggleFullNote \/ CloseReader \/ RefetchAnswer
    \/ \E type \in Texts : SetEventType(type)
    \/ \E n \in 0..(MaxPages - 1) : SetPage(n)
    \/ \E key \in Asked : TakeAnswer(key)

ExplorerSpec == ExplorerInit /\ [][ExplorerNext]_explorerVars

-----------------------------------------------------------------------------
\* What a screen shows was answered for what it asks now, whatever was asked before
\* and in whatever order the answers came back.
ShownMatchesAsked == OnDisplay.data \in {Nothing, Wanted}

=============================================================================

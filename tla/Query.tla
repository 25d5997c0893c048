------------------------------- MODULE Query -------------------------------
(***************************************************************************)
(* One entry of the page's query cache (TanStack Query, as lib/query.ts    *)
(* uses it): the data shown, and the fetch under way for it. A fetch has   *)
(* two steps, the gateway's answer and its arrival, and what the gateway   *)
(* holds may change between them.                                          *)
(***************************************************************************)

EXTENDS Integers

CONSTANT Nothing    \* no data yet

Unasked == [data |-> Nothing, fetch |-> "idle", got |-> Nothing]

IsEntry(c, Data) ==
    /\ c.data \in Data \cup {Nothing}
    /\ c.fetch \in {"idle", "sent", "answered"}
    /\ c.got \in Data \cup {Nothing}

Sent(c) == [c EXCEPT !.fetch = "sent", !.got = Nothing]

\* A mount, a focus, an interval: joins the fetch under way, if any.
Joined(c) == IF c.fetch = "idle" THEN Sent(c) ELSE c

\* An invalidation, a refetch(): drops the fetch under way and asks anew, but
\* only if there is data; the first fetch is joined.
Invalidated(c) == IF c.data # Nothing THEN Sent(c) ELSE Joined(c)

\* The gateway answers with what it holds now.
Answered(c, now) == [c EXCEPT !.fetch = "answered", !.got = now]

Taken(c) == [data |-> c.got, fetch |-> "idle", got |-> Nothing]

\* The answer is on its way back: who joins this fetch gets what it says.
Late(c) == c.fetch = "answered"

\* Of data that says after which change it was read: the entry shows what the
\* gateway held after that change, or will, by the fetch under way.
UpToDate(c, since) == c.data = Nothing \/ c.data.after >= since
CatchesUp(c, since) == c.fetch = "sent" \/ (Late(c) /\ c.got.after >= since)

\* The retries are used up: the entry keeps the data it had.
Failed(c) == [c EXCEPT !.fetch = "idle", !.got = Nothing]

=============================================================================

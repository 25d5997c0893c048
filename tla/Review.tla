------------------------------- MODULE Review -------------------------------
(***************************************************************************)
(* The proposals page (pages/Proposals.tsx): the list under a filter, the  *)
(* proposal shown beside it, the checked ones, the decisions on one or on  *)
(* all checked, and the queries a decision invalidates; while agents and   *)
(* other tabs decide too.                                                  *)
(*                                                                         *)
(* A query's data is what it shows and the decision it was answered after. *)
(***************************************************************************)
EXTENDS Integers, Query

CONSTANTS
    Proposals,
    MaxDecisions    \* bound on the decisions the gateway applies

ASSUME ReviewAssumption == MaxDecisions \in Nat

VARIABLES
    proposals,      \* proposal_status, at the gateway
    decisions,      \* decisions applied so far
    desk            \* the page

reviewVars == <<proposals, decisions, desk>>

\* approved is decided on like pending, expired like rejected.
Open == {"pending", "needs_edit"}
Closed == {"saved", "rejected"}
Saveable == {"pending"}
Filters == {"pending", "all"}
NoProposal == "none"

Listing == [after : 0..MaxDecisions, ids : SUBSET Proposals]
Detail == [after : 0..MaxDecisions, status : Open \cup Closed]
Decision == (Open \cup Closed) \ {"pending"}
NoCall == [at |-> "idle", ids |-> {}, to |-> "saved", batch |-> FALSE, after |-> 0]

ReviewTypeOK ==
    /\ proposals \in [Proposals -> Open \cup Closed]
    /\ decisions \in 0..MaxDecisions
    /\ desk.filter \in Filters
    /\ IsEntry(desk.list, Listing)              \* the query under the filter
    /\ IsEntry(desk.detail, Detail)             \* the query of the proposal observed
    /\ desk.observed \in Proposals \cup {NoProposal}
    /\ desk.selectedId \in Proposals \cup {NoProposal}
    /\ desk.checked \subseteq Proposals
    /\ desk.call \in [at : {"idle", "sent", "answered"}, ids : SUBSET Proposals, to : Decision,
                      batch : BOOLEAN, after : 0..MaxDecisions]
    /\ desk.own \in 0..MaxDecisions             \* the last one made and answered here
    /\ desk.joined \in BOOLEAN

-----------------------------------------------------------------------------
(* The gateway.                                                            *)

\* api_proposals: the proposals the filter asks for.
Listed(f) == {p \in Proposals : f = "all" \/ proposals[p] = f}

\* _ensure_proposal_status_transition; save_research_memory's own test.
Allowed(from, to) ==
    IF to = "saved" THEN from \in Saveable ELSE from \in Open /\ to # from

\* api_proposals_batch, or one decision: each proposal by itself, the refused ones
\* reported and left alone.
Decided(ids, to) ==
    [p \in Proposals |-> IF p \in ids /\ Allowed(proposals[p], to) THEN to ELSE proposals[p]]

-----------------------------------------------------------------------------
(* The page.                                                               *)

ShownIds(d) == IF d.list.data = Nothing THEN {} ELSE d.list.data.ids

\* selectedProposalId: the selected one while the list has it, else the first.
SelectedProposalId(d) ==
    IF d.selectedId \in ShownIds(d) THEN d.selectedId
    ELSE IF ShownIds(d) = {} THEN NoProposal
    ELSE CHOOSE p \in ShownIds(d) : TRUE

\* A render: a proposal newly shown is asked for.
Displayed(d) ==
    LET p == SelectedProposalId(d) IN
    IF p = d.observed THEN d
    ELSE [d EXCEPT !.observed = p,
                   !.detail = IF p = NoProposal THEN Unasked ELSE Sent(Unasked)]

ShownStatus == IF desk.detail.data = Nothing THEN "none" ELSE desk.detail.data.status

\* Another filter: another list, and nothing stays checked.
SetStatusFilter(f) ==
    /\ f # desk.filter
    /\ desk' = Displayed([desk EXCEPT !.filter = f, !.list = Sent(Unasked), !.checked = {}])
    /\ UNCHANGED <<proposals, decisions>>

SelectRow(p) ==
    /\ p \in ShownIds(desk)
    /\ desk' = Displayed([desk EXCEPT !.selectedId = p])
    /\ UNCHANGED <<proposals, decisions>>

ToggleSelected(p) ==
    /\ p \in ShownIds(desk)
    /\ desk' = [desk EXCEPT !.checked = IF p \in @ THEN @ \ {p} ELSE @ \cup {p}]
    /\ UNCHANGED <<proposals, decisions>>

ToggleAllVisible ==
    LET ids == ShownIds(desk) IN
    /\ desk' = [desk EXCEPT !.checked = IF ids # {} /\ ids \subseteq @ THEN {} ELSE ids]
    /\ UNCHANGED <<proposals, decisions>>

\* The window gets the focus.
RefetchDesk ==
    /\ desk' = [desk EXCEPT !.list = Joined(@),
                            !.detail = IF desk.observed = NoProposal THEN @ ELSE Joined(@)]
    /\ UNCHANGED <<proposals, decisions>>

Sends(ids, to, batch) ==
    /\ desk.call.at = "idle" /\ decisions < MaxDecisions   \* bound: one of the page at a time
    /\ desk' = [desk EXCEPT !.call = [at |-> "sent", ids |-> ids, to |-> to, batch |-> batch,
                                      after |-> 0]]
    /\ UNCHANGED <<proposals, decisions>>

\* saveSelected and changeStatus, by the status the page shows.
DecideSelected(to) ==
    /\ IF to = "saved" THEN ShownStatus \in Saveable
                       ELSE ShownStatus \in Open /\ ShownStatus # to
    /\ Sends({SelectedProposalId(desk)}, to, FALSE)

\* Every checked one, listed still or not.
RunBatch(to) ==
    /\ desk.checked # {}
    /\ Sends(desk.checked, to, TRUE)

\* Seeded fault: a decision invalidates the proposal and not the lists.
InvalidatesDetailOnly(d) ==
    [d EXCEPT !.detail = IF d.observed = NoProposal THEN @ ELSE Invalidated(@)]

\* invalidateQueries(['proposals']): what is observed is asked for anew.
Invalidates(d) ==
    [d EXCEPT !.list = Invalidated(@),
              !.detail = IF d.observed = NoProposal THEN @ ELSE Invalidated(@),
              !.joined = @ \/ (d.list.data = Nothing /\ Late(d.list))]

\* One proposal: a refusal only shows an error. A batch always succeeds, and its
\* answer clears what is checked by then.
DecisionAnswered ==
    /\ desk.call.at = "answered"
    /\ desk' = [Invalidates(desk) EXCEPT !.call = NoCall, !.own = desk.call.after,
                                         !.checked = IF desk.call.batch THEN {} ELSE @]
    /\ UNCHANGED <<proposals, decisions>>

ServeDecision ==
    LET call == desk.call
        applies == Decided(call.ids, call.to) # proposals
    IN
    /\ call.at = "sent" /\ (applies => decisions < MaxDecisions)
    /\ proposals' = Decided(call.ids, call.to)
    /\ decisions' = IF applies THEN decisions + 1 ELSE decisions
    /\ desk' = [desk EXCEPT !.call =
                   IF applies \/ call.batch
                   THEN [NoCall EXCEPT !.at = "answered", !.batch = call.batch, !.after = decisions']
                   ELSE NoCall]

LoseDecision ==
    /\ desk.call.at # "idle"
    /\ desk' = [desk EXCEPT !.call = NoCall]
    /\ UNCHANGED <<proposals, decisions>>

AnswerList ==
    /\ desk.list.fetch = "sent"
    /\ desk' = [desk EXCEPT !.list = Answered(@, [after |-> decisions, ids |-> Listed(desk.filter)])]
    /\ UNCHANGED <<proposals, decisions>>

TakeList ==
    /\ desk.list.fetch = "answered"
    /\ desk' = Displayed([desk EXCEPT !.list = Taken(@)])
    /\ UNCHANGED <<proposals, decisions>>

\* The detail is answered and taken at once: the delay is the list's.
TakeDetail ==
    /\ desk.detail.fetch = "sent"
    /\ desk' = [desk EXCEPT !.detail =
                   Taken(Answered(@, [after |-> decisions, status |-> proposals[desk.observed]]))]
    /\ UNCHANGED <<proposals, decisions>>

\* An agent, or another tab.
DecideElsewhere(p, to) ==
    /\ decisions < MaxDecisions /\ Allowed(proposals[p], to)
    /\ proposals' = Decided({p}, to)
    /\ decisions' = decisions + 1
    /\ UNCHANGED desk

ReviewInit ==
    /\ proposals \in [Proposals -> {"pending", "rejected"}]
    /\ decisions = 0
    /\ desk = [filter |-> "pending", list |-> Sent(Unasked), detail |-> Unasked,
               observed |-> NoProposal, selectedId |-> NoProposal, checked |-> {},
               call |-> NoCall, own |-> 0, joined |-> FALSE]

ReviewNext ==
    \/ \E f \in Filters : SetStatusFilter(f)
    \/ \E p \in Proposals : SelectRow(p) \/ ToggleSelected(p)
    \/ AnswerList \/ TakeList \/ TakeDetail
    \/ ToggleAllVisible \/ RefetchDesk \/ ServeDecision \/ DecisionAnswered \/ LoseDecision
    \/ \E to \in Decision : DecideSelected(to) \/ RunBatch(to)
                            \/ \E p \in Proposals : DecideElsewhere(p, to)

ReviewSpec == ReviewInit /\ [][ReviewNext]_reviewVars

-----------------------------------------------------------------------------
\* After a decision made here was answered, the list and the proposal shown include
\* it, or a request that will is on its way. Excepted is a page that joined its first
\* fetch, answered before.
OwnDecisionsAreShown ==
    \A c \in {desk.list, desk.detail} :
        UpToDate(c, desk.own) \/ CatchesUp(c, desk.own) \/ desk.joined

=============================================================================

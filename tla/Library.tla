------------------------------ MODULE Library ------------------------------
(***************************************************************************)
(* The memories list and the page of one memory (pages/Memories.tsx and    *)
(* MemoryDetail.tsx): archiving, restoring, deleting, editing and purging  *)
(* a memory by what the page shows of it, while agents and other tabs      *)
(* change it too.                                                          *)
(*                                                                         *)
(* One memory, by its status: what else an edit changes is left out.       *)
(***************************************************************************)
EXTENDS Integers, Query

CONSTANT MaxChanges     \* bound on the changes to the memory

ASSUME LibraryAssumption == MaxChanges \in Nat

VARIABLES
    memory,     \* its memory_status at the gateway, gone when it was purged
    changes,    \* changes so far
    shelf       \* the page

libraryVars == <<memory, changes, shelf>>

Kept == {"active", "archived", "deleted"}
Snapshots == [after : 0..MaxChanges, status : Kept \cup {"gone", "unlisted"}]
Calls == {"none", "archive", "restore", "softDelete", "hardDelete", "update"}
NoText == "none"
NoWrite == [what |-> "none", at |-> "idle", body |-> NoText, after |-> 0, heard |-> FALSE]

LibraryTypeOK ==
    /\ memory \in Kept \cup {"gone"}
    /\ changes \in 0..MaxChanges
    /\ shelf.view \in {"list", "detail"}
    /\ shelf.filter \in Kept
    /\ IsEntry(shelf.list, Snapshots)    \* the list under the filter: this memory's row
    /\ IsEntry(shelf.detail, Snapshots)
    /\ shelf.editJson \in Kept \cup {NoText}     \* the status in the editor, if open
    /\ shelf.hardDeleteOpen \in BOOLEAN
    /\ shelf.write \in [what : Calls, at : {"idle", "sent", "answered"}, body : Kept \cup {NoText},
                        after : 0..MaxChanges, heard : BOOLEAN]
    /\ shelf.own \in 0..MaxChanges
    /\ shelf.caught \in BOOLEAN

-----------------------------------------------------------------------------
(* The gateway.                                                            *)

\* _set_memory_lifecycle, update_research_memory, hard_delete_memory: each reads the
\* memory first and fails without it; a purge needs the memory deleted; an update
\* takes every field of its body, the status too.
Changed(write) ==
    IF memory = "gone" THEN memory
    ELSE CASE write.what = "archive" -> "archived"
           [] write.what = "restore" -> "active"
           [] write.what = "softDelete" -> "deleted"
           [] write.what = "update" -> write.body
           [] write.what = "hardDelete" -> IF memory = "deleted" THEN "gone" ELSE memory

Refuses(write) ==
    memory = "gone" \/ (write.what = "hardDelete" /\ memory # "deleted")

-----------------------------------------------------------------------------
(* The page.                                                               *)

Page(s) == IF s.view = "list" THEN s.list ELSE s.detail

\* The status the buttons go by. A detail that is gone shows no button.
Shows == IF Page(shelf).data = Nothing THEN "unlisted" ELSE Page(shelf).data.status

\* The other page: its query is asked for again, and shows what it held till then.
Opens(view) ==
    LET late == IF view = "list" THEN Late(shelf.list) ELSE Late(shelf.detail)
        open == [shelf EXCEPT !.view = view, !.editJson = NoText,
                              !.hardDeleteOpen = FALSE, !.caught = @ \/ late,
                              !.write.heard = FALSE]
    IN
    /\ shelf.view # view
    /\ shelf' = IF view = "list" THEN [open EXCEPT !.list = Joined(@)]
                                 ELSE [open EXCEPT !.detail = Joined(@)]
    /\ UNCHANGED <<memory, changes>>

SetFilter(f) ==
    /\ shelf.view = "list" /\ f # shelf.filter
    /\ shelf' = [shelf EXCEPT !.filter = f, !.list = Sent(Unasked)]
    /\ UNCHANGED <<memory, changes>>

\* bound: one write of the page at a time
SendsWrite(what, body) ==
    /\ shelf.write.at = "idle" /\ changes < MaxChanges
    /\ shelf' = [shelf EXCEPT !.write = [what |-> what, at |-> "sent", body |-> body, after |-> 0,
                                       heard |-> TRUE]]
    /\ UNCHANGED <<memory, changes>>

Archive == Shows = "active" /\ SendsWrite("archive", NoText)
Undo == Shows = "archived" /\ SendsWrite("restore", NoText)
SoftDelete == Shows \in {"active", "archived"} /\ SendsWrite("softDelete", NoText)

\* The dialog stays open whatever becomes of the memory.
OpenHardDelete ==
    /\ shelf.view = "detail" /\ Shows = "deleted" /\ ~shelf.hardDeleteOpen
    /\ shelf' = [shelf EXCEPT !.hardDeleteOpen = TRUE]
    /\ UNCHANGED <<memory, changes>>

\* With the full id and the password typed.
HandleHardDelete == shelf.hardDeleteOpen /\ SendsWrite("hardDelete", NoText)

\* The editor holds the whole memory as it was shown when it was opened.
HandleEdit ==
    /\ shelf.view = "detail" /\ Shows \in Kept /\ shelf.editJson = NoText
    /\ shelf' = [shelf EXCEPT !.editJson = Shows]
    /\ UNCHANGED <<memory, changes>>

\* Seeded fault: what a closed editor holds is saved.
HandleSaveAnyEdit == SendsWrite("update", shelf.editJson)

HandleSaveEdit == shelf.editJson # NoText /\ SendsWrite("update", shelf.editJson)

\* onSuccess: invalidateQueries(['memories']). Unless the page was left meanwhile the
\* editor closes, and after a purge the list is opened.
InvalidatesMemories(s) ==
    [s EXCEPT !.list = IF s.view = "list" THEN Invalidated(@) ELSE @,
              !.detail = IF s.view = "detail" THEN Invalidated(@) ELSE @,
              !.caught = @ \/ (Page(s).data = Nothing /\ Late(Page(s)))]

WriteAnswered ==
    /\ shelf.write.at = "answered"
    /\ LET heard == [InvalidatesMemories(shelf) EXCEPT
                        !.write = NoWrite, !.own = shelf.write.after]
       IN shelf' =
            IF ~shelf.write.heard THEN heard
            ELSE CASE shelf.write.what = "update" -> [heard EXCEPT !.editJson = NoText]
                   [] shelf.write.what = "hardDelete" ->
                        [heard EXCEPT !.view = "list", !.editJson = NoText, !.hardDeleteOpen = FALSE,
                            !.list = Joined(@), !.caught = @ \/ Late(shelf.list)]
                   [] OTHER -> heard
    /\ UNCHANGED <<memory, changes>>

ServeWrite ==
    LET write == shelf.write IN
    /\ write.at = "sent"
    /\ ~Refuses(write) => changes < MaxChanges
    /\ memory' = Changed(write)
    /\ changes' = IF Refuses(write) THEN changes ELSE changes + 1
    /\ shelf' = [shelf EXCEPT !.write = IF Refuses(write) THEN NoWrite
                   ELSE [@ EXCEPT !.at = "answered", !.after = changes', !.body = NoText]]

LoseWrite ==
    /\ shelf.write.at # "idle"
    /\ shelf' = [shelf EXCEPT !.write = NoWrite]
    /\ UNCHANGED <<memory, changes>>

\* What a read finds: api_memories under the filter, or api_memory_detail.
Row == [after |-> changes, status |-> IF memory = shelf.filter THEN memory ELSE "unlisted"]
Record == [after |-> changes, status |-> memory]

AnswerRead ==
    /\ \/ /\ shelf.list.fetch = "sent"
          /\ shelf' = [shelf EXCEPT !.list = Answered(@, Row)]
       \/ /\ shelf.detail.fetch = "sent"
          /\ shelf' = [shelf EXCEPT !.detail = Answered(@, Record)]
    /\ UNCHANGED <<memory, changes>>

TakeRead ==
    /\ \/ Late(shelf.list) /\ shelf' = [shelf EXCEPT !.list = Taken(@)]
       \/ Late(shelf.detail) /\ shelf' = [shelf EXCEPT !.detail = Taken(@)]
    /\ UNCHANGED <<memory, changes>>

\* An agent, or another tab.
ChangeElsewhere ==
    /\ changes < MaxChanges
    /\ \E what \in Calls \ {"none"} :
          LET write == [NoWrite EXCEPT !.what = what, !.body = memory] IN
          /\ ~Refuses(write)
          /\ memory' = Changed(write)
    /\ changes' = changes + 1
    /\ UNCHANGED shelf

LibraryInit ==
    /\ memory \in Kept /\ changes = 0
    /\ shelf = [view |-> "list", filter |-> "active", list |-> Sent(Unasked), detail |-> Unasked,
                editJson |-> NoText, hardDeleteOpen |-> FALSE,
                write |-> NoWrite, own |-> 0, caught |-> FALSE]

LibraryNext ==
    \/ \E view \in {"list", "detail"} : Opens(view)
    \/ \E f \in Kept : SetFilter(f)
    \/ Archive \/ Undo \/ SoftDelete \/ OpenHardDelete \/ HandleHardDelete
    \/ HandleEdit \/ HandleSaveEdit \/ ServeWrite \/ WriteAnswered \/ LoseWrite
    \/ AnswerRead \/ TakeRead \/ ChangeElsewhere

LibrarySpec == LibraryInit /\ [][LibraryNext]_libraryVars

-----------------------------------------------------------------------------
\* After a change made here was answered, the page shown includes it, or a request
\* that will is on its way. Excepted is a page that joined a fetch answered before:
\* its first one, or the one it left under way when another page was opened.
OwnEditsAreShown ==
    UpToDate(Page(shelf), shelf.own) \/ CatchesUp(Page(shelf), shelf.own) \/ shelf.caught

=============================================================================

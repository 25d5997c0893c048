------------------------------ MODULE Secrets ------------------------------
(***************************************************************************)
(* The credentials the security page creates (pages/Security.tsx and       *)
(* security/OAuthClientsTab.tsx): API keys and OAuth clients, whose secret *)
(* is shown once, in a dialog, when the call that made them is answered.   *)
(***************************************************************************)
EXTENDS Integers, Query

CONSTANT MaxSecrets     \* bound on the credentials made

ASSUME SecretsAssumption == MaxSecrets \in Nat

VARIABLES
    desktop,    \* the tab of the security page
    made,       \* credentials made so far
    valid,      \* those not revoked
    seen,       \* those whose secret the user was shown
    dropped     \* those whose answer reached no open dialog

secretVars == <<desktop, made, valid, seen, dropped>>

NoSecret == 0

SecretsTypeOK ==
    /\ desktop.kind \in {"apiKeys", "oauth"}
    /\ desktop.editor \in BOOLEAN               \* the dialog with the form is open
    /\ desktop.created \in 0..MaxSecrets        \* createdKeyData, credential
    /\ desktop.confirm \in 0..MaxSecrets        \* to be revoked, if confirmed
    /\ desktop.call \in [at : {"idle", "sent", "answered"}, secret : 0..MaxSecrets,
                           heard : {"yes", "left", "replaced"}]
    /\ IsEntry(desktop.rows, SUBSET (1..MaxSecrets))
    /\ made \in 0..MaxSecrets
    /\ valid \subseteq 1..made /\ seen \subseteq 1..made /\ dropped \subseteq 1..made

-----------------------------------------------------------------------------
NoCreate == [at |-> "idle", secret |-> NoSecret, heard |-> "yes"]

\* isPending, of the mount that sent the call.
Pending == desktop.call.at # "idle" /\ desktop.call.heard = "yes"

\* The secret is on the screen: API keys show it in the form's dialog, OAuth in its own.
OnScreen(d) == d.created # NoSecret /\ (d.kind = "oauth" \/ d.editor)

\* Every event ends with a render.
Renders(d) ==
    /\ desktop' = d
    /\ seen' = IF OnScreen(d) THEN seen \cup {d.created} ELSE seen

\* The new button: forgets the secret shown before. OAuth's is disabled during a call.
OpenEditor ==
    /\ ~desktop.editor /\ ~OnScreen(desktop) /\ desktop.confirm = NoSecret
    /\ desktop.kind = "oauth" => ~Pending
    /\ Renders([desktop EXCEPT !.editor = TRUE, !.created = NoSecret])
    /\ UNCHANGED <<made, valid, dropped>>

\* Closed by its buttons, the cross, Escape or a click outside; OAuth's not during a
\* call. The secret's own dialog can be closed at any time.
CloseDialog ==
    /\ \/ /\ desktop.editor /\ (desktop.kind = "oauth" => ~Pending)
          /\ Renders([desktop EXCEPT !.editor = FALSE])
       \/ /\ desktop.kind = "oauth" /\ OnScreen(desktop)
          /\ Renders([desktop EXCEPT !.created = NoSecret])
    /\ UNCHANGED <<made, valid, dropped>>

\* handleCreate, submit: the form is in the dialog until there is a secret.
HandleCreate ==
    /\ desktop.editor /\ ~OnScreen(desktop) /\ ~Pending
    /\ desktop.call.at = "idle"         \* bound: one call at a time
    /\ made < MaxSecrets
    /\ Renders([desktop EXCEPT !.call = [at |-> "sent", secret |-> NoSecret, heard |-> "yes"]])
    /\ UNCHANGED <<made, valid, dropped>>

\* api_create_key: only the hash of the secret is kept.
ServeCreate ==
    /\ desktop.call.at = "sent"
    /\ made' = made + 1
    /\ valid' = valid \cup {made + 1}
    /\ desktop' = [desktop EXCEPT !.call.at = "answered", !.call.secret = made + 1]
    /\ UNCHANGED <<seen, dropped>>

\* Seeded fault: the form's dialog is closed for API keys too.
PutSecretAndClosed(d, secret) == [d EXCEPT !.created = secret, !.editor = FALSE]

\* Where the secret is put: API keys in the form's dialog, if it is still open; OAuth
\* in one of its own, the form closed.
PutSecret(d, secret) ==
    [d EXCEPT !.created = secret, !.editor = IF d.kind = "oauth" THEN FALSE ELSE @]

\* onSuccess: the list is asked for anew (by the hook) and, while the tab is mounted,
\* the secret is put in its dialog.
CreateAnswered ==
    LET secret == desktop.call.secret
        done == [desktop EXCEPT !.call = NoCreate, !.rows = Invalidated(@)]
        reached == IF desktop.call.heard = "yes" THEN PutSecret(done, secret) ELSE done
    IN
    /\ desktop.call.at = "answered"
    /\ Renders(reached)
    /\ dropped' = IF desktop.call.heard = "left" \/ (desktop.kind = "apiKeys" /\ ~desktop.editor)
                  THEN dropped \cup {secret} ELSE dropped
    /\ UNCHANGED <<made, valid>>

LoseCreate ==
    /\ desktop.call.at # "idle"
    /\ Renders([desktop EXCEPT !.call = NoCreate])
    /\ dropped' = IF desktop.call.at = "answered" THEN dropped \cup {desktop.call.secret} ELSE dropped
    /\ UNCHANGED <<made, valid>>

\* The page is left, by the browser's back button too, and opened again.
RemountSecrets ==
    /\ Renders([desktop EXCEPT !.editor = FALSE, !.created = NoSecret, !.confirm = NoSecret,
                               !.call.heard = "left", !.rows = Joined(@)])
    /\ UNCHANGED <<made, valid, dropped>>

\* OAuth's row buttons are disabled during a call: all its calls are of one mutation,
\* which only calls back the latest. API keys have one mutation for each.
RowEnabled == desktop.kind = "oauth" => ~Pending

AskRevoke(s) ==
    /\ RowEnabled /\ ~desktop.editor /\ ~OnScreen(desktop) /\ desktop.confirm = NoSecret
    /\ desktop.rows.data # Nothing /\ s \in desktop.rows.data
    /\ Renders([desktop EXCEPT !.confirm = s])
    /\ UNCHANGED <<made, valid, dropped>>

\* handleDelete, confirmAction, answered at once; or the dialog is closed.
ConfirmRevoke ==
    /\ desktop.confirm # NoSecret
    /\ \/ /\ valid' = valid \ {desktop.confirm}
          /\ Renders([desktop EXCEPT !.confirm = NoSecret, !.rows = Invalidated(@),
                        !.call.heard = IF desktop.kind = "oauth" /\ Pending THEN "replaced" ELSE @])
       \/ /\ Renders([desktop EXCEPT !.confirm = NoSecret])
          /\ UNCHANGED valid
    /\ UNCHANGED <<made, dropped>>

TakeRows ==
    /\ desktop.rows.fetch = "sent"
    /\ Renders([desktop EXCEPT !.rows = Taken(Answered(@, valid))])
    /\ UNCHANGED <<made, valid, dropped>>

\* refetchInterval, the refresh button, the window's focus.
PollRows ==
    /\ desktop.rows.fetch = "idle"
    /\ Renders([desktop EXCEPT !.rows = Joined(@)])
    /\ UNCHANGED <<made, valid, dropped>>

SecretsInit ==
    /\ desktop \in [kind : {"apiKeys", "oauth"}, editor : {FALSE}, created : {NoSecret},
                    confirm : {NoSecret}, call : {NoCreate}, rows : {Sent(Unasked)}]
    /\ made = 0 /\ valid = {} /\ seen = {} /\ dropped = {}

SecretsNext ==
    \/ OpenEditor \/ CloseDialog \/ HandleCreate \/ ServeCreate \/ CreateAnswered \/ LoseCreate
    \/ RemountSecrets \/ ConfirmRevoke \/ TakeRows \/ PollRows
    \/ \E s \in 1..MaxSecrets : AskRevoke(s)

SecretsSpec == SecretsInit /\ [][SecretsNext]_secretVars

-----------------------------------------------------------------------------
\* The secret of every credential made is shown to the user, who cannot ask for it
\* again. Excepted are an answer that was lost or came after the page was left, and
\* an API key whose dialog was closed before the answer: nobody ever sees that key.
SecretsAreShown ==
    \A s \in 1..made : s \in seen \cup dropped \/ desktop.call.secret = s

=============================================================================

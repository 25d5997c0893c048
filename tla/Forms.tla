-------------------------------- MODULE Forms --------------------------------
(***************************************************************************)
(* The configuration page's forms (pages/Config.tsx): the provider form,   *)
(* which keeps what was edited over what the gateway reports and saves a   *)
(* credential and the other fields by two calls, and the retrieval mode,   *)
(* saved as displayed; while another browser tab saves too.                *)
(*                                                                         *)
(* enabled stands for the fields of a provider, mode for those that the    *)
(* page saves as displayed. A credential is named by the save it is sent   *)
(* with.                                                                   *)
(***************************************************************************)
EXTENDS Integers, Query

CONSTANT MaxSaves   \* bound on the saves, here and elsewhere

ASSUME FormsAssumption == MaxSaves \in Nat

VARIABLES
    config,         \* the web config, and the last credential its provider was saved with
    credentials,    \* those the secret store ever held
    writable,       \* the secret store has its master key
    sheet,          \* the page
    saves

formVars == <<config, credentials, writable, sheet, saves>>

Unset == "unset"
NoCredential == 0
Modes == {"rules", "hybrid"}
Switch == {"on", "off"}
Effective == [enabled : Switch, mode : Modes]
NoSave == [at |-> "idle", key |-> NoCredential, enabled |-> Unset, mode |-> Unset]

FormsTypeOK ==
    /\ config \in [enabled : Switch, mode : Modes, with : 0..MaxSaves]
    /\ credentials \subseteq 1..MaxSaves
    /\ writable \in BOOLEAN
    /\ sheet.key \in {Unset, "empty", "typed"}
    /\ sheet.enabled \in Switch \cup {Unset}
    /\ sheet.mode \in Modes \cup {Unset}
    /\ IsEntry(sheet.effective, Effective)
    /\ sheet.save \in [at : {"idle", "secrets", "stored", "config", "saved"}, key : 0..MaxSaves,
                       enabled : Switch \cup {Unset}, mode : Modes \cup {Unset}]
    /\ saves \in 0..MaxSaves

-----------------------------------------------------------------------------
(* The page.                                                               *)

\* get: what was edited here, else what the gateway reported.
Displays(field) ==
    IF sheet[field] # Unset THEN sheet[field] ELSE sheet.effective.data[field]

\* set: the edit stays over the reported value, after a save too.
EditKey(value) ==
    /\ sheet' = [sheet EXCEPT !.key = value]
    /\ UNCHANGED <<config, credentials, writable, saves>>

EditEnabled(value) ==
    /\ sheet.effective.data # Nothing
    /\ sheet' = [sheet EXCEPT !.enabled = value]
    /\ UNCHANGED <<config, credentials, writable, saves>>

EditMode(value) ==
    /\ sheet.effective.data # Nothing
    /\ sheet' = [sheet EXCEPT !.mode = value]
    /\ UNCHANGED <<config, credentials, writable, saves>>

\* Seeded fault: the fields first, then the credential.
NextCallFieldsFirst(save) ==
    IF save.at = "idle" /\ save.enabled # Unset THEN "config"
    ELSE IF save.at \in {"idle", "stored"} /\ save.key # NoCredential THEN "secrets"
    ELSE "idle"

\* The call a save goes on with: the credential, then the other fields, each only if
\* there is one.
NextCall(save) ==
    IF save.at = "idle" /\ save.key # NoCredential THEN "secrets"
    ELSE IF save.at \in {"idle", "stored"} /\ save.enabled # Unset THEN "config"
    ELSE "idle"

Continued(save) ==
    IF NextCall(save) = "idle" THEN NoSave ELSE [save EXCEPT !.at = NextCall(save)]

\* handleSave: all that was edited, an empty key left out. bound: one save at a
\* time (the button is disabled meanwhile, unless the form is mounted anew).
HandleSave ==
    /\ sheet.save.at = "idle" /\ saves < MaxSaves
    /\ saves' = saves + 1
    /\ sheet' = [sheet EXCEPT !.save =
                    Continued([NoSave EXCEPT !.enabled = sheet.enabled,
                            !.key = IF sheet.key = "typed" THEN saves' ELSE NoCredential])]
    /\ UNCHANGED <<config, credentials, writable>>

\* The retrieval mode's own button: the value displayed, edited or not.
SaveMode ==
    /\ sheet.save.at = "idle" /\ saves < MaxSaves
    /\ sheet.effective.data # Nothing
    /\ saves' = saves + 1
    /\ sheet' = [sheet EXCEPT !.save =
                    [NoSave EXCEPT !.at = "config", !.mode = Displays("mode")]]
    /\ UNCHANGED <<config, credentials, writable>>

\* api_config_secrets_patch: refused without the master key, and the save ends there.
ServeSecrets ==
    /\ sheet.save.at = "secrets"
    /\ credentials' = IF writable THEN credentials \cup {sheet.save.key} ELSE credentials
    /\ sheet' = [sheet EXCEPT !.save = IF writable THEN [@ EXCEPT !.at = "stored"] ELSE NoSave]
    /\ UNCHANGED <<config, writable, saves>>

SecretsAnswered ==
    /\ sheet.save.at = "stored"
    /\ sheet' = [sheet EXCEPT !.save = Continued(@)]
    /\ UNCHANGED <<config, credentials, writable, saves>>

\* api_config_web_patch: the fields sent, over those it had.
ServeConfig ==
    LET save == sheet.save IN
    /\ save.at = "config"
    /\ config' = [enabled |-> IF save.enabled = Unset THEN config.enabled ELSE save.enabled,
                  mode |-> IF save.mode = Unset THEN config.mode ELSE save.mode,
                  with |-> IF save.key # NoCredential THEN save.key ELSE config.with]
    /\ sheet' = [sheet EXCEPT !.save.at = "saved"]
    /\ UNCHANGED <<credentials, writable, saves>>

ConfigAnswered ==
    /\ sheet.save.at = "saved"
    /\ sheet' = [sheet EXCEPT !.save = NoSave, !.effective = Invalidated(@)]
    /\ UNCHANGED <<config, credentials, writable, saves>>

\* A call, or its answer, is lost: handleSave's catch ends the save.
LoseSave ==
    /\ sheet.save.at # "idle"
    /\ sheet' = [sheet EXCEPT !.save = NoSave]
    /\ UNCHANGED <<config, credentials, writable, saves>>

\* Another tab of the page and back: the edits are gone, a save under way goes on.
RemountForm ==
    /\ sheet' = [sheet EXCEPT !.key = Unset, !.enabled = Unset, !.mode = Unset,
                                !.effective = Joined(@)]
    /\ UNCHANGED <<config, credentials, writable, saves>>

TakeEffective ==
    /\ sheet.effective.fetch = "sent"
    /\ sheet' = [sheet EXCEPT !.effective =
                    Taken(Answered(@, [enabled |-> config.enabled, mode |-> config.mode]))]
    /\ UNCHANGED <<config, credentials, writable, saves>>

\* Another browser tab.
SaveElsewhere ==
    /\ saves < MaxSaves
    /\ saves' = saves + 1
    /\ \E enabled \in Switch, mode \in Modes :
          config' = [config EXCEPT !.enabled = enabled, !.mode = mode]
    /\ UNCHANGED <<credentials, writable, sheet>>

FormsInit ==
    /\ config = [enabled |-> "off", mode |-> "rules", with |-> NoCredential]
    /\ credentials = {}
    /\ writable \in BOOLEAN
    /\ sheet = [key |-> Unset, enabled |-> Unset, mode |-> Unset,
                effective |-> Sent(Unasked), save |-> NoSave]
    /\ saves = 0

FormsNext ==
    \/ \E value \in {"empty", "typed"} : EditKey(value)
    \/ \E value \in Switch : EditEnabled(value)
    \/ \E value \in Modes : EditMode(value)
    \/ HandleSave \/ SaveMode \/ ServeSecrets \/ SecretsAnswered \/ ServeConfig \/ ConfigAnswered
    \/ LoseSave \/ RemountForm \/ TakeEffective \/ SaveElsewhere

FormsSpec == FormsInit /\ [][FormsNext]_formVars

-----------------------------------------------------------------------------
\* handleSave's own comment: a provider saved together with a credential is never
\* enabled or configured while that credential is missing, wherever the save stops.
CredentialFirst == config.with # NoCredential => config.with \in credentials

=============================================================================

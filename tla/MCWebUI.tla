------------------------------ MODULE MCWebUI ------------------------------
(***************************************************************************)
(* Small instances of the Web UI's parts, one at a time: the pages share   *)
(* the API client and the query cache, modelled beside each, and no other  *)
(* state. The parts that do not run stay in one initial state.             *)
(***************************************************************************)
EXTENDS Client, Panels, Review, Library, Forms, Explorer, Secrets, TLC

CONSTANTS Parts, r1, r2, t1, t2

VARIABLE part

InFirstTab == r1 :> t1 @@ r2 :> t1

pages == <<panelVars, reviewVars, libraryVars, formVars, explorerVars, secretVars>>
webuiVars == <<part, clientVars, pages>>

\* Nothing happens in the parts that do not run, so it does not matter which of
\* their initial states they are in.
AtRest ==
    /\ part # "panels" => kind = "unified"
    /\ part # "review" => proposals = [p \in Proposals |-> "pending"]
    /\ part # "library" => memory = "active"
    /\ part # "forms" => writable
    /\ part # "explorer" => screen = "audit" /\ eventType = CHOOSE x \in Texts : TRUE
    /\ part # "secrets" => desktop.kind = "oauth"

WebUIInit ==
    /\ part \in Parts
    /\ ClientInit /\ PanelsInit /\ ReviewInit /\ LibraryInit /\ FormsInit /\ ExplorerInit
    /\ SecretsInit
    /\ AtRest

ClientSteps == part = "client" /\ ClientNext /\ UNCHANGED pages

PanelsSteps ==
    /\ part = "panels" /\ PanelsNext
    /\ UNCHANGED <<clientVars, reviewVars, libraryVars, formVars, explorerVars, secretVars>>

ReviewSteps ==
    /\ part = "review" /\ ReviewNext
    /\ UNCHANGED <<clientVars, panelVars, libraryVars, formVars, explorerVars, secretVars>>

LibrarySteps ==
    /\ part = "library" /\ LibraryNext
    /\ UNCHANGED <<clientVars, panelVars, reviewVars, formVars, explorerVars, secretVars>>

FormsSteps ==
    /\ part = "forms" /\ FormsNext
    /\ UNCHANGED <<clientVars, panelVars, reviewVars, libraryVars, explorerVars, secretVars>>

ExplorerSteps ==
    /\ part = "explorer" /\ ExplorerNext
    /\ UNCHANGED <<clientVars, panelVars, reviewVars, libraryVars, formVars, secretVars>>

SecretsSteps ==
    /\ part = "secrets" /\ SecretsNext
    /\ UNCHANGED <<clientVars, panelVars, reviewVars, libraryVars, formVars, explorerVars>>

WebUINext ==
    /\ UNCHANGED part
    /\ \/ ClientSteps \/ PanelsSteps \/ ReviewSteps \/ LibrarySteps \/ FormsSteps \/ ExplorerSteps
       \/ SecretsSteps

WebUISpec == WebUIInit /\ [][WebUINext]_webuiVars /\ ClientFairness

-----------------------------------------------------------------------------
\* The variables of every part of the Web UI have their types.
WebUITypeOK ==
    /\ part \in Parts
    /\ ClientTypeOK /\ PanelsTypeOK /\ ReviewTypeOK /\ LibraryTypeOK /\ FormsTypeOK
    /\ ExplorerTypeOK /\ SecretsTypeOK

\* What the user decided on a proposal, or changed in a memory, is on the page that
\* shows it, or will be by a request under way.
OwnChangesAreShown == OwnDecisionsAreShown /\ OwnEditsAreShown

=============================================================================

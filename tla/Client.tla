------------------------------- MODULE Client -------------------------------
(***************************************************************************)
(* The page's API client (lib/api.ts) and the gateway's session manager:   *)
(* how a request whose access token has expired waits for a refresh and is *)
(* sent again, in several tabs that share the browser's storage, around    *)
(* logins, logouts, password changes and restarts.                         *)
(*                                                                         *)
(* Leaving a page for the login form is one step: the requests the page    *)
(* had sent are dropped with it.                                           *)
(***************************************************************************)
EXTENDS Integers

CONSTANTS
    Tabs,
    Requests,   \* the requests the pages make, each at most once
    Writes,     \* those that are not GET
    Home,       \* the tab each is made in
    NoToken,
    MaxTokens,  \* bounds: tokens the gateway issues,
    MaxEras,    \* password changes,
    MaxRestarts \* restarts

ASSUME RequestsAssumption == Writes \subseteq Requests /\ Home \in [Requests -> Tabs]
ASSUME BoundsAssumption == {MaxTokens, MaxEras, MaxRestarts} \subseteq Nat

VARIABLES
    access, refresh,    \* localStorage: the two tokens
    cookie,             \* the webui_session cookie: an access token
    page,               \* what each tab is at
    isRefreshing,       \* by tab
    refreshSubscribers, \* by tab: the requests parked for a new token
    at,                 \* where each request is
    sent,               \* the token each carries, and whether as a Bearer
    ran,                \* how often the gateway carried each out
    issued,             \* tokens issued, as a count that names the next one
    live,               \* access tokens not past their exp
    active,             \* active_refresh_jtis
    era,                \* password changes so far: the gateway's clock
    invalidAfter,       \* invalid_after, on that clock
    restarts

browser == <<access, refresh, cookie>>
client == <<page, isRefreshing, refreshSubscribers, at, sent>>
gateway == <<issued, live, active, era, invalidAfter, restarts>>
clientVars == <<browser, client, ran, gateway>>

\* iat is the era a token is issued in, login that of the password behind it.
Token == [n : 1..MaxTokens, iat : 0..MaxEras, login : 0..MaxEras]
Pages == {"app", "leaving", "login"}
Places == {"idle", "sent", "refused", "leading", "granted", "denied", "parked", "resent",
           "settled"}

ClientTypeOK ==
    /\ {access, refresh, cookie} \subseteq Token \cup {NoToken}
    /\ page \in [Tabs -> Pages]
    /\ isRefreshing \in [Tabs -> BOOLEAN]
    /\ refreshSubscribers \in [Tabs -> SUBSET Requests]
    /\ at \in [Requests -> Places]
    /\ sent \in [Requests -> [token : Token \cup {NoToken}, bearer : BOOLEAN, again : BOOLEAN]]
    /\ ran \in [Requests -> Nat]
    /\ issued \in 0..MaxTokens
    /\ live \subseteq Token /\ active \subseteq Token
    /\ era \in 0..MaxEras /\ invalidAfter \in 0..era
    /\ restarts \in 0..MaxRestarts

Unsent == [token |-> NoToken, bearer |-> FALSE, again |-> FALSE]

\* The caller has its answer, or an error.
Settles(q) ==
    /\ at' = [at EXCEPT ![q] = "settled"]
    /\ sent' = [sent EXCEPT ![q] = Unsent]

In(t) == {q \in Requests : Home[q] = t}

\* SessionManager.current: signed by this gateway, not past its exp, and not
\* issued before the last password change this process has seen.
Current(token) == token \in live /\ token.iat >= invalidAfter

\* The token and whether it travels as a Bearer; else the cookie does.
Headers == [token |-> IF access # NoToken THEN access ELSE cookie,
            bearer |-> access # NoToken, again |-> FALSE]

-----------------------------------------------------------------------------
(* The page's requests.                                                    *)

\* request(), up to its first await.
Ask(q) ==
    /\ at[q] = "idle" /\ page[Home[q]] # "login"
    /\ at' = [at EXCEPT ![q] = "sent"]
    /\ sent' = [sent EXCEPT ![q] = Headers]
    /\ UNCHANGED <<browser, page, isRefreshing, refreshSubscribers, ran, gateway>>

\* SecurityMiddleware: 401 without a session; 403 for a write without a Bearer,
\* since the page has no CSRF token to send; else the handler runs.
Serve(q) ==
    /\ at[q] \in {"sent", "resent"}
    /\ \/ /\ ~Current(sent[q].token)
          /\ at' = [at EXCEPT ![q] = "refused"]
          /\ UNCHANGED <<sent, ran>>
       \/ /\ Current(sent[q].token) /\ q \in Writes /\ ~sent[q].bearer
          /\ Settles(q)
          /\ UNCHANGED ran
       \/ /\ Current(sent[q].token) /\ (q \notin Writes \/ sent[q].bearer)
          /\ ran' = [ran EXCEPT ![q] = @ + 1]
          /\ Settles(q)
    /\ UNCHANGED <<browser, page, isRefreshing, refreshSubscribers, gateway>>

\* fetch() rejects: the request, or its refusal, is lost. (When the answer of one
\* carried out is lost, the caller only sees an error in its place.)
Lose(q) ==
    /\ at[q] \in {"sent", "resent", "refused"}
    /\ Settles(q)
    /\ UNCHANGED <<browser, page, isRefreshing, refreshSubscribers, ran, gateway>>

\* The tab forgets its page and goes to the login form.
Departs(t) ==
    /\ page' = [page EXCEPT ![t] = "login"]
    /\ isRefreshing' = [isRefreshing EXCEPT ![t] = FALSE]
    /\ refreshSubscribers' = [refreshSubscribers EXCEPT ![t] = {}]
    /\ at' = [q \in Requests |->
                IF q \in In(t) /\ at[q] # "idle" THEN "settled" ELSE at[q]]
    /\ sent' = [q \in Requests |-> IF q \in In(t) THEN Unsent ELSE sent[q]]

ForgetsTokens == access' = NoToken /\ refresh' = NoToken

\* Seeded fault: every refused request refreshes by itself.
TakesAlwaysTheLead(q) == TRUE

\* isRefreshing is read and set with no await between.
TakesTheLead(q) == ~isRefreshing[Home[q]]

\* A 401 arrives: lead the refresh, wait for it, or leave for the login form. A
\* request sent again is not sent a third time.
Refused(q) ==
    LET t == Home[q] IN
    /\ at[q] = "refused"
    /\ \/ /\ sent[q].again
          /\ Settles(q)
          /\ UNCHANGED <<access, refresh, page, isRefreshing, refreshSubscribers>>
       \/ /\ ~sent[q].again /\ refresh = NoToken
          /\ Departs(t) /\ ForgetsTokens
       \/ /\ ~sent[q].again /\ refresh # NoToken
          /\ TakesTheLead(q)
          /\ isRefreshing' = [isRefreshing EXCEPT ![t] = TRUE]
          /\ at' = [at EXCEPT ![q] = "leading"]
          /\ sent' = [sent EXCEPT ![q].token = refresh]
          /\ UNCHANGED <<access, refresh, page, refreshSubscribers>>
       \/ /\ ~sent[q].again /\ refresh # NoToken
          /\ ~TakesTheLead(q)
          /\ at' = [at EXCEPT ![q] = "parked"]
          /\ refreshSubscribers' = [refreshSubscribers EXCEPT ![t] = @ \cup {q}]
          /\ UNCHANGED <<access, refresh, page, isRefreshing, sent>>
    /\ UNCHANGED <<cookie, ran, gateway>>

\* api_refresh: a known refresh token buys an access token, and is kept.
ServeRefresh(q) ==
    /\ at[q] = "leading"
    /\ \/ /\ sent[q].token \in active
          /\ issued < MaxTokens
          /\ LET new == [n |-> issued + 1, iat |-> era, login |-> sent[q].token.login] IN
                /\ issued' = issued + 1
                /\ live' = live \cup {new}
                /\ cookie' = new
                /\ sent' = [sent EXCEPT ![q].token = new]
          /\ at' = [at EXCEPT ![q] = "granted"]
       \/ /\ sent[q].token \notin active
          /\ at' = [at EXCEPT ![q] = "denied"]
          /\ UNCHANGED <<issued, live, cookie, sent>>
    /\ UNCHANGED <<access, refresh, page, isRefreshing, refreshSubscribers, ran,
                   active, era, invalidAfter, restarts>>

\* Seeded fault: a request subscribes when it is made, and is sent again though it
\* was served.
onRefreshedForAll(t, token) ==
    LET served == {p \in In(t) : at[p] # "idle"} IN
    [at |-> [p \in Requests |-> IF p \in served THEN "resent" ELSE at[p]],
     sent |-> [p \in Requests |->
                 IF p \in served THEN [token |-> token, bearer |-> TRUE, again |-> TRUE]
                 ELSE sent[p]],
     list |-> {}]

\* onRefreshed: every subscriber sends its request again with the new token, and
\* the list is emptied.
onRefreshed(t, token) ==
    LET served == refreshSubscribers[t] IN
    [at |-> [p \in Requests |-> IF p \in served THEN "resent" ELSE at[p]],
     sent |-> [p \in Requests |->
                 IF p \in served THEN [token |-> token, bearer |-> TRUE, again |-> TRUE]
                 ELSE sent[p]],
     list |-> {}]

\* The new token is stored, the subscribers are served, and only then does the
\* request that led the refresh subscribe.
Granted(q) ==
    LET t == Home[q]
        served == onRefreshed(t, sent[q].token) IN
    /\ at[q] = "granted"
    /\ access' = sent[q].token
    /\ isRefreshing' = [isRefreshing EXCEPT ![t] = FALSE]
    /\ at' = [served.at EXCEPT ![q] = "parked"]
    /\ sent' = served.sent
    /\ refreshSubscribers' = [refreshSubscribers EXCEPT ![t] = served.list \cup {q}]
    /\ UNCHANGED <<refresh, cookie, page, ran, gateway>>

\* The refresh is denied, or lost on its way there or back.
Denied(q) ==
    /\ at[q] \in {"leading", "granted", "denied"}
    /\ Departs(Home[q]) /\ ForgetsTokens
    /\ UNCHANGED <<cookie, ran, gateway>>

-----------------------------------------------------------------------------
(* The user.                                                               *)

\* The login form: both tokens are stored, and the page is loaded anew.
Login(t) ==
    /\ page[t] = "login" /\ issued < MaxTokens
    /\ LET new == [n |-> issued + 1, iat |-> era, login |-> era] IN
          /\ issued' = issued + 1
          /\ live' = live \cup {new}
          /\ active' = active \cup {new}
          /\ access' = new /\ refresh' = new /\ cookie' = new
    /\ page' = [page EXCEPT ![t] = "app"]
    /\ UNCHANGED <<isRefreshing, refreshSubscribers, at, sent, ran, era, invalidAfter, restarts>>

\* The page is opened with the cookie another login, or a refresh, left behind.
Reopen(t) ==
    /\ page[t] = "login" /\ Current(cookie)
    /\ page' = [page EXCEPT ![t] = "app"]
    /\ UNCHANGED <<browser, isRefreshing, refreshSubscribers, at, sent, ran, gateway>>

\* The logout button: the gateway discards the refresh token, unless the call is
\* lost; access tokens stay good until their exp.
Logout(t) ==
    /\ page[t] = "app"
    /\ \/ active' = active \ {refresh} /\ cookie' = NoToken
       \/ UNCHANGED <<active, cookie>>
    /\ page' = [page EXCEPT ![t] = "leaving"]
    /\ UNCHANGED <<access, refresh, isRefreshing, refreshSubscribers, at, sent, ran,
                   issued, live, era, invalidAfter, restarts>>

\* Seeded fault: the refresh tokens outlive the password.
invalidate_access ==
    /\ invalidAfter' = era + 1
    /\ UNCHANGED active

\* SessionManager.invalidate_all: no token issued before, no refresh token at all.
invalidate_all ==
    /\ invalidAfter' = era + 1
    /\ active' = {}

\* The password form, whose own request carries a current Bearer. If the form is
\* left before the answer, nothing follows in the page.
ChangePassword(t) ==
    /\ page[t] = "app" /\ era < MaxEras
    /\ access # NoToken /\ Current(access)
    /\ invalidate_all
    /\ era' = era + 1
    /\ cookie' = NoToken
    /\ \/ page' = [page EXCEPT ![t] = "leaving"]
       \/ UNCHANGED page
    /\ UNCHANGED <<access, refresh, isRefreshing, refreshSubscribers, at, sent, ran,
                   issued, live, restarts>>

\* The answer arrives, or its failure: the tokens are removed, whoever's they are.
Leave(t) ==
    /\ page[t] = "leaving"
    /\ Departs(t) /\ ForgetsTokens
    /\ UNCHANGED <<cookie, ran, gateway>>

-----------------------------------------------------------------------------
(* Time, and the gateway's process.                                        *)

Expire(token) ==
    /\ live' = live \ {token}
    /\ UNCHANGED <<browser, client, ran, issued, active, era, invalidAfter, restarts>>

\* active_refresh_jtis and invalid_after are in memory only.
Restart ==
    /\ restarts < MaxRestarts
    /\ restarts' = restarts + 1
    /\ active' = {} /\ invalidAfter' = 0
    /\ UNCHANGED <<browser, client, ran, issued, live, era>>

ClientInit ==
    /\ access = NoToken /\ refresh = NoToken /\ cookie = NoToken
    /\ page = [t \in Tabs |-> "login"]
    /\ isRefreshing = [t \in Tabs |-> FALSE]
    /\ refreshSubscribers = [t \in Tabs |-> {}]
    /\ at = [q \in Requests |-> "idle"]
    /\ sent = [q \in Requests |-> Unsent]
    /\ ran = [q \in Requests |-> 0]
    /\ issued = 0 /\ live = {} /\ active = {}
    /\ era = 0 /\ invalidAfter = 0 /\ restarts = 0

Network(q) == Serve(q) \/ ServeRefresh(q) \/ Refused(q) \/ Granted(q) \/ Denied(q)

ClientNext ==
    \/ \E q \in Requests : Ask(q) \/ Lose(q) \/ Network(q)
    \/ \E t \in Tabs : Login(t) \/ Reopen(t) \/ Logout(t) \/ ChangePassword(t) \/ Leave(t)
    \/ \E token \in live : Expire(token)
    \/ Restart

\* A call that was sent is answered, and the answer is handled. Nobody has to ask,
\* to log in or out, and nothing has to expire.
ClientFairness == \A q \in Requests : WF_clientVars(Network(q))

ClientSpec == ClientInit /\ [][ClientNext]_clientVars /\ ClientFairness

-----------------------------------------------------------------------------
Leads(q) == at[q] \in {"leading", "granted", "denied"}

\* A tab refreshes once at a time, whatever number of its requests are refused, and
\* only while one of them leads; those that wait are all on its list, to be sent again
\* when the token comes.
OneRefreshPerTab ==
    \A t \in Tabs :
        /\ isRefreshing[t] <=> \E q \in In(t) : Leads(q)
        /\ \A p, q \in In(t) : Leads(p) /\ Leads(q) => p = q
        /\ refreshSubscribers[t] = {q \in In(t) : at[q] = "parked"}

\* What the user asked for once is carried out at most once, however often the
\* request waited for a token and was sent again.
RunsAtMostOnce == \A q \in Requests : ran[q] <= 1

\* After a password change no request is carried out for a session opened with the
\* old password, through an access token, a refresh or the cookie, for as long as
\* the gateway runs.
SessionsEndWithPassword ==
    [][\A q \in Requests : ran'[q] > ran[q] => sent[q].token.login >= invalidAfter]_clientVars

Settled(q) == at[q] = "settled"

\* lib/api.ts: "Handle auth expired & retry with refreshed token". The request that
\* finds the token expired is itself tried again after the refresh, or fails.
ExpiredIsRetried == \A q \in Requests : Leads(q) ~> Settled(q)

=============================================================================

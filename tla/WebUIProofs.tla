---------------------------- MODULE WebUIProofs ----------------------------
(***************************************************************************)
(* Proofs about the Web UI. Of its pages: that a provider's credential is  *)
(* saved first, that an answer is shown for what was asked, that secrets   *)
(* are shown, that the user's own changes are, and that a job panel learns *)
(* what became of its jobs. Of the API client: that a tab refreshes its    *)
(* token once, that no request is carried out twice, and that a password   *)
(* change ends every session. For any tabs, requests, tokens, proposals,   *)
(* texts, jobs, changes and faults.                                        *)
(***************************************************************************)
EXTENDS MCWebUI, FiniteSets, FiniteSetTheorems, TLAPS

(* The API client: its types first.                                        *)


USE RequestsAssumption, BoundsAssumption

LEMMA InitHasType == ClientInit => ClientTypeOK
BY DEF ClientInit, ClientTypeOK, Token, Pages, Places, Unsent

\* What a request carries keeps its type when it settles, or is left behind.
LEMMA SettlesHasType ==
    ASSUME ClientTypeOK, NEW q \in Requests, Settles(q)
    PROVE  /\ at' \in [Requests -> Places]
           /\ sent' \in [Requests -> [token : Token \cup {NoToken}, bearer : BOOLEAN, again : BOOLEAN]]
BY DEF ClientTypeOK, Settles, Places, Unsent

LEMMA DepartsHasType ==
    ASSUME ClientTypeOK, NEW t \in Tabs, Departs(t)
    PROVE  /\ page' \in [Tabs -> Pages]
           /\ isRefreshing' \in [Tabs -> BOOLEAN]
           /\ refreshSubscribers' \in [Tabs -> SUBSET Requests]
           /\ at' \in [Requests -> Places]
           /\ sent' \in [Requests -> [token : Token \cup {NoToken}, bearer : BOOLEAN, again : BOOLEAN]]
BY DEF ClientTypeOK, Departs, Pages, Places, Unsent, In

\* The requests of a page.
LEMMA RequestKeepsType ==
    ASSUME ClientTypeOK, NEW q \in Requests, Ask(q) \/ Serve(q) \/ Lose(q) \/ Refused(q)
    PROVE  ClientTypeOK'
<1>0. Home[q] \in Tabs
  OBVIOUS
<1>1. CASE Ask(q)
  <2>1. Headers \in [token : Token \cup {NoToken}, bearer : BOOLEAN, again : BOOLEAN]
    BY DEF Headers, ClientTypeOK
  <2> QED BY <1>1, <2>1 DEF Ask, ClientTypeOK, browser, gateway, Places
<1>2. CASE Serve(q)
  <2>1. CASE Settles(q)
    <3>1. ran' \in [Requests -> Nat]
      BY <1>2 DEF Serve, ClientTypeOK
    <3>2. UNCHANGED <<browser, page, isRefreshing, refreshSubscribers, gateway>>
      BY <1>2 DEF Serve
    <3> QED BY <2>1, <3>1, <3>2, SettlesHasType DEF ClientTypeOK, browser, gateway
  <2>2. CASE at' = [at EXCEPT ![q] = "refused"] /\ UNCHANGED <<sent, ran>>
    BY <1>2, <2>2 DEF Serve, ClientTypeOK, browser, gateway, Places
  <2> QED BY <1>2, <2>1, <2>2 DEF Serve
<1>3. CASE Lose(q)
  BY <1>3, SettlesHasType DEF Lose, ClientTypeOK, browser, gateway
<1>4. CASE Refused(q)
  <2>0. UNCHANGED <<cookie, ran, gateway>>
    BY <1>4 DEF Refused
  <2>1. CASE sent[q].again /\ Settles(q) /\ UNCHANGED <<access, refresh, page, isRefreshing, refreshSubscribers>>
    BY <2>0, <2>1, SettlesHasType DEF ClientTypeOK, gateway
  <2>2. CASE Departs(Home[q]) /\ ForgetsTokens
    BY <1>0, <2>0, <2>2, DepartsHasType DEF ForgetsTokens, ClientTypeOK, gateway
  <2>3. CASE /\ isRefreshing' = [isRefreshing EXCEPT ![Home[q]] = TRUE]
             /\ at' = [at EXCEPT ![q] = "leading"]
             /\ sent' = [sent EXCEPT ![q].token = refresh]
             /\ UNCHANGED <<access, refresh, page, refreshSubscribers>>
    BY <1>0, <2>0, <2>3 DEF ClientTypeOK, gateway, Places
  <2>4. CASE /\ at' = [at EXCEPT ![q] = "parked"]
             /\ refreshSubscribers' = [refreshSubscribers EXCEPT ![Home[q]] = @ \cup {q}]
             /\ UNCHANGED <<access, refresh, page, isRefreshing, sent>>
    BY <1>0, <2>0, <2>4 DEF ClientTypeOK, gateway, Places
  <2> QED BY <1>4, <2>1, <2>2, <2>3, <2>4 DEF Refused
<1> QED BY <1>1, <1>2, <1>3, <1>4

\* The refresh.
LEMMA RefreshKeepsType ==
    ASSUME ClientTypeOK, NEW q \in Requests, ServeRefresh(q) \/ Granted(q) \/ Denied(q)
    PROVE  ClientTypeOK'
<1>0. Home[q] \in Tabs
  OBVIOUS
<1>1. CASE ServeRefresh(q)
  <2>1. CASE sent[q].token \in active /\ issued < MaxTokens
    <3> DEFINE new == [n |-> issued + 1, iat |-> era, login |-> sent[q].token.login]
    <3>1. new \in Token
      BY <2>1 DEF ClientTypeOK, Token
    <3> HIDE DEF new
    <3>2. /\ issued' = issued + 1 /\ live' = live \cup {new} /\ cookie' = new
          /\ sent' = [sent EXCEPT ![q].token = new] /\ at' = [at EXCEPT ![q] = "granted"]
          /\ UNCHANGED <<access, refresh, page, isRefreshing, refreshSubscribers, ran,
                         active, era, invalidAfter, restarts>>
      BY <1>1, <2>1 DEF ServeRefresh, new
    <3> QED BY <2>1, <3>1, <3>2 DEF ClientTypeOK, Places
  <2>2. CASE sent[q].token \notin active
    BY <1>1, <2>2 DEF ServeRefresh, ClientTypeOK, Places
  <2> QED BY <1>1, <2>1, <2>2 DEF ServeRefresh
<1>2. CASE Granted(q)
  <2>1. sent[q].token \in Token \cup {NoToken}
    BY DEF ClientTypeOK
  <2>2. /\ onRefreshed(Home[q], sent[q].token).at \in [Requests -> Places]
        /\ onRefreshed(Home[q], sent[q].token).sent \in
              [Requests -> [token : Token \cup {NoToken}, bearer : BOOLEAN, again : BOOLEAN]]
        /\ onRefreshed(Home[q], sent[q].token).list = {}
    BY <2>1 DEF onRefreshed, ClientTypeOK, Places
  <2> QED BY <1>0, <1>2, <2>1, <2>2 DEF Granted, ClientTypeOK, gateway, Places
<1>3. CASE Denied(q)
  BY <1>0, <1>3, DepartsHasType DEF Denied, ForgetsTokens, ClientTypeOK, gateway
<1> QED BY <1>1, <1>2, <1>3

\* The user, time and the gateway's process.
LEMMA OthersKeepType ==
    ASSUME ClientTypeOK,
           \/ \E t \in Tabs : Login(t) \/ Reopen(t) \/ Logout(t) \/ ChangePassword(t) \/ Leave(t)
           \/ \E token \in live : Expire(token)
           \/ Restart
    PROVE  ClientTypeOK'
<1>1. ASSUME NEW t \in Tabs, Login(t) PROVE ClientTypeOK'
  <2> DEFINE new == [n |-> issued + 1, iat |-> era, login |-> era]
  <2>1. new \in Token
    BY <1>1 DEF Login, ClientTypeOK, Token
  <2> HIDE DEF new
  <2>2. /\ issued' = issued + 1 /\ issued < MaxTokens
        /\ live' = live \cup {new} /\ active' = active \cup {new}
        /\ access' = new /\ refresh' = new /\ cookie' = new
        /\ page' = [page EXCEPT ![t] = "app"]
        /\ UNCHANGED <<isRefreshing, refreshSubscribers, at, sent, ran, era, invalidAfter, restarts>>
    BY <1>1 DEF Login, new
  <2> QED BY <2>1, <2>2 DEF ClientTypeOK, Pages
<1>2. ASSUME NEW t \in Tabs, Reopen(t) PROVE ClientTypeOK'
  BY <1>2 DEF Reopen, ClientTypeOK, browser, gateway, Pages
<1>3. ASSUME NEW t \in Tabs, Logout(t) PROVE ClientTypeOK'
  BY <1>3 DEF Logout, ClientTypeOK, Pages
<1>4. ASSUME NEW t \in Tabs, ChangePassword(t) PROVE ClientTypeOK'
  BY <1>4 DEF ChangePassword, invalidate_all, ClientTypeOK, Pages
<1>5. ASSUME NEW t \in Tabs, Leave(t) PROVE ClientTypeOK'
  BY <1>5, DepartsHasType DEF Leave, ForgetsTokens, ClientTypeOK, gateway
<1>6. ASSUME NEW token \in live, Expire(token) PROVE ClientTypeOK'
  BY <1>6 DEF Expire, ClientTypeOK, browser, client
<1>7. CASE Restart
  BY <1>7 DEF Restart, ClientTypeOK, browser, client
<1> QED BY <1>1, <1>2, <1>3, <1>4, <1>5, <1>6, <1>7

LEMMA StepKeepsType == ClientTypeOK /\ [ClientNext]_clientVars => ClientTypeOK'
<1>1. ASSUME ClientTypeOK, ClientNext PROVE ClientTypeOK'
  BY <1>1, RequestKeepsType, RefreshKeepsType, OthersKeepType DEF ClientNext, Network
<1>2. ASSUME ClientTypeOK, UNCHANGED clientVars PROVE ClientTypeOK'
  BY <1>2 DEF ClientTypeOK, clientVars, browser, client, gateway
<1> QED BY <1>1, <1>2

\* Every variable of the client and of the session manager keeps its type.
THEOREM ClientTypeCorrect == ClientSpec => []ClientTypeOK
BY InitHasType, StepKeepsType, PTL DEF ClientSpec

-----------------------------------------------------------------------------
(* One refresh at a time. With the types, the property is inductive: the   *)
(* flag and the list of a tab change in the steps in which its requests    *)
(* begin or stop to lead, and to wait.                                     *)

LEMMA InitOneRefresh == ClientInit => OneRefreshPerTab
BY DEF ClientInit, OneRefreshPerTab, In, Leads

\* Where nothing leads or waits anew, nor stops to, and the flags and lists are kept.
LEMMA SameOneRefresh ==
    ASSUME OneRefreshPerTab, UNCHANGED <<isRefreshing, refreshSubscribers>>,
           \A q \in Requests : (Leads(q)' <=> Leads(q)) /\ (at'[q] = "parked" <=> at[q] = "parked")
    PROVE  OneRefreshPerTab'
BY DEF OneRefreshPerTab, In

\* A tab that leaves for the login form forgets its flag, its list and its requests.
LEMMA DepartsOneRefresh ==
    ASSUME ClientTypeOK, OneRefreshPerTab, NEW t \in Tabs, Departs(t)
    PROVE  OneRefreshPerTab'
<1> SUFFICES ASSUME NEW u \in Tabs
             PROVE  /\ isRefreshing'[u] <=> \E q \in In(u) : Leads(q)'
                    /\ \A p, q \in In(u) : Leads(p)' /\ Leads(q)' => p = q
                    /\ refreshSubscribers'[u] = {q \in In(u) : at'[q] = "parked"}
  BY DEF OneRefreshPerTab, In
<1>1. CASE u = t
  <2>1. \A q \in In(u) : at'[q] \in {"settled", "idle"}
    BY <1>1 DEF Departs, In
  <2>2. isRefreshing'[u] = FALSE /\ refreshSubscribers'[u] = {}
    BY <1>1 DEF Departs, ClientTypeOK
  <2> QED BY <2>1, <2>2 DEF Leads
<1>2. CASE u # t
  <2>1. \A q \in In(u) : at'[q] = at[q]
    BY <1>2 DEF Departs, In
  <2>2. isRefreshing'[u] = isRefreshing[u] /\ refreshSubscribers'[u] = refreshSubscribers[u]
    BY <1>2 DEF Departs, ClientTypeOK
  <2> QED BY <2>1, <2>2 DEF OneRefreshPerTab, Leads
<1> QED BY <1>1, <1>2

LEMMA RefusedOneRefresh ==
    ASSUME ClientTypeOK, OneRefreshPerTab, NEW q \in Requests, Refused(q)
    PROVE  OneRefreshPerTab'
<1>0. Home[q] \in Tabs /\ q \in In(Home[q]) /\ at[q] = "refused"
  BY DEF Refused, In
<1>1. CASE Settles(q) /\ UNCHANGED <<isRefreshing, refreshSubscribers>>
  BY <1>0, <1>1, SameOneRefresh DEF Settles, Leads, ClientTypeOK
<1>2. CASE Departs(Home[q])
  BY <1>0, <1>2, DepartsOneRefresh
<1>3. CASE /\ TakesTheLead(q)
           /\ isRefreshing' = [isRefreshing EXCEPT ![Home[q]] = TRUE]
           /\ at' = [at EXCEPT ![q] = "leading"]
           /\ UNCHANGED refreshSubscribers
  <2>1. \A p \in In(Home[q]) : ~Leads(p)
    BY <1>0, <1>3 DEF TakesTheLead, OneRefreshPerTab
  <2>2. \A p \in Requests : p # q => (Leads(p)' <=> Leads(p))
    BY <1>3 DEF Leads, ClientTypeOK
  <2>3. Leads(q)'
    BY <1>3 DEF Leads, ClientTypeOK
  <2>4. \A p \in Requests : at'[p] = "parked" <=> at[p] = "parked"
    BY <1>0, <1>3 DEF ClientTypeOK
  <2>5. \A u \in Tabs : isRefreshing'[u] = IF u = Home[q] THEN TRUE ELSE isRefreshing[u]
    BY <1>3 DEF ClientTypeOK
  <2>6. ASSUME NEW u \in Tabs
        PROVE  /\ isRefreshing'[u] <=> \E p \in In(u) : Leads(p)'
               /\ \A p, r \in In(u) : Leads(p)' /\ Leads(r)' => p = r
               /\ refreshSubscribers'[u] = {p \in In(u) : at'[p] = "parked"}
    <3>1. refreshSubscribers'[u] = {p \in In(u) : at'[p] = "parked"}
      BY <1>3, <2>4 DEF OneRefreshPerTab, In
    <3>2. CASE u = Home[q]
      <4>1. \A p \in In(u) : Leads(p)' <=> p = q
        BY <2>1, <2>2, <2>3, <3>2 DEF In
      <4>2. isRefreshing'[u] = TRUE
        BY <2>5, <3>2
      <4> QED BY <1>0, <3>1, <3>2, <4>1, <4>2
    <3>3. CASE u # Home[q]
      <4>1. \A p \in In(u) : Leads(p)' <=> Leads(p)
        BY <2>2, <3>3 DEF In
      <4>2. isRefreshing'[u] = isRefreshing[u]
        BY <2>5, <3>3
      <4>3. /\ isRefreshing[u] <=> \E p \in In(u) : Leads(p)
            /\ \A p, r \in In(u) : Leads(p) /\ Leads(r) => p = r
        BY DEF OneRefreshPerTab
      <4> QED BY <3>1, <4>1, <4>2, <4>3
    <3> QED BY <3>2, <3>3
  <2> QED BY <2>6 DEF OneRefreshPerTab, In
<1>4. CASE /\ at' = [at EXCEPT ![q] = "parked"]
           /\ refreshSubscribers' = [refreshSubscribers EXCEPT ![Home[q]] = @ \cup {q}]
           /\ UNCHANGED isRefreshing
  <2>1. \A p \in Requests : Leads(p)' <=> Leads(p)
    BY <1>0, <1>4 DEF Leads, ClientTypeOK
  <2>2. \A p \in Requests : at'[p] = "parked" <=> (at[p] = "parked" \/ p = q)
    BY <1>0, <1>4 DEF ClientTypeOK
  <2>3. \A u \in Tabs : refreshSubscribers'[u] =
           IF u = Home[q] THEN refreshSubscribers[u] \cup {q} ELSE refreshSubscribers[u]
    BY <1>4 DEF ClientTypeOK
  <2> QED BY <1>0, <1>4, <2>1, <2>2, <2>3 DEF OneRefreshPerTab, In
<1> QED BY <1>1, <1>2, <1>3, <1>4 DEF Refused

\* The leader stops to lead and waits, and the tab's list, served, holds it alone.
LEMMA GrantedOneRefresh ==
    ASSUME ClientTypeOK, OneRefreshPerTab, NEW q \in Requests, Granted(q)
    PROVE  OneRefreshPerTab'
<1>0. Home[q] \in Tabs /\ q \in In(Home[q]) /\ at[q] = "granted" /\ Leads(q)
  BY DEF Granted, In, Leads
<1>1. \A p \in In(Home[q]) : Leads(p) => p = q
  BY <1>0 DEF OneRefreshPerTab
<1>2. refreshSubscribers[Home[q]] = {p \in In(Home[q]) : at[p] = "parked"}
  BY <1>0 DEF OneRefreshPerTab
<1>3. \A p \in Requests :
         at'[p] = IF p = q THEN "parked"
                  ELSE IF p \in refreshSubscribers[Home[q]] THEN "resent" ELSE at[p]
  BY DEF Granted, onRefreshed, ClientTypeOK
<1>4. \A u \in Tabs : /\ isRefreshing'[u] = IF u = Home[q] THEN FALSE ELSE isRefreshing[u]
                      /\ refreshSubscribers'[u] =
                            IF u = Home[q] THEN {q} ELSE refreshSubscribers[u]
  BY DEF Granted, onRefreshed, ClientTypeOK
<1>5. ASSUME NEW p \in In(Home[q])
      PROVE  ~Leads(p)' /\ (at'[p] = "parked" <=> p = q)
  BY <1>1, <1>2, <1>3, <1>5 DEF Leads, In
<1>6. ASSUME NEW p \in Requests, p \notin In(Home[q])
      PROVE  at'[p] = at[p]
  BY <1>0, <1>2, <1>3, <1>6
<1>7. ASSUME NEW u \in Tabs
      PROVE  /\ isRefreshing'[u] <=> \E p \in In(u) : Leads(p)'
             /\ \A p, r \in In(u) : Leads(p)' /\ Leads(r)' => p = r
             /\ refreshSubscribers'[u] = {p \in In(u) : at'[p] = "parked"}
  <2>1. CASE u = Home[q]
    BY <1>0, <1>4, <1>5, <2>1
  <2>2. CASE u # Home[q]
    <3>1. \A p \in In(u) : at'[p] = at[p]
      BY <1>6, <2>2 DEF In
    <3>2. \A p \in In(u) : Leads(p)' <=> Leads(p)
      BY <3>1 DEF Leads
    <3>3. isRefreshing'[u] = isRefreshing[u] /\ refreshSubscribers'[u] = refreshSubscribers[u]
      BY <1>4, <2>2
    <3>4. /\ isRefreshing[u] <=> \E p \in In(u) : Leads(p)
          /\ \A p, r \in In(u) : Leads(p) /\ Leads(r) => p = r
          /\ refreshSubscribers[u] = {p \in In(u) : at[p] = "parked"}
      BY DEF OneRefreshPerTab
    <3> QED BY <3>1, <3>2, <3>3, <3>4
  <2> QED BY <2>1, <2>2
<1> QED BY <1>7 DEF OneRefreshPerTab, In

LEMMA StepKeepsOneRefresh ==
    ClientTypeOK /\ OneRefreshPerTab /\ [ClientNext]_clientVars => OneRefreshPerTab'
<1> SUFFICES ASSUME ClientTypeOK, OneRefreshPerTab, [ClientNext]_clientVars
             PROVE  OneRefreshPerTab'
  OBVIOUS
<1>1. ASSUME NEW q \in Requests, Ask(q) \/ Lose(q) \/ Serve(q) \/ ServeRefresh(q)
      PROVE  OneRefreshPerTab'
  <2>1. UNCHANGED <<isRefreshing, refreshSubscribers>>
    BY <1>1 DEF Ask, Lose, Serve, ServeRefresh
  <2>2. \A p \in Requests : (Leads(p)' <=> Leads(p)) /\ (at'[p] = "parked" <=> at[p] = "parked")
    BY <1>1 DEF Ask, Lose, Serve, ServeRefresh, Settles, Leads, ClientTypeOK
  <2> QED BY <2>1, <2>2, SameOneRefresh
<1>2. ASSUME NEW q \in Requests, Denied(q) PROVE OneRefreshPerTab'
  BY <1>2, DepartsOneRefresh DEF Denied
<1>3. ASSUME NEW t \in Tabs, Leave(t) PROVE OneRefreshPerTab'
  BY <1>3, DepartsOneRefresh DEF Leave
<1>4. ASSUME UNCHANGED <<isRefreshing, refreshSubscribers, at>> PROVE OneRefreshPerTab'
  BY <1>4, SameOneRefresh DEF Leads
<1>5. ASSUME NEW t \in Tabs, Login(t) \/ Reopen(t) \/ Logout(t) \/ ChangePassword(t)
      PROVE  OneRefreshPerTab'
  BY <1>4, <1>5 DEF Login, Reopen, Logout, ChangePassword
<1>6. ASSUME NEW token \in live, Expire(token) PROVE OneRefreshPerTab'
  BY <1>4, <1>6 DEF Expire, client
<1>7. CASE Restart
  BY <1>4, <1>7 DEF Restart, client
<1>8. CASE UNCHANGED clientVars
  BY <1>4, <1>8 DEF clientVars, client
<1> QED
  BY <1>1, <1>2, <1>3, <1>5, <1>6, <1>7, <1>8, RefusedOneRefresh, GrantedOneRefresh
  DEF ClientNext, Network

\* A tab refreshes its token once at a time, and its list holds exactly the requests
\* that wait, however many tabs, requests, logins and restarts there are.
THEOREM RefreshesAreSingle == ClientSpec => []OneRefreshPerTab
<1>1. ClientSpec => [](ClientTypeOK /\ OneRefreshPerTab)
  BY InitHasType, InitOneRefresh, StepKeepsType, StepKeepsOneRefresh, PTL DEF ClientSpec
<1> QED BY <1>1, PTL

-----------------------------------------------------------------------------
(* A request runs at most once: one that has run is settled, and what is   *)
(* settled is never sent again, because only what waits is on a list.      *)

RanIsSettled == \A q \in Requests : ran[q] \in {0, 1} /\ (at[q] # "settled" => ran[q] = 0)

LEMMA InitRanIsSettled == ClientInit => RanIsSettled
BY DEF ClientInit, RanIsSettled

\* Where nothing runs and what is settled stays settled.
LEMMA SameRanIsSettled ==
    ASSUME RanIsSettled, UNCHANGED ran, \A q \in Requests : at[q] = "settled" => at'[q] = "settled"
    PROVE  RanIsSettled'
BY DEF RanIsSettled

LEMMA DepartsRanIsSettled ==
    ASSUME RanIsSettled, UNCHANGED ran, NEW t \in Tabs, Departs(t)
    PROVE  RanIsSettled'
BY SameRanIsSettled DEF Departs

LEMMA StepKeepsRanIsSettled ==
    ClientTypeOK /\ OneRefreshPerTab /\ RanIsSettled /\ [ClientNext]_clientVars => RanIsSettled'
<1> SUFFICES ASSUME ClientTypeOK, OneRefreshPerTab, RanIsSettled, [ClientNext]_clientVars
             PROVE  RanIsSettled'
  OBVIOUS
<1>1. ASSUME NEW q \in Requests, Ask(q) \/ Lose(q) \/ ServeRefresh(q) PROVE RanIsSettled'
  <2>1. UNCHANGED ran
    BY <1>1 DEF Ask, Lose, ServeRefresh
  <2>2. \A p \in Requests : at[p] = "settled" => at'[p] = "settled"
    BY <1>1 DEF Ask, Lose, ServeRefresh, Settles, ClientTypeOK
  <2> QED BY <2>1, <2>2, SameRanIsSettled
<1>2. ASSUME NEW q \in Requests, Serve(q) PROVE RanIsSettled'
  <2>1. ran[q] = 0
    BY <1>2 DEF Serve, RanIsSettled
  <2>2. CASE UNCHANGED ran
    <3>1. \A p \in Requests : at[p] = "settled" => at'[p] = "settled"
      BY <1>2 DEF Serve, Settles, ClientTypeOK
    <3> QED BY <2>2, <3>1, SameRanIsSettled
  <2>3. CASE ran' = [ran EXCEPT ![q] = @ + 1] /\ Settles(q)
    <3>1. \A p \in Requests : /\ ran'[p] = IF p = q THEN 1 ELSE ran[p]
                              /\ at'[p] = IF p = q THEN "settled" ELSE at[p]
      BY <2>1, <2>3 DEF Settles, ClientTypeOK
    <3> QED BY <3>1 DEF RanIsSettled
  <2> QED BY <1>2, <2>2, <2>3 DEF Serve
<1>3. ASSUME NEW q \in Requests, Refused(q) PROVE RanIsSettled'
  <2>1. UNCHANGED ran
    BY <1>3 DEF Refused
  <2>2. CASE Departs(Home[q])
    BY <2>1, <2>2, DepartsRanIsSettled
  <2>3. CASE ~Departs(Home[q])
    <3>1. \A p \in Requests : at[p] = "settled" => at'[p] = "settled"
      BY <1>3, <2>3 DEF Refused, Settles, ClientTypeOK
    <3> QED BY <2>1, <3>1, SameRanIsSettled
  <2> QED BY <2>2, <2>3
<1>4. ASSUME NEW q \in Requests, Granted(q) PROVE RanIsSettled'
  <2>1. UNCHANGED ran
    BY <1>4 DEF Granted
  <2>2. refreshSubscribers[Home[q]] = {p \in In(Home[q]) : at[p] = "parked"}
    BY DEF OneRefreshPerTab
  <2>3. \A p \in Requests : at[p] = "settled" => p \notin refreshSubscribers[Home[q]] /\ p # q
    BY <1>4, <2>2 DEF Granted
  <2>4. \A p \in Requests : at[p] = "settled" => at'[p] = "settled"
    BY <1>4, <2>3 DEF Granted, onRefreshed, ClientTypeOK
  <2> QED BY <2>1, <2>4, SameRanIsSettled
<1>5. ASSUME NEW q \in Requests, Denied(q) PROVE RanIsSettled'
  BY <1>5, DepartsRanIsSettled DEF Denied
<1>6. ASSUME NEW t \in Tabs, Leave(t) PROVE RanIsSettled'
  BY <1>6, DepartsRanIsSettled DEF Leave
<1>7. ASSUME UNCHANGED <<ran, at>> PROVE RanIsSettled'
  BY <1>7, SameRanIsSettled
<1>8. ASSUME NEW t \in Tabs, Login(t) \/ Reopen(t) \/ Logout(t) \/ ChangePassword(t)
      PROVE  RanIsSettled'
  BY <1>7, <1>8 DEF Login, Reopen, Logout, ChangePassword
<1>9. ASSUME NEW token \in live, Expire(token) PROVE RanIsSettled'
  BY <1>7, <1>9 DEF Expire, client
<1>10. CASE Restart
  BY <1>7, <1>10 DEF Restart, client
<1>11. CASE UNCHANGED clientVars
  BY <1>7, <1>11 DEF clientVars, client
<1> QED
  BY <1>1, <1>2, <1>3, <1>4, <1>5, <1>6, <1>8, <1>9, <1>10, <1>11 DEF ClientNext, Network

\* What the user asked for once is carried out at most once, whatever waits, is lost,
\* is refused or is sent again.
THEOREM RequestsRunOnce == ClientSpec => []RunsAtMostOnce
<1>1. ClientSpec => [](ClientTypeOK /\ OneRefreshPerTab /\ RanIsSettled)
  BY InitHasType, InitOneRefresh, InitRanIsSettled, StepKeepsType, StepKeepsOneRefresh,
     StepKeepsRanIsSettled, PTL DEF ClientSpec
<1>2. RanIsSettled => RunsAtMostOnce
  BY DEF RanIsSettled, RunsAtMostOnce
<1> QED BY <1>1, <1>2, PTL

-----------------------------------------------------------------------------
(* Sessions end with the password: a refresh token the gateway knows, and  *)
(* an access token it still takes, stand for a password it still takes.    *)

TokensAreOfThePassword ==
    /\ \A token \in live : token.iat <= era
    /\ \A token \in live : token.iat >= invalidAfter => token.login >= invalidAfter
    /\ \A token \in active : token.login >= invalidAfter

LEMMA InitTokens == ClientInit => TokensAreOfThePassword
BY DEF ClientInit, TokensAreOfThePassword

LEMMA StepKeepsTokens ==
    ClientTypeOK /\ TokensAreOfThePassword /\ [ClientNext]_clientVars => TokensAreOfThePassword'
<1> SUFFICES ASSUME ClientTypeOK, TokensAreOfThePassword, [ClientNext]_clientVars
             PROVE  TokensAreOfThePassword'
  OBVIOUS
<1>0. /\ era \in Nat /\ invalidAfter \in Nat /\ invalidAfter <= era
      /\ \A token \in live \cup active : token.iat \in Nat /\ token.login \in Nat
  BY DEF ClientTypeOK, Token
<1>1. ASSUME live' \subseteq live, active' \subseteq active, UNCHANGED <<era, invalidAfter>>
      PROVE  TokensAreOfThePassword'
  BY <1>1 DEF TokensAreOfThePassword
<1>2. ASSUME NEW q \in Requests, Ask(q) \/ Lose(q) \/ Serve(q) \/ Refused(q) \/ Granted(q) \/ Denied(q)
      PROVE  TokensAreOfThePassword'
  BY <1>1, <1>2 DEF Ask, Lose, Serve, Refused, Granted, Denied, gateway
<1>3. ASSUME NEW q \in Requests, ServeRefresh(q) PROVE TokensAreOfThePassword'
  <2>1. CASE sent[q].token \in active
    <3> DEFINE new == [n |-> issued + 1, iat |-> era, login |-> sent[q].token.login]
    <3>1. new.iat = era /\ new.login = sent[q].token.login
      OBVIOUS
    <3>2. live' = live \cup {new} /\ UNCHANGED <<active, era, invalidAfter>>
      BY <1>3, <2>1 DEF ServeRefresh
    <3>3. sent[q].token.login >= invalidAfter
      BY <2>1 DEF TokensAreOfThePassword
    <3> HIDE DEF new
    <3> QED BY <1>0, <3>1, <3>2, <3>3 DEF TokensAreOfThePassword
  <2>2. CASE sent[q].token \notin active
    BY <1>1, <1>3, <2>2 DEF ServeRefresh
  <2> QED BY <2>1, <2>2
<1>4. ASSUME NEW t \in Tabs, Login(t) PROVE TokensAreOfThePassword'
  <2> DEFINE new == [n |-> issued + 1, iat |-> era, login |-> era]
  <2>1. new.iat = era /\ new.login = era
    OBVIOUS
  <2>2. live' = live \cup {new} /\ active' = active \cup {new} /\ UNCHANGED <<era, invalidAfter>>
    BY <1>4 DEF Login
  <2> HIDE DEF new
  <2> QED BY <1>0, <2>1, <2>2 DEF TokensAreOfThePassword
<1>5. ASSUME NEW t \in Tabs, ChangePassword(t) PROVE TokensAreOfThePassword'
  <2>1. era' = era + 1 /\ invalidAfter' = era + 1 /\ live' = live /\ active' = {}
    BY <1>5 DEF ChangePassword, invalidate_all
  <2>2. \A token \in live : token.iat <= era' /\ ~(token.iat >= invalidAfter')
    BY <1>0, <2>1 DEF TokensAreOfThePassword
  <2> QED BY <2>1, <2>2 DEF TokensAreOfThePassword
<1>6. ASSUME NEW t \in Tabs, Reopen(t) \/ Logout(t) \/ Leave(t) PROVE TokensAreOfThePassword'
  BY <1>1, <1>6 DEF Reopen, Logout, Leave, gateway
<1>7. ASSUME NEW token \in live, Expire(token) PROVE TokensAreOfThePassword'
  BY <1>1, <1>7 DEF Expire
<1>8. CASE Restart
  <2>1. era' = era /\ invalidAfter' = 0 /\ live' = live /\ active' = {}
    BY <1>8 DEF Restart
  <2> QED BY <1>0, <2>1 DEF TokensAreOfThePassword
<1>9. CASE UNCHANGED clientVars
  BY <1>1, <1>9 DEF clientVars, gateway
<1> QED
  BY <1>2, <1>3, <1>4, <1>5, <1>6, <1>7, <1>8, <1>9 DEF ClientNext, Network

\* Only Serve carries a request out, with a token the gateway takes.
LEMMA RunsWithThePassword ==
    ASSUME ClientTypeOK, TokensAreOfThePassword, [ClientNext]_clientVars,
           NEW q \in Requests, ran'[q] > ran[q]
    PROVE  sent[q].token.login >= invalidAfter
<1>0. ran[q] \in Nat
  BY DEF ClientTypeOK
<1>1. PICK p \in Requests : Serve(p)
  <2>1. ~UNCHANGED ran
    BY <1>0
  <2> QED BY <2>1
      DEF ClientNext, Network, Ask, Lose, ServeRefresh, Refused, Granted, Denied, Login, Reopen,
          Logout, ChangePassword, Leave, Expire, Restart, clientVars
<1>2. p = q /\ Current(sent[q].token)
  BY <1>0, <1>1 DEF Serve, ClientTypeOK
<1> QED BY <1>2 DEF Current, TokensAreOfThePassword

\* After a password change nothing is carried out for a session opened with the old
\* password, for any number of tabs, logins, refreshes and changes.
THEOREM OldSessionsEnd == ClientSpec => SessionsEndWithPassword
<1>1. ClientSpec => [](ClientTypeOK /\ TokensAreOfThePassword)
  BY InitHasType, InitTokens, StepKeepsType, StepKeepsTokens, PTL DEF ClientSpec
<1>2. ClientTypeOK /\ TokensAreOfThePassword /\ [ClientNext]_clientVars
      => [\A q \in Requests : ran'[q] > ran[q] => sent[q].token.login >= invalidAfter]_clientVars
  BY RunsWithThePassword
<1> QED BY <1>1, <1>2, PTL DEF ClientSpec, SessionsEndWithPassword

-----------------------------------------------------------------------------
(* The pages. *)

USE ReviewAssumption, LibraryAssumption, FormsAssumption, ExplorerAssumption, SecretsAssumption

\* An entry of the cache as a record.
Entries(Data) == [data : Data \cup {Nothing}, fetch : {"idle", "sent", "answered"},
                  got : Data \cup {Nothing}]

\* What the operators of Query do to an entry.
LEMMA EntrySteps ==
    ASSUME NEW Data, NEW c \in Entries(Data)
    PROVE  /\ Unasked \in Entries(Data) /\ Sent(Unasked) \in Entries(Data)
           /\ Sent(c) \in Entries(Data) /\ Sent(c).fetch = "sent" /\ Sent(c).data = c.data
           /\ Joined(c) \in Entries(Data) /\ Joined(c).data = c.data
           /\ Joined(c) = IF c.fetch = "idle" THEN Sent(c) ELSE c
           /\ Invalidated(c) \in Entries(Data) /\ Invalidated(c).data = c.data
           /\ Invalidated(c).fetch = "sent" \/ (c.data = Nothing /\ Invalidated(c) = c /\ Late(c))
           /\ Taken(c) = [data |-> c.got, fetch |-> "idle", got |-> Nothing]
           /\ Taken(c) \in Entries(Data)
           /\ Failed(c).data = c.data /\ Failed(c).fetch = "idle" /\ Failed(c).got = Nothing
           /\ Failed(c) \in Entries(Data)
<1>1. /\ Unasked \in Entries(Data)
      /\ Sent(Unasked) \in Entries(Data)
  BY DEF Entries, Unasked, Sent
<1>2. /\ Sent(c) \in Entries(Data) /\ Sent(c).fetch = "sent" /\ Sent(c).data = c.data
      /\ Joined(c) = IF c.fetch = "idle" THEN Sent(c) ELSE c
      /\ Invalidated(c) = IF c.data # Nothing THEN Sent(c) ELSE Joined(c)
  BY DEF Entries, Sent, Joined, Invalidated
<1>3. c.fetch \in {"idle", "sent", "answered"}
  BY DEF Entries
<1>4. /\ Taken(c) = [data |-> c.got, fetch |-> "idle", got |-> Nothing]
      /\ Taken(c) \in Entries(Data)
  BY DEF Entries, Taken
<1>5. /\ Failed(c).data = c.data /\ Failed(c).fetch = "idle" /\ Failed(c).got = Nothing
      /\ Failed(c) \in Entries(Data)
  BY DEF Entries, Failed
<1> QED BY <1>1, <1>2, <1>3, <1>4, <1>5 DEF Late

LEMMA AnswerSteps ==
    ASSUME NEW Data, NEW c \in Entries(Data), NEW now \in Data
    PROVE  /\ Answered(c, now) \in Entries(Data)
           /\ Answered(c, now).data = c.data
           /\ Answered(c, now).fetch = "answered"
           /\ Answered(c, now).got = now
           /\ Taken(Answered(c, now)) = [data |-> now, fetch |-> "idle", got |-> Nothing]
           /\ Taken(Answered(c, now)) \in Entries(Data)
<1>1. /\ Answered(c, now) \in Entries(Data)
      /\ Answered(c, now).data = c.data
      /\ Answered(c, now).fetch = "answered"
      /\ Answered(c, now).got = now
  BY DEF Entries, Answered
<1> QED BY <1>1, EntrySteps

-----------------------------------------------------------------------------
(* The provider form. A save that has left the secret store behind has its *)
(* credential in it.                                                       *)

Saves == [at : {"idle", "secrets", "stored", "config", "saved"}, key : 0..MaxSaves,
          enabled : Switch \cup {Unset}, mode : Modes \cup {Unset}]

Sheets ==
    [key : {Unset, "empty", "typed"}, enabled : Switch \cup {Unset}, mode : Modes \cup {Unset},
     effective : Entries(Effective), save : Saves]

FormsType ==
    /\ config \in [enabled : Switch, mode : Modes, with : 0..MaxSaves]
    /\ credentials \subseteq 1..MaxSaves
    /\ sheet \in Sheets
    /\ saves \in 0..MaxSaves

StoredIsKept ==
    /\ sheet.save.at \in {"stored", "config", "saved"} /\ sheet.save.key # NoCredential
       => sheet.save.key \in credentials
    /\ sheet.save.at \in {"secrets", "stored"} => sheet.save.key # NoCredential /\ sheet.save.mode = Unset

FormsInv == FormsType /\ StoredIsKept /\ CredentialFirst

LEMMA NoSaveFields ==
    /\ NoSave \in Saves
    /\ NoSave.at = "idle" /\ NoSave.key = NoCredential /\ NoSave.enabled = Unset /\ NoSave.mode = Unset
BY DEF NoSave, Saves, NoCredential

LEMMA InitFormsInv == FormsInit => FormsInv
<1> SUFFICES ASSUME FormsInit PROVE FormsInv
  OBVIOUS
<1>1. Sent(Unasked) \in Entries(Effective)
  BY DEF Sent, Unasked, Entries
<1>2. FormsType
  BY <1>1 DEF FormsInit, FormsType, Sheets, Saves, Switch, Modes, NoCredential, NoSave, Unset
<1>3. StoredIsKept /\ CredentialFirst
  BY DEF FormsInit, StoredIsKept, CredentialFirst, NoSave
<1> QED BY <1>2, <1>3 DEF FormsInv

\* A save goes on with a credential that is stored.
LEMMA ContinuedIsStored ==
    ASSUME NEW save \in [at : {"idle", "stored"}, key : 0..MaxSaves,
                         enabled : Switch \cup {Unset}, mode : {Unset}],
           save.at = "stored" /\ save.key # NoCredential => save.key \in credentials
    PROVE  /\ Continued(save) \in [at : {"idle", "secrets", "stored", "config", "saved"},
                                   key : 0..MaxSaves, enabled : Switch \cup {Unset},
                                   mode : {Unset}]
           /\ Continued(save).at \in {"idle", "secrets", "config"}
           /\ Continued(save).at = "config" /\ Continued(save).key # NoCredential
              => Continued(save).key \in credentials
           /\ Continued(save).at = "secrets" => Continued(save).key # NoCredential
BY DEF Continued, NextCall, NoSave, NoCredential

LEMMA StepKeepsFormsInv == FormsInv /\ [FormsNext]_formVars => FormsInv'
<1> SUFFICES ASSUME FormsInv, [FormsNext]_formVars PROVE FormsInv'
  OBVIOUS
<1> USE DEF FormsInv
<1>0. /\ sheet \in Sheets /\ sheet.effective \in Entries(Effective)
  BY DEF FormsType, Sheets
<1>1. ASSUME sheet' \in Sheets, sheet'.save = sheet.save, UNCHANGED <<config, credentials, saves>>
      PROVE  FormsInv'
  BY <1>1 DEF FormsType, StoredIsKept, CredentialFirst
<1>2. ASSUME NEW value \in {"empty", "typed"}, EditKey(value) PROVE FormsInv'
  BY <1>1, <1>2, <1>0 DEF EditKey, Sheets
<1>3. ASSUME NEW value \in Switch, EditEnabled(value) PROVE FormsInv'
  BY <1>1, <1>3, <1>0 DEF EditEnabled, Sheets
<1>4. ASSUME NEW value \in Modes, EditMode(value) PROVE FormsInv'
  BY <1>1, <1>4, <1>0 DEF EditMode, Sheets
<1>5. CASE RemountForm
  <2>1. Joined(sheet.effective) \in Entries(Effective)
    BY <1>0, EntrySteps
  <2> QED BY <1>1, <1>5, <1>0, <2>1 DEF RemountForm, Sheets
<1>6. CASE TakeEffective
  <2> DEFINE now == [enabled |-> config.enabled, mode |-> config.mode]
  <2>1. now \in Effective
    BY DEF FormsType, Effective
  <2>2. Taken(Answered(sheet.effective, now)) \in Entries(Effective)
    BY <1>0, <2>1, AnswerSteps
  <2> QED BY <1>1, <1>6, <1>0, <2>2 DEF TakeEffective, Sheets
<1>7. CASE SaveElsewhere
  <2>1. PICK enabled \in Switch, mode \in Modes :
               config' = [config EXCEPT !.enabled = enabled, !.mode = mode]
    BY <1>7 DEF SaveElsewhere
  <2>2. /\ config' \in [enabled : Switch, mode : Modes, with : 0..MaxSaves]
        /\ config'.with = config.with
    BY <2>1 DEF FormsType
  <2>3. saves' \in 0..MaxSaves
    BY <1>7 DEF SaveElsewhere, FormsType
  <2> QED BY <1>7, <2>2, <2>3 DEF SaveElsewhere, FormsType, StoredIsKept, CredentialFirst
<1>8. CASE LoseSave
  <2>1. sheet' \in Sheets /\ sheet'.save = NoSave
    BY <1>8, <1>0, NoSaveFields DEF LoseSave, Sheets
  <2> QED BY <1>8, <2>1, NoSaveFields DEF LoseSave, FormsType, StoredIsKept, CredentialFirst
<1>9. CASE HandleSave
  <2> DEFINE save == [NoSave EXCEPT !.enabled = sheet.enabled,
                         !.key = IF sheet.key = "typed" THEN saves' ELSE NoCredential]
  <2>1. saves' \in 0..MaxSaves
    BY <1>9 DEF HandleSave, FormsType
  <2>2. save \in [at : {"idle", "stored"}, key : 0..MaxSaves,
                  enabled : Switch \cup {Unset}, mode : {Unset}] /\ save.at = "idle"
    <3>1. /\ NoSave \in [at : {"idle", "stored"}, key : 0..MaxSaves,
                         enabled : Switch \cup {Unset}, mode : {Unset}]
          /\ NoSave.at = "idle"
      BY DEF NoSave, NoCredential
    <3>2. sheet.enabled \in Switch \cup {Unset}
      BY <1>0 DEF Sheets
    <3>3. (IF sheet.key = "typed" THEN saves' ELSE NoCredential) \in 0..MaxSaves
      BY <2>1 DEF NoCredential
    <3> QED BY <3>1, <3>2, <3>3
  <2>3. sheet' = [sheet EXCEPT !.save = Continued(save)]
    BY <1>9 DEF HandleSave
  <2> HIDE DEF save
  <2>4. sheet' \in Sheets /\ sheet'.save = Continued(save)
    BY <1>0, <2>2, <2>3, ContinuedIsStored DEF Sheets, Saves
  <2>5. StoredIsKept'
    BY <1>9, <2>2, <2>4, ContinuedIsStored DEF HandleSave, StoredIsKept
  <2> QED BY <1>9, <2>1, <2>4, <2>5 DEF HandleSave, FormsType, CredentialFirst
<1>10. CASE SaveMode
  <2>1. sheet.effective.data \in Effective
    BY <1>10, <1>0 DEF SaveMode, Entries
  <2>2. Displays("mode") \in Modes
    BY <1>0, <2>1 DEF Displays, Sheets, Effective, Unset, Modes
  <2> DEFINE save == [NoSave EXCEPT !.at = "config", !.mode = Displays("mode")]
  <2>3. sheet' \in Sheets /\ sheet'.save.at = "config" /\ sheet'.save.key = NoCredential
    <3>1. sheet' = [sheet EXCEPT !.save = save]
      BY <1>10 DEF SaveMode
    <3>2. save \in Saves /\ save.at = "config" /\ save.key = NoCredential
      BY <2>2, NoSaveFields DEF Saves
    <3> HIDE DEF save
    <3> QED BY <1>0, <3>1, <3>2 DEF Sheets
  <2>4. saves' \in 0..MaxSaves
    BY <1>10 DEF SaveMode, FormsType
  <2> QED
    BY <1>10, <2>3, <2>4 DEF SaveMode, FormsType, StoredIsKept, CredentialFirst
<1>11. CASE ServeSecrets
  <2>1. sheet.save.key \in 0..MaxSaves /\ (sheet.save.at = "secrets" => sheet.save.key # NoCredential)
    BY <1>0 DEF Sheets, Saves, StoredIsKept
  <2> QED
    BY <1>11, <1>0, <2>1 DEF ServeSecrets, FormsType, Sheets, Saves, StoredIsKept, CredentialFirst, NoSave,
                             NoCredential
<1>12. CASE SecretsAnswered
  <2>1. sheet.save.at = "stored" /\ sheet' = [sheet EXCEPT !.save = Continued(sheet.save)]
    BY <1>12 DEF SecretsAnswered
  <2>2. sheet.save \in [at : {"idle", "stored"}, key : 0..MaxSaves,
                        enabled : Switch \cup {Unset}, mode : {Unset}]
    BY <1>0, <2>1 DEF Sheets, Saves, StoredIsKept
  <2>3. sheet' \in Sheets /\ sheet'.save = Continued(sheet.save)
    BY <1>0, <2>1, <2>2, ContinuedIsStored DEF Sheets, Saves, StoredIsKept
  <2>4. StoredIsKept'
    BY <1>12, <2>1, <2>2, <2>3, ContinuedIsStored DEF SecretsAnswered, StoredIsKept
  <2> QED BY <1>12, <2>3, <2>4 DEF SecretsAnswered, FormsType, CredentialFirst
<1>13. CASE ServeConfig
  <2>1. sheet' \in Sheets /\ sheet'.save.at = "saved" /\ sheet'.save.key = sheet.save.key
    BY <1>13, <1>0 DEF ServeConfig, Sheets, Saves
  <2>2. /\ config'.with = IF sheet.save.key # NoCredential THEN sheet.save.key ELSE config.with
        /\ config' \in [enabled : Switch, mode : Modes, with : 0..MaxSaves]
    BY <1>13, <1>0 DEF ServeConfig, FormsType, Sheets, Saves
  <2> QED
    BY <1>13, <2>1, <2>2 DEF ServeConfig, FormsType, StoredIsKept, CredentialFirst
<1>14. CASE ConfigAnswered
  <2>1. Invalidated(sheet.effective) \in Entries(Effective)
    BY <1>0, EntrySteps
  <2>2. sheet' \in Sheets /\ sheet'.save = NoSave
    BY <1>14, <1>0, <2>1, NoSaveFields DEF ConfigAnswered, Sheets
  <2> QED BY <1>14, <2>2, NoSaveFields DEF ConfigAnswered, FormsType, StoredIsKept, CredentialFirst
<1>15. CASE UNCHANGED formVars
  BY <1>15 DEF formVars, FormsType, StoredIsKept, CredentialFirst
<1> QED
  BY <1>2, <1>3, <1>4, <1>5, <1>6, <1>7, <1>8, <1>9, <1>10, <1>11, <1>12, <1>13, <1>14, <1>15
  DEF FormsNext

\* A provider saved together with a credential is never configured while the
\* credential is missing, however many saves stop wherever they stop.
THEOREM CredentialIsFirst == FormsSpec => []CredentialFirst
<1>1. FormsInv => CredentialFirst
  BY DEF FormsInv
<1> QED BY <1>1, InitFormsInv, StepKeepsFormsInv, PTL DEF FormsSpec

-----------------------------------------------------------------------------
(* The screens that ask. An answer is filed under what it was asked for.   *)

ExplorerType ==
    /\ screen \in Screens
    /\ typed \in Params \cup {NoParams}
    /\ submitted \in Params \cup {NoParams}
    /\ item \in Params \cup {NoParams}
    /\ eventType \in Texts /\ auditPage \in 0..(MaxPages - 1)
    /\ answers \in [Asked -> Entries(Asked)]
    /\ asking \in [Asked -> Asked \cup {NoParams}]

FiledAsAsked ==
    \A k \in Asked :
        /\ answers[k].fetch \in {"idle", "sent"}
        /\ answers[k].data \in {Nothing, k}
        /\ answers[k].fetch = "sent" => asking[k] = k

ExplorerInv == ExplorerType /\ FiledAsAsked

LEMMA WantedIsAsked == ExplorerType => Wanted \in Asked \cup {NoParams}
<1> SUFFICES ASSUME ExplorerType PROVE Wanted \in Asked \cup {NoParams}
  OBVIOUS
<1>1. item # NoParams => [item EXCEPT !.narrowed = Whole] \in Params
  BY DEF ExplorerType, Params
<1>2. [of |-> eventType, narrowed |-> auditPage] \in Audits
  BY DEF ExplorerType, Audits
<1> QED BY <1>1, <1>2 DEF ExplorerType, Screens, Wanted, Asked

LEMMA InitExplorerInv == ExplorerInit => ExplorerInv
<1> SUFFICES ASSUME ExplorerInit PROVE ExplorerInv
  OBVIOUS
<1>1. /\ Unasked \in Entries(Asked) /\ Sent(Unasked) \in Entries(Asked)
      /\ Unasked.fetch = "idle" /\ Sent(Unasked).fetch = "sent"
      /\ Unasked.data = Nothing /\ Sent(Unasked).data = Nothing
  BY DEF Unasked, Sent, Entries
<1>2. /\ screen \in Screens /\ typed = NoParams /\ submitted = NoParams /\ item = NoParams
      /\ eventType \in Texts /\ auditPage = 0
  BY DEF ExplorerInit
<1>3. answers \in [Asked -> Entries(Asked)] /\ asking \in [Asked -> Asked \cup {NoParams}]
  BY <1>1 DEF ExplorerInit
<1>4. FiledAsAsked
  BY <1>1 DEF ExplorerInit, FiledAsAsked
<1> QED BY <1>2, <1>3, <1>4 DEF ExplorerInv, ExplorerType

\* A render asks for what is newly wanted, under what it wants.
LEMMA ObservesFilesAsAsked ==
    ASSUME ExplorerInv, Observes, UNCHANGED screen, Wanted' \in Asked \cup {NoParams}
    PROVE  /\ answers' \in [Asked -> Entries(Asked)]
           /\ asking' \in [Asked -> Asked \cup {NoParams}]
           /\ FiledAsAsked'
<1> USE DEF ExplorerInv
<1>0. Asked' = Asked
  BY DEF Asked, Params, Audits
<1>1. CASE UNCHANGED <<answers, asking>>
  BY <1>0, <1>1 DEF ExplorerType, FiledAsAsked
<1>2. CASE ~UNCHANGED <<answers, asking>>
  <2> DEFINE k == Wanted'
  <2>1. k \in Asked /\ QueryKey(k) = k
    BY <1>2 DEF Observes, QueryKey
  <2>2. /\ answers' = [answers EXCEPT ![k] = Joined(@)]
        /\ asking' = IF answers[k].fetch = "idle" THEN [asking EXCEPT ![k] = k] ELSE asking
    BY <1>2, <2>1 DEF Observes, QueryKey
  <2> HIDE DEF k
  <2>3. /\ answers[k] \in Entries(Asked)
        /\ answers[k].fetch \in {"idle", "sent"} /\ answers[k].data \in {Nothing, k}
    BY <2>1 DEF ExplorerType, FiledAsAsked
  <2>4. /\ Joined(answers[k]) \in Entries(Asked) /\ Joined(answers[k]).fetch = "sent"
        /\ Joined(answers[k]).data \in {Nothing, k}
    BY <2>3, EntrySteps
  <2>5. /\ answers' \in [Asked -> Entries(Asked)] /\ asking' \in [Asked -> Asked \cup {NoParams}]
        /\ asking'[k] = k
    BY <2>1, <2>2, <2>3, <2>4 DEF ExplorerType, FiledAsAsked
  <2>6. \A j \in Asked : j # k => answers'[j] = answers[j] /\ asking'[j] = asking[j]
    BY <2>1, <2>2 DEF ExplorerType
  <2>7. answers'[k] = Joined(answers[k])
    BY <2>1, <2>2 DEF ExplorerType
  <2> QED BY <1>0, <2>4, <2>5, <2>6, <2>7 DEF FiledAsAsked
<1> QED BY <1>1, <1>2

LEMMA StepKeepsExplorerInv == ExplorerInv /\ [ExplorerNext]_explorerVars => ExplorerInv'
<1> SUFFICES ASSUME ExplorerInv, [ExplorerNext]_explorerVars PROVE ExplorerInv'
  OBVIOUS
<1>0. UNCHANGED screen => Asked' = Asked
  BY DEF Asked, Params, Audits
<1>1. ASSUME UNCHANGED screen, Observes,
             typed' \in Params \cup {NoParams}, submitted' \in Params \cup {NoParams},
             item' \in Params \cup {NoParams}, eventType' \in Texts, auditPage' \in 0..(MaxPages - 1)
      PROVE  ExplorerInv'
  <2>1. Wanted' \in Asked' \cup {NoParams}
    <3>1. item' # NoParams => [item' EXCEPT !.narrowed = Whole] \in Params
      BY <1>1 DEF Params
    <3>2. [of |-> eventType', narrowed |-> auditPage'] \in Audits
      BY <1>1 DEF Audits
    <3>3. screen' \in Screens
      BY <1>1 DEF ExplorerInv, ExplorerType
    <3> QED BY <1>1, <3>1, <3>2, <3>3 DEF Screens, Wanted, Asked, Params, Audits
  <2>2. /\ answers' \in [Asked -> Entries(Asked)] /\ asking' \in [Asked -> Asked \cup {NoParams}]
        /\ FiledAsAsked'
    BY <1>0, <1>1, <2>1, ObservesFilesAsAsked
  <2> QED BY <1>0, <1>1, <2>2 DEF ExplorerInv, ExplorerType, Params, NoParams
<1>2. ASSUME NEW params \in Params, Type(params) PROVE ExplorerInv'
  BY <1>0, <1>2 DEF Type, ExplorerInv, ExplorerType, FiledAsAsked
<1>3. CASE HandleSubmit
  BY <1>1, <1>3 DEF HandleSubmit, ExplorerInv, ExplorerType
<1>4. ASSUME NEW params \in Params, ReadNote(params) PROVE ExplorerInv'
  BY <1>1, <1>4 DEF ReadNote, ExplorerInv, ExplorerType
<1>5. CASE ToggleFullNote
  BY <1>1, <1>5 DEF ToggleFullNote, ExplorerInv, ExplorerType
<1>6. CASE CloseReader
  BY <1>0, <1>6 DEF CloseReader, ExplorerInv, ExplorerType, FiledAsAsked
<1>7. ASSUME NEW type \in Texts, SetEventType(type) PROVE ExplorerInv'
  BY <1>1, <1>7 DEF SetEventType, ExplorerInv, ExplorerType
<1>8. ASSUME NEW n \in 0..(MaxPages - 1), SetPage(n) PROVE ExplorerInv'
  BY <1>1, <1>8 DEF SetPage, ExplorerInv, ExplorerType
<1>9. ASSUME NEW k \in Asked, UNCHANGED <<screen, typed, submitted, item, eventType, auditPage>>,
             NEW e \in Entries(Asked), e.fetch \in {"idle", "sent"}, e.data \in {Nothing, k},
             NEW a \in Asked \cup {NoParams}, e.fetch = "sent" => a = k,
             answers' = [answers EXCEPT ![k] = e], asking' = [asking EXCEPT ![k] = a]
      PROVE  ExplorerInv'
  <2>1. /\ answers' \in [Asked -> Entries(Asked)] /\ asking' \in [Asked -> Asked \cup {NoParams}]
        /\ \A j \in Asked : /\ answers'[j] = IF j = k THEN e ELSE answers[j]
                            /\ asking'[j] = IF j = k THEN a ELSE asking[j]
    BY <1>9 DEF ExplorerInv, ExplorerType
  <2>2. FiledAsAsked'
    BY <1>0, <1>9, <2>1 DEF ExplorerInv, FiledAsAsked
  <2> QED BY <1>0, <1>9, <2>1, <2>2 DEF ExplorerInv, ExplorerType
<1>10. CASE RefetchAnswer
  <2>1. Wanted \in Asked /\ QueryKey(Wanted) = Wanted
    BY <1>10, WantedIsAsked DEF RefetchAnswer, ExplorerInv, QueryKey
  <2>2. /\ answers[Wanted] \in Entries(Asked) /\ answers[Wanted].fetch \in {"idle", "sent"}
        /\ answers[Wanted].data \in {Nothing, Wanted}
    BY <2>1 DEF ExplorerInv, ExplorerType, FiledAsAsked
  <2>3. /\ Joined(answers[Wanted]) \in Entries(Asked) /\ Joined(answers[Wanted]).fetch = "sent"
        /\ Joined(answers[Wanted]).data \in {Nothing, Wanted}
    BY <2>2, EntrySteps
  <2>4. /\ answers' = [answers EXCEPT ![Wanted] = Joined(answers[Wanted])]
        /\ asking' = [asking EXCEPT ![Wanted] = Wanted]
        /\ UNCHANGED <<screen, typed, submitted, item, eventType, auditPage>>
    BY <1>10, <2>1 DEF RefetchAnswer
  <2> QED BY <1>9, <2>1, <2>3, <2>4
<1>11. ASSUME NEW k \in Asked, TakeAnswer(k) PROVE ExplorerInv'
  <2>1. /\ answers[k] \in Entries(Asked) /\ answers[k].data \in {Nothing, k}
        /\ asking[k] = k
    BY <1>11 DEF TakeAnswer, ExplorerInv, ExplorerType, FiledAsAsked
  <2>2. /\ Taken(Answered(answers[k], k)) \in Entries(Asked)
        /\ Taken(Answered(answers[k], k)).fetch = "idle"
        /\ Taken(Answered(answers[k], k)).data = k
    BY <2>1, AnswerSteps
  <2>3. /\ Failed(answers[k]) \in Entries(Asked) /\ Failed(answers[k]).fetch = "idle"
        /\ Failed(answers[k]).data \in {Nothing, k}
    BY <2>1, EntrySteps
  <2>4. /\ asking' = [asking EXCEPT ![k] = NoParams]
        /\ UNCHANGED <<screen, typed, submitted, item, eventType, auditPage>>
        /\ \/ answers' = [answers EXCEPT ![k] = Taken(Answered(answers[k], k))]
           \/ answers' = [answers EXCEPT ![k] = Failed(answers[k])]
    BY <1>11, <2>1 DEF TakeAnswer
  <2> QED BY <1>9, <2>2, <2>3, <2>4
<1>12. CASE UNCHANGED explorerVars
  BY <1>0, <1>12 DEF explorerVars, ExplorerInv, ExplorerType, FiledAsAsked
<1> QED
  BY <1>2, <1>3, <1>4, <1>5, <1>6, <1>7, <1>8, <1>10, <1>11, <1>12 DEF ExplorerNext

\* What a screen shows was answered for what it asks now, for any texts, headings and
\* pages, and in whatever order the answers come back.
THEOREM ShownIsAsked == ExplorerSpec => []ShownMatchesAsked
<1>1. ExplorerInv => ShownMatchesAsked
  <2> SUFFICES ASSUME ExplorerInv PROVE OnDisplay.data \in {Nothing, Wanted}
    BY DEF ShownMatchesAsked
  <2>1. CASE Wanted = NoParams
    BY <2>1 DEF OnDisplay, Unasked
  <2>2. CASE Wanted # NoParams
    BY <2>2, WantedIsAsked DEF ExplorerInv, FiledAsAsked, OnDisplay, QueryKey
  <2> QED BY <2>1, <2>2
<1> QED BY <1>1, InitExplorerInv, StepKeepsExplorerInv, PTL DEF ExplorerSpec

-----------------------------------------------------------------------------
(* Secrets. A call that is answered carries the secret made for it, and no *)
(* other call of OAuth's takes the place of one that is pending.           *)

Creates == [at : {"idle", "sent", "answered"}, secret : 0..MaxSecrets, heard : {"yes", "left"}]

Desktops ==
    [kind : {"apiKeys", "oauth"}, editor : BOOLEAN, created : 0..MaxSecrets,
     confirm : 0..MaxSecrets, rows : Entries(SUBSET (1..MaxSecrets)), call : Creates]

SecretsType ==
    /\ desktop \in Desktops
    /\ made \in 0..MaxSecrets
    /\ valid \subseteq 1..MaxSecrets

AnswersCarryTheirSecret ==
    /\ desktop.call.at # "answered" => desktop.call.secret = NoSecret
    /\ desktop.call.at = "answered" => desktop.call.secret # NoSecret
    /\ desktop.call.at = "sent" => made < MaxSecrets
    /\ desktop.kind = "oauth" /\ desktop.confirm # NoSecret => ~Pending /\ ~desktop.editor

SecretsInv == SecretsType /\ AnswersCarryTheirSecret /\ SecretsAreShown

LEMMA NoSecretIsNumber == NoSecret \in 0..MaxSecrets /\ NoSecret \notin 1..MaxSecrets
BY DEF NoSecret

LEMMA NoCreateIsCreate == NoCreate \in Creates /\ NoCreate.at = "idle" /\ NoCreate.secret = NoSecret
BY DEF NoCreate, Creates, NoSecret

LEMMA InitSecretsInv == SecretsInit => SecretsInv
<1> SUFFICES ASSUME SecretsInit PROVE SecretsInv
  OBVIOUS
<1>1. Sent(Unasked) \in Entries(SUBSET (1..MaxSecrets))
  BY DEF Sent, Unasked, Entries
<1>2. PICK k \in {"apiKeys", "oauth"}, e \in {FALSE}, c \in {NoSecret}, f \in {NoSecret},
           o \in {NoCreate}, r \in {Sent(Unasked)} :
           desktop = [kind |-> k, editor |-> e, created |-> c, confirm |-> f, call |-> o, rows |-> r]
  BY DEF SecretsInit
<1>3. desktop \in Desktops /\ desktop.call = NoCreate /\ desktop.confirm = NoSecret
  BY <1>1, <1>2, NoSecretIsNumber, NoCreateIsCreate DEF Desktops
<1>4. made = 0 /\ valid = {}
  BY DEF SecretsInit
<1> QED
  BY <1>3, <1>4, NoCreateIsCreate DEF SecretsInv, SecretsType, AnswersCarryTheirSecret, SecretsAreShown

\* Steps that neither make a secret nor end a call.
LEMMA CallGoesOn ==
    ASSUME SecretsInv, NEW d \in Desktops, Renders(d), UNCHANGED <<made, dropped>>,
           valid' \subseteq valid,
           d.call.at = desktop.call.at, d.call.secret = desktop.call.secret, d.kind = desktop.kind,
           d.kind = "oauth" /\ d.confirm # NoSecret
           => ~d.editor /\ ~(d.call.at # "idle" /\ d.call.heard = "yes")
    PROVE  SecretsInv'
<1>1. desktop' = d /\ seen \subseteq seen'
  BY DEF Renders
<1> QED
  BY <1>1 DEF SecretsInv, SecretsType, AnswersCarryTheirSecret, SecretsAreShown, Pending

LEMMA StepKeepsSecretsInv == SecretsInv /\ [SecretsNext]_secretVars => SecretsInv'
<1> SUFFICES ASSUME SecretsInv, [SecretsNext]_secretVars PROVE SecretsInv'
  OBVIOUS
<1>0. /\ desktop \in Desktops /\ desktop.rows \in Entries(SUBSET (1..MaxSecrets))
      /\ Sent(desktop.rows) \in Entries(SUBSET (1..MaxSecrets))
      /\ Joined(desktop.rows) \in Entries(SUBSET (1..MaxSecrets))
      /\ Invalidated(desktop.rows) \in Entries(SUBSET (1..MaxSecrets))
  <2>1. desktop \in Desktops /\ desktop.rows \in Entries(SUBSET (1..MaxSecrets))
    BY DEF SecretsInv, SecretsType, Desktops
  <2> QED BY <2>1, EntrySteps
<1> USE DEF SecretsInv, AnswersCarryTheirSecret, Pending
<1>1. CASE OpenEditor
  BY <1>0, <1>1, CallGoesOn, NoSecretIsNumber DEF OpenEditor, Desktops
<1>2. CASE CloseDialog
  <2>1. CASE Renders([desktop EXCEPT !.editor = FALSE])
    BY <1>0, <1>2, <2>1, CallGoesOn DEF CloseDialog, Desktops
  <2>2. CASE Renders([desktop EXCEPT !.created = NoSecret])
    BY <1>0, <1>2, <2>2, CallGoesOn, NoSecretIsNumber DEF CloseDialog, Desktops
  <2> QED BY <1>2, <2>1, <2>2 DEF CloseDialog
<1>3. CASE RemountSecrets
  <2> DEFINE d == [desktop EXCEPT !.editor = FALSE, !.created = NoSecret, !.confirm = NoSecret,
                                  !.call.heard = "left", !.rows = Joined(@)]
  <2>1. [desktop.call EXCEPT !.heard = "left"] \in Creates
    BY <1>0 DEF Desktops, Creates
  <2>2. /\ d \in Desktops /\ d.kind = desktop.kind /\ d.confirm = NoSecret
        /\ d.call.at = desktop.call.at /\ d.call.secret = desktop.call.secret
    BY <1>0, <2>1, NoSecretIsNumber DEF Desktops, Creates
  <2>3. Renders(d) /\ UNCHANGED <<made, valid, dropped>>
    BY <1>3 DEF RemountSecrets
  <2> HIDE DEF d
  <2> QED BY <2>2, <2>3, CallGoesOn
<1>4. ASSUME NEW s \in 1..MaxSecrets, AskRevoke(s) PROVE SecretsInv'
  <2> DEFINE d == [desktop EXCEPT !.confirm = s]
  <2>1. d \in Desktops /\ d.kind = desktop.kind /\ d.call = desktop.call /\ d.editor = desktop.editor
    BY <1>0 DEF Desktops
  <2>2. /\ Renders(d) /\ UNCHANGED <<made, valid, dropped>>
        /\ ~desktop.editor /\ (desktop.kind = "oauth" => ~Pending)
    BY <1>4 DEF AskRevoke, RowEnabled
  <2> HIDE DEF d
  <2> QED BY <2>1, <2>2, CallGoesOn
<1>5. CASE ConfirmRevoke
  <2>1. ~(desktop.kind = "oauth" /\ Pending)
    BY <1>5 DEF ConfirmRevoke
  <2>2. CASE Renders([desktop EXCEPT !.confirm = NoSecret]) /\ UNCHANGED valid
    BY <1>0, <1>5, <2>2, CallGoesOn, NoSecretIsNumber DEF ConfirmRevoke, Desktops
  <2> DEFINE d == [desktop EXCEPT !.confirm = NoSecret, !.rows = Invalidated(@),
                                  !.call.heard = desktop.call.heard]
  <2>3. CASE Renders(d) /\ valid' = valid \ {desktop.confirm}
    <3>1. [desktop.call EXCEPT !.heard = desktop.call.heard] \in Creates
      BY <1>0 DEF Desktops, Creates
    <3>2. /\ d \in Desktops /\ d.kind = desktop.kind /\ d.confirm = NoSecret
          /\ d.call.at = desktop.call.at /\ d.call.secret = desktop.call.secret
      BY <1>0, <3>1, NoSecretIsNumber DEF Desktops, Creates
    <3>3. UNCHANGED <<made, dropped>>
      BY <1>5 DEF ConfirmRevoke
    <3> HIDE DEF d
    <3> QED BY <2>3, <3>2, <3>3, CallGoesOn
  <2>4. (IF desktop.kind = "oauth" /\ Pending THEN "replaced" ELSE desktop.call.heard)
        = desktop.call.heard
    BY <2>1
  <2> HIDE DEF Pending
  <2> QED BY <1>5, <2>2, <2>3, <2>4 DEF ConfirmRevoke
<1>6. CASE TakeRows
  <2>1. valid \in SUBSET (1..MaxSecrets)
    BY DEF SecretsType
  <2>2. Taken(Answered(desktop.rows, valid)) \in Entries(SUBSET (1..MaxSecrets))
    BY <1>0, <2>1, AnswerSteps
  <2> QED BY <1>0, <1>6, <2>2, CallGoesOn DEF TakeRows, Desktops
<1>7. CASE PollRows
  BY <1>0, <1>7, CallGoesOn DEF PollRows, Desktops
<1>8. CASE HandleCreate
  <2> DEFINE d == [desktop EXCEPT !.call = [at |-> "sent", secret |-> NoSecret, heard |-> "yes"]]
  <2>1. d \in Desktops /\ d.call.at = "sent" /\ d.call.secret = NoSecret /\ d.kind = desktop.kind
        /\ d.editor /\ d.confirm = desktop.confirm
    BY <1>0, <1>8 DEF HandleCreate, Desktops, Creates, NoSecret
  <2>2. desktop' = d /\ seen \subseteq seen' /\ desktop.call.at = "idle" /\ made < MaxSecrets
        /\ desktop.editor /\ UNCHANGED <<made, valid, dropped>>
    BY <1>8 DEF HandleCreate, Renders
  <2> HIDE DEF d
  <2> QED BY <2>1, <2>2 DEF SecretsType, SecretsAreShown, NoSecret
<1>9. CASE ServeCreate
  <2>1. /\ made \in Nat /\ made < MaxSecrets /\ made' = made + 1 /\ valid' = valid \cup {made + 1}
        /\ desktop.call.secret = NoSecret /\ UNCHANGED <<seen, dropped>>
    BY <1>9 DEF ServeCreate, SecretsType
  <2>2. /\ desktop' \in Desktops /\ desktop'.call.at = "answered" /\ desktop'.call.secret = made + 1
        /\ desktop'.kind = desktop.kind /\ desktop'.editor = desktop.editor
        /\ desktop'.confirm = desktop.confirm /\ desktop'.call.heard = desktop.call.heard
    <3>1. desktop' = [desktop EXCEPT !.call.at = "answered", !.call.secret = made + 1]
      BY <1>9 DEF ServeCreate
    <3>2. [desktop.call EXCEPT !.at = "answered", !.secret = made + 1] \in Creates
      <4>1. desktop.call \in Creates
        BY <1>0 DEF Desktops
      <4>2. made + 1 \in 0..MaxSecrets
        BY <2>1
      <4> QED BY <4>1, <4>2 DEF Creates
    <3> QED BY <1>0, <3>1, <3>2 DEF Desktops, Creates
  <2>3. SecretsAreShown'
    BY <2>1, <2>2 DEF SecretsAreShown, NoSecret
  <2>4. SecretsType'
    BY <2>1, <2>2 DEF SecretsType
  <2>5. AnswersCarryTheirSecret'
    BY <1>9, <2>1, <2>2 DEF ServeCreate, NoSecret
  <2> QED BY <2>3, <2>4, <2>5
<1>10. ASSUME NEW d \in Desktops, Renders(d), UNCHANGED <<made, valid>>,
              d.call = NoCreate, d.kind = desktop.kind,
              d.kind = "oauth" /\ d.confirm # NoSecret => ~d.editor,
              dropped \subseteq dropped',
              desktop.call.at = "answered" => desktop.call.secret \in seen' \cup dropped'
       PROVE  SecretsInv'
  <2>1. desktop' = d /\ seen \subseteq seen'
    BY <1>10 DEF Renders
  <2>2. d.call.at = "idle" /\ d.call.secret = NoSecret
    BY <1>10 DEF NoCreate
  <2>3. \A s \in 1..made : s \in seen' \cup dropped'
    BY <1>10, <2>1 DEF SecretsAreShown, NoSecret, SecretsType
  <2> QED BY <1>10, <2>1, <2>2, <2>3 DEF SecretsType, SecretsAreShown, NoSecret
<1>11. NoCreate \in Creates
  BY NoCreateIsCreate
<1>12. CASE LoseCreate
  <2> DEFINE d == [desktop EXCEPT !.call = NoCreate]
  <2>1. d \in Desktops /\ d.call = NoCreate /\ d.kind = desktop.kind /\ d.confirm = desktop.confirm
        /\ d.editor = desktop.editor
    BY <1>0, <1>11 DEF Desktops
  <2>2. /\ Renders(d) /\ UNCHANGED <<made, valid>> /\ dropped \subseteq dropped'
        /\ desktop.call.at = "answered" => desktop.call.secret \in dropped'
    BY <1>12 DEF LoseCreate
  <2> HIDE DEF d
  <2> QED BY <1>10, <2>1, <2>2
<1>13. CASE CreateAnswered
  <2> DEFINE secret == desktop.call.secret
             done == [desktop EXCEPT !.call = NoCreate, !.rows = Invalidated(@)]
             d == IF desktop.call.heard = "yes" THEN PutSecret(done, secret) ELSE done
  <2>1. secret \in 1..MaxSecrets /\ desktop.call.at = "answered" /\ desktop.call.heard \in {"yes", "left"}
    BY <1>0, <1>13 DEF CreateAnswered, Desktops, Creates, NoSecret
  <2>2. done \in Desktops /\ done.call = NoCreate /\ done.kind = desktop.kind
        /\ done.confirm = desktop.confirm /\ done.editor = desktop.editor
    BY <1>0, <1>11 DEF Desktops
  <2>3. /\ Renders(d) /\ UNCHANGED <<made, valid>>
        /\ dropped' = IF desktop.call.heard = "left" \/ (desktop.kind = "apiKeys" /\ ~desktop.editor)
                      THEN dropped \cup {secret} ELSE dropped
    BY <1>13 DEF CreateAnswered
  <2> HIDE DEF secret, done
  <2>4. /\ d \in Desktops /\ d.call = NoCreate /\ d.kind = desktop.kind
        /\ d.confirm = desktop.confirm /\ (d.editor => desktop.editor)
    <3>1. PutSecret(done, secret) =
            [done EXCEPT !.created = secret,
                         !.editor = IF done.kind = "oauth" THEN FALSE ELSE done.editor]
      BY DEF PutSecret
    <3>2. (IF done.kind = "oauth" THEN FALSE ELSE done.editor) \in BOOLEAN
      BY <2>2 DEF Desktops
    <3>3. secret \in 0..MaxSecrets
      BY <2>1
    <3>4. PutSecret(done, secret) \in Desktops /\ PutSecret(done, secret).call = NoCreate
          /\ PutSecret(done, secret).kind = done.kind /\ PutSecret(done, secret).confirm = done.confirm
          /\ (PutSecret(done, secret).editor => done.editor)
      BY <2>2, <3>1, <3>2, <3>3 DEF Desktops
    <3> QED BY <2>1, <2>2, <3>4
  <2>5. desktop.call.heard = "yes" /\ (desktop.kind = "oauth" \/ desktop.editor)
        => OnScreen(d) /\ d.created = secret
    BY <2>1, <2>2, <1>0 DEF PutSecret, OnScreen, NoSecret, Desktops
  <2> HIDE DEF d
  <2>6. secret \in seen' \cup dropped'
    <3>1. CASE desktop.call.heard = "yes" /\ (desktop.kind = "oauth" \/ desktop.editor)
      BY <2>3, <2>5, <3>1 DEF Renders
    <3>2. CASE ~(desktop.call.heard = "yes" /\ (desktop.kind = "oauth" \/ desktop.editor))
      BY <2>1, <2>3, <3>2, <1>0 DEF Desktops, Creates
    <3> QED BY <3>1, <3>2
  <2>7. dropped \subseteq dropped'
    BY <2>3
  <2> QED BY <1>10, <2>3, <2>4, <2>6, <2>7 DEF secret
<1>14. CASE UNCHANGED secretVars
  BY <1>14 DEF secretVars, SecretsType, SecretsAreShown
<1> QED
  BY <1>1, <1>2, <1>3, <1>4, <1>5, <1>6, <1>7, <1>8, <1>9, <1>12, <1>13, <1>14 DEF SecretsNext

\* The secret of every credential made is shown, lost, or left behind with the dialog
\* or the page that asked for it, however many are made and revoked.
THEOREM EverySecretIsShown == SecretsSpec => []SecretsAreShown
<1>1. SecretsInv => SecretsAreShown
  BY DEF SecretsInv
<1> QED BY <1>1, InitSecretsInv, StepKeepsSecretsInv, PTL DEF SecretsSpec

-----------------------------------------------------------------------------
(* The proposals page. What an entry says, when no fetch is under way, or  *)
(* what the answer on its way says, is not older than the user's own last  *)
(* decision.                                                               *)

IsFresh(c, since) ==
    /\ c.fetch = "idle" => c.data = Nothing \/ c.data.after >= since
    /\ c.fetch = "answered" => c.got.after >= since

\* What keeps an entry fresh.
LEMMA FreshSteps ==
    ASSUME NEW Data, NEW c \in Entries(Data), NEW since
    PROVE  /\ IsFresh(Unasked, since) /\ IsFresh(Sent(Unasked), since)
           /\ IsFresh(c, since) => IsFresh(Joined(c), since)
           /\ IsFresh(c, since) /\ Late(c) => IsFresh(Taken(c), since)
           /\ ~Late(c) => IsFresh(Joined(c), since)
           /\ c.data # Nothing \/ ~Late(c) => IsFresh(Invalidated(c), since)
           /\ IsFresh(c, since) => UpToDate(c, since) \/ CatchesUp(c, since)
<1>1. /\ IsFresh(Unasked, since) /\ IsFresh(Sent(Unasked), since)
  BY DEF IsFresh, Unasked, Sent
<1>2. /\ Sent(c).fetch = "sent" /\ Joined(c) = IF c.fetch = "idle" THEN Sent(c) ELSE c
      /\ Invalidated(c).fetch = "sent" \/ (c.data = Nothing /\ Late(c))
      /\ Taken(c).fetch = "idle" /\ Taken(c).data = c.got
  BY EntrySteps
<1>3. c.fetch \in {"idle", "sent", "answered"}
  BY DEF Entries
<1>4. IsFresh(c, since) => IsFresh(Joined(c), since)
  BY <1>2 DEF IsFresh
<1>5. ~Late(c) => IsFresh(Joined(c), since)
  BY <1>2, <1>3 DEF IsFresh, Late
<1>6. c.data # Nothing \/ ~Late(c) => IsFresh(Invalidated(c), since)
  BY <1>2 DEF IsFresh
<1>7. IsFresh(c, since) => UpToDate(c, since) \/ CatchesUp(c, since)
  BY <1>3 DEF IsFresh, UpToDate, CatchesUp, Late
<1>8. IsFresh(c, since) /\ Late(c) => IsFresh(Taken(c), since)
  BY <1>2 DEF IsFresh, Late
<1> QED BY <1>1, <1>4, <1>5, <1>6, <1>7, <1>8

LEMMA AnsweredIsFresh ==
    ASSUME NEW Data, NEW c \in Entries(Data), NEW now \in Data, NEW since, now.after >= since
    PROVE  IsFresh(Answered(c, now), since) /\ IsFresh(Taken(Answered(c, now)), since)
<1>1. /\ Answered(c, now).fetch = "answered" /\ Answered(c, now).got = now
      /\ Taken(Answered(c, now)) = [data |-> now, fetch |-> "idle", got |-> Nothing]
  BY AnswerSteps
<1> QED BY <1>1 DEF IsFresh

DeskCalls == [at : {"idle", "sent", "answered"}, ids : SUBSET (Proposals \cup {NoProposal}),
              to : Decision, batch : BOOLEAN, after : 0..MaxDecisions]

Desks ==
    [filter : Filters, list : Entries(Listing), detail : Entries(Detail),
     observed : Proposals \cup {NoProposal}, selectedId : Proposals \cup {NoProposal},
     checked : SUBSET Proposals, call : DeskCalls, own : 0..MaxDecisions, joined : BOOLEAN]

DeskIsFresh(d, now) ==
    /\ d \in Desks
    /\ d.detail.fetch \in {"idle", "sent"}
    /\ d.observed = NoProposal => d.detail.fetch = "idle" /\ d.detail.data = Nothing
    /\ d.own <= now /\ d.call.after <= now
    /\ d.joined \/ (IsFresh(d.list, d.own) /\ IsFresh(d.detail, d.own))

ReviewInv ==
    /\ proposals \in [Proposals -> Open \cup Closed]
    /\ decisions \in 0..MaxDecisions
    /\ DeskIsFresh(desk, decisions)

LEMMA SelectedIsListed ==
    ASSUME NEW d \in Desks
    PROVE  SelectedProposalId(d) \in Proposals \cup {NoProposal}
<1>1. ShownIds(d) \subseteq Proposals
  BY DEF ShownIds, Desks, Entries, Listing
<1>2. ShownIds(d) # {} => (CHOOSE q \in ShownIds(d) : TRUE) \in ShownIds(d)
  BY Zenon
<1> QED BY <1>1, <1>2 DEF SelectedProposalId

LEMMA DisplayedIsFresh ==
    ASSUME NEW d, NEW now \in 0..MaxDecisions, DeskIsFresh(d, now)
    PROVE  DeskIsFresh(Displayed(d), now)
<1> DEFINE p == SelectedProposalId(d)
<1>1. p \in Proposals \cup {NoProposal}
  BY SelectedIsListed DEF DeskIsFresh
<1>2. CASE p = d.observed
  BY <1>2 DEF Displayed
<1>3. CASE p # d.observed
  <2> DEFINE e == IF p = NoProposal THEN Unasked ELSE Sent(Unasked)
  <2>1. Displayed(d) = [d EXCEPT !.observed = p, !.detail = e]
    BY <1>3 DEF Displayed
  <2>2. /\ e \in Entries(Detail) /\ e.fetch \in {"idle", "sent"} /\ IsFresh(e, d.own)
        /\ p = NoProposal => e.fetch = "idle" /\ e.data = Nothing
    BY DEF Unasked, Sent, Entries, IsFresh
  <2> HIDE DEF p, e
  <2> QED BY <1>1, <2>1, <2>2 DEF DeskIsFresh, Desks
<1> QED BY <1>2, <1>3

LEMMA NoCallIsCall == NoCall \in DeskCalls /\ NoCall.after = 0
BY DEF NoCall, DeskCalls, Decision, Open, Closed

LEMMA AnsweredCallIsCall ==
    ASSUME NEW n \in 0..MaxDecisions, NEW b \in BOOLEAN
    PROVE  LET c == [NoCall EXCEPT !.at = "answered", !.batch = b, !.after = n]
           IN  c \in DeskCalls /\ c.after = n
BY NoCallIsCall DEF DeskCalls

LEMMA InitReviewInv == ReviewInit => ReviewInv
<1> SUFFICES ASSUME ReviewInit PROVE ReviewInv
  OBVIOUS
<1>1. /\ Unasked \in Entries(Detail) /\ Unasked.fetch = "idle" /\ Unasked.data = Nothing
      /\ Sent(Unasked) \in Entries(Listing)
      /\ IsFresh(Unasked, 0) /\ IsFresh(Sent(Unasked), 0)
  BY DEF Unasked, Sent, Entries, IsFresh
<1>2. DeskIsFresh(desk, 0)
  BY <1>1, NoCallIsCall DEF ReviewInit, DeskIsFresh, Desks, Filters
<1>3. proposals \in [Proposals -> Open \cup Closed] /\ decisions = 0
  BY DEF ReviewInit, Open, Closed
<1> QED BY <1>2, <1>3 DEF ReviewInv

LEMMA StepKeepsReviewInv == ReviewInv /\ [ReviewNext]_reviewVars => ReviewInv'
<1> SUFFICES ASSUME ReviewInv, [ReviewNext]_reviewVars PROVE ReviewInv'
  OBVIOUS
<1>0. /\ proposals \in [Proposals -> Open \cup Closed]
      /\ decisions \in 0..MaxDecisions /\ DeskIsFresh(desk, decisions)
      /\ desk \in Desks /\ desk.list \in Entries(Listing) /\ desk.detail \in Entries(Detail)
      /\ desk.own \in 0..MaxDecisions /\ desk.own <= decisions
      /\ desk.call \in DeskCalls /\ desk.call.after \in 0..MaxDecisions /\ desk.call.after <= decisions
  BY DEF ReviewInv, DeskIsFresh, Desks, DeskCalls
<1>1. ASSUME UNCHANGED <<proposals, decisions>>, DeskIsFresh(desk', decisions) PROVE ReviewInv'
  BY <1>0, <1>1 DEF ReviewInv
\* The decisions go on, the page stays, but for its call.
<1>2. ASSUME proposals' \in [Proposals -> Open \cup Closed], decisions' \in 0..MaxDecisions,
             decisions' >= decisions, NEW c \in DeskCalls, c.after <= decisions',
             desk' = [desk EXCEPT !.call = c]
      PROVE  ReviewInv'
  <2>1. DeskIsFresh(desk', decisions')
    BY <1>0, <1>2 DEF DeskIsFresh, Desks
  <2> QED BY <1>2, <2>1 DEF ReviewInv
<1>3. \A ids, to : to \in Open \cup Closed => Decided(ids, to) \in [Proposals -> Open \cup Closed]
  BY <1>0 DEF Decided
<1>4. ASSUME NEW f \in Filters, SetStatusFilter(f) PROVE ReviewInv'
  <2> DEFINE d == [desk EXCEPT !.filter = f, !.list = Sent(Unasked), !.checked = {}]
  <2>1. Sent(Unasked) \in Entries(Listing) /\ IsFresh(Sent(Unasked), desk.own)
    BY <1>0, EntrySteps, FreshSteps
  <2>2. DeskIsFresh(d, decisions)
    BY <1>0, <2>1 DEF DeskIsFresh, Desks
  <2>3. desk' = Displayed(d) /\ UNCHANGED <<proposals, decisions>>
    BY <1>4 DEF SetStatusFilter
  <2> HIDE DEF d
  <2> QED BY <1>0, <1>1, <2>2, <2>3, DisplayedIsFresh
<1>5. ASSUME NEW p \in Proposals, SelectRow(p) PROVE ReviewInv'
  <2> DEFINE d == [desk EXCEPT !.selectedId = p]
  <2>1. DeskIsFresh(d, decisions)
    BY <1>0 DEF DeskIsFresh, Desks
  <2>2. desk' = Displayed(d) /\ UNCHANGED <<proposals, decisions>>
    BY <1>5 DEF SelectRow
  <2> HIDE DEF d
  <2> QED BY <1>0, <1>1, <2>1, <2>2, DisplayedIsFresh
<1>6. ASSUME NEW cs \in SUBSET Proposals, desk' = [desk EXCEPT !.checked = cs],
             UNCHANGED <<proposals, decisions>>
      PROVE  ReviewInv'
  <2>1. DeskIsFresh(desk', decisions)
    BY <1>0, <1>6 DEF DeskIsFresh, Desks
  <2> QED BY <1>1, <1>6, <2>1
<1>7. ASSUME NEW p \in Proposals, ToggleSelected(p) PROVE ReviewInv'
  <2> DEFINE cs == IF p \in desk.checked THEN desk.checked \ {p} ELSE desk.checked \cup {p}
  <2>1. cs \in SUBSET Proposals
    BY <1>0 DEF Desks
  <2>2. desk' = [desk EXCEPT !.checked = cs] /\ UNCHANGED <<proposals, decisions>>
    BY <1>7 DEF ToggleSelected
  <2> QED BY <1>6, <2>1, <2>2
<1>8. CASE ToggleAllVisible
  <2> DEFINE ids == ShownIds(desk)
             cs == IF ids # {} /\ ids \subseteq desk.checked THEN {} ELSE ids
  <2>1. ids \in SUBSET Proposals
    BY <1>0 DEF ShownIds, Entries, Listing
  <2>2. cs \in SUBSET Proposals
    BY <2>1
  <2>3. desk' = [desk EXCEPT !.checked = cs] /\ UNCHANGED <<proposals, decisions>>
    BY <1>8 DEF ToggleAllVisible
  <2> QED BY <1>6, <2>2, <2>3
<1>9. CASE RefetchDesk
  <2> DEFINE e == IF desk.observed = NoProposal THEN desk.detail ELSE Joined(desk.detail)
  <2>1. /\ Joined(desk.list) \in Entries(Listing)
        /\ IsFresh(desk.list, desk.own) => IsFresh(Joined(desk.list), desk.own)
    BY <1>0, EntrySteps, FreshSteps
  <2>2. /\ Joined(desk.detail) \in Entries(Detail)
        /\ IsFresh(desk.detail, desk.own) => IsFresh(Joined(desk.detail), desk.own)
        /\ Joined(desk.detail) = IF desk.detail.fetch = "idle" THEN Sent(desk.detail) ELSE desk.detail
        /\ Sent(desk.detail).fetch = "sent"
    BY <1>0, EntrySteps, FreshSteps
  <2>3. /\ e \in Entries(Detail) /\ e.fetch \in {"idle", "sent"}
        /\ IsFresh(desk.detail, desk.own) => IsFresh(e, desk.own)
        /\ desk.observed = NoProposal => e = desk.detail
    BY <1>0, <2>2 DEF DeskIsFresh
  <2>4. desk' = [desk EXCEPT !.list = Joined(desk.list), !.detail = e] /\ UNCHANGED <<proposals, decisions>>
    BY <1>9 DEF RefetchDesk
  <2> HIDE DEF e
  <2>5. DeskIsFresh(desk', decisions)
    BY <1>0, <2>1, <2>3, <2>4 DEF DeskIsFresh, Desks
  <2> QED BY <1>1, <2>4, <2>5
<1>10. ASSUME NEW ids \in SUBSET (Proposals \cup {NoProposal}), NEW to \in Decision, NEW b \in BOOLEAN, Sends(ids, to, b)
       PROVE  ReviewInv'
  <2> DEFINE c == [at |-> "sent", ids |-> ids, to |-> to, batch |-> b, after |-> 0]
  <2>1. c \in DeskCalls /\ c.after <= decisions
    BY <1>0 DEF DeskCalls
  <2>2. desk' = [desk EXCEPT !.call = c] /\ UNCHANGED <<proposals, decisions>>
    BY <1>10 DEF Sends
  <2> HIDE DEF c
  <2> QED BY <1>0, <1>2, <2>1, <2>2
<1>11. ASSUME NEW to \in Decision, DecideSelected(to) PROVE ReviewInv'
  <2>1. {SelectedProposalId(desk)} \in SUBSET (Proposals \cup {NoProposal})
    BY <1>0, SelectedIsListed
  <2> QED BY <1>10, <1>11, <2>1 DEF DecideSelected
<1>12. ASSUME NEW to \in Decision, RunBatch(to) PROVE ReviewInv'
  <2>1. desk.checked \in SUBSET (Proposals \cup {NoProposal})
    BY <1>0 DEF Desks
  <2> QED BY <1>10, <1>12, <2>1 DEF RunBatch
<1>13. CASE DecisionAnswered
  <2> DEFINE e == IF desk.observed = NoProposal THEN desk.detail ELSE Invalidated(desk.detail)
             own == desk.call.after
             joined == desk.joined \/ (desk.list.data = Nothing /\ Late(desk.list))
             cs == IF desk.call.batch THEN {} ELSE desk.checked
  <2>1. /\ Invalidated(desk.list) \in Entries(Listing)
        /\ joined \/ IsFresh(Invalidated(desk.list), own)
    BY <1>0, EntrySteps, FreshSteps
  <2>2. ~Late(desk.detail)
    BY <1>0 DEF DeskIsFresh, Late
  <2>3. /\ Invalidated(desk.detail) \in Entries(Detail)
        /\ Invalidated(desk.detail).fetch = "sent" /\ IsFresh(Invalidated(desk.detail), own)
    BY <1>0, <2>2, EntrySteps, FreshSteps
  <2>4. /\ e \in Entries(Detail) /\ e.fetch \in {"idle", "sent"} /\ IsFresh(e, own)
        /\ desk.observed = NoProposal => e.fetch = "idle" /\ e.data = Nothing
    BY <1>0, <2>3 DEF DeskIsFresh, IsFresh
  <2>5. /\ desk' = [Invalidates(desk) EXCEPT !.call = NoCall, !.own = own, !.checked = IF desk.call.batch THEN {} ELSE @]
        /\ Invalidates(desk) = [desk EXCEPT !.list = Invalidated(desk.list), !.detail = e, !.joined = joined]
        /\ UNCHANGED <<proposals, decisions>>
    BY <1>13 DEF DecisionAnswered, Invalidates
  <2>6. own \in 0..MaxDecisions /\ own <= decisions /\ cs \in SUBSET Proposals /\ joined \in BOOLEAN
        /\ Invalidates(desk).checked = desk.checked
    BY <1>0, <2>5 DEF Desks
  <2> HIDE DEF e, own, joined
  <2>7. Invalidates(desk) \in Desks
    BY <1>0, <2>1, <2>4, <2>5, <2>6 DEF Desks
  <2>8. /\ desk' \in Desks
        /\ desk'.list = Invalidated(desk.list) /\ desk'.detail = e /\ desk'.joined = joined
        /\ desk'.own = own /\ desk'.call = NoCall /\ desk'.observed = desk.observed
    BY <1>0, <2>5, <2>6, <2>7, NoCallIsCall DEF Desks
  <2>9. DeskIsFresh(desk', decisions)
    BY <1>0, <2>1, <2>4, <2>6, <2>8, NoCallIsCall DEF DeskIsFresh
  <2> QED BY <1>1, <2>5, <2>9
<1>14. CASE ServeDecision
  <2> DEFINE call == desk.call
             applies == Decided(call.ids, call.to) # proposals
             c == IF applies \/ call.batch
                  THEN [NoCall EXCEPT !.at = "answered", !.batch = call.batch, !.after = decisions']
                  ELSE NoCall
  <2>1. /\ applies => decisions < MaxDecisions
        /\ proposals' = Decided(call.ids, call.to)
        /\ decisions' = IF applies THEN decisions + 1 ELSE decisions
        /\ desk' = [desk EXCEPT !.call = c]
    BY <1>14 DEF ServeDecision
  <2>2. call.to \in Open \cup Closed /\ call.batch \in BOOLEAN
    BY <1>0 DEF DeskCalls, Decision
  <2>3. decisions' \in 0..MaxDecisions /\ decisions' >= decisions
    BY <1>0, <2>1
  <2>4. c \in DeskCalls /\ c.after <= decisions'
    <3>1. CASE applies \/ call.batch
      <4> DEFINE a == [NoCall EXCEPT !.at = "answered", !.batch = call.batch, !.after = decisions']
      <4>1. a \in DeskCalls /\ a.after = decisions'
        BY <2>2, <2>3, AnsweredCallIsCall
      <4>2. c = a
        BY <3>1
      <4>3. decisions' <= decisions'
        BY <2>3
      <4> HIDE DEF a, c
      <4> QED BY <4>1, <4>2, <4>3
    <3>2. CASE ~(applies \/ call.batch)
      BY <2>3, <3>2, <1>0, NoCallIsCall
    <3> QED BY <3>1, <3>2
  <2>5. proposals' \in [Proposals -> Open \cup Closed]
    BY <1>3, <2>1, <2>2
  <2> HIDE DEF c, applies, call
  <2> QED BY <1>2, <2>1, <2>3, <2>4, <2>5
<1>15. CASE LoseDecision
  BY <1>0, <1>2, <1>15, NoCallIsCall DEF LoseDecision
<1>16. CASE AnswerList
  <2> DEFINE now == [after |-> decisions, ids |-> Listed(desk.filter)]
  <2>1. now \in Listing /\ now.after >= desk.own
    BY <1>0 DEF Listing, Listed
  <2>2. desk' = [desk EXCEPT !.list = Answered(desk.list, now)] /\ UNCHANGED <<proposals, decisions>>
    BY <1>16 DEF AnswerList
  <2> HIDE DEF now
  <2>3. Answered(desk.list, now) \in Entries(Listing) /\ IsFresh(Answered(desk.list, now), desk.own)
    BY <1>0, <2>1, AnswerSteps, AnsweredIsFresh
  <2>4. DeskIsFresh(desk', decisions)
    BY <1>0, <2>2, <2>3 DEF DeskIsFresh, Desks
  <2> QED BY <1>1, <2>2, <2>4
<1>17. CASE TakeList
  <2> DEFINE d == [desk EXCEPT !.list = Taken(desk.list)]
  <2>1. Late(desk.list) /\ desk' = Displayed(d) /\ UNCHANGED <<proposals, decisions>>
    BY <1>17 DEF TakeList, Late
  <2>2. /\ Taken(desk.list) \in Entries(Listing)
        /\ IsFresh(desk.list, desk.own) => IsFresh(Taken(desk.list), desk.own)
    BY <1>0, <2>1, EntrySteps, FreshSteps
  <2>3. DeskIsFresh(d, decisions)
    BY <1>0, <2>2 DEF DeskIsFresh, Desks
  <2> HIDE DEF d
  <2> QED BY <1>0, <1>1, <2>1, <2>3, DisplayedIsFresh
<1>18. CASE TakeDetail
  <2> DEFINE now == [after |-> decisions, status |-> proposals[desk.observed]]
             e == Taken(Answered(desk.detail, now))
  <2>1. desk.observed # NoProposal /\ desk.observed \in Proposals
    BY <1>0, <1>18 DEF TakeDetail, DeskIsFresh, Desks
  <2>2. now \in Detail /\ now.after >= desk.own
    BY <1>0, <2>1 DEF Detail
  <2>3. desk' = [desk EXCEPT !.detail = e] /\ UNCHANGED <<proposals, decisions>>
    BY <1>18 DEF TakeDetail
  <2> HIDE DEF now
  <2>4. /\ e \in Entries(Detail) /\ IsFresh(e, desk.own)
        /\ e = [data |-> now, fetch |-> "idle", got |-> Nothing]
    BY <1>0, <2>2, AnswerSteps, AnsweredIsFresh
  <2>5. e.fetch = "idle"
    BY <2>4
  <2> HIDE DEF e
  <2>6. DeskIsFresh(desk', decisions)
    BY <1>0, <2>1, <2>3, <2>4, <2>5 DEF DeskIsFresh, Desks
  <2> QED BY <1>1, <2>3, <2>6
<1>19. ASSUME NEW p \in Proposals, NEW to \in Decision, DecideElsewhere(p, to) PROVE ReviewInv'
  <2>1. /\ proposals' = Decided({p}, to) /\ decisions' = decisions + 1 /\ decisions < MaxDecisions
        /\ desk' = desk
    BY <1>19 DEF DecideElsewhere
  <2>2. to \in Open \cup Closed
    BY DEF Decision
  <2>3. proposals' \in [Proposals -> Open \cup Closed]
    BY <1>3, <2>1, <2>2
  <2>4. decisions' \in 0..MaxDecisions /\ decisions' >= decisions
    BY <1>0, <2>1
  <2>5. DeskIsFresh(desk', decisions')
    BY <1>0, <2>1, <2>4 DEF DeskIsFresh
  <2> QED BY <2>3, <2>4, <2>5 DEF ReviewInv
<1>20. CASE UNCHANGED reviewVars
  BY <1>0, <1>20 DEF reviewVars, ReviewInv
<1> QED
  BY <1>4, <1>5, <1>7, <1>8, <1>9, <1>11, <1>12, <1>13, <1>14, <1>15, <1>16, <1>17, <1>18, <1>19,
     <1>20 DEF ReviewNext

-----------------------------------------------------------------------------
(* The memories pages: the same, of the page shown.                        *)

ShelfWrites == [what : Calls, at : {"idle", "sent", "answered"}, body : Kept \cup {NoText},
            after : 0..MaxChanges, heard : BOOLEAN]

Shelves ==
    [view : {"list", "detail"}, filter : Kept, list : Entries(Snapshots), detail : Entries(Snapshots),
     editJson : Kept \cup {NoText}, hardDeleteOpen : BOOLEAN, write : ShelfWrites,
     own : 0..MaxChanges, caught : BOOLEAN]

ShelfIsFresh(s, now) ==
    /\ s \in Shelves
    /\ s.own <= now /\ s.write.after <= now
    /\ s.write.at = "sent" => s.write.what # "none" /\ (s.write.what = "update" => s.write.body \in Kept)
    /\ s.caught \/ IsFresh(Page(s), s.own)

LibraryInv ==
    /\ memory \in Kept \cup {"gone"}
    /\ changes \in 0..MaxChanges
    /\ ShelfIsFresh(shelf, changes)

LEMMA NoWriteIsWrite ==
    NoWrite \in ShelfWrites /\ NoWrite.after = 0 /\ NoWrite.at = "idle" /\ NoWrite.body = NoText
BY DEF NoWrite, ShelfWrites, Calls

LEMMA InitLibraryInv == LibraryInit => LibraryInv
<1> SUFFICES ASSUME LibraryInit PROVE LibraryInv
  OBVIOUS
<1>1. /\ Unasked \in Entries(Snapshots) /\ Sent(Unasked) \in Entries(Snapshots)
      /\ IsFresh(Sent(Unasked), 0)
  BY DEF Unasked, Sent, Entries, IsFresh
<1>2. shelf \in Shelves
  BY <1>1, NoWriteIsWrite DEF LibraryInit, Shelves, Kept
<1>3. /\ shelf.own = 0 /\ shelf.write = NoWrite /\ Page(shelf) = Sent(Unasked)
      /\ memory \in Kept /\ changes = 0
  BY DEF LibraryInit, Page
<1> QED BY <1>1, <1>2, <1>3, NoWriteIsWrite DEF LibraryInv, ShelfIsFresh

\* What a read finds, and what a write makes of the memory.
LEMMA ReadsAndWrites ==
    ASSUME LibraryInv
    PROVE  /\ Row \in Snapshots /\ Row.after = changes
           /\ Record \in Snapshots /\ Record.after = changes
           /\ \A w \in ShelfWrites :
                 w.what # "none" /\ (w.what = "update" => w.body \in Kept)
                 => Changed(w) \in Kept \cup {"gone"}
<1>1. Row \in Snapshots /\ Row.after = changes
  BY DEF LibraryInv, Row, Snapshots
<1>2. Record \in Snapshots /\ Record.after = changes
  BY DEF LibraryInv, Record, Snapshots
<1>3. ASSUME NEW w \in ShelfWrites, w.what # "none", w.what = "update" => w.body \in Kept
      PROVE  Changed(w) \in Kept \cup {"gone"}
  BY <1>3 DEF LibraryInv, Changed, Kept, ShelfWrites, Calls
<1> QED BY <1>1, <1>2, <1>3

LEMMA StepKeepsLibraryInv == LibraryInv /\ [LibraryNext]_libraryVars => LibraryInv'
<1> SUFFICES ASSUME LibraryInv, [LibraryNext]_libraryVars PROVE LibraryInv'
  OBVIOUS
<1>0. /\ memory \in Kept \cup {"gone"} /\ changes \in 0..MaxChanges /\ ShelfIsFresh(shelf, changes)
      /\ shelf \in Shelves /\ shelf.list \in Entries(Snapshots) /\ shelf.detail \in Entries(Snapshots)
      /\ shelf.own \in 0..MaxChanges /\ shelf.own <= changes
      /\ shelf.write \in ShelfWrites /\ shelf.write.after \in 0..MaxChanges /\ shelf.write.after <= changes
      /\ shelf.editJson \in Kept \cup {NoText} /\ shelf.view \in {"list", "detail"}
      /\ shelf.caught \in BOOLEAN
  BY DEF LibraryInv, ShelfIsFresh, Shelves, ShelfWrites
<1>1. ASSUME UNCHANGED <<memory, changes>>, ShelfIsFresh(shelf', changes) PROVE LibraryInv'
  BY <1>0, <1>1 DEF LibraryInv
\* The write goes on, and the page stays.
<1>2. ASSUME memory' \in Kept \cup {"gone"}, changes' \in 0..MaxChanges, changes' >= changes,
             NEW w \in ShelfWrites, w.after <= changes',
             w.at = "sent" => w.what # "none" /\ (w.what = "update" => w.body \in Kept),
             shelf' = [shelf EXCEPT !.write = w]
      PROVE  LibraryInv'
  <2>1. shelf' \in Shelves /\ shelf'.write = w /\ shelf'.own = shelf.own /\ shelf'.caught = shelf.caught
        /\ Page(shelf') = Page(shelf)
    BY <1>0, <1>2 DEF Shelves, Page
  <2>2. ShelfIsFresh(shelf', changes')
    BY <1>0, <1>2, <2>1 DEF ShelfIsFresh
  <2> QED BY <1>2, <2>2 DEF LibraryInv
<1>3. ASSUME NEW what \in Calls, what # "none", NEW body \in Kept \cup {NoText},
             what = "update" => body \in Kept, SendsWrite(what, body)
      PROVE  LibraryInv'
  <2> DEFINE w == [what |-> what, at |-> "sent", body |-> body, after |-> 0, heard |-> TRUE]
  <2>1. w \in ShelfWrites /\ w.after <= changes /\ w.what = what /\ w.body = body
    BY <1>0 DEF ShelfWrites
  <2>2. shelf' = [shelf EXCEPT !.write = w] /\ UNCHANGED <<memory, changes>>
    BY <1>3 DEF SendsWrite
  <2> HIDE DEF w
  <2> QED BY <1>0, <1>2, <1>3, <2>1, <2>2
<1>4. CASE Archive \/ Undo \/ SoftDelete \/ HandleHardDelete
  BY <1>3, <1>4 DEF Archive, Undo, SoftDelete, HandleHardDelete, Calls
<1>5. CASE HandleSaveEdit
  <2>1. shelf.editJson \in Kept
    BY <1>0, <1>5 DEF HandleSaveEdit
  <2> QED BY <1>3, <1>5, <2>1 DEF HandleSaveEdit, Calls
<1>6. ASSUME NEW view \in {"list", "detail"}, Opens(view) PROVE LibraryInv'
  <2> DEFINE late == IF view = "list" THEN Late(shelf.list) ELSE Late(shelf.detail)
             w == [shelf.write EXCEPT !.heard = FALSE]
             open == [shelf EXCEPT !.view = view, !.editJson = NoText, !.hardDeleteOpen = FALSE,
                                   !.caught = @ \/ late, !.write.heard = FALSE]
  <2>1. w \in ShelfWrites /\ w.at = shelf.write.at /\ w.what = shelf.write.what
        /\ w.body = shelf.write.body /\ w.after = shelf.write.after
    BY <1>0 DEF ShelfWrites
  <2>2. late \in BOOLEAN
    BY DEF Late
  <2>3. open \in Shelves /\ open.view = view /\ open.write = w /\ open.own = shelf.own
        /\ open.caught = (shelf.caught \/ late) /\ open.list = shelf.list /\ open.detail = shelf.detail
    <3> HIDE DEF late
    <3> QED BY <1>0, <2>1, <2>2 DEF Shelves, ShelfWrites
  <2>4. /\ shelf' = IF view = "list" THEN [open EXCEPT !.list = Joined(open.list)]
                                     ELSE [open EXCEPT !.detail = Joined(open.detail)]
        /\ UNCHANGED <<memory, changes>>
    BY <1>6 DEF Opens
  <2> HIDE DEF open, w
  <2>5. /\ Joined(shelf.list) \in Entries(Snapshots) /\ Joined(shelf.detail) \in Entries(Snapshots)
        /\ ~Late(shelf.list) => IsFresh(Joined(shelf.list), shelf.own)
        /\ ~Late(shelf.detail) => IsFresh(Joined(shelf.detail), shelf.own)
    BY <1>0, EntrySteps, FreshSteps
  <2>6. shelf' \in Shelves /\ shelf'.write = w /\ shelf'.own = shelf.own
        /\ shelf'.caught = (shelf.caught \/ late)
        /\ Page(shelf') = IF view = "list" THEN Joined(shelf.list) ELSE Joined(shelf.detail)
    BY <2>3, <2>4, <2>5 DEF Shelves, Page
  <2>7. ShelfIsFresh(shelf', changes)
    BY <1>0, <2>1, <2>5, <2>6 DEF ShelfIsFresh
  <2> QED BY <1>1, <2>4, <2>7
<1>7. ASSUME NEW f \in Kept, SetFilter(f) PROVE LibraryInv'
  <2>1. Sent(Unasked) \in Entries(Snapshots) /\ IsFresh(Sent(Unasked), shelf.own)
    BY <1>0, EntrySteps, FreshSteps
  <2>2. shelf' = [shelf EXCEPT !.filter = f, !.list = Sent(Unasked)] /\ shelf.view = "list"
        /\ UNCHANGED <<memory, changes>>
    BY <1>7 DEF SetFilter
  <2>3. ShelfIsFresh(shelf', changes)
    BY <1>0, <2>1, <2>2 DEF ShelfIsFresh, Shelves, Page
  <2> QED BY <1>1, <2>2, <2>3
<1>8. CASE OpenHardDelete
  <2>1. ShelfIsFresh(shelf', changes)
    BY <1>0, <1>8 DEF OpenHardDelete, ShelfIsFresh, Shelves, Page
  <2> QED BY <1>1, <1>8, <2>1 DEF OpenHardDelete
<1>9. CASE HandleEdit
  <2>1. ShelfIsFresh(shelf', changes)
    BY <1>0, <1>9 DEF HandleEdit, ShelfIsFresh, Shelves, Page
  <2> QED BY <1>1, <1>9, <2>1 DEF HandleEdit
<1>10. CASE ServeWrite
  <2>1. CASE Refuses(shelf.write)
    <3>1. Changed(shelf.write) = memory
      BY <1>0, <1>10, <2>1 DEF ServeWrite, Refuses, Changed, ShelfIsFresh, ShelfWrites, Calls
    <3> QED BY <1>0, <1>2, <1>10, <2>1, <3>1, NoWriteIsWrite DEF ServeWrite
  <2>2. CASE ~Refuses(shelf.write)
    <3> DEFINE w == [shelf.write EXCEPT !.at = "answered", !.after = changes', !.body = NoText]
    <3>1. /\ changes' = changes + 1 /\ changes < MaxChanges /\ shelf' = [shelf EXCEPT !.write = w]
          /\ memory' = Changed(shelf.write) /\ shelf.write.at = "sent"
      BY <1>10, <2>2 DEF ServeWrite
    <3>2. changes' \in 0..MaxChanges /\ changes' >= changes /\ changes' <= changes'
      BY <1>0, <3>1
    <3>3. w \in ShelfWrites /\ w.after = changes' /\ w.at = "answered"
      BY <1>0, <3>2 DEF ShelfWrites
    <3>4. memory' \in Kept \cup {"gone"}
      BY <1>0, <3>1, ReadsAndWrites DEF ShelfIsFresh
    <3> HIDE DEF w
    <3> QED BY <1>2, <3>1, <3>2, <3>3, <3>4
  <2> QED BY <2>1, <2>2
<1>11. CASE LoseWrite
  BY <1>0, <1>2, <1>11, NoWriteIsWrite DEF LoseWrite
<1>12. CASE WriteAnswered
  <2> DEFINE own == shelf.write.after
             list == IF shelf.view = "list" THEN Invalidated(shelf.list) ELSE shelf.list
             detail == IF shelf.view = "detail" THEN Invalidated(shelf.detail) ELSE shelf.detail
             caught == shelf.caught \/ (Page(shelf).data = Nothing /\ Late(Page(shelf)))
             done == [InvalidatesMemories(shelf) EXCEPT !.write = NoWrite, !.own = own]
  <2>1. InvalidatesMemories(shelf) = [shelf EXCEPT !.list = list, !.detail = detail, !.caught = caught]
    BY DEF InvalidatesMemories
  <2>2. /\ Invalidated(shelf.list) \in Entries(Snapshots)
        /\ Invalidated(shelf.detail) \in Entries(Snapshots)
        /\ shelf.list.data # Nothing \/ ~Late(shelf.list) => IsFresh(Invalidated(shelf.list), own)
        /\ shelf.detail.data # Nothing \/ ~Late(shelf.detail) => IsFresh(Invalidated(shelf.detail), own)
    BY <1>0, EntrySteps, FreshSteps
  <2>3. list \in Entries(Snapshots) /\ detail \in Entries(Snapshots) /\ caught \in BOOLEAN
    BY <1>0, <2>2
  <2>4. caught \/ IsFresh(IF shelf.view = "list" THEN list ELSE detail, own)
    BY <1>0, <2>2 DEF Page
  <2> HIDE DEF own, list, detail, caught
  <2>5. own \in 0..MaxChanges /\ own <= changes
    BY <1>0 DEF own
  <2>6. /\ InvalidatesMemories(shelf) \in Shelves
        /\ InvalidatesMemories(shelf).view = shelf.view
        /\ InvalidatesMemories(shelf).list = list /\ InvalidatesMemories(shelf).detail = detail
        /\ InvalidatesMemories(shelf).caught = caught
    BY <1>0, <2>1, <2>3 DEF Shelves
  <2>7. /\ done \in Shelves /\ done.view = shelf.view /\ done.list = list /\ done.detail = detail
        /\ done.caught = caught /\ done.own = own /\ done.write = NoWrite
    BY <2>5, <2>6, NoWriteIsWrite DEF Shelves
  <2>8. UNCHANGED <<memory, changes>>
    BY <1>12 DEF WriteAnswered
  <2>9. \/ shelf' = done
        \/ shelf' = [done EXCEPT !.editJson = NoText]
        \/ shelf' = [done EXCEPT !.view = "list", !.editJson = NoText, !.hardDeleteOpen = FALSE,
                        !.list = Joined(@), !.caught = @ \/ Late(shelf.list)]
    BY <1>12 DEF WriteAnswered, own
  <2> HIDE DEF done
  <2>10. CASE shelf' = done
    <3>1. Page(done) = IF shelf.view = "list" THEN list ELSE detail
      BY <2>7 DEF Page
    <3> QED BY <1>1, <1>0, <2>4, <2>5, <2>7, <2>8, <2>10, <3>1, NoWriteIsWrite DEF ShelfIsFresh
  <2>11. CASE shelf' = [done EXCEPT !.editJson = NoText]
    <3>1. /\ shelf' \in Shelves /\ shelf'.own = own /\ shelf'.write = NoWrite /\ shelf'.caught = caught
          /\ Page(shelf') = IF shelf.view = "list" THEN list ELSE detail
      BY <2>7, <2>11 DEF Shelves, Page
    <3> QED BY <1>1, <1>0, <2>4, <2>5, <2>8, <3>1, NoWriteIsWrite DEF ShelfIsFresh
  <2>12. CASE shelf' = [done EXCEPT !.view = "list", !.editJson = NoText, !.hardDeleteOpen = FALSE,
                          !.list = Joined(@), !.caught = @ \/ Late(shelf.list)]
    <3>1. Joined(list) \in Entries(Snapshots)
          /\ (IsFresh(list, own) => IsFresh(Joined(list), own))
          /\ (~Late(list) => IsFresh(Joined(list), own))
      BY <2>3, EntrySteps, FreshSteps
    <3>2. /\ shelf' \in Shelves /\ shelf'.own = own /\ shelf'.write = NoWrite
          /\ shelf'.caught = (caught \/ Late(shelf.list)) /\ Page(shelf') = Joined(list)
      BY <2>3, <2>7, <2>12, <3>1 DEF Shelves, Page, Late
    <3>3. shelf.view # "list" => list = shelf.list
      BY DEF list
    <3>4. shelf'.caught \/ IsFresh(Page(shelf'), own)
      BY <2>4, <3>1, <3>2, <3>3
    <3> QED BY <1>1, <1>0, <2>5, <2>8, <3>2, <3>4, NoWriteIsWrite DEF ShelfIsFresh
  <2> QED BY <2>9, <2>10, <2>11, <2>12
<1>13. ASSUME NEW e \in Entries(Snapshots), UNCHANGED <<memory, changes>>,
              \/ /\ shelf' = [shelf EXCEPT !.list = e]
                 /\ IsFresh(shelf.list, shelf.own) => IsFresh(e, shelf.own)
              \/ /\ shelf' = [shelf EXCEPT !.detail = e]
                 /\ IsFresh(shelf.detail, shelf.own) => IsFresh(e, shelf.own)
       PROVE  LibraryInv'
  <2>1. /\ shelf' \in Shelves /\ shelf'.own = shelf.own /\ shelf'.write = shelf.write
        /\ shelf'.caught = shelf.caught
        /\ IsFresh(Page(shelf), shelf.own) => IsFresh(Page(shelf'), shelf.own)
    BY <1>0, <1>13 DEF Shelves, Page
  <2>2. ShelfIsFresh(shelf', changes)
    BY <1>0, <2>1 DEF ShelfIsFresh
  <2> QED BY <1>1, <1>13, <2>2
<1>14. CASE AnswerRead
  <2>1. /\ Answered(shelf.list, Row) \in Entries(Snapshots)
        /\ IsFresh(Answered(shelf.list, Row), shelf.own)
        /\ Answered(shelf.detail, Record) \in Entries(Snapshots)
        /\ IsFresh(Answered(shelf.detail, Record), shelf.own)
    <3>1. /\ Row \in Snapshots /\ Record \in Snapshots
          /\ Row.after >= shelf.own /\ Record.after >= shelf.own
      BY <1>0, ReadsAndWrites
    <3> QED BY <1>0, <3>1, AnswerSteps, AnsweredIsFresh
  <2>2. /\ UNCHANGED <<memory, changes>>
        /\ \/ shelf' = [shelf EXCEPT !.list = Answered(shelf.list, Row)]
           \/ shelf' = [shelf EXCEPT !.detail = Answered(shelf.detail, Record)]
    BY <1>14 DEF AnswerRead
  <2> QED BY <1>13, <2>1, <2>2
<1>15. CASE TakeRead
  <2>1. /\ Taken(shelf.list) \in Entries(Snapshots)
        /\ IsFresh(shelf.list, shelf.own) /\ Late(shelf.list) => IsFresh(Taken(shelf.list), shelf.own)
        /\ Taken(shelf.detail) \in Entries(Snapshots)
        /\ IsFresh(shelf.detail, shelf.own) /\ Late(shelf.detail)
           => IsFresh(Taken(shelf.detail), shelf.own)
    BY <1>0, EntrySteps, FreshSteps
  <2>2. /\ UNCHANGED <<memory, changes>>
        /\ \/ Late(shelf.list) /\ shelf' = [shelf EXCEPT !.list = Taken(shelf.list)]
           \/ Late(shelf.detail) /\ shelf' = [shelf EXCEPT !.detail = Taken(shelf.detail)]
    BY <1>15 DEF TakeRead
  <2> QED BY <1>13, <2>1, <2>2
<1>16. CASE ChangeElsewhere
  <2>1. PICK what \in Calls \ {"none"} : memory' = Changed([NoWrite EXCEPT !.what = what, !.body = memory])
                                        /\ ~Refuses([NoWrite EXCEPT !.what = what, !.body = memory])
    BY <1>16 DEF ChangeElsewhere
  <2> DEFINE w == [NoWrite EXCEPT !.what = what, !.body = memory]
  <2>2. memory # "gone"
    BY <2>1 DEF Refuses
  <2>3. w \in ShelfWrites /\ w.what = what /\ w.body \in Kept
    BY <1>0, <2>2, NoWriteIsWrite DEF ShelfWrites
  <2>4. memory' \in Kept \cup {"gone"}
    <3> HIDE DEF w
    <3> QED BY <2>1, <2>3, ReadsAndWrites DEF w
  <2>5. changes' \in 0..MaxChanges /\ changes' >= changes /\ shelf' = shelf
    BY <1>0, <1>16 DEF ChangeElsewhere
  <2>6. ShelfIsFresh(shelf', changes')
    BY <1>0, <2>5 DEF ShelfIsFresh
  <2> QED BY <2>4, <2>5, <2>6 DEF LibraryInv
<1>17. CASE UNCHANGED libraryVars
  BY <1>0, <1>17 DEF libraryVars, LibraryInv
<1> QED
  BY <1>4, <1>5, <1>6, <1>7, <1>8, <1>9, <1>10, <1>11, <1>12, <1>14, <1>15, <1>16, <1>17 DEF LibraryNext

-----------------------------------------------------------------------------
(* The job panels. What a panel still has to learn of a job is on its way. *)

USE PanelsAssumption, NothingIsNoData

JobStates == {"running"} \cup Ended
JobIds == Jobs \cup {NoJob}
Keys == [job : JobIds, state : {"none"} \cup JobStates]

Mounts == [active : JobIds, start : {"idle", "sent", "answered"}, answer : JobIds, mine : BOOLEAN,
           status : Entries(Report), jobq : [Jobs -> Entries(JobStates)], observed : JobIds,
           seen : Keys, joined : BOOLEAN, missed : BOOLEAN]

PanelsType ==
    /\ kind \in Kinds /\ tab \in Mounts
    /\ jobs \in [Jobs -> {"none", "gone"} \cup JobStates]
    /\ listed \in JobIds /\ counted \in SUBSET Jobs
    /\ starts \in 0..MaxStarts /\ faults \in 0..MaxFaults

\* Every job takes a start request; so there is a number for the next one.
Known(js) == {j \in Jobs : js[j] # "none"}
StartsAreCounted == Cardinality(Known(jobs)) + (IF tab.start = "sent" THEN 1 ELSE 0) <= starts

\* The manager's list and the vectors agree with the jobs.
ManagerIsSound(l, js, cs) ==
    /\ l # NoJob => js[l] \in JobStates
    /\ \A j \in Jobs : js[j] \in Ended => j \in cs

\* A status names a job there is, and counts what it calls ended.
IsSound(r, js, cs) == r # Nothing =>
    /\ r.state = "none" \/ r.job # NoJob
    /\ r.job # NoJob => js[r.job] # "none"
    /\ r.state \in Ended => r.job \in r.counted
    /\ r.counted \subseteq cs

\* What the tab has heard was so when the gateway said it.
TabIsSound(x, js, cs) ==
    /\ x.active # NoJob => js[x.active] # "none"
    /\ x.answer # NoJob => js[x.answer] # "none"
    /\ IsSound(x.status.data, js, cs) /\ IsSound(x.status.got, js, cs)
    /\ x.status.fetch = "answered" => x.status.got # Nothing
    /\ \A j \in Jobs :
        /\ js[j] = "none" => x.jobq[j] = Unasked
        /\ x.jobq[j].fetch # "answered"
        /\ x.jobq[j].data \in Ended => js[j] \in Ended \cup {"gone"} /\ j \in cs

\* The status shown counts the vectors of j, or one that does is on its way.
Covers(x, j) ==
    \/ x.joined \/ x.missed \/ x.status.fetch = "sent"
    \/ x.status.fetch = "answered" /\ j \in x.status.got.counted
    \/ x.status.fetch = "idle" /\ (j \in StatusOf(x).counted \/ StatusPolled(x))

\* It no longer says that j runs, or one that does not is on its way.
SaysRuns(r, j) == r.state = "running" /\ r.job = j

Tells(x, j) ==
    \/ x.missed \/ x.status.fetch = "sent"
    \/ x.status.fetch = "answered" /\ ~SaysRuns(x.status.got, j)
    \/ x.status.fetch = "idle" /\ ~SaysRuns(StatusOf(x), j)

Forgot(js) == \E j \in Jobs : js[j] = "gone"

\* The job observed has been asked for.
IsAsked(x, js) ==
    x.observed # NoJob =>
        \/ x.jobq[x.observed].data # Nothing \/ x.jobq[x.observed].fetch = "sent"
        \/ x.missed \/ Forgot(js)

\* Nobody has asked for a backfill just started, and the conversations panel starts
\* nothing before it has a status.
StartsAreNew(x) ==
    /\ kind = "backfill" /\ x.answer # NoJob => x.jobq[x.answer] = Unasked /\ x.active # x.answer
    /\ kind = "conversation" /\ x.status.data = Nothing => x.active = NoJob /\ x.start = "idle"

\* The conversations panel reacts to the end of a job once, and has then seen it.
SeenIsTold(x, js, cs) ==
    kind = "conversation" /\ x.seen # NoKey =>
        /\ x.seen.state = "done" /\ x.seen.job \in cs
        /\ js[x.seen.job] \in Ended \cup {"gone"}
        /\ Covers(x, x.seen.job)
        /\ Forgot(js) \/ Tells(x, x.seen.job)

EndIsTold(x, js) ==
    /\ ShownJob(x).state \in EndsSeen => Covers(x, ShownJob(x).job)
    /\ kind = "conversation" /\ ShownJob(x).state \in Ended => Forgot(js) \/ Tells(x, ShownJob(x).job)

View(x, js, cs) ==
    /\ x.observed = EffectiveId(x)
    /\ IsAsked(x, js) /\ StartsAreNew(x)
    /\ kind # "conversation" => x.seen = EffectKey(x)
    /\ SeenIsTold(x, js, cs) /\ EndIsTold(x, js)

PanelsInv ==
    /\ PanelsType /\ StartsAreCounted
    /\ ManagerIsSound(listed, jobs, counted)
    /\ TabIsSound(tab, jobs, counted)
    /\ View(tab, jobs, counted)

LEMMA NoJobIsNone == NoJob \notin Jobs /\ "none" \notin Ended /\ "gone" \notin Ended
BY DEF NoJob, Jobs, Ended

\* What the panel shows is of the right kind.
LEMMA ShownFields ==
    ASSUME NEW x \in Mounts
    PROVE  /\ StatusOf(x) \in Report /\ EffectiveId(x) \in JobIds
           /\ ShownJob(x) \in Keys /\ EffectKey(x) \in Keys
<1>1. /\ x.status.data \in Report \cup {Nothing} /\ x.active \in JobIds
      /\ \A j \in Jobs : x.jobq[j].data \in JobStates \cup {Nothing}
  BY DEF Mounts, Entries
<1>2. NoReport \in Report /\ NoKey \in Keys
  BY DEF Report, NoReport, NoKey, Keys, JobIds
<1>3. StatusOf(x) \in Report /\ StatusOf(x).job \in JobIds /\ StatusOf(x).state \in {"none"} \cup JobStates
  BY <1>1, <1>2 DEF StatusOf, Report, JobIds, JobStates
<1>4. EffectiveId(x) \in JobIds
  BY <1>1, <1>3 DEF EffectiveId, JobIds
<1>5. ShownJob(x) \in Keys
  BY <1>1, <1>2, <1>3, <1>4 DEF ShownJob, JobIds, Keys
<1>6. EffectKey(x) \in Keys
  BY <1>5 DEF EffectKey, Keys, JobIds, JobStates, Ended
<1> QED BY <1>3, <1>4, <1>5, <1>6

\* It depends on the mount's job and the data of the two queries only.
LEMMA SameData ==
    ASSUME NEW x \in Mounts, NEW y \in Mounts, y.active = x.active,
           y.status.data = x.status.data,
           \A j \in Jobs : y.jobq[j].data = x.jobq[j].data
    PROVE  /\ StatusOf(y) = StatusOf(x) /\ EffectiveId(y) = EffectiveId(x)
           /\ ShownJob(y) = ShownJob(x) /\ EffectKey(y) = EffectKey(x)
           /\ StatusPolled(y) = StatusPolled(x)
<1>1. StatusOf(y) = StatusOf(x)
  BY DEF StatusOf
<1>2. EffectiveId(y) = EffectiveId(x) /\ EffectiveId(x) \in JobIds
  BY <1>1, ShownFields DEF EffectiveId
<1>3. ShownJob(y) = ShownJob(x)
  BY <1>1, <1>2 DEF ShownJob, JobIds
<1> QED BY <1>1, <1>2, <1>3 DEF EffectKey, StatusPolled

\* A job shown as ended has ended, and its vectors are in the index.
LEMMA ShownHasEnded ==
    ASSUME NEW x \in Mounts, NEW js, NEW cs, TabIsSound(x, js, cs), ShownJob(x).state \in Ended
    PROVE  /\ ShownJob(x).job \in cs
           /\ kind = "conversation" => js[ShownJob(x).job] \in Ended \cup {"gone"}
<1>1. EffectiveId(x) \in JobIds
  BY ShownFields
<1>2. CASE EffectiveId(x) # NoJob /\ x.jobq[EffectiveId(x)].data # Nothing
  <2>1. ShownJob(x) = [job |-> EffectiveId(x), state |-> x.jobq[EffectiveId(x)].data]
    BY <1>2 DEF ShownJob
  <2> QED BY <1>1, <1>2, <2>1 DEF TabIsSound, JobIds
<1>3. CASE ~(EffectiveId(x) # NoJob /\ x.jobq[EffectiveId(x)].data # Nothing)
  <2>1. HasStatusJob /\ ShownJob(x) = [job |-> StatusOf(x).job, state |-> StatusOf(x).state]
    BY <1>3 DEF ShownJob, NoKey, Ended
  <2>2. StatusOf(x) = x.status.data /\ x.status.data # Nothing
    BY <2>1 DEF StatusOf, NoReport, Ended
  <2> QED BY <2>1, <2>2 DEF TabIsSound, IsSound, HasStatusJob
<1> QED BY <1>2, <1>3

LEMMA CoversIsTyped ==
    ASSUME NEW x \in Mounts, NEW j
    PROVE  Covers(x, j) \in BOOLEAN /\ Tells(x, j) \in BOOLEAN /\ x.status \in Entries(Report)
BY DEF Mounts, Covers, Tells

\* Asking again, or for the first time, keeps what is on its way.
LEMMA AskingKeepsPromises ==
    ASSUME NEW x \in Mounts, NEW y \in Mounts, NEW j,
           x.joined => y.joined, x.missed => y.missed,
           \/ y.status = x.status \/ y.status = Joined(x.status)
           \/ y.status = Invalidated(x.status)
    PROVE  /\ Covers(x, j) => Covers(y, j)
           /\ Tells(x, j) => Tells(y, j)
<1>1. x.status \in Entries(Report) /\ x.status.fetch \in {"idle", "sent", "answered"}
  BY DEF Mounts, Entries
<1>2. y.status = x.status \/ y.status.fetch = "sent"
  BY <1>1, EntrySteps DEF Late
<1>3. CASE y.status = x.status
  <2>1. StatusOf(y) = StatusOf(x) /\ (StatusPolled(y) <=> StatusPolled(x))
    BY <1>3 DEF StatusOf, StatusPolled
  <2> QED BY <1>3, <2>1 DEF Covers, Tells
<1>4. CASE y.status.fetch = "sent"
  BY <1>4 DEF Covers, Tells
<1> QED BY <1>2, <1>3, <1>4

\* A step that changes nothing the panel shows.
LEMMA QuietStep ==
    ASSUME NEW x \in Mounts, NEW y \in Mounts, NEW js, NEW cs, NEW js2, NEW cs2,
           TabIsSound(x, js, cs), View(x, js, cs),
           y.active = x.active, y.observed = x.observed, y.seen = x.seen,
           y.status.data = x.status.data, \A j \in Jobs : y.jobq[j].data = x.jobq[j].data,
           cs \subseteq cs2, Forgot(js) => Forgot(js2),
           \A j \in Jobs : js[j] \in Ended \cup {"gone"} => js2[j] \in Ended \cup {"gone"},
           \A j \in cs : Covers(x, j) => Covers(y, j),
           \A j \in cs : js[j] \in Ended \cup {"gone"} /\ Tells(x, j) => Tells(y, j) \/ Forgot(js2),
           cs \subseteq Jobs, IsAsked(y, js2), StartsAreNew(y)
    PROVE  View(y, js2, cs2)
<1>1. /\ EffectiveId(y) = EffectiveId(x)
      /\ ShownJob(y) = ShownJob(x) /\ EffectKey(y) = EffectKey(x)
  BY SameData
<1>2. SeenIsTold(y, js2, cs2)
  BY DEF View, SeenIsTold
<1>3. EndIsTold(y, js2)
  <2>1. ShownJob(x).state \in EndsSeen => ShownJob(x).state \in Ended
    BY DEF EndsSeen, Ended
  <2>2. ShownJob(x).state \in EndsSeen => Covers(y, ShownJob(x).job)
    BY <2>1, ShownHasEnded DEF View, EndIsTold
  <2>3. kind = "conversation" /\ ShownJob(x).state \in Ended
        => Forgot(js2) \/ Tells(y, ShownJob(x).job)
    BY ShownHasEnded DEF View, EndIsTold
  <2> QED BY <1>1, <2>2, <2>3 DEF EndIsTold
<1> QED BY <1>1, <1>2, <1>3 DEF View

\* What a render does.
Fires(x) == ShownJob(x).state \in EndsSeen /\ EffectKey(x) # x.seen

LEMMA EffectFields ==
    ASSUME NEW x \in Mounts
    PROVE  /\ Effect(x) \in Mounts
           /\ Effect(x).active = x.active /\ Effect(x).start = x.start /\ Effect(x).answer = x.answer
           /\ Effect(x).mine = x.mine /\ Effect(x).jobq = x.jobq
           /\ Effect(x).observed = x.observed /\ Effect(x).missed = x.missed
           /\ Fires(x) => /\ Effect(x).seen = EffectKey(x)
                          /\ Effect(x).status = Invalidated(x.status)
                          /\ Effect(x).joined = (x.joined \/ (x.status.data = Nothing /\ x.status.fetch # "idle"))
           /\ ~Fires(x) => /\ Effect(x).seen = IF kind = "conversation" THEN x.seen ELSE EffectKey(x)
                           /\ Effect(x).status = x.status /\ Effect(x).joined = x.joined
<1>1. x.status \in Entries(Report) /\ Invalidated(x.status) \in Entries(Report) /\ EffectKey(x) \in Keys
      /\ x.joined \in BOOLEAN /\ x.seen \in Keys
  BY EntrySteps, ShownFields DEF Mounts
<1>2. CASE Fires(x)
  <2> DEFINE s == Invalidated(x.status)
             k == EffectKey(x)
             jd == x.joined \/ (x.status.data = Nothing /\ x.status.fetch # "idle")
  <2>1. Effect(x) = [x EXCEPT !.seen = k, !.status = s, !.joined = jd]
    BY <1>2 DEF Effect, Fires
  <2>2. s \in Entries(Report) /\ k \in Keys /\ jd \in BOOLEAN
    BY <1>1
  <2> HIDE DEF s, k, jd
  <2>3. /\ Effect(x) \in Mounts
        /\ Effect(x).active = x.active /\ Effect(x).start = x.start /\ Effect(x).answer = x.answer
        /\ Effect(x).mine = x.mine /\ Effect(x).jobq = x.jobq
        /\ Effect(x).observed = x.observed /\ Effect(x).missed = x.missed
        /\ Effect(x).seen = k /\ Effect(x).status = s /\ Effect(x).joined = jd
    BY <2>1, <2>2 DEF Mounts
  <2> QED BY <1>2, <2>3 DEF s, k, jd
<1>3. CASE ~Fires(x)
  <2> DEFINE k == IF kind = "conversation" THEN x.seen ELSE EffectKey(x)
  <2>1. Effect(x) = [x EXCEPT !.seen = k]
    BY <1>3 DEF Effect, Fires
  <2>2. k \in Keys
    BY <1>1
  <2> HIDE DEF k
  <2>3. /\ Effect(x) \in Mounts
        /\ Effect(x).active = x.active /\ Effect(x).start = x.start /\ Effect(x).answer = x.answer
        /\ Effect(x).mine = x.mine /\ Effect(x).jobq = x.jobq
        /\ Effect(x).observed = x.observed /\ Effect(x).missed = x.missed
        /\ Effect(x).seen = k /\ Effect(x).status = x.status /\ Effect(x).joined = x.joined
    BY <2>1, <2>2 DEF Mounts
  <2> QED BY <1>3, <2>3 DEF k
<1> QED BY <1>2, <1>3

\* The mount once it observes its job, before the effect.
Observing(x) ==
    LET id == EffectiveId(x) IN
    IF id = x.observed \/ id = NoJob THEN [x EXCEPT !.observed = id]
    ELSE [x EXCEPT !.observed = id, !.jobq[id] = Joined(@)]

LEMMA ObservingFields ==
    ASSUME NEW x \in Mounts
    PROVE  /\ Observing(x) \in Mounts
           /\ Observing(x).active = x.active /\ Observing(x).start = x.start
           /\ Observing(x).answer = x.answer /\ Observing(x).mine = x.mine
           /\ Observing(x).status = x.status /\ Observing(x).seen = x.seen
           /\ Observing(x).joined = x.joined /\ Observing(x).missed = x.missed
           /\ Observing(x).observed = EffectiveId(x)
           /\ \A j \in Jobs :
                /\ Observing(x).jobq[j].data = x.jobq[j].data
                /\ Observing(x).jobq[j] = IF j = EffectiveId(x) /\ j # x.observed
                                          THEN Joined(x.jobq[j]) ELSE x.jobq[j]
<1> DEFINE id == EffectiveId(x)
<1>1. id \in JobIds /\ x.jobq \in [Jobs -> Entries(JobStates)]
  BY ShownFields DEF Mounts
<1> HIDE DEF id
<1>2. CASE id = x.observed \/ id = NoJob
  <2>1. Observing(x) = [x EXCEPT !.observed = id]
    BY <1>2 DEF Observing, id
  <2>2. /\ Observing(x) \in Mounts
        /\ Observing(x).active = x.active /\ Observing(x).start = x.start
        /\ Observing(x).answer = x.answer /\ Observing(x).mine = x.mine
        /\ Observing(x).status = x.status /\ Observing(x).seen = x.seen
        /\ Observing(x).joined = x.joined /\ Observing(x).missed = x.missed
        /\ Observing(x).observed = id /\ Observing(x).jobq = x.jobq
    BY <1>1, <2>1 DEF Mounts
  <2> QED BY <1>2, <2>2, NoJobIsNone DEF id
<1>3. CASE ~(id = x.observed \/ id = NoJob)
  <2> DEFINE q == [x.jobq EXCEPT ![id] = Joined(x.jobq[id])]
  <2>1. Observing(x) = [x EXCEPT !.observed = id, !.jobq = q]
    BY <1>3 DEF Observing, id
  <2>2. id \in Jobs /\ Joined(x.jobq[id]) \in Entries(JobStates)
        /\ Joined(x.jobq[id]).data = x.jobq[id].data
    BY <1>1, <1>3, EntrySteps DEF JobIds
  <2>3. /\ q \in [Jobs -> Entries(JobStates)]
        /\ \A j \in Jobs : q[j] = IF j = id THEN Joined(x.jobq[j]) ELSE x.jobq[j]
    BY <1>1, <2>2
  <2> HIDE DEF q
  <2>4. /\ Observing(x) \in Mounts
        /\ Observing(x).active = x.active /\ Observing(x).start = x.start
        /\ Observing(x).answer = x.answer /\ Observing(x).mine = x.mine
        /\ Observing(x).status = x.status /\ Observing(x).seen = x.seen
        /\ Observing(x).joined = x.joined /\ Observing(x).missed = x.missed
        /\ Observing(x).observed = id /\ Observing(x).jobq = q
    BY <1>1, <2>1, <2>3 DEF Mounts
  <2>5. \A j \in Jobs : q[j].data = x.jobq[j].data
    BY <2>2, <2>3
  <2> QED BY <1>3, <2>3, <2>4, <2>5 DEF id
<1> QED BY <1>2, <1>3

\* A render leaves the panel observing its job, and with the end it shows followed
\* by a status that counts it, provided a change it does not react to was.
LEMMA RenderingKeepsView ==
    ASSUME NEW x \in Mounts, NEW js, NEW cs, cs \subseteq Jobs,
           TabIsSound(x, js, cs), StartsAreNew(x), SeenIsTold(x, js, cs),
           x.observed = EffectiveId(x) => IsAsked(x, js),
           kind # "conversation" /\ ShownJob(x).state \in EndsSeen /\ EffectKey(x) = x.seen
             => Covers(x, ShownJob(x).job)
    PROVE  /\ Rendered(x) \in Mounts
           /\ Rendered(x).start = x.start
           /\ TabIsSound(Rendered(x), js, cs)
           /\ View(Rendered(x), js, cs)
<1> DEFINE y == Observing(x)
           w == Effect(y)
<1>1. Rendered(x) = w
  BY DEF Rendered, Observing
<1>2. /\ y \in Mounts /\ y.active = x.active /\ y.start = x.start /\ y.answer = x.answer
      /\ y.status = x.status /\ y.seen = x.seen /\ y.joined = x.joined /\ y.missed = x.missed
      /\ y.observed = EffectiveId(x)
      /\ \A j \in Jobs :
            /\ y.jobq[j].data = x.jobq[j].data
            /\ y.jobq[j] = IF j = EffectiveId(x) /\ j # x.observed
                           THEN Joined(x.jobq[j]) ELSE x.jobq[j]
  BY ObservingFields
<1> HIDE DEF y
<1>3. /\ w \in Mounts /\ w.active = y.active /\ w.start = y.start /\ w.answer = y.answer
      /\ w.jobq = y.jobq /\ w.observed = y.observed /\ w.missed = y.missed
      /\ Fires(y) => /\ w.seen = EffectKey(y)
                     /\ w.status = Invalidated(y.status)
                     /\ w.joined = (y.joined \/ (y.status.data = Nothing /\ y.status.fetch # "idle"))
      /\ ~Fires(y) => /\ w.seen = IF kind = "conversation" THEN y.seen ELSE EffectKey(y)
                      /\ w.status = y.status /\ w.joined = y.joined
  BY <1>2, EffectFields
<1> HIDE DEF w
<1>4. x.status \in Entries(Report) /\ \A j \in Jobs : x.jobq[j] \in Entries(JobStates)
  BY DEF Mounts
<1>5. w.status.data = x.status.data
  BY <1>2, <1>3, <1>4, EntrySteps
<1>6. /\ StatusOf(y) = StatusOf(x) /\ EffectiveId(y) = EffectiveId(x)
      /\ ShownJob(y) = ShownJob(x) /\ EffectKey(y) = EffectKey(x)
  BY <1>2, SameData
<1>7. /\ StatusOf(w) = StatusOf(x) /\ EffectiveId(w) = EffectiveId(x)
      /\ ShownJob(w) = ShownJob(x) /\ EffectKey(w) = EffectKey(x)
      /\ (StatusPolled(w) <=> StatusPolled(x))
  BY <1>2, <1>3, <1>5, SameData
<1>8. EffectiveId(x) \in JobIds /\ ShownJob(x) \in Keys /\ EffectKey(x) \in Keys
  BY ShownFields
<1>9. IsAsked(w, js)
  <2>1. SUFFICES ASSUME w.observed # NoJob
                 PROVE  \/ w.jobq[w.observed].data # Nothing \/ w.jobq[w.observed].fetch = "sent"
                        \/ w.missed \/ Forgot(js)
    BY DEF IsAsked
  <2>2. w.observed = EffectiveId(x) /\ EffectiveId(x) \in Jobs
    BY <1>2, <1>3, <1>8, <2>1 DEF JobIds
  <2>3. CASE x.observed = EffectiveId(x)
    BY <1>2, <1>3, <2>1, <2>2, <2>3 DEF IsAsked
  <2>4. CASE x.observed # EffectiveId(x)
    <3>1. w.jobq[w.observed] = Joined(x.jobq[EffectiveId(x)])
      BY <1>2, <1>3, <2>2, <2>4
    <3>2. x.jobq[EffectiveId(x)].fetch \in {"idle", "sent"}
      BY <1>4, <2>2 DEF TabIsSound, Entries
    <3> QED BY <1>4, <2>2, <3>1, <3>2, EntrySteps
  <2> QED BY <2>3, <2>4
<1>10. StartsAreNew(w)
  <2>1. x.answer \in JobIds
    BY DEF Mounts
  <2>2. kind = "backfill" => EffectiveId(x) = x.active
    BY DEF EffectiveId
  <2>3. kind = "backfill" /\ x.answer # NoJob => x.answer \in Jobs /\ w.jobq[x.answer] = x.jobq[x.answer]
    BY <1>2, <1>3, <2>1, <2>2 DEF StartsAreNew, JobIds
  <2> QED BY <1>2, <1>3, <1>5, <2>3 DEF StartsAreNew
<1>11. TabIsSound(w, js, cs)
  <2>1. /\ IsSound(w.status.data, js, cs) /\ IsSound(w.status.got, js, cs)
        /\ w.status.fetch = "answered" => w.status.got # Nothing
    <3>1. x.status.fetch \in {"idle", "sent", "answered"}
      BY <1>4 DEF Entries
    <3>2. Invalidated(x.status) = Sent(x.status) \/ Invalidated(x.status) = x.status
      BY DEF Invalidated, Joined
    <3>3. Sent(x.status).got = Nothing /\ Sent(x.status).fetch = "sent"
      BY <1>4 DEF Sent, Entries
    <3>4. IsSound(Nothing, js, cs)
      BY DEF IsSound
    <3>5. w.status = x.status \/ (w.status.got = Nothing /\ w.status.fetch = "sent")
      BY <1>2, <1>3, <3>2, <3>3
    <3> QED BY <1>5, <3>4, <3>5 DEF TabIsSound
  <2>2. ASSUME NEW j \in Jobs
        PROVE  /\ js[j] = "none" => w.jobq[j] = Unasked
               /\ w.jobq[j].fetch # "answered"
               /\ w.jobq[j].data \in Ended => js[j] \in Ended \cup {"gone"} /\ j \in cs
    <3>1. x.jobq[j].fetch \in {"idle", "sent"}
      BY <1>4 DEF TabIsSound, Entries
    <3>2. Joined(x.jobq[j]).fetch = "sent"
      BY <1>4, <3>1, EntrySteps
    <3>3. js[EffectiveId(x)] # "none" \/ EffectiveId(x) = NoJob
      BY NoJobIsNone DEF TabIsSound, IsSound, EffectiveId, StatusOf, NoReport
    <3> QED BY <1>2, <1>3, <3>1, <3>2, <3>3, NoJobIsNone DEF TabIsSound
  <2> QED BY <1>2, <1>3, <2>1, <2>2 DEF TabIsSound
<1>12. CASE Fires(y)
  <2>1. ShownJob(x).state \in EndsSeen /\ w.seen = EffectKey(x)
    BY <1>3, <1>6, <1>12 DEF Fires
  <2>2. ShownJob(x).state \in Ended
    BY <2>1 DEF EndsSeen, Ended
  <2>3. \A j : Covers(w, j)
    <3>1. \/ Invalidated(x.status).fetch = "sent"
          \/ x.status.data = Nothing /\ Invalidated(x.status) = x.status /\ Late(x.status)
      BY <1>4, EntrySteps
    <3>2. w.status = Invalidated(x.status)
          /\ w.joined = (x.joined \/ (x.status.data = Nothing /\ x.status.fetch # "idle"))
      BY <1>2, <1>3, <1>12
    <3> QED BY <3>1, <3>2 DEF Covers, Late
  <2>4. ASSUME kind = "conversation" PROVE \A j : Tells(w, j)
    <3>1. x.status.data # Nothing
      <4>1. SUFFICES ASSUME x.status.data = Nothing PROVE FALSE
        OBVIOUS
      <4>2. EffectiveId(x) = NoJob
        BY <2>4, <4>1 DEF StartsAreNew, EffectiveId, StatusOf, NoReport, HasStatusJob
      <4>3. ShownJob(x) = NoKey
        BY <2>4, <4>2 DEF ShownJob, HasStatusJob
      <4> QED BY <2>2, <4>3 DEF NoKey, Ended
    <3>2. w.status.fetch = "sent"
      BY <1>2, <1>3, <1>4, <1>12, <3>1, EntrySteps
    <3> QED BY <3>2 DEF Tells
  <2>5. kind = "conversation" => EffectKey(x) = [job |-> ShownJob(x).job, state |-> "done"]
    BY <1>8 DEF EffectKey, Keys
  <2>6. SeenIsTold(w, js, cs)
    BY <2>1, <2>2, <2>3, <2>4, <2>5, ShownHasEnded DEF SeenIsTold
  <2>7. EndIsTold(w, js)
    BY <2>3, <2>4 DEF EndIsTold
  <2> QED BY <1>1, <1>2, <1>3, <1>7, <1>9, <1>10, <1>11, <2>1, <2>6, <2>7 DEF View
<1>13. CASE ~Fires(y)
  <2>1. w.status = x.status /\ w.joined = x.joined /\ w.missed = x.missed
    BY <1>2, <1>3, <1>13
  <2>2. \A j : (Covers(x, j) => Covers(w, j)) /\ (Tells(x, j) => Tells(w, j))
    BY <1>7, <2>1 DEF Covers, Tells
  <2>3. kind = "conversation" => w.seen = x.seen
    BY <1>2, <1>3, <1>13
  <2>4. kind # "conversation" => w.seen = EffectKey(w)
    BY <1>2, <1>3, <1>6, <1>7, <1>13
  <2>5. SeenIsTold(w, js, cs)
    BY <2>2, <2>3 DEF SeenIsTold
  <2>6. ShownJob(x).state \notin EndsSeen \/ EffectKey(x) = x.seen
    BY <1>2, <1>6, <1>13 DEF Fires
  <2>7. EndIsTold(w, js)
    <3>1. CASE kind # "conversation"
      BY <1>7, <2>2, <2>6, <3>1 DEF EndIsTold
    <3>2. CASE kind = "conversation" /\ ShownJob(x).state \in Ended
      <4>1. EndsSeen = Ended
        BY <3>2 DEF EndsSeen
      <4>2. EffectKey(x) = [job |-> ShownJob(x).job, state |-> "done"]
        BY <1>8, <3>2 DEF EffectKey, Keys
      <4>3. x.seen = EffectKey(x) /\ x.seen.state # "none"
        BY <2>6, <3>2, <4>1, <4>2
      <4>4. x.seen # NoKey /\ x.seen.job = ShownJob(x).job
        BY <4>2, <4>3 DEF NoKey
      <4> QED BY <1>7, <2>2, <3>2, <4>1, <4>4 DEF EndIsTold, SeenIsTold
    <3>3. CASE kind = "conversation" /\ ShownJob(x).state \notin Ended
      BY <1>7, <3>3 DEF EndIsTold, EndsSeen
    <3> QED BY <3>1, <3>2, <3>3
  <2> QED BY <1>1, <1>2, <1>3, <1>7, <1>9, <1>10, <1>11, <2>4, <2>5, <2>7 DEF View
<1> QED BY <1>12, <1>13

\* Jobs only move on, and what is indexed stays.
Forward(js, js2, cs, cs2) ==
    /\ cs \subseteq cs2
    /\ \A j \in Jobs : js[j] # "none" => js2[j] # "none"
    /\ \A j \in Jobs : js[j] \in Ended \cup {"gone"} => js2[j] \in Ended \cup {"gone"}
    /\ Forgot(js) => Forgot(js2)

LEMMA NothingMoves == ASSUME NEW js, NEW cs PROVE Forward(js, js, cs, cs)
BY DEF Forward

LEMMA SoundnessStays ==
    ASSUME NEW x \in Mounts, NEW y \in Mounts, NEW js, NEW cs, NEW js2, NEW cs2,
           Forward(js, js2, cs, cs2), TabIsSound(x, js, cs),
           y.active # NoJob => js2[y.active] # "none",
           y.answer # NoJob => js2[y.answer] # "none",
           \/ y.status = x.status
           \/ y.status.data = x.status.data /\ y.status.got = Nothing /\ y.status.fetch # "answered",
           \A j \in Jobs : \/ y.jobq[j] = x.jobq[j]
                           \/ /\ js[j] # "none" /\ y.jobq[j].data = x.jobq[j].data
                              /\ y.jobq[j].fetch # "answered"
    PROVE  TabIsSound(y, js2, cs2)
<1>1. x.status.data \in Report \cup {Nothing} /\ x.status.got \in Report \cup {Nothing}
  BY DEF Mounts, Entries
<1>2. ASSUME NEW r \in Report \cup {Nothing}, IsSound(r, js, cs) PROVE IsSound(r, js2, cs2)
  BY <1>2 DEF Forward, IsSound, Report
<1>3. IsSound(Nothing, js2, cs2)
  BY DEF IsSound
<1>4. /\ IsSound(y.status.data, js2, cs2) /\ IsSound(y.status.got, js2, cs2)
      /\ y.status.fetch = "answered" => y.status.got # Nothing
  BY <1>1, <1>2, <1>3 DEF TabIsSound
<1>5. ASSUME NEW j \in Jobs
      PROVE  /\ js2[j] = "none" => y.jobq[j] = Unasked
             /\ y.jobq[j].fetch # "answered"
             /\ y.jobq[j].data \in Ended => js2[j] \in Ended \cup {"gone"} /\ j \in cs2
  BY DEF Forward, TabIsSound
<1> QED BY <1>4, <1>5 DEF TabIsSound

LEMMA NewStartsStay ==
    ASSUME NEW x \in Mounts, NEW y \in Mounts, StartsAreNew(x),
           y.active = x.active, y.answer = x.answer \/ y.answer = NoJob,
           y.start = x.start \/ y.start = "idle", y.status.data = x.status.data,
           x.answer # NoJob => \/ y.jobq[x.answer] = x.jobq[x.answer]
                               \/ kind = "backfill" /\ x.jobq[x.answer].fetch = "sent"
                               \/ kind = "backfill" /\ x.answer = x.active
    PROVE  StartsAreNew(y)
BY DEF StartsAreNew, Unasked

\* A step that changes no data and asks, or fails to ask.
LEMMA QuietStepKeepsTab ==
    ASSUME NEW x \in Mounts, NEW y \in Mounts, NEW js, NEW cs, NEW js2, NEW cs2,
           Forward(js, js2, cs, cs2), cs \subseteq Jobs, TabIsSound(x, js, cs), View(x, js, cs),
           y.active = x.active, y.observed = x.observed, y.seen = x.seen,
           y.joined = x.joined, x.missed => y.missed, StartsAreNew(y),
           y.answer # NoJob => js2[y.answer] # "none",
           \/ y.status = x.status \/ y.status = Joined(x.status) \/ y.status = Invalidated(x.status)
           \/ y.status = Failed(x.status) /\ y.missed,
           \A j \in Jobs : \/ y.jobq[j] = x.jobq[j]
                           \/ /\ js[j] # "none" /\ y.jobq[j].data = x.jobq[j].data
                              /\ y.jobq[j].fetch # "answered"
                              /\ \/ y.jobq[j].data # Nothing \/ y.jobq[j].fetch = "sent"
                                 \/ y.missed \/ Forgot(js2)
    PROVE  TabIsSound(y, js2, cs2) /\ View(y, js2, cs2)
<1>1. x.status \in Entries(Report) /\ x.status.fetch \in {"idle", "sent", "answered"}
      /\ x.observed \in JobIds /\ x.active \in JobIds
  BY DEF Mounts, Entries
<1>2. \/ y.status = x.status
      \/ y.status.data = x.status.data /\ y.status.got = Nothing /\ y.status.fetch # "answered"
  <2>1. Joined(x.status) = x.status \/ Joined(x.status) = Sent(x.status)
    BY DEF Joined
  <2>2. Invalidated(x.status) = x.status \/ Invalidated(x.status) = Sent(x.status)
    BY DEF Joined, Invalidated
  <2>3. Sent(x.status).got = Nothing /\ Sent(x.status).fetch = "sent" /\ Sent(x.status).data = x.status.data
    BY <1>1 DEF Sent, Entries
  <2> QED BY <1>1, <2>1, <2>2, <2>3, EntrySteps
<1>3. TabIsSound(y, js2, cs2)
  <2>1. y.active # NoJob => js2[y.active] # "none"
    BY <1>1, NoJobIsNone DEF TabIsSound, Forward, JobIds
  <2> QED BY <1>2, <2>1, SoundnessStays
<1>4. \A j : (Covers(x, j) => Covers(y, j)) /\ (Tells(x, j) => Tells(y, j))
  <2>1. CASE y.status = Failed(x.status) /\ y.missed
    BY <2>1 DEF Covers, Tells
  <2>2. CASE \/ y.status = x.status \/ y.status = Joined(x.status)
             \/ y.status = Invalidated(x.status)
    BY <2>2, AskingKeepsPromises
  <2> QED BY <2>1, <2>2
<1>5. IsAsked(y, js2)
  BY <1>1 DEF IsAsked, View, Forward, JobIds
<1>6. \A j \in Jobs : y.jobq[j].data = x.jobq[j].data
  OBVIOUS
<1>7. y.status.data = x.status.data
  BY <1>2
<1>8. View(y, js2, cs2)
  BY <1>4, <1>5, <1>6, <1>7, QuietStep DEF Forward
<1> QED BY <1>3, <1>8

\* The panel's own render does not react to an end it has reacted to.
LEMMA SameEnd ==
    ASSUME NEW x \in Mounts, NEW y \in Mounts, NEW js, NEW cs, View(x, js, cs),
           kind # "conversation", y.seen = x.seen, kind = "backfill" => y.active = x.active,
           ShownJob(y).state \in EndsSeen, EffectKey(y) = y.seen,
           \A j : Covers(x, j) => Covers(y, j)
    PROVE  Covers(y, ShownJob(y).job)
<1>1. EffectKey(y) = EffectKey(x) /\ ShownJob(x) \in Keys /\ ShownJob(y) \in Keys
  BY ShownFields DEF View
<1>2. CASE kind = "backfill"
  <2>1. ShownJob(x).state = ShownJob(y).state
    BY <1>1, <1>2 DEF EffectKey, Keys
  <2>2. ShownJob(x).job = x.active /\ ShownJob(y).job = y.active
    BY <1>2, <2>1 DEF ShownJob, EffectiveId, NoKey, HasStatusJob, EndsSeen
  <2> QED BY <1>2, <2>1, <2>2 DEF View, EndIsTold
<1>3. CASE kind # "backfill"
  <2>1. ShownJob(x) = ShownJob(y)
    BY <1>1, <1>3 DEF EffectKey
  <2> QED BY <2>1 DEF View, EndIsTold
<1> QED BY <1>2, <1>3

LEMMA InvAssembled ==
    ASSUME kind' = kind, PanelsType', StartsAreCounted', ManagerIsSound(listed', jobs', counted'),
           TabIsSound(tab', jobs', counted'), View(tab', jobs', counted')
    PROVE  PanelsInv'
<1>1. EffectiveId(tab)' = EffectiveId(tab')
  BY DEF EffectiveId, HasStatusJob, StatusOf
<1>2. ShownJob(tab)' = ShownJob(tab')
  BY <1>1 DEF ShownJob, HasStatusJob, StatusOf
<1>3. EffectKey(tab)' = EffectKey(tab')
  BY <1>2 DEF EffectKey
<1>5. EndsSeen' = EndsSeen
  BY DEF EndsSeen
<1>6. StartsAreNew(tab)' <=> StartsAreNew(tab')
  BY DEF StartsAreNew
<1>7. SeenIsTold(tab, jobs, counted)' <=> SeenIsTold(tab', jobs', counted')
  BY DEF SeenIsTold, Covers, StatusPolled, HasStatusJob, StatusOf
<1>8. EndIsTold(tab, jobs)' <=> EndIsTold(tab', jobs')
  BY <1>2, <1>5 DEF EndIsTold, Covers, StatusPolled, HasStatusJob, StatusOf
<1> QED BY <1>1, <1>3, <1>6, <1>7, <1>8 DEF PanelsInv, View

\* There is a number for the next job.
LEMMA RoomForOne ==
    ASSUME NEW js \in [Jobs -> {"none", "gone"} \cup JobStates]
    PROVE  /\ Cardinality(Known(js)) \in Nat
           /\ Cardinality(Known(js)) < MaxStarts => \E k \in Jobs : js[k] = "none"
           /\ \A k \in Jobs : js[k] = "none" =>
                 Cardinality(Known([js EXCEPT ![k] = "running"])) = Cardinality(Known(js)) + 1
<1>1. IsFiniteSet(Jobs) /\ Cardinality(Jobs) = MaxStarts
  <2>1. 1 <= MaxStarts \/ MaxStarts = 0
    OBVIOUS
  <2> QED BY <2>1, FS_Interval DEF Jobs
<1>2. Known(js) \subseteq Jobs /\ IsFiniteSet(Known(js))
  BY <1>1, FS_Subset DEF Known
<1>3. Cardinality(Known(js)) \in Nat
  BY <1>2, FS_CardinalityType
<1>4. ASSUME \A k \in Jobs : js[k] # "none" PROVE Cardinality(Known(js)) = MaxStarts
  <2>1. Known(js) = Jobs
    BY <1>4 DEF Known
  <2> QED BY <1>1, <2>1
<1>5. ASSUME NEW k \in Jobs, js[k] = "none"
      PROVE Cardinality(Known([js EXCEPT ![k] = "running"])) = Cardinality(Known(js)) + 1
  <2>1. Known([js EXCEPT ![k] = "running"]) = Known(js) \cup {k} /\ k \notin Known(js)
    BY <1>5 DEF Known
  <2> QED BY <1>2, <2>1, FS_AddElement
<1> QED BY <1>3, <1>4, <1>5

LEMMA InitPanelsInv == PanelsInit => PanelsInv
<1> SUFFICES ASSUME PanelsInit PROVE PanelsInv
  OBVIOUS
<1> USE DEF PanelsInit
<1>1. /\ Sent(Unasked) \in Entries(Report) /\ Unasked \in Entries(JobStates)
      /\ Sent(Unasked).data = Nothing /\ Sent(Unasked).fetch = "sent" /\ Sent(Unasked).got = Nothing
  BY DEF Sent, Unasked, Entries
<1>2. NoKey \in Keys /\ NoJob \in JobIds
  BY DEF Keys, JobIds, NoKey
<1>3. tab \in Mounts
  BY <1>1, <1>2 DEF Mounts
<1>4. PanelsType
  BY <1>2, <1>3 DEF PanelsType
<1>5. Known(jobs) = {}
  BY DEF Known
<1>6. StartsAreCounted
  <2>1. Cardinality(Known(jobs)) = 0
    BY <1>5, FS_EmptySet
  <2>2. starts = 0 /\ tab.start = "idle"
    OBVIOUS
  <2> QED BY <2>1, <2>2 DEF StartsAreCounted
<1>7. ManagerIsSound(listed, jobs, counted)
  BY NoJobIsNone DEF ManagerIsSound
<1>8. TabIsSound(tab, jobs, counted)
  BY <1>1, NoJobIsNone DEF TabIsSound, IsSound, Unasked, Ended
<1>9. EffectiveId(tab) = NoJob /\ ShownJob(tab) = NoKey
  <2>1. StatusOf(tab) = NoReport /\ tab.active = NoJob
    BY <1>1 DEF StatusOf
  <2>2. NoReport.job = NoJob /\ NoReport.state = "none"
    BY DEF NoReport
  <2>3. EffectiveId(tab) = IF kind = "backfill" THEN NoJob
                           ELSE IF HasStatusJob THEN NoJob ELSE NoJob
    BY <2>1, <2>2 DEF EffectiveId
  <2>4. EffectiveId(tab) = NoJob
    BY <2>3
  <2> QED BY <2>1, <2>2, <2>4 DEF ShownJob, NoKey
<1>10. kind # "conversation" => EffectKey(tab) = NoKey
  <2>1. [NoKey EXCEPT !.job = NoJob] = NoKey
    BY DEF NoKey
  <2> QED BY <1>9, <2>1 DEF EffectKey
<1>11. View(tab, jobs, counted)
  BY <1>9, <1>10 DEF View, IsAsked, StartsAreNew, SeenIsTold, EndIsTold, NoKey, EndsSeen, Ended
<1> QED BY <1>4, <1>6, <1>7, <1>8, <1>11 DEF PanelsInv

\* The steps that keep what the panel shows, and the jobs.
LEMMA QuietStepKeepsInv ==
    ASSUME PanelsInv, UNCHANGED <<kind, jobs, listed, counted>>,
           starts' \in 0..MaxStarts, faults' \in 0..MaxFaults,
           starts' = starts + 1 \/ (starts' = starts /\ (tab'.start = "sent" => tab.start = "sent")),
           tab' \in Mounts, StartsAreNew(tab'),
           tab'.active = tab.active, tab'.observed = tab.observed, tab'.seen = tab.seen,
           tab'.joined = tab.joined, tab.missed => tab'.missed,
           tab'.answer = tab.answer \/ tab'.answer = NoJob,
           \/ tab'.status = tab.status \/ tab'.status = Joined(tab.status)
           \/ tab'.status = Invalidated(tab.status)
           \/ tab'.status = Failed(tab.status) /\ tab'.missed,
           \A j \in Jobs : \/ tab'.jobq[j] = tab.jobq[j]
                           \/ /\ jobs[j] # "none" /\ tab'.jobq[j].data = tab.jobq[j].data
                              /\ tab'.jobq[j].fetch # "answered"
                              /\ \/ tab'.jobq[j].data # Nothing \/ tab'.jobq[j].fetch = "sent"
                                 \/ tab'.missed \/ Forgot(jobs)
    PROVE  PanelsInv'
<1>1. tab \in Mounts /\ counted \subseteq Jobs /\ jobs \in [Jobs -> {"none", "gone"} \cup JobStates]
      /\ starts \in 0..MaxStarts
  BY DEF PanelsInv, PanelsType
<1>2. tab'.answer # NoJob => jobs[tab'.answer] # "none"
  BY DEF PanelsInv, TabIsSound
<1>3. TabIsSound(tab', jobs, counted) /\ View(tab', jobs, counted)
  <2>1. TabIsSound(tab, jobs, counted) /\ View(tab, jobs, counted)
    BY DEF PanelsInv
  <2>2. Forward(jobs, jobs, counted, counted)
    BY NothingMoves
  <2> QED BY <1>1, <1>2, <2>1, <2>2, QuietStepKeepsTab
<1>4. PanelsType'
  BY DEF PanelsInv, PanelsType
<1>5. StartsAreCounted'
  <2>1. Cardinality(Known(jobs)) \in Nat
    BY <1>1, RoomForOne
  <2>2. Cardinality(Known(jobs)) + (IF tab.start = "sent" THEN 1 ELSE 0) <= starts
    BY DEF PanelsInv, StartsAreCounted
  <2>3. Cardinality(Known(jobs)) + (IF tab'.start = "sent" THEN 1 ELSE 0) <= starts'
    BY <1>1, <2>1, <2>2
  <2> QED BY <2>3 DEF StartsAreCounted
<1> QED BY <1>3, <1>4, <1>5, InvAssembled DEF PanelsInv

\* The mount with another status entry, or another entry of a job.
LEMMA WithStatus ==
    ASSUME NEW x \in Mounts, NEW s \in Entries(Report), NEW y, y = [x EXCEPT !.status = s]
    PROVE  /\ y \in Mounts /\ y.status = s
           /\ y.active = x.active /\ y.start = x.start /\ y.answer = x.answer /\ y.mine = x.mine
           /\ y.jobq = x.jobq /\ y.observed = x.observed /\ y.seen = x.seen
           /\ y.joined = x.joined /\ y.missed = x.missed
BY DEF Mounts

LEMMA WithJobq ==
    ASSUME NEW x \in Mounts, NEW q \in [Jobs -> Entries(JobStates)], NEW y, y = [x EXCEPT !.jobq = q]
    PROVE  /\ y \in Mounts /\ y.jobq = q /\ y.status = x.status
           /\ y.active = x.active /\ y.start = x.start /\ y.answer = x.answer /\ y.mine = x.mine
           /\ y.observed = x.observed /\ y.seen = x.seen
           /\ y.joined = x.joined /\ y.missed = x.missed
BY DEF Mounts

LEMMA WithQuery ==
    ASSUME NEW x \in Mounts, NEW k \in Jobs, NEW e \in Entries(JobStates)
    PROVE  /\ [x.jobq EXCEPT ![k] = e] \in [Jobs -> Entries(JobStates)]
           /\ \A j \in Jobs : [x.jobq EXCEPT ![k] = e][j] = IF j = k THEN e ELSE x.jobq[j]
BY DEF Mounts

LEMMA AskingStatusKeepsInv ==
    ASSUME PanelsInv, UNCHANGED <<kind, jobs, listed, counted, starts, faults>>,
           \/ tab' = [tab EXCEPT !.status = Joined(@)]
           \/ tab' = [tab EXCEPT !.status = Invalidated(@)]
    PROVE  PanelsInv'
<1>1. tab \in Mounts /\ starts \in 0..MaxStarts /\ faults \in 0..MaxFaults
      /\ tab.status \in Entries(Report) /\ StartsAreNew(tab)
  BY DEF PanelsInv, PanelsType, Mounts, View
<1>2. PICK s \in Entries(Report) :
          /\ tab' = [tab EXCEPT !.status = s] /\ s.data = tab.status.data
          /\ s = Joined(tab.status) \/ s = Invalidated(tab.status)
  BY <1>1, EntrySteps
<1>3. /\ tab' \in Mounts /\ tab'.status = s
      /\ tab'.active = tab.active /\ tab'.start = tab.start /\ tab'.answer = tab.answer
      /\ tab'.jobq = tab.jobq /\ tab'.observed = tab.observed /\ tab'.seen = tab.seen
      /\ tab'.joined = tab.joined /\ tab'.missed = tab.missed
  BY <1>1, <1>2, WithStatus
<1>4. StartsAreNew(tab')
  BY <1>1, <1>2, <1>3, NewStartsStay
<1> QED BY <1>1, <1>2, <1>3, <1>4, QuietStepKeepsInv

\* The panel's buttons, and the start's way.
LEMMA PressStartKeepsInv == PanelsInv /\ PressStart => PanelsInv'
<1> SUFFICES ASSUME PanelsInv, PressStart PROVE PanelsInv'
  OBVIOUS
<1>1. tab \in Mounts /\ starts \in 0..MaxStarts /\ faults \in 0..MaxFaults /\ StartsAreNew(tab)
  BY DEF PanelsInv, PanelsType, View
<1>2. tab' = [tab EXCEPT !.start = "sent", !.mine = TRUE]
  BY DEF PressStart
<1>3. /\ tab' \in Mounts /\ tab'.status = tab.status
      /\ tab'.active = tab.active /\ tab'.start = "sent" /\ tab'.answer = tab.answer
      /\ tab'.jobq = tab.jobq /\ tab'.observed = tab.observed /\ tab'.seen = tab.seen
      /\ tab'.joined = tab.joined /\ tab'.missed = tab.missed
  BY <1>1, <1>2 DEF Mounts
<1>4. StartsAreNew(tab')
  BY <1>1, <1>3 DEF StartsAreNew, PressStart
<1>5. starts' = starts + 1 /\ starts' \in 0..MaxStarts
  BY <1>1 DEF PressStart
<1> QED BY <1>1, <1>3, <1>4, <1>5, QuietStepKeepsInv DEF PressStart

LEMMA FocusKeepsInv == PanelsInv /\ Focus => PanelsInv'
<1> SUFFICES ASSUME PanelsInv, Focus PROVE PanelsInv'
  OBVIOUS
<1>1. tab \in Mounts /\ starts \in 0..MaxStarts /\ faults \in 0..MaxFaults /\ StartsAreNew(tab)
      /\ tab.status \in Entries(Report) /\ tab.jobq \in [Jobs -> Entries(JobStates)]
      /\ tab.observed \in JobIds /\ tab.observed = EffectiveId(tab)
  BY DEF PanelsInv, PanelsType, View, Mounts
<1> DEFINE s == Joined(tab.status)
           q == [j \in Jobs |-> IF j = tab.observed THEN Joined(tab.jobq[j]) ELSE tab.jobq[j]]
<1>2. s \in Entries(Report) /\ s.data = tab.status.data
  BY <1>1, EntrySteps
<1>3. q \in [Jobs -> Entries(JobStates)]
  BY <1>1, EntrySteps
<1>4. \A j \in Jobs : q[j] = IF j = tab.observed THEN Joined(tab.jobq[j]) ELSE tab.jobq[j]
  OBVIOUS
<1>5. tab' = [tab EXCEPT !.status = s, !.jobq = q]
  BY DEF Focus
<1> HIDE DEF s, q
<1>6. /\ tab' \in Mounts /\ tab'.status = s
      /\ tab'.active = tab.active /\ tab'.start = tab.start /\ tab'.answer = tab.answer
      /\ tab'.jobq = q /\ tab'.observed = tab.observed /\ tab'.seen = tab.seen
      /\ tab'.joined = tab.joined /\ tab'.missed = tab.missed
  BY <1>1, <1>2, <1>3, <1>5 DEF Mounts
<1>7. kind = "backfill" => tab.observed = tab.active
  BY <1>1 DEF EffectiveId
<1>8. StartsAreNew(tab')
  <2>1. kind = "backfill" /\ tab.answer # NoJob => q[tab.answer] = tab.jobq[tab.answer]
    <3>1. tab.answer \in JobIds
      BY <1>1 DEF Mounts
    <3> QED BY <1>1, <1>4, <1>7, <3>1 DEF StartsAreNew, JobIds
  <2> QED BY <1>1, <1>2, <1>6, <2>1 DEF StartsAreNew
<1>9. ASSUME NEW j \in Jobs
      PROVE  \/ q[j] = tab.jobq[j]
             \/ /\ jobs[j] # "none" /\ q[j].data = tab.jobq[j].data /\ q[j].fetch = "sent"
  <2>1. CASE j # tab.observed
    BY <1>4, <2>1
  <2>2. CASE j = tab.observed
    <3>1. tab.jobq[j] \in Entries(JobStates) /\ tab.jobq[j].fetch \in {"idle", "sent", "answered"}
      BY <1>1 DEF Entries
    <3>2. q[j] = Joined(tab.jobq[j])
      BY <1>4, <2>2
    <3>3. jobs[j] # "none"
      BY <1>1, <2>2, NoJobIsNone
         DEF EffectiveId, PanelsInv, TabIsSound, IsSound, StatusOf, NoReport
    <3> QED BY <3>1, <3>2, <3>3, EntrySteps
  <2> QED BY <2>1, <2>2
<1>10. s = Joined(tab.status)
  BY DEF s
<1> QED BY <1>1, <1>6, <1>8, <1>9, <1>10, QuietStepKeepsInv DEF Focus

\* A job's query is sent, or fails.
LEMMA JobqKeepsInv ==
    ASSUME PanelsInv, NEW j \in Jobs, UNCHANGED <<kind, jobs, listed, counted, starts>>,
           faults' \in 0..MaxFaults, NEW e \in Entries(JobStates), NEW m \in BOOLEAN,
           tab' = [tab EXCEPT !.jobq[j] = e, !.missed = m], tab.missed => m,
           e.data = tab.jobq[j].data, jobs[j] # "none", e.fetch # "answered",
           e.data # Nothing \/ e.fetch = "sent" \/ m \/ Forgot(jobs),
           tab.jobq[j].fetch = "sent" \/ (kind = "backfill" => j = tab.active)
    PROVE  PanelsInv'
<1>1. tab \in Mounts /\ starts \in 0..MaxStarts /\ StartsAreNew(tab)
      /\ tab.jobq \in [Jobs -> Entries(JobStates)]
  BY DEF PanelsInv, PanelsType, View, Mounts
<1> DEFINE q == [tab.jobq EXCEPT ![j] = e]
<1>2. q \in [Jobs -> Entries(JobStates)] /\ \A k \in Jobs : q[k] = IF k = j THEN e ELSE tab.jobq[k]
  BY <1>1, WithQuery
<1>3. tab' = [tab EXCEPT !.jobq = q, !.missed = m]
  BY <1>1
<1> HIDE DEF q
<1>4. /\ tab' \in Mounts /\ tab'.status = tab.status
      /\ tab'.active = tab.active /\ tab'.start = tab.start /\ tab'.answer = tab.answer
      /\ tab'.jobq = q /\ tab'.observed = tab.observed /\ tab'.seen = tab.seen
      /\ tab'.joined = tab.joined /\ tab'.missed = m
  BY <1>1, <1>2, <1>3 DEF Mounts
<1>5. StartsAreNew(tab')
  <2>1. kind = "backfill" /\ tab.answer # NoJob => tab.answer # j
    BY <1>1 DEF StartsAreNew, Unasked
  <2>2. tab.answer \in JobIds
    BY <1>1 DEF Mounts
  <2>3. kind = "backfill" /\ tab.answer # NoJob => q[tab.answer] = tab.jobq[tab.answer]
    BY <1>2, <2>1, <2>2 DEF JobIds
  <2> QED BY <1>1, <1>4, <2>3 DEF StartsAreNew
<1>6. \A k \in Jobs : \/ q[k] = tab.jobq[k]
                      \/ /\ jobs[k] # "none" /\ q[k].data = tab.jobq[k].data
                         /\ q[k].fetch # "answered"
                         /\ q[k].data # Nothing \/ q[k].fetch = "sent" \/ m \/ Forgot(jobs)
  BY <1>2
<1> QED BY <1>1, <1>4, <1>5, <1>6, QuietStepKeepsInv

LEMMA PollJobKeepsInv == ASSUME NEW j \in Jobs PROVE PanelsInv /\ PollJob(j) => PanelsInv'
<1> SUFFICES ASSUME PanelsInv, PollJob(j) PROVE PanelsInv'
  OBVIOUS
<1>1. tab \in Mounts /\ tab.jobq[j] \in Entries(JobStates) /\ tab.missed \in BOOLEAN
      /\ faults \in 0..MaxFaults /\ tab.observed = EffectiveId(tab)
  BY DEF PanelsInv, PanelsType, View, Mounts
<1> DEFINE e == Joined(tab.jobq[j])
<1>2. e \in Entries(JobStates) /\ e.data = tab.jobq[j].data /\ e.fetch = "sent"
  BY <1>1, EntrySteps DEF PollJob
<1>3. tab' = [tab EXCEPT !.jobq[j] = e]
  BY DEF PollJob
<1>4. tab' = [tab EXCEPT !.jobq[j] = e, !.missed = tab.missed]
  BY <1>1, <1>3 DEF Mounts
<1>5. kind = "backfill" => j = tab.active
  BY <1>1 DEF PollJob, JobPolled, EffectiveId
<1>6. jobs[j] # "none"
  <2>1. tab.jobq[j].data = "running" /\ "running" # Nothing
    BY DEF PollJob, JobPolled
  <2> QED BY <2>1 DEF PanelsInv, TabIsSound, Unasked
<1>7. UNCHANGED <<kind, jobs, listed, counted, starts>> /\ faults' \in 0..MaxFaults
  BY <1>1 DEF PollJob
<1> HIDE DEF e
<1> QED BY <1>1, <1>2, <1>4, <1>5, <1>6, <1>7, JobqKeepsInv

LEMMA FailedQueryKeepsInv ==
    ASSUME PanelsInv, NEW j \in Jobs, UNCHANGED <<kind, jobs, listed, counted, starts>>,
           faults' \in 0..MaxFaults, NEW m \in BOOLEAN, tab.jobq[j].fetch = "sent", tab.missed => m,
           tab' = [tab EXCEPT !.jobq[j] = Failed(@), !.missed = m],
           tab.jobq[j].data # Nothing \/ m \/ Forgot(jobs)
    PROVE  PanelsInv'
<1>1. tab.jobq[j] \in Entries(JobStates)
  BY DEF PanelsInv, PanelsType, Mounts
<1> DEFINE e == Failed(tab.jobq[j])
<1>2. e \in Entries(JobStates) /\ e.data = tab.jobq[j].data /\ e.fetch = "idle"
  BY <1>1, EntrySteps
<1>3. jobs[j] # "none"
  BY DEF PanelsInv, TabIsSound, Unasked
<1>4. tab' = [tab EXCEPT !.jobq[j] = e, !.missed = m]
  OBVIOUS
<1> HIDE DEF e
<1> QED BY <1>2, <1>3, <1>4, JobqKeepsInv

LEMMA JobNotFoundKeepsInv == ASSUME NEW j \in Jobs PROVE PanelsInv /\ JobNotFound(j) => PanelsInv'
<1> SUFFICES ASSUME PanelsInv, JobNotFound(j) PROVE PanelsInv'
  OBVIOUS
<1>1. tab \in Mounts /\ tab.missed \in BOOLEAN /\ faults \in 0..MaxFaults
  BY DEF PanelsInv, PanelsType, Mounts
<1>2. tab' = [tab EXCEPT !.jobq[j] = Failed(@)]
  BY DEF JobNotFound
<1>3. tab' = [tab EXCEPT !.jobq[j] = Failed(@), !.missed = tab.missed]
  BY <1>1, <1>2 DEF Mounts
<1>4. Forgot(jobs)
  BY DEF JobNotFound, Forgot
<1> QED BY <1>1, <1>3, <1>4, FailedQueryKeepsInv DEF JobNotFound

LEMMA LostKeepsInv == PanelsInv /\ Lost => PanelsInv'
<1> SUFFICES ASSUME PanelsInv, Lost PROVE PanelsInv'
  OBVIOUS
<1>1. /\ tab \in Mounts /\ tab.missed \in BOOLEAN /\ starts \in 0..MaxStarts /\ StartsAreNew(tab)
      /\ tab.status \in Entries(Report)
  BY DEF PanelsInv, PanelsType, Mounts, View
<1>2. faults' \in 0..MaxFaults /\ UNCHANGED <<kind, jobs, listed, counted, starts>>
  BY DEF Lost, PanelsInv, PanelsType
<1>3. ASSUME NEW j \in Jobs, LoseJob(j) PROVE PanelsInv'
  <2> DEFINE m == tab.missed \/ tab.jobq[j].data = Nothing
  <2>1. m \in BOOLEAN /\ (tab.missed => m) /\ (tab.jobq[j].data # Nothing \/ m)
    BY <1>1
  <2>2. tab' = [tab EXCEPT !.jobq[j] = Failed(@), !.missed = m] /\ tab.jobq[j].fetch = "sent"
    BY <1>3 DEF LoseJob
  <2> HIDE DEF m
  <2> QED BY <1>2, <2>1, <2>2, FailedQueryKeepsInv
<1>4. CASE LoseStatus
  <2> DEFINE s == Failed(tab.status)
  <2>1. s \in Entries(Report) /\ s.data = tab.status.data
    BY <1>1, EntrySteps
  <2>2. tab' = [tab EXCEPT !.status = s, !.missed = TRUE]
    BY <1>4 DEF LoseStatus
  <2>3. s = Failed(tab.status)
    OBVIOUS
  <2> HIDE DEF s
  <2>4. /\ tab' \in Mounts /\ tab'.status = s
        /\ tab'.active = tab.active /\ tab'.start = tab.start /\ tab'.answer = tab.answer
        /\ tab'.jobq = tab.jobq /\ tab'.observed = tab.observed /\ tab'.seen = tab.seen
        /\ tab'.joined = tab.joined /\ tab'.missed = TRUE
    BY <1>1, <2>1, <2>2 DEF Mounts
  <2>5. StartsAreNew(tab')
    BY <1>1, <2>1, <2>4, NewStartsStay
  <2> QED BY <1>1, <1>2, <2>3, <2>4, <2>5, QuietStepKeepsInv
<1>5. CASE LoseStart
  <2>1. tab' = [tab EXCEPT !.start = "idle", !.answer = NoJob] /\ NoJob \in JobIds
    BY <1>5 DEF LoseStart, JobIds
  <2>2. /\ tab' \in Mounts /\ tab'.status = tab.status
        /\ tab'.active = tab.active /\ tab'.start = "idle" /\ tab'.answer = NoJob
        /\ tab'.jobq = tab.jobq /\ tab'.observed = tab.observed /\ tab'.seen = tab.seen
        /\ tab'.joined = tab.joined /\ tab'.missed = tab.missed
    BY <1>1, <2>1 DEF Mounts
  <2>3. StartsAreNew(tab')
    BY <1>1, <2>2, NewStartsStay
  <2> QED BY <1>1, <1>2, <2>2, <2>3, QuietStepKeepsInv
<1> QED BY <1>3, <1>4, <1>5 DEF Lost

\* The gateway answers, or goes on.
LEMMA AnswerStatusKeepsInv == PanelsInv /\ AnswerStatus => PanelsInv'
<1> SUFFICES ASSUME PanelsInv, AnswerStatus PROVE PanelsInv'
  OBVIOUS
<1>1. /\ tab \in Mounts /\ tab.status \in Entries(Report) /\ listed \in JobIds
      /\ jobs \in [Jobs -> {"none", "gone"} \cup JobStates] /\ counted \in SUBSET Jobs
  BY DEF PanelsInv, PanelsType, Mounts
<1>2. TabIsSound(tab, jobs, counted) /\ View(tab, jobs, counted) /\ ManagerIsSound(listed, jobs, counted)
  BY DEF PanelsInv
<1> DEFINE r == IF listed = NoJob \/ kind = "backfill" THEN [NoReport EXCEPT !.counted = counted]
                ELSE [job |-> listed, state |-> jobs[listed], counted |-> counted]
           s == Answered(tab.status, r)
<1>3. /\ r \in Report /\ IsSound(r, jobs, counted) /\ r.counted = counted
      /\ r.state = "running" => r.job \in Jobs /\ jobs[r.job] = "running"
  <2>1. CASE listed = NoJob \/ kind = "backfill"
    <3>1. r = [NoReport EXCEPT !.counted = counted]
      BY <2>1
    <3>2. r.job = NoJob /\ r.state = "none" /\ r.counted = counted /\ r \in Report
      BY <1>1, <3>1 DEF NoReport, Report
    <3> HIDE DEF r
    <3> QED BY <3>2, NoJobIsNone DEF IsSound
  <2>2. CASE ~(listed = NoJob \/ kind = "backfill")
    <3>1. r = [job |-> listed, state |-> jobs[listed], counted |-> counted]
      BY <2>2
    <3>2. listed \in Jobs /\ jobs[listed] \in JobStates
      BY <1>1, <1>2, <2>2 DEF ManagerIsSound, JobIds
    <3>3. r.job = listed /\ r.state = jobs[listed] /\ r.counted = counted
      BY <3>1
    <3>4. r \in Report
      BY <1>1, <3>1, <3>2 DEF Report, JobStates
    <3>5. "none" \notin JobStates
      BY DEF JobStates, Ended
    <3> HIDE DEF r
    <3> QED BY <1>2, <2>2, <3>2, <3>3, <3>4, <3>5 DEF IsSound, ManagerIsSound
  <2> QED BY <2>1, <2>2
<1>4. tab' = [tab EXCEPT !.status = s] /\ tab.status.fetch = "sent"
  BY DEF AnswerStatus
<1> HIDE DEF r
<1>5. /\ s \in Entries(Report) /\ s.data = tab.status.data /\ s.fetch = "answered" /\ s.got = r
  BY <1>1, <1>3, AnswerSteps
<1> HIDE DEF s
<1>6. /\ tab' \in Mounts /\ tab'.status = s
      /\ tab'.active = tab.active /\ tab'.start = tab.start /\ tab'.answer = tab.answer
      /\ tab'.jobq = tab.jobq /\ tab'.observed = tab.observed /\ tab'.seen = tab.seen
      /\ tab'.joined = tab.joined /\ tab'.missed = tab.missed
  BY <1>1, <1>4, <1>5, WithStatus
<1>7. TabIsSound(tab', jobs, counted)
  <2>1. r # Nothing
    BY <1>3, NothingIsNoData
  <2>2. IsSound(s.data, jobs, counted) /\ IsSound(s.got, jobs, counted)
    BY <1>2, <1>3, <1>5 DEF TabIsSound
  <2> QED BY <1>2, <1>5, <1>6, <2>1, <2>2 DEF TabIsSound
<1>8. StartsAreNew(tab')
  BY <1>2, <1>1, <1>5, <1>6, NewStartsStay DEF View
<1>9. ASSUME NEW j \in counted PROVE Covers(tab', j)
  BY <1>3, <1>5, <1>6 DEF Covers
<1>10. ASSUME NEW j \in counted, jobs[j] \in Ended \cup {"gone"} PROVE Tells(tab', j)
  <2>1. jobs[j] # "running"
    BY <1>10 DEF Ended
  <2> QED BY <1>3, <1>5, <1>6, <2>1 DEF Tells, SaysRuns
<1>11. IsAsked(tab', jobs)
  BY <1>2, <1>6 DEF View, IsAsked
<1>12. View(tab', jobs, counted)
  BY <1>1, <1>2, <1>5, <1>6, <1>8, <1>9, <1>10, <1>11, QuietStep
<1>13. ManagerIsSound(listed', jobs, counted) /\ listed' \in JobIds
  BY <1>1, <1>2 DEF AnswerStatus, Reaped, ManagerIsSound, JobIds
<1>14. UNCHANGED <<kind, jobs, counted, starts, faults>>
  BY DEF AnswerStatus
<1>15. PanelsType' /\ StartsAreCounted'
  BY <1>6, <1>13, <1>14 DEF PanelsInv, PanelsType, StartsAreCounted
<1> QED BY <1>7, <1>12, <1>13, <1>14, <1>15, InvAssembled

\* The steps of the gateway alone.
LEMMA JobsMoveOn ==
    ASSUME PanelsInv, UNCHANGED <<kind, tab>>, Forward(jobs, jobs', counted, counted'),
           PanelsType', StartsAreCounted', ManagerIsSound(listed', jobs', counted')
    PROVE  PanelsInv'
<1>1. /\ tab \in Mounts /\ tab' = tab /\ StartsAreNew(tab) /\ counted \subseteq Jobs
      /\ TabIsSound(tab, jobs, counted) /\ View(tab, jobs, counted)
  BY DEF PanelsInv, PanelsType, View
<1>2. tab.answer # NoJob => jobs'[tab.answer] # "none"
  <2>1. tab.answer \in JobIds
    BY <1>1 DEF Mounts
  <2> QED BY <1>1, <2>1 DEF TabIsSound, Forward, JobIds
<1>3. TabIsSound(tab, jobs', counted') /\ View(tab, jobs', counted')
  BY <1>1, <1>2, QuietStepKeepsTab
<1> QED BY <1>1, <1>3, InvAssembled

LEMMA FinishKeepsInv == ASSUME NEW j \in Jobs PROVE PanelsInv /\ Finish(j) => PanelsInv'
<1> SUFFICES ASSUME PanelsInv, Finish(j) PROVE PanelsInv'
  OBVIOUS
<1>1. /\ jobs \in [Jobs -> {"none", "gone"} \cup JobStates] /\ PanelsType /\ listed \in JobIds
      /\ ManagerIsSound(listed, jobs, counted)
  BY DEF PanelsInv, PanelsType
<1>2. PICK how \in Ended : jobs' = [jobs EXCEPT ![j] = how]
  BY DEF Finish, Ends, Ended
<1>3. jobs[j] = "running" /\ counted' = counted \cup {j} /\ UNCHANGED <<kind, tab, starts, faults>>
      /\ listed' = IF kind = "unified" THEN listed ELSE NoJob
  BY DEF Finish
<1>4. \A k \in Jobs : jobs'[k] = IF k = j THEN how ELSE jobs[k]
  BY <1>1, <1>2
<1>5. "gone" \notin Ended /\ "running" \notin Ended /\ "none" \notin Ended /\ Ended \subseteq JobStates
  BY DEF Ended, JobStates
<1>6. Forward(jobs, jobs', counted, counted')
  BY <1>3, <1>4, <1>5 DEF Forward, Forgot
<1>7. PanelsType'
  BY <1>1, <1>2, <1>3, <1>5 DEF PanelsType, JobIds
<1>8. Known(jobs') = Known(jobs)
  BY <1>3, <1>4, <1>5 DEF Known
<1>9. StartsAreCounted'
  BY <1>3, <1>8 DEF PanelsInv, StartsAreCounted
<1>10. ManagerIsSound(listed', jobs', counted')
  BY <1>1, <1>3, <1>4, <1>5, NoJobIsNone DEF ManagerIsSound, JobIds
<1> QED BY <1>3, <1>6, <1>7, <1>9, <1>10, JobsMoveOn

LEMMA GatewayRestartsKeepsInv == PanelsInv /\ GatewayRestarts => PanelsInv'
<1> SUFFICES ASSUME PanelsInv, GatewayRestarts PROVE PanelsInv'
  OBVIOUS
<1>1. jobs \in [Jobs -> {"none", "gone"} \cup JobStates] /\ PanelsType
  BY DEF PanelsInv, PanelsType
<1>2. /\ jobs' = [j \in Jobs |-> IF jobs[j] = "none" THEN "none" ELSE "gone"]
      /\ listed' = NoJob /\ UNCHANGED <<kind, tab, counted, starts>> /\ faults' = faults + 1
      /\ faults < MaxFaults
  BY DEF GatewayRestarts
<1>3. \A j \in Jobs : jobs'[j] = IF jobs[j] = "none" THEN "none" ELSE "gone"
  BY <1>2
<1>4. "gone" \notin Ended /\ "none" \notin Ended
  BY DEF Ended
<1>5. Forward(jobs, jobs', counted, counted')
  BY <1>2, <1>3, <1>4 DEF Forward, Forgot
<1>6. PanelsType'
  BY <1>1, <1>2 DEF PanelsType, JobIds
<1>7. Known(jobs') = Known(jobs)
  BY <1>3 DEF Known
<1>8. StartsAreCounted'
  BY <1>2, <1>7 DEF PanelsInv, StartsAreCounted
<1>9. ManagerIsSound(listed', jobs', counted')
  BY <1>2, <1>3, <1>4 DEF ManagerIsSound
<1> QED BY <1>2, <1>5, <1>6, <1>8, <1>9, JobsMoveOn

\* The next number is given to a new job.
LEMMA NewJob ==
    ASSUME PanelsInv, Cardinality(Known(jobs)) < MaxStarts, NEW j,
           j = CHOOSE k \in Jobs : jobs[k] = "none"
    PROVE  /\ j \in Jobs /\ jobs[j] = "none"
           /\ [jobs EXCEPT ![j] = "running"] \in [Jobs -> {"none", "gone"} \cup JobStates]
           /\ [jobs EXCEPT ![j] = "running"][j] = "running"
           /\ Forward(jobs, [jobs EXCEPT ![j] = "running"], counted, counted)
           /\ ManagerIsSound(j, [jobs EXCEPT ![j] = "running"], counted)
           /\ Cardinality(Known([jobs EXCEPT ![j] = "running"])) = Cardinality(Known(jobs)) + 1
<1>1. jobs \in [Jobs -> {"none", "gone"} \cup JobStates] /\ ManagerIsSound(listed, jobs, counted)
  BY DEF PanelsInv, PanelsType
<1>2. j \in Jobs /\ jobs[j] = "none"
  BY <1>1, RoomForOne
<1> DEFINE js == [jobs EXCEPT ![j] = "running"]
<1>3. /\ js \in [Jobs -> {"none", "gone"} \cup JobStates]
      /\ \A k \in Jobs : js[k] = IF k = j THEN "running" ELSE jobs[k]
  BY <1>1, <1>2 DEF JobStates
<1>4. Cardinality(Known(js)) = Cardinality(Known(jobs)) + 1
  BY <1>1, <1>2, RoomForOne
<1> HIDE DEF js
<1>5. "gone" \notin Ended /\ "none" \notin Ended /\ "running" \notin Ended /\ "running" \in JobStates
  BY DEF Ended, JobStates
<1>6. Forward(jobs, js, counted, counted)
  BY <1>2, <1>3, <1>5 DEF Forward, Forgot
<1>7. ManagerIsSound(j, js, counted)
  BY <1>1, <1>2, <1>3, <1>5 DEF ManagerIsSound
<1> QED BY <1>2, <1>3, <1>4, <1>6, <1>7 DEF js

LEMMA StartElsewhereKeepsInv == PanelsInv /\ StartElsewhere => PanelsInv'
<1> SUFFICES ASSUME PanelsInv, StartElsewhere PROVE PanelsInv'
  OBVIOUS
<1>1. /\ jobs \in [Jobs -> {"none", "gone"} \cup JobStates] /\ PanelsType /\ starts \in 0..MaxStarts
      /\ Cardinality(Known(jobs)) + (IF tab.start = "sent" THEN 1 ELSE 0) <= starts
  BY DEF PanelsInv, PanelsType, StartsAreCounted
<1>2. Cardinality(Known(jobs)) \in Nat
  BY <1>1, RoomForOne
<1> DEFINE j == CHOOSE k \in Jobs : jobs[k] = "none"
           js == [jobs EXCEPT ![j] = "running"]
<1>3. /\ starts < MaxStarts /\ starts' = starts + 1 /\ jobs' = js /\ listed' = j
      /\ UNCHANGED <<kind, tab, counted, faults>>
  BY DEF StartElsewhere
<1>4. Cardinality(Known(jobs)) < MaxStarts
  BY <1>1, <1>2, <1>3
<1>5. PICK i : i = j
  OBVIOUS
<1> HIDE DEF j
<1>6. /\ i \in Jobs /\ js \in [Jobs -> {"none", "gone"} \cup JobStates]
      /\ Forward(jobs, js, counted, counted) /\ ManagerIsSound(i, js, counted)
      /\ Cardinality(Known(js)) = Cardinality(Known(jobs)) + 1
  BY <1>4, <1>5, NewJob DEF j
<1> HIDE DEF js
<1>7. PanelsType'
  BY <1>1, <1>3, <1>5, <1>6 DEF PanelsType, JobIds
<1>8. StartsAreCounted'
  <2>1. Cardinality(Known(js)) + (IF tab.start = "sent" THEN 1 ELSE 0) <= starts + 1
    BY <1>1, <1>2, <1>6
  <2> QED BY <1>3, <2>1 DEF StartsAreCounted
<1> QED BY <1>3, <1>5, <1>6, <1>7, <1>8, JobsMoveOn

LEMMA ServeStartKeepsInv == PanelsInv /\ ServeStart => PanelsInv'
<1> SUFFICES ASSUME PanelsInv, ServeStart PROVE PanelsInv'
  OBVIOUS
<1>1. /\ jobs \in [Jobs -> {"none", "gone"} \cup JobStates] /\ PanelsType /\ starts \in 0..MaxStarts
      /\ tab \in Mounts /\ faults \in 0..MaxFaults /\ counted \subseteq Jobs /\ StartsAreNew(tab)
      /\ TabIsSound(tab, jobs, counted) /\ View(tab, jobs, counted)
      /\ Cardinality(Known(jobs)) + (IF tab.start = "sent" THEN 1 ELSE 0) <= starts
  BY DEF PanelsInv, PanelsType, StartsAreCounted, View
<1>2. tab.start = "sent" /\ UNCHANGED <<kind, counted, starts, faults>>
  BY DEF ServeStart
<1>3. ASSUME NEW a \in JobIds, tab' = [tab EXCEPT !.start = "answered", !.answer = a]
      PROVE  /\ tab' \in Mounts /\ tab'.status = tab.status
             /\ tab'.active = tab.active /\ tab'.start = "answered" /\ tab'.answer = a
             /\ tab'.jobq = tab.jobq /\ tab'.observed = tab.observed /\ tab'.seen = tab.seen
             /\ tab'.joined = tab.joined /\ tab'.missed = tab.missed
  BY <1>1, <1>3 DEF Mounts
<1>4. CASE RunsOne
  <2>1. tab' = [tab EXCEPT !.start = "answered", !.answer = NoJob] /\ UNCHANGED <<jobs, listed>>
    BY <1>4 DEF ServeStart
  <2>2. NoJob \in JobIds
    BY DEF JobIds
  <2>3. /\ tab' \in Mounts /\ tab'.status = tab.status
        /\ tab'.active = tab.active /\ tab'.start = "answered" /\ tab'.answer = NoJob
        /\ tab'.jobq = tab.jobq /\ tab'.observed = tab.observed /\ tab'.seen = tab.seen
        /\ tab'.joined = tab.joined /\ tab'.missed = tab.missed
    BY <1>3, <2>1, <2>2
  <2>4. StartsAreNew(tab')
    BY <1>1, <1>2, <2>3 DEF StartsAreNew
  <2> QED BY <1>1, <1>2, <2>1, <2>3, <2>4, QuietStepKeepsInv
<1>5. CASE ~RunsOne
  <2> DEFINE j == CHOOSE k \in Jobs : jobs[k] = "none"
             js == [jobs EXCEPT ![j] = "running"]
  <2>1. /\ tab' = [tab EXCEPT !.start = "answered", !.answer = j]
        /\ jobs' = js /\ listed' = j
    BY <1>5 DEF ServeStart
  <2>2. Cardinality(Known(jobs)) \in Nat
    BY <1>1, RoomForOne
  <2>3. Cardinality(Known(jobs)) < MaxStarts
    BY <1>1, <1>2, <2>2
  <2>4. PICK i : i = j
    OBVIOUS
  <2> HIDE DEF j
  <2>5. /\ i \in Jobs /\ jobs[i] = "none" /\ js \in [Jobs -> {"none", "gone"} \cup JobStates]
        /\ js[i] = "running"
        /\ Forward(jobs, js, counted, counted) /\ ManagerIsSound(i, js, counted)
        /\ Cardinality(Known(js)) = Cardinality(Known(jobs)) + 1
    BY <2>3, <2>4, NewJob DEF j
  <2> HIDE DEF js
  <2>6. i \in JobIds /\ i # NoJob
    BY <2>5, NoJobIsNone DEF JobIds
  <2>7. /\ tab' \in Mounts /\ tab'.status = tab.status
        /\ tab'.active = tab.active /\ tab'.start = "answered" /\ tab'.answer = i
        /\ tab'.jobq = tab.jobq /\ tab'.observed = tab.observed /\ tab'.seen = tab.seen
        /\ tab'.joined = tab.joined /\ tab'.missed = tab.missed
    BY <1>3, <2>1, <2>4, <2>6
  <2>8. StartsAreNew(tab')
    <3>1. tab.jobq[i] = Unasked /\ tab.active # i
      BY <1>1, <2>5, <2>6 DEF TabIsSound
    <3> QED BY <1>1, <1>2, <2>7, <3>1 DEF StartsAreNew
  <2>9. TabIsSound(tab', js, counted) /\ View(tab', js, counted)
    BY <1>1, <2>5, <2>7, <2>8, QuietStepKeepsTab
  <2>10. PanelsType'
    BY <1>1, <1>2, <2>1, <2>4, <2>5, <2>6, <2>7 DEF PanelsType
  <2>11. StartsAreCounted'
    <3>1. Cardinality(Known(js)) + 0 <= starts
      BY <1>1, <1>2, <2>2, <2>5
    <3> QED BY <1>2, <2>1, <2>7, <3>1 DEF StartsAreCounted
  <2> QED BY <1>2, <2>1, <2>4, <2>5, <2>9, <2>10, <2>11, InvAssembled
<1> QED BY <1>4, <1>5

\* The steps that render: x is the tab before the render.
LEMMA RenderedStepKeepsInv ==
    ASSUME PanelsInv, NEW x \in Mounts, tab' = Rendered(x), UNCHANGED <<kind, starts, faults>>,
           x.start = "sent" => tab.start = "sent",
           jobs' \in [Jobs -> {"none", "gone"} \cup JobStates], Known(jobs') = Known(jobs),
           listed' \in JobIds, counted' \in SUBSET Jobs, ManagerIsSound(listed', jobs', counted'),
           TabIsSound(x, jobs', counted'), StartsAreNew(x), SeenIsTold(x, jobs', counted'),
           x.observed = EffectiveId(x) => IsAsked(x, jobs'),
           kind # "conversation" /\ ShownJob(x).state \in EndsSeen /\ EffectKey(x) = x.seen
             => Covers(x, ShownJob(x).job)
    PROVE  PanelsInv'
<1>1. /\ Rendered(x) \in Mounts /\ Rendered(x).start = x.start
      /\ TabIsSound(Rendered(x), jobs', counted') /\ View(Rendered(x), jobs', counted')
  BY RenderingKeepsView
<1>2. PanelsType'
  BY <1>1 DEF PanelsInv, PanelsType
<1>3. StartsAreCounted'
  <2>1. jobs \in [Jobs -> {"none", "gone"} \cup JobStates] /\ starts \in 0..MaxStarts
        /\ Cardinality(Known(jobs)) + (IF tab.start = "sent" THEN 1 ELSE 0) <= starts
    BY DEF PanelsInv, PanelsType, StartsAreCounted
  <2>2. Cardinality(Known(jobs)) \in Nat
    BY <2>1, RoomForOne
  <2>3. tab'.start = "sent" => tab.start = "sent"
    BY <1>1
  <2>4. Cardinality(Known(jobs)) + (IF tab'.start = "sent" THEN 1 ELSE 0) <= starts
    BY <2>1, <2>2, <2>3
  <2> QED BY <2>4 DEF StartsAreCounted
<1> QED BY <1>1, <1>2, <1>3, InvAssembled

\* What the panel knew of the end it has seen, it still knows.
LEMMA SeenStays ==
    ASSUME NEW x \in Mounts, NEW y \in Mounts, NEW js, NEW cs, NEW js2, NEW cs2,
           Forward(js, js2, cs, cs2), cs \subseteq Jobs, SeenIsTold(x, js, cs), y.seen = x.seen,
           \A j : (Covers(x, j) => Covers(y, j)) /\ (Tells(x, j) => Tells(y, j))
    PROVE  SeenIsTold(y, js2, cs2)
BY DEF SeenIsTold, Forward

LEMMA TakeStatusKeepsInv == PanelsInv /\ TakeStatus => PanelsInv'
<1> SUFFICES ASSUME PanelsInv, TakeStatus PROVE PanelsInv'
  OBVIOUS
<1>1. /\ tab \in Mounts /\ tab.status \in Entries(Report) /\ PanelsType
      /\ TabIsSound(tab, jobs, counted) /\ View(tab, jobs, counted) /\ ManagerIsSound(listed, jobs, counted)
  BY DEF PanelsInv, PanelsType, Mounts
<1> DEFINE s == Taken(tab.status)
           x == [tab EXCEPT !.status = s]
<1>2. tab' = Rendered(x) /\ UNCHANGED <<kind, jobs, listed, counted, starts, faults>>
      /\ tab.status.fetch = "answered"
  BY DEF TakeStatus
<1>3. s = [data |-> tab.status.got, fetch |-> "idle", got |-> Nothing] /\ s \in Entries(Report)
  BY <1>1, EntrySteps
<1>4. s.data = tab.status.got /\ s.fetch = "idle" /\ s.got = Nothing /\ tab.status.got # Nothing
  BY <1>1, <1>2, <1>3 DEF TabIsSound
<1> HIDE DEF s
<1>5. /\ x \in Mounts /\ x.status = s
      /\ x.active = tab.active /\ x.start = tab.start /\ x.answer = tab.answer
      /\ x.jobq = tab.jobq /\ x.observed = tab.observed /\ x.seen = tab.seen
      /\ x.joined = tab.joined /\ x.missed = tab.missed
  BY <1>1, <1>3, WithStatus
<1> HIDE DEF x
<1>6. TabIsSound(x, jobs, counted)
  BY <1>1, <1>4, <1>5 DEF TabIsSound, IsSound
<1>7. StartsAreNew(x)
  BY <1>1, <1>4, <1>5 DEF View, StartsAreNew
<1>8. StatusOf(x) = tab.status.got
  BY <1>4, <1>5 DEF StatusOf
<1>9. \A j : (Covers(tab, j) => Covers(x, j)) /\ (Tells(tab, j) => Tells(x, j))
  BY <1>2, <1>4, <1>5, <1>8 DEF Covers, Tells
<1>10. SeenIsTold(x, jobs, counted)
  BY <1>1, <1>5, <1>9, NothingMoves, SeenStays DEF View, PanelsType
<1>11. x.observed = EffectiveId(x) => IsAsked(x, jobs)
  BY <1>1, <1>5 DEF View, IsAsked
<1>12. kind # "conversation" /\ ShownJob(x).state \in EndsSeen /\ EffectKey(x) = x.seen
       => Covers(x, ShownJob(x).job)
  BY <1>1, <1>5, <1>9, SameEnd
<1> QED BY <1>1, <1>2, <1>5, <1>6, <1>7, <1>10, <1>11, <1>12, RenderedStepKeepsInv DEF PanelsType

LEMMA TakeJobKeepsInv == ASSUME NEW j \in Jobs PROVE PanelsInv /\ TakeJob(j) => PanelsInv'
<1> SUFFICES ASSUME PanelsInv, TakeJob(j) PROVE PanelsInv'
  OBVIOUS
<1>1. /\ tab \in Mounts /\ tab.jobq \in [Jobs -> Entries(JobStates)] /\ PanelsType
      /\ jobs \in [Jobs -> {"none", "gone"} \cup JobStates]
      /\ TabIsSound(tab, jobs, counted) /\ View(tab, jobs, counted) /\ ManagerIsSound(listed, jobs, counted)
  BY DEF PanelsInv, PanelsType, Mounts
<1> DEFINE e == Taken(Answered(tab.jobq[j], jobs[j]))
           q == [tab.jobq EXCEPT ![j] = e]
           x == [tab EXCEPT !.jobq = q]
<1>2. /\ tab' = Rendered(x) /\ UNCHANGED <<kind, jobs, counted, starts, faults>>
      /\ tab.jobq[j].fetch = "sent" /\ jobs[j] # "gone"
      /\ listed' = IF j = listed THEN Reaped ELSE listed
  BY DEF TakeJob
<1>3. tab.jobq[j] # Unasked
  BY <1>2 DEF Unasked
<1>4. jobs[j] \in JobStates
  BY <1>1, <1>2, <1>3 DEF TabIsSound
<1>5. e \in Entries(JobStates) /\ e = [data |-> jobs[j], fetch |-> "idle", got |-> Nothing]
  BY <1>1, <1>4, AnswerSteps
<1>6. e.data = jobs[j] /\ e.fetch = "idle" /\ e.data # Nothing
  BY <1>4, <1>5, NothingIsNoData DEF JobStates
<1> HIDE DEF e
<1>7. q \in [Jobs -> Entries(JobStates)] /\ \A k \in Jobs : q[k] = IF k = j THEN e ELSE tab.jobq[k]
  BY <1>1, <1>5, WithQuery
<1> HIDE DEF q
<1>8. /\ x \in Mounts /\ x.jobq = q /\ x.status = tab.status
      /\ x.active = tab.active /\ x.start = tab.start /\ x.answer = tab.answer
      /\ x.observed = tab.observed /\ x.seen = tab.seen
      /\ x.joined = tab.joined /\ x.missed = tab.missed
  BY <1>1, <1>7, WithJobq
<1> HIDE DEF x
<1>9. TabIsSound(x, jobs, counted)
  <2>1. ASSUME NEW k \in Jobs
        PROVE  /\ jobs[k] = "none" => q[k] = Unasked
               /\ q[k].fetch # "answered"
               /\ q[k].data \in Ended => jobs[k] \in Ended \cup {"gone"} /\ k \in counted
    <3>1. CASE k = j
      <4>1. jobs[k] # "none"
        BY <1>4, <3>1 DEF JobStates, Ended
      <4> QED BY <1>1, <1>6, <1>7, <3>1, <4>1 DEF ManagerIsSound
    <3>2. CASE k # j
      BY <1>1, <1>7, <3>2 DEF TabIsSound
    <3> QED BY <3>1, <3>2
  <2> QED BY <1>1, <1>8, <2>1 DEF TabIsSound
<1>10. StartsAreNew(x)
  <2>1. tab.answer \in JobIds
    BY <1>1 DEF Mounts
  <2>2. kind = "backfill" /\ tab.answer # NoJob => tab.answer # j
    BY <1>1, <1>3 DEF View, StartsAreNew
  <2>3. kind = "backfill" /\ tab.answer # NoJob => q[tab.answer] = tab.jobq[tab.answer]
    BY <1>7, <2>1, <2>2 DEF JobIds
  <2> QED BY <1>1, <1>8, <2>3 DEF View, StartsAreNew
<1>11. \A k : (Covers(tab, k) => Covers(x, k)) /\ (Tells(tab, k) => Tells(x, k))
  BY <1>8 DEF Covers, Tells, StatusPolled, StatusOf
<1>12. SeenIsTold(x, jobs, counted)
  BY <1>1, <1>8, <1>11, NothingMoves, SeenStays DEF View, PanelsType
<1>13. IsAsked(x, jobs)
  <2>1. tab.observed \in JobIds
    BY <1>1 DEF Mounts
  <2> QED BY <1>1, <1>6, <1>7, <1>8, <2>1 DEF View, IsAsked, JobIds
<1>14. kind # "conversation" /\ ShownJob(x).state \in EndsSeen /\ EffectKey(x) = x.seen
       => Covers(x, ShownJob(x).job)
  BY <1>1, <1>8, <1>11, SameEnd
<1>15. listed' \in JobIds /\ ManagerIsSound(listed', jobs, counted)
  BY <1>1, <1>2, NoJobIsNone DEF Reaped, ManagerIsSound, PanelsType, JobIds
<1> QED BY <1>1, <1>2, <1>8, <1>9, <1>10, <1>12, <1>13, <1>14, <1>15, RenderedStepKeepsInv DEF PanelsType

LEMMA RemountKeepsInv == PanelsInv /\ Remount => PanelsInv'
<1> SUFFICES ASSUME PanelsInv, Remount PROVE PanelsInv'
  OBVIOUS
<1>1. /\ tab \in Mounts /\ tab.status \in Entries(Report) /\ PanelsType
      /\ TabIsSound(tab, jobs, counted) /\ View(tab, jobs, counted) /\ ManagerIsSound(listed, jobs, counted)
  BY DEF PanelsInv, PanelsType, Mounts
<1> DEFINE s == Joined(tab.status)
           x == [tab EXCEPT !.active = NoJob, !.mine = FALSE, !.observed = NoJob,
                            !.seen = NoKey, !.status = s]
<1>2. tab' = Rendered(x) /\ UNCHANGED <<kind, jobs, listed, counted, starts, faults>>
  BY DEF Remount
<1>3. s \in Entries(Report) /\ s.data = tab.status.data
      /\ (s = tab.status \/ (s.got = Nothing /\ s.fetch = "sent"))
  <2>1. s = tab.status \/ s = Sent(tab.status)
    BY DEF Joined
  <2>2. Sent(tab.status).got = Nothing /\ Sent(tab.status).fetch = "sent"
    BY <1>1 DEF Sent, Entries
  <2> QED BY <1>1, <2>1, <2>2, EntrySteps
<1> HIDE DEF s
<1>4. NoJob \in JobIds /\ NoKey \in Keys
  BY DEF JobIds, NoKey, Keys
<1>5. /\ x \in Mounts /\ x.status = s
      /\ x.active = NoJob /\ x.start = tab.start /\ x.answer = tab.answer
      /\ x.jobq = tab.jobq /\ x.observed = NoJob /\ x.seen = NoKey
      /\ x.joined = tab.joined /\ x.missed = tab.missed
  BY <1>1, <1>3, <1>4 DEF Mounts
<1> HIDE DEF x
<1>6. TabIsSound(x, jobs, counted)
  <2>1. IsSound(Nothing, jobs, counted)
    BY DEF IsSound
  <2> QED BY <1>1, <1>3, <1>5, <2>1 DEF TabIsSound
<1>7. StartsAreNew(x)
  BY <1>1, <1>3, <1>5 DEF View, StartsAreNew
<1>8. SeenIsTold(x, jobs, counted) /\ IsAsked(x, jobs)
  BY <1>5 DEF SeenIsTold, IsAsked
<1>9. kind # "conversation" /\ EffectKey(x) = x.seen => ShownJob(x).state \notin EndsSeen
  <2>1. SUFFICES ASSUME kind # "conversation", EffectKey(x) = NoKey
                 PROVE  ShownJob(x).state = "none"
    BY <1>5 DEF EndsSeen, Ended
  <2>2. ShownJob(x) \in Keys
    BY <1>5, ShownFields
  <2> QED BY <2>1, <2>2 DEF EffectKey, NoKey, Keys
<1> QED BY <1>1, <1>2, <1>5, <1>6, <1>7, <1>8, <1>9, RenderedStepKeepsInv DEF PanelsType

LEMMA CancelKeepsInv == PanelsInv /\ Cancel => PanelsInv'
<1> SUFFICES ASSUME PanelsInv, Cancel PROVE PanelsInv'
  OBVIOUS
<1>1. /\ tab \in Mounts /\ tab.status \in Entries(Report) /\ PanelsType /\ listed \in JobIds
      /\ tab.jobq \in [Jobs -> Entries(JobStates)] /\ counted \in SUBSET Jobs
      /\ jobs \in [Jobs -> {"none", "gone"} \cup JobStates]
      /\ TabIsSound(tab, jobs, counted) /\ View(tab, jobs, counted) /\ ManagerIsSound(listed, jobs, counted)
  BY DEF PanelsInv, PanelsType, Mounts
<1> DEFINE id == EffectiveId(tab)
           e == Invalidated(tab.jobq[id])
           s == IF HasStatusJob THEN Invalidated(tab.status) ELSE tab.status
           q == [tab.jobq EXCEPT ![id] = e]
           x == [tab EXCEPT !.jobq = q, !.status = s]
<1>2. /\ tab' = Rendered(x) /\ UNCHANGED <<kind, starts, faults>> /\ id # NoJob
      /\ jobs[id] \notin {"none", "gone"}
      /\ IF kind = "unified" /\ jobs[id] = "running"
         THEN /\ jobs' = [jobs EXCEPT ![id] = "done"]
              /\ listed' = NoJob
              /\ counted' = counted \cup {id}
         ELSE UNCHANGED <<jobs, listed, counted>>
  BY DEF Cancel
<1>3. id \in Jobs /\ id = tab.observed
  BY <1>1, <1>2, ShownFields DEF View, JobIds
<1>4. /\ s \in Entries(Report) /\ s.data = tab.status.data
      /\ s = tab.status \/ (s.got = Nothing /\ s.fetch = "sent")
      /\ s = tab.status \/ s = Invalidated(tab.status)
  <2>1. Invalidated(tab.status) = tab.status \/ Invalidated(tab.status) = Sent(tab.status)
    BY DEF Invalidated, Joined
  <2>2. Sent(tab.status).got = Nothing /\ Sent(tab.status).fetch = "sent"
    BY <1>1 DEF Sent, Entries
  <2> QED BY <1>1, <2>1, <2>2, EntrySteps
<1>5. e \in Entries(JobStates) /\ e.data = tab.jobq[id].data /\ e.fetch = "sent"
  <2>1. tab.jobq[id] \in Entries(JobStates) /\ tab.jobq[id].fetch # "answered"
    BY <1>1, <1>3 DEF TabIsSound
  <2> QED BY <2>1, EntrySteps DEF Late
<1> HIDE DEF s, e, id
<1>6. q \in [Jobs -> Entries(JobStates)] /\ \A k \in Jobs : q[k] = IF k = id THEN e ELSE tab.jobq[k]
  BY <1>1, <1>3, <1>5, WithQuery
<1> HIDE DEF q
<1>7. /\ x \in Mounts /\ x.jobq = q /\ x.status = s
      /\ x.active = tab.active /\ x.start = tab.start /\ x.answer = tab.answer
      /\ x.observed = tab.observed /\ x.seen = tab.seen
      /\ x.joined = tab.joined /\ x.missed = tab.missed
  BY <1>1, <1>4, <1>6 DEF Mounts
<1> HIDE DEF x
<1>8. /\ jobs' \in [Jobs -> {"none", "gone"} \cup JobStates] /\ listed' \in JobIds
      /\ counted' \in SUBSET Jobs /\ Known(jobs') = Known(jobs)
      /\ Forward(jobs, jobs', counted, counted') /\ ManagerIsSound(listed', jobs', counted')
  <2>1. CASE kind = "unified" /\ jobs[id] = "running"
    <3>1. /\ jobs' = [jobs EXCEPT ![id] = "done"] /\ listed' = NoJob /\ counted' = counted \cup {id}
      BY <1>2, <2>1
    <3>2. \A k \in Jobs : jobs'[k] = IF k = id THEN "done" ELSE jobs[k]
      BY <1>1, <3>1
    <3>3. "gone" \notin Ended /\ "running" \notin Ended /\ "none" \notin Ended /\ "done" \in Ended
          /\ "done" \in JobStates
      BY DEF Ended, JobStates
    <3>4. jobs' \in [Jobs -> {"none", "gone"} \cup JobStates]
      BY <1>1, <3>1, <3>3
    <3>5. Known(jobs') = Known(jobs)
      BY <2>1, <3>2, <3>3 DEF Known
    <3>6. Forward(jobs, jobs', counted, counted')
      BY <2>1, <3>1, <3>2, <3>3 DEF Forward, Forgot
    <3>7. ManagerIsSound(listed', jobs', counted')
      BY <1>1, <3>1, <3>2, <3>3 DEF ManagerIsSound
    <3> QED BY <1>1, <1>3, <3>1, <3>4, <3>5, <3>6, <3>7 DEF JobIds
  <2>2. CASE ~(kind = "unified" /\ jobs[id] = "running")
    <3>1. UNCHANGED <<jobs, listed, counted>>
      BY <1>2, <2>2
    <3> QED BY <1>1, <3>1, NothingMoves
  <2> QED BY <2>1, <2>2
<1>9. TabIsSound(x, jobs', counted')
  <2>1. /\ x.active # NoJob => jobs'[x.active] # "none"
        /\ x.answer # NoJob => jobs'[x.answer] # "none"
    <3>1. tab.active \in JobIds /\ tab.answer \in JobIds
      BY <1>1 DEF Mounts
    <3> QED BY <1>1, <1>7, <1>8, <3>1 DEF TabIsSound, Forward, JobIds
  <2>2. \A k \in Jobs : \/ x.jobq[k] = tab.jobq[k]
                        \/ /\ jobs[k] # "none" /\ x.jobq[k].data = tab.jobq[k].data
                           /\ x.jobq[k].fetch # "answered"
    BY <1>2, <1>5, <1>6, <1>7
  <2>3. \/ x.status = tab.status
        \/ x.status.data = tab.status.data /\ x.status.got = Nothing /\ x.status.fetch # "answered"
    BY <1>4, <1>7
  <2> QED BY <1>1, <1>7, <1>8, <2>1, <2>2, <2>3, SoundnessStays
<1>10. StartsAreNew(x)
  <2>1. tab.answer \in JobIds
    BY <1>1 DEF Mounts
  <2>2. kind = "backfill" => id = tab.active
    BY DEF id, EffectiveId
  <2>3. kind = "backfill" /\ tab.answer # NoJob => q[tab.answer] = tab.jobq[tab.answer]
    BY <1>1, <1>6, <2>1, <2>2 DEF View, StartsAreNew, JobIds
  <2> QED BY <1>1, <1>4, <1>7, <2>3 DEF View, StartsAreNew
<1>11. \A k : (Covers(tab, k) => Covers(x, k)) /\ (Tells(tab, k) => Tells(x, k))
  BY <1>1, <1>4, <1>7, AskingKeepsPromises
<1>12. SeenIsTold(x, jobs', counted')
  BY <1>1, <1>7, <1>8, <1>11, SeenStays DEF View
<1>13. IsAsked(x, jobs')
  BY <1>3, <1>5, <1>6, <1>7 DEF IsAsked
<1>14. kind # "conversation" /\ ShownJob(x).state \in EndsSeen /\ EffectKey(x) = x.seen
       => Covers(x, ShownJob(x).job)
  BY <1>1, <1>7, <1>11, SameEnd
<1> QED BY <1>1, <1>2, <1>7, <1>8, <1>9, <1>10, <1>12, <1>13, <1>14, RenderedStepKeepsInv

LEMMA StartAnsweredKeepsInv == PanelsInv /\ StartAnswered => PanelsInv'
<1> SUFFICES ASSUME PanelsInv, StartAnswered PROVE PanelsInv'
  OBVIOUS
<1>1. /\ tab \in Mounts /\ tab.status \in Entries(Report) /\ PanelsType
      /\ tab.active \in JobIds /\ tab.answer \in JobIds /\ tab.observed \in JobIds /\ tab.seen \in Keys
      /\ TabIsSound(tab, jobs, counted) /\ View(tab, jobs, counted) /\ ManagerIsSound(listed, jobs, counted)
  BY DEF PanelsInv, PanelsType, Mounts
<1> DEFINE started == tab.answer # NoJob
           s == IF started /\ HasStatusJob THEN Invalidated(tab.status) ELSE tab.status
           heard == [tab EXCEPT !.start = "idle", !.answer = NoJob, !.status = s]
           k == IF kind = "conversation" THEN NoKey ELSE tab.seen
           mounted == [heard EXCEPT !.active = tab.answer, !.seen = k]
<1>2. /\ tab' = Rendered(IF started /\ tab.mine THEN mounted ELSE heard)
      /\ UNCHANGED <<kind, jobs, listed, counted, starts, faults>> /\ tab.start = "answered"
  <2>1. heard.seen = tab.seen
    BY <1>1 DEF Mounts
  <2> QED BY <2>1 DEF StartAnswered
<1>3. /\ s \in Entries(Report) /\ s.data = tab.status.data
      /\ s = tab.status \/ (s.got = Nothing /\ s.fetch = "sent")
      /\ s = tab.status \/ s = Invalidated(tab.status)
  <2>1. Invalidated(tab.status) = tab.status \/ Invalidated(tab.status) = Sent(tab.status)
    BY DEF Invalidated, Joined
  <2>2. Sent(tab.status).got = Nothing /\ Sent(tab.status).fetch = "sent"
    BY <1>1 DEF Sent, Entries
  <2> QED BY <1>1, <2>1, <2>2, EntrySteps
<1> HIDE DEF s
<1>4. NoJob \in JobIds /\ NoKey \in Keys
  BY DEF JobIds, NoKey, Keys
<1>5. /\ heard \in Mounts /\ heard.status = s
      /\ heard.active = tab.active /\ heard.start = "idle" /\ heard.answer = NoJob
      /\ heard.jobq = tab.jobq /\ heard.observed = tab.observed /\ heard.seen = tab.seen
      /\ heard.joined = tab.joined /\ heard.missed = tab.missed
  BY <1>1, <1>3, <1>4 DEF Mounts
<1> HIDE DEF heard
<1>6. k \in Keys
  BY <1>1, <1>4
<1> HIDE DEF k
<1>7. /\ mounted \in Mounts /\ mounted.status = s
      /\ mounted.active = tab.answer /\ mounted.start = "idle" /\ mounted.answer = NoJob
      /\ mounted.jobq = tab.jobq /\ mounted.observed = tab.observed /\ mounted.seen = k
      /\ mounted.joined = tab.joined /\ mounted.missed = tab.missed
  BY <1>1, <1>5, <1>6 DEF Mounts
<1> HIDE DEF mounted
<1>8. \A j : /\ (Covers(tab, j) => Covers(heard, j)) /\ (Tells(tab, j) => Tells(heard, j))
             /\ (Covers(tab, j) => Covers(mounted, j))
  BY <1>1, <1>3, <1>5, <1>7, AskingKeepsPromises
<1>9. IsAsked(heard, jobs) /\ IsAsked(mounted, jobs)
  BY <1>1, <1>5, <1>7 DEF View, IsAsked
<1>10. \/ s = tab.status
       \/ s.data = tab.status.data /\ s.got = Nothing /\ s.fetch # "answered"
  BY <1>3
<1>11. CASE ~(started /\ tab.mine)
  <2>1. TabIsSound(heard, jobs, counted)
    <3>1. heard.active # NoJob => jobs[heard.active] # "none"
      BY <1>1, <1>5 DEF TabIsSound
    <3> QED BY <1>1, <1>5, <1>10, <3>1, NothingMoves, SoundnessStays
  <2>2. StartsAreNew(heard)
    BY <1>1, <1>2, <1>3, <1>5 DEF View, StartsAreNew
  <2>3. SeenIsTold(heard, jobs, counted)
    BY <1>1, <1>5, <1>8, NothingMoves, SeenStays DEF View, PanelsType
  <2>4. kind # "conversation" /\ ShownJob(heard).state \in EndsSeen /\ EffectKey(heard) = heard.seen
        => Covers(heard, ShownJob(heard).job)
    BY <1>1, <1>5, <1>8, SameEnd
  <2> QED BY <1>1, <1>2, <1>5, <1>9, <1>11, <2>1, <2>2, <2>3, <2>4, RenderedStepKeepsInv DEF PanelsType
<1>12. CASE started /\ tab.mine
  <2>1. tab.answer \in Jobs
    BY <1>1, <1>12 DEF JobIds
  <2>2. TabIsSound(mounted, jobs, counted)
    <3>1. jobs[tab.answer] # "none"
      BY <1>1, <1>12 DEF TabIsSound
    <3> QED BY <1>1, <1>7, <1>10, <3>1, NothingMoves, SoundnessStays
  <2>3. StartsAreNew(mounted)
    BY <1>1, <1>2, <1>3, <1>7 DEF View, StartsAreNew
  <2>4. SeenIsTold(mounted, jobs, counted)
    BY <1>7 DEF SeenIsTold, k
  <2>5. kind # "conversation" /\ ShownJob(mounted).state \in EndsSeen /\ EffectKey(mounted) = mounted.seen
        => Covers(mounted, ShownJob(mounted).job)
    <3>1. CASE kind = "backfill"
      <4>1. EffectiveId(mounted) = tab.answer /\ mounted.jobq[tab.answer].data = Nothing
        BY <1>1, <1>7, <1>12, <3>1 DEF View, StartsAreNew, EffectiveId, Unasked
      <4>2. ShownJob(mounted) = NoKey
        BY <3>1, <4>1 DEF ShownJob, HasStatusJob
      <4> QED BY <4>2 DEF NoKey, EndsSeen, Ended
    <3>2. CASE kind # "backfill" /\ kind # "conversation"
      <4>1. mounted.seen = tab.seen
        BY <1>7, <3>2 DEF k
      <4> QED BY <1>1, <1>7, <1>8, <3>2, <4>1, SameEnd
    <3> QED BY <3>1, <3>2
  <2> QED BY <1>1, <1>2, <1>7, <1>9, <1>12, <2>2, <2>3, <2>4, <2>5, RenderedStepKeepsInv DEF PanelsType
<1> QED BY <1>11, <1>12

LEMMA StepKeepsPanelsInv == PanelsInv /\ [PanelsNext]_panelVars => PanelsInv'
<1> SUFFICES ASSUME PanelsInv, [PanelsNext]_panelVars PROVE PanelsInv'
  OBVIOUS
<1>1. CASE PressStart \/ StartAnswered \/ Cancel \/ Focus \/ Remount
  BY <1>1, PressStartKeepsInv, StartAnsweredKeepsInv, CancelKeepsInv, FocusKeepsInv, RemountKeepsInv
<1>2. CASE Refresh \/ PollStatus
  BY <1>2, AskingStatusKeepsInv DEF Refresh, PollStatus
<1>3. CASE AnswerStatus \/ TakeStatus \/ ServeStart
  BY <1>3, AnswerStatusKeepsInv, TakeStatusKeepsInv, ServeStartKeepsInv
<1>4. ASSUME NEW j \in Jobs, PollJob(j) \/ TakeJob(j) \/ JobNotFound(j) \/ Finish(j) PROVE PanelsInv'
  BY <1>4, PollJobKeepsInv, TakeJobKeepsInv, JobNotFoundKeepsInv, FinishKeepsInv
<1>5. CASE StartElsewhere \/ Lost \/ GatewayRestarts
  BY <1>5, StartElsewhereKeepsInv, LostKeepsInv, GatewayRestartsKeepsInv
<1>6. CASE UNCHANGED panelVars
  <2>1. kind' = kind /\ tab' = tab /\ jobs' = jobs /\ listed' = listed /\ counted' = counted
        /\ starts' = starts /\ faults' = faults
    BY <1>6 DEF panelVars
  <2>2. PanelsType' /\ StartsAreCounted' /\ ManagerIsSound(listed', jobs', counted')
    BY <2>1 DEF PanelsInv, PanelsType, StartsAreCounted
  <2> QED BY <2>1, <2>2, InvAssembled DEF PanelsInv
<1> QED BY <1>1, <1>2, <1>3, <1>4, <1>5, <1>6 DEF PanelsNext

\* A locked panel of whatever kind is about to learn that no job runs.
LEMMA LockedWaits == PanelsInv => LockedIsWaiting
<1> SUFFICES ASSUME PanelsInv, Locked(tab) PROVE LockedIsWaiting
  BY DEF LockedIsWaiting
<1>1. /\ tab \in Mounts /\ tab.status \in Entries(Report) /\ tab.status.fetch \in {"idle", "sent", "answered"}
      /\ tab.observed \in JobIds /\ \A j \in Jobs : tab.jobq[j].data \in JobStates \cup {Nothing}
      /\ TabIsSound(tab, jobs, counted) /\ View(tab, jobs, counted)
  BY DEF PanelsInv, PanelsType, Mounts, Entries
<1> DEFINE id == EffectiveId(tab)
           r == StatusOf(tab)
<1>2. id = tab.observed /\ (Forgotten <=> Forgot(jobs))
  BY <1>1 DEF View, Forgotten, Forgot
<1>3. /\ r.state = "running" => r.job # NoJob
      /\ tab.status.fetch = "answered" /\ tab.status.got.state = "running" => tab.status.got.job # NoJob
  BY <1>1 DEF TabIsSound, IsSound, StatusOf, NoReport
<1>4. ASSUME id # NoJob, tab.jobq[id].data = "running" PROVE LockedIsWaiting
  <2>1. id \in Jobs /\ JobPolled(tab, id)
    BY <1>1, <1>2, <1>4 DEF JobPolled, JobIds
  <2> QED BY <1>2, <2>1 DEF LockedIsWaiting
<1>5. ASSUME HasStatusJob, r.state = "running" PROVE LockedIsWaiting
  BY <1>5 DEF LockedIsWaiting, StatusComing, StatusPolled
<1>6. CASE ShownJob(tab).state = "running"
  BY <1>4, <1>5, <1>6 DEF ShownJob, NoKey
<1>7. CASE kind = "conversation" /\ r.state = "running" /\ ShownJob(tab).state # "running"
  <2>1. CASE r.job # id
    <3>1. NamesAnother(r)
      BY <1>2, <1>3, <1>7, <2>1 DEF NamesAnother
    <3> QED BY <1>7, <3>1 DEF LockedIsWaiting
  <2>2. CASE r.job = id
    <3>1. id \in Jobs /\ id # NoJob
      BY <1>1, <1>2, <1>3, <1>7, <2>2 DEF JobIds
    <3>2. CASE tab.jobq[id].data # Nothing
      <4>1. ShownJob(tab) = [job |-> id, state |-> tab.jobq[id].data]
        BY <3>1, <3>2 DEF ShownJob
      <4>2. ShownJob(tab).state \in Ended /\ ShownJob(tab).job = id
        BY <1>1, <1>7, <3>1, <3>2, <4>1 DEF JobStates
      <4>3. Forgotten \/ Tells(tab, id)
        BY <1>1, <1>2, <1>7, <4>2 DEF View, EndIsTold
      <4>4. CASE Forgotten
        BY <4>4 DEF LockedIsWaiting
      <4>5. CASE tab.missed \/ tab.status.fetch = "sent"
        BY <1>7, <4>5 DEF LockedIsWaiting, StatusComing
      <4>6. CASE tab.status.fetch = "answered" /\ ~SaysRuns(tab.status.got, id)
        <5>1. CASE tab.status.got.state # "running"
          BY <4>6, <5>1 DEF LockedIsWaiting, StatusComing, StatusArrives
        <5>2. CASE tab.status.got.state = "running"
          <6>1. NamesAnother(tab.status.got)
            BY <1>2, <1>3, <4>6, <5>2 DEF NamesAnother, SaysRuns
          <6> QED BY <4>6, <6>1 DEF LockedIsWaiting, StatusComing, StatusArrives
        <5> QED BY <5>1, <5>2
      <4>7. CASE tab.status.fetch = "idle" /\ ~SaysRuns(r, id)
        BY <1>7, <2>2, <4>7 DEF SaysRuns
      <4> QED BY <4>3, <4>4, <4>5, <4>6, <4>7 DEF Tells
    <3>3. CASE tab.jobq[id].data = Nothing
      <4>1. tab.jobq[id].fetch = "sent" \/ tab.missed \/ Forgotten
        BY <1>1, <1>2, <3>1, <3>3 DEF View, IsAsked
      <4> QED BY <1>2, <1>7, <3>1, <4>1 DEF LockedIsWaiting
    <3> QED BY <3>2, <3>3
  <2> QED BY <2>1, <2>2
<1> QED BY <1>6, <1>7 DEF Locked

LEMMA CoverageComes == PanelsInv => CoverageCatchesUp
<1> SUFFICES ASSUME PanelsInv, ShownJob(tab).state \in Ended PROVE CoverageCatchesUp
  BY DEF CoverageCatchesUp
<1>1. CASE ShownJob(tab).state \in EndsSeen
  <2>1. Covers(tab, ShownJob(tab).job)
    BY <1>1 DEF PanelsInv, View, EndIsTold
  <2> QED BY <2>1 DEF Covers, CoverageCatchesUp, StatusComing, StatusArrives
<1>2. CASE kind = "backfill" /\ ShownJob(tab).state = "partial"
  BY <1>2 DEF CoverageCatchesUp
<1> QED BY <1>1, <1>2 DEF EndsSeen, Ended

\* What the gateway knows of its jobs, what the tab has heard of them, and what is
\* still on its way to it agree, after any starts, faults and restarts.
THEOREM PanelsInvariant == PanelsSpec => []PanelsInv
BY InitPanelsInv, StepKeepsPanelsInv, PTL DEF PanelsSpec

\* A panel whose buttons are locked while no job runs is about to learn it.
THEOREM LockedPanelsWait == PanelsSpec => []LockedIsWaiting
BY PanelsInvariant, LockedWaits, PTL

\* The coverage beside a job shown as ended counts it, or soon will, but for a lost
\* query, a joined refetch and a backfill that completed with errors.
THEOREM CoverageFollows == PanelsSpec => []CoverageCatchesUp
BY PanelsInvariant, CoverageComes, PTL

-----------------------------------------------------------------------------
\* What the user decided on a proposal, or changed in a memory, is shown or under way
\* to the page, for any proposals, decisions and changes, here and elsewhere.
THEOREM OwnChangesShow == WebUISpec => []OwnChangesAreShown
<1>1. WebUIInit => ReviewInv /\ LibraryInv
  BY InitReviewInv, InitLibraryInv DEF WebUIInit
<1>2. [WebUINext]_webuiVars => [ReviewNext]_reviewVars /\ [LibraryNext]_libraryVars
  BY DEF WebUINext, webuiVars, pages, ClientSteps, PanelsSteps, ReviewSteps, LibrarySteps, FormsSteps,
         ExplorerSteps, SecretsSteps
<1>3. ReviewInv /\ LibraryInv /\ [WebUINext]_webuiVars => (ReviewInv /\ LibraryInv)'
  BY <1>2, StepKeepsReviewInv, StepKeepsLibraryInv
<1>4. ReviewInv => OwnDecisionsAreShown
  <2> SUFFICES ASSUME ReviewInv PROVE OwnDecisionsAreShown
    OBVIOUS
  <2>1. /\ desk.list \in Entries(Listing) /\ desk.detail \in Entries(Detail)
        /\ desk.joined \/ (IsFresh(desk.list, desk.own) /\ IsFresh(desk.detail, desk.own))
    BY DEF ReviewInv, DeskIsFresh, Desks
  <2>2. /\ desk.joined \/ UpToDate(desk.list, desk.own) \/ CatchesUp(desk.list, desk.own)
        /\ desk.joined \/ UpToDate(desk.detail, desk.own) \/ CatchesUp(desk.detail, desk.own)
    BY <2>1, FreshSteps
  <2> QED BY <2>2 DEF OwnDecisionsAreShown
<1>5. LibraryInv => OwnEditsAreShown
  <2> SUFFICES ASSUME LibraryInv PROVE OwnEditsAreShown
    OBVIOUS
  <2>1. Page(shelf) \in Entries(Snapshots) /\ (shelf.caught \/ IsFresh(Page(shelf), shelf.own))
    BY DEF LibraryInv, ShelfIsFresh, Shelves, Page
  <2> QED BY <2>1, FreshSteps DEF OwnEditsAreShown
<1>6. ReviewInv /\ LibraryInv => OwnChangesAreShown
  BY <1>4, <1>5 DEF OwnChangesAreShown
<1> QED BY <1>1, <1>3, <1>6, PTL DEF WebUISpec

-----------------------------------------------------------------------------
(* What the invariants above leave out of the types. A decision is sent for *)
(* proposals there are, and a secret is that of a credential made.         *)

DecisionsAreOfProposals ==
    /\ ShownIds(desk) = {} => desk.observed = NoProposal
    /\ desk.call.ids \subseteq Proposals

LEMMA DisplayedIsListed ==
    ASSUME NEW d \in Desks
    PROVE  /\ Displayed(d).list = d.list /\ Displayed(d).call = d.call
           /\ ShownIds(Displayed(d)) = {} => Displayed(d).observed = NoProposal
<1> DEFINE p == SelectedProposalId(d)
           e == IF p = NoProposal THEN Unasked ELSE Sent(Unasked)
<1>1. ShownIds(d) = {} => p = NoProposal
  BY DEF SelectedProposalId
<1>2. CASE p = d.observed
  BY <1>1, <1>2 DEF Displayed
<1>3. CASE p # d.observed
  <2>1. Displayed(d) = [d EXCEPT !.observed = p, !.detail = e]
    BY <1>3 DEF Displayed
  <2> HIDE DEF p, e
  <2>2. Displayed(d).list = d.list /\ Displayed(d).call = d.call /\ Displayed(d).observed = p
    BY <2>1 DEF Desks
  <2> QED BY <1>1, <2>2 DEF ShownIds
<1> QED BY <1>2, <1>3

LEMMA StepKeepsDecisions ==
    ReviewInv /\ DecisionsAreOfProposals /\ [ReviewNext]_reviewVars => DecisionsAreOfProposals'
<1> SUFFICES ASSUME ReviewInv, DecisionsAreOfProposals, [ReviewNext]_reviewVars
             PROVE  DecisionsAreOfProposals'
  OBVIOUS
<1>1. /\ desk \in Desks /\ desk.list \in Entries(Listing) /\ desk.detail \in Entries(Detail)
      /\ desk.checked \subseteq Proposals /\ desk.call.ids \subseteq Proposals
      /\ desk.observed = NoProposal => desk.detail.data = Nothing
  BY DEF ReviewInv, DeskIsFresh, Desks, DecisionsAreOfProposals
<1>2. NoCall.ids = {}
  BY DEF NoCall
\* Most steps change neither the list shown nor the proposal observed.
<1>3. ASSUME desk'.list.data = desk.list.data, desk'.observed = desk.observed,
             desk'.call.ids = desk.call.ids \/ desk'.call.ids \subseteq Proposals
      PROVE  DecisionsAreOfProposals'
  BY <1>3 DEF DecisionsAreOfProposals, ShownIds
<1>4. ASSUME NEW d \in Desks, desk' = Displayed(d), d.call = desk.call
      PROVE  DecisionsAreOfProposals'
  BY <1>1, <1>4, DisplayedIsListed DEF DecisionsAreOfProposals, ShownIds
<1>5. ASSUME NEW f \in Filters, SetStatusFilter(f) PROVE DecisionsAreOfProposals'
  <2> DEFINE e == Sent(Unasked)
             d == [desk EXCEPT !.filter = f, !.list = e, !.checked = {}]
  <2>1. e \in Entries(Listing)
    BY DEF Sent, Unasked, Entries
  <2>2. desk' = Displayed(d)
    BY <1>5 DEF SetStatusFilter
  <2> HIDE DEF e
  <2>3. d \in Desks /\ d.call = desk.call
    BY <1>1, <2>1 DEF Desks
  <2> HIDE DEF d
  <2> QED BY <1>4, <2>2, <2>3
<1>6. ASSUME NEW p \in Proposals, SelectRow(p) \/ ToggleSelected(p) PROVE DecisionsAreOfProposals'
  <2>1. CASE SelectRow(p)
    <3> DEFINE d == [desk EXCEPT !.selectedId = p]
    <3>1. desk' = Displayed(d) /\ d \in Desks /\ d.call = desk.call
      BY <1>1, <2>1 DEF SelectRow, Desks
    <3> HIDE DEF d
    <3> QED BY <1>4, <3>1
  <2>2. CASE ToggleSelected(p)
    BY <1>1, <1>3, <2>2 DEF ToggleSelected, Desks
  <2> QED BY <1>6, <2>1, <2>2
<1>7. CASE TakeList
  <2> DEFINE e == Taken(desk.list)
             d == [desk EXCEPT !.list = e]
  <2>1. e \in Entries(Listing) /\ desk' = Displayed(d)
    BY <1>1, <1>7, EntrySteps DEF TakeList
  <2> HIDE DEF e
  <2>2. d \in Desks /\ d.call = desk.call
    BY <1>1, <2>1 DEF Desks
  <2> HIDE DEF d
  <2> QED BY <1>4, <2>1, <2>2
<1>8. CASE AnswerList
  <2> DEFINE now == [after |-> decisions, ids |-> Listed(desk.filter)]
             e == Answered(desk.list, now)
  <2>1. e.data = desk.list.data
    BY <1>1 DEF Answered, Entries
  <2>2. desk' = [desk EXCEPT !.list = e]
    BY <1>8 DEF AnswerList
  <2> HIDE DEF e
  <2>3. desk'.list = e /\ desk'.observed = desk.observed /\ desk'.call = desk.call
    BY <1>1, <2>2 DEF Desks
  <2> QED BY <1>3, <2>1, <2>3
<1>9. CASE TakeDetail \/ ToggleAllVisible
  BY <1>1, <1>3, <1>9 DEF TakeDetail, ToggleAllVisible, Desks
<1>10. CASE RefetchDesk
  <2> DEFINE e == Joined(desk.list)
             f == IF desk.observed = NoProposal THEN desk.detail ELSE Joined(desk.detail)
  <2>1. e.data = desk.list.data
    BY <1>1, EntrySteps
  <2>2. desk' = [desk EXCEPT !.list = e, !.detail = f]
    BY <1>10 DEF RefetchDesk
  <2> HIDE DEF e, f
  <2>3. desk'.list = e /\ desk'.observed = desk.observed /\ desk'.call = desk.call
    BY <1>1, <2>2 DEF Desks
  <2> QED BY <1>3, <2>1, <2>3
<1>11. ASSUME NEW ids \in SUBSET Proposals, NEW to, NEW batch, Sends(ids, to, batch)
       PROVE  DecisionsAreOfProposals'
  <2> DEFINE c == [at |-> "sent", ids |-> ids, to |-> to, batch |-> batch, after |-> 0]
  <2>1. desk' = [desk EXCEPT !.call = c] /\ c.ids = ids
    BY <1>11 DEF Sends
  <2> HIDE DEF c
  <2>2. desk'.list = desk.list /\ desk'.observed = desk.observed /\ desk'.call = c
    BY <1>1, <2>1 DEF Desks
  <2> QED BY <1>3, <2>1, <2>2
<1>12. ASSUME NEW to \in Decision, DecideSelected(to) PROVE DecisionsAreOfProposals'
  <2>1. desk.detail.data # Nothing
    <3>1. "none" \notin Saveable /\ "none" \notin Open
      BY DEF Saveable, Open
    <3> QED BY <1>12, <3>1 DEF DecideSelected, ShownStatus
  <2>2. ShownIds(desk) # {}
    BY <1>1, <2>1 DEF DecisionsAreOfProposals
  <2>3. ShownIds(desk) \subseteq Proposals
    BY <1>1 DEF ShownIds, Entries, Listing
  <2>4. (CHOOSE q \in ShownIds(desk) : TRUE) \in ShownIds(desk)
    BY <2>2, Zenon
  <2>5. SelectedProposalId(desk) \in Proposals
    BY <2>2, <2>3, <2>4 DEF SelectedProposalId
  <2>6. {SelectedProposalId(desk)} \in SUBSET Proposals
        /\ Sends({SelectedProposalId(desk)}, to, FALSE)
    BY <1>12, <2>5 DEF DecideSelected
  <2> QED BY <1>11, <2>6
<1>13. ASSUME NEW to \in Decision, RunBatch(to) PROVE DecisionsAreOfProposals'
  BY <1>1, <1>11, <1>13 DEF RunBatch
<1>14. CASE DecisionAnswered
  <2> DEFINE e == Invalidated(desk.list)
             f == IF desk.observed = NoProposal THEN desk.detail ELSE Invalidated(desk.detail)
             j == desk.joined \/ (desk.list.data = Nothing /\ Late(desk.list))
             d == [desk EXCEPT !.list = e, !.detail = f, !.joined = j]
             k == IF desk.call.batch THEN {} ELSE d.checked
  <2>1. e.data = desk.list.data
    BY <1>1, EntrySteps
  <2>2. desk' = [d EXCEPT !.call = NoCall, !.own = desk.call.after, !.checked = k]
    BY <1>14 DEF DecisionAnswered, Invalidates
  <2> HIDE DEF e, f, j, k
  <2>3. desk'.list = e /\ desk'.observed = desk.observed /\ desk'.call = NoCall
    BY <1>1, <2>2 DEF Desks
  <2> QED BY <1>2, <1>3, <2>1, <2>3
<1>15. CASE ServeDecision
  <2> DEFINE applies == Decided(desk.call.ids, desk.call.to) # proposals
             c == IF applies \/ desk.call.batch
                  THEN [NoCall EXCEPT !.at = "answered", !.batch = desk.call.batch, !.after = decisions']
                  ELSE NoCall
  <2>1. c.ids = {}
    BY DEF NoCall
  <2>2. desk' = [desk EXCEPT !.call = c]
    BY <1>15 DEF ServeDecision
  <2> HIDE DEF c
  <2>3. desk'.list = desk.list /\ desk'.observed = desk.observed /\ desk'.call = c
    BY <1>1, <2>2 DEF Desks
  <2> QED BY <1>3, <2>1, <2>3
<1>16. CASE LoseDecision
  BY <1>1, <1>2, <1>3, <1>16 DEF LoseDecision, Desks
<1>17. ASSUME NEW p \in Proposals, NEW to \in Decision, DecideElsewhere(p, to)
       PROVE  DecisionsAreOfProposals'
  BY <1>3, <1>17 DEF DecideElsewhere
<1>18. CASE UNCHANGED reviewVars
  BY <1>3, <1>18 DEF reviewVars
<1> QED
  BY <1>5, <1>6, <1>7, <1>8, <1>9, <1>10, <1>12, <1>13, <1>14, <1>15, <1>16, <1>17, <1>18 DEF ReviewNext

LEMMA ReviewTypes == ReviewInv /\ DecisionsAreOfProposals => ReviewTypeOK
<1> SUFFICES ASSUME ReviewInv, DecisionsAreOfProposals PROVE ReviewTypeOK
  OBVIOUS
<1>1. /\ desk \in Desks /\ desk.call \in DeskCalls /\ desk.call.ids \subseteq Proposals
      /\ proposals \in [Proposals -> Open \cup Closed] /\ decisions \in 0..MaxDecisions
  BY DEF ReviewInv, DeskIsFresh, Desks, DecisionsAreOfProposals
<1>2. desk.call \in [at : {"idle", "sent", "answered"}, ids : SUBSET Proposals, to : Decision,
                     batch : BOOLEAN, after : 0..MaxDecisions]
  BY <1>1 DEF DeskCalls
<1> QED BY <1>1, <1>2 DEF ReviewTypeOK, Desks, Entries, IsEntry

\* The numbers of the credentials made.
SecretsAreMade ==
    /\ desktop.created \in 0..made /\ desktop.call.secret \in 0..made
    /\ valid \subseteq 1..made /\ seen \subseteq 1..made /\ dropped \subseteq 1..made

LEMMA StepKeepsMade ==
    SecretsInv /\ SecretsAreMade /\ [SecretsNext]_secretVars => SecretsAreMade'
<1> SUFFICES ASSUME SecretsInv, SecretsAreMade, [SecretsNext]_secretVars PROVE SecretsAreMade'
  OBVIOUS
<1>1. desktop \in Desktops /\ desktop.call \in Creates /\ made \in Nat
  BY DEF SecretsInv, SecretsType, Desktops
<1>2. ASSUME NEW d, Renders(d), made' = made, valid' \subseteq valid, d.created \in 0..made,
             d.call.secret \in 0..made, dropped' \subseteq 1..made
      PROVE  SecretsAreMade'
  <2>1. OnScreen(d) => d.created \in 1..made
    BY <1>1, <1>2 DEF OnScreen, NoSecret
  <2> QED BY <1>2, <2>1 DEF Renders, SecretsAreMade
<1>3. NoSecret \in 0..made /\ NoCreate.secret \in 0..made
  BY <1>1 DEF NoSecret, NoCreate
<1>4. /\ desktop.created \in 0..made /\ desktop.call.secret \in 0..made
      /\ valid \subseteq 1..made /\ seen \subseteq 1..made /\ dropped \subseteq 1..made
  BY DEF SecretsAreMade
<1>5. CASE OpenEditor \/ CloseDialog \/ TakeRows \/ PollRows
  <2>1. CASE OpenEditor
    BY <1>1, <1>2, <1>3, <1>4, <2>1 DEF OpenEditor, Desktops
  <2>2. CASE CloseDialog
    <3>1. CASE Renders([desktop EXCEPT !.editor = FALSE])
      BY <1>1, <1>2, <1>4, <2>2, <3>1 DEF CloseDialog, Desktops
    <3>2. CASE Renders([desktop EXCEPT !.created = NoSecret])
      BY <1>1, <1>2, <1>3, <1>4, <2>2, <3>2 DEF CloseDialog, Desktops
    <3> QED BY <2>2, <3>1, <3>2 DEF CloseDialog
  <2>3. CASE TakeRows
    BY <1>1, <1>2, <1>4, <2>3 DEF TakeRows, Desktops
  <2>4. CASE PollRows
    BY <1>1, <1>2, <1>4, <2>4 DEF PollRows, Desktops
  <2> QED BY <1>5, <2>1, <2>2, <2>3, <2>4
<1>6. CASE HandleCreate
  <2> DEFINE c == [at |-> "sent", secret |-> NoSecret, heard |-> "yes"]
             d == [desktop EXCEPT !.call = c]
  <2>1. c.secret = NoSecret
    OBVIOUS
  <2> HIDE DEF c
  <2>2. d.created = desktop.created /\ d.call = c
    BY <1>1 DEF Desktops
  <2>3. Renders(d) /\ UNCHANGED <<made, valid, dropped>>
    BY <1>6 DEF HandleCreate, c
  <2> HIDE DEF d
  <2> QED BY <1>2, <1>3, <1>4, <2>1, <2>2, <2>3
<1>7. CASE ServeCreate
  <2>1. /\ made' = made + 1 /\ valid' = valid \cup {made + 1} /\ UNCHANGED <<seen, dropped>>
        /\ desktop' = [desktop EXCEPT !.call.at = "answered", !.call.secret = made + 1]
    BY <1>7 DEF ServeCreate
  <2>2. desktop'.created = desktop.created /\ desktop'.call.secret = made + 1
    BY <1>1, <2>1 DEF Desktops, Creates
  <2> QED BY <1>1, <1>4, <2>1, <2>2 DEF SecretsAreMade
<1>8. CASE CreateAnswered
  <2> DEFINE secret == desktop.call.secret
             rows == Invalidated(desktop.rows)
             done == [desktop EXCEPT !.call = NoCreate, !.rows = rows]
             d == IF desktop.call.heard = "yes" THEN PutSecret(done, secret) ELSE done
  <2>1. secret \in 1..made
    BY <1>1, <1>4, <1>8 DEF CreateAnswered, SecretsInv, AnswersCarryTheirSecret, NoSecret
  <2>2. /\ Renders(d) /\ UNCHANGED <<made, valid>> /\ dropped' \subseteq dropped \cup {secret}
    BY <1>8 DEF CreateAnswered
  <2> HIDE DEF secret, rows
  <2>3. done \in [kind : {"apiKeys", "oauth"}, editor : BOOLEAN, created : 0..MaxSecrets,
                  confirm : 0..MaxSecrets, rows : {rows}, call : {NoCreate}]
        /\ done.created = desktop.created /\ done.call = NoCreate
    BY <1>1 DEF Desktops
  <2> HIDE DEF done
  <2>4. PutSecret(done, secret).created = secret /\ PutSecret(done, secret).call = NoCreate
    BY <2>3 DEF PutSecret
  <2>5. d.created \in 0..made /\ d.call = NoCreate
    BY <1>1, <1>4, <2>1, <2>3, <2>4
  <2> HIDE DEF d
  <2> QED BY <1>2, <1>3, <1>4, <2>1, <2>2, <2>5
<1>9. CASE LoseCreate
  <2> DEFINE d == [desktop EXCEPT !.call = NoCreate]
  <2>1. d.created = desktop.created /\ d.call = NoCreate
    BY <1>1 DEF Desktops
  <2>2. dropped' \subseteq 1..made
    BY <1>1, <1>4, <1>9 DEF LoseCreate, SecretsInv, AnswersCarryTheirSecret, NoSecret
  <2>3. Renders(d) /\ UNCHANGED <<made, valid>>
    BY <1>9 DEF LoseCreate
  <2> HIDE DEF d
  <2> QED BY <1>2, <1>3, <1>4, <2>1, <2>2, <2>3
<1>10. CASE RemountSecrets
  <2> DEFINE rows == Joined(desktop.rows)
             d == [desktop EXCEPT !.editor = FALSE, !.created = NoSecret, !.confirm = NoSecret,
                                  !.call.heard = "left", !.rows = rows]
  <2>1. Renders(d) /\ UNCHANGED <<made, valid, dropped>>
    BY <1>10 DEF RemountSecrets
  <2> HIDE DEF rows
  <2>2. d.created = NoSecret /\ d.call.secret = desktop.call.secret
    BY <1>1 DEF Desktops, Creates
  <2> HIDE DEF d
  <2> QED BY <1>2, <1>3, <1>4, <2>1, <2>2
<1>11. ASSUME NEW s \in 1..MaxSecrets, AskRevoke(s) PROVE SecretsAreMade'
  <2> DEFINE d == [desktop EXCEPT !.confirm = s]
  <2>1. d.created = desktop.created /\ d.call = desktop.call
        /\ Renders(d) /\ UNCHANGED <<made, valid, dropped>>
    BY <1>1, <1>11 DEF AskRevoke, Desktops
  <2> HIDE DEF d
  <2> QED BY <1>2, <1>4, <2>1
<1>12. CASE ConfirmRevoke
  <2>1. UNCHANGED <<made, dropped>>
    BY <1>12 DEF ConfirmRevoke
  <2> DEFINE rows == Invalidated(desktop.rows)
             h == IF desktop.kind = "oauth" /\ Pending THEN "replaced" ELSE desktop.call.heard
             d == [desktop EXCEPT !.confirm = NoSecret, !.rows = rows, !.call.heard = h]
             c == [desktop EXCEPT !.confirm = NoSecret]
  <2>2. \/ Renders(d) /\ valid' = valid \ {desktop.confirm}
        \/ Renders(c) /\ valid' = valid
    BY <1>12 DEF ConfirmRevoke
  <2> HIDE DEF rows, h
  <2>3. d.created = desktop.created /\ d.call.secret = desktop.call.secret
        /\ c.created = desktop.created /\ c.call.secret = desktop.call.secret
    BY <1>1 DEF Desktops, Creates
  <2> HIDE DEF c, d
  <2> QED BY <1>2, <1>4, <2>1, <2>2, <2>3
<1>13. CASE UNCHANGED secretVars
  BY <1>13 DEF secretVars, SecretsAreMade
<1> QED BY <1>5, <1>6, <1>7, <1>8, <1>9, <1>10, <1>11, <1>12, <1>13 DEF SecretsNext

LEMMA SecretsTypes == SecretsInv /\ SecretsAreMade => SecretsTypeOK
<1> SUFFICES ASSUME SecretsInv, SecretsAreMade PROVE SecretsTypeOK
  OBVIOUS
<1>1. desktop \in Desktops /\ desktop.call \in Creates /\ made \in 0..MaxSecrets
      /\ desktop.rows \in Entries(SUBSET (1..MaxSecrets))
  BY DEF SecretsInv, SecretsType, Desktops
<1>2. desktop.call \in [at : {"idle", "sent", "answered"}, secret : 0..MaxSecrets,
                        heard : {"yes", "left", "replaced"}]
  BY <1>1 DEF Creates
<1> QED BY <1>1, <1>2 DEF SecretsTypeOK, SecretsAreMade, Desktops, Entries, IsEntry

\* The types of every part, with what keeps them.
PartsInv ==
    /\ part \in Parts
    /\ ClientTypeOK /\ PanelsInv /\ LibraryInv
    /\ ReviewInv /\ DecisionsAreOfProposals
    /\ FormsInv /\ writable \in BOOLEAN
    /\ ExplorerInv /\ readFullNote \in BOOLEAN
    /\ SecretsInv /\ SecretsAreMade

\* Whichever part runs, every variable of the Web UI keeps its type: a decision is
\* never sent for a proposal that is not there, an entry of the cache holds what its
\* query asks for, and a secret is that of a credential made.
THEOREM WebUITypeCorrect == WebUISpec => []WebUITypeOK
<1>1. WebUIInit => PartsInv
  <2> SUFFICES ASSUME WebUIInit PROVE PartsInv
    OBVIOUS
  <2>1. /\ part \in Parts /\ ClientInit /\ PanelsInit /\ ReviewInit /\ LibraryInit /\ FormsInit
        /\ ExplorerInit /\ SecretsInit
    BY DEF WebUIInit
  <2>2. DecisionsAreOfProposals
    BY <2>1 DEF ReviewInit, DecisionsAreOfProposals, NoCall
  <2>3. writable \in BOOLEAN /\ readFullNote \in BOOLEAN
    BY <2>1 DEF FormsInit, ExplorerInit
  <2>4. SecretsAreMade
    <3>1. desktop.created = NoSecret /\ desktop.call = NoCreate
      BY <2>1 DEF SecretsInit
    <3> QED BY <2>1, <3>1 DEF SecretsInit, SecretsAreMade, NoCreate, NoSecret
  <2> QED BY <2>1, <2>2, <2>3, <2>4, InitHasType, InitPanelsInv, InitReviewInv, InitLibraryInv,
             InitFormsInv, InitExplorerInv, InitSecretsInv DEF PartsInv
<1>2. PartsInv /\ [WebUINext]_webuiVars => PartsInv'
  <2> SUFFICES ASSUME PartsInv, [WebUINext]_webuiVars PROVE PartsInv'
    OBVIOUS
  <2>1. /\ [ClientNext]_clientVars /\ [PanelsNext]_panelVars /\ [ReviewNext]_reviewVars
        /\ [LibraryNext]_libraryVars /\ [FormsNext]_formVars /\ [ExplorerNext]_explorerVars
        /\ [SecretsNext]_secretVars /\ part' = part
    BY DEF WebUINext, webuiVars, pages, ClientSteps, PanelsSteps, ReviewSteps, LibrarySteps, FormsSteps,
           ExplorerSteps, SecretsSteps
  <2>2. writable' = writable
    BY <2>1 DEF FormsNext, formVars, EditKey, EditEnabled, EditMode, HandleSave, SaveMode, ServeSecrets,
                SecretsAnswered, ServeConfig, ConfigAnswered, LoseSave, RemountForm, TakeEffective,
                SaveElsewhere
  <2>3. readFullNote' \in BOOLEAN
    BY <2>1 DEF PartsInv, ExplorerNext, explorerVars, Type, HandleSubmit, ReadNote, ToggleFullNote,
                CloseReader, SetEventType, SetPage, RefetchAnswer, TakeAnswer
  <2> QED BY <2>1, <2>2, <2>3, StepKeepsType, StepKeepsPanelsInv, StepKeepsReviewInv, StepKeepsDecisions,
             StepKeepsLibraryInv, StepKeepsFormsInv, StepKeepsExplorerInv, StepKeepsSecretsInv,
             StepKeepsMade DEF PartsInv
<1>3. PartsInv => WebUITypeOK
  <2> SUFFICES ASSUME PartsInv PROVE WebUITypeOK
    OBVIOUS
  <2>1. part \in Parts /\ ClientTypeOK /\ ReviewTypeOK /\ SecretsTypeOK
    BY ReviewTypes, SecretsTypes DEF PartsInv
  <2>2. PanelsTypeOK
    BY DEF PartsInv, PanelsInv, PanelsType, Mounts, JobIds, JobStates, Keys, Entries, IsEntry, PanelsTypeOK
  <2>3. LibraryTypeOK
    BY DEF PartsInv, LibraryInv, ShelfIsFresh, Shelves, ShelfWrites, Entries, IsEntry, LibraryTypeOK
  <2>4. FormsTypeOK
    BY DEF PartsInv, FormsInv, FormsType, Sheets, Saves, Entries, IsEntry, FormsTypeOK
  <2>5. ExplorerTypeOK
    BY DEF PartsInv, ExplorerInv, ExplorerType, Entries, IsEntry, ExplorerTypeOK
  <2> QED BY <2>1, <2>2, <2>3, <2>4, <2>5 DEF WebUITypeOK
<1> QED BY <1>1, <1>2, <1>3, PTL DEF WebUISpec

=============================================================================

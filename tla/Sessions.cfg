\* Two overlapping hooks, a watcher and a daemon that is owed fairness. A session
\* may end twice, and an operator may claim more messages than there ever are.
SPECIFICATION FairSpec
CONSTANTS
    SessionIds = {s1}
    Hooks = {h1, h2}
    Drains = {daemon}
    Daemons = {daemon}
    ListLimit = 1
    Claims = {3}
    MaxMessages = 2
    MaxEnds = 2
    MaxFaults = 2
INVARIANTS ReconciledWasHeard ObservedIsJustified
PROPERTY EndIsDeclared

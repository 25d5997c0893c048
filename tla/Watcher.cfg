\* A resident watcher that is owed fairness and one that comes and goes, over
\* one growing file; a pass may fail or be killed.
SPECIFICATION FairWatcherSpec
CONSTANTS
    Lines = {l1, l2, l3, l4}
    Unusable = {l4}
    Watchers = {daemon, once}
    Residents = {daemon}
    MaxLines = 3
    MaxFailures = 2
INVARIANTS NothingSkipped
PROPERTY EveryLineIsSpooled

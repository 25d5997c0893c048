\* One resident drain that is owed fairness, one that is not.
SPECIFICATION FairSpec
CONSTANTS
    Events = {e1, e2}
    Drains = {daemon, detached}
    Daemons = {daemon}
    BatchSize = 1
    MaxAttempts = 2
    BaseBackoff = 2
    MaxBackoff = 2
    StaleAfter = 1
    Retention = 0
    MaxPending = 0
    MaxBatches = 1
    Verdicts = {"permanent"}
    Errors = {"network"}
    Prompt = FALSE
    MaxFaults = 1
INVARIANT AckedIsStored
PROPERTY EventuallySettled

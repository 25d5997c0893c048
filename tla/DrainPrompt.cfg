\* Two drains, uploads that end before their rows count as stale.
SPECIFICATION Spec
CONSTANTS
    Events = {e1, e2}
    Drains = {d1, d2}
    Daemons = {}
    BatchSize = 2
    MaxAttempts = 2
    BaseBackoff = 2
    MaxBackoff = 2
    StaleAfter = 2
    Retention = 1
    MaxPending = 1
    MaxBatches = 1
    Verdicts = {"permanent", "transient", "unmentioned"}
    Errors = {"network", "refused"}
    Prompt = TRUE
    MaxFaults = 1
SYMMETRY Symmetric
INVARIANTS NothingLost ClaimsAreExclusive
PROPERTIES DeadLetterIsTerminal KeepsThePromise

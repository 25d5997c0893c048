\* Two threads of one conversation, two session rows, every fault; no
\* retention.
SPECIFICATION Spec
CONSTANTS
    e1 = e1  e2 = e2  e3 = e3  e4 = e4  c1 = c1  c2 = c2  c3 = c3
    conv = conv  branch = branch  NoBranch = NoBranch
    hooked = hooked  declared = declared
    Events = {e1, e2, e3}
    Contents = {c1, c2}
    Submissions <- Conflicting
    Threads <- Branched
    Owners = {hooked, declared}
    ThreadOf <- TwoThreads
    OwnerOf <- TwoOwners
    Provider = {e2, e3}
    Telemetry = {}
    Oversized = {}
    BatchLimit = 2
    Faults = {"crash", "write_fails", "unreadable"}
    MaxFaults = 1
    MaxPrunes = 0
INVARIANT ShownOnce

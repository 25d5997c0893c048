\* Retention, with one session row per thread as the tests have it.
SPECIFICATION FairSpec
CONSTANTS
    e1 = e1  e2 = e2  e3 = e3  e4 = e4  c1 = c1  c2 = c2  c3 = c3
    conv = conv  branch = branch  NoBranch = NoBranch
    hooked = hooked  declared = declared
    Events = {e1, e2, e4}
    Contents = {c1, c2, c3}
    Submissions <- Mixed
    Threads <- Branched
    Owners = {hooked}
    ThreadOf <- OneBranch
    OwnerOf <- OneOwner
    Provider = {e2}
    Telemetry = {e4}
    Oversized = {c3}
    BatchLimit = 2
    Faults = {"crash"}
    MaxFaults = 1
    MaxPrunes = 2
INVARIANT AckedIsKept
PROPERTIES NoteIsNeverTruncated ManualTextSurvives NoteCatchesUp

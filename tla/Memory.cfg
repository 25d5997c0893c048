\* A single caller, two in one process, or two in processes of their own; four
\* calls, one crash.
SPECIFICATION Spec
CONSTANTS
    c1 = c1
    c2 = c2
    q1 = q1
    q2 = q2
    NoOne = NoOne
    Memories = {v1, v2, n1}
    Ambient = {v1, v2}
    Proposals = {p1}
    Callers = {c1, c2}
    Processes = {q1, q2}
    Homes <- AnyHome
    MaxCalls = 4
    MaxCrashes = 1
SYMMETRY Alike
INVARIANTS SavedWasStored MergedWasStored
PROPERTIES DecisionsAreFinalAlone NewestValueOnly
CHECK_DEADLOCK FALSE

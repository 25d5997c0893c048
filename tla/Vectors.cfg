\* Two memories alone, or a note or an image beside a memory yet to come; a swap
\* of weights, one other change, two starts, one fault.
SPECIFICATION Spec
CONSTANTS
    m1 = m1
    m2 = m2
    f1 = f1
    i1 = i1
    Memories = {m1, m2}
    Files = {f1}
    Media = {i1}
    Setups <- Small
    BatchSize = 2
    Concurrency = 1
    MaxGeneration = 2
    MaxWeights = 2
    MaxText = 2
    MaxChanges = 1
    MaxRuns = 2
    MaxFaults = 1
SYMMETRY Alike
INVARIANTS GenerationIsFresh RebuildIsComplete
CHECK_DEADLOCK FALSE

\* One source, or two related ones; three imports, one fault, one step of
\* the user or the indexer.
SPECIFICATION Spec
CONSTANTS
    a = a
    b = b
    c = c
    s1 = s1
    s2 = s2
    p1 = p1
    p2 = p2
    t1 = t1
    t2 = t2
    NoOne = NoOne
    Sources = {s1, s2}
    Texts <- Versions
    Packagings = {p1, p2}
    Titles = {t1, t2}
    Kinships = {"alone", "namesakes", "siblings"}
    Migratable = {s1}
    Faults = {"crash", "write_fails"}
    MaxImports = 3
    MaxFaults = 1
    MaxEdits = 1
SYMMETRY Alike
INVARIANTS NoteHoldsRecord RepeatIsSkipped
PROPERTIES NoteOnlyGrows NoTakeover UserTextSurvives
CHECK_DEADLOCK FALSE

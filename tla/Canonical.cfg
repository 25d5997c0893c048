\* Three sources alone or in a family, two reviewers with three reviews, two of
\* continued exports, files indexed and processes that die.
SPECIFICATION Spec
CONSTANTS
    s1 = s1
    s2 = s2
    s3 = s3
    kind = kind
    r1 = r1
    r2 = r2
    NoId = NoId
    Sources = {s1, s2, s3}
    Ids = {s1, s2, s3}
    Homes <- EveryHome
    Kinds = {kind}
    Evidence <- AllFound
    Reviewers = {r1, r2}
    MaxReviews = 3
    MaxEvents = 2
SYMMETRY Alike
INVARIANTS EveryRecordResolves ConfirmedAreLinked CollapseIsEarned
CHECK_DEADLOCK FALSE

SPECIFICATION WebUISpec
CONSTANTS
    Nothing = Nothing
    Parts = {"client", "panels", "review", "library", "forms", "explorer", "secrets"}
    t1 = t1
    t2 = t2
    r1 = r1
    r2 = r2
    Tabs = {t1, t2}
    Requests = {r1, r2}
    Writes = {r1}
    Home <- InFirstTab
    NoToken = NoToken
    MaxTokens = 2
    MaxEras = 1
    MaxRestarts = 1
    MaxStarts = 2
    MaxFaults = 1
    Proposals = {"p1", "p2"}
    MaxDecisions = 1
    MaxChanges = 1
    MaxSaves = 2
    Texts = {"a", "b"}
    Headings = {"h"}
    MaxPages = 2
    MaxSecrets = 2
INVARIANTS
    WebUITypeOK
    OneRefreshPerTab
    RunsAtMostOnce
    LockedIsWaiting
    CoverageCatchesUp
    OwnChangesAreShown
    CredentialFirst
    ShownMatchesAsked
    SecretsAreShown
PROPERTIES
    SessionsEndWithPassword
CHECK_DEADLOCK FALSE

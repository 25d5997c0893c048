SPECIFICATION WebUISpec
CONSTANTS
    Nothing = Nothing
    Parts = {"client"}
    t1 = t1
    t2 = t2
    r1 = r1
    r2 = r2
    Tabs = {t1}
    Requests = {r1, r2}
    Writes = {r1}
    Home <- InFirstTab
    NoToken = NoToken
    MaxTokens = 2
    MaxEras = 0
    MaxRestarts = 0
    MaxStarts = 1
    MaxFaults = 0
    Proposals = {"p1"}
    MaxDecisions = 1
    MaxChanges = 1
    MaxSaves = 1
    Texts = {"a"}
    Headings = {"h"}
    MaxPages = 1
    MaxSecrets = 1
PROPERTIES
    ExpiredIsRetried
CHECK_DEADLOCK FALSE

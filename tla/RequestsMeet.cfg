SPECIFICATION FairSpec
CONSTANTS
    Parts = {"reviews", "items", "policies", "documents", "chat", "window", "keys"}
    Findings = {f1, f2}
    Verified = {f1, f2}
    Reviewers = {r1, r2}
    MaxReviews = 3
    None = None
    Generators = {g1, g2}
    Editors = {e1, e2}
    MaxEdits = 2
    MaxAborts = 1
    Ids = {p1, p2}
    Seeded = {p1}
    Names = {"A", "B"}
    Categories = {"c", "d"}
    Admins = {a1, a2}
    MaxRequests = 3
    Chunks = {1, 2}
    Attempts = {1, 2}
    MaxSources = 1
    MaxMentions = 3
    Handlers = {h1, h2}
    limit = 1
    window_seconds = 5
    MaxWindowTime = 8
    Kids = {"a", "b"}
    ttl_seconds = 3
    MIN_REFRESH_INTERVAL_SECONDS = 1
    MaxFetches = 3
    MaxTime = 5
CHECK_DEADLOCK FALSE
INVARIANTS TypeOK HistoryExplainsRecords GenerationIsComplete LibraryIsConsistent
    DocumentIsTheBasis WindowIsBounded KeysAreCurrent
PROPERTIES EditsSurvive GenerationsEnd DefaultIsKept FetchesAreApart

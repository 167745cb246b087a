SPECIFICATION Spec
CONSTANTS
    Parts = {"policies"}
    Findings = {f1, f2}
    Verified = {f1, f2}
    Reviewers = {r1, r2}
    MaxReviews = 3
    None = None
    Generators = {g1, g2}
    Editors = {e1, e2}
    MaxEdits = 2
    MaxAborts = 1
    Ids = {p1, p2}
    Seeded = {p1}
    Names = {"A", "B"}
    Categories = {"c", "d"}
    Admins = {a1, a2}
    MaxRequests = 3
    Chunks = {1, 2}
    Attempts = {1, 2}
    MaxSources = 1
    MaxMentions = 3
    Handlers = {h1, h2}
    limit = 2
    window_seconds = 4
    MaxWindowTime = 7
    Kids = {"a", "b"}
    ttl_seconds = 3
    MIN_REFRESH_INTERVAL_SECONDS = 1
    MaxFetches = 3
    MaxTime = 5
CHECK_DEADLOCK FALSE
INVARIANT RulesAreWhole

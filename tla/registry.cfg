\* Two calls of one process and one of another, two registrations.
SPECIFICATION FairSpec
CONSTANTS
    Calls = {c1, c2, c3}
    Processes = {p1, p2}
    Home <- VHome
    Definitions = {d1, d2, d3}
    Cron <- VCron
    TTL = 2
    MaxRegistrations = 2
    None = None
    c1 = c1
    c2 = c2
    c3 = c3
    p1 = p1
    p2 = p2
    d1 = d1
    d2 = d2
    d3 = d3
    hourly = hourly
    daily = daily
INVARIANTS VersionsInOrder CurrentIsScheduled
PROPERTIES StalenessEnds

SPECIFICATION FairSpec
CONSTANTS
    Hosts = {h1, h2}
    Served <- SoloOrPair
    Runs = {r1, r2}
    Threads = {t1}
    MaxTransitions = 2
    MaxBreaks = 2
    MacSleeps = FALSE
INVARIANTS
    TypeOK
    OneBenchmarkPerHost
    RequestsMeetTheirAllocation
    RevocationIsComplete
PROPERTIES
    ImplementsSharedSparks
    RevokedRunEnds

SPECIFICATION Spec
CONSTANTS
    Hosts = {h1, h2}
    Served <- PairOnly
    Runs = {r1, r2}
    Threads = {t1, t2}
    MaxTransitions = 1
    MaxBreaks = 1
    MacSleeps = TRUE
INVARIANTS
    OneBenchmarkPerHost

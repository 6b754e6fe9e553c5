SPECIFICATION FairSpec
CONSTANTS
    r1 = r1
    r2 = r2
    j1 = j1
    j2 = j2
    Runs = {r1}
    Jobs = {j1}
    RunOf <- MCRunOfOne
    MAX_ATTEMPTS = 1
    Prefetch = 1
    MaxFailures = 0
    Journals <- NoJournal
    NoJob = NoJob
PROPERTY
    KilledFlowsResolve

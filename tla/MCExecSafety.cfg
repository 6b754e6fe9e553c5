SPECIFICATION FairSpec
CONSTANTS
    r1 = r1
    r2 = r2
    j1 = j1
    j2 = j2
    Runs = {r1, r2}
    Jobs = {j1, j2}
    RunOf <- MCRunOfTwo
    MAX_ATTEMPTS = 3
    Prefetch = 2
    MaxFailures = 1
    Journals <- SomeJournals
    NoJob = NoJob
INVARIANTS
    TypeOK
    AckedIsRecorded
    OneRowPerDelivery
    KillStopsAttempts
    VerdictsAreJustified
PROPERTY
    JobsSettle
    ImplementsLedger

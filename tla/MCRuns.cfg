SPECIFICATION RunsSpec
CONSTANTS
    r1 = r1
    r2 = r2
    Runs = {r1, r2}
    Replies = {"valid", "malformed", "empty"}
    MaxExecs = 2
    MaxFailures = 1
INVARIANTS
    RowsMatchExecutions
PROPERTIES
    PollBecomesTerminal
CHECK_DEADLOCK FALSE

SPECIFICATION Spec
CONSTANTS
    q1 = q1
    r1 = r1
    f1 = f1
    n1 = n1
    n2 = n2
    Requests = {q1}
    Runs = {r1}
    Flows = {f1}
    Evidences <- SmallEvidences
    Cap = 1
    Autonomous = TRUE
    Threshold = 70
    MaxDefects = 2
    MaxIssues = 2
INVARIANTS
    AppliedNamesItsIssue
    DuplicatesOnlyByRace
    FilingIsGated

SPECIFICATION Spec
CONSTANTS
    q1 = q1
    q2 = q2
    t1 = t1
    t2 = t2
    bad = bad
    a = a
    b = b
    Requests = {q1, q2}
    Texts = {t1, t2, bad}
    LintOk = {t1, t2}
    Refs = {a, b}
    Known = {a}
    MaxScenarios = 1
    MaxFlows = 1
    NoText = NoText
SYMMETRY Symmetry
INVARIANTS
    StoredPassesGates
    TreeWasApproved
PROPERTIES
    UnracedCommitIsExact

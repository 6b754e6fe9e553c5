SPECIFICATION Spec
CONSTANTS
    f1 = f1
    q1 = q1
    a1 = a1
    a2 = a2
    l1 = l1
    l2 = l2
    l3 = l3
    k1 = k1
    k2 = k2
    k3 = k3
    c1 = c1
    c2 = c2
    Flows = {f1}
    Attrs = {a1, a2}
    Lines = {l1, l2, l3}
    AttrAt <- TwoPages
    FirstLine <- FirstOfTwo
    Keys = {k1, k2, k3}
    LineOf <- OnePerLine
    Chains = {c1, c2}
    NoChain = NoChain
    Scores <- SmallScores
    GraphUp = {TRUE, FALSE}
    High = 15
    Med = 10
    MAX_ENTRIES = 1
    MAX_SIZE = 2
    Unfit = {a2}
    MaxJournal = 3
    MaxAudit = 4
    MaxCrashes = 1
    Requests = {q1}
SYMMETRY Symmetry
INVARIANTS
    AuditIsComplete
    UnreviewedRewritesWereSure

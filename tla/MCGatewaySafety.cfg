SPECIFICATION Spec
CONSTANTS
    c1 = c1
    c2 = c2
    r1 = r1
    r2 = r2
    k1 = k1
    k2 = k2
    Callers = {c1, c2}
    Runs = {r1, r2}
    Keys = {k1, k2}
    Requests <- AllRequests
    Usages <- MCUsages
    MaxUsage <- MCMaxUsage
    Caps <- MCCaps
    Days = 3
    MaxAnswers = 3
    MaxEvents = 1
    NoRequest = NoRequest
    NoCap = NoCap
INVARIANTS
    TypeOK
    OvershootBounded
    
    HaltIsComplete
    ExhaustionTrips
SYMMETRY CallerSymmetry

SPECIFICATION FairSpec
CONSTANTS
    f1 = f1
    f2 = f2
    Flows = {f1, f2}
    Verdicts = {"passed", "flaky", "aborted"}
    MaxRows = 3
    MaxDrops = 2
    NoFlow = NoFlow
    NoFrame = NoFrame
    NoRow = NoRow
INVARIANTS
    PageWasTrue
PROPERTIES
    CountersNeverRegress
    FrameReachesPage
CHECK_DEADLOCK FALSE

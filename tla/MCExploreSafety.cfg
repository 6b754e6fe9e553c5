SPECIFICATION FairSpec
CONSTANTS
    home = home
    list = list
    out = out
    bye = bye
    ext = ext
    pay = pay
    NoPage = NoPage
    Pages = {home, list, out, bye, ext, pay}
    Fps <- MCFps
    FpOf <- MCFpOf
    Lands <- MCLands
    Elements <- MCElements
    Invalid = {home}
    InBase = {home, list, out, bye}
    Allowed = {home, list, out, bye, ext}
    Landing = home
    Sandbox = FALSE
    max_steps = 4
    max_depth = 3
    max_revisits = 2
    MaxSkips = 1
INVARIANTS
    RecordsAgree
    CapsHold
    RequestsAreJustified
    LinksAreNotLost
    StopIsPrompt
PROPERTIES
    RunEnds
CHECK_DEADLOCK FALSE

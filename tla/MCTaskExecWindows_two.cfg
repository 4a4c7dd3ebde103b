\* Two calls on two recycled process ids.
SPECIFICATION WFairSpec
CONSTANTS
    Task = {t1, t2}
    TimedTask = {}
    Pid = {p1, p2}
    NoPid = NoPid
    KidKind = {"piped", "detached"}
    MaxOut = 0
    PipeCap = 0
CHECK_DEADLOCK FALSE
PROPERTIES KeepsContract WKillScope WCancelledCallReturns

\* One call, every kind of child, two chunks of output through a one-chunk pipe.
SPECIFICATION FairSpec
CONSTANTS
    Task = {t1}
    TimedTask = {t1}
    Pid = {p1}
    NoPid = NoPid
    KidKind = {"piped", "quiet", "detached"}
    MaxOut = 2
    PipeCap = 1
CHECK_DEADLOCK FALSE
INVARIANTS TypeOK TimeoutMeansStopped OutputComplete 
PROPERTIES CancelledCallReturns EndedCallSettles

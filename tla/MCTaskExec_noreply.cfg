\* The cancellation that comes before cmd.Process is stored.
SPECIFICATION Spec
CONSTANTS
    Task = {t1}
    TimedTask = {t1}
    Pid = {p1}
    NoPid = NoPid
    KidKind = {}
    MaxOut = 1
    PipeCap = 1
CHECK_DEADLOCK FALSE
INVARIANT EveryCallGetsResponse

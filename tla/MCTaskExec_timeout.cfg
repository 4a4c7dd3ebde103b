\* A request's timeout has passed and its call has not been answered.
SPECIFICATION TimedSpec
CONSTANTS
    Task = {t1}
    TimedTask = {t1}
    Pid = {p1}
    NoPid = NoPid
    KidKind = {}
    MaxOut = 1
    PipeCap = 1
CHECK_DEADLOCK FALSE
PROPERTY TimeoutHonoured

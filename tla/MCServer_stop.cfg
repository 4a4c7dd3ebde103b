\* Two concurrent calls on two recycled process ids, signals at any time.
SPECIFICATION SFairSpec
CONSTANTS
    Task = {t1, t2}
    TimedTask = {}
    Pid = {p1, p2}
    NoPid = NoPid
    KidKind = {"piped"}
    MaxOut = 0
    PipeCap = 0
CHECK_DEADLOCK FALSE
INVARIANT CleanStop
PROPERTIES KillScope KeepsContract DrainEnds StopSignalHeeded

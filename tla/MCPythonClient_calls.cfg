\* Up to two commands for a server of one worker, lost connections, a stop.
SPECIFICATION PFairSpec
CONSTANTS
    Task = {t1, t2}
    MaxWorkers = 1
    KidKind = {"piped"}
    NoCall = NoCall
CHECK_DEADLOCK FALSE
INVARIANTS TypeOK AnsweredMeansEnded CleanExit
PROPERTIES AcceptedAnswered StopEnds KeepsContract PromptAgain StopFreesClient

\* A connection and one change of a file at any moment, on both of Start's paths,
\* while another goroutine asks for a handler.
\* Processes end and clients fall silent: nothing else is left to happen then.
SPECIFICATION FairSpec
CONSTANTS
    Caller = {main, other}
    Main = main
    Addrs = {TRUE, FALSE}
    Conn = {n1}
    Contents = {"absent", "broken", "good"}
    MaxChange = 1
    Handlers = {TRUE, FALSE}
INVARIANTS TypeOK OnlyVerified HandlersComplete
PROPERTIES QueueMoves GoodBoots
CHECK_DEADLOCK FALSE

------------------------------- MODULE Metrics -------------------------------
(***************************************************************************)
(* Registration of the collectors (collector/metrics.go and the three        *)
(* Register*Collector functions): goroutines that ask for a handler at the   *)
(* same time, each by one of three exported functions, share one sync.Once   *)
(* and one variable metricsRegistry.  A handler keeps the registry it was    *)
(* made with; a scrape through it gathers the collectors registered there.   *)
(***************************************************************************)
EXTENDS Naturals, FiniteSets

CONSTANTS
    Caller, \* the goroutines that ask for a handler
    Addrs   \* whether StartMetricsServer is given an address: a subset of BOOLEAN

ASSUME AddrAssumption == Addrs \subseteq BOOLEAN
ASSUME CallerAssumption == {"open", "done"} \cap Caller = {}

Function  == {"MetricsHandler", "MetricsHandlerWithGoMetrics", "StartMetricsServer"}
Collector == {"lldp", "network", "disk"}
Registry  == {"nil", "own", "default"} \* nil: what metricsRegistry is at first

VARIABLES
    op,         \* the function each caller calls
    pc,         \* where each caller is
    once,       \* registerCollectorsOnce: "open", a caller that is in f, or "done"
    variable,   \* metricsRegistry
    registered, \* the collectors registered, by registry
    made,       \* instances of each collector made so far
    handler     \* the registry the handler of a caller serves, "none" before

mvars == <<op, pc, once, variable, registered, made, handler>>

\* The kind of registration a caller asks for; StartMetricsServer calls MetricsHandler.
Kind(c) == IF op[c] = "MetricsHandlerWithGoMetrics" THEN "default" ELSE "own"

MInit ==
    /\ op \in [Caller -> Function]
    /\ pc = [c \in Caller |-> "start"]
    /\ once = "open"
    /\ variable = "nil"
    /\ registered = [r \in {"own", "default"} |-> {}]
    /\ made = [k \in Collector |-> 0]
    /\ handler = [c \in Caller |-> "none"]

-----------------------------------------------------------------------------
(* registerCollectorsOnce.Do(f): the first caller runs f, those that come      *)
(* meanwhile wait for its end, the others pass.                               *)

\* StartMetricsServer with an empty address is done.
NoAddress(c) ==
    /\ pc[c] = "start"
    /\ op[c] = "StartMetricsServer"
    /\ FALSE \in Addrs
    /\ pc' = [pc EXCEPT ![c] = "returned"]
    /\ UNCHANGED <<op, once, variable, registered, made, handler>>

\* f begins; for MetricsHandler with a registry of its own.
FirstDo(c) ==
    /\ pc[c] = "start"
    /\ op[c] = "StartMetricsServer" => TRUE \in Addrs
    /\ once = "open"
    /\ once' = c
    /\ pc' = [pc EXCEPT ![c] = "lldp"]
    /\ variable' = IF Kind(c) = "own" THEN "own" ELSE variable
    /\ UNCHANGED <<op, registered, made, handler>>

\* Mutant of LaterDo: who comes second does not wait for the end of f.
LaterDoHasty(c) ==
    /\ pc[c] = "start"
    /\ op[c] = "StartMetricsServer" => TRUE \in Addrs
    /\ once # "open"
    /\ pc' = [pc EXCEPT ![c] = "make"]
    /\ UNCHANGED <<op, once, variable, registered, made, handler>>

LaterDo(c) ==
    /\ pc[c] = "start"
    /\ op[c] = "StartMetricsServer" => TRUE \in Addrs
    /\ once = "done"
    /\ pc' = [pc EXCEPT ![c] = "make"]
    /\ UNCHANGED <<op, once, variable, registered, made, handler>>

\* One collector is made and registered, into metricsRegistry or the default registry.
Register(c, k, following) ==
    /\ pc[c] = k
    /\ made' = [made EXCEPT ![k] = @ + 1]
    /\ registered' = [registered EXCEPT ![Kind(c)] = @ \cup {k}]
    /\ pc' = [pc EXCEPT ![c] = following]
    /\ UNCHANGED <<op, once, variable, handler>>

EndOfDo(c) ==
    /\ pc[c] = "end"
    /\ once' = "done"
    /\ pc' = [pc EXCEPT ![c] = "make"]
    /\ UNCHANGED <<op, variable, registered, made, handler>>

\* The handler is made, and returned or served by StartMetricsServer's goroutine.
MakeHandler(c) ==
    /\ pc[c] = "make"
    /\ handler' = [handler EXCEPT ![c] = IF Kind(c) = "own" THEN variable ELSE "default"]
    /\ pc' = [pc EXCEPT ![c] = "returned"]
    /\ UNCHANGED <<op, once, variable, registered, made>>

Step(c) == \/ NoAddress(c) \/ FirstDo(c) \/ LaterDo(c)
           \/ Register(c, "lldp", "network") \/ Register(c, "network", "disk")
           \/ Register(c, "disk", "end")
           \/ EndOfDo(c) \/ MakeHandler(c)

MSpec == MInit /\ [][\E c \in Caller : Step(c)]_mvars

-----------------------------------------------------------------------------
(* Properties.                                                             *)

\* The collectors a scrape through a caller's handler gathers; through a nil
\* registry there are none, the scrape panics.
Served(c) == IF handler[c] \in {"own", "default"} THEN registered[handler[c]] ELSE {}

\* The state has its type, and no collector is made twice (which a registry
\* refuses, by a panic or an error).
MTypeOK ==
    /\ op \in [Caller -> Function]
    /\ pc \in [Caller -> {"start", "end", "make", "returned"} \cup Collector]
    /\ once \in {"open", "done"} \cup Caller
    /\ variable \in {"nil", "own"}
    /\ registered \in [{"own", "default"} -> SUBSET Collector]
    /\ made \in [Collector -> 0 .. 1]
    /\ handler \in [Caller -> Registry \cup {"none"}]

\* From the moment a handler is returned it serves all three collectors, however
\* many callers race for the Once (metrics.go:17 and :31), unless another kind of
\* registration was first: only then it serves none of them, for good.
HandlersComplete ==
    \A c \in Caller : handler[c] # "none" =>
        \/ Served(c) = Collector
        \/ /\ Served(c) = {}
           /\ \E d \in Caller : Kind(d) # Kind(c) /\ registered[Kind(d)] = Collector
=============================================================================

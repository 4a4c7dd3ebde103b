------------------------------- MODULE Server -------------------------------
(***************************************************************************)
(* The life of the Go server process: main.go, Start in rpc/server/server.go *)
(* and the calls of TaskExec it serves.  What the process does ends with it; *)
(* the commands it started are process groups of their own and do not.       *)
(*                                                                         *)
(* The handler given to Start is never nil, so gRPC calls arrive through     *)
(* net/http and GracefulStop (grpc 1.21, external) knows of them only as     *)
(* handler transports: it neither closes the listener nor stops net/http.    *)
(***************************************************************************)
EXTENDS TaskExec

VARIABLES
    phase,   \* where main's goroutine is; "dead": ended, not by main's return
    sigChan  \* the content of the channel c, capacity 1

svars == <<vars, phase, sigChan>>

Alive   == phase \in {"boot", "serving", "ready", "stopping", "draining"}
\* The process ends, and its channel with it.
EndAs(p) == phase' = p /\ sigChan' = "empty"

InFlight(t) == handler[t] \in {"select", "kill"}

SInit == /\ Init
         /\ phase = "boot"
         /\ sigChan = "empty"

-----------------------------------------------------------------------------
(* main and Start.                                                          *)

\* A check of main, net.Listen or the TLS configuration fails: Fatal.
BootFails ==
    /\ phase = "boot"
    /\ EndAs("dead")
    /\ UNCHANGED vars

\* The listener is bound and the goroutine that serves it runs.
Serve ==
    /\ phase = "boot"
    /\ phase' = "serving"
    /\ UNCHANGED <<vars, sigChan>>

\* signal.Notify, and into the loop: only now are signals not deadly.
Notify ==
    /\ phase = "serving"
    /\ phase' = "ready"
    /\ UNCHANGED <<vars, sigChan>>

\* Serve returns an error in its goroutine: Fatal, whatever main is doing.
ServeFails ==
    /\ phase \in {"serving", "ready", "stopping", "draining"}
    /\ EndAs("dead")
    /\ UNCHANGED vars

\* case syscall.SIGHUP
IgnoreHangup ==
    /\ phase = "ready"
    /\ sigChan = "HUP"
    /\ sigChan' = "empty"
    /\ UNCHANGED <<vars, phase>>

\* Mutant of BeginStop: a break that leaves the switch and not the loop.
BeginStopBreaks ==
    /\ phase = "ready"
    /\ sigChan = "TERM"
    /\ sigChan' = "empty"
    /\ UNCHANGED <<vars, phase>>

\* case syscall.SIGINT, syscall.SIGTERM
BeginStop ==
    /\ phase = "ready"
    /\ sigChan = "TERM"
    /\ sigChan' = "empty"
    /\ phase' = "stopping"
    /\ UNCHANGED vars

\* GracefulStop drains its transports; one of net/http cannot be drained, and
\* with a call in flight that is a panic in main's goroutine.
DrainPanics ==
    /\ phase = "stopping"
    /\ \E t \in Task : InFlight(t)
    /\ EndAs("dead")
    /\ UNCHANGED vars

\* GracefulStop as it is documented: it goes on to wait for the calls in flight.
Drain ==
    /\ phase = "stopping"
    /\ phase' = "draining"
    /\ UNCHANGED <<vars, sigChan>>

\* Mutant of StopReturns: Stop in place of GracefulStop.
StopReturnsAtOnce ==
    /\ phase = "draining"
    /\ EndAs("exited")
    /\ UNCHANGED vars

\* GracefulStop returns, then Start, then main.
StopReturns ==
    /\ phase = "draining"
    /\ \A t \in Task : ~InFlight(t)
    /\ EndAs("exited")
    /\ UNCHANGED vars

Main == Notify \/ IgnoreHangup \/ BeginStop \/ DrainPanics \/ Drain \/ StopReturns

-----------------------------------------------------------------------------
(* Signals.  Before Notify the default action ends the process; after it the *)
(* runtime sends to c without blocking, and drops what does not fit.  What   *)
(* comes to c when the loop has been left, nobody will read.                 *)

Signal(s) ==
    /\ \/ phase \in {"boot", "serving"} /\ EndAs("dead")
       \/ phase = "ready" /\ sigChan = "empty" /\ sigChan' = s /\ UNCHANGED phase
    /\ UNCHANGED vars

SigHup  == Signal("HUP")
SigTerm == Signal("TERM")

-----------------------------------------------------------------------------
(* The calls and the commands.                                              *)

\* GracefulStop makes the gRPC server refuse what net/http still accepts.
AcceptCall(t) == phase \in {"serving", "ready", "stopping"} /\ Call(t)

\* Goroutines, and all that talks to them, live as long as the process.
Goroutines(t) == Alive /\ (Handler(t) \/ Runner(t) \/ Copy(t))
Peers(t)      == Alive /\ (Write(t) \/ Cancel(t) \/ TimeoutElapses(t))

\* Commands live on by themselves.
Commands(t) == \/ \E s \in {"exit0", "exitN", "signal"} : Exit(t, s)
               \/ \E k \in KidKind : SpawnKid(t, k) \/ KidExit(t, k)

CallStep == /\ \E t \in Task : AcceptCall(t) \/ Goroutines(t) \/ Peers(t) \/ Commands(t)
            /\ UNCHANGED <<phase, sigChan>>

SNext == BootFails \/ Serve \/ ServeFails \/ Main \/ SigHup \/ SigTerm \/ CallStep

SSpec == SInit /\ [][SNext]_svars

\* main's goroutine and the handlers are scheduled; the stop asks for no more.
Sched(A) == A /\ UNCHANGED <<phase, sigChan>>
SFairness == /\ WF_svars(Main)
             /\ \A t \in Task : WF_svars(Sched(Alive /\ Handler(t)))

SFairSpec == SSpec /\ SFairness

-----------------------------------------------------------------------------
(* Properties.                                                             *)

\* An orderly stop cuts no call short and leaves nothing of one behind: when main
\* returns from GracefulStop every accepted call has its answer, and no bash is
\* running, nor a child that holds its pipe from within its group, except those
\* of calls whose handler panicked before it could kill.
CleanStop ==
    phase = "exited" =>
        \A t \in Task :
            /\ handler[t] \in {"idle", "answered"}
            /\ proc[t] = "running" \/ "piped" \in kids[t] => reply[t].error = "nil"

\* A stop under way ends when the contexts of its calls do, whatever their
\* commands do: GracefulStop does not hang on a handler (server.go:147).
DrainEnds ==
    phase = "draining" /\ (\A t \in Task : InFlight(t) => t \in ctx)
        ~> phase \in {"exited", "dead"}

\* A stop signal sent to Start's loop with no hangup waiting ahead of it stops
\* the server; the channel of capacity 1 has room for it or for its like.
StopSignalHeeded == sigChan = "TERM" /\ phase = "ready" ~> phase # "ready"
=============================================================================

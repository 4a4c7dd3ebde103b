------------------------------ MODULE Server_proof ------------------------------
(***************************************************************************)
(* The life of the server process adds nothing to what its calls can do, so   *)
(* that all of TaskExec holds of it; and an orderly stop is clean, for any    *)
(* number of calls in any state when the signal comes.                        *)
(***************************************************************************)
EXTENDS Server, TaskExec_proof

\* A step of the calls in the process is a step of TaskExec.
LEMMA CallStepIsNext == CallStep => Next
BY DEF CallStep, AcceptCall, Goroutines, Peers, Commands, Next, Environment

\* main, the signals and a failing listener leave the calls where they are.
LEMMA ProcessKeepsCalls ==
    BootFails \/ Serve \/ ServeFails \/ Main \/ SigHup \/ SigTerm => UNCHANGED vars
BY DEF BootFails, Serve, ServeFails, Main, Notify, IgnoreHangup, BeginStop, DrainPanics,
       Drain, StopReturns, SigHup, SigTerm, Signal

\* Inside the process the calls behave as TaskExec says: whatever the process
\* does, and when it ends in the middle of a call too.
THEOREM ServesCalls == SSpec => Spec
<1>1. SInit => Init
  BY DEF SInit
<1>2. [SNext]_svars => [Next]_vars
  <2>1. SNext => Next \/ UNCHANGED vars
    BY CallStepIsNext, ProcessKeepsCalls DEF SNext
  <2>2. UNCHANGED svars => UNCHANGED vars
    BY DEF svars
  <2> QED BY <2>1, <2>2
<1> QED BY <1>1, <1>2, PTL DEF SSpec, Spec

\* No handler's step reaches another call's processes in the server but through a
\* recycled id, also while it boots, stops and drains.
THEOREM ServerKillScoped == SSpec => KillScope
BY ServesCalls, KillScoped, PTL

\* Every answer the server process gives is given once, true, and stays true: a
\* process that ends takes no answer back.
THEOREM ServerImplements == SSpec => KeepsContract
BY ServesCalls, Implements, PTL

\* AnswersStayTrue of the contract, also after the process has ended: commands that
\* outlive it make no answer false.
THEOREM ServerAnswersTrue == SSpec => []Contract!AnswersStayTrue
BY ServesCalls, AnswersTrue, PTL

-----------------------------------------------------------------------------
(* The stop.                                                                *)

PhaseTypeOK == phase \in {"boot", "serving", "ready", "stopping", "draining", "exited", "dead"}

\* main returns only with no call in flight, and none begins or is taken further
\* afterwards, while the commands go on.
ExitInv == phase = "exited" => \A t \in Task : handler[t] \in {"idle", "answered"}

LEMMA ExitKept ==
    ASSUME TypeOK, PhaseTypeOK, ExitInv, [SNext]_svars PROVE PhaseTypeOK' /\ ExitInv'
<1> USE DEF PhaseTypeOK, ExitInv
<1>1. CASE BootFails \/ Serve \/ ServeFails \/ SigHup \/ SigTerm
  <2>1. UNCHANGED handler
    BY <1>1, ProcessKeepsCalls DEF vars, goVars
  <2> QED BY <1>1, <2>1 DEF BootFails, Serve, ServeFails, SigHup, SigTerm, Signal, EndAs
<1>2. CASE Main
  <2>1. UNCHANGED handler
    BY <1>2, ProcessKeepsCalls DEF vars, goVars
  <2>2. CASE StopReturns
    BY <2>1, <2>2 DEF StopReturns, EndAs, InFlight, TypeOK
  <2>3. CASE Notify \/ IgnoreHangup \/ BeginStop \/ DrainPanics \/ Drain
    BY <2>1, <2>3 DEF Notify, IgnoreHangup, BeginStop, DrainPanics, Drain, EndAs
  <2> QED BY <1>2, <2>2, <2>3 DEF Main
<1>3. CASE CallStep
  <2>1. phase' = phase
    BY <1>3 DEF CallStep
  <2>2. phase = "exited" => handler' = handler
    BY <1>3 DEF CallStep, AcceptCall, Goroutines, Peers, Commands, Alive, Exit, SpawnKid,
                KidExit, goVars
  <2> QED BY <2>1, <2>2
<1>4. CASE UNCHANGED svars
  BY <1>4 DEF svars, vars, goVars
<1> QED BY <1>1, <1>2, <1>3, <1>4 DEF SNext

\* A call that is answered with something has no bash and no child on its pipe, and
\* one that was never made has neither: the rest is the dereferenced nil.
LEMMA NothingLeft ==
    ASSUME IInv, AnswerInv, NEW t \in Task, handler[t] \in {"idle", "answered"},
           proc[t] = "running" \/ "piped" \in kids[t]
    PROVE  reply[t].error = "nil"
<1>1. PipeOpen(t) /\ GroupRuns(t)
  BY DEF PipeOpen, GroupRuns, HoldsPipe, InGroup
<1>2. handler[t] # "idle"
  BY DEF IInv, ProcessInv
<1>3. reply[t].error \notin Normal \cup {"timeout"}
  BY <1>1 DEF IInv, ResultInv, RunnerInv, TimeoutInv
<1>4. reply[t].error # "none"
  BY <1>2 DEF AnswerInv
<1> QED BY <1>3, <1>4 DEF IInv, CallTypeOK, Errors, Normal

\* GracefulStop cuts no call short and leaves no command of one behind, except
\* where Run had answered nil.
THEOREM StopIsClean == SSpec => []CleanStop
<1>1. SInit => PhaseTypeOK /\ ExitInv
  BY DEF SInit, PhaseTypeOK, ExitInv
<1>2. TypeOK /\ PhaseTypeOK /\ ExitInv /\ [SNext]_svars => PhaseTypeOK' /\ ExitInv'
  BY ExitKept
<1>3. IInv /\ AnswerInv /\ ExitInv => CleanStop
  BY NothingLeft DEF ExitInv, CleanStop
<1> QED BY <1>1, <1>2, <1>3, ServesCalls, TypeCorrect, Invariance, AnswersOnce, PTL DEF SSpec
=============================================================================

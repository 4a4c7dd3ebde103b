--------------------------- MODULE TaskExec_proof ---------------------------
(***************************************************************************)
(* The safety properties of Run and that it keeps TaskContract, for every    *)
(* set of calls and every set of process ids, with the ExecShell of Unix     *)
(* (TaskExec) and with that of Windows (TaskExecWindows).  The two share the *)
(* goroutines, the pipe and the reply, and so most lemmas.                   *)
(***************************************************************************)
EXTENDS TaskExecWindows, TLAPS

(* The inductive invariant, one conjunct per relation between the parts of a *)
(* call's state.                                                             *)

\* The runner starts with the call.  A process id is there exactly from the
\* fork on; before it there is no command, no child and no output.
ProcessInv ==
    \A t \in Task :
        /\ handler[t] = "idle" => runner[t] = "none"
        /\ runner[t] \in {"none", "spawned"} => pid[t] = NoPid
        /\ pid[t] = NoPid <=> proc[t] = "none"
        /\ pid[t] = NoPid => kids[t] = {} /\ wrote[t] = 0 /\ buf[t] = 0
        /\ proc[t] \in {"zombie", "reaped"} <=> status[t] # "none"

\* What the runner has behind it when it comes to send.
RunnerInv ==
    \A t \in Task :
        /\ runner[t] \in {"copying", "sending", "gone"} =>
              proc[t] = "reaped" \/ pid[t] = NoPid
        /\ runner[t] \in {"sending", "gone"} => ~PipeOpen(t) /\ buf[t] = wrote[t]

\* A result is in the channel, or in a reply, after the runner is through.
ResultInv ==
    \A t \in Task :
        /\ resultChan[t] # "empty" => runner[t] = "gone" /\ resultChan[t] = RunError(t)
        /\ reply[t].error \in Normal =>
              /\ runner[t] = "gone"
              /\ reply[t].error = RunError(t)
              /\ reply[t].output = wrote[t]
        /\ reply[t].exit_code = ExitCode(reply[t].error)

\* A reply of the ctx.Done branch came from a kill that had a group to name.
TimeoutInv ==
    \A t \in Task : reply[t].error = "timeout" =>
        /\ pid[t] # NoPid
        /\ ~GroupRuns(t)

\* The type of the state for either ExecShell: on Windows the handler has a place
\* between its two kills, and any child that holds the pipe can become detached.
CallTypeOK ==
    /\ handler \in [Task -> {"idle", "select", "kill", "terminate", "answered"}]
    /\ runner  \in [Task -> {"none", "spawned", "forked", "waiting",
                             "copying", "sending", "gone"}]
    /\ ctx \subseteq Task
    /\ elapsed \subseteq Task
    /\ resultChan \in [Task -> Normal \cup {"empty"}]
    /\ pid    \in [Task -> Pid \cup {NoPid}]
    /\ proc   \in [Task -> {"none", "running", "zombie", "reaped"}]
    /\ status \in [Task -> {"none", "exit0", "exitN", "signal"}]
    /\ kids   \in [Task -> SUBSET {"piped", "quiet", "detached"}]
    /\ wrote  \in [Task -> 0 .. MaxOut]
    /\ buf    \in [Task -> 0 .. MaxOut]
    /\ reply  \in [Task -> [error : Errors, exit_code : {-1, 0, 1},
                            output : 0 .. MaxOut]]

IInv == CallTypeOK /\ ProcessInv /\ RunnerInv /\ ResultInv /\ TimeoutInv /\ GroupsDistinct

USE PidAssumption, KindAssumption, OutAssumption, TimedAssumption
    DEF PidAssumption, KindAssumption, OutAssumption, TimedAssumption
-----------------------------------------------------------------------------
\* The shape of the state is kept by every step.
THEOREM TypeCorrect == Spec => []TypeOK
<1>1. Init => TypeOK
  BY DEF Init, TypeOK, NoReply, Errors, Normal
<1>2. TypeOK /\ [Next]_vars => TypeOK'
  <2> SUFFICES ASSUME TypeOK, [Next]_vars PROVE TypeOK'
    OBVIOUS
  <2> USE DEF TypeOK, Normal, Errors
  <2>1. ASSUME NEW t \in Task, Handler(t) PROVE TypeOK'
    <3>1. CASE SelectResult(t)
      BY <3>1 DEF SelectResult, procVars, outVars, callVars, ExitCode
    <3>2. CASE SelectDone(t)
      BY <3>2 DEF SelectDone, procVars, outVars, callVars
    <3>3. CASE KillGroup(t)
      BY <3>3 DEF KillGroup, outVars, callVars
    <3>4. CASE KillPanics(t)
      BY <3>4 DEF KillPanics, procVars, outVars, callVars, NilReply
    <3> QED BY <2>1, <3>1, <3>2, <3>3, <3>4 DEF Handler
  <2>2. ASSUME NEW t \in Task, Runner(t) PROVE TypeOK'
    <3>1. ASSUME NEW p \in Pid, Fork(t, p) PROVE TypeOK'
      BY <3>1 DEF Fork, outVars, callVars
    <3>2. CASE StartFails(t)
      BY <3>2 DEF StartFails, procVars, outVars, callVars
    <3>3. CASE Publish(t)
      BY <3>3 DEF Publish, procVars, outVars, callVars
    <3>4. CASE Reap(t)
      BY <3>4 DEF Reap, outVars, callVars
    <3>5. CASE FinishCopy(t)
      BY <3>5 DEF FinishCopy, procVars, outVars, callVars
    <3>6. CASE SendResult(t)
      BY <3>6 DEF SendResult, procVars, outVars, callVars, RunError
    <3> QED BY <2>2, <3>1, <3>2, <3>3, <3>4, <3>5, <3>6 DEF Runner
  <2>3. ASSUME NEW t \in Task, Copy(t) PROVE TypeOK'
    BY <2>3 DEF Copy, goVars, procVars, callVars
  <2>4. ASSUME NEW t \in Task, Environment(t) PROVE TypeOK'
    <3>1. CASE Call(t)
      BY <3>1 DEF Call, procVars, outVars, callVars
    <3>2. CASE Write(t)
      BY <3>2 DEF Write, goVars, procVars, callVars
    <3>3. CASE Cancel(t)
      BY <3>3 DEF Cancel, goVars, procVars, outVars
    <3>4. CASE TimeoutElapses(t)
      BY <3>4 DEF TimeoutElapses, goVars, procVars, outVars
    <3>5. ASSUME NEW s \in {"exit0", "exitN", "signal"}, Exit(t, s) PROVE TypeOK'
      BY <3>5 DEF Exit, goVars, outVars, callVars
    <3>6. ASSUME NEW k \in KidKind, SpawnKid(t, k) \/ KidExit(t, k) PROVE TypeOK'
      <4>1. kids[t] \cup {k} \in SUBSET KidKind /\ kids[t] \ {k} \in SUBSET KidKind
        OBVIOUS
      <4>2. kids' \in [Task -> SUBSET KidKind]
        BY <3>6, <4>1 DEF SpawnKid, KidExit
      <4> QED BY <3>6, <4>2 DEF SpawnKid, KidExit, goVars, outVars, callVars
    <3> QED BY <2>4, <3>1, <3>2, <3>3, <3>4, <3>5, <3>6 DEF Environment
  <2>5. CASE UNCHANGED vars
    BY <2>5 DEF vars, goVars, procVars, outVars, callVars
  <2> QED BY <2>1, <2>2, <2>3, <2>4, <2>5 DEF Next
<1> QED BY <1>1, <1>2, PTL DEF Spec

-----------------------------------------------------------------------------
(* The steps of one call.                                                    *)

\* Groups stay distinct in a step that hands out no id and makes no group exist.
LEMMA GroupsKept ==
    ASSUME GroupsDistinct, pid' = pid, \A t \in Task : GroupExists(t)' => GroupExists(t)
    PROVE  GroupsDistinct'
BY DEF GroupsDistinct

LEMMA GroupsFrame == GroupsDistinct /\ UNCHANGED procVars => GroupsDistinct'
BY GroupsKept DEF procVars, GroupExists

LEMMA HandlerStep == ASSUME IInv, CallTypeOK', NEW t \in Task, Handler(t) PROVE IInv'
<1> USE DEF IInv, ProcessInv, RunnerInv, ResultInv, TimeoutInv, GroupsDistinct,
            CallTypeOK, Normal, Errors, RunError, ExitCode, PipeOpen, GroupRuns,
            GroupExists, InGroup, HoldsPipe
<1>1. CASE SelectResult(t)
  <2> USE <1>1 DEF SelectResult, procVars, outVars, callVars
  <2>1. ProcessInv'
    OBVIOUS
  <2>2. RunnerInv'
    OBVIOUS
  <2>3. ResultInv'
    OBVIOUS
  <2>4. TimeoutInv'
    OBVIOUS
  <2>5. GroupsDistinct'
    <3>1. GroupsDistinct /\ UNCHANGED procVars
      OBVIOUS
    <3> QED BY ONLY <3>1, GroupsFrame
  <2> QED BY <2>1, <2>2, <2>3, <2>4, <2>5 DEF IInv
<1>2. CASE SelectDone(t)
  <2> USE <1>2 DEF SelectDone, procVars, outVars, callVars
  <2>1. ProcessInv'
    OBVIOUS
  <2>2. RunnerInv'
    OBVIOUS
  <2>3. ResultInv'
    OBVIOUS
  <2>4. TimeoutInv'
    OBVIOUS
  <2>5. GroupsDistinct'
    <3>1. GroupsDistinct /\ UNCHANGED procVars
      OBVIOUS
    <3> QED BY ONLY <3>1, GroupsFrame
  <2> QED BY <2>1, <2>2, <2>3, <2>4, <2>5 DEF IInv
<1>3. CASE KillGroup(t)
  <2> USE <1>3 DEF KillGroup, outVars, callVars, Hit, ProcessSet
  <2>1. ProcessInv'
    OBVIOUS
  <2>2. RunnerInv'
    OBVIOUS
  <2>3. ResultInv'
    OBVIOUS
  <2>4. TimeoutInv'
    OBVIOUS
  <2>5. GroupsDistinct'
    <3>1. pid' = pid /\ \A u \in Task : GroupExists(u)' => GroupExists(u)
      OBVIOUS
    <3>2. GroupsDistinct
      OBVIOUS
    <3> QED BY ONLY <3>1, <3>2, GroupsKept
  <2> QED BY <2>1, <2>2, <2>3, <2>4, <2>5 DEF IInv
<1>4. CASE KillPanics(t)
  <2> USE <1>4 DEF KillPanics, procVars, outVars, callVars, NilReply
  <2>1. ProcessInv'
    OBVIOUS
  <2>2. RunnerInv'
    OBVIOUS
  <2>3. ResultInv'
    OBVIOUS
  <2>4. TimeoutInv'
    OBVIOUS
  <2>5. GroupsDistinct'
    <3>1. GroupsDistinct /\ UNCHANGED procVars
      OBVIOUS
    <3> QED BY ONLY <3>1, GroupsFrame
  <2> QED BY <2>1, <2>2, <2>3, <2>4, <2>5 DEF IInv
<1> HIDE DEF IInv
<1> QED BY <1>1, <1>2, <1>3, <1>4 DEF Handler

LEMMA RunnerStep == ASSUME IInv, CallTypeOK', NEW t \in Task, Runner(t) PROVE IInv'
<1> USE DEF IInv, ProcessInv, RunnerInv, ResultInv, TimeoutInv, GroupsDistinct,
            CallTypeOK, Normal, Errors, RunError, ExitCode, PipeOpen, GroupRuns,
            GroupExists, InGroup, HoldsPipe
<1>1. ASSUME NEW p \in Pid, Fork(t, p) PROVE IInv'
  <2> USE <1>1 DEF Fork, outVars, callVars, PidFree
  <2>1. ProcessInv'
    OBVIOUS
  <2>2. RunnerInv'
    OBVIOUS
  <2>3. ResultInv'
    OBVIOUS
  <2>4. TimeoutInv'
    OBVIOUS
  <2>5. GroupsDistinct'
    OBVIOUS
  <2> QED BY <2>1, <2>2, <2>3, <2>4, <2>5 DEF IInv
<1>2. CASE StartFails(t)
  <2> USE <1>2 DEF StartFails, procVars, outVars, callVars
  <2>1. ProcessInv'
    OBVIOUS
  <2>2. RunnerInv'
    OBVIOUS
  <2>3. ResultInv'
    OBVIOUS
  <2>4. TimeoutInv'
    OBVIOUS
  <2>5. GroupsDistinct'
    <3>1. GroupsDistinct /\ UNCHANGED procVars
      OBVIOUS
    <3> QED BY ONLY <3>1, GroupsFrame
  <2> QED BY <2>1, <2>2, <2>3, <2>4, <2>5 DEF IInv
<1>3. CASE Publish(t)
  <2> USE <1>3 DEF Publish, procVars, outVars, callVars
  <2>1. ProcessInv'
    OBVIOUS
  <2>2. RunnerInv'
    OBVIOUS
  <2>3. ResultInv'
    OBVIOUS
  <2>4. TimeoutInv'
    OBVIOUS
  <2>5. GroupsDistinct'
    <3>1. GroupsDistinct /\ UNCHANGED procVars
      OBVIOUS
    <3> QED BY ONLY <3>1, GroupsFrame
  <2> QED BY <2>1, <2>2, <2>3, <2>4, <2>5 DEF IInv
<1>4. CASE Reap(t)
  <2> USE <1>4 DEF Reap, outVars, callVars
  <2>1. ProcessInv'
    OBVIOUS
  <2>2. RunnerInv'
    OBVIOUS
  <2>3. ResultInv'
    OBVIOUS
  <2>4. TimeoutInv'
    OBVIOUS
  <2>5. GroupsDistinct'
    <3>1. pid' = pid /\ \A u \in Task : GroupExists(u)' => GroupExists(u)
      OBVIOUS
    <3>2. GroupsDistinct
      OBVIOUS
    <3> QED BY ONLY <3>1, <3>2, GroupsKept
  <2> QED BY <2>1, <2>2, <2>3, <2>4, <2>5 DEF IInv
<1>5. CASE FinishCopy(t)
  <2> USE <1>5 DEF FinishCopy, procVars, outVars, callVars
  <2>1. ProcessInv'
    OBVIOUS
  <2>2. RunnerInv'
    OBVIOUS
  <2>3. ResultInv'
    OBVIOUS
  <2>4. TimeoutInv'
    OBVIOUS
  <2>5. GroupsDistinct'
    <3>1. GroupsDistinct /\ UNCHANGED procVars
      OBVIOUS
    <3> QED BY ONLY <3>1, GroupsFrame
  <2> QED BY <2>1, <2>2, <2>3, <2>4, <2>5 DEF IInv
<1>6. CASE SendResult(t)
  <2> USE <1>6 DEF SendResult, procVars, outVars, callVars
  <2>1. ProcessInv'
    OBVIOUS
  <2>2. RunnerInv'
    OBVIOUS
  <2>3. ResultInv'
    OBVIOUS
  <2>4. TimeoutInv'
    OBVIOUS
  <2>5. GroupsDistinct'
    <3>1. GroupsDistinct /\ UNCHANGED procVars
      OBVIOUS
    <3> QED BY ONLY <3>1, GroupsFrame
  <2> QED BY <2>1, <2>2, <2>3, <2>4, <2>5 DEF IInv
<1> HIDE DEF IInv
<1> QED BY <1>1, <1>2, <1>3, <1>4, <1>5, <1>6 DEF Runner

LEMMA EnvironmentStep ==
    ASSUME IInv, CallTypeOK', NEW t \in Task, Environment(t) \/ Copy(t) PROVE IInv'
<1> USE DEF IInv, ProcessInv, RunnerInv, ResultInv, TimeoutInv, GroupsDistinct,
            CallTypeOK, Normal, Errors, RunError, ExitCode, PipeOpen, GroupRuns,
            GroupExists, InGroup, HoldsPipe
<1>1. CASE Call(t)
  <2> USE <1>1 DEF Call, procVars, outVars, callVars
  <2>1. ProcessInv'
    OBVIOUS
  <2>2. RunnerInv'
    OBVIOUS
  <2>3. ResultInv'
    OBVIOUS
  <2>4. TimeoutInv'
    OBVIOUS
  <2>5. GroupsDistinct'
    <3>1. GroupsDistinct /\ UNCHANGED procVars
      OBVIOUS
    <3> QED BY ONLY <3>1, GroupsFrame
  <2> QED BY <2>1, <2>2, <2>3, <2>4, <2>5 DEF IInv
<1>2. CASE Write(t)
  <2> USE <1>2 DEF Write, goVars, procVars, callVars
  <2>1. ProcessInv'
    OBVIOUS
  <2>2. RunnerInv'
    OBVIOUS
  <2>3. ResultInv'
    OBVIOUS
  <2>4. TimeoutInv'
    OBVIOUS
  <2>5. GroupsDistinct'
    <3>1. GroupsDistinct /\ UNCHANGED procVars
      OBVIOUS
    <3> QED BY ONLY <3>1, GroupsFrame
  <2> QED BY <2>1, <2>2, <2>3, <2>4, <2>5 DEF IInv
<1>3. CASE Cancel(t)
  <2> USE <1>3 DEF Cancel, goVars, procVars, outVars
  <2>1. ProcessInv'
    OBVIOUS
  <2>2. RunnerInv'
    OBVIOUS
  <2>3. ResultInv'
    OBVIOUS
  <2>4. TimeoutInv'
    OBVIOUS
  <2>5. GroupsDistinct'
    <3>1. GroupsDistinct /\ UNCHANGED procVars
      OBVIOUS
    <3> QED BY ONLY <3>1, GroupsFrame
  <2> QED BY <2>1, <2>2, <2>3, <2>4, <2>5 DEF IInv
<1>4. CASE TimeoutElapses(t)
  <2> USE <1>4 DEF TimeoutElapses, goVars, procVars, outVars
  <2>1. ProcessInv'
    OBVIOUS
  <2>2. RunnerInv'
    OBVIOUS
  <2>3. ResultInv'
    OBVIOUS
  <2>4. TimeoutInv'
    OBVIOUS
  <2>5. GroupsDistinct'
    <3>1. GroupsDistinct /\ UNCHANGED procVars
      OBVIOUS
    <3> QED BY ONLY <3>1, GroupsFrame
  <2> QED BY <2>1, <2>2, <2>3, <2>4, <2>5 DEF IInv
<1>5. ASSUME NEW s \in {"exit0", "exitN", "signal"}, Exit(t, s) PROVE IInv'
  <2> USE <1>5 DEF Exit, goVars, outVars, callVars
  <2>1. ProcessInv'
    OBVIOUS
  <2>2. RunnerInv'
    OBVIOUS
  <2>3. ResultInv'
    OBVIOUS
  <2>4. TimeoutInv'
    OBVIOUS
  <2>5. GroupsDistinct'
    <3>1. pid' = pid /\ \A u \in Task : GroupExists(u)' => GroupExists(u)
      OBVIOUS
    <3>2. GroupsDistinct
      OBVIOUS
    <3> QED BY ONLY <3>1, <3>2, GroupsKept
  <2> QED BY <2>1, <2>2, <2>3, <2>4, <2>5 DEF IInv
<1>6. ASSUME NEW k \in KidKind, SpawnKid(t, k) PROVE IInv'
  <2> USE <1>6 DEF SpawnKid, goVars, outVars, callVars
  <2>1. ProcessInv'
    OBVIOUS
  <2>2. RunnerInv'
    OBVIOUS
  <2>3. ResultInv'
    OBVIOUS
  <2>4. TimeoutInv'
    OBVIOUS
  <2>5. GroupsDistinct'
    <3>1. pid' = pid /\ \A u \in Task : GroupExists(u)' => GroupExists(u)
      OBVIOUS
    <3>2. GroupsDistinct
      OBVIOUS
    <3> QED BY ONLY <3>1, <3>2, GroupsKept
  <2> QED BY <2>1, <2>2, <2>3, <2>4, <2>5 DEF IInv
<1>7. ASSUME NEW k \in KidKind, KidExit(t, k) PROVE IInv'
  <2> USE <1>7 DEF KidExit, goVars, outVars, callVars
  <2>1. ProcessInv'
    OBVIOUS
  <2>2. RunnerInv'
    OBVIOUS
  <2>3. ResultInv'
    OBVIOUS
  <2>4. TimeoutInv'
    OBVIOUS
  <2>5. GroupsDistinct'
    <3>1. pid' = pid /\ \A u \in Task : GroupExists(u)' => GroupExists(u)
      OBVIOUS
    <3>2. GroupsDistinct
      OBVIOUS
    <3> QED BY ONLY <3>1, <3>2, GroupsKept
  <2> QED BY <2>1, <2>2, <2>3, <2>4, <2>5 DEF IInv
<1>8. CASE Copy(t)
  <2> USE <1>8 DEF Copy, goVars, procVars, callVars
  <2>1. ProcessInv'
    OBVIOUS
  <2>2. RunnerInv'
    OBVIOUS
  <2>3. ResultInv'
    OBVIOUS
  <2>4. TimeoutInv'
    OBVIOUS
  <2>5. GroupsDistinct'
    <3>1. GroupsDistinct /\ UNCHANGED procVars
      OBVIOUS
    <3> QED BY ONLY <3>1, GroupsFrame
  <2> QED BY <2>1, <2>2, <2>3, <2>4, <2>5 DEF IInv
<1> HIDE DEF IInv
<1> QED BY <1>1, <1>2, <1>3, <1>4, <1>5, <1>6, <1>7, <1>8 DEF Environment

-----------------------------------------------------------------------------
(* The theorems.                                                             *)

\* IInv holds in every reachable state.
THEOREM Invariance == Spec => []IInv
<1>1. Init => IInv
  BY DEF Init, IInv, CallTypeOK, ProcessInv, RunnerInv, ResultInv, TimeoutInv, GroupsDistinct,
         NoReply, Errors, Normal, ExitCode, GroupExists, InGroup
<1>2. IInv /\ CallTypeOK' /\ [Next]_vars => IInv'
  <2> SUFFICES ASSUME IInv, CallTypeOK', [Next]_vars PROVE IInv'
    OBVIOUS
  <2>1. CASE Next
    BY <2>1, HandlerStep, RunnerStep, EnvironmentStep DEF Next
  <2>2. CASE UNCHANGED vars
    <3> USE <2>2 DEF vars, goVars, procVars, outVars, callVars
    <3>1. ProcessInv' /\ RunnerInv'
      BY DEF IInv, ProcessInv, RunnerInv, PipeOpen
    <3>2. ResultInv' /\ TimeoutInv'
      BY DEF IInv, ResultInv, TimeoutInv, RunError, GroupRuns
    <3>3. GroupsDistinct'
      BY DEF IInv, GroupsDistinct, GroupExists
    <3> QED BY <3>1, <3>2, <3>3 DEF IInv
  <2> QED BY <2>1, <2>2
<1>3. TypeOK => CallTypeOK
  BY DEF TypeOK, CallTypeOK
<1> QED BY <1>1, <1>2, <1>3, TypeCorrect, PTL DEF Spec

\* "timeout killed" is never said of a command whose group still runs.
THEOREM TimeoutStops == Spec => []TimeoutMeansStopped
<1>1. IInv => TimeoutMeansStopped
  BY DEF IInv, TimeoutInv, TimeoutMeansStopped
<1> QED BY <1>1, Invariance, PTL

\* A reply that is not a timeout carries the whole output.
THEOREM ReplyComplete == Spec => []OutputComplete
<1>1. IInv => OutputComplete
  BY DEF IInv, RunnerInv, ResultInv, OutputComplete
<1> QED BY <1>1, Invariance, PTL

\* The runner has waited for the command before a result can be sent.
LEMMA CodesTrue == IInv => ExitCodeTrue
<1> SUFFICES ASSUME IInv, NEW t \in Task
             PROVE /\ reply[t].error = "ok"      => status[t] = "exit0"  /\ reply[t].exit_code = 0
                   /\ reply[t].error = "exit"    => status[t] = "exitN"  /\ reply[t].exit_code > 0
                   /\ reply[t].error = "signal"  => status[t] = "signal" /\ reply[t].exit_code = -1
                   /\ reply[t].error = "timeout" => pid[t] # NoPid /\ reply[t].exit_code = 0
                   /\ reply[t].error = "start"   => pid[t] = NoPid /\ reply[t].exit_code = 0
  BY DEF ExitCodeTrue
<1>1. reply[t].error \in Normal => runner[t] = "gone" /\ reply[t].error = RunError(t)
  BY DEF IInv, ResultInv
<1>2. reply[t].exit_code = ExitCode(reply[t].error)
  BY DEF IInv, ResultInv
<1>3. pid[t] # NoPid /\ runner[t] = "gone" => status[t] # "none"
  BY DEF IInv, RunnerInv, ProcessInv
<1>4. status[t] \in {"none", "exit0", "exitN", "signal"} /\ reply[t].error \in Errors
  BY DEF IInv, CallTypeOK
<1>5. reply[t].error = "timeout" => pid[t] # NoPid
  BY DEF IInv, TimeoutInv
<1>6. reply[t].error = "start" => pid[t] = NoPid
  BY <1>1, <1>4 DEF RunError, Normal
<1> QED BY <1>1, <1>2, <1>3, <1>4, <1>5, <1>6 DEF RunError, ExitCode, Normal, Errors

\* Error and exit code of a reply tell of its command what ExitCodeTrue says, for
\* results, timeouts and failed starts alike.
THEOREM ReplyTruthful == Spec => []ExitCodeTrue
BY CodesTrue, Invariance, PTL

\* A handler's step reaches another call's processes only through a recycled id.
THEOREM KillScoped == Spec => KillScope
<1>1. IInv /\ [Next]_vars =>
        [\A t, u \in Task : t # u /\ handler'[t] # handler[t] /\ Harms(u) =>
            proc[t] = "reaped" /\ ~GroupExists(t) /\ pid[t] = pid[u]]_vars
  <2> SUFFICES ASSUME IInv, Next, NEW t \in Task, NEW u \in Task,
                      t # u, handler'[t] # handler[t], Harms(u)
               PROVE  proc[t] = "reaped" /\ ~GroupExists(t) /\ pid[t] = pid[u]
    OBVIOUS
  <2>1. handler \in [Task -> {"idle", "select", "kill", "terminate", "answered"}]
    BY DEF IInv, CallTypeOK
  <2>2. PICK x \in Task : Handler(x) \/ Runner(x) \/ Copy(x) \/ Environment(x)
    BY DEF Next
  <2>3. x = t
    BY <2>1, <2>2 DEF Handler, Runner, Copy, Environment, SelectResult, SelectDone,
       KillGroup, KillPanics, Fork, StartFails, Publish, Reap, FinishCopy, SendResult,
       Call, Write, Cancel, TimeoutElapses, Exit, SpawnKid, KidExit, goVars
  <2>4. KillGroup(t)
    BY <2>1, <2>2, <2>3 DEF Handler, Runner, Copy, Environment, SelectResult, SelectDone,
       KillPanics, Fork, StartFails, Publish, Reap, FinishCopy, SendResult, Harms,
       Call, Write, Cancel, TimeoutElapses, Exit, SpawnKid, KidExit, goVars, procVars
  <2>5. u \in Hit(t)
    BY <2>4 DEF KillGroup, Harms, IInv, CallTypeOK
  <2>6. pid[t] = pid[u] /\ GroupExists(u)
    BY <2>5 DEF Hit
  <2>7. ~GroupExists(t)
    BY <2>6 DEF IInv, GroupsDistinct
  <2>8. proc[t] \in {"none", "running", "zombie", "reaped"} /\ proc[t] # "none"
    BY <2>4 DEF KillGroup, ProcessSet, IInv, CallTypeOK, ProcessInv
  <2> QED BY <2>6, <2>7, <2>8 DEF GroupExists
<1> QED BY <1>1, Invariance, PTL DEF Spec, KillScope

-----------------------------------------------------------------------------
(* Each step maps to a step of the contract or to none.                      *)

\* What the contract sees of the calls themselves.
CallsOf   == {t \in Task : handler[t] # "idle"}
AnswersOf == [t \in Task |-> AnswerOf(reply[t])]

LEMMA CommandTyped ==
    ASSUME CallTypeOK, NEW t \in Task PROVE Command(t) \in Contract!Commands
<1>1. PipeOpen(t) \in BOOLEAN
  BY DEF PipeOpen
<1>2. proc[t] \in {"none", "running", "zombie", "reaped"}
      /\ status[t] \in {"none", "exit0", "exitN", "signal"}
  BY DEF CallTypeOK
<1> QED BY <1>1, <1>2 DEF Command, Contract!Commands, Contract!Statuses

\* How the command of one call may look after a step.
Moves(t) == \/ Command(t)' = Command(t)
            \/ Contract!Starts(t) \/ Contract!Ends(t) \/ Contract!Closes(t)

LEMMA CommandsMoveBy ==
    ASSUME CallTypeOK', \A t \in Task : Moves(t) PROVE Contract!CommandsMove
<1>1. \A t \in Task : Command(t)' \in Contract!Commands
  <2> SUFFICES ASSUME NEW t \in Task PROVE Command(t)' \in Contract!Commands
    OBVIOUS
  <2>1. (CallTypeOK => Command(t) \in Contract!Commands)'
    BY CommandTyped, PTL
  <2> QED BY <2>1
<1> QED BY <1>1 DEF Contract!CommandsMove, Moves

\* A step that touches no process: nothing moves.
LEMMA NothingMoves ==
    ASSUME UNCHANGED procVars, NEW t \in Task PROVE Command(t)' = Command(t)
BY DEF procVars, Command, PipeOpen

\* The moves of the command in a step of its runner, of the command itself, and
\* in a kill, which may be another call's.
LEMMA KillMoves ==
    ASSUME IInv, NEW u \in Task, KillGroup(u), NEW t \in Task PROVE Moves(t)
<1> USE DEF KillGroup, IInv, CallTypeOK
<1>1. CASE t \notin Hit(u)
  <2>1. proc'[t] = proc[t] /\ status'[t] = status[t] /\ kids'[t] = kids[t]
    BY <1>1
  <2> QED BY <2>1 DEF Moves, Command, PipeOpen
<1>2. CASE t \in Hit(u) /\ proc[t] = "running"
  <2>1. proc'[t] = "zombie" /\ status'[t] = "signal"
    BY <1>2
  <2>2. PipeOpen(t)' \in BOOLEAN
    BY DEF PipeOpen
  <2>3. Command(t).phase = "running"
    BY <1>2 DEF Command
  <2>4. Command(t)' = [phase |-> "ended", status |-> "signal", open |-> PipeOpen(t)']
    BY <2>1 DEF Command
  <2> QED BY <2>2, <2>3, <2>4 DEF Moves, Contract!Ends, Contract!Statuses
<1>3. CASE t \in Hit(u) /\ proc[t] # "running"
  <2>1. proc'[t] = proc[t] /\ status'[t] = status[t] /\ kids'[t] \subseteq kids[t]
    BY <1>3
  <2>2. PipeOpen(t)' => PipeOpen(t)
    BY <1>3, <2>1 DEF PipeOpen
  <2>3. proc[t] # "none"
    BY <1>3 DEF Hit, GroupExists, ProcessInv
  <2>4. proc[t] \in {"zombie", "reaped"}
    BY <1>3, <2>3
  <2>5. CASE PipeOpen(t)' = PipeOpen(t)
    <3>1. Command(t)' = Command(t)
      BY ONLY <2>1, <2>5 DEF Command
    <3> QED BY <3>1 DEF Moves
  <2>6. CASE PipeOpen(t) /\ ~PipeOpen(t)'
    <3>1. PipeOpen(t) = TRUE /\ PipeOpen(t)' = FALSE
      BY <2>6 DEF PipeOpen
    <3>2. Command(t) = [phase |-> "ended", status |-> status[t], open |-> TRUE]
      BY <2>4, <3>1 DEF Command
    <3>3. Command(t)' = [phase |-> "ended", status |-> status[t], open |-> FALSE]
      BY <2>1, <2>4, <3>1 DEF Command
    <3> QED BY <3>2, <3>3 DEF Moves, Contract!Closes
  <2>7. PipeOpen(t) \in BOOLEAN /\ PipeOpen(t)' \in BOOLEAN
    BY DEF PipeOpen
  <2> QED BY <2>2, <2>5, <2>6, <2>7
<1> QED BY <1>1, <1>2, <1>3

LEMMA ForkMoves ==
    ASSUME IInv, NEW u \in Task, NEW p \in Pid, Fork(u, p), NEW t \in Task PROVE Moves(t)
<1> USE DEF Fork, IInv, CallTypeOK
<1>1. CASE t # u
  <2>1. proc'[t] = proc[t] /\ status'[t] = status[t] /\ kids'[t] = kids[t]
    BY <1>1
  <2> QED BY <2>1 DEF Moves, Command, PipeOpen
<1>2. CASE t = u
  <2>1. proc[t] = "none" /\ proc'[t] = "running" /\ status'[t] = "none"
    BY <1>2 DEF ProcessInv
  <2>2. PipeOpen(t)' = TRUE
    BY <2>1 DEF PipeOpen
  <2>3. Command(t)' = [phase |-> "running", status |-> "none", open |-> TRUE]
    BY <2>1, <2>2 DEF Command
  <2>4. Command(t).phase = "none"
    BY <2>1 DEF Command
  <2>5. handler[t] # "idle"
    BY <1>2 DEF ProcessInv
  <2>6. AnswerOf(reply[t]) \in {"none", "nil"}
    BY <1>2 DEF ProcessInv, ResultInv, TimeoutInv, AnswerOf, Normal, Errors
  <2> QED BY <2>3, <2>4, <2>5, <2>6 DEF Moves, Contract!Starts, Contract!Startable
<1> QED BY <1>1, <1>2

LEMMA ExitMoves ==
    ASSUME IInv, NEW u \in Task, NEW s \in {"exit0", "exitN", "signal"}, Exit(u, s),
           NEW t \in Task
    PROVE  Moves(t)
<1> USE DEF Exit, IInv, CallTypeOK
<1>1. CASE t # u
  <2>1. proc'[t] = proc[t] /\ status'[t] = status[t] /\ kids'[t] = kids[t]
    BY <1>1
  <2> QED BY <2>1 DEF Moves, Command, PipeOpen
<1>2. CASE t = u
  <2>1. proc[t] = "running" /\ proc'[t] = "zombie" /\ status'[t] = s
    BY <1>2
  <2>2. PipeOpen(t)' \in BOOLEAN
    BY DEF PipeOpen
  <2>3. Command(t).phase = "running"
    BY <2>1 DEF Command
  <2>4. Command(t)' = [phase |-> "ended", status |-> s, open |-> PipeOpen(t)']
    BY <2>1 DEF Command
  <2> QED BY <2>2, <2>3, <2>4 DEF Moves, Contract!Ends, Contract!Statuses
<1> QED BY <1>1, <1>2

LEMMA ReapMoves ==
    ASSUME IInv, NEW u \in Task, Reap(u), NEW t \in Task PROVE Command(t)' = Command(t)
<1>1. status' = status /\ kids' = kids
  BY DEF Reap
<1>2. CASE t = u
  <2>1. proc[t] = "zombie" /\ proc'[t] = "reaped"
    BY <1>2 DEF Reap, IInv, CallTypeOK
  <2> QED BY <1>1, <2>1 DEF Command, PipeOpen
<1>3. CASE t # u
  <2>1. proc'[t] = proc[t]
    BY <1>3 DEF Reap, IInv, CallTypeOK
  <2> QED BY <1>1, <2>1 DEF Command, PipeOpen
<1> QED BY <1>2, <1>3

LEMMA KidMoves ==
    ASSUME IInv, NEW u \in Task, NEW k \in KidKind, SpawnKid(u, k) \/ KidExit(u, k),
           NEW t \in Task
    PROVE  Moves(t)
<1> USE DEF IInv, CallTypeOK
<1>1. proc'[t] = proc[t] /\ status'[t] = status[t]
  BY DEF SpawnKid, KidExit
<1>2. CASE PipeOpen(t)' = PipeOpen(t)
  <2>1. Command(t)' = Command(t)
    BY ONLY <1>1, <1>2 DEF Command
  <2> QED BY <2>1 DEF Moves
<1>3. PipeOpen(t)' => PipeOpen(t)
  <2>1. CASE SpawnKid(u, k) /\ t = u
    BY <2>1 DEF SpawnKid, PipeOpen, HoldsPipe
  <2>2. CASE KidExit(u, k) \/ t # u
    <3>1. kids'[t] \subseteq kids[t]
      BY <2>2 DEF SpawnKid, KidExit
    <3> QED BY <1>1, <3>1 DEF PipeOpen
  <2> QED BY <2>1, <2>2
<1>4. CASE PipeOpen(t) /\ ~PipeOpen(t)'
  <2>1. PipeOpen(t) = TRUE /\ PipeOpen(t)' = FALSE
    BY <1>4 DEF PipeOpen
  <2>2. proc[t] \in {"zombie", "reaped"}
    BY <1>1, <1>4 DEF PipeOpen, ProcessInv
  <2>3. Command(t) = [phase |-> "ended", status |-> status[t], open |-> TRUE]
    BY <2>1, <2>2 DEF Command
  <2>4. Command(t)' = [phase |-> "ended", status |-> status[t], open |-> FALSE]
    BY <1>1, <2>1, <2>2 DEF Command
  <2> QED BY <2>3, <2>4 DEF Moves, Contract!Closes
<1>5. PipeOpen(t) \in BOOLEAN /\ PipeOpen(t)' \in BOOLEAN
  BY DEF PipeOpen
<1> QED BY <1>2, <1>3, <1>4, <1>5

-----------------------------------------------------------------------------
\* A command moves by itself: no call is made, given up or answered.
LEMMA Alone ==
    ASSUME CallTypeOK', UNCHANGED <<handler, ctx, reply>>, \A t \in Task : Moves(t)
    PROVE  Contract!CNext
<1>1. CallsOf' = CallsOf /\ AnswersOf' = AnswersOf
  BY DEF CallsOf, AnswersOf
<1> QED BY <1>1, CommandsMoveBy DEF Contract!CNext, CallsOf, AnswersOf


\* What IInv does not say of the handler: it answers once, and enters the branch
\* of ctx.Done only when the context is done.
AnswerInv ==
    \A t \in Task : /\ handler[t] = "answered" <=> reply[t].error # "none"
                    /\ handler[t] = "kill" => t \in ctx
                    /\ t \in ctx => handler[t] # "idle"

\* Answers come from handlers, once, and the kill branch from a context that is done.
THEOREM AnswersOnce == Spec => []AnswerInv
<1>1. Init => AnswerInv
  BY DEF Init, AnswerInv, NoReply
<1>2. TypeOK /\ AnswerInv /\ [Next]_vars => AnswerInv'
  <2> SUFFICES ASSUME TypeOK, AnswerInv, [Next]_vars PROVE AnswerInv'
    OBVIOUS
  <2> USE DEF TypeOK, AnswerInv
  <2>1. ASSUME NEW t \in Task, Handler(t) PROVE AnswerInv'
    <3>1. CASE SelectResult(t)
      BY <3>1 DEF SelectResult, callVars, Normal
    <3>2. CASE SelectDone(t)
      BY <3>2 DEF SelectDone, callVars
    <3>3. CASE KillGroup(t)
      BY <3>3 DEF KillGroup, callVars
    <3>4. CASE KillPanics(t)
      BY <3>4 DEF KillPanics, NilReply, callVars
    <3> QED BY <2>1, <3>1, <3>2, <3>3, <3>4 DEF Handler
  <2>2. ASSUME NEW t \in Task, Runner(t) \/ Copy(t) PROVE AnswerInv'
    <3>1. UNCHANGED <<handler, reply, ctx>>
      BY <2>2 DEF Runner, Copy, Fork, StartFails, Publish, Reap, FinishCopy, SendResult,
                  goVars, callVars
    <3> QED BY <3>1
  <2>3. ASSUME NEW t \in Task, Environment(t) PROVE AnswerInv'
    <3>1. CASE Call(t)
      BY <3>1 DEF Call, callVars
    <3>2. CASE Cancel(t)
      BY <3>2 DEF Cancel, goVars
    <3>3. CASE ~Call(t) /\ ~Cancel(t)
      <4>1. UNCHANGED <<handler, reply, ctx>>
        BY <2>3, <3>3 DEF Environment, Write, TimeoutElapses, Exit, SpawnKid, KidExit,
                          goVars, callVars
      <4> QED BY <4>1
    <3> QED BY <3>1, <3>2, <3>3
  <2>4. CASE UNCHANGED vars
    BY <2>4 DEF vars, goVars, callVars
  <2> QED BY <2>1, <2>2, <2>3, <2>4 DEF Next
<1> QED BY <1>1, <1>2, TypeCorrect, PTL DEF Spec

\* Every reply is true of its command.
LEMMA ReplyClaims ==
    ASSUME IInv, NEW t \in Task PROVE Contract!Claim(AnswerOf(reply[t]), Command(t))
<1>1. CASE reply[t].error \in Normal
  <2>1. /\ ~PipeOpen(t)
        /\ proc[t] = "reaped" \/ pid[t] = NoPid
        /\ reply[t].error = RunError(t)
    BY <1>1 DEF IInv, RunnerInv, ResultInv
  <2>2. /\ pid[t] = NoPid <=> proc[t] = "none"
        /\ proc[t] = "reaped" => status[t] \in {"exit0", "exitN", "signal"}
        /\ proc[t] = "none" => status[t] = "none"
    BY DEF IInv, CallTypeOK, ProcessInv
  <2>3. Command(t).open = FALSE
    BY <2>1 DEF Command, PipeOpen
  <2>4. CASE pid[t] = NoPid
    <3>1. reply[t].error = "start" /\ proc[t] = "none"
      BY <2>1, <2>2, <2>4 DEF RunError
    <3>2. AnswerOf(reply[t]) = "failed"
      BY <3>1 DEF AnswerOf
    <3>3. Command(t).phase = "none"
      BY <3>1 DEF Command
    <3> QED BY <2>3, <3>2, <3>3 DEF Contract!Claim, Contract!Statuses
  <2>5. CASE pid[t] # NoPid
    <3>1. AnswerOf(reply[t]) = status[t] /\ Command(t).phase = "ended"
          /\ Command(t).status = status[t]
      BY <2>1, <2>2, <2>5 DEF RunError, AnswerOf, Command
    <3> QED BY <2>2, <2>3, <2>5, <3>1, <2>1 DEF Contract!Claim, Contract!Statuses
  <2> QED BY <2>4, <2>5
<1>2. CASE reply[t].error = "timeout"
  <2>1. proc[t] \in {"zombie", "reaped"}
    BY <1>2 DEF IInv, CallTypeOK, ProcessInv, TimeoutInv, GroupRuns
  <2> QED BY <1>2, <2>1 DEF Contract!Claim, Contract!Statuses, AnswerOf, Command
<1>3. CASE reply[t].error \in {"none", "nil"}
  BY <1>3 DEF Contract!Claim, Contract!Statuses, AnswerOf
<1> QED BY <1>1, <1>2, <1>3 DEF IInv, CallTypeOK, Normal, Errors

\* A call that is answered, by whatever step.
LEMMA Answered ==
    ASSUME IInv, IInv', NEW t \in Task, t \in CallsOf, CallsOf' = CallsOf, ctx' = ctx,
           reply[t].error = "none", reply'[t].error \in Errors \ {"none"},
           reply'[t].error \in {"timeout", "nil"} => t \in ctx,
           \A u \in Task \ {t} : reply'[u] = reply[u],
           \A u \in Task : Moves(u)
    PROVE  Contract!CNext
<1> DEFINE a == AnswerOf(reply'[t])
<1>1. AnswersOf[t] = "none"
  BY DEF AnswersOf, AnswerOf
<1>2. AnswersOf' = [AnswersOf EXCEPT ![t] = a]
  BY DEF AnswersOf
<1>3. a \in Contract!Answers
  BY DEF AnswerOf, Errors, Contract!Answers, Contract!Statuses
<1>4. a \in {"timeout", "nil"} => t \in ctx
  BY DEF AnswerOf, Errors
<1>5. Contract!Claim(a, Command(t)')
  <2>1. (IInv => Contract!Claim(AnswerOf(reply[t]), Command(t)))'
    BY ReplyClaims, PTL
  <2> QED BY <2>1
<1>6. Contract!CommandsMove
  BY CommandsMoveBy DEF IInv
<1> HIDE DEF a
<1>7. Contract!Reply(t, a)
  BY <1>1, <1>2, <1>4, <1>5, <1>6 DEF Contract!Reply, CallsOf, AnswersOf
<1> QED BY <1>3, <1>7 DEF Contract!CNext

\* The three ways in which the handler on Unix answers.
LEMMA HandlerAnswers ==
    ASSUME IInv, IInv', AnswerInv, NEW t \in Task,
           SelectResult(t) \/ KillGroup(t) \/ KillPanics(t),
           \A u \in Task : Moves(u)
    PROVE  Contract!CNext
<1>1. t \in CallsOf /\ CallsOf' = CallsOf /\ ctx' = ctx
  BY DEF SelectResult, KillGroup, KillPanics, CallsOf, IInv, CallTypeOK, callVars
<1>2. reply[t].error = "none"
  BY DEF SelectResult, KillGroup, KillPanics, AnswerInv
<1>3. \A u \in Task \ {t} : reply'[u] = reply[u]
  BY DEF SelectResult, KillGroup, KillPanics, IInv, CallTypeOK
<1>4. reply'[t].error \in Errors \ {"none"}
  BY DEF SelectResult, KillGroup, KillPanics, NilReply, IInv, CallTypeOK, Errors, Normal
<1>5. reply'[t].error \in {"timeout", "nil"} => t \in ctx
  <2>1. CASE SelectResult(t)
    <3>1. reply'[t].error \in Normal
      BY <2>1 DEF SelectResult, IInv, CallTypeOK
    <3> QED BY <3>1 DEF Normal
  <2>2. CASE KillGroup(t) \/ KillPanics(t)
    BY <2>2 DEF KillGroup, KillPanics, AnswerInv
  <2> QED BY <2>1, <2>2
<1> QED BY <1>1, <1>2, <1>3, <1>4, <1>5, Answered

-----------------------------------------------------------------------------
(* The theorem.                                                              *)


\* A step that changes nothing the contract sees.
LEMMA Stutters ==
    ASSUME UNCHANGED <<handler, ctx, reply, procVars>> PROVE UNCHANGED Contract!cvars
<1>1. \A t \in Task : Command(t)' = Command(t)
  BY NothingMoves
<1> QED BY <1>1 DEF Contract!cvars

LEMMA HandlerImplements ==
    ASSUME IInv, IInv', AnswerInv, NEW t \in Task, Handler(t)
    PROVE  [Contract!CNext]_Contract!cvars
<1>1. CASE SelectDone(t)
  <2>1. CallsOf' = CallsOf
    BY <1>1 DEF SelectDone, CallsOf, IInv, CallTypeOK
  <2>2. UNCHANGED <<ctx, reply>> /\ \A u \in Task : Command(u)' = Command(u)
    BY <1>1, NothingMoves DEF SelectDone, callVars
  <2> QED BY <2>1, <2>2 DEF Contract!cvars, CallsOf
<1>2. CASE SelectResult(t) \/ KillPanics(t)
  <2>1. \A u \in Task : Moves(u)
    BY <1>2, NothingMoves DEF SelectResult, KillPanics, Moves
  <2> QED BY <1>2, <2>1, HandlerAnswers
<1>3. CASE KillGroup(t)
  BY <1>3, KillMoves, HandlerAnswers
<1> QED BY <1>1, <1>2, <1>3 DEF Handler

LEMMA RunnerImplements ==
    ASSUME IInv, IInv', NEW t \in Task, Runner(t) \/ Copy(t)
    PROVE  [Contract!CNext]_Contract!cvars
<1>1. UNCHANGED <<handler, reply, ctx>>
  BY DEF Runner, Copy, Fork, StartFails, Publish, Reap, FinishCopy, SendResult,
         goVars, callVars
<1>2. ASSUME NEW p \in Pid, Fork(t, p) PROVE Contract!CNext
  BY <1>1, <1>2, ForkMoves, Alone DEF IInv
<1>3. CASE Reap(t)
  <2>1. \A u \in Task : Moves(u)
    BY <1>3, ReapMoves DEF Moves
  <2> QED BY <1>1, <2>1, Alone DEF IInv
<1>4. CASE StartFails(t) \/ Publish(t) \/ FinishCopy(t) \/ SendResult(t) \/ Copy(t)
  <2>1. UNCHANGED procVars
    BY <1>4 DEF StartFails, Publish, FinishCopy, SendResult, Copy
  <2> QED BY <1>1, <2>1, Stutters
<1> QED BY <1>2, <1>3, <1>4 DEF Runner

LEMMA EnvironmentImplements ==
    ASSUME IInv, IInv', AnswerInv, NEW t \in Task, Environment(t)
    PROVE  [Contract!CNext]_Contract!cvars
<1>1. CASE Call(t)
  <2>1. t \in Task \ CallsOf /\ CallsOf' = CallsOf \cup {t}
    BY <1>1 DEF Call, CallsOf, IInv, CallTypeOK
  <2>2. UNCHANGED <<ctx, reply>> /\ \A u \in Task : Command(u)' = Command(u)
    BY <1>1, NothingMoves DEF Call, callVars
  <2>3. Contract!MakeCall(t)
    BY <2>1, <2>2 DEF Contract!MakeCall, CallsOf
  <2> QED BY <2>3 DEF Contract!CNext
<1>2. CASE Cancel(t)
  <2>1. t \in CallsOf \ ctx /\ ctx' = ctx \cup {t}
    BY <1>2 DEF Cancel, CallsOf
  <2>2. UNCHANGED <<handler, reply>> /\ \A u \in Task : Command(u)' = Command(u)
    BY <1>2, NothingMoves DEF Cancel, goVars
  <2>3. Contract!GiveUp(t)
    BY <2>1, <2>2 DEF Contract!GiveUp, CallsOf
  <2> QED BY <2>3 DEF Contract!CNext
<1>3. CASE Write(t) \/ TimeoutElapses(t)
  BY <1>3, Stutters DEF Write, TimeoutElapses, goVars, callVars
<1>4. ASSUME NEW s \in {"exit0", "exitN", "signal"}, Exit(t, s) PROVE Contract!CNext
  <2>1. UNCHANGED <<handler, ctx, reply>>
    BY <1>4 DEF Exit, goVars, callVars
  <2> QED BY <1>4, <2>1, ExitMoves, Alone DEF IInv
<1>5. ASSUME NEW k \in KidKind, SpawnKid(t, k) \/ KidExit(t, k) PROVE Contract!CNext
  <2>1. UNCHANGED <<handler, ctx, reply>>
    BY <1>5 DEF SpawnKid, KidExit, goVars, callVars
  <2> QED BY <1>5, <2>1, KidMoves, Alone DEF IInv
<1> QED BY <1>1, <1>2, <1>3, <1>4, <1>5 DEF Environment

\* Before any call is made the contract is in its initial state.
LEMMA ContractInit == Init => Contract!CInit
<1> SUFFICES ASSUME Init PROVE Contract!CInit
  OBVIOUS
<1>1. \A t \in Task : PipeOpen(t) = FALSE
  BY DEF Init, PipeOpen
<1>2. \A t \in Task : Command(t) = Contract!NoCommand
  BY <1>1 DEF Init, Command, Contract!NoCommand
<1>3. \A t \in Task : AnswerOf(reply[t]) = "none"
  BY DEF Init, NoReply, AnswerOf
<1>4. ctx = {} /\ {t \in Task : handler[t] # "idle"} = {}
  BY DEF Init
<1> QED BY <1>2, <1>3, <1>4 DEF Contract!CInit

\* The Go server keeps the contract of a task service: every answer of Run is
\* given once, is true of its command and stays so, for any number of calls.
THEOREM Implements == Spec => KeepsContract
<1>1. Init => Contract!CInit
  BY ContractInit
<1>2. IInv /\ IInv' /\ AnswerInv /\ [Next]_vars => [Contract!CNext]_Contract!cvars
  <2> SUFFICES ASSUME IInv, IInv', AnswerInv, [Next]_vars
               PROVE  [Contract!CNext]_Contract!cvars
    OBVIOUS
  <2>1. CASE UNCHANGED vars
    BY <2>1, Stutters DEF vars, goVars, callVars
  <2>2. CASE Next
    BY <2>2, HandlerImplements, RunnerImplements, EnvironmentImplements DEF Next
  <2> QED BY <2>1, <2>2
<1> QED BY <1>1, <1>2, Invariance, AnswersOnce, PTL DEF Spec, KeepsContract, Contract!CSpec

\* AnswersStayTrue of the contract: what a caller was told of its command stays
\* true, whatever is done later by its own call and by others.
THEOREM AnswersTrue == Spec => []Contract!AnswersStayTrue
<1>1. IInv => Contract!AnswersStayTrue
  BY ReplyClaims DEF Contract!AnswersStayTrue
<1> QED BY <1>1, Invariance, PTL

-----------------------------------------------------------------------------
(* Windows.  What its ExecShell does to commands, a process that ends and    *)
(* both kills alike, is of two kinds: a leader that runs ends and leaves its *)
(* children detached if anything, or the orphans of one that has ended go.   *)

Killed(u) == /\ proc[u] = "running" /\ proc'[u] = "zombie"
             /\ status'[u] \in {"exit0", "exitN"}
             /\ kids'[u] \subseteq {"detached"}
Bereft(u) == /\ proc[u] # "running" /\ proc'[u] = proc[u]
             /\ status'[u] = status[u]
             /\ kids'[u] = {}
Spared(u) == proc'[u] = proc[u] /\ status'[u] = status[u] /\ kids'[u] = kids[u]
WMove(u)  == Killed(u) \/ Bereft(u) \/ Spared(u)

\* The children of a process that has ended are detached; and taskkill, and the
\* kill after it, come with a process to name and a context that is done.
OrphanInv == \A t \in Task : proc[t] # "running" => kids[t] \subseteq {"detached"}
TerminateInv == \A t \in Task : handler[t] = "terminate" => pid[t] # NoPid /\ t \in ctx

WInv == IInv /\ AnswerInv /\ OrphanInv /\ TerminateInv

LEMMA OrphansDetached == ASSUME NEW K PROVE Orphans(K) \subseteq {"detached"}
BY DEF Orphans

\* Each step that ends processes on Windows is made of such moves.
LEMMA WExitMoves ==
    ASSUME WInv, NEW t \in Task, NEW s \in {"exit0", "exitN"}, WExit(t, s), NEW u \in Task
    PROVE  WMove(u)
<1>1. CASE u = t
  <2>1. proc[u] = "running" /\ proc'[u] = "zombie" /\ status'[u] = s
        /\ kids'[u] = Orphans(kids[u])
    BY <1>1 DEF WExit, Terminate
  <2> QED BY <2>1, OrphansDetached DEF WMove, Killed
<1>2. CASE u # t
  <2>1. proc'[u] = proc[u] /\ status'[u] = status[u] /\ kids'[u] = kids[u]
    BY <1>2 DEF WExit, Terminate
  <2> QED BY <2>1 DEF WMove, Spared
<1> QED BY <1>1, <1>2

LEMMA TaskKillMoves ==
    ASSUME WInv, NEW t \in Task, TaskKill(t), NEW u \in Task
    PROVE  WMove(u) /\ (~Spared(u) => pid[u] = pid[t])
<1> DEFINE left(born, strays) ==
        [v \in Tree(t) \cup strays |->
            (IF v \in strays THEN {} ELSE kids[v] \cap {"detached"})
                \cup (IF v \in Tree(t) THEN born ELSE {})]
<1>1. PICK born \in {{}, Orphans(KidKind)}, strays \in SUBSET {v \in Task : pid[v] = pid[t]} :
         Terminate(Tree(t), "exitN", left(born, strays))
  BY DEF TaskKill
<1>2. proc' = [v \in Task |-> IF v \in Tree(t) THEN "zombie" ELSE proc[v]]
      /\ status' = [v \in Task |-> IF v \in Tree(t) THEN "exitN" ELSE status[v]]
  BY <1>1 DEF Terminate
<1>3. kids'[u] = IF u \in Tree(t) \cup strays
                   THEN left(born, strays)[u] ELSE kids[u]
  BY <1>1 DEF Terminate
<1>4. CASE u \in Tree(t)
  <2>1. proc[u] = "running" /\ pid[u] = pid[t]
    BY <1>4 DEF Tree
  <2>2. kids'[u] = (IF u \in strays THEN {} ELSE kids[u] \cap {"detached"}) \cup born
    BY <1>3, <1>4
  <2>3. kids'[u] \subseteq {"detached"}
    BY <2>2, OrphansDetached
  <2>4. proc'[u] = "zombie" /\ status'[u] = "exitN"
    BY <1>2, <1>4
  <2> QED BY <2>1, <2>3, <2>4 DEF WMove, Killed
<1>5. CASE u \notin Tree(t) /\ u \in strays
  <2>1. pid[u] = pid[t] /\ proc[u] # "running"
    BY <1>5 DEF Tree
  <2>2. kids'[u] = {} \cup {}
    BY <1>3, <1>5
  <2>3. proc'[u] = proc[u] /\ status'[u] = status[u]
    BY <1>2, <1>5
  <2> QED BY <2>1, <2>2, <2>3 DEF WMove, Bereft
<1>6. CASE u \notin Tree(t) \cup strays
  <2>1. kids'[u] = kids[u] /\ proc'[u] = proc[u] /\ status'[u] = status[u]
    BY <1>2, <1>3, <1>6
  <2> QED BY <2>1 DEF WMove, Spared
<1> QED BY <1>4, <1>5, <1>6

LEMMA ProcessKillMoves ==
    ASSUME WInv, NEW t \in Task, ProcessKill(t), NEW u \in Task
    PROVE  WMove(u) /\ (u # t => Spared(u)) /\ (u = t => proc'[u] # "running")
<1> DEFINE own == {t} \cap Tree(t)
<1>1. own = IF proc[t] = "running" THEN {t} ELSE {}
  BY DEF Tree
<1>2. Terminate(own, "exitN", [v \in own |-> Orphans(kids[v])])
  BY DEF ProcessKill
<1> HIDE DEF own
<1>3. CASE u \in own
  <2>1. u = t /\ proc[u] = "running"
    BY <1>1, <1>3
  <2>2. proc'[u] = "zombie" /\ status'[u] = "exitN" /\ kids'[u] = Orphans(kids[u])
    BY <1>2, <1>3 DEF Terminate
  <2> QED BY <2>1, <2>2, OrphansDetached DEF WMove, Killed
<1>4. CASE u \notin own
  <2>1. proc'[u] = proc[u] /\ status'[u] = status[u] /\ kids'[u] = kids[u]
    BY <1>2, <1>4 DEF Terminate
  <2> QED BY <1>1, <1>4, <2>1 DEF WMove, Spared
<1> QED BY <1>3, <1>4

\* Such moves keep the invariant, also when the handler answers "timeout" with
\* them to a call whose leader has ended by then.
LEMMA WMovesKeep ==
    ASSUME WInv, CallTypeOK', UNCHANGED <<runner, resultChan, pid, outVars>>,
           \A u \in Task : WMove(u),
           \A u \in Task : handler'[u] = "idle" => handler[u] = "idle",
           \A u \in Task : \/ reply'[u] = reply[u]
                           \/ /\ reply'[u] = [error |-> "timeout", exit_code |-> 0, output |-> 0]
                              /\ pid[u] # NoPid /\ proc'[u] # "running"
    PROVE  IInv' /\ OrphanInv'
<1> USE DEF CallTypeOK, WInv, WMove, Killed, Bereft, Spared, outVars
<1>1. OrphanInv'
  BY DEF OrphanInv
<1>2. ProcessInv'
  <2> SUFFICES ASSUME NEW t \in Task
               PROVE  /\ handler'[t] = "idle" => runner'[t] = "none"
                      /\ runner'[t] \in {"none", "spawned"} => pid'[t] = NoPid
                      /\ pid'[t] = NoPid <=> proc'[t] = "none"
                      /\ pid'[t] = NoPid => kids'[t] = {} /\ wrote'[t] = 0 /\ buf'[t] = 0
                      /\ proc'[t] \in {"zombie", "reaped"} <=> status'[t] # "none"
    BY DEF ProcessInv
  <2>1. /\ handler[t] = "idle" => runner[t] = "none"
        /\ runner[t] \in {"none", "spawned"} => pid[t] = NoPid
        /\ pid[t] = NoPid <=> proc[t] = "none"
        /\ pid[t] = NoPid => kids[t] = {} /\ wrote[t] = 0 /\ buf[t] = 0
        /\ proc[t] \in {"zombie", "reaped"} <=> status[t] # "none"
    BY DEF IInv, ProcessInv
  <2>2. WMove(t)
    OBVIOUS
  <2> QED BY <2>1, <2>2
<1>3. ASSUME NEW t \in Task, proc[t] # "running"
      PROVE  proc'[t] = proc[t] /\ status'[t] = status[t] /\ kids'[t] \subseteq kids[t]
  BY <1>3
<1>4. ASSUME NEW t \in Task, runner[t] \in {"copying", "sending", "gone"}
      PROVE  proc[t] # "running"
  BY <1>4 DEF IInv, RunnerInv, ProcessInv
<1>5. RunnerInv'
  <2> SUFFICES ASSUME NEW t \in Task
               PROVE  /\ runner'[t] \in {"copying", "sending", "gone"} =>
                           proc'[t] = "reaped" \/ pid'[t] = NoPid
                      /\ runner'[t] \in {"sending", "gone"} =>
                           ~PipeOpen(t)' /\ buf'[t] = wrote'[t]
    BY DEF RunnerInv
  <2>1. /\ runner[t] \in {"copying", "sending", "gone"} =>
              proc[t] = "reaped" \/ pid[t] = NoPid
        /\ runner[t] \in {"sending", "gone"} => ~PipeOpen(t) /\ buf[t] = wrote[t]
    BY DEF IInv, RunnerInv
  <2>2. proc[t] # "running" /\ ~PipeOpen(t) => ~PipeOpen(t)'
    BY <1>3 DEF PipeOpen
  <2> QED BY <1>3, <1>4, <2>1, <2>2
<1>6. ASSUME NEW t \in Task, runner[t] = "gone" PROVE RunError(t)' = RunError(t)
  <2>1. status'[t] = status[t] /\ pid'[t] = pid[t]
    BY <1>3, <1>4, <1>6
  <2> QED BY <2>1 DEF RunError
<1>7. ResultInv'
  <2> SUFFICES ASSUME NEW t \in Task
               PROVE  /\ resultChan'[t] # "empty" =>
                            runner'[t] = "gone" /\ resultChan'[t] = RunError(t)'
                      /\ reply'[t].error \in Normal => /\ runner'[t] = "gone"
                                                       /\ reply'[t].error = RunError(t)'
                                                       /\ reply'[t].output = wrote'[t]
                      /\ reply'[t].exit_code = ExitCode(reply'[t].error)
    BY DEF ResultInv
  <2>1. /\ resultChan[t] # "empty" => runner[t] = "gone" /\ resultChan[t] = RunError(t)
        /\ reply[t].error \in Normal => /\ runner[t] = "gone"
                                        /\ reply[t].error = RunError(t)
                                        /\ reply[t].output = wrote[t]
        /\ reply[t].exit_code = ExitCode(reply[t].error)
    BY DEF IInv, ResultInv
  <2>2. CASE reply'[t] = reply[t]
    BY <1>6, <2>1, <2>2
  <2>3. CASE reply'[t] = [error |-> "timeout", exit_code |-> 0, output |-> 0]
    <3>1. reply'[t].error \notin Normal /\ reply'[t].exit_code = ExitCode(reply'[t].error)
      BY <2>3 DEF Normal, ExitCode
    <3> QED BY <1>6, <2>1, <3>1
  <2> QED BY <2>2, <2>3
<1>8. TimeoutInv'
  <2> SUFFICES ASSUME NEW t \in Task, reply'[t].error = "timeout"
               PROVE  pid'[t] # NoPid /\ ~GroupRuns(t)'
    BY DEF TimeoutInv
  <2>1. pid[t] # NoPid /\ proc'[t] # "running"
    <3>1. CASE reply'[t] = reply[t]
      <4>1. pid[t] # NoPid /\ proc[t] # "running"
        BY <3>1 DEF IInv, TimeoutInv, GroupRuns
      <4> QED BY <1>3, <4>1
    <3> QED BY <3>1
  <2>2. kids'[t] \subseteq {"detached"}
    BY <1>1, <2>1 DEF OrphanInv
  <2> QED BY <2>1, <2>2 DEF GroupRuns, InGroup
<1>9. GroupsDistinct'
  <2>1. ASSUME NEW t \in Task, GroupExists(t)' PROVE GroupExists(t)
    <3>1. CASE Killed(t)
      BY <3>1 DEF GroupExists
    <3>2. CASE ~Killed(t)
      <4>1. proc'[t] = proc[t] /\ kids'[t] \subseteq kids[t]
        BY <3>2
      <4> QED BY <2>1, <4>1 DEF GroupExists
    <3> QED BY <3>1, <3>2
  <2> QED BY <2>1, GroupsKept DEF IInv
<1> QED BY <1>1, <1>2, <1>5, <1>7, <1>8, <1>9 DEF IInv

\* The type after the steps that are Windows' own.
LEMMA WTyped ==
    ASSUME WInv, proc' \in [Task -> {"none", "running", "zombie", "reaped"}],
           status' \in [Task -> {"none", "exit0", "exitN", "signal"}],
           DOMAIN kids' = Task, kids' = [u \in Task |-> kids'[u]],
           \A u \in Task : WMove(u),
           handler' \in [Task -> {"idle", "select", "kill", "terminate", "answered"}],
           reply' \in [Task -> [error : Errors, exit_code : {-1, 0, 1}, output : 0 .. MaxOut]],
           UNCHANGED <<runner, resultChan, pid, outVars, callVars>>
    PROVE  CallTypeOK'
<1>1. ASSUME NEW u \in Task PROVE kids'[u] \in SUBSET {"piped", "quiet", "detached"}
  BY DEF WInv, IInv, CallTypeOK, WMove, Killed, Bereft, Spared
<1>2. kids' \in [Task -> SUBSET {"piped", "quiet", "detached"}]
  BY <1>1
<1> QED BY <1>2 DEF WInv, IInv, CallTypeOK, outVars, callVars

\* The steps that are Windows' own.
LEMMA WExitKeeps ==
    ASSUME WInv, NEW t \in Task, NEW s \in {"exit0", "exitN"}, WExit(t, s)
    PROVE  IInv' /\ OrphanInv'
<1>1. \A u \in Task : WMove(u)
  BY WExitMoves
<1>2. CallTypeOK'
  BY <1>1, WTyped DEF WExit, Terminate, WInv, IInv, CallTypeOK, goVars
<1> QED BY <1>1, <1>2, WMovesKeep DEF WExit, goVars

LEMMA TaskKillKeeps ==
    ASSUME WInv, NEW t \in Task, TaskKill(t) PROVE IInv' /\ OrphanInv'
<1>1. \A u \in Task : WMove(u)
  BY TaskKillMoves
<1>2. CallTypeOK'
  BY <1>1, WTyped DEF TaskKill, Terminate, WInv, IInv, CallTypeOK
<1>3. \A u \in Task : handler'[u] = "idle" => handler[u] = "idle"
  BY DEF TaskKill, WInv, IInv, CallTypeOK
<1> QED BY <1>1, <1>2, <1>3, WMovesKeep DEF TaskKill

LEMMA TaskKillFailsKeeps ==
    ASSUME WInv, NEW t \in Task, TaskKillFails(t) PROVE IInv' /\ OrphanInv'
<1>1. \A u \in Task : WMove(u)
  BY DEF WMove, Spared, TaskKillFails, procVars
<1>2. CallTypeOK'
  BY DEF TaskKillFails, WInv, IInv, CallTypeOK, procVars, outVars, callVars
<1>3. \A u \in Task : handler'[u] = "idle" => handler[u] = "idle"
  BY DEF TaskKillFails, WInv, IInv, CallTypeOK
<1> QED BY <1>1, <1>2, <1>3, WMovesKeep DEF TaskKillFails, procVars

LEMMA ProcessKillKeeps ==
    ASSUME WInv, NEW t \in Task, ProcessKill(t) PROVE IInv' /\ OrphanInv'
<1>1. \A u \in Task : WMove(u)
  BY ProcessKillMoves
<1>2. proc'[t] # "running"
  BY ProcessKillMoves
<1>3. pid[t] # NoPid
  BY DEF ProcessKill, WInv, TerminateInv
<1>4. \A u \in Task : \/ reply'[u] = reply[u]
                      \/ /\ reply'[u] = [error |-> "timeout", exit_code |-> 0, output |-> 0]
                         /\ pid[u] # NoPid /\ proc'[u] # "running"
  BY <1>2, <1>3 DEF ProcessKill, TimedOut, WInv, IInv, CallTypeOK
<1>5. reply' \in [Task -> [error : Errors, exit_code : {-1, 0, 1}, output : 0 .. MaxOut]]
  BY DEF ProcessKill, TimedOut, WInv, IInv, CallTypeOK, Errors
<1>6. handler' \in [Task -> {"idle", "select", "kill", "terminate", "answered"}]
  BY DEF ProcessKill, TimedOut, WInv, IInv, CallTypeOK
<1>7. CallTypeOK'
  BY <1>1, <1>5, <1>6, WTyped DEF ProcessKill, Terminate, WInv, IInv, CallTypeOK
<1>8. \A u \in Task : handler'[u] = "idle" => handler[u] = "idle"
  BY DEF ProcessKill, TimedOut, WInv, IInv, CallTypeOK
<1> QED BY <1>1, <1>4, <1>7, <1>8, WMovesKeep DEF ProcessKill

\* The steps that both ExecShells share.
Shared(t) == \/ SelectResult(t) \/ SelectDone(t) \/ KillPanics(t) \/ Runner(t) \/ Copy(t)
             \/ Call(t) \/ Write(t) \/ Cancel(t)
             \/ \E k \in KidKind : SpawnKid(t, k) \/ KidExit(t, k)

LEMMA SharedTyped ==
    ASSUME CallTypeOK, NEW t \in Task, Shared(t) PROVE CallTypeOK'
<1> USE DEF CallTypeOK, Normal, Errors
<1>1. CASE SelectResult(t)
  BY <1>1 DEF SelectResult, procVars, outVars, callVars, ExitCode
<1>2. CASE SelectDone(t)
  BY <1>2 DEF SelectDone, procVars, outVars, callVars
<1>3. CASE KillPanics(t)
  BY <1>3 DEF KillPanics, procVars, outVars, callVars, NilReply
<1>4. CASE Runner(t)
  <2>1. ASSUME NEW p \in Pid, Fork(t, p) PROVE CallTypeOK'
    BY <2>1 DEF Fork, outVars, callVars
  <2>2. CASE StartFails(t) \/ Publish(t) \/ FinishCopy(t)
    BY <2>2 DEF StartFails, Publish, FinishCopy, procVars, outVars, callVars
  <2>3. CASE Reap(t)
    BY <2>3 DEF Reap, outVars, callVars
  <2>4. CASE SendResult(t)
    BY <2>4 DEF SendResult, procVars, outVars, callVars, RunError
  <2> QED BY <1>4, <2>1, <2>2, <2>3, <2>4 DEF Runner
<1>5. CASE Copy(t)
  BY <1>5 DEF Copy, goVars, procVars, callVars
<1>6. CASE Call(t)
  BY <1>6 DEF Call, procVars, outVars, callVars
<1>7. CASE Write(t)
  BY <1>7 DEF Write, goVars, procVars, callVars
<1>8. CASE Cancel(t)
  BY <1>8 DEF Cancel, goVars, procVars, outVars
<1>9. ASSUME NEW k \in KidKind, SpawnKid(t, k) \/ KidExit(t, k) PROVE CallTypeOK'
  <2>1. kids' \in [Task -> SUBSET {"piped", "quiet", "detached"}]
    BY <1>9 DEF SpawnKid, KidExit
  <2> QED BY <1>9, <2>1 DEF SpawnKid, KidExit, goVars, outVars, callVars
<1> QED BY <1>1, <1>2, <1>3, <1>4, <1>5, <1>6, <1>7, <1>8, <1>9 DEF Shared

LEMMA SharedKeeps ==
    ASSUME WInv, NEW t \in Task, Shared(t) PROVE IInv' /\ OrphanInv'
<1> USE DEF WInv
<1>1. CallTypeOK'
  BY SharedTyped DEF IInv
<1>2. Handler(t) \/ Runner(t) \/ Environment(t) \/ Copy(t)
  BY DEF Shared, Handler, Environment
<1>3. IInv'
  BY <1>1, <1>2, HandlerStep, RunnerStep, EnvironmentStep
<1>4. OrphanInv'
  <2> SUFFICES ASSUME NEW u \in Task, proc'[u] # "running" PROVE kids'[u] \subseteq {"detached"}
    BY DEF OrphanInv
  <2>1. proc[u] # "running" => kids[u] \subseteq {"detached"}
    BY DEF OrphanInv
  <2>2. CASE proc[u] # "running" /\ kids'[u] \subseteq kids[u]
    BY <2>1, <2>2
  <2>3. proc[u] # "running"
    BY DEF Shared, SelectResult, SelectDone, KillPanics, Runner, Fork, StartFails, Publish,
           Reap, FinishCopy, SendResult, Copy, Call, Write, Cancel, SpawnKid, KidExit,
           procVars, IInv, CallTypeOK
  <2>4. CASE \E k \in KidKind : SpawnKid(t, k) \/ KidExit(t, k)
    <3>1. PICK k \in KidKind : SpawnKid(t, k) \/ KidExit(t, k)
      BY <2>4
    <3>2. SpawnKid(t, k) => u # t
      BY <2>1, <2>3 DEF SpawnKid
    <3>3. kids'[u] \subseteq kids[u]
      BY <3>1, <3>2 DEF SpawnKid, KidExit, IInv, CallTypeOK
    <3> QED BY <2>2, <2>3, <3>3
  <2>5. CASE ~\E k \in KidKind : SpawnKid(t, k) \/ KidExit(t, k)
    <3>1. kids' = kids
      BY <2>5 DEF Shared, SelectResult, SelectDone, KillPanics, Runner, Fork, StartFails,
             Publish, Reap, FinishCopy, SendResult, Copy, Call, Write, Cancel, procVars
    <3> QED BY <2>2, <2>3, <3>1
  <2> QED BY <2>4, <2>5
<1> QED BY <1>3, <1>4

\* A handler answers once, and the kills come after the context is done and have a
\* process to name.
LEMMA WAnswers ==
    ASSUME WInv, [WNext]_vars PROVE AnswerInv' /\ TerminateInv'
<1> USE DEF AnswerInv, TerminateInv
<1> CallTypeOK /\ AnswerInv /\ TerminateInv
  BY DEF WInv, IInv
<1> USE DEF CallTypeOK
<1>1. ASSUME NEW t \in Task, SelectResult(t) PROVE AnswerInv' /\ TerminateInv'
  BY <1>1 DEF SelectResult, callVars, procVars, Normal
<1>2. ASSUME NEW t \in Task, SelectDone(t) PROVE AnswerInv' /\ TerminateInv'
  BY <1>2 DEF SelectDone, callVars, procVars
<1>3. ASSUME NEW t \in Task, KillPanics(t) PROVE AnswerInv' /\ TerminateInv'
  BY <1>3 DEF KillPanics, NilReply, callVars, procVars
<1>4. ASSUME NEW t \in Task, TaskKill(t) \/ TaskKillFails(t) PROVE AnswerInv' /\ TerminateInv'
  <2>1. /\ UNCHANGED <<reply, ctx, pid>>
        /\ handler' = [handler EXCEPT ![t] = "terminate"]
        /\ handler[t] = "kill" /\ pid[t] # NoPid
    BY <1>4 DEF TaskKill, TaskKillFails, ProcessSet, callVars, procVars
  <2> QED BY <2>1
<1>5. ASSUME NEW t \in Task, ProcessKill(t) PROVE AnswerInv' /\ TerminateInv'
  <2>1. /\ UNCHANGED <<ctx, pid>>
        /\ handler' = [handler EXCEPT ![t] = "answered"]
        /\ reply' = [reply EXCEPT ![t] = [error |-> "timeout", exit_code |-> 0, output |-> 0]]
        /\ handler[t] = "terminate"
    BY <1>5 DEF ProcessKill, TimedOut, callVars
  <2> QED BY <2>1
<1>6. ASSUME NEW t \in Task, Runner(t) \/ Copy(t) PROVE AnswerInv' /\ TerminateInv'
  <2>1. UNCHANGED <<handler, reply, ctx>>
    BY <1>6 DEF Runner, Copy, Fork, StartFails, Publish, Reap, FinishCopy, SendResult,
                goVars, callVars
  <2>2. \A u \in Task : pid[u] # NoPid => pid'[u] # NoPid
    BY <1>6 DEF Runner, Copy, Fork, StartFails, Publish, Reap, FinishCopy, SendResult, procVars
  <2> QED BY <2>1, <2>2
<1>7. ASSUME NEW t \in Task, WEnvironment(t) PROVE AnswerInv' /\ TerminateInv'
  <2>1. CASE Call(t)
    BY <2>1 DEF Call, callVars, procVars
  <2>2. CASE Cancel(t)
    BY <2>2 DEF Cancel, goVars, procVars
  <2>3. CASE ~Call(t) /\ ~Cancel(t)
    <3>1. UNCHANGED <<handler, reply, ctx, pid>>
      BY <1>7, <2>3 DEF WEnvironment, Write, WExit, SpawnKid, KidExit, goVars, callVars, procVars
    <3> QED BY <3>1
  <2> QED BY <2>1, <2>2, <2>3
<1>8. CASE UNCHANGED vars
  BY <1>8 DEF vars, goVars, callVars, procVars
<1> QED BY <1>1, <1>2, <1>3, <1>4, <1>5, <1>6, <1>7, <1>8 DEF WNext, WHandler

LEMMA WNextCases ==
    ASSUME WNext
    PROVE  \E t \in Task : \/ Shared(t) \/ TaskKill(t) \/ TaskKillFails(t) \/ ProcessKill(t)
                           \/ \E s \in {"exit0", "exitN"} : WExit(t, s)
BY DEF WNext, WHandler, WEnvironment, Shared

\* The invariant on Windows: that of Unix, and where children and kills are.
THEOREM WInvariance == WSpec => []WInv
<1>1. Init => WInv
  BY DEF Init, WInv, IInv, CallTypeOK, ProcessInv, RunnerInv, ResultInv, TimeoutInv,
         GroupsDistinct, NoReply, Errors, Normal, ExitCode, GroupExists, InGroup,
         AnswerInv, OrphanInv, TerminateInv
<1>2. WInv /\ [WNext]_vars => WInv'
  <2> SUFFICES ASSUME WInv, [WNext]_vars PROVE WInv'
    OBVIOUS
  <2>1. AnswerInv' /\ TerminateInv'
    BY WAnswers
  <2>2. CASE WNext
    BY <2>1, <2>2, WNextCases, SharedKeeps, TaskKillKeeps, TaskKillFailsKeeps,
       ProcessKillKeeps, WExitKeeps DEF WInv
  <2>3. CASE UNCHANGED vars
    <3>1. \A u \in Task : WMove(u)
      BY <2>3 DEF vars, procVars, WMove, Spared
    <3>2. CallTypeOK'
      BY <2>3 DEF vars, goVars, procVars, outVars, callVars, WInv, IInv, CallTypeOK
    <3>3. IInv' /\ OrphanInv'
      BY <2>3, <3>1, <3>2, WMovesKeep DEF vars, goVars, procVars
    <3> QED BY <2>1, <3>3 DEF WInv
  <2> QED BY <2>2, <2>3
<1> QED BY <1>1, <1>2, PTL DEF WSpec

-----------------------------------------------------------------------------
(* What follows of a call on Windows.                                        *)

\* OutputComplete and ExitCodeTrue on Windows: a reply that is no timeout carries
\* all that its command and the children it left behind will ever write, and the
\* command's own exit code.
THEOREM WReplies == WSpec => [](OutputComplete /\ ExitCodeTrue)
<1>1. WInv => OutputComplete
  BY DEF WInv, IInv, RunnerInv, ResultInv, OutputComplete
<1>2. WInv => ExitCodeTrue
  BY CodesTrue DEF WInv
<1> QED BY <1>1, <1>2, WInvariance, PTL

\* WKillScope: a handler's step ends a process of another call only as a taskkill
\* by an id that two calls have had, one of which has been waited for.
THEOREM WKillScoped == WSpec => WKillScope
<1>1. ASSUME WInv, WNext, NEW t \in Task, NEW u \in Task,
             t # u, handler'[t] # handler[t], Harms(u)
      PROVE  /\ pid[t] = pid[u] /\ handler[t] = "kill"
             /\ proc[t] = "reaped" \/ proc[u] = "reaped"
  <2>1. handler \in [Task -> {"idle", "select", "kill", "terminate", "answered"}]
    BY <1>1 DEF WInv, IInv, CallTypeOK
  <2>2. PICK x \in Task : WHandler(x) \/ Runner(x) \/ Copy(x) \/ WEnvironment(x)
    BY <1>1 DEF WNext
  <2>3. x = t
    BY <1>1, <2>1, <2>2 DEF WHandler, Runner, Copy, WEnvironment, SelectResult, SelectDone,
       KillPanics, TaskKill, TaskKillFails, ProcessKill, TimedOut, Fork, StartFails, Publish,
       Reap, FinishCopy, SendResult, Call, Write, Cancel, WExit, SpawnKid, KidExit, goVars
  <2>4. ~Spared(u)
    BY <1>1 DEF Harms, Spared
  <2>5. proc' # proc \/ kids' # kids
    BY <1>1 DEF Harms
  <2>6. handler' # handler
    BY <1>1
  <2>7. TaskKill(t) \/ ProcessKill(t)
    BY <2>2, <2>3, <2>5, <2>6 DEF WHandler, Runner, Copy, WEnvironment, SelectResult,
       SelectDone, KillPanics, TaskKillFails, Fork, StartFails, Publish, Reap, FinishCopy,
       SendResult, Call, Write, Cancel, WExit, SpawnKid, KidExit, goVars, procVars
  <2>8. TaskKill(t)
    BY <1>1, <2>4, <2>7, ProcessKillMoves
  <2>9. pid[u] = pid[t] /\ handler[t] = "kill" /\ pid[t] # NoPid
    BY <1>1, <2>4, <2>8, TaskKillMoves DEF TaskKill, ProcessSet
  <2>10. ~(GroupExists(t) /\ GroupExists(u))
    BY <1>1, <2>9 DEF WInv, IInv, GroupsDistinct
  <2>11. ASSUME NEW v \in Task, pid[v] # NoPid PROVE proc[v] = "reaped" \/ GroupExists(v)
    BY <1>1, <2>11 DEF WInv, IInv, CallTypeOK, ProcessInv, GroupExists
  <2> QED BY <2>9, <2>10, <2>11
<1>2. WInv /\ [WNext]_vars =>
        [\A t, u \in Task : t # u /\ handler'[t] # handler[t] /\ Harms(u) =>
            /\ pid[t] = pid[u] /\ handler[t] = "kill"
            /\ proc[t] = "reaped" \/ proc[u] = "reaped"]_vars
  BY <1>1
<1> QED BY <1>2, WInvariance, PTL DEF WSpec, WKillScope

\* How commands look after the moves on Windows.
LEMMA WMoveMoves ==
    ASSUME IInv, NEW u \in Task, WMove(u) PROVE Moves(u)
<1>1. CASE Spared(u)
  BY <1>1 DEF Spared, Moves, Command, PipeOpen
<1>2. CASE Killed(u)
  <2>1. proc[u] = "running" /\ proc'[u] = "zombie" /\ status'[u] \in {"exit0", "exitN"}
    BY <1>2 DEF Killed
  <2>2. PipeOpen(u)' \in BOOLEAN
    BY DEF PipeOpen
  <2>3. Command(u).phase = "running"
    BY <2>1 DEF Command
  <2>4. Command(u)' = [phase |-> "ended", status |-> status'[u], open |-> PipeOpen(u)']
    BY <2>1 DEF Command
  <2> QED BY <2>1, <2>2, <2>3, <2>4 DEF Moves, Contract!Ends, Contract!Statuses
<1>3. CASE Bereft(u)
  <2>1. proc'[u] = proc[u] /\ status'[u] = status[u] /\ proc[u] # "running" /\ kids'[u] = {}
    BY <1>3 DEF Bereft
  <2>2. PipeOpen(u)' = FALSE
    BY <2>1 DEF PipeOpen
  <2>3. CASE PipeOpen(u) = FALSE
    <3>1. Command(u)' = Command(u)
      BY ONLY <2>1, <2>2, <2>3 DEF Command
    <3> QED BY <3>1 DEF Moves
  <2>4. CASE PipeOpen(u) = TRUE
    <3>1. kids[u] # {}
      BY <2>1, <2>4 DEF PipeOpen
    <3>2. proc[u] \in {"zombie", "reaped"}
      BY <2>1, <3>1 DEF IInv, CallTypeOK, ProcessInv
    <3>3. Command(u) = [phase |-> "ended", status |-> status[u], open |-> TRUE]
      BY <2>4, <3>2 DEF Command
    <3>4. Command(u)' = [phase |-> "ended", status |-> status[u], open |-> FALSE]
      BY <2>1, <2>2, <3>2 DEF Command
    <3> QED BY <3>3, <3>4 DEF Moves, Contract!Closes
  <2>5. PipeOpen(u) \in BOOLEAN
    BY DEF PipeOpen
  <2> QED BY <2>3, <2>4, <2>5
<1> QED BY <1>1, <1>2, <1>3 DEF WMove

\* Commands move, and no call is made, given up or answered.
LEMMA WAlone ==
    ASSUME WInv, IInv', UNCHANGED <<ctx, reply>>, CallsOf' = CallsOf, \A t \in Task : WMove(t)
    PROVE  Contract!CNext
<1>1. AnswersOf' = AnswersOf
  BY DEF AnswersOf
<1>2. \A t \in Task : Moves(t)
  BY WMoveMoves DEF WInv
<1> QED BY <1>1, <1>2, CommandsMoveBy DEF IInv, Contract!CNext, CallsOf, AnswersOf

LEMMA SharedImplements ==
    ASSUME WInv, WInv', NEW t \in Task, Shared(t)
    PROVE  [Contract!CNext]_Contract!cvars
BY HandlerImplements, RunnerImplements, EnvironmentImplements
   DEF Shared, Handler, Environment, WInv

\* On Windows too every answer of Run is given once, is true of its command and
\* stays so, whatever taskkill reaches.
THEOREM WImplements == WSpec => KeepsContract
<1>1. Init => Contract!CInit
  BY ContractInit
<1>2. WInv /\ WInv' /\ [WNext]_vars => [Contract!CNext]_Contract!cvars
  <2> SUFFICES ASSUME WInv, WInv', [WNext]_vars
               PROVE  [Contract!CNext]_Contract!cvars
    OBVIOUS
  <2>1. ASSUME NEW t \in Task, Shared(t) PROVE [Contract!CNext]_Contract!cvars
    BY <2>1, SharedImplements
  <2>2. ASSUME NEW t \in Task, TaskKill(t) PROVE Contract!CNext
    <3>1. CallsOf' = CallsOf
      BY <2>2 DEF TaskKill, CallsOf, WInv, IInv, CallTypeOK
    <3>2. UNCHANGED <<ctx, reply>>
      BY <2>2 DEF TaskKill, callVars
    <3> QED BY <2>2, <3>1, <3>2, TaskKillMoves, WAlone DEF WInv
  <2>3. ASSUME NEW t \in Task, TaskKillFails(t) PROVE Contract!CNext
    <3>1. CallsOf' = CallsOf
      BY <2>3 DEF TaskKillFails, CallsOf, WInv, IInv, CallTypeOK
    <3>2. UNCHANGED <<ctx, reply>> /\ \A u \in Task : WMove(u)
      BY <2>3 DEF TaskKillFails, callVars, procVars, WMove, Spared
    <3> QED BY <3>1, <3>2, WAlone DEF WInv
  <2>4. ASSUME NEW t \in Task, NEW s \in {"exit0", "exitN"}, WExit(t, s) PROVE Contract!CNext
    <3>1. CallsOf' = CallsOf /\ UNCHANGED <<ctx, reply>>
      BY <2>4 DEF WExit, CallsOf, goVars, callVars
    <3> QED BY <2>4, <3>1, WExitMoves, WAlone DEF WInv
  <2>5. ASSUME NEW t \in Task, ProcessKill(t) PROVE Contract!CNext
    <3>1. t \in CallsOf /\ CallsOf' = CallsOf /\ ctx' = ctx
      BY <2>5 DEF ProcessKill, TimedOut, CallsOf, WInv, IInv, CallTypeOK, callVars
    <3>2. reply[t].error = "none" /\ t \in ctx
      BY <2>5 DEF ProcessKill, WInv, AnswerInv, TerminateInv
    <3>3. reply'[t].error = "timeout" /\ \A u \in Task \ {t} : reply'[u] = reply[u]
      BY <2>5 DEF ProcessKill, TimedOut, WInv, IInv, CallTypeOK
    <3>4. \A u \in Task : Moves(u)
      BY <2>5, ProcessKillMoves, WMoveMoves DEF WInv
    <3>5. reply'[t].error \in Errors \ {"none"}
      BY <3>3 DEF Errors
    <3> QED BY <3>1, <3>2, <3>3, <3>4, <3>5, Answered DEF WInv
  <2>6. CASE WNext
    BY <2>1, <2>2, <2>3, <2>4, <2>5, <2>6, WNextCases
  <2>7. CASE UNCHANGED vars
    BY <2>7, Stutters DEF vars, goVars, callVars
  <2> QED BY <2>6, <2>7
<1> QED BY <1>1, <1>2, WInvariance, PTL DEF WSpec, KeepsContract, Contract!CSpec

\* AnswersStayTrue on Windows: after "timeout" too the command itself has ended,
\* although descendants a taskkill missed may go on.
THEOREM WAnswersTrue == WSpec => []Contract!AnswersStayTrue
<1>1. WInv => Contract!AnswersStayTrue
  BY ReplyClaims DEF WInv, Contract!AnswersStayTrue
<1> QED BY <1>1, WInvariance, PTL
=============================================================================

------------------------------ MODULE TaskExec ------------------------------
(***************************************************************************)
(* The Task service of the Go server: one call of Run (rpc/server/          *)
(* server.go) and the ExecShell it makes (utils/utils_unix.go), for a set   *)
(* of concurrent calls.                                                     *)
(*                                                                         *)
(* A call is two goroutines: the handler, which blocks in ExecShell's       *)
(* select, and the runner, which is inside cmd.Run() and sends its error    *)
(* on the buffered resultChan.  Beside them lives the command: bash, which  *)
(* leads a process group of its own (Setpgid), and what it leaves behind.   *)
(* Children are abstracted to their kinds:                                  *)
(*    "piped"    in the group, holds the stdout/stderr pipe                 *)
(*    "quiet"    in the group, output redirected elsewhere                  *)
(*    "detached" left the group (setsid), still holds the pipe              *)
(* Output is the number of chunks written; process ids are drawn from Pid   *)
(* and recycled as the kernel does.                                         *)
(***************************************************************************)
EXTENDS Integers, FiniteSets

CONSTANTS
    Task,      \* the calls of Run
    TimedTask, \* the calls whose request asks for a timeout (req.Timeout > 0)
    Pid,       \* process ids
    NoPid,     \* no process: cmd.Process == nil
    KidKind,   \* the kinds of children commands leave behind
    MaxOut,    \* bound on the chunks a command writes
    PipeCap    \* chunks a pipe holds before a writer blocks

ASSUME PidAssumption  == NoPid \notin Pid
ASSUME KindAssumption == KidKind \subseteq {"piped", "quiet", "detached"}
ASSUME OutAssumption  == MaxOut \in Nat /\ PipeCap \in Nat
ASSUME TimedAssumption == TimedTask \subseteq Task

VARIABLES
    handler,    \* where the handler goroutine is
    runner,     \* where the goroutine in cmd.Run() is
    ctx,        \* the calls whose context is done
    elapsed,    \* the calls whose requested timeout has passed
    resultChan, \* the content of resultChan, "empty" or the kind of error
    pid,        \* the process id of the command, NoPid until the fork
    proc,       \* the command's leader (bash)
    status,     \* how the leader ended
    kids,       \* the kinds of children still running
    wrote,      \* chunks written to the pipe
    buf,        \* chunks copied into the stdout/stderr buffers
    reply       \* what Run answered

goVars   == <<handler, runner, resultChan, reply>>
procVars == <<pid, proc, status, kids>>
outVars  == <<wrote, buf>>
callVars == <<ctx, elapsed>>
vars     == <<goVars, procVars, outVars, callVars>>

Errors == {"none", "ok", "exit", "signal", "start", "timeout", "nil"}
Normal == {"ok", "exit", "signal", "start"}
InGroup   == {"piped", "quiet"}
HoldsPipe == {"piped", "detached"}

NoReply  == [error |-> "none", exit_code |-> 0, output |-> 0]
NilReply == [error |-> "nil",  exit_code |-> 0, output |-> 0]

Init ==
    /\ handler    = [t \in Task |-> "idle"]
    /\ runner     = [t \in Task |-> "none"]
    /\ ctx        = {}
    /\ elapsed    = {}
    /\ resultChan = [t \in Task |-> "empty"]
    /\ pid        = [t \in Task |-> NoPid]
    /\ proc       = [t \in Task |-> "none"]
    /\ status     = [t \in Task |-> "none"]
    /\ kids       = [t \in Task |-> {}]
    /\ wrote      = [t \in Task |-> 0]
    /\ buf        = [t \in Task |-> 0]
    /\ reply      = [t \in Task |-> NoReply]

-----------------------------------------------------------------------------
(* What the goroutines see.                                                *)

\* The group led by t's command still has a member, if only the zombie leader.
GroupExists(t) == proc[t] \in {"running", "zombie"} \/ kids[t] \cap InGroup # {}

\* Somebody in the group of t's command is executing.
GroupRuns(t) == proc[t] = "running" \/ kids[t] \cap InGroup # {}

\* The write end of t's output pipe is open in some process.
PipeOpen(t) == proc[t] = "running" \/ kids[t] \cap HoldsPipe # {}

\* The kernel never hands out an id that a process or a group still uses.
PidFree(p) == \A u \in Task : pid[u] = p => ~GroupExists(u)

\* cmd.Process, which the handler reads without synchronisation: nil until
\* the runner, back from forkExec, has stored it.
ProcessSet(t) == pid[t] # NoPid /\ runner[t] # "forked"

\* Mutant of Hit: without Setpgid there is no group of that id.
HitNoGroup(t) == {}

\* Mutant of Hit: all commands in one group.
HitOneGroup(t) == {u \in Task : GroupExists(u)}

\* kill(-cmd.Process.Pid): the calls whose group has that id when it runs.
Hit(t) == {u \in Task : pid[u] = pid[t] /\ GroupExists(u)}

\* Mutant of RunError: a death by signal passes for an exit.
RunErrorExitOnly(t) == CASE pid[t] = NoPid                   -> "start"
                         [] status[t] \in {"exitN", "signal"} -> "exit"
                         [] OTHER                             -> "ok"

\* What cmd.Run() returns.
RunError(t) == CASE pid[t] = NoPid         -> "start"
                 [] status[t] = "exitN"    -> "exit"
                 [] status[t] = "signal"   -> "signal"
                 [] OTHER                  -> "ok"

\* Mutant of ExitCode: the shell's 128 + n for a signal.
ExitCodeOfShell(err) == CASE err = "exit"   -> 1
                          [] err = "signal" -> 137
                          [] OTHER          -> 0

\* The ExitCode ExecShell derives: WaitStatus.ExitStatus() is -1 for a command
\* that died of a signal, and an error that is no ExitError leaves 0.
ExitCode(err) == CASE err = "exit"   -> 1
                   [] err = "signal" -> -1
                   [] OTHER          -> 0

-----------------------------------------------------------------------------
(* The handler goroutine: Run, ExecShell up to its return, the response.    *)

\* Run is called: it builds the command and starts the runner goroutine.
Call(t) ==
    /\ handler[t] = "idle"
    /\ handler' = [handler EXCEPT ![t] = "select"]
    /\ runner'  = [runner  EXCEPT ![t] = "spawned"]
    /\ UNCHANGED <<resultChan, reply, procVars, outVars, callVars>>

\* case err := <-resultChan
SelectResult(t) ==
    /\ handler[t] = "select"
    /\ resultChan[t] # "empty"
    /\ handler'    = [handler EXCEPT ![t] = "answered"]
    /\ resultChan' = [resultChan EXCEPT ![t] = "empty"]
    /\ reply'      = [reply EXCEPT ![t] = [error     |-> resultChan[t],
                                           exit_code |-> ExitCode(resultChan[t]),
                                           output    |-> buf[t]]]
    /\ UNCHANGED <<runner, procVars, outVars, callVars>>

\* Mutant of SelectDone: the context is looked at after the result.
SelectDoneLate(t) ==
    /\ handler[t] = "select"
    /\ t \in ctx
    /\ resultChan[t] # "empty"
    /\ handler' = [handler EXCEPT ![t] = "kill"]
    /\ UNCHANGED <<runner, resultChan, reply, procVars, outVars, callVars>>

\* case <-ctx.Done(), possibly with a result waiting too: select is random.
SelectDone(t) ==
    /\ handler[t] = "select"
    /\ t \in ctx
    /\ handler' = [handler EXCEPT ![t] = "kill"]
    /\ UNCHANGED <<runner, resultChan, reply, procVars, outVars, callVars>>

\* The branch's body with cmd.Process set: SIGKILL to the group, whoever owns
\* that id by now, and a result without output or exit code.
KillGroup(t) ==
    /\ handler[t] = "kill"
    /\ ProcessSet(t)
    /\ proc'   = [u \in Task |-> IF u \in Hit(t) /\ proc[u] = "running"
                                   THEN "zombie" ELSE proc[u]]
    /\ status' = [u \in Task |-> IF u \in Hit(t) /\ proc[u] = "running"
                                   THEN "signal" ELSE status[u]]
    /\ kids'   = [u \in Task |-> IF u \in Hit(t) THEN kids[u] \ InGroup ELSE kids[u]]
    /\ handler' = [handler EXCEPT ![t] = "answered"]
    /\ reply'   = [reply EXCEPT ![t] = [error |-> "timeout", exit_code |-> 0, output |-> 0]]
    /\ UNCHANGED <<runner, resultChan, pid, outVars, callVars>>

\* The branch's body with cmd.Process == nil: the dereference panics, Run's
\* deferred recover logs it and Run returns (nil, nil).
KillPanics(t) ==
    /\ handler[t] = "kill"
    /\ ~ProcessSet(t)
    /\ handler' = [handler EXCEPT ![t] = "answered"]
    /\ reply'   = [reply EXCEPT ![t] = NilReply]
    /\ UNCHANGED <<runner, resultChan, procVars, outVars, callVars>>

-----------------------------------------------------------------------------
(* The runner goroutine: cmd.Run() = Start and Wait, then the send.         *)

\* Start forks bash as the leader of a new group with a free id.
Fork(t, p) ==
    /\ runner[t] = "spawned"
    /\ PidFree(p)
    /\ runner' = [runner EXCEPT ![t] = "forked"]
    /\ pid'    = [pid  EXCEPT ![t] = p]
    /\ proc'   = [proc EXCEPT ![t] = "running"]
    /\ UNCHANGED <<handler, resultChan, reply, status, kids, outVars, callVars>>

\* Start fails: no process, cmd.Process stays nil, Run returns at once.
StartFails(t) ==
    /\ runner[t] = "spawned"
    /\ runner' = [runner EXCEPT ![t] = "sending"]
    /\ UNCHANGED <<handler, resultChan, reply, procVars, outVars, callVars>>

\* Start stores cmd.Process and Run goes on to Wait.
Publish(t) ==
    /\ runner[t] = "forked"
    /\ runner' = [runner EXCEPT ![t] = "waiting"]
    /\ UNCHANGED <<handler, resultChan, reply, procVars, outVars, callVars>>

\* Wait reaps the leader; its id is free once the group is empty too.
Reap(t) ==
    /\ runner[t] = "waiting"
    /\ proc[t] = "zombie"
    /\ proc'   = [proc   EXCEPT ![t] = "reaped"]
    /\ runner' = [runner EXCEPT ![t] = "copying"]
    /\ UNCHANGED <<handler, resultChan, reply, pid, status, kids, outVars, callVars>>

\* Mutant of FinishCopy: Process.Wait alone, the copying is not waited for.
FinishCopyAtReap(t) ==
    /\ runner[t] = "copying"
    /\ runner' = [runner EXCEPT ![t] = "sending"]
    /\ UNCHANGED <<handler, resultChan, reply, procVars, outVars, callVars>>

\* Wait's second half: the copying goroutines have read up to end of file.
FinishCopy(t) ==
    /\ runner[t] = "copying"
    /\ ~PipeOpen(t)
    /\ buf[t] = wrote[t]
    /\ runner' = [runner EXCEPT ![t] = "sending"]
    /\ UNCHANGED <<handler, resultChan, reply, procVars, outVars, callVars>>

\* Mutant of SendResult: an unbuffered resultChan needs a receiver.
SendResultUnbuffered(t) ==
    /\ runner[t] = "sending"
    /\ resultChan[t] = "empty"
    /\ handler[t] = "select"
    /\ resultChan' = [resultChan EXCEPT ![t] = RunError(t)]
    /\ runner'     = [runner EXCEPT ![t] = "gone"]
    /\ UNCHANGED <<handler, reply, procVars, outVars, callVars>>

\* resultChan <- cmd.Run(): the one slot of the channel is free, so the send
\* does not need the handler.
SendResult(t) ==
    /\ runner[t] = "sending"
    /\ resultChan[t] = "empty"
    /\ resultChan' = [resultChan EXCEPT ![t] = RunError(t)]
    /\ runner'     = [runner EXCEPT ![t] = "gone"]
    /\ UNCHANGED <<handler, reply, procVars, outVars, callVars>>

\* The copying goroutines move a chunk from the pipe to the buffers.
Copy(t) ==
    /\ runner[t] \in {"waiting", "copying"}
    /\ buf[t] < wrote[t]
    /\ buf' = [buf EXCEPT ![t] = @ + 1]
    /\ UNCHANGED <<goVars, procVars, wrote, callVars>>

-----------------------------------------------------------------------------
(* The environment: the command, its children, the caller, the clock.       *)

\* The leader ends: exits with 0, with another status, or dies of a signal.
Exit(t, s) ==
    /\ proc[t] = "running"
    /\ proc'   = [proc   EXCEPT ![t] = "zombie"]
    /\ status' = [status EXCEPT ![t] = s]
    /\ UNCHANGED <<goVars, pid, kids, outVars, callVars>>

\* The leader, or a child in the foreground's place, starts a child.
SpawnKid(t, k) ==
    /\ proc[t] = "running" \/ "piped" \in kids[t]
    /\ k \notin kids[t]
    /\ kids' = [kids EXCEPT ![t] = @ \cup {k}]
    /\ UNCHANGED <<goVars, pid, proc, status, outVars, callVars>>

KidExit(t, k) ==
    /\ k \in kids[t]
    /\ kids' = [kids EXCEPT ![t] = @ \ {k}]
    /\ UNCHANGED <<goVars, pid, proc, status, outVars, callVars>>

\* Some holder of the pipe writes a chunk (bounded by MaxOut and the pipe).
Write(t) ==
    /\ PipeOpen(t)
    /\ wrote[t] < MaxOut
    /\ wrote[t] - buf[t] < PipeCap
    /\ wrote' = [wrote EXCEPT ![t] = @ + 1]
    /\ UNCHANGED <<goVars, procVars, buf, callVars>>

\* The client cancels, its deadline passes or its connection is lost.
Cancel(t) ==
    /\ handler[t] # "idle"
    /\ t \notin ctx
    /\ ctx' = ctx \cup {t}
    /\ UNCHANGED <<goVars, procVars, outVars, elapsed>>

\* The timeout named in the request passes.  Nothing in the server looks at it.
TimeoutElapses(t) ==
    /\ t \in TimedTask \ elapsed
    /\ handler[t] # "idle"
    /\ elapsed' = elapsed \cup {t}
    /\ UNCHANGED <<goVars, procVars, outVars, ctx>>

-----------------------------------------------------------------------------
Handler(t) == SelectResult(t) \/ SelectDone(t) \/ KillGroup(t) \/ KillPanics(t)

Runner(t) == \/ \E p \in Pid : Fork(t, p)
             \/ StartFails(t) \/ Publish(t) \/ Reap(t)
             \/ FinishCopy(t) \/ SendResult(t)

Environment(t) == \/ Call(t) \/ Write(t) \/ Cancel(t) \/ TimeoutElapses(t)
                  \/ \E s \in {"exit0", "exitN", "signal"} : Exit(t, s)
                  \/ \E k \in KidKind : SpawnKid(t, k) \/ KidExit(t, k)

Next == \E t \in Task : Handler(t) \/ Runner(t) \/ Copy(t) \/ Environment(t)

Spec == Init /\ [][Next]_vars

\* The Go scheduler runs every goroutine that can proceed.  Nothing is assumed
\* of commands, their children or callers.
Fairness == \A t \in Task : /\ WF_vars(Handler(t))
                            /\ WF_vars(Runner(t))
                            /\ WF_vars(Copy(t))

FairSpec == Spec /\ Fairness

\* In addition the clock advances.
TimedSpec == FairSpec /\ \A t \in Task : WF_vars(TimeoutElapses(t))
-----------------------------------------------------------------------------
(* Properties.                                                             *)

\* Every variable has its type (the shape of the state of all calls).
TypeOK ==
    /\ handler \in [Task -> {"idle", "select", "kill", "answered"}]
    /\ runner  \in [Task -> {"none", "spawned", "forked", "waiting",
                             "copying", "sending", "gone"}]
    /\ ctx \subseteq Task
    /\ elapsed \subseteq Task
    /\ resultChan \in [Task -> Normal \cup {"empty"}]
    /\ pid    \in [Task -> Pid \cup {NoPid}]
    /\ proc   \in [Task -> {"none", "running", "zombie", "reaped"}]
    /\ status \in [Task -> {"none", "exit0", "exitN", "signal"}]
    /\ kids   \in [Task -> SUBSET KidKind]
    /\ wrote  \in [Task -> 0 .. MaxOut]
    /\ buf    \in [Task -> 0 .. MaxOut]
    /\ reply  \in [Task -> [error : Errors, exit_code : {-1, 0, 1},
                            output : 0 .. MaxOut]]

\* A caller told "timeout killed" can rely on it: bash and every process still
\* in its group are dead, also when the kill met a reaped leader, or a command
\* that had just ended (ExecShell's ctx.Done branch).
TimeoutMeansStopped ==
    \A t \in Task : reply[t].error = "timeout" => ~GroupRuns(t)

\* A reply that is not a timeout carries all the command ever wrote, whoever
\* wrote it: nothing is left that could write more (ExecShell reads the buffers
\* without a lock after the receive from resultChan).
OutputComplete ==
    \A t \in Task : reply[t].error \in Normal =>
        reply[t].output = wrote[t] /\ ~PipeOpen(t)

\* Error and exit code of a reply, taken together, tell the truth of the command,
\* from the answer on: an empty error with 0 that it exited with 0, -1 that a signal
\* ended it.  Beside "timeout killed" (a command was there) and beside the error of
\* a failed start (there never was one) the code is 0, where docs/api.md:114 and
\* :402 have -1: who looks at the code alone takes both for a success.
ExitCodeTrue ==
    \A t \in Task : LET r == reply[t] IN
        /\ r.error = "ok"      => status[t] = "exit0"  /\ r.exit_code = 0
        /\ r.error = "exit"    => status[t] = "exitN"  /\ r.exit_code > 0
        /\ r.error = "signal"  => status[t] = "signal" /\ r.exit_code = -1
        /\ r.error = "timeout" => pid[t] # NoPid /\ r.exit_code = 0
        /\ r.error = "start"   => pid[t] = NoPid /\ r.exit_code = 0

\* A live group's id names one call only, whatever the kernel recycles: a kill
\* that reads it from cmd.Process finds no second owner.
GroupsDistinct ==
    \A t, u \in Task :
        GroupExists(t) /\ GroupExists(u) /\ pid[t] = pid[u] => t = u

\* No handler's step ends a process of another call, except a kill that comes
\* when the caller's own command is reaped, its group is empty and its id has
\* been handed out again.
Harms(u) == \/ proc[u] = "running" /\ proc'[u] # "running"
            \/ ~(kids[u] \subseteq kids'[u])
KillScope ==
    [][\A t, u \in Task : t # u /\ handler'[t] # handler[t] /\ Harms(u) =>
          proc[t] = "reaped" /\ ~GroupExists(t) /\ pid[t] = pid[u]]_vars

\* A handler whose context is done answers, whatever its command does.
CancelledCallReturns ==
    \A t \in Task : t \in ctx /\ handler[t] = "select" ~> handler[t] = "answered"

\* Once a command and every holder of its pipe have ended, its call is answered
\* and its runner goroutine is gone: no goroutine leaks on either branch.
Ended(t) == proc[t] \in {"zombie", "reaped"} /\ ~PipeOpen(t)
EndedCallSettles ==
    \A t \in Task : Ended(t) ~> handler[t] = "answered" /\ runner[t] = "gone"

\* docs/api.md, the timeout field: a call is answered when it has run for the
\* timeout its request names.
TimeoutHonoured ==
    \A t \in Task : t \in elapsed ~> handler[t] = "answered"

\* docs/api.md: Run executes the command and returns its result.
EveryCallGetsResponse ==
    \A t \in Task : handler[t] = "answered" => reply[t].error # "nil"

-----------------------------------------------------------------------------
(* What a call is to its caller: the mapping to TaskContract.                *)

\* A command is started by the fork and ended before it is reaped.
Command(t) == [phase  |-> IF proc[t] \in {"zombie", "reaped"} THEN "ended" ELSE proc[t],
               status |-> status[t],
               open   |-> PipeOpen(t)]

\* A reply's error and exit code as an answer.
AnswerOf(r) == CASE r.error = "ok"    -> "exit0"
                 [] r.error = "exit"  -> "exitN"
                 [] r.error = "start" -> "failed"
                 [] OTHER             -> r.error

Contract == INSTANCE TaskContract WITH
    Void   <- {"nil"},
    called <- {t \in Task : handler[t] # "idle"},
    late   <- ctx,
    cmd    <- [t \in Task |-> Command(t)],
    answer <- [t \in Task |-> AnswerOf(reply[t])]

\* ExecShell keeps the contract of a task service: every answer is given once,
\* is true when it is given and stays true, whatever other calls' kills hit, and
\* "timeout" comes only when the context is done.
KeepsContract == Contract!CSpec
=============================================================================

--------------------------- MODULE TaskExecWindows ---------------------------
(***************************************************************************)
(* Run with the ExecShell of utils/utils_windows.go.  Goroutines, channel,   *)
(* pipe and reply are those of TaskExec; what differs is the command.        *)
(*                                                                         *)
(* There are no process groups.  taskkill /T finds the descendants of a      *)
(* process by its id while that process runs; when it has ended its children *)
(* are orphans: those that hold the pipe are "detached" from then on, the    *)
(* others are of no concern any more.  An orphan keeps the id of its parent, *)
(* which may come to be another call's.  There are no signals: a process     *)
(* that is killed exits with status 1.  An id is not used again before Wait  *)
(* has closed the handle of its process.                                     *)
(***************************************************************************)
EXTENDS TaskExec

\* What is left of the children of a process that ends by itself.
Orphans(K) == IF K \cap HoldsPipe = {} THEN {} ELSE {"detached"}

\* The leaders in S end with status s; left are the children that remain.
Terminate(S, s, left) ==
    /\ proc'   = [u \in Task |-> IF u \in S THEN "zombie" ELSE proc[u]]
    /\ status' = [u \in Task |-> IF u \in S THEN s ELSE status[u]]
    /\ kids'   = [u \in Task |-> IF u \in DOMAIN left THEN left[u] ELSE kids[u]]

\* cmd.exe ends.
WExit(t, s) ==
    /\ proc[t] = "running"
    /\ Terminate({t}, s, [u \in {t} |-> Orphans(kids[u])])
    /\ UNCHANGED <<goVars, pid, outVars, callVars>>

\* Mutant of Tree: taskkill /IM cmd.exe.
TreeByName(t) == {u \in Task : proc[u] = "running"}

\* taskkill /PID: the processes that have the id when it looks.
Tree(t) == {u \in Task : pid[u] = pid[t] /\ proc[u] = "running"}

\* Mutant of TaskKillFails: the handler tries taskkill again.
TaskKillRetries(t) == FALSE

\* taskkill is missing, is refused, or finds no such process; ExecShell does not
\* look at its error.
TaskKillFails(t) ==
    /\ handler[t] = "kill"
    /\ ProcessSet(t)
    /\ handler' = [handler EXCEPT ![t] = "terminate"]
    /\ UNCHANGED <<runner, resultChan, reply, procVars, outVars, callVars>>

\* taskkill /F /T ends the tree, but for children that left it or are born while
\* it looks aside, and with it orphans whose parent had the same id.
TaskKill(t) ==
    /\ handler[t] = "kill"
    /\ ProcessSet(t)
    /\ Tree(t) # {}
    /\ \E born \in {{}, Orphans(KidKind)}, strays \in SUBSET {u \in Task : pid[u] = pid[t]} :
          Terminate(Tree(t), "exitN",
                    [u \in Tree(t) \cup strays |->
                        (IF u \in strays THEN {} ELSE kids[u] \cap {"detached"})
                            \cup (IF u \in Tree(t) THEN born ELSE {})])
    /\ handler' = [handler EXCEPT ![t] = "terminate"]
    /\ UNCHANGED <<runner, resultChan, reply, pid, outVars, callVars>>

TimedOut(t) ==
    /\ handler' = [handler EXCEPT ![t] = "answered"]
    /\ reply'   = [reply EXCEPT ![t] = [error |-> "timeout", exit_code |-> 0, output |-> 0]]

\* Mutant of ProcessKill: taskkill is all there is.
ProcessKillLeftOut(t) ==
    /\ handler[t] = "terminate"
    /\ TimedOut(t)
    /\ UNCHANGED <<runner, resultChan, procVars, outVars, callVars>>

\* cmd.Process.Kill() has a handle, not an id: it ends the call's own cmd.exe, or
\* finds it finished.  Then the answer, without output or exit code.
ProcessKill(t) ==
    /\ handler[t] = "terminate"
    /\ LET own == {t} \cap Tree(t) IN
          Terminate(own, "exitN", [u \in own |-> Orphans(kids[u])])
    /\ TimedOut(t)
    /\ UNCHANGED <<runner, resultChan, pid, outVars, callVars>>

\* As on Unix: the nil dereference, and the branch of the result, whose output
\* ConvertEncoding takes from GBK to UTF-8 if it is GBK.
WHandler(t) == \/ SelectResult(t) \/ SelectDone(t) \/ KillPanics(t)
               \/ TaskKill(t) \/ TaskKillFails(t) \/ ProcessKill(t)

WEnvironment(t) == \/ Call(t) \/ Write(t) \/ Cancel(t)
                   \/ \E s \in {"exit0", "exitN"} : WExit(t, s)
                   \/ \E k \in KidKind : SpawnKid(t, k) \/ KidExit(t, k)

WNext == \E t \in Task : WHandler(t) \/ Runner(t) \/ Copy(t) \/ WEnvironment(t)

WSpec == Init /\ [][WNext]_vars

\* The goroutines are scheduled, and taskkill ends.
WFairSpec == /\ WSpec
             /\ \A t \in Task : /\ WF_vars(WHandler(t))
                                /\ WF_vars(Runner(t))
                                /\ WF_vars(Copy(t))

-----------------------------------------------------------------------------
(* Properties; OutputComplete, EndedCallSettles and KeepsContract are those of *)
(* TaskExec.                                                                 *)

\* A handler's steps end no process of another call, except taskkill by an id
\* that was handed out again: a cmd.exe when the handler's own is gone, orphans
\* also otherwise.  The kill that follows, which has a handle, never does.
WKillScope ==
    [][\A t, u \in Task : t # u /\ handler'[t] # handler[t] /\ Harms(u) =>
          /\ pid[t] = pid[u] /\ handler[t] = "kill"
          /\ proc[t] = "reaped" \/ proc[u] = "reaped"]_vars

\* A handler whose context is done answers, also when taskkill fails.
WCancelledCallReturns ==
    \A t \in Task : t \in ctx /\ handler[t] = "select" ~> handler[t] = "answered"
=============================================================================

-------------------------- MODULE PythonClient_proof --------------------------
(***************************************************************************)
(* The Python server leaves no zombie behind an answer, cuts no command short *)
(* when one signal stops it and keeps the contract of a task service without  *)
(* void answers; and all of it holds with the client in front.  For any       *)
(* number of calls, workers and kinds of children.                            *)
(***************************************************************************)
EXTENDS PythonClient, TLAPS

\* The type of all but the queue.
RunTypeOK ==
    /\ run \in [Task -> {"idle", "queued", "popen", "communicate", "kill", "drain", "answered", "dropped"}]
    /\ expired \subseteq Task
    /\ shell \in [Task -> {"none", "running", "zombie", "reaped"}]
    /\ status \in [Task -> {"none", "exit0", "exitN", "signal"}]
    /\ kids \in [Task -> SUBSET KidKind]
    /\ reply \in [Task -> [error : {"none", "", "timeout", "exception"}, exit_code : {-9, -1, 0, 1}]]
    /\ main \in {"boot", "started", "int_set", "serving", "exiting", "aborting", "exited", "killed"}
    /\ grace \in BOOLEAN
    /\ cancelled \subseteq Task

\* The queue holds each call that waits, once, and no other.
QueueInv ==
    /\ queue \in Seq(Task)
    /\ \A i \in 1 .. Len(queue) : run[queue[i]] = "queued"
    /\ \A i, j \in 1 .. Len(queue) : queue[i] = queue[j] => i = j
    /\ \A t \in Task : run[t] = "queued" => \E i \in 1 .. Len(queue) : queue[i] = t

\* The shell follows the worker.
ShellInv == \A t \in Task :
    /\ run[t] \in {"idle", "queued", "popen", "dropped"} => shell[t] = "none" /\ kids[t] = {}
    /\ run[t] \in {"communicate", "kill"} => shell[t] \in {"running", "zombie"}
    /\ run[t] = "drain" => shell[t] \in {"zombie", "reaped"}
    /\ run[t] = "answered" => shell[t] \in {"none", "reaped"} /\ "piped" \notin kids[t]
    /\ shell[t] \in {"none", "running"} <=> status[t] = "none"

\* After the workers are joined none of them has work, and nobody gets more; a
\* call that Run was not called for had been cancelled.
MainInv == \A t \in Task :
    /\ main = "exited" => run[t] \in {"idle", "answered", "dropped"}
    /\ run[t] = "dropped" => t \in cancelled

PInv == RunTypeOK /\ QueueInv /\ ShellInv /\ MainInv

-----------------------------------------------------------------------------
\* The invariant holds at the start.
LEMMA PInvInit == Init => PInv
<1> SUFFICES ASSUME Init PROVE PInv
  OBVIOUS
<1>1. RunTypeOK
  BY DEF Init, RunTypeOK, NoReply
<1>2. QueueInv
  BY DEF Init, QueueInv
<1>3. ShellInv
  BY DEF Init, ShellInv
<1>4. MainInv
  BY DEF Init, MainInv
<1> QED BY <1>1, <1>2, <1>3, <1>4 DEF PInv

\* A call that is handed to the pool joins the end of the queue.
LEMMA SubmitKeeps == ASSUME PInv, NEW t \in Task, Submit(t) PROVE PInv'
<1> USE DEF PInv, Submit, procVars, mainVars
<1>t. RunTypeOK /\ QueueInv /\ ShellInv /\ MainInv
  OBVIOUS
<1>1. RunTypeOK'
  BY <1>t DEF RunTypeOK
<1>2. QueueInv'
  <2>1. /\ queue' \in Seq(Task)
        /\ Len(queue') = Len(queue) + 1
        /\ \A i \in 1 .. Len(queue) : queue'[i] = queue[i]
        /\ queue'[Len(queue) + 1] = t
        /\ Len(queue) \in Nat
    BY <1>t DEF QueueInv
  <2>2. run'[t] = "queued" /\ run[t] = "idle" /\ \A u \in Task \ {t} : run'[u] = run[u]
    BY <1>t DEF RunTypeOK
  <2>3. \A i \in 1 .. Len(queue) : queue[i] \in Task /\ queue[i] # t
    BY <1>t, <2>2 DEF QueueInv
  <2>4. \A i \in 1 .. Len(queue') : run'[queue'[i]] = "queued"
    BY <1>t, <2>1, <2>2, <2>3 DEF QueueInv
  <2>5. \A i, j \in 1 .. Len(queue') : queue'[i] = queue'[j] => i = j
    BY <1>t, <2>1, <2>3 DEF QueueInv
  <2>6. \A u \in Task : run'[u] = "queued" => \E i \in 1 .. Len(queue') : queue'[i] = u
    BY <1>t, <2>1, <2>2 DEF QueueInv
  <2> QED BY <2>1, <2>4, <2>5, <2>6 DEF QueueInv
<1>3. ShellInv'
  BY <1>t DEF RunTypeOK, ShellInv
<1>4. MainInv'
  BY <1>t DEF RunTypeOK, MainInv, mainVars
<1> QED BY <1>1, <1>2, <1>3, <1>4

\* The first call of the queue gets a worker or is passed over, and is in the
\* queue no more.
LEMMA DequeueKeeps ==
    ASSUME PInv, Ready, NEW place \in {"popen", "dropped"}, Dequeue(place),
           place = "dropped" => Head(queue) \in cancelled
    PROVE  PInv'
<1> USE DEF PInv, Ready, Dequeue, procVars, mainVars
<1>t. RunTypeOK /\ QueueInv /\ ShellInv /\ MainInv
  OBVIOUS
<1>h. /\ Len(queue) \in Nat \ {0}
      /\ queue[1] \in Task
      /\ run[queue[1]] = "queued"
      /\ Head(queue) = queue[1]
  BY <1>t DEF QueueInv
<1>r. run'[queue[1]] = place /\ \A u \in Task \ {queue[1]} : run'[u] = run[u]
  BY <1>t, <1>h DEF RunTypeOK
<1>1. RunTypeOK'
  BY <1>t DEF RunTypeOK
<1>2. QueueInv'
  <2>1. /\ queue' \in Seq(Task)
        /\ Len(queue') = Len(queue) - 1
        /\ \A i \in 1 .. Len(queue) - 1 : queue'[i] = queue[i + 1]
    BY <1>t, <1>h DEF QueueInv
  <2>2. \A i \in 2 .. Len(queue) : queue[i] \in Task \ {queue[1]}
    BY <1>t, <1>h DEF QueueInv
  <2>3. \A i \in 1 .. Len(queue') : run'[queue'[i]] = "queued"
    BY <1>t, <1>h, <1>r, <2>1, <2>2 DEF QueueInv
  <2>4. \A i, j \in 1 .. Len(queue') : queue'[i] = queue'[j] => i = j
    <3> SUFFICES ASSUME NEW i \in 1 .. Len(queue'), NEW j \in 1 .. Len(queue'),
                        queue'[i] = queue'[j]
                 PROVE  i = j
      OBVIOUS
    <3>1. queue[i + 1] = queue[j + 1] /\ i + 1 \in 1 .. Len(queue) /\ j + 1 \in 1 .. Len(queue)
      BY <1>h, <2>1
    <3>2. i + 1 = j + 1
      BY <1>t, <3>1 DEF QueueInv
    <3> QED BY <3>2
  <2>5. \A u \in Task : run'[u] = "queued" => \E i \in 1 .. Len(queue') : queue'[i] = u
    <3> SUFFICES ASSUME NEW u \in Task, run'[u] = "queued"
                 PROVE  \E i \in 1 .. Len(queue') : queue'[i] = u
      OBVIOUS
    <3>1. u # queue[1] /\ run[u] = "queued"
      BY <1>r
    <3>2. PICK i \in 1 .. Len(queue) : queue[i] = u
      BY <1>t, <3>1 DEF QueueInv
    <3>3. i - 1 \in 1 .. Len(queue') /\ queue'[i - 1] = queue[(i - 1) + 1] /\ (i - 1) + 1 = i
      BY <1>h, <2>1, <3>1, <3>2
    <3> QED BY <3>2, <3>3
  <2> QED BY <2>1, <2>3, <2>4, <2>5 DEF QueueInv
<1>3. ShellInv'
  BY <1>t, <1>h, <1>r DEF ShellInv
<1>4. MainInv'
  BY <1>t, <1>h, <1>r DEF MainInv, Alive
<1> QED BY <1>1, <1>2, <1>3, <1>4

\* Both ways to leave the queue.
LEMMA TakeKeeps == ASSUME PInv, Take \/ Drop PROVE PInv'
BY DequeueKeeps DEF Take, Drop

\* A step of one call between the queue and the next leaves the queue as it is.
LEMMA QueueStays ==
    ASSUME PInv, UNCHANGED queue, NEW t \in Task, run[t] # "queued",
           NEW p \in {"popen", "communicate", "kill", "drain", "answered"},
           run' = [run EXCEPT ![t] = p]
    PROVE  QueueInv'
<1>1. \A u \in Task : run[u] = "queued" <=> run'[u] = "queued"
  BY DEF PInv, RunTypeOK
<1>2. \A i \in 1 .. Len(queue) : queue[i] \in Task
  BY DEF PInv, QueueInv
<1> QED BY <1>1, <1>2 DEF PInv, QueueInv

\* What Run does in its worker keeps it: a shell is reaped before an answer.
LEMMA WorkerKeeps == ASSUME PInv, NEW t \in Task, Worker(t) PROVE PInv'
<1> USE DEF PInv
<1>t. RunTypeOK /\ QueueInv /\ ShellInv /\ MainInv
  OBVIOUS
<1>w. /\ main # "exited" /\ run[t] \in {"popen", "communicate", "kill", "drain"}
      /\ UNCHANGED <<queue, main, grace, cancelled, expired, kids>>
  BY DEF Worker, Alive, Popen, PopenFails, Communicated, TimeoutExpired, Kill, Drained, procVars, mainVars
<1>p. \E p \in {"communicate", "kill", "drain", "answered"} : run' = [run EXCEPT ![t] = p]
  BY DEF Worker, Popen, PopenFails, Communicated, TimeoutExpired, Kill, Drained, Answer
<1>m. MainInv'
  BY <1>t, <1>w, <1>p DEF RunTypeOK, MainInv
<1>q. \A p \in {"popen", "communicate", "kill", "drain", "answered"} :
        run' = [run EXCEPT ![t] = p] => QueueInv'
  BY <1>w, QueueStays
<1>1. CASE Popen(t)
  <2> USE <1>1 DEF Popen, mainVars
  <2>1. RunTypeOK'
    BY <1>t DEF RunTypeOK
  <2>2. ShellInv'
    BY <1>t DEF RunTypeOK, ShellInv
  <2> QED BY <1>m, <1>q, <2>1, <2>2
<1>2. CASE PopenFails(t)
  <2> USE <1>2 DEF PopenFails, Answer, procVars, mainVars
  <2>1. RunTypeOK'
    BY <1>t DEF RunTypeOK
  <2>2. ShellInv'
    BY <1>t DEF RunTypeOK, ShellInv
  <2> QED BY <1>m, <1>q, <2>1, <2>2
<1>3. CASE Communicated(t) \/ Drained(t)
  <2> USE <1>3 DEF Communicated, Drained, Answer, mainVars
  <2>1. ReturnCode(t) \in {-9, 0, 1}
    BY <1>t DEF Ended, ShellInv, RunTypeOK, ReturnCode
  <2>2. RunTypeOK'
    <3>1. PICK e \in {"", "timeout", "exception"}, x \in {-9, -1, 0, 1} :
              reply' = [reply EXCEPT ![t] = [error |-> e, exit_code |-> x]]
      BY <2>1
    <3>2. reply' \in [Task -> [error : {"none", "", "timeout", "exception"},
                               exit_code : {-9, -1, 0, 1}]]
      BY <1>t, <3>1 DEF RunTypeOK
    <3> QED BY <1>t, <3>2 DEF RunTypeOK
  <2>3. run' = [run EXCEPT ![t] = "answered"] /\ shell' = [shell EXCEPT ![t] = "reaped"]
        /\ status' = status /\ kids' = kids
    OBVIOUS
  <2>4. shell[t] \in {"zombie", "reaped"} /\ "piped" \notin kids[t]
    BY DEF Ended, PipeOpen
  <2>5. ShellInv'
    BY <1>t, <2>3, <2>4 DEF RunTypeOK, ShellInv
  <2> QED BY <1>m, <1>q, <2>2, <2>3, <2>5
<1>4. CASE TimeoutExpired(t)
  <2> USE <1>4 DEF TimeoutExpired, procVars, mainVars
  <2>1. RunTypeOK'
    BY <1>t DEF RunTypeOK
  <2>2. ShellInv'
    BY <1>t DEF RunTypeOK, ShellInv
  <2> QED BY <1>m, <1>q, <2>1, <2>2
<1>5. CASE Kill(t)
  <2> USE <1>5 DEF Kill, mainVars
  <2>1. RunTypeOK'
    BY <1>t DEF RunTypeOK
  <2>2. ShellInv'
    BY <1>t DEF RunTypeOK, ShellInv
  <2> QED BY <1>m, <1>q, <2>1, <2>2
<1> QED BY <1>1, <1>2, <1>3, <1>4, <1>5 DEF Worker

\* The clock and the commands keep it: a child is started only by what still runs
\* or holds the pipe.
LEMMA CommandsKeep == ASSUME PInv, NEW t \in Task, Elapse(t) \/ Commands(t) PROVE PInv'
<1> USE DEF PInv
<1>t. RunTypeOK /\ QueueInv /\ ShellInv /\ MainInv
  OBVIOUS
<1>u. UNCHANGED <<queue, run, reply, main, grace, cancelled>>
  BY DEF Elapse, Commands, Exit, SpawnKid, KidExit, mainVars
<1>q. QueueInv' /\ MainInv'
  BY <1>t, <1>u DEF QueueInv, MainInv
<1>1. CASE Elapse(t)
  BY <1>t, <1>u, <1>q, <1>1 DEF Elapse, procVars, RunTypeOK, ShellInv
<1>2. ASSUME NEW s \in {"exit0", "exitN", "signal"}, Exit(t, s) PROVE PInv'
  <2>1. RunTypeOK'
    BY <1>t, <1>u, <1>2 DEF Exit, RunTypeOK
  <2>2. ShellInv'
    BY <1>t, <1>2 DEF Exit, RunTypeOK, ShellInv
  <2> QED BY <1>q, <2>1, <2>2
<1>3. ASSUME NEW k \in KidKind, SpawnKid(t, k) PROVE PInv'
  <2>1. RunTypeOK'
    BY <1>t, <1>u, <1>3 DEF SpawnKid, RunTypeOK
  <2>2. run[t] \notin {"idle", "queued", "popen", "answered", "dropped"}
    BY <1>t, <1>3 DEF SpawnKid, PipeOpen, ShellInv
  <2>3. ShellInv'
    BY <1>t, <1>3, <2>2 DEF SpawnKid, RunTypeOK, ShellInv
  <2> QED BY <1>q, <2>1, <2>3
<1>4. ASSUME NEW k \in KidKind, KidExit(t, k) PROVE PInv'
  <2>1. RunTypeOK'
    BY <1>t, <1>u, <1>4 DEF KidExit, RunTypeOK
  <2>2. ShellInv'
    BY <1>t, <1>4 DEF KidExit, RunTypeOK, ShellInv
  <2> QED BY <1>q, <2>1, <2>2
<1> QED BY <1>1, <1>2, <1>3, <1>4 DEF Commands

\* What the main thread, and grpc in its place, leave alone.
LEMMA MainLeaves ==
    ASSUME Main \/ \E t \in Task : Disconnect(t)
    PROVE  UNCHANGED <<queue, run, expired, shell, status, kids, reply>>
BY DEF Main, Start, InstallSigint, InstallSigterm, DefaultSigterm, DefaultSigint, HandleSignal,
       SecondSignal, GraceEnds, Exits, Disconnect, Goes, procVars

\* They keep it too: the process ends in order only when nobody is busy and nobody
\* waits.
LEMMA MainKeeps == ASSUME PInv, Main \/ \E t \in Task : Disconnect(t) PROVE PInv'
<1> USE DEF PInv
<1>t. RunTypeOK /\ QueueInv /\ ShellInv /\ MainInv
  OBVIOUS
<1>1. UNCHANGED <<queue, run, expired, shell, status, kids, reply>>
  BY MainLeaves
<1>2. InFlight \subseteq Task
  BY DEF InFlight, Busy
<1>3. /\ main' \in {"boot", "started", "int_set", "serving", "exiting", "aborting", "exited", "killed"}
      /\ grace' \in BOOLEAN
      /\ cancelled' \in SUBSET Task
      /\ cancelled \subseteq cancelled'
  BY <1>t, <1>2 DEF RunTypeOK, Main, Start, InstallSigint, InstallSigterm, DefaultSigterm,
     DefaultSigint, HandleSignal, SecondSignal, GraceEnds, Exits, Disconnect, Goes
<1>4. RunTypeOK'
  BY <1>t, <1>1, <1>3 DEF RunTypeOK
<1>5. QueueInv'
  BY <1>t, <1>1 DEF QueueInv
<1>6. ShellInv'
  BY <1>t, <1>1 DEF ShellInv
<1>7. MainInv'
  <2>1. CASE Exits
    <3>1. \A t \in Task : run[t] # "queued"
      BY <1>t, <2>1 DEF Exits, QueueInv
    <3>2. \A t \in Task : run[t] \in {"idle", "answered", "dropped"}
      BY <1>t, <2>1, <3>1 DEF Exits, Busy, RunTypeOK
    <3> QED BY <1>t, <1>1, <1>3, <3>2 DEF MainInv
  <2>2. CASE ~Exits
    <3>1. main' = "exited" => main = "exited"
      BY <2>2 DEF Main, Start, InstallSigint, InstallSigterm, DefaultSigterm,
         DefaultSigint, HandleSignal, SecondSignal, GraceEnds, Disconnect, Goes
    <3> QED BY <1>t, <1>1, <1>3, <3>1 DEF MainInv
  <2> QED BY <2>1, <2>2
<1> QED BY <1>4, <1>5, <1>6, <1>7

\* Queue, workers, shells and the main thread fit in every reachable state.
THEOREM PInvariance == Spec => []PInv
<1>1. PInv /\ [Next]_vars => PInv'
  <2> SUFFICES ASSUME PInv, [Next]_vars PROVE PInv'
    OBVIOUS
  <2>1. CASE Main \/ \E t \in Task : Disconnect(t)
    BY <2>1, MainKeeps
  <2>2. CASE Take \/ Drop
    BY <2>2, TakeKeeps
  <2>3. ASSUME NEW t \in Task, Elapse(t) \/ Commands(t) PROVE PInv'
    BY <2>3, CommandsKeep
  <2>4. ASSUME NEW t \in Task, Worker(t) PROVE PInv'
    BY <2>4, WorkerKeeps
  <2>5. ASSUME NEW t \in Task, Submit(t) PROVE PInv'
    BY <2>5, SubmitKeeps
  <2>6. CASE UNCHANGED vars
    <3> USE <2>6 DEF vars, procVars, mainVars, PInv
    <3>1. RunTypeOK'
      BY DEF RunTypeOK
    <3>2. QueueInv'
      BY DEF QueueInv
    <3>3. ShellInv' /\ MainInv'
      BY DEF ShellInv, MainInv
    <3> QED BY <3>1, <3>2, <3>3
  <2> QED BY <2>1, <2>2, <2>3, <2>4, <2>5, <2>6 DEF Next, Serves
<1> QED BY PInvInit, <1>1, PTL DEF Spec

\* Behind an answer there is no zombie and nobody who could write to its pipe.
THEOREM AnswerEnds == Spec => []AnsweredMeansEnded
<1>1. PInv => AnsweredMeansEnded
  BY DEF PInv, ShellInv, AnsweredMeansEnded, PipeOpen
<1> QED BY <1>1, PInvariance, PTL

\* A process that ends in order, after a stop by one signal, leaves no shell running
\* and no call half done: one that has no answer was cancelled by grpc while it
\* waited, and its command was never started.
THEOREM ExitClean == Spec => []CleanExit
<1>1. PInv => CleanExit
  BY DEF PInv, MainInv, ShellInv, CleanExit
<1> QED BY <1>1, PInvariance, PTL

-----------------------------------------------------------------------------
(* The contract: PythonServer implements TaskContract without void answers.  *)

\* What the contract sees of the calls themselves.
CallsOf   == {t \in Task : run[t] # "idle"}
AnswersOf == [t \in Task |-> AnswerOf(reply[t])]

LEMMA CommandTyped ==
    ASSUME RunTypeOK, NEW t \in Task PROVE Command(t) \in Contract!Commands
<1>1. PipeOpen(t) \in BOOLEAN
  BY DEF PipeOpen
<1>2. shell[t] \in {"none", "running", "zombie", "reaped"}
      /\ status[t] \in {"none", "exit0", "exitN", "signal"}
  BY DEF RunTypeOK
<1> QED BY <1>1, <1>2 DEF Command, Contract!Commands, Contract!Statuses

\* How the command of one call may look after a step.
Moves(t) == \/ Command(t)' = Command(t)
            \/ Contract!Starts(t) \/ Contract!Ends(t) \/ Contract!Closes(t)

LEMMA CommandsMoveBy ==
    ASSUME RunTypeOK', \A t \in Task : Moves(t) PROVE Contract!CommandsMove
<1>1. \A t \in Task : Command(t)' \in Contract!Commands
  <2> SUFFICES ASSUME NEW t \in Task PROVE Command(t)' \in Contract!Commands
    OBVIOUS
  <2>1. (RunTypeOK => Command(t) \in Contract!Commands)'
    BY CommandTyped, PTL
  <2> QED BY <2>1
<1> QED BY <1>1 DEF Contract!CommandsMove, Moves

\* Where shell, status and children stay, the command does.
LEMMA SameCommand ==
    ASSUME NEW t \in Task, shell'[t] = shell[t], status'[t] = status[t], kids'[t] = kids[t]
    PROVE  Command(t)' = Command(t)
BY DEF Command, PipeOpen

-----------------------------------------------------------------------------
\* The moves of a command when Run starts its shell, ...
LEMMA PopenMoves ==
    ASSUME PInv, NEW u \in Task, Popen(u), reply[u].error = "none", NEW t \in Task
    PROVE  Moves(t)
<1> USE DEF Popen, PInv, RunTypeOK
<1>1. CASE t # u
  BY <1>1, SameCommand DEF Moves
<1>2. CASE t = u
  <2>1. shell[t] = "none" /\ shell'[t] = "running" /\ status'[t] = "none" /\ run[t] # "idle"
    BY <1>2 DEF ShellInv
  <2>2. PipeOpen(t)' = TRUE
    BY <2>1 DEF PipeOpen
  <2>3. Command(t)' = [phase |-> "running", status |-> "none", open |-> TRUE]
    BY <2>1, <2>2 DEF Command
  <2>4. Command(t).phase = "none"
    BY <2>1 DEF Command
  <2>5. AnswerOf(reply[t]) = "none"
    BY <1>2 DEF AnswerOf
  <2> QED BY <2>1, <2>3, <2>4, <2>5 DEF Moves, Contract!Starts, Contract!Startable
<1> QED BY <1>1, <1>2

\* ... when the shell ends, by itself or killed, ...
LEMMA EndMoves ==
    ASSUME NEW t \in Task, NEW s \in {"exit0", "exitN", "signal"},
           shell[t] = "running", shell'[t] = "zombie", status'[t] = s
    PROVE  Moves(t)
<1>1. PipeOpen(t)' \in BOOLEAN
  BY DEF PipeOpen
<1>2. Command(t).phase = "running"
  BY DEF Command
<1>3. Command(t)' = [phase |-> "ended", status |-> s, open |-> PipeOpen(t)']
  BY DEF Command
<1> QED BY <1>1, <1>2, <1>3 DEF Moves, Contract!Ends, Contract!Statuses

\* ... when it is reaped, ...
LEMMA ReapMoves ==
    ASSUME PInv, NEW u \in Task, shell[u] \in {"zombie", "reaped"},
           shell' = [shell EXCEPT ![u] = "reaped"], UNCHANGED <<status, kids>>,
           NEW t \in Task
    PROVE  Command(t)' = Command(t)
<1>1. CASE t # u
  BY <1>1, SameCommand DEF PInv, RunTypeOK
<1>2. CASE t = u
  <2>1. shell[t] \in {"zombie", "reaped"} /\ shell'[t] = "reaped"
    BY <1>2 DEF PInv, RunTypeOK
  <2> QED BY <2>1 DEF Command, PipeOpen
<1> QED BY <1>1, <1>2

\* ... when Run kills it, ...
LEMMA KillMoves ==
    ASSUME PInv, NEW u \in Task, Kill(u), NEW t \in Task PROVE Moves(t)
<1> USE DEF Kill, PInv, RunTypeOK
<1>1. CASE t # u
  BY <1>1, SameCommand DEF Moves
<1>2. CASE t = u /\ shell[u] = "running"
  BY <1>2, EndMoves
<1>3. CASE t = u /\ shell[u] # "running"
  <2>1. shell[t] = "zombie" /\ shell'[t] = "reaped" /\ status'[t] = status[t] /\ kids'[t] = kids[t]
    BY <1>3 DEF ShellInv
  <2>2. Command(t)' = Command(t)
    BY <2>1 DEF Command, PipeOpen
  <2> QED BY <2>2 DEF Moves
<1> QED BY <1>1, <1>2, <1>3

\* ... and when a child comes or goes.
LEMMA KidMoves ==
    ASSUME PInv, NEW u \in Task, NEW k \in KidKind, SpawnKid(u, k) \/ KidExit(u, k),
           NEW t \in Task
    PROVE  Moves(t)
<1> USE DEF PInv, RunTypeOK
<1>1. shell'[t] = shell[t] /\ status'[t] = status[t]
  BY DEF SpawnKid, KidExit
<1>2. CASE PipeOpen(t)' = PipeOpen(t)
  <2>1. Command(t)' = Command(t)
    BY ONLY <1>1, <1>2 DEF Command
  <2> QED BY <2>1 DEF Moves
<1>3. PipeOpen(t)' => PipeOpen(t)
  BY DEF SpawnKid, KidExit, PipeOpen
<1>4. CASE PipeOpen(t) /\ ~PipeOpen(t)'
  <2>1. PipeOpen(t) = TRUE /\ PipeOpen(t)' = FALSE
    BY <1>4 DEF PipeOpen
  <2>2. shell[t] \in {"zombie", "reaped"}
    BY <1>1, <1>4 DEF PipeOpen, ShellInv
  <2>3. Command(t) = [phase |-> "ended", status |-> status[t], open |-> TRUE]
    BY <2>1, <2>2 DEF Command
  <2>4. Command(t)' = [phase |-> "ended", status |-> status[t], open |-> FALSE]
    BY <1>1, <2>1, <2>2 DEF Command
  <2>5. Contract!Closes(t)
    BY ONLY <2>3, <2>4 DEF Contract!Closes
  <2> QED BY <2>5 DEF Moves
<1>5. PipeOpen(t) \in BOOLEAN /\ PipeOpen(t)' \in BOOLEAN
  BY DEF PipeOpen
<1> QED BY <1>2, <1>3, <1>4, <1>5

-----------------------------------------------------------------------------
\* The call a worker takes is one that waits.
LEMMA HeadWaits ==
    ASSUME PInv, Ready PROVE Head(queue) \in Task /\ run[Head(queue)] = "queued"
<1>1. Len(queue) \in Nat \ {0} /\ Head(queue) = queue[1] /\ queue[1] \in Task
  BY DEF Ready, PInv, QueueInv
<1> QED BY <1>1 DEF PInv, QueueInv

\* What PInv does not say: a call has a reply when Run has returned, and is killed
\* and drained only when its timeout has passed.
ReplyInv == \A t \in Task : /\ run[t] = "answered" <=> reply[t].error # "none"
                            /\ run[t] \in {"kill", "drain"} => t \in expired

\* A reply comes from Run's return, and a kill from a timeout that has passed.
THEOREM RepliesOnce == Spec => []ReplyInv
<1>1. Init => ReplyInv
  BY DEF Init, ReplyInv, NoReply
<1>2. PInv /\ ReplyInv /\ [Next]_vars => ReplyInv'
  <2> SUFFICES ASSUME PInv, ReplyInv, [Next]_vars PROVE ReplyInv'
    OBVIOUS
  <2> USE DEF PInv, RunTypeOK, ReplyInv
  <2>1. CASE (Main \/ \E t \in Task : Disconnect(t)) \/ UNCHANGED vars
    <3>1. UNCHANGED <<run, expired, reply>>
      BY <2>1, MainLeaves DEF vars
    <3> QED BY <3>1
  <2>2. CASE Take \/ Drop
    <3>1. Ready /\ \E place \in {"popen", "dropped"} : Dequeue(place)
      BY <2>2 DEF Take, Drop
    <3>2. Head(queue) \in Task /\ run[Head(queue)] = "queued"
      BY <3>1, HeadWaits
    <3> QED BY <3>1, <3>2 DEF Dequeue
  <2>3. ASSUME NEW t \in Task, Submit(t) \/ Popen(t) \/ TimeoutExpired(t) \/ Kill(t)
        PROVE  ReplyInv'
    <3>1. \E p \in {"queued", "popen", "communicate", "kill", "drain"} :
             /\ run' = [run EXCEPT ![t] = p]
             /\ p \in {"kill", "drain"} => t \in expired
      <4>1. CASE Submit(t) \/ Popen(t)
        BY <4>1 DEF Submit, Popen
      <4>2. CASE TimeoutExpired(t)
        BY <4>2 DEF TimeoutExpired
      <4>3. CASE Kill(t)
        BY <4>3 DEF Kill
      <4> QED BY <2>3, <4>1, <4>2, <4>3
    <3>2. UNCHANGED reply /\ expired' = expired /\ run[t] # "answered"
      BY <2>3 DEF Submit, Popen, TimeoutExpired, Kill
    <3>3. \A u \in Task \ {t} : run'[u] = run[u]
      BY <3>1
    <3>4. run'[t] # "answered" /\ (run'[t] \in {"kill", "drain"} => t \in expired)
      <4>1. PICK p \in {"queued", "popen", "communicate", "kill", "drain"} :
               /\ run' = [run EXCEPT ![t] = p]
               /\ p \in {"kill", "drain"} => t \in expired
        BY <3>1
      <4>2. run'[t] = p
        BY <4>1
      <4> QED BY ONLY <4>1, <4>2
    <3> QED BY ONLY ReplyInv, <3>2, <3>3, <3>4 DEF ReplyInv
  <2>4. ASSUME NEW t \in Task, PopenFails(t) \/ Communicated(t) \/ Drained(t) PROVE ReplyInv'
    <3>1. PICK e \in {"", "timeout", "exception"}, x \in {ReturnCode(t), -1} : Answer(t, e, x)
      BY <2>4 DEF PopenFails, Communicated, Drained
    <3>2. reply'[t].error = e /\ run'[t] = "answered" /\ expired' = expired
      <4>1. expired' = expired
        BY <2>4 DEF PopenFails, Communicated, Drained
      <4> QED BY <3>1, <4>1 DEF Answer
    <3>3. \A u \in Task \ {t} : reply'[u] = reply[u] /\ run'[u] = run[u]
      BY <3>1 DEF Answer
    <3> QED BY ONLY ReplyInv, <3>2, <3>3 DEF ReplyInv
  <2>5. ASSUME NEW t \in Task, Elapse(t) \/ Commands(t) PROVE ReplyInv'
    <3>1. UNCHANGED <<run, reply>> /\ expired \subseteq expired'
      BY <2>5 DEF Elapse, Commands, Exit, SpawnKid, KidExit
    <3> QED BY <3>1
  <2> QED BY <2>1, <2>2, <2>3, <2>4, <2>5 DEF Next, Serves, Worker
<1> QED BY <1>1, <1>2, PInvariance, PTL DEF Spec

-----------------------------------------------------------------------------
\* A command moves by itself, or nothing does: no call is made, given up or answered.
LEMMA Alone ==
    ASSUME RunTypeOK', CallsOf' = CallsOf, UNCHANGED <<expired, reply>>,
           \A t \in Task : Moves(t)
    PROVE  Contract!CNext
<1>1. AnswersOf' = AnswersOf
  BY DEF AnswersOf
<1> QED BY <1>1, CommandsMoveBy DEF Contract!CNext, CallsOf, AnswersOf

\* Run returns: a call is answered, with what is true of its command.
LEMMA Answered ==
    ASSUME PInv, PInv', ReplyInv, NEW t \in Task,
           NEW e \in {"", "timeout", "exception"}, NEW x \in {-9, -1, 0, 1}, Answer(t, e, x),
           run[t] # "idle", reply[t].error = "none",
           expired' = expired, e = "timeout" => t \in expired,
           Contract!Claim(AnswerOf([error |-> e, exit_code |-> x]), Command(t)'),
           \A u \in Task : Moves(u)
    PROVE  Contract!CNext
<1> DEFINE a == AnswerOf([error |-> e, exit_code |-> x])
<1>1. t \in CallsOf /\ CallsOf' = CallsOf
  BY DEF Answer, CallsOf, PInv, RunTypeOK
<1>2. AnswersOf[t] = "none"
  BY DEF AnswersOf, AnswerOf
<1>3. AnswersOf' = [AnswersOf EXCEPT ![t] = a]
  BY DEF Answer, AnswersOf, PInv, RunTypeOK
<1>4. a \in Contract!Answers /\ (a = "timeout" => e = "timeout")
  BY DEF AnswerOf, Contract!Answers, Contract!Statuses
<1>5. Contract!Claim(a, Command(t)')
  OBVIOUS
<1>6. Contract!CommandsMove
  BY CommandsMoveBy DEF PInv
<1> HIDE DEF a
<1>7. Contract!Reply(t, a)
  BY <1>1, <1>2, <1>3, <1>4, <1>5, <1>6 DEF Contract!Reply, CallsOf, AnswersOf
<1> QED BY <1>4, <1>7 DEF Contract!CNext

\* The three ways out of Run.
LEMMA Returns ==
    ASSUME PInv, PInv', ReplyInv, NEW t \in Task,
           PopenFails(t) \/ Communicated(t) \/ Drained(t)
    PROVE  Contract!CNext
<1>0. run[t] # "idle" /\ reply[t].error = "none" /\ expired' = expired
  BY DEF PopenFails, Communicated, Drained, ReplyInv
<1>1. CASE PopenFails(t)
  <2>1. Answer(t, "exception", -1) /\ UNCHANGED <<shell, status, kids>>
    BY <1>1 DEF PopenFails, procVars
  <2>2. \A u \in Task : Command(u)' = Command(u)
    BY <2>1, SameCommand
  <2>3. Command(t).phase = "none" /\ Command(t).open = FALSE
    BY <1>1 DEF PopenFails, PInv, ShellInv, Command, PipeOpen
  <2>4. Contract!Claim("failed", Command(t)')
    BY <2>2, <2>3 DEF Contract!Claim, Contract!Statuses
  <2>5. AnswerOf([error |-> "exception", exit_code |-> -1]) = "failed"
    BY DEF AnswerOf
  <2> QED BY <1>0, <2>1, <2>2, <2>4, <2>5, Answered DEF Moves
<1>2. CASE Communicated(t) \/ Drained(t)
  <2>1. /\ Ended(t)
        /\ shell' = [shell EXCEPT ![t] = "reaped"]
        /\ UNCHANGED <<status, kids>>
    BY <1>2 DEF Communicated, Drained
  <2>2. shell[t] \in {"zombie", "reaped"} /\ PipeOpen(t) = FALSE
    BY <2>1 DEF Ended, PipeOpen
  <2>3. \A u \in Task : Command(u)' = Command(u)
    BY <2>1, <2>2, ReapMoves
  <2>4. Command(t)' = [phase |-> "ended", status |-> status[t], open |-> FALSE]
    BY <2>2, <2>3 DEF Command
  <2>5. status[t] \in {"exit0", "exitN", "signal"}
    BY <2>2 DEF PInv, RunTypeOK, ShellInv
  <2>6. CASE Answer(t, "exception", -1)
    <3>1. AnswerOf([error |-> "exception", exit_code |-> -1]) = "failed"
      BY DEF AnswerOf
    <3>2. Contract!Claim("failed", Command(t)')
      BY <2>4 DEF Contract!Claim, Contract!Statuses
    <3> QED BY <1>0, <2>3, <2>6, <3>1, <3>2, Answered DEF Moves
  <2>7. CASE Drained(t) /\ Answer(t, "timeout", -1)
    <3>1. AnswerOf([error |-> "timeout", exit_code |-> -1]) = "timeout"
      BY DEF AnswerOf
    <3>2. Contract!Claim("timeout", Command(t)')
      BY <2>4 DEF Contract!Claim, Contract!Statuses
    <3>3. t \in expired
      BY <2>7 DEF Drained, ReplyInv
    <3> QED BY <1>0, <2>3, <2>7, <3>1, <3>2, <3>3, Answered DEF Moves
  <2>8. CASE Answer(t, "", ReturnCode(t))
    <3>1. /\ ReturnCode(t) \in {-9, 0, 1}
          /\ AnswerOf([error |-> "", exit_code |-> ReturnCode(t)]) = status[t]
      BY <2>5 DEF ReturnCode, AnswerOf
    <3>2. Contract!Claim(status[t], Command(t)')
      BY <2>4, <2>5 DEF Contract!Claim, Contract!Statuses
    <3> QED BY <1>0, <2>3, <2>8, <3>1, <3>2, Answered DEF Moves
  <2> QED BY <1>2, <2>6, <2>7, <2>8 DEF Communicated, Drained
<1> QED BY <1>1, <1>2

-----------------------------------------------------------------------------
(* The theorem.                                                              *)

\* The steps that touch no command and no caller.
LEMMA Stutters ==
    ASSUME CallsOf' = CallsOf, UNCHANGED <<expired, reply, procVars>>
    PROVE  UNCHANGED Contract!cvars
<1>1. \A t \in Task : Command(t)' = Command(t)
  BY SameCommand DEF procVars
<1> QED BY <1>1 DEF Contract!cvars, CallsOf

LEMMA WorkerImplements ==
    ASSUME PInv, PInv', ReplyInv, NEW t \in Task, Worker(t)
    PROVE  [Contract!CNext]_Contract!cvars
<1>1. CallsOf' = CallsOf
  <2>1. run[t] # "idle" /\ \E p \in {"communicate", "kill", "drain", "answered"} :
                               run' = [run EXCEPT ![t] = p]
    BY DEF Worker, Popen, PopenFails, Communicated, TimeoutExpired, Kill, Drained, Answer
  <2> QED BY <2>1 DEF CallsOf, PInv, RunTypeOK
<1>2. CASE Popen(t)
  <2>1. UNCHANGED <<expired, reply>> /\ reply[t].error = "none"
    BY <1>2 DEF Popen, ReplyInv
  <2> QED BY <1>1, <1>2, <2>1, PopenMoves, Alone DEF PInv
<1>3. CASE PopenFails(t) \/ Communicated(t) \/ Drained(t)
  BY <1>3, Returns
<1>4. CASE TimeoutExpired(t)
  BY <1>1, <1>4, Stutters DEF TimeoutExpired
<1>5. CASE Kill(t)
  <2>1. UNCHANGED <<expired, reply>>
    BY <1>5 DEF Kill
  <2> QED BY <1>1, <1>5, <2>1, KillMoves, Alone DEF PInv
<1> QED BY <1>2, <1>3, <1>4, <1>5 DEF Worker

LEMMA CallImplements ==
    ASSUME PInv, PInv', NEW t \in Task, Submit(t) \/ Elapse(t)
    PROVE  Contract!CNext
<1>1. UNCHANGED reply /\ \A u \in Task : Command(u)' = Command(u)
  BY SameCommand DEF Submit, Elapse, procVars
<1>2. CASE Submit(t)
  <2>1. t \in Task \ CallsOf /\ CallsOf' = CallsOf \cup {t} /\ expired' = expired
    <3>1. run[t] = "idle" /\ run'[t] = "queued" /\ expired' = expired
          /\ \A u \in Task \ {t} : run'[u] = run[u]
      BY <1>2 DEF Submit, PInv, RunTypeOK
    <3> QED BY <3>1 DEF CallsOf
  <2>2. Contract!MakeCall(t)
    BY <1>1, <2>1 DEF Contract!MakeCall, CallsOf
  <2> QED BY <2>2 DEF Contract!CNext
<1>3. CASE Elapse(t)
  <2>1. t \in CallsOf \ expired /\ expired' = expired \cup {t} /\ CallsOf' = CallsOf
    BY <1>3 DEF Elapse, CallsOf
  <2>2. Contract!GiveUp(t)
    BY <1>1, <2>1 DEF Contract!GiveUp, CallsOf
  <2> QED BY <2>2 DEF Contract!CNext
<1> QED BY <1>2, <1>3

LEMMA CommandsImplement ==
    ASSUME PInv, PInv', NEW t \in Task, Commands(t)
    PROVE  Contract!CNext
<1>1. UNCHANGED <<expired, reply>> /\ CallsOf' = CallsOf
  BY DEF Commands, Exit, SpawnKid, KidExit, CallsOf
<1>2. ASSUME NEW s \in {"exit0", "exitN", "signal"}, Exit(t, s) PROVE Contract!CNext
  <2>1. \A u \in Task : Moves(u)
    <3> SUFFICES ASSUME NEW u \in Task PROVE Moves(u)
      OBVIOUS
    <3>1. CASE u = t
      BY <1>2, <3>1, EndMoves DEF Exit, PInv, RunTypeOK
    <3>2. CASE u # t
      BY <1>2, <3>2, SameCommand DEF Exit, PInv, RunTypeOK, Moves
    <3> QED BY <3>1, <3>2
  <2> QED BY <1>1, <2>1, Alone DEF PInv
<1>3. ASSUME NEW k \in KidKind, SpawnKid(t, k) \/ KidExit(t, k) PROVE Contract!CNext
  BY <1>1, <1>3, KidMoves, Alone DEF PInv
<1> QED BY <1>2, <1>3 DEF Commands

\* server.py keeps the contract of a task service, and leaves no call without a
\* response, however long its queue is and however few workers it has.
THEOREM PythonImplements == Spec => KeepsContract
<1>1. Init => Contract!CInit
  <2> SUFFICES ASSUME Init PROVE Contract!CInit
    OBVIOUS
  <2>1. \A t \in Task : PipeOpen(t) = FALSE
    BY DEF Init, PipeOpen
  <2>2. \A t \in Task : Command(t) = Contract!NoCommand
    BY <2>1 DEF Init, Command, Contract!NoCommand
  <2>3. \A t \in Task : AnswerOf(reply[t]) = "none"
    BY DEF Init, NoReply, AnswerOf
  <2>4. expired = {} /\ {t \in Task : run[t] # "idle"} = {}
    BY DEF Init
  <2> QED BY <2>2, <2>3, <2>4 DEF Contract!CInit
<1>2. PInv /\ PInv' /\ ReplyInv /\ [Next]_vars => [Contract!CNext]_Contract!cvars
  <2> SUFFICES ASSUME PInv, PInv', ReplyInv, [Next]_vars
               PROVE  [Contract!CNext]_Contract!cvars
    OBVIOUS
  <2>1. CASE (Main \/ \E t \in Task : Disconnect(t)) \/ UNCHANGED vars
    <3>1. UNCHANGED <<run, expired, reply, procVars>>
      BY <2>1, MainLeaves DEF vars, procVars
    <3> QED BY <3>1, Stutters DEF CallsOf
  <2>2. CASE Take \/ Drop
    <3>1. Ready /\ \E place \in {"popen", "dropped"} : Dequeue(place)
      BY <2>2 DEF Take, Drop
    <3>2. Head(queue) \in Task /\ run[Head(queue)] = "queued"
      BY <3>1, HeadWaits
    <3>3. CallsOf' = CallsOf
      BY <3>1, <3>2 DEF Dequeue, CallsOf, PInv, RunTypeOK
    <3> QED BY <3>1, <3>3, Stutters DEF Dequeue
  <2>3. ASSUME NEW t \in Task, Worker(t) PROVE [Contract!CNext]_Contract!cvars
    BY <2>3, WorkerImplements
  <2>4. ASSUME NEW t \in Task, Submit(t) \/ Elapse(t) PROVE Contract!CNext
    BY <2>4, CallImplements
  <2>5. ASSUME NEW t \in Task, Commands(t) PROVE Contract!CNext
    BY <2>5, CommandsImplement
  <2> QED BY <2>1, <2>2, <2>3, <2>4, <2>5 DEF Next, Serves
<1> QED BY <1>1, <1>2, PInvariance, RepliesOnce, PTL DEF Spec, KeepsContract, Contract!CSpec

\* The theorems about the contract, for the commands and answers of this server.
Promise == INSTANCE TaskContract_proof WITH
    Void   <- {},
    called <- {t \in Task : run[t] # "idle"},
    late   <- expired,
    cmd    <- [t \in Task |-> Command(t)],
    answer <- [t \in Task |-> AnswerOf(reply[t])]

\* AnswersStayTrue of the contract: what a caller was told of its command stays
\* true, whatever the server and other commands do later.
THEOREM AnswersTrue == Spec => []Contract!AnswersStayTrue
<1>1. Promise!CSpec => []Promise!AnswersStayTrue
  BY Promise!ContractTruthful
<1>2. Contract!CInit => Promise!CInit
  BY DEF Contract!CInit, Promise!CInit, Contract!NoCommand, Promise!NoCommand
\* The two instances are of one contract.
<1>3. [Contract!CNext]_Contract!cvars => [Promise!CNext]_Promise!cvars
  <2>1. UNCHANGED Contract!cvars => UNCHANGED Promise!cvars
    BY DEF Contract!cvars, Promise!cvars
  <2>2. Contract!CNext => Promise!CNext
    BY DEF Contract!CNext, Contract!CommandsMove, Contract!Starts, Contract!Startable, Contract!Ends, Contract!Closes, Contract!MakeCall, Contract!GiveUp, Contract!Reply, Contract!Claim, Contract!Answers, Contract!Statuses, Contract!Commands, Contract!NoCommand,
           Promise!CNext, Promise!CommandsMove, Promise!Starts, Promise!Startable, Promise!Ends, Promise!Closes, Promise!MakeCall, Promise!GiveUp, Promise!Reply, Promise!Claim, Promise!Answers, Promise!Statuses, Promise!Commands, Promise!NoCommand
  <2> QED BY <2>1, <2>2
<1>4. Promise!AnswersStayTrue => Contract!AnswersStayTrue
  BY DEF Contract!AnswersStayTrue, Promise!AnswersStayTrue, Contract!Claim, Promise!Claim,
         Contract!Statuses, Promise!Statuses
<1> QED BY <1>1, <1>2, <1>3, <1>4, PythonImplements, PTL DEF KeepsContract, Contract!CSpec, Promise!CSpec

-----------------------------------------------------------------------------
(* The server behind the client.                                            *)

\* The state of the server keeps its type, the queue with it.
THEOREM ServerTypeCorrect == Spec => []TypeOK
<1>1. PInv => TypeOK
  BY DEF PInv, RunTypeOK, QueueInv, TypeOK
<1> QED BY <1>1, PInvariance, PTL

\* The client calls the server one call at a time and leaves calls behind, which the
\* server may notice, and does nothing else to it.
THEOREM ClientCalls == PSpec => Spec
<1>1. PInit => Init
  BY DEF PInit
<1>2. [PNext]_cpvars => [Next]_vars
  <2>1. PNext => Next \/ UNCHANGED vars
    BY DEF PNext, Response, RpcError, Leave, Back, RunCommand, Next
  <2>2. UNCHANGED cpvars => UNCHANGED vars
    BY DEF cpvars
  <2> QED BY <2>1, <2>2
<1> QED BY <1>1, <1>2, PTL DEF PSpec, Spec

\* So what was proved of the server holds behind its client.
THEOREM ServerBehindClient ==
    PSpec => [](TypeOK /\ AnsweredMeansEnded /\ CleanExit /\ Contract!AnswersStayTrue) /\ KeepsContract
BY ClientCalls, ServerTypeCorrect, AnswerEnds, ExitClean, AnswersTrue, PythonImplements, PTL

=============================================================================

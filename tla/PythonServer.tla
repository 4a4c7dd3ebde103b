----------------------------- MODULE PythonServer -----------------------------
(***************************************************************************)
(* The Python task server (server/server.py): a queue of accepted calls, a  *)
(* pool of worker threads, each of which takes a call through Run, and the  *)
(* signal handler of the main thread.  Unlike the Go server it reads the    *)
(* timeout of the request, kills the shell alone, has no process group and  *)
(* never looks at the context of the call: one that grpc has cancelled,     *)
(* because its client is gone or the grace period of a stop is over, is not *)
(* begun any more, but once begun it runs to its end, and its answer is     *)
(* thrown away.                                                             *)
(*                                                                          *)
(* Children of the shell are of two kinds, "piped" with the pipe open and   *)
(* "quiet".  Output is not modelled: communicate returns all of it, at end  *)
(* of file.  grpc, the pool and the interpreter's shutdown are external.    *)
(***************************************************************************)
EXTENDS Integers, Sequences, FiniteSets

CONSTANTS
    Task,       \* the calls of Run
    MaxWorkers, \* max_workers
    KidKind     \* the kinds of children commands leave behind

ASSUME WorkersAssumption == MaxWorkers \in Nat \ {0} /\ IsFiniteSet(Task)
ASSUME KidAssumption == KidKind \subseteq {"piped", "quiet"}

VARIABLES
    queue,   \* accepted calls that wait for a worker
    run,     \* where the worker of a call is in Run
    expired, \* the calls whose timeout has passed
    shell,   \* the shell of a call: none, running, zombie, reaped
    status,  \* how the shell ended
    kids,    \* the kinds of children still running
    reply,   \* what Run returned
    main,    \* where the main thread is; "killed" if a signal ended the process
    grace,   \* the grace period of stop runs
    cancelled \* the calls that grpc has cancelled: nobody gets their answer

procVars == <<shell, status, kids>>
mainVars == <<main, grace, cancelled>>
vars == <<queue, run, expired, procVars, reply, mainVars>>

NoReply == [error |-> "none", exit_code |-> 0]

Init ==
    /\ queue   = <<>>
    /\ run     = [t \in Task |-> "idle"]
    /\ expired = {}
    /\ shell   = [t \in Task |-> "none"]
    /\ status  = [t \in Task |-> "none"]
    /\ kids    = [t \in Task |-> {}]
    /\ reply   = [t \in Task |-> NoReply]
    /\ main    = "boot"
    /\ grace   = FALSE
    /\ cancelled = {}

Busy == {t \in Task : run[t] \in {"popen", "communicate", "kill", "drain"}}

\* The calls without an answer or an end.
InFlight == Busy \cup {t \in Task : run[t] = "queued"}

\* The process is there, and with it the threads of the pool.
Alive == main \notin {"exited", "killed"}

PipeOpen(t) == shell[t] = "running" \/ "piped" \in kids[t]

\* communicate is through: both pipes at end of file, and the shell has ended.
Ended(t) == shell[t] \in {"zombie", "reaped"} /\ ~PipeOpen(t)

\* Mutant of ReturnCode: the shell's 128 + n for a signal.
ReturnCodeOfShell(t) == CASE status[t] = "exit0"  -> 0
                          [] status[t] = "exitN"  -> 1
                          [] status[t] = "signal" -> 137

\* Popen.returncode: 0, the status, or minus the signal (9 here).
ReturnCode(t) == CASE status[t] = "exit0"  -> 0
                   [] status[t] = "exitN"  -> 1
                   [] status[t] = "signal" -> -9

Answer(t, error, exit_code) ==
    /\ run'   = [run   EXCEPT ![t] = "answered"]
    /\ reply' = [reply EXCEPT ![t] = [error |-> error, exit_code |-> exit_code]]

-----------------------------------------------------------------------------
(* serve.                                                                   *)

\* The main thread goes from one place to another.
Goes(from, to) ==
    /\ main \in from
    /\ main' = to
    /\ UNCHANGED <<queue, run, expired, procVars, reply, cancelled>>

\* server.start(): calls are accepted from here on, ...
Start == Goes({"boot"}, "started") /\ UNCHANGED grace

\* ... before signal.signal(SIGINT, ...) and signal.signal(SIGTERM, ...).
InstallSigint  == Goes({"started"}, "int_set") /\ UNCHANGED grace
InstallSigterm == Goes({"int_set"}, "serving") /\ UNCHANGED grace

\* SIGTERM without a handler ends the process on the spot, and SIGINT without one
\* raises KeyboardInterrupt, which leaves serve without stop.
DefaultSigterm == Goes({"boot", "started", "int_set"}, "killed") /\ UNCHANGED grace
DefaultSigint  == Goes({"boot", "started"}, "aborting") /\ UNCHANGED grace

\* Mutant of HandleSignal: sys.exit(0) without server.stop.
HandleSignalBare == Goes({"int_set", "serving"}, "exiting") /\ UNCHANGED grace

\* handle_signal (of SIGINT, before that of SIGTERM is set): stop(grace=5)
\* refuses new calls, starts the grace period and does not block; sys.exit(0)
\* leaves serve.
HandleSignal == Goes({"int_set", "serving"}, "exiting") /\ grace' = TRUE

\* Another signal while the interpreter waits for the workers: SystemExit or
\* KeyboardInterrupt breaks off the join, and the process ends with them.
SecondSignal == Goes({"exiting", "aborting"}, "killed") /\ UNCHANGED grace

\* The thread of stop: after five seconds grpc cancels every call that is left.
GraceEnds ==
    /\ main = "exiting" /\ grace
    /\ grace' = FALSE
    /\ cancelled' = cancelled \cup InFlight
    /\ UNCHANGED <<queue, run, expired, procVars, reply, main>>

\* Mutant of Exits: the workers are daemons, and nobody waits for them.
ExitsAtOnce == Goes({"exiting", "aborting"}, "exited") /\ UNCHANGED grace

\* The interpreter joins the workers of the pool, which first empty its queue.
Exits == queue = <<>> /\ Busy = {} /\ Goes({"exiting", "aborting"}, "exited") /\ UNCHANGED grace

\* A call is handed to the pool, whatever its length.
Submit(t) ==
    /\ main \in {"started", "int_set", "serving"}
    /\ run[t] = "idle"
    /\ run' = [run EXCEPT ![t] = "queued"]
    /\ queue' = Append(queue, t)
    /\ UNCHANGED <<expired, procVars, reply, mainVars>>

\* grpc notices that the client of a call has gone.
Disconnect(t) ==
    /\ Alive
    /\ t \in InFlight \ cancelled
    /\ cancelled' = cancelled \cup {t}
    /\ UNCHANGED <<queue, run, expired, procVars, reply, main, grace>>

\* A worker is free for the call that waits first, ...
Ready == Alive /\ queue # <<>> /\ Cardinality(Busy) < MaxWorkers

Dequeue(place) ==
    /\ run' = [run EXCEPT ![Head(queue)] = place]
    /\ queue' = Tail(queue)
    /\ UNCHANGED <<expired, procVars, reply, mainVars>>

\* ... takes it ...
Take == Ready /\ Head(queue) \notin cancelled /\ Dequeue("popen")

\* ... or, if it was cancelled while it waited, passes over it: no Run.
Drop == Ready /\ Head(queue) \in cancelled /\ Dequeue("dropped")

-----------------------------------------------------------------------------
(* Run, in a worker.                                                        *)

Popen(t) ==
    /\ run[t] = "popen"
    /\ run'   = [run   EXCEPT ![t] = "communicate"]
    /\ shell' = [shell EXCEPT ![t] = "running"]
    /\ UNCHANGED <<queue, expired, status, kids, reply, mainVars>>

\* Popen raises: except Exception.
PopenFails(t) ==
    /\ run[t] = "popen"
    /\ Answer(t, "exception", -1)
    /\ UNCHANGED <<queue, expired, procVars, mainVars>>

\* Mutant of Communicated: wait() in place of communicate().
CommunicatedAtExit(t) ==
    /\ run[t] = "communicate"
    /\ shell[t] = "zombie"
    /\ shell' = [shell EXCEPT ![t] = "reaped"]
    /\ Answer(t, "", ReturnCode(t))
    /\ UNCHANGED <<queue, expired, status, kids, mainVars>>

\* communicate(timeout) returns in time, or finds output that is not text.
Communicated(t) ==
    /\ run[t] = "communicate"
    /\ Ended(t)
    /\ shell' = [shell EXCEPT ![t] = "reaped"]
    /\ Answer(t, "", ReturnCode(t)) \/ Answer(t, "exception", -1)
    /\ UNCHANGED <<queue, expired, status, kids, mainVars>>

\* Mutant of TimeoutExpired: a timeout of None if the request asks for none.
TimeoutNone(t) == FALSE

\* communicate raises TimeoutExpired, ...
TimeoutExpired(t) ==
    /\ run[t] = "communicate"
    /\ t \in expired
    /\ run' = [run EXCEPT ![t] = "kill"]
    /\ UNCHANGED <<queue, expired, procVars, reply, mainVars>>

\* Mutant of Kill: the handler answers after the kill, without the second
\* communicate.
KillAnswers(t) ==
    /\ run[t] = "kill"
    /\ shell'  = [shell  EXCEPT ![t] = IF @ = "zombie" THEN "reaped" ELSE "zombie"]
    /\ status' = [status EXCEPT ![t] = IF shell[t] = "running" THEN "signal" ELSE @]
    /\ Answer(t, "timeout", -1)
    /\ UNCHANGED <<queue, expired, kids, mainVars>>

\* Mutant of Kill: process.terminate(), which the shell ignores.
KillTerminates(t) ==
    /\ run[t] = "kill"
    /\ run' = [run EXCEPT ![t] = "drain"]
    /\ UNCHANGED <<queue, expired, procVars, reply, mainVars>>

\* ... process.kill() polls, and kills the shell only if it has not ended ...
Kill(t) ==
    /\ run[t] = "kill"
    /\ shell'  = [shell  EXCEPT ![t] = IF @ = "zombie" THEN "reaped" ELSE "zombie"]
    /\ status' = [status EXCEPT ![t] = IF shell[t] = "running" THEN "signal" ELSE @]
    /\ run'    = [run EXCEPT ![t] = "drain"]
    /\ UNCHANGED <<queue, expired, kids, reply, mainVars>>

\* ... and the second communicate has no timeout: it takes as long as a child
\* has the pipe open.
Drained(t) ==
    /\ run[t] = "drain"
    /\ Ended(t)
    /\ shell' = [shell EXCEPT ![t] = "reaped"]
    /\ Answer(t, "timeout", -1) \/ Answer(t, "exception", -1)
    /\ UNCHANGED <<queue, expired, status, kids, mainVars>>

Worker(t) == Alive /\ ( \/ Popen(t) \/ PopenFails(t) \/ Communicated(t)
                       \/ TimeoutExpired(t) \/ Kill(t) \/ Drained(t) )

-----------------------------------------------------------------------------
(* The clock and the commands, which outlive the process.                   *)

\* The request's timeout, or 30 seconds, passes: every call has one.
Elapse(t) ==
    /\ Alive
    /\ run[t] = "communicate"
    /\ t \notin expired
    /\ expired' = expired \cup {t}
    /\ UNCHANGED <<queue, run, procVars, reply, mainVars>>

Exit(t, s) ==
    /\ shell[t] = "running"
    /\ shell'  = [shell  EXCEPT ![t] = "zombie"]
    /\ status' = [status EXCEPT ![t] = s]
    /\ UNCHANGED <<queue, run, expired, kids, reply, mainVars>>

\* The shell, or a child that has the pipe, starts a child.
SpawnKid(t, k) ==
    /\ PipeOpen(t)
    /\ k \notin kids[t]
    /\ kids' = [kids EXCEPT ![t] = @ \cup {k}]
    /\ UNCHANGED <<queue, run, expired, shell, status, reply, mainVars>>

KidExit(t, k) ==
    /\ k \in kids[t]
    /\ kids' = [kids EXCEPT ![t] = @ \ {k}]
    /\ UNCHANGED <<queue, run, expired, shell, status, reply, mainVars>>

Commands(t) == \/ \E s \in {"exit0", "exitN", "signal"} : Exit(t, s)
               \/ \E k \in KidKind : SpawnKid(t, k) \/ KidExit(t, k)

Main == \/ Start \/ InstallSigint \/ InstallSigterm \/ DefaultSigterm \/ DefaultSigint
        \/ HandleSignal \/ SecondSignal \/ GraceEnds \/ Exits

\* What happens without a client.
Serves == \/ Main \/ Take \/ Drop
          \/ \E t \in Task : Elapse(t) \/ Commands(t) \/ Worker(t)

Next == Serves \/ \E t \in Task : Submit(t) \/ Disconnect(t)

Spec == Init /\ [][Next]_vars

-----------------------------------------------------------------------------
(* Properties.                                                             *)

\* The state has its type.
TypeOK ==
    /\ queue \in Seq(Task)
    /\ run \in [Task -> {"idle", "queued", "popen", "communicate", "kill", "drain", "answered", "dropped"}]
    /\ expired \subseteq Task
    /\ shell \in [Task -> {"none", "running", "zombie", "reaped"}]
    /\ status \in [Task -> {"none", "exit0", "exitN", "signal"}]
    /\ kids \in [Task -> SUBSET KidKind]
    /\ reply \in [Task -> [error : {"none", "", "timeout", "exception"}, exit_code : {-9, -1, 0, 1}]]
    /\ main \in {"boot", "started", "int_set", "serving", "exiting", "aborting", "exited", "killed"}
    /\ grace \in BOOLEAN
    /\ cancelled \subseteq Task

\* Whatever way Run returns, its shell has been reaped and no child can write
\* to its pipe any more: no zombies pile up, and no answer lacks output.
AnsweredMeansEnded ==
    \A t \in Task : run[t] = "answered" => shell[t] \in {"none", "reaped"} /\ ~PipeOpen(t)

\* As long as no child sits on the pipe of its shell for ever, every accepted
\* call is answered, however many workers there are and however long the
\* commands would run: the timeout that each call has gives its worker back.  But
\* for a call that was cancelled in the queue, and a process ended by force.
NoHolder == <>[](\A t \in Task : "piped" \notin kids[t])
AcceptedAnswered ==
    NoHolder => \A t \in Task :
        run[t] = "queued" ~> run[t] \in {"answered", "dropped"} \/ main = "killed"

\* A stop by one signal cuts no command short, although sys.exit follows stop at
\* once and grpc cancels calls after the grace period: every call that was
\* accepted is run to its end, or was cancelled before its command was started,
\* which then never is.
CleanExit ==
    main = "exited" => \A t \in Task :
        /\ shell[t] # "running"
        /\ \/ run[t] \in {"idle", "answered"}
           \/ run[t] = "dropped" /\ t \in cancelled /\ shell[t] = "none"

\* ... and, under the same condition on children, the process does end.
StopEnds == NoHolder => (main = "exiting" ~> ~Alive)

-----------------------------------------------------------------------------
(* What a call is to its caller: the mapping to TaskContract.                *)

Command(t) == [phase  |-> IF shell[t] \in {"zombie", "reaped"} THEN "ended" ELSE shell[t],
               status |-> status[t],
               open   |-> PipeOpen(t)]

\* An answer as the client can tell it: by the error, or by the return code.
AnswerOf(r) == IF r.error = "exception" THEN "failed"
               ELSE IF r.error # "" THEN r.error
               ELSE IF r.exit_code = 0 THEN "exit0"
               ELSE IF r.exit_code < 0 THEN "signal"
               ELSE "exitN"

Contract == INSTANCE TaskContract WITH
    Void   <- {},
    called <- {t \in Task : run[t] # "idle"},
    late   <- expired,
    cmd    <- [t \in Task |-> Command(t)],
    answer <- [t \in Task |-> AnswerOf(reply[t])]

\* server.py keeps the contract of a task service, and Run never returns without
\* a response, as the Go server's may (Void is empty).
KeepsContract == Contract!CSpec
=============================================================================

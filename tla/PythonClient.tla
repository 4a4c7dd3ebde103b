----------------------------- MODULE PythonClient -----------------------------
(***************************************************************************)
(* The interactive client (server/client.py) and the server it calls: one   *)
(* call at a time, without a deadline.  The connection may be lost at any   *)
(* time, which the server notices sooner, later or never; it does not lose a*)
(* client that is there.  A call that does not reach the server changes     *)
(* nothing here, and the number that goes with a call, task_id, is left out:*)
(* the server does not read it.                                             *)
(***************************************************************************)
EXTENDS PythonServer

VARIABLES
    client, \* where interactive_mode is
    cur     \* the call run_command waits for

cvars == <<client, cur>>
cpvars == <<vars, cvars>>

CONSTANT NoCall
ASSUME NoCallAssumption == NoCall \notin Task

PInit == /\ Init
         /\ client = "prompt"
         /\ cur = NoCall

-----------------------------------------------------------------------------
\* A command is read and stub.Run reaches the server.
RunCommand(t) ==
    /\ client = "prompt"
    /\ Submit(t)
    /\ client' = "calling"
    /\ cur' = t

\* The call is over; the server knows nothing of it.
Back(to) ==
    /\ client' = to
    /\ cur' = NoCall
    /\ UNCHANGED vars

\* The answer is printed.
Response ==
    /\ client = "calling"
    /\ run[cur] = "answered" /\ cur \notin cancelled
    /\ Back("prompt")

\* The call is cancelled, the server goes or the connection is lost: run_command
\* raises, and the loop prints the error and asks for the next command.
RpcError == client = "calling" /\ Back("prompt")

\* "exit" at the prompt, or an interrupt anywhere, also during a call: nothing but
\* "Goodbye!" is printed, and the call goes on without its client.
Leave == client # "left" /\ Back("left")

PNext == \/ Response \/ RpcError \/ Leave
         \/ \E t \in Task : \/ RunCommand(t)
                            \/ t # cur /\ Disconnect(t) /\ UNCHANGED cvars
         \/ Serves /\ UNCHANGED cvars

PSpec == PInit /\ [][PNext]_cpvars

Sched(A) == A /\ UNCHANGED cvars

\* The server tells its client that the call is cancelled, or its host that the
\* process is gone.
Refused == (cur \in cancelled \/ ~Alive) /\ RpcError

\* The server's threads are scheduled, its clock advances and its grace period
\* ends, and the client reads an answer or an error that is there.  Nothing is
\* assumed of the commands, nor that a lost connection is noticed.
PFairSpec == /\ PSpec
             /\ WF_cpvars(Sched(Take \/ Drop)) /\ WF_cpvars(Sched(Exits))
             /\ WF_cpvars(Sched(GraceEnds)) /\ WF_cpvars(Response) /\ WF_cpvars(Refused)
             /\ \A t \in Task : /\ WF_cpvars(Sched(Worker(t)))
                                /\ WF_cpvars(Sched(Elapse(t)))

-----------------------------------------------------------------------------
(* Properties.                                                             *)

\* A client without a deadline comes back to its prompt all the same, because
\* every call has a timeout on the server, and although calls it has given up
\* before may be ahead in the queue: as long as no child sits on a pipe for ever.
PromptAgain == NoHolder => (client = "calling" ~> client # "calling")

\* A stop frees the client whatever the commands do, also from a call that a child
\* on the pipe keeps for ever and with the process that will not end then: the
\* grace period is over, and grpc cancels the call (server.py:205).
StopFreesClient == main = "exiting" /\ client = "calling" ~> client # "calling"
=============================================================================

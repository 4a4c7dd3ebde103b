---------------------------- MODULE TaskContract ----------------------------
(***************************************************************************)
(* What the service Task (rpc/proto/task.proto) gives the caller of Run,     *)
(* whatever implements it: of each call at most one answer, which is true of *)
(* the call's command when it is given and stays so.  How commands are       *)
(* started, waited for and killed, and which calls end each other's, is      *)
(* left to the implementations (TaskExec, PythonServer).                     *)
(***************************************************************************)
CONSTANTS
    Task, \* the calls of Run
    Void  \* answers without a claim: {"nil"} for no response at all, or {}

VARIABLES
    called, \* the calls made
    late,   \* the calls whose caller, or timeout, gave up
    cmd,    \* the command of each call
    answer  \* what the call was answered, "none" before

cvars == <<called, late, cmd, answer>>

Statuses == {"exit0", "exitN", "signal"}
Answers  == Statuses \cup {"timeout", "failed"} \cup Void

\* A command: its phase, its status, and whether anybody can write its output.
Commands == [phase  : {"none", "running", "ended"},
             status : Statuses \cup {"none"},
             open   : BOOLEAN]
NoCommand == [phase |-> "none", status |-> "none", open |-> FALSE]

CInit ==
    /\ called = {}
    /\ late   = {}
    /\ cmd    = [t \in Task |-> NoCommand]
    /\ answer = [t \in Task |-> "none"]

\* What an answer says of a command.
Claim(a, c) ==
    /\ a \in Statuses => c.phase = "ended" /\ c.status = a /\ ~c.open
    /\ a = "timeout"  => c.phase = "ended"
    /\ a = "failed"   => c.phase # "running" /\ ~c.open

\* A call that has a result never starts its command again, or only now.
Startable(t) == t \in called /\ answer[t] \in {"none"} \cup Void

Starts(t) == /\ Startable(t)
             /\ cmd[t].phase = "none"
             /\ cmd'[t] = [phase |-> "running", status |-> "none", open |-> TRUE]

Ends(t) == /\ cmd[t].phase = "running"
           /\ \E s \in Statuses, o \in BOOLEAN :
                 cmd'[t] = [phase |-> "ended", status |-> s, open |-> o]

\* The last holder of the output goes; nobody opens it again.
Closes(t) == /\ cmd[t].phase = "ended" /\ cmd[t].open
             /\ cmd'[t] = [phase |-> "ended", status |-> cmd[t].status, open |-> FALSE]

\* The commands go on, any of them in a step: one kill may end several.
CommandsMove == /\ cmd' \in [Task -> Commands]
                /\ \A t \in Task : \/ cmd'[t] = cmd[t]
                                   \/ Starts(t) \/ Ends(t) \/ Closes(t)

MakeCall(t) ==
    /\ t \in Task \ called
    /\ called' = called \cup {t}
    /\ UNCHANGED <<late, cmd, answer>>

GiveUp(t) ==
    /\ t \in called \ late
    /\ late' = late \cup {t}
    /\ UNCHANGED <<called, cmd, answer>>

\* A call is answered, once and with what is true, and "timeout" or nothing at
\* all only if it was given up.
Reply(t, a) ==
    /\ t \in called
    /\ answer[t] = "none"
    /\ a \in {"timeout"} \cup Void => t \in late
    /\ CommandsMove
    /\ Claim(a, cmd'[t])
    /\ answer' = [answer EXCEPT ![t] = a]
    /\ UNCHANGED <<called, late>>

CNext == \/ CommandsMove /\ UNCHANGED <<called, late, answer>>
         \/ \E t \in Task : \/ MakeCall(t) \/ GiveUp(t)
                            \/ \E a \in Answers : Reply(t, a)

CSpec == CInit /\ [][CNext]_cvars

-----------------------------------------------------------------------------
(* Properties.                                                             *)

\* The state has its type.
CTypeOK ==
    /\ called \subseteq Task
    /\ late \subseteq called
    /\ cmd \in [Task -> Commands]
    /\ answer \in [Task -> Answers \cup {"none"}]

\* What a caller was told stays true for ever, not only when it was told: no
\* command that was reported ended or never started runs later.
AnswersStayTrue == \A t \in Task : Claim(answer[t], cmd[t])
=============================================================================

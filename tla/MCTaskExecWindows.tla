-------------------------- MODULE MCTaskExecWindows --------------------------
(* TLC instances of TaskExecWindows.                                       *)
EXTENDS TaskExecWindows
=============================================================================

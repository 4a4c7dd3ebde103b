----------------------------- MODULE MCTaskExec -----------------------------
(* TLC instances of TaskExec.                                              *)
EXTENDS TaskExec
=============================================================================

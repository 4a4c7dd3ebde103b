---------------------------- MODULE MCPythonClient ----------------------------
(* TLC instances of PythonClient.                                          *)
EXTENDS PythonClient
=============================================================================

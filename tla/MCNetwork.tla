------------------------------ MODULE MCNetwork ------------------------------
(* TLC instances of Network.                                               *)
EXTENDS Network
=============================================================================

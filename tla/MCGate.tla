------------------------------- MODULE MCGate -------------------------------
(* Instance of Gate for TLC.                                               *)
EXTENDS Gate
=============================================================================

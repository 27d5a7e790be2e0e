-------------------------- MODULE MCClientLimiter --------------------------
(* Instances of ClientLimiter for TLC.                                     *)
EXTENDS ClientLimiter
=============================================================================

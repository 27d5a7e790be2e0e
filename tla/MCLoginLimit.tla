---------------------------- MODULE MCLoginLimit ----------------------------
(* Instances of LoginLimit for TLC.                                        *)
EXTENDS LoginLimit, TLC

\* The clients nobody watches are alike.
Symmetry == Permutations(Client \ {Watched})
=============================================================================

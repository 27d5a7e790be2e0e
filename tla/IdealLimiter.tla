---------------------------- MODULE IdealLimiter ----------------------------
(***************************************************************************)
(* What a ClientLimiter promises: every client that could ever call has a   *)
(* bucket that fills by one unit per tick and pays Cost units per request.  *)
(* There is no map, no creation and no pruning.                            *)
(***************************************************************************)
EXTENDS Integers

CONSTANTS Client, Cost, Burst

VARIABLES level

Capacity == Burst * Cost

IdealInit == level = [c \in Client |-> Capacity]

Fill ==
    level' = [c \in Client |->
                IF level[c] < Capacity THEN level[c] + 1 ELSE Capacity]

Ask(c) ==
    level' = [level EXCEPT ![c] = IF @ >= Cost THEN @ - Cost ELSE @]

IdealNext == Fill \/ \E c \in Client : Ask(c)

IdealSpec == IdealInit /\ [][IdealNext]_level
=============================================================================

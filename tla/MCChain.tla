------------------------------ MODULE MCChain ------------------------------
(* Instances of Chain for TLC.                                             *)
EXTENDS Chain, TLC

CONSTANTS r1, r2, waf, excl

\* A request of each kind; id only matters to a rollback, rules to the others.
Set(f, R)     == [op |-> "set", file |-> f, rules |-> R, id |-> 0, valid |-> TRUE]
Add(f, r)     == [op |-> "add", file |-> f, rules |-> {r}, id |-> 0, valid |-> TRUE]
Rollback(f,t) == [op |-> "rollback", file |-> f, rules |-> {}, id |-> t, valid |-> TRUE]
Invalid(r)    == [r EXCEPT !.valid = FALSE]

Symmetry == Permutations(Proc)

\* Every kind of request on one file, one on another, and refused ones.
MixedRequests ==
    {Set(excl, {r1}), Add(excl, r2), Set(waf, {r1}),
     Invalid(Set(waf, {})), Invalid(Add(excl, r1))}
    \cup {Rollback(excl, t) : t \in Seconds}

\* Only additions to one file.
FormRequests == {Add(excl, r1), Add(excl, r2)}

\* A replacement of one file and rollbacks of it.
ApiRequests ==
    {Set(excl, {r1})} \cup {Rollback(excl, t) : t \in Seconds}
=============================================================================

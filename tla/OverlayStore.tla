---------------------------- MODULE OverlayStore ----------------------------
(***************************************************************************)
(* What the mutation chain promises, without its steps: a store of         *)
(* overlays in which every request is decided in one step.                 *)
(*                                                                         *)
(*   ok       the change took effect                                       *)
(*   failed   the change left no trace                                     *)
(*   unclear  the restore failed too: the change stayed                    *)
(*   killed   the process died: at most one of the requests cut off has    *)
(*            taken effect                                                 *)
(*                                                                         *)
(* A rollback can only bring back a state the file has settled in before,  *)
(* or a torn copy of one.                                                  *)
(***************************************************************************)
EXTENDS FiniteSets

CONSTANTS Proc, File, Rules, Requests, NoReq, Absent

VARIABLES
    cfg,      \* the settled overlays
    history,  \* the values each overlay has settled in
    req,      \* what was asked
    result    \* what was answered

storeVars == <<cfg, history, req, result>>

\* v is a change that request r may make to its file.
Asked(r, v) ==
    /\ v # Absent
    /\ \/ /\ r.op = "set"
          /\ v = [rules |-> r.rules, torn |-> FALSE]
       \/ /\ r.op = "add"
          /\ ~v.torn
          /\ r.rules \subseteq v.rules
       \/ /\ r.op = "rollback"
          /\ v \in history[r.file] \/ v.torn

Settle(f, v) ==
    /\ cfg' = [cfg EXCEPT ![f] = v]
    /\ history' = [history EXCEPT ![f] = @ \cup {v}]

Pending(p) == req[p] # NoReq /\ result[p] = "none"

StoreInit ==
    /\ cfg \in [File -> {Absent, [rules |-> {}, torn |-> FALSE]}]
    /\ history = [f \in File |-> {cfg[f]}]
    /\ req = [p \in Proc |-> NoReq]
    /\ result = [p \in Proc |-> "none"]

\* A request that validation refuses is answered as it arrives.
Submit(p) ==
    /\ req[p] = NoReq
    /\ \E r \in Requests :
         /\ req' = [req EXCEPT ![p] = r]
         /\ \/ UNCHANGED result
            \/ ~r.valid /\ result' = [result EXCEPT ![p] = "failed"]
    /\ UNCHANGED <<cfg, history>>

Fail(p) ==
    /\ Pending(p)
    /\ result' = [result EXCEPT ![p] = "failed"]
    /\ UNCHANGED <<cfg, history, req>>

TakeEffect(p) ==
    /\ Pending(p)
    /\ \E v \in [rules : SUBSET Rules, torn : BOOLEAN] :
         Asked(req[p], v) /\ Settle(req[p].file, v)
    /\ \E res \in {"ok", "unclear"} : result' = [result EXCEPT ![p] = res]
    /\ UNCHANGED req

Kill ==
    /\ result' = [p \in Proc |-> IF Pending(p) THEN "killed" ELSE result[p]]
    /\ \/ UNCHANGED <<cfg, history>>
       \/ \E p \in Proc, v \in [rules : SUBSET Rules, torn : BOOLEAN] :
            /\ Pending(p)
            /\ Asked(req[p], v)
            /\ Settle(req[p].file, v)
    /\ UNCHANGED req

StoreNext ==
    \/ \E p \in Proc : Submit(p) \/ Fail(p) \/ TakeEffect(p)
    \/ Kill

StoreSpec == StoreInit /\ [][StoreNext]_storeVars
=============================================================================

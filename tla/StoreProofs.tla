---------------------------- MODULE StoreProofs ----------------------------
(* Proofs about Chain: what Caddy serves, what rollbacks bring back, and     *)
(* that the chain implements OverlayStore.                                   *)
EXTENDS ChainProofs

-----------------------------------------------------------------------------
(* Drift.                                                                  *)

\* A request has no load under way before its POST /load.
Unsent ==
    \A p \in Proc :
      pc[p] \notin {"await", "verify", "restore", "done"} => call[p] = "none"

NoLateLoad == \A p \in Proc : call[p] # "late"

\* While no overlay is ahead of the store and the badge is OK, Caddy serves the
\* overlays on disk.
ServedWhenOK ==
    (\A p \in Proc : pc[p] \notin Written) /\ badge = "ok" => live = overlay

\* What is adapted, applied or being verified is what is on disk, because only
\* the holder of chainMu writes; a chain that will restore has set the badge.
LoadIsCurrent ==
    \A p \in Proc :
      /\ pc[p] = "await" /\ call[p] = "adapted" => adapted[p] = overlay
      /\ pc[p] = "await" /\ call[p] = "applied" => live = overlay
      /\ pc[p] = "verify" => live = overlay
      /\ pc[p] = "restore" => badge = "bad"

\* A load that was applied late stays so: what follows it is not constrained.
DriftInv == Unsent /\ (NoLateLoad => ServedWhenOK /\ LoadIsCurrent)

\* A failure that leaves the overlay alone does so.
LEMMA AbandonAlone ==
    ASSUME TypeOK, NEW p \in Proc, pc[p] # "idle", Abandon(p)
    PROVE  overlay' = overlay
  BY RequestFacts DEF TypeOK, Arrived, DataTypes, Abandon, Leave

LEMMA NextUnsent == TypeOK /\ Unsent /\ [Next]_vars => Unsent'
  <1> SUFFICES ASSUME TypeOK, Unsent, [Next]_vars PROVE Unsent'
    OBVIOUS
  <1>0. /\ pc \in [Proc -> Steps]
        /\ call \in [Proc -> {"none", "sent", "adapted", "applied", "late", "refused"}]
    BY DEF TypeOK, ControlTypes
  <1> USE <1>0 DEF Unsent, vars, caddy, Goto, Answer
  <1>1. ASSUME NEW p \in Proc, Arrive(p) PROVE Unsent'
    BY <1>1 DEF Arrive
  <1>2. ASSUME NEW p \in Proc, ReadForm(p) PROVE Unsent'
    BY <1>2 DEF ReadForm
  <1>3. ASSUME NEW p \in Proc, Lock(p) PROVE Unsent'
    BY <1>3 DEF Lock, CanLock, Abandon, Leave
  <1>4. ASSUME NEW p \in Proc, Backup(p) PROVE Unsent'
    BY <1>4 DEF Backup, Abandon, Leave
  <1>5. ASSUME NEW p \in Proc, CopyFile(p) PROVE Unsent'
    BY <1>5 DEF CopyFile, Abandon, Leave
  <1>6. ASSUME NEW p \in Proc, EnforceRetention(p) PROVE Unsent'
    BY <1>6 DEF EnforceRetention, Abandon, Leave
  <1>7. ASSUME NEW p \in Proc, Mutate(p) PROVE Unsent'
    BY <1>7 DEF Mutate, Abandon, Leave
  <1>8. ASSUME NEW p \in Proc, PostLoad(p) PROVE Unsent'
    BY <1>8 DEF PostLoad, ReloadFails
  <1>9. ASSUME NEW p \in Proc, LoadAnswered(p) PROVE Unsent'
    BY <1>9 DEF LoadAnswered, ReloadFails
  <1>10. ASSUME NEW p \in Proc, LoadTimeout(p) PROVE Unsent'
    BY <1>10 DEF LoadTimeout, ReloadFails
  <1>11. ASSUME NEW p \in Proc, ReadBack(p) PROVE Unsent'
    BY <1>11 DEF ReadBack, ReloadFails, Leave
  <1>12. ASSUME NEW p \in Proc, RestoreState(p) PROVE Unsent'
    BY <1>12 DEF RestoreState, Leave
  <1>13. ASSUME NEW p \in Proc, Caddy(p) PROVE Unsent'
    BY <1>13 DEF Caddy, CaddyAdapt, CaddyApply, CaddyRefuse
  <1>14. CASE Crash
    BY <1>14 DEF Crash, Orphaned
  <1>15. CASE Tick \/ StepBack \/ UNCHANGED vars
    BY <1>15 DEF Tick, StepBack
  <1> QED
    BY <1>1, <1>2, <1>3, <1>4, <1>5, <1>6, <1>7, <1>8, <1>9, <1>10, <1>11, <1>12,
       <1>13, <1>14, <1>15 DEF Next, Handle

\* Caddy never takes a late load back.
LEMMA LateStays ==
    ASSUME TypeOK, Unsent, [Next]_vars, NoLateLoad' PROVE NoLateLoad
  <1> SUFFICES ASSUME NEW q \in Proc, call[q] = "late" PROVE call'[q] = "late"
    BY DEF NoLateLoad
  <1>0. call \in [Proc -> {"none", "sent", "adapted", "applied", "late", "refused"}]
    BY DEF TypeOK, ControlTypes
  <1> USE <1>0 DEF vars, caddy
  <1>1. ASSUME NEW p \in Proc, Handle(p) PROVE call'[q] = "late"
    BY <1>1 DEF Handle, Arrive, ReadForm, Lock, Backup, CopyFile, EnforceRetention,
       Mutate, PostLoad, LoadAnswered, LoadTimeout, ReadBack, RestoreState, Unsent,
       Orphaned
  <1>2. ASSUME NEW p \in Proc, Caddy(p) PROVE call'[q] = "late"
    BY <1>2 DEF Caddy, CaddyAdapt, CaddyApply, CaddyRefuse
  <1>3. CASE Crash
    BY <1>3 DEF Crash, Orphaned
  <1>4. CASE Tick \/ StepBack \/ UNCHANGED vars
    BY <1>4 DEF Tick, StepBack
  <1> QED
    BY <1>1, <1>2, <1>3, <1>4 DEF Next

\* A step of the chain that leaves the overlays and Caddy alone, and in which
\* nobody writes and no wrong badge is set.
LEMMA QuietKeepsDrift ==
    ASSUME ServedWhenOK, LoadIsCurrent, UNCHANGED <<overlay, caddy, badge>>,
           \A q \in Proc : pc'[q] \in Written => pc'[q] = pc[q],
           \A q \in Proc : pc[q] \in Written => pc'[q] = pc[q]
    PROVE  (ServedWhenOK /\ LoadIsCurrent)'
  BY DEF ServedWhenOK, LoadIsCurrent, Written, caddy

LEMMA NextDriftInv == TypeOK /\ DriftInv /\ [Next]_vars => DriftInv'
  <1> SUFFICES ASSUME TypeOK, Unsent, ServedWhenOK, LoadIsCurrent, [Next]_vars,
                      NoLateLoad, NoLateLoad'
               PROVE  (ServedWhenOK /\ LoadIsCurrent)'
    BY NextUnsent, LateStays DEF DriftInv
  <1>0. /\ pc \in [Proc -> Steps]
        /\ call \in [Proc -> {"none", "sent", "adapted", "applied", "late", "refused"}]
        /\ Exclusion
    BY DEF TypeOK, ControlTypes
  <1> USE <1>0 DEF vars, handler, disk, caddy, Goto, Answer
  <1>1. ASSUME NEW p \in Proc, Arrive(p) \/ ReadForm(p)
        PROVE  (ServedWhenOK /\ LoadIsCurrent)'
    <2>1. UNCHANGED <<overlay, caddy, badge>>
      BY <1>1 DEF Arrive, ReadForm
    <2>2. \A q \in Proc : pc'[q] = pc[q] \/ (pc[q] \notin Written /\ pc'[q] \notin Written)
      BY <1>1 DEF Arrive, ReadForm, Written
    <2> QED
      BY <2>1, <2>2, QuietKeepsDrift
  <1>2. ASSUME NEW p \in Proc, Lock(p) \/ Backup(p) \/ CopyFile(p) \/ EnforceRetention(p)
        PROVE  (ServedWhenOK /\ LoadIsCurrent)'
    <2>1. UNCHANGED <<overlay, caddy, badge>>
      BY <1>2, AbandonAlone DEF Lock, CanLock, Backup, CopyFile, EnforceRetention
    <2>2. \A q \in Proc : pc'[q] = pc[q] \/ (pc[q] \notin Written /\ pc'[q] \notin Written)
      BY <1>2
      DEF Lock, CanLock, Backup, CopyFile, EnforceRetention, Abandon, Leave, Written
    <2> QED
      BY <2>1, <2>2, QuietKeepsDrift
  <1>3. ASSUME NEW p \in Proc, Mutate(p) PROVE (ServedWhenOK /\ LoadIsCurrent)'
    <2>1. CASE Abandon(p)
      <3>1. UNCHANGED <<overlay, caddy, badge>>
        BY <1>3, <2>1, AbandonAlone DEF Mutate
      <3>2. \A q \in Proc : pc'[q] = pc[q] \/ (pc[q] \notin Written /\ pc'[q] \notin Written)
        BY <1>3, <2>1 DEF Mutate, Abandon, Leave, Written
      <3> QED
        BY <3>1, <3>2, QuietKeepsDrift
    <2>2. CASE Goto(p, "load")
      <3>1. \A q \in Proc : pc'[q] \in Written <=> q = p
        BY <1>3, <2>2 DEF Mutate, Exclusion, InChain, Written
      <3>2. pc'[p] = "load"
        BY <2>2
      <3> QED
        BY <3>1, <3>2 DEF ServedWhenOK, LoadIsCurrent, Written
    <2> QED
      BY <1>3, <2>1, <2>2 DEF Mutate
  <1>4. ASSUME NEW p \in Proc, PostLoad(p) \/ LoadAnswered(p) \/ LoadTimeout(p)
        PROVE  (ServedWhenOK /\ LoadIsCurrent)'
    <2>1. /\ \A q \in Proc : pc'[q] \in Written <=> q = p
          /\ UNCHANGED <<overlay, live, adapted>>
      BY <1>4
      DEF PostLoad, LoadAnswered, LoadTimeout, ReloadFails, Exclusion, InChain, Written
    <2>2. \/ pc'[p] = "await" /\ call'[p] = "sent"
          \/ pc'[p] = "verify" /\ live = overlay
          \/ pc'[p] = "restore" /\ badge' = "bad"
      BY <1>4 DEF PostLoad, LoadAnswered, LoadTimeout, ReloadFails, LoadIsCurrent
    <2> QED
      BY <2>1, <2>2 DEF ServedWhenOK, LoadIsCurrent, Written
  <1>5. ASSUME NEW p \in Proc, ReadBack(p) PROVE (ServedWhenOK /\ LoadIsCurrent)'
    <2>1. CASE badge' = "ok" /\ Leave(p, "ok", overlay[req[p].file])
      <3>1. overlay' = overlay /\ UNCHANGED caddy /\ live = overlay
        BY <1>5, <2>1, RequestFacts
        DEF ReadBack, Leave, TypeOK, DataTypes, Arrived, LoadIsCurrent
      <3>2. \A q \in Proc : pc'[q] \notin Written
        BY <1>5, <2>1 DEF ReadBack, Leave, Exclusion, InChain, Written
      <3> QED
        BY <3>1, <3>2 DEF ServedWhenOK, LoadIsCurrent, Written
    <2>2. CASE ReloadFails(p)
      <3>1. /\ \A q \in Proc : pc'[q] \in Written <=> q = p
            /\ pc'[p] = "restore" /\ badge' = "bad"
        BY <1>5, <2>2 DEF ReadBack, ReloadFails, Exclusion, InChain, Written
      <3> QED
        BY <3>1 DEF ServedWhenOK, LoadIsCurrent, Written
    <2> QED
      BY <1>5, <2>1, <2>2 DEF ReadBack
  <1>6. ASSUME NEW p \in Proc, RestoreState(p) PROVE (ServedWhenOK /\ LoadIsCurrent)'
    <2>1. badge' = "bad"
      BY <1>6 DEF RestoreState, LoadIsCurrent
    <2>2. \A q \in Proc : pc'[q] \notin Written
      BY <1>6 DEF RestoreState, Leave, Exclusion, InChain, Written
    <2> QED
      BY <2>1, <2>2 DEF ServedWhenOK, LoadIsCurrent, Written
  <1>7. ASSUME NEW p \in Proc, CaddyAdapt(p) PROVE (ServedWhenOK /\ LoadIsCurrent)'
    BY <1>7 DEF CaddyAdapt, ServedWhenOK, LoadIsCurrent, TypeOK, DataTypes
  <1>8. ASSUME NEW p \in Proc, CaddyApply(p) PROVE (ServedWhenOK /\ LoadIsCurrent)'
    <2>1. pc[p] = "await"
      BY <1>8 DEF CaddyApply, NoLateLoad
    <2>2. /\ live' = adapted[p] /\ adapted[p] = overlay
          /\ UNCHANGED <<pc, overlay, badge, adapted>>
          /\ \A q \in Proc : pc[q] \in Written => q = p
      BY <1>8, <2>1 DEF CaddyApply, LoadIsCurrent, Exclusion, InChain, Written
    <2> QED
      BY <2>1, <2>2 DEF ServedWhenOK, LoadIsCurrent, Written
  <1>9. ASSUME NEW p \in Proc, CaddyRefuse(p) PROVE (ServedWhenOK /\ LoadIsCurrent)'
    BY <1>9 DEF CaddyRefuse, ServedWhenOK, LoadIsCurrent
  <1>10. CASE Crash
    <2>1. badge' = "none" /\ \A q \in Proc : pc'[q] \in {"idle", "done"}
      BY <1>10 DEF Crash
    <2> QED
      BY <2>1 DEF ServedWhenOK, LoadIsCurrent
  <1>11. CASE Tick \/ StepBack \/ UNCHANGED vars
    BY <1>11 DEF Tick, StepBack, ServedWhenOK, LoadIsCurrent
  <1> QED
    BY <1>1, <1>2, <1>3, <1>4, <1>5, <1>6, <1>7, <1>8, <1>9, <1>10, <1>11
    DEF Next, Handle, Caddy

\* When no chain runs and setReadback last said OK, Caddy serves the overlays on
\* disk, through every failure of the write, the load, the read-back and the
\* restore; the only way to miss it is a load applied after its client gave up.
THEOREM DriftFlagged == Spec => []DriftIsFlagged
  <1>1. Init => DriftInv
    BY DEF Init, DriftInv, Unsent, ServedWhenOK, LoadIsCurrent
  <1>2. TypeOK /\ DriftInv => DriftIsFlagged
    BY SentinelAssumption
    DEF DriftInv, NoLateLoad, ServedWhenOK, DriftIsFlagged, TypeOK, Exclusion, InChain
  <1> QED
    BY <1>1, <1>2, NextDriftInv, InitTypeOK, NextTypeOK, PTL DEF Spec

-----------------------------------------------------------------------------
(* What is settled.                                                        *)

\* A request is in the store once it has arrived, and answered once it is done.
AnswersMatch ==
    \A p \in Proc :
      /\ req[p] = NoReq <=> pc[p] = "idle"
      /\ result[p] = "none" <=> pc[p] # "done"

\* No change of f is written and not settled.
Unwritten(f) == \A p \in Proc : pc[p] \in Written => req[p].file # f

CurrentIsSettled ==
    \A f \in File : Unwritten(f) => overlay[f] \in history[f]

PrevIsSettled ==
    \A p \in Proc : pc[p] \in InChain => prev[p] \in history[req[p].file]

SettleInv == CurrentIsSettled /\ PrevIsSettled /\ SnapshotsWereSettled

LEMMA NextAnswersMatch == TypeOK /\ AnswersMatch /\ [Next]_vars => AnswersMatch'
  <1> SUFFICES ASSUME TypeOK, AnswersMatch, [Next]_vars PROVE AnswersMatch'
    OBVIOUS
  <1>0. /\ pc \in [Proc -> Steps] /\ req \in [Proc -> Requests \cup {NoReq}]
        /\ result \in [Proc -> {"none", "ok", "failed", "unclear", "killed"}]
    BY DEF TypeOK, ControlTypes
  <1> USE <1>0 DEF AnswersMatch, vars, handler, Goto, Answer
  <1>1. ASSUME NEW p \in Proc, Arrive(p) PROVE AnswersMatch'
    BY <1>1, SentinelAssumption DEF Arrive
  <1>2. ASSUME NEW p \in Proc, ReadForm(p) PROVE AnswersMatch'
    BY <1>2 DEF ReadForm
  <1>3. ASSUME NEW p \in Proc, Lock(p) PROVE AnswersMatch'
    BY <1>3 DEF Lock, CanLock, Abandon, Leave
  <1>4. ASSUME NEW p \in Proc, Backup(p) PROVE AnswersMatch'
    BY <1>4 DEF Backup, Abandon, Leave
  <1>5. ASSUME NEW p \in Proc, CopyFile(p) PROVE AnswersMatch'
    BY <1>5 DEF CopyFile, Abandon, Leave
  <1>6. ASSUME NEW p \in Proc, EnforceRetention(p) PROVE AnswersMatch'
    BY <1>6 DEF EnforceRetention, Abandon, Leave
  <1>7. ASSUME NEW p \in Proc, Mutate(p) PROVE AnswersMatch'
    BY <1>7 DEF Mutate, Abandon, Leave
  <1>8. ASSUME NEW p \in Proc, PostLoad(p) \/ LoadAnswered(p) \/ LoadTimeout(p)
        PROVE  AnswersMatch'
    BY <1>8 DEF PostLoad, LoadAnswered, LoadTimeout, ReloadFails
  <1>9. ASSUME NEW p \in Proc, ReadBack(p) PROVE AnswersMatch'
    BY <1>9 DEF ReadBack, ReloadFails, Leave
  <1>10. ASSUME NEW p \in Proc, RestoreState(p) PROVE AnswersMatch'
    BY <1>10 DEF RestoreState, Leave
  <1>11. ASSUME NEW p \in Proc, Caddy(p) PROVE AnswersMatch'
    BY <1>11 DEF Caddy, CaddyAdapt, CaddyApply, CaddyRefuse
  <1>12. CASE Crash
    BY <1>12 DEF Crash
  <1>13. CASE Tick \/ StepBack \/ UNCHANGED vars
    BY <1>13 DEF Tick, StepBack
  <1> QED
    BY <1>1, <1>2, <1>3, <1>4, <1>5, <1>6, <1>7, <1>8, <1>9, <1>10, <1>11, <1>12, <1>13
    DEF Next, Handle

\* A failure before the write leaves no trace: the overlay was settled already.
LEMMA AbandonNoTrace ==
    ASSUME TypeOK, CurrentIsSettled, NEW p \in Proc, pc[p] # "idle",
           \A q \in Proc : pc[q] \notin Written, Abandon(p)
    PROVE  UNCHANGED <<overlay, history>>
  <1>1. req[p].file \in File
    BY RequestFacts DEF TypeOK, Arrived
  <1>2. overlay[req[p].file] \in history[req[p].file]
    BY <1>1 DEF CurrentIsSettled, Unwritten
  <1>3. history' = history
    BY <1>1, <1>2 DEF Abandon, Leave, TypeOK, DataTypes
  <1> QED
    BY <1>3, AbandonAlone

\* A step that leaves the files alone and starts, writes or settles nothing.
LEMMA QuietKeepsSettle ==
    ASSUME SettleInv, UNCHANGED <<overlay, history, snaps>>,
           \A q \in Proc : /\ pc[q] \in Written => pc'[q] \in Written /\ req'[q] = req[q]
                           /\ pc'[q] \in InChain =>
                                /\ pc[q] \in InChain
                                /\ prev'[q] = prev[q] /\ req'[q] = req[q]
    PROVE  SettleInv'
  <1>1. CurrentIsSettled'
    BY DEF SettleInv, CurrentIsSettled, Unwritten
  <1>2. PrevIsSettled'
    BY DEF SettleInv, PrevIsSettled
  <1>3. SnapshotsWereSettled'
    BY DEF SettleInv, SnapshotsWereSettled, Listed
  <1> QED
    BY <1>1, <1>2, <1>3 DEF SettleInv

\* A snapshot put in the archive that is torn or settled.
LEMMA SnapsKeepSettle ==
    ASSUME TypeOK, SnapshotsWereSettled, NEW f \in File, NEW t, NEW v,
           v = Absent \/ v.torn \/ v \in history[f],
           snaps' = [snaps EXCEPT ![f][t] = v], history' = history
    PROVE  SnapshotsWereSettled'
  <1> SUFFICES ASSUME NEW g \in File, NEW u \in Listed(g)', ~(snaps'[g][u].torn)
               PROVE  snaps'[g][u] \in history[g]
    BY DEF SnapshotsWereSettled
  <1>0. snaps \in [File -> [Seconds -> Value]]
    BY DEF TypeOK, DataTypes
  <1>1. CASE g = f /\ u = t
    BY <1>0, <1>1 DEF Listed
  <1>2. CASE ~(g = f /\ u = t)
    <2>1. snaps'[g][u] = snaps[g][u] /\ u \in Listed(g)
      BY <1>0, <1>2 DEF Listed
    <2> QED
      BY <2>1 DEF SnapshotsWereSettled
  <1> QED
    BY <1>1, <1>2

LEMMA NextSettleInv == TypeOK /\ SettleInv /\ [Next]_vars => SettleInv'
  <1> SUFFICES ASSUME TypeOK, SettleInv, [Next]_vars PROVE SettleInv'
    OBVIOUS
  <1>0. /\ pc \in [Proc -> Steps] /\ req \in [Proc -> Requests \cup {NoReq}]
        /\ prev \in [Proc -> Value] /\ stamp \in [Proc -> Seconds]
        /\ overlay \in [File -> Value] /\ history \in [File -> SUBSET Value]
        /\ snaps \in [File -> [Seconds -> Value]]
        /\ Exclusion /\ Arrived
        /\ CurrentIsSettled /\ PrevIsSettled /\ SnapshotsWereSettled
    BY DEF TypeOK, ControlTypes, DataTypes, SettleInv
  <1>a. \A p \in Proc : pc[p] # "idle" => req[p] \in Requests /\ req[p].file \in File
    BY <1>0, RequestFacts DEF Arrived
  <1> USE DEF vars, handler, disk, caddy, Goto, Answer
  <1>1. ASSUME NEW p \in Proc, Arrive(p) PROVE SettleInv'
    <2>1. UNCHANGED <<overlay, history, snaps, prev>>
      BY <1>1 DEF Arrive
    <2>2. \A q \in Proc : /\ q # p => pc'[q] = pc[q] /\ req'[q] = req[q]
                          /\ pc[p] \notin InChain /\ pc'[p] \notin InChain
      BY <1>0, <1>1 DEF Arrive, InChain, Written
    <2> QED
      BY <2>1, <2>2, QuietKeepsSettle DEF InChain
  <1>2. ASSUME NEW p \in Proc, ReadForm(p) PROVE SettleInv'
    <2>1. UNCHANGED <<overlay, history, snaps, prev, req>>
      BY <1>2 DEF ReadForm
    <2>2. \A q \in Proc : /\ q # p => pc'[q] = pc[q]
                          /\ pc[p] \notin InChain /\ pc'[p] \notin InChain
      BY <1>0, <1>2 DEF ReadForm, InChain, Written
    <2> QED
      BY <2>1, <2>2, QuietKeepsSettle DEF InChain
  <1>3. ASSUME NEW p \in Proc, pc[p] # "idle", \A q \in Proc : pc[q] \notin Written,
               Abandon(p), UNCHANGED <<snaps, req, prev>>
        PROVE  SettleInv'
    <2>1. UNCHANGED <<overlay, history>>
      BY <1>0, <1>3, AbandonNoTrace
    <2>2. \A q \in Proc : /\ q # p => pc'[q] = pc[q]
                          /\ pc'[p] \notin InChain
      BY <1>0, <1>3 DEF Abandon, Leave, InChain, Written
    <2> QED
      BY <1>3, <2>1, <2>2, QuietKeepsSettle
  <1>4. ASSUME NEW p \in Proc, Lock(p) PROVE SettleInv'
    <2>1. \A q \in Proc : pc[q] \notin InChain /\ pc[q] \notin Written
      BY <1>0, <1>4, SentinelAssumption DEF Exclusion, Lock, CanLock, InChain
    <2>2. CASE Abandon(p) /\ UNCHANGED <<prev, target, snaps>>
      BY <1>3, <1>4, <2>1, <2>2 DEF Lock, CanLock
    <2>3. ASSUME prev' = [prev EXCEPT ![p] = overlay[req[p].file]],
                 Goto(p, "backup"), UNCHANGED disk
          PROVE  SettleInv'
      <3>1. \A q \in Proc : /\ pc'[q] \notin Written
                            /\ pc'[q] \in InChain => q = p
        BY <1>0, <2>1, <2>3 DEF Written
      <3>2. req' = req /\ prev'[p] = overlay[req[p].file] /\ req[p].file \in File
        BY <1>0, <1>a, <1>4, <2>3 DEF Lock, CanLock
      <3>3. CurrentIsSettled' /\ PrevIsSettled'
        BY <1>0, <2>1, <2>3, <3>1, <3>2 DEF CurrentIsSettled, PrevIsSettled, Unwritten
      <3>4. SnapshotsWereSettled'
        BY <1>0, <2>3 DEF SnapshotsWereSettled, Listed
      <3> QED
        BY <3>3, <3>4 DEF SettleInv
    <2> QED
      BY <1>4, <2>2, <2>3 DEF Lock
  <1>5. ASSUME NEW p \in Proc, NEW t, NEW v, pc[p] \in InChain \ Written,
               pc'[p] \in (InChain \ Written) \cup {"done"},
               v = Absent \/ v.torn \/ v \in history[req[p].file],
               snaps' = [snaps EXCEPT ![req[p].file][t] = v],
               \A q \in Proc : q # p => pc'[q] = pc[q],
               UNCHANGED <<overlay, history, req, prev>>
        PROVE  SettleInv'
    <2>1. req[p].file \in File
      BY <1>a, <1>5 DEF InChain, Written
    <2>2. SnapshotsWereSettled'
      BY <1>0, <1>5, <2>1, SnapsKeepSettle
    <2>3. CurrentIsSettled'
      BY <1>0, <1>5 DEF CurrentIsSettled, Unwritten
    <2>4. PrevIsSettled'
      BY <1>0, <1>5 DEF PrevIsSettled
    <2> QED
      BY <2>2, <2>3, <2>4 DEF SettleInv
  <1>6. ASSUME NEW p \in Proc, Backup(p) PROVE SettleInv'
    <2>1. \A q \in Proc : pc[q] \notin Written
      BY <1>0, <1>6 DEF Exclusion, Backup, InChain, Written
    <2>2. CASE Abandon(p) /\ UNCHANGED snaps
      BY <1>3, <1>6, <2>1, <2>2 DEF Backup
    <2>3. CASE Goto(p, "mutate") /\ UNCHANGED disk
      <3>1. /\ \A q \in Proc : q # p => pc'[q] = pc[q]
            /\ pc[p] \in InChain \ Written /\ pc'[p] \in InChain
        BY <1>0, <1>6, <2>3 DEF Backup, InChain, Written
      <3>2. UNCHANGED <<req, prev>>
        BY <1>6 DEF Backup
      <3> QED
        BY <2>3, <3>1, <3>2, QuietKeepsSettle
    <2>4. CASE /\ snaps' = [snaps EXCEPT ![req[p].file][clock] =
                              [rules |-> {}, torn |-> TRUE]]
               /\ Goto(p, "copy") /\ UNCHANGED <<overlay, history>>
      <3>1. /\ \A q \in Proc : q # p => pc'[q] = pc[q]
            /\ pc[p] \in InChain \ Written /\ pc'[p] \in InChain \ Written
        BY <1>0, <1>6, <2>4 DEF Backup, InChain, Written
      <3>2. [rules |-> {}, torn |-> TRUE].torn
        OBVIOUS
      <3> QED
        BY <1>5, <1>6, <2>4, <3>1, <3>2 DEF Backup
    <2> QED
      BY <1>6, <2>2, <2>3, <2>4 DEF Backup
  <1>7. ASSUME NEW p \in Proc, CopyFile(p) PROVE SettleInv'
    <2>1. \A q \in Proc : pc[q] \notin Written
      BY <1>0, <1>7 DEF Exclusion, CopyFile, InChain, Written
    <2>2. UNCHANGED <<req, prev>> /\ pc[p] \in InChain \ Written /\ pc[p] # "idle"
      BY <1>7 DEF CopyFile, InChain, Written
    <2>3. req[p].file \in File
      BY <1>a, <2>2
    <2>4. ASSUME snaps' = [snaps EXCEPT ![req[p].file][stamp[p]] = overlay[req[p].file]],
                 Goto(p, "retain"), UNCHANGED <<overlay, history>>
          PROVE  SettleInv'
      <3>1. overlay[req[p].file] \in history[req[p].file]
        BY <1>0, <2>1, <2>3 DEF CurrentIsSettled, Unwritten
      <3>2. /\ \A q \in Proc : q # p => pc'[q] = pc[q]
            /\ pc'[p] \in InChain \ Written
        BY <1>0, <2>4 DEF InChain, Written
      <3> QED
        BY <1>5, <2>2, <2>4, <3>1, <3>2
    <2>5. ASSUME NEW R, snaps' = [snaps EXCEPT ![req[p].file][stamp[p]] =
                                    [rules |-> R, torn |-> TRUE]],
                 Abandon(p)
          PROVE  SettleInv'
      <3>1. UNCHANGED <<overlay, history>>
        BY <1>0, <2>1, <2>2, <2>5, AbandonNoTrace
      <3>2. /\ \A q \in Proc : q # p => pc'[q] = pc[q]
            /\ pc'[p] = "done"
        BY <1>0, <2>5 DEF Abandon, Leave
      <3>3. [rules |-> R, torn |-> TRUE].torn
        OBVIOUS
      <3> QED
        BY <1>5, <2>2, <2>5, <3>1, <3>2, <3>3
    <2> QED
      BY <1>7, <2>4, <2>5 DEF CopyFile
  <1>8. ASSUME NEW p \in Proc, EnforceRetention(p) PROVE SettleInv'
    <2>1. \A q \in Proc : pc[q] \notin Written
      BY <1>0, <1>8 DEF Exclusion, EnforceRetention, InChain, Written
    <2>2. UNCHANGED <<req, prev>> /\ pc[p] \in InChain \ Written /\ pc[p] # "idle"
      BY <1>8 DEF EnforceRetention, InChain, Written
    <2>3. CASE Abandon(p) /\ UNCHANGED snaps
      BY <1>3, <2>1, <2>2, <2>3
    <2>4. CASE Goto(p, "mutate") /\ UNCHANGED disk
      <3>1. /\ \A q \in Proc : q # p => pc'[q] = pc[q]
            /\ pc'[p] \in InChain
        BY <1>0, <2>4 DEF InChain
      <3> QED
        BY <2>2, <2>4, <3>1, QuietKeepsSettle
    <2>5. CASE /\ snaps' = [snaps EXCEPT ![req[p].file][Oldest(Listed(req[p].file))] = Absent]
               /\ UNCHANGED <<pc, overlay, history>>
      BY <1>5, <2>2, <2>5
    <2> QED
      BY <1>8, <2>3, <2>4, <2>5 DEF EnforceRetention
  <1>9. ASSUME NEW p \in Proc, Mutate(p) PROVE SettleInv'
    <2>1. \A q \in Proc : pc[q] \notin Written
      BY <1>0, <1>9 DEF Exclusion, Mutate, InChain, Written
    <2>2. UNCHANGED <<req, prev, snaps>> /\ pc[p] \in InChain \ Written /\ pc[p] # "idle"
      BY <1>9 DEF Mutate, InChain, Written
    <2>3. CASE Abandon(p)
      BY <1>3, <2>1, <2>2, <2>3
    <2>4. ASSUME overlay' = [overlay EXCEPT ![req[p].file] = Mutation(p)],
                 Goto(p, "load"), UNCHANGED history
          PROVE  SettleInv'
      <3>1. pc'[p] \in Written /\ \A q \in Proc : q # p => pc'[q] = pc[q]
        BY <1>0, <2>4 DEF Written
      <3>2. CurrentIsSettled'
        <4> SUFFICES ASSUME NEW g \in File, Unwritten(g)'
                     PROVE  overlay'[g] \in history[g]
          BY <2>4 DEF CurrentIsSettled
        <4>1. g # req[p].file
          BY <2>2, <3>1 DEF Unwritten
        <4>2. overlay'[g] = overlay[g]
          BY <1>0, <2>4, <4>1
        <4> QED
          BY <1>0, <2>1, <4>2 DEF CurrentIsSettled, Unwritten
      <3>3. PrevIsSettled' /\ SnapshotsWereSettled'
        BY <1>0, <2>2, <2>4, <3>1 DEF PrevIsSettled, SnapshotsWereSettled, Listed
      <3> QED
        BY <3>2, <3>3 DEF SettleInv
    <2> QED
      BY <1>9, <2>3, <2>4 DEF Mutate
  <1>10. ASSUME NEW p \in Proc, PostLoad(p) \/ LoadAnswered(p) \/ LoadTimeout(p)
         PROVE  SettleInv'
    <2>1. UNCHANGED <<overlay, history, snaps, prev, req>>
      BY <1>10 DEF PostLoad, LoadAnswered, LoadTimeout
    <2>2. /\ \A q \in Proc : q # p => pc'[q] = pc[q]
          /\ pc[p] \in Written /\ pc'[p] \in Written
      BY <1>0, <1>10 DEF PostLoad, LoadAnswered, LoadTimeout, ReloadFails, Written
    <2> QED
      BY <2>1, <2>2, QuietKeepsSettle DEF InChain
  <1>11. ASSUME NEW p \in Proc, NEW res, NEW v, pc[p] \in Written, Leave(p, res, v),
                UNCHANGED <<req, prev, snaps>>
         PROVE  SettleInv'
    <2>1. req[p].file \in File
      BY <1>a, <1>11 DEF Written
    <2>2. \A q \in Proc : pc'[q] \notin InChain /\ (pc[q] \in Written => q = p)
      BY <1>0, <1>11 DEF Leave, Exclusion, InChain, Written
    <2>3. \A g \in File : /\ history[g] \subseteq history'[g]
                          /\ overlay'[g] \in history'[g]
      <3> TAKE g \in File
      <3>1. CASE g = req[p].file
        BY <1>0, <1>11, <3>1 DEF Leave
      <3>2. CASE g # req[p].file
        BY <1>0, <1>11, <2>2, <3>2 DEF Leave, CurrentIsSettled, Unwritten
      <3> QED
        BY <3>1, <3>2
    <2>4. SnapshotsWereSettled'
      BY <1>0, <1>11, <2>3 DEF SnapshotsWereSettled, Listed
    <2> QED
      BY <2>2, <2>3, <2>4 DEF SettleInv, CurrentIsSettled, PrevIsSettled
  <1>12. ASSUME NEW p \in Proc, ReadBack(p) PROVE SettleInv'
    <2>1. CASE ReloadFails(p) /\ UNCHANGED <<overlay, history>>
      <3>1. UNCHANGED <<req, prev, snaps>>
        BY <1>12 DEF ReadBack
      <3>2. /\ \A q \in Proc : q # p => pc'[q] = pc[q]
            /\ pc[p] \in Written /\ pc'[p] \in Written
        BY <1>0, <1>12, <2>1 DEF ReadBack, ReloadFails, Written
      <3> QED
        BY <2>1, <3>1, <3>2, QuietKeepsSettle DEF InChain
    <2>2. CASE Leave(p, "ok", overlay[req[p].file])
      BY <1>11, <1>12, <2>2 DEF ReadBack, Written
    <2> QED
      BY <1>12, <2>1, <2>2 DEF ReadBack
  <1>13. ASSUME NEW p \in Proc, RestoreState(p) PROVE SettleInv'
    BY <1>11, <1>13 DEF RestoreState, Written
  <1>14. CASE Crash
    <2>1. \A q \in Proc : pc'[q] \notin InChain
      BY <1>14 DEF Crash, InChain, Written
    <2>2. \A g \in File : history[g] \subseteq history'[g] /\ overlay'[g] \in history'[g]
      BY <1>14 DEF Crash
    <2>3. SnapshotsWereSettled'
      BY <1>0, <1>14, <2>2 DEF Crash, SnapshotsWereSettled, Listed
    <2> QED
      BY <2>1, <2>2, <2>3 DEF SettleInv, CurrentIsSettled, PrevIsSettled
  <1>15. CASE \/ Tick \/ StepBack \/ UNCHANGED vars
              \/ \E p \in Proc : Caddy(p)
    <2>1. UNCHANGED <<pc, req, prev, overlay, history, snaps>>
      BY <1>15 DEF Tick, StepBack, Caddy, CaddyAdapt, CaddyApply, CaddyRefuse
    <2> QED
      BY <2>1, QuietKeepsSettle
  <1> QED
    BY <1>1, <1>2, <1>4, <1>6, <1>7, <1>8, <1>9, <1>10, <1>12, <1>13, <1>14, <1>15
    DEF Next, Handle

-----------------------------------------------------------------------------
(* What is written.                                                        *)

\* What a rollback chose is still there, or gone, until it is restored, unless
\* Backup reused its name.
ChosenIsKept ==
    \A p \in Proc :
      /\ pc[p] \in InChain \ Written
      /\ req[p].op = "rollback"
      /\ pc[p] # "backup" /\ prev[p] # Absent => stamp[p] # req[p].id
      => snaps[req[p].file][req[p].id] \in {target[p], Absent}

\* What is written and not settled is a change its request may make.
WrittenWasAsked ==
    \A p \in Proc :
      pc[p] \in Written => Store!Asked(req[p], overlay[req[p].file])

\* While a request is in the chain the files change by its own steps only, and
\* after the write by none before the chain is left.
LEMMA ChainStep ==
    ASSUME TypeOK, [Next]_vars, NEW q \in Proc, pc'[q] \in InChain
    PROVE  \/ Lock(q) \/ Backup(q) \/ CopyFile(q) \/ EnforceRetention(q) \/ Mutate(q)
           \/ /\ pc'[q] = pc[q] \/ (pc[q] \in Written /\ pc'[q] \in Written)
              /\ req'[q] = req[q] /\ prev'[q] = prev[q] /\ stamp'[q] = stamp[q]
              /\ target'[q] = target[q]
              /\ UNCHANGED <<overlay, snaps, history>>
  <1>0. /\ pc \in [Proc -> Steps] /\ req \in [Proc -> Requests \cup {NoReq}]
        /\ prev \in [Proc -> Value] /\ stamp \in [Proc -> Seconds]
        /\ target \in [Proc -> Value]
        /\ Exclusion
    BY DEF TypeOK, ControlTypes, DataTypes
  <1> DEFINE Quiet ==
        /\ pc'[q] = pc[q] \/ (pc[q] \in Written /\ pc'[q] \in Written)
        /\ req'[q] = req[q] /\ prev'[q] = prev[q] /\ stamp'[q] = stamp[q]
        /\ target'[q] = target[q]
        /\ UNCHANGED <<overlay, snaps, history>>
  <1> USE DEF vars, handler, disk, caddy, Goto, Answer
  <1>1. ASSUME NEW p \in Proc, Arrive(p) PROVE Quiet
    BY <1>0, <1>1 DEF Arrive, InChain, Written
  <1>2. ASSUME NEW p \in Proc, ReadForm(p) PROVE Quiet
    BY <1>0, <1>2 DEF ReadForm, InChain, Written
  <1>3. ASSUME NEW p \in Proc, Lock(p) PROVE p = q
    <2>1. pc[q] \notin InChain
      BY <1>0, <1>3, SentinelAssumption DEF Lock, CanLock, Exclusion
    <2> QED
      BY <1>0, <1>3, <2>1 DEF Lock, CanLock, Abandon, Leave
  <1>4. ASSUME NEW p \in Proc,
               \/ Backup(p) \/ CopyFile(p) \/ EnforceRetention(p) \/ Mutate(p)
               \/ PostLoad(p) \/ LoadAnswered(p) \/ LoadTimeout(p) \/ ReadBack(p)
               \/ RestoreState(p)
        PROVE  p = q
    <2>1. pc[p] \in InChain
      BY <1>4 DEF Backup, CopyFile, EnforceRetention, Mutate, PostLoad, LoadAnswered,
         LoadTimeout, ReadBack, RestoreState, InChain, Written
    <2>2. \E step : pc' = [pc EXCEPT ![p] = step]
      <3>1. pc' = pc => pc' = [pc EXCEPT ![p] = pc[p]]
        BY <1>0
      <3>2. \/ pc' = pc
            \/ pc' = [pc EXCEPT ![p] = "mutate"] \/ pc' = [pc EXCEPT ![p] = "copy"]
            \/ pc' = [pc EXCEPT ![p] = "retain"] \/ pc' = [pc EXCEPT ![p] = "load"]
            \/ pc' = [pc EXCEPT ![p] = "await"] \/ pc' = [pc EXCEPT ![p] = "verify"]
            \/ pc' = [pc EXCEPT ![p] = "restore"] \/ pc' = [pc EXCEPT ![p] = "done"]
        BY <1>4 DEF Backup, CopyFile, EnforceRetention, Mutate, PostLoad, LoadAnswered,
           LoadTimeout, ReadBack, RestoreState, ReloadFails, Abandon, Leave
      <3> QED
        BY <3>1, <3>2
    <2>3. p # q => pc'[q] = pc[q]
      BY <1>0, <2>2
    <2> QED
      BY <1>0, <2>1, <2>3 DEF Exclusion
  <1>5. CASE PostLoad(q) \/ LoadAnswered(q) \/ LoadTimeout(q) \/ ReadBack(q)
    <2>1. pc[q] \in Written /\ pc'[q] \in Written
      BY <1>0, <1>5
      DEF PostLoad, LoadAnswered, LoadTimeout, ReadBack, ReloadFails, Leave, InChain, Written
    <2>2. UNCHANGED <<req, prev, stamp, target, overlay, snaps, history>>
      BY <1>0, <1>5
      DEF PostLoad, LoadAnswered, LoadTimeout, ReadBack, ReloadFails, Leave, InChain, Written
    <2> QED
      BY <2>1, <2>2
  <1>6. CASE RestoreState(q)
    BY <1>0, <1>6 DEF RestoreState, Leave, InChain, Written
  <1>7. CASE Crash
    BY <1>7 DEF Crash, InChain, Written
  <1>8. CASE \/ Tick \/ StepBack \/ UNCHANGED vars
             \/ \E p \in Proc : Caddy(p)
    BY <1>8 DEF Tick, StepBack, Caddy, CaddyAdapt, CaddyApply, CaddyRefuse
  <1> QED
    BY <1>1, <1>2, <1>3, <1>4, <1>5, <1>6, <1>7, <1>8 DEF Next, Handle

LEMMA NextChosenIsKept ==
    TypeOK /\ ArchiveInv /\ ChosenIsKept /\ [Next]_vars => ChosenIsKept'
  <1> SUFFICES ASSUME TypeOK, ArchiveInv, ChosenIsKept, [Next]_vars, NEW q \in Proc,
                      pc'[q] \in InChain \ Written, req'[q].op = "rollback",
                      pc'[q] # "backup" /\ prev'[q] # Absent => stamp'[q] # req'[q].id
               PROVE  snaps'[req'[q].file][req'[q].id] \in {target'[q], Absent}
    BY DEF ChosenIsKept
  <1>0. /\ pc \in [Proc -> Steps] /\ target \in [Proc -> Value]
        /\ stamp \in [Proc -> Seconds] /\ snaps \in [File -> [Seconds -> Value]]
    BY DEF TypeOK, ControlTypes, DataTypes
  <1>a. pc[q] # "idle" =>
          req[q] \in Requests /\ req[q].file \in File /\ req[q].id \in Seconds
    BY RequestFacts DEF TypeOK, Arrived
  <1> DEFINE f == req[q].file
             id == req[q].id
  <1> USE DEF vars, handler, disk, caddy, Goto, Answer
  <1>1. CASE Lock(q)
    <2>1. target'[q] = snaps[f][id] /\ UNCHANGED <<req, snaps>>
      BY <1>0, <1>1 DEF Lock, CanLock, Abandon, Leave, InChain, Written
    <2> QED
      BY <2>1
  <1>2. CASE Backup(q)
    <2>1. /\ UNCHANGED <<req, prev, target>> /\ pc[q] = "backup"
          /\ snaps[f][id] \in {target[q], Absent}
      BY <1>2 DEF Backup, ChosenIsKept, InChain, Written
    <2>2. \/ snaps' = snaps
          \/ /\ prev[q] # Absent /\ stamp'[q] = clock /\ pc'[q] = "copy"
             /\ snaps' = [snaps EXCEPT ![f][clock] = [rules |-> {}, torn |-> TRUE]]
      BY <1>0, <1>2 DEF Backup
    <2>3. snaps'[f][id] = snaps[f][id]
      BY <1>0, <1>a, <2>1, <2>2
    <2> QED
      BY <2>1, <2>3
  <1>3. CASE CopyFile(q)
    <2>1. /\ UNCHANGED <<req, prev, stamp, target>> /\ pc[q] = "copy"
          /\ pc'[q] = "retain"
          /\ snaps' = [snaps EXCEPT ![f][stamp[q]] = overlay[f]]
      BY <1>0, <1>3 DEF CopyFile, Abandon, Leave, InChain, Written
    <2>2. stamp[q] # id
      BY <2>1 DEF ArchiveInv, FreshIsListed
    <2>3. snaps[f][id] \in {target[q], Absent}
      BY <2>1, <2>2 DEF ChosenIsKept, InChain, Written
    <2>4. snaps'[f][id] = snaps[f][id]
      BY <1>0, <1>a, <2>1, <2>2
    <2> QED
      BY <2>1, <2>3, <2>4
  <1>4. CASE EnforceRetention(q)
    <2>1. /\ UNCHANGED <<req, prev, stamp, target>> /\ pc[q] = "retain"
          /\ pc'[q] # "backup"
          /\ snaps' = snaps \/ snaps' = [snaps EXCEPT ![f][Oldest(Listed(f))] = Absent]
      BY <1>0, <1>4 DEF EnforceRetention, Abandon, Leave, InChain, Written
    <2>2. snaps[f][id] \in {target[q], Absent}
      BY <2>1 DEF ChosenIsKept, InChain, Written
    <2>3. snaps'[f][id] \in {snaps[f][id], Absent}
      BY <1>0, <1>a, <2>1
    <2> QED
      BY <2>1, <2>2, <2>3
  <1>5. CASE Mutate(q)
    BY <1>0, <1>5 DEF Mutate, Abandon, Leave, InChain, Written
  <1>6. CASE /\ pc'[q] = pc[q] \/ (pc[q] \in Written /\ pc'[q] \in Written)
             /\ req'[q] = req[q] /\ prev'[q] = prev[q] /\ stamp'[q] = stamp[q]
             /\ target'[q] = target[q]
             /\ UNCHANGED <<overlay, snaps, history>>
    BY <1>6 DEF ChosenIsKept
  <1> QED
    BY <1>1, <1>2, <1>3, <1>4, <1>5, <1>6, ChainStep

LEMMA NextRollbackFaithful ==
    TypeOK /\ ChosenIsKept /\ RollbackFaithful /\ [Next]_vars => RollbackFaithful'
  <1> SUFFICES ASSUME TypeOK, ChosenIsKept, RollbackFaithful, [Next]_vars,
                      NEW q \in Proc, pc'[q] \in Written, req'[q].op = "rollback",
                      prev'[q] # Absent => stamp'[q] # req'[q].id
               PROVE  overlay'[req'[q].file] = target'[q]
    BY DEF RollbackFaithful
  <1>0. pc \in [Proc -> Steps] /\ overlay \in [File -> Value]
    BY DEF TypeOK, ControlTypes, DataTypes
  <1> USE DEF vars, handler, disk, caddy, Goto, Answer
  <1>1. pc'[q] \in InChain
    BY DEF InChain
  <1>2. CASE Lock(q) \/ Backup(q) \/ CopyFile(q) \/ EnforceRetention(q)
    BY <1>0, <1>2
    DEF Lock, CanLock, Backup, CopyFile, EnforceRetention, Abandon, Leave, Written
  <1>3. CASE Mutate(q)
    <2> DEFINE f == req[q].file
               id == req[q].id
    <2>1. /\ UNCHANGED <<req, prev, stamp, target, snaps>> /\ pc[q] = "mutate"
          /\ overlay' = [overlay EXCEPT ![f] = Mutation(q)] /\ CanMutate(q)
      BY <1>0, <1>3 DEF Mutate, Abandon, Leave, Written
    <2>2. f \in File /\ Mutation(q) = snaps[f][id] /\ id \in Listed(f)
      BY <2>1, RequestFacts DEF TypeOK, Arrived, Mutation, CanMutate
    <2>3. snaps[f][id] \in {target[q], Absent} /\ snaps[f][id] # Absent
      BY <2>1, <2>2 DEF ChosenIsKept, InChain, Written, Listed
    <2> QED
      BY <1>0, <2>1, <2>2, <2>3
  <1>4. CASE /\ pc'[q] = pc[q] \/ (pc[q] \in Written /\ pc'[q] \in Written)
             /\ req'[q] = req[q] /\ prev'[q] = prev[q] /\ stamp'[q] = stamp[q]
             /\ target'[q] = target[q]
             /\ UNCHANGED <<overlay, snaps, history>>
    BY <1>4 DEF RollbackFaithful
  <1> QED
    BY <1>1, <1>2, <1>3, <1>4, ChainStep

\* What the mutate step writes is a change its request may make.
LEMMA MutationIsAsked ==
    ASSUME TypeOK, SettleInv, NEW p \in Proc, pc[p] # "idle", CanMutate(p)
    PROVE  Store!Asked(req[p], Mutation(p))
  <1>1. req[p] \in Requests /\ req[p].file \in File /\ req[p].rules \in SUBSET Rules
    BY RequestFacts DEF TypeOK, Arrived
  <1>2. Mutation(p) # Absent
    BY <1>1, MutationIsBytes, BytesFacts DEF TypeOK
  <1>3. CASE req[p].op = "set"
    BY <1>2, <1>3 DEF Store!Asked, Mutation, Whole
  <1>4. CASE req[p].op = "add"
    <2>1. Mutation(p) = [rules |-> base[p] \cup req[p].rules, torn |-> FALSE]
      BY <1>4 DEF Mutation, Whole
    <2> QED
      BY <1>2, <1>4, <2>1 DEF Store!Asked
  <1>5. CASE req[p].op = "rollback"
    <2>1. Mutation(p) = snaps[req[p].file][req[p].id] /\ req[p].id \in Listed(req[p].file)
      BY <1>5 DEF Mutation, CanMutate
    <2>2. Mutation(p).torn \/ Mutation(p) \in history[req[p].file]
      BY <1>1, <2>1 DEF SettleInv, SnapshotsWereSettled
    <2> QED
      BY <1>2, <1>5, <2>2 DEF Store!Asked
  <1> QED
    BY <1>1, <1>3, <1>4, <1>5, RequestFacts

LEMMA NextWrittenWasAsked ==
    TypeOK /\ SettleInv /\ WrittenWasAsked /\ [Next]_vars => WrittenWasAsked'
  <1> SUFFICES ASSUME TypeOK, SettleInv, WrittenWasAsked, [Next]_vars,
                      NEW q \in Proc, pc'[q] \in Written
               PROVE  Store!Asked(req[q], overlay[req[q].file])'
    BY DEF WrittenWasAsked
  <1>0. pc \in [Proc -> Steps] /\ overlay \in [File -> Value]
    BY DEF TypeOK, ControlTypes, DataTypes
  <1> USE DEF vars, handler, disk, caddy, Goto, Answer
  <1>1. pc'[q] \in InChain
    BY DEF InChain
  <1>2. CASE Lock(q) \/ Backup(q) \/ CopyFile(q) \/ EnforceRetention(q)
    BY <1>0, <1>2
    DEF Lock, CanLock, Backup, CopyFile, EnforceRetention, Abandon, Leave, Written
  <1>3. CASE Mutate(q)
    <2>1. /\ UNCHANGED <<req, history>> /\ pc[q] = "mutate" /\ CanMutate(q)
          /\ overlay' = [overlay EXCEPT ![req[q].file] = Mutation(q)]
      BY <1>0, <1>3 DEF Mutate, Abandon, Leave, Written
    <2>2. req[q].file \in File
      BY <2>1, RequestFacts DEF TypeOK, Arrived
    <2>3. overlay'[req[q].file] = Mutation(q)
      BY <1>0, <2>1, <2>2
    <2>4. Store!Asked(req[q], Mutation(q))
      BY <2>1, MutationIsAsked
    <2> QED
      BY <2>1, <2>3, <2>4 DEF Store!Asked
  <1>4. CASE /\ pc'[q] = pc[q] \/ (pc[q] \in Written /\ pc'[q] \in Written)
             /\ req'[q] = req[q] /\ prev'[q] = prev[q] /\ stamp'[q] = stamp[q]
             /\ target'[q] = target[q]
             /\ UNCHANGED <<overlay, snaps, history>>
    BY <1>4 DEF WrittenWasAsked, Store!Asked
  <1> QED
    BY <1>1, <1>2, <1>3, <1>4, ChainStep

StoreInv ==
    /\ AnswersMatch
    /\ SettleInv
    /\ ChosenIsKept
    /\ RollbackFaithful
    /\ WrittenWasAsked

LEMMA InitStoreInv == Init => StoreInv
  <1> SUFFICES ASSUME Init PROVE StoreInv
    OBVIOUS
  <1>1. \A p \in Proc : pc[p] \notin InChain
    BY DEF Init, InChain, Written
  <1>2. AnswersMatch
    BY DEF Init, AnswersMatch
  <1>3. \A f \in File : Listed(f) = {}
    BY DEF Init, Listed
  <1>4. SettleInv
    BY <1>1, <1>3
    DEF Init, SettleInv, CurrentIsSettled, PrevIsSettled, SnapshotsWereSettled
  <1> QED
    BY <1>1, <1>2, <1>4
    DEF StoreInv, ChosenIsKept, RollbackFaithful, WrittenWasAsked, InChain

LEMMA NextStoreInv ==
    TypeOK /\ ArchiveInv /\ StoreInv /\ [Next]_vars => StoreInv'
  BY NextAnswersMatch, NextSettleInv, NextChosenIsKept, NextRollbackFaithful,
     NextWrittenWasAsked DEF StoreInv

LEMMA StoreInvariant == Spec => [](TypeOK /\ ArchiveInv /\ StoreInv)
  BY InitTypeOK, NextTypeOK, InitArchiveInv, NextArchiveInv, InitStoreInv,
     NextStoreInv, PTL DEF Spec

\* A rollback writes what its snapshot held when it got chainMu, whatever the
\* backup and the retention of its own chain did to the archive in between,
\* unless Backup reused the name within the same second.
THEOREM RollbackIsFaithful == Spec => []RollbackFaithful
  <1>1. StoreInv => RollbackFaithful
    BY DEF StoreInv
  <1> QED
    BY <1>1, StoreInvariant, PTL

\* Backup only ever archives states in which a chain has left the file: what
\* Caddy refused and runChain took back never reaches a complete snapshot.
THEOREM SnapshotsAreSettled == Spec => []SnapshotsWereSettled
  <1>1. StoreInv => SnapshotsWereSettled
    BY DEF StoreInv, SettleInv
  <1> QED
    BY <1>1, StoreInvariant, PTL

-----------------------------------------------------------------------------
(* The refinement.                                                         *)

\* While the change of p is written and not settled, its file has the previous
\* state; the others, and all files when there is no such p, are as on disk.
LEMMA SettledWritten ==
    ASSUME NEW p \in Proc, pc[p] \in Written, \A q \in Proc : pc[q] \in Written => q = p,
           overlay \in [File -> Value]
    PROVE  Settled = [overlay EXCEPT ![req[p].file] = prev[p]]
  <1>1. ASSUME NEW f \in File, f = req[p].file PROVE Settled[f] = prev[p]
    <2>1. p = CHOOSE q \in Proc : pc[q] \in Written /\ req[q].file = f
      BY <1>1
    <2> QED
      BY <1>1, <2>1 DEF Settled
  <1>2. ASSUME NEW f \in File, f # req[p].file PROVE Settled[f] = overlay[f]
    BY <1>2 DEF Settled
  <1>3. Settled = [f \in File |-> Settled[f]]
    BY DEF Settled
  <1>4. [overlay EXCEPT ![req[p].file] = prev[p]] =
          [f \in File |-> IF f = req[p].file THEN prev[p] ELSE overlay[f]]
    OBVIOUS
  <1>5. \A f \in File :
          Settled[f] = IF f = req[p].file THEN prev[p] ELSE overlay[f]
    BY <1>1, <1>2
  <1> QED
    BY <1>3, <1>4, <1>5

LEMMA SettledUnwritten ==
    ASSUME \A q \in Proc : pc[q] \notin Written, overlay \in [File -> Value]
    PROVE  Settled = overlay
  BY DEF Settled

LEMMA SettledWrittenNext ==
    ASSUME NEW p \in Proc, pc'[p] \in Written,
           \A q \in Proc : pc'[q] \in Written => q = p, overlay' \in [File -> Value]
    PROVE  Settled' = [overlay' EXCEPT ![req'[p].file] = prev'[p]]
  <1>1. ASSUME NEW f \in File, f = req'[p].file PROVE Settled'[f] = prev'[p]
    <2>1. p = CHOOSE q \in Proc : pc'[q] \in Written /\ req'[q].file = f
      BY <1>1
    <2> QED
      BY <1>1, <2>1 DEF Settled
  <1>2. ASSUME NEW f \in File, f # req'[p].file PROVE Settled'[f] = overlay'[f]
    BY <1>2 DEF Settled
  <1>3. Settled' = [f \in File |-> Settled'[f]]
    BY DEF Settled
  <1>4. [overlay' EXCEPT ![req'[p].file] = prev'[p]] =
          [f \in File |-> IF f = req'[p].file THEN prev'[p] ELSE overlay'[f]]
    OBVIOUS
  <1>5. \A f \in File :
          Settled'[f] = IF f = req'[p].file THEN prev'[p] ELSE overlay'[f]
    BY <1>1, <1>2
  <1> QED
    BY <1>3, <1>4, <1>5

LEMMA SettledUnwrittenNext ==
    ASSUME \A q \in Proc : pc'[q] \notin Written, overlay' \in [File -> Value]
    PROVE  Settled' = overlay'
  BY DEF Settled

\* A step that writes, settles and answers nothing cannot be seen in the store.
LEMMA QuietStutters ==
    ASSUME UNCHANGED <<overlay, history, req, result, prev>>,
           \A q \in Proc : pc'[q] \in Written <=> pc[q] \in Written
    PROVE  UNCHANGED <<Settled, history, req, result>>
  BY DEF Settled

\* An answer that leaves no trace.
LEMMA FailStep ==
    ASSUME TypeOK, StoreInv, NEW p \in Proc, pc[p] \notin {"idle", "done"},
           UNCHANGED <<overlay, history, req, prev>>, Answer(p, "failed"),
           pc[p] \notin Written
    PROVE  Store!Fail(p)
  <1>0. pc \in [Proc -> Steps]
    BY DEF TypeOK, ControlTypes
  <1>1. \A q \in Proc : pc'[q] \in Written <=> pc[q] \in Written
    BY <1>0 DEF Answer, Goto, Written
  <1>2. Settled' = Settled
    BY <1>1 DEF Settled
  <1> QED
    BY <1>2 DEF Store!Fail, Store!Pending, Answer, StoreInv, AnswersMatch

\* The chain is left with the overlay as it was written.
LEMMA EffectStep ==
    ASSUME TypeOK, StoreInv, NEW p \in Proc, pc[p] \in Written,
           NEW res \in {"ok", "unclear"}, Leave(p, res, overlay[req[p].file]),
           UNCHANGED req
    PROVE  Store!TakeEffect(p)
  <1>0. /\ pc \in [Proc -> Steps] /\ Exclusion /\ overlay \in [File -> Value]
        /\ prev \in [Proc -> Value] /\ WrittenExists
    BY DEF TypeOK, ControlTypes, DataTypes
  <1> DEFINE f == req[p].file
             v == overlay[f]
  <1>1. f \in File /\ v \in Bytes
    BY <1>0, RequestFacts DEF TypeOK, Arrived, WrittenExists, Written
  <1>2. \A q \in Proc : (pc[q] \in Written => q = p) /\ pc'[q] \notin Written
    BY <1>0 DEF Leave, Answer, Goto, Exclusion, InChain, Written
  <1>3. overlay' = overlay
    BY <1>0, <1>1 DEF Leave
  <1>4. Settled' = overlay
    BY <1>0, <1>2, <1>3, SettledUnwrittenNext
  <1>5. Settled = [overlay EXCEPT ![f] = prev[p]]
    BY <1>0, <1>2, SettledWritten
  <1>6. Settled' = [Settled EXCEPT ![f] = v]
    BY <1>0, <1>1, <1>4, <1>5
  <1>7. Store!Settle(f, v)
    BY <1>6 DEF Store!Settle, Leave
  <1>8. Store!Asked(req[p], v)
    BY DEF StoreInv, WrittenWasAsked
  <1>9. Store!Pending(p)
    BY DEF StoreInv, AnswersMatch, Store!Pending, Written
  <1>10. v \in [rules : SUBSET Rules, torn : BOOLEAN]
    BY <1>1 DEF Bytes
  <1> QED
    BY <1>7, <1>8, <1>9, <1>10 DEF Store!TakeEffect, Leave, Answer

\* The process dies: the change that is written stays, all others leave no trace.
LEMMA KillStep ==
    ASSUME TypeOK, StoreInv, Crash
    PROVE  Store!Kill
  <1>0. /\ pc \in [Proc -> Steps] /\ Exclusion /\ WrittenExists
        /\ overlay \in [File -> Value] /\ history \in [File -> SUBSET Value]
        /\ AnswersMatch /\ CurrentIsSettled
    BY DEF TypeOK, ControlTypes, DataTypes, StoreInv, SettleInv
  <1>1. /\ UNCHANGED <<overlay, req>>
        /\ history' = [f \in File |-> history[f] \cup {overlay[f]}]
        /\ \A q \in Proc : pc'[q] \notin Written
    BY DEF Crash, Written
  <1>2. result' = [p \in Proc |-> IF Store!Pending(p) THEN "killed" ELSE result[p]]
    BY <1>0 DEF Crash, Store!Pending, AnswersMatch
  <1>3. Settled' = overlay
    BY <1>0, <1>1, SettledUnwrittenNext
  <1>4. CASE \A q \in Proc : pc[q] \notin Written
    <2>1. Settled = overlay
      BY <1>0, <1>4, SettledUnwritten
    <2>2. \A f \in File : history[f] \cup {overlay[f]} = history[f]
      BY <1>0, <1>4 DEF CurrentIsSettled, Unwritten
    <2>3. history' = history
      BY <1>0, <1>1, <2>2
    <2> QED
      BY <1>1, <1>2, <1>3, <2>1, <2>3 DEF Store!Kill
  <1>5. ASSUME NEW p \in Proc, pc[p] \in Written PROVE Store!Kill
    <2> DEFINE f == req[p].file
               v == overlay[f]
    <2>1. \A q \in Proc : pc[q] \in Written => q = p
      BY <1>0, <1>5 DEF Exclusion, InChain
    <2>2. f \in File /\ v \in Bytes
      BY <1>0, <1>5, RequestFacts DEF TypeOK, Arrived, WrittenExists, Written
    <2>3. Settled = [overlay EXCEPT ![f] = prev[p]]
      BY <1>0, <1>5, <2>1, SettledWritten
    <2>4. Settled' = [Settled EXCEPT ![f] = v]
      BY <1>0, <1>3, <2>2, <2>3
    <2>5. \A g \in File : g # f => history[g] \cup {overlay[g]} = history[g]
      BY <1>0, <2>1 DEF CurrentIsSettled, Unwritten
    <2>6. history' = [history EXCEPT ![f] = @ \cup {v}]
      BY <1>0, <1>1, <2>2, <2>5
    <2>7. Store!Asked(req[p], v)
      BY <1>5 DEF StoreInv, WrittenWasAsked
    <2>8. Store!Pending(p)
      BY <1>0, <1>5 DEF AnswersMatch, Store!Pending, Written
    <2>9. v \in [rules : SUBSET Rules, torn : BOOLEAN]
      BY <2>2 DEF Bytes
    <2> QED
      BY <1>1, <1>2, <2>4, <2>6, <2>7, <2>8, <2>9 DEF Store!Kill, Store!Settle
  <1> QED
    BY <1>4, <1>5

\* Every step of the chain is a step of the store, or is not seen in it.
LEMMA StoreStep ==
    TypeOK /\ TypeOK' /\ ArchiveInv /\ StoreInv /\ [Next]_vars =>
      [Store!StoreNext]_(Store!storeVars)
  <1> SUFFICES ASSUME TypeOK, TypeOK', ArchiveInv, StoreInv, [Next]_vars,
                      ~(UNCHANGED <<Settled, history, req, result>>)
               PROVE  Store!StoreNext
    BY DEF Store!storeVars
  <1>0. /\ pc \in [Proc -> Steps] /\ Exclusion
        /\ overlay \in [File -> Value] /\ overlay' \in [File -> Value]
        /\ prev \in [Proc -> Value] /\ history \in [File -> SUBSET Value]
        /\ AnswersMatch /\ CurrentIsSettled /\ PrevIsSettled
    BY DEF TypeOK, ControlTypes, DataTypes, StoreInv, SettleInv
  <1>a. \A p \in Proc : pc[p] # "idle" => req[p] \in Requests /\ req[p].file \in File
    BY RequestFacts DEF TypeOK, Arrived
  <1> USE DEF vars, handler, disk, caddy, Goto
  <1>b. ASSUME NEW p \in Proc, pc[p] \notin {"idle", "done"} \cup Written,
               \A q \in Proc : pc[q] \notin Written,
               Abandon(p), UNCHANGED <<req, prev>>
        PROVE  Store!StoreNext
    <2>1. UNCHANGED <<overlay, history>> /\ Answer(p, "failed")
      BY <1>0, <1>b, AbandonNoTrace DEF Abandon, Leave
    <2> QED
      BY <1>b, <2>1, FailStep DEF Store!StoreNext
  <1>1. ASSUME NEW p \in Proc, Arrive(p) PROVE Store!StoreNext
    <2>1. \A q \in Proc : pc'[q] \in Written <=> pc[q] \in Written
      BY <1>0, <1>1 DEF Arrive, Answer, Written
    <2>2. \A q \in Proc : pc[q] \in Written => req'[q] = req[q]
      BY <1>0, <1>1 DEF TypeOK, ControlTypes, Arrive, Written
    <2>3. UNCHANGED <<overlay, history, prev>>
      BY <1>1 DEF Arrive
    <2>4. Settled' = Settled
      <3>1. CASE \A q \in Proc : pc[q] \notin Written
        BY <1>0, <2>1, <2>3, <3>1, SettledUnwritten, SettledUnwrittenNext
      <3>2. ASSUME NEW q \in Proc, pc[q] \in Written PROVE Settled' = Settled
        <4>1. \A r \in Proc : pc[r] \in Written => r = q
          BY <1>0, <3>2 DEF Exclusion, InChain
        <4>2. Settled = [overlay EXCEPT ![req[q].file] = prev[q]]
          BY <1>0, <3>2, <4>1, SettledWritten
        <4>3. Settled' = [overlay' EXCEPT ![req'[q].file] = prev'[q]]
          BY <1>0, <2>1, <3>2, <4>1, SettledWrittenNext
        <4> QED
          BY <2>2, <2>3, <3>2, <4>2, <4>3
      <3> QED
        BY <3>1, <3>2
    <2>5. Store!Submit(p)
      BY <1>0, <1>1, <2>3, <2>4 DEF Store!Submit, Arrive, Answer, AnswersMatch, Accepted
    <2> QED
      BY <2>5 DEF Store!StoreNext
  <1>2. ASSUME NEW p \in Proc, ReadForm(p) PROVE Store!StoreNext
    <2>1. UNCHANGED <<overlay, history, req, prev>> /\ pc[p] = "form"
      BY <1>2 DEF ReadForm
    <2>2. CASE Answer(p, "failed")
      BY <2>1, <2>2, FailStep DEF Store!StoreNext, Written
    <2>3. CASE Goto(p, "lock") /\ UNCHANGED result
      BY <1>0, <2>1, <2>3, QuietStutters DEF Written
    <2> QED
      BY <1>2, <2>2, <2>3 DEF ReadForm
  <1>3. ASSUME NEW p \in Proc, Lock(p) PROVE Store!StoreNext
    <2>1. \A q \in Proc : pc[q] \notin Written
      BY <1>0, <1>3, SentinelAssumption DEF Exclusion, Lock, CanLock, InChain
    <2>2. CASE Abandon(p) /\ UNCHANGED <<prev, target, snaps>>
      BY <1>3, <1>b, <2>1, <2>2 DEF Lock, CanLock, Written
    <2>3. CASE Goto(p, "backup") /\ UNCHANGED <<result, disk>>
      <3>1. \A q \in Proc : pc'[q] \notin Written
        BY <1>0, <2>1, <2>3 DEF Written
      <3>2. Settled' = Settled
        BY <1>0, <2>1, <2>3, <3>1, SettledUnwritten, SettledUnwrittenNext
      <3> QED
        BY <1>3, <2>3, <3>2 DEF Lock
    <2> QED
      BY <1>3, <2>2, <2>3 DEF Lock
  <1>4. ASSUME NEW p \in Proc, Backup(p) \/ CopyFile(p) \/ EnforceRetention(p)
        PROVE  Store!StoreNext
    <2>1. /\ UNCHANGED <<req, prev>> /\ pc[p] \notin {"idle", "done"} \cup Written
          /\ pc[p] \in InChain
      BY <1>4 DEF Backup, CopyFile, EnforceRetention, InChain, Written
    <2>2. \A q \in Proc : pc[q] \notin Written
      BY <1>0, <2>1 DEF Exclusion, InChain
    <2>3. CASE Abandon(p)
      BY <1>b, <2>1, <2>2, <2>3
    <2>4. CASE /\ UNCHANGED <<overlay, history, result>>
               /\ \/ pc' = pc \/ Goto(p, "mutate") \/ Goto(p, "copy") \/ Goto(p, "retain")
      <3>1. \A q \in Proc : pc'[q] \in Written <=> pc[q] \in Written
        BY <1>0, <2>1, <2>4 DEF Written
      <3> QED
        BY <2>1, <2>4, <3>1, QuietStutters
    <2> QED
      BY <1>4, <2>3, <2>4 DEF Backup, CopyFile, EnforceRetention
  <1>5. ASSUME NEW p \in Proc, Mutate(p) PROVE Store!StoreNext
    <2>1. UNCHANGED <<req, prev>> /\ pc[p] = "mutate" /\ req[p].file \in File
      BY <1>a, <1>5 DEF Mutate
    <2>2. \A q \in Proc : pc[q] \notin Written
      BY <1>0, <2>1 DEF Exclusion, InChain, Written
    <2>3. CASE Abandon(p)
      BY <1>b, <2>1, <2>2, <2>3 DEF Written
    <2>4. ASSUME overlay' = [overlay EXCEPT ![req[p].file] = Mutation(p)],
                 Goto(p, "load"), UNCHANGED <<result, history>>
          PROVE  Store!StoreNext
      <3>1. pc'[p] \in Written /\ \A q \in Proc : pc'[q] \in Written => q = p
        BY <1>0, <2>2, <2>4 DEF Written
      <3>2. Settled' = [overlay' EXCEPT ![req'[p].file] = prev'[p]]
        BY <1>0, <3>1, SettledWrittenNext
      <3>3. prev[p] = overlay[req[p].file]
        BY <2>1 DEF ArchiveInv, PrevIsCurrent, InChain, Written
      <3>4. Settled' = overlay
        BY <1>0, <2>1, <2>4, <3>2, <3>3
      <3>5. Settled = overlay
        BY <1>0, <2>2, SettledUnwritten
      <3> QED
        BY <2>1, <2>4, <3>4, <3>5
    <2> QED
      BY <1>5, <2>3, <2>4 DEF Mutate
  <1>6. ASSUME NEW p \in Proc, PostLoad(p) \/ LoadAnswered(p) \/ LoadTimeout(p)
        PROVE  Store!StoreNext
    <2>1. UNCHANGED <<overlay, history, req, result, prev>>
      BY <1>6 DEF PostLoad, LoadAnswered, LoadTimeout
    <2>2. \A q \in Proc : pc'[q] \in Written <=> pc[q] \in Written
      BY <1>0, <1>6 DEF PostLoad, LoadAnswered, LoadTimeout, ReloadFails, Written
    <2> QED
      BY <2>1, <2>2, QuietStutters
  <1>7. ASSUME NEW p \in Proc, ReadBack(p) PROVE Store!StoreNext
    <2>1. CASE Leave(p, "ok", overlay[req[p].file])
      BY <1>7, <2>1, EffectStep DEF ReadBack, Store!StoreNext, Written
    <2>2. CASE ReloadFails(p) /\ UNCHANGED <<result, overlay, history>>
      <3>1. \A q \in Proc : pc'[q] \in Written <=> pc[q] \in Written
        BY <1>0, <1>7, <2>2 DEF ReadBack, ReloadFails, Written
      <3> QED
        BY <1>7, <2>2, <3>1, QuietStutters DEF ReadBack
    <2> QED
      BY <1>7, <2>1, <2>2 DEF ReadBack
  <1>8. ASSUME NEW p \in Proc, RestoreState(p) PROVE Store!StoreNext
    <2> DEFINE f == req[p].file
    <2>1. UNCHANGED <<req, prev>> /\ pc[p] = "restore" /\ pc[p] \in Written /\ f \in File
      BY <1>a, <1>8 DEF RestoreState, Written
    <2>2. CASE Leave(p, "unclear", overlay[f])
      BY <2>1, <2>2, EffectStep DEF Store!StoreNext
    <2>3. CASE Leave(p, "failed", Restored(p))
      <3>1. \A q \in Proc : (pc[q] \in Written => q = p) /\ pc'[q] \notin Written
        BY <1>0, <2>1, <2>3 DEF Leave, Answer, Exclusion, InChain, Written
      <3>2. Settled = [overlay EXCEPT ![f] = prev[p]]
        BY <1>0, <2>1, <3>1, SettledWritten
      <3>3. Settled' = overlay'
        BY <1>0, <3>1, SettledUnwrittenNext
      <3>4. Settled' = Settled
        BY <2>3, <3>2, <3>3 DEF Leave, Restored
      <3>5. prev[p] \in history[f]
        BY <1>0, <2>1 DEF PrevIsSettled, InChain
      <3>6. history' = history
        BY <1>0, <2>1, <2>3, <3>5 DEF Leave, Restored
      <3>7. Store!Fail(p)
        BY <1>0, <2>1, <2>3, <3>4, <3>6
        DEF Store!Fail, Store!Pending, Leave, Answer, AnswersMatch
      <3> QED
        BY <3>7 DEF Store!StoreNext
    <2> QED
      BY <1>8, <2>2, <2>3 DEF RestoreState
  <1>9. CASE Crash
    BY <1>9, KillStep DEF Store!StoreNext
  <1>10. CASE \/ Tick \/ StepBack \/ UNCHANGED vars
              \/ \E p \in Proc : Caddy(p)
    <2>1. UNCHANGED <<pc, overlay, history, req, result, prev>>
      BY <1>10 DEF Tick, StepBack, Caddy, CaddyAdapt, CaddyApply, CaddyRefuse
    <2> QED
      BY <2>1, QuietStutters
  <1> QED
    BY <1>1, <1>2, <1>3, <1>4, <1>5, <1>6, <1>7, <1>8, <1>9, <1>10 DEF Next, Handle

\* runChain implements the store: whatever fails, times out or is killed on the
\* way, a request takes effect in one step or leaves no trace, "failed" means no
\* trace, and a rollback brings back a settled state or a torn copy of one.
THEOREM ChainImplementsStore == Spec => ImplementsStore
  <1>1. Init => Store!StoreInit
    <2> SUFFICES ASSUME Init PROVE Store!StoreInit
      OBVIOUS
    <2>1. overlay \in [File -> {Absent, [rules |-> {}, torn |-> FALSE]}]
      BY DEF Init, Whole
    <2>2. overlay \in [File -> Value]
      BY InitTypeOK DEF TypeOK, DataTypes
    <2>3. Settled = overlay
      BY <2>2, SettledUnwritten DEF Init, Written
    <2> QED
      BY <2>1, <2>3 DEF Store!StoreInit, Init
  <1>2. Spec => [](TypeOK /\ ArchiveInv /\ StoreInv)
    BY StoreInvariant
  <1> QED
    BY <1>1, <1>2, StoreStep, PTL DEF Spec, ImplementsStore, Store!StoreSpec
=============================================================================

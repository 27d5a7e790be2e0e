---------------------------- MODULE ChainProofs ----------------------------
(* Proofs about Chain, for every set of requests, files and rules, every     *)
(* retention limit and every combination of faults.                          *)
EXTENDS Chain, FiniteSetTheorems, WellFoundedInduction, TLAPS

-----------------------------------------------------------------------------
(* Facts about the data.                                                   *)

\* A complete file, a torn snapshot, and Whole are bytes, and none is Absent.
LEMMA BytesFacts ==
    /\ \A R \in SUBSET Rules :
         /\ Whole(R) \in Bytes
         /\ [rules |-> R, torn |-> TRUE] \in Bytes
    /\ \A v \in Bytes : v # Absent /\ v.rules \in SUBSET Rules
    /\ Bytes \subseteq Value
    /\ Absent \in Value
    /\ \A v \in Value : v # Absent => v \in Bytes
  BY SentinelAssumption DEF Bytes, Value, Whole

\* What the overlay parser returns is a set of rules.
LEMMA ParsedIsRules == \A v \in Value : Parsed(v) \in SUBSET Rules
  BY BytesFacts DEF Parsed

\* A request that has arrived names a file, rules and a second.
LEMMA RequestFacts ==
    \A r \in Requests :
      /\ r.file \in File
      /\ r.rules \in SUBSET Rules
      /\ r.id \in Seconds
      /\ r.op \in {"set", "add", "rollback"}
  BY RequestsAssumption DEF Request

-----------------------------------------------------------------------------
(* Type correctness.                                                       *)

LEMMA InitTypeOK == Init => TypeOK
  <1> SUFFICES ASSUME Init PROVE TypeOK
    OBVIOUS
  <1>1. overlay \in [File -> Value]
    BY BytesFacts DEF Init
  <1>2. clock \in Seconds /\ stamp \in [Proc -> Seconds]
    BY HorizonAssumption DEF Init, Seconds
  <1>3. snaps \in [File -> [Seconds -> Value]]
    BY BytesFacts DEF Init
  <1>4. adapted \in [Proc -> [File -> Value]] /\ live \in [File -> Value]
    BY <1>1 DEF Init
  <1>5. history \in [File -> SUBSET Value]
    BY <1>1 DEF Init
  <1>6. /\ prev \in [Proc -> Value]
        /\ target \in [Proc -> Value]
    BY BytesFacts DEF Init
  <1>7. \A p \in Proc : pc[p] \in InChain <=> lock = p
    BY SentinelAssumption DEF Init, InChain, Written
  <1> QED
    BY <1>1, <1>2, <1>3, <1>4, <1>5, <1>6, <1>7
    DEF Init, TypeOK, ControlTypes, DataTypes, Arrived, Exclusion, WrittenExists, Steps, InChain, Written

\* Updates of the overlays, the history and the snapshots keep their types.
LEMMA UpdateTypes ==
    ASSUME NEW f \in File, NEW v \in Value
    PROVE  /\ \A o \in [File -> Value] : [o EXCEPT ![f] = v] \in [File -> Value]
           /\ \A h \in [File -> SUBSET Value] :
                [h EXCEPT ![f] = @ \cup {v}] \in [File -> SUBSET Value]
           /\ \A s \in [File -> [Seconds -> Value]] : \A t :
                [s EXCEPT ![f][t] = v] \in [File -> [Seconds -> Value]]
  OBVIOUS

\* Leaving the chain with a value keeps the overlays and the history typed.
LEMMA LeaveTypes ==
    ASSUME NEW p \in Proc, NEW res, NEW v \in Value,
           req[p].file \in File, DataTypes,
           \/ UNCHANGED <<overlay, history>>
           \/ Leave(p, res, v)
    PROVE  /\ overlay' \in [File -> Value]
           /\ history' \in [File -> SUBSET Value]
  <1>1. overlay \in [File -> Value] /\ history \in [File -> SUBSET Value]
    BY DEF DataTypes
  <1>2. CASE UNCHANGED <<overlay, history>>
    BY <1>1, <1>2
  <1>3. CASE Leave(p, res, v)
    <2>1. overlay' = [overlay EXCEPT ![req[p].file] = v]
      BY <1>3 DEF Leave
    <2>2. history' = [history EXCEPT ![req[p].file] = @ \cup {v}]
      BY <1>3 DEF Leave
    <2> QED
      BY <1>1, <2>1, <2>2, UpdateTypes
  <1> QED
    BY <1>2, <1>3

\* A snapshot made, completed or removed keeps the archive typed.
LEMMA SnapsTypes ==
    ASSUME NEW f \in File, NEW t, NEW v \in Value, DataTypes,
           \/ UNCHANGED snaps
           \/ snaps' = [snaps EXCEPT ![f][t] = v]
    PROVE  snaps' \in [File -> [Seconds -> Value]]
  <1>1. snaps \in [File -> [Seconds -> Value]]
    BY DEF DataTypes
  <1> QED
    BY <1>1, UpdateTypes

\* What the mutate step writes is always a file.
LEMMA MutationIsBytes ==
    ASSUME NEW p \in Proc, DataTypes, req[p] \in Requests, CanMutate(p)
    PROVE  Mutation(p) \in Bytes
  <1>1. CASE req[p].op = "set"
    BY <1>1, RequestFacts, BytesFacts DEF Mutation
  <1>2. CASE req[p].op = "add"
    <2>1. base[p] \cup req[p].rules \in SUBSET Rules
      BY RequestFacts DEF DataTypes
    <2> QED
      BY <1>2, <2>1, BytesFacts DEF Mutation
  <1>3. CASE req[p].op = "rollback"
    <2>1. snaps[req[p].file][req[p].id] \in Value
      BY RequestFacts DEF DataTypes
    <2>2. snaps[req[p].file][req[p].id] # Absent
      BY <1>3 DEF CanMutate, Listed
    <2> QED
      BY <1>3, <2>1, <2>2, BytesFacts DEF Mutation
  <1> QED
    BY <1>1, <1>2, <1>3, RequestFacts

LEMMA NextTypeOK == TypeOK /\ [Next]_vars => TypeOK'
  <1> SUFFICES ASSUME TypeOK, [Next]_vars PROVE TypeOK'
    OBVIOUS
  <1> USE DEF vars, handler, disk, caddy, Goto
  <1>0. ControlTypes /\ DataTypes /\ Arrived /\ Exclusion /\ WrittenExists
    BY DEF TypeOK
  <1>1. ASSUME NEW p \in Proc, Arrive(p) PROVE TypeOK'
    <2>1. pc[p] # "idle" => /\ req[p] \in Requests
                           /\ req[p].file \in File
                           /\ overlay[req[p].file] \in Value
      BY <1>0, RequestFacts DEF DataTypes, Arrived
    <2>2. ControlTypes'
      BY <1>0, <1>1 DEF ControlTypes, Arrive, Answer, Steps, InChain, Written
    <2>3. DataTypes'
      BY <1>0, <1>1, <2>1 DEF ControlTypes, DataTypes, Arrive, Answer
    <2>4. Arrived'
      BY <1>0, <1>1, <2>1 DEF ControlTypes, Arrived, Arrive, Answer
    <2>5. Exclusion'
      BY <1>0, <1>1, SentinelAssumption
      DEF ControlTypes, Exclusion, Arrive, Answer, InChain, Written
    <2>6. WrittenExists'
      BY <1>0, <1>1, <2>1
      DEF ControlTypes, DataTypes, Arrived, Exclusion, WrittenExists, Arrive, Answer, InChain, Written
    <2> QED
      BY <2>2, <2>3, <2>4, <2>5, <2>6 DEF TypeOK
  <1>2. ASSUME NEW p \in Proc, ReadForm(p) PROVE TypeOK'
    <2>1. pc[p] # "idle" => /\ req[p] \in Requests
                           /\ req[p].file \in File
                           /\ overlay[req[p].file] \in Value
      BY <1>0, RequestFacts DEF DataTypes, Arrived
    <2>2. ControlTypes'
      BY <1>0, <1>2 DEF ControlTypes, ReadForm, Answer, Steps, InChain, Written
    <2>3. DataTypes'
      <3>1. Parsed(overlay[req[p].file]) \in SUBSET Rules
        BY <1>2, <2>1, ParsedIsRules DEF ReadForm
      <3> QED
        BY <1>0, <1>2, <3>1 DEF DataTypes, ReadForm, Answer
    <2>4. Arrived'
      BY <1>0, <1>2, <2>1 DEF ControlTypes, Arrived, ReadForm, Answer
    <2>5. Exclusion'
      BY <1>0, <1>2, SentinelAssumption
      DEF ControlTypes, Exclusion, ReadForm, Answer, InChain, Written
    <2>6. WrittenExists'
      BY <1>0, <1>2, <2>1
      DEF ControlTypes, DataTypes, Arrived, Exclusion, WrittenExists, ReadForm, Answer, InChain, Written
    <2> QED
      BY <2>2, <2>3, <2>4, <2>5, <2>6 DEF TypeOK
  <1>3. ASSUME NEW p \in Proc, Lock(p) PROVE TypeOK'
    <2>1. pc[p] # "idle" => /\ req[p] \in Requests
                           /\ req[p].file \in File
                           /\ overlay[req[p].file] \in Value
      BY <1>0, RequestFacts DEF DataTypes, Arrived
    <2>2. ControlTypes'
      BY <1>0, <1>3 DEF ControlTypes, Lock, CanLock, Answer, Leave, Abandon, Steps, InChain, Written
    <2>3. DataTypes'
      <3>1. overlay' \in [File -> Value] /\ history' \in [File -> SUBSET Value]
        BY <1>0, <1>3, <2>1, LeaveTypes DEF Lock, Abandon, CanLock
      <3>2. snaps[req[p].file][req[p].id] \in Value
        BY <1>0, <1>3, <2>1, RequestFacts DEF DataTypes, Lock, CanLock
      <3>3. prev' \in [Proc -> Value]
        BY <1>0, <1>3, <2>1 DEF DataTypes, Lock, CanLock
      <3>4. target' \in [Proc -> Value]
        BY <1>0, <1>3, <3>2, BytesFacts DEF DataTypes, Lock, CanLock
      <3> QED
        BY <1>0, <1>3, <3>1, <3>3, <3>4 DEF DataTypes, Lock, CanLock, Answer, Leave, Abandon
    <2>4. Arrived'
      BY <1>0, <1>3, <2>1 DEF ControlTypes, Arrived, Lock, CanLock, Answer, Leave, Abandon
    <2>5. Exclusion'
      BY <1>0, <1>3, SentinelAssumption
      DEF ControlTypes, Exclusion, Lock, CanLock, Answer, Leave, Abandon, InChain, Written
    <2>6. WrittenExists'
      BY <1>0, <1>3, <2>1
      DEF ControlTypes, DataTypes, Arrived, Exclusion, WrittenExists, Lock, CanLock, Answer, Leave, Abandon, InChain, Written
    <2> QED
      BY <2>2, <2>3, <2>4, <2>5, <2>6 DEF TypeOK
  <1>4. ASSUME NEW p \in Proc, Backup(p) PROVE TypeOK'
    <2>1. pc[p] # "idle" => /\ req[p] \in Requests
                           /\ req[p].file \in File
                           /\ overlay[req[p].file] \in Value
      BY <1>0, RequestFacts DEF DataTypes, Arrived
    <2>2. ControlTypes'
      BY <1>0, <1>4 DEF ControlTypes, Backup, Answer, Leave, Abandon, Steps, InChain, Written
    <2>3. DataTypes'
      <3>1. overlay' \in [File -> Value] /\ history' \in [File -> SUBSET Value]
        BY <1>0, <1>4, <2>1, LeaveTypes DEF Backup, Abandon
      <3>2. [rules |-> {}, torn |-> TRUE] \in Value
        BY BytesFacts
      <3>3. snaps' \in [File -> [Seconds -> Value]]
        <4>1. \/ UNCHANGED snaps
              \/ snaps' = [snaps EXCEPT ![req[p].file][clock] =
                              [rules |-> {}, torn |-> TRUE]]
          BY <1>4 DEF Backup
        <4>2. req[p].file \in File
          BY <1>4, <2>1 DEF Backup
        <4> QED
          BY ONLY <1>0, <3>2, <4>1, <4>2, SnapsTypes
      <3>4. stamp' \in [Proc -> Seconds]
        BY <1>0, <1>4 DEF ControlTypes, DataTypes, Backup
      <3> QED
        BY <1>0, <1>4, <3>1, <3>3, <3>4 DEF DataTypes, Backup
    <2>4. Arrived'
      BY <1>0, <1>4, <2>1 DEF ControlTypes, Arrived, Backup, Answer, Leave, Abandon
    <2>5. Exclusion'
      BY <1>0, <1>4, SentinelAssumption
      DEF ControlTypes, Exclusion, Backup, Answer, Leave, Abandon, InChain, Written
    <2>6. WrittenExists'
      BY <1>0, <1>4, <2>1
      DEF ControlTypes, DataTypes, Arrived, Exclusion, WrittenExists, Backup, Answer, Leave, Abandon, InChain, Written
    <2> QED
      BY <2>2, <2>3, <2>4, <2>5, <2>6 DEF TypeOK
  <1>5. ASSUME NEW p \in Proc, CopyFile(p) PROVE TypeOK'
    <2>1. pc[p] # "idle" => /\ req[p] \in Requests
                           /\ req[p].file \in File
                           /\ overlay[req[p].file] \in Value
      BY <1>0, RequestFacts DEF DataTypes, Arrived
    <2>2. ControlTypes'
      BY <1>0, <1>5 DEF ControlTypes, CopyFile, Answer, Leave, Abandon, Steps, InChain, Written
    <2>3. DataTypes'
      <3>1. overlay' \in [File -> Value] /\ history' \in [File -> SUBSET Value]
        BY <1>0, <1>5, <2>1, LeaveTypes DEF CopyFile, Abandon
      <3>2. Parsed(overlay[req[p].file]) \in SUBSET Rules
        BY <1>5, <2>1, ParsedIsRules DEF CopyFile
      <3>3. \A R \in SUBSET Parsed(overlay[req[p].file]) :
              [rules |-> R, torn |-> TRUE] \in Value
        BY <3>2, BytesFacts
      <3>4. snaps' \in [File -> [Seconds -> Value]]
        BY <1>0, <1>5, <2>1, <3>3, SnapsTypes DEF CopyFile
      <3> QED
        BY <1>0, <1>5, <3>1, <3>4 DEF DataTypes, CopyFile
    <2>4. Arrived'
      BY <1>0, <1>5, <2>1 DEF ControlTypes, Arrived, CopyFile, Answer, Leave, Abandon
    <2>5. Exclusion'
      BY <1>0, <1>5, SentinelAssumption
      DEF ControlTypes, Exclusion, CopyFile, Answer, Leave, Abandon, InChain, Written
    <2>6. WrittenExists'
      BY <1>0, <1>5, <2>1
      DEF ControlTypes, DataTypes, Arrived, Exclusion, WrittenExists, CopyFile, Answer, Leave, Abandon, InChain, Written
    <2> QED
      BY <2>2, <2>3, <2>4, <2>5, <2>6 DEF TypeOK
  <1>6. ASSUME NEW p \in Proc, EnforceRetention(p) PROVE TypeOK'
    <2>1. pc[p] # "idle" => /\ req[p] \in Requests
                           /\ req[p].file \in File
                           /\ overlay[req[p].file] \in Value
      BY <1>0, RequestFacts DEF DataTypes, Arrived
    <2>2. ControlTypes'
      BY <1>0, <1>6 DEF ControlTypes, EnforceRetention, Answer, Leave, Abandon, Steps, InChain, Written
    <2>3. DataTypes'
      <3>1. overlay' \in [File -> Value] /\ history' \in [File -> SUBSET Value]
        BY <1>0, <1>6, <2>1, LeaveTypes DEF EnforceRetention, Abandon
      <3>2. snaps' \in [File -> [Seconds -> Value]]
        BY <1>0, <1>6, <2>1, BytesFacts, SnapsTypes DEF EnforceRetention
      <3> QED
        BY <1>0, <1>6, <3>1, <3>2 DEF DataTypes, EnforceRetention
    <2>4. Arrived'
      BY <1>0, <1>6, <2>1 DEF ControlTypes, Arrived, EnforceRetention, Answer, Leave, Abandon
    <2>5. Exclusion'
      BY <1>0, <1>6, SentinelAssumption
      DEF ControlTypes, Exclusion, EnforceRetention, Answer, Leave, Abandon, InChain, Written
    <2>6. WrittenExists'
      BY <1>0, <1>6, <2>1
      DEF ControlTypes, DataTypes, Arrived, Exclusion, WrittenExists, EnforceRetention, Answer, Leave, Abandon, InChain, Written
    <2> QED
      BY <2>2, <2>3, <2>4, <2>5, <2>6 DEF TypeOK
  <1>7. ASSUME NEW p \in Proc, Mutate(p) PROVE TypeOK'
    <2>1. pc[p] # "idle" => /\ req[p] \in Requests
                           /\ req[p].file \in File
                           /\ overlay[req[p].file] \in Value
      BY <1>0, RequestFacts DEF DataTypes, Arrived
    <2>2. ControlTypes'
      BY <1>0, <1>7 DEF ControlTypes, Mutate, Answer, Leave, Abandon, Steps, InChain, Written
    <2>3. DataTypes'
      <3>1. overlay' \in [File -> Value] /\ history' \in [File -> SUBSET Value]
        <4>1. CASE CanMutate(p) /\ overlay' = [overlay EXCEPT ![req[p].file] = Mutation(p)]
              /\ UNCHANGED history
          <5>1. Mutation(p) \in Value
            BY <1>0, <1>7, <2>1, <4>1, MutationIsBytes, BytesFacts DEF Mutate
          <5> QED
            BY <1>0, <1>7, <2>1, <4>1, <5>1, UpdateTypes DEF DataTypes, Mutate
        <4>2. CASE Abandon(p)
          BY <1>0, <1>7, <2>1, <4>2, LeaveTypes DEF Mutate, Abandon
        <4> QED
          BY <1>7, <4>1, <4>2 DEF Mutate
      <3> QED
        BY <1>0, <1>7, <3>1 DEF DataTypes, Mutate
    <2>4. Arrived'
      BY <1>0, <1>7, <2>1 DEF ControlTypes, Arrived, Mutate, Answer, Leave, Abandon
    <2>5. Exclusion'
      BY <1>0, <1>7, SentinelAssumption
      DEF ControlTypes, Exclusion, Mutate, Answer, Leave, Abandon, InChain, Written
    <2>6. WrittenExists'
      <3>1. CanMutate(p) => Mutation(p) \in Bytes
        BY <1>0, <2>1, <1>7, MutationIsBytes DEF Mutate
      <3> QED
        BY <1>0, <1>7, <2>1, <2>5, <3>1
        DEF ControlTypes, DataTypes, Arrived, Exclusion, WrittenExists, Mutate, Answer, Leave, Abandon, InChain, Written
    <2> QED
      BY <2>2, <2>3, <2>4, <2>5, <2>6 DEF TypeOK
  <1>8. ASSUME NEW p \in Proc, PostLoad(p) PROVE TypeOK'
    <2>1. pc[p] # "idle" => /\ req[p] \in Requests
                           /\ req[p].file \in File
                           /\ overlay[req[p].file] \in Value
      BY <1>0, RequestFacts DEF DataTypes, Arrived
    <2>2. ControlTypes'
      BY <1>0, <1>8 DEF ControlTypes, PostLoad, ReloadFails, Steps, InChain, Written
    <2>3. DataTypes'
      BY <1>0, <1>8, <2>1 DEF ControlTypes, DataTypes, PostLoad, ReloadFails
    <2>4. Arrived'
      BY <1>0, <1>8, <2>1 DEF ControlTypes, Arrived, PostLoad, ReloadFails
    <2>5. Exclusion'
      BY <1>0, <1>8, SentinelAssumption
      DEF ControlTypes, Exclusion, PostLoad, ReloadFails, InChain, Written
    <2>6. WrittenExists'
      BY <1>0, <1>8, <2>1
      DEF ControlTypes, DataTypes, Arrived, Exclusion, WrittenExists, PostLoad, ReloadFails, InChain, Written
    <2> QED
      BY <2>2, <2>3, <2>4, <2>5, <2>6 DEF TypeOK
  <1>9. ASSUME NEW p \in Proc, LoadAnswered(p) PROVE TypeOK'
    <2>1. pc[p] # "idle" => /\ req[p] \in Requests
                           /\ req[p].file \in File
                           /\ overlay[req[p].file] \in Value
      BY <1>0, RequestFacts DEF DataTypes, Arrived
    <2>2. ControlTypes'
      BY <1>0, <1>9 DEF ControlTypes, LoadAnswered, ReloadFails, Steps, InChain, Written
    <2>3. DataTypes'
      BY <1>0, <1>9, <2>1 DEF ControlTypes, DataTypes, LoadAnswered, ReloadFails
    <2>4. Arrived'
      BY <1>0, <1>9, <2>1 DEF ControlTypes, Arrived, LoadAnswered, ReloadFails
    <2>5. Exclusion'
      BY <1>0, <1>9, SentinelAssumption
      DEF ControlTypes, Exclusion, LoadAnswered, ReloadFails, InChain, Written
    <2>6. WrittenExists'
      BY <1>0, <1>9, <2>1
      DEF ControlTypes, DataTypes, Arrived, Exclusion, WrittenExists, LoadAnswered, ReloadFails, InChain, Written
    <2> QED
      BY <2>2, <2>3, <2>4, <2>5, <2>6 DEF TypeOK
  <1>10. ASSUME NEW p \in Proc, LoadTimeout(p) PROVE TypeOK'
    <2>1. pc[p] # "idle" => /\ req[p] \in Requests
                           /\ req[p].file \in File
                           /\ overlay[req[p].file] \in Value
      BY <1>0, RequestFacts DEF DataTypes, Arrived
    <2>2. ControlTypes'
      BY <1>0, <1>10 DEF ControlTypes, LoadTimeout, ReloadFails, Orphaned, Steps, InChain, Written
    <2>3. DataTypes'
      BY <1>0, <1>10, <2>1 DEF ControlTypes, DataTypes, LoadTimeout, ReloadFails, Orphaned
    <2>4. Arrived'
      BY <1>0, <1>10, <2>1 DEF ControlTypes, Arrived, LoadTimeout, ReloadFails, Orphaned
    <2>5. Exclusion'
      BY <1>0, <1>10, SentinelAssumption
      DEF ControlTypes, Exclusion, LoadTimeout, ReloadFails, Orphaned, InChain, Written
    <2>6. WrittenExists'
      BY <1>0, <1>10, <2>1
      DEF ControlTypes, DataTypes, Arrived, Exclusion, WrittenExists, LoadTimeout, ReloadFails, Orphaned, InChain, Written
    <2> QED
      BY <2>2, <2>3, <2>4, <2>5, <2>6 DEF TypeOK
  <1>11. ASSUME NEW p \in Proc, ReadBack(p) PROVE TypeOK'
    <2>1. pc[p] # "idle" => /\ req[p] \in Requests
                           /\ req[p].file \in File
                           /\ overlay[req[p].file] \in Value
      BY <1>0, RequestFacts DEF DataTypes, Arrived
    <2>2. ControlTypes'
      BY <1>0, <1>11 DEF ControlTypes, ReadBack, ReloadFails, Answer, Leave, Steps, InChain, Written
    <2>3. DataTypes'
      <3>1. overlay' \in [File -> Value] /\ history' \in [File -> SUBSET Value]
        BY <1>0, <1>11, <2>1, LeaveTypes DEF ReadBack
      <3> QED
        BY <1>0, <1>11, <3>1 DEF DataTypes, ReadBack
    <2>4. Arrived'
      BY <1>0, <1>11, <2>1 DEF ControlTypes, Arrived, ReadBack, ReloadFails, Answer, Leave
    <2>5. Exclusion'
      BY <1>0, <1>11, SentinelAssumption
      DEF ControlTypes, Exclusion, ReadBack, ReloadFails, Answer, Leave, InChain, Written
    <2>6. WrittenExists'
      BY <1>0, <1>11, <2>1
      DEF ControlTypes, DataTypes, Arrived, Exclusion, WrittenExists, ReadBack, ReloadFails, Answer, Leave, InChain, Written
    <2> QED
      BY <2>2, <2>3, <2>4, <2>5, <2>6 DEF TypeOK
  <1>12. ASSUME NEW p \in Proc, RestoreState(p) PROVE TypeOK'
    <2>1. pc[p] # "idle" => /\ req[p] \in Requests
                           /\ req[p].file \in File
                           /\ overlay[req[p].file] \in Value
      BY <1>0, RequestFacts DEF DataTypes, Arrived
    <2>2. ControlTypes'
      BY <1>0, <1>12 DEF ControlTypes, RestoreState, Restored, Answer, Leave, Steps, InChain, Written
    <2>3. DataTypes'
      <3>1. prev[p] \in Value
        BY <1>0 DEF DataTypes
      <3>2. overlay' \in [File -> Value] /\ history' \in [File -> SUBSET Value]
        BY <1>0, <1>12, <2>1, <3>1, LeaveTypes DEF RestoreState, Restored
      <3> QED
        BY <1>0, <1>12, <3>2 DEF DataTypes, RestoreState
    <2>4. Arrived'
      BY <1>0, <1>12, <2>1 DEF ControlTypes, Arrived, RestoreState, Restored, Answer, Leave
    <2>5. Exclusion'
      BY <1>0, <1>12, SentinelAssumption
      DEF ControlTypes, Exclusion, RestoreState, Restored, Answer, Leave, InChain, Written
    <2>6. WrittenExists'
      BY <1>0, <1>12, <2>5, SentinelAssumption
      DEF ControlTypes, Exclusion, WrittenExists, RestoreState, Restored, Answer, Leave, InChain, Written
    <2> QED
      BY <2>2, <2>3, <2>4, <2>5, <2>6 DEF TypeOK
  <1>13. ASSUME NEW p \in Proc, CaddyAdapt(p) PROVE TypeOK'
    <2>1. pc[p] # "idle" => /\ req[p] \in Requests
                           /\ req[p].file \in File
                           /\ overlay[req[p].file] \in Value
      BY <1>0, RequestFacts DEF DataTypes, Arrived
    <2>2. ControlTypes'
      BY <1>0, <1>13 DEF ControlTypes, CaddyAdapt, Steps, InChain, Written
    <2>3. DataTypes'
      BY <1>0, <1>13, <2>1 DEF ControlTypes, DataTypes, CaddyAdapt
    <2>4. Arrived'
      BY <1>0, <1>13, <2>1 DEF ControlTypes, Arrived, CaddyAdapt
    <2>5. Exclusion'
      BY <1>0, <1>13, SentinelAssumption
      DEF ControlTypes, Exclusion, CaddyAdapt, InChain, Written
    <2>6. WrittenExists'
      BY <1>0, <1>13, <2>1
      DEF ControlTypes, DataTypes, Arrived, Exclusion, WrittenExists, CaddyAdapt, InChain, Written
    <2> QED
      BY <2>2, <2>3, <2>4, <2>5, <2>6 DEF TypeOK
  <1>14. ASSUME NEW p \in Proc, CaddyApply(p) PROVE TypeOK'
    <2>1. pc[p] # "idle" => /\ req[p] \in Requests
                           /\ req[p].file \in File
                           /\ overlay[req[p].file] \in Value
      BY <1>0, RequestFacts DEF DataTypes, Arrived
    <2>2. ControlTypes'
      BY <1>0, <1>14 DEF ControlTypes, CaddyApply, Steps, InChain, Written
    <2>3. DataTypes'
      BY <1>0, <1>14, <2>1 DEF ControlTypes, DataTypes, CaddyApply
    <2>4. Arrived'
      BY <1>0, <1>14, <2>1 DEF ControlTypes, Arrived, CaddyApply
    <2>5. Exclusion'
      BY <1>0, <1>14, SentinelAssumption
      DEF ControlTypes, Exclusion, CaddyApply, InChain, Written
    <2>6. WrittenExists'
      BY <1>0, <1>14, <2>1
      DEF ControlTypes, DataTypes, Arrived, Exclusion, WrittenExists, CaddyApply, InChain, Written
    <2> QED
      BY <2>2, <2>3, <2>4, <2>5, <2>6 DEF TypeOK
  <1>15. ASSUME NEW p \in Proc, CaddyRefuse(p) PROVE TypeOK'
    <2>1. pc[p] # "idle" => /\ req[p] \in Requests
                           /\ req[p].file \in File
                           /\ overlay[req[p].file] \in Value
      BY <1>0, RequestFacts DEF DataTypes, Arrived
    <2>2. ControlTypes'
      BY <1>0, <1>15 DEF ControlTypes, CaddyRefuse, Steps, InChain, Written
    <2>3. DataTypes'
      BY <1>0, <1>15, <2>1 DEF ControlTypes, DataTypes, CaddyRefuse
    <2>4. Arrived'
      BY <1>0, <1>15, <2>1 DEF ControlTypes, Arrived, CaddyRefuse
    <2>5. Exclusion'
      BY <1>0, <1>15, SentinelAssumption
      DEF ControlTypes, Exclusion, CaddyRefuse, InChain, Written
    <2>6. WrittenExists'
      BY <1>0, <1>15, <2>1
      DEF ControlTypes, DataTypes, Arrived, Exclusion, WrittenExists, CaddyRefuse, InChain, Written
    <2> QED
      BY <2>2, <2>3, <2>4, <2>5, <2>6 DEF TypeOK
  <1>16. CASE Crash
    <2>1. ControlTypes' /\ DataTypes'
      BY <1>0, <1>16
      DEF ControlTypes, DataTypes, Crash, Orphaned, Steps, InChain, Written
    <2>2. Arrived' /\ Exclusion' /\ WrittenExists'
      BY <1>0, <1>16, SentinelAssumption DEF ControlTypes, DataTypes, Arrived, Exclusion, WrittenExists, Crash, Steps, InChain, Written
    <2> QED
      BY <2>1, <2>2 DEF TypeOK
  <1>17. CASE Tick \/ StepBack
    BY <1>0, <1>17, HorizonAssumption DEF TypeOK, ControlTypes, DataTypes, Arrived, Exclusion, WrittenExists, Tick, StepBack, Seconds
  <1>18. CASE UNCHANGED vars
    BY <1>0, <1>18 DEF TypeOK, ControlTypes, DataTypes, Arrived, Exclusion, WrittenExists
  <1> QED
    BY <1>1, <1>2, <1>3, <1>4, <1>5, <1>6, <1>7, <1>8, <1>9, <1>10, <1>11, <1>12, <1>13, <1>14, <1>15, <1>16, <1>17, <1>18 DEF Next, Handle, Caddy

\* Every state the chain can reach is well formed: variables have their types,
\* chainMu is held by exactly the request inside runChain, and a written overlay
\* exists, for any number of requests and any faults.
THEOREM TypeCorrect == Spec => []TypeOK
  BY InitTypeOK, NextTypeOK, PTL DEF Spec

-----------------------------------------------------------------------------
(* What enforceRetention removes.                                          *)

\* A set of snapshots that is not empty has an oldest one.
LEMMA OldestFacts ==
    ASSUME NEW S, S \subseteq Seconds, S # {}
    PROVE  Oldest(S) \in S /\ \A u \in S : Oldest(S) <= u
  <1>1. S \subseteq Nat
    BY HorizonAssumption DEF Seconds
  <1>2. \E x \in S : \A y \in S : ~(<<y, x>> \in OpToRel(<, Nat))
    BY <1>1, NatLessThanWellFounded, WFMin
  <1>3. \E x \in S : \A y \in S : x <= y
    <2>1. PICK x \in S : \A y \in S : ~(<<y, x>> \in OpToRel(<, Nat))
      BY <1>2
    <2>2. ASSUME NEW y \in S, y < x PROVE FALSE
      <3>1. <<y, x>> \in OpToRel(<, Nat)
        BY <1>1, <2>2 DEF OpToRel
      <3> QED
        BY <2>1, <3>1
    <2> QED
      BY <1>1, <2>2
  <1> QED
    BY <1>3 DEF Oldest

\* The snapshots of a file are finitely many.
LEMMA ListedFinite ==
    ASSUME NEW f \in File
    PROVE  /\ Listed(f) \subseteq Seconds
           /\ IsFiniteSet(Listed(f))
           /\ Cardinality(Listed(f)) \in Nat
  <1>1. IsFiniteSet(Seconds)
    BY HorizonAssumption, FS_Interval DEF Seconds
  <1>2. Listed(f) \subseteq Seconds
    BY DEF Listed
  <1> QED
    BY <1>1, <1>2, FS_Subset, FS_CardinalityType

\* Over the limit, retention leaves at least Keep snapshots.
LEMMA RemovalLeavesKeep ==
    ASSUME NEW f \in File, ~WithinLimit(f)
    PROVE  /\ Oldest(Listed(f)) \in Listed(f)
           /\ \A u \in Listed(f) : Oldest(Listed(f)) <= u
           /\ Cardinality(Listed(f) \ {Oldest(Listed(f))}) >= Keep
  <1>1. /\ Listed(f) \subseteq Seconds /\ IsFiniteSet(Listed(f))
        /\ Cardinality(Listed(f)) \in Nat
    BY ListedFinite
  <1>2. Cardinality(Listed(f)) > Keep
    BY <1>1, KeepAssumption DEF WithinLimit
  <1>3. Listed(f) # {}
    BY <1>2, FS_EmptySet, KeepAssumption
  <1>4. Oldest(Listed(f)) \in Listed(f) /\ \A u \in Listed(f) : Oldest(Listed(f)) <= u
    BY <1>1, <1>3, OldestFacts
  <1>5. Cardinality(Listed(f) \ {Oldest(Listed(f))}) = Cardinality(Listed(f)) - 1
    BY <1>1, <1>4, FS_RemoveElement
  <1> QED
    BY <1>1, <1>2, <1>4, <1>5, KeepAssumption

\* The archive of a file depends on the snapshots alone.
LEMMA ListedStable ==
    ASSUME UNCHANGED snaps PROVE \A f \in File : Listed(f)' = Listed(f)
  BY DEF Listed

LEMMA OutnumberedStable ==
    ASSUME NEW q \in Proc, UNCHANGED <<snaps, stamp>>, req'[q] = req[q]
    PROVE  Outnumbered(q)' = Outnumbered(q)
  BY DEF Outnumbered, Listed

-----------------------------------------------------------------------------
(* The invariant.                                                          *)

LEMMA InitArchiveInv == Init => ArchiveInv
  <1> SUFFICES ASSUME Init PROVE ArchiveInv
    OBVIOUS
  <1>1. \A f \in File : Listed(f) = {}
    BY DEF Init, Listed
  <1>2. \A p \in Proc : pc[p] = "idle"
    BY DEF Init
  <1> QED
    BY <1>1, <1>2
    DEF ArchiveInv, ArchiveInPast, PrevIsCurrent, FreshIsListed, FreshIsNewest,
        FreshIsKept, LimitHeld, NoArchiveYet, InChain, Written

\* A step that leaves the files alone, and moves requests only out of the chain
\* or between steps after the write, preserves the invariant.
LEMMA FilesAlone ==
    ASSUME TypeOK, ArchiveInv,
           UNCHANGED <<overlay, snaps, prev, stamp>>,
           clock' \in Int, "clock" \notin Faults => clock <= clock',
           \A q \in Proc : pc'[q] \in InChain =>
             /\ req'[q] = req[q]
             /\ \/ pc'[q] = pc[q]
                \/ pc[q] \in Written /\ pc'[q] \in Written
    PROVE  ArchiveInv'
  <1>0. /\ ControlTypes /\ DataTypes /\ Arrived /\ Exclusion /\ WrittenExists
        /\ ArchiveInPast /\ PrevIsCurrent /\ FreshIsListed /\ FreshIsNewest
        /\ FreshIsKept /\ LimitHeld /\ NoArchiveYet
    BY DEF TypeOK, ArchiveInv
  <1>1. \A f \in File : Listed(f)' = Listed(f)
    BY ListedStable
  <1>2. \A q \in Proc : pc[q] # "idle" => req[q].file \in File
    BY <1>0, RequestFacts DEF Arrived
  <1>3. \A q \in Proc : pc'[q] \in InChain =>
          pc[q] \in InChain /\ req'[q] = req[q] /\ req[q].file \in File
    BY <1>2 DEF InChain, Written
  <1>4. ArchiveInPast'
    <2> SUFFICES ASSUME "clock" \notin Faults, NEW f \in File, NEW t \in Listed(f)
                 PROVE  t <= clock'
      BY <1>1 DEF ArchiveInPast
    <2>1. t <= clock /\ t \in Int /\ clock \in Int
      BY <1>0, HorizonAssumption DEF ArchiveInPast, ControlTypes, Listed, Seconds
    <2> QED
      BY <2>1
  <1>5. PrevIsCurrent'
    BY <1>0, <1>3 DEF PrevIsCurrent, InChain, Written
  <1>6. FreshIsListed' /\ FreshIsNewest'
    BY <1>0, <1>1, <1>3 DEF FreshIsListed, FreshIsNewest, InChain, Written
  <1>7. FreshIsKept'
    BY <1>0, <1>3, OutnumberedStable DEF FreshIsKept, InChain, Written
  <1>8. LimitHeld'
    BY <1>0, <1>1, <1>3 DEF LimitHeld, InChain, Written
  <1>9. NoArchiveYet'
    <2>1. ASSUME NEW f \in File, overlay[f] = Absent PROVE Listed(f) = {}
      BY <1>0, <2>1, BytesFacts DEF NoArchiveYet, WrittenExists
    <2>2. ASSUME NEW q \in Proc, pc'[q] \in Written, prev[q] = Absent
          PROVE  Listed(req[q].file) = {} /\ req'[q] = req[q] /\ req[q].file \in File
      BY <1>0, <1>3, <2>2 DEF NoArchiveYet, InChain, Written
    <2> QED
      BY <1>1, <2>1, <2>2 DEF NoArchiveYet
  <1> QED
    BY <1>4, <1>5, <1>6, <1>7, <1>8, <1>9 DEF ArchiveInv

\* A failure before the write only ends the request.
LEMMA AbandonKeepsArchiveInv ==
    ASSUME TypeOK, ArchiveInv, NEW p \in Proc, Abandon(p), pc[p] # "idle",
           UNCHANGED <<snaps, prev, stamp, clock, req>>
    PROVE  ArchiveInv'
  <1>1. req[p].file \in File
    BY RequestFacts DEF TypeOK, Arrived
  <1>2. overlay' = overlay
    BY <1>1 DEF Abandon, Leave, TypeOK, DataTypes
  <1>3. \A q \in Proc : pc'[q] \in InChain => pc'[q] = pc[q]
    BY DEF Abandon, Leave, Answer, Goto, TypeOK, ControlTypes, InChain, Written
  <1>4. clock \in Int
    BY HorizonAssumption DEF TypeOK, ControlTypes, Seconds
  <1> QED
    BY <1>2, <1>3, <1>4, FilesAlone

LEMMA NextArchiveInv == TypeOK /\ ArchiveInv /\ [Next]_vars => ArchiveInv'
  <1> SUFFICES ASSUME TypeOK, ArchiveInv, [Next]_vars PROVE ArchiveInv'
    OBVIOUS
  <1> USE DEF vars, handler, disk, caddy, Goto
  <1>0. /\ ControlTypes /\ DataTypes /\ Arrived /\ Exclusion /\ WrittenExists
        /\ ArchiveInPast /\ PrevIsCurrent /\ FreshIsListed /\ FreshIsNewest
        /\ FreshIsKept /\ LimitHeld /\ NoArchiveYet
    BY DEF TypeOK, ArchiveInv
  <1>a. \A q \in Proc : pc[q] # "idle" => req[q].file \in File
    BY <1>0, RequestFacts DEF Arrived
  <1>b. clock \in Int
    BY <1>0, HorizonAssumption DEF ControlTypes, Seconds
  <1>1. ASSUME NEW p \in Proc, Arrive(p) PROVE ArchiveInv'
    <2>1. UNCHANGED <<overlay, snaps, prev, stamp, clock>>
      BY <1>0, <1>1, <1>a DEF Arrive, Answer, DataTypes, Written
    <2>2. \A q \in Proc : pc'[q] \in InChain =>
            /\ req'[q] = req[q]
            /\ pc'[q] = pc[q] \/ (pc[q] \in Written /\ pc'[q] \in Written)
      BY <1>0, <1>1 DEF ControlTypes, Arrive, Answer, InChain, Written
    <2> QED
      BY <1>b, <2>1, <2>2, FilesAlone
  <1>2. ASSUME NEW p \in Proc, ReadForm(p) PROVE ArchiveInv'
    <2>1. UNCHANGED <<overlay, snaps, prev, stamp, clock>>
      BY <1>0, <1>2, <1>a DEF ReadForm, Answer, DataTypes, Written
    <2>2. \A q \in Proc : pc'[q] \in InChain =>
            /\ req'[q] = req[q]
            /\ pc'[q] = pc[q] \/ (pc[q] \in Written /\ pc'[q] \in Written)
      BY <1>0, <1>2 DEF ControlTypes, ReadForm, Answer, InChain, Written
    <2> QED
      BY <1>b, <2>1, <2>2, FilesAlone
  <1>3. ASSUME NEW p \in Proc, PostLoad(p) PROVE ArchiveInv'
    <2>1. UNCHANGED <<overlay, snaps, prev, stamp, clock>>
      BY <1>0, <1>3, <1>a DEF PostLoad, ReloadFails, DataTypes, Written
    <2>2. \A q \in Proc : pc'[q] \in InChain =>
            /\ req'[q] = req[q]
            /\ pc'[q] = pc[q] \/ (pc[q] \in Written /\ pc'[q] \in Written)
      BY <1>0, <1>3 DEF ControlTypes, PostLoad, ReloadFails, InChain, Written
    <2> QED
      BY <1>b, <2>1, <2>2, FilesAlone
  <1>4. ASSUME NEW p \in Proc, LoadAnswered(p) PROVE ArchiveInv'
    <2>1. UNCHANGED <<overlay, snaps, prev, stamp, clock>>
      BY <1>0, <1>4, <1>a DEF LoadAnswered, ReloadFails, DataTypes, Written
    <2>2. \A q \in Proc : pc'[q] \in InChain =>
            /\ req'[q] = req[q]
            /\ pc'[q] = pc[q] \/ (pc[q] \in Written /\ pc'[q] \in Written)
      BY <1>0, <1>4 DEF ControlTypes, LoadAnswered, ReloadFails, InChain, Written
    <2> QED
      BY <1>b, <2>1, <2>2, FilesAlone
  <1>5. ASSUME NEW p \in Proc, LoadTimeout(p) PROVE ArchiveInv'
    <2>1. UNCHANGED <<overlay, snaps, prev, stamp, clock>>
      BY <1>0, <1>5, <1>a DEF LoadTimeout, ReloadFails, DataTypes, Written
    <2>2. \A q \in Proc : pc'[q] \in InChain =>
            /\ req'[q] = req[q]
            /\ pc'[q] = pc[q] \/ (pc[q] \in Written /\ pc'[q] \in Written)
      BY <1>0, <1>5 DEF ControlTypes, LoadTimeout, ReloadFails, InChain, Written
    <2> QED
      BY <1>b, <2>1, <2>2, FilesAlone
  <1>6. ASSUME NEW p \in Proc, ReadBack(p) PROVE ArchiveInv'
    <2>1. UNCHANGED <<overlay, snaps, prev, stamp, clock>>
      BY <1>0, <1>6, <1>a DEF ReadBack, ReloadFails, Answer, Leave, DataTypes, Written
    <2>2. \A q \in Proc : pc'[q] \in InChain =>
            /\ req'[q] = req[q]
            /\ pc'[q] = pc[q] \/ (pc[q] \in Written /\ pc'[q] \in Written)
      BY <1>0, <1>6 DEF ControlTypes, ReadBack, ReloadFails, Answer, Leave, InChain, Written
    <2> QED
      BY <1>b, <2>1, <2>2, FilesAlone
  <1>7. ASSUME NEW p \in Proc, CaddyAdapt(p) PROVE ArchiveInv'
    <2>1. UNCHANGED <<overlay, snaps, prev, stamp, clock>>
      BY <1>0, <1>7, <1>a DEF CaddyAdapt, DataTypes, Written
    <2>2. \A q \in Proc : pc'[q] \in InChain =>
            /\ req'[q] = req[q]
            /\ pc'[q] = pc[q] \/ (pc[q] \in Written /\ pc'[q] \in Written)
      BY <1>0, <1>7 DEF ControlTypes, CaddyAdapt, InChain, Written
    <2> QED
      BY <1>b, <2>1, <2>2, FilesAlone
  <1>8. ASSUME NEW p \in Proc, CaddyApply(p) PROVE ArchiveInv'
    <2>1. UNCHANGED <<overlay, snaps, prev, stamp, clock>>
      BY <1>0, <1>8, <1>a DEF CaddyApply, DataTypes, Written
    <2>2. \A q \in Proc : pc'[q] \in InChain =>
            /\ req'[q] = req[q]
            /\ pc'[q] = pc[q] \/ (pc[q] \in Written /\ pc'[q] \in Written)
      BY <1>0, <1>8 DEF ControlTypes, CaddyApply, InChain, Written
    <2> QED
      BY <1>b, <2>1, <2>2, FilesAlone
  <1>9. ASSUME NEW p \in Proc, CaddyRefuse(p) PROVE ArchiveInv'
    <2>1. UNCHANGED <<overlay, snaps, prev, stamp, clock>>
      BY <1>0, <1>9, <1>a DEF CaddyRefuse, DataTypes, Written
    <2>2. \A q \in Proc : pc'[q] \in InChain =>
            /\ req'[q] = req[q]
            /\ pc'[q] = pc[q] \/ (pc[q] \in Written /\ pc'[q] \in Written)
      BY <1>0, <1>9 DEF ControlTypes, CaddyRefuse, InChain, Written
    <2> QED
      BY <1>b, <2>1, <2>2, FilesAlone
  <1>10. CASE Crash
    <2>1. \A q \in Proc : pc'[q] \in InChain => pc'[q] = pc[q]
      BY <1>10 DEF Crash, InChain, Written
    <2> QED
      BY <1>10, <1>b, <2>1, FilesAlone DEF Crash
  <1>11. CASE Tick \/ StepBack
    BY <1>11, <1>b, HorizonAssumption, FilesAlone DEF Tick, StepBack, Seconds
  <1>12. CASE UNCHANGED vars
    BY <1>12, <1>b, FilesAlone
  <1>13. ASSUME NEW p \in Proc, Lock(p) PROVE ArchiveInv'
    <2> DEFINE f == req[p].file
    <2>1. f \in File
      BY <1>a, <1>13 DEF Lock, CanLock
    <2>2. CASE Abandon(p) /\ UNCHANGED <<prev, target, snaps>>
      BY <1>13, <2>2, AbandonKeepsArchiveInv DEF Lock, CanLock
    <2>3. ASSUME lock' = p, prev' = [prev EXCEPT ![p] = overlay[f]],
                 Goto(p, "backup"), UNCHANGED disk
          PROVE  ArchiveInv'
      <3>1. UNCHANGED <<overlay, snaps, stamp, clock, req>>
        BY <1>13, <2>3 DEF Lock
      <3>2. \A q \in Proc : pc'[q] \in InChain => q = p /\ pc'[q] = "backup"
        BY <1>0, <1>13, <2>3, SentinelAssumption
        DEF ControlTypes, Exclusion, Lock, CanLock, InChain, Written
      <3>3. \A q \in Proc : pc[q] \notin InChain
        BY <1>0, <1>13, SentinelAssumption DEF Exclusion, Lock, CanLock
      <3>4. \A g \in File : Listed(g)' = Listed(g)
        BY <3>1, ListedStable
      <3>5. ArchiveInPast'
        BY <1>0, <3>1, <3>4 DEF ArchiveInPast
      <3>6. PrevIsCurrent'
        BY <1>0, <2>3, <3>1, <3>2 DEF PrevIsCurrent, DataTypes
      <3>7. FreshIsListed' /\ FreshIsNewest' /\ FreshIsKept' /\ LimitHeld'
        BY <3>2 DEF FreshIsListed, FreshIsNewest, FreshIsKept, LimitHeld, InChain, Written
      <3>8. NoArchiveYet'
        BY <1>0, <3>1, <3>2, <3>3, <3>4 DEF NoArchiveYet, InChain, Written
      <3> QED
        BY <3>5, <3>6, <3>7, <3>8 DEF ArchiveInv
    <2> QED
      BY <1>13, <2>2, <2>3 DEF Lock
  <1>14. ASSUME NEW p \in Proc, Backup(p) PROVE ArchiveInv'
    <2> DEFINE f == req[p].file
    <2>1. f \in File
      BY <1>a, <1>14 DEF Backup
    <2>2. CASE Abandon(p) /\ UNCHANGED <<stamp, snaps>>
      BY <1>14, <2>2, AbandonKeepsArchiveInv DEF Backup
    <2>3. ASSUME prev[p] = Absent, Goto(p, "mutate"), UNCHANGED <<stamp, disk>>
          PROVE  ArchiveInv'
      <3>1. UNCHANGED <<overlay, snaps, stamp, clock, req, prev>>
        BY <1>14, <2>3 DEF Backup
      <3>2. \A q \in Proc : pc'[q] \in InChain => q = p /\ pc'[q] = "mutate"
        BY <1>0, <1>14, <2>3 DEF ControlTypes, Exclusion, Backup, InChain, Written
      <3>3. \A q \in Proc : pc[q] \notin Written
        BY <1>0, <1>14 DEF Exclusion, Backup, InChain, Written
      <3>4. \A g \in File : Listed(g)' = Listed(g)
        BY <3>1, ListedStable
      <3>5. overlay[f] = Absent
        BY <1>0, <1>14, <2>3 DEF PrevIsCurrent, Backup, InChain, Written
      <3>6. Listed(f) = {}
        BY <1>0, <2>1, <3>3, <3>5 DEF NoArchiveYet
      <3>7. Cardinality(Listed(f)) <= Keep
        BY <3>6, FS_EmptySet, KeepAssumption
      <3>8. ArchiveInPast'
        BY <1>0, <3>1, <3>4 DEF ArchiveInPast
      <3>9. PrevIsCurrent' /\ FreshIsListed' /\ FreshIsNewest' /\ FreshIsKept'
        BY <2>3, <3>1, <3>2, <3>5
        DEF PrevIsCurrent, FreshIsListed, FreshIsNewest, FreshIsKept, InChain, Written
      <3>10. LimitHeld'
        BY <2>1, <3>1, <3>2, <3>4, <3>7 DEF LimitHeld, InChain, Written
      <3>11. NoArchiveYet'
        BY <1>0, <3>1, <3>2, <3>3, <3>4 DEF NoArchiveYet, InChain, Written
      <3> QED
        BY <3>8, <3>9, <3>10, <3>11 DEF ArchiveInv
    <2>4. ASSUME prev[p] # Absent, stamp' = [stamp EXCEPT ![p] = clock],
                 snaps' = [snaps EXCEPT ![f][clock] =
                             [rules |-> {}, torn |-> TRUE]],
                 Goto(p, "copy"), UNCHANGED <<overlay, history>>
          PROVE  ArchiveInv'
      <3>1. UNCHANGED <<overlay, clock, req, prev>>
        BY <1>14, <2>4 DEF Backup
      <3>2. \A q \in Proc : pc'[q] \in InChain => q = p /\ pc'[q] = "copy"
        BY <1>0, <1>14, <2>4 DEF ControlTypes, Exclusion, Backup, InChain, Written
      <3>3. \A q \in Proc : pc[q] \notin Written
        BY <1>0, <1>14 DEF Exclusion, Backup, InChain, Written
      <3>4. \A g \in File : Listed(g)' \subseteq Listed(g) \cup {clock}
        BY <1>0, <2>1, <2>4 DEF Listed, DataTypes
      <3>5. \A g \in File : g # f => Listed(g)' = Listed(g)
        BY <1>0, <2>1, <2>4 DEF Listed, DataTypes
      <3>6. overlay[f] = prev[p]
        BY <1>0, <1>14 DEF PrevIsCurrent, Backup, InChain, Written
      <3>7. ArchiveInPast'
        BY <1>0, <1>b, <3>1, <3>4 DEF ArchiveInPast
      <3>8. PrevIsCurrent' /\ FreshIsKept' /\ LimitHeld'
        BY <3>1, <3>2, <3>6 DEF PrevIsCurrent, FreshIsKept, LimitHeld, InChain, Written
      <3>9. stamp'[p] = clock
        BY <1>0, <2>4 DEF DataTypes
      <3>a. clock \in Listed(f)'
        BY <1>0, <2>1, <2>4, <3>1, BytesFacts DEF Listed, ControlTypes, DataTypes
      <3>10. FreshIsListed' /\ FreshIsNewest'
        BY <2>1, <2>4, <3>1, <3>2, <3>7, <3>9, <3>a
        DEF FreshIsListed, FreshIsNewest, ArchiveInPast, InChain, Written
      <3>11. NoArchiveYet'
        BY <1>0, <2>4, <3>1, <3>2, <3>3, <3>5, <3>6 DEF NoArchiveYet, InChain, Written
      <3> QED
        BY <3>7, <3>8, <3>10, <3>11 DEF ArchiveInv
    <2> QED
      BY <1>14, <2>2, <2>3, <2>4 DEF Backup
  <1>15. ASSUME NEW p \in Proc, CopyFile(p) PROVE ArchiveInv'
    <2> DEFINE f == req[p].file
    <2>1. f \in File
      BY <1>a, <1>15 DEF CopyFile
    <2>2. /\ overlay[f] = prev[p] /\ prev[p] # Absent /\ stamp[p] \in Listed(f)
          /\ "clock" \notin Faults => \A t \in Listed(f) : t <= stamp[p]
      BY <1>0, <1>15
      DEF PrevIsCurrent, FreshIsListed, FreshIsNewest, CopyFile, InChain, Written
    <2>3. UNCHANGED <<stamp, clock, req, prev>>
      BY <1>15 DEF CopyFile
    <2>4. \A q \in Proc : pc[q] \notin Written
      BY <1>0, <1>15 DEF Exclusion, CopyFile, InChain, Written
    <2>5. ASSUME NEW v \in Bytes, snaps' = [snaps EXCEPT ![f][stamp[p]] = v]
          PROVE  \A g \in File : Listed(g)' = Listed(g)
      BY <1>0, <2>1, <2>2, <2>5, BytesFacts DEF Listed, DataTypes
    <2>6. ASSUME snaps' = [snaps EXCEPT ![f][stamp[p]] = overlay[f]],
                 Goto(p, "retain"), UNCHANGED overlay
          PROVE  ArchiveInv'
      <3>1. overlay[f] \in Bytes
        BY <1>0, <2>1, <2>2, BytesFacts DEF DataTypes
      <3>2. \A g \in File : Listed(g)' = Listed(g)
        BY <2>5, <2>6, <3>1
      <3>3. \A q \in Proc : pc'[q] \in InChain => q = p /\ pc'[q] = "retain"
        BY <1>0, <1>15, <2>6 DEF ControlTypes, Exclusion, CopyFile, InChain, Written
      <3>4. snaps'[f][stamp[p]] = prev[p]
        BY <1>0, <2>1, <2>2, <2>6 DEF DataTypes
      <3>5. ArchiveInPast'
        BY <1>0, <2>3, <3>2 DEF ArchiveInPast
      <3>6. PrevIsCurrent'
        BY <2>2, <2>3, <2>6, <3>3 DEF PrevIsCurrent, InChain, Written
      <3>7. FreshIsListed' /\ FreshIsNewest'
        BY <2>1, <2>2, <2>3, <3>2, <3>3 DEF FreshIsListed, FreshIsNewest, InChain, Written
      <3>8. FreshIsKept'
        BY <2>3, <3>3, <3>4 DEF FreshIsKept, InChain, Written
      <3>9. LimitHeld'
        BY <3>3 DEF LimitHeld, InChain, Written
      <3>10. NoArchiveYet'
        BY <1>0, <2>4, <2>6, <3>2, <3>3 DEF NoArchiveYet, InChain, Written
      <3> QED
        BY <3>5, <3>6, <3>7, <3>8, <3>9, <3>10 DEF ArchiveInv
    <2>7. ASSUME NEW R \in SUBSET Parsed(overlay[f]),
                 snaps' = [snaps EXCEPT ![f][stamp[p]] = [rules |-> R, torn |-> TRUE]],
                 Abandon(p)
          PROVE  ArchiveInv'
      <3>1. [rules |-> R, torn |-> TRUE] \in Bytes
        BY <1>0, <2>1, ParsedIsRules, BytesFacts DEF DataTypes
      <3>2. \A g \in File : Listed(g)' = Listed(g)
        BY <2>5, <2>7, <3>1
      <3>3. \A q \in Proc : pc'[q] \notin InChain
        BY <1>0, <1>15, <2>7
        DEF ControlTypes, Exclusion, CopyFile, Abandon, Leave, Answer, InChain, Written
      <3>4. overlay' = overlay
        BY <1>0, <2>1, <2>7 DEF Abandon, Leave, DataTypes
      <3>5. ArchiveInPast'
        BY <1>0, <2>3, <3>2 DEF ArchiveInPast
      <3>6. PrevIsCurrent' /\ FreshIsListed' /\ FreshIsNewest' /\ FreshIsKept' /\ LimitHeld'
        BY <3>3
        DEF PrevIsCurrent, FreshIsListed, FreshIsNewest, FreshIsKept, LimitHeld, InChain, Written
      <3>7. NoArchiveYet'
        BY <1>0, <2>4, <3>2, <3>3, <3>4 DEF NoArchiveYet, InChain, Written
      <3> QED
        BY <3>5, <3>6, <3>7 DEF ArchiveInv
    <2> QED
      BY <1>15, <2>6, <2>7 DEF CopyFile
  <1>16. ASSUME NEW p \in Proc, EnforceRetention(p) PROVE ArchiveInv'
    <2> DEFINE f == req[p].file
    <2>1. f \in File
      BY <1>a, <1>16 DEF EnforceRetention
    <2>2. /\ overlay[f] = prev[p] /\ prev[p] # Absent
          /\ "clock" \notin Faults => \A t \in Listed(f) : t <= stamp[p]
          /\ snaps[f][stamp[p]] = prev[p] \/ Outnumbered(p)
      BY <1>0, <1>16
      DEF PrevIsCurrent, FreshIsListed, FreshIsNewest, FreshIsKept, EnforceRetention,
          InChain, Written
    <2>3. UNCHANGED <<stamp, clock, req, prev>>
      BY <1>16 DEF EnforceRetention
    <2>4. \A q \in Proc : pc[q] \in InChain => q = p /\ pc[q] = "retain"
      BY <1>0, <1>16 DEF Exclusion, EnforceRetention, InChain, Written
    <2>5. CASE Abandon(p) /\ UNCHANGED snaps
      BY <1>16, <2>3, <2>5, AbandonKeepsArchiveInv DEF EnforceRetention
    <2>6. ASSUME WithinLimit(f), Goto(p, "mutate"), UNCHANGED disk PROVE ArchiveInv'
      <3>1. \A g \in File : Listed(g)' = Listed(g)
        BY <2>6, ListedStable
      <3>2. \A q \in Proc : pc'[q] \in InChain => q = p /\ pc'[q] = "mutate"
        BY <1>0, <1>16, <2>4, <2>6 DEF ControlTypes, EnforceRetention, InChain, Written
      <3>3. ArchiveInPast'
        BY <1>0, <2>3, <3>1 DEF ArchiveInPast
      <3>4. PrevIsCurrent' /\ FreshIsListed' /\ FreshIsNewest'
        BY <2>1, <2>2, <2>3, <2>6, <3>1, <3>2
        DEF PrevIsCurrent, FreshIsListed, FreshIsNewest, InChain, Written
      <3>a. FreshIsKept'
        BY <2>2, <2>3, <2>6, <3>2, OutnumberedStable DEF FreshIsKept, InChain, Written
      <3>5. LimitHeld'
        BY <2>1, <2>3, <2>6, <3>1, <3>2 DEF LimitHeld, WithinLimit, InChain, Written
      <3>6. NoArchiveYet'
        BY <1>0, <2>4, <2>6, <3>1, <3>2 DEF NoArchiveYet, InChain, Written
      <3> QED
        BY <3>3, <3>4, <3>a, <3>5, <3>6 DEF ArchiveInv
    <2>7. ASSUME ~WithinLimit(f),
                 snaps' = [snaps EXCEPT ![f][Oldest(Listed(f))] = Absent],
                 UNCHANGED <<pc, overlay>>
          PROVE  ArchiveInv'
      <3> DEFINE o == Oldest(Listed(f))
      <3>1. /\ o \in Listed(f) /\ \A u \in Listed(f) : o <= u
            /\ Cardinality(Listed(f) \ {o}) >= Keep
        BY <2>1, <2>7, RemovalLeavesKeep
      <3>2. \A g \in File : Listed(g)' \subseteq Listed(g)
        BY <1>0, <2>1, <2>7 DEF Listed, DataTypes
      <3>3. Listed(f)' = Listed(f) \ {o}
        BY <1>0, <2>1, <2>3, <2>7, <3>1 DEF Listed, DataTypes
      <3>4. Listed(f) \subseteq Int /\ stamp[p] \in Int /\ o \in Int
        BY <1>0, <3>1, HorizonAssumption DEF DataTypes, Listed, Seconds
      <3>5. ArchiveInPast'
        BY <1>0, <2>3, <3>2 DEF ArchiveInPast
      <3>6. PrevIsCurrent'
        BY <2>2, <2>3, <2>4, <2>7 DEF PrevIsCurrent, InChain, Written
      <3>7. FreshIsListed' /\ FreshIsNewest'
        BY <2>1, <2>2, <2>3, <2>4, <2>7, <3>2 DEF FreshIsListed, FreshIsNewest, InChain, Written
      <3>a. snaps'[f][stamp[p]] = prev[p] \/ Outnumbered(p)'
        <4>1. CASE o > stamp[p] \/ o = stamp[p]
          <5>1. \A t \in Listed(f) \ {o} : stamp[p] < t
            BY <3>1, <3>4, <4>1
          <5>2. {t \in Listed(f)' : stamp[p] < t} = Listed(f) \ {o}
            BY <3>3, <5>1
          <5> QED
            BY <2>3, <3>1, <5>2 DEF Outnumbered
        <4>2. CASE o < stamp[p]
          <5>1. CASE snaps[f][stamp[p]] = prev[p]
            BY <1>0, <2>1, <2>7, <3>4, <4>2, <5>1 DEF DataTypes
          <5>2. CASE Outnumbered(p)
            <6>1. {t \in Listed(f)' : stamp[p] < t} = {t \in Listed(f) : stamp[p] < t}
              BY <3>3, <3>4, <4>2
            <6> QED
              BY <2>3, <5>2, <6>1 DEF Outnumbered
          <5> QED
            BY <2>2, <5>1, <5>2
        <4> QED
          BY <3>4, <4>1, <4>2
      <3>b. FreshIsKept'
        BY <2>2, <2>3, <2>4, <2>7, <3>a DEF FreshIsKept, InChain, Written
      <3>8. LimitHeld'
        BY <2>4, <2>7 DEF LimitHeld, InChain, Written
      <3>9. NoArchiveYet'
        <4>1. \A q \in Proc : pc[q] \notin Written
          BY <2>4 DEF InChain, Written
        <4>2. \A g \in File : overlay[g] = Absent => Listed(g)' = {}
          BY <1>0, <3>2, <4>1 DEF NoArchiveYet
        <4> QED
          BY <2>7, <4>1, <4>2 DEF NoArchiveYet
      <3> QED
        BY <3>5, <3>6, <3>7, <3>b, <3>8, <3>9 DEF ArchiveInv
    <2> QED
      BY <1>16, <2>5, <2>6, <2>7 DEF EnforceRetention
  <1>17. ASSUME NEW p \in Proc, Mutate(p) PROVE ArchiveInv'
    <2> DEFINE f == req[p].file
    <2>1. f \in File
      BY <1>a, <1>17 DEF Mutate
    <2>2. overlay[f] = prev[p] /\ Cardinality(Listed(f)) <= Keep
      BY <1>0, <1>17 DEF PrevIsCurrent, LimitHeld, Mutate, InChain, Written
    <2>3. UNCHANGED <<stamp, clock, req, prev, snaps>>
      BY <1>17 DEF Mutate
    <2>4. \A q \in Proc : pc[q] \in InChain => q = p /\ pc[q] = "mutate"
      BY <1>0, <1>17 DEF Exclusion, Mutate, InChain, Written
    <2>5. CASE Abandon(p)
      BY <1>17, <2>3, <2>5, AbandonKeepsArchiveInv DEF Mutate
    <2>6. ASSUME overlay' = [overlay EXCEPT ![f] = Mutation(p)], Goto(p, "load")
          PROVE  ArchiveInv'
      <3>1. \A g \in File : Listed(g)' = Listed(g)
        BY <2>3, ListedStable
      <3>2. \A q \in Proc : pc'[q] \in InChain => q = p /\ pc'[q] = "load"
        BY <1>0, <1>17, <2>4, <2>6 DEF ControlTypes, Mutate, InChain, Written
      <3>3. pc'[p] \in Written
        BY <1>0, <2>6 DEF ControlTypes, Written
      <3>4. prev[p] = Absent => Listed(f) = {}
        BY <1>0, <2>1, <2>2, <2>4 DEF NoArchiveYet, InChain, Written
      <3>5. prev[p] # Absent => snaps[f][stamp[p]] = prev[p] \/ Outnumbered(p)
        BY <1>0, <1>17 DEF FreshIsKept, Mutate
      <3>6. ArchiveInPast'
        BY <1>0, <2>3, <3>1 DEF ArchiveInPast
      <3>a. "clock" \notin Faults /\ prev[p] # Absent => \A t \in Listed(f) : t <= stamp[p]
        BY <1>0, <1>17 DEF FreshIsNewest, Mutate
      <3>7. PrevIsCurrent' /\ FreshIsListed' /\ FreshIsNewest'
        BY <2>1, <2>3, <3>1, <3>2, <3>a
        DEF PrevIsCurrent, FreshIsListed, FreshIsNewest, InChain, Written
      <3>8. FreshIsKept'
        BY <2>3, <3>2, <3>5, OutnumberedStable DEF FreshIsKept, InChain, Written
      <3>9. LimitHeld'
        BY <2>1, <2>2, <2>3, <3>1, <3>2 DEF LimitHeld, InChain, Written
      <3>10. NoArchiveYet'
        <4>1. ASSUME NEW g \in File, overlay'[g] = Absent,
                     \A q \in Proc : pc'[q] \in Written => req'[q].file # g
              PROVE  Listed(g) = {}
          <5>1. g # f
            BY <2>3, <3>3, <4>1
          <5>2. overlay[g] = Absent
            BY <1>0, <2>6, <4>1, <5>1 DEF DataTypes
          <5>3. \A q \in Proc : pc[q] \notin Written
            BY <2>4 DEF InChain, Written
          <5> QED
            BY <1>0, <5>2, <5>3 DEF NoArchiveYet
        <4>2. ASSUME NEW q \in Proc, pc'[q] \in Written, prev'[q] = Absent
              PROVE  Listed(req[q].file)' = {}
          BY <2>1, <2>3, <3>1, <3>2, <3>4, <4>2 DEF InChain
        <4> QED
          BY <3>1, <4>1, <4>2 DEF NoArchiveYet
      <3> QED
        BY <3>6, <3>7, <3>8, <3>9, <3>10 DEF ArchiveInv
    <2> QED
      BY <1>17, <2>5, <2>6 DEF Mutate
  <1>18. ASSUME NEW p \in Proc, RestoreState(p) PROVE ArchiveInv'
    <2> DEFINE f == req[p].file
    <2>1. f \in File
      BY <1>a, <1>18 DEF RestoreState
    <2>2. UNCHANGED <<stamp, clock, req, prev, snaps>>
      BY <1>18 DEF RestoreState
    <2>3. \A q \in Proc : pc[q] \in InChain => q = p
      BY <1>0, <1>18 DEF Exclusion, RestoreState, InChain, Written
    <2>4. \A q \in Proc : pc'[q] \notin InChain
      BY <1>0, <1>18, <2>3
      DEF ControlTypes, RestoreState, Leave, Answer, InChain, Written
    <2>5. \A g \in File : Listed(g)' = Listed(g)
      BY <2>2, ListedStable
    <2>6. ArchiveInPast'
      BY <1>0, <2>2, <2>5 DEF ArchiveInPast
    <2>7. PrevIsCurrent' /\ FreshIsListed' /\ FreshIsNewest' /\ FreshIsKept' /\ LimitHeld'
      BY <2>4
      DEF PrevIsCurrent, FreshIsListed, FreshIsNewest, FreshIsKept, LimitHeld, InChain, Written
    <2>8. NoArchiveYet'
      <3>1. ASSUME NEW g \in File, overlay'[g] = Absent PROVE Listed(g) = {}
        <4>1. CASE g # f
          <5>1. overlay[g] = Absent
            BY <1>0, <1>18, <3>1, <4>1 DEF DataTypes, RestoreState, Leave
          <5>2. \A q \in Proc : pc[q] \in Written => req[q].file # g
            BY <2>3, <4>1 DEF InChain
          <5> QED
            BY <1>0, <5>1, <5>2 DEF NoArchiveYet
        <4>2. CASE g = f
          <5>1. overlay[f] # Absent
            BY <1>0, <1>18, BytesFacts DEF WrittenExists, RestoreState, Written
          <5>2. overlay'[f] \in {prev[p], overlay[f]}
            BY <1>0, <1>18, <2>1 DEF DataTypes, RestoreState, Restored, Leave
          <5>3. prev[p] = Absent
            BY <3>1, <4>2, <5>1, <5>2
          <5> QED
            BY <1>0, <1>18, <4>2, <5>3 DEF NoArchiveYet, RestoreState, Written
        <4> QED
          BY <4>1, <4>2
      <3> QED
        BY <2>4, <2>5, <3>1 DEF NoArchiveYet, InChain
    <2> QED
      BY <2>6, <2>7, <2>8 DEF ArchiveInv
  <1> QED
    BY <1>1, <1>2, <1>3, <1>4, <1>5, <1>6, <1>7, <1>8, <1>9, <1>10, <1>11, <1>12, <1>13, <1>14, <1>15, <1>16, <1>17, <1>18 DEF Next, Handle, Caddy

LEMMA ArchiveInvariant == Spec => [](TypeOK /\ ArchiveInv)
  BY InitTypeOK, NextTypeOK, InitArchiveInv, NextArchiveInv, PTL DEF Spec

\* While a change is written and not settled, what it replaced is complete in a
\* snapshot of that file (runChain backs up before it mutates, and
\* enforceRetention removes the snapshot Backup has just made only when Keep
\* names come after it, which takes a clock that was set back).
THEOREM SnapshotTaken == Spec => []SnapshotBeforeWrite
  <1>1. TypeOK /\ ArchiveInv => SnapshotBeforeWrite
    <2> SUFFICES ASSUME TypeOK, ArchiveInv, NEW p \in Proc,
                        pc[p] \in Written, prev[p] # Absent
                 PROVE  \/ \E t \in Listed(req[p].file) :
                             snaps[req[p].file][t] = prev[p]
                        \/ "clock" \in Faults /\ Outnumbered(p)
      BY DEF SnapshotBeforeWrite
    <2>1. snaps[req[p].file][stamp[p]] = prev[p] \/ Outnumbered(p)
      BY DEF ArchiveInv, FreshIsKept
    <2>2. stamp[p] \in Seconds
      BY DEF TypeOK, DataTypes
    <2>3. "clock" \notin Faults => ~Outnumbered(p)
      <3> SUFFICES ASSUME "clock" \notin Faults PROVE ~Outnumbered(p)
        OBVIOUS
      <3>1. \A t \in Listed(req[p].file) : t <= stamp[p] /\ t \in Int /\ stamp[p] \in Int
        BY <2>2, HorizonAssumption DEF ArchiveInv, FreshIsNewest, Listed, Seconds
      <3>2. {t \in Listed(req[p].file) : stamp[p] < t} = {}
        BY <3>1
      <3> QED
        BY <3>2, FS_EmptySet, KeepAssumption DEF Outnumbered
    <2> QED
      BY <2>1, <2>2, <2>3 DEF Listed
  <1> QED
    BY <1>1, ArchiveInvariant, PTL

\* No change is written while its file has more than CADDY_UI_BACKUP_KEEP
\* snapshots, whatever removals failed before.
THEOREM ArchiveBounded == Spec => []ArchiveWithinLimit
  <1>1. ArchiveInv => ArchiveWithinLimit
    BY DEF ArchiveInv, LimitHeld, ArchiveWithinLimit
  <1> QED
    BY <1>1, ArchiveInvariant, PTL

\* A file that does not exist has no snapshots, so the early return of Backup
\* never skips a retention that was due.
THEOREM AbsentWithoutArchive == Spec => []AbsentHasNoArchive
  <1>1. TypeOK /\ ArchiveInv => AbsentHasNoArchive
    BY SentinelAssumption
    DEF TypeOK, Exclusion, ArchiveInv, NoArchiveYet, AbsentHasNoArchive, InChain
  <1> QED
    BY <1>1, ArchiveInvariant, PTL
=============================================================================

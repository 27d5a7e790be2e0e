------------------------------- MODULE Chain -------------------------------
(***************************************************************************)
(* The mutation chain of caddy-waf-ui: what a request that changes the     *)
(* configuration of a site does, from the handler to the answer.           *)
(*                                                                         *)
(*   form read -> chainMu -> previous state -> snapshot -> retention ->    *)
(*   write overlay -> POST /load -> read-back -> (on failure) restore      *)
(*                                                                         *)
(* A File is one managed overlay ({type}-{slug}.conf), together with the   *)
(* snapshots of its type in /backups/{slug}/.  The bytes of a file are     *)
(* abstracted to the set of rules they declare and to whether they are a   *)
(* torn copy (a snapshot whose copy did not complete).                     *)
(***************************************************************************)
EXTENDS Integers, FiniteSets

CONSTANTS
    Proc,      \* requests served over the life of the model
    NoProc,    \* "nobody holds chainMu"
    File,      \* managed overlays
    Rules,     \* what an overlay can declare: mode, exclusions, IP entries
    Requests,  \* the requests a client may send
    NoReq,     \* a request that has not been sent yet
    Absent,    \* a file or snapshot that does not exist
    Keep,      \* CADDY_UI_BACKUP_KEEP
    Horizon,   \* bound on the clock, in seconds
    Faults     \* the failures the environment may produce

Seconds == 0..Horizon

Bytes == [rules : SUBSET Rules, torn : BOOLEAN]
Whole(R) == [rules |-> R, torn |-> FALSE]
Value == Bytes \cup {Absent}

\* What the four entries of the service layer receive: "set" replaces the
\* overlay (REST PUT, mode form), "add" merges one rule (exclusion and IP rule
\* forms), "rollback" names a snapshot of the file's type.  valid is the verdict
\* of the checks made before the chain starts (ValidateDomain, mode, exclusions,
\* IP entries, snapshot name).
Request == [op : {"set", "add", "rollback"}, file : File,
            rules : SUBSET Rules, id : Seconds, valid : BOOLEAN]

\* io       a disk operation of the form read, backup or write fails
\* reject   Caddy answers POST /load with an error, or cannot be reached
\* timeout  the 10 s client timeout expires
\* late     Caddy completes a load whose client has gone
\* readback the post-reload verification fails
\* restore  restoring the previous overlay fails
\* crash    the process is killed and restarted
\* clock    the clock is set back
FaultKinds ==
    {"io", "reject", "timeout", "late", "readback", "restore", "crash", "clock"}

ASSUME KeepAssumption == Keep \in Nat \ {0}
ASSUME HorizonAssumption == Horizon \in Nat
ASSUME RequestsAssumption == Requests \subseteq Request
ASSUME FaultsAssumption == Faults \subseteq FaultKinds
ASSUME SentinelAssumption ==
    NoProc \notin Proc /\ NoReq \notin Requests /\ Absent \notin Bytes

VARIABLES
    pc,       \* where each request is
    req,      \* what each request asks for
    result,   \* what each request was answered
    base,     \* the rules a form handler read before entering the chain
    lock,     \* the holder of chainMu
    prev,     \* previous, existed of readPreviousState
    stamp,    \* the timestamp Backup put in the snapshot name
    overlay,  \* the managed overlays on disk
    snaps,    \* the snapshots on disk, by timestamp
    clock,    \* time.Now(), in the one-second resolution of a snapshot name
    badge,    \* lastReadback: "none" (zero value), "ok" or "bad"
    live,     \* the overlays Caddy is serving
    call,     \* Caddy's progress on the POST /load of each request
    adapted,  \* the overlays Caddy read when it adapted that load
    target,   \* auxiliary: the chosen snapshot when a rollback got the lock
    history   \* auxiliary: every state in which a chain has left a file

handler == <<req, result, base, prev, stamp, target>>
disk    == <<overlay, snaps, history>>
caddy   == <<live, call, adapted>>
vars    == <<pc, handler, lock, disk, clock, badge, caddy>>

\* Steps of runChain, in order; the overlay is ahead of prev in Written.
Written == {"load", "await", "verify", "restore"}
InChain == {"backup", "copy", "retain", "mutate"} \cup Written
Steps   == {"idle", "form", "lock", "done"} \cup InChain

Init ==
    /\ pc = [p \in Proc |-> "idle"]
    /\ req = [p \in Proc |-> NoReq]
    /\ result = [p \in Proc |-> "none"]
    /\ base = [p \in Proc |-> {}]
    /\ lock = NoProc
    /\ prev = [p \in Proc |-> Absent]
    /\ stamp = [p \in Proc |-> 0]
    /\ overlay \in [File -> {Absent, Whole({})}]
    /\ snaps = [f \in File |-> [t \in Seconds |-> Absent]]
    /\ clock = 0
    /\ badge = "none"
    /\ live = overlay
    /\ call = [p \in Proc |-> "none"]
    /\ adapted = [p \in Proc |-> overlay]
    /\ target = [p \in Proc |-> Absent]
    /\ history = [f \in File |-> {overlay[f]}]

-----------------------------------------------------------------------------
(* What the operators of the files package compute.                        *)

\* ListBackups: the snapshots of a file.
Listed(f) == {t \in Seconds : snaps[f][t] # Absent}

\* Mutant: the sort of enforceRetention the wrong way round.
NewestFirst(S) == CHOOSE t \in S : \A u \in S : t >= u

\* The first name in the chronological order of enforceRetention.
Oldest(S) == CHOOSE t \in S : \A u \in S : t <= u

\* Mutant: the limit of enforceRetention off by one.
WithinLimitPlusOne(f) == Cardinality(Listed(f)) <= Keep + 1

WithinLimit(f) == Cardinality(Listed(f)) <= Keep

\* What readExclusions and readIPRules make of an overlay.
Parsed(v) == IF v = Absent THEN {} ELSE v.rules

\* Mutant: a rollback that restores the snapshot Backup has just taken.
MutationOfFresh(p) ==
    CASE req[p].op = "set"      -> Whole(req[p].rules)
      [] req[p].op = "add"      -> Whole(base[p] \cup req[p].rules)
      [] req[p].op = "rollback" -> snaps[req[p].file][stamp[p]]

\* The bytes the mutate step of p writes: the request's rules, the merged list
\* of a form, or the chosen snapshot.
Mutation(p) ==
    CASE req[p].op = "set"      -> Whole(req[p].rules)
      [] req[p].op = "add"      -> Whole(base[p] \cup req[p].rules)
      [] req[p].op = "rollback" -> snaps[req[p].file][req[p].id]

\* Mutant: a missing snapshot is not an error.
CanAlwaysMutate(p) == TRUE

\* RestoreBackup fails when the snapshot is gone.
CanMutate(p) ==
    req[p].op = "rollback" => req[p].id \in Listed(req[p].file)

\* Mutant: chainMu is not taken.
EnterUnlocked(p) == pc[p] = "lock"

\* chainMu.Lock can return.
CanLock(p) == pc[p] = "lock" /\ lock = NoProc

\* Mutant: the overlay is removed although it existed.
RestoredAsRemoved(p) == Absent

\* Mutant: the overlay is left as the chain wrote it.
RestoredAsWritten(p) == overlay[req[p].file]

\* What restoreState puts back: the previous bytes, or no file if there was none.
Restored(p) == prev[p]

Goto(p, step) == pc' = [pc EXCEPT ![p] = step]

Answer(p, res) ==
    /\ Goto(p, "done")
    /\ result' = [result EXCEPT ![p] = res]

\* Leaving runChain: the deferred Unlock and the answer, the file left as v.
Leave(p, res, v) ==
    /\ Answer(p, res)
    /\ lock' = NoProc
    /\ overlay' = [overlay EXCEPT ![req[p].file] = v]
    /\ history' = [history EXCEPT ![req[p].file] = @ \cup {v}]

\* A failure that leaves the overlay alone: audit, return, unlock.
Abandon(p) == Leave(p, "failed", overlay[req[p].file])

-----------------------------------------------------------------------------
(* The handlers, up to the chain.                                          *)

\* ValidateDomain and the checks of mode, exclusions, IP entries and snapshot
\* name, all made before the chain starts.
Accepted(r) == r.valid

\* A request arrives; an "add" form reads the overlay before it is validated.
Arrive(p) ==
    /\ pc[p] = "idle"
    /\ \E r \in Requests :
         /\ req' = [req EXCEPT ![p] = r]
         /\ \/ /\ r.op = "add"
               /\ Goto(p, "form")
               /\ UNCHANGED result
            \/ /\ r.op # "add" /\ Accepted(r)
               /\ Goto(p, "lock")
               /\ UNCHANGED result
            \/ /\ r.op # "add" /\ ~Accepted(r)
               /\ Answer(p, "failed")
    /\ UNCHANGED <<base, prev, stamp, target, lock, disk, clock, badge, caddy>>

\* The form handlers read the current rules outside chainMu.
ReadForm(p) ==
    /\ pc[p] = "form"
    /\ \/ /\ Accepted(req[p])
          /\ base' = [base EXCEPT ![p] = Parsed(overlay[req[p].file])]
          /\ Goto(p, "lock")
          /\ UNCHANGED result
       \/ /\ ~Accepted(req[p]) \/ "io" \in Faults
          /\ Answer(p, "failed")
          /\ UNCHANGED base
    /\ UNCHANGED <<req, prev, stamp, target, lock, disk, clock, badge, caddy>>

\* chainMu.Lock and readPreviousState.
Lock(p) ==
    /\ CanLock(p)
    /\ \/ /\ lock' = p
          /\ prev' = [prev EXCEPT ![p] = overlay[req[p].file]]
          /\ target' = [target EXCEPT ![p] =
                IF req[p].op = "rollback"
                THEN snaps[req[p].file][req[p].id] ELSE Absent]
          /\ Goto(p, "backup")
          /\ UNCHANGED <<result, disk>>
       \/ /\ "io" \in Faults
          /\ Abandon(p)
          /\ UNCHANGED <<prev, target, snaps>>
    /\ UNCHANGED <<req, base, stamp, clock, badge, caddy>>

-----------------------------------------------------------------------------
(* files.Backup.                                                           *)

\* Nothing to back up the first time; otherwise os.Create makes, or truncates,
\* the snapshot named after the current second.
Backup(p) ==
    /\ pc[p] = "backup"
    /\ \/ /\ prev[p] = Absent
          /\ Goto(p, "mutate")
          /\ UNCHANGED <<stamp, result, lock, disk>>
       \/ /\ prev[p] # Absent
          /\ stamp' = [stamp EXCEPT ![p] = clock]
          /\ snaps' = [snaps EXCEPT ![req[p].file][clock] =
                         [rules |-> {}, torn |-> TRUE]]
          /\ Goto(p, "copy")
          /\ UNCHANGED <<result, lock, overlay, history>>
       \/ /\ "io" \in Faults
          /\ Abandon(p)
          /\ UNCHANGED <<stamp, snaps>>
    /\ UNCHANGED <<req, base, prev, target, clock, badge, caddy>>

\* io.Copy; an error leaves the prefix that was copied under the final name.
CopyFile(p) ==
    /\ pc[p] = "copy"
    /\ LET f == req[p].file IN
       \/ /\ snaps' = [snaps EXCEPT ![f][stamp[p]] = overlay[f]]
          /\ Goto(p, "retain")
          /\ UNCHANGED <<result, lock, overlay, history>>
       \/ /\ "io" \in Faults
          /\ \E R \in SUBSET Parsed(overlay[f]) :
               snaps' = [snaps EXCEPT ![f][stamp[p]] =
                           [rules |-> R, torn |-> TRUE]]
          /\ Abandon(p)
    /\ UNCHANGED <<req, base, prev, stamp, target, clock, badge, caddy>>

\* enforceRetention: remove the oldest snapshot of this type, one by one.
EnforceRetention(p) ==
    /\ pc[p] = "retain"
    /\ LET f == req[p].file IN
       \/ /\ WithinLimit(f)
          /\ Goto(p, "mutate")
          /\ UNCHANGED <<result, lock, disk>>
       \/ /\ ~WithinLimit(f)
          /\ snaps' = [snaps EXCEPT ![f][Oldest(Listed(f))] = Absent]
          /\ UNCHANGED <<pc, result, lock, overlay, history>>
       \/ /\ "io" \in Faults
          /\ Abandon(p)
          /\ UNCHANGED snaps
    /\ UNCHANGED <<req, base, prev, stamp, target, clock, badge, caddy>>

-----------------------------------------------------------------------------
(* The write and caddy.Reload.                                             *)

\* opts.mutate: generate + AtomicWrite, or RestoreBackup.  The rename is atomic,
\* so a failure leaves the overlay as it was and the chain does not restore.
Mutate(p) ==
    /\ pc[p] = "mutate"
    /\ \/ /\ CanMutate(p)
          /\ overlay' = [overlay EXCEPT ![req[p].file] = Mutation(p)]
          /\ Goto(p, "load")
          /\ UNCHANGED <<result, lock, history>>
       \/ /\ ~CanMutate(p) \/ "io" \in Faults
          /\ Abandon(p)
    /\ UNCHANGED <<req, base, prev, stamp, target, snaps, clock, badge, caddy>>

\* Mutant: a failure exit of Reload that forgets setReadback.
ReloadFailsSilently(p) ==
    /\ UNCHANGED badge
    /\ Goto(p, "restore")

\* A failure exit of Reload: setReadback(OK: false) and back to runChain.
ReloadFails(p) ==
    /\ badge' = "bad"
    /\ Goto(p, "restore")

\* POST /load, unless the admin URL or the Caddyfile is unusable or nobody
\* answers.
PostLoad(p) ==
    /\ pc[p] = "load"
    /\ \/ /\ call' = [call EXCEPT ![p] = "sent"]
          /\ Goto(p, "await")
          /\ UNCHANGED badge
       \/ /\ "reject" \in Faults
          /\ ReloadFails(p)
          /\ UNCHANGED call
    /\ UNCHANGED <<handler, lock, disk, clock, live, adapted>>

\* The answer to POST /load.
LoadAnswered(p) ==
    /\ pc[p] = "await"
    /\ \/ /\ call[p] = "applied"
          /\ Goto(p, "verify")
          /\ UNCHANGED badge
       \/ /\ call[p] = "refused"
          /\ ReloadFails(p)
    /\ UNCHANGED <<handler, lock, disk, clock, caddy>>

\* What becomes of a load whose client has gone.
Orphaned(c) ==
    IF "late" \in Faults \/ c \notin {"sent", "adapted"} THEN c ELSE "refused"

\* Mutant: an admin client without a timeout.
NoLoadTimeout(p) == FALSE

\* The client gives up after 10 s, whatever Caddy has done so far.
LoadTimeout(p) ==
    /\ "timeout" \in Faults
    /\ pc[p] = "await"
    /\ ReloadFails(p)
    /\ call' = [call EXCEPT ![p] = Orphaned(@)]
    /\ UNCHANGED <<handler, lock, disk, clock, live, adapted>>

\* fetchLiveHosts and the comparison with the hosts of the Caddyfile.  Those
\* hosts do not depend on the overlays, so the verdict does not either.
ReadBack(p) ==
    /\ pc[p] = "verify"
    /\ \/ /\ badge' = "ok"
          /\ Leave(p, "ok", overlay[req[p].file])
       \/ /\ "readback" \in Faults
          /\ ReloadFails(p)
          /\ UNCHANGED <<result, lock, overlay, history>>
    /\ UNCHANGED <<req, base, prev, stamp, target, snaps, clock, caddy>>

\* restoreState, the audit event of the reload failure, return.
RestoreState(p) ==
    /\ pc[p] = "restore"
    /\ \/ Leave(p, "failed", Restored(p))
       \/ /\ "restore" \in Faults
          /\ Leave(p, "unclear", overlay[req[p].file])
    /\ UNCHANGED <<req, base, prev, stamp, target, snaps, clock, badge, caddy>>

-----------------------------------------------------------------------------
(* Caddy (external): it adapts the Caddyfile, which reads the imported       *)
(* overlays, and then applies what it adapted; either can fail.              *)

CaddyAdapt(p) ==
    /\ call[p] = "sent"
    /\ call' = [call EXCEPT ![p] = "adapted"]
    /\ adapted' = [adapted EXCEPT ![p] = overlay]
    /\ UNCHANGED <<pc, handler, lock, disk, clock, badge, live>>

\* A load that is applied when nobody awaits it any more is a late one.
CaddyApply(p) ==
    /\ call[p] = "adapted"
    /\ call' = [call EXCEPT ![p] = IF pc[p] = "await" THEN "applied" ELSE "late"]
    /\ live' = adapted[p]
    /\ UNCHANGED <<pc, handler, lock, disk, clock, badge, adapted>>

CaddyRefuse(p) ==
    /\ "reject" \in Faults
    /\ call[p] \in {"sent", "adapted"}
    /\ call' = [call EXCEPT ![p] = "refused"]
    /\ UNCHANGED <<pc, handler, lock, disk, clock, badge, live, adapted>>

-----------------------------------------------------------------------------
(* The process and time.                                                   *)

\* Killed and restarted: every request in progress is cut off, chainMu and
\* lastReadback go back to their zero values, the files stay as they are.
Crash ==
    /\ "crash" \in Faults
    /\ \E p \in Proc : pc[p] \notin {"idle", "done"}
    /\ LET cut == {p \in Proc : pc[p] \notin {"idle", "done"}} IN
       /\ pc' = [p \in Proc |-> IF p \in cut THEN "done" ELSE pc[p]]
       /\ result' = [p \in Proc |-> IF p \in cut THEN "killed" ELSE result[p]]
       /\ call' = [p \in Proc |->
                     IF p \in cut THEN Orphaned(call[p]) ELSE call[p]]
    /\ lock' = NoProc
    /\ badge' = "none"
    /\ history' = [f \in File |-> history[f] \cup {overlay[f]}]
    /\ UNCHANGED <<req, base, prev, stamp, target, overlay, snaps, clock,
                   live, adapted>>

Tick ==
    /\ clock < Horizon
    /\ clock' = clock + 1
    /\ UNCHANGED <<pc, handler, lock, disk, badge, caddy>>

\* The clock is corrected; the names of the snapshots stay as they are.
StepBack ==
    /\ "clock" \in Faults
    /\ clock' \in {t \in Seconds : t < clock}
    /\ UNCHANGED <<pc, handler, lock, disk, badge, caddy>>

-----------------------------------------------------------------------------
Handle(p) ==
    \/ Arrive(p) \/ ReadForm(p) \/ Lock(p)
    \/ Backup(p) \/ CopyFile(p) \/ EnforceRetention(p)
    \/ Mutate(p) \/ PostLoad(p) \/ LoadAnswered(p) \/ LoadTimeout(p)
    \/ ReadBack(p) \/ RestoreState(p)

Caddy(p) == CaddyAdapt(p) \/ CaddyApply(p) \/ CaddyRefuse(p)

Next ==
    \/ \E p \in Proc : Handle(p) \/ Caddy(p)
    \/ Crash
    \/ Tick
    \/ StepBack

Spec == Init /\ [][Next]_vars

\* The scheduler runs every request that can run, a released mutex is handed to
\* a waiter, and the client timeout fires; nothing is assumed of Caddy.
Fairness ==
    \A p \in Proc :
      /\ WF_vars(Handle(p) /\ pc[p] # "idle")

FairSpec == Spec /\ Fairness
-----------------------------------------------------------------------------
(* Properties.                                                             *)

ControlTypes ==
    /\ pc \in [Proc -> Steps]
    /\ req \in [Proc -> Requests \cup {NoReq}]
    /\ result \in [Proc -> {"none", "ok", "failed", "unclear", "killed"}]
    /\ lock \in Proc \cup {NoProc}
    /\ clock \in Seconds
    /\ badge \in {"none", "ok", "bad"}
    /\ call \in [Proc -> {"none", "sent", "adapted", "applied", "late", "refused"}]

DataTypes ==
    /\ base \in [Proc -> SUBSET Rules]
    /\ prev \in [Proc -> Value]
    /\ stamp \in [Proc -> Seconds]
    /\ overlay \in [File -> Value]
    /\ snaps \in [File -> [Seconds -> Value]]
    /\ live \in [File -> Value]
    /\ adapted \in [Proc -> [File -> Value]]
    /\ target \in [Proc -> Value]
    /\ history \in [File -> SUBSET Value]

Arrived == \A p \in Proc : pc[p] # "idle" => req[p] \in Requests

Exclusion == \A p \in Proc : pc[p] \in InChain <=> lock = p

WrittenExists ==
    \A p \in Proc : pc[p] \in Written => overlay[req[p].file] \in Bytes

\* Every variable has its type; a request in the chain, and nobody else, holds
\* chainMu; and an overlay that has been written exists (AtomicWrite and
\* RestoreBackup never leave the file missing).
TypeOK ==
    /\ ControlTypes
    /\ DataTypes
    /\ Arrived
    /\ Exclusion
    /\ WrittenExists

\* Keep snapshots of the file have names after the one p has taken.
Outnumbered(p) ==
    Cardinality({t \in Listed(req[p].file) : stamp[p] < t}) >= Keep

\* Whenever an overlay has been replaced and the change is not settled, the
\* bytes it replaced are complete in a snapshot of that file: retention never
\* removes the one just taken, and the write never comes first.  The order of
\* the names is that of the clock, so the one exception is an archive full of
\* names from before the clock was set back.
SnapshotBeforeWrite ==
    \A p \in Proc :
      pc[p] \in Written /\ prev[p] # Absent =>
        \/ \E t \in Listed(req[p].file) : snaps[req[p].file][t] = prev[p]
        \/ "clock" \in Faults /\ Outnumbered(p)

\* A change is only written when the archive of its file is within
\* CADDY_UI_BACKUP_KEEP, also after removals that failed or were cut off.
ArchiveWithinLimit ==
    \A p \in Proc :
      pc[p] \in Written => Cardinality(Listed(req[p].file)) <= Keep

\* A rollback writes the bytes its snapshot had when it got chainMu, except when
\* Backup reused the name within the same second (see RollbackRestoresChosen).
RollbackFaithful ==
    \A p \in Proc :
      /\ pc[p] \in Written
      /\ req[p].op = "rollback"
      /\ prev[p] # Absent => stamp[p] # req[p].id
      => overlay[req[p].file] = target[p]

\* Every complete snapshot is a state some chain has left the file in: a
\* rollback cannot bring back a configuration that Caddy refused and the chain
\* took back.
SnapshotsWereSettled ==
    \A f \in File : \A t \in Listed(f) :
      ~snaps[f][t].torn => snaps[f][t] \in history[f]

\* When no chain runs and the last read-back is OK, Caddy serves exactly the
\* overlays on disk: drift is flagged by the badge, unless it comes from a load
\* that Caddy applied after its client had given up on it.
DriftIsFlagged ==
    /\ lock = NoProc
    /\ badge = "ok"
    /\ \A p \in Proc : call[p] # "late"
    => live = overlay

\* An overlay that does not exist has no snapshots, so the first write of a file
\* (which Backup skips) never runs with an archive over the limit.
AbsentHasNoArchive ==
    lock = NoProc => \A f \in File : overlay[f] = Absent => Listed(f) = {}

\* Every request that arrives is answered, or cut off by a crash: the 10 s
\* timeout frees chainMu even when Caddy never answers.
EveryRequestAnswered ==
    \A p \in Proc : pc[p] # "idle" ~> pc[p] = "done"

\* Why the three archive properties hold, as an inductive invariant.
\* A clock that is not set back does not run behind any snapshot.
ArchiveInPast ==
    "clock" \notin Faults => \A f \in File : \A t \in Listed(f) : t <= clock

\* Only the chain writes overlays: prev stays current until the write.
PrevIsCurrent ==
    \A p \in Proc :
      pc[p] \in InChain \ Written => overlay[req[p].file] = prev[p]

\* A snapshot is taken of a file that exists, and os.Create has made its name.
FreshIsListed ==
    \A p \in Proc :
      /\ pc[p] \in {"copy", "retain"} => prev[p] # Absent
      /\ pc[p] = "copy" => stamp[p] \in Listed(req[p].file)

\* When the clock is not set back, the snapshot just taken is the newest.
FreshIsNewest ==
    \A p \in Proc :
      /\ "clock" \notin Faults
      /\ pc[p] \in {"copy", "retain", "mutate"} \cup Written
      /\ prev[p] # Absent
      => \A t \in Listed(req[p].file) : t <= stamp[p]

\* The snapshot just taken is complete and still there, or as many as there is
\* room for come after it.
FreshIsKept ==
    \A p \in Proc :
      /\ pc[p] \in {"retain", "mutate"} \cup Written
      /\ prev[p] # Absent
      => snaps[req[p].file][stamp[p]] = prev[p] \/ Outnumbered(p)

LimitHeld ==
    \A p \in Proc :
      pc[p] \in {"mutate"} \cup Written =>
        Cardinality(Listed(req[p].file)) <= Keep

\* A file that did not exist when its last chain began has no snapshots.
NoArchiveYet ==
    /\ \A f \in File :
         /\ overlay[f] = Absent
         /\ \A p \in Proc : pc[p] \in Written => req[p].file # f
         => Listed(f) = {}
    /\ \A p \in Proc :
         pc[p] \in Written /\ prev[p] = Absent => Listed(req[p].file) = {}

ArchiveInv ==
    /\ ArchiveInPast
    /\ PrevIsCurrent
    /\ FreshIsListed
    /\ FreshIsNewest
    /\ FreshIsKept
    /\ LimitHeld
    /\ NoArchiveYet

\* The overlays as a client may count on them: while a change is written and not
\* settled, its file still has the previous state.
Settled ==
    [f \in File |->
       IF \E p \in Proc : pc[p] \in Written /\ req[p].file = f
       THEN prev[CHOOSE p \in Proc : pc[p] \in Written /\ req[p].file = f]
       ELSE overlay[f]]

Store == INSTANCE OverlayStore WITH cfg <- Settled

\* The chain implements the store: each request takes effect at one point or not
\* at all, "failed" means no trace, whatever fails or crashes on the way.
ImplementsStore == Store!StoreSpec

-----------------------------------------------------------------------------
(* What the documentation says and the code does not do.                   *)

\* "RestoreBackup restores the bytes of the given snapshot": a rollback writes
\* what its snapshot, if it existed, held when it got chainMu.
RollbackRestoresChosen ==
    \A p \in Proc :
      pc[p] \in Written /\ req[p].op = "rollback" /\ target[p] # Absent =>
        overlay[req[p].file] = target[p]

\* "Rollback any site config to a previous snapshot": when nothing fails, a
\* rollback to a snapshot that exists when it gets chainMu succeeds.
ListedSnapshotIsRestorable ==
    \A p \in Proc : target[p] # Absent => result[p] # "failed"

\* "Without the merge, adding a rule would silently delete the existing ones":
\* when clients only add, a rule whose addition succeeded stays.
AddedRulesStay ==
    \A p \in Proc :
      lock = NoProc /\ result[p] = "ok" /\ req[p].op = "add" =>
        req[p].rules \subseteq Parsed(overlay[req[p].file])
=============================================================================

--------------------------- MODULE ClientLimiter ---------------------------
(***************************************************************************)
(* The per-client token buckets of internal/ratelimit: a map from client    *)
(* to bucket that is filled on first use and pruned lazily.  loginClient    *)
(* and apiClient are two instances of it.                                  *)
(*                                                                         *)
(* Time is counted in ticks and tokens in units, chosen so that a bucket    *)
(* refills one unit per tick: 5 tokens a minute is a tick of one second and *)
(* Cost = 12, 120 a minute is a tick of half a second and Cost = 1.  The    *)
(* floating-point rounding of the refill is left out.                      *)
(*                                                                         *)
(* ClientLimiter.Allow holds c.mu from the prune to the verdict of the      *)
(* bucket, so a call is one step.                                          *)
(***************************************************************************)
EXTENDS Integers

CONSTANTS
    Client,    \* clients, by IP
    Watched,   \* the client whose grants the auxiliary variables count
    Cost,      \* units in a token
    Burst,     \* tokens in a full bucket
    Idle,      \* ClientIdleTimeout, in ticks
    PerSecond, \* ticks in a second
    Horizon    \* bound on the clock

Capacity == Burst * Cost

ASSUME CostAssumption == Cost \in Nat \ {0}
ASSUME BurstAssumption == Burst \in Nat \ {0}
ASSUME PerSecondAssumption == PerSecond \in Nat \ {0}
ASSUME WatchedAssumption == Watched \in Client
ASSUME HorizonAssumption == Horizon \in Nat
\* A bucket refills completely within the idle timeout: 5 tokens in one minute
\* and 30 in 15 seconds, against 30 minutes.
ASSUME IdleAssumption == Idle \in Nat /\ Capacity <= Idle

VARIABLES
    now,       \* the clock
    present,   \* the keys of the clients map
    tokens,    \* Bucket.tokens, in units
    last,      \* Bucket.last
    seen,      \* clientEntry.lastSeen
    lastPrune,
    mark,      \* auxiliary: start of the window being watched
    spent,     \* auxiliary: units granted to Watched in that window
    due        \* auxiliary: when a denied client was told to come back, or -1

vars == <<now, present, tokens, last, seen, lastPrune, mark, spent, due>>

\* lastPrune starts as the zero time, long before any idle timeout.
Init ==
    /\ now = 0
    /\ present = {}
    /\ tokens = [c \in Client |-> Capacity]
    /\ last = [c \in Client |-> 0]
    /\ seen = [c \in Client |-> 0]
    /\ lastPrune = -(Idle + 1)
    /\ mark = 0
    /\ spent = 0
    /\ due = [c \in Client |-> -1]

-----------------------------------------------------------------------------
\* Mutant: the refill is not capped at the burst.
RefilledUncapped(units, elapsed) == units + elapsed

\* The refill of allowAt.
Refilled(units, elapsed) ==
    IF units + elapsed > Capacity THEN Capacity ELSE units + elapsed

\* Mutant: the wait is rounded down.
RetryRoundedDown(units) ==
    LET seconds == (Cost - units) \div PerSecond
    IN  (IF seconds < 1 THEN 1 ELSE seconds) * PerSecond

\* The Retry-After of a denial: whole seconds, rounded up, at least one.
Retry(units) ==
    LET seconds == (Cost - units + PerSecond - 1) \div PerSecond
    IN  (IF seconds < 1 THEN 1 ELSE seconds) * PerSecond

\* What a client can spend now; a client that is not in the map gets a new,
\* full bucket when it calls.
Avail(c) ==
    IF c \in present THEN Refilled(tokens[c], now - last[c]) ELSE Capacity

\* Mutant: the sweep forgets clients that are still active.
SurvivorsTooFew == {c \in present : now - seen[c] < 1}

\* Mutant: the sweep keeps the idle clients.
SurvivorsAll == present

\* The clients a sweep keeps.
Survivors ==
    IF now - lastPrune > Idle
    THEN {c \in present : now - seen[c] <= Idle}
    ELSE present

\* The level of the bucket that answers c: its own, refilled, or a new one.
Units(c) ==
    IF c \in Survivors THEN Refilled(tokens[c], now - last[c]) ELSE Capacity

\* Bucket.allowAt on a bucket that holds units after its refill.
Verdict(c, units) ==
    \/ /\ units >= Cost
       /\ tokens' = [tokens EXCEPT ![c] = units - Cost]
       /\ spent' = IF c = Watched THEN spent + Cost ELSE spent
       /\ due' = [due EXCEPT ![c] = -1]
    \/ /\ units < Cost
       /\ tokens' = [tokens EXCEPT ![c] = units]
       /\ due' = [due EXCEPT ![c] = IF @ = -1 THEN now + Retry(units) ELSE @]
       /\ UNCHANGED spent

\* ClientLimiter.Allow: prune, find or create the bucket, touch it, ask it.
Allow(c) ==
    /\ present' = Survivors \cup {c}
    /\ lastPrune' = IF now - lastPrune > Idle THEN now ELSE lastPrune
    /\ seen' = [seen EXCEPT ![c] = now]
    /\ last' = [last EXCEPT ![c] = now]
    /\ Verdict(c, Units(c))
    /\ UNCHANGED <<now, mark>>

Tick ==
    /\ now < Horizon
    /\ now' = now + 1
    /\ UNCHANGED <<present, tokens, last, seen, lastPrune, mark, spent, due>>

\* Auxiliary: start counting afresh, so that every window is considered.
Rewatch ==
    /\ mark' = now
    /\ spent' = 0
    /\ UNCHANGED <<now, present, tokens, last, seen, lastPrune, due>>

Next ==
    \/ \E c \in Client : Allow(c)
    \/ Tick
    \/ Rewatch

Spec == Init /\ [][Next]_vars

-----------------------------------------------------------------------------
(* Properties.                                                             *)

\* Every variable has its type, no bucket is overfull or overdrawn, and no
\* bucket or client was last touched in the future.
TypeOK ==
    /\ now \in 0..Horizon
    /\ present \subseteq Client
    /\ tokens \in [Client -> 0..Capacity]
    /\ last \in [Client -> Int] /\ \A c \in Client : 0 <= last[c] /\ last[c] <= now
    /\ seen \in [Client -> Int] /\ \A c \in Client : seen[c] = last[c]
    /\ lastPrune \in Int /\ lastPrune <= now
    /\ mark \in Int /\ 0 <= mark /\ mark <= now
    /\ spent \in Nat
    /\ due \in [Client -> Int]

\* In any window of d ticks a client is granted at most Burst tokens and what d
\* ticks refill, also when its bucket is dropped and made anew meanwhile.
WindowBound == spent <= Capacity + (now - mark)

\* A client that was denied and comes back once its Retry-After has passed finds
\* a token, whatever it and the others asked in between.
RetryHonoured ==
    \A c \in Client : due[c] # -1 /\ now >= due[c] => Avail(c) >= Cost

\* The map holds only clients seen within two idle timeouts of its latest call.
MapIsBounded ==
    \A c, d \in present : seen[c] - seen[d] <= 2 * Idle

\* Pruning cannot be observed: the limiter behaves as if every client had its
\* own bucket for ever.
Ideal == INSTANCE IdealLimiter WITH level <- [c \in Client |-> Avail(c)]
PruningIsInvisible == Ideal!IdealSpec
=============================================================================

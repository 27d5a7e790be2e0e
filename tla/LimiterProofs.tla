--------------------------- MODULE LimiterProofs ---------------------------
(* Proofs about ClientLimiter, for any rate, burst, idle timeout and set of  *)
(* clients in which a bucket refills within the idle timeout.                *)
EXTENDS ClientLimiter, TLAPS

\* The capacity of a bucket is a natural number.
LEMMA CapacityNat == Capacity \in Nat
  BY CostAssumption, BurstAssumption, SMTT(30) DEF Capacity

\* A refill stays within the capacity.
LEMMA RefilledType ==
    \A u \in 0..Capacity, e \in Nat : Refilled(u, e) \in 0..Capacity
  <1> USE CapacityNat
  <1> QED BY DEF Refilled

-----------------------------------------------------------------------------
(* Type correctness.                                                       *)

LEMMA UnitsType ==
    ASSUME TypeOK, NEW c \in Client
    PROVE  Units(c) \in 0..Capacity /\ Avail(c) \in 0..Capacity
  <1>1. now - last[c] \in Nat /\ tokens[c] \in 0..Capacity
    BY HorizonAssumption DEF TypeOK
  <1>2. Refilled(tokens[c], now - last[c]) \in 0..Capacity
    BY <1>1, RefilledType
  <1>3. Capacity \in 0..Capacity
    BY CapacityNat
  <1> QED
    BY <1>2, <1>3 DEF Units, Avail

LEMMA InitTypeOK == Init => TypeOK
  BY CapacityNat, HorizonAssumption, IdleAssumption DEF Init, TypeOK

LEMMA NextTypeOK == TypeOK /\ [Next]_vars => TypeOK'
  <1> SUFFICES ASSUME TypeOK, [Next]_vars PROVE TypeOK'
    OBVIOUS
  <1> USE DEF vars
  <1>1. ASSUME NEW c \in Client, Allow(c) PROVE TypeOK'
    <2>1. Units(c) \in 0..Capacity /\ now \in Int /\ now >= 0
      BY UnitsType, HorizonAssumption DEF TypeOK
    <2>2. Survivors \subseteq present
      BY DEF Survivors
    <2>3. tokens' \in [Client -> 0..Capacity]
      BY <1>1, <2>1, CapacityNat, CostAssumption DEF TypeOK, Allow, Verdict
    <2>4. spent' \in Nat
      BY <1>1, CostAssumption DEF TypeOK, Allow, Verdict
    <2>5. Retry(Units(c)) \in Int
      BY <2>1, CostAssumption, PerSecondAssumption, CapacityNat DEF Retry
    <2>6. due' \in [Client -> Int]
      BY <1>1, <2>1, <2>5 DEF TypeOK, Allow, Verdict
    <2>7. /\ last' \in [Client -> Int]
          /\ \A d \in Client : 0 <= last'[d] /\ last'[d] <= now
          /\ seen' \in [Client -> Int]
          /\ \A d \in Client : seen'[d] = last'[d]
      BY <1>1, <2>1 DEF TypeOK, Allow
    <2>8. /\ present' \subseteq Client
          /\ lastPrune' \in Int /\ lastPrune' <= now
          /\ now' = now /\ mark' = mark
      BY <1>1, <2>1, <2>2 DEF TypeOK, Allow
    <2> QED
      BY <2>3, <2>4, <2>6, <2>7, <2>8 DEF TypeOK
  <1>2. CASE Tick
    BY <1>2, HorizonAssumption DEF TypeOK, Tick
  <1>3. CASE Rewatch
    BY <1>3, HorizonAssumption DEF TypeOK, Rewatch
  <1>4. CASE UNCHANGED vars
    BY <1>4 DEF TypeOK
  <1> QED
    BY <1>1, <1>2, <1>3, <1>4 DEF Next

\* Buckets are never overfull or overdrawn and nothing is touched in the future.
THEOREM TypeCorrect == Spec => []TypeOK
  BY InitTypeOK, NextTypeOK, PTL DEF Spec

-----------------------------------------------------------------------------
(* Pruning.                                                                *)

\* A bucket that a sweep drops was full: the one that replaces it is the same.
LEMMA UnitsIsAvail ==
    ASSUME TypeOK, NEW c \in Client PROVE Units(c) = Avail(c)
  <1>1. CASE c \in present \ Survivors
    <2>1. now - seen[c] > Idle
      BY <1>1, IdleAssumption, HorizonAssumption DEF Survivors, TypeOK
    <2>2. now - last[c] > Capacity /\ tokens[c] \in 0..Capacity
      BY <2>1, CapacityNat, IdleAssumption, HorizonAssumption DEF TypeOK
    <2>3. Refilled(tokens[c], now - last[c]) = Capacity
      BY <2>2, CapacityNat, HorizonAssumption DEF TypeOK, Refilled
    <2> QED
      BY <1>1, <2>3 DEF Units, Avail
  <1>2. CASE c \notin present \/ c \in Survivors
    BY <1>2 DEF Units, Avail, Survivors
  <1> QED
    BY <1>1, <1>2

\* A call takes the cost from the caller and leaves every other client alone.
LEMMA AllowAvail ==
    ASSUME TypeOK, NEW c \in Client, Allow(c), NEW d \in Client
    PROVE  Avail(d)' =
             IF d = c /\ Avail(c) >= Cost THEN Avail(c) - Cost ELSE Avail(d)
  <1>1. Units(c) = Avail(c) /\ Units(c) \in 0..Capacity
    BY UnitsIsAvail, UnitsType
  <1>2. now' = now /\ now \in Int
    BY HorizonAssumption DEF Allow, TypeOK
  <1>3. CASE d = c
    <2>1. c \in present' /\ last'[c] = now
      BY DEF Allow, TypeOK
    <2>2. tokens'[c] = IF Avail(c) >= Cost THEN Avail(c) - Cost ELSE Avail(c)
      BY <1>1, CostAssumption, CapacityNat DEF Allow, Verdict, TypeOK
    <2>3. tokens'[c] \in 0..Capacity
      BY <1>1, <2>2, CostAssumption, CapacityNat
    <2>4. Avail(c)' = Refilled(tokens'[c], 0)
      BY <1>2, <2>1 DEF Avail, Refilled
    <2>5. Avail(c)' = tokens'[c]
      BY <2>3, <2>4, CapacityNat DEF Refilled
    <2> QED
      BY <1>3, <2>2, <2>5
  <1>4. CASE d # c
    <2>1. last'[d] = last[d] /\ tokens'[d] = tokens[d]
      BY <1>4 DEF Allow, Verdict, TypeOK
    <2>2. d \in present' <=> d \in Survivors
      BY <1>4 DEF Allow
    <2>3. Avail(d)' = Units(d)
      BY <1>2, <2>1, <2>2 DEF Avail, Units, Refilled
    <2> QED
      BY <1>4, <2>3, UnitsIsAvail
  <1> QED
    BY <1>3, <1>4

\* A tick fills every bucket by one unit, up to its capacity.
LEMMA TickAvail ==
    ASSUME TypeOK, Tick, NEW c \in Client
    PROVE  Avail(c)' = IF Avail(c) < Capacity THEN Avail(c) + 1 ELSE Capacity
  <1>1. now \in Int /\ last[c] \in Int /\ last[c] <= now /\ tokens[c] \in 0..Capacity
    BY HorizonAssumption DEF TypeOK
  <1>2. now' = now + 1 /\ UNCHANGED <<present, tokens, last>>
    BY DEF Tick
  <1> QED
    BY <1>1, <1>2, CapacityNat DEF Avail, Refilled

\* Every step of the limiter is a step of buckets that live for ever: the lazy
\* prune of ClientLimiter.Allow can never be observed by a client.
THEOREM PruningInvisible == Spec => PruningIsInvisible
  <1>1. Init => Ideal!IdealInit
    BY DEF Init, Ideal!IdealInit, Ideal!Capacity, Capacity, Avail
  <1>2. TypeOK /\ [Next]_vars =>
          [Ideal!IdealNext]_([c \in Client |-> Avail(c)])
    <2> SUFFICES ASSUME TypeOK, [Next]_vars
                 PROVE  [Ideal!IdealNext]_([c \in Client |-> Avail(c)])
      OBVIOUS
    <2>1. ASSUME NEW c \in Client, Allow(c) PROVE Ideal!Ask(c)
      BY <2>1, AllowAvail DEF Ideal!Ask
    <2>2. CASE Tick
      <3>1. \A c \in Client :
              Avail(c)' = IF Avail(c) < Capacity THEN Avail(c) + 1 ELSE Capacity
        BY <2>2, TickAvail
      <3>2. Ideal!Capacity = Capacity
        BY DEF Ideal!Capacity, Capacity
      <3>3. Ideal!Fill
        BY <3>1, <3>2 DEF Ideal!Fill
      <3> QED
        BY <3>3 DEF Ideal!IdealNext
    <2>3. CASE Rewatch \/ UNCHANGED vars
      BY <2>3 DEF Rewatch, vars, Avail
    <2> QED
      BY <2>1, <2>2, <2>3 DEF Next, Ideal!IdealNext
  <1> QED
    BY <1>1, <1>2, TypeCorrect, PTL DEF Spec, PruningIsInvisible, Ideal!IdealSpec

-----------------------------------------------------------------------------
(* The rate.                                                               *)

\* What has been granted in the window and what is left never exceed the burst
\* and the refill of the window: this is inductive, WindowBound is not.
WindowInv == spent + Avail(Watched) <= Capacity + (now - mark)

LEMMA NextWindowInv == TypeOK /\ WindowInv /\ [Next]_vars => WindowInv'
  <1> SUFFICES ASSUME TypeOK, WindowInv, [Next]_vars PROVE WindowInv'
    OBVIOUS
  <1>1. /\ Avail(Watched) \in 0..Capacity
        /\ now \in Int /\ mark \in Int /\ mark <= now /\ spent \in Nat
    BY UnitsType, WatchedAssumption, HorizonAssumption DEF TypeOK
  <1> USE CapacityNat, CostAssumption, WatchedAssumption
  <1>2. ASSUME NEW c \in Client, Allow(c) PROVE WindowInv'
    <2>1. now' = now /\ mark' = mark
      BY <1>2 DEF Allow
    <2>2. Units(c) = Avail(c)
      BY UnitsIsAvail
    <2>3. spent' = IF c = Watched /\ Avail(c) >= Cost THEN spent + Cost ELSE spent
      BY <1>2, <2>2, UnitsType DEF Allow, Verdict
    <2>4. Avail(Watched)' = IF Watched = c /\ Avail(c) >= Cost
                            THEN Avail(c) - Cost ELSE Avail(Watched)
      BY <1>2, AllowAvail
    <2> QED
      BY <1>1, <2>1, <2>3, <2>4 DEF WindowInv
  <1>3. CASE Tick
    BY <1>1, <1>3, TickAvail DEF WindowInv, Tick
  <1>4. CASE Rewatch
    <2>1. Avail(Watched)' = Avail(Watched)
      BY <1>4 DEF Rewatch, Avail
    <2> QED
      BY <1>1, <1>4, <2>1 DEF WindowInv, Rewatch
  <1>5. CASE UNCHANGED vars
    BY <1>5 DEF WindowInv, vars, Avail
  <1> QED
    BY <1>2, <1>3, <1>4, <1>5 DEF Next

\* In any window a client is granted at most its burst and the refill of the
\* window, although its bucket may be dropped and made anew.
THEOREM WindowBounded == Spec => []WindowBound
  <1>1. Init => WindowInv
    BY CapacityNat, WatchedAssumption DEF Init, WindowInv, Avail
  <1>2. TypeOK /\ WindowInv => WindowBound
    <2> SUFFICES ASSUME TypeOK, WindowInv PROVE WindowBound
      OBVIOUS
    <2>1. Avail(Watched) \in 0..Capacity /\ spent \in Nat
      BY UnitsType, WatchedAssumption DEF TypeOK
    <2> QED
      BY <2>1, CapacityNat, HorizonAssumption DEF TypeOK, WindowInv, WindowBound
  <1> QED
    BY <1>1, <1>2, NextWindowInv, InitTypeOK, NextTypeOK, PTL DEF Spec

-----------------------------------------------------------------------------
(* Retry-After.                                                            *)

\* Rounding up to whole seconds covers the ticks that are missing.
LEMMA RoundUp ==
    ASSUME NEW x \in Nat, NEW P \in Nat \ {0}
    PROVE  ((x + P - 1) \div P) \in Int /\ ((x + P - 1) \div P) * P >= x
  <1> DEFINE q == (x + P - 1) \div P
  <1>1. q \in Int /\ x + P - 1 = P * q + ((x + P - 1) % P)
    OBVIOUS
  <1>2. ((x + P - 1) % P) \in 0..(P - 1)
    OBVIOUS
  <1>3. P * q = q * P /\ q * P \in Int
    BY <1>1
  <1> HIDE DEF q
  <1> QED
    BY <1>1, <1>2, <1>3 DEF q

\* The wait a denied client is told is at least what its bucket needs.
LEMMA RetryCovers ==
    ASSUME NEW u \in 0..Capacity, u < Cost
    PROVE  Retry(u) \in Nat /\ Retry(u) >= Cost - u
  <1> DEFINE seconds == (Cost - u + PerSecond - 1) \div PerSecond
  <1> USE CostAssumption, PerSecondAssumption, CapacityNat
  <1>1. Cost - u \in Nat /\ Cost - u > 0
    OBVIOUS
  <1>2. seconds \in Int /\ seconds * PerSecond >= Cost - u
    BY <1>1, RoundUp
  <1>3. seconds >= 1
    <2> SUFFICES ASSUME seconds <= 0 PROVE FALSE
      BY <1>2
    <2>1. seconds * PerSecond <= 0
      BY <1>2
    <2> QED
      BY <1>1, <1>2, <2>1
  <1>4. Retry(u) = seconds * PerSecond
    BY <1>2, <1>3 DEF Retry
  <1>5. seconds * PerSecond \in Int
    BY <1>2
  <1> QED
    BY <1>1, <1>2, <1>4, <1>5

\* A full bucket pays for a request.
LEMMA FullPays == Capacity >= Cost
  BY CostAssumption, BurstAssumption, SMTT(30) DEF Capacity

\* What a promised client still misses will be there by the time it was told.
DueInv ==
    \A c \in Client :
      due[c] # -1 => Avail(c) >= Cost \/ due[c] - now >= Cost - Avail(c)

LEMMA NextDueInv == TypeOK /\ DueInv /\ [Next]_vars => DueInv'
  <1> SUFFICES ASSUME TypeOK, DueInv, [Next]_vars, NEW d \in Client, due'[d] # -1
               PROVE  (Avail(d) >= Cost \/ due[d] - now >= Cost - Avail(d))'
    BY DEF DueInv
  <1>1. /\ Avail(d) \in 0..Capacity /\ now \in Nat
        /\ due \in [Client -> Int] /\ due[d] \in Int
    BY UnitsType, HorizonAssumption DEF TypeOK
  <1> USE CapacityNat, CostAssumption
  <1>2. ASSUME NEW c \in Client, Allow(c) PROVE (Avail(d) >= Cost \/ due[d] - now >= Cost - Avail(d))'
    <2>1. now' = now /\ Units(c) = Avail(c) /\ Avail(c) \in 0..Capacity
      BY <1>2, UnitsIsAvail, UnitsType DEF Allow
    <2>2. CASE d # c
      <3>1. due'[d] = due[d]
        BY <1>1, <1>2, <2>2 DEF Allow, Verdict
      <3>2. Avail(d)' = Avail(d)
        BY <1>2, <2>2, AllowAvail
      <3> QED
        BY <2>1, <3>1, <3>2 DEF DueInv
    <2>3. CASE d = c
      <3>1. Avail(c) < Cost
        BY <1>1, <1>2, <2>1, <2>3 DEF Allow, Verdict
      <3>2. Avail(c)' = Avail(c)
        BY <1>2, <2>1, <3>1, AllowAvail
      <3>3. due'[c] = IF due[c] = -1 THEN now + Retry(Avail(c)) ELSE due[c]
        BY <1>1, <1>2, <2>1, <3>1 DEF Allow, Verdict
      <3>4. CASE due[c] = -1
        BY <1>1, <2>1, <2>3, <3>1, <3>2, <3>3, <3>4, RetryCovers
      <3>5. CASE due[c] # -1
        BY <2>1, <2>3, <3>2, <3>3, <3>5 DEF DueInv
      <3> QED
        BY <3>4, <3>5
    <2> QED
      BY <2>2, <2>3
  <1>3. CASE Tick
    <2>1. due' = due /\ now' = now + 1
      BY <1>3 DEF Tick
    <2>2. Avail(d) >= Cost \/ due[d] - now >= Cost - Avail(d)
      BY <2>1 DEF DueInv
    <2>3. Avail(d)' = IF Avail(d) < Capacity THEN Avail(d) + 1 ELSE Capacity
      BY <1>3, TickAvail
    <2> QED
      BY <1>1, <2>1, <2>2, <2>3, FullPays
  <1>4. CASE Rewatch
    BY <1>4 DEF Rewatch, DueInv, Avail
  <1>5. CASE UNCHANGED vars
    BY <1>5 DEF vars, DueInv, Avail
  <1> QED
    BY <1>2, <1>3, <1>4, <1>5 DEF Next

\* A denied client that comes back when its Retry-After has passed is served by
\* its bucket: the rounding of allowAt is never short, and pruning never harms.
THEOREM RetryIsHonoured == Spec => []RetryHonoured
  <1>1. Init => DueInv
    BY DEF Init, DueInv
  <1>2. TypeOK /\ DueInv => RetryHonoured
    <2> SUFFICES ASSUME TypeOK, DueInv, NEW c \in Client,
                        due[c] # -1, now >= due[c]
                 PROVE  Avail(c) >= Cost
      BY DEF RetryHonoured
    <2>1. /\ Avail(c) \in 0..Capacity /\ now \in Int /\ due[c] \in Int
          /\ Avail(c) >= Cost \/ due[c] - now >= Cost - Avail(c)
      BY UnitsType, HorizonAssumption DEF TypeOK, DueInv
    <2> QED
      BY <2>1, CapacityNat, CostAssumption
  <1> QED
    BY <1>1, <1>2, NextDueInv, InitTypeOK, NextTypeOK, PTL DEF Spec

-----------------------------------------------------------------------------
(* The size of the map.                                                    *)

\* Every client in the map was seen within an idle timeout of the latest sweep,
\* before or after it: this is inductive, MapIsBounded is not.
SweepInv ==
    \A c \in present :
      lastPrune - seen[c] <= Idle /\ seen[c] - lastPrune <= Idle

LEMMA NextSweepInv == TypeOK /\ SweepInv /\ [Next]_vars => SweepInv'
  <1> SUFFICES ASSUME TypeOK, SweepInv, [Next]_vars PROVE SweepInv'
    OBVIOUS
  <1>1. /\ now \in Int /\ lastPrune \in Int /\ lastPrune <= now /\ Idle \in Nat
        /\ \A d \in Client : seen[d] \in Int /\ seen[d] <= now
    BY HorizonAssumption, IdleAssumption DEF TypeOK
  <1>2. ASSUME NEW c \in Client, Allow(c) PROVE SweepInv'
    <2> SUFFICES ASSUME NEW d \in present'
                 PROVE  (lastPrune - seen[d] <= Idle /\ seen[d] - lastPrune <= Idle)'
      BY DEF SweepInv
    <2>1. CASE d = c
      BY <1>1, <1>2, <2>1 DEF Allow, TypeOK
    <2>2. CASE d # c
      <3>1. d \in Survivors /\ d \in present /\ d \in Client /\ seen'[d] = seen[d]
        BY <1>2, <2>2 DEF Allow, Survivors, TypeOK
      <3>2. CASE now - lastPrune > Idle
        <4>1. lastPrune' = now /\ now - seen[d] <= Idle
          BY <1>2, <3>1, <3>2 DEF Allow, Survivors
        <4> QED
          BY <1>1, <3>1, <4>1
      <3>3. CASE ~(now - lastPrune > Idle)
        <4>1. lastPrune' = lastPrune
          BY <1>2, <3>3 DEF Allow
        <4> QED
          BY <3>1, <4>1 DEF SweepInv
      <3> QED
        BY <3>2, <3>3
    <2> QED
      BY <2>1, <2>2
  <1>3. CASE Tick \/ Rewatch \/ UNCHANGED vars
    BY <1>3 DEF SweepInv, Tick, Rewatch, vars
  <1> QED
    BY <1>2, <1>3 DEF Next

\* The lazy prune of ClientLimiter.Allow, which sweeps only when a call comes and
\* the latest sweep is old, still keeps the map within two idle timeouts.
THEOREM MapBounded == Spec => []MapIsBounded
  <1>1. Init => SweepInv
    BY DEF Init, SweepInv
  <1>2. TypeOK /\ SweepInv => MapIsBounded
    <2> SUFFICES ASSUME TypeOK, SweepInv, NEW c \in present, NEW d \in present
                 PROVE  seen[c] - seen[d] <= 2 * Idle
      BY DEF MapIsBounded
    <2>1. /\ seen[c] \in Int /\ seen[d] \in Int /\ lastPrune \in Int /\ Idle \in Nat
      BY IdleAssumption DEF TypeOK
    <2>2. seen[c] - lastPrune <= Idle /\ lastPrune - seen[d] <= Idle
      BY DEF SweepInv
    <2> QED
      BY <2>1, <2>2
  <1> QED
    BY <1>1, <1>2, NextSweepInv, InitTypeOK, NextTypeOK, PTL DEF Spec
=============================================================================

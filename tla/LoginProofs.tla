---------------------------- MODULE LoginProofs ----------------------------
(* Proofs about LoginLimit, for any number of clients and any rates.        *)
EXTENDS LimiterProofs, LoginLimit, FiniteSetTheorems

\* The capacity of the ceiling is a natural number.
LEMMA GlobalCapacityNat == GlobalCapacity \in Nat
  BY CostAssumption, GlobalAssumption, SMTT(30) DEF GlobalCapacity

-----------------------------------------------------------------------------
(* Type correctness.                                                       *)

LoginTypeOK ==
    /\ TypeOK
    /\ gTokens \in 0..GlobalCapacity
    /\ gLast \in Int /\ 0 <= gLast /\ gLast <= now
    /\ passedAt \in [Client -> [Slot -> Int]]
    /\ \A c \in Client, k \in Slot : Free <= passedAt[c][k] /\ passedAt[c][k] <= now
    /\ lag \in Int /\ 0 <= lag /\ lag <= now
    /\ callers \subseteq Client /\ IsFiniteSet(callers)
    /\ gMark \in Int /\ 0 <= gMark /\ gMark <= now
    /\ gSpent \in Nat

\* Two factors in Nat have their product there.
LEMMA ProductNat == \A x, y \in Nat : x * y \in Nat
  BY SMTT(30)

\* A login step is a step of the clients' buckets, or leaves them alone.
LEMMA LoginStep == [LoginNext]_loginVars => [Next]_vars
  BY DEF LoginNext, loginVars, Post, Ceiling, Second, RewatchGlobal, Next

\* ratelimit.Login, with its second mutex in between, uses loginClient as any
\* ClientLimiter may be used: what is proved of Spec holds of every login too.
THEOREM LoginUsesLimiter == LoginSpec => Spec
  <1>1. LoginInit => Init
    BY DEF LoginInit
  <1> QED
    BY <1>1, LoginStep, PTL DEF LoginSpec, Spec

LEMMA GlobalAvailType ==
    ASSUME LoginTypeOK PROVE GlobalAvail \in 0..GlobalCapacity
  <1>1. now \in Nat /\ now - gLast \in Nat
    BY HorizonAssumption DEF LoginTypeOK, TypeOK
  <1>2. GlobalRate * (now - gLast) \in Nat
    BY <1>1, GlobalAssumption, ProductNat
  <1> QED
    BY <1>2, GlobalCapacityNat DEF GlobalAvail, LoginTypeOK

LEMMA InitLoginTypeOK == LoginInit => LoginTypeOK
  <1>1. IsFiniteSet({})
    BY FS_EmptySet
  <1> QED
    BY <1>1, InitTypeOK, GlobalCapacityNat, GlobalAssumption
    DEF LoginInit, Init, LoginTypeOK, Free

LEMMA NextLoginTypeOK == LoginTypeOK /\ [LoginNext]_loginVars => LoginTypeOK'
  <1> SUFFICES ASSUME LoginTypeOK, [LoginNext]_loginVars PROVE LoginTypeOK'
    OBVIOUS
  <1>1. TypeOK'
    BY LoginStep, NextTypeOK DEF LoginTypeOK
  <1>2. now \in Int /\ now >= 0 /\ now <= now
    BY HorizonAssumption DEF LoginTypeOK, TypeOK
  <1> USE GlobalAssumption, CostAssumption, GlobalCapacityNat DEF globals, vars
  <1>3. ASSUME NEW c \in Client, NEW k \in Slot, Post(c, k) PROVE LoginTypeOK'
    <2>1. now' = now /\ UNCHANGED <<globals, lag>>
      BY <1>3 DEF Post, Allow
    <2>2. /\ passedAt' \in [Client -> [Slot -> Int]]
          /\ \A d \in Client, j \in Slot :
               Free <= passedAt'[d][j] /\ passedAt'[d][j] <= now
      BY <1>2, <1>3 DEF Post, LoginTypeOK, Free
    <2>3. callers' \subseteq Client /\ IsFiniteSet(callers')
      BY <1>3, FS_AddElement DEF Post, LoginTypeOK
    <2> QED
      BY <1>1, <2>1, <2>2, <2>3 DEF LoginTypeOK
  <1>4. ASSUME NEW c \in Client, NEW k \in Slot, Ceiling(c, k) PROVE LoginTypeOK'
    <2>1. /\ passedAt' \in [Client -> [Slot -> Int]]
          /\ \A d \in Client, j \in Slot :
               Free <= passedAt'[d][j] /\ passedAt'[d][j] <= now
      BY <1>2, <1>4 DEF Ceiling, LoginTypeOK, Free
    <2>2. gTokens' \in 0..GlobalCapacity /\ gSpent' \in Nat
      BY <1>4, GlobalAvailType DEF Ceiling, LoginTypeOK
    <2> QED
      BY <1>1, <1>2, <1>4, <2>1, <2>2 DEF Ceiling, LoginTypeOK
  <1>5. CASE Second
    BY <1>1, <1>2, <1>5 DEF Second, Tick, LoginTypeOK
  <1>6. CASE RewatchGlobal
    BY <1>1, <1>2, <1>6 DEF RewatchGlobal, LoginTypeOK
  <1>7. CASE UNCHANGED loginVars
    BY <1>1, <1>7 DEF loginVars, LoginTypeOK
  <1> QED
    BY <1>3, <1>4, <1>5, <1>6, <1>7 DEF LoginNext

\* The bucket of ratelimit.Login's ceiling is never overfull or overdrawn, and no
\* attempt passed its client's bucket in the future.
THEOREM LoginTypeCorrect == LoginSpec => []LoginTypeOK
  BY InitLoginTypeOK, NextLoginTypeOK, PTL DEF LoginSpec

-----------------------------------------------------------------------------
(* The ceiling's own rate.                                                 *)

\* The refill of the ceiling grows by its rate with a tick.
LEMMA GlobalTick ==
    ASSUME LoginTypeOK, Second
    PROVE  GlobalAvail' = IF GlobalAvail + GlobalRate > GlobalCapacity
                          THEN GlobalCapacity ELSE GlobalAvail + GlobalRate
  <1>1. /\ now \in Int /\ gLast \in Int /\ gLast <= now
        /\ gTokens \in 0..GlobalCapacity /\ GlobalRate \in Nat
    BY HorizonAssumption, GlobalAssumption DEF LoginTypeOK, TypeOK
  <1>2. now' = now + 1 /\ gLast' = gLast /\ gTokens' = gTokens
    BY DEF Second, Tick, globals
  <1> DEFINE r == GlobalRate * (now - gLast)
  <1>3. r \in Nat
    BY <1>1, ProductNat
  <1>4. GlobalRate * ((now + 1) - gLast) = r + GlobalRate
    BY <1>1, SMTT(30)
  <1>5. /\ GlobalAvail = IF gTokens + r > GlobalCapacity
                         THEN GlobalCapacity ELSE gTokens + r
        /\ GlobalAvail' = IF gTokens + (r + GlobalRate) > GlobalCapacity
                          THEN GlobalCapacity ELSE gTokens + (r + GlobalRate)
    BY <1>2, <1>4 DEF GlobalAvail
  <1> HIDE DEF r
  <1> QED
    BY <1>1, <1>3, <1>5, GlobalCapacityNat

\* A call of the ceiling takes the cost or nothing.
LEMMA GlobalCall ==
    ASSUME LoginTypeOK, NEW c \in Client, NEW k \in Slot, Ceiling(c, k)
    PROVE  GlobalAvail' =
             IF GlobalAvail >= Cost THEN GlobalAvail - Cost ELSE GlobalAvail
  <1>1. GlobalAvail \in 0..GlobalCapacity /\ now \in Int
    BY GlobalAvailType, HorizonAssumption DEF LoginTypeOK, TypeOK
  <1>2. now' = now /\ gLast' = now
    BY DEF Ceiling, vars
  <1>3. gTokens' = IF GlobalAvail >= Cost THEN GlobalAvail - Cost ELSE GlobalAvail
    BY <1>1, CostAssumption, GlobalCapacityNat DEF Ceiling
  <1>4. gTokens' \in 0..GlobalCapacity
    BY <1>1, <1>3, CostAssumption, GlobalCapacityNat
  <1>5. GlobalRate * (now - now) = 0
    BY <1>1, GlobalAssumption
  <1>6. GlobalAvail' = IF gTokens' + 0 > GlobalCapacity
                       THEN GlobalCapacity ELSE gTokens' + 0
    BY <1>2, <1>5 DEF GlobalAvail
  <1> QED
    BY <1>3, <1>4, <1>6, GlobalCapacityNat

\* What the ceiling granted in the window and what it has left never exceed its
\* burst and the refill of the window.
GlobalWindowInv ==
    gSpent + GlobalAvail <= GlobalCapacity + GlobalRate * (now - gMark)

LEMMA NextGlobalWindowInv ==
    LoginTypeOK /\ GlobalWindowInv /\ [LoginNext]_loginVars => GlobalWindowInv'
  <1> SUFFICES ASSUME LoginTypeOK, GlobalWindowInv, [LoginNext]_loginVars
               PROVE  GlobalWindowInv'
    OBVIOUS
  <1> USE GlobalCapacityNat, CostAssumption
  <1> DEFINE d == GlobalRate * (now - gMark)
  <1>1. /\ now \in Int /\ gMark \in Int /\ gSpent \in Nat /\ GlobalRate \in Nat
        /\ GlobalAvail \in 0..GlobalCapacity /\ now - gMark \in Nat
    BY GlobalAvailType, HorizonAssumption, GlobalAssumption DEF LoginTypeOK, TypeOK
  <1>2. d \in Nat
    BY <1>1, ProductNat
  <1>3. gSpent + GlobalAvail <= GlobalCapacity + d
    BY DEF GlobalWindowInv
  <1>4. ASSUME NEW c \in Client, NEW k \in Slot, Post(c, k) PROVE GlobalWindowInv'
    BY <1>4 DEF Post, Allow, globals, GlobalWindowInv, GlobalAvail
  <1>5. ASSUME NEW c \in Client, NEW k \in Slot, Ceiling(c, k) PROVE GlobalWindowInv'
    <2>1. d' = d
      BY <1>5 DEF Ceiling, vars
    <2>2. gSpent' = IF GlobalAvail >= Cost THEN gSpent + Cost ELSE gSpent
      BY <1>1, <1>5 DEF Ceiling
    <2>3. gSpent' + GlobalAvail' <= GlobalCapacity + d
      <3> HIDE DEF d
      <3> QED BY <1>1, <1>2, <1>3, <1>5, <2>2, GlobalCall
    <2> QED
      BY <2>1, <2>3 DEF GlobalWindowInv
  <1>6. CASE Second
    <2>1. gSpent' = gSpent /\ now' = now + 1 /\ gMark' = gMark
      BY <1>6 DEF Second, Tick, globals
    <2>2. GlobalRate * ((now + 1) - gMark) = d + GlobalRate
      BY <1>1, SMTT(30)
    <2>3. d' = d + GlobalRate
      BY <2>1, <2>2
    <2>4. gSpent + GlobalAvail' <= GlobalCapacity + (d + GlobalRate)
      <3> HIDE DEF d
      <3> QED BY <1>1, <1>2, <1>3, <1>6, GlobalTick
    <2> QED
      BY <2>1, <2>3, <2>4 DEF GlobalWindowInv
  <1>7. CASE RewatchGlobal
    <2>1. /\ gSpent' = 0 /\ now' = now /\ gMark' = now /\ GlobalAvail' = GlobalAvail
      BY <1>7 DEF RewatchGlobal, vars, GlobalAvail
    <2>2. GlobalRate * (now - now) = 0
      BY <1>1
    <2> QED
      BY <1>1, <2>1, <2>2 DEF GlobalWindowInv
  <1>8. CASE UNCHANGED loginVars
    BY <1>8 DEF loginVars, globals, vars, GlobalWindowInv, GlobalAvail
  <1> QED
    BY <1>4, <1>5, <1>6, <1>7, <1>8 DEF LoginNext

\* The logins of all clients together, however many they are, stay under the rate
\* and the burst of ratelimit.Login's global bucket in any window.
THEOREM GlobalWindowBounded == LoginSpec => []GlobalWindowBound
  <1>1. LoginInit => GlobalWindowInv
    <2> SUFFICES ASSUME LoginInit PROVE GlobalWindowInv
      OBVIOUS
    <2>1. now = 0 /\ gLast = 0 /\ gMark = 0 /\ gSpent = 0 /\ gTokens = GlobalCapacity
      BY DEF LoginInit, Init
    <2>2. GlobalRate * (0 - 0) = 0
      BY GlobalAssumption
    <2> QED
      BY <2>1, <2>2, GlobalCapacityNat DEF GlobalWindowInv, GlobalAvail
  <1>2. LoginTypeOK /\ GlobalWindowInv => GlobalWindowBound
    <2> SUFFICES ASSUME LoginTypeOK, GlobalWindowInv PROVE GlobalWindowBound
      OBVIOUS
    <2>1. GlobalAvail \in 0..GlobalCapacity /\ gSpent \in Nat /\ now - gMark \in Nat
      BY GlobalAvailType, HorizonAssumption DEF LoginTypeOK, TypeOK
    <2>2. GlobalRate * (now - gMark) \in Nat
      BY <2>1, ProductNat, GlobalAssumption
    <2> QED
      BY <2>1, <2>2, GlobalCapacityNat DEF GlobalWindowInv, GlobalWindowBound
  <1> QED
    BY <1>1, <1>2, NextGlobalWindowInv, InitLoginTypeOK, NextLoginTypeOK, PTL
    DEF LoginSpec

-----------------------------------------------------------------------------
(* Sums, as the cardinality of a set of unit squares: w[c] of them in the   *)
(* column of each c.                                                        *)

Squares(C, w, N) == {p \in C \X (1..N) : p[2] <= w[p[1]]}
Total(C, w, N) == Cardinality(Squares(C, w, N))

\* A sum of finitely many bounded terms is a number, at most the bound times
\* their number.
LEMMA TotalType ==
    ASSUME NEW C, IsFiniteSet(C), NEW N \in Nat, NEW w
    PROVE  /\ IsFiniteSet(Squares(C, w, N))
           /\ Total(C, w, N) \in Nat
           /\ Cardinality(C) \in Nat
           /\ Total(C, w, N) <= Cardinality(C) * N
  <1>1. IsFiniteSet(1..N) /\ Cardinality(1..N) = N
    BY FS_Interval
  <1>2. IsFiniteSet(C \X (1..N)) /\ Cardinality(C \X (1..N)) = Cardinality(C) * N
    BY <1>1, FS_Product
  <1>3. Squares(C, w, N) \in SUBSET (C \X (1..N))
    BY DEF Squares
  <1> QED
    BY <1>2, <1>3, FS_Subset, FS_CardinalityType DEF Total

\* k squares on top of a in the column of c.
Column(c, a, k) == {c} \X ((a + 1)..(a + k))

LEMMA ColumnSize ==
    ASSUME NEW c, NEW a \in Nat, NEW k \in Nat
    PROVE  IsFiniteSet(Column(c, a, k)) /\ Cardinality(Column(c, a, k)) = k
  <1> DEFINE low == a + 1
             high == a + k
  <1>1. low \in Int /\ high \in Int /\ (IF low > high THEN 0 ELSE high - low + 1) = k
    OBVIOUS
  <1> HIDE DEF low, high
  <1>2. IsFiniteSet(low..high) /\ Cardinality(low..high) = k
    BY <1>1, FS_Interval
  <1>3. IsFiniteSet({c}) /\ Cardinality({c}) = 1
    BY FS_Singleton
  <1>4. IsFiniteSet({c} \X (low..high)) /\ Cardinality({c} \X (low..high)) = 1 * k
    BY <1>2, <1>3, FS_Product
  <1> QED
    BY <1>4 DEF low, high, Column

\* One term grows by k.
LEMMA TotalAdd ==
    ASSUME NEW C, IsFiniteSet(C), NEW N \in Nat, NEW w, NEW v,
           \A d \in C : w[d] \in 0..N /\ v[d] \in 0..N,
           NEW c \in C, NEW k \in Nat, v[c] = w[c] + k, \A d \in C \ {c} : v[d] = w[d]
    PROVE  Total(C, v, N) = Total(C, w, N) + k
  <1> DEFINE new == Column(c, w[c], k)
  <1>1. IsFiniteSet(new) /\ Cardinality(new) = k
    <2>1. w[c] \in Nat
      OBVIOUS
    <2> QED
      BY <2>1, ColumnSize
  <1>2. Squares(C, v, N) = Squares(C, w, N) \cup new
    <2>1. ASSUME NEW p \in Squares(C, v, N) PROVE p \in Squares(C, w, N) \cup new
      <3>1. p \in C \X (1..N) /\ p[2] <= v[p[1]] /\ p = <<p[1], p[2]>>
        BY DEF Squares
      <3>2. CASE p[1] = c
        BY <3>1, <3>2 DEF Squares, Column
      <3>3. CASE p[1] # c
        BY <3>1, <3>3 DEF Squares
      <3> QED
        BY <3>2, <3>3
    <2>2. ASSUME NEW p \in Squares(C, w, N) PROVE p \in Squares(C, v, N)
      <3>1. p \in C \X (1..N) /\ p[2] <= w[p[1]]
        BY DEF Squares
      <3>2. p[2] <= v[p[1]]
        BY <3>1
      <3> QED
        BY <3>1, <3>2 DEF Squares
    <2>3. ASSUME NEW p \in new PROVE p \in Squares(C, v, N)
      <3>1. p = <<c, p[2]>> /\ p[2] \in (w[c] + 1)..(w[c] + k)
        BY DEF Column
      <3>2. p[2] \in 1..N /\ p[2] <= v[c]
        BY <3>1
      <3> QED
        BY <3>1, <3>2 DEF Squares
    <2> QED
      BY <2>1, <2>2, <2>3
  <1>3. Squares(C, w, N) \cap new = {}
    <2> SUFFICES ASSUME NEW p \in Squares(C, w, N), p \in new PROVE FALSE
      OBVIOUS
    <2>1. p[1] = c /\ p[2] \in (w[c] + 1)..(w[c] + k) /\ p[2] <= w[p[1]]
      BY DEF Squares, Column
    <2> QED
      BY <2>1
  <1>4. Cardinality({}) = 0 /\ Total(C, w, N) \in Nat /\ IsFiniteSet(Squares(C, w, N))
    BY FS_EmptySet, TotalType
  <1> HIDE DEF new
  <1>5. Cardinality(Squares(C, w, N) \cup new) =
          Cardinality(Squares(C, w, N)) + Cardinality(new)
            - Cardinality(Squares(C, w, N) \cap new)
    BY <1>1, <1>4, FS_Union
  <1>6. Cardinality(Squares(C, w, N) \cap new) = 0
    BY <1>3, <1>4
  <1>7. Cardinality(Squares(C, w, N)) \in Nat
    BY <1>4 DEF Total
  <1>8. Cardinality(Squares(C, w, N) \cup new) = Cardinality(Squares(C, w, N)) + k
    BY <1>1, <1>5, <1>6, <1>7
  <1> QED
    BY <1>2, <1>8 DEF Total

\* No term of w exceeds that of v by more than h: the sum exceeds that of v by at
\* most h for each.
LEMMA TotalExcess ==
    ASSUME NEW C, IsFiniteSet(C), NEW N \in Nat, NEW M \in Nat, NEW h \in Nat,
           NEW w, NEW v,
           \A d \in C : w[d] \in 0..N /\ v[d] \in 0..M /\ w[d] <= v[d] + h
    PROVE  Total(C, w, N) <= Total(C, v, M) + Cardinality(C) * h
  <1> DEFINE S == Squares(C, w, N)
             T == Squares(C, v, M)
             lost == S \ T
             f == [p \in lost |-> <<p[1], p[2] - v[p[1]]>>]
  <1>1. IsFiniteSet(S) /\ IsFiniteSet(T) /\ Cardinality(C) \in Nat
    BY TotalType
  <1>2. \A p \in lost : /\ p = <<p[1], p[2]>> /\ p[1] \in C /\ p[2] \in Int
                        /\ v[p[1]] < p[2] /\ p[2] <= v[p[1]] + h
    <2> TAKE p \in lost
    <2>1. /\ p \in C \X (1..N) /\ p[2] <= w[p[1]]
          /\ ~(p \in C \X (1..M) /\ p[2] <= v[p[1]])
      BY DEF Squares
    <2>2. p = <<p[1], p[2]>> /\ p[1] \in C /\ p[2] \in 1..N
      BY <2>1
    <2>3. p[2] \in 1..M => p \in C \X (1..M)
      BY <2>2
    <2>4. w[p[1]] \in 0..N /\ v[p[1]] \in 0..M /\ w[p[1]] <= v[p[1]] + h
      BY <2>2
    <2> QED
      BY <2>1, <2>2, <2>3, <2>4
  <1>3. f \in Injection(lost, C \X (1..h))
    <2>1. \A p \in lost : <<p[1], p[2] - v[p[1]]>> \in C \X (1..h)
      BY <1>2
    <2>2. f \in [lost -> C \X (1..h)]
      BY <2>1
    <2>3. \A p, q \in lost : f[p] = f[q] => p = q
      <3> SUFFICES ASSUME NEW p \in lost, NEW q \in lost, f[p] = f[q] PROVE p = q
        OBVIOUS
      <3>1. p[1] = q[1] /\ p[2] - v[p[1]] = q[2] - v[q[1]]
        OBVIOUS
      <3>2. v[p[1]] \in Int /\ p[2] \in Int /\ q[2] \in Int
        BY <1>2
      <3>3. p[2] = q[2]
        BY <3>1, <3>2
      <3> QED
        BY <1>2, <3>1, <3>3
    <2> QED
      BY <2>2, <2>3 DEF Injection, IsInjective
  <1>4. /\ IsFiniteSet(C \X (1..h))
        /\ Cardinality(C \X (1..h)) = Cardinality(C) * h
    <2>1. IsFiniteSet(1..h) /\ Cardinality(1..h) = h
      BY FS_Interval
    <2> QED
      BY <2>1, FS_Product
  <1>5. IsFiniteSet(lost) /\ Cardinality(lost) <= Cardinality(C) * h
    BY <1>3, <1>4, FS_Injection
  <1>6. S \in SUBSET (T \cup lost)
    OBVIOUS
  <1>7. T \cap lost = {} /\ Cardinality({}) = 0
    BY FS_EmptySet
  <1>8. /\ IsFiniteSet(T \cup lost)
        /\ Cardinality(T \cup lost) = Cardinality(T) + Cardinality(lost) - 0
    BY <1>1, <1>5, <1>7, FS_Union
  <1>9. Cardinality(S) <= Cardinality(T \cup lost)
    BY <1>6, <1>8, FS_Subset
  <1>10. /\ Cardinality(S) \in Nat /\ Cardinality(T) \in Nat /\ Cardinality(lost) \in Nat
         /\ Cardinality(C) * h \in Nat
    BY <1>1, <1>5, FS_CardinalityType, ProductNat
  <1> QED
    BY <1>5, <1>8, <1>9, <1>10 DEF Total

\* A new term that is zero does not change the sum.
LEMMA TotalNew ==
    ASSUME NEW C, NEW N \in Nat, NEW w, NEW c, w[c] = 0
    PROVE  Total(C \cup {c}, w, N) = Total(C, w, N)
  <1>1. Squares(C \cup {c}, w, N) = Squares(C, w, N)
    BY DEF Squares
  <1> QED
    BY <1>1 DEF Total

-----------------------------------------------------------------------------
(* No self-DoS.                                                            *)

\* What each client's bucket lacks to be full.
Missing == [c \in Client |-> Capacity - Avail(c)]

\* The attempts of c between the buckets that passed the first at t or later, and
\* the units they will take from the second.
Since(c, t) == {k \in Slot : passedAt[c][k] >= t}
Owed(c, t) == Cost * Cardinality(Since(c, t))
AllOwed == [c \in Client |-> Owed(c, 0)]
MaxOwed == Cost * MaxWaiting

\* The callers are few enough for their rates and bursts, and for what the longest
\* delay can lose, to fit the ceiling's.
CallersFit ==
    /\ Cardinality(callers) <= GlobalRate
    /\ Cardinality(callers) * (Capacity + lag) <= GlobalCapacity

Lacking == Total(callers, Missing, Capacity)
Pending == Total(callers, AllOwed, MaxOwed)
Slack == Cardinality(callers) * lag

\* A client that never called has a full bucket and no attempt under way.
StrangerInv ==
    \A c \in Client \ callers :
        Avail(c) = Capacity /\ \A k \in Slot : passedAt[c][k] = Free

\* What the attempts of a client since t will take from the ceiling was taken from
\* the client's own bucket, which has refilled at most a unit a tick since.
OwedInv ==
    \A c \in Client : \A t \in 0..now : Owed(c, t) <= Missing[c] + (now - t)

\* No attempt is between the buckets for longer than lag.
LagInv ==
    \A c \in Client, k \in Slot : passedAt[c][k] # Free => now - passedAt[c][k] <= lag

\* What the ceiling lacks to be full, and what the attempts between the two
\* buckets will take from it, was taken from the callers' own buckets and has not
\* been refilled there, except for what a full ceiling could not take up while
\* the attempts were late.
BalanceInv ==
    CallersFit => (GlobalCapacity - GlobalAvail) + Pending <= Lacking + Slack

CeilingInv == StrangerInv /\ OwedInv /\ LagInv /\ BalanceInv

\* The attempts of a client are finitely many, at most one in each slot.
LEMMA OwedType ==
    ASSUME LoginTypeOK, NEW c \in Client, NEW t \in Int
    PROVE  /\ IsFiniteSet(Since(c, t)) /\ Cardinality(Since(c, t)) \in Nat
           /\ Owed(c, t) \in 0..MaxOwed
  <1>1. IsFiniteSet(Slot) /\ Cardinality(Slot) = MaxWaiting
    BY FS_Interval, GlobalAssumption DEF Slot
  <1>2. Since(c, t) \in SUBSET Slot
    BY DEF Since
  <1>3. /\ IsFiniteSet(Since(c, t)) /\ Cardinality(Since(c, t)) \in Nat
        /\ Cardinality(Since(c, t)) <= MaxWaiting
    BY <1>1, <1>2, FS_Subset, FS_CardinalityType
  <1>4. \A x, y, z \in Nat : y <= z => x * y \in Nat /\ x * z \in Nat /\ x * y <= x * z
    BY SMTT(30)
  <1>5. /\ Cost * Cardinality(Since(c, t)) \in Nat /\ Cost * MaxWaiting \in Nat
        /\ Cost * Cardinality(Since(c, t)) <= Cost * MaxWaiting
    BY <1>3, <1>4, CostAssumption, GlobalAssumption
  <1> QED
    BY <1>3, <1>5 DEF Owed, MaxOwed

LEMMA CeilingTypes ==
    ASSUME LoginTypeOK
    PROVE  /\ Missing \in [Client -> 0..Capacity]
           /\ AllOwed \in [Client -> 0..MaxOwed] /\ MaxOwed \in Nat
           /\ Lacking \in Nat /\ Pending \in Nat /\ Slack \in Nat
           /\ Cardinality(callers) \in Nat /\ lag \in Nat
           /\ Lacking <= Cardinality(callers) * Capacity
           /\ GlobalAvail \in 0..GlobalCapacity
           /\ IsFiniteSet(callers) /\ callers \subseteq Client
  <1>1. Missing \in [Client -> 0..Capacity]
    BY UnitsType, CapacityNat DEF Missing, LoginTypeOK
  <1>2. IsFiniteSet(callers) /\ callers \subseteq Client /\ lag \in Nat
    BY DEF LoginTypeOK
  <1>3. AllOwed \in [Client -> 0..MaxOwed] /\ MaxOwed \in Nat
    <2>1. \A c \in Client : Owed(c, 0) \in 0..MaxOwed
      <3>1. 0 \in Int
        OBVIOUS
      <3> QED
        BY <3>1, OwedType
    <2>2. MaxOwed \in Nat
      BY ProductNat, CostAssumption, GlobalAssumption DEF MaxOwed
    <2> QED
      BY <2>1, <2>2 DEF AllOwed
  <1>4. /\ Lacking \in Nat /\ Cardinality(callers) \in Nat
        /\ Lacking <= Cardinality(callers) * Capacity
    BY <1>2, CapacityNat, TotalType DEF Lacking
  <1>5. Pending \in Nat
    BY <1>2, <1>3, TotalType DEF Pending
  <1>6. Slack \in Nat
    BY <1>2, <1>4, ProductNat DEF Slack
  <1> QED
    BY <1>1, <1>2, <1>3, <1>4, <1>5, <1>6, GlobalAvailType

\* What is owed, pending and lacking are numbers, after a step too.
Numbers ==
    /\ AllOwed \in [Client -> 0..MaxOwed]
    /\ \A c \in Client : \A t \in Int : Owed(c, t) \in 0..MaxOwed
    /\ Missing \in [Client -> 0..Capacity]
    /\ Lacking \in Nat /\ Pending \in Nat /\ Slack \in Nat

LEMMA CeilingNumbers == LoginTypeOK => Numbers
  BY CeilingTypes, OwedType DEF Numbers

\* Callers that fit cannot lack more than the ceiling holds.
LEMMA FitBound ==
    ASSUME LoginTypeOK, CallersFit PROVE Lacking + Slack <= GlobalCapacity
  <1> DEFINE n == Cardinality(callers)
  <1>1. /\ n \in Nat /\ lag \in Nat /\ Lacking \in Nat /\ Slack \in Nat
        /\ Lacking <= n * Capacity /\ Slack = n * lag
    BY CeilingTypes DEF Slack
  <1>2. n * (Capacity + lag) <= GlobalCapacity
    BY DEF CallersFit
  <1> HIDE DEF n
  <1>3. \A x, y, z \in Nat : x * (y + z) = x * y + x * z
    BY SMTT(30)
  <1>4. n * (Capacity + lag) = n * Capacity + n * lag
    BY <1>1, <1>3, CapacityNat
  <1>5. n * Capacity \in Nat /\ n * lag \in Nat
    BY <1>1, CapacityNat, ProductNat
  <1> QED
    BY <1>1, <1>2, <1>4, <1>5, GlobalCapacityNat

\* Neither one more caller nor a longer delay makes the callers fit.
LEMMA FitShrinks ==
    ASSUME LoginTypeOK, NEW C, IsFiniteSet(C), callers \subseteq C,
           NEW h \in Nat, lag <= h, Cardinality(C) <= GlobalRate,
           Cardinality(C) * (Capacity + h) <= GlobalCapacity
    PROVE  CallersFit
  <1> DEFINE n == Cardinality(callers)
             k == Cardinality(C)
  <1>1. n \in Nat /\ lag \in Nat
    BY CeilingTypes
  <1>2. k \in Nat /\ n <= k
    BY FS_Subset, FS_CardinalityType
  <1>3. k <= GlobalRate /\ k * (Capacity + h) <= GlobalCapacity
    OBVIOUS
  <1> HIDE DEF n, k
  <1>4. \A x, y, a, b \in Nat : x <= y /\ a <= b =>
          x * a \in Nat /\ y * b \in Nat /\ x * a <= y * b
    <2>1. \A x, y, z \in Nat : x <= y => x * z \in Nat /\ y * z \in Nat /\ x * z <= y * z
      BY SMTT(30)
    <2>2. \A x, y, z \in Nat : x <= y => z * x \in Nat /\ z * y \in Nat /\ z * x <= z * y
      BY SMTT(30)
    <2> TAKE x, y, a, b \in Nat
    <2> HAVE x <= y /\ a <= b
    <2>3. x * a \in Nat /\ y * a \in Nat /\ x * a <= y * a
      BY <2>1
    <2>4. y * b \in Nat /\ y * a <= y * b
      BY <2>2
    <2> QED
      BY <2>3, <2>4
  <1>5. /\ n * (Capacity + lag) <= k * (Capacity + h)
        /\ n * (Capacity + lag) \in Nat /\ k * (Capacity + h) \in Nat
    <2>1. Capacity + lag \in Nat /\ Capacity + h \in Nat /\ Capacity + lag <= Capacity + h
      BY <1>1, CapacityNat
    <2> QED
      BY <1>1, <1>2, <1>4, <2>1
  <1>6. n <= GlobalRate /\ n * (Capacity + lag) <= GlobalCapacity
    BY <1>1, <1>2, <1>3, <1>5, GlobalAssumption, GlobalCapacityNat
  <1> QED
    BY <1>6 DEF CallersFit, n

\* A caller that has an attempt between the buckets is granted.
LEMMA CeilingGrants ==
    ASSUME LoginTypeOK, CeilingInv, CallersFit,
           NEW c \in Client, NEW k \in Slot, passedAt[c][k] # Free
    PROVE  GlobalAvail >= Cost
  <1>1. c \in callers
    BY DEF CeilingInv, StrangerInv
  <1>2. AllOwed[c] >= Cost
    <2>1. k \in Since(c, 0)
      BY DEF Since, LoginTypeOK, Free
    <2>2. IsFiniteSet(Since(c, 0)) /\ Cardinality(Since(c, 0)) \in Nat
      <3>1. 0 \in Int
        OBVIOUS
      <3> QED
        BY <3>1, OwedType
    <2>3. Cardinality(Since(c, 0)) >= 1
      BY <2>1, <2>2, FS_EmptySet
    <2>4. \A x, y \in Nat : y >= 1 => x * y >= x
      BY SMTT(30)
    <2> QED
      BY <2>2, <2>3, <2>4, CostAssumption DEF AllOwed, Owed
  <1>3. Pending >= Cost
    <2> DEFINE w == [d \in callers |-> 0]
               v == [d \in callers |-> IF d = c THEN Cost ELSE 0]
    <2>1. /\ IsFiniteSet(callers) /\ callers \subseteq Client /\ MaxOwed \in Nat
          /\ AllOwed \in [Client -> 0..MaxOwed]
      BY CeilingTypes
    <2>2. Cost \in Nat /\ Cost <= MaxOwed
      BY <1>2, <2>1, CostAssumption
    <2>3. /\ \A d \in callers : w[d] \in 0..MaxOwed /\ v[d] \in 0..MaxOwed
          /\ v[c] = w[c] + Cost /\ \A d \in callers \ {c} : v[d] = w[d]
          /\ \A d \in callers : v[d] <= AllOwed[d] + 0
      BY <1>1, <1>2, <2>1, <2>2
    <2> HIDE DEF w, v
    <2>4. Total(callers, v, MaxOwed) = Total(callers, w, MaxOwed) + Cost
      BY <1>1, <2>1, <2>2, <2>3, TotalAdd
    <2>5. Total(callers, v, MaxOwed) <=
            Total(callers, AllOwed, MaxOwed) + Cardinality(callers) * 0
      <3>1. \A d \in callers : /\ v[d] \in 0..MaxOwed /\ AllOwed[d] \in 0..MaxOwed
                               /\ v[d] <= AllOwed[d] + 0
        BY <2>1, <2>3
      <3>2. 0 \in Nat
        OBVIOUS
      <3> QED
        BY <2>1, <3>1, <3>2, TotalExcess
    <2>6. Total(callers, w, MaxOwed) \in Nat /\ Cardinality(callers) \in Nat
      BY <2>1, TotalType
    <2>7. Pending \in Nat
      BY CeilingTypes
    <2> QED
      BY <2>2, <2>4, <2>5, <2>6, <2>7 DEF Pending
  <1>4. (GlobalCapacity - GlobalAvail) + Pending <= Lacking + Slack
    BY DEF CeilingInv, BalanceInv
  <1>5. Lacking + Slack <= GlobalCapacity
    BY FitBound
  <1>6. /\ Lacking \in Nat /\ Slack \in Nat /\ Pending \in Nat
        /\ GlobalAvail \in 0..GlobalCapacity
    BY CeilingTypes
  <1> QED
    BY <1>3, <1>4, <1>5, <1>6, CostAssumption, GlobalCapacityNat

\* An attempt that passes its client's bucket is owed to the ceiling.
LEMMA PostOwes ==
    ASSUME LoginTypeOK, NEW c \in Client, NEW k \in Slot, Post(c, k),
           NEW d \in Client, NEW t \in 0..now
    PROVE  Owed(d, t)' = IF d = c /\ Passes(c) THEN Owed(c, t) + Cost ELSE Owed(d, t)
  <1>1. /\ passedAt' = [passedAt EXCEPT ![c][k] = IF Passes(c) THEN now ELSE Free]
        /\ passedAt[c][k] = Free /\ passedAt \in [Client -> [Slot -> Int]]
        /\ now \in Int
    BY HorizonAssumption DEF Post, LoginTypeOK, TypeOK
  <1>2. t \in Int
    OBVIOUS
  <1>3. CASE d = c /\ Passes(c)
    <2>1. Since(c, t)' = Since(c, t) \cup {k}
      BY <1>1, <1>3 DEF Since
    <2>2. k \notin Since(c, t)
      BY <1>1 DEF Since, Free
    <2>3. IsFiniteSet(Since(c, t)) /\ Cardinality(Since(c, t)) \in Nat
      BY <1>2, OwedType
    <2>4. Cardinality(Since(c, t)') = Cardinality(Since(c, t)) + 1
      BY <2>1, <2>2, <2>3, FS_AddElement
    <2>5. \A x, y \in Nat : x * (y + 1) = x * y + x
      BY SMTT(30)
    <2>6. Cost * (Cardinality(Since(c, t)) + 1) = Cost * Cardinality(Since(c, t)) + Cost
      BY <2>3, <2>5, CostAssumption
    <2> QED
      BY <1>3, <2>4, <2>6 DEF Owed
  <1>4. CASE ~(d = c /\ Passes(c))
    <2>1. Since(d, t)' = Since(d, t)
      BY <1>1, <1>4 DEF Since, Free
    <2> QED
      BY <1>4, <2>1 DEF Owed
  <1> QED
    BY <1>3, <1>4

\* An attempt that meets the ceiling is owed no longer.
LEMMA CeilingSettles ==
    ASSUME LoginTypeOK, NEW c \in Client, NEW k \in Slot, Ceiling(c, k),
           NEW d \in Client, NEW t \in 0..now
    PROVE  /\ Owed(d, t)' <= Owed(d, t)
           /\ Owed(d, 0) = IF d = c THEN Owed(c, 0)' + Cost ELSE Owed(d, 0)'
  <1>1. /\ passedAt' = [passedAt EXCEPT ![c][k] = Free]
        /\ passedAt[c][k] # Free /\ passedAt \in [Client -> [Slot -> Int]]
        /\ Free <= passedAt[c][k]
    BY DEF Ceiling, LoginTypeOK
  <1>2. t \in Int /\ 0 \in Int
    OBVIOUS
  <1>3. /\ IsFiniteSet(Since(d, t)) /\ IsFiniteSet(Since(d, 0))
        /\ Cardinality(Since(d, t)) \in Nat /\ Cardinality(Since(d, 0)) \in Nat
    BY <1>2, OwedType
  <1>4. Owed(d, t)' <= Owed(d, t)
    <2>1. Since(d, t)' \in SUBSET Since(d, t)
      BY <1>1 DEF Since, Free
    <2>2. /\ Cardinality(Since(d, t)') <= Cardinality(Since(d, t))
          /\ Cardinality(Since(d, t)') \in Nat
      BY <1>3, <2>1, FS_Subset, FS_CardinalityType
    <2>3. \A x, y, z \in Nat : y <= z => x * y <= x * z
      BY SMTT(30)
    <2> QED
      BY <1>3, <2>2, <2>3, CostAssumption DEF Owed
  <1>5. CASE d = c
    <2>1. Since(c, 0)' = Since(c, 0) \ {k}
      BY <1>1 DEF Since, Free
    <2>2. k \in Since(c, 0)
      BY <1>1 DEF Since, Free
    <2>3. /\ Cardinality(Since(c, 0)') = Cardinality(Since(c, 0)) - 1
          /\ Cardinality(Since(c, 0)') \in Nat
      BY <1>3, <1>5, <2>1, <2>2, FS_RemoveElement, FS_CardinalityType
    <2>4. \A x, y \in Nat : x * (y + 1) = x * y + x
      BY SMTT(30)
    <2>5. Cardinality(Since(c, 0)) = Cardinality(Since(c, 0)') + 1
      BY <1>3, <1>5, <2>3
    <2>6. Cost * (Cardinality(Since(c, 0)') + 1) = Cost * Cardinality(Since(c, 0)') + Cost
      BY <2>3, <2>4, CostAssumption
    <2>7. Owed(c, 0) = Owed(c, 0)' + Cost
      BY <2>5, <2>6 DEF Owed
    <2> QED
      BY <1>4, <1>5, <2>7
  <1>6. CASE d # c
    <2>1. Since(d, 0)' = Since(d, 0)
      BY <1>1, <1>6 DEF Since
    <2> QED
      BY <1>4, <1>6, <2>1 DEF Owed
  <1> QED
    BY <1>5, <1>6

LEMMA PostKeepsCeilingInv ==
    ASSUME LoginTypeOK, LoginTypeOK', CeilingInv,
           NEW c \in Client, NEW k \in Slot, Post(c, k)
    PROVE  CeilingInv'
  <1>1. /\ TypeOK /\ Allow(c) /\ callers' = callers \cup {c} /\ lag' = lag /\ now' = now
        /\ passedAt' = [passedAt EXCEPT ![c][k] = IF Passes(c) THEN now ELSE Free]
        /\ passedAt \in [Client -> [Slot -> Int]] /\ now \in Int /\ lag \in Nat
    BY HorizonAssumption DEF Post, Allow, LoginTypeOK, TypeOK
  <1>2. Units(c) = Avail(c) /\ Avail(c) \in 0..Capacity
    BY <1>1, UnitsIsAvail, UnitsType
  <1>3. \A d \in Client : Avail(d)' =
          IF d = c /\ Avail(c) >= Cost THEN Avail(c) - Cost ELSE Avail(d)
    BY <1>1, AllowAvail
  <1>4. Passes(c) <=> Avail(c) >= Cost
    BY <1>2 DEF Passes
  <1>5. \A d \in Client : Missing'[d] =
          IF d = c /\ Passes(c) THEN Missing[c] + Cost ELSE Missing[d]
    BY <1>2, <1>3, <1>4, CostAssumption, CapacityNat DEF Missing
  <1>6. /\ Missing \in [Client -> 0..Capacity] /\ AllOwed \in [Client -> 0..MaxOwed]
        /\ MaxOwed \in Nat /\ Lacking \in Nat /\ Pending \in Nat /\ Slack \in Nat
        /\ Cardinality(callers) \in Nat /\ GlobalAvail \in 0..GlobalCapacity
    BY CeilingTypes
  <1>7. /\ Missing' \in [Client -> 0..Capacity] /\ AllOwed' \in [Client -> 0..MaxOwed]
    <2>1. Numbers'
      BY CeilingNumbers, PTL
    <2> QED
      BY <2>1 DEF Numbers, MaxOwed, Capacity
  <1>8. StrangerInv'
    BY <1>1, <1>3 DEF CeilingInv, StrangerInv
  <1>9. OwedInv'
    <2> SUFFICES ASSUME NEW d \in Client, NEW t \in 0..now
                 PROVE  Owed(d, t)' <= Missing'[d] + (now - t)
      BY <1>1 DEF OwedInv
    <2>1. Owed(d, t) <= Missing[d] + (now - t)
      BY DEF CeilingInv, OwedInv
    <2>2. Owed(d, t) \in Int /\ Missing[d] \in Int /\ now - t \in Int /\ Cost \in Int
      <3>1. now \in Int /\ t \in Int /\ Cost \in Int
        BY <1>1, CostAssumption
      <3>2. Missing[d] \in Int
        BY <1>6, CapacityNat
      <3>3. Owed(d, t) \in 0..MaxOwed
        BY <3>1, OwedType
      <3> QED
        BY <3>1, <3>2, <3>3
    <2>3. Owed(d, t)' = IF d = c /\ Passes(c) THEN Owed(d, t) + Cost ELSE Owed(d, t)
      BY PostOwes
    <2>4. Missing'[d] = IF d = c /\ Passes(c) THEN Missing[d] + Cost ELSE Missing[d]
      BY <1>5
    <2> QED
      BY <2>1, <2>2, <2>3, <2>4
  <1>10. LagInv'
    BY <1>1 DEF CeilingInv, LagInv, LoginTypeOK, Free
  <1>11. GlobalAvail' = GlobalAvail
    BY DEF Post, Allow, globals, GlobalAvail
  <1> DEFINE C == callers'
  <1>12. IsFiniteSet(C) /\ c \in C /\ C \subseteq Client
    BY <1>1 DEF LoginTypeOK
  <1>13. ASSUME CallersFit' PROVE CallersFit
    BY <1>1, <1>12, <1>13, FitShrinks DEF CallersFit
  <1>14. Slack' \in Nat /\ Slack <= Slack'
    <2>1. /\ Cardinality(callers') \in Nat /\ Cardinality(callers) \in Nat
          /\ Cardinality(callers) <= Cardinality(callers')
      BY <1>1, <1>12, FS_Subset, FS_CardinalityType
    <2>2. \A x, y, z \in Nat : x <= y => x * z <= y * z
      BY SMTT(30)
    <2> QED
      BY <1>1, <2>1, <2>2, ProductNat DEF Slack
  <1>15. /\ Total(C, Missing, Capacity) = Lacking
         /\ Total(C, AllOwed, MaxOwed) = Pending
    <2>1. CASE c \in callers
      <3>1. C = callers
        BY <1>1, <2>1
      <3> QED
        BY <3>1 DEF Lacking, Pending
    <2>2. CASE c \notin callers
      <3>1. Missing[c] = 0
        BY <2>2, CapacityNat DEF CeilingInv, StrangerInv, Missing
      <3>2. Since(c, 0) = {}
        BY <2>2 DEF CeilingInv, StrangerInv, Since, Free
      <3>3. AllOwed[c] = 0
        BY <3>2, FS_EmptySet, CostAssumption DEF AllOwed, Owed
      <3> QED
        BY <1>1, <1>6, <3>1, <3>3, TotalNew, CapacityNat DEF Lacking, Pending
    <2> QED
      BY <2>1, <2>2
  <1>16. \A d \in C : /\ Missing[d] \in 0..Capacity /\ Missing'[d] \in 0..Capacity
                      /\ AllOwed[d] \in 0..MaxOwed /\ AllOwed'[d] \in 0..MaxOwed
    BY <1>6, <1>7, <1>12
  <1>17. \A d \in Client : AllOwed'[d] =
           IF d = c /\ Passes(c) THEN AllOwed[c] + Cost ELSE AllOwed[d]
    <2>1. 0 \in 0..now
      BY HorizonAssumption DEF LoginTypeOK, TypeOK
    <2> QED
      BY <2>1, PostOwes DEF AllOwed
  <1>18. ASSUME CallersFit
         PROVE  (GlobalCapacity - GlobalAvail) + Pending <= Lacking + Slack
    BY <1>18 DEF CeilingInv, BalanceInv
  <1>19. /\ Lacking \in Int /\ Pending \in Int /\ Slack \in Int /\ GlobalAvail \in Int
         /\ GlobalCapacity \in Int /\ Cost \in Int
    BY <1>6, GlobalCapacityNat, CostAssumption
  <1>20. CASE Passes(c)
    <2>1. Total(C, Missing', Capacity) = Total(C, Missing, Capacity) + Cost
      <3>1. Missing'[c] = Missing[c] + Cost /\ \A d \in C \ {c} : Missing'[d] = Missing[d]
        BY <1>5, <1>12, <1>20
      <3>2. \A d \in C : Missing[d] \in 0..Capacity /\ Missing'[d] \in 0..Capacity
        BY <1>16
      <3>3. Capacity \in Nat /\ Cost \in Nat
        BY CapacityNat, CostAssumption
      <3> HIDE DEF C
      <3> QED
        BY <1>12, <3>1, <3>2, <3>3, TotalAdd
    <2>2. Total(C, AllOwed', MaxOwed) = Total(C, AllOwed, MaxOwed) + Cost
      BY <1>6, <1>12, <1>16, <1>17, <1>20, TotalAdd, CostAssumption
    <2>3. Lacking' = Lacking + Cost /\ Pending' = Pending + Cost
      <3>1. MaxOwed' = MaxOwed /\ Capacity' = Capacity
        BY DEF MaxOwed, Capacity
      <3> QED
        BY <1>15, <2>1, <2>2, <3>1 DEF Lacking, Pending
    <2>4. BalanceInv'
      BY <1>11, <1>13, <1>14, <1>18, <1>19, <2>3 DEF BalanceInv, GlobalCapacity
    <2> QED
      BY <1>8, <1>9, <1>10, <2>4 DEF CeilingInv
  <1>21. CASE ~Passes(c)
    <2>1. \A d \in C : Missing'[d] = Missing[d] /\ AllOwed'[d] = AllOwed[d]
      BY <1>5, <1>12, <1>17, <1>21
    <2>2. Total(C, Missing', Capacity) = Total(C, Missing, Capacity)
      BY <2>1 DEF Total, Squares
    <2>3. Total(C, AllOwed', MaxOwed) = Total(C, AllOwed, MaxOwed)
      BY <2>1 DEF Total, Squares
    <2>4. Lacking' = Lacking /\ Pending' = Pending
      BY <1>15, <2>2, <2>3 DEF Lacking, Pending
    <2>5. BalanceInv'
      BY <1>11, <1>13, <1>14, <1>18, <1>19, <2>4 DEF BalanceInv, GlobalCapacity
    <2> QED
      BY <1>8, <1>9, <1>10, <2>5 DEF CeilingInv
  <1> QED
    BY <1>20, <1>21

LEMMA CeilingKeepsCeilingInv ==
    ASSUME LoginTypeOK, LoginTypeOK', CeilingInv,
           NEW c \in Client, NEW k \in Slot, Ceiling(c, k)
    PROVE  CeilingInv'
  <1>1. /\ UNCHANGED <<vars, callers, lag>> /\ passedAt[c][k] # Free
        /\ passedAt' = [passedAt EXCEPT ![c][k] = Free]
        /\ passedAt \in [Client -> [Slot -> Int]]
        /\ now' = now /\ now \in Int /\ 0 \in 0..now
    BY HorizonAssumption DEF Ceiling, LoginTypeOK, TypeOK, vars
  <1>2. c \in callers
    BY <1>1 DEF CeilingInv, StrangerInv
  <1>3. \A d \in Client : Avail(d)' = Avail(d)
    BY <1>1 DEF vars, Avail
  <1>4. Missing' = Missing
    BY <1>3 DEF Missing
  <1>5. /\ Lacking' = Lacking /\ Slack' = Slack /\ (CallersFit' <=> CallersFit)
    BY <1>1, <1>4 DEF Lacking, Slack, CallersFit
  <1>6. /\ Missing \in [Client -> 0..Capacity] /\ AllOwed \in [Client -> 0..MaxOwed]
        /\ MaxOwed \in Nat /\ Lacking \in Nat /\ Pending \in Nat /\ Slack \in Nat
        /\ GlobalAvail \in 0..GlobalCapacity /\ IsFiniteSet(callers)
        /\ callers \subseteq Client
    BY CeilingTypes
  <1>7. /\ AllOwed' \in [Client -> 0..MaxOwed] /\ Pending' \in Nat
        /\ \A d \in Client : \A t \in Int : Owed(d, t)' \in 0..MaxOwed
    <2>1. Numbers'
      BY CeilingNumbers, PTL
    <2> QED
      BY <2>1 DEF Numbers, MaxOwed
  <1>8. Pending = Pending' + Cost
    <2>1. \A d \in Client :
            AllOwed[d] = IF d = c THEN AllOwed'[c] + Cost ELSE AllOwed'[d]
      BY <1>1, CeilingSettles DEF AllOwed
    <2>2. \A d \in callers : AllOwed'[d] \in 0..MaxOwed /\ AllOwed[d] \in 0..MaxOwed
      BY <1>6, <1>7
    <2>3. AllOwed[c] = AllOwed'[c] + Cost /\ \A d \in callers \ {c} : AllOwed[d] = AllOwed'[d]
      BY <1>6, <2>1
    <2>4. Total(callers, AllOwed, MaxOwed) = Total(callers, AllOwed', MaxOwed) + Cost
      BY <1>2, <1>6, <2>2, <2>3, TotalAdd, CostAssumption
    <2>5. MaxOwed' = MaxOwed
      BY DEF MaxOwed
    <2> QED
      BY <1>1, <2>4, <2>5 DEF Pending
  <1>9. StrangerInv'
    BY <1>1, <1>2, <1>3 DEF CeilingInv, StrangerInv
  <1>10. OwedInv'
    <2> SUFFICES ASSUME NEW d \in Client, NEW t \in 0..now
                 PROVE  Owed(d, t)' <= Missing[d] + (now - t)
      BY <1>1, <1>4 DEF OwedInv
    <2>1. Owed(d, t) <= Missing[d] + (now - t)
      BY DEF CeilingInv, OwedInv
    <2>2. Owed(d, t) \in Int /\ Owed(d, t)' \in Int /\ Owed(d, t)' <= Owed(d, t)
      BY <1>7, OwedType, CeilingSettles
    <2>3. Missing[d] + (now - t) \in Int
      <3>1. now \in Int /\ t \in Int
        BY <1>1
      <3>2. Missing[d] \in Int
        BY <1>6, CapacityNat
      <3> QED
        BY <3>1, <3>2
    <2> QED
      BY <2>1, <2>2, <2>3
  <1>11. LagInv'
    BY <1>1 DEF CeilingInv, LagInv
  <1>12. BalanceInv'
    <2> SUFFICES ASSUME CallersFit
                 PROVE  (GlobalCapacity - GlobalAvail') + Pending' <= Lacking + Slack
      BY <1>5 DEF BalanceInv
    <2>1. GlobalAvail >= Cost
      BY <1>1, CeilingGrants
    <2>2. GlobalAvail' = GlobalAvail - Cost
      BY <2>1, GlobalCall
    <2>3. (GlobalCapacity - GlobalAvail) + Pending <= Lacking + Slack
      BY DEF CeilingInv, BalanceInv
    <2>4. /\ Lacking \in Int /\ Pending \in Int /\ Pending' \in Int /\ Slack \in Int /\ GlobalAvail \in Int
          /\ GlobalCapacity \in Int /\ Cost \in Int
      BY <1>6, <1>7, GlobalCapacityNat, CostAssumption
    <2>5. (GlobalCapacity - (GlobalAvail - Cost)) + Pending' =
            (GlobalCapacity - GlobalAvail) + Pending
      BY <1>8, <2>4
    <2> QED
      BY <2>2, <2>3, <2>5
  <1> QED
    BY <1>9, <1>10, <1>11, <1>12 DEF CeilingInv

LEMMA SecondKeepsCeilingInv ==
    ASSUME LoginTypeOK, LoginTypeOK', CeilingInv, Second
    PROVE  CeilingInv'
  <1>1. /\ TypeOK /\ Tick /\ callers' = callers /\ passedAt' = passedAt
        /\ lag' = IF Lags THEN lag + 1 ELSE lag
        /\ now' = now + 1 /\ now \in Nat
        /\ lag \in Nat /\ lag' \in Nat /\ lag <= lag' /\ lag' <= now'
    BY HorizonAssumption DEF Second, Tick, LoginTypeOK, TypeOK
  <1>2. \A c \in Client :
          Avail(c)' = IF Avail(c) < Capacity THEN Avail(c) + 1 ELSE Capacity
    BY <1>1, TickAvail
  <1>3. \A c \in Client : Avail(c) \in 0..Capacity
    BY <1>1, UnitsType
  <1>4. StrangerInv'
    BY <1>1, <1>2, CapacityNat DEF CeilingInv, StrangerInv
  <1>5. \A c \in Client : /\ Missing[c] \in 0..Capacity /\ Missing'[c] \in 0..Capacity
                          /\ Missing[c] <= Missing'[c] + 1
    BY <1>2, <1>3, CapacityNat DEF Missing
  <1>6. \A c \in Client, t \in Int : Owed(c, t)' = Owed(c, t)
    BY <1>1 DEF Owed, Since
  <1>7. OwedInv'
    <2> SUFFICES ASSUME NEW c \in Client, NEW t \in 0..now'
                 PROVE  Owed(c, t)' <= Missing'[c] + (now' - t)
      BY DEF OwedInv
    <2>1. t \in Int /\ now' \in Int /\ now \in Int /\ now' = now + 1
      BY <1>1
    <2>2. Missing[c] \in Int /\ Missing'[c] \in Nat /\ Missing[c] <= Missing'[c] + 1
      BY <1>5, CapacityNat
    <2>3. Owed(c, t)' = Owed(c, t)
      BY <1>6, <2>1
    <2>4. CASE t \in 0..now
      <3>1. Owed(c, t) <= Missing[c] + (now - t)
        BY <2>4 DEF CeilingInv, OwedInv
      <3>2. Owed(c, t) \in Int
        <4>1. Owed(c, t) \in 0..MaxOwed
          BY <2>1, OwedType
        <4> QED
          BY <4>1
      <3> QED
        BY <2>1, <2>2, <2>3, <3>1, <3>2
    <2>5. CASE t = now'
      <3>1. Since(c, t) = {}
        BY <2>1, <2>5 DEF Since, LoginTypeOK
      <3>2. Owed(c, t) = 0
        BY <3>1, FS_EmptySet, CostAssumption DEF Owed
      <3> QED
        BY <2>1, <2>2, <2>3, <2>5, <3>2
    <2> QED
      BY <2>1, <2>4, <2>5
  <1>8. LagInv'
    <2> SUFFICES ASSUME NEW c \in Client, NEW k \in Slot, passedAt[c][k] # Free
                 PROVE  (now + 1) - passedAt[c][k] <= lag'
      BY <1>1 DEF LagInv
    <2>1. now - passedAt[c][k] <= lag /\ passedAt[c][k] \in Int
      BY DEF CeilingInv, LagInv, LoginTypeOK
    <2>2. CASE Lags
      BY <1>1, <2>1, <2>2
    <2>3. CASE ~Lags
      <3>1. ~((now + 1) - passedAt[c][k] > lag)
        BY <2>3 DEF Lags
      <3> QED
        BY <1>1, <2>1, <2>3, <3>1
    <2> QED
      BY <2>2, <2>3
  <1>9. /\ IsFiniteSet(callers) /\ callers \subseteq Client /\ MaxOwed \in Nat
        /\ AllOwed \in [Client -> 0..MaxOwed]
        /\ Lacking \in Int /\ Pending \in Int /\ Slack \in Int
        /\ Cardinality(callers) \in Nat /\ GlobalAvail \in 0..GlobalCapacity
    BY CeilingTypes
  <1>10. Lacking' \in Int /\ Slack' \in Int
    <2>1. Numbers'
      BY CeilingNumbers, PTL
    <2> QED
      BY <2>1 DEF Numbers
  <1>11. AllOwed' = AllOwed /\ Pending' = Pending
    <2>1. AllOwed' = AllOwed
      BY <1>6 DEF AllOwed
    <2>2. MaxOwed' = MaxOwed
      BY DEF MaxOwed
    <2> QED
      BY <1>1, <2>1, <2>2 DEF Pending
  <1>12. Lacking <= Lacking' + Cardinality(callers)
    <2>1. \A d \in callers : /\ Missing[d] \in 0..Capacity /\ Missing'[d] \in 0..Capacity
                             /\ Missing[d] <= Missing'[d] + 1
      BY <1>5, <1>9
    <2>2. 1 \in Nat /\ Capacity \in Nat
      BY CapacityNat
    <2>3. Total(callers, Missing, Capacity) <=
            Total(callers, Missing', Capacity) + Cardinality(callers) * 1
      BY <1>9, <2>1, <2>2, TotalExcess
    <2>4. Capacity' = Capacity /\ Cardinality(callers) * 1 = Cardinality(callers)
      BY <1>9 DEF Capacity
    <2> QED
      BY <1>1, <2>3, <2>4 DEF Lacking
  \* The attempts under way were charged to their clients within the last lag'
  \* ticks, and each client has been refilled by at most lag' since.
  <1>13. Pending <= Lacking' + Slack'
    <2>1. PICK t : t = now' - lag'
      OBVIOUS
    <2>2. t \in 0..now' /\ t \in Int /\ now' - t = lag'
      BY <1>1, <2>1
    <2>3. \A d \in Client : AllOwed[d] = Owed(d, t)'
      <3> TAKE d \in Client
      <3>1. Since(d, 0) = Since(d, t)
        <4>1. \A k \in Slot : passedAt[d][k] >= 0 <=> passedAt[d][k] >= t
          <5> TAKE k \in Slot
          <5>1. passedAt[d][k] \in Int /\ Free <= passedAt[d][k]
            BY DEF LoginTypeOK
          <5>2. passedAt[d][k] # Free => now' - passedAt[d][k] <= lag'
            BY <1>1, <1>8 DEF LagInv
          <5> QED
            BY <1>1, <2>1, <2>2, <5>1, <5>2 DEF Free
        <4> QED
          BY <4>1 DEF Since
      <3>2. Owed(d, 0) = Owed(d, t)
        BY <3>1 DEF Owed
      <3> QED
        BY <1>6, <2>2, <3>2 DEF AllOwed
    <2>4. \A d \in callers : /\ AllOwed[d] \in 0..MaxOwed /\ Missing'[d] \in 0..Capacity
                             /\ AllOwed[d] <= Missing'[d] + lag'
      <3>1. \A d \in Client : Owed(d, t)' <= Missing'[d] + lag'
        BY <1>7, <2>2 DEF OwedInv
      <3> QED
        BY <1>5, <1>9, <2>3, <3>1
    <2>5. Total(callers, AllOwed, MaxOwed) <=
            Total(callers, Missing', Capacity) + Cardinality(callers) * lag'
      BY <1>1, <1>9, <2>4, TotalExcess, CapacityNat
    <2>6. Capacity' = Capacity
      BY DEF Capacity
    <2> QED
      BY <1>1, <2>5, <2>6 DEF Pending, Lacking, Slack
  <1>14. Slack <= Slack'
    <2>1. \A x, y, z \in Nat : y <= z => x * y <= x * z
      BY SMTT(30)
    <2> QED
      BY <1>1, <1>9, <2>1 DEF Slack
  <1>15. BalanceInv'
    <2> SUFFICES ASSUME CallersFit'
                 PROVE  (GlobalCapacity - GlobalAvail') + Pending <= Lacking' + Slack'
      BY <1>11 DEF BalanceInv, GlobalCapacity
    <2>1. CallersFit
      BY <1>1, <1>9, FitShrinks DEF CallersFit
    <2>2. (GlobalCapacity - GlobalAvail) + Pending <= Lacking + Slack
      BY <2>1 DEF CeilingInv, BalanceInv
    <2>3. Cardinality(callers) <= GlobalRate /\ GlobalRate \in Nat
      BY <2>1, GlobalAssumption DEF CallersFit
    <2>4. GlobalCapacity \in Int /\ GlobalAvail \in Int /\ Cardinality(callers) \in Int
      BY <1>9, GlobalCapacityNat
    <2>5. CASE GlobalAvail + GlobalRate > GlobalCapacity
      <3>1. GlobalAvail' = GlobalCapacity
        BY <2>5, GlobalTick
      <3>2. GlobalCapacity - GlobalCapacity = 0 /\ 0 + Pending = Pending
        BY <1>9, <2>4
      <3> QED
        BY <1>13, <3>1, <3>2
    <2>6. CASE ~(GlobalAvail + GlobalRate > GlobalCapacity)
      <3>1. GlobalAvail' = GlobalAvail + GlobalRate
        BY <2>6, GlobalTick
      <3>2. (GlobalCapacity - (GlobalAvail + GlobalRate)) + Pending <= Lacking' + Slack'
        <4>1. Lacking \in Int /\ Pending \in Int /\ Slack \in Int
          BY <1>9
        <4>2. \A m, a, r, p, l, e, x, y, n \in Int :
                (m - a) + p <= l + e /\ l <= x + n /\ n <= r /\ e <= y =>
                  (m - (a + r)) + p <= x + y
          OBVIOUS
        <4>3. GlobalRate \in Int /\ Lacking' \in Int /\ Slack' \in Int
          BY <1>10, <2>3
        <4>4. Lacking <= Lacking' + Cardinality(callers)
          BY <1>12
        <4>5. Slack <= Slack'
          BY <1>14
        <4>6. Cardinality(callers) <= GlobalRate
          BY <2>3
        <4>7. (GlobalCapacity - GlobalAvail) + Pending <= Lacking + Slack
          BY <2>2
        <4> QED
          BY <2>4, <4>1, <4>2, <4>3, <4>4, <4>5, <4>6, <4>7, Zenon
      <3> QED
        BY <3>1, <3>2
    <2> QED
      BY <2>5, <2>6
  <1> QED
    BY <1>4, <1>7, <1>8, <1>15 DEF CeilingInv

\* "It bounds distributed guessing without self-DoS": callers whose rates and
\* bursts fit the global bucket, with a margin of one unit for each caller and each
\* tick of the longest delay between the two Allow of ratelimit.Login, never meet
\* it, whatever the order and the times at which their attempts pass the two
\* mutexes.  Without delay the bursts may fill the ceiling.
THEOREM NoCallerMeetsTheCeiling == LoginSpec => []NoSelfDoS
  <1>1. LoginInit => CeilingInv
    <2> SUFFICES ASSUME LoginInit PROVE CeilingInv
      OBVIOUS
    <2>1. /\ callers = {} /\ now = 0 /\ gLast = 0 /\ gTokens = GlobalCapacity /\ lag = 0
          /\ \A c \in Client : Avail(c) = Capacity
          /\ \A c \in Client : passedAt[c] = [k \in Slot |-> Free]
      BY DEF LoginInit, Init, Avail
    <2>2. GlobalRate * (0 - 0) = 0
      BY GlobalAssumption
    <2>3. GlobalAvail = GlobalCapacity
      BY <2>1, <2>2, GlobalCapacityNat DEF GlobalAvail
    <2>4. Squares({}, AllOwed, MaxOwed) = {} /\ Squares({}, Missing, Capacity) = {}
      BY DEF Squares
    <2>5. Pending = 0 /\ Lacking = 0 /\ Slack = 0
      BY <2>1, <2>4, FS_EmptySet DEF Pending, Lacking, Slack, Total
    <2>6. BalanceInv
      BY <2>3, <2>5, GlobalCapacityNat DEF BalanceInv
    <2>7. StrangerInv /\ LagInv
      BY <2>1 DEF StrangerInv, LagInv
    <2>8. OwedInv
      <3> SUFFICES ASSUME NEW c \in Client, NEW t \in 0..now
                   PROVE  Owed(c, t) <= Missing[c] + (now - t)
        BY DEF OwedInv
      <3>1. t = 0 /\ now - t = 0
        <4>1. t \in Int /\ 0 <= t /\ t <= now
          OBVIOUS
        <4>2. now \in Int /\ now <= 0
          BY <2>1
        <4>3. t = now /\ now - t = 0
          BY <4>1, <4>2
        <4> QED
          BY <2>1, <4>3
      <3>2. Since(c, t) = {}
        BY <2>1, <3>1 DEF Since, Free
      <3>3. Owed(c, t) = 0
        BY <3>2, FS_EmptySet, CostAssumption DEF Owed
      <3>4. Missing[c] = 0
        BY <2>1, CapacityNat DEF Missing
      <3> QED
        BY <3>1, <3>3, <3>4
    <2> QED
      BY <2>6, <2>7, <2>8 DEF CeilingInv
  <1>2. LoginTypeOK /\ LoginTypeOK' /\ CeilingInv /\ [LoginNext]_loginVars => CeilingInv'
    <2> SUFFICES ASSUME LoginTypeOK, LoginTypeOK', CeilingInv, [LoginNext]_loginVars
                 PROVE  CeilingInv'
      OBVIOUS
    <2>1. CASE RewatchGlobal \/ UNCHANGED loginVars
      <3>1. UNCHANGED <<vars, gTokens, gLast, passedAt, callers, lag>>
        BY <2>1 DEF RewatchGlobal, loginVars, globals
      <3>2. Missing' = Missing /\ AllOwed' = AllOwed
        BY <3>1 DEF vars, Missing, AllOwed, Avail, Owed, Since
      <3>3. StrangerInv' /\ LagInv' /\ OwedInv'
        BY <3>1, <3>2 DEF vars, CeilingInv, StrangerInv, LagInv, OwedInv, Avail,
                          Owed, Since
      <3>4. BalanceInv'
        BY <3>1, <3>2 DEF vars, CeilingInv, BalanceInv, CallersFit, GlobalAvail,
                          Pending, Lacking, Slack
      <3> QED
        BY <3>3, <3>4 DEF CeilingInv
    <2> QED
      BY <2>1, PostKeepsCeilingInv, CeilingKeepsCeilingInv, SecondKeepsCeilingInv
      DEF LoginNext
  <1>3. LoginTypeOK /\ CeilingInv => NoSelfDoS
    BY CeilingGrants DEF NoSelfDoS, CallersFit
  <1> QED
    BY <1>1, <1>2, <1>3, InitLoginTypeOK, NextLoginTypeOK, PTL DEF LoginSpec
=============================================================================

---------------------------- MODULE AuditProofs ----------------------------
(* Proofs about Paging and AuditLog: what paginate promises for every list   *)
(* length, page number and size, and the properties of the explorer for any  *)
(* log, window, records and page size.                                       *)
EXTENDS AuditLog, SequenceLemmas

-----------------------------------------------------------------------------
(* Pages.                                                                  *)

\* Multiplying by a page size keeps the order.
LEMMA MulMonotone ==
    ASSUME NEW a \in Int, NEW b \in Int, NEW s \in Nat, a <= b
    PROVE  a * s <= b * s
<1>1. PICK d \in Nat : b = a + d
  <2>1. b - a \in Nat
    OBVIOUS
  <2> QED
    BY <2>1
<1>2. d * s \in Nat
  OBVIOUS
<1>3. b * s = a * s + d * s
  BY <1>1
<1> QED
  BY <1>2, <1>3

\* Integer division rounds down.
LEMMA DivBounds ==
    ASSUME NEW n \in Nat, NEW s \in Nat \ {0}
    PROVE  /\ n \div s \in Nat
           /\ (n \div s) * s <= n
           /\ n < (n \div s) * s + s
<1>1. n \div s \in Nat
  OBVIOUS
<1>2. s * (n \div s) <= n /\ n < s * (n \div s) + s
  OBVIOUS
<1>3. s * (n \div s) = (n \div s) * s
  BY <1>1
<1> QED
  BY <1>1, <1>2, <1>3

\* The pages of a non-empty list cover it, and the last one is not empty.
LEMMA CountBounds ==
    ASSUME NEW total \in Nat \ {0}, NEW s \in Nat \ {0}
    PROVE  LET q == PageCount(total, s) IN
           /\ q \in Nat \ {0}
           /\ total <= q * s
           /\ (q - 1) * s < total
<1> DEFINE n == total + s - 1
           q == n \div s
<1>1. n \in Nat /\ q \in Nat /\ q * s <= n /\ n < q * s + s
  BY DivBounds
<1>2. PageCount(total, s) = q
  BY DEF PageCount
<1> HIDE DEF q
<1>3. q # 0
  <2>1. n >= s
    OBVIOUS
  <2>2. q = 0 => q * s = 0
    OBVIOUS
  <2> QED
    BY <1>1, <2>1, <2>2
<1>4. q * s \in Nat /\ (q - 1) * s = q * s - s
  BY <1>1
<1> QED
  BY <1>1, <1>2, <1>3, <1>4

\* Whatever page is asked for, paginate returns a slice of the list; of a list
\* that is not empty, a slice that is not empty under a page number that exists.
THEOREM SliceInBounds ==
    ASSUME NEW total \in Nat, NEW page \in Int, NEW sz \in Int
    PROVE  LET r == Paginate(total, page, sz) IN
           /\ r.from \in 0..total
           /\ r.to \in r.from..total
           /\ r.page \in Nat \ {0}
           /\ total > 0 => r.page <= r.pages /\ r.from < r.to
<1> DEFINE s == EffectiveSize(sz)
           q == PageCount(total, s)
           k == Clamped(page, q)
           start == (k - 1) * s
           r == Paginate(total, page, sz)
<1>1. s \in Nat \ {0}
  BY PageSizeAssumption DEF EffectiveSize
<1>2. /\ r.page = k /\ r.pages = q
      /\ r.from = AtMost(start, total) /\ r.to = AtMost(start + s, total)
  BY DEF Paginate
<1> HIDE DEF s, r
<1>3. q \in Nat
  <2>1. CASE total = 0
    BY <2>1 DEF PageCount
  <2>2. CASE total # 0
    BY <1>1, <2>2, CountBounds
  <2> QED
    BY <2>1, <2>2
<1>4. total # 0 => q # 0 /\ (q - 1) * s < total
  BY <1>1, CountBounds
<1> HIDE DEF q
<1>5. k \in Nat \ {0} /\ (q # 0 => k <= q)
  BY <1>3 DEF Clamped
<1> HIDE DEF k
<1>6. start \in Nat
  BY <1>1, <1>5
<1>7. total # 0 => start < total
  <2>1. SUFFICES ASSUME total # 0 PROVE start < total
    OBVIOUS
  <2>2. k - 1 \in Int /\ q - 1 \in Int /\ k - 1 <= q - 1
    BY <1>3, <1>4, <1>5, <2>1
  <2>3. start <= (q - 1) * s
    BY <1>1, <2>2, MulMonotone
  <2>4. (q - 1) * s \in Int
    BY <1>1, <1>3
  <2> QED
    BY <1>4, <1>6, <2>1, <2>3, <2>4
<1> HIDE DEF start
<1> QED
  BY <1>1, <1>2, <1>3, <1>4, <1>5, <1>6, <1>7 DEF AtMost, r

\* Walking the pages of a list shows every entry, and shows it on one page only.
THEOREM PagesPartition ==
    ASSUME NEW total \in Nat \ {0}, NEW sz \in Int, NEW i \in 0..(total - 1)
    PROVE  LET Q == PageCount(total, EffectiveSize(sz))
               On(k) == LET r == Paginate(total, k, sz)
                        IN  r.from <= i /\ i < r.to
           IN  /\ \E k \in 1..Q : On(k)
               /\ \A k, l \in 1..Q : On(k) /\ On(l) => k = l
<1> DEFINE s == EffectiveSize(sz)
           Q == PageCount(total, s)
           On(k) == LET r == Paginate(total, k, sz)
                    IN  r.from <= i /\ i < r.to
           p == i \div s
<1>1. s \in Nat \ {0}
  BY PageSizeAssumption DEF EffectiveSize
<1>2. Q \in Nat \ {0} /\ total <= Q * s
  BY <1>1, CountBounds
<1>3. \A k \in 1..Q : On(k) <=> (k - 1) * s <= i /\ i < (k - 1) * s + s
  <2>1. SUFFICES ASSUME NEW k \in 1..Q
                 PROVE  On(k) <=> (k - 1) * s <= i /\ i < (k - 1) * s + s
    OBVIOUS
  <2>2. Clamped(k, Q) = k
    BY <1>2 DEF Clamped
  <2>3. /\ Paginate(total, k, sz).from = AtMost((k - 1) * s, total)
        /\ Paginate(total, k, sz).to = AtMost((k - 1) * s + s, total)
    BY <2>2 DEF Paginate
  <2>4. (k - 1) * s \in Int
    BY <1>1, <1>2
  <2> HIDE DEF s
  <2> QED
    BY <1>1, <2>3, <2>4 DEF AtMost
<1> HIDE DEF s, Q, On
<1>4. p \in Nat /\ p * s <= i /\ i < p * s + s
  BY <1>1, DivBounds
<1> HIDE DEF p
<1>5. p + 1 \in 1..Q
  <2>1. CASE Q <= p
    <3>1. Q * s <= p * s
      BY <1>1, <1>2, <1>4, <2>1, MulMonotone
    <3>2. Q * s \in Int /\ p * s \in Int
      BY <1>1, <1>2, <1>4
    <3> QED
      BY <1>2, <1>4, <3>1, <3>2
  <2> QED
    BY <1>2, <1>4, <2>1
<1>6. On(p + 1)
  <2>1. (p + 1) - 1 = p
    BY <1>4
  <2> QED
    BY <1>3, <1>4, <1>5, <2>1
<1>7. ASSUME NEW k \in 1..Q, NEW l \in 1..Q, On(k), On(l), k < l
      PROVE  FALSE
  <2>1. k - 1 \in Int /\ k \in Int /\ l - 1 \in Int /\ k <= l - 1
    BY <1>2, <1>7
  <2>2. k * s <= (l - 1) * s
    BY <1>1, <2>1, MulMonotone
  <2>3. k * s = (k - 1) * s + s /\ k * s \in Int /\ (l - 1) * s \in Int
    BY <1>1, <2>1
  <2>4. i < (k - 1) * s + s /\ (l - 1) * s <= i
    BY <1>3, <1>7
  <2> QED
    BY <2>2, <2>3, <2>4
<1>8. \A k, l \in 1..Q : On(k) /\ On(l) => k = l
  <2>1. SUFFICES ASSUME NEW k \in 1..Q, NEW l \in 1..Q, On(k), On(l)
                 PROVE  k = l
    OBVIOUS
  <2>2. ~(k < l) /\ ~(l < k)
    BY <1>7, <2>1
  <2> QED
    BY <1>2, <2>2
<1> QED
  BY <1>5, <1>6, <1>8 DEF s, Q, On

-----------------------------------------------------------------------------
(* The entries of a window.                                                *)

Cell == Nat \X Nat
Record == [size : Sizes, tx : Transactions]

\* The cells of the records are in the order in which they were written.
InOrder(data) ==
    \A i, j \in DOMAIN data :
      i < j /\ data[i][1] # 0 /\ data[j][1] # 0 =>
        \/ data[i][1] < data[j][1]
        \/ data[i][1] = data[j][1] /\ data[i][2] < data[j][2]

\* A cell of a window is a newline, a zero byte, or of a record.
Known(data) == \A i \in DOMAIN data : data[i][1] = 0 \/ data[i][1] \in DOMAIN written

Decreasing(l) == \A i, j \in DOMAIN l : i < j => l[i] > l[j]

LEMMA CellFacts ==
    /\ NL \in Cell /\ NL[1] = 0 /\ NL[2] = 0
    /\ NUL \in Cell /\ NUL[1] = 0 /\ NUL # NL
    /\ \A c \in Cell : c[1] \in Nat /\ c[2] \in Nat /\ c = <<c[1], c[2]>>
    /\ \A m, n \in Nat : <<m, n>> \in Cell /\ <<m, n>>[1] = m /\ <<m, n>>[2] = n
  BY DEF Cell, NL, NUL

\* Where an entry was found there is the first cell of its record.
LEMMA HitFacts ==
    ASSUME NEW data \in Seq(Cell), NEW a \in Hits(data)
    PROVE  a \in DOMAIN data /\ a \in 1..Len(data) /\ data[a][1] # 0 /\ data[a][2] = 1
  <1>0. DOMAIN data = 1..Len(data) /\ Len(data) \in Nat
    OBVIOUS
  <1>1. CASE HasNewline(data)
    <2>1. a \in LineStarts(data)
      BY <1>1 DEF Hits
    <2>2. PICK b \in a..Len(data) : a \in DOMAIN data /\ IsRecord(data, a, b)
      BY <2>1 DEF LineStarts
    <2>3. a \in a..b /\ a - a + 1 = 1
      BY <1>0, <2>2
    <2>4. data[a][1] # 0 /\ data[a] = <<data[a][1], 1>>
      BY <2>2, <2>3 DEF IsRecord
    <2> QED
      BY <1>0, <2>2, <2>4
  <1>2. CASE ~HasNewline(data)
    <2>1. a \in ObjectStarts(data)
      BY <1>2 DEF Hits
    <2>2. /\ a \in DOMAIN data /\ data[a][2] = 1
          /\ \A i \in 1..a : \E st \in 1..i, e \in i..Len(data) : IsRecord(data, st, e)
      BY <2>1 DEF ObjectStarts
    <2>3. a \in 1..a
      BY <1>0, <2>2
    <2>4. PICK st \in 1..a, e \in a..Len(data) : IsRecord(data, st, e)
      BY <2>2, <2>3
    <2>5. a \in st..e
      BY <1>0, <2>2, <2>4
    <2>6. data[st][1] # 0 /\ data[a] = <<data[st][1], a - st + 1>>
      BY <2>4, <2>5 DEF IsRecord
    <2> QED
      BY <1>0, <2>2, <2>6
  <1> QED
    BY <1>1, <1>2

\* The list has the record of every hit, newest first.
LEMMA EntriesFacts ==
    ASSUME NEW data \in Seq(Cell), InOrder(data), Known(data)
    PROVE  /\ Entries(data) \in Seq(DOMAIN written)
           /\ Decreasing(Entries(data))
           /\ ToSet(Entries(data)) = {data[a][1] : a \in Hits(data)}
  <1> DEFINE n == Len(data)
             S == Hits(data)
             v == [a \in 1..n |-> data[a][1]]
             ss == [a \in 1..n |-> IF a \in S THEN <<v[a]>> ELSE <<>>]
             q == FlattenSeq(ss)
             l == Entries(data)
  <1>1. n \in Nat /\ DOMAIN data = 1..n /\ \A a \in 1..n : data[a] \in Cell /\ data[a][1] \in Nat
    BY CellFacts
  <1>2. \A a \in S : a \in 1..n /\ data[a][1] # 0 /\ data[a][2] = 1
    BY HitFacts
  <1>3. \A a \in 1..n : v[a] = data[a][1] /\ v[a] \in Nat
    BY <1>1
  <1>4. [a \in DOMAIN data |-> IF a \in Hits(data) THEN <<data[a][1]>> ELSE <<>>] = ss
    BY <1>1, <1>3
  <1>5. l = Reverse(q)
    BY <1>4, Zenon DEF Entries, InFileOrder
  <1> HIDE DEF n, S, v
  <1>6. q \in Seq(Nat) /\ \E p : Picks(v, S, q, n, p)
    BY <1>1, <1>3, FlattenPicks
  <1> HIDE DEF ss, q, l
  <1>7. PICK p : Picks(v, S, q, n, p)
    BY <1>6
  <1> DEFINE m == Len(q)
  <1>8. /\ m \in Nat
        /\ \A i \in 1..m : p[i] \in S /\ p[i] \in 1..n /\ q[i] = v[p[i]]
        /\ \A i, j \in 1..m : i < j => p[i] < p[j]
        /\ \A a \in S : \E i \in 1..m : p[i] = a
    <2>1. /\ p \in [1..m -> S \cap (1..n)]
          /\ \A i, j \in 1..m : i < j => p[i] < p[j]
          /\ \A i \in 1..m : q[i] = v[p[i]]
          /\ \A a \in S \cap (1..n) : \E i \in 1..m : p[i] = a
      BY <1>7 DEF Picks
    <2>2. m \in Nat
      BY <1>6
    <2> HIDE DEF m
    <2>3. \A i \in 1..m : p[i] \in S \cap (1..n)
      BY <2>1
    <2>4. S \subseteq 1..n
      BY <1>2
    <2> QED
      BY <2>1, <2>2, <2>3, <2>4
  <1>9. l = [i \in 1..m |-> q[(m - i) + 1]]
    BY <1>5 DEF Reverse
  <1> HIDE DEF m
  <1>10. \A i \in 1..m : (m - i) + 1 \in 1..m /\ l[i] = q[(m - i) + 1]
    BY <1>8, <1>9
  <1>11. \A i \in 1..m : q[i] \in DOMAIN written
    <2>1. \A a \in S : a \in 1..n /\ data[a][1] \in DOMAIN written
      BY <1>1, <1>2 DEF Known
    <2>2. \A i \in 1..m : p[i] \in S /\ q[i] = data[p[i]][1]
      BY <1>3, <1>8
    <2> QED
      BY <2>1, <2>2
  <1>12. l \in [1..m -> DOMAIN written] /\ DOMAIN l = 1..m
    BY <1>9, <1>10, <1>11
  <1>13. l \in Seq(DOMAIN written)
    BY <1>8, <1>12
  <1>14. ASSUME NEW i \in 1..m, NEW j \in 1..m, i < j PROVE q[i] < q[j]
    <2>1. /\ p[i] \in 1..n /\ p[j] \in 1..n /\ p[i] < p[j] /\ p[i] \in S /\ p[j] \in S
          /\ q[i] = data[p[i]][1] /\ q[j] = data[p[j]][1]
      BY <1>3, <1>8, <1>14
    <2>2. /\ data[p[i]][1] # 0 /\ data[p[j]][1] # 0
          /\ data[p[i]][2] = 1 /\ data[p[j]][2] = 1
      BY <1>2, <2>1
    <2>3. \/ data[p[i]][1] < data[p[j]][1]
          \/ data[p[i]][1] = data[p[j]][1] /\ data[p[i]][2] < data[p[j]][2]
      BY <1>1, <2>1, <2>2 DEF InOrder
    <2> QED
      BY <2>1, <2>2, <2>3
  <1>15. Decreasing(l)
    <2>1. SUFFICES ASSUME NEW i \in 1..m, NEW j \in 1..m, i < j PROVE l[i] > l[j]
      BY <1>12 DEF Decreasing
    <2>2. (m - j) + 1 \in 1..m /\ (m - i) + 1 \in 1..m /\ (m - j) + 1 < (m - i) + 1
      BY <1>8, <2>1
    <2>3. q[(m - j) + 1] < q[(m - i) + 1]
      BY <1>14, <2>2
    <2>4. \A x \in 1..m : q[x] \in Nat
      BY <1>3, <1>8
    <2> QED
      BY <1>10, <2>1, <2>2, <2>3, <2>4
  <1>16. ToSet(l) = {data[a][1] : a \in S}
    <2>1. ToSet(l) = {l[i] : i \in 1..m}
      BY <1>12 DEF ToSet
    <2>2. ASSUME NEW i \in 1..m PROVE \E a \in S : l[i] = data[a][1]
      <3>1. (m - i) + 1 \in 1..m /\ l[i] = q[(m - i) + 1]
        BY <1>10
      <3> DEFINE j == (m - i) + 1
      <3> HIDE DEF j
      <3>2. p[j] \in S /\ p[j] \in 1..n /\ q[j] = v[p[j]]
        BY <1>8, <3>1 DEF j
      <3>3. l[i] = data[p[j]][1]
        BY <1>3, <3>1, <3>2 DEF j
      <3> QED
        BY <3>2, <3>3
    <2>3. ASSUME NEW a \in S PROVE \E i \in 1..m : l[i] = data[a][1]
      <3>1. PICK i \in 1..m : p[i] = a
        BY <1>8
      <3>2. (m - i) + 1 \in 1..m /\ (m - ((m - i) + 1)) + 1 = i
        BY <1>8
      <3>3. l[(m - i) + 1] = q[i]
        BY <1>10, <3>2
      <3> QED
        BY <1>3, <1>8, <3>1, <3>2, <3>3
    <2> QED
      BY <2>1, <2>2, <2>3
  <1> QED
    BY <1>13, <1>15, <1>16 DEF l, S

-----------------------------------------------------------------------------
(* The window over the file.                                               *)

Recorded(data) == \A i \in DOMAIN data : data[i] = NL \/ data[i][1] \in DOMAIN written

LogInv ==
    /\ written \in Seq(Record)
    /\ log \in Seq(Cell) /\ Recorded(log) /\ InOrder(log)
    /\ atStat \in Seq(Cell) /\ Recorded(atStat)
    /\ size = Len(atStat)

\* What ReadAt leaves in the buffer.
Buf == [i \in 1..Window |->
          IF size - Window + i <= Len(log) THEN log[size - Window + i] ELSE NUL]

LEMMA BufFacts ==
    ASSUME LogInv, size > Window
    PROVE  /\ Buf \in Seq(Cell) /\ Len(Buf) = Window /\ Window \in Nat /\ size \in Nat
           /\ DOMAIN Buf = 1..Window
           /\ \A i \in 1..Window :
                \/ /\ size - Window + i \in 1..Len(log)
                   /\ Buf[i] = log[size - Window + i]
                \/ /\ Buf[i] = NUL
                   /\ size - Window + i > Len(log)
  <1>1. Window \in Nat /\ size \in Nat /\ Len(log) \in Nat
    BY WindowAssumption DEF LogInv
  <1>2. \A i \in 1..Window : size - Window + i \in Nat /\ size - Window + i >= 1
    BY <1>1
  <1>3. ASSUME NEW i \in 1..Window
        PROVE  \/ /\ size - Window + i \in 1..Len(log)
                  /\ Buf[i] = log[size - Window + i]
               \/ /\ Buf[i] = NUL
                  /\ size - Window + i > Len(log)
    BY <1>1, <1>2 DEF Buf
  <1>4. \A i \in 1..Len(log) : log[i] \in Cell
    BY DEF LogInv
  <1>5. \A i \in 1..Window : Buf[i] \in Cell
    BY <1>3, <1>4, CellFacts
  <1>6. Buf = [i \in 1..Window |-> Buf[i]]
    BY DEF Buf
  <1>7. Buf \in [1..Window -> Cell]
    BY <1>5, <1>6
  <1> QED
    BY <1>1, <1>3, <1>7

\* data is the buffer from after its first newline, which is at k, or all of a
\* buffer without newlines, when k is 0.
CutAt(data, k) ==
    /\ data \in Seq(Cell) /\ Len(data) = Window - k
    /\ DOMAIN data = 1..(Window - k)
    /\ \A i \in 1..(Window - k) : data[i] = Buf[k + i] /\ k + i \in 1..Window
    /\ \A j \in 1..(k - 1) : Buf[j] # NL
    /\ k = 0 => \A j \in 1..Window : Buf[j] # NL
    /\ k > 0 => Buf[k] = NL

LEMMA WindowCut ==
    ASSUME LogInv, size > Window
    PROVE  \E k \in 0..Window : CutAt(TailWindow, k)
  <1>1. /\ Buf \in Seq(Cell) /\ Len(Buf) = Window /\ Window \in Nat /\ size \in Nat
        /\ DOMAIN Buf = 1..Window
    BY BufFacts
  <1>2. ~(size <= Window)
    BY <1>1
  <1>3. CASE HasNewline(Buf)
    <2> DEFINE k == SelectInSeq(Buf, LAMBDA c : c = NL)
    <2>1. TailWindow = SubSeq(Buf, k + 1, Window)
      BY <1>2, <1>3 DEF TailWindow, Buf
    <2>2. \E i \in 1..Len(Buf) : Buf[i] = NL
      BY <1>1, <1>3 DEF HasNewline
    <2>3. k \in 1..Len(Buf) /\ Buf[k] = NL /\ \A j \in 1..(k - 1) : Buf[j] # NL
      BY <1>1, <2>2, FirstFacts
    <2> HIDE DEF k
    <2>4. k \in 1..Window /\ k \in 0..Window /\ k > 0 /\ k \in Nat
      BY <1>1, <2>3
    <2>5. \A i \in 1..(Window - k) : k + i \in 1..Window /\ k + i = (k + 1) + i - 1
      BY <1>1, <2>4
    <2>6. /\ SubSeq(Buf, k + 1, Window) \in Seq(Cell)
          /\ Len(SubSeq(Buf, k + 1, Window)) = Window - k
          /\ \A i \in 1..(Window - k) : SubSeq(Buf, k + 1, Window)[i] = Buf[k + i]
      <3>1. CASE k + 1 <= Window
        <4>1. k + 1 \in 1..Len(Buf) /\ Window \in (k + 1)..Len(Buf) /\ Window - (k + 1) + 1 = Window - k
          BY <1>1, <2>4, <3>1
        <4>2. \A i \in 1..(Window - k) : k + 1 + i - 1 = k + i
          BY <1>1, <2>4
        <4> HIDE DEF Buf
        <4> QED
          BY <1>1, <2>4, <2>5, <4>1, <4>2
      <3>2. CASE ~(k + 1 <= Window)
        <4>1. k = Window /\ Window - k = 0
          BY <1>1, <2>4, <3>2
        <4> HIDE DEF Buf
        <4> QED
          BY <1>1, <2>4, <4>1
      <3> QED
        BY <3>1, <3>2
    <2>7. DOMAIN TailWindow = 1..(Window - k)
      BY <2>1, <2>6
    <2>8. CutAt(TailWindow, k)
      BY <2>1, <2>3, <2>4, <2>5, <2>6, <2>7 DEF CutAt
    <2> QED
      BY <2>4, <2>8
  <1>4. CASE ~HasNewline(Buf)
    <2>1. TailWindow = Buf
      BY <1>2, <1>4 DEF TailWindow, Buf
    <2>2. \A j \in 1..Window : Buf[j] # NL
      BY <1>1, <1>4 DEF HasNewline
    <2>3. \A i \in 1..Window : 0 + i = i
      BY <1>1
    <2>4. 0 \in 0..Window /\ Window - 0 = Window
      BY <1>1
    <2> HIDE DEF Buf
    <2>5. CutAt(TailWindow, 0)
      BY <1>1, <2>1, <2>2, <2>3, <2>4 DEF CutAt
    <2> QED
      BY <2>4, <2>5
  <1> QED
    BY <1>3, <1>4

\* Whatever was written or truncated since Stat, the window has the cells of
\* the records in order.
LEMMA WindowFacts ==
    ASSUME LogInv
    PROVE  TailWindow \in Seq(Cell) /\ InOrder(TailWindow) /\ Known(TailWindow)
  <1>0. /\ log \in Seq(Cell) /\ DOMAIN log = 1..Len(log) /\ Len(log) \in Nat
        /\ InOrder(log) /\ Recorded(log)
        /\ size \in Nat /\ Window \in Nat
    BY WindowAssumption DEF LogInv
  <1>1. Known(log)
    BY <1>0, CellFacts DEF Known, Recorded
  <1>2. CASE size <= Window
    BY <1>0, <1>1, <1>2 DEF TailWindow
  <1>3. CASE ~(size <= Window)
    <2>0. size > Window
      BY <1>0, <1>3
    <2>1. PICK k \in 0..Window : CutAt(TailWindow, k)
      BY <2>0, WindowCut
    <2> DEFINE data == TailWindow
               off == size - Window + k
    <2>2. /\ data \in Seq(Cell) /\ DOMAIN data = 1..(Window - k)
          /\ \A i \in 1..(Window - k) : data[i] = Buf[k + i] /\ k + i \in 1..Window
      BY <2>1 DEF CutAt
    <2>3. \A i \in 1..Window :
            \/ size - Window + i \in 1..Len(log) /\ Buf[i] = log[size - Window + i]
            \/ Buf[i] = NUL
      BY <2>0, BufFacts
    <2>4. off \in Int /\ \A i \in 1..(Window - k) : size - Window + (k + i) = off + i
      BY <1>0
    <2> HIDE DEF data, off
    <2>5. ASSUME NEW i \in 1..(Window - k), data[i][1] # 0
          PROVE  off + i \in 1..Len(log) /\ data[i] = log[off + i]
      BY <2>2, <2>3, <2>4, <2>5, CellFacts
    <2>6. Known(data)
      BY <1>0, <1>1, <2>2, <2>5 DEF Known
    <2>7. ASSUME NEW i \in 1..(Window - k), NEW j \in 1..(Window - k), i < j,
                 data[i][1] # 0, data[j][1] # 0
          PROVE  \/ data[i][1] < data[j][1]
                 \/ data[i][1] = data[j][1] /\ data[i][2] < data[j][2]
      <3>1. /\ off + i \in 1..Len(log) /\ data[i] = log[off + i]
            /\ off + j \in 1..Len(log) /\ data[j] = log[off + j]
            /\ off + i < off + j
        BY <2>4, <2>5, <2>7
      <3> QED
        BY <1>0, <2>7, <3>1 DEF InOrder
    <2>8. InOrder(data)
      BY <2>2, <2>7 DEF InOrder
    <2> QED
      BY <2>2, <2>6, <2>8 DEF data
  <1> QED
    BY <1>2, <1>3

-----------------------------------------------------------------------------
(* The file.                                                               *)

\* What a write of record n adds to the file, whole or torn.
Addition(new, n) ==
    /\ new \in Seq(Cell) /\ Len(new) > 0 /\ new[1] = <<n, 1>>
    /\ \A i \in 1..Len(new) : new[i] = <<n, i>> \/ new[i] = NL

LEMMA CellsFacts ==
    ASSUME NEW n \in Nat, NEW k \in Nat \ {0}
    PROVE  /\ Addition(Cells(n, k), n)
           /\ Addition(Cells(n, k) \o <<NL>>, n)
  <1> DEFINE c == Cells(n, k)
             d == c \o <<NL>>
  <1>1. c = [i \in 1..k |-> <<n, i>>]
    BY DEF Cells
  <1>2. \A i \in 1..k : c[i] = <<n, i>> /\ <<n, i>> \in Cell
    BY <1>1, CellFacts
  <1>3. c \in [1..k -> Cell]
    BY <1>1, <1>2
  <1> HIDE DEF c
  <1>4. c \in Seq(Cell) /\ Len(c) = k
    BY <1>3
  <1>5. Addition(c, n)
    <2>1. 1 \in 1..k /\ k > 0
      OBVIOUS
    <2>2. c[1] = <<n, 1>> /\ \A i \in 1..k : c[i] = <<n, i>>
      BY <1>2, <2>1
    <2>3. Len(c) > 0 /\ \A i \in 1..Len(c) : c[i] = <<n, i>> \/ c[i] = NL
      BY <1>4, <2>1, <2>2
    <2> QED
      BY <1>4, <2>2, <2>3 DEF Addition
  <1> DEFINE e == <<NL>>
  <1>6. e \in Seq(Cell) /\ Len(e) = 1 /\ e[1] = NL
    BY CellFacts
  <1> HIDE DEF e
  <1>7. /\ d \in Seq(Cell) /\ Len(d) = k + 1
        /\ \A j \in 1..(k + 1) : d[j] = IF j <= k THEN c[j] ELSE e[j - k]
    <2>1. /\ c \o e \in Seq(Cell) /\ Len(c \o e) = Len(c) + Len(e)
          /\ \A j \in 1..Len(c) + Len(e) : (c \o e)[j] = IF j <= Len(c) THEN c[j] ELSE e[j - Len(c)]
      BY <1>4, <1>6, ConcatProperties
    <2>2. d = c \o e
      BY DEF e
    <2> QED
      BY <1>4, <1>6, <2>1, <2>2
  <1> HIDE DEF d
  <1>8. ASSUME NEW j \in 1..(k + 1) PROVE d[j] = <<n, j>> \/ d[j] = NL
    <2>1. CASE j <= k
      <3>1. j \in 1..k
        BY <2>1
      <3>2. d[j] = c[j]
        BY <1>7, <2>1
      <3> QED
        BY <1>2, <3>1, <3>2
    <2>2. CASE ~(j <= k)
      <3>1. j - k = 1
        BY <2>2
      <3> QED
        BY <1>6, <1>7, <2>2, <3>1
    <2> QED
      BY <2>1, <2>2
  <1>9. d[1] = <<n, 1>>
    <2>1. 1 \in 1..(k + 1) /\ 1 <= k /\ 1 \in 1..k
      OBVIOUS
    <2>2. d[1] = c[1]
      BY <1>7, <2>1
    <2> QED
      BY <1>2, <2>1, <2>2
  <1>10. Len(d) > 0 /\ \A j \in 1..Len(d) : d[j] = <<n, j>> \/ d[j] = NL
    BY <1>7, <1>8
  <1>11. Addition(d, n)
    BY <1>7, <1>9, <1>10 DEF Addition
  <1> QED
    BY <1>5, <1>11 DEF c, d

LEMMA AppendFacts ==
    ASSUME LogInv, Append1
    PROVE  /\ \E rec \in Record : written' = Append(written, rec)
           /\ \E new : Addition(new, Len(written) + 1) /\ log' = log \o new
           /\ UNCHANGED reader
  <1> DEFINE n == Len(written) + 1
  <1>1. n \in Nat /\ log \in Seq(Cell)
    BY DEF LogInv
  <1>2. PICK sz \in Sizes, tx \in Transactions, fmt \in Formats :
          /\ written' = Append(written, [size |-> sz, tx |-> tx])
          /\ \/ log' = log \o Cells(n, sz) \o (IF fmt = "jsonl" THEN <<NL>> ELSE <<>>)
             \/ \E k \in 1..sz : log' = log \o Cells(n, k)
    BY DEF Append1
  <1>3. sz \in Nat \ {0} /\ [size |-> sz, tx |-> tx] \in Record
    BY SizesAssumption DEF Record
  <1> HIDE DEF n
  <1>4. \A k \in Nat \ {0} : /\ Addition(Cells(n, k), n) /\ Cells(n, k) \in Seq(Cell)
                            /\ Addition(Cells(n, k) \o <<NL>>, n)
    BY <1>1, CellsFacts DEF Addition
  <1>5. \E new : Addition(new, n) /\ log' = log \o new
    <2>1. CASE \E k \in 1..sz : log' = log \o Cells(n, k)
      <3>1. PICK k \in 1..sz : log' = log \o Cells(n, k)
        BY <2>1
      <3>2. k \in Nat \ {0}
        BY <1>3
      <3> QED
        BY <1>4, <3>1, <3>2
    <2>2. CASE log' = (log \o Cells(n, sz)) \o (IF fmt = "jsonl" THEN <<NL>> ELSE <<>>)
      <3>1. CASE fmt = "jsonl"
        <4>1. log' = (log \o Cells(n, sz)) \o <<NL>>
          BY <2>2, <3>1
        <4>2. <<NL>> \in Seq(Cell) /\ Cells(n, sz) \in Seq(Cell)
          BY <1>3, <1>4, CellFacts
        <4>3. (log \o Cells(n, sz)) \o <<NL>> = log \o (Cells(n, sz) \o <<NL>>)
          BY <1>1, <4>2, ConcatAssociative
        <4> QED
          BY <1>3, <1>4, <4>1, <4>3
      <3>2. CASE fmt # "jsonl"
        <4>1. log' = (log \o Cells(n, sz)) \o <<>>
          BY <2>2, <3>2
        <4>2. log \o Cells(n, sz) \in Seq(Cell)
          BY <1>1, <1>3, <1>4, ConcatProperties
        <4>3. log' = log \o Cells(n, sz)
          BY <4>1, <4>2, ConcatEmptySeq
        <4> QED
          BY <1>3, <1>4, <4>3
      <3> QED
        BY <3>1, <3>2
    <2> QED
      BY <1>2, <2>1, <2>2
  <1>6. UNCHANGED reader
    BY DEF Append1
  <1> QED
    BY <1>2, <1>3, <1>5, <1>6 DEF n

\* Records are numbered as they are written, and keep what they say.
LEMMA WrittenGrows ==
    ASSUME LogInv, [Next]_vars
    PROVE  /\ written' \in Seq(Record) /\ DOMAIN written \subseteq DOMAIN written'
           /\ DOMAIN written = 1..Len(written) /\ Len(written) \in Nat
           /\ \A n \in DOMAIN written : written'[n] = written[n]
           /\ Append1 => Len(written) + 1 \in DOMAIN written'
  <1>1. written \in Seq(Record) /\ DOMAIN written = 1..Len(written) /\ Len(written) \in Nat
    BY DEF LogInv
  <1>2. CASE Append1
    <2>1. PICK rec \in Record : written' = Append(written, rec)
      BY <1>2, AppendFacts
    <2>2. /\ written' \in Seq(Record) /\ Len(written') = Len(written) + 1
          /\ \A i \in 1..Len(written) : written'[i] = written[i]
      BY <1>1, <2>1, AppendProperties
    <2>3. DOMAIN written' = 1..(Len(written) + 1)
      BY <2>2
    <2> QED
      BY <1>1, <2>2, <2>3
  <1>3. CASE ~Append1
    <2>1. UNCHANGED written
      BY <1>3 DEF Next, Truncate, Open, Show, vars
    <2> QED
      BY <1>1, <1>3, <2>1
  <1> QED
    BY <1>2, <1>3

LEMMA NextLogInv == LogInv /\ [Next]_vars => LogInv'
  <1> SUFFICES ASSUME LogInv, [Next]_vars PROVE LogInv'
    OBVIOUS
  <1>1. /\ written \in Seq(Record) /\ log \in Seq(Cell) /\ Recorded(log) /\ InOrder(log)
        /\ atStat \in Seq(Cell) /\ Recorded(atStat) /\ size = Len(atStat)
    BY DEF LogInv
  <1>2. /\ written' \in Seq(Record) /\ DOMAIN written \subseteq DOMAIN written'
        /\ DOMAIN written = 1..Len(written) /\ Len(written) \in Nat
        /\ Append1 => Len(written) + 1 \in DOMAIN written'
    BY WrittenGrows
  <1>3. CASE Append1
    <2> DEFINE n == Len(written) + 1
               m == Len(log)
    <2>1. PICK new : Addition(new, n) /\ log' = log \o new
      BY <1>3, AppendFacts
    <2>2. /\ new \in Seq(Cell) /\ Len(new) \in Nat /\ m \in Nat /\ n \in Nat
          /\ \A i \in 1..Len(new) : new[i] = <<n, i>> \/ new[i] = NL
      BY <1>1, <2>1 DEF Addition
    <2>3. /\ log' \in Seq(Cell) /\ Len(log') = m + Len(new)
          /\ \A j \in 1..m + Len(new) : log'[j] = IF j <= m THEN log[j] ELSE new[j - m]
      BY <1>1, <2>1, <2>2, ConcatProperties
    <2>4. DOMAIN log' = 1..(m + Len(new)) /\ DOMAIN log = 1..m
      BY <1>1, <2>3
    <2> HIDE DEF n, m
    <2>5. \A j \in 1..(m + Len(new)) :
            \/ j \in 1..m /\ log'[j] = log[j]
            \/ j > m /\ log'[j] = <<n, j - m>>
            \/ j > m /\ log'[j] = NL
      <3>1. SUFFICES ASSUME NEW j \in 1..(m + Len(new))
                     PROVE  \/ j \in 1..m /\ log'[j] = log[j]
                            \/ j > m /\ log'[j] = <<n, j - m>>
                            \/ j > m /\ log'[j] = NL
        OBVIOUS
      <3>2. CASE j <= m
        BY <2>2, <2>3, <3>2
      <3>3. CASE ~(j <= m)
        <4>1. j - m \in 1..Len(new) /\ j > m /\ log'[j] = new[j - m]
          BY <2>2, <2>3, <3>3
        <4> QED
          BY <2>2, <4>1
      <3> QED
        BY <3>2, <3>3
    <2>6. \A i \in 1..m : log[i] = NL \/ log[i][1] \in 1..(n - 1)
      BY <1>1, <1>2, <2>4 DEF Recorded, n
    <2>7. \A j \in 1..(m + Len(new)) : j - m \in Int
      BY <2>2
    <2>8. \A j \in 1..(m + Len(new)) : j > m =>
            log'[j] = NL \/ (log'[j][1] = n /\ log'[j][2] = j - m)
      <3>1. SUFFICES ASSUME NEW j \in 1..(m + Len(new)), j > m, log'[j] = <<n, j - m>>
                     PROVE  log'[j][1] = n /\ log'[j][2] = j - m
        BY <2>2, <2>5
      <3> QED
        BY <3>1
    <2>9. Recorded(log)'
      <3>1. SUFFICES ASSUME NEW j \in 1..(m + Len(new))
                     PROVE  log'[j] = NL \/ log'[j][1] \in DOMAIN written'
        BY <2>4 DEF Recorded, NL
      <3> QED
        BY <1>2, <1>3, <2>2, <2>5, <2>6, <2>8, <3>1 DEF n
    <2>10. InOrder(log)'
      <3>1. SUFFICES ASSUME NEW i \in 1..(m + Len(new)), NEW j \in 1..(m + Len(new)),
                            i < j, log'[i][1] # 0, log'[j][1] # 0
                     PROVE  \/ log'[i][1] < log'[j][1]
                            \/ log'[i][1] = log'[j][1] /\ log'[i][2] < log'[j][2]
        BY <2>4 DEF InOrder
      <3>2. CASE j \in 1..m
        <4>1. i \in 1..m
          BY <2>2, <3>1, <3>2
        <4>2. log'[i] = log[i] /\ log'[j] = log[j]
          BY <2>2, <2>5, <3>2, <4>1
        <4> QED
          BY <1>1, <2>4, <3>1, <3>2, <4>1, <4>2 DEF InOrder
      <3>3. CASE j > m
        <4>1. log'[j][1] = n /\ log'[j][2] = j - m
          BY <2>8, <3>1, <3>3, CellFacts
        <4>2. CASE i \in 1..m
          <5>1. log'[i] = log[i]
            BY <2>2, <2>5, <4>2
          <5>2. log'[i][1] \in 1..(n - 1)
            BY <2>6, <3>1, <4>2, <5>1, CellFacts
          <5> QED
            BY <2>2, <4>1, <5>2
        <4>3. CASE i > m
          <5>1. log'[i][1] = n /\ log'[i][2] = i - m
            BY <2>8, <3>1, <4>3, CellFacts
          <5>2. i - m < j - m
            BY <2>2, <3>1
          <5> QED
            BY <4>1, <5>1, <5>2
        <4> QED
          BY <2>2, <4>2, <4>3
      <3> QED
        BY <2>2, <3>2, <3>3
    <2>11. atStat' = atStat /\ size' = size
      BY <1>3 DEF Append1, reader
    <2>12. Recorded(atStat)'
      BY <1>1, <1>2, <2>11 DEF Recorded, NL
    <2> QED
      BY <1>1, <1>2, <2>3, <2>9, <2>10, <2>11, <2>12 DEF LogInv
  <1>4. CASE Truncate
    <2>1. log' = <<>> /\ UNCHANGED <<written, atStat, size>>
      BY <1>4 DEF Truncate, reader
    <2>2. <<>> \in Seq(Cell) /\ DOMAIN <<>> = {}
      OBVIOUS
    <2>3. Recorded(log)' /\ InOrder(log)'
      BY <2>1, <2>2 DEF Recorded, InOrder
    <2>4. Recorded(atStat)'
      BY <1>1, <2>1 DEF Recorded, NL
    <2> QED
      BY <1>1, <2>1, <2>2, <2>3, <2>4 DEF LogInv
  <1>5. CASE Open
    <2>1. /\ UNCHANGED <<log, written>>
          /\ \/ atStat' = log /\ size' = Len(log)
             \/ atStat' = <<>> /\ size' = 0
      BY <1>5 DEF Open
    <2>2. <<>> \in Seq(Cell) /\ DOMAIN <<>> = {} /\ Len(<<>>) = 0
      OBVIOUS
    <2>3. Recorded(atStat)'
      BY <1>1, <2>1, <2>2 DEF Recorded, NL
    <2> QED
      <3>1. Recorded(log)' /\ InOrder(log)'
        BY <1>1, <2>1 DEF Recorded, InOrder, NL
      <3> QED
        BY <1>1, <2>1, <2>2, <2>3, <3>1 DEF LogInv
  <1>6. CASE Show \/ UNCHANGED vars
    <2>1. UNCHANGED <<log, written, atStat, size>>
      BY <1>6 DEF Show, vars
    <2> QED
      BY <1>1, <2>1 DEF LogInv, Recorded, InOrder, NL
  <1> QED
    BY <1>3, <1>4, <1>5, <1>6 DEF Next

-----------------------------------------------------------------------------
(* The list and its pages.                                                 *)

\* r is a page of a list of the given length.
IsPage(r, total) ==
    /\ r.page \in Nat \ {0} /\ r.pages \in Nat
    /\ r.from \in 0..total /\ r.to \in r.from..total
    /\ r.from <= (r.page - 1) * DefaultPageSize
    /\ r.to = AtMost(r.page * DefaultPageSize, total)
    /\ r.page <= r.pages \/ r.page = 1
    /\ r.page >= r.pages => r.to = total

LEMMA PaginateFacts ==
    ASSUME NEW total \in Nat, NEW k \in Nat \ {0}
    PROVE  /\ IsPage(Paginate(total, k, 0), total)
           /\ Paginate(total, k, 0).page <= k
  <1> DEFINE sz == DefaultPageSize
             q == PageCount(total, sz)
             c == Clamped(k, q)
             start == (c - 1) * sz
             r == Paginate(total, k, 0)
  <1>1. EffectiveSize(0) = sz /\ sz \in Nat \ {0}
    BY PageSizeAssumption DEF EffectiveSize
  <1>2. /\ r.page = c /\ r.pages = q
        /\ r.from = AtMost(start, total) /\ r.to = AtMost(start + sz, total)
    BY <1>1 DEF Paginate
  <1>3. /\ r.from \in 0..total /\ r.to \in r.from..total /\ r.page \in Nat \ {0}
        /\ total > 0 => r.page <= r.pages
    <2>1. total \in Nat /\ k \in Int /\ 0 \in Int
      OBVIOUS
    <2>2. LET u == Paginate(total, k, 0) IN
          /\ u.from \in 0..total
          /\ u.to \in u.from..total
          /\ u.page \in Nat \ {0}
          /\ total > 0 => u.page <= u.pages /\ u.from < u.to
      BY <2>1, SliceInBounds, Zenon
    <2> QED
      BY <2>2
  <1>4. q \in Nat /\ (total # 0 => q # 0 /\ total <= q * sz) /\ (total = 0 => q = 0)
    BY <1>1, CountBounds DEF PageCount
  <1> HIDE DEF q, r
  <1>5. c <= k /\ c \in Nat \ {0} /\ (c <= q \/ c = 1)
    BY <1>4 DEF Clamped
  <1> HIDE DEF c
  <1>6. start \in Int /\ start + sz = c * sz
    BY <1>1, <1>5
  <1>7. q <= c => total <= c * sz
    <2>1. SUFFICES ASSUME q <= c PROVE total <= c * sz
      OBVIOUS
    <2>2. q * sz <= c * sz /\ q * sz \in Int /\ c * sz \in Nat
      BY <1>1, <1>4, <1>5, <2>1, MulMonotone
    <2> QED
      BY <1>4, <2>2
  <1>8. c * sz \in Int
    BY <1>1, <1>5
  <1>9. r.from <= start
    BY <1>2, <1>6 DEF AtMost
  <1>10. r.to = AtMost(c * sz, total)
    BY <1>2, <1>6
  <1>11. q <= c => r.to = total
    BY <1>7, <1>8, <1>10 DEF AtMost
  <1>12. c >= q => r.to = total
    BY <1>4, <1>5, <1>11
  <1>13. IsPage(r, total)
    <2>1. r.from <= (r.page - 1) * DefaultPageSize
      BY <1>2, <1>9
    <2>2. r.to = AtMost(r.page * DefaultPageSize, total)
      BY <1>2, <1>10
    <2> HIDE DEF start
    <2> QED
      BY <1>2, <1>3, <1>4, <1>5, <1>12, <2>1, <2>2 DEF IsPage
  <1> QED
    BY <1>2, <1>5, <1>13 DEF r

ListInv ==
    /\ list \in Seq(DOMAIN written) /\ NewestFirst
    /\ \/ shown = NoPage /\ list = <<>>
       \/ IsPage(shown, Len(list))

\* A click asks for the first page, or for the one after the page on display.
ClickInv ==
    /\ pc \in {"idle", "read"} /\ asked \in Nat
    /\ pc = "read" => asked = 1 \/ (shown.page # 0 /\ asked = shown.page + 1)
    /\ seen \subseteq DOMAIN written /\ owed \subseteq DOMAIN written
    /\ dropped \subseteq DOMAIN written

LEMMA AskedFacts ==
    ASSUME ListInv, ClickInv, pc = "read"
    PROVE  asked \in Nat \ {0}
  BY DEF ListInv, ClickInv, IsPage, NoPage

LEMMA ShowFacts ==
    ASSUME LogInv, ListInv, ClickInv, Show
    PROVE  /\ list' \in Seq(DOMAIN written) /\ Decreasing(list')
           /\ ToSet(list') = {TailWindow[a][1] : a \in Hits(TailWindow)}
           /\ IsPage(shown', Len(list')) /\ shown'.page <= asked
           /\ asked \in Nat \ {0} /\ written' = written
  <1>1. list' = Entries(TailWindow) /\ shown' = Paginate(Len(list'), asked, 0)
        /\ pc = "read" /\ written' = written
    BY DEF Show
  <1>2. TailWindow \in Seq(Cell) /\ InOrder(TailWindow) /\ Known(TailWindow)
    BY WindowFacts
  <1>3. /\ list' \in Seq(DOMAIN written) /\ Decreasing(list')
        /\ ToSet(list') = {TailWindow[a][1] : a \in Hits(TailWindow)}
    BY <1>1, <1>2, EntriesFacts
  <1>4. Len(list') \in Nat
    BY <1>3
  <1>5. asked \in Nat \ {0}
    BY <1>1, AskedFacts
  <1>6. IsPage(shown', Len(list')) /\ shown'.page <= asked
    BY <1>1, <1>4, <1>5, PaginateFacts
  <1> QED
    BY <1>1, <1>3, <1>5, <1>6

LEMMA NextListInv == LogInv /\ ListInv /\ ClickInv /\ [Next]_vars => ListInv'
  <1> SUFFICES ASSUME LogInv, ListInv, ClickInv, [Next]_vars PROVE ListInv'
    OBVIOUS
  <1>1. DOMAIN written \subseteq DOMAIN written'
    BY WrittenGrows
  <1>2. CASE Show
    <2>1. /\ list' \in Seq(DOMAIN written) /\ Decreasing(list') /\ written' = written
          /\ IsPage(shown', Len(list'))
      BY <1>2, ShowFacts
    <2>2. NewestFirst'
      BY <2>1 DEF NewestFirst, Decreasing
    <2>3. IsPage(shown, Len(list))'
      BY <2>1 DEF IsPage, AtMost
    <2> QED
      BY <2>1, <2>2, <2>3 DEF ListInv
  <1>3. CASE list' = <<>> /\ shown' = NoPage
    <2>1. <<>> \in Seq(DOMAIN written') /\ DOMAIN <<>> = {}
      OBVIOUS
    <2>2. NewestFirst'
      BY <1>3, <2>1 DEF NewestFirst
    <2>3. (shown = NoPage /\ list = <<>>)'
      BY <1>3 DEF NoPage
    <2> QED
      BY <1>3, <2>1, <2>2, <2>3 DEF ListInv
  <1>4. CASE UNCHANGED <<list, shown>>
    <2>1. list \in Seq(DOMAIN written')
      <3>1. list \in Seq(DOMAIN written)
        BY DEF ListInv
      <3>2. \A i \in 1..Len(list) : list[i] \in DOMAIN written'
        BY <1>1, <3>1
      <3> QED
        BY <3>1, <3>2
    <2>2. NewestFirst'
      BY <1>4 DEF ListInv, NewestFirst
    <2>3. (shown = NoPage /\ list = <<>>)' \/ IsPage(shown, Len(list))'
      BY <1>4 DEF ListInv, NoPage, IsPage, AtMost
    <2> QED
      BY <1>4, <2>1, <2>2, <2>3 DEF ListInv
  <1> QED
    BY <1>2, <1>3, <1>4 DEF Next, Append1, Truncate, Open, vars, reader

LEMMA NextClickInv == LogInv /\ ListInv /\ ClickInv /\ [Next]_vars => ClickInv'
  <1> SUFFICES ASSUME LogInv, ListInv, ClickInv, [Next]_vars PROVE ClickInv'
    OBVIOUS
  <1>1. DOMAIN written \subseteq DOMAIN written'
    BY WrittenGrows
  <1>2. CASE Show
    <2>1. list' \in Seq(DOMAIN written) /\ written' = written /\ IsPage(shown', Len(list'))
      BY <1>2, ShowFacts
    <2>2. ToSet(list) \subseteq DOMAIN written
      BY DEF ListInv, ToSet
    <2>3. ToSet(SubSeq(list', shown'.from + 1, shown'.to)) \subseteq DOMAIN written
      <3> DEFINE a == shown'.from + 1
                 b == shown'.to
      <3>1. a \in Nat /\ a >= 1 /\ b \in Nat /\ b <= Len(list') /\ Len(list') \in Nat
        BY <2>1 DEF IsPage
      <3> HIDE DEF a, b
      <3>2. SubSeq(list', a, b) \in Seq(DOMAIN written)
        <4>1. \A i \in a..b : list'[i] \in DOMAIN written
          BY <2>1, <3>1
        <4> QED
          BY <2>1, <3>1, <4>1
      <3>3. ToSet(SubSeq(list', a, b)) \subseteq DOMAIN written
        BY <3>2 DEF ToSet
      <3> QED
        BY <3>3 DEF a, b
    <2>4. /\ seen' = seen \cup ToSet(SubSeq(list', shown'.from + 1, shown'.to))
          /\ owed' \in {owed, ToSet(list')}
          /\ dropped' \in {dropped, dropped \cup (ToSet(list) \ ToSet(list'))}
          /\ pc' = "idle" /\ asked' = asked
      BY <1>2 DEF Show
    <2>5. ToSet(list') \subseteq DOMAIN written
      BY <2>1 DEF ToSet
    <2> QED
      BY <2>1, <2>2, <2>3, <2>4, <2>5 DEF ClickInv
  <1>3. CASE Open
    <2>1. /\ asked' = 1 \/ asked' = shown.page + 1
          /\ written' = written
          /\ pc' = "read" => shown' = shown
          /\ pc' \in {"idle", "read"}
          /\ seen' \in {{}, seen} /\ owed' \in {{}, owed} /\ dropped' \in {{}, dropped}
      BY <1>3 DEF Open
    <2>2. (shown.page = 0 /\ shown.pages = 0) \/ shown.page \in Nat \ {0}
      BY DEF ListInv, NoPage, IsPage
    <2>3. asked' \in Nat /\ (asked' = 1 \/ (shown.page # 0 /\ asked' = shown.page + 1))
      BY <2>1, <2>2
    <2> QED
      BY <2>1, <2>3 DEF ClickInv
  <1>4. CASE UNCHANGED <<pc, asked, shown, seen, owed, dropped>>
    BY <1>1, <1>4 DEF ClickInv
  <1> QED
    BY <1>2, <1>3, <1>4 DEF Next, Append1, Truncate, vars, reader

-----------------------------------------------------------------------------
(* Walking the pages.                                                      *)

\* What was listed on the first page is listed or was dropped, and up to the end
\* of the page on display it was shown, unless something newer was dropped.
WalkInv ==
    shown.page # 0 /\ (pc = "idle" \/ asked # 1) =>
      /\ owed \subseteq ToSet(list) \cup dropped
      /\ \A i \in 1..shown.to :
           list[i] \in owed /\ (\A m \in dropped : m < list[i]) => list[i] \in seen

\* An entry moves back only, as long as no newer one disappears.
LEMMA NotEarlier ==
    ASSUME NEW k \in Seq(Nat), NEW l \in Seq(Nat), Decreasing(k), Decreasing(l),
           NEW j \in 1..Len(k), NEW i \in 1..Len(l), k[j] = l[i],
           \A x \in 1..j : \E y \in 1..Len(l) : l[y] = k[x]
    PROVE  j <= i
  <1> DEFINE P == {x \in 1..j : \E y \in 1..Len(l) : l[y] = k[x] /\ x <= y}
  <1>a. Len(k) \in Nat /\ Len(l) \in Nat
    OBVIOUS
  <1>b. DOMAIN k = 1..Len(k) /\ DOMAIN l = 1..Len(l)
    OBVIOUS
  <1>c. (\A x \in 1..Len(k) : k[x] \in Nat) /\ (\A x \in 1..Len(l) : l[x] \in Nat)
    BY ElementOfSeq
  <1>d. j \in Nat /\ j > 0 /\ i \in Nat /\ j <= Len(k)
    BY <1>a
  <1>n. \A u, v \in Nat : ~(u > v /\ v > u) /\ ~(u > u)
    OBVIOUS
  <1> HIDE DEF P
  <1>e. \A y, z \in 1..Len(l) : l[y] > l[z] => y < z
    <2>1. SUFFICES ASSUME NEW y \in 1..Len(l), NEW z \in 1..Len(l), l[y] > l[z], ~(y < z)
                   PROVE  FALSE
      OBVIOUS
    <2>2. CASE y = z
      BY <1>c, <1>n, <2>1, <2>2, Zenon
    <2>3. CASE z < y
      <3>1. l[z] > l[y]
        BY <1>b, <2>3 DEF Decreasing
      <3> QED
        BY <1>c, <1>n, <2>1, <3>1, Zenon
    <2> QED
      BY <1>a, <2>1, <2>2, <2>3
  <1>f. \A y, z \in 1..Len(l) : l[y] = l[z] => ~(y < z)
    <2>1. SUFFICES ASSUME NEW y \in 1..Len(l), NEW z \in 1..Len(l), l[y] = l[z], y < z
                   PROVE  FALSE
      OBVIOUS
    <2>2. l[y] > l[z]
      BY <1>b, <2>1 DEF Decreasing
    <2> QED
      BY <1>c, <1>n, <2>1, <2>2, Zenon
  <1>1. 1 \in P
    <2>1. 1 \in 1..j
      BY <1>d
    <2>2. PICK y \in 1..Len(l) : l[y] = k[1]
      BY <2>1
    <2>3. 1 <= y
      BY <1>a
    <2> QED
      BY <2>1, <2>2, <2>3 DEF P
  <1>2. ASSUME NEW x \in 1..j, x < j, x \in P PROVE x + 1 \in P
    <2>0. \A c, d, e \in Nat : c \in 1..d /\ c < d /\ d <= e =>
            c + 1 \in 1..d /\ c \in 1..e /\ c + 1 \in 1..e /\ c < c + 1
      OBVIOUS
    <2>1. x + 1 \in 1..j /\ x \in 1..Len(k) /\ x + 1 \in 1..Len(k) /\ x < x + 1
      <3>1. x \in Nat
        BY <1>d
      <3> QED
        BY <1>a, <1>d, <1>2, <2>0, <3>1, Zenon
    <2>2. PICK y \in 1..Len(l) : l[y] = k[x] /\ x <= y
      BY <1>2 DEF P
    <2>3. PICK z \in 1..Len(l) : l[z] = k[x + 1]
      BY <2>1
    <2>4. k[x] > k[x + 1]
      BY <1>b, <2>1 DEF Decreasing
    <2>5. y < z
      BY <1>e, <2>2, <2>3, <2>4
    <2>6. x + 1 <= z
      BY <1>a, <1>d, <2>2, <2>5
    <2> QED
      BY <2>1, <2>3, <2>6 DEF P
  <1>3. 1..j \subseteq P
    BY <1>d, <1>1, <1>2, Climb
  <1>4. j \in P
    BY <1>d, <1>3
  <1>5. PICK y \in 1..Len(l) : l[y] = k[j] /\ j <= y
    BY <1>4 DEF P
  <1>6. ~(i < y)
    BY <1>f, <1>5
  <1> QED
    BY <1>a, <1>d, <1>5, <1>6

\* A page shows its slice of the list.
LEMMA SliceShown ==
    ASSUME NEW X, NEW l \in Seq(X), NEW r, IsPage(r, Len(l)), NEW i \in 1..r.to, i > r.from
    PROVE  l[i] \in ToSet(SubSeq(l, r.from + 1, r.to)) /\ i \in 1..Len(l)
  <1> DEFINE a == r.from
             b == r.to
             t == SubSeq(l, a + 1, b)
  <1>1. a \in Nat /\ b \in Nat /\ a < b /\ b <= Len(l) /\ Len(l) \in Nat /\ i \in Nat /\ i <= b /\ i > a
    BY DEF IsPage
  <1> HIDE DEF a, b
  <1>2. Len(t) = b - a /\ t \in Seq(X) /\ DOMAIN t = 1..(b - a)
    <2>1. \A x \in (a + 1)..b : l[x] \in X
      BY <1>1
    <2> QED
      BY <1>1, <2>1
  <1>3. i - a \in 1..(b - a) /\ (a + 1) + (i - a) - 1 = i
    BY <1>1
  <1>4. t[i - a] = l[i]
    BY <1>1, <1>3
  <1> HIDE DEF t
  <1>5. l[i] \in ToSet(t)
    BY <1>2, <1>3, <1>4 DEF ToSet
  <1> QED
    BY <1>1, <1>5 DEF t, a, b

LEMMA NextWalkInv ==
    LogInv /\ ListInv /\ ClickInv /\ WalkInv /\ [Next]_vars => WalkInv'
  <1> SUFFICES ASSUME LogInv, ListInv, ClickInv, WalkInv, [Next]_vars PROVE WalkInv'
    OBVIOUS
  <1>1. CASE Show
    <2> DEFINE sz == DefaultPageSize
               k == list
               l == list'
               r == shown'
    <2>1. /\ l \in Seq(DOMAIN written) /\ Decreasing(l) /\ IsPage(r, Len(l))
          /\ r.page <= asked /\ asked \in Nat \ {0}
      BY <1>1, ShowFacts
    <2>2. DOMAIN written \subseteq Nat
      BY WrittenGrows
    <2>3. l \in Seq(Nat) /\ k \in Seq(Nat) /\ Decreasing(k)
      <3>1. \A t \in Seq(DOMAIN written) : t \in Seq(Nat)
        BY <2>2
      <3> QED
        BY <2>1, <3>1 DEF ListInv, NewestFirst, Decreasing
    <2>4. /\ Len(l) \in Nat /\ Len(k) \in Nat /\ DOMAIN l = 1..Len(l) /\ DOMAIN k = 1..Len(k)
          /\ \A i \in 1..Len(l) : l[i] \in Nat
          /\ \A i \in 1..Len(k) : k[i] \in Nat
      BY <2>3
    <2>5. /\ seen' = seen \cup ToSet(SubSeq(l, r.from + 1, r.to))
          /\ \/ asked = 1 /\ owed' = ToSet(l) /\ dropped' = dropped
             \/ /\ asked # 1 /\ owed' = owed
                /\ dropped' = dropped \cup (ToSet(k) \ ToSet(l))
      BY <1>1 DEF Show
    <2>6. pc = "read"
      BY <1>1 DEF Show
    <2>7. /\ r.page \in Nat \ {0} /\ r.from \in Nat /\ r.to \in Nat /\ r.to <= Len(l)
          /\ r.from <= (r.page - 1) * sz /\ sz \in Nat \ {0}
      BY <2>1, <2>4, PageSizeAssumption DEF IsPage
    <2> HIDE DEF sz, k, l, r
    <2>8. CASE asked = 1
      <3>1. r.page = 1 /\ (r.page - 1) * sz = 0 /\ r.from = 0
        <4>1. r.page = 1
          BY <2>1, <2>7, <2>8
        <4>2. (1 - 1) * sz = 0
          BY <2>7
        <4> QED
          BY <2>7, <4>1, <4>2
      <3>2. ASSUME NEW i \in 1..r.to PROVE l[i] \in seen'
        <4>1. i > r.from
          BY <3>1
        <4> QED
          BY <2>1, <2>5, <4>1, SliceShown
      <3>3. owed' \subseteq ToSet(l)
        BY <2>5, <2>8
      <3> QED
        BY <3>2, <3>3 DEF WalkInv, l, r
    <2>9. CASE asked # 1
      <3>1. shown.page # 0 /\ asked = shown.page + 1
        BY <2>6, <2>9 DEF ClickInv
      <3>2. /\ owed \subseteq ToSet(k) \cup dropped
            /\ \A i \in 1..shown.to :
                 k[i] \in owed /\ (\A m \in dropped : m < k[i]) => k[i] \in seen
        BY <2>9, <3>1 DEF WalkInv, k
      <3>3. IsPage(shown, Len(k))
        BY <3>1 DEF ListInv, NoPage, k
      <3>4. shown.page \in Nat \ {0} /\ shown.to = AtMost(shown.page * sz, Len(k))
        BY <3>3 DEF IsPage, sz
      <3>5. owed' = owed /\ dropped' = dropped \cup (ToSet(k) \ ToSet(l))
        BY <2>5, <2>9
      <3>6. owed' \subseteq ToSet(l) \cup dropped'
        BY <3>2, <3>5
      <3>7. ASSUME NEW i \in 1..r.to, l[i] \in owed', \A m \in dropped' : m < l[i]
            PROVE  l[i] \in seen'
        <4>1. CASE i > r.from
          BY <2>1, <2>5, <4>1, SliceShown
        <4>2. CASE ~(i > r.from)
          <5>1. i \in 1..Len(l) /\ i <= r.from /\ l[i] \in Nat
            BY <2>4, <2>7, <4>2
          <5>2. l[i] \notin dropped'
            BY <3>7, <5>1
          <5>3. l[i] \in ToSet(k)
            BY <3>2, <3>5, <3>7, <5>2
          <5>4. PICK j \in 1..Len(k) : k[j] = l[i]
            BY <2>4, <5>3 DEF ToSet
          <5>5. ASSUME NEW x \in 1..j PROVE \E y \in 1..Len(l) : l[y] = k[x]
            <6>1. x \in 1..Len(k)
              BY <2>4
            <6>2. ~(k[x] < l[i])
              <7>1. CASE x = j
                BY <2>4, <5>1, <5>4, <7>1
              <7>2. CASE x # j
                <8>1. x < j
                  BY <2>4, <7>2
                <8>2. k[x] > k[j]
                  BY <2>3, <2>4, <6>1, <8>1 DEF Decreasing
                <8> QED
                  BY <2>4, <5>4, <6>1, <8>2
              <7> QED
                BY <7>1, <7>2
            <6>3. k[x] \in ToSet(k) /\ k[x] \notin dropped'
              BY <2>4, <3>7, <6>1, <6>2 DEF ToSet
            <6>4. k[x] \in ToSet(l)
              BY <3>5, <6>3
            <6> QED
              BY <2>4, <6>4 DEF ToSet
          <5>6. j <= i
            BY <2>1, <2>3, <5>1, <5>4, <5>5, NotEarlier
          <5>7. j <= shown.page * sz
            <6>1. r.page - 1 \in Int /\ shown.page \in Int /\ r.page - 1 <= shown.page
              BY <2>1, <2>7, <3>1, <3>4
            <6>2. (r.page - 1) * sz <= shown.page * sz
              BY <2>7, <6>1, MulMonotone
            <6>3. (r.page - 1) * sz \in Int /\ shown.page * sz \in Int
              BY <2>7, <6>1
            <6> QED
              BY <2>4, <2>7, <5>1, <5>6, <6>2, <6>3
          <5>8. shown.page * sz \in Int
            BY <2>7, <3>4
          <5>9. j \in 1..shown.to
            BY <2>4, <3>4, <5>7, <5>8 DEF AtMost
          <5>10. \A m \in dropped : m < k[j]
            BY <3>5, <3>7, <5>4
          <5>11. k[j] \in seen
            BY <3>2, <3>5, <3>7, <5>4, <5>9, <5>10
          <5> QED
            BY <2>5, <5>4, <5>11
        <4> QED
          BY <4>1, <4>2
      <3> QED
        BY <3>6, <3>7 DEF WalkInv, l, r
    <2> QED
      BY <2>8, <2>9
  <1>2. CASE Open
    <2>1. CASE shown' = NoPage
      BY <2>1 DEF WalkInv, NoPage
    <2>2. CASE shown' # NoPage
      <3>1. /\ pc' = "read" /\ pc = "idle" /\ UNCHANGED <<list, shown>>
            /\ asked' # 1 => UNCHANGED <<seen, owed, dropped>>
        BY <1>2, <2>2 DEF Open
      <3> QED
        BY <3>1 DEF WalkInv
    <2> QED
      BY <2>1, <2>2
  <1>3. CASE UNCHANGED <<pc, asked, list, shown, seen, owed, dropped>>
    BY <1>3 DEF WalkInv
  <1> QED
    BY <1>1, <1>2, <1>3 DEF Next, Append1, Truncate, vars, reader

-----------------------------------------------------------------------------
(* Recent lines.                                                           *)

\* The file still begins with what it was when Stat was called.
Begins(file) ==
    Len(file) <= Len(log) /\ \A i \in 1..Len(file) : log[i] = file[i]

\* The line that starts at a is whole, newline included, and recent enough for
\* the window; its record passes the filters.
Recent(file, a) ==
    /\ Len(file) <= Window \/ a > Len(file) - Window + 1
    /\ a + written[file[a][1]].size <= Len(file)
    /\ Matches(written[file[a][1]].tx)

RecentInv ==
    pc = "idle" /\ HasNewline(atStat) /\ Begins(atStat) =>
      \A a \in LineStarts(atStat) :
        Recent(atStat, a) => atStat[a][1] \in ToSet(list)

\* A line that is whole in a file is found in any data that has it between two
\* newlines, or between the first cell and a newline.
LEMMA LineMoves ==
    ASSUME NEW f \in Seq(Cell), NEW data \in Seq(Cell), NEW d \in Int,
           NEW a \in 1..Len(f), NEW b \in a..Len(f), b < Len(f), f[b + 1] = NL,
           \A i \in a..b : f[i] # NL,
           IsRecord(f, a, b),
           \A i \in a..(b + 1) : i - d \in 1..Len(data) /\ data[i - d] = f[i],
           a - d = 1 \/ data[a - d - 1] = NL
    PROVE  HasNewline(data) /\ a - d \in LineStarts(data) /\ data[a - d] = f[a]
  <1>1. /\ Len(f) \in Nat /\ Len(data) \in Nat /\ a \in Nat /\ b \in Nat /\ a <= b
        /\ DOMAIN data = 1..Len(data)
    OBVIOUS
  <1>2. a \in a..(b + 1) /\ b \in a..(b + 1) /\ b + 1 \in a..(b + 1)
    BY <1>1
  <1>3. /\ a - d \in 1..Len(data) /\ data[a - d] = f[a]
        /\ b - d \in 1..Len(data)
        /\ (b + 1) - d \in 1..Len(data) /\ data[(b + 1) - d] = NL
    BY <1>2
  <1>4. HasNewline(data)
    BY <1>1, <1>3 DEF HasNewline
  <1> DEFINE u == a - d
             v == b - d
  <1>5. u \in Int /\ v \in Int /\ (b + 1) - d = v + 1 /\ u <= v /\ v - u = b - a
    BY <1>1
  <1>6. v \in u..Len(data) /\ data[v + 1] = NL
    BY <1>1, <1>3, <1>5
  <1>7. ASSUME NEW i \in u..v
        PROVE  i + d \in a..b /\ data[i] = f[i + d] /\ i - u + 1 = (i + d) - a + 1
    <2>1. i + d \in a..b /\ i + d \in a..(b + 1) /\ (i + d) - d = i /\ i - u + 1 = (i + d) - a + 1
      BY <1>1, <1>5
    <2>2. data[(i + d) - d] = f[i + d]
      BY <2>1
    <2> QED
      BY <2>1, <2>2
  <1>8. \A i \in u..v : data[i] # NL
    BY <1>7
  <1>9. IsRecord(data, u, v)
    <2>1. /\ f[a][1] # 0
          /\ b - a + 1 = written[f[a][1]].size
          /\ \A i \in a..b : f[i] = <<f[a][1], i - a + 1>>
      BY DEF IsRecord
    <2>2. data[u] = f[a] /\ v - u + 1 = b - a + 1
      BY <1>1, <1>3, <1>5
    <2>3. ASSUME NEW i \in u..v PROVE data[i] = <<data[u][1], i - u + 1>>
      <3>1. f[i + d] = <<f[a][1], (i + d) - a + 1>>
        BY <1>7, <2>1
      <3> HIDE DEF u, v
      <3> QED
        BY <1>7, <2>2, <3>1
    <2> HIDE DEF u, v
    <2> QED
      BY <2>1, <2>2, <2>3 DEF IsRecord
  <1> HIDE DEF v
  <1>10. a - d \in LineStarts(data)
    BY <1>1, <1>3, <1>6, <1>8, <1>9 DEF LineStarts
  <1> QED
    BY <1>3, <1>4, <1>10

\* Where a whole line of a file starts and ends.
LEMMA LineFacts ==
    ASSUME NEW f \in Seq(Cell), NEW a \in LineStarts(f)
    PROVE  /\ a \in 1..Len(f) /\ f[a][1] # 0
           /\ a = 1 \/ f[a - 1] = NL
           /\ \E b \in a..Len(f) :
                /\ b = Len(f) \/ f[b + 1] = NL
                /\ \A i \in a..b : f[i] # NL
                /\ IsRecord(f, a, b) /\ b - a + 1 = written[f[a][1]].size
  <1>1. DOMAIN f = 1..Len(f)
    OBVIOUS
  <1> QED
    BY <1>1 DEF LineStarts, IsRecord

\* The read finds every recent line of the file as it was when Stat was called.
LEMMA RecentFound ==
    ASSUME LogInv, Begins(atStat), NEW a \in LineStarts(atStat), Recent(atStat, a)
    PROVE  \E x \in Hits(TailWindow) : TailWindow[x][1] = atStat[a][1]
  <1> DEFINE f == atStat
             data == TailWindow
             off == size - Window
  <1>0. /\ f \in Seq(Cell) /\ size = Len(f) /\ Len(f) \in Nat /\ Len(log) \in Nat
        /\ Window \in Nat /\ log \in Seq(Cell) /\ DOMAIN f = 1..Len(f)
        /\ data \in Seq(Cell) /\ off \in Int
    BY WindowAssumption, WindowFacts DEF LogInv
  <1>1. Len(f) <= Len(log) /\ \A i \in 1..Len(f) : log[i] = f[i]
    BY DEF Begins
  <1>2. /\ Len(f) <= Window \/ a > off + 1
        /\ a + written[f[a][1]].size <= Len(f)
        /\ Matches(written[f[a][1]].tx)
    BY <1>0 DEF Recent
  <1>3. a \in 1..Len(f) /\ f[a][1] # 0 /\ (a = 1 \/ f[a - 1] = NL)
    BY <1>0, LineFacts
  <1>4. PICK b \in a..Len(f) :
          /\ b = Len(f) \/ f[b + 1] = NL
          /\ \A i \in a..b : f[i] # NL
          /\ IsRecord(f, a, b) /\ b - a + 1 = written[f[a][1]].size
    BY <1>0, LineFacts
  <1>5. b < Len(f)
    <2>1. a + (b - a + 1) <= Len(f)
      BY <1>2, <1>4
    <2> QED
      BY <1>0, <1>3, <2>1
  <1>6. f[b + 1] = NL
    BY <1>0, <1>4, <1>5
  <1>7. a \in Nat /\ b \in Nat /\ a >= 1 /\ a <= b
    BY <1>0, <1>3, <1>4
  <1> HIDE DEF f, data
  <1>8. ASSUME NEW d \in Int, a - d = 1 \/ data[a - d - 1] = NL,
               \A i \in a..(b + 1) : i - d \in 1..Len(data) /\ data[i - d] = f[i]
        PROVE  \E x \in Hits(data) : data[x][1] = f[a][1]
    <2>1. HasNewline(data) /\ a - d \in LineStarts(data) /\ data[a - d] = f[a]
      <3>1. /\ f \in Seq(Cell) /\ data \in Seq(Cell) /\ a \in 1..Len(f) /\ b \in a..Len(f)
            /\ b < Len(f) /\ f[b + 1] = NL /\ IsRecord(f, a, b)
        BY <1>0, <1>3, <1>4, <1>5, <1>6
      <3>2. \A i \in a..b : f[i] # NL
        BY <1>4
      <3>3. \A i \in a..(b + 1) : i - d \in 1..Len(data) /\ data[i - d] = f[i]
        BY <1>8
      <3> QED
        BY <1>8, <3>1, <3>2, <3>3, LineMoves, Zenon
    <2>2. a - d \in Hits(data)
      BY <1>2, <2>1 DEF Hits
    <2> QED
      BY <2>1, <2>2
  <1>9. CASE size <= Window
    <2>1. data = log
      BY <1>9 DEF TailWindow, data
    <2>2. ASSUME NEW i \in a..(b + 1) PROVE i - 0 \in 1..Len(data) /\ data[i - 0] = f[i]
      <3>1. i - 0 = i /\ i \in 1..Len(f) /\ i \in 1..Len(log)
        BY <1>0, <1>1, <1>5, <1>7
      <3> QED
        BY <1>1, <2>1, <3>1
    <2>3. a - 0 = 1 \/ data[a - 0 - 1] = NL
      <3>1. a - 0 = a /\ a - 0 - 1 = a - 1
        BY <1>7
      <3>2. CASE a = 1
        BY <3>1, <3>2
      <3>3. CASE a # 1
        <4>1. a - 1 \in 1..Len(f)
          BY <1>0, <1>3, <1>7, <3>3
        <4> QED
          BY <1>1, <1>3, <2>1, <3>1, <3>3, <4>1
      <3> QED
        BY <3>2, <3>3
    <2> QED
      BY <1>8, <2>2, <2>3 DEF data, f
  <1>10. CASE ~(size <= Window)
    <2>0. size > Window
      BY <1>0, <1>10
    <2>1. PICK k \in 0..Window : CutAt(TailWindow, k)
      BY <2>0, WindowCut
    <2>2. /\ Len(data) = Window - k
          /\ \A i \in 1..(Window - k) : data[i] = Buf[k + i] /\ k + i \in 1..Window
          /\ \A j \in 1..(k - 1) : Buf[j] # NL
          /\ k = 0 => \A j \in 1..Window : Buf[j] # NL
      BY <2>1 DEF CutAt, data
    <2>3. ASSUME NEW i \in 1..Window PROVE off + i \in 1..Len(f) /\ Buf[i] = f[off + i]
      <3>1. off + i \in 1..Len(f) /\ ~(off + i > Len(log))
        BY <1>0, <1>1, <2>0
      <3>2. Buf[i] = log[off + i]
        BY <2>0, <3>1, BufFacts
      <3> QED
        BY <1>1, <3>1, <3>2
    <2> HIDE DEF off
    <2>a. size - Window = off
      BY DEF off
    <2>4. a > off + 1 /\ off > 0
      BY <1>0, <1>2, <2>0, <2>a
    <2>5. a # 1 /\ f[a - 1] = NL
      BY <1>0, <1>3, <1>7, <2>4
    <2> DEFINE h == a - 1 - off
    <2>6. h \in 1..Window /\ off + h = a - 1
      BY <1>0, <1>3, <1>7, <2>4, <2>a
    <2>7. Buf[h] = NL
      BY <2>3, <2>5, <2>6
    <2> HIDE DEF h
    <2>8. k # 0 /\ ~(h <= k - 1)
      BY <1>0, <2>2, <2>6, <2>7
    <2>9. k <= h /\ k \in Nat
      BY <1>0, <2>6, <2>8
    <2> DEFINE d == off + k
    <2>10. d \in Int
      BY <1>0, <2>9
    <2>11. ASSUME NEW i \in Nat, i > d, i <= Len(f)
           PROVE  i - d \in 1..Len(data) /\ data[i - d] = f[i]
      <3>1. i - d \in 1..(Window - k) /\ off + (k + (i - d)) = i
        BY <1>0, <2>9, <2>11, <2>a
      <3>2. data[i - d] = Buf[k + (i - d)] /\ k + (i - d) \in 1..Window
        BY <2>2, <3>1
      <3>3. Buf[k + (i - d)] = f[off + (k + (i - d))]
        BY <2>3, <3>2
      <3> QED
        BY <2>2, <3>1, <3>2, <3>3
    <2>12. a > d
      BY <1>0, <1>7, <2>6, <2>9 DEF h
    <2> HIDE DEF d
    <2>13. ASSUME NEW i \in a..(b + 1) PROVE i - d \in 1..Len(data) /\ data[i - d] = f[i]
      <3>1. i \in Nat /\ i > d /\ i <= Len(f)
        BY <1>0, <1>5, <1>7, <2>10, <2>12
      <3> QED
        BY <2>11, <3>1
    <2>14. a - d = 1 \/ data[a - d - 1] = NL
      <3>1. CASE a - 1 > d
        <4>1. a - 1 \in Nat /\ a - 1 <= Len(f) /\ (a - 1) - d = a - d - 1
          BY <1>0, <1>3, <1>7, <2>10
        <4>2. data[(a - 1) - d] = f[a - 1]
          BY <2>11, <3>1, <4>1
        <4> QED
          BY <2>5, <4>1, <4>2
      <3>2. CASE ~(a - 1 > d)
        BY <1>7, <2>10, <2>12, <3>2
      <3> QED
        BY <3>1, <3>2
    <2> QED
      BY <1>8, <2>10, <2>13, <2>14 DEF data, f
  <1> QED
    BY <1>9, <1>10

\* A record that a file holds keeps its size and what it says, so the whole
\* lines of the file stay what they are.
LEMMA LinesStay ==
    ASSUME LogInv, [Next]_vars, UNCHANGED atStat, NEW a \in LineStarts(atStat)',
           Recent(atStat, a)'
    PROVE  a \in LineStarts(atStat) /\ Recent(atStat, a)
  <1> DEFINE f == atStat
  <1>1. /\ f \in Seq(Cell) /\ Recorded(f) /\ DOMAIN f = 1..Len(f) /\ Len(f) \in Nat
        /\ f' = f
    BY DEF LogInv
  <1>2. \A n \in DOMAIN written : written'[n] = written[n]
    BY WrittenGrows
  <1>3. ASSUME NEW i \in DOMAIN f, f[i][1] # 0
        PROVE  written'[f[i][1]] = written[f[i][1]]
    BY <1>1, <1>2, <1>3, CellFacts DEF Recorded
  <1>4. /\ a \in DOMAIN f
        /\ a = 1 \/ f[a - 1] = NL
        /\ \E b \in a..Len(f) :
             /\ b = Len(f) \/ f[b + 1] = NL
             /\ \A i \in a..b : f[i] # NL
             /\ f[a][1] # 0
             /\ b - a + 1 = written'[f[a][1]].size
             /\ \A i \in a..b : f[i] = <<f[a][1], i - a + 1>>
    BY <1>1 DEF LineStarts, IsRecord, NL
  <1>5. written'[f[a][1]] = written[f[a][1]]
    BY <1>3, <1>4
  <1>6. a \in LineStarts(f)
    BY <1>4, <1>5 DEF LineStarts, IsRecord
  <1>7. Recent(f, a)
    BY <1>1, <1>5 DEF Recent, Matches
  <1> QED
    BY <1>6, <1>7

LEMMA NextRecentInv ==
    LogInv /\ ListInv /\ ClickInv /\ RecentInv /\ [Next]_vars => RecentInv'
  <1> SUFFICES ASSUME LogInv, ListInv, ClickInv, RecentInv, [Next]_vars PROVE RecentInv'
    OBVIOUS
  <1>0. /\ atStat \in Seq(Cell) /\ log \in Seq(Cell) /\ Recorded(atStat)
        /\ DOMAIN atStat = 1..Len(atStat) /\ Len(atStat) \in Nat /\ Len(log) \in Nat
    BY DEF LogInv
  <1> USE DEF RecentInv
  <1>1. CASE Show
    <2>1. SUFFICES ASSUME Begins(atStat)', NEW a \in LineStarts(atStat)', Recent(atStat, a)'
                   PROVE  atStat'[a][1] \in ToSet(list')
      OBVIOUS
    <2>2. UNCHANGED <<log, atStat, written>>
      BY <1>1 DEF Show
    <2>3. Begins(atStat)
      BY <2>1, <2>2 DEF Begins
    <2>4. a \in LineStarts(atStat) /\ Recent(atStat, a)
      BY <2>1, <2>2, LinesStay
    <2>5. PICK x \in Hits(TailWindow) : TailWindow[x][1] = atStat[a][1]
      BY <2>3, <2>4, RecentFound
    <2>6. ToSet(list') = {TailWindow[y][1] : y \in Hits(TailWindow)}
      BY <1>1, ShowFacts
    <2> QED
      BY <2>2, <2>5, <2>6
  <1>2. CASE Append1
    <2>1. SUFFICES ASSUME pc = "idle", HasNewline(atStat), Begins(atStat)',
                          NEW a \in LineStarts(atStat)', Recent(atStat, a)'
                   PROVE  atStat[a][1] \in ToSet(list)
      BY <1>2 DEF Append1, reader, HasNewline, NL, ToSet
    <2>2. UNCHANGED atStat
      BY <1>2 DEF Append1, reader
    <2> DEFINE n == Len(written) + 1
               m == Len(log)
    <2>3. PICK new : Addition(new, n) /\ log' = log \o new
      BY <1>2, AppendFacts
    <2>4. new \in Seq(Cell) /\ Len(new) \in Nat /\ Len(new) > 0 /\ new[1] = <<n, 1>>
      BY <2>3 DEF Addition
    <2>5. /\ Len(log') = m + Len(new)
          /\ \A j \in 1..m + Len(new) : log'[j] = IF j <= m THEN log[j] ELSE new[j - m]
      BY <1>0, <2>3, <2>4, ConcatProperties
    <2>6. DOMAIN written = 1..Len(written) /\ Len(written) \in Nat
      BY WrittenGrows
    <2>7. n \in Nat /\ n \notin DOMAIN written /\ n # 0
      BY <2>6
    <2>8. Len(atStat) <= Len(log') /\ \A i \in 1..Len(atStat) : log'[i] = atStat[i]
      BY <2>1, <2>2 DEF Begins
    <2> HIDE DEF n
    <2>9. Len(atStat) <= m
      <3>1. SUFFICES ASSUME ~(Len(atStat) <= m) PROVE FALSE
        OBVIOUS
      <3>2. m + 1 \in 1..Len(atStat) /\ m + 1 \in 1..m + Len(new) /\ ~(m + 1 <= m) /\ (m + 1) - m = 1
        BY <1>0, <2>4, <3>1
      <3>3. atStat[m + 1] = new[1]
        BY <2>5, <2>8, <3>2
      <3>4. atStat[m + 1] # NL /\ atStat[m + 1][1] = n
        BY <2>4, <2>7, <3>3 DEF NL
      <3> QED
        BY <1>0, <2>7, <3>2, <3>4 DEF Recorded
    <2>10. ASSUME NEW i \in 1..Len(atStat) PROVE log[i] = atStat[i]
      <3>1. i \in 1..m + Len(new) /\ i <= m
        BY <1>0, <2>4, <2>9
      <3> QED
        BY <2>5, <2>8, <3>1
    <2>11. Begins(atStat)
      BY <2>9, <2>10 DEF Begins
    <2>12. a \in LineStarts(atStat) /\ Recent(atStat, a)
      BY <2>1, <2>2, LinesStay
    <2> QED
      BY <2>1, <2>11, <2>12
  <1>3. CASE Truncate
    <2>1. UNCHANGED <<atStat, pc, list, written>> /\ log' = <<>>
      BY <1>3 DEF Truncate, reader
    <2>2. ~(HasNewline(atStat)' /\ Begins(atStat)')
      <3>1. SUFFICES ASSUME HasNewline(atStat), Begins(atStat)' PROVE FALSE
        BY <2>1 DEF HasNewline, NL
      <3>2. PICK i \in 1..Len(atStat) : atStat[i] = NL
        BY <1>0, <3>1 DEF HasNewline
      <3>3. Len(atStat) <= Len(log') /\ Len(log') = 0
        BY <2>1, <3>1 DEF Begins
      <3> QED
        BY <1>0, <3>2, <3>3
    <2> QED
      BY <2>2
  <1>4. CASE Open
    <2>1. CASE pc' = "read"
      BY <2>1
    <2>2. CASE pc' # "read"
      <3>1. atStat' = <<>> /\ DOMAIN <<>> = {}
        BY <1>4, <2>2 DEF Open
      <3>2. ~HasNewline(atStat)'
        BY <3>1 DEF HasNewline
      <3> QED
        BY <3>2
    <2> QED
      BY <2>1, <2>2
  <1>5. CASE UNCHANGED vars
    <2>1. UNCHANGED <<log, written, pc, atStat, list>>
      BY <1>5 DEF vars
    <2>2. SUFFICES ASSUME pc = "idle", HasNewline(atStat), Begins(atStat),
                          NEW a \in LineStarts(atStat)', Recent(atStat, a)'
                   PROVE  atStat[a][1] \in ToSet(list)
      BY <2>1 DEF HasNewline, Begins, NL, ToSet
    <2>3. a \in LineStarts(atStat) /\ Recent(atStat, a)
      BY <2>1, <2>2, LinesStay
    <2> QED
      BY <2>2, <2>3
  <1> QED
    BY <1>1, <1>2, <1>3, <1>4, <1>5 DEF Next

-----------------------------------------------------------------------------
(* Theorems about the explorer.                                            *)

AuditInv == LogInv /\ ListInv /\ ClickInv /\ WalkInv /\ RecentInv

LEMMA InitAudit == Init => AuditInv
  <1> SUFFICES ASSUME Init PROVE AuditInv
    OBVIOUS
  <1>1. /\ <<>> \in Seq(Cell) /\ <<>> \in Seq(Record) /\ <<>> \in Seq(DOMAIN written)
        /\ DOMAIN <<>> = {} /\ Len(<<>>) = 0
    OBVIOUS
  <1>2. LogInv
    BY <1>1 DEF Init, LogInv, Recorded, InOrder
  <1>3. ListInv
    BY <1>1 DEF Init, ListInv, NewestFirst
  <1>4. ClickInv
    BY DEF Init, ClickInv
  <1>5. WalkInv
    BY DEF Init, WalkInv, NoPage
  <1>6. RecentInv
    BY <1>1 DEF Init, RecentInv, HasNewline
  <1> QED
    BY <1>2, <1>3, <1>4, <1>5, <1>6 DEF AuditInv

LEMMA NextAudit == AuditInv /\ [Next]_vars => AuditInv'
  BY NextLogInv, NextListInv, NextClickInv, NextWalkInv, NextRecentInv DEF AuditInv

\* Read, with the file as another process leaves it, makes a list of records
\* that were written, and paginate cuts a page out of it that exists, for every
\* window, page size and history of the file.
THEOREM TypeCorrect == Spec => []TypeOK
  <1>1. ASSUME AuditInv PROVE TypeOK
    <2>1. LogInv /\ ListInv /\ ClickInv
      BY <1>1 DEF AuditInv
    <2>2. \A i \in DOMAIN log : log[i] = NL \/ log[i][1] \in DOMAIN written
      BY <2>1 DEF LogInv, Recorded
    <2>3. \A n \in DOMAIN written : written[n].size \in Sizes
      <3>1. \A n \in DOMAIN written : written[n] \in Record
        BY <2>1 DEF LogInv
      <3> QED
        BY <3>1 DEF Record
    <2>4. size \in 0..Len(atStat)
      BY <2>1 DEF LogInv
    <2>5. ToSet(list) \subseteq DOMAIN written
      BY <2>1 DEF ListInv, ToSet
    <2>6. /\ shown.from \in 0..Len(list) /\ shown.to \in shown.from..Len(list)
          /\ shown.page \in Nat
          /\ shown.page <= shown.pages \/ shown.page <= 1
      <3>1. CASE shown = NoPage /\ list = <<>>
        BY <3>1 DEF NoPage
      <3>2. CASE IsPage(shown, Len(list))
        BY <3>2 DEF IsPage
      <3> QED
        BY <2>1, <3>1, <3>2 DEF ListInv
    <2> QED
      BY <2>1, <2>2, <2>3, <2>4, <2>5, <2>6 DEF TypeOK, ClickInv
  <1> QED
    BY <1>1, InitAudit, NextAudit, PTL DEF Spec

\* The reversal at the end of Read gives the newest entry first, each record
\* once, also when lines are torn, the window cuts a record, or the file was
\* truncated and the buffer kept zero bytes.
THEOREM ListNewestFirst == Spec => []NewestFirst
  <1>1. AuditInv => NewestFirst
    BY DEF AuditInv, ListInv
  <1> QED
    BY <1>1, InitAudit, NextAudit, PTL DEF Spec

\* tailWindow and the JSONL loop lose no recent line, however many records
\* Coraza appends between Stat and ReadAt.
THEOREM RecentLinesFound == Spec => []RecentLinesListed
  <1>1. ASSUME AuditInv PROVE RecentLinesListed
    <2>1. LogInv /\ RecentInv
      BY <1>1 DEF AuditInv
    <2>2. SUFFICES ASSUME pc = "idle", HasNewline(atStat), IsPrefix(atStat, log),
                          NEW l \in WholeLines(atStat),
                          Len(atStat) <= Window \/ l[1] > Len(atStat) - Window + 1,
                          l[1] + written[l[2]].size <= Len(atStat),
                          Matches(written[l[2]].tx)
                   PROVE  l[2] \in ToSet(list)
      BY DEF RecentLinesListed
    <2>3. PICK a \in LineStarts(atStat) : l = <<a, atStat[a][1]>>
      BY <2>2 DEF WholeLines
    <2>4. l[1] = a /\ l[2] = atStat[a][1]
      BY <2>3
    <2>5. Recent(atStat, a)
      BY <2>2, <2>4 DEF Recent
    <2>6. Begins(atStat)
      <3>1. atStat \in Seq(Cell) /\ log \in Seq(Cell) /\ Len(atStat) \in Nat /\ Len(log) \in Nat
        BY <2>1 DEF LogInv
      <3>2. Len(atStat) <= Len(log) /\ SubSeq(atStat, 1, Len(atStat)) = SubSeq(log, 1, Len(atStat))
        BY <2>2 DEF IsPrefix
      <3>3. ASSUME NEW i \in 1..Len(atStat) PROVE log[i] = atStat[i]
        <4>1. i + 1 - 1 = i /\ i \in Nat /\ i >= 1 /\ i <= Len(atStat) /\ i <= Len(log)
          BY <3>1, <3>2
        <4>2. SubSeq(atStat, 1, Len(atStat))[i] = atStat[i]
          BY <3>1, <4>1
        <4>3. SubSeq(log, 1, Len(atStat))[i] = log[i]
          BY <3>1, <3>2, <4>1
        <4> QED
          BY <3>2, <4>2, <4>3
      <3> QED
        BY <3>2, <3>3 DEF Begins
    <2> QED
      BY <2>1, <2>2, <2>3, <2>4, <2>5, <2>6 DEF RecentInv
  <1> QED
    BY <1>1, InitAudit, NextAudit, PTL DEF Spec

\* With the newest first and one page per click, a user who pages forward to the
\* last page sees every entry of the first page's list that is still listed, as
\* long as no newer one disappeared: new records push entries to later pages.
THEOREM NothingSkipped == Spec => []NoEntrySkipped
  <1>1. ASSUME AuditInv PROVE NoEntrySkipped
    <2>1. LogInv /\ ListInv /\ WalkInv
      BY <1>1 DEF AuditInv
    <2>2. SUFFICES ASSUME pc = "idle", shown.page >= shown.pages,
                          NEW n \in owed \cap ToSet(list), \A m \in dropped : m < n
                   PROVE  n \in seen
      BY DEF NoEntrySkipped
    <2>3. list \in Seq(DOMAIN written) /\ DOMAIN list = 1..Len(list) /\ Len(list) \in Nat
      BY <2>1 DEF ListInv
    <2>4. PICK i \in 1..Len(list) : list[i] = n
      BY <2>2, <2>3 DEF ToSet
    <2>5. IsPage(shown, Len(list))
      <3>1. list # <<>>
        BY <2>3, <2>4
      <3> QED
        BY <2>1, <3>1 DEF ListInv
    <2>6. shown.page # 0 /\ shown.to = Len(list)
      BY <2>2, <2>5 DEF IsPage
    <2> QED
      BY <2>1, <2>2, <2>4, <2>6 DEF WalkInv
  <1> QED
    BY <1>1, InitAudit, NextAudit, PTL DEF Spec
=============================================================================

----------------------------- MODULE SitesProofs -----------------------------
(* Proofs about Naming, OverlayFormat and Sites: the names, the generators   *)
(* and the parsers for every input, then the properties of Sites.            *)
EXTENDS Sites, SequenceLemmas

-----------------------------------------------------------------------------
(* Names.                                                                  *)

SlugWord == [w \in STRING |-> CASE w = "*" -> "wildcard"
                                [] w = ""  -> ""
                                [] OTHER   -> Lower[w]]

\* A host has the slug of every name that stands for it, as it is compared
\* without case: the files of a host do not depend on how its name was typed.
THEOREM SlugOfHost ==
    ASSUME NEW d \in Valid
    PROVE  DomainSlug(Host(d)) = DomainSlug(d)
  <1> DEFINE h == Host(d)
  <1>1. d \in Seq(Seq(STRING)) /\ Len(d) > 0 /\ ValidateDomain(d)
    BY DomainsAssumption DEF Valid, Name, ValidateDomain
  <1>2. ASSUME NEW i \in 1..Len(d), NEW j \in 1..Len(d[i])
        PROVE  d[i][j] \in Words \cup {"", "*"}
    <2>1. CASE d[i] = <<"*">>
      <3>1. Len(d[i]) = 1 /\ d[i][1] = "*"
        BY <2>1
      <3>2. j = 1
        BY <3>1
      <3> QED
        BY <3>1, <3>2
    <2>2. CASE d[i] # <<"*">>
      <3>1. d[i] \in Seq(STRING) /\ DOMAIN d = 1..Len(d)
        BY <1>1, ElementOfSeq
      <3>2. validateLabel(d[i])
        BY <1>1, <2>2, <3>1 DEF ValidateDomain
      <3>3. j \in DOMAIN d[i]
        BY <3>1
      <3> QED
        BY <3>2, <3>3 DEF validateLabel
    <2> QED
      BY <2>1, <2>2
  <1>3. ASSUME NEW i \in 1..Len(d)
        PROVE  /\ d[i] \in Seq(STRING) /\ DOMAIN d[i] = 1..Len(d[i]) /\ Len(d[i]) \in Nat
               /\ i \in DOMAIN d
    BY <1>1, ElementOfSeq
  <1>4. /\ DOMAIN h = 1..Len(d) /\ h = [i \in 1..Len(d) |-> h[i]]
        /\ \A i \in DOMAIN d : h[i] = [j \in DOMAIN d[i] |->
             IF d[i][j] \in Words THEN Lower[d[i][j]] ELSE d[i][j]]
    BY <1>1 DEF Host
  <1> HIDE DEF h
  <1>5. ASSUME NEW i \in 1..Len(d) PROVE h[i] \in Seq(STRING) /\ Len(h[i]) = Len(d[i])
    <2>1. h[i] = [j \in 1..Len(d[i]) |->
             IF d[i][j] \in Words THEN Lower[d[i][j]] ELSE d[i][j]]
      BY <1>3, <1>4
    <2>2. ASSUME NEW j \in 1..Len(d[i])
          PROVE  (IF d[i][j] \in Words THEN Lower[d[i][j]] ELSE d[i][j]) \in STRING
      <3>1. d[i][j] \in STRING
        BY <1>3, ElementOfSeq
      <3> QED
        BY <3>1, WordsAssumption, LowerAssumption
    <2>3. h[i] \in [1..Len(d[i]) -> STRING]
      BY <2>1, <2>2
    <2>4. Len(d[i]) \in Nat
      BY <1>3
    <2> QED
      BY <2>3, <2>4
  <1>6. h \in Seq(Seq(STRING)) /\ Len(h) = Len(d)
    <2>1. Len(d) \in Nat /\ h \in [1..Len(d) -> Seq(STRING)]
      BY <1>1, <1>4, <1>5
    <2> QED
      BY <2>1
  <1>7. ASSUME NEW i \in 1..Len(d), NEW j \in 1..Len(d[i])
        PROVE  SlugWord[h[i][j]] = SlugWord[d[i][j]]
    <2>0. h[i][j] = IF d[i][j] \in Words THEN Lower[d[i][j]] ELSE d[i][j]
      BY <1>3, <1>4
    <2>1. CASE d[i][j] \in Words
      <3> DEFINE w == d[i][j]
      <3>1. /\ Lower[w] \in Words /\ Lower[Lower[w]] = Lower[w]
            /\ w \in STRING \ {"", "*"} /\ Lower[w] \in STRING \ {"", "*"}
        BY <2>1, WordsAssumption, LowerAssumption
      <3> HIDE DEF w
      <3>2. SlugWord[Lower[w]] = Lower[w] /\ SlugWord[w] = Lower[w]
        BY <3>1 DEF SlugWord
      <3> QED
        BY <2>0, <2>1, <3>2 DEF w
    <2>2. CASE d[i][j] \notin Words
      BY <2>0, <2>2
    <2> QED
      BY <2>1, <2>2
  <1>8. /\ FlattenSeq(d) \in Seq(STRING) /\ FlattenSeq(h) \in Seq(STRING)
        /\ Alike(SlugWord, FlattenSeq(d), FlattenSeq(h))
    <2>1. \A i \in 1..Len(d) : Alike(SlugWord, d[i], h[i])
      BY <1>5, <1>7 DEF Alike
    <2> QED
      BY <1>1, <1>6, <2>1, FlattenAlike
  <1>9. ASSUME NEW e, FlattenSeq(e) \in Seq(STRING)
        PROVE  DomainSlug(e) = [j \in 1..Len(FlattenSeq(e)) |-> SlugWord[FlattenSeq(e)[j]]]
    <2> DEFINE f == FlattenSeq(e)
    <2>1. DomainSlug(e) = [j \in DOMAIN f |-> CASE f[j] = "*" -> "wildcard"
                                                 [] f[j] = ""  -> ""
                                                 [] OTHER      -> Lower[f[j]]]
      BY DEF DomainSlug
    <2>2. f \in Seq(STRING)
      BY <1>9
    <2> HIDE DEF f
    <2>3. DOMAIN f = 1..Len(f) /\ \A j \in 1..Len(f) : f[j] \in STRING
      BY <2>2
    <2>4. \A j \in 1..Len(f) : SlugWord[f[j]] = CASE f[j] = "*" -> "wildcard"
                                                  [] f[j] = ""  -> ""
                                                  [] OTHER      -> Lower[f[j]]
      BY <2>3 DEF SlugWord
    <2> QED
      BY <2>1, <2>3, <2>4 DEF f
  <1>10. DomainSlug(h) = DomainSlug(d)
    BY <1>8, <1>9 DEF Alike
  <1> QED
    BY <1>10 DEF h

-----------------------------------------------------------------------------
(* Exclusions.                                                             *)

\* The removal of duplicates keeps the set of the entries, each once.
LEMMA DedupeFacts ==
    ASSUME NEW X, NEW list \in Seq(X)
    PROVE  /\ dedupeExclusions(list) \in Seq(X)
           /\ ToSet(dedupeExclusions(list)) = ToSet(list)
           /\ Distinct(dedupeExclusions(list))
  <1> DEFINE n == Len(list)
             twice(i) == \E j \in 1..(i - 1) : list[j] = list[i]
             ss == [i \in 1..n |-> IF twice(i) THEN <<>> ELSE <<list[i]>>]
             upTo(i) == {list[j] : j \in 1..i}
  <1>1. n \in Nat /\ DOMAIN list = 1..n /\ \A i \in 1..n : list[i] \in X
    BY ElementOfSeq
  <1>2. dedupeExclusions(list) = FlattenSeq(ss)
    BY <1>1, Zenon DEF dedupeExclusions
  <1>3. ss \in Seq(Seq(X)) /\ Len(ss) = n
    <2>1. \A i \in 1..n : (IF twice(i) THEN <<>> ELSE <<list[i]>>) \in Seq(X)
      BY <1>1
    <2> HIDE DEF n, twice
    <2>2. ss \in [1..n -> Seq(X)]
      BY <2>1
    <2> HIDE DEF ss
    <2> QED
      BY <1>1, <2>2
  <1>4. \A i \in 1..n : ss[i] = IF twice(i) THEN <<>> ELSE <<list[i]>>
    OBVIOUS
  <1>5. CASE n = 0
    <2>1. ss = <<>> /\ FlattenSeq(ss) = ss
      <3>1. Len(ss) = 0
        BY <1>3, <1>5
      <3> HIDE DEF ss
      <3> QED
        BY <1>3, <3>1, EmptySeq DEF FlattenSeq
    <2>2. list = <<>>
      BY <1>5, EmptySeq
    <2> HIDE DEF ss
    <2>3. <<>> \in Seq(X) /\ Distinct(<<>>)
      BY EmptySeq DEF Distinct
    <2> QED
      BY <1>2, <2>1, <2>2, <2>3
  <1>6. CASE n # 0
    <2>1. n > 0 /\ Len(ss) > 0
      BY <1>1, <1>3, <1>6
    <2> HIDE DEF ss
    <2>2. \E F \in Flattens(X, ss, Len(ss)) : FlattenSeq(ss) = F[Len(ss)]
      BY <1>3, <2>1, FlattenFacts
    <2>3. PICK F \in Flattens(X, ss, n) : FlattenSeq(ss) = F[n]
      BY <1>3, <2>2, Zenon
    <2> HIDE DEF n, twice
    <2>4. \A i \in 1..n : F[i] \in Seq(X)
      BY <2>3 DEF Flattens
    <2> DEFINE Good(p, i) == ToSet(p) = upTo(i) /\ Distinct(p)
               P == {i \in 1..n : Good(F[i], i)}
    <2>5. 1 \in P
      <3>1. 1 \in 1..n
        BY <1>1, <2>1
      <3>2. F[1] = ss[1]
        BY <2>3, <3>1 DEF Flattens
      <3>3. ~twice(1)
        BY DEF twice
      <3>4. F[1] = <<list[1]>>
        BY <1>4, <3>1, <3>2, <3>3
      <3>5. Good(<<list[1]>>, 1)
        <4>1. ToSet(<<list[1]>>) = {list[1]}
          BY DEF ToSet
        <4>2. Distinct(<<list[1]>>)
          BY DEF Distinct
        <4>3. upTo(1) = {list[1]}
          OBVIOUS
        <4> QED
          BY <4>1, <4>2, <4>3
      <3> QED
        BY <3>1, <3>4, <3>5
    <2>6. ASSUME NEW i \in 1..n, i < n, i \in P PROVE i + 1 \in P
      <3> DEFINE k == i + 1
      <3>1. k \in 1..n /\ k # 1 /\ k - 1 = i /\ 1..k = 1..i \cup {k}
        BY <1>1, <2>6
      <3> HIDE DEF k
      <3>2. F[k] = F[i] \o ss[k]
        BY <2>3, <3>1 DEF Flattens
      <3>3. upTo(k) = upTo(i) \cup {list[k]}
        BY <3>1
      <3>4. F[i] \in Seq(X) /\ list[k] \in X /\ Good(F[i], i)
        BY <1>1, <2>4, <2>6, <3>1
      <3>5. twice(k) <=> list[k] \in upTo(i)
        BY <3>1 DEF twice
      <3> HIDE DEF upTo
      <3>6. CASE twice(k)
        <4>1. F[k] = F[i]
          BY <1>4, <3>1, <3>2, <3>4, <3>6, ConcatEmptySeq
        <4> QED
          BY <3>1, <3>3, <3>4, <3>5, <3>6, <4>1 DEF k
      <3>7. CASE ~twice(k)
        <4>1. F[k] = F[i] \o <<list[k]>>
          BY <1>4, <3>1, <3>2, <3>7
        <4>2. Good(F[k], k)
          BY <3>3, <3>4, <3>5, <3>7, <4>1, AddElement
        <4> QED
          BY <3>1, <4>2 DEF k
      <3> QED
        BY <3>6, <3>7
    <2>7. 1..n \subseteq P
      <3> HIDE DEF P
      <3> QED
        BY <1>1, <2>5, <2>6, Climb
    <2>8. n \in 1..n
      BY <1>1, <2>1
    <2>9. Good(F[n], n)
      <3> HIDE DEF Good
      <3> QED
        BY <2>7, <2>8
    <2>10. upTo(n) = ToSet(list)
      BY <1>1 DEF ToSet
    <2> QED
      BY <1>2, <2>3, <2>4, <2>8, <2>9, <2>10
  <1> QED
    BY <1>5, <1>6

LEMMA LinesExist ==
    /\ Comment \in Line /\ Placeholder \in Seq(Line)
    /\ \A d \in Name : Header(d, None) \in Line
    /\ \A d \in Name, mode \in STRING : Header(d, mode) \in Line
  <1>1. Comment \in Line
    BY DEF Comment, Line
  <1>2. \A d \in Name : Header(d, None) \in Line
    BY DEF Header, Line
  <1>3. \A d \in Name, mode \in STRING : Header(d, mode) \in Line
    BY DEF Header, Line
  <1>4. Placeholder \in Seq(Line)
    <2>1. \A c \in Line : <<c>> \in Seq(Line)
      OBVIOUS
    <2> QED
      BY <1>1, <2>1 DEF Placeholder
  <1> QED
    BY <1>1, <1>2, <1>3, <1>4

\* The rows before the i-th that have a parameter.
WithParam(rows, i) == {j \in 1..(i - 1) : rows[j].param # None}

LEMMA WithParamFinite ==
    ASSUME NEW rows, NEW i \in Nat
    PROVE  IsFiniteSet(WithParam(rows, i)) /\ Cardinality(WithParam(rows, i)) \in Nat
  <1>1. IsFiniteSet(1..(i - 1))
    BY FS_Interval
  <1>2. WithParam(rows, i) \subseteq 1..(i - 1)
    BY DEF WithParam
  <1> QED
    BY <1>1, <1>2, FS_Subset, FS_CardinalityType

LEMMA DirectiveIsLine ==
    ASSUME NEW rows \in Seq(Exclusion), NEW i \in 1..Len(rows)
    PROVE  Directive(rows, i) \in Line
  <1>1. rows[i] \in Exclusion
    BY ElementOfSeq
  <1>2. ID(rows, i) \in Nat
    <2>1. Cardinality(WithParam(rows, i)) \in Nat
      BY WithParamFinite
    <2>2. ID(rows, i) = 9000001 + Cardinality(WithParam(rows, i))
      BY DEF ID, WithParam
    <2> QED
      BY <2>1, <2>2
  <1> DEFINE ex == rows[i]
             id == ID(rows, i)
  <1>3. Directive(rows, i) =
          IF ex.param = None
          THEN [line |-> "remove", type |-> ex.type, value |-> ex.value]
          ELSE [line |-> "rule", type |-> ex.type, value |-> ex.value,
                param |-> ex.param, id |-> id]
    BY DEF Directive
  <1>4. ex.type \in STRING /\ ex.value \in STRING /\ (ex.param # None => ex.param \in STRING)
    BY <1>1 DEF Exclusion
  <1>5. id \in Nat
    BY <1>2
  <1> HIDE DEF ex, id
  <1>6. CASE ex.param = None
    <2>1. [line |-> "remove", type |-> ex.type, value |-> ex.value]
            \in [line : {"remove"}, type : STRING, value : STRING]
      BY <1>4
    <2> QED
      BY <1>3, <1>6, <2>1 DEF Line
  <1>7. CASE ex.param # None
    <2>1. [line |-> "rule", type |-> ex.type, value |-> ex.value, param |-> ex.param, id |-> id]
            \in [line : {"rule"}, type : STRING, value : STRING, param : STRING, id : Nat]
      BY <1>4, <1>5, <1>7
    <2> QED
      BY <1>3, <1>7, <2>1 DEF Line
  <1> QED
    BY <1>6, <1>7

\* The lines that GenerateExclusions writes.
LEMMA ExclusionLines ==
    ASSUME NEW d \in Name, NEW list \in Seq(Exclusion),
           NEW rows, rows = dedupeExclusions(list),
           NEW o, o = GenerateExclusions(d, list)
    PROVE  /\ rows \in Seq(Exclusion) /\ o \in Seq(Line)
           /\ o[1] = Comment /\ o[2] = Header(d, None)
           /\ Len(o) = 2 + IF rows = <<>> THEN 1 ELSE Len(rows)
           /\ rows = <<>> => o[3] = Comment
           /\ rows # <<>> => \A i \in 1..Len(rows) : o[2 + i] = Directive(rows, i)
  <1> DEFINE body == IF rows = <<>> THEN <<Comment>>
                     ELSE [i \in DOMAIN rows |-> Directive(rows, i)]
             head == <<Comment, Header(d, None)>>
  <1>1. rows \in Seq(Exclusion)
    BY DedupeFacts
  <1>2. o = head \o body
    BY DEF GenerateExclusions
  <1>3. /\ head \in Seq(Line) /\ Len(head) = 2
        /\ head[1] = Comment /\ head[2] = Header(d, None)
    BY LinesExist
  <1>4. /\ body \in Seq(Line) /\ Len(body) = (IF rows = <<>> THEN 1 ELSE Len(rows))
        /\ rows = <<>> => body[1] = Comment
        /\ rows # <<>> => \A i \in 1..Len(rows) : body[i] = Directive(rows, i)
    <2>1. CASE rows = <<>>
      <3>1. body = <<Comment>>
        BY <2>1
      <3> HIDE DEF body
      <3> QED
        BY <2>1, <3>1, LinesExist
    <2>2. CASE rows # <<>>
      <3>1. body = [i \in 1..Len(rows) |-> Directive(rows, i)] /\ Len(rows) \in Nat
        BY <1>1, <2>2
      <3>2. \A i \in 1..Len(rows) : Directive(rows, i) \in Line
        BY <1>1, DirectiveIsLine
      <3> HIDE DEF body
      <3>3. body \in [1..Len(rows) -> Line]
        BY <3>1, <3>2
      <3>4. body \in Seq(Line) /\ Len(body) = Len(rows)
        BY <3>1, <3>3
      <3> QED
        BY <2>2, <3>1, <3>4
    <2> QED
      BY <2>1, <2>2
  <1> HIDE DEF body, head
  <1>5. /\ o \in Seq(Line) /\ Len(o) = 2 + Len(body) /\ Len(body) \in Nat
        /\ \A i \in 1..2 + Len(body) : o[i] = IF i <= 2 THEN head[i] ELSE body[i - 2]
    <2>1. /\ head \o body \in Seq(Line)
          /\ Len(head \o body) = Len(head) + Len(body) /\ Len(body) \in Nat
          /\ \A i \in 1..Len(head) + Len(body) :
               (head \o body)[i] = IF i <= Len(head) THEN head[i] ELSE body[i - Len(head)]
      <3>1. head \in Seq(Line) /\ body \in Seq(Line)
        BY <1>3, <1>4
      <3>2. Len(body) \in Nat
        BY <3>1
      <3> QED
        BY <3>1, <3>2, ConcatProperties, Zenon
    <2> QED
      BY <1>2, <1>3, <2>1
  <1>6. o[1] = head[1] /\ o[2] = head[2]
    BY <1>5
  <1>7. ASSUME NEW i \in 1..Len(body) PROVE o[2 + i] = body[i]
    BY <1>5
  <1>8. Len(rows) \in Nat
    BY <1>1
  <1> QED
    <2>1. rows = <<>> => o[3] = Comment
      BY <1>4, <1>7
    <2>2. rows # <<>> => \A i \in 1..Len(rows) : o[2 + i] = Directive(rows, i)
      BY <1>4, <1>7
    <2> QED
      BY <1>1, <1>3, <1>4, <1>5, <1>6, <2>1, <2>2

\* An overlay without a directive has no exclusions.
LEMMA NoExclusions ==
    ASSUME NEW o \in Seq(Line), \A i \in 1..Len(o) : o[i].line \notin {"remove", "rule"}
    PROVE  parseExclusionsOverlay(o) = <<>>
  <1> DEFINE X == STRING
             ss == [i \in 1..Len(o) |-> <<>>]
  <1>1. Len(o) \in Nat /\ DOMAIN o = 1..Len(o)
    OBVIOUS
  <1>2. parseExclusionsOverlay(o) = FlattenSeq(ss)
    BY <1>1 DEF parseExclusionsOverlay
  <1>3. ss \in Seq(Seq(X)) /\ Len(ss) = Len(o) /\ \A i \in 1..Len(o) : ss[i] = <<>>
    BY <1>1, EmptySeq
  <1> HIDE DEF ss
  <1>4. CASE Len(o) = 0
    <2>1. Len(ss) = 0 /\ ss = <<>>
      BY <1>3, <1>4, EmptySeq
    <2> QED
      BY <1>2, <2>1 DEF FlattenSeq
  <1>5. CASE Len(o) # 0
    <2>1. 1 \in 1..Len(ss)
      BY <1>1, <1>3, <1>5
    <2>2. FlattenSeq(ss) = ss[1]
      BY <1>3, <2>1, FlattenOne
    <2> QED
      BY <1>2, <1>3, <2>1, <2>2
  <1> QED
    BY <1>4, <1>5

\* What a form reads back is what was written, without the duplicates: the
\* parser of ui/overlay.go undoes the generator of waf/generator.go.
THEOREM ExclusionsReadBack ==
    ASSUME NEW d \in Name, NEW list \in Seq(Exclusion)
    PROVE  parseExclusionsOverlay(GenerateExclusions(d, list)) = dedupeExclusions(list)
  <1> DEFINE rows == dedupeExclusions(list)
             o == GenerateExclusions(d, list)
             entry(l) == IF l.line \in {"remove", "rule"}
                         THEN <<[type |-> l.type, value |-> l.value,
                                 param |-> IF l.line = "rule" THEN l.param ELSE None]>>
                         ELSE <<>>
             ss == [i \in DOMAIN o |-> entry(o[i])]
  <1>1. parseExclusionsOverlay(o) = FlattenSeq(ss)
    BY Zenon DEF parseExclusionsOverlay
  <1>2. /\ rows \in Seq(Exclusion) /\ o \in Seq(Line)
        /\ o[1] = Comment /\ o[2] = Header(d, None)
        /\ Len(o) = 2 + IF rows = <<>> THEN 1 ELSE Len(rows)
        /\ rows = <<>> => o[3] = Comment
        /\ rows # <<>> => \A i \in 1..Len(rows) : o[2 + i] = Directive(rows, i)
    <2> HIDE DEF rows, o
    <2> QED
      BY ExclusionLines DEF rows, o
  <1> HIDE DEF rows, o
  <1>3. Comment.line = "comment" /\ Header(d, None).line = "header"
    BY DEF Comment, Header
  <1>4. CASE rows = <<>>
    <2>1. Len(o) = 3 /\ \A i \in 1..3 : i = 1 \/ i = 2 \/ i = 3
      BY <1>2, <1>4
    <2>2. \A i \in 1..Len(o) : o[i].line \notin {"remove", "rule"}
      BY <1>2, <1>3, <1>4, <2>1
    <2>3. parseExclusionsOverlay(o) = <<>>
      BY <1>2, <2>2, NoExclusions
    <2> QED
      BY <1>4, <2>3 DEF rows, o
  <1>5. CASE rows # <<>>
    <2>1. Len(rows) \in Nat /\ Len(o) = 2 + Len(rows) /\ DOMAIN o = 1..Len(o)
      BY <1>2, <1>5
    <2>2. ASSUME NEW i \in 1..Len(rows) PROVE ss[2 + i] = <<rows[i]>>
      <3> DEFINE ex == rows[i]
                 l == Directive(rows, i)
                 id == ID(rows, i)
      <3>1. ex \in Exclusion
        BY <1>2, ElementOfSeq
      <3>2. l = IF ex.param = None
                THEN [line |-> "remove", type |-> ex.type, value |-> ex.value]
                ELSE [line |-> "rule", type |-> ex.type, value |-> ex.value,
                      param |-> ex.param, id |-> id]
        BY DEF Directive
      <3>3. 2 + i \in DOMAIN o /\ o[2 + i] = l
        BY <1>2, <1>5, <2>1
      <3>4. ss[2 + i] = entry(l)
        BY <3>3
      <3> HIDE DEF ex, id, l, ss
      <3>5. [type |-> ex.type, value |-> ex.value, param |-> ex.param] = ex
        BY <3>1 DEF Exclusion
      <3>6. entry(l) = <<ex>>
        <4>1. CASE ex.param = None
          <5>1. l.line = "remove" /\ l.type = ex.type /\ l.value = ex.value
            BY <3>2, <4>1
          <5> QED
            BY <3>5, <4>1, <5>1
        <4>2. CASE ex.param # None
          <5>1. l.line = "rule" /\ l.type = ex.type /\ l.value = ex.value /\ l.param = ex.param
            BY <3>2, <4>2
          <5> QED
            BY <3>5, <5>1
        <4> QED
          BY <4>1, <4>2
      <3> QED
        BY <3>4, <3>6 DEF ex
    <2>3. \A i \in 1..2 : ss[i] = <<>>
      <3>1. 1 \in DOMAIN o /\ 2 \in DOMAIN o
        BY <2>1
      <3>2. ss[1] = entry(Comment) /\ ss[2] = entry(Header(d, None))
        BY <1>2, <3>1
      <3>3. entry(Comment) = <<>> /\ entry(Header(d, None)) = <<>>
        BY <1>3
      <3>4. \A i \in 1..2 : i = 1 \/ i = 2
        OBVIOUS
      <3> HIDE DEF ss, entry
      <3> QED
        BY <3>2, <3>3, <3>4
    <2>4. ss = [i \in 1..Len(o) |-> ss[i]]
      BY <2>1
    <2> HIDE DEF ss
    <2>5. ASSUME NEW i \in 1..Len(o) PROVE ss[i] \in Seq(Exclusion)
      <3>1. CASE i <= 2
        <4>1. i \in 1..2
          BY <2>1, <3>1
        <4> QED
          BY <2>3, <4>1, EmptySeq
      <3>2. CASE ~(i <= 2)
        <4>1. i - 2 \in 1..Len(rows) /\ 2 + (i - 2) = i
          BY <2>1, <3>2
        <4>2. ss[i] = <<rows[i - 2]>> /\ rows[i - 2] \in Exclusion
          BY <1>2, <2>2, <4>1, ElementOfSeq
        <4> QED
          BY <4>2
      <3> QED
        BY <3>1, <3>2
    <2>6. ss \in Seq(Seq(Exclusion)) /\ Len(ss) = 2 + Len(rows)
      <3>1. ss \in [1..Len(o) -> Seq(Exclusion)] /\ Len(o) \in Nat
        BY <2>1, <2>4, <2>5
      <3> QED
        BY <2>1, <3>1
    <2>7. FlattenSeq(ss) = rows
      BY <1>2, <1>5, <2>2, <2>3, <2>6, FlattenSingles
    <2> QED
      BY <1>1, <2>7 DEF rows, o
  <1> QED
    BY <1>4, <1>5

\* The ids of the rules of a generated overlay are distinct.
LEMMA IdsDistinct ==
    ASSUME NEW d \in Name, NEW list \in Seq(Exclusion), NEW o, o = GenerateExclusions(d, list),
           NEW i \in DOMAIN o, NEW j \in DOMAIN o,
           o[i].line = "rule", o[j].line = "rule", o[i].id = o[j].id
    PROVE  i = j
  <1> DEFINE rows == dedupeExclusions(list)
  <1>1. /\ rows \in Seq(Exclusion) /\ o \in Seq(Line)
        /\ o[1] = Comment /\ o[2] = Header(d, None)
        /\ Len(o) = 2 + IF rows = <<>> THEN 1 ELSE Len(rows)
        /\ rows = <<>> => o[3] = Comment
        /\ rows # <<>> => \A k \in 1..Len(rows) : o[2 + k] = Directive(rows, k)
    <2>1. rows = dedupeExclusions(list)
      OBVIOUS
    <2> HIDE DEF rows
    <2> QED
      BY <2>1, ExclusionLines, SMTT(60)
  <1> HIDE DEF rows
  <1>2. Comment.line # "rule" /\ Header(d, None).line # "rule"
    BY DEF Comment, Header
  <1>3. DOMAIN o = 1..Len(o) /\ Len(rows) \in Nat
    <2>1. \A q \in Seq(Line) : DOMAIN q = 1..Len(q)
      OBVIOUS
    <2>2. \A q \in Seq(Exclusion) : Len(q) \in Nat
      OBVIOUS
    <2> QED
      BY <1>1, <2>1, <2>2
  <1>4. ASSUME NEW k \in DOMAIN o, o[k].line = "rule"
        PROVE  /\ k - 2 \in 1..Len(rows) /\ rows[k - 2].param # None
               /\ o[k].id = 9000001 + Cardinality(WithParam(rows, k - 2))
    <2>1. k # 1 /\ k # 2 /\ (rows = <<>> => k # 3)
      BY <1>1, <1>2, <1>4
    <2>2. rows # <<>> /\ k - 2 \in 1..Len(rows) /\ 2 + (k - 2) = k
      BY <1>1, <1>3, <2>1
    <2>3. o[k] = Directive(rows, k - 2)
      BY <1>1, <2>2
    <2> DEFINE ex == rows[k - 2]
               id == ID(rows, k - 2)
    <2>4. o[k] = IF ex.param = None
                 THEN [line |-> "remove", type |-> ex.type, value |-> ex.value]
                 ELSE [line |-> "rule", type |-> ex.type, value |-> ex.value,
                       param |-> ex.param, id |-> id]
      BY <2>3 DEF Directive
    <2>5. id = 9000001 + Cardinality(WithParam(rows, k - 2))
      BY DEF ID, WithParam
    <2> HIDE DEF ex, id
    <2>6. ex.param # None /\ o[k].id = id
      BY <1>4, <2>4
    <2> QED
      BY <2>2, <2>5, <2>6 DEF ex
  <1>5. ASSUME NEW k \in 1..Len(rows), NEW l \in 1..Len(rows), k < l, rows[k].param # None
        PROVE  Cardinality(WithParam(rows, k)) # Cardinality(WithParam(rows, l))
    <2>1. k \in WithParam(rows, l) /\ k \notin WithParam(rows, k)
          /\ WithParam(rows, k) \in SUBSET WithParam(rows, l)
      BY <1>3, <1>5 DEF WithParam
    <2>2. IsFiniteSet(WithParam(rows, l))
      BY <1>3, WithParamFinite
    <2>3. Cardinality(WithParam(rows, l)) = Cardinality(WithParam(rows, k))
            => WithParam(rows, l) = WithParam(rows, k)
      BY <2>1, <2>2, FS_Subset
    <2> QED
      BY <2>1, <2>3
  <1> DEFINE a == i - 2
             b == j - 2
  <1>6. /\ a \in 1..Len(rows) /\ b \in 1..Len(rows)
        /\ rows[a].param # None /\ rows[b].param # None
        /\ 9000001 + Cardinality(WithParam(rows, a)) = 9000001 + Cardinality(WithParam(rows, b))
    BY <1>4
  <1>7. Cardinality(WithParam(rows, a)) \in Nat /\ Cardinality(WithParam(rows, b)) \in Nat
    BY <1>3, <1>6, WithParamFinite
  <1>8. Cardinality(WithParam(rows, a)) = Cardinality(WithParam(rows, b))
    BY <1>6, <1>7
  <1>9. ~(a < b) /\ ~(b < a)
    BY <1>5, <1>6, <1>8
  <1> QED
    BY <1>3, <1>6, <1>9

-----------------------------------------------------------------------------
(* IP rules.                                                               *)

\* The bits that an entry fixes.
Length(e) == IF e.len = None THEN Width(e.fam) ELSE e.len

\* The bits of the mapped block.
BlockBits == W6 - W4

Matches(addr, e) == \A i \in 1..Length(e) : addr[i] = e.addr[i]

LEMMA WidthFacts ==
    /\ W4 \in Nat /\ W6 \in Nat /\ BlockBits \in Nat /\ BlockBits > 0 /\ W6 = BlockBits + W4
    /\ Width(4) = W4 /\ Width(6) = W6
    /\ Mapped \in [1..BlockBits -> {0, 1}] /\ Mapped[BlockBits] = 1 /\ BlockBits \in 1..BlockBits
    /\ 4 # 6
  BY WidthAssumption, MappedAssumption DEF BlockBits, Width

LEMMA EntryFacts ==
    ASSUME NEW e \in IPEntry
    PROVE  /\ e.fam \in {4, 6} /\ Width(e.fam) \in Nat
           /\ e.addr \in [1..Width(e.fam) -> {0, 1}]
           /\ Length(e) \in 0..Width(e.fam) /\ Length(e) \in Nat
  <1>1. CASE e \in [fam : {4}, addr : Address(4), len : 0..W4 \cup {None}]
    <2>1. e.fam = 4 /\ e.addr \in Address(4) /\ e.len \in 0..W4 \cup {None}
      BY <1>1
    <2> QED
      BY <2>1, WidthFacts DEF Address, Length
  <1>2. CASE e \in [fam : {6}, addr : Address(6), len : 0..W6 \cup {None}]
    <2>1. e.fam = 6 /\ e.addr \in Address(6) /\ e.len \in 0..W6 \cup {None}
      BY <1>2
    <2> QED
      BY <2>1, WidthFacts DEF Address, Length
  <1> QED
    BY <1>1, <1>2 DEF IPEntry

LEMMA MeansFacts ==
    ASSUME NEW e \in IPEntry, NEW c
    PROVE  Means(c, e) <=> \/ c.fam = e.fam /\ Matches(c.addr, e)
                           \/ /\ e.fam = 6 /\ c.fam = 4 /\ Length(e) >= BlockBits
                              /\ Matches(Mapped \o c.addr, e)
  <1> DEFINE f == [e EXCEPT !.len = Length(e)]
             m == [fam |-> 6, addr |-> Mapped \o c.addr]
  <1>1. f.fam = e.fam /\ f.addr = e.addr /\ f.len = Length(e)
    BY DEF IPEntry
  <1>2. m.fam = 6 /\ m.addr = Mapped \o c.addr
    OBVIOUS
  <1>3. Means(c, e) <=> \/ In(c, f)
                        \/ e.fam = 6 /\ c.fam = 4 /\ Length(e) >= W6 - W4 /\ In(m, f)
    BY DEF Means, Length
  <1> HIDE DEF f, m
  <1>4. In(c, f) <=> c.fam = e.fam /\ Matches(c.addr, e)
    BY <1>1 DEF In, Matches
  <1>5. In(m, f) <=> 6 = e.fam /\ Matches(Mapped \o c.addr, e)
    BY <1>1, <1>2 DEF In, Matches
  <1> QED
    BY <1>3, <1>4, <1>5 DEF BlockBits

LEMMA InFacts ==
    ASSUME NEW e \in IPEntry, e.len # None, NEW c
    PROVE  In(c, e) <=> c.fam = e.fam /\ Matches(c.addr, e)
  BY DEF In, Matches, Length

LEMMA ClientFacts ==
    ASSUME NEW c \in Clients
    PROVE  \/ c.fam = 4 /\ c.addr \in [1..W4 -> {0, 1}]
           \/ c.fam = 6 /\ c.addr \in [1..W6 -> {0, 1}] /\ \E i \in 1..BlockBits : c.addr[i] # Mapped[i]
  <1>1. CASE c \in [fam : {4}, addr : Address(4)]
    BY <1>1, WidthFacts DEF Address
  <1>2. CASE c \in [fam : {6}, addr : Address(6)] /\ ~IsTo4(6, c.addr)
    <2>1. c.fam = 6 /\ c.addr \in [1..W6 -> {0, 1}]
      BY <1>2, WidthFacts DEF Address
    <2>2. \E i \in 1..BlockBits : c.addr[i] # Mapped[i]
      BY <1>2, WidthFacts DEF IsTo4
    <2> QED
      BY <2>1, <2>2
  <1> QED
    BY <1>1, <1>2 DEF Clients

\* The IPv6 form of an IPv4 address.
LEMMA MappedAddress ==
    ASSUME NEW a \in [1..W4 -> {0, 1}]
    PROVE  /\ \A i \in 1..BlockBits : (Mapped \o a)[i] = Mapped[i]
           /\ \A i \in 1..W4 : (Mapped \o a)[BlockBits + i] = a[i]
  <1>1. /\ Mapped \in Seq({0, 1}) /\ Len(Mapped) = BlockBits
        /\ a \in Seq({0, 1}) /\ Len(a) = W4
    BY WidthFacts
  <1>2. \A i \in 1..BlockBits + W4 : (Mapped \o a)[i] = IF i <= BlockBits THEN Mapped[i] ELSE a[i - BlockBits]
    BY <1>1, ConcatProperties
  <1> DEFINE b == Mapped \o a
  <1> HIDE DEF b
  <1>3. \A i \in 1..BlockBits + W4 : b[i] = IF i <= BlockBits THEN Mapped[i] ELSE a[i - BlockBits]
    BY <1>2 DEF b
  <1>4. ASSUME NEW i \in 1..BlockBits PROVE b[i] = Mapped[i]
    <2>1. i \in 1..BlockBits + W4 /\ i <= BlockBits
      BY WidthFacts
    <2> QED
      BY <1>3, <2>1
  <1>5. ASSUME NEW i \in 1..W4 PROVE b[BlockBits + i] = a[i]
    <2>1. BlockBits + i \in 1..BlockBits + W4 /\ ~(BlockBits + i <= BlockBits) /\ (BlockBits + i) - BlockBits = i
      BY WidthFacts
    <2> QED
      BY <1>3, <2>1
  <1> QED
    BY <1>4, <1>5 DEF b

\* The result of the normalisation.
LEMMA NormalFacts ==
    ASSUME NEW e \in IPEntry, NEW r, r = normalizeIPEntry(e)
    PROVE  /\ r \in IPEntry /\ r.len # None
           /\ \/ /\ e.fam = 4 /\ r.fam = 4 /\ Length(r) = Length(e)
                 /\ \A i \in 1..Length(e) : r.addr[i] = e.addr[i]
              \/ /\ e.fam = 6 /\ r.fam = 4 /\ Length(e) >= BlockBits /\ Length(r) = Length(e) - BlockBits
                 /\ \A i \in 1..BlockBits : e.addr[i] = Mapped[i]
                 /\ \A i \in 1..Length(r) : r.addr[i] = e.addr[BlockBits + i]
              \/ /\ e.fam = 6 /\ r.fam = 6 /\ Length(r) = Length(e)
                 /\ \A i \in 1..Length(e) : r.addr[i] = e.addr[i]
                 /\ Length(e) >= BlockBits => \E i \in 1..BlockBits : e.addr[i] # Mapped[i]
  <1> DEFINE len == Length(e)
             net == Masked(e.addr, len)
  <1>1. /\ e.fam \in {4, 6} /\ Width(e.fam) \in Nat
        /\ e.addr \in [1..Width(e.fam) -> {0, 1}]
        /\ len \in 0..Width(e.fam) /\ len \in Nat
    BY EntryFacts
  <1>2. r = IF IsTo4(e.fam, net)
            THEN [fam |-> 4, addr |-> To4(e.fam, net),
                  len |-> IF e.fam = 4 THEN len ELSE IF len > BlockBits THEN len - BlockBits ELSE 0]
            ELSE [fam |-> 6, addr |-> net, len |-> len]
    BY DEF normalizeIPEntry, Length, BlockBits
  <1>3. /\ net \in [1..Width(e.fam) -> {0, 1}]
        /\ \A i \in 1..Width(e.fam) : net[i] = IF i <= len THEN e.addr[i] ELSE 0
    BY <1>1 DEF Masked
  <1> HIDE DEF len, net
  <1>4. \A i \in 1..len : i \in 1..Width(e.fam) /\ net[i] = e.addr[i]
    BY <1>1, <1>3
  <1>5. CASE e.fam = 4
    <2>1. r = [fam |-> 4, addr |-> net, len |-> len]
      BY <1>2, <1>5 DEF IsTo4, To4
    <2>2. net \in Address(4) /\ len \in 0..W4 /\ len # None
      BY <1>1, <1>3, <1>5, WidthFacts, NoneAssumption DEF Address
    <2>3. r \in IPEntry /\ r.len # None /\ Length(r) = len /\ r.fam = 4 /\ r.addr = net
      BY <2>1, <2>2 DEF IPEntry, Length
    <2> QED
      BY <1>4, <1>5, <2>3 DEF len
  <1>6. CASE e.fam = 6 /\ IsTo4(6, net)
    <2>1. \A i \in 1..BlockBits : net[i] = Mapped[i]
      BY <1>6, WidthFacts DEF IsTo4
    <2>2. len >= BlockBits
      <3>1. net[BlockBits] = 1 /\ BlockBits \in 1..Width(6)
        BY <2>1, WidthFacts
      <3> QED
        BY <1>1, <1>3, <1>6, <3>1, WidthFacts
    <2>3. (IF len > BlockBits THEN len - BlockBits ELSE 0) = len - BlockBits /\ len - BlockBits \in 0..W4 /\ len - BlockBits \in Nat
      BY <1>1, <1>6, <2>2, WidthFacts
    <2> DEFINE a == [i \in 1..W4 |-> net[BlockBits + i]]
    <2>4. r = [fam |-> 4, addr |-> a, len |-> len - BlockBits]
      <3>1. To4(6, net) = a
        BY Zenon, WidthFacts DEF To4, BlockBits
      <3> HIDE DEF a
      <3> QED
        BY <1>2, <1>6, <2>3, <3>1
    <2>5. a \in Address(4)
      <3>1. \A i \in 1..W4 : BlockBits + i \in 1..W6 /\ net[BlockBits + i] \in {0, 1}
        BY <1>3, <1>6, WidthFacts
      <3> QED
        BY <3>1, WidthFacts DEF Address
    <2>6. \A i \in 1..(len - BlockBits) : i \in 1..W4 /\ BlockBits + i \in 1..len
      BY <1>1, <2>3, WidthFacts
    <2>7. \A i \in 1..(len - BlockBits) : a[i] = e.addr[BlockBits + i]
      BY <1>4, <2>6
    <2>8. \A i \in 1..BlockBits : i \in 1..len
      BY <1>1, <2>2, WidthFacts
    <2>9. \A i \in 1..BlockBits : e.addr[i] = Mapped[i]
      BY <1>4, <2>1, <2>8
    <2> HIDE DEF a
    <2>10. len - BlockBits # None
      BY <2>3, NoneAssumption
    <2>11. r \in [fam : {4}, addr : Address(4), len : 0..W4 \cup {None}]
      BY <2>3, <2>4, <2>5
    <2>12. r.len # None /\ Length(r) = len - BlockBits /\ r.fam = 4 /\ r.addr = a
      BY <2>4, <2>10 DEF Length
    <2> QED
      BY <1>6, <2>2, <2>7, <2>9, <2>11, <2>12 DEF len, IPEntry
  <1>7. CASE e.fam = 6 /\ ~IsTo4(6, net)
    <2>1. r = [fam |-> 6, addr |-> net, len |-> len]
      BY <1>2, <1>7
    <2>2. net \in Address(6) /\ len \in 0..W6 /\ len # None
      BY <1>1, <1>3, <1>7, WidthFacts, NoneAssumption DEF Address
    <2>3. r \in IPEntry /\ r.len # None /\ Length(r) = len /\ r.fam = 6 /\ r.addr = net
      BY <2>1, <2>2 DEF IPEntry, Length
    <2>4. PICK i \in 1..BlockBits : net[i] # Mapped[i]
      BY <1>7, WidthFacts DEF IsTo4
    <2>5. len >= BlockBits => e.addr[i] # Mapped[i]
      <3>1. len >= BlockBits => i \in 1..len
        BY <1>1, WidthFacts
      <3> QED
        BY <1>4, <2>4, <3>1
    <2> QED
      BY <1>4, <1>7, <2>3, <2>4, <2>5 DEF len
  <1> QED
    BY <1>1, <1>5, <1>6, <1>7

\* Normalisation (normalizeIPEntry) changes the clients of no entry, whatever
\* the widths of the addresses: an entry in the overlay has the clients that
\* the entry typed means, and means the same again when a form reads it back.
THEOREM NormalizationKeepsClients ==
    ASSUME NEW e \in IPEntry, NEW c \in Clients
    PROVE  /\ In(c, normalizeIPEntry(e)) <=> Means(c, e)
           /\ Means(c, normalizeIPEntry(e)) <=> In(c, normalizeIPEntry(e))
  <1> DEFINE r == normalizeIPEntry(e)
  <1>1. /\ r \in IPEntry /\ r.len # None
        /\ \/ /\ e.fam = 4 /\ r.fam = 4 /\ Length(r) = Length(e)
              /\ \A i \in 1..Length(e) : r.addr[i] = e.addr[i]
           \/ /\ e.fam = 6 /\ r.fam = 4 /\ Length(e) >= BlockBits /\ Length(r) = Length(e) - BlockBits
              /\ \A i \in 1..BlockBits : e.addr[i] = Mapped[i]
              /\ \A i \in 1..Length(r) : r.addr[i] = e.addr[BlockBits + i]
           \/ /\ e.fam = 6 /\ r.fam = 6 /\ Length(r) = Length(e)
              /\ \A i \in 1..Length(e) : r.addr[i] = e.addr[i]
              /\ Length(e) >= BlockBits => \E i \in 1..BlockBits : e.addr[i] # Mapped[i]
    <2>1. r = normalizeIPEntry(e)
      OBVIOUS
    <2> HIDE DEF r
    <2> QED
      BY <2>1, NormalFacts
  <1> HIDE DEF r
  <1>2. /\ Length(e) \in Nat /\ Length(r) \in Nat
        /\ Length(e) <= Width(e.fam) /\ Width(e.fam) \in Nat
    BY <1>1, EntryFacts
  <1>3. Means(c, e) <=> \/ c.fam = e.fam /\ Matches(c.addr, e)
                        \/ /\ e.fam = 6 /\ c.fam = 4 /\ Length(e) >= BlockBits
                           /\ Matches(Mapped \o c.addr, e)
    BY MeansFacts
  <1>4. Means(c, r) <=> \/ c.fam = r.fam /\ Matches(c.addr, r)
                        \/ /\ r.fam = 6 /\ c.fam = 4 /\ Length(r) >= BlockBits
                           /\ Matches(Mapped \o c.addr, r)
    BY <1>1, MeansFacts
  <1>5. In(c, r) <=> c.fam = r.fam /\ Matches(c.addr, r)
    BY <1>1, InFacts
  <1>6. \/ c.fam = 4 /\ c.addr \in [1..W4 -> {0, 1}]
        \/ c.fam = 6 /\ c.addr \in [1..W6 -> {0, 1}] /\ \E i \in 1..BlockBits : c.addr[i] # Mapped[i]
    BY ClientFacts
  <1>7. CASE e.fam = 4
    <2>1. /\ r.fam = 4 /\ Length(r) = Length(e)
          /\ \A i \in 1..Length(e) : r.addr[i] = e.addr[i]
      BY <1>1, <1>7
    <2>2. Matches(c.addr, r) <=> Matches(c.addr, e)
      BY <2>1 DEF Matches
    <2> QED
      BY <1>3, <1>4, <1>5, <1>7, <2>1, <2>2 DEF r
  <1>8. CASE e.fam = 6 /\ r.fam = 4
    <2>1. /\ Length(e) >= BlockBits /\ Length(r) = Length(e) - BlockBits
          /\ \A i \in 1..BlockBits : e.addr[i] = Mapped[i]
          /\ \A i \in 1..Length(r) : r.addr[i] = e.addr[BlockBits + i]
      BY <1>1, <1>8
    <2>2. CASE c.fam = 6
      <3>1. PICK i \in 1..BlockBits : c.addr[i] # Mapped[i]
        BY <1>6, <2>2
      <3>2. i \in 1..Length(e)
        BY <1>2, <2>1, WidthFacts
      <3>3. ~Matches(c.addr, e)
        BY <2>1, <3>1, <3>2 DEF Matches
      <3> QED
        BY <1>3, <1>4, <1>5, <1>8, <2>2, <3>3 DEF r
    <2>3. CASE c.fam = 4
      <3> DEFINE b == Mapped \o c.addr
      <3>1. /\ \A i \in 1..BlockBits : b[i] = Mapped[i]
            /\ \A i \in 1..W4 : b[BlockBits + i] = c.addr[i]
        <4>1. c.addr \in [1..W4 -> {0, 1}]
          BY <1>6, <2>3
        <4> QED
          BY <4>1, MappedAddress, Zenon
      <3> HIDE DEF b
      <3>2. \A i \in 1..Length(r) : i \in 1..W4 /\ BlockBits + i \in 1..Length(e)
        BY <1>2, <1>8, <2>1, WidthFacts
      <3>3. ASSUME Matches(b, e) PROVE Matches(c.addr, r)
        BY <2>1, <3>1, <3>2, <3>3 DEF Matches
      <3>4. ASSUME Matches(c.addr, r), NEW i \in 1..Length(e) PROVE b[i] = e.addr[i]
        <4>1. CASE i <= BlockBits
          <5>1. i \in 1..BlockBits
            BY <1>2, <4>1, WidthFacts
          <5> QED
            BY <2>1, <3>1, <5>1
        <4>2. CASE ~(i <= BlockBits)
          <5>1. i - BlockBits \in 1..Length(r) /\ BlockBits + (i - BlockBits) = i
            BY <1>2, <2>1, <4>2, WidthFacts
          <5>2. i - BlockBits \in 1..W4
            BY <3>2, <5>1
          <5>3. b[BlockBits + (i - BlockBits)] = c.addr[i - BlockBits]
            BY <3>1, <5>2
          <5>4. c.addr[i - BlockBits] = r.addr[i - BlockBits] /\ r.addr[i - BlockBits] = e.addr[BlockBits + (i - BlockBits)]
            BY <2>1, <3>4, <5>1 DEF Matches
          <5> QED
            BY <5>1, <5>3, <5>4
        <4> QED
          BY <4>1, <4>2
      <3>5. Matches(b, e) <=> Matches(c.addr, r)
        BY <3>3, <3>4 DEF Matches
      <3>6. Matches(Mapped \o c.addr, e) <=> Matches(c.addr, r)
        BY <3>5 DEF b
      <3> QED
        BY <1>3, <1>4, <1>5, <1>8, <2>1, <2>3, <3>6 DEF r
    <2> QED
      BY <1>6, <2>2, <2>3
  <1>9. CASE e.fam = 6 /\ r.fam = 6
    <2>1. /\ Length(r) = Length(e)
          /\ \A i \in 1..Length(e) : r.addr[i] = e.addr[i]
          /\ Length(e) >= BlockBits => \E i \in 1..BlockBits : e.addr[i] # Mapped[i]
      BY <1>1, <1>9, WidthFacts
    <2>2. \A a : Matches(a, r) <=> Matches(a, e)
      BY <2>1 DEF Matches
    <2>3. ASSUME c.fam = 4, Length(e) >= BlockBits PROVE ~Matches(Mapped \o c.addr, e)
      <3> DEFINE b == Mapped \o c.addr
      <3>1. \A i \in 1..BlockBits : b[i] = Mapped[i]
        BY <1>6, <2>3, MappedAddress, WidthFacts
      <3> HIDE DEF b
      <3>2. PICK i \in 1..BlockBits : e.addr[i] # Mapped[i]
        BY <2>1, <2>3
      <3>3. i \in 1..Length(e)
        BY <1>2, <2>3, WidthFacts
      <3>4. ~Matches(b, e)
        BY <3>1, <3>2, <3>3 DEF Matches
      <3> QED
        BY <3>4 DEF b
    <2> HIDE DEF Matches
    <2> QED
      BY <1>3, <1>4, <1>5, <1>9, <2>1, <2>2, <2>3 DEF r
  <1> QED
    BY <1>1, <1>7, <1>8, <1>9

Norm(list) == [i \in DOMAIN list |-> normalizeIPEntry(list[i])]

LEMMA NormFacts ==
    ASSUME NEW list \in Seq(IPEntry)
    PROVE  /\ Norm(list) \in Seq(IPEntry) /\ Len(Norm(list)) = Len(list)
           /\ \A i \in 1..Len(list) : Norm(list)[i] = normalizeIPEntry(list[i])
  <1>1. Norm(list) = [i \in 1..Len(list) |-> normalizeIPEntry(list[i])] /\ Len(list) \in Nat
    BY DEF Norm
  <1>2. \A i \in 1..Len(list) : normalizeIPEntry(list[i]) \in IPEntry
    BY NormalFacts, ElementOfSeq
  <1>3. Norm(list) \in [1..Len(list) -> IPEntry]
    BY <1>1, <1>2
  <1> QED
    BY <1>1, <1>3

\* The entries that the parser finds in the matchers of one name.
Entries(o, name) ==
    FlattenSeq([i \in DOMAIN o |-> IF o[i].line = name THEN o[i].ips ELSE <<>>])

Matchers == {"remote_ip", "not remote_ip"}

LEMMA ParsedRules ==
    ASSUME NEW o
    PROVE  parseIPRulesOverlay(o) =
             [deny |-> Entries(o, "remote_ip"), allow |-> Entries(o, "not remote_ip")]
  BY Zenon DEF parseIPRulesOverlay, Entries

LEMMA EntriesFacts ==
    ASSUME NEW o \in Seq(Line), NEW name \in Matchers,
           NEW ss, ss = [i \in DOMAIN o |-> IF o[i].line = name THEN o[i].ips ELSE <<>>]
    PROVE  /\ ss \in Seq(Seq(IPEntry)) /\ Len(ss) = Len(o)
           /\ Entries(o, name) = FlattenSeq(ss)
           /\ \A i \in 1..Len(o) : ss[i] = IF o[i].line = name THEN o[i].ips ELSE <<>>
  <1>1. DOMAIN o = 1..Len(o) /\ Len(o) \in Nat
    OBVIOUS
  <1>2. ASSUME NEW l \in Line, l.line = name PROVE l.ips \in Seq(IPEntry)
    BY <1>2 DEF Line, Matchers
  <1>3. ASSUME NEW i \in 1..Len(o)
        PROVE  (IF o[i].line = name THEN o[i].ips ELSE <<>>) \in Seq(IPEntry)
    <2>1. o[i] \in Line
      BY ElementOfSeq
    <2>2. CASE o[i].line = name
      BY <1>2, <2>1, <2>2
    <2>3. CASE o[i].line # name
      BY <2>3, EmptySeq
    <2> QED
      BY <2>2, <2>3
  <1>4. ss \in [1..Len(o) -> Seq(IPEntry)]
    BY <1>1, <1>3
  <1>5. Entries(o, name) = FlattenSeq(ss)
    BY DEF Entries
  <1>6. ss \in Seq(Seq(IPEntry)) /\ Len(ss) = Len(o)
    BY <1>1, <1>4
  <1>7. \A i \in 1..Len(o) : ss[i] = IF o[i].line = name THEN o[i].ips ELSE <<>>
    BY <1>1
  <1> QED
    BY <1>5, <1>6, <1>7

LEMMA OneMatcher ==
    ASSUME NEW o \in Seq(Line), NEW name \in Matchers, NEW k \in 1..Len(o),
           o[k].line = name, \A i \in 1..Len(o) : i # k => o[i].line # name
    PROVE  Entries(o, name) = o[k].ips
  <1> DEFINE ss == [i \in DOMAIN o |-> IF o[i].line = name THEN o[i].ips ELSE <<>>]
  <1>1. /\ ss \in Seq(Seq(IPEntry)) /\ Len(ss) = Len(o)
        /\ Entries(o, name) = FlattenSeq(ss)
        /\ \A i \in 1..Len(o) : ss[i] = IF o[i].line = name THEN o[i].ips ELSE <<>>
    BY EntriesFacts
  <1> HIDE DEF ss
  <1>2. k \in 1..Len(ss) /\ \A i \in 1..Len(ss) : i # k => ss[i] = <<>>
    BY <1>1
  <1>3. FlattenSeq(ss) = ss[k]
    BY <1>1, <1>2, FlattenOne
  <1> QED
    BY <1>1, <1>3

LEMMA NoMatcher ==
    ASSUME NEW o \in Seq(Line), NEW name \in Matchers, \A i \in 1..Len(o) : o[i].line # name
    PROVE  Entries(o, name) = <<>>
  <1> DEFINE ss == [i \in DOMAIN o |-> IF o[i].line = name THEN o[i].ips ELSE <<>>]
  <1>1. /\ ss \in Seq(Seq(IPEntry)) /\ Len(ss) = Len(o)
        /\ Entries(o, name) = FlattenSeq(ss)
        /\ \A i \in 1..Len(o) : ss[i] = IF o[i].line = name THEN o[i].ips ELSE <<>>
    BY EntriesFacts
  <1> HIDE DEF ss
  <1>2. \A i \in 1..Len(ss) : ss[i] = <<>>
    BY <1>1
  <1>3. CASE Len(o) = 0
    <2>1. Len(ss) = 0 /\ ss = <<>>
      BY <1>1, <1>3, EmptySeq
    <2> QED
      BY <1>1, <2>1 DEF FlattenSeq
  <1>4. CASE Len(o) # 0
    <2>1. 1 \in 1..Len(ss)
      BY <1>1, <1>4
    <2>2. FlattenSeq(ss) = ss[1]
      BY <1>1, <1>2, <2>1, FlattenOne
    <2> QED
      BY <1>1, <1>2, <2>1, <2>2
  <1> QED
    BY <1>3, <1>4

\* The matchers of a list, as GenerateIPRules writes them.
Matcher(name, list) == IF list = <<>> THEN <<>> ELSE <<[line |-> name, ips |-> Norm(list)]>>

Rules == [deny : Seq(IPEntry), allow : Seq(IPEntry)]

LEMMA RuleLines ==
    ASSUME NEW d, NEW rules
    PROVE  GenerateIPRules(d, rules) =
             <<Comment, Header(d, None)>> \o
               IF rules.deny = <<>> /\ rules.allow = <<>> THEN <<Comment>>
               ELSE Matcher("remote_ip", rules.deny) \o Matcher("not remote_ip", rules.allow)
  BY Zenon DEF GenerateIPRules, Matcher, Norm

LEMMA Concatenations ==
    ASSUME NEW a, NEW b, NEW x, NEW y
    PROVE  /\ <<a, b>> \o <<x>> = <<a, b, x>>
           /\ <<a, b>> \o (<<x>> \o <<>>) = <<a, b, x>>
           /\ <<a, b>> \o (<<>> \o <<x>>) = <<a, b, x>>
           /\ <<a, b>> \o (<<x>> \o <<y>>) = <<a, b, x, y>>
  <1> DEFINE X == {a, b, x, y}
  <1>1. ASSUME NEW p \in Seq(X), NEW q \in Seq(X), NEW u \in Seq(X), Len(u) = Len(p) + Len(q),
               \A i \in 1..Len(u) : u[i] = IF i <= Len(p) THEN p[i] ELSE q[i - Len(p)]
        PROVE  p \o q = u
    <2>1. /\ p \o q \in Seq(X) /\ Len(p \o q) = Len(p) + Len(q)
          /\ \A i \in 1..Len(p) + Len(q) : (p \o q)[i] = IF i <= Len(p) THEN p[i] ELSE q[i - Len(p)]
      BY ConcatProperties
    <2> DEFINE v == p \o q
    <2> HIDE DEF v
    <2>2. v \in Seq(X) /\ Len(v) = Len(u) /\ \A i \in 1..Len(v) : v[i] = u[i]
      BY <1>1, <2>1 DEF v
    <2>3. v = u
      BY <2>2, SeqEqual
    <2> QED
      BY <2>3 DEF v
  <1>2. a \in X /\ b \in X /\ x \in X /\ y \in X
    OBVIOUS
  <1> HIDE DEF X
  <1>3. <<a, b>> \o <<x>> = <<a, b, x>>
    <2> DEFINE p == <<a, b>>
               q == <<x>>
               u == <<a, b, x>>
    <2>1. p \in Seq(X) /\ q \in Seq(X) /\ u \in Seq(X)
      BY <1>2
    <2>2. /\ Len(p) = 2 /\ Len(q) = 1 /\ Len(u) = 3
          /\ p[1] = a /\ p[2] = b
          /\ q[1] = x
          /\ u[1] = a /\ u[2] = b /\ u[3] = x
      OBVIOUS
    <2> HIDE DEF p, q, u
    <2>3. \A i \in 1..Len(u) : u[i] = IF i <= Len(p) THEN p[i] ELSE q[i - Len(p)]
      BY <2>2
    <2>4. Len(u) = Len(p) + Len(q)
      BY <2>2
    <2>5. p \o q = u
      BY <1>1, <2>1, <2>3, <2>4, Zenon
    <2> QED
      BY <2>5 DEF p, q, u
  <1>4. <<x>> \o <<>> = <<x>> /\ <<>> \o <<x>> = <<x>>
    OBVIOUS
  <1>5. <<x>> \o <<y>> = <<x, y>>
    <2> DEFINE p == <<x>>
               q == <<y>>
               u == <<x, y>>
    <2>1. p \in Seq(X) /\ q \in Seq(X) /\ u \in Seq(X)
      BY <1>2
    <2>2. /\ Len(p) = 1 /\ Len(q) = 1 /\ Len(u) = 2
          /\ p[1] = x
          /\ q[1] = y
          /\ u[1] = x /\ u[2] = y
      OBVIOUS
    <2> HIDE DEF p, q, u
    <2>3. \A i \in 1..Len(u) : u[i] = IF i <= Len(p) THEN p[i] ELSE q[i - Len(p)]
      BY <2>2
    <2>4. Len(u) = Len(p) + Len(q)
      BY <2>2
    <2>5. p \o q = u
      BY <1>1, <2>1, <2>3, <2>4, Zenon
    <2> QED
      BY <2>5 DEF p, q, u
  <1>6. <<a, b>> \o <<x, y>> = <<a, b, x, y>>
    <2> DEFINE p == <<a, b>>
               q == <<x, y>>
               u == <<a, b, x, y>>
    <2>1. p \in Seq(X) /\ q \in Seq(X) /\ u \in Seq(X)
      BY <1>2
    <2>2. /\ Len(p) = 2 /\ Len(q) = 2 /\ Len(u) = 4
          /\ p[1] = a /\ p[2] = b
          /\ q[1] = x /\ q[2] = y
          /\ u[1] = a /\ u[2] = b /\ u[3] = x /\ u[4] = y
      OBVIOUS
    <2> HIDE DEF p, q, u
    <2>3. \A i \in 1..Len(u) : u[i] = IF i <= Len(p) THEN p[i] ELSE q[i - Len(p)]
      BY <2>2
    <2>4. Len(u) = Len(p) + Len(q)
      BY <2>2
    <2>5. p \o q = u
      BY <1>1, <2>1, <2>3, <2>4, Zenon
    <2> QED
      BY <2>5 DEF p, q, u
  <1> QED
    BY <1>3, <1>4, <1>5, <1>6

\* What a form reads back of the IP rules is what was written, normalised.
THEOREM IPRulesReadBack ==
    ASSUME NEW d \in Name, NEW rules \in Rules
    PROVE  /\ GenerateIPRules(d, rules) \in Seq(Line)
           /\ GenerateIPRules(d, rules)[2] = Header(d, None)
           /\ GenerateIPRules(d, rules)[1] = Comment
           /\ Len(GenerateIPRules(d, rules)) >= 3
           /\ parseIPRulesOverlay(GenerateIPRules(d, rules)) =
                [deny |-> Norm(rules.deny), allow |-> Norm(rules.allow)]
  <1> DEFINE o == GenerateIPRules(d, rules)
             x == [line |-> "remote_ip", ips |-> Norm(rules.deny)]
             y == [line |-> "not remote_ip", ips |-> Norm(rules.allow)]
             h == Header(d, None)
  <1>1. rules.deny \in Seq(IPEntry) /\ rules.allow \in Seq(IPEntry)
    BY DEF Rules
  <1>2. Norm(rules.deny) \in Seq(IPEntry) /\ Norm(rules.allow) \in Seq(IPEntry)
    BY <1>1, NormFacts
  <1>3. x \in Line /\ y \in Line /\ Comment \in Line /\ h \in Line
    BY <1>2, LinesExist DEF Line
  <1>4. /\ x.line = "remote_ip" /\ x.ips = Norm(rules.deny)
        /\ y.line = "not remote_ip" /\ y.ips = Norm(rules.allow)
        /\ Comment.line = "comment" /\ h.line = "header"
    BY DEF Comment, Header
  <1>5. rules.deny = <<>> => Norm(rules.deny) = <<>>
    <2>1. ASSUME NEW list \in Seq(IPEntry), list = <<>> PROVE Norm(list) = <<>>
      BY <2>1, NormFacts, EmptySeq
    <2> QED
      BY <1>1, <2>1
  <1>6. rules.allow = <<>> => Norm(rules.allow) = <<>>
    <2>1. ASSUME NEW list \in Seq(IPEntry), list = <<>> PROVE Norm(list) = <<>>
      BY <2>1, NormFacts, EmptySeq
    <2> QED
      BY <1>1, <2>1
  <1>7. o = IF rules.deny = <<>> /\ rules.allow = <<>> THEN <<Comment, h, Comment>>
            ELSE IF rules.allow = <<>> THEN <<Comment, h, x>>
            ELSE IF rules.deny = <<>> THEN <<Comment, h, y>>
            ELSE <<Comment, h, x, y>>
    <2>1. o = <<Comment, h>> \o
                 IF rules.deny = <<>> /\ rules.allow = <<>> THEN <<Comment>>
                 ELSE (IF rules.deny = <<>> THEN <<>> ELSE <<x>>) \o
                      (IF rules.allow = <<>> THEN <<>> ELSE <<y>>)
      BY RuleLines, Zenon DEF Matcher
    <2> HIDE DEF o, x, y, h
    <2> QED
      BY <2>1, Concatenations
  <1>8. parseIPRulesOverlay(o) =
          [deny |-> Entries(o, "remote_ip"), allow |-> Entries(o, "not remote_ip")]
    BY ParsedRules
  <1> HIDE DEF o, x, y, h
  <1> SUFFICES /\ o \in Seq(Line) /\ o[1] = Comment /\ o[2] = h /\ Len(o) >= 3
               /\ Entries(o, "remote_ip") = Norm(rules.deny)
               /\ Entries(o, "not remote_ip") = Norm(rules.allow)
    BY <1>8 DEF o, h
  <1>9. "remote_ip" \in Matchers /\ "not remote_ip" \in Matchers
    BY DEF Matchers
  <1>10. ASSUME NEW z \in Line, o = <<Comment, h, z>>
         PROVE  /\ o \in Seq(Line) /\ Len(o) = 3 /\ o[1] = Comment /\ o[2] = h /\ o[3] = z
                /\ \A i \in 1..Len(o) : i # 3 => o[i] = Comment \/ o[i] = h
    BY <1>3, <1>10
  <1>11. CASE rules.deny = <<>> /\ rules.allow = <<>>
    <2>1. o = <<Comment, h, Comment>>
      BY <1>7, <1>11
    <2>2. o \in Seq(Line) /\ Len(o) = 3 /\ o[1] = Comment /\ o[2] = h
          /\ \A i \in 1..Len(o) : o[i] = Comment \/ o[i] = h
      BY <1>3, <1>10, <2>1
    <2>3. Entries(o, "remote_ip") = <<>> /\ Entries(o, "not remote_ip") = <<>>
      BY <1>4, <1>9, <2>2, NoMatcher
    <2>6. Len(o) >= 3
      BY <2>2
    <2> QED
      BY <1>5, <1>6, <1>11, <2>2, <2>3, <2>6
  <1>12. CASE rules.deny # <<>> /\ rules.allow = <<>>
    <2>1. o = <<Comment, h, x>>
      BY <1>7, <1>12
    <2>2. /\ o \in Seq(Line) /\ Len(o) = 3 /\ o[1] = Comment /\ o[2] = h /\ o[3] = x
          /\ \A i \in 1..Len(o) : i # 3 => o[i] = Comment \/ o[i] = h
      BY <1>3, <1>10, <2>1
    <2>3. /\ 3 \in 1..Len(o) /\ o[3].line = "remote_ip"
          /\ \A i \in 1..Len(o) : o[i].line # "not remote_ip"
          /\ \A i \in 1..Len(o) : i # 3 => o[i].line # "remote_ip"
      <3>0. 3 \in 1..Len(o)
        BY <2>2
      <3>1. o[3].line = "remote_ip"
        BY <1>4, <2>2
      <3>2. \A i \in 1..Len(o) : i # 3 => o[i].line = "comment" \/ o[i].line = "header"
        BY <1>4, <2>2
      <3> QED
        BY <3>0, <3>1, <3>2
    <2>4. Entries(o, "remote_ip") = x.ips
      BY <1>9, <2>2, <2>3, OneMatcher
    <2>5. Entries(o, "not remote_ip") = <<>>
      BY <1>9, <2>2, <2>3, NoMatcher
    <2>6. Len(o) >= 3
      BY <2>2
    <2> QED
      BY <1>4, <1>6, <1>12, <2>2, <2>4, <2>5, <2>6
  <1>13. CASE rules.deny = <<>> /\ rules.allow # <<>>
    <2>1. o = <<Comment, h, y>>
      BY <1>7, <1>13
    <2>2. /\ o \in Seq(Line) /\ Len(o) = 3 /\ o[1] = Comment /\ o[2] = h /\ o[3] = y
          /\ \A i \in 1..Len(o) : i # 3 => o[i] = Comment \/ o[i] = h
      BY <1>3, <1>10, <2>1
    <2>3. /\ 3 \in 1..Len(o) /\ o[3].line = "not remote_ip"
          /\ \A i \in 1..Len(o) : o[i].line # "remote_ip"
          /\ \A i \in 1..Len(o) : i # 3 => o[i].line # "not remote_ip"
      <3>0. 3 \in 1..Len(o)
        BY <2>2
      <3>1. o[3].line = "not remote_ip"
        BY <1>4, <2>2
      <3>2. \A i \in 1..Len(o) : i # 3 => o[i].line = "comment" \/ o[i].line = "header"
        BY <1>4, <2>2
      <3> QED
        BY <3>0, <3>1, <3>2
    <2>4. Entries(o, "not remote_ip") = y.ips
      BY <1>9, <2>2, <2>3, OneMatcher
    <2>5. Entries(o, "remote_ip") = <<>>
      BY <1>9, <2>2, <2>3, NoMatcher
    <2>6. Len(o) >= 3
      BY <2>2
    <2> QED
      BY <1>4, <1>5, <1>13, <2>2, <2>4, <2>5, <2>6
  <1>14. CASE rules.deny # <<>> /\ rules.allow # <<>>
    <2>1. o = <<Comment, h, x, y>>
      BY <1>7, <1>14
    <2>2. /\ o \in Seq(Line) /\ Len(o) = 4
          /\ o[1] = Comment /\ o[2] = h /\ o[3] = x /\ o[4] = y
          /\ \A i \in 1..Len(o) : i = 1 \/ i = 2 \/ i = 3 \/ i = 4
      BY <1>3, <2>1
    <2>3. /\ 3 \in 1..Len(o) /\ o[3].line = "remote_ip"
          /\ 4 \in 1..Len(o) /\ o[4].line = "not remote_ip"
          /\ \A i \in 1..Len(o) : i # 4 => o[i].line # "not remote_ip"
          /\ \A i \in 1..Len(o) : i # 3 => o[i].line # "remote_ip"
      <3>1. 3 \in 1..Len(o) /\ 4 \in 1..Len(o)
        BY <2>2
      <3>2. o[1].line = "comment" /\ o[2].line = "header"
        BY <1>4, <2>2
      <3>3. o[3].line = "remote_ip" /\ o[4].line = "not remote_ip"
        BY <1>4, <2>2
      <3> QED
        BY <2>2, <3>1, <3>2, <3>3
    <2>4. Entries(o, "remote_ip") = x.ips
      BY <1>9, <2>2, <2>3, OneMatcher
    <2>5. Entries(o, "not remote_ip") = y.ips
      BY <1>9, <2>2, <2>3, OneMatcher
    <2>6. Len(o) >= 3
      BY <2>2
    <2> QED
      BY <1>4, <1>14, <2>2, <2>4, <2>5, <2>6
  <1> QED
    BY <1>11, <1>12, <1>13, <1>14

-----------------------------------------------------------------------------
(* The overlays that the generators write.                                 *)

\* An overlay that the generator of its type wrote for a name.
Generated(t, d, o) ==
    \/ /\ t = "waf"
       /\ \E mode \in STRING : (mode \in Modes \/ mode # None) /\ o = GenerateMode(d, mode)
    \/ /\ t = "exclusions"
       /\ \E list \in Seq(Exclusion) : o = GenerateExclusions(d, list)
    \/ /\ t = "ip-rules"
       /\ \E rules \in Rules : o = GenerateIPRules(d, rules)

\* A file of a slug: nothing but a comment, or generated for a name of the slug.
Made(t, s, o) == o = Placeholder \/ \E d \in Valid : DomainSlug(d) = s /\ Generated(t, d, o)

LEMMA NameOfValid ==
    ASSUME NEW d \in Valid
    PROVE  d \in Name /\ Host(d) \in Hosts /\ DomainSlug(d) \in Slugs /\ d \in Domains
  BY DomainsAssumption DEF Valid, Hosts, Slugs

LEMMA PlaceholderFacts ==
    /\ Placeholder \in Seq(Line) /\ Len(Placeholder) = 1
    /\ \A i \in 1..Len(Placeholder) : Placeholder[i].line = "comment"
  <1>1. Len(Placeholder) = 1 /\ Placeholder[1] = Comment
    BY DEF Placeholder
  <1>2. \A i \in 1..Len(Placeholder) : i = 1
    BY <1>1
  <1>3. Comment.line = "comment"
    BY DEF Comment
  <1> QED
    BY <1>1, <1>2, <1>3, LinesExist

\* The site that a header declares.
Site(d, mode) == [domain |-> d, mode |-> ShownMode(mode), degraded |-> Degraded(mode)]

\* The site of an overlay with its header in the second line.
LEMMA SecondLineHeader ==
    ASSUME NEW o \in Seq(Line), Len(o) >= 2, o[1] = Comment, NEW d, NEW mode, o[2] = Header(d, mode)
    PROVE  parseSiteHeader(o) = {Site(d, mode)}
  <1> DEFINE first == {j \in DOMAIN o : /\ o[j].line = "header"
                                       /\ \A k \in 1..(j - 1) : o[k].line # "header"}
  <1>1. DOMAIN o = 1..Len(o) /\ Len(o) \in Nat
    OBVIOUS
  <1>2. o[1].line = "comment" /\ o[2].line = "header" /\ o[2].domain = d /\ o[2].mode = mode
    BY DEF Comment, Header
  <1>3. 2 \in first
    <2>1. 2 \in DOMAIN o /\ \A k \in 1..(2 - 1) : k = 1
      BY <1>1
    <2> QED
      BY <1>2, <2>1
  <1>4. ASSUME NEW j \in first PROVE j = 2
    <2>1. j \in 1..Len(o) /\ j # 1
      BY <1>1, <1>2
    <2>2. j # 2 => 2 \in 1..(j - 1)
      BY <1>1, <2>1
    <2> QED
      BY <1>2, <2>2
  <1>5. first = {2}
    BY <1>3, <1>4
  <1>6. parseSiteHeader(o) = {Site(o[j].domain, o[j].mode) : j \in first}
    BY Zenon DEF parseSiteHeader, Site
  <1> HIDE DEF first
  <1> QED
    BY <1>2, <1>5, <1>6

LEMMA ModeLines ==
    ASSUME NEW d \in Name, NEW mode \in STRING
    PROVE  /\ GenerateMode(d, mode) \in Seq(Line)
           /\ GenerateMode(d, mode) # Placeholder /\ GenerateMode(d, mode) # Absent
           /\ Engine(GenerateMode(d, mode)) = {mode}
           /\ parseSiteHeader(GenerateMode(d, mode)) = {Site(d, mode)}
           /\ GenerateMode(d, mode)[2] = Header(d, mode)
  <1> DEFINE o == GenerateMode(d, mode)
             e == [line |-> "engine", mode |-> mode]
  <1>1. o = <<Comment, Header(d, mode), e>>
    BY DEF GenerateMode
  <1>2. e \in Line /\ Comment \in Line /\ Header(d, mode) \in Line
    BY LinesExist DEF Line
  <1>3. e.line = "engine" /\ e.mode = mode
    OBVIOUS
  <1> HIDE DEF o, e
  <1>4. /\ o \in Seq(Line) /\ Len(o) = 3
        /\ o[1] = Comment /\ o[2] = Header(d, mode) /\ o[3] = e
    <2>1. ASSUME NEW x \in Line, NEW y \in Line, NEW z \in Line, NEW u, u = <<x, y, z>>
          PROVE  u \in Seq(Line) /\ Len(u) = 3 /\ u[1] = x /\ u[2] = y /\ u[3] = z
      BY <2>1
    <2> QED
      BY <1>1, <1>2, <2>1, Zenon
  <1>5. Len(o) >= 2 /\ DOMAIN o = 1..3 /\ 3 \in DOMAIN o
    BY <1>4
  <1>6. o # Placeholder
    BY <1>4, PlaceholderFacts
  <1>7. o # Absent
    BY <1>4, AbsentAssumption
  <1>8. parseSiteHeader(o) = {Site(d, mode)}
    BY <1>4, <1>5, SecondLineHeader
  <1>9. Engine(o) = {mode}
    <2>1. o[1].line = "comment" /\ o[2].line = "header"
      BY <1>4 DEF Comment, Header
    <2>2. \A i \in DOMAIN o : i = 1 \/ i = 2 \/ i = 3
      BY <1>5
    <2>3. {i \in DOMAIN o : o[i].line = "engine"} = {3}
      <3>1. o[3].line = "engine" /\ o[1].line # "engine" /\ o[2].line # "engine"
        BY <1>3, <1>4, <2>1
      <3> QED
        BY <1>5, <2>2, <3>1
    <2>4. Engine(o) = {o[i].mode : i \in {3}}
      BY <2>3, Zenon DEF Engine
    <2> QED
      BY <1>3, <1>4, <2>4
  <1> QED
    BY <1>4, <1>6, <1>7, <1>8, <1>9 DEF o

LEMMA MadeFacts ==
    ASSUME NEW t \in Types, NEW s, NEW o, Made(t, s, o)
    PROVE  o \in Seq(Line) /\ o # Absent /\ (o = Placeholder \/ parseSiteHeader(o) # {})
  <1>1. CASE o = Placeholder
    BY <1>1, PlaceholderFacts, AbsentAssumption
  <1>2. CASE o # Placeholder
    <2>1. PICK d \in Valid : Generated(t, d, o)
      BY <1>2 DEF Made
    <2>2. d \in Name
      BY NameOfValid
    <2>3. o \in Seq(Line) /\ parseSiteHeader(o) # {}
      <3>1. CASE \E mode \in STRING : o = GenerateMode(d, mode)
        BY <2>2, <3>1, ModeLines
      <3>2. CASE \E list \in Seq(Exclusion) : o = GenerateExclusions(d, list)
        <4>1. PICK list \in Seq(Exclusion) : o = GenerateExclusions(d, list)
          BY <3>2
        <4> DEFINE rows == dedupeExclusions(list)
        <4>2. /\ rows \in Seq(Exclusion) /\ o \in Seq(Line)
              /\ o[1] = Comment /\ o[2] = Header(d, None)
              /\ Len(o) = 2 + IF rows = <<>> THEN 1 ELSE Len(rows)
          BY <2>2, <4>1, ExclusionLines
        <4> HIDE DEF rows
        <4>3. Len(o) >= 2
          <5>1. Len(rows) \in Nat
            BY <4>2
          <5> QED
            BY <4>2, <5>1
        <4> QED
          BY <4>2, <4>3, SecondLineHeader
      <3>3. CASE \E rules \in Rules : o = GenerateIPRules(d, rules)
        <4>1. o \in Seq(Line) /\ o[2] = Header(d, None) /\ o[1] = Comment /\ Len(o) >= 3
          BY <2>2, <3>3, IPRulesReadBack
        <4>2. Len(o) >= 2
          BY <4>1
        <4> QED
          BY <4>1, <4>2, SecondLineHeader
      <3> QED
        BY <2>1, <3>1, <3>2, <3>3 DEF Generated
    <2> QED
      BY <2>3, AbsentAssumption
  <1> QED
    BY <1>1, <1>2

-----------------------------------------------------------------------------
(* An overlay and what was asked for.                                      *)

Ask == [mode : SUBSET STRING, exclusions : SUBSET Exclusion,
        deny : SUBSET AnyEntry, allow : SUBSET AnyEntry]

\* What the handlers read of an overlay.
ReadExclusions(o) == IF o = Absent THEN <<>> ELSE parseExclusionsOverlay(o)
ReadRules(o) == parseIPRulesOverlay(IF o = Absent THEN <<>> ELSE o)

\* The networks of a list have the clients that the entries of a set mean.
SameClients(list, set) ==
    /\ list = <<>> <=> set = {}
    /\ \A c \in Clients : (\E i \in DOMAIN list : In(c, list[i])) <=> (\E e \in set : Means(c, e))

Agrees(t, o, w) ==
    /\ t = "waf" /\ o \notin {Absent, Placeholder} => Engine(o) = w.mode
    /\ t = "exclusions" => /\ ToSet(ReadExclusions(o)) = w.exclusions
                           /\ Len(ReadExclusions(o)) = Cardinality(w.exclusions)
    /\ t = "ip-rules" => /\ SameClients(ReadRules(o).deny, w.deny)
                         /\ SameClients(ReadRules(o).allow, w.allow)

LEMMA UnsetFacts ==
    /\ Unset \in Ask /\ Unset.mode = {} /\ Unset.exclusions = {}
    /\ Unset.deny = {} /\ Unset.allow = {}
  BY DEF Unset, Ask

\* There is nothing in an overlay that is absent or a placeholder.
LEMMA NothingRead ==
    ASSUME NEW o \in {Absent, Placeholder}
    PROVE  ReadExclusions(o) = <<>> /\ ReadRules(o).deny = <<>> /\ ReadRules(o).allow = <<>>
  <1> DEFINE q == IF o = Absent THEN <<>> ELSE o
  <1>1. q \in Seq(Line) /\ \A i \in 1..Len(q) : q[i].line = "comment"
    <2>1. CASE o = Absent
      BY <2>1, EmptySeq
    <2>2. CASE o # Absent
      BY <2>2, PlaceholderFacts
    <2> QED
      BY <2>1, <2>2
  <1> HIDE DEF q
  <1>2. /\ \A i \in 1..Len(q) : q[i].line \notin {"remove", "rule"}
        /\ \A i \in 1..Len(q) : q[i].line # "remote_ip" /\ q[i].line # "not remote_ip"
    BY <1>1
  <1>3. parseExclusionsOverlay(q) = <<>>
    BY <1>1, <1>2, NoExclusions
  <1>4. Entries(q, "remote_ip") = <<>> /\ Entries(q, "not remote_ip") = <<>>
    BY <1>1, <1>2, NoMatcher DEF Matchers
  <1>5. parseIPRulesOverlay(q).deny = <<>> /\ parseIPRulesOverlay(q).allow = <<>>
    BY <1>4, ParsedRules
  <1>6. ReadRules(o) = parseIPRulesOverlay(q)
    BY DEF ReadRules, q
  <1>7. ReadExclusions(o) = <<>>
    BY <1>3 DEF ReadExclusions, q
  <1> QED
    BY <1>5, <1>6, <1>7

LEMMA NothingAgrees ==
    ASSUME NEW t, NEW o \in {Absent, Placeholder}
    PROVE  Agrees(t, o, Unset)
  <1>1. ToSet(<<>>) = {} /\ Len(<<>>) = Cardinality({}) /\ SameClients(<<>>, {})
    <2>1. DOMAIN <<>> = {} /\ Len(<<>>) = 0
      OBVIOUS
    <2>2. Cardinality({}) = 0
      BY FS_EmptySet
    <2>3. ToSet(<<>>) = {}
      BY <2>1 DEF ToSet
    <2>4. SameClients(<<>>, {})
      BY <2>1 DEF SameClients
    <2> QED
      BY <2>1, <2>2, <2>3, <2>4
  <1> QED
    BY <1>1, NothingRead, UnsetFacts DEF Agrees

LEMMA ModeAgrees ==
    ASSUME NEW d \in Name, NEW mode \in STRING, NEW w, w.mode = {mode}
    PROVE  Agrees("waf", GenerateMode(d, mode), w)
  BY ModeLines DEF Agrees

LEMMA ExclusionsAgree ==
    ASSUME NEW d \in Name, NEW list \in Seq(Exclusion), NEW w, w.exclusions = ToSet(list),
           GenerateExclusions(d, list) # Absent
    PROVE  Agrees("exclusions", GenerateExclusions(d, list), w)
  <1> DEFINE o == GenerateExclusions(d, list)
             r == dedupeExclusions(list)
  <1>1. ReadExclusions(o) = r
    BY ExclusionsReadBack DEF ReadExclusions
  <1>2. r \in Seq(Exclusion) /\ ToSet(r) = ToSet(list) /\ Distinct(r)
    BY DedupeFacts
  <1>3. Len(r) = Cardinality(ToSet(r))
    BY <1>2, DistinctLength
  <1> HIDE DEF o, r
  <1>4. Agrees("exclusions", o, w)
    BY <1>1, <1>2, <1>3 DEF Agrees
  <1> QED
    BY <1>4 DEF o

\* The entries of a list mean the clients that those of a set mean.
SameMeaning(list, set) ==
    /\ list = <<>> <=> set = {}
    /\ \A c \in Clients : (\E i \in 1..Len(list) : Means(c, list[i])) <=> (\E e \in set : Means(c, e))

LEMMA NormAgrees ==
    ASSUME NEW list \in Seq(IPEntry), NEW set, SameMeaning(list, set)
    PROVE  SameClients(Norm(list), set)
  <1> DEFINE r == Norm(list)
  <1>1. /\ r \in Seq(IPEntry) /\ Len(r) = Len(list)
        /\ \A i \in 1..Len(list) : r[i] = normalizeIPEntry(list[i])
    BY NormFacts
  <1> HIDE DEF r
  <1>2. DOMAIN r = 1..Len(list)
    BY <1>1
  <1>3. \A i \in 1..Len(list) : list[i] \in IPEntry
    BY ElementOfSeq
  <1>4. \A i \in 1..Len(list), c \in Clients : In(c, r[i]) <=> Means(c, list[i])
    BY <1>1, <1>3, NormalizationKeepsClients
  <1>5. r = <<>> <=> list = <<>>
    BY <1>1, EmptySeq
  <1>6. SameClients(r, set)
    BY <1>2, <1>4, <1>5 DEF SameClients, SameMeaning
  <1> QED
    BY <1>6 DEF r

LEMMA RulesAgree ==
    ASSUME NEW d \in Name, NEW rules \in Rules, NEW w,
           SameMeaning(rules.deny, w.deny), SameMeaning(rules.allow, w.allow)
    PROVE  Agrees("ip-rules", GenerateIPRules(d, rules), w)
  <1> DEFINE o == GenerateIPRules(d, rules)
  <1>1. o \in Seq(Line) /\ parseIPRulesOverlay(o) =
                             [deny |-> Norm(rules.deny), allow |-> Norm(rules.allow)]
    BY IPRulesReadBack
  <1>2. o # Absent
    BY <1>1, AbsentAssumption
  <1> HIDE DEF o
  <1>3. ReadRules(o).deny = Norm(rules.deny) /\ ReadRules(o).allow = Norm(rules.allow)
    BY <1>1, <1>2 DEF ReadRules
  <1>4. rules.deny \in Seq(IPEntry) /\ rules.allow \in Seq(IPEntry)
    BY DEF Rules
  <1>5. SameClients(Norm(rules.deny), w.deny) /\ SameClients(Norm(rules.allow), w.allow)
    BY <1>4, NormAgrees
  <1>6. Agrees("ip-rules", o, w)
    BY <1>3, <1>5 DEF Agrees
  <1> QED
    BY <1>6 DEF o

LEMMA ListMeaning ==
    ASSUME NEW list \in Seq(AnyEntry)
    PROVE  SameMeaning(list, ToSet(list))
  <1>1. ToSet(list) = {list[i] : i \in 1..Len(list)} /\ Len(list) \in Nat
    BY ToSetElements
  <1>2. list = <<>> <=> ToSet(list) = {}
    BY <1>1, EmptySeq
  <1> QED
    BY <1>1, <1>2 DEF SameMeaning

LEMMA AppendMeaning ==
    ASSUME NEW list \in Seq(IPEntry), NEW set, SameMeaning(list, set), NEW e \in IPEntry
    PROVE  SameMeaning(Append(list, e), set \cup {e})
  <1> DEFINE q == Append(list, e)
  <1>1. /\ q # <<>> /\ Len(q) = Len(list) + 1 /\ Len(list) \in Nat
        /\ \A i \in 1..Len(list) : q[i] = list[i]
        /\ q[Len(list) + 1] = e
    BY AppendProperties
  <1> HIDE DEF q
  <1>2. ASSUME NEW c
        PROVE  (\E i \in 1..Len(q) : Means(c, q[i]))
                 <=> (\E i \in 1..Len(list) : Means(c, list[i])) \/ Means(c, e)
    <2>1. \A i \in 1..Len(list) : i \in 1..Len(q)
      BY <1>1
    <2>2. Len(list) + 1 \in 1..Len(q) /\ \A i \in 1..Len(q) : i = Len(list) + 1 \/ i \in 1..Len(list)
      BY <1>1
    <2> QED
      BY <1>1, <2>1, <2>2
  <1>3. SameMeaning(q, set \cup {e})
    BY <1>1, <1>2 DEF SameMeaning
  <1> QED
    BY <1>3 DEF q

\* Every entry that is read from an overlay means the clients it has.
Normal(list) ==
    /\ list \in Seq(IPEntry)
    /\ \A i \in 1..Len(list), c \in Clients : Means(c, list[i]) <=> In(c, list[i])

LEMMA NormIsNormal ==
    ASSUME NEW list \in Seq(IPEntry)
    PROVE  Normal(Norm(list))
  <1>1. /\ Norm(list) \in Seq(IPEntry) /\ Len(Norm(list)) = Len(list)
        /\ \A i \in 1..Len(list) : Norm(list)[i] = normalizeIPEntry(list[i])
    BY NormFacts
  <1>2. \A i \in 1..Len(list) : list[i] \in IPEntry
    BY ElementOfSeq
  <1> QED
    BY <1>1, <1>2, NormalizationKeepsClients DEF Normal

LEMMA NormalMeaning ==
    ASSUME NEW list, Normal(list), NEW set, SameClients(list, set)
    PROVE  SameMeaning(list, set)
  <1>1. DOMAIN list = 1..Len(list)
    BY DEF Normal
  <1> QED
    BY <1>1 DEF Normal, SameMeaning, SameClients

LEMMA ReadIsNormal ==
    ASSUME NEW s, NEW o, o = Absent \/ Made("ip-rules", s, o)
    PROVE  /\ Normal(ReadRules(o).deny) /\ Normal(ReadRules(o).allow)
           /\ ReadRules(o) \in Rules
  <1>1. ReadRules(o) = [deny |-> ReadRules(o).deny, allow |-> ReadRules(o).allow]
    BY ParsedRules DEF ReadRules
  <1>2. Normal(ReadRules(o).deny) /\ Normal(ReadRules(o).allow)
    <2>1. CASE o \in {Absent, Placeholder}
      <3>1. Normal(<<>>)
        BY EmptySeq DEF Normal
      <3> QED
        BY <2>1, <3>1, NothingRead
    <2>2. CASE o \notin {Absent, Placeholder}
      <3>1. PICK d \in Valid, rules \in Rules : o = GenerateIPRules(d, rules)
        BY <2>2 DEF Made, Generated
      <3>2. parseIPRulesOverlay(o) = [deny |-> Norm(rules.deny), allow |-> Norm(rules.allow)]
        BY <3>1, NameOfValid, IPRulesReadBack
      <3>3. rules.deny \in Seq(IPEntry) /\ rules.allow \in Seq(IPEntry)
        BY DEF Rules
      <3>4. ReadRules(o).deny = Norm(rules.deny) /\ ReadRules(o).allow = Norm(rules.allow)
        BY <2>2, <3>2 DEF ReadRules
      <3> QED
        BY <3>3, <3>4, NormIsNormal
    <2> QED
      BY <2>1, <2>2
  <1>3. ReadRules(o).deny \in Seq(IPEntry) /\ ReadRules(o).allow \in Seq(IPEntry)
    BY <1>2 DEF Normal
  <1> QED
    BY <1>1, <1>2, <1>3 DEF Rules

LEMMA ReadIsExclusions ==
    ASSUME NEW s, NEW o, o = Absent \/ Made("exclusions", s, o)
    PROVE  ReadExclusions(o) \in Seq(Exclusion)
  <1>1. CASE o \in {Absent, Placeholder}
    BY <1>1, NothingRead, EmptySeq
  <1>2. CASE o \notin {Absent, Placeholder}
    <2>1. PICK d \in Valid, list \in Seq(Exclusion) : o = GenerateExclusions(d, list)
      BY <1>2 DEF Made, Generated
    <2>2. parseExclusionsOverlay(o) = dedupeExclusions(list)
      BY <2>1, NameOfValid, ExclusionsReadBack
    <2>3. dedupeExclusions(list) \in Seq(Exclusion)
      BY DedupeFacts
    <2> QED
      BY <1>2, <2>2, <2>3 DEF ReadExclusions
  <1> QED
    BY <1>1, <1>2

-----------------------------------------------------------------------------
(* The inductive invariant.                                                *)

HostsOf(s) == {g \in Hosts : DomainSlug(g) = s}

Snapshot(s) == [bytes : Seq(Line), asked : [HostsOf(s) -> Ask]]

\* Every overlay was made by the generators for a name of its slug, and agrees
\* with what was asked for the host that it belongs to.
ConfInv ==
    /\ conf \in [Types -> [Slugs -> Seq(Line) \cup {Absent}]]
    /\ asked \in [Types -> [Hosts -> Ask]]
    /\ \A t \in Types, s \in Slugs : conf[t][s] = Absent \/ Made(t, s, conf[t][s])
    /\ \A t \in Types, h \in Alone : Agrees(t, conf[t][DomainSlug(h)], asked[t][h])

\* The same of every snapshot, which a rollback may bring back.
SnapsInv ==
    /\ snaps \in [Types -> [Slugs -> SUBSET UNION {Snapshot(s) : s \in Slugs}]]
    /\ \A t \in Types, s \in Slugs : \A snap \in snaps[t][s] :
         /\ snap \in Snapshot(s) /\ Made(t, s, snap.bytes)
         /\ \A h \in Alone : DomainSlug(h) = s => Agrees(t, snap.bytes, snap.asked[h])

CountInv == scope \in Scopes /\ ops \in 0..scope.ops

SitesInv == ConfInv /\ SnapsInv /\ CountInv

LEMMA HostFacts ==
    /\ \A h \in Hosts : DomainSlug(h) \in Slugs
    /\ \A d \in Valid : Host(d) \in HostsOf(DomainSlug(d))
    /\ Alone \subseteq Hosts
    /\ \A h \in Alone, d \in Valid : DomainSlug(d) = DomainSlug(h) => Host(d) = h
  <1>1. \A d \in Valid : Host(d) \in Hosts /\ DomainSlug(d) \in Slugs /\ DomainSlug(Host(d)) = DomainSlug(d)
    BY NameOfValid, SlugOfHost
  <1>2. \A h \in Hosts : \E d \in Valid : h = Host(d)
    BY DEF Hosts
  <1>3. Alone \subseteq Hosts
    BY DEF Alone
  <1>4. \A h \in Alone, g \in Hosts : DomainSlug(g) = DomainSlug(h) => g = h
    BY DEF Alone
  <1> QED
    BY <1>1, <1>2, <1>3, <1>4 DEF HostsOf

LEMMA InitSites == Init => SitesInv
  <1>1. SUFFICES ASSUME Init PROVE SitesInv
    OBVIOUS
  <1>2. CountInv
    BY <1>1, ScopesAssumption DEF Init, CountInv
  <1>3. SnapsInv
    BY <1>1 DEF Init, SnapsInv
  <1>4. ASSUME NEW o \in Found
        PROVE  /\ o \in Seq(Line) /\ o \notin {Absent, Placeholder}
               /\ \E d \in Valid, mode \in STRING :
                    /\ mode # None /\ o = GenerateMode(d, mode) /\ Engine(o) = {mode}
                    /\ parseSiteHeader(o) = {Site(d, mode)}
    <2> DEFINE mode == o[2].mode
    <2>1. o \in Seq(Line) /\ mode # None /\ \E d \in Valid : o = GenerateMode(d, mode)
      BY FoundAssumption
    <2>2. PICK d \in Valid : o = GenerateMode(d, mode)
      BY <2>1
    <2> DEFINE e == [line |-> "engine", mode |-> mode]
    <2>3. mode \in STRING
      <3>1. o = <<Comment, Header(d, mode), e>>
        BY <2>2 DEF GenerateMode
      <3> HIDE DEF mode, e
      <3>2. Len(o) = 3 /\ o[2] = Header(d, mode)
        BY <3>1
      <3>3. 2 \in 1..Len(o)
        BY <3>2
      <3>4. Header(d, mode) \in Line
        BY <2>1, <3>2, <3>3, ElementOfSeq
      <3>5. mode \in STRING \cup {None}
        BY <3>4 DEF Header, Line
      <3> QED
        BY <2>1, <3>5 DEF mode
    <2>4. /\ o \notin {Absent, Placeholder} /\ Engine(o) = {mode}
          /\ parseSiteHeader(o) = {Site(d, mode)}
      <3> HIDE DEF mode, e
      <3>1. d \in Name
        BY NameOfValid
      <3> QED
        BY <2>2, <2>3, <3>1, ModeLines
    <2> HIDE DEF mode
    <2> QED
      BY <2>1, <2>2, <2>3, <2>4
  <1>5. conf \in [Types -> [Slugs -> {Absent, Placeholder} \cup Found]]
    BY <1>1 DEF Init
  <1>6. ASSUME NEW t \in Types, NEW s \in Slugs
        PROVE  conf[t][s] = Absent \/ Made(t, s, conf[t][s])
    <2> DEFINE o == conf[t][s]
    <2>1. o \in {Absent, Placeholder} \cup Found
      BY <1>5
    <2>2. CASE o \in {Absent, Placeholder}
      BY <2>2 DEF Made
    <2>3. CASE o \in Found
      <3>1. t = "waf" /\ \E site \in parseSiteHeader(o) : DomainSlug(site.domain) = s
        BY <1>1, <2>3 DEF Init
      <3>2. PICK d \in Valid, mode \in STRING :
              /\ mode # None /\ o = GenerateMode(d, mode)
              /\ parseSiteHeader(o) = {Site(d, mode)}
        BY <1>4, <2>3
      <3> HIDE DEF o
      <3>3. Site(d, mode).domain = d
        BY DEF Site
      <3>4. DomainSlug(d) = s
        BY <3>1, <3>2, <3>3
      <3>5. Made(t, s, o)
        BY <3>1, <3>2, <3>4 DEF Made, Generated
      <3> QED
        BY <3>5 DEF o
    <2> QED
      BY <2>1, <2>2, <2>3
  <1>7. conf \in [Types -> [Slugs -> Seq(Line) \cup {Absent}]]
    <2>1. \A o \in {Absent, Placeholder} \cup Found : o \in Seq(Line) \cup {Absent}
      BY <1>4, PlaceholderFacts
    <2> QED
      BY <1>5, <2>1
  <1>8. asked = [t \in Types |-> [h \in Hosts |->
                   IF conf[t][DomainSlug(h)] \in Found
                   THEN [Unset EXCEPT !.mode = Engine(conf[t][DomainSlug(h)])] ELSE Unset]]
    BY <1>1 DEF Init
  <1>9. ASSUME NEW o \in Found
        PROVE  [Unset EXCEPT !.mode = Engine(o)] \in Ask /\ [Unset EXCEPT !.mode = Engine(o)].mode = Engine(o)
    <2>1. PICK mode \in STRING : Engine(o) = {mode}
      BY <1>4
    <2> QED
      BY <2>1 DEF Unset, Ask
  <1>10. asked \in [Types -> [Hosts -> Ask]]
    BY <1>8, <1>9, UnsetFacts
  <1>11. ASSUME NEW t \in Types, NEW h \in Alone
         PROVE  Agrees(t, conf[t][DomainSlug(h)], asked[t][h])
    <2> DEFINE o == conf[t][DomainSlug(h)]
    <2>1. h \in Hosts /\ DomainSlug(h) \in Slugs
      BY HostFacts
    <2>2. o \in {Absent, Placeholder} \cup Found
      BY <1>5, <2>1
    <2>3. asked[t][h] = IF o \in Found THEN [Unset EXCEPT !.mode = Engine(o)] ELSE Unset
      BY <1>8, <2>1
    <2>4. CASE o \in Found
      <3>1. t = "waf"
        BY <1>1, <2>1, <2>4 DEF Init
      <3>2. asked[t][h].mode = Engine(o)
        BY <1>9, <2>3, <2>4
      <3> HIDE DEF o
      <3>3. Agrees(t, o, asked[t][h])
        BY <3>1, <3>2 DEF Agrees
      <3> QED
        BY <3>3 DEF o
    <2>5. CASE o \notin Found
      <3>1. o \in {Absent, Placeholder} /\ asked[t][h] = Unset
        BY <2>2, <2>3, <2>5
      <3> QED
        BY <3>1, NothingAgrees
    <2> QED
      BY <2>4, <2>5
  <1>12. ConfInv
    BY <1>6, <1>7, <1>10, <1>11 DEF ConfInv
  <1> QED
    BY <1>2, <1>3, <1>12 DEF SitesInv

LEMMA BackupKeeps ==
    ASSUME ConfInv, SnapsInv, NEW t \in Types, NEW s \in Slugs, Backup(t, s)
    PROVE  SnapsInv'
  <1>1. CASE conf[t][s] = Absent
    <2>1. snaps' = snaps
      BY <1>1 DEF Backup
    <2> QED
      BY <2>1 DEF SnapsInv
  <1>2. CASE conf[t][s] # Absent
    <2> DEFINE new == [bytes |-> conf[t][s], asked |-> [h \in HostsOf(s) |-> asked[t][h]]]
    <2>1. snaps' = [snaps EXCEPT ![t][s] = @ \cup {new}]
      BY <1>2 DEF Backup, HostsOf
    <2>2. new \in Snapshot(s) /\ new.bytes = conf[t][s]
          /\ \A h \in HostsOf(s) : new.asked[h] = asked[t][h]
      <3>1. conf[t][s] \in Seq(Line)
        BY <1>2 DEF ConfInv
      <3>2. [h \in HostsOf(s) |-> asked[t][h]] \in [HostsOf(s) -> Ask]
        BY DEF ConfInv, HostsOf
      <3> QED
        BY <3>1, <3>2 DEF Snapshot
    <2>3. Made(t, s, new.bytes)
      BY <1>2, <2>2 DEF ConfInv
    <2>4. \A h \in Alone : DomainSlug(h) = s => Agrees(t, new.bytes, new.asked[h])
      <3>1. SUFFICES ASSUME NEW h \in Alone, DomainSlug(h) = s
                     PROVE  Agrees(t, new.bytes, new.asked[h])
        OBVIOUS
      <3>2. h \in HostsOf(s)
        BY <3>1, HostFacts DEF HostsOf
      <3>3. Agrees(t, conf[t][s], asked[t][h])
        BY <3>1 DEF ConfInv
      <3> QED
        BY <2>2, <3>2, <3>3
    <2> HIDE DEF new
    <2>5. snaps \in [Types -> [Slugs -> SUBSET UNION {Snapshot(r) : r \in Slugs}]]
      BY DEF SnapsInv
    <2>6. new \in UNION {Snapshot(r) : r \in Slugs}
      BY <2>2
    <2> DEFINE AnySnapshot == UNION {Snapshot(r) : r \in Slugs}
    <2>7. \A u \in Types, r \in Slugs :
            snaps'[u][r] = IF u = t /\ r = s THEN snaps[u][r] \cup {new} ELSE snaps[u][r]
      <3> HIDE DEF AnySnapshot
      <3> QED
        BY <2>1, <2>5 DEF AnySnapshot
    <2>8. snaps' \in [Types -> [Slugs -> SUBSET AnySnapshot]]
      <3>1. snaps \in [Types -> [Slugs -> SUBSET AnySnapshot]] /\ new \in AnySnapshot
        BY <2>5, <2>6
      <3> HIDE DEF AnySnapshot
      <3> QED
        BY <2>1, <3>1
    <2>9. ASSUME NEW u \in Types, NEW r \in Slugs, NEW snap \in snaps'[u][r]
          PROVE  /\ snap \in Snapshot(r) /\ Made(u, r, snap.bytes)
                 /\ \A h \in Alone : DomainSlug(h) = r => Agrees(u, snap.bytes, snap.asked[h])
      <3>1. CASE snap \in snaps[u][r]
        BY <3>1 DEF SnapsInv
      <3>2. CASE snap \notin snaps[u][r]
        <4>1. u = t /\ r = s /\ snap = new
          BY <2>7, <2>9, <3>2
        <4> QED
          BY <2>2, <2>3, <2>4, <4>1
      <3> QED
        BY <3>1, <3>2
    <2> QED
      BY <2>8, <2>9 DEF SnapsInv
  <1> QED
    BY <1>1, <1>2

Updated(f, a, b, c) == [f EXCEPT ![a][b] = c]

LEMMA UpdatedConf ==
    ASSUME conf \in [Types -> [Slugs -> Seq(Line) \cup {Absent}]],
           NEW t \in Types, NEW s \in Slugs, NEW bytes \in Seq(Line)
    PROVE  /\ Updated(conf, t, s, bytes) \in [Types -> [Slugs -> Seq(Line) \cup {Absent}]]
           /\ \A u \in Types, r \in Slugs :
                Updated(conf, t, s, bytes)[u][r] = IF u = t /\ r = s THEN bytes ELSE conf[u][r]
  <1> DEFINE File == Seq(Line) \cup {Absent}
  <1>1. bytes \in File /\ conf \in [Types -> [Slugs -> File]]
    OBVIOUS
  <1> HIDE DEF File
  <1> QED
    BY <1>1 DEF Updated, File

LEMMA UpdatedAsked ==
    ASSUME asked \in [Types -> [Hosts -> Ask]], NEW t \in Types, NEW g \in Hosts, NEW want \in Ask
    PROVE  /\ Updated(asked, t, g, want) \in [Types -> [Hosts -> Ask]]
           /\ \A u \in Types, h \in Hosts :
                Updated(asked, t, g, want)[u][h] = IF u = t /\ h = g THEN want ELSE asked[u][h]
  BY DEF Updated

LEMMA WriteKeeps ==
    ASSUME ConfInv, NEW t \in Types, NEW d \in Valid, NEW bytes, NEW want \in Ask,
           Made(t, DomainSlug(d), bytes),
           Host(d) \in Alone => Agrees(t, bytes, want),
           conf' = Updated(conf, t, DomainSlug(d), bytes),
           asked' = Updated(asked, t, Host(d), want)
    PROVE  ConfInv'
  <1> DEFINE s == DomainSlug(d)
             g == Host(d)
  <1>1. s \in Slugs /\ g \in Hosts /\ DomainSlug(g) = s
    BY NameOfValid, SlugOfHost
  <1>2. bytes \in Seq(Line) /\ bytes # Absent
    BY MadeFacts
  <1>3. \A h \in Alone : DomainSlug(h) = s => h = g
    BY HostFacts
  <1>4. /\ conf \in [Types -> [Slugs -> Seq(Line) \cup {Absent}]]
        /\ asked \in [Types -> [Hosts -> Ask]]
    BY DEF ConfInv
  <1>5. /\ conf' = Updated(conf, t, s, bytes) /\ asked' = Updated(asked, t, g, want)
        /\ Made(t, s, bytes) /\ (g \in Alone => Agrees(t, bytes, want))
    OBVIOUS
  <1> HIDE DEF s, g
  <1>6. /\ conf' \in [Types -> [Slugs -> Seq(Line) \cup {Absent}]]
        /\ \A u \in Types, r \in Slugs : conf'[u][r] = IF u = t /\ r = s THEN bytes ELSE conf[u][r]
    <2> DEFINE f == Updated(conf, t, s, bytes)
    <2>1. /\ f \in [Types -> [Slugs -> Seq(Line) \cup {Absent}]]
          /\ \A u \in Types, r \in Slugs : f[u][r] = IF u = t /\ r = s THEN bytes ELSE conf[u][r]
      BY <1>1, <1>2, <1>4, UpdatedConf
    <2> HIDE DEF f
    <2>2. conf' = f
      BY <1>5 DEF f
    <2> QED
      BY <2>1, <2>2
  <1>7. /\ asked' \in [Types -> [Hosts -> Ask]]
        /\ \A u \in Types, h \in Hosts : asked'[u][h] = IF u = t /\ h = g THEN want ELSE asked[u][h]
    <2> DEFINE f == Updated(asked, t, g, want)
    <2>1. /\ f \in [Types -> [Hosts -> Ask]]
          /\ \A u \in Types, h \in Hosts : f[u][h] = IF u = t /\ h = g THEN want ELSE asked[u][h]
      BY <1>1, <1>4, UpdatedAsked
    <2> HIDE DEF f
    <2>2. asked' = f
      BY <1>5 DEF f
    <2> QED
      BY <2>1, <2>2
  <1>8. \A u \in Types, r \in Slugs : conf'[u][r] = Absent \/ Made(u, r, conf'[u][r])
    BY <1>5, <1>6 DEF ConfInv
  <1>9. ASSUME NEW u \in Types, NEW h \in Alone
        PROVE  Agrees(u, conf'[u][DomainSlug(h)], asked'[u][h])
    <2>1. h \in Hosts /\ DomainSlug(h) \in Slugs
      BY HostFacts
    <2>2. CASE u = t /\ DomainSlug(h) = s
      <3>1. h = g
        BY <1>3, <2>2
      <3>2. conf'[u][DomainSlug(h)] = bytes /\ asked'[u][h] = want
        BY <1>6, <1>7, <2>1, <2>2, <3>1
      <3> QED
        BY <1>5, <2>2, <3>1, <3>2
    <2>3. CASE ~(u = t /\ DomainSlug(h) = s)
      <3>1. conf'[u][DomainSlug(h)] = conf[u][DomainSlug(h)] /\ asked'[u][h] = asked[u][h]
        BY <1>1, <1>6, <1>7, <2>1, <2>3
      <3> QED
        BY <3>1 DEF ConfInv
    <2> QED
      BY <2>2, <2>3
  <1> QED
    BY <1>6, <1>7, <1>8, <1>9 DEF ConfInv

LEMMA ChainKeeps ==
    ASSUME SitesInv, NEW t \in Types, NEW d, ValidateDomain(d), NEW bytes, NEW want,
           Request(t, d), runChain(t, d, bytes, want), want \in Ask,
           Made(t, DomainSlug(d), bytes), Host(d) \in Alone => Agrees(t, bytes, want)
    PROVE  SitesInv'
  <1>1. d \in Valid /\ CountInv'
    <2>1. scope \in [types : SUBSET Types, names : SUBSET Domains, ops : Nat]
      BY ScopesAssumption DEF SitesInv, CountInv
    <2> QED
      BY <2>1 DEF Valid, Request, CountInv, SitesInv
  <1>2. SnapsInv'
    BY <1>1, BackupKeeps, NameOfValid DEF SitesInv, runChain
  <1>3. ConfInv'
    <2>1. CASE /\ conf' = [conf EXCEPT ![t][DomainSlug(d)] = bytes]
               /\ asked' = [asked EXCEPT ![t][Host(d)] = want]
      <3>1. /\ conf' = Updated(conf, t, DomainSlug(d), bytes)
            /\ asked' = Updated(asked, t, Host(d), want)
        BY <2>1 DEF Updated
      <3> QED
        BY <1>1, <3>1, WriteKeeps DEF SitesInv
    <2>2. CASE UNCHANGED <<conf, asked>>
      BY <2>2 DEF SitesInv, ConfInv
    <2> QED
      BY <2>1, <2>2 DEF runChain
  <1> QED
    BY <1>1, <1>2, <1>3 DEF SitesInv

LEMMA RefuseKeeps ==
    ASSUME SitesInv, NEW t, NEW d, Request(t, d), Refuse
    PROVE  SitesInv'
  <1>1. CountInv'
    <2>1. scope \in [types : SUBSET Types, names : SUBSET Domains, ops : Nat]
      BY ScopesAssumption DEF SitesInv, CountInv
    <2> QED
      BY <2>1 DEF Request, CountInv, SitesInv
  <1>2. ConfInv' /\ SnapsInv'
    BY DEF SitesInv, Refuse, ConfInv, SnapsInv
  <1> QED
    BY <1>1, <1>2 DEF SitesInv

-----------------------------------------------------------------------------
(* The handlers keep the invariant.                                        *)

LEMMA NameOfRequest ==
    ASSUME SitesInv, NEW t, NEW d, Request(t, d)
    PROVE  d \in Domains /\ (ValidateDomain(d) => d \in Valid)
  <1>1. scope \in [types : SUBSET Types, names : SUBSET Domains, ops : Nat]
    BY ScopesAssumption DEF SitesInv, CountInv
  <1> QED
    BY <1>1 DEF Request, Valid

LEMMA SetModeKeeps ==
    ASSUME SitesInv, NEW d, SetMode(d)
    PROVE  SitesInv'
  <1>1. PICK mode \in ModeInputs : UpdateWAFMode(d, mode)
    BY DEF SetMode
  <1>2. Request("waf", d)
    BY <1>1 DEF UpdateWAFMode
  <1>3. CASE /\ ValidateDomain(d) /\ mode \in Modes
             /\ runChain("waf", d, GenerateMode(d, mode), [Unset EXCEPT !.mode = {mode}])
    <2> DEFINE want == [Unset EXCEPT !.mode = {mode}]
               o == GenerateMode(d, mode)
    <2>1. d \in Valid /\ d \in Name
      BY <1>2, <1>3, NameOfRequest, NameOfValid
    <2>2. mode \in STRING
      BY <1>3, LiteralsAssumption
    <2>3. want \in Ask /\ want.mode = {mode}
      BY <2>2 DEF Unset, Ask
    <2> HIDE DEF want
    <2>4. Agrees("waf", o, want)
      BY <2>1, <2>2, <2>3, ModeAgrees
    <2>5. Made("waf", DomainSlug(d), o)
      BY <1>3, <2>1, <2>2 DEF Made, Generated
    <2>6. runChain("waf", d, o, want) /\ "waf" \in Types
      BY <1>3 DEF want, Types
    <2> HIDE DEF o
    <2> QED
      BY <1>2, <1>3, <2>3, <2>4, <2>5, <2>6, ChainKeeps
  <1>4. CASE Refuse
    BY <1>2, <1>4, RefuseKeeps
  <1> QED
    BY <1>1, <1>3, <1>4 DEF UpdateWAFMode

LEMMA UpdateExclusionsKeeps ==
    ASSUME SitesInv, NEW d, NEW list, NEW want, UpdateExclusions(d, list, want),
           d \in Valid => /\ list \in Seq(Exclusion) /\ want \in Ask
                          /\ Host(d) \in Alone => want.exclusions = ToSet(list)
    PROVE  SitesInv'
  <1>1. Request("exclusions", d)
    BY DEF UpdateExclusions
  <1>2. CASE ValidateDomain(d) /\ runChain("exclusions", d, GenerateExclusions(d, list), want)
    <2> DEFINE o == GenerateExclusions(d, list)
    <2>1. d \in Valid /\ d \in Name
      BY <1>1, <1>2, NameOfRequest, NameOfValid
    <2>2. list \in Seq(Exclusion) /\ want \in Ask
      BY <2>1
    <2>3. Made("exclusions", DomainSlug(d), o) /\ "exclusions" \in Types
      BY <2>1, <2>2 DEF Made, Generated, Types
    <2>4. o # Absent
      BY <2>3, MadeFacts
    <2>5. Host(d) \in Alone => Agrees("exclusions", o, want)
      BY <2>1, <2>2, <2>4, ExclusionsAgree
    <2>6. runChain("exclusions", d, o, want)
      BY <1>2
    <2> HIDE DEF o
    <2> QED
      BY <1>1, <1>2, <2>2, <2>3, <2>5, <2>6, ChainKeeps
  <1>3. CASE Refuse
    BY <1>1, <1>3, RefuseKeeps
  <1> QED
    BY <1>2, <1>3 DEF UpdateExclusions

LEMMA SetExclusionsKeeps ==
    ASSUME SitesInv, NEW d, HandleSetExclusions(d)
    PROVE  SitesInv'
  <1>1. PICK list \in ExclusionLists :
          UpdateExclusions(d, list, [Unset EXCEPT !.exclusions = ToSet(list)])
    BY DEF HandleSetExclusions
  <1> DEFINE want == [Unset EXCEPT !.exclusions = ToSet(list)]
  <1>2. list \in Seq(Exclusion)
    BY InputsAssumption
  <1>3. ToSet(list) \subseteq Exclusion
    BY <1>2, ToSetElements
  <1>4. want \in Ask /\ want.exclusions = ToSet(list)
    BY <1>3 DEF Unset, Ask
  <1>5. UpdateExclusions(d, list, want)
    BY <1>1
  <1> HIDE DEF want
  <1> QED
    BY <1>2, <1>4, <1>5, UpdateExclusionsKeeps

\* The handlers of the forms read the overlay of the name's slug.
LEMMA ReadFacts ==
    ASSUME SitesInv, NEW d \in Valid, NEW t \in Types
    PROVE  /\ conf[t][DomainSlug(d)] = Absent \/ Made(t, DomainSlug(d), conf[t][DomainSlug(d)])
           /\ Before(t, d) \in Ask /\ Before(t, d) = asked[t][Host(d)]
           /\ parseExclusionsOverlay(Read(t, d)) = ReadExclusions(conf[t][DomainSlug(d)])
           /\ parseIPRulesOverlay(Read(t, d)) = ReadRules(conf[t][DomainSlug(d)])
           /\ Host(d) \in Alone => Agrees(t, conf[t][DomainSlug(d)], Before(t, d))
  <1> DEFINE s == DomainSlug(d)
             o == conf[t][s]
  <1>1. s \in Slugs /\ Host(d) \in Hosts /\ ValidateDomain(d) /\ DomainSlug(Host(d)) = s
    BY NameOfValid, SlugOfHost DEF Valid
  <1>2. o = Absent \/ Made(t, s, o)
    BY <1>1 DEF SitesInv, ConfInv
  <1>3. Before(t, d) = asked[t][Host(d)] /\ asked[t][Host(d)] \in Ask
    BY <1>1 DEF Before, SitesInv, ConfInv
  <1>4. Read(t, d) = IF o = Absent THEN <<>> ELSE o
    BY <1>1 DEF Read
  <1>5. Host(d) \in Alone => Agrees(t, o, Before(t, d))
    BY <1>1, <1>3 DEF SitesInv, ConfInv
  <1> HIDE DEF o
  <1>6. parseIPRulesOverlay(Read(t, d)) = ReadRules(o)
    BY <1>4 DEF ReadRules
  <1>7. parseExclusionsOverlay(<<>>) = <<>>
    <2>1. <<>> \in Seq(Line) /\ \A i \in 1..Len(<<>>) : <<>>[i].line \notin {"remove", "rule"}
      BY EmptySeq
    <2> QED
      BY <2>1, NoExclusions
  <1>8. parseExclusionsOverlay(Read(t, d)) = ReadExclusions(o)
    BY <1>4, <1>7 DEF ReadExclusions
  <1> QED
    BY <1>2, <1>3, <1>5, <1>6, <1>8 DEF o

LEMMA FormAddExclusionKeeps ==
    ASSUME SitesInv, NEW d, HandleFormAddExclusion(d)
    PROVE  SitesInv'
  <1>1. PICK ex \in ExclusionInputs :
          LET new == [ex EXCEPT !.type = "id"]
          IN  UpdateExclusions(d, Append(parseExclusionsOverlay(Read("exclusions", d)), new),
                               [Before("exclusions", d) EXCEPT !.exclusions = @ \cup {new}])
    BY DEF HandleFormAddExclusion
  <1> DEFINE new == [ex EXCEPT !.type = "id"]
             p == parseExclusionsOverlay(Read("exclusions", d))
             before == Before("exclusions", d)
             list == Append(p, new)
             want == [before EXCEPT !.exclusions = @ \cup {new}]
  <1>2. UpdateExclusions(d, list, want)
    BY <1>1
  <1>3. ASSUME d \in Valid
        PROVE  /\ list \in Seq(Exclusion) /\ want \in Ask
               /\ Host(d) \in Alone => want.exclusions = ToSet(list)
    <2> DEFINE o == conf["exclusions"][DomainSlug(d)]
    <2>1. "exclusions" \in Types
      BY DEF Types
    <2>2. /\ o = Absent \/ Made("exclusions", DomainSlug(d), o)
          /\ before \in Ask /\ p = ReadExclusions(o)
          /\ Host(d) \in Alone => Agrees("exclusions", o, before)
      BY <1>3, <2>1, ReadFacts
    <2>3. ex \in Exclusion
      BY InputsAssumption
    <2>4. new \in Exclusion
      BY <2>3, LiteralsAssumption DEF Exclusion
    <2> HIDE DEF o, p, before, new
    <2>5. p \in Seq(Exclusion)
      BY <2>2, ReadIsExclusions
    <2>6. list \in Seq(Exclusion)
      BY <2>4, <2>5
    <2>7. ToSet(list) = ToSet(p) \cup {new}
      <3>1. list = p \o <<new>>
        BY <2>4, <2>5, AppendIsConcat
      <3> QED
        BY <2>4, <2>5, <3>1, AddElement
    <2>8. before.exclusions \subseteq Exclusion
      BY <2>2 DEF Ask
    <2>9. want \in Ask /\ want.exclusions = before.exclusions \cup {new}
      BY <2>2, <2>4, <2>8 DEF Ask
    <2>10. Host(d) \in Alone => ToSet(p) = before.exclusions
      BY <2>2 DEF Agrees
    <2> QED
      BY <2>6, <2>7, <2>9, <2>10
  <1> HIDE DEF list, want
  <1> QED
    BY <1>2, <1>3, UpdateExclusionsKeeps

LEMMA UpdateIPRulesKeeps ==
    ASSUME SitesInv, NEW d, NEW rules, NEW want, UpdateIPRules(d, rules, want),
           d \in Valid /\ ValidateIPRules(rules) =>
             /\ rules \in Rules /\ want \in Ask
             /\ Host(d) \in Alone => /\ SameMeaning(rules.deny, want.deny)
                                     /\ SameMeaning(rules.allow, want.allow)
    PROVE  SitesInv'
  <1>1. Request("ip-rules", d)
    BY DEF UpdateIPRules
  <1>2. CASE /\ ValidateDomain(d) /\ ValidateIPRules(rules)
             /\ runChain("ip-rules", d, GenerateIPRules(d, rules), want)
    <2> DEFINE o == GenerateIPRules(d, rules)
    <2>1. d \in Valid /\ d \in Name
      BY <1>1, <1>2, NameOfRequest, NameOfValid
    <2>2. rules \in Rules /\ want \in Ask
      BY <1>2, <2>1
    <2>3. Made("ip-rules", DomainSlug(d), o) /\ "ip-rules" \in Types
      BY <2>1, <2>2 DEF Made, Generated, Types
    <2>4. Host(d) \in Alone => Agrees("ip-rules", o, want)
      BY <1>2, <2>1, <2>2, RulesAgree
    <2>5. runChain("ip-rules", d, o, want)
      BY <1>2
    <2> HIDE DEF o
    <2> QED
      BY <1>1, <1>2, <2>2, <2>3, <2>4, <2>5, ChainKeeps
  <1>3. CASE Refuse
    BY <1>1, <1>3, RefuseKeeps
  <1> QED
    BY <1>2, <1>3 DEF UpdateIPRules

\* A list is valid when every entry of it is.
LEMMA ValidList ==
    ASSUME NEW X, NEW list \in Seq(X), ToSet(list) \subseteq IPEntry
    PROVE  list \in Seq(IPEntry)
  <1>1. ToSet(list) = {list[i] : i \in 1..Len(list)} /\ Len(list) \in Nat
    BY ToSetElements
  <1>2. list \in [1..Len(list) -> IPEntry]
    BY <1>1
  <1> QED
    BY <1>1, <1>2

LEMMA SetIPRulesKeeps ==
    ASSUME SitesInv, NEW d, HandleSetIPRules(d)
    PROVE  SitesInv'
  <1>1. PICK rules \in IPRuleSets :
          UpdateIPRules(d, rules, [Unset EXCEPT !.deny = ToSet(rules.deny),
                                                !.allow = ToSet(rules.allow)])
    BY DEF HandleSetIPRules
  <1> DEFINE want == [Unset EXCEPT !.deny = ToSet(rules.deny), !.allow = ToSet(rules.allow)]
  <1>2. rules \in [deny : Seq(AnyEntry), allow : Seq(AnyEntry)]
    BY InputsAssumption
  <1>3. rules.deny \in Seq(AnyEntry) /\ rules.allow \in Seq(AnyEntry)
    BY <1>2
  <1>4. ToSet(rules.deny) \subseteq AnyEntry /\ ToSet(rules.allow) \subseteq AnyEntry
    BY <1>3, ToSetElements
  <1>5. want \in Ask /\ want.deny = ToSet(rules.deny) /\ want.allow = ToSet(rules.allow)
    BY <1>4 DEF Unset, Ask
  <1>6. SameMeaning(rules.deny, want.deny) /\ SameMeaning(rules.allow, want.allow)
    BY <1>3, <1>5, ListMeaning
  <1>7. UpdateIPRules(d, rules, want)
    BY <1>1
  <1> HIDE DEF want
  <1>8. ASSUME ValidateIPRules(rules) PROVE rules \in Rules
    <2>1. ToSet(rules.deny) \subseteq IPEntry /\ ToSet(rules.allow) \subseteq IPEntry
      BY <1>8 DEF ValidateIPRules
    <2>2. rules.deny \in Seq(IPEntry) /\ rules.allow \in Seq(IPEntry)
      BY <1>3, <2>1, ValidList
    <2> QED
      BY <1>2, <2>2 DEF Rules
  <1> QED
    BY <1>5, <1>6, <1>7, <1>8, UpdateIPRulesKeeps

\* The form adds an entry to a list that it read from the overlay.
LEMMA FormList ==
    ASSUME NEW p, Normal(p), NEW e, ToSet(Append(p, e)) \subseteq IPEntry
    PROVE  /\ e \in IPEntry /\ Append(p, e) \in Seq(IPEntry)
           /\ \A set : SameClients(p, set) => SameMeaning(Append(p, e), set \cup {e})
  <1>1. p \in Seq(IPEntry)
    BY DEF Normal
  <1>2. e \in IPEntry
    <2> DEFINE q == Append(p, e)
               n == Len(p) + 1
    <2>1. DOMAIN q = 1..n /\ q[n] = e /\ n \in 1..n
      BY <1>1
    <2> HIDE DEF q, n
    <2>2. e \in ToSet(q)
      BY <2>1 DEF ToSet
    <2> QED
      BY <2>2 DEF q
  <1>3. Append(p, e) \in Seq(IPEntry)
    BY <1>1, <1>2
  <1>4. ASSUME NEW set, SameClients(p, set) PROVE SameMeaning(Append(p, e), set \cup {e})
    <2>1. SameMeaning(p, set)
      BY <1>4, NormalMeaning
    <2> QED
      BY <1>1, <1>2, <2>1, AppendMeaning
  <1> QED
    BY <1>2, <1>3, <1>4

LEMMA FormAddIPRuleKeeps ==
    ASSUME SitesInv, NEW d, HandleFormAddIPRule(d)
    PROVE  SitesInv'
  <1> DEFINE current == parseIPRulesOverlay(Read("ip-rules", d))
             before == Before("ip-rules", d)
             o == conf["ip-rules"][DomainSlug(d)]
  <1>1. PICK e \in IPInputs, action \in IPActions :
          \/ UpdateIPRules(d, [current EXCEPT !.deny = Append(@, e)],
                           [before EXCEPT !.deny = @ \cup {e}])
          \/ UpdateIPRules(d, [current EXCEPT !.allow = Append(@, e)],
                           [before EXCEPT !.allow = @ \cup {e}])
          \/ Request("ip-rules", d) /\ Refuse
    BY DEF HandleFormAddIPRule
  <1>2. e \in AnyEntry
    BY InputsAssumption
  <1>3. ASSUME d \in Valid
        PROVE  /\ current \in Rules /\ Normal(current.deny) /\ Normal(current.allow)
               /\ before \in Ask
               /\ Host(d) \in Alone => /\ SameClients(current.deny, before.deny)
                                       /\ SameClients(current.allow, before.allow)
    <2>1. "ip-rules" \in Types
      BY DEF Types
    <2>2. /\ o = Absent \/ Made("ip-rules", DomainSlug(d), o)
          /\ before \in Ask /\ current = ReadRules(o)
          /\ Host(d) \in Alone => Agrees("ip-rules", o, before)
      BY <1>3, <2>1, ReadFacts
    <2> HIDE DEF o, current, before
    <2>3. current \in Rules /\ Normal(current.deny) /\ Normal(current.allow)
      BY <2>2, ReadIsNormal
    <2> QED
      BY <2>2, <2>3 DEF Agrees
  <1> HIDE DEF current, before
  <1>4. CASE UpdateIPRules(d, [current EXCEPT !.deny = Append(@, e)],
                           [before EXCEPT !.deny = @ \cup {e}])
    <2> DEFINE rules == [current EXCEPT !.deny = Append(@, e)]
               want == [before EXCEPT !.deny = @ \cup {e}]
    <2>1. ASSUME d \in Valid, ValidateIPRules(rules)
          PROVE  /\ rules \in Rules /\ want \in Ask
                 /\ Host(d) \in Alone => /\ SameMeaning(rules.deny, want.deny)
                                         /\ SameMeaning(rules.allow, want.allow)
      <3>1. rules.deny = Append(current.deny, e) /\ rules.allow = current.allow
        BY <1>3, <2>1 DEF Rules
      <3>2. ToSet(Append(current.deny, e)) \subseteq IPEntry
        BY <2>1, <3>1 DEF ValidateIPRules
      <3>3. /\ Append(current.deny, e) \in Seq(IPEntry)
            /\ \A set : SameClients(current.deny, set)
                          => SameMeaning(Append(current.deny, e), set \cup {e})
        BY <1>3, <2>1, <3>2, FormList
      <3>4. rules \in Rules
        BY <1>3, <2>1, <3>3 DEF Rules
      <3>5. want \in Ask /\ want.deny = before.deny \cup {e} /\ want.allow = before.allow
        BY <1>2, <1>3, <2>1 DEF Ask
      <3>6. Host(d) \in Alone => SameMeaning(current.allow, before.allow)
        BY <1>3, <2>1, NormalMeaning
      <3> HIDE DEF rules, want
      <3> QED
        BY <1>3, <2>1, <3>1, <3>3, <3>4, <3>5, <3>6
    <2>2. UpdateIPRules(d, rules, want)
      BY <1>4
    <2> HIDE DEF rules, want
    <2> QED
      BY <2>1, <2>2, UpdateIPRulesKeeps
  <1>5. CASE UpdateIPRules(d, [current EXCEPT !.allow = Append(@, e)],
                           [before EXCEPT !.allow = @ \cup {e}])
    <2> DEFINE rules == [current EXCEPT !.allow = Append(@, e)]
               want == [before EXCEPT !.allow = @ \cup {e}]
    <2>1. ASSUME d \in Valid, ValidateIPRules(rules)
          PROVE  /\ rules \in Rules /\ want \in Ask
                 /\ Host(d) \in Alone => /\ SameMeaning(rules.deny, want.deny)
                                         /\ SameMeaning(rules.allow, want.allow)
      <3>1. rules.allow = Append(current.allow, e) /\ rules.deny = current.deny
        BY <1>3, <2>1 DEF Rules
      <3>2. ToSet(Append(current.allow, e)) \subseteq IPEntry
        BY <2>1, <3>1 DEF ValidateIPRules
      <3>3. /\ Append(current.allow, e) \in Seq(IPEntry)
            /\ \A set : SameClients(current.allow, set)
                          => SameMeaning(Append(current.allow, e), set \cup {e})
        BY <1>3, <2>1, <3>2, FormList
      <3>4. rules \in Rules
        BY <1>3, <2>1, <3>3 DEF Rules
      <3>5. want \in Ask /\ want.allow = before.allow \cup {e} /\ want.deny = before.deny
        BY <1>2, <1>3, <2>1 DEF Ask
      <3>6. Host(d) \in Alone => SameMeaning(current.deny, before.deny)
        BY <1>3, <2>1, NormalMeaning
      <3> HIDE DEF rules, want
      <3> QED
        BY <1>3, <2>1, <3>1, <3>3, <3>4, <3>5, <3>6
    <2>2. UpdateIPRules(d, rules, want)
      BY <1>5
    <2> HIDE DEF rules, want
    <2> QED
      BY <2>1, <2>2, UpdateIPRulesKeeps
  <1>6. CASE Request("ip-rules", d) /\ Refuse
    BY <1>6, RefuseKeeps
  <1> QED
    BY <1>1, <1>4, <1>5, <1>6

LEMMA RollbackKeeps ==
    ASSUME SitesInv, NEW d, NEW t \in Types, Rollback(t, d)
    PROVE  SitesInv'
  <1>1. Request(t, d) /\ ValidateDomain(d)
    BY DEF Rollback
  <1>2. d \in Valid /\ DomainSlug(d) \in Slugs
    BY <1>1, NameOfRequest, NameOfValid
  <1>3. ASSUME NEW snap \in snaps[t][DomainSlug(d)],
               runChain(t, d, snap.bytes, snap.asked[Host(d)])
        PROVE  SitesInv'
    <2> DEFINE bytes == snap.bytes
               want == snap.asked[Host(d)]
    <2>1. /\ snap \in Snapshot(DomainSlug(d)) /\ Made(t, DomainSlug(d), bytes)
          /\ \A h \in Alone : DomainSlug(h) = DomainSlug(d) => Agrees(t, bytes, snap.asked[h])
      BY <1>2, <1>3 DEF SitesInv, SnapsInv
    <2>2. Host(d) \in HostsOf(DomainSlug(d)) /\ DomainSlug(Host(d)) = DomainSlug(d)
      BY <1>2, HostFacts, SlugOfHost
    <2>3. want \in Ask
      BY <2>1, <2>2 DEF Snapshot
    <2>4. Host(d) \in Alone => Agrees(t, bytes, want)
      BY <2>1, <2>2
    <2>5. runChain(t, d, bytes, want)
      BY <1>3
    <2> HIDE DEF bytes, want
    <2> QED
      BY <1>1, <2>1, <2>3, <2>4, <2>5, ChainKeeps
  <1>4. CASE Backup(t, DomainSlug(d)) /\ UNCHANGED <<conf, asked>>
    <2>1. SnapsInv'
      BY <1>2, <1>4, BackupKeeps DEF SitesInv
    <2>2. ConfInv'
      BY <1>4 DEF SitesInv, ConfInv
    <2>3. CountInv'
      <3>1. scope \in [types : SUBSET Types, names : SUBSET Domains, ops : Nat]
        BY ScopesAssumption DEF SitesInv, CountInv
      <3> QED
        BY <1>1, <3>1 DEF Request, CountInv, SitesInv
    <2> QED
      BY <2>1, <2>2, <2>3 DEF SitesInv
  <1> QED
    BY <1>3, <1>4 DEF Rollback

LEMMA NextSites == SitesInv /\ [Next]_vars => SitesInv'
  <1>1. SUFFICES ASSUME SitesInv, [Next]_vars PROVE SitesInv'
    OBVIOUS
  <1>2. CASE Next
    <2>1. PICK d \in Domains :
            \/ SetMode(d)
            \/ HandleSetExclusions(d) \/ HandleFormAddExclusion(d)
            \/ HandleSetIPRules(d) \/ HandleFormAddIPRule(d)
            \/ \E t \in Types : Rollback(t, d)
      BY <1>2 DEF Next
    <2> QED
      BY <1>1, <2>1, SetModeKeeps, SetExclusionsKeeps, FormAddExclusionKeeps, SetIPRulesKeeps,
         FormAddIPRuleKeeps, RollbackKeeps
  <1>3. CASE UNCHANGED vars
    BY <1>1, <1>3 DEF vars, SitesInv, ConfInv, SnapsInv, CountInv
  <1> QED
    BY <1>1, <1>2, <1>3

LEMMA SitesInvariant == Spec => []SitesInv
  BY InitSites, NextSites, PTL DEF Spec

-----------------------------------------------------------------------------
(* The properties.                                                         *)

\* Every overlay and every snapshot is a file that the generators or the
\* installer wrote: a placeholder or lines with a header; no snapshot is one of
\* an overlay that was not there (files.Backup), whatever was rolled back.
THEOREM TypeCorrect == Spec => []TypeOK
  <1>1. SitesInv => TypeOK
    <2>1. SUFFICES ASSUME SitesInv PROVE TypeOK
      OBVIOUS
    <2>2. ASSUME NEW t \in Types, NEW s \in Slugs, NEW o, Made(t, s, o)
          PROVE  o \in Seq(Line) /\ (o = Placeholder \/ parseSiteHeader(o) # {})
      BY <2>2, MadeFacts
    <2>3. ASSUME NEW t \in Types, NEW s \in Slugs
          PROVE  /\ conf[t][s] = Absent \/ Made(t, s, conf[t][s])
                 /\ \A snap \in snaps[t][s] : Made(t, s, snap.bytes)
      BY <2>1 DEF SitesInv, ConfInv, SnapsInv
    <2>4. ops \in 0..scope.ops
      BY <2>1 DEF SitesInv, CountInv
    <2> QED
      BY <2>2, <2>3, <2>4 DEF TypeOK
  <1> QED
    BY <1>1, SitesInvariant, PTL

\* The exclusions in force for a host are those that were asked for, each once,
\* through any sequence of PUTs, forms and rollbacks: the forms read the overlay
\* back, add to it and write it again, and lose nothing on the way.
THEOREM NoExclusionLost == Spec => []NothingLost
  <1>1. SitesInv => NothingLost
    <2>1. SUFFICES ASSUME SitesInv, NEW h \in Alone
                   PROVE  LET o == Overlay("exclusions", h)
                              inForce == IF o = Absent THEN <<>> ELSE parseExclusionsOverlay(o)
                          IN  /\ ToSet(inForce) = asked["exclusions"][h].exclusions
                              /\ Len(inForce) = Cardinality(ToSet(inForce))
      BY DEF NothingLost
    <2>2. "exclusions" \in Types
      BY DEF Types
    <2>3. Agrees("exclusions", Overlay("exclusions", h), asked["exclusions"][h])
      BY <2>1, <2>2 DEF SitesInv, ConfInv, Overlay
    <2> QED
      BY <2>3 DEF Agrees, ReadExclusions
  <1> QED
    BY <1>1, SitesInvariant, PTL

\* No two rules of an exclusions overlay have one id, for lists of any length
\* and after any sequence of requests and rollbacks: the ids are numbered anew
\* by every generation (waf.GenerateExclusions).
THEOREM IdsAreDistinct == Spec => []GeneratedIdsDistinct
  <1>1. SitesInv => GeneratedIdsDistinct
    <2>1. SUFFICES ASSUME SitesInv, NEW s \in Slugs, conf["exclusions"][s] # Absent,
                          NEW i \in DOMAIN conf["exclusions"][s],
                          NEW j \in DOMAIN conf["exclusions"][s],
                          conf["exclusions"][s][i].line = "rule",
                          conf["exclusions"][s][j].line = "rule",
                          conf["exclusions"][s][i].id = conf["exclusions"][s][j].id
                   PROVE  i = j
      BY DEF GeneratedIdsDistinct
    <2> DEFINE o == conf["exclusions"][s]
    <2>2. "exclusions" \in Types
      BY DEF Types
    <2>3. Made("exclusions", s, o)
      BY <2>1, <2>2 DEF SitesInv, ConfInv
    <2>4. /\ i \in DOMAIN o /\ j \in DOMAIN o
          /\ o[i].line = "rule" /\ o[j].line = "rule" /\ o[i].id = o[j].id
      BY <2>1
    <2> HIDE DEF o
    <2>5. o # Placeholder
      <3>1. SUFFICES ASSUME o = Placeholder PROVE FALSE
        OBVIOUS
      <3>2. DOMAIN Placeholder = 1..Len(Placeholder)
        BY PlaceholderFacts
      <3>3. o[i].line = "comment"
        BY <2>4, <3>1, <3>2, PlaceholderFacts
      <3> QED
        BY <2>4, <3>3
    <2>6. PICK d \in Valid, list \in Seq(Exclusion) : o = GenerateExclusions(d, list)
      BY <2>3, <2>5 DEF Made, Generated
    <2>7. d \in Name
      BY NameOfValid
    <2> QED
      BY <2>4, <2>6, <2>7, IdsDistinct
  <1> QED
    BY <1>1, SitesInvariant, PTL

\* Exactly the clients are aborted that the rules asked for deny, or that the
\* allowlist asked for does not have, for addresses of any width: neither the
\* normalisation nor the way through the overlay and back, form after form and
\* across rollbacks, changes whom a list covers.
THEOREM ClientsBlockedAsAsked == Spec => []BlockedAsAsked
  <1>1. SitesInv => BlockedAsAsked
    <2>1. SUFFICES ASSUME SitesInv, NEW h \in Alone, NEW c \in Clients
                   PROVE  LET o == Overlay("ip-rules", h)
                              rules == parseIPRulesOverlay(IF o = Absent THEN <<>> ELSE o)
                              want == asked["ip-rules"][h]
                              In1(list) == \E i \in DOMAIN list : In(c, list[i])
                              In2(set) == \E e \in set : Means(c, e)
                          IN  (In1(rules.deny) \/ (rules.allow # <<>> /\ ~In1(rules.allow)))
                                <=> (In2(want.deny) \/ (want.allow # {} /\ ~In2(want.allow)))
      BY DEF BlockedAsAsked
    <2> DEFINE o == Overlay("ip-rules", h)
               rules == ReadRules(o)
               want == asked["ip-rules"][h]
    <2>2. "ip-rules" \in Types
      BY DEF Types
    <2>3. SameClients(rules.deny, want.deny) /\ SameClients(rules.allow, want.allow)
      BY <2>1, <2>2 DEF SitesInv, ConfInv, Overlay, Agrees
    <2>4. parseIPRulesOverlay(IF o = Absent THEN <<>> ELSE o) = rules
      BY DEF ReadRules
    <2> HIDE DEF rules, want
    <2>5. /\ (\E i \in DOMAIN rules.deny : In(c, rules.deny[i])) <=> (\E e \in want.deny : Means(c, e))
          /\ (\E i \in DOMAIN rules.allow : In(c, rules.allow[i])) <=> (\E e \in want.allow : Means(c, e))
          /\ rules.allow = <<>> <=> want.allow = {}
      BY <2>3 DEF SameClients
    <2> QED
      BY <2>4, <2>5, Zenon DEF want
  <1> QED
    BY <1>1, SitesInvariant, PTL

\* The sites that the WAF overlays declare for a host: the one of its overlay.
LEMMA ShownSites ==
    ASSUME SitesInv, NEW h \in Alone
    PROVE  LET o == Overlay("waf", h)
               shown == {site \in Scan : Host(site.domain) = h}
           IN  /\ o \in {Absent, Placeholder} => shown = {}
               /\ o \notin {Absent, Placeholder} =>
                    \E d \in Valid, mode \in STRING :
                      /\ mode \in Modes \/ mode # None
                      /\ o = GenerateMode(d, mode) /\ shown = {Site(d, mode)}
  <1> DEFINE file(r) == conf["waf"][r]
             o == file(DomainSlug(h))
             shown == {site \in Scan : Host(site.domain) = h}
  <1>1. "waf" \in Types
    BY DEF Types
  <1>2. h \in Hosts /\ DomainSlug(h) \in Slugs
    BY HostFacts
  <1>3. \A r \in Slugs : file(r) = Absent \/ Made("waf", r, file(r))
    BY <1>1 DEF SitesInv, ConfInv
  <1>4. parseSiteHeader(Placeholder) = {}
    <2>1. DOMAIN Placeholder = 1..Len(Placeholder)
      BY PlaceholderFacts
    <2> QED
      BY <2>1, PlaceholderFacts DEF parseSiteHeader
  <1>5. ASSUME NEW r \in Slugs, file(r) \notin {Absent, Placeholder}
        PROVE  \E d \in Valid, mode \in STRING :
                 /\ mode \in Modes \/ mode # None
                 /\ DomainSlug(d) = r /\ file(r) = GenerateMode(d, mode)
                 /\ parseSiteHeader(file(r)) = {Site(d, mode)}
    <2>1. Made("waf", r, file(r))
      BY <1>3, <1>5
    <2>2. PICK d \in Valid : DomainSlug(d) = r /\ Generated("waf", d, file(r))
      BY <1>5, <2>1 DEF Made
    <2>3. PICK mode \in STRING : (mode \in Modes \/ mode # None) /\ file(r) = GenerateMode(d, mode)
      BY <2>2 DEF Generated
    <2>4. d \in Name
      BY NameOfValid
    <2>5. parseSiteHeader(file(r)) = {Site(d, mode)}
      BY <2>3, <2>4, ModeLines
    <2> QED
      BY <2>2, <2>3, <2>5
  <1>6. Scan = UNION {parseSiteHeader(file(r)) : r \in {q \in Slugs : file(q) # Absent}}
    BY DEF Scan
  <1> HIDE DEF file
  <1>7. ASSUME NEW site \in shown
        PROVE  o \notin {Absent, Placeholder} /\ site \in parseSiteHeader(o)
    <2>1. PICK r \in Slugs : file(r) # Absent /\ site \in parseSiteHeader(file(r))
      BY <1>6, <1>7
    <2>2. file(r) \notin {Absent, Placeholder}
      BY <1>4, <2>1
    <2>3. PICK d \in Valid, mode \in STRING :
            DomainSlug(d) = r /\ parseSiteHeader(file(r)) = {Site(d, mode)}
      BY <1>5, <2>2
    <2>4. site.domain = d
      BY <2>1, <2>3 DEF Site
    <2>5. Host(d) = h
      BY <1>7, <2>4
    <2>6. r = DomainSlug(h)
      BY <2>3, <2>5, SlugOfHost
    <2> QED
      BY <2>1, <2>2, <2>6
  <1>8. ASSUME o \notin {Absent, Placeholder}
        PROVE  \E d \in Valid, mode \in STRING :
                 /\ mode \in Modes \/ mode # None
                 /\ o = GenerateMode(d, mode) /\ shown = {Site(d, mode)}
    <2>1. PICK d \in Valid, mode \in STRING :
            /\ mode \in Modes \/ mode # None
            /\ DomainSlug(d) = DomainSlug(h) /\ o = GenerateMode(d, mode)
            /\ parseSiteHeader(o) = {Site(d, mode)}
      BY <1>2, <1>5, <1>8
    <2>2. Site(d, mode).domain = d /\ Host(d) = h
      BY <2>1, HostFacts DEF Site
    <2>3. Site(d, mode) \in Scan
      BY <1>2, <1>6, <1>8, <2>1
    <2>4. Site(d, mode) \in shown
      BY <2>2, <2>3
    <2>5. shown = {Site(d, mode)}
      BY <1>7, <2>1, <2>4
    <2> HIDE DEF shown
    <2> QED
      BY <2>1, <2>5
  <1>9. o \in {Absent, Placeholder} => shown = {}
    BY <1>7
  <1>10. Overlay("waf", h) = o
    BY DEF Overlay, file
  <1> HIDE DEF o
  <1> QED
    BY <1>8, <1>9, <1>10

\* The list of sites (the scanner) has every host with a WAF overlay once, with
\* the mode that is in force and was asked for, or marked as degraded when that
\* mode is none of the three; nothing is listed for a host without an overlay.
THEOREM ListIsTrue == Spec => []ListShowsModeInForce
  <1>1. SitesInv => ListShowsModeInForce
    <2>1. SUFFICES ASSUME SitesInv, NEW h \in Alone
                   PROVE  LET o == Overlay("waf", h)
                              shown == {site \in Scan : Host(site.domain) = h}
                          IN  /\ o \in {Absent, Placeholder} => shown = {}
                              /\ o \notin {Absent, Placeholder} => Cardinality(shown) = 1
                              /\ \A site \in shown :
                                   /\ Engine(o) = asked["waf"][h].mode
                                   /\ IF site.degraded THEN Engine(o) \cap Modes = {}
                                      ELSE Engine(o) = {site.mode}
      BY DEF ListShowsModeInForce
    <2> DEFINE o == Overlay("waf", h)
               shown == {site \in Scan : Host(site.domain) = h}
    <2>2. /\ o \in {Absent, Placeholder} => shown = {}
          /\ o \notin {Absent, Placeholder} =>
               \E d \in Valid, mode \in STRING :
                 /\ mode \in Modes \/ mode # None
                 /\ o = GenerateMode(d, mode) /\ shown = {Site(d, mode)}
      BY <2>1, ShownSites
    <2>3. Agrees("waf", o, asked["waf"][h])
      <3>1. "waf" \in Types
        BY DEF Types
      <3> QED
        BY <2>1, <3>1 DEF SitesInv, ConfInv, Overlay
    <2> HIDE DEF o, shown
    <2>4. CASE o \in {Absent, Placeholder}
      BY <2>2, <2>4 DEF o, shown
    <2>5. CASE o \notin {Absent, Placeholder}
      <3>1. PICK d \in Valid, mode \in STRING :
              /\ mode \in Modes \/ mode # None
              /\ o = GenerateMode(d, mode) /\ shown = {Site(d, mode)}
        BY <2>2, <2>5
      <3>2. Cardinality(shown) = 1
        BY <3>1, FS_Singleton
      <3>3. Engine(o) = {mode} /\ Engine(o) = asked["waf"][h].mode
        BY <2>3, <2>5, <3>1, NameOfValid, ModeLines DEF Agrees
      <3>4. Site(d, mode).degraded <=> mode \notin Modes \cup {None}
        BY DEF Site, Degraded
      <3>5. Site(d, mode).mode = IF mode \in Modes THEN mode ELSE "DetectionOnly"
        BY DEF Site, ShownMode
      <3>6. CASE mode \in Modes
        <4>1. ~Site(d, mode).degraded /\ Site(d, mode).mode = mode
          BY <3>4, <3>5, <3>6
        <4> QED
          BY <2>5, <3>1, <3>2, <3>3, <4>1 DEF o, shown
      <3>7. CASE mode \notin Modes
        <4>1. Site(d, mode).degraded
          BY <3>1, <3>4, <3>7
        <4>2. Engine(o) \cap Modes = {}
          BY <3>3, <3>7
        <4> QED
          BY <2>5, <3>1, <3>2, <3>3, <4>1, <4>2 DEF o, shown
      <3> QED
        BY <3>6, <3>7
    <2> QED
      BY <2>4, <2>5
  <1> QED
    BY <1>1, SitesInvariant, PTL
=============================================================================

---------------------------- MODULE OverlayFormat ----------------------------
(***************************************************************************)
(* The overlays as files: what the generators write and what the parsers   *)
(* and the scanner read back.  An overlay is a sequence of lines; a line   *)
(* is a comment, the header, or one of the directives that a parser knows. *)
(*                                                                         *)
(* Addresses are sequences of W4 or W6 bits; the addresses of IPv6 whose   *)
(* leading bits are Mapped stand for the IPv4 ones (::ffff:a.b.c.d).       *)
(***************************************************************************)
EXTENDS Integers, Sequences, FiniteSets, SequencesExt

CONSTANTS
    Digits,  \* rule ids: [0-9]+
    Names,   \* tags and parameter names that are not all digits
    None,    \* no parameter, no mode, no prefix length
    W4, W6, Mapped

ASSUME WidthAssumption == W4 \in Nat /\ W6 \in Nat /\ W4 < W6
\* The last bit of ::ffff: is set.
ASSUME MappedAssumption ==
    Mapped \in [1..(W6 - W4) -> {0, 1}] /\ Mapped[W6 - W4] = 1
ASSUME NoneAssumption == None \notin Nat

Modes == {"On", "Off", "DetectionOnly"}

Comment == [line |-> "comment"]
Placeholder == <<Comment>>

\* The header of 3 segments has a mode, the one of 2 segments has not.
Header(d, mode) == [line |-> "header", domain |-> d, mode |-> mode]

-----------------------------------------------------------------------------
(* The WAF overlay.                                                        *)

GenerateMode(d, mode) ==
    <<Comment, Header(d, mode), [line |-> "engine", mode |-> mode]>>

\* What the engine is told by an overlay.
Engine(overlay) ==
    LET set == {i \in DOMAIN overlay : overlay[i].line = "engine"}
    IN  {overlay[i].mode : i \in set}

\* A header without a mode is shown as DetectionOnly; so is a mode that is not
\* known, and then the site is marked.
ShownMode(mode) == IF mode \in Modes THEN mode ELSE "DetectionOnly"
Degraded(mode) == mode \notin Modes \cup {None}

\* The site an overlay declares in its first header; none without a header.
parseSiteHeader(overlay) ==
    LET first == {j \in DOMAIN overlay :
                    /\ overlay[j].line = "header"
                    /\ \A k \in 1..(j - 1) : overlay[k].line # "header"}
    IN  {[domain |-> overlay[i].domain, mode |-> ShownMode(overlay[i].mode),
          degraded |-> Degraded(overlay[i].mode)] : i \in first}

-----------------------------------------------------------------------------
(* The exclusions overlay.                                                 *)

\* Only id and tag are exclusion types; a parameter is optional.
ValidExclusion(ex) ==
    /\ \/ ex.type = "id" /\ ex.value \in Digits
       \/ ex.type = "tag" /\ ex.value \in Digits \cup Names
    /\ ex.param \in Digits \cup Names \cup {None}

validateExclusions(list) == \A i \in DOMAIN list : ValidExclusion(list[i])

\* Mutant: the key of an entry without its parameter.
dedupeByValue(list) ==
    FlattenSeq([i \in DOMAIN list |->
      IF \E j \in 1..(i - 1) : list[j].type = list[i].type /\ list[j].value = list[i].value
      THEN <<>> ELSE <<list[i]>>])

\* The first of equal entries stays.
dedupeExclusions(list) ==
    FlattenSeq([i \in DOMAIN list |->
      IF \E j \in 1..(i - 1) : list[j] = list[i] THEN <<>> ELSE <<list[i]>>])

\* Mutant: the id of a rule is its position among all rows of its type.
IDByType(rows, i) ==
    9000001 + Cardinality({j \in 1..(i - 1) : rows[j].type = rows[i].type})

\* The generated id of a row with a parameter: one more than the last one.
ID(rows, i) == 9000001 + Cardinality({j \in 1..(i - 1) : rows[j].param # None})

\* SecRuleRemoveById, SecRuleRemoveByTag, or a SecRule on ARGS:<param>.
Directive(rows, i) ==
    LET ex == rows[i]
    IN  IF ex.param = None
        THEN [line |-> "remove", type |-> ex.type, value |-> ex.value]
        ELSE [line |-> "rule", type |-> ex.type, value |-> ex.value,
              param |-> ex.param, id |-> ID(rows, i)]

GenerateExclusions(d, list) ==
    LET rows == dedupeExclusions(list)
    IN  <<Comment, Header(d, None)>> \o
        IF rows = <<>> THEN <<Comment>>
        ELSE [i \in DOMAIN rows |-> Directive(rows, i)]

\* The four directives are recognised, every other line is skipped.
parseExclusionsOverlay(overlay) ==
    FlattenSeq([i \in DOMAIN overlay |->
      LET l == overlay[i]
      IN  IF l.line \in {"remove", "rule"}
          THEN <<[type |-> l.type, value |-> l.value,
                  param |-> IF l.line = "rule" THEN l.param ELSE None]>>
          ELSE <<>>])

-----------------------------------------------------------------------------
(* The IP rules overlay.                                                   *)

Width(fam) == IF fam = 4 THEN W4 ELSE W6

Address(fam) == [1..Width(fam) -> {0, 1}]

\* An entry as it is typed: an address, alone or with a prefix length.
IPEntry ==
    [fam : {4}, addr : Address(4), len : 0..W4 \cup {None}] \cup
    [fam : {6}, addr : Address(6), len : 0..W6 \cup {None}]

\* The leading len bits of an address; the others are cleared.
Masked(addr, len) == [i \in DOMAIN addr |-> IF i <= len THEN addr[i] ELSE 0]

\* IP.To4: IPv4, or IPv6 in the mapped block.
IsTo4(fam, addr) == fam = 4 \/ \A i \in DOMAIN Mapped : addr[i] = Mapped[i]
To4(fam, addr) ==
    IF fam = 4 THEN addr ELSE [i \in 1..W4 |-> addr[W6 - W4 + i]]

\* Mutant: a network of the mapped block stays in its IPv6 form.
normalizeByFamily(e) ==
    LET len == IF e.len = None THEN Width(e.fam) ELSE e.len
        net == Masked(e.addr, len)
    IN  IF IsTo4(e.fam, net) /\ e.len = None
        THEN [fam |-> 4, addr |-> To4(e.fam, net), len |-> W4]
        ELSE [fam |-> e.fam, addr |-> net, len |-> len]

\* ParseCIDR and IPNet.String, or ParseIP with /32 or /128: the network with its
\* host bits cleared, as IPv4 when it lies in the mapped block.
normalizeIPEntry(e) ==
    LET len == IF e.len = None THEN Width(e.fam) ELSE e.len
        net == Masked(e.addr, len)
    IN  IF IsTo4(e.fam, net)
        THEN [fam |-> 4, addr |-> To4(e.fam, net),
              len |-> IF e.fam = 4 THEN len
                      ELSE IF len > W6 - W4 THEN len - (W6 - W4) ELSE 0]
        ELSE [fam |-> 6, addr |-> net, len |-> len]

ValidateIPRules(rules) == ToSet(rules.deny) \cup ToSet(rules.allow) \subseteq IPEntry

\* A matcher for each list that is not empty.
GenerateIPRules(d, rules) ==
    LET norm(list) == [i \in DOMAIN list |-> normalizeIPEntry(list[i])]
        matcher(name, list) ==
          IF list = <<>> THEN <<>> ELSE <<[line |-> name, ips |-> norm(list)]>>
    IN  <<Comment, Header(d, None)>> \o
        IF rules.deny = <<>> /\ rules.allow = <<>> THEN <<Comment>>
        ELSE matcher("remote_ip", rules.deny) \o matcher("not remote_ip", rules.allow)

parseIPRulesOverlay(overlay) ==
    LET entries(name) == FlattenSeq([i \in DOMAIN overlay |->
          IF overlay[i].line = name THEN overlay[i].ips ELSE <<>>])
    IN  [deny |-> entries("remote_ip"), allow |-> entries("not remote_ip")]
=============================================================================

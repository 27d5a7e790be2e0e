------------------------------- MODULE Naming -------------------------------
(***************************************************************************)
(* Domain names and the slugs that name their files.                       *)
(*                                                                         *)
(* A domain is the sequence of its labels (what "." separates) and a label *)
(* the sequence of its words (what "-" separates).  The empty word stands  *)
(* for nothing between two separators: <<"">> is an empty label, <<"", w>> *)
(* a label with a leading hyphen.  The length limits (63 and 253) and the  *)
(* characters that no valid name has, except "*", are left out.            *)
(***************************************************************************)
EXTENDS Naturals, Sequences, SequencesExt

CONSTANTS
    Words,  \* runs of letters and digits
    Lower   \* strings.ToLower on words

ASSUME WordsAssumption == Words \subseteq STRING \ {"", "*"}
ASSUME LowerAssumption ==
    Lower \in [Words -> Words] /\ \A w \in Words : Lower[Lower[w]] = Lower[w]

\* What a name may look like before it is validated.
Name == Seq(Seq(STRING))

validateLabel(label) ==
    /\ label[1] # "" /\ label[Len(label)] # ""
    /\ \A i \in DOMAIN label : label[i] \in Words \cup {""}

\* A "*" is a label of its own, the first of at least three.
ValidateDomain(d) ==
    /\ d # <<>>
    /\ \A i \in DOMAIN d :
         \/ i = 1 /\ d[i] = <<"*">> /\ Len(d) >= 3
         \/ validateLabel(d[i])

\* Mutant: the case of a name is kept.
SlugOfCase(d) ==
    LET words == FlattenSeq(d)
    IN  [i \in DOMAIN words |-> IF words[i] = "*" THEN "wildcard" ELSE words[i]]

\* "." and "-" become "_", "*" becomes "wildcard", the rest lower case: what is
\* left of a valid domain is the sequence of its words.
DomainSlug(d) ==
    LET words == FlattenSeq(d)
    IN  [i \in DOMAIN words |->
           CASE words[i] = "*" -> "wildcard"
             [] words[i] = ""  -> ""
             [] OTHER          -> Lower[words[i]]]

\* The host a name stands for: names are compared without case (RFC 4343).
Host(d) ==
    [i \in DOMAIN d |-> [j \in DOMAIN d[i] |->
       IF d[i][j] \in Words THEN Lower[d[i][j]] ELSE d[i][j]]]
=============================================================================

------------------------------ MODULE AuditLog ------------------------------
(***************************************************************************)
(* The audit log explorer: Coraza appends records to a file while the UI   *)
(* reads the tail of that file, one page per click.                        *)
(*                                                                         *)
(* The file is a sequence of cells.  Record n, the n-th that Coraza wrote, *)
(* is <<n, 1>>, <<n, 2>>, ... up to its size; a cell stands for a chunk of *)
(* its bytes, so a window can cut a record and a write can stop inside it. *)
(***************************************************************************)
EXTENDS Sequences, SequencesExt, Paging

CONSTANTS
    Window,        \* maxTailBytes, in cells
    Sizes,         \* sizes a record may have, in cells
    Transactions,  \* what a record may say
    Formats,       \* "jsonl": a newline ends a record; "stream": none does
    Filter,        \* Options.Action: "", "BLOCKED" or "DETECTED"
    MaxRecords,    \* bound on the records Coraza writes
    Faults         \* "torn", "truncate", "error"

\* The disruptive verbs fall into two classes: deny, drop and redirect behave
\* alike, and so do pass and allow.
Verb == {"deny", "pass"}

\* id: transaction.id is present; action: the legacy field; interrupted:
\* is_interrupted; sets: the actionset of each message, as its tokens; hit:
\* Options.Search is empty or a substring of one of the four searched fields.
Transaction ==
    [id : BOOLEAN, action : Verb \cup {""}, interrupted : BOOLEAN,
     sets : Seq(Seq(Verb \cup {"other"})), hit : BOOLEAN]

ASSUME WindowAssumption == Window \in Nat \ {0}
ASSUME SizesAssumption == Sizes \subseteq Nat \ {0}
ASSUME TransactionsAssumption == Transactions \subseteq Transaction
ASSUME FormatsAssumption == Formats \subseteq {"jsonl", "stream"}
ASSUME FilterAssumption == Filter \in {"", "BLOCKED", "DETECTED"}
ASSUME MaxRecordsAssumption == MaxRecords \in Nat
ASSUME FaultsAssumption == Faults \subseteq {"torn", "truncate", "error"}

VARIABLES
    log,      \* the cells of the file
    written,  \* size and transaction of every record, by number
    pc,       \* "idle", or "read" between Stat and the read
    size,     \* stat.Size()
    asked,    \* Options.Page of the click in progress
    list,     \* the entries of the last read, newest first
    shown,    \* the page of the last read
    atStat,   \* auxiliary: the file when Stat was called
    seen,     \* auxiliary: the records shown since the walk began
    owed,     \* auxiliary: the records listed when the walk began
    dropped   \* auxiliary: the records that left the list during the walk

vars == <<log, written, pc, size, asked, list, shown, atStat, seen, owed,
          dropped>>
reader == <<pc, size, asked, list, shown, atStat, seen, owed, dropped>>

NL  == <<0, 0>>
NUL == <<0, 1>>

NoPage == [page |-> 0, pages |-> 0, from |-> 0, to |-> 0]

Init ==
    /\ log = <<>>
    /\ written = <<>>
    /\ pc = "idle"
    /\ size = 0
    /\ asked = 0
    /\ list = <<>>
    /\ shown = NoPage
    /\ atStat = <<>>
    /\ seen = {}
    /\ owed = {}
    /\ dropped = {}

-----------------------------------------------------------------------------
(* Coraza (external).                                                      *)

Cells(n, k) == [i \in 1..k |-> <<n, i>>]

\* A record is appended, whole or, when the write is cut short, in part.
Append1 ==
    /\ Len(written) < MaxRecords
    /\ \E sz \in Sizes, tx \in Transactions, fmt \in Formats :
         LET n == Len(written) + 1 IN
         /\ written' = Append(written, [size |-> sz, tx |-> tx])
         /\ \/ log' = log \o Cells(n, sz) \o
                        (IF fmt = "jsonl" THEN <<NL>> ELSE <<>>)
            \/ /\ "torn" \in Faults
               /\ \E k \in 1..sz : log' = log \o Cells(n, k)
    /\ UNCHANGED reader

\* The log is rotated by truncation.
Truncate ==
    /\ "truncate" \in Faults
    /\ log # <<>>
    /\ log' = <<>>
    /\ UNCHANGED <<written, reader>>

-----------------------------------------------------------------------------
(* reader.go.                                                              *)

\* The first disruptive token of an actionset, or "".
DisruptiveVerb(actionset) ==
    LET verbs == SelectSeq(actionset, LAMBDA t : t # "other")
    IN  IF verbs = <<>> THEN "" ELSE verbs[1]

\* The legacy action field, else the first disruptive verb of the messages,
\* else is_interrupted.
Classify(tx) ==
    LET verbs == SelectSeq([i \in DOMAIN tx.sets |-> DisruptiveVerb(tx.sets[i])],
                           LAMBDA v : v # "")
        verb  == IF tx.action # "" THEN tx.action
                 ELSE IF verbs # <<>> THEN verbs[1] ELSE ""
    IN  IF verb = "deny" \/ (verb = "" /\ tx.interrupted)
        THEN "BLOCKED" ELSE "DETECTED"

\* entryFromLine accepts the record, and its entry passes the filters.
Matches(tx) ==
    /\ tx.id
    /\ Filter # "" => Classify(tx) = Filter
    /\ tx.hit

HasNewline(data) == \E i \in DOMAIN data : data[i] = NL

\* Mutant: the window starts one cell late.
TailWindowLate ==
    IF size <= Window THEN log
    ELSE LET buf == [i \in 1..Window |->
                       IF size - Window + 1 + i <= Len(log)
                       THEN log[size - Window + 1 + i] ELSE NUL]
         IN  IF HasNewline(buf)
             THEN SubSeq(buf, SelectInSeq(buf, LAMBDA c : c = NL) + 1, Window)
             ELSE buf

\* tailWindow, with the size that Stat returned and the file as it is now: a
\* file shorter than that leaves zero bytes in the buffer.
TailWindow ==
    IF size <= Window THEN log
    ELSE LET buf == [i \in 1..Window |->
                       IF size - Window + i <= Len(log)
                       THEN log[size - Window + i] ELSE NUL]
         IN  IF HasNewline(buf)
             THEN SubSeq(buf, SelectInSeq(buf, LAMBDA c : c = NL) + 1, Window)
             ELSE buf

\* The cells a..b of data are exactly one record.
IsRecord(data, a, b) ==
    /\ data[a][1] # 0
    /\ b - a + 1 = written[data[a][1]].size
    /\ \A i \in a..b : data[i] = <<data[a][1], i - a + 1>>

\* The JSONL loop: where the lines that hold one record start.  A line that
\* does not parse is logged and skipped.
LineStarts(data) ==
    {a \in DOMAIN data :
       /\ a = 1 \/ data[a - 1] = NL
       /\ \E b \in a..Len(data) :
            /\ b = Len(data) \/ data[b + 1] = NL
            /\ \A i \in a..b : data[i] # NL
            /\ IsRecord(data, a, b)}

\* The decoder loop for a file without newlines: where the objects start, up to
\* the first decode error, which cuts the loop short.
ObjectStarts(data) ==
    {a \in DOMAIN data :
       /\ data[a][2] = 1
       /\ \A i \in 1..a : \E s \in 1..i, e \in i..Len(data) :
            IsRecord(data, s, e)}

\* Where the records start that are read and pass the filters.
Hits(data) ==
    {a \in IF HasNewline(data) THEN LineStarts(data) ELSE ObjectStarts(data) :
       Matches(written[data[a][1]].tx)}

\* The entries of a window, in the order of the file.
InFileOrder(data) ==
    FlattenSeq([a \in DOMAIN data |->
      IF a \in Hits(data) THEN <<data[a][1]>> ELSE <<>>])

\* Mutant: the entries are not reversed.
OldestFirst(data) == InFileOrder(data)

\* The entries of a window that pass the filters, newest first.
Entries(data) == Reverse(InFileOrder(data))

-----------------------------------------------------------------------------
(* The explorer.                                                           *)

\* A click: the logs tab (page 1) or the next page, which is offered on the last
\* page too; a tab without a table (page 0) offers none.  Read opens the file and
\* calls Stat; when that fails the table is empty.
Open ==
    /\ pc = "idle"
    /\ asked' \in {1, shown.page + 1}
    /\ \/ /\ pc' = "read"
          /\ size' = Len(log)
          /\ atStat' = log
          /\ UNCHANGED <<list, shown>>
       \/ /\ "error" \in Faults
          /\ pc' = "idle"
          /\ list' = <<>>
          /\ shown' = NoPage
          /\ size' = 0
          /\ atStat' = <<>>
    /\ IF asked' = 1
       THEN seen' = {} /\ owed' = {} /\ dropped' = {}
       ELSE UNCHANGED <<seen, owed, dropped>>
    /\ UNCHANGED <<log, written>>

\* The rest of Read, and the links the page gets.
Show ==
    /\ pc = "read"
    /\ pc' = "idle"
    /\ list' = Entries(TailWindow)
    /\ shown' = Paginate(Len(list'), asked, 0)
    /\ seen' = seen \cup ToSet(SubSeq(list', shown'.from + 1, shown'.to))
    /\ \/ /\ asked = 1
          /\ owed' = ToSet(list')
          /\ UNCHANGED dropped
       \/ /\ asked # 1
          /\ dropped' = dropped \cup (ToSet(list) \ ToSet(list'))
          /\ UNCHANGED owed
    /\ UNCHANGED <<log, written, size, asked, atStat>>

Next == Append1 \/ Truncate \/ Open \/ Show

Spec == Init /\ [][Next]_vars

-----------------------------------------------------------------------------
(* Properties.                                                             *)

\* Every cell of the file belongs to a record that was written, and the page on
\* display is a slice of the list it was cut from, under a page number that exists.
TypeOK ==
    /\ \A i \in DOMAIN log : log[i] = NL \/ log[i][1] \in DOMAIN written
    /\ \A n \in DOMAIN written : written[n].size \in Sizes
    /\ pc \in {"idle", "read"}
    /\ size \in 0..Len(atStat)
    /\ ToSet(list) \subseteq DOMAIN written
    /\ shown.from \in 0..Len(list) /\ shown.to \in shown.from..Len(list)
    /\ shown.page \in Nat
    /\ shown.page <= shown.pages \/ shown.page <= 1
    /\ seen \subseteq DOMAIN written /\ owed \subseteq DOMAIN written

\* Whatever is cut, torn or truncated while it is read, the list is strictly
\* newest first: no record twice, none out of order.
NewestFirst ==
    \A i, j \in DOMAIN list : i < j => list[i] > list[j]

\* Whole lines of a file: <<first cell, record>>.
WholeLines(file) == {<<a, file[a][1]>> : a \in LineStarts(file)}

\* Every record on a line of its own that starts after the first cell of the
\* window is listed if it passes the filters, although Coraza keeps writing
\* between Stat and the read, and although other lines are torn.
RecentLinesListed ==
    pc = "idle" /\ HasNewline(atStat) /\ IsPrefix(atStat, log) =>
      \A l \in WholeLines(atStat) :
        /\ \/ Len(atStat) <= Window
           \/ l[1] > Len(atStat) - Window + 1
        /\ l[1] + written[l[2]].size <= Len(atStat)
        /\ Matches(written[l[2]].tx)
        => l[2] \in ToSet(list)

\* Paging forward to the last page shows every entry that was listed on the
\* first page and is still listed, although the log grows and the window moves
\* between the clicks.  Only an entry that disappears before it can hide it: a
\* record without its newline that the next one is glued to.
NoEntrySkipped ==
    pc = "idle" /\ shown.page >= shown.pages =>
      \A n \in owed \cap ToSet(list) :
        (\A m \in dropped : m < n) => n \in seen

-----------------------------------------------------------------------------
(* What the comments say and the code does not do.                         *)

\* "The recent data, which lives at the end, stays intact": after a read the
\* newest complete record of the file is listed if it passes the filters.
NewestRecordListed ==
    pc = "idle" /\ atStat # <<>> /\ Faults = {} =>
      LET n == Len(written) IN
      atStat = log /\ Matches(written[n].tx) =>
        n \in ToSet(list)
=============================================================================

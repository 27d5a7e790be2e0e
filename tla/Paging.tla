------------------------------- MODULE Paging -------------------------------
(***************************************************************************)
(* paginate of internal/logs/reader.go: which slice of a list a page shows *)
(* and the page number it is shown under.  Indices are those of the Go     *)
(* slice: page entries are from, ..., to - 1.                              *)
(***************************************************************************)
EXTENDS Integers

CONSTANT DefaultPageSize  \* defaultPageSize

ASSUME PageSizeAssumption == DefaultPageSize \in Nat \ {0}

\* A page size below 1 means the default.
EffectiveSize(size) == IF size < 1 THEN DefaultPageSize ELSE size

\* The number of pages, rounded up; none for an empty list.
PageCount(total, size) ==
    IF total > 0 THEN (total + size - 1) \div size ELSE 0

\* Mutant: a page past the end is left as it was asked for.
ClampedBelow(page, pages) == IF page < 1 THEN 1 ELSE page

\* A page past the end is the last one; a page before the start, or a page of
\* an empty list, is the first one.
Clamped(page, pages) ==
    LET capped == IF page > pages THEN pages ELSE page
    IN  IF capped < 1 THEN 1 ELSE capped

AtMost(n, total) == IF n > total THEN total ELSE n

\* Mutant: the 1-based page number used as a 0-based one.
PaginateFromOne(total, page, size) ==
    LET s     == EffectiveSize(size)
        pages == PageCount(total, s)
        shown == Clamped(page, pages)
    IN  [page  |-> shown,
         pages |-> pages,
         from  |-> AtMost(shown * s, total),
         to    |-> AtMost(shown * s + s, total)]

Paginate(total, page, size) ==
    LET s     == EffectiveSize(size)
        pages == PageCount(total, s)
        shown == Clamped(page, pages)
        start == (shown - 1) * s
    IN  [page  |-> shown,
         pages |-> pages,
         from  |-> AtMost(start, total),
         to    |-> AtMost(start + s, total)]
=============================================================================

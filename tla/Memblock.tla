------------------------------ MODULE Memblock ------------------------------
(***************************************************************************)
(* The memory of the start (mm/memblock.c): a list of free regions that is *)
(* cut when memory is reserved or given out, and that the buddy allocator  *)
(* takes over.  Addresses are page frame numbers; a region is [base, end)  *)
(* and its list is an array of MEMBLOCK_MAX entries.                       *)
(***************************************************************************)
EXTENDS Naturals, Sequences, FiniteSets, FiniteSetsExt, SequencesExt

CONSTANT MEMBLOCK_MAX

MinOf(a, b) == IF a < b THEN a ELSE b
MaxOf(a, b) == IF a > b THEN a ELSE b

Region(b, e) == [base |-> b, end |-> e]
NotEmpty(r) == r.end > r.base
PagesOf(r) == r.base .. r.end - 1
PagesIn(rs) == UNION {PagesOf(rs[i]) : i \in DOMAIN rs}

\* add_region: an empty region is not entered, one too many is dropped.
add_region(rs, r) ==
    IF ~NotEmpty(r) \/ Len(rs) = MEMBLOCK_MAX THEN rs ELSE Append(rs, r)

\* reserve: what is left of r on the left of [lo, hi), and on the right of it.
CutLeft(r, lo) == Region(r.base, MaxOf(r.base, MinOf(lo, r.end)))
CutRight(r, hi) == Region(MaxOf(hi, r.base), r.end)
Meets(r, lo, hi) == ~(hi <= r.base \/ lo >= r.end)

\* Left rests keep their place, right rests go to the end of the list as long as
\* it has room, and empty regions are squeezed out afterwards.
reserve(rs, lo, hi) ==
    LET left(r) == IF Meets(r, lo, hi) THEN CutLeft(r, lo) ELSE r
        kept == [i \in DOMAIN rs |-> left(rs[i])]
        cut == SelectSeq(rs, LAMBDA r : Meets(r, lo, hi))
        all == FoldLeft(LAMBDA acc, r : add_region(acc, CutRight(r, hi)), kept, cut)
    IN  SelectSeq(all, NotEmpty)

\* memblock_alloc: from the end of the last region that has room below limit.
\* (0 when there is none, where the code panics.)
HighBase(r, n, limit) == MinOf(r.end, limit) - n
HasRoom(r, n, limit) == MinOf(r.end, limit) >= n /\ HighBase(r, n, limit) >= r.base
memblock_base(rs, n, limit) ==
    LET fit == {i \in DOMAIN rs : HasRoom(rs[i], n, limit)}
    IN  IF fit = {} THEN 0 ELSE HighBase(rs[Max(fit)], n, limit)
=============================================================================

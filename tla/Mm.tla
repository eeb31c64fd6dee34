--------------------------------- MODULE Mm ---------------------------------
(***************************************************************************)
(* Address spaces of processes (mm/mm.c, and the part of mm/vmm.c that     *)
(* serves them): areas (VMAs), pages that are made at the first access,    *)
(* copy-on-write after a fork, the heap, the growing stack.                *)
(*                                                                         *)
(* A process has one thread, and its areas and tables are changed under    *)
(* mm->lock with interrupts off by that thread only.  What processes on    *)
(* several CPUs share is the frames with their reference counts: a step of *)
(* this module ends where another CPU can see the difference.              *)
(*                                                                         *)
(* Addresses are page numbers, the break is in half pages.  The levels of  *)
(* a page table above the last are one, the root: it lives as long as the  *)
(* address space.                                                          *)
(***************************************************************************)
EXTENDS Naturals, Integers, FiniteSets, FiniteSetsExt, Sequences, SequencesExt

CONSTANTS
    Procs,
    UserStart, UserEnd,     \* USER_SPACE_START, USER_SPACE_END (the stack's top)
    MmapTop,                \* MMAP_TOP
    StackMax,               \* USER_STACK_MAX
    PtPages,                \* pages that one page table maps
    Values,                 \* what programs store
    MapArgs,                \* address (0 for any), length and rights of an mmap
    UnmapArgs,              \* address and length of a munmap
    SbrkArgs,
    Scenarios,              \* room in memory and in the process table; first areas and
                            \* break, calls, pages that programs touch
    Copies,                 \* names that a page has for its frames
    None

Pages == UserStart .. UserEnd - 1

\* Names of frames: what they are called means nothing, so a frame has the name
\* of the page that it is taken for.
Frames == Pages \X (1 .. Copies)

PteType == [f : Frames, w : BOOLEAN, cow : BOOLEAN]
Prots == SUBSET {"read", "write", "exec"}
VmaType == [start : Nat, end : Nat, prot : Prots, kind : {"elf", "heap", "stack", "anon"}]
TlbType == [va : Pages, f : Frames, w : BOOLEAN]

ASSUME MmAssumption ==
    /\ IsFiniteSet(Procs)
    /\ UserStart \in Nat /\ UserEnd \in Nat /\ MmapTop \in Nat /\ StackMax \in Nat
    /\ 0 < UserStart /\ UserStart < MmapTop /\ MmapTop <= UserEnd /\ StackMax < UserEnd
    /\ PtPages \in Nat \ {0} /\ Copies \in Nat
    /\ \A s \in Scenarios :
          /\ s.first \in s.procs /\ s.procs \subseteq Procs /\ s.touch \subseteq Pages
          /\ s.frames \in 1 .. Copies
    /\ None \notin PteType /\ None \notin TlbType

\* What a first program and its calls can be: areas in page numbers, lengths that
\* are not 0.
ASSUME CallsAssumption ==
    /\ MapArgs \subseteq Nat \X (Nat \ {0}) \X Prots
    /\ UnmapArgs \subseteq Nat \X (Nat \ {0}) /\ SbrkArgs \subseteq Int
    /\ \A s \in Scenarios : s.vmas \in Seq(VmaType) /\ s.brk \in Nat

\* None is a name for no entry, no value and no memory.
ASSUME NoneAssumption ==
    None # 0 /\ None \notin Values /\ None \notin [Pages -> Values \cup {0, None}]

Regions == {v \div PtPages : v \in Pages}
RegionOf(v) == v \div PtPages

VARIABLES
    sc,         \* the scenario
    pt,         \* pt[p]: page tables, that is whether there is a root, tables and entries
    mm,         \* mm[p]: areas, break
    refcount,   \* refcount[f]: 0 if the frame is free
    ntables,    \* frames that are page tables
    content,    \* content[f]: what the frame holds, None: the rest of a former use
    tlb,        \* tlb[p]: a translation that the CPU running p remembers, or None
    kern        \* kern[p]: where p is in the kernel

vars == <<sc, pt, mm, refcount, ntables, content, tlb, kern>>

Vma(s, e, prot, kind) == [start |-> s, end |-> e, prot |-> prot, kind |-> kind]
prot_to_pte(prot) == "write" \in prot
Pte(f, w, cow) == [f |-> f, w |-> w, cow |-> cow]
AlignUp(b) == (b + 1) \div 2
MaxOf(a, b) == IF a > b THEN a ELSE b
MinOf(a, b) == IF a < b THEN a ELSE b

NoPt == [root |-> FALSE, tables |-> {}, pte |-> [v \in Pages |-> None]]
Root == [NoPt EXCEPT !.root = TRUE]
NoMm == [vmas |-> <<>>, brk_start |-> 0, brk |-> 0]
At(pc, v, f, c) == [pc |-> pc, va |-> v, f |-> f, child |-> c]
InUser == At("user", UserStart, None, None)

-----------------------------------------------------------------------------
\* Frames: alloc_pages and put_page, of which Buddy shows the rest.
Used == {f \in Frames : refcount[f] # 0}
Free == sc.frames - ntables - Cardinality(Used)
OutOfMemory == Free = 0
NewFrame(v) == <<v, Min({i \in 1 .. Copies : refcount[<<v, i>>] = 0})>>

\* put_page has been called: what is in a frame that nobody has any more is of
\* no use to the next one who gets it.
ForgetFreed == content' = [f \in Frames |-> IF refcount'[f] = 0 THEN None ELSE content[f]]

\* A small object comes from a slab: it can be had as long as there are frames,
\* and also without, when the slab has a free one.
SmallAllocs == {TRUE} \cup (IF OutOfMemory THEN {FALSE} ELSE {})

Init ==
    \E s \in Scenarios : \E p \in {s.first} :
       /\ sc = s
       /\ pt = [q \in Procs |-> IF q = p THEN Root ELSE NoPt]
       /\ mm = [q \in Procs |->
                  IF q = p THEN [vmas |-> s.vmas, brk_start |-> s.brk, brk |-> s.brk]
                  ELSE NoMm]
       /\ refcount = [f \in Frames |-> 0]
       /\ ntables = 1
       /\ content = [f \in Frames |-> None]
       /\ tlb = [q \in Procs |-> None]
       /\ kern = [q \in Procs |-> IF q = p THEN InUser
                    ELSE At(IF q \in s.procs THEN "none" ELSE "unused", UserStart, None, None)]

Runs(p) == kern[p].pc = "user"

-----------------------------------------------------------------------------
(* Areas. *)

Within(v, a) == a.start <= v /\ v < a.end
Meets(a, s, e) == s < a.end /\ e > a.start

AreaOf(as, v) == SelectInSeq(as, LAMBDA a : Within(v, a))
find_vma(p, v) == AreaOf(mm[p].vmas, v)
range_free(p, s, e) == \A i \in DOMAIN mm[p].vmas : ~Meets(mm[p].vmas[i], s, e)

insert_vma(as, a) ==
    LET later == SelectInSeq(as, LAMBDA b : a.start < b.start)
    IN  IF later = 0 THEN Append(as, a) ELSE InsertAt(as, later, a)

\* One pass of find_free_area over the list: the candidate moves below each
\* area that it comes too near to; 0 once there is no room left below.
Pass(as, len, cand) ==
    FoldLeft(LAMBDA c, a :
                IF c # 0 /\ c < a.end + 1 /\ c + len + 1 > a.start
                THEN IF a.start < len + 2 + UserStart THEN 0 ELSE a.start - len - 1
                ELSE c,
             cand, as)
find_free_area(p, len) ==
    LET area[c \in 0 .. MmapTop] ==
            LET d == Pass(mm[p].vmas, len, c) IN IF d = c THEN c ELSE area[d]
        got == area[MmapTop - len]
    IN  IF got >= UserStart THEN got ELSE 0

\* mm_map.  With no memory for the area, no room or an address that is taken
\* nothing changes.
mm_map(p, addr, len, prot) ==
    /\ Runs(p) /\ "map" \in sc.ops
    /\ \E a \in Pages :
          /\ a = IF addr = 0 THEN find_free_area(p, len) ELSE addr
          /\ a + len <= UserEnd
          /\ range_free(p, a, a + len)
          /\ mm' = [mm EXCEPT ![p].vmas = insert_vma(@, Vma(a, a + len, prot, "anon"))]
    /\ UNCHANGED <<sc, pt, refcount, ntables, content, tlb, kern>>

-----------------------------------------------------------------------------
(* Unmapping. *)

Mapped(p, S) == {v \in S \cap Pages : pt[p].pte[v] # None}

\* vmm_prune_tables: tables of the range that have become empty.
Emptied(p, S) ==
    {r \in {RegionOf(v) : v \in S \cap Pages} :
        /\ r \in pt[p].tables
        /\ \A v \in Pages \ S : RegionOf(v) = r => pt[p].pte[v] = None}

\* The CPU of p forgets the translations of the pages S.
Invlpg(p, S) == [tlb EXCEPT ![p] = IF @ # None /\ @.va \in S THEN None ELSE @]

\* unmap_pages and vmm_prune_tables on the pages S: put_page for each page, the
\* tables left empty go back, the CPU forgets the translations (all of them
\* when a table went).
Unmap(p, S, as, brk) ==
    LET gone == Mapped(p, S)
        empty == Emptied(p, S)
        frames == {pt[p].pte[v].f : v \in gone}
    IN  /\ pt' = [pt EXCEPT
              ![p].pte = [v \in Pages |-> IF v \in gone THEN None ELSE @[v]],
              ![p].tables = @ \ empty]
        /\ mm' = [mm EXCEPT ![p].vmas = as, ![p].brk = brk]
        /\ refcount' = [f \in Frames |-> IF f \in frames THEN refcount[f] - 1 ELSE refcount[f]]
        /\ ntables' = ntables - Cardinality(empty)
        /\ ForgetFreed
        /\ tlb' = IF empty # {} THEN [tlb EXCEPT ![p] = None] ELSE Invlpg(p, gone)
        /\ UNCHANGED <<sc, kern>>

\* mm_unmap: what is left of an area when [s, e) is cut out of it.  A hole in
\* the middle needs a second area; without memory for it the pages go and the
\* area stays as it was.
Left(a, s, e, split) ==
    LET head == [a EXCEPT !.end = MinOf(s, a.end)]
        rest == [a EXCEPT !.start = MaxOf(e, a.start)]
        some(b) == IF b.start < b.end THEN <<b>> ELSE <<>>
    IN  IF ~Meets(a, s, e) \/ (a.start < s /\ e < a.end /\ ~split) THEN <<a>>
        ELSE some(head) \o some(rest)

mm_unmap(p, s, len) ==
    /\ Runs(p) /\ "unmap" \in sc.ops
    /\ \E split \in SmallAllocs :
          Unmap(p, {v \in s .. s + len - 1 : find_vma(p, v) # 0},
                FlattenSeq([i \in DOMAIN mm[p].vmas |-> Left(mm[p].vmas[i], s, s + len, split)]),
                mm[p].brk)

\* mm_sbrk: the last heap area follows the break, rounded up to a page and
\* never empty.  Growing must not run into the next area.
mm_sbrk(p, inc) ==
    LET as == mm[p].vmas
        h == SelectLastInSeq(as, LAMBDA a : a.kind = "heap")
        brk == mm[p].brk + inc
        end == MaxOf(AlignUp(brk), as[h].start + 1)
        resized == [as EXCEPT ![h].end = end]
    IN  /\ Runs(p) /\ "sbrk" \in sc.ops
        /\ h # 0
        /\ inc < 0 => brk >= mm[p].brk_start
        /\ brk <= 2 * MmapTop
        /\ \A next \in {h + 1} \cap DOMAIN as : end <= MaxOf(as[h].end, as[next].start)
        /\ Unmap(p, end .. as[h].end - 1, resized, brk)

-----------------------------------------------------------------------------
(* Page faults. *)

\* grow_stack: the first stack area above the address is extended down to it.
grow_stack(p, v) ==
    LET as == mm[p].vmas
        i == SelectInSeq(as, LAMBDA a : a.kind = "stack" /\ v < a.start)
    IN  IF i # 0 /\ v >= UserEnd - StackMax /\ (i = 1 \/ as[i - 1].end + 1 <= v)
        THEN [as EXCEPT ![i].start = v]
        ELSE as

\* The areas and the index of the one for page v, 0 for none.
Found(p, v) ==
    LET as == IF find_vma(p, v) = 0 THEN grow_stack(p, v) ELSE mm[p].vmas
    IN  [as |-> as, i |-> AreaOf(as, v)]

\* The process is killed, or ends: it leaves its address space, then
\* mm_destroy takes it apart.
Exits(p) == kern' = [kern EXCEPT ![p] = At("destroy", UserStart, None, p)]

\* A fault that cannot be resolved: SIGSEGV for the program, or an error from
\* the system call whose buffer it was.
Unresolved(p) == Exits(p) \/ UNCHANGED kern

\* vmm_get_pte with a table that is missing, then a page of zeros.  The table
\* is kept when there is no page left.
Absent(p, v, as, w) ==
    LET r == RegionOf(v)
        need == Cardinality({r} \ pt[p].tables)
        f == NewFrame(v)
    IN  /\ mm' = [mm EXCEPT ![p].vmas = as]
        /\ \/ /\ Free < need
              /\ Unresolved(p)
              /\ UNCHANGED <<pt, refcount, ntables, content>>
           \/ /\ Free = need
              /\ pt' = [pt EXCEPT ![p].tables = @ \cup {r}]
              /\ ntables' = ntables + need
              /\ Unresolved(p)
              /\ UNCHANGED <<refcount, content>>
           \/ /\ Free > need
              /\ pt' = [pt EXCEPT ![p].tables = @ \cup {r}, ![p].pte[v] = Pte(f, w, FALSE)]
              /\ ntables' = ntables + need
              /\ refcount' = [refcount EXCEPT ![f] = 1]
              /\ content' = [content EXCEPT ![f] = 0]
              /\ UNCHANGED kern

\* The page is shared: the count decides whether it is taken over or copied.
MutSoleOwner(f) == refcount[f] <= 2
SoleOwner(f) == refcount[f] = 1

Cow(p, v) ==
    LET e == pt[p].pte[v] IN
    \/ /\ SoleOwner(e.f)
       /\ pt' = [pt EXCEPT ![p].pte[v] = Pte(e.f, TRUE, FALSE)]
       /\ tlb' = Invlpg(p, {v})
       /\ UNCHANGED kern
    \/ /\ ~SoleOwner(e.f)
       /\ kern' = [kern EXCEPT ![p] = At("copy", v, e.f, None)]
       /\ UNCHANGED <<pt, tlb>>

\* mm_handle_fault, and mm_prefault for one page of a buffer.  A page that is
\* there and need not be copied is left as it is.
mm_handle_fault(p, v, write) ==
    LET found == Found(p, v)
        writable == prot_to_pte(found.as[found.i].prot)
        e == pt[p].pte[v]
    IN  /\ Runs(p)
        /\ \/ /\ found.i = 0 \/ (found.i # 0 /\ write /\ ~writable)
              /\ Unresolved(p)
              /\ UNCHANGED <<pt, mm, refcount, ntables, content, tlb>>
           \/ /\ found.i # 0 /\ (write => writable) /\ e = None
              /\ Absent(p, v, found.as, writable)
              /\ UNCHANGED tlb
           \/ /\ found.i # 0 /\ write /\ writable /\ e # None /\ e.cow
              /\ Cow(p, v)
              /\ UNCHANGED <<mm, refcount, ntables, content>>
        /\ UNCHANGED sc

\* What the new frame holds.
MutCopied(f) == 0
Copied(f) == content[f]

\* The copy of a shared page: a new frame, or none left.
CowCopy(p) ==
    LET v == kern[p].va
        prot == mm[p].vmas[find_vma(p, v)].prot
    IN  /\ kern[p].pc = "copy"
        /\ \/ /\ OutOfMemory
              /\ \/ Exits(p)
                 \/ kern' = [kern EXCEPT ![p] = InUser]
              /\ UNCHANGED <<pt, refcount, content>>
           \/ /\ ~OutOfMemory
              /\ pt' = [pt EXCEPT ![p].pte[v] = Pte(NewFrame(v), prot_to_pte(prot), FALSE)]
              /\ refcount' = [refcount EXCEPT ![NewFrame(v)] = 1]
              /\ content' = [content EXCEPT ![NewFrame(v)] = Copied(kern[p].f)]
              /\ kern' = [kern EXCEPT ![p].pc = "put"]
        /\ UNCHANGED <<sc, mm, ntables, tlb>>

\* put_page of the old frame, invlpg.
CowPut(p) ==
    /\ kern[p].pc = "put"
    /\ refcount' = [refcount EXCEPT ![kern[p].f] = @ - 1]
    /\ ForgetFreed
    /\ tlb' = Invlpg(p, {kern[p].va})
    /\ kern' = [kern EXCEPT ![p] = InUser]
    /\ UNCHANGED <<sc, pt, mm, ntables>>

-----------------------------------------------------------------------------
(* The program and the CPU: an access that the tables or the TLB allow; others *)
(* fault.                                                                      *)

Seen(p, v) ==
    IF tlb[p] # None /\ tlb[p].va = v THEN tlb[p]
    ELSE IF pt[p].pte[v] # None THEN [va |-> v, f |-> pt[p].pte[v].f, w |-> pt[p].pte[v].w]
    ELSE None

Read(p, v) ==
    /\ Runs(p)
    /\ Seen(p, v) # None
    /\ tlb' = [tlb EXCEPT ![p] = Seen(p, v)]
    /\ UNCHANGED <<sc, pt, mm, refcount, ntables, content, kern>>

Write(p, v, x) ==
    /\ Runs(p) /\ "store" \in sc.ops
    /\ Seen(p, v) # None /\ Seen(p, v).w
    /\ tlb' = [tlb EXCEPT ![p] = Seen(p, v)]
    /\ content' = [content EXCEPT ![Seen(p, v).f] = x]
    /\ UNCHANGED <<sc, pt, mm, refcount, ntables, kern>>

Fault(p, v, write) ==
    /\ Seen(p, v) # None => write /\ ~Seen(p, v).w
    /\ mm_handle_fault(p, v, write)

\* A CPU drops translations as it likes; a switch to another process drops all.
\* Of those it has, the model keeps the last one: a property that fails because
\* one of them is old fails with that one alone.
Evict(p) ==
    /\ Runs(p)
    /\ tlb[p] # None
    /\ tlb' = [tlb EXCEPT ![p] = None]
    /\ UNCHANGED <<sc, pt, mm, refcount, ntables, content, kern>>

-----------------------------------------------------------------------------
(* mm_fork. *)

\* mm_create and the copy of the areas.  An area that cannot be copied ends the
\* fork before a page is shared.
mm_fork(p, c) ==
    /\ Runs(p) /\ "fork" \in sc.ops
    /\ kern[c].pc = "none" /\ ~OutOfMemory
    /\ \E n \in 0 .. Len(mm[p].vmas) :
          /\ n < Len(mm[p].vmas) => Free = 1
          /\ mm' = [mm EXCEPT ![c] = [mm[p] EXCEPT !.vmas = SubSeq(@, 1, n)]]
          /\ kern' = [kern EXCEPT
                        ![p] = At(IF n = Len(mm[p].vmas) THEN "fork" ELSE "undo",
                                  UserStart, None, c),
                        ![c].pc = "born"]
    /\ pt' = [pt EXCEPT ![c] = Root]
    /\ ntables' = ntables + 1
    /\ UNCHANGED <<sc, refcount, content, tlb>>

\* copy_user_tables, the next page that is present: both sides get it read-only
\* and one more reference is counted ...
Shared(e) == IF e.w THEN Pte(e.f, FALSE, TRUE) ELSE e
NextPage(p, from) == Mapped(p, from .. UserEnd - 1)

ForkGet(p) ==
    LET v == Min(NextPage(p, kern[p].va)) IN
    /\ kern[p].pc = "fork"
    /\ NextPage(p, kern[p].va) # {}
    /\ pt' = [pt EXCEPT ![p].pte[v] = Shared(@)]
    /\ refcount' = [refcount EXCEPT ![pt[p].pte[v].f] = @ + 1]
    /\ kern' = [kern EXCEPT ![p] = At("share", v, None, @.child)]
    /\ UNCHANGED <<sc, mm, ntables, content, tlb>>

\* ... then the child's table is made, if there is memory for it; otherwise the
\* reference is given back and the fork fails.
MutForkFailed(f) == refcount
ForkFailed(f) == [refcount EXCEPT ![f] = @ - 1]

ForkShare(p) ==
    LET v == kern[p].va
        c == kern[p].child
        e == pt[p].pte[v]
        need == Cardinality({RegionOf(v)} \ pt[c].tables)
    IN  /\ kern[p].pc = "share"
        /\ \/ /\ Free < need
              /\ refcount' = ForkFailed(e.f)
              /\ kern' = [kern EXCEPT ![p].pc = "undo"]
              /\ UNCHANGED <<pt, ntables>>
           \/ /\ Free >= need
              /\ pt' = [pt EXCEPT ![c].pte[v] = e, ![c].tables = @ \cup {RegionOf(v)}]
              /\ ntables' = ntables + need
              /\ kern' = [kern EXCEPT ![p].pc = "fork", ![p].va = v + 1]
              /\ UNCHANGED refcount
        /\ ForgetFreed
        /\ UNCHANGED <<sc, mm, tlb>>

\* The end of mm_fork: CR3 is loaded again, so that the parent's CPU forgets
\* that it could write; a fork that failed takes the child apart.
MutReloaded(p) == tlb[p]
Reloaded(p) == None

ForkEnd(p) ==
    LET c == kern[p].child IN
    /\ \/ /\ kern[p].pc = "fork" /\ NextPage(p, kern[p].va) = {}
          /\ kern' = [kern EXCEPT ![p] = InUser, ![c] = InUser]
       \/ /\ kern[p].pc = "undo"
          /\ kern' = [kern EXCEPT ![p] = At("destroy", UserStart, None, c)]
    /\ tlb' = [tlb EXCEPT ![p] = Reloaded(p)]
    /\ UNCHANGED <<sc, pt, mm, refcount, ntables, content>>

-----------------------------------------------------------------------------
(* mm_destroy of kern[p].child, which is p itself or the child of a fork that  *)
(* failed.                                                                     *)

Exit(p) ==
    /\ Runs(p) /\ "exit" \in sc.ops
    /\ Exits(p)
    /\ UNCHANGED <<sc, pt, mm, refcount, ntables, content, tlb>>

\* vmm_destroy_address_space: the pages of the tables one after the other ...
DestroyPage(p) ==
    LET c == kern[p].child
        v == Min(NextPage(c, UserStart))
    IN  /\ kern[p].pc = "destroy"
        /\ NextPage(c, UserStart) # {}
        /\ pt' = [pt EXCEPT ![c].pte[v] = None]
        /\ refcount' = [refcount EXCEPT ![pt[c].pte[v].f] = @ - 1]
        /\ ForgetFreed
        /\ UNCHANGED <<sc, mm, ntables, tlb, kern>>

\* ... then the tables themselves.
DestroyTables(p) ==
    LET c == kern[p].child IN
        /\ kern[p].pc = "destroy"
        /\ NextPage(c, UserStart) = {}
        /\ pt' = [pt EXCEPT ![c] = NoPt]
        /\ mm' = [mm EXCEPT ![c] = NoMm]
        /\ ntables' = ntables - Cardinality(pt[c].tables) - 1
        /\ tlb' = [tlb EXCEPT ![c] = None]
        /\ kern' = [q \in Procs |-> CASE q = c -> At("none", UserStart, None, None)
                                      [] q = p /\ p # c -> InUser
                                      [] OTHER -> kern[q]]
        /\ UNCHANGED <<sc, refcount, content>>

-----------------------------------------------------------------------------
Calls(p) ==
    \/ \E a \in MapArgs : mm_map(p, a[1], a[2], a[3])
    \/ \E a \in UnmapArgs : mm_unmap(p, a[1], a[2])
    \/ \E inc \in SbrkArgs : mm_sbrk(p, inc)
    \/ \E c \in Procs : mm_fork(p, c)
    \/ Exit(p)

Steps(p) ==
    \/ CowCopy(p) \/ CowPut(p)
    \/ ForkGet(p) \/ ForkShare(p) \/ ForkEnd(p)
    \/ DestroyPage(p) \/ DestroyTables(p)

Program(p) ==
    \/ Evict(p)
    \/ \E v \in sc.touch :
          \/ Read(p, v)
          \/ \E x \in Values : Write(p, v, x)
          \/ \E write \in BOOLEAN : Fault(p, v, write)

Next == \E p \in Procs : Calls(p) \/ Steps(p) \/ Program(p)

Spec == Init /\ [][Next]_vars

-----------------------------------------------------------------------------
(* Properties. *)

\* How many places hold a reference to frame f: entries of tables, and a process
\* between two steps of a copy or a fork.
Entries(f) == {x \in Procs \X Pages : pt[x[1]].pte[x[2]] # None /\ pt[x[1]].pte[x[2]].f = f}
Putting(f) == {p \in Procs : kern[p].pc = "put" /\ kern[p].f = f}
Sharing(f) == {p \in Procs : kern[p].pc = "share" /\ pt[p].pte[kern[p].va].f = f}
References(f) == Cardinality(Entries(f)) + Cardinality(Putting(f)) + Cardinality(Sharing(f))

Roots == {p \in Procs : pt[p].root}
Tables == {x \in Procs \X Regions : x[2] \in pt[x[1]].tables}

\* No frame is lost and none is freed while somebody can reach it: the count of
\* every frame is the number of its users, at each step of faults, copies, forks
\* that run out of memory half way (mm.c:393) and exits of several processes.
FramesAccounted ==
    /\ \A f \in Frames : refcount[f] = References(f)
    /\ ntables = Cardinality(Roots) + Cardinality(Tables)
    /\ Free >= 0

\* A translation that the CPU of a running program may use is the one of its page
\* table, and allows no store that the table forbids: after a fork, a copy, a
\* munmap or a prune nothing old is left (mm.c:429, vmm.c:317, vmm.c:454).
TlbAgrees ==
    \A p \in Procs :
       Runs(p) /\ tlb[p] # None =>
          LET e == pt[p].pte[tlb[p].va] IN
          e # None /\ e.f = tlb[p].f /\ (tlb[p].w => e.w)

\* The memory that a program sees, as PrivateMemory has it.
Alive(p) ==
    /\ kern[p].pc \notin {"none", "unused", "born"}
    /\ kern[p].pc = "destroy" => kern[p].child # p
MemoryOf(p) ==
    [v \in Pages |-> IF range_free(p, v, v + 1) THEN None
                     ELSE IF pt[p].pte[v] = None THEN 0
                     ELSE content[pt[p].pte[v].f]]
Memories == [p \in Procs |-> IF Alive(p) THEN MemoryOf(p) ELSE None]
Private == INSTANCE PrivateMemory WITH Hole <- None, Gone <- None, mem <- Memories

\* The pages of the heap that lie above the new break.
AboveBreak(p, inc) ==
    {v \in Pages : /\ v >= AlignUp(mm[p].brk + inc)
                   /\ \E i \in DOMAIN mm[p].vmas : mm[p].vmas[i].kind = "heap" /\ Within(v, mm[p].vmas[i])}

\* What each step is to these memories.  A change of memory alone does not say whose
\* call it answers: only a store may store, only munmap and sbrk may give pages up,
\* those they were called for, and the work on frames and tables in between changes
\* nothing.
CallSeen(p) ==
    \/ \E a \in MapArgs : mm_map(p, a[1], a[2], a[3]) /\ Private!Map(p)
    \/ \E a \in UnmapArgs :
          mm_unmap(p, a[1], a[2]) /\ Private!Drop(p, Pages \cap (a[1] .. a[1] + a[2] - 1))
    \/ \E inc \in SbrkArgs :
          /\ mm_sbrk(p, inc)
          /\ Private!Map(p) \/ \E S \in SUBSET AboveBreak(p, inc) : Private!Drop(p, S)
    \/ Exit(p) /\ Private!Exit(p)
AccessSeen(p) ==
    \E v \in Pages :
       \/ \E x \in Values : Write(p, v, x) /\ Private!Store(p, v, x)
       \/ Read(p, v) /\ Private!Load(p)
       \/ \E write \in BOOLEAN : Fault(p, v, write) /\ (Private!Map(p) \/ Private!Exit(p))
KernelSeen(p) ==
    \/ CowCopy(p) /\ Private!Exit(p)
    \/ kern[p].pc = "fork" /\ ForkEnd(p) /\ Private!Fork(p, kern[p].child)
    \/ /\ Evict(p) \/ Steps(p) \/ \E c \in Procs : mm_fork(p, c)
       /\ UNCHANGED Memories
PrivateStep == \E p \in Procs : CallSeen(p) \/ AccessSeen(p) \/ KernelSeen(p)

\* Sharing frames copy-on-write is invisible: each process has a memory of its
\* own that only its own stores change, new memory is zero, a page is lost only to
\* the munmap or sbrk that gives it back, and a child starts with its parent's
\* memory, whatever two processes that share a page do at the same time (mm.c:275)
\* and however a fork ends.
ImplementsPrivate == Private!Spec /\ [][PrivateStep]_vars

\* Why the first two hold, as an inductive invariant.  A frame has the name of its page
\* in every table; what a process in the middle of a copy or a fork remembers is still
\* true, because its tables are changed by nobody else; a child that is not born yet
\* has one parent, which fills its table from the bottom; who has no address space has
\* no frame, no table and no translation.
PtType == [root : BOOLEAN, tables : SUBSET Regions, pte : [Pages -> PteType \cup {None}]]
KernType == [pc : {"none", "unused", "born", "user", "copy", "put", "fork", "share", "undo", "destroy"},
             va : Nat, f : Frames \cup {None}, child : Procs \cup {None}]
TypeOK ==
    /\ sc \in Scenarios
    /\ pt \in [Procs -> PtType]
    /\ refcount \in [Frames -> Int] /\ ntables \in Int
    /\ tlb \in [Procs -> TlbType \cup {None}]
    /\ kern \in [Procs -> KernType]

NamesInv == \A p \in Procs, v \in Pages : pt[p].pte[v] # None => pt[p].pte[v].f[1] = v

Parent(p) ==
    \/ kern[p].pc \in {"fork", "share", "undo"}
    \/ kern[p].pc = "destroy" /\ kern[p].child # p
ParentInv ==
    /\ \A p \in Procs : kern[p].pc = "destroy" => kern[p].child \in Procs
    /\ \A p \in Procs : Parent(p) =>
          kern[p].child \in Procs \ {p} /\ kern[kern[p].child].pc = "born"
    /\ \A p, q \in Procs : Parent(p) /\ Parent(q) /\ kern[p].child = kern[q].child => p = q
    /\ \A p \in Procs : kern[p].pc \in {"fork", "share"} =>
          \A v \in Pages : v >= kern[p].va => pt[kern[p].child].pte[v] = None
CopyInv ==
    \A p \in Procs :
       /\ kern[p].pc \in {"copy", "put", "share"} => kern[p].va \in Pages
       /\ kern[p].pc \in {"copy", "put"} => kern[p].f \in Frames
       /\ kern[p].pc = "copy" =>
             pt[p].pte[kern[p].va] # None /\ pt[p].pte[kern[p].va].f = kern[p].f
       /\ kern[p].pc = "share" => pt[p].pte[kern[p].va] # None
SpaceInv ==
    \A p \in Procs :
       /\ IF kern[p].pc \in {"none", "unused"} THEN pt[p] = NoPt ELSE pt[p].root
       /\ kern[p].pc \in {"none", "unused", "born"} => tlb[p] = None

Allowed(p) ==
    LET e == pt[p].pte[tlb[p].va] IN e # None /\ e.f = tlb[p].f /\ (tlb[p].w => e.w)
TlbInv ==
    \A p \in Procs : tlb[p] # None =>
       /\ kern[p].pc \in {"user", "copy"} => Allowed(p)
       /\ kern[p].pc = "put" => tlb[p].va = kern[p].va \/ Allowed(p)
       /\ kern[p].pc = "destroy" => kern[p].child = p
SpacesInv == TypeOK /\ NamesInv /\ ParentInv /\ CopyInv /\ SpaceInv /\ TlbInv
IInv == SpacesInv /\ FramesAccounted

\* Why ImplementsPrivate holds, on top of IInv.  A page that is present lies in an area
\* and its frame holds something; a frame that one table allows stores to is in no
\* other one; and while a fork goes through the pages, the child has its parent's areas
\* and, up to where the parent is, its frames, and the page in between is read-only.
MmType == [vmas : Seq(VmaType), brk_start : Nat, brk : Nat]
MemoryType == mm \in [Procs -> MmType] /\ content \in [Frames -> Values \cup {0, None}]

Covers(as, v) == \E i \in DOMAIN as : Within(v, as[i])
CoverInv == \A p \in Procs, v \in Pages : pt[p].pte[v] # None => Covers(mm[p].vmas, v)

ContentInv == \A p \in Procs, v \in Pages : pt[p].pte[v] # None => content[pt[p].pte[v].f] # None

StoreInv ==
    \A p, q \in Procs, v, u \in Pages :
       /\ pt[p].pte[v] # None /\ pt[p].pte[v].w
       /\ pt[q].pte[u] # None /\ pt[q].pte[u].f = pt[p].pte[v].f
       => p = q /\ v = u

ForkInv ==
    \A p \in Procs : kern[p].pc \in {"fork", "share"} =>
       LET c == kern[p].child IN
       /\ mm[c] = mm[p]
       /\ \A v \in Pages : v < kern[p].va =>
             /\ pt[c].pte[v] = None <=> pt[p].pte[v] = None
             /\ pt[p].pte[v] # None => pt[c].pte[v].f = pt[p].pte[v].f
       /\ kern[p].pc = "share" => ~pt[p].pte[kern[p].va].w

SpaceMemoryInv == MemoryType /\ CoverInv /\ ContentInv /\ StoreInv
MemoryInv == SpaceMemoryInv /\ ForkInv
=============================================================================

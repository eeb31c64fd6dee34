------------------------------ MODULE Vmalloc -------------------------------
(***************************************************************************)
(* vmalloc and vfree (mm/vmalloc.c) over the kernel's page table           *)
(* (vmm_map_page and vmm_unmap_page of mm/vmm.c) and the TLB shootdown of  *)
(* Tlb.  Threads on several CPUs allocate and release areas; each page of  *)
(* an area is mapped and unmapped on its own, outside vm_lock, and no lock *)
(* protects the page table itself.                                         *)
(*                                                                         *)
(* Page 0 of the region is VMALLOC_START and END is VMALLOC_END, in pages. *)
(* An area is [start, size] without its guard pages.  Of the four levels   *)
(* of the page table two are kept: a directory, and the tables it points   *)
(* to with PtPages entries each.                                           *)
(***************************************************************************)
EXTENDS Tlb

CONSTANTS
    Sizes,      \* Sizes[t]: sizes of the areas that t asks for, in pages
    Releases,   \* Releases[t]: sizes of the areas that t releases
    PtPages,    \* entries of a page table
    Touched     \* which CPU looks up which pages

ASSUME VmallocAssumption ==
    /\ Sizes \in [Threads -> SUBSET (Nat \ {0})]
    /\ Releases \in [Threads -> SUBSET Nat]
    /\ PtPages \in Nat \ {0}
    /\ Touched \subseteq CPUs \X Pages

VARIABLES
    areas,      \* the list of areas, kept in the order of their addresses
    live,       \* areas that vmalloc has returned and nobody has released
    area,       \* area[t]: the area t works on
    off,        \* off[t]: page of it that is next
    phys,       \* phys[t]: frame in t's hand: not mapped yet, or not freed yet
    pt,         \* pt[t]: the table that next_level has found or made for t
    undo,       \* undo[t]: t gives back the pages of a vmalloc that failed
    table,      \* table[r]: the directory's entry for index r
    pte,        \* pte[g][v]: the entry for page v in the table in frame g
    free,       \* frames that pmm_alloc_page can give
    panicked,   \* panic() has stopped every CPU
    overwritten \* history: a table has taken the place of another one

vmVars == <<areas, live, area, off, phys, pt, undo, table, pte, free, panicked, overwritten>>
vars == <<tlbVars, vmVars>>

PdIndex(v) == v \div PtPages
Directory == {PdIndex(v) : v \in Pages}
NoEntries == [v \in Pages |-> None]

\* What the page table says of page v.
Entry(v) == IF table[PdIndex(v)] = None THEN None ELSE pte[table[PdIndex(v)]][v]

NoArea == [start |-> 0, size |-> 0]

Init ==
    /\ TlbInit
    /\ pc = [t \in Threads |-> "user"]
    /\ areas = {} /\ live = {}
    /\ area = [t \in Threads |-> NoArea]
    /\ off = [t \in Threads |-> 0]
    /\ phys = [t \in Threads |-> None]
    /\ pt = [t \in Threads |-> None]
    /\ undo = [t \in Threads |-> FALSE]
    /\ table = [r \in Directory |-> None]
    /\ pte = [g \in Frames |-> NoEntries]
    /\ free = Frames
    /\ panicked = FALSE /\ overwritten = FALSE

-----------------------------------------------------------------------------
\* First fit: the search starts at the beginning of the region and behind the
\* guard page of every area, and takes the first place where the area and its
\* two guard pages end before the next area's guard page.
Behind(a) == a.start + a.size + 1
Need(n) == n + 2
Fits(cursor, n) ==
    /\ cursor + Need(n) <= END
    /\ \A a \in areas : Behind(a) <= cursor \/ cursor + Need(n) <= a.start - 1
Cursors(n) == {k \in {0} \cup {Behind(a) : a \in areas} : Fits(k, n)}

\* t is at l, on whatever CPU, and panic has not stopped it.
VmAt(t, l) == pc[t] = l /\ ~panicked

\* vmalloc: alloc_area enters the area in the list, in one section of vm_lock.
\* Without room vmalloc returns NULL and nothing has changed.
vmalloc(t, n) ==
    /\ VmAt(t, "user")
    /\ Cursors(n) # {}
    /\ LET a == [start |-> Min(Cursors(n)) + 1, size |-> n] IN
       /\ areas' = areas \cup {a}
       /\ area' = [area EXCEPT ![t] = a]
    /\ Goto(t, "map")
    /\ UNCHANGED <<on, req, inbox, ipi, scan, tlb, live, off, phys, pt, undo, table, pte, free, panicked, overwritten>>

Page(t) == area[t].start + off[t]
More(t) == off[t] < area[t].size

\* The local variables of vmalloc and vfree end with them.
Leaves(t) ==
    /\ Goto(t, "user")
    /\ area' = [area EXCEPT ![t] = NoArea]
    /\ off' = [off EXCEPT ![t] = 0]
    /\ undo' = [undo EXCEPT ![t] = FALSE]

\* The next page: pmm_alloc_page gives a frame, and vmm_map_page looks whether the
\* directory has a table for the page.  Nobody else knows of the frame yet.
MapPage(t, f) ==
    /\ VmAt(t, "map") /\ More(t)
    /\ f \in free
    /\ free' = free \ {f}
    /\ phys' = [phys EXCEPT ![t] = f]
    /\ LET g == table[PdIndex(Page(t))] IN
       /\ pt' = [pt EXCEPT ![t] = g]
       /\ Goto(t, IF g = None THEN "table" ELSE "set")
    /\ UNCHANGED <<on, req, inbox, ipi, scan, tlb, areas, live, area, off, undo, table, pte, panicked, overwritten>>

\* next_level found no table, allocates one of zeros and enters it in the directory.
\* It does not look again: another CPU may have entered one by now.
MakeTable(t, g) ==
    /\ VmAt(t, "table")
    /\ g \in free
    /\ free' = free \ {g}
    /\ pte' = [pte EXCEPT ![g] = NoEntries]
    /\ LET r == PdIndex(Page(t)) IN
       /\ table' = [table EXCEPT ![r] = g]
       /\ overwritten' = (overwritten \/ table[r] # None)
    /\ pt' = [pt EXCEPT ![t] = g]
    /\ Goto(t, "set")
    /\ UNCHANGED <<on, req, inbox, ipi, scan, tlb, areas, live, area, off, phys, undo, panicked>>

\* vmm_map_page writes the entry; one that is present is a panic.  Nobody else writes
\* an entry that is not present: the area is t's alone.
SetEntry(t) ==
    /\ VmAt(t, "set")
    /\ pte[pt[t]][Page(t)] = None
    /\ pte' = [pte EXCEPT ![pt[t]][Page(t)] = phys[t]]
    /\ phys' = [phys EXCEPT ![t] = None]
    /\ pt' = [pt EXCEPT ![t] = None]
    /\ off' = [off EXCEPT ![t] = @ + 1]
    /\ Goto(t, "map")
    /\ UNCHANGED <<on, req, inbox, ipi, scan, tlb, areas, live, area, undo, table, free, panicked, overwritten>>

MapPanics(t) ==
    /\ VmAt(t, "set")
    /\ pte[pt[t]][Page(t)] # None
    /\ panicked' = TRUE
    /\ UNCHANGED <<tlbVars, areas, live, area, off, phys, pt, undo, table, pte, free, overwritten>>

\* No frame for the page or for a page table: the page's frame goes back, the area
\* shrinks to what is mapped and that is unmapped again.
MapFails(t) ==
    /\ (VmAt(t, "map") /\ More(t)) \/ VmAt(t, "table")
    /\ free' = free \cup ({phys[t]} \ {None})
    /\ phys' = [phys EXCEPT ![t] = None]
    /\ LET a == [area[t] EXCEPT !.size = off[t]] IN
       /\ areas' = (areas \ {area[t]}) \cup {a}
       /\ area' = [area EXCEPT ![t] = a]
    /\ off' = [off EXCEPT ![t] = 0]
    /\ undo' = [undo EXCEPT ![t] = TRUE]
    /\ Goto(t, "unmap")
    /\ UNCHANGED <<on, req, inbox, ipi, scan, tlb, live, pt, table, pte, panicked, overwritten>>

vmallocReturns(t) ==
    /\ VmAt(t, "map") /\ ~More(t)
    /\ live' = live \cup {area[t]}
    /\ Leaves(t)
    /\ UNCHANGED <<on, req, inbox, ipi, scan, tlb, areas, phys, pt, table, pte, free, panicked, overwritten>>

-----------------------------------------------------------------------------
\* vfree (release): the area leaves the list under vm_lock, and is unmapped
\* after that.
vfree(t, a) ==
    /\ VmAt(t, "user")
    /\ a \in live /\ a.size \in Releases[t]
    /\ live' = live \ {a}
    /\ areas' = areas \ {a}
    /\ area' = [area EXCEPT ![t] = a]
    /\ Goto(t, "unmap")
    /\ UNCHANGED <<on, req, inbox, ipi, scan, tlb, off, phys, pt, undo, table, pte, free, panicked, overwritten>>

MutUnmapPage(t) ==
    /\ VmAt(t, "unmap") /\ More(t)
    /\ phys' = [phys EXCEPT ![t] = Entry(Page(t))]
    /\ req' = [req EXCEPT ![t].virt = Page(t)]
    /\ Goto(t, "flush")
    /\ UNCHANGED <<on, inbox, ipi, scan, tlb, areas, live, area, off, pt, undo, table, pte, free, panicked,
                   overwritten>>

\* unmap_area: vmm_unmap_page clears the entry and flushes a kernel page on all
\* CPUs, then the frame is freed.  An entry that is not present is passed over.
\* Reading the entry and clearing it are one step: two threads come to the same
\* present entry only once a table was overwritten.
UnmapPage(t) ==
    /\ VmAt(t, "unmap") /\ More(t)
    /\ LET v == Page(t) IN
       IF Entry(v) = None
       THEN /\ off' = [off EXCEPT ![t] = @ + 1]
            /\ UNCHANGED <<phys, pte, req, pc>>
       ELSE /\ phys' = [phys EXCEPT ![t] = Entry(v)]
            /\ pte' = [pte EXCEPT ![table[PdIndex(v)]][v] = None]
            /\ req' = [req EXCEPT ![t].virt = v]
            /\ Goto(t, "flush")
            /\ UNCHANGED off
    /\ UNCHANGED <<on, inbox, ipi, scan, tlb, areas, live, area, pt, undo, table, free, panicked, overwritten>>

FreePage(t) ==
    /\ VmAt(t, "free")
    /\ free' = free \cup {phys[t]}
    /\ phys' = [phys EXCEPT ![t] = None]
    /\ off' = [off EXCEPT ![t] = @ + 1]
    /\ req' = [req EXCEPT ![t] = NoReq]
    /\ Goto(t, "unmap")
    /\ UNCHANGED <<on, inbox, ipi, scan, tlb, areas, live, area, pt, undo, table, pte, panicked, overwritten>>

\* unmap_area is done; a failed vmalloc takes its area off the list only now.
UnmapReturns(t) ==
    /\ VmAt(t, "unmap") /\ ~More(t)
    /\ areas' = IF undo[t] THEN areas \ {area[t]} ELSE areas
    /\ Leaves(t)
    /\ UNCHANGED <<on, req, inbox, ipi, scan, tlb, live, phys, pt, table, pte, free, panicked, overwritten>>

-----------------------------------------------------------------------------
\* The hardware: a CPU may walk the page table at any time, for an access or
\* ahead of one, and keep what it finds.  It keeps directory entries too, and comes
\* to a table that was replaced as well.  Entries are global, so that loading CR3
\* drops none of them.
TlbFill(c, v) ==
    /\ ~panicked
    /\ tlb[c][v] = None
    /\ \E g \in Frames :
          /\ pte[g][v] # None
          /\ tlb' = [tlb EXCEPT ![c][v] = pte[g][v]]
    /\ UNCHANGED <<on, pc, req, inbox, ipi, scan, vmVars>>

Vm(t) ==
    \/ \E n \in Sizes[t] : vmalloc(t, n)
    \/ \E f \in free : MapPage(t, f)
    \/ \E g \in free : MakeTable(t, g)
    \/ SetEntry(t) \/ MapPanics(t) \/ MapFails(t) \/ vmallocReturns(t)
    \/ \E a \in live : vfree(t, a)
    \/ UnmapPage(t) \/ FreePage(t) \/ UnmapReturns(t)

InterruptsOff(t) == OffStep(t, "free") /\ ~panicked /\ UNCHANGED vmVars
Shootdown(t) ==
    \/ \E c \in CPUs : (FlushLocal(t, c) \/ PushOff(t, c)) /\ ~panicked /\ UNCHANGED vmVars
    \/ InterruptsOff(t)

Inbox(c) == CpuStep(c) /\ ~panicked /\ UNCHANGED vmVars

Next == \/ \E t \in Threads : Vm(t) \/ Shootdown(t)
        \/ \E c \in CPUs : Inbox(c)
        \/ \E x \in Touched : TlbFill(x[1], x[2])

Spec == Init /\ [][Next]_vars

\* Code with interrupts off goes on, and the local APIC delivers a latched
\* interrupt when interrupts come on again: strong fairness, because a thread can
\* keep turning them off.
Fairness ==
    /\ \A t \in Threads : WF_vars(InterruptsOff(t))
    /\ \A c \in CPUs : SF_vars(Inbox(c))
FairSpec == Spec /\ Fairness

-----------------------------------------------------------------------------
Pcs == {"user", "map", "table", "set", "unmap", "flush", "pushoff", "send", "kick", "wait", "free"}
AreaType == {a \in [start : Nat, size : Nat] : a.start + a.size <= END}

TypeOK ==
    /\ pc \in [Threads -> Pcs]
    /\ areas \subseteq AreaType /\ live \subseteq AreaType
    /\ area \in [Threads -> AreaType]
    /\ off \in [Threads -> Nat]
    /\ phys \in [Threads -> Frames \cup {None}]
    /\ pt \in [Threads -> Frames \cup {None}]
    /\ undo \in [Threads -> BOOLEAN]
    /\ table \in [Directory -> Frames \cup {None}]
    /\ pte \in [Frames -> [Pages -> Frames \cup {None}]]
    /\ free \subseteq Frames
    /\ panicked \in BOOLEAN /\ overwritten \in BOOLEAN

\* A frame is in one place: free, mapped once, a table of the directory, or in the
\* hand of the one thread that maps or unmaps it, the error paths of vmalloc and two
\* threads on the same addresses included.  A frame is lost only where next_level
\* puts a table in the place of one that another CPU has just made (vmm.c:109).
Mappings(f) == Cardinality({v \in Pages : Entry(v) = f}) + Cardinality({r \in Directory : table[r] = f})
FrameInOnePlace ==
    ~overwritten =>
       \A f \in Frames :
          Mappings(f) + Cardinality({t \in Threads : phys[t] = f}) + (IF f \in free THEN 1 ELSE 0) = 1

\* When tlb_shootdown returns, no other CPU has the unmapped page's frame in its
\* TLB any more, while the directory is whole.
OtherCpusFlushed ==
    [][\A t \in Threads : pc[t] = "wait" /\ pc'[t] = "free" /\ ~overwritten =>
         \A c \in CPUs \ {on[t]} : tlb[c][req[t].virt] # phys[t]]_vars

\* Why the two hold, as an inductive invariant: who is between taking a frame and
\* mapping it, or between unmapping a page and freeing its frame, has that frame for
\* itself; the table that a thread has found is still the directory's; and a CPU that
\* the loop has passed and that does not know the request any more has not got the
\* frame in its TLB.  All but the first ends with a table that is overwritten.
InHand ==
    \A t \in Threads :
       /\ phys[t] # None <=> pc[t] \notin {"user", "map", "unmap"}
       /\ pc[t] \notin {"user", "map", "table", "set", "unmap"} => req[t].virt \in Pages
       /\ pc[t] \in {"table", "set"} => More(t)
Walked ==
    /\ \A t \in Threads : pc[t] = "set" => pt[t] # None /\ pt[t] = table[PdIndex(Page(t))]
    /\ \A g \in Frames, v \in Pages : pte[g][v] # None => table[PdIndex(v)] = g
EntriesApart ==
    /\ \A v, w \in Pages : Entry(v) = Entry(w) /\ Entry(v) # None => v = w
    /\ \A v \in Pages, t \in Threads : Entry(v) = phys[t] => Entry(v) = None
    /\ \A t, u \in Threads : phys[t] = phys[u] /\ phys[t] # None => t = u
    /\ \A v \in Pages : Entry(v) \notin free
    /\ \A t \in Threads : phys[t] \notin free
TablesApart ==
    /\ \A i, j \in Directory : table[i] = table[j] /\ table[i] # None => i = j
    /\ \A i \in Directory, v \in Pages : Entry(v) = table[i] => Entry(v) = None
    /\ \A i \in Directory, t \in Threads : phys[t] = table[i] => phys[t] = None
    /\ \A i \in Directory : table[i] \notin free
Somewhere ==
    \A f \in Frames : \/ f \in free \/ \E v \in Pages : Entry(v) = f
                      \/ \E i \in Directory : table[i] = f
                      \/ \E t \in Threads : phys[t] = f
FramesApart == ~overwritten => Walked /\ EntriesApart /\ TablesApart /\ Somewhere
Flushed ==
    ~overwritten =>
       \A t \in Threads : PushedOff(t) =>
          \A c \in CPUs \ ({on[t]} \cup Owes(t)) :
             Passed(t, c) => tlb[c][req[t].virt] # phys[t]
IInv == TypeOK /\ TlbInv /\ InHand /\ FramesApart /\ Flushed

\* Everyone waiting on everyone: a CPU that waits for answers gives its own, so
\* a shootdown comes to an end although interrupts are off on both sides.
ShootdownEnds ==
    \A t \in Threads : []<>(pc[t] # "wait" \/ panicked)

\* What arch/smp.c:17-20 says the shootdown is for: no CPU has a translation to a
\* frame that was given back.
NoStaleTranslation ==
    \A c \in CPUs, v \in Pages : tlb[c][v] \notin free

\* What vmalloc.c:2 and 7 say: the pages of an area that vmalloc has returned are mapped,
\* until it is released.
AreasMapped ==
    \A a \in live : \A v \in a.start .. a.start + a.size - 1 : Entry(v) # None

\* What the panic of vmm_map_page asserts: vmalloc never meets a page that is
\* mapped already.
NeverMappedTwice == ~panicked
=============================================================================

------------------------------- MODULE Buddy --------------------------------
(***************************************************************************)
(* The buddy allocator of physical pages (mm/pmm.c).  It is started from   *)
(* the regions that memblock has left, block by block, and then serves     *)
(* threads on several CPUs: the lists of a zone are changed under the      *)
(* zone's lock, the descriptor of an allocated page without it.            *)
(*                                                                         *)
(* Lists are sets: which of the blocks of an order is first in its list    *)
(* depends on the history only, and any of them may be taken.              *)
(***************************************************************************)
EXTENDS Memblock

CONSTANTS
    MAX_ORDER,      \* orders are below it
    PFN_4G,         \* first page of the upper zone
    RamMaps,        \* memory maps of the boot loader: sequences of regions
    Reserved,       \* regions that the start keeps (kernel image, modules)
    BootPages,      \* pages that the start takes out of memblock (mem_map, tables)
    Users,
    Orders0         \* orders that threads ask for

\* Orders, and what 2^o is for them.
ASSUME OrderAssumption ==
    /\ MAX_ORDER \in Nat \ {0} /\ Orders0 \subseteq 0 .. MAX_ORDER - 1
    /\ PFN_4G \in Nat
    /\ 2^0 = 1
    /\ \A k \in 0 .. MAX_ORDER : 2^k \in Nat \ {0}
    /\ \A k \in 0 .. MAX_ORDER - 1 : 2^(k + 1) = 2 * 2^k

ZONE_DMA32 == 0
ZONE_NORMAL == 1
Zones == {ZONE_DMA32, ZONE_NORMAL}
Orders == 0 .. MAX_ORDER - 1

VARIABLES
    max_pfn,    \* pages of the machine
    todo,       \* regions that pmm_init still has to hand over, then <<>>
    managed,    \* pages that the allocator was given
    free_area,  \* free_area[o]: first pages of the free blocks of order o
    page,       \* mem_map: flags, order and refcount of each page
    nfree,      \* nfree[z]: free_pages of zone z
    th,         \* th[t]: where thread t is in alloc_pages or free_pages
    owned       \* blocks given out: <<pfn, order, "user" or the slab cache>>

buddyVars == <<max_pfn, todo, managed, free_area, page, nfree, th, owned>>

pfn_zone(p) == IF p < PFN_4G THEN ZONE_DMA32 ELSE ZONE_NORMAL
StartPfn(z) == IF z = ZONE_DMA32 THEN 0 ELSE PFN_4G
EndPfn(z) == IF z = ZONE_DMA32 THEN MinOf(max_pfn, PFN_4G) ELSE MaxOf(max_pfn, PFN_4G)

Block(p, o) == p .. p + 2^o - 1
Base(p, o) == p - (p % 2^o)
BuddyOf(p, o) == IF (p \div 2^o) % 2 = 0 THEN p + 2^o ELSE p - 2^o

\* Nothing under way; "ret" is where the code that called alloc_pages goes on.
NoCall == [pc |-> "idle", order |-> 0, zone |-> 0, pfn |-> 0, ret |-> "user"]

-----------------------------------------------------------------------------
\* memblock_init, the reservations and the allocations of the start, pmm_init.
HandedOver(ram) ==
    LET cut == FoldLeft(LAMBDA rs, r : reserve(rs, r.base, r.end), ram, Reserved)
        b == memblock_base(cut, BootPages, Max(PagesIn(ram)) + 1)
    IN  reserve(cut, b, b + BootPages)

\* The start has memory enough, and the array of memblock room for all cuts: only what
\* is kept and BootPages are missing from what is handed over.
ASSUME StartAssumption ==
    /\ BootPages \in Nat
    /\ \A ram \in RamMaps :
          LET rest == HandedOver(ram)
              usable == PagesIn(ram) \ PagesIn(Reserved)
          IN  /\ {ram, rest} \subseteq Seq([base : Nat, end : Nat]) /\ PagesIn(ram) # {}
              /\ \A i \in DOMAIN rest : NotEmpty(rest[i])
              /\ \A i, j \in DOMAIN rest : i # j => PagesOf(rest[i]) \cap PagesOf(rest[j]) = {}
              /\ PagesIn(rest) \subseteq usable
              /\ Cardinality(usable) = Cardinality(PagesIn(rest)) + BootPages

BuddyInit ==
    \E ram \in RamMaps :
       /\ max_pfn = Max(PagesIn(ram)) + 1
       /\ todo = HandedOver(ram)
       /\ managed = {}
       /\ free_area = [o \in Orders |-> {}]
       /\ page = [p \in 0 .. Max(PagesIn(ram)) |->
                    [flags |-> {"RESERVED"}, order |-> 0, refcount |-> 0]]
       /\ nfree = [z \in Zones |-> 0]
       /\ th = [t \in Users |-> NoCall]
       /\ owned = {}

\* add_free and del_free: what they do to the descriptor of the block.
Listed(d, o) == [d EXCEPT !.flags = @ \cup {"BUDDY"}, !.order = o]
Unlisted(d) == [d EXCEPT !.flags = @ \ {"BUDDY"}]

\* buddy_free: as long as the buddy is in the zone, free and of the same order,
\* the two become one block of the next order.
Merges(z, p, k) ==
    LET b == BuddyOf(Base(p, k), k) IN
    /\ b >= StartPfn(z) /\ b + 2^k <= EndPfn(z)
    /\ "BUDDY" \in page[b].flags /\ page[b].order = k

\* A slip: two blocks are merged, and the larger one is not tried again.
MutMergedOrder(z, p, o) == IF o < MAX_ORDER - 1 /\ Merges(z, p, o) THEN o + 1 ELSE o

MergedOrder(z, p, o) ==
    Max({m \in o .. MAX_ORDER - 1 : \A k \in o .. m - 1 : Merges(z, p, k)})

\* pg is mem_map with the changes that the caller has made already.
buddy_free(z, p, o, pg) ==
    LET m == MergedOrder(z, p, o)
        gone == [k \in Orders |-> IF k \in o .. m - 1 THEN {BuddyOf(Base(p, k), k)} ELSE {}]
        head == Base(p, m)
    IN  /\ free_area' = [k \in Orders |->
                           (free_area[k] \ gone[k]) \cup (IF k = m THEN {head} ELSE {})]
        /\ page' = [q \in DOMAIN page |->
              CASE q = head -> Listed(pg[q], m)
                [] q # head /\ (\E k \in Orders : q \in gone[k]) -> Unlisted(pg[q])
                [] OTHER -> pg[q]]
        /\ nfree' = [nfree EXCEPT ![z] = @ + 2^o]

\* free_range: the largest aligned block at the start of the region and inside
\* the zone; then pmm_init goes on with the rest.
FreeOrder(r) ==
    LET end == MinOf(r.end, EndPfn(pfn_zone(r.base)))
    IN  Max({o \in Orders : o = 0 \/ (r.base % 2^o = 0 /\ r.base + 2^o <= end)})

FreeRange ==
    /\ todo # <<>>
    /\ LET r == Head(todo)
           o == FreeOrder(r)
           rest == Region(r.base + 2^o, r.end)
           bare == [q \in DOMAIN page |->
                      IF q \in Block(r.base, o) THEN [page[q] EXCEPT !.flags = @ \ {"RESERVED"}]
                      ELSE page[q]]
       IN  /\ buddy_free(pfn_zone(r.base), r.base, o, bare)
           /\ managed' = managed \cup Block(r.base, o)
           /\ todo' = (IF NotEmpty(rest) THEN <<rest>> ELSE <<>>) \o Tail(todo)
    /\ UNCHANGED <<max_pfn, th, owned>>

-----------------------------------------------------------------------------
\* alloc_pages(order, gfp): an ordinary request tries the upper zone first, one
\* with GFP_DMA32 the lower zone only.
BeginAlloc(t, o, z, ret) ==
    th' = [th EXCEPT ![t] = [pc |-> "alloc", order |-> o, zone |-> z, pfn |-> 0, ret |-> ret]]

alloc_pages(t, o, z) ==
    /\ todo = <<>>
    /\ th[t].pc = "idle"
    /\ BeginAlloc(t, o, z, "user")
    /\ UNCHANGED <<max_pfn, todo, managed, free_area, page, nfree, owned>>

InZone(z, S) == {p \in S : pfn_zone(p) = z}
Served(z, o) == {k \in o .. MAX_ORDER - 1 : InZone(z, free_area[k]) # {}}

\* Under the zone's lock, buddy_alloc: the smallest order that has a block.  It
\* is split; every upper half goes to the list of its order.
MutHalf(p, k) == p
Half(p, k) == p + 2^k
TakeBlock(t) ==
    /\ th[t].pc = "alloc"
    /\ LET z == th[t].zone
           o == th[t].order
           from == Min(Served(z, o))
       IN  /\ Served(z, o) # {}
           /\ \E p \in InZone(z, free_area[from]) :
                LET halves == {Half(p, k) : k \in o .. from - 1} IN
                /\ free_area' = [k \in Orders |->
                      (free_area[k] \ (IF k = from THEN {p} ELSE {}))
                         \cup (IF k \in o .. from - 1 THEN {Half(p, k)} ELSE {})]
                /\ page' = [q \in DOMAIN page |->
                      CASE q = p -> Unlisted(page[q])
                        [] q # p /\ q \in halves ->
                              Listed(page[q], CHOOSE k \in o .. from - 1 : Half(p, k) = q)
                        [] OTHER -> page[q]]
                /\ th' = [th EXCEPT ![t].pc = "taken", ![t].pfn = p]
           /\ nfree' = [nfree EXCEPT ![z] = @ - 2^o]
    /\ UNCHANGED <<max_pfn, todo, managed, owned>>

\* Nothing in this zone: the next one, or NULL.
NextZone(t) ==
    /\ th[t].pc = "alloc"
    /\ Served(th[t].zone, th[t].order) = {}
    /\ th' = [th EXCEPT ![t] = IF @.zone = ZONE_NORMAL THEN [@ EXCEPT !.zone = ZONE_DMA32]
                               ELSE [@ EXCEPT !.pc = "null"]]
    /\ UNCHANGED <<max_pfn, todo, managed, free_area, page, nfree, owned>>

\* The descriptor of the block, after the lock was released.
Descriptor(t) ==
    /\ th[t].pc = "taken"
    /\ page' = [page EXCEPT ![th[t].pfn] =
                  [flags |-> @.flags \cup {"HEAD"}, order |-> th[t].order, refcount |-> 1]]
    /\ th' = [th EXCEPT ![t].pc = "got"]
    /\ UNCHANGED <<max_pfn, todo, managed, free_area, nfree, owned>>

\* alloc_pages returns to a caller other than the slab allocator.
AllocReturns(t) ==
    /\ th[t].pc \in {"got", "null"} /\ th[t].ret = "user"
    /\ owned' = IF th[t].pc = "got" THEN owned \cup {<<th[t].pfn, th[t].order, "user">>} ELSE owned
    /\ th' = [th EXCEPT ![t] = NoCall]
    /\ UNCHANGED <<max_pfn, todo, managed, free_area, page, nfree>>

-----------------------------------------------------------------------------
\* get_page: another owner of an allocated page (a page that fork shares).
MAX_REFS == 2
get_page(b) ==
    /\ b[3] = "user"
    /\ page[b[1]].refcount < MAX_REFS
    /\ page' = [page EXCEPT ![b[1]].refcount = @ + 1]
    /\ UNCHANGED <<max_pfn, todo, managed, free_area, nfree, th, owned>>

\* put_page: the last one frees the block, with the order its descriptor has.
put_page(t, b) ==
    /\ th[t].pc = "idle" /\ b[3] = "user"
    /\ page' = [page EXCEPT ![b[1]].refcount = @ - 1]
    /\ IF page[b[1]].refcount = 1
       THEN /\ th' = [th EXCEPT ![t] = [NoCall EXCEPT !.pc = "free", !.pfn = b[1], !.order = page[b[1]].order]]
            /\ owned' = owned \ {b}
       ELSE UNCHANGED <<th, owned>>
    /\ UNCHANGED <<max_pfn, todo, managed, free_area, nfree>>

\* free_pages: its tests and the descriptor, without the lock ...
ClearDescriptor(t) ==
    /\ th[t].pc = "free"
    /\ page' = [page EXCEPT ![th[t].pfn].flags = @ \ {"HEAD", "SLAB"},
                            ![th[t].pfn].refcount = 0]
    /\ th' = [th EXCEPT ![t].pc = "return"]
    /\ UNCHANGED <<max_pfn, todo, managed, free_area, nfree, owned>>

\* ... and buddy_free with it.
ReturnBlock(t, ret) ==
    /\ th[t].pc = "return" /\ th[t].ret = ret
    /\ buddy_free(pfn_zone(th[t].pfn), th[t].pfn, th[t].order, page)
    /\ th' = [th EXCEPT ![t] = NoCall]
    /\ UNCHANGED <<max_pfn, todo, managed, owned>>

BuddyStep(t) ==
    \/ \E o \in Orders0, z \in Zones : alloc_pages(t, o, z)
    \/ TakeBlock(t) \/ NextZone(t) \/ Descriptor(t) \/ AllocReturns(t)
    \/ \E b \in owned : put_page(t, b)
    \/ ClearDescriptor(t) \/ ReturnBlock(t, "user")

BuddyNext ==
    \/ FreeRange
    \/ \E b \in owned : get_page(b)
    \/ \E t \in Users : BuddyStep(t)
-----------------------------------------------------------------------------
\* Blocks: the free ones, the ones given out, and the ones in a thread's hand.
FreeBlocks == {b \in (DOMAIN page) \X Orders : b[1] \in free_area[b[2]]}
Holds(t) == th[t].pc \in {"taken", "got", "free", "return"}
GivenOut == {<<b[1], b[2]>> : b \in owned} \cup {<<th[t].pfn, th[t].order>> : t \in {u \in Users : Holds(u)}}
Free(z) == UNION {Block(b[1], b[2]) : b \in {c \in FreeBlocks : pfn_zone(c[1]) = z}}

\* Every page the allocator was given is in exactly one block, free or given out
\* or in the hand of the one thread that works on it; the counts agree; and the
\* allocator is given all memory but what the start keeps.
PagesAccounted ==
    /\ \E ram \in RamMaps :
          LET usable == PagesIn(ram) \ PagesIn(Reserved)
              given == managed \cup PagesIn(todo)
          IN  /\ max_pfn = Max(PagesIn(ram)) + 1
              /\ given \subseteq usable
              /\ Cardinality(usable) = Cardinality(given) + BootPages
    /\ \A p \in DOMAIN page :
          Cardinality({b \in FreeBlocks : p \in Block(b[1], b[2])})
             + Cardinality({b \in GivenOut : p \in Block(b[1], b[2])})
          = (IF p \in managed THEN 1 ELSE 0)
    /\ \A z \in Zones : nfree[z] = Cardinality(Free(z))

\* No false "out of memory": whenever 2^o aligned pages of a zone are free, a
\* list of order o or more has a block with them, at the ends of a region and of
\* a zone and between two threads too.
FreeRunsFindable ==
    \A z \in Zones, o \in Orders, p \in DOMAIN page :
       p % 2^o = 0 /\ Block(p, o) \subseteq Free(z) =>
          \E b \in FreeBlocks : b[2] >= o /\ Block(p, o) \subseteq Block(b[1], b[2])
=============================================================================

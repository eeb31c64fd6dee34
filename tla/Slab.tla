-------------------------------- MODULE Slab --------------------------------
(***************************************************************************)
(* Object caches (mm/slab.c) on the buddy allocator.  A cache cuts blocks  *)
(* of pages into objects and keeps them in three lists; it asks for a      *)
(* block, and gives one back, with its own lock held.  kmalloc of more     *)
(* than KMALLOC_MAX bytes is alloc_pages itself (Buddy).                   *)
(*                                                                         *)
(* As in Buddy, lists are sets.  Poison and redzones are about callers     *)
(* that write where they may not, and are left out.                        *)
(***************************************************************************)
EXTENDS Buddy

CONSTANTS
    Caches,
    SLAB_ORDER,     \* order of a cache's blocks
    OBJS,           \* objs_per_slab
    Nobody          \* nobody has the lock

ASSUME SlabAssumption ==
    /\ SLAB_ORDER \in Orders /\ OBJS \in Nat \ {0}
    /\ "user" \notin Caches /\ Nobody \notin Users

VARIABLES
    cache,      \* cache[c]: partial, full and empty slabs, lock, and whether c exists
    freelist,   \* freelist[s]: free objects of the slab that starts at page s
    objs        \* objects that callers have: <<cache, slab, index>>

slabVars == <<cache, freelist, objs>>
memVars == <<buddyVars, slabVars>>

Objects == 0 .. OBJS - 1
NewCache == [partial |-> {}, full |-> {}, empty |-> {}, lock |-> Nobody, exists |-> TRUE]

SlabInit ==
    /\ BuddyInit
    /\ cache = [c \in Caches |-> NewCache]
    /\ freelist = [p \in DOMAIN page |-> {}]
    /\ objs = {}

Inuse(s) == OBJS - Cardinality(freelist[s])
Ready(t, c) == th[t].pc = "idle" /\ todo = <<>> /\ cache[c].exists /\ cache[c].lock = Nobody

\* One object less on the list of slab s, which is in partial (or becomes so): the
\* last one makes the slab full.
MutTaken(k, s, left) == [k EXCEPT !.partial = @ \cup {s}]
Taken(k, s, left) ==
    IF left = {} THEN [k EXCEPT !.partial = @ \ {s}, !.full = @ \cup {s}]
    ELSE [k EXCEPT !.partial = @ \cup {s}]

\* kmem_cache_alloc from a partial slab, or else from an empty one.
kmem_cache_alloc(t, c) ==
    /\ Ready(t, c)
    /\ \E s \in IF cache[c].partial # {} THEN cache[c].partial ELSE cache[c].empty :
       \E i \in freelist[s] :
          /\ freelist' = [freelist EXCEPT ![s] = @ \ {i}]
          /\ LET k == [cache[c] EXCEPT !.empty = @ \ {s}] IN
             cache' = [cache EXCEPT ![c] = Taken(k, s, freelist'[s])]
          /\ objs' = objs \cup {<<c, s, i>>}
    /\ UNCHANGED buddyVars

\* Neither: new_slab, alloc_pages with the cache's lock held ...
AllocSlab(t, c) ==
    /\ Ready(t, c)
    /\ cache[c].partial = {} /\ cache[c].empty = {}
    /\ cache' = [cache EXCEPT ![c].lock = t]
    /\ BeginAlloc(t, SLAB_ORDER, ZONE_NORMAL, c)
    /\ UNCHANGED <<max_pfn, todo, managed, free_area, page, nfree, owned, freelist, objs>>

MarkSlab(p, slab) ==
    [q \in DOMAIN page |->
       IF q \notin Block(p, SLAB_ORDER) THEN page[q]
       ELSE [page[q] EXCEPT !.flags = IF slab THEN @ \cup {"SLAB"} ELSE @ \ {"SLAB"}]]

\* ... its objects all free, and the first of them taken ...
NewSlab(t, c) ==
    /\ th[t].pc = "got" /\ th[t].ret = c
    /\ LET s == th[t].pfn IN
       /\ page' = MarkSlab(s, TRUE)
       /\ owned' = owned \cup {<<s, SLAB_ORDER, c>>}
       /\ freelist' = [freelist EXCEPT ![s] = Objects \ {0}]
       /\ cache' = [cache EXCEPT ![c] = [Taken(@, s, freelist'[s]) EXCEPT !.lock = Nobody]]
       /\ objs' = objs \cup {<<c, s, 0>>}
    /\ th' = [th EXCEPT ![t] = NoCall]
    /\ UNCHANGED <<max_pfn, todo, managed, free_area, nfree>>

\* ... or NULL.
NewSlabFails(t, c) ==
    /\ th[t].pc = "null" /\ th[t].ret = c
    /\ cache' = [cache EXCEPT ![c].lock = Nobody]
    /\ th' = [th EXCEPT ![t] = NoCall]
    /\ UNCHANGED <<max_pfn, todo, managed, free_area, page, nfree, owned, freelist, objs>>

-----------------------------------------------------------------------------
FreeSlabPages(t, c, s, ret) ==
    /\ page' = MarkSlab(s, FALSE)
    /\ owned' = owned \ {<<s, SLAB_ORDER, c>>}
    /\ th' = [th EXCEPT ![t] = [NoCall EXCEPT !.pc = "free", !.pfn = s, !.order = SLAB_ORDER, !.ret = ret]]
    /\ freelist' = [freelist EXCEPT ![s] = {}]

\* kmem_cache_free: a slab that was full is partial again; one without objects is
\* kept if it is the only one, and given back otherwise, under the cache's lock.
kmem_cache_free(t, c, s, i) ==
    /\ Ready(t, c)
    /\ objs' = objs \ {<<c, s, i>>}
    /\ LET k == [cache[c] EXCEPT !.full = @ \ {s}, !.partial = @ \cup {s}] IN
       \/ /\ Inuse(s) > 1
          /\ cache' = [cache EXCEPT ![c] = k]
          /\ freelist' = [freelist EXCEPT ![s] = @ \cup {i}]
          /\ UNCHANGED <<page, owned, th>>
       \/ /\ Inuse(s) = 1 /\ k.empty = {}
          /\ cache' = [cache EXCEPT ![c] = [k EXCEPT !.partial = @ \ {s}, !.empty = {s}]]
          /\ freelist' = [freelist EXCEPT ![s] = @ \cup {i}]
          /\ UNCHANGED <<page, owned, th>>
       \/ /\ Inuse(s) = 1 /\ k.empty # {}
          /\ cache' = [cache EXCEPT ![c] = [k EXCEPT !.partial = @ \ {s}, !.lock = t]]
          /\ FreeSlabPages(t, c, s, c)
    /\ UNCHANGED <<max_pfn, todo, managed, free_area, nfree>>

SlabReturned(t, c) ==
    /\ ReturnBlock(t, c)
    /\ cache' = [cache EXCEPT ![c].lock = Nobody]
    /\ UNCHANGED <<freelist, objs>>

\* kmem_cache_destroy, for a cache without objects (it panics otherwise): the
\* empty slabs go back.  There is at most one (ObjectsOnce).
kmem_cache_destroy(t, c) ==
    /\ Ready(t, c)
    /\ ~\E o \in objs : o[1] = c
    /\ cache' = [cache EXCEPT ![c] = [@ EXCEPT !.empty = {}, !.exists = FALSE]]
    /\ \/ \E s \in cache[c].empty : FreeSlabPages(t, c, s, "user")
       \/ cache[c].empty = {} /\ UNCHANGED <<page, owned, th, freelist>>
    /\ UNCHANGED <<max_pfn, todo, managed, free_area, nfree, objs>>

kmem_cache_create(c) ==
    /\ ~cache[c].exists
    /\ cache' = [cache EXCEPT ![c] = NewCache]
    /\ UNCHANGED <<buddyVars, freelist, objs>>

SlabNext ==
    \/ BuddyNext /\ UNCHANGED slabVars
    \/ \E c \in Caches :
          \/ kmem_cache_create(c)
          \/ \E t \in Users :
                \/ kmem_cache_alloc(t, c) \/ AllocSlab(t, c) \/ NewSlab(t, c) \/ NewSlabFails(t, c)
                \/ \E o \in objs : o[1] = c /\ kmem_cache_free(t, c, o[2], o[3])
                \/ SlabReturned(t, c)
                \/ kmem_cache_destroy(t, c)

SlabSpec == SlabInit /\ [][SlabNext]_memVars

-----------------------------------------------------------------------------
\* An object is free or given out, never both and never twice; a slab is in the
\* list its objects say, at most one is kept empty, and all its pages say that
\* they belong to a slab (kfree finds the cache by them).
ObjectsOnce ==
    \A c \in Caches :
       LET k == cache[c]
           slabs == {b[1] : b \in {x \in owned : x[3] = c}}
           given(s) == {o[3] : o \in {x \in objs : x[1] = c /\ x[2] = s}}
       IN  /\ k.partial \cup k.full \cup k.empty = slabs
           /\ Cardinality(k.empty) <= 1
           /\ \A s \in slabs :
                /\ given(s) \cap freelist[s] = {} /\ given(s) \cup freelist[s] = Objects
                /\ s \in k.full <=> freelist[s] = {}
                /\ s \in k.empty <=> freelist[s] = Objects
                /\ s \in k.partial => s \notin k.full \cup k.empty
                /\ \A p \in Block(s, SLAB_ORDER) : "SLAB" \in page[p].flags
=============================================================================

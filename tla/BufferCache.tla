---------------------------- MODULE BufferCache ----------------------------
(***************************************************************************)
(* The cache of disk blocks (fs/block.c, from "Buffer cache" on).  bget    *)
(* finds or makes the buffer of a block under the spinlock bcache_lock,    *)
(* which it gives up to allocate memory; bread then takes the buffer's     *)
(* own mutex and reads the disk if the buffer is not valid.                *)
(*                                                                         *)
(* A buffer's contents and a disk block's are version numbers.  A cached   *)
(* buffer is named by a number, which stands for its address: one that is  *)
(* freed comes back with a later kzalloc.  The same block read with two    *)
(* sizes is two buffers in the code; the file systems use one size for a   *)
(* block, so here a block has one size.                                    *)
(***************************************************************************)
EXTENDS Integers, Sequences, SequencesExt, FiniteSets, FiniteSetsExt

CONSTANTS
    Threads,
    Blocks,         \* blocks of the devices, <<number, size>>
    Bufs,           \* addresses kzalloc may return, natural numbers
    BCACHE_MAX,
    MaxWrites,      \* bound: writes in a behaviour
    MaxErrors,      \* bound: disk errors in a behaviour
    None

ASSUME CacheAssumption ==
    /\ IsFiniteSet(Threads)
    /\ Bufs \subseteq Nat
    /\ BCACHE_MAX \in Nat /\ MaxWrites \in Nat /\ MaxErrors \in Nat
    /\ None \notin Threads /\ None \notin Bufs /\ None \notin Blocks

VARIABLES
    lru,        \* the list, most recently used first
    buf,        \* buf[b]: what struct buf holds; lock is the thread in its mutex
    bcache_count,
    th,         \* th[t]: where thread t is, the block it wants, the buffer it has
    disk,       \* disk[k]: contents of block k
    writes, errors,
    failed      \* history: blocks whose last write failed

vars == <<lru, buf, bcache_count, th, disk, writes, errors, failed>>

Size(k) == k[2]
Idle == [pc |-> "idle", want |-> None, b |-> None]
Empty == [block |-> None, valid |-> FALSE, refcount |-> 0, lock |-> None, data |-> 0]
Cached == ToSet(lru)
\* Buffers that a thread in the middle of bget has in its hands and nobody else sees.
Private == {th[t].b : t \in {u \in Threads : th[u].pc = "insert"}}

Init ==
    /\ lru = <<>> /\ bcache_count = 0
    /\ buf = [b \in Bufs |-> Empty]
    /\ th = [t \in Threads |-> Idle]
    /\ disk = [k \in Blocks |-> 0]
    /\ writes = 0 /\ errors = 0 /\ failed = {}

Listed(k) == {b \in Cached : buf[b].block = k}
\* list_del, and list_add at the front after it.
ListDel(b) == RemoveAt(lru, CHOOSE i \in DOMAIN lru : lru[i] = b)
ToFront(b) == <<b>> \o ListDel(b)

\* The last member of S in the list (none if S is empty).
Oldest(S) == {lru[i] : i \in {j \in DOMAIN lru : lru[j] \in S /\ \A l \in j + 1 .. Len(lru) : lru[l] \notin S}}

\* When the cache is full, the last buffer of the list that nobody uses.
MutVictim == IF bcache_count >= BCACHE_MAX THEN Oldest(Cached) ELSE {}
Victim == IF bcache_count >= BCACHE_MAX THEN Oldest({b \in Cached : buf[b].refcount = 0}) ELSE {}

\* bget: the block is in the cache.
bget_hit(t, k) ==
    /\ th[t].pc = "idle"
    /\ \E b \in Listed(k) :
          /\ buf' = [buf EXCEPT ![b].refcount = @ + 1]
          /\ lru' = ToFront(b)
          /\ th' = [th EXCEPT ![t] = [pc |-> "lock", want |-> k, b |-> b]]
    /\ UNCHANGED <<bcache_count, disk, writes, errors, failed>>

\* bget: it is not, and the oldest free buffer has the right size.
Rekeyed(b, k) == [b EXCEPT !.block = k, !.refcount = 1, !.valid = FALSE]

bget_reuse(t, k) ==
    /\ th[t].pc = "idle" /\ Listed(k) = {}
    /\ \E b \in Victim :
          /\ Size(buf[b].block) = Size(k)
          /\ buf' = [buf EXCEPT ![b] = Rekeyed(@, k)]
          /\ lru' = ToFront(b)
          /\ th' = [th EXCEPT ![t] = [pc |-> "lock", want |-> k, b |-> b]]
    /\ UNCHANGED <<bcache_count, disk, writes, errors, failed>>

\* bget: the oldest free buffer has another size (it is taken out and freed), or there
\* is none: the lock is given up and memory is asked for.
bget_free(t, k) ==
    /\ th[t].pc = "idle" /\ Listed(k) = {}
    /\ \E b \in Victim :
          /\ Size(buf[b].block) # Size(k)
          /\ buf' = [buf EXCEPT ![b] = Empty]
          /\ lru' = ListDel(b)
    /\ bcache_count' = bcache_count - 1
    /\ th' = [th EXCEPT ![t] = [pc |-> "alloc", want |-> k, b |-> None]]
    /\ UNCHANGED <<disk, writes, errors, failed>>

bget_new(t, k) ==
    /\ th[t].pc = "idle" /\ Listed(k) = {} /\ Victim = {}
    /\ th' = [th EXCEPT ![t] = [pc |-> "alloc", want |-> k, b |-> None]]
    /\ UNCHANGED <<lru, buf, bcache_count, disk, writes, errors, failed>>

\* What kzalloc and the assignments after it make of the new buffer.
Fresh(k) == [block |-> k, valid |-> FALSE, refcount |-> 1, lock |-> None, data |-> 0]

Alloc(t) ==
    /\ th[t].pc = "alloc"
    /\ Bufs \ (Cached \cup Private) # {}
    /\ LET b == Min(Bufs \ (Cached \cup Private)) IN
          /\ buf' = [buf EXCEPT ![b] = Fresh(th[t].want)]
          /\ th' = [th EXCEPT ![t].pc = "insert", ![t].b = b]
    /\ UNCHANGED <<lru, bcache_count, disk, writes, errors, failed>>

AllocFails(t) ==
    /\ th[t].pc = "alloc"
    /\ th' = [th EXCEPT ![t] = Idle]
    /\ UNCHANGED <<lru, buf, bcache_count, disk, writes, errors, failed>>

\* With the lock again: somebody else may have put the block in meanwhile.
MutDup(k) == {}
Dup(k) == Listed(k)

Insert(t) ==
    /\ th[t].pc = "insert" /\ Dup(th[t].want) = {}
    /\ lru' = <<th[t].b>> \o lru
    /\ bcache_count' = bcache_count + 1
    /\ th' = [th EXCEPT ![t].pc = "lock"]
    /\ UNCHANGED <<buf, disk, writes, errors, failed>>

InsertDup(t) ==
    /\ th[t].pc = "insert"
    /\ \E dup \in Dup(th[t].want) :
          /\ buf' = [buf EXCEPT ![dup].refcount = @ + 1, ![th[t].b] = Empty]
          /\ th' = [th EXCEPT ![t].pc = "lock", ![t].b = dup]
    /\ UNCHANGED <<lru, bcache_count, disk, writes, errors, failed>>

\* bread: the mutex, then the disk if the buffer is not valid.
Lock(t) ==
    /\ th[t].pc = "lock" /\ buf[th[t].b].lock = None
    /\ buf' = [buf EXCEPT ![th[t].b].lock = t]
    /\ th' = [th EXCEPT ![t].pc = IF buf[th[t].b].valid THEN "have" ELSE "read"]
    /\ UNCHANGED <<lru, bcache_count, disk, writes, errors, failed>>

blk_read(t) ==
    /\ th[t].pc = "read"
    /\ buf' = [buf EXCEPT ![th[t].b].valid = TRUE, ![th[t].b].data = disk[buf[th[t].b].block]]
    /\ th' = [th EXCEPT ![t].pc = "have"]
    /\ UNCHANGED <<lru, bcache_count, disk, writes, errors, failed>>

\* blk_read fails: brelse, and bread returns NULL.
ReadFails(t) ==
    /\ th[t].pc = "read" /\ errors < MaxErrors
    /\ errors' = errors + 1
    /\ buf' = [buf EXCEPT ![th[t].b].lock = None]
    /\ th' = [th EXCEPT ![t].pc = "put"]
    /\ UNCHANGED <<lru, bcache_count, disk, writes, failed>>

\* The caller changes the buffer, which it does in memory, and then calls bwrite.
Modify(t) ==
    /\ th[t].pc = "have" /\ writes < MaxWrites
    /\ writes' = writes + 1
    /\ buf' = [buf EXCEPT ![th[t].b].data = writes + 1]
    /\ th' = [th EXCEPT ![t].pc = "write"]
    /\ UNCHANGED <<lru, bcache_count, disk, errors, failed>>

bwrite(t) ==
    /\ th[t].pc = "write"
    /\ disk' = [disk EXCEPT ![buf[th[t].b].block] = buf[th[t].b].data]
    /\ failed' = failed \ {th[t].want}
    /\ th' = [th EXCEPT ![t].pc = "have"]
    /\ UNCHANGED <<lru, buf, bcache_count, writes, errors>>

WriteFails(t) ==
    /\ th[t].pc = "write" /\ errors < MaxErrors
    /\ errors' = errors + 1
    /\ failed' = failed \cup {th[t].want}
    /\ th' = [th EXCEPT ![t].pc = "have"]
    /\ UNCHANGED <<lru, buf, bcache_count, disk, writes>>

\* brelse: the mutex first, the count under bcache_lock after it.
brelse(t) ==
    /\ th[t].pc = "have"
    /\ buf' = [buf EXCEPT ![th[t].b].lock = None]
    /\ th' = [th EXCEPT ![t].pc = "put"]
    /\ UNCHANGED <<lru, bcache_count, disk, writes, errors, failed>>

Put(t) ==
    /\ th[t].pc = "put"
    /\ buf' = [buf EXCEPT ![th[t].b].refcount = @ - 1]
    /\ th' = [th EXCEPT ![t] = Idle]
    /\ UNCHANGED <<lru, bcache_count, disk, writes, errors, failed>>

\* Declared in block.h for a device that changes under the cache; nothing calls it yet.
bcache_invalidate ==
    /\ \E b \in Cached : buf[b].refcount = 0 /\ buf[b].valid
    /\ buf' = [b \in Bufs |-> IF b \in Cached /\ buf[b].refcount = 0
                              THEN [buf[b] EXCEPT !.valid = FALSE] ELSE buf[b]]
    /\ UNCHANGED <<lru, bcache_count, th, disk, writes, errors, failed>>

Next ==
    \/ \E t \in Threads, k \in Blocks :
          bget_hit(t, k) \/ bget_reuse(t, k) \/ bget_free(t, k) \/ bget_new(t, k)
    \/ \E t \in Threads :
          \/ Alloc(t) \/ AllocFails(t) \/ Insert(t) \/ InsertDup(t)
          \/ Lock(t) \/ blk_read(t) \/ ReadFails(t)
          \/ Modify(t) \/ bwrite(t) \/ WriteFails(t) \/ brelse(t) \/ Put(t)
    \/ bcache_invalidate

Spec == Init /\ [][Next]_vars

-----------------------------------------------------------------------------
BufType == [block : Blocks \cup {None}, valid : BOOLEAN, refcount : Int,
            lock : Threads \cup {None}, data : Nat]
ThreadType == [pc : {"idle", "alloc", "insert", "lock", "read", "have", "write", "put"},
               want : Blocks \cup {None}, b : Bufs \cup {None}]
TypeOK ==
    /\ lru \in Seq(Bufs)
    /\ buf \in [Bufs -> BufType]
    /\ th \in [Threads -> ThreadType]
    /\ disk \in [Blocks -> Nat]
    /\ bcache_count \in Int /\ writes \in Nat /\ errors \in Nat
    /\ failed \subseteq Blocks

Holders(b) == {t \in Threads : th[t].b = b /\ th[t].pc \in {"lock", "read", "have", "write", "put"}}

\* A buffer that bget returned stays in the cache, and stays the buffer of the block
\* asked for, until brelse has counted the caller out; refcount is the number of them.
HeldBufferKept ==
    /\ \A b \in Cached : buf[b].refcount = Cardinality(Holders(b))
    /\ \A t \in Threads : th[t].pc \in {"lock", "read", "have", "write", "put"} =>
          th[t].b \in Cached /\ buf[th[t].b].block = th[t].want

\* What a reader may use without going to the disk is what the disk has (the cache is
\* write-through), unless the last bwrite of that block failed.
CacheCoherent ==
    \A b \in Cached : buf[b].valid /\ buf[b].lock = None =>
       buf[b].data = disk[buf[b].block] \/ buf[b].block \in failed

\* Why the two hold, as an inductive invariant.  A buffer is in the list once and no
\* block has two; who is about to insert a buffer has it for himself; the mutex of a
\* buffer is held by the thread that reads or changes it; and what a thread can release
\* is valid and agrees with the disk.
Using(t) == th[t].pc \in {"lock", "read", "have", "write", "put"}
Inside(t) == th[t].pc \in {"read", "have", "write"}
Agrees(b) == buf[b].data = disk[buf[b].block] \/ buf[b].block \in failed
ListInv ==
    /\ \A i, j \in DOMAIN lru : lru[i] = lru[j] => i = j
    /\ \A b \in Cached : buf[b].block \in Blocks
    /\ \A b, c \in Cached : buf[b].block = buf[c].block => b = c
AllocInv ==
    /\ \A t \in Threads : th[t].pc \in {"alloc", "insert"} => th[t].want \in Blocks
    /\ \A t \in Threads : th[t].pc = "insert" =>
          /\ th[t].b \in Bufs \ Cached
          /\ buf[th[t].b] = Fresh(th[t].want)
    /\ \A t, u \in Threads :
          th[t].pc = "insert" /\ th[u].pc = "insert" /\ th[t].b = th[u].b => t = u
MutexInv ==
    \A b \in Cached, t \in Threads : buf[b].lock = t <=> th[t].b = b /\ Inside(t)
DataInv ==
    \A t \in Threads :
       /\ th[t].pc = "read" => ~buf[th[t].b].valid
       /\ th[t].pc \in {"have", "write"} => buf[th[t].b].valid
       /\ th[t].pc = "have" => Agrees(th[t].b)
IInv ==
    /\ TypeOK /\ ListInv /\ AllocInv /\ MutexInv
    /\ HeldBufferKept /\ DataInv /\ CacheCoherent
=============================================================================

-------------------------------- MODULE Ext2 --------------------------------
(***************************************************************************)
(* The ext2 file system (fs/ext2.c): what is on the disk, the cache of     *)
(* inodes, and the steps of which the operations of Vfs are made.  Every   *)
(* step ends at one bwrite or at one lock, so that between two steps other *)
(* threads run, and the machine may lose power: the disk is always what    *)
(* the variables d... say (the buffer cache is write-through).             *)
(*                                                                         *)
(* A thread's work is th[t].todo, a sequence of steps: a step is a tuple   *)
(* whose first member names the action that performs it.  A C function     *)
(* that calls others is a step that puts their steps in its place.         *)
(* Registers hold pointers to struct inode; each one stands for one        *)
(* reference.  An error (the disk is full, no such name, ...) skips to the *)
(* next "mark", where the code's cleanup starts.                           *)
(*                                                                         *)
(* One block group; sizes are counted in blocks; NDIR is 1 and there is    *)
(* one level of indirect blocks.  A directory block holds at most ENTS     *)
(* names.  The free counters, times and owners are left out, and so are    *)
(* errors of the disk and of kmalloc.                                      *)
(***************************************************************************)
EXTENDS Integers, Sequences, SequencesExt, FiniteSets, FiniteSetsExt

CONSTANTS
    Threads,
    NI, NB,         \* inodes and blocks of the disk
    NA,             \* addresses for struct inode
    APB,            \* pointers in an indirect block
    ENTS            \* names in a directory block

VARIABLES
    dino, dblk,     \* the disk: inodes and blocks
    ibm, bbm,       \* the disk: inodes and blocks that the bitmaps mark as used
    mem, icache,    \* struct inode by address (ino = 0: free); addresses in the cache
    lk, rename_lock,    \* thread that has an inode's lock, the file system's; 0: none
    th,             \* th[t]: todo, registers r, err, block or inode number found x
    refreed,        \* a block was freed that was free: the code prints a warning
    lost            \* history: a directory was removed that is not, or does not stay, empty

diskVars == <<dino, dblk, ibm, bbm, refreed, lost>>
memVars == <<mem, icache>>
lockVars == <<lk, rename_lock>>
ext2Vars == <<diskVars, memVars, lockVars, th>>

Root == 1
Addrs == 1 .. NA
ZeroInode == [mode |-> "none", nlink |-> 0, size |-> 0, ptr |-> <<0, 0>>]
ZeroBlock == [ents |-> <<>>, ptrs |-> [k \in 1 .. APB |-> 0]]
NoInode == [ino |-> 0, ref |-> 0] @@ ZeroInode
Regs == {"d", "e", "i", "j", "k", "f"}
Idle == [todo |-> <<>>, r |-> [g \in Regs |-> 0], err |-> FALSE, x |-> 0]

-----------------------------------------------------------------------------
(* Running a thread's steps *)

At(t, step) == th[t].todo # <<>> /\ Head(th[t].todo)[1] = step
Arg(t, n) == Head(th[t].todo)[n + 1]
R(t, g) == th[t].r[g]
In(t, g) == mem[R(t, g)]

Then(t, steps) == [th EXCEPT ![t].todo = steps \o Tail(@)]
AfterMark(s) == SubSeq(s, 1 + Min({n \in DOMAIN s : s[n][1] = "mark"}), Len(s))
Fails(t, steps) == [th EXCEPT ![t].todo = steps \o AfterMark(@), ![t].err = TRUE]

\* Steps that only their thread sees: control, and what the locks it has protect.
Local == {"mark", "ok", "iferr", "check", "move", "lookup", "bmap", "set_slot", "dir_add", "trunc", "nlink",
          "isempty", "is_ancestor"}

mark(t) == At(t, "mark") /\ th' = Then(t, <<>>) /\ UNCHANGED <<diskVars, memVars, lockVars>>

\* The steps of an IF: on success, after an error.
ok(t) ==
    /\ At(t, "ok")
    /\ th' = Then(t, IF th[t].err THEN <<>> ELSE Arg(t, 1))
    /\ UNCHANGED <<diskVars, memVars, lockVars>>

iferr(t) ==
    /\ At(t, "iferr")
    /\ th' = Then(t, IF th[t].err THEN Arg(t, 1) ELSE <<>>)
    /\ UNCHANGED <<diskVars, memVars, lockVars>>

move(t) ==
    /\ At(t, "move")
    /\ th' = [Then(t, <<>>) EXCEPT ![t].r[Arg(t, 2)] = R(t, Arg(t, 1)), ![t].r[Arg(t, 1)] = 0]
    /\ UNCHANGED <<diskVars, memVars, lockVars>>

\* The lock of an inode, and the file system's lock for renames.
lock(t) ==
    /\ At(t, "lock") /\ lk[R(t, Arg(t, 1))] = 0
    /\ lk' = [lk EXCEPT ![R(t, Arg(t, 1))] = t]
    /\ th' = Then(t, <<>>)
    /\ UNCHANGED <<diskVars, memVars, rename_lock>>

unlock(t) ==
    /\ At(t, "unlock")
    /\ lk' = [lk EXCEPT ![R(t, Arg(t, 1))] = 0]
    /\ th' = Then(t, <<>>)
    /\ UNCHANGED <<diskVars, memVars, rename_lock>>

lock_rename(t) ==
    /\ At(t, "lock_rename") /\ rename_lock = 0
    /\ rename_lock' = t
    /\ th' = Then(t, <<>>)
    /\ UNCHANGED <<diskVars, memVars, lk>>

unlock_rename(t) ==
    /\ At(t, "unlock_rename")
    /\ rename_lock' = 0
    /\ th' = Then(t, <<>>)
    /\ UNCHANGED <<diskVars, memVars, lk>>

-----------------------------------------------------------------------------
(* Blocks and inodes: the bitmaps *)

\* find_zero_bit: from start on, then from the beginning.
find_zero_bit(used, n, start) ==
    LET free == (1 .. n) \ used
        high == {b \in free : b >= start}
    IN  IF free = {} THEN 0 ELSE IF high # {} THEN Min(high) ELSE Min(free)

\* alloc_block for a slot of the inode, or for one of its indirect block: the block is
\* marked as used and then filled with zeros.  "hung": an indirect block was just hung
\* into the inode, which bmap writes even if there is no second block for it.
alloc_block(t) ==
    /\ At(t, "alloc_block")
    /\ LET g == Arg(t, 1)
           hung == Arg(t, 3)
           b == find_zero_bit(bbm, NB, IF Arg(t, 2) = "child" THEN In(t, g).ptr[2] + 1 ELSE 1)
       IN  IF b # 0
           THEN /\ bbm' = bbm \cup {b}
                /\ th' = [Then(t, <<>>) EXCEPT ![t].x = b]
           ELSE /\ bbm' = bbm
                /\ th' = Fails(t, IF hung THEN <<<<"write_inode", g>>>> ELSE <<>>)
    /\ UNCHANGED <<dino, dblk, ibm, refreed, lost, memVars, lockVars>>

zero_block(t) ==
    /\ At(t, "zero_block")
    /\ dblk' = [dblk EXCEPT ![th[t].x] = ZeroBlock]
    /\ th' = Then(t, <<>>)
    /\ UNCHANGED <<dino, ibm, bbm, refreed, lost, memVars, lockVars>>

free_block(t) ==
    /\ At(t, "free_block")
    /\ bbm' = bbm \ {Arg(t, 1)}
    /\ refreed' = (refreed \/ Arg(t, 1) \notin bbm)
    /\ th' = Then(t, <<>>)
    /\ UNCHANGED <<dino, dblk, ibm, lost, memVars, lockVars>>

\* new_inode: alloc_inode_nr, zeros on the disk, ext2_iget, then the fields.  The root
\* and the reserved inodes are used from the start.
alloc_inode_nr(t) ==
    /\ At(t, "alloc_inode_nr")
    /\ LET i == find_zero_bit(ibm, NI, 1) IN
          IF i # 0
          THEN /\ ibm' = ibm \cup {i}
               /\ th' = Then(t, <<<<"zero_inode", i>>, <<"iget", i, Arg(t, 1)>>,
                                  <<"init_inode", Arg(t, 1), Arg(t, 2)>>>>)
          ELSE ibm' = ibm /\ th' = Fails(t, <<>>)
    /\ UNCHANGED <<dino, dblk, bbm, refreed, lost, memVars, lockVars>>

zero_inode(t) ==
    /\ At(t, "zero_inode")
    /\ dino' = [dino EXCEPT ![Arg(t, 1)] = ZeroInode]
    /\ th' = Then(t, <<>>)
    /\ UNCHANGED <<dblk, ibm, bbm, refreed, lost, memVars, lockVars>>

Disk(in) == [mode |-> in.mode, nlink |-> in.nlink, size |-> in.size, ptr |-> in.ptr]

init_inode(t) ==
    /\ At(t, "init_inode")
    /\ mem' = [mem EXCEPT ![R(t, Arg(t, 1))].mode = Arg(t, 2), ![R(t, Arg(t, 1))].nlink = 1]
    /\ dino' = [dino EXCEPT ![In(t, Arg(t, 1)).ino] = Disk(mem'[R(t, Arg(t, 1))])]
    /\ th' = Then(t, <<>>)
    /\ UNCHANGED <<dblk, ibm, bbm, refreed, lost, icache, lockVars>>

free_inode_nr(t) ==
    /\ At(t, "free_inode_nr")
    /\ ibm' = ibm \ {Arg(t, 1)}
    /\ th' = Then(t, <<>>)
    /\ UNCHANGED <<dino, dblk, bbm, refreed, lost, memVars, lockVars>>

write_inode(t) ==
    /\ At(t, "write_inode")
    /\ dino' = [dino EXCEPT ![In(t, Arg(t, 1)).ino] = Disk(In(t, Arg(t, 1)))]
    /\ th' = Then(t, <<>>)
    /\ UNCHANGED <<dblk, ibm, bbm, refreed, lost, memVars, lockVars>>

-----------------------------------------------------------------------------
(* The inode cache *)

\* icache_find with get_unless_zero: an inode without references is on its way out.
Cached(ino) == {a \in icache : mem[a].ino = ino /\ mem[a].ref > 0}

\* ext2_iget(ino) into a register: in the cache, or else from the disk ...
iget(t) ==
    /\ At(t, "iget")
    /\ IF Cached(Arg(t, 1)) # {}
       THEN LET a == CHOOSE a \in Cached(Arg(t, 1)) : TRUE IN
            /\ mem' = [mem EXCEPT ![a].ref = @ + 1]
            /\ th' = [Then(t, <<>>) EXCEPT ![t].r[Arg(t, 2)] = a]
       ELSE /\ mem' = mem
            /\ th' = Then(t, <<<<"load", Arg(t, 1), Arg(t, 2)>>, <<"publish", Arg(t, 2)>>>>)
    /\ UNCHANGED <<diskVars, icache, lockVars>>

load(t) ==
    /\ At(t, "load")
    /\ LET a == Min({b \in Addrs : mem[b].ino = 0}) IN
          /\ mem' = [mem EXCEPT ![a] = [ino |-> Arg(t, 1), ref |-> 1] @@ dino[Arg(t, 1)]]
          /\ th' = [Then(t, <<>>) EXCEPT ![t].r[Arg(t, 2)] = a]
    /\ UNCHANGED <<diskVars, icache, lockVars>>

\* ... unless another thread has loaded it meanwhile.
MutOther(ino) == {}
Other(ino) == Cached(ino)

publish(t) ==
    /\ At(t, "publish")
    /\ LET a == R(t, Arg(t, 1))
           other == Other(mem[a].ino)
       IN  IF other = {}
           THEN /\ icache' = icache \cup {a}
                /\ mem' = mem
                /\ th' = Then(t, <<>>)
           ELSE LET o == CHOOSE b \in other : TRUE IN
                /\ icache' = icache
                /\ mem' = [mem EXCEPT ![o].ref = @ + 1, ![a] = NoInode]
                /\ th' = [Then(t, <<>>) EXCEPT ![t].r[Arg(t, 1)] = o]
    /\ UNCHANGED <<diskVars, lockVars>>

\* iput, of a register that may hold NULL.  The last reference: ext2_free_inode.
iput(t) ==
    /\ At(t, "iput")
    /\ LET g == Arg(t, 1)
           a == R(t, g)
       IN  IF a = 0 THEN mem' = mem /\ th' = Then(t, <<>>)
           ELSE /\ mem' = [mem EXCEPT ![a].ref = @ - 1]
                /\ th' = IF mem[a].ref > 1 THEN [Then(t, <<>>) EXCEPT ![t].r[g] = 0]
                         ELSE Then(t, <<<<"free_inode", g>>>>)
    /\ UNCHANGED <<diskVars, icache, lockVars>>

\* The inode leaves the cache; if it has no name any more it leaves the disk too.
Delete(g, ino) == <<<<"lock", g>>, <<"trunc", g, 0>>, <<"write_inode", g>>, <<"unlock", g>>, <<"free_inode_nr", ino>>>>

free_inode(t) ==
    /\ At(t, "free_inode")
    /\ LET g == Arg(t, 1) IN
          /\ icache' = icache \ {R(t, g)}
          /\ th' = Then(t, (IF In(t, g).nlink = 0 THEN Delete(g, In(t, g).ino) ELSE <<>>) \o <<<<"kfree", g>>>>)
    /\ UNCHANGED <<diskVars, mem, lockVars>>

kfree(t) ==
    /\ At(t, "kfree")
    /\ mem' = [mem EXCEPT ![R(t, Arg(t, 1))] = NoInode]
    /\ th' = [Then(t, <<>>) EXCEPT ![t].r[Arg(t, 1)] = 0]
    /\ UNCHANGED <<diskVars, icache, lockVars>>

-----------------------------------------------------------------------------
(* Files: which blocks *)

\* block_path and bmap without allocation: block fb of a file, 0 for a hole.
Block(ptr, fb) == IF fb = 0 THEN ptr[1] ELSE IF ptr[2] = 0 THEN 0 ELSE dblk[ptr[2]].ptrs[fb]

\* bmap with allocation.  Direct: the block goes into the inode.  Indirect: the
\* indirect block does, if there is none, and the block goes into the indirect one.
bmap(t) ==
    /\ At(t, "bmap")
    /\ LET g == Arg(t, 1)
           fb == Arg(t, 2)
           p == In(t, g).ptr
           slot(n) == <<<<"alloc_block", g, "slot", FALSE>>, <<"zero_block">>, <<"set_slot", g, n>>>>
           child == <<<<"alloc_block", g, "child", p[2] = 0>>, <<"zero_block">>, <<"set_child", g, fb>>>>
       IN  th' = IF fb > APB THEN Fails(t, <<>>)
                 ELSE Then(t, CASE Block(p, fb) # 0 -> <<>>
                                [] fb = 0 -> Append(slot(1), <<"write_inode", g>>)
                                [] fb > 0 /\ Block(p, fb) = 0 ->
                                      (IF p[2] = 0 THEN slot(2) ELSE <<>>) \o Append(child, <<"write_inode", g>>))
    /\ UNCHANGED <<diskVars, memVars, lockVars>>

set_slot(t) ==
    /\ At(t, "set_slot")
    /\ mem' = [mem EXCEPT ![R(t, Arg(t, 1))].ptr[Arg(t, 2)] = th[t].x]
    /\ th' = Then(t, <<>>)
    /\ UNCHANGED <<diskVars, icache, lockVars>>

set_child(t) ==
    /\ At(t, "set_child")
    /\ dblk' = [dblk EXCEPT ![In(t, Arg(t, 1)).ptr[2]].ptrs[Arg(t, 2)] = th[t].x]
    /\ th' = Then(t, <<>>)
    /\ UNCHANGED <<dino, ibm, bbm, refreed, lost, memVars, lockVars>>

\* The end of a write and of dir_add: block fb is there, the size follows.
grow(t) ==
    /\ At(t, "grow")
    /\ LET a == R(t, Arg(t, 1)) IN
          /\ mem' = [mem EXCEPT ![a].size = Max({@, Arg(t, 2) + 1})]
          /\ dino' = [dino EXCEPT ![mem[a].ino] = Disk(mem'[a])]
    /\ th' = Then(t, <<>>)
    /\ UNCHANGED <<dblk, ibm, bbm, refreed, lost, icache, lockVars>>

\* ext2_write of one block at offset off, which file_write took from the inode's size
\* before the inode was locked.  What is written is not modelled.
ext2_write(g, off) == <<<<"lock", g>>, <<"bmap", g, off>>, <<"grow", g, off>>, <<"mark">>, <<"unlock", g>>>>

append(t) ==
    /\ At(t, "append")
    /\ th' = Then(t, ext2_write("f", In(t, "f").size))
    /\ UNCHANGED <<diskVars, memVars, lockVars>>

\* ext2_truncate to n blocks: trunc_tree and free_tree free what is past them, an
\* indirect block after its children; what stays of it is written back.  Only then are
\* the pointers in the inode cleared, and written.
Children(b) == IF b = 0 THEN <<>> ELSE SelectSeq(dblk[b].ptrs, LAMBDA c : c # 0)
FreeAll(bs) == [n \in DOMAIN bs |-> <<"free_block", bs[n]>>]
Cut(p, n) == FreeAll(IF n = 0 /\ p[1] # 0 THEN <<p[1]>> ELSE <<>>)
    \o (IF n <= 1 /\ p[2] # 0 THEN FreeAll(Append(Children(p[2]), p[2])) ELSE <<>>)

trunc(t) ==
    /\ At(t, "trunc")
    /\ LET g == Arg(t, 1)
           n == Arg(t, 2)
           p == In(t, g).ptr
           past == IF p[2] = 0 THEN <<>>
                   ELSE SelectSeq(SubSeq(dblk[p[2]].ptrs, n, APB), LAMBDA c : c # 0)
       IN  th' = Then(t,
             CASE n >= In(t, g).size -> <<<<"truncated", g, n>>>>
               [] n < In(t, g).size /\ n <= 1 -> Append(Cut(p, n), <<"truncated", g, n>>)
               [] n < In(t, g).size /\ n > 1 ->
                     FreeAll(past) \o <<<<"cut_children", g, n>>, <<"truncated", g, n>>>>)
    /\ UNCHANGED <<diskVars, memVars, lockVars>>

cut_children(t) ==
    /\ At(t, "cut_children")
    /\ LET ind == In(t, Arg(t, 1)).ptr[2] IN
          dblk' = IF ind = 0 THEN dblk
                  ELSE [dblk EXCEPT ![ind].ptrs = [k \in 1 .. APB |-> IF k >= Arg(t, 2) THEN 0 ELSE @[k]]]
    /\ th' = Then(t, <<>>)
    /\ UNCHANGED <<dino, ibm, bbm, refreed, lost, memVars, lockVars>>

MutKept(in, n) == [in EXCEPT !.size = n]
Kept(in, n) ==
    IF n >= in.size THEN [in EXCEPT !.size = n]
    ELSE [in EXCEPT !.size = n, !.ptr = <<IF n = 0 THEN 0 ELSE @[1], IF n <= 1 THEN 0 ELSE @[2]>>]

truncated(t) ==
    /\ At(t, "truncated")
    /\ LET a == R(t, Arg(t, 1)) IN
          /\ mem' = [mem EXCEPT ![a] = Kept(@, Arg(t, 2))]
          /\ dino' = [dino EXCEPT ![mem[a].ino] = Disk(mem'[a])]
    /\ th' = Then(t, <<>>)
    /\ UNCHANGED <<dblk, ibm, bbm, refreed, lost, icache, lockVars>>

-----------------------------------------------------------------------------
(* Directories *)

\* The blocks of a directory, and the entries in them (dir_iterate stops at the size).
DirBlocks(in) == SelectSeq([n \in 1 .. in.size |-> Block(in.ptr, n - 1)], LAMBDA b : b # 0)
Entries(in) == UNION {{<<n, dblk[b].ents[n]>> : n \in DOMAIN dblk[b].ents} : b \in ToSet(DirBlocks(in))}
dir_find(in, name) == LET e == {x \in Entries(in) : x[1] = name} IN IF e = {} THEN 0 ELSE (CHOOSE x \in e : TRUE)[2]
dir_is_empty(in) == \A x \in Entries(in) : x[1] \in {".", ".."}

\* ext2_lookup of a name in the directory in a register.
lookup(t) ==
    /\ At(t, "lookup")
    /\ LET ino == dir_find(In(t, Arg(t, 1)), Arg(t, 2)) IN
          th' = Then(t, IF ino = 0 THEN <<>> ELSE <<<<"iget", ino, Arg(t, 3)>>>>)
    /\ UNCHANGED <<diskVars, memVars, lockVars>>

\* dir_add: into a block that has room (add_visit), or else into a new one.
dir_add(t) ==
    /\ At(t, "dir_add")
    /\ LET g == Arg(t, 1)
           room == SelectSeq(DirBlocks(In(t, g)), LAMBDA b : Cardinality(DOMAIN dblk[b].ents) < ENTS)
           end == In(t, g).size
       IN  th' = Then(t, IF room # <<>> THEN <<<<"add_entry", g, Arg(t, 2), Arg(t, 3), room[1]>>>>
                         ELSE <<<<"bmap", g, end>>, <<"add_entry", g, Arg(t, 2), Arg(t, 3), 0>>, <<"grow", g, end>>>>)
    /\ UNCHANGED <<diskVars, memVars, lockVars>>

add_entry(t) ==
    /\ At(t, "add_entry")
    /\ LET dir == In(t, Arg(t, 1))
           b == IF Arg(t, 4) = 0 THEN Block(dir.ptr, dir.size) ELSE Arg(t, 4)
       IN  /\ dblk' = [dblk EXCEPT ![b].ents = (Arg(t, 2) :> In(t, Arg(t, 3)).ino) @@ @]
           /\ lost' = (lost \/ dir.nlink = 0)
    /\ th' = Then(t, <<>>)
    /\ UNCHANGED <<dino, ibm, bbm, refreed, memVars, lockVars>>

\* dir_remove: the entry, then the directory's times.
dir_remove(t) ==
    /\ At(t, "dir_remove")
    /\ LET name == Arg(t, 2) IN
          dblk' = [b \in DOMAIN dblk |->
                     IF b \in ToSet(DirBlocks(In(t, Arg(t, 1))))
                     THEN [dblk[b] EXCEPT !.ents = [n \in DOMAIN @ \ {name} |-> @[n]]] ELSE dblk[b]]
    /\ th' = Then(t, <<<<"write_inode", Arg(t, 1)>>>>)
    /\ UNCHANGED <<dino, ibm, bbm, refreed, lost, memVars, lockVars>>

\* A count of names changes in memory, by n or to 0; write_inode follows in most callers.
nlink(t) ==
    /\ At(t, "nlink")
    /\ LET a == R(t, Arg(t, 1)) IN
          /\ mem' = [mem EXCEPT ![a].nlink = IF Arg(t, 2) = 0 THEN 0 ELSE @ + Arg(t, 2)]
          /\ lost' = (lost \/ (Arg(t, 2) = 0 /\ mem[a].mode = "dir" /\ ~dir_is_empty(mem[a])))
    /\ th' = Then(t, <<>>)
    /\ UNCHANGED <<dino, dblk, ibm, bbm, refreed, icache, lockVars>>

\* ext2_mkdir: the first block of a new directory; ext2_rename: its parent is another.
put_dots(t) ==
    /\ At(t, "put_dots")
    /\ LET in == In(t, Arg(t, 1)) IN
          dblk' = [dblk EXCEPT ![Block(in.ptr, 0)].ents = "." :> in.ino @@ ".." :> In(t, Arg(t, 2)).ino]
    /\ th' = Then(t, <<>>)
    /\ UNCHANGED <<dino, ibm, bbm, refreed, lost, memVars, lockVars>>

put_dotdot(t) ==
    /\ At(t, "put_dotdot")
    /\ dblk' = [dblk EXCEPT ![Block(In(t, Arg(t, 1)).ptr, 0)].ents[".."] = In(t, Arg(t, 2)).ino]
    /\ th' = Then(t, <<>>)
    /\ UNCHANGED <<dino, ibm, bbm, refreed, lost, memVars, lockVars>>

\* What an operation finds out before it goes on; x: the directory is empty.
isempty(t) ==
    /\ At(t, "isempty")
    /\ th' = [Then(t, <<>>) EXCEPT ![t].x = IF dir_is_empty(In(t, Arg(t, 1))) THEN 1 ELSE 0]
    /\ UNCHANGED <<diskVars, memVars, lockVars>>

Holds(t, what, g) ==
    CASE what = "found" -> R(t, g) # 0
      [] what = "absent" -> R(t, g) = 0
      [] what = "dir" -> In(t, g).mode = "dir"
      [] what = "file" -> In(t, g).mode = "file"
      [] what = "empty" -> th[t].x = 1

check(t) ==
    /\ At(t, "check")
    /\ th' = IF Holds(t, Arg(t, 1), Arg(t, 2)) THEN Then(t, <<>>) ELSE Fails(t, <<>>)
    /\ UNCHANGED <<diskVars, memVars, lockVars>>

\* is_ancestor: from directory ino up by ".." to the root; the directories on the way
\* are not locked.  Meeting the directory in register i is the error.
is_ancestor(t) ==
    /\ At(t, "is_ancestor")
    /\ LET ino == Arg(t, 1) IN
          th' = CASE ino = In(t, "i").ino -> Fails(t, <<>>)
                  [] ino = Root -> Then(t, <<>>)
                  [] ino \notin {Root, In(t, "i").ino} -> Then(t, <<<<"iget", ino, "k">>, <<"parent", ino>>>>)
    /\ UNCHANGED <<diskVars, memVars, lockVars>>

parent(t) ==
    /\ At(t, "parent")
    /\ LET up == dir_find(In(t, "k"), "..") IN
          th' = Then(t, <<<<"iput", "k">>>> \o
                        (IF up \in {0, Arg(t, 1)} THEN <<>> ELSE <<<<"is_ancestor", up>>>>))
    /\ UNCHANGED <<diskVars, memVars, lockVars>>

Ext2Step(t) ==
    \/ mark(t) \/ ok(t) \/ iferr(t) \/ move(t) \/ check(t) \/ isempty(t)
    \/ lock(t) \/ unlock(t) \/ lock_rename(t) \/ unlock_rename(t)
    \/ alloc_block(t) \/ zero_block(t) \/ free_block(t)
    \/ alloc_inode_nr(t) \/ zero_inode(t) \/ init_inode(t) \/ free_inode_nr(t) \/ write_inode(t)
    \/ iget(t) \/ load(t) \/ publish(t) \/ iput(t) \/ free_inode(t) \/ kfree(t) \/ nlink(t)
    \/ bmap(t) \/ set_slot(t) \/ set_child(t) \/ grow(t) \/ append(t)
    \/ trunc(t) \/ cut_children(t) \/ truncated(t)
    \/ lookup(t) \/ dir_add(t) \/ add_entry(t) \/ dir_remove(t) \/ put_dots(t) \/ put_dotdot(t)
    \/ is_ancestor(t) \/ parent(t)
=============================================================================

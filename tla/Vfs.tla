-------------------------------- MODULE Vfs --------------------------------
(***************************************************************************)
(* The operations on names and open files (fs/vfs.c) of one file system,   *)
(* the ext2 of Ext2: path walk, open, write with O_APPEND, truncation,     *)
(* close, unlink, mkdir, rmdir and rename, by threads that run at the same *)
(* time.  Each operation is the sequence of steps it is made of; a thread  *)
(* runs the operations of its program one after the other.                 *)
(*                                                                         *)
(* A thread has at most one open file (register f).  Mount points and      *)
(* devices are left out.                                                   *)
(***************************************************************************)
EXTENDS Ext2

CONSTANT Scenarios      \* what is on the disk, and the threads' programs

VARIABLE prog           \* prog[t]: operations thread t has still to call

vars == <<ext2Vars, prog>>

Init ==
    /\ \E sc \in Scenarios :
          /\ dino = sc.dino /\ dblk = sc.dblk
          /\ ibm = sc.ibm /\ bbm = sc.bbm
          /\ prog = sc.prog
          /\ mem = [a \in Addrs |-> IF a = 1 THEN [ino |-> Root, ref |-> 1] @@ sc.dino[Root] ELSE NoInode]
    /\ icache = {1}     \* root_inode, which the mount holds
    /\ lk = [a \in Addrs |-> 0] /\ rename_lock = 0
    /\ th = [t \in Threads |-> Idle]
    /\ refreed = FALSE /\ lost = FALSE

-----------------------------------------------------------------------------
(* Paths *)

\* step: the next component of a path.
step(g, name) ==
    <<<<"check", "dir", g>>, <<"lock", g>>, <<"lookup", g, name, "k">>, <<"unlock", g>>,
      <<"check", "found", "k">>, <<"iput", g>>, <<"move", "k", g>>>>

\* vfs_lookup_parent: from the root to the directory of the last component.
walk(t) ==
    /\ At(t, "walk")
    /\ mem' = [mem EXCEPT ![1].ref = @ + 1]
    /\ LET g == Arg(t, 1)
           path == Arg(t, 2)
       IN  th' = [Then(t, FlattenSeq([n \in DOMAIN path |-> step(g, path[n])]) \o <<<<"check", "dir", g>>>>)
                     EXCEPT ![t].r[g] = 1]
    /\ UNCHANGED <<diskVars, icache, lockVars>>

-----------------------------------------------------------------------------
(* Operations.  The last "mark" is where one that failed gives its references back. *)

\* ext2_create; if there is no room for the name the inode goes again.
MutUndo == <<<<"iput", "i">>>>
Undo == <<<<"nlink", "i", 0>>, <<"iput", "i">>>>

ext2_create(name) ==
    <<<<"alloc_inode_nr", "i", "file">>,
      <<"ok", <<<<"dir_add", "d", name, "i">>, <<"mark">>, <<"iferr", Undo>>>>>>>>

create(t) ==
    /\ At(t, "create")
    /\ th' = Then(t, IF R(t, "i") = 0 THEN ext2_create(Arg(t, 1)) ELSE <<>>)
    /\ UNCHANGED <<diskVars, memVars, lockVars>>

\* vfs_open with O_CREAT, for writing.
vfs_open(path, name, otrunc) ==
    <<<<"walk", "d", path>>,
      <<"ok", <<<<"lock", "d">>, <<"lookup", "d", name, "i">>, <<"create", name>>, <<"mark">>, <<"unlock", "d">>>>>>,
      <<"mark">>, <<"iput", "d">>,
      <<"ok", <<<<"check", "file", "i">>, <<"move", "i", "f">>>>
              \o (IF otrunc THEN <<<<"lock", "f">>, <<"trunc", "f", 0>>, <<"unlock", "f">>>> ELSE <<>>)>>,
      <<"mark">>, <<"iput", "i">>>>

file_close == <<<<"iput", "f">>>>
file_write == <<<<"check", "found", "f">>, <<"append">>, <<"mark">>>>
sys_ftruncate(n) == <<<<"check", "found", "f">>, <<"lock", "f">>, <<"trunc", "f", n>>, <<"unlock", "f">>, <<"mark">>>>

ext2_unlink(name) ==
    <<<<"lookup", "d", name, "j">>, <<"dir_remove", "d", name>>,
      <<"lock", "j">>, <<"nlink", "j", -1>>, <<"write_inode", "j">>, <<"unlock", "j">>, <<"iput", "j">>>>

vfs_unlink(path, name) ==
    <<<<"walk", "d", path>>,
      <<"ok", <<<<"lock", "d">>, <<"lookup", "d", name, "i">>, <<"check", "found", "i">>, <<"check", "file", "i">>>>
              \o ext2_unlink(name) \o <<<<"mark">>, <<"unlock", "d">>>>>>,
      <<"mark">>, <<"iput", "i">>, <<"iput", "d">>>>

\* ext2_mkdir: inode, first block, size and count, and only then the name.
ext2_mkdir(name) ==
    <<<<"alloc_inode_nr", "i", "dir">>,
      <<"ok", <<<<"lock", "i">>, <<"bmap", "i", 0>>, <<"put_dots", "i", "d">>, <<"nlink", "i", 1>>, <<"grow", "i", 0>>,
                <<"mark">>, <<"unlock", "i">>,
                <<"ok", <<<<"dir_add", "d", name, "i">>>>>>, <<"mark">>,
                <<"iferr", <<<<"lock", "i">>, <<"trunc", "i", 0>>, <<"nlink", "i", 0>>, <<"unlock", "i">>>>>>,
                <<"ok", <<<<"nlink", "d", 1>>, <<"write_inode", "d">>>>>>>>>>>>

vfs_mkdir(path, name) ==
    <<<<"walk", "d", path>>,
      <<"ok", <<<<"lock", "d">>, <<"lookup", "d", name, "i">>, <<"check", "absent", "i">>>>
              \o ext2_mkdir(name) \o <<<<"iput", "i">>, <<"mark">>, <<"unlock", "d">>>>>>,
      <<"mark">>, <<"iput", "i">>, <<"iput", "d">>>>

\* ext2_rmdir: the directory is locked to see whether it is empty, and not after that.
ext2_rmdir(name) ==
    <<<<"lookup", "d", name, "j">>, <<"lock", "j">>, <<"isempty", "j">>, <<"unlock", "j">>,
      <<"check", "empty", "j">>, <<"dir_remove", "d", name>>,
      <<"lock", "j">>, <<"nlink", "j", 0>>, <<"write_inode", "j">>, <<"unlock", "j">>,
      <<"nlink", "d", -1>>, <<"write_inode", "d">>>>

vfs_rmdir(path, name) ==
    <<<<"walk", "d", path>>,
      <<"ok", <<<<"lock", "d">>, <<"lookup", "d", name, "i">>, <<"check", "found", "i">>, <<"check", "dir", "i">>>>
              \o ext2_rmdir(name) \o <<<<"mark">>, <<"iput", "j">>, <<"unlock", "d">>>>>>,
      <<"mark">>, <<"iput", "i">>, <<"iput", "d">>>>

\* vfs_rename locks the two directories in the order of their addresses.
Pair(t) == IF R(t, "d") = R(t, "e") THEN <<"d">> ELSE IF R(t, "d") < R(t, "e") THEN <<"d", "e">> ELSE <<"e", "d">>

lock_pair(t) ==
    /\ At(t, "lock_pair")
    /\ th' = Then(t, [n \in DOMAIN Pair(t) |-> <<"lock", Pair(t)[n]>>])
    /\ UNCHANGED <<diskVars, memVars, lockVars>>

unlock_pair(t) ==
    /\ At(t, "unlock_pair")
    /\ th' = Then(t, [n \in DOMAIN Pair(t) |-> <<"unlock", Reverse(Pair(t))[n]>>])
    /\ UNCHANGED <<diskVars, memVars, lockVars>>

\* ext2_rename of what register i holds; j holds what has the new name, if anything has.
Replace(t, nname, isdir) ==
    (IF isdir THEN <<<<"lock", "j">>, <<"isempty", "j">>, <<"unlock", "j">>, <<"check", "empty", "j">>>> ELSE <<>>)
    \o <<<<"dir_remove", "e", nname>>,
         <<"lock", "j">>, <<"nlink", "j", IF isdir THEN 0 ELSE -1>>, <<"write_inode", "j">>, <<"unlock", "j">>>>
    \o (IF isdir THEN <<<<"nlink", "e", -1>>, <<"write_inode", "e">>>> ELSE <<>>)

\* The new name first, then the old one goes: in between the file has two.
MutTransfer(oname, nname) == <<<<"dir_remove", "d", oname>>, <<"dir_add", "e", nname, "i">>>>
Transfer(oname, nname) == <<<<"dir_add", "e", nname, "i">>, <<"dir_remove", "d", oname>>>>

Reparent ==
    <<<<"lock", "i">>, <<"put_dotdot", "i", "e">>, <<"unlock", "i">>,
      <<"nlink", "d", -1>>, <<"nlink", "e", 1>>, <<"write_inode", "d">>, <<"write_inode", "e">>>>

rename(t) ==
    /\ At(t, "rename")
    /\ LET isdir == In(t, "i").mode = "dir"
           across == isdir /\ R(t, "d") # R(t, "e")
           j == R(t, "j")
       IN  th' = Then(t,
             IF j = R(t, "i") THEN <<>>
             ELSE (IF across THEN <<<<"is_ancestor", In(t, "e").ino>>>> ELSE <<>>)
                  \o (IF j = 0 THEN <<>>
                      ELSE <<<<"check", In(t, "i").mode, "j">>>> \o Replace(t, Arg(t, 2), isdir))
                  \o Transfer(Arg(t, 1), Arg(t, 2))
                  \o (IF across THEN Reparent ELSE <<>>)
                  \o <<<<"write_inode", "i">>>>)
    /\ UNCHANGED <<diskVars, memVars, lockVars>>

vfs_rename(opath, oname, npath, nname) ==
    <<<<"walk", "d", opath>>, <<"ok", <<<<"walk", "e", npath>>>>>>,
      <<"ok", <<<<"lock_pair">>, <<"lookup", "d", oname, "i">>, <<"check", "found", "i">>,
                <<"ok", <<<<"lock_rename">>, <<"lookup", "e", nname, "j">>, <<"rename", oname, nname>>,
                          <<"mark">>, <<"unlock_rename">>, <<"iput", "j">>, <<"iput", "i">>>>>>,
                <<"mark">>, <<"unlock_pair">>>>>>,
      <<"mark">>, <<"iput", "d">>, <<"iput", "e">>>>

-----------------------------------------------------------------------------
(* The threads *)

Code(op) ==
    CASE op[1] = "open" -> vfs_open(op[2], op[3], FALSE)
      [] op[1] = "trunc" -> vfs_open(op[2], op[3], TRUE)
      [] op[1] = "write" -> file_write
      [] op[1] = "ftruncate" -> sys_ftruncate(op[2])
      [] op[1] = "close" -> file_close
      [] op[1] = "unlink" -> vfs_unlink(op[2], op[3])
      [] op[1] = "mkdir" -> vfs_mkdir(op[2], op[3])
      [] op[1] = "rmdir" -> vfs_rmdir(op[2], op[3])
      [] op[1] = "rename" -> vfs_rename(op[2], op[3], op[4], op[5])

call(t) ==
    /\ th[t].todo = <<>> /\ prog[t] # <<>>
    /\ th' = [th EXCEPT ![t].todo = Code(Head(prog[t])), ![t].err = FALSE, ![t].x = 0]
    /\ prog' = [prog EXCEPT ![t] = Tail(@)]
    /\ UNCHANGED <<diskVars, memVars, lockVars>>

VfsStep(t) == walk(t) \/ create(t) \/ lock_pair(t) \/ unlock_pair(t) \/ rename(t)

Running == {t \in Threads : th[t].todo # <<>> \/ prog[t] # <<>>}

\* Threads whose next step nobody else sees take it at once, the first of them first.
Prompt == {t \in Running : th[t].todo = <<>> \/
                           Head(th[t].todo)[1] \in Local \cup {"create", "lock_pair", "unlock_pair", "rename"}}

Step(t) == (Ext2Step(t) \/ VfsStep(t)) /\ prog' = prog

Next ==
    \/ \E t \in IF Prompt # {} THEN {Min(Prompt)} ELSE Threads : Step(t) \/ call(t)
    \/ Running = {} /\ UNCHANGED vars

Spec == Init /\ [][Next]_vars

-----------------------------------------------------------------------------
(* What the disk says *)

Tree(i) == {b \in ToSet(dino[i].ptr) : b # 0} \cup ToSet(Children(dino[i].ptr[2]))
Size(i) == Cardinality({k \in 1 .. 2 : dino[i].ptr[k] # 0}) + Len(Children(dino[i].ptr[2]))
Named(i) == IF dino[i].mode # "dir" THEN {} ELSE {x \in Entries(dino[i]) : x[1] \notin {".", ".."}}
Below(S) == S \cup UNION {{x[2] : x \in Named(i)} : i \in S}
Reached == Below(Below(Below({Root})))
Truncating == {In(t, th[t].todo[n][2]).ino :
                 <<t, n>> \in {<<u, m>> \in Threads \X (1 .. 30) : m \in DOMAIN th[u].todo /\ th[u].todo[m][1] = "truncated"}}

\* At every moment at which the machine may lose power: a name that can be reached from
\* the root is the name of an inode that is in use, filled in, and counts a name; the
\* blocks of the files that have names and are not being cut are marked as used and
\* belong to one file; and no block was freed twice.
NamesLive == \A i \in Reached : i \in ibm /\ dino[i].mode # "none" /\ dino[i].nlink > 0
BlocksOwned ==
    LET files == {i \in ibm : dino[i].nlink > 0} \ Truncating IN
    /\ \A i \in files : Tree(i) \subseteq bbm /\ Cardinality(Tree(i)) = Size(i)
    /\ \A i, j \in files : i # j => Tree(i) \cap Tree(j) = {}
CrashSafe == NamesLive /\ BlocksOwned /\ ~refreed

\* What can be reached from the root can be reached after the next write too, unless it
\* (or a directory it is put into) is being unlinked: a rename never leaves a file
\* nameless, provided the directory it moves to is not removed meanwhile.
Unlinking(i) == \E t \in Threads, g \in {"i", "j"} :
    /\ R(t, g) # 0 /\ In(t, g).ino = i
    /\ \E n \in DOMAIN th[t].todo : th[t].todo[n] \in {<<"nlink", g, 0>>, <<"nlink", g, -1>>}
NamesKept ==
    [][lost' \/ \A i \in Reached \ Reached' : \E j \in ibm : Unlinking(j) /\ i \in Below(Below({j}))]_vars

\* An inode in memory counts the pointers to it (root_inode is one more), and an inode
\* of the disk is in use in memory once.
Dying(t, g) == \E n \in DOMAIN th[t].todo : th[t].todo[n] = <<"kfree", g>> \/ th[t].todo[n] = <<"free_inode", g>>
RefsAccounted ==
    /\ \A a \in Addrs : mem[a].ino # 0 =>
          mem[a].ref = Cardinality({<<t, g>> \in Threads \X Regs : R(t, g) = a /\ ~Dying(t, g)})
                       + (IF a = 1 THEN 1 ELSE 0)
    /\ \A a, b \in icache : a # b /\ mem[a].ino = mem[b].ino => mem[a].ref = 0 \/ mem[b].ref = 0

\* When nobody is at work, and whatever failed for lack of space, the disk is what a file
\* system checker expects: every inode in use has a name, every block in use an owner,
\* every count of names is right and ".." is the parent.  (Not if a directory was removed
\* while a name was put into it.)
Subdirs(i) == {x \in Named(i) : dino[x[2]].mode = "dir"}
Consistent ==
    Running = {} /\ ~lost /\ (\A t \in Threads : R(t, "f") = 0) =>
    /\ ibm = Reached
    /\ bbm = UNION {Tree(i) : i \in ibm}
    /\ \A i \in ibm : dino[i].nlink = IF dino[i].mode = "dir" THEN 2 + Cardinality(Subdirs(i))
                                      ELSE Cardinality({j \in ibm : \E x \in Named(j) : x[2] = i})
    /\ \A i \in ibm : \A x \in Subdirs(i) : dir_find(dino[x[2]], "..") = i
    /\ icache = {1}

-----------------------------------------------------------------------------
(* What comments in the code say and the code does not do *)

\* ext2.c: the order of the writes is such that, whenever the power goes, two files do
\* not share a block.
NoSharedBlocks == \A i, j \in {k \in ibm : dino[k].nlink > 0} : i # j => Tree(i) \cap Tree(j) = {}

\* ext2_iget: the struct inode of an inode is the one copy all users see, so it has what
\* they have changed, and written to the disk, unless somebody is changing it now.
CopyFresh ==
    \A c \in icache : mem[c].ref > 0 /\ mem[c].nlink > 0 /\ lk[c] = 0 => Disk(mem[c]) = dino[mem[c].ino]

\* vfs_rename: the locks are taken in an order in which there is no deadlock.
Waits(t, u) ==
    \/ At(t, "lock") /\ lk[R(t, Arg(t, 1))] = u
    \/ At(t, "lock_rename") /\ rename_lock = u
NoDeadlock == ~\E t, u \in Threads : Waits(t, u) /\ Waits(u, t)
=============================================================================

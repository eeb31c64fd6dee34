--------------------------- MODULE PrivateMemory ----------------------------
(***************************************************************************)
(* What the memory manager promises to programs: each process has a memory *)
(* of its own.  Nobody else's store changes it, memory that is new holds   *)
(* zeros, and a child starts with a copy of its parent's memory.  Frames,  *)
(* page tables, sharing and the TLB do not appear.                         *)
(***************************************************************************)
EXTENDS Naturals

CONSTANTS Procs, Pages, Values, Hole, Gone

VARIABLE mem    \* mem[p]: Gone, or for each page its value or Hole

Init == mem \in [Procs -> {Gone} \cup [Pages -> {Hole, 0}]]

\* A step of p on its own memory: the pages S change.
Own(p, S) ==
    /\ \A q \in Procs \ {p} : mem'[q] = mem[q]
    /\ mem[p] # Gone /\ mem'[p] # Gone
    /\ \A v \in Pages \ S : mem'[p][v] = mem[p][v]

Load(p) ==
    /\ mem[p] # Gone
    /\ UNCHANGED mem

Store(p, v, x) ==
    /\ Own(p, {v})
    /\ mem[p][v] # Hole
    /\ mem'[p][v] = x

\* mmap, sbrk, a growing stack: pages that were holes become zeros.
Map(p) ==
    LET S == {v \in Pages : mem[p] # Gone /\ mem[p][v] = Hole} IN
    /\ Own(p, S)
    /\ \A v \in S : mem'[p][v] \in {Hole, 0}

\* p gives back the pages S with munmap or sbrk: they become holes; or zeros, when
\* there is no memory to note the hole that is asked for.
Drop(p, S) ==
    /\ Own(p, S)
    /\ \A v \in S : mem'[p][v] \in (IF mem[p][v] = Hole THEN {Hole} ELSE {Hole, 0})

\* Of the pages that p may give back, those that change.
Changed(p) == {v \in Pages : mem[p] # Gone /\ mem'[p] # Gone /\ mem'[p][v] # mem[p][v]}

Fork(p, c) ==
    /\ mem[p] # Gone /\ mem[c] = Gone
    /\ mem' = [mem EXCEPT ![c] = mem[p]]

Exit(p) ==
    /\ mem[p] # Gone
    /\ mem' = [mem EXCEPT ![p] = Gone]

Next ==
    \E p \in Procs :
       \/ Load(p)
       \/ \E v \in Pages, x \in Values : Store(p, v, x)
       \/ Map(p)
       \/ Drop(p, Changed(p))
       \/ \E c \in Procs : Fork(p, c)
       \/ Exit(p)

Spec == Init /\ [][Next]_mem
=============================================================================

-------------------------------- MODULE MCMm --------------------------------
(* Instances of Mm for TLC. *)
EXTENDS Mm

CONSTANTS p1, p2, p3

\* Two processes that share two pages, three that share one, and one process
\* that uses every call.
RW == {"read", "write"}
RO == {"read"}
MCProcs == {p1, p2, p3}
MCScenarios ==
    {[first |-> p1, procs |-> {p1, p2}, ops |-> {"fork", "exit", "store"}, touch |-> 1 .. 3, frames |-> 6, brk |-> 4,
      vmas |-> <<Vma(1, 2, RW, "elf"), Vma(2, 3, RW, "heap")>>],
     [first |-> p1, procs |-> MCProcs, ops |-> {"fork", "exit", "store"}, touch |-> {2}, frames |-> 7, brk |-> 4,
      vmas |-> <<Vma(2, 3, RW, "heap")>>],
     [first |-> p1, procs |-> {p1}, ops |-> {"map", "unmap", "sbrk"}, touch |-> {1, 2, 4, 5}, frames |-> 6, brk |-> 4,
      vmas |-> <<Vma(1, 2, RO, "elf"), Vma(2, 3, RW, "heap"), Vma(6, 7, RW, "stack")>>]}
MCMapArgs == {<<0, 1, RW>>, <<4, 1, RO>>, <<3, 2, RW>>}
MCUnmapArgs == {<<2, 1>>, <<4, 1>>, <<5, 2>>}
MCSbrkArgs == {-3, 3}
MCSymmetry == Permutations({p2, p3})
=============================================================================

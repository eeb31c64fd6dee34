-------------------------------- MODULE Fifo --------------------------------
(***************************************************************************)
(* What a pipe promises: a queue of at most Size bytes, into which writers *)
(* put what they were given, in order and without gaps, and from which     *)
(* every byte is taken once, in the order it was put.                      *)
(***************************************************************************)
EXTENDS Integers, Sequences, SequencesExt

CONSTANTS Procs, Bytes, Size, MaxLen

VARIABLES
    queue,
    src,    \* per process: what it was asked to write
    done,   \* per process: how much of that it has put
    dst     \* per process: what its last read returned

vars == <<queue, src, done, dst>>

Init ==
    /\ queue = <<>>
    /\ src = [p \in Procs |-> <<>>]
    /\ done = [p \in Procs |-> 0]
    /\ dst = [p \in Procs |-> <<>>]

Begin(p) ==
    /\ \E s \in BoundedSeq(Bytes, MaxLen) : src' = [src EXCEPT ![p] = s]
    /\ done' = [done EXCEPT ![p] = 0]
    /\ UNCHANGED <<queue, dst>>

Put(p) ==
    /\ \E n \in 1 .. Len(src[p]) - done[p] :
          /\ Len(queue) + n <= Size
          /\ queue' = queue \o SubSeq(src[p], done[p] + 1, done[p] + n)
          /\ done' = [done EXCEPT ![p] = @ + n]
    /\ UNCHANGED <<src, dst>>

Get(p) ==
    /\ \E n \in 1 .. Len(queue) :
          /\ dst' = [dst EXCEPT ![p] = SubSeq(queue, 1, n)]
          /\ queue' = SubSeq(queue, n + 1, Len(queue))
    /\ UNCHANGED <<src, done>>

\* A read that returns nothing, or a system call that is over.
Nothing(p) ==
    /\ dst' = [dst EXCEPT ![p] = <<>>]
    /\ UNCHANGED <<queue, src, done>>

Next == \E p \in Procs : Begin(p) \/ Put(p) \/ Get(p) \/ Nothing(p)

Spec == Init /\ [][Next]_vars
=============================================================================

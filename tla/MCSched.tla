------------------------------ MODULE MCSched ------------------------------
(* Instances of Sched for TLC. *)
EXTENDS Sched, TLC

SpaceSymmetry == Permutations(Spaces)

\* What is still to be read: proc_alloc clears a slot it takes, and a process
\* that gets the CPU starts a new time slice.
View == <<lockVars, cpuVars, state, pml4, kstack, live, codeVars,
          [p \in Procs |-> IF state[p] = "UNUSED" THEN <<>>
                           ELSE <<parent[p], wait_channel[p], left[p]>>],
          [p \in Procs |-> IF state[p] = "RUNNING" THEN quantum[p] ELSE 0]>>
=============================================================================

-------------------------------- MODULE Pipe --------------------------------
(***************************************************************************)
(* Pipes (fs/pipe.c) with the reference counts of their two files          *)
(* (file_dup, file_close of fs/vfs.c), on proc_sleep and proc_wakeup.      *)
(*                                                                         *)
(* A step is a critical section under the pipe's lock; it is cut in two    *)
(* where the process goes to sleep, because a signal, which is sent under  *)
(* proc_lock alone, can come between the test of signal_interrupted and    *)
(* proc_sleep's own critical section.                                      *)
(***************************************************************************)
EXTENDS Integers, Sequences, SequencesExt, FiniteSets

CONSTANTS
    Readers, Writers,   \* the processes that have the read or the write end
    Bytes, PIPE_SIZE,
    MaxLen,             \* bound: longest read or write
    None

Procs == Readers \cup Writers

ASSUME SizeAssumption == PIPE_SIZE \in Nat \ {0} /\ MaxLen \in Nat /\ Bytes # {}
ASSUME EndsAssumption == /\ Readers # {} /\ Writers # {}
                         /\ IsFiniteSet(Readers) /\ IsFiniteSet(Writers)
                         /\ Readers \cap Writers = {} /\ None \notin Procs

VARIABLES
    buf, head, count,   \* struct pipe
    readers, writers,   \* struct pipe: open ends, 0 or 1
    plock,              \* struct pipe: the process that holds the spinlock, or None
    freed,              \* how often the pipe was freed
    refs,               \* per end: refcount of its struct file
    state,              \* per process: RUNNING, BLOCKED
    signalled,          \* per process: a signal is pending
    pc,                 \* per process: where it is
    src, done, want, dst    \* per process: arguments, progress and result

pipeVars == <<buf, head, count, readers, writers, plock, freed, refs>>
procVars == <<state, signalled, pc, src, done, want, dst>>
vars == <<pipeVars, procVars>>

Pcs == {"user", "r_lock", "r_sleep", "w_lock", "w_sleep", "w_epipe",
        "release", "closed"}

\* After pipe_create and the forks of a pipeline, the unused ends closed.
Init ==
    /\ buf \in [0 .. PIPE_SIZE - 1 -> {CHOOSE b \in Bytes : TRUE}]
    /\ head = 0 /\ count = 0
    /\ readers = 1 /\ writers = 1
    /\ plock = None /\ freed = 0
    /\ refs = [r |-> Cardinality(Readers), w |-> Cardinality(Writers)]
    /\ state = [p \in Procs |-> "RUNNING"]
    /\ signalled = [p \in Procs |-> FALSE]
    /\ pc = [p \in Procs |-> "user"]
    /\ src = [p \in Procs |-> <<>>]
    /\ done = [p \in Procs |-> 0]
    /\ want = [p \in Procs |-> 0]
    /\ dst = [p \in Procs |-> <<>>]

At(p, l) == state[p] = "RUNNING" /\ pc[p] = l
Goto(p, l) == pc' = [pc EXCEPT ![p] = l]

\* The bytes in the pipe, oldest first.
Contents == [i \in 1 .. count |-> buf[(head + i - 1) % PIPE_SIZE]]

\* proc_wakeup on &p->count (sleeping readers) or &p->writers (writers).
Wakeup(S) == state' = [p \in Procs |-> IF p \in S THEN "RUNNING" ELSE state[p]]
Sleepers(l) == {p \in Procs : state[p] = "BLOCKED" /\ pc[p] = l}

MinOf(a, b) == IF a < b THEN a ELSE b

-----------------------------------------------------------------------------
(* Signals: the part of signal_send_locked and signal_deliver that pipes    *)
(* meet (Signal has the whole).                                             *)

Signal(p) ==
    /\ ~signalled[p] /\ pc[p] # "closed"
    /\ signalled' = [signalled EXCEPT ![p] = TRUE]
    /\ state' = [state EXCEPT ![p] = "RUNNING"]
    /\ UNCHANGED <<pipeVars, pc, src, done, want, dst>>

\* A handler runs on the way back to user mode.
Deliver(p) ==
    /\ At(p, "user") /\ signalled[p]
    /\ signalled' = [signalled EXCEPT ![p] = FALSE]
    /\ UNCHANGED <<pipeVars, state, pc, src, done, want, dst>>

-----------------------------------------------------------------------------
(* pipe_read.                                                               *)

\* read(fd, dst, n) with n > 0 (n = 0 returns at once, having done nothing).
Read(p, n) ==
    /\ At(p, "user") /\ p \in Readers /\ ~signalled[p]
    /\ want' = [want EXCEPT ![p] = n]
    /\ dst' = [dst EXCEPT ![p] = <<>>]
    /\ Goto(p, "r_lock")
    /\ UNCHANGED <<pipeVars, state, signalled, src, done>>

\* Back to user mode: the arguments are gone.
ReadReturns(p) ==
    /\ Goto(p, "user")
    /\ want' = [want EXCEPT ![p] = 0]
    /\ UNCHANGED <<signalled, src, done>>

\* EOF.
Eof(p) == writers = 0

ReadNothing(p) ==
    /\ At(p, "r_lock") /\ plock = None
    /\ count = 0
    /\ Eof(p) \/ signalled[p]
    /\ ReadReturns(p)
    /\ UNCHANGED <<pipeVars, state, dst>>

ReadSleep(p) ==
    /\ At(p, "r_lock") /\ plock = None
    /\ count = 0
    /\ ~Eof(p) /\ ~signalled[p]
    /\ plock' = p
    /\ Goto(p, "r_sleep")
    /\ UNCHANGED <<buf, head, count, readers, writers, freed, refs, state, signalled,
                   src, done, want, dst>>

\* Where the read goes on.  A slip forgets that the buffer is a ring.
MutNewHead(n) == MinOf(head + n, PIPE_SIZE - 1)
NewHead(n) == (head + n) % PIPE_SIZE

ReadData(p) ==
    /\ At(p, "r_lock") /\ plock = None
    /\ count > 0
    /\ LET n == MinOf(want[p], count) IN
          /\ dst' = [dst EXCEPT ![p] = [i \in 1 .. n |-> buf[(head + i - 1) % PIPE_SIZE]]]
          /\ head' = NewHead(n)
          /\ count' = count - n
    /\ Wakeup(Sleepers("w_lock"))
    /\ ReadReturns(p)
    /\ UNCHANGED <<buf, readers, writers, plock, freed, refs>>

\* proc_sleep, of a reader or a writer: proc_lock is taken before the pipe's lock
\* is released.  Awake again, the process takes the pipe's lock and tests again.
Sleep(p) ==
    /\ At(p, "r_sleep") \/ At(p, "w_sleep")
    /\ state' = [state EXCEPT ![p] = "BLOCKED"]
    /\ plock' = None
    /\ Goto(p, IF pc[p] = "r_sleep" THEN "r_lock" ELSE "w_lock")
    /\ UNCHANGED <<buf, head, count, readers, writers, freed, refs, signalled, src, done,
                   want, dst>>

-----------------------------------------------------------------------------
(* pipe_write.                                                              *)

Write(p, s) ==
    /\ At(p, "user") /\ p \in Writers /\ ~signalled[p]
    /\ src' = [src EXCEPT ![p] = s]
    /\ done' = [done EXCEPT ![p] = 0]
    /\ Goto(p, "w_lock")
    /\ UNCHANGED <<pipeVars, state, signalled, want, dst>>

WriteReturns(p) ==
    /\ Goto(p, "user")
    /\ src' = [src EXCEPT ![p] = <<>>]
    /\ done' = [done EXCEPT ![p] = 0]
    /\ UNCHANGED <<signalled, want, dst>>

\* The loop keeps the lock from one turn to the next.
WriteTurn(p) == At(p, "w_lock") /\ plock \in {None, p}

WriteDone(p) ==
    /\ WriteTurn(p)
    /\ \/ done[p] = Len(src[p])
       \/ done[p] < Len(src[p]) /\ readers = 0 /\ done[p] > 0
       \/ done[p] < Len(src[p]) /\ readers > 0 /\ count = PIPE_SIZE /\ signalled[p]
    /\ plock' = None
    /\ WriteReturns(p)
    /\ UNCHANGED <<buf, head, count, readers, writers, freed, refs, state>>

\* No reader is left: the lock is released, then SIGPIPE is sent.
WriteBroken(p) ==
    /\ WriteTurn(p)
    /\ readers = 0 /\ done[p] = 0 /\ src[p] # <<>>
    /\ plock' = None
    /\ Goto(p, "w_epipe")
    /\ UNCHANGED <<buf, head, count, readers, writers, freed, refs, state, signalled,
                   src, done, want, dst>>

WriteSigpipe(p) ==
    /\ At(p, "w_epipe")
    /\ signalled' = [signalled EXCEPT ![p] = TRUE]
    /\ Goto(p, "user")
    /\ src' = [src EXCEPT ![p] = <<>>]
    /\ UNCHANGED <<pipeVars, state, done, want, dst>>

\* How much fits.
Room == PIPE_SIZE - count

WriteSleep(p) ==
    /\ WriteTurn(p)
    /\ done[p] < Len(src[p]) /\ readers > 0 /\ count = PIPE_SIZE /\ ~signalled[p]
    /\ Wakeup(Sleepers("r_lock"))
    /\ plock' = p
    /\ Goto(p, "w_sleep")
    /\ UNCHANGED <<buf, head, count, readers, writers, freed, refs, signalled, src, done,
                   want, dst>>

WokenByData == Sleepers("r_lock")

WriteData(p) ==
    /\ WriteTurn(p)
    /\ done[p] < Len(src[p]) /\ readers > 0 /\ count < PIPE_SIZE
    /\ LET n == MinOf(Len(src[p]) - done[p], Room)
           tail == (head + count) % PIPE_SIZE
       IN  /\ buf' = [i \in DOMAIN buf |->
                        LET k == (i - tail + PIPE_SIZE) % PIPE_SIZE IN
                        IF k < n THEN src[p][done[p] + k + 1] ELSE buf[i]]
           /\ count' = count + n
           /\ done' = [done EXCEPT ![p] = @ + n]
    /\ Wakeup(WokenByData)
    /\ plock' = p
    /\ UNCHANGED <<head, readers, writers, freed, refs, signalled, pc, src, want, dst>>

-----------------------------------------------------------------------------
(* file_close and pipe_release.                                             *)

End(p) == IF p \in Readers THEN "r" ELSE "w"

\* The reference count goes down; the last one releases the end.
Close(p) ==
    /\ At(p, "user")
    /\ refs' = [refs EXCEPT ![End(p)] = @ - 1]
    /\ Goto(p, IF refs[End(p)] > 1 THEN "closed" ELSE "release")
    /\ UNCHANGED <<buf, head, count, readers, writers, plock, freed, state, signalled,
                   src, done, want, dst>>

\* Was it the last end?  A slip: every release frees the pipe.
MutDead(p) == TRUE
Dead(p) == IF p \in Readers THEN writers = 0 ELSE readers = 0

\* A slip: the sleepers do not hear of the end being closed.
MutWokenByClose == {}
WokenByClose == Sleepers("r_lock") \cup Sleepers("w_lock")

Release(p) ==
    /\ At(p, "release") /\ plock = None
    /\ readers' = IF p \in Readers THEN readers - 1 ELSE readers
    /\ writers' = IF p \in Writers THEN writers - 1 ELSE writers
    /\ Wakeup(WokenByClose)
    /\ freed' = IF Dead(p) THEN freed + 1 ELSE freed
    /\ Goto(p, "closed")
    /\ UNCHANGED <<buf, head, count, plock, refs, signalled, src, done, want, dst>>

-----------------------------------------------------------------------------
KernelStep(p) ==
    \/ ReadNothing(p) \/ ReadSleep(p) \/ ReadData(p) \/ Sleep(p)
    \/ WriteDone(p) \/ WriteBroken(p) \/ WriteSigpipe(p) \/ WriteSleep(p) \/ WriteData(p)
    \/ Release(p)

Program(p) ==
    \/ \E n \in 1 .. MaxLen : Read(p, n)
    \/ \E s \in BoundedSeq(Bytes, MaxLen) : Write(p, s)
    \/ Close(p)

Next == \E p \in Procs : KernelStep(p) \/ Program(p) \/ Signal(p) \/ Deliver(p)

Spec == Init /\ [][Next]_vars

-----------------------------------------------------------------------------
TypeOK ==
    /\ buf \in [0 .. PIPE_SIZE - 1 -> Bytes]
    /\ head \in 0 .. PIPE_SIZE - 1 /\ count \in 0 .. PIPE_SIZE
    /\ readers \in {0, 1} /\ writers \in {0, 1}
    /\ plock \in Procs \cup {None}
    /\ freed \in {0, 1}
    /\ refs \in [{"r", "w"} -> Nat]
    /\ state \in [Procs -> {"RUNNING", "BLOCKED"}]
    /\ signalled \in [Procs -> BOOLEAN]
    /\ pc \in [Procs -> Pcs]
    /\ src \in [Procs -> Seq(Bytes)] /\ dst \in [Procs -> Seq(Bytes)]
    /\ want \in [Procs -> Nat] /\ done \in [Procs -> Nat]
    /\ \A p \in Procs : done[p] <= Len(src[p])

\* A reader sleeps only while the pipe is empty and may still be written to, a
\* writer only while it is full and may still be read: neither data, nor room,
\* nor the close of the other end is slept through.
SleepersHaveReason ==
    /\ \A p \in Sleepers("r_lock") : count = 0 /\ writers > 0
    /\ \A p \in Sleepers("w_lock") : count = PIPE_SIZE /\ readers > 0

\* The pipe is freed once, by whoever closes the last end, and nobody is using it
\* then or afterwards.
FreedOnceUnused ==
    /\ freed <= 1
    /\ freed > 0 => /\ refs = [r |-> 0, w |-> 0]
                    /\ \A p \in Procs : pc[p] = "closed"

\* Why the two hold, as an inductive invariant.  Each end is used by its own
\* processes only; who is about to sleep holds the pipe's lock and so keeps the
\* reason; and the counts follow from who has closed.
OwnEnd ==
    \A p \in Procs :
       /\ p \in Readers => pc[p] \in {"user", "r_lock", "r_sleep", "release", "closed"}
       /\ p \in Writers => pc[p] \notin {"r_lock", "r_sleep"}
       /\ pc[p] \in {"r_lock", "r_sleep"} => want[p] > 0
       /\ pc[p] = "w_epipe" => done[p] = 0
LockHeld ==
    \A p \in Procs :
       /\ plock = p => pc[p] \in {"r_sleep", "w_sleep", "w_lock"}
       /\ pc[p] \in {"r_sleep", "w_sleep"} => plock = p
       /\ state[p] = "BLOCKED" => pc[p] \in {"r_lock", "w_lock"}
AboutToSleep ==
    \A p \in Procs : /\ pc[p] = "r_sleep" => count = 0 /\ writers > 0
                     /\ pc[p] = "w_sleep" => count = PIPE_SIZE /\ readers > 0
Open(S) == {p \in S : pc[p] \notin {"release", "closed"}}
EndOpen(S, n, refcount) ==
    /\ refcount = Cardinality(Open(S))
    /\ n = 1 <=> \E p \in S : pc[p] # "closed"
    /\ \A p, q \in S : pc[p] = "release" /\ p # q => pc[q] = "closed"
EndsCounted ==
    /\ EndOpen(Readers, readers, refs["r"])
    /\ EndOpen(Writers, writers, refs["w"])
    /\ freed = 1 <=> readers = 0 /\ writers = 0
IInv == TypeOK /\ OwnEnd /\ LockHeld /\ AboutToSleep /\ EndsCounted /\ SleepersHaveReason

\* What signal.c says (signal.c:17-18): a signal wakes a process that sleeps, so that
\* read() comes back with EINTR.
SignalWakesSleeper ==
    \A p \in Procs : state[p] = "BLOCKED" => ~signalled[p]

\* The ring buffer is a queue: bytes are neither lost, nor duplicated, nor
\* reordered, whatever head is and however reads and writes are cut up.
Queue == INSTANCE Fifo WITH queue <- Contents, Size <- PIPE_SIZE
ImplementsFifo == Queue!Spec
=============================================================================

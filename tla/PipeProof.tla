----------------------------- MODULE PipeProof ------------------------------
(***************************************************************************)
(* Proofs about Pipe, for every number of readers and writers, every size  *)
(* of the buffer and every length of reads and writes: nobody sleeps       *)
(* through data, room or a close, the pipe is freed once and unused, and   *)
(* the ring buffer is a queue.                                             *)
(***************************************************************************)
EXTENDS Pipe, FiniteSetTheorems, TLAPS

USE SizeAssumption, EndsAssumption

-----------------------------------------------------------------------------
(* Helpers.                                                                 *)

\* A position of the ring buffer needs to be reduced once at most.
LEMMA ModOnce ==
  ASSUME NEW x \in 0 .. 2 * PIPE_SIZE - 1
  PROVE  x % PIPE_SIZE = IF x < PIPE_SIZE THEN x ELSE x - PIPE_SIZE
<1>1. CASE x < PIPE_SIZE
  BY <1>1
<1>2. CASE x >= PIPE_SIZE
  BY <1>2
<1> QED
  BY <1>1, <1>2

\* A reduced position lies in the buffer.
LEMMA ModRange ==
  ASSUME NEW x \in Int
  PROVE  x % PIPE_SIZE \in 0 .. PIPE_SIZE - 1
OBVIOUS

\* What min() of two counts above 0 gives.
LEMMA MinBounds ==
  ASSUME NEW a \in Nat \ {0}, NEW b \in Nat \ {0}
  PROVE  MinOf(a, b) \in Nat \ {0} /\ MinOf(a, b) <= a /\ MinOf(a, b) <= b
BY DEF MinOf

\* What a program writes is a sequence of bytes.
LEMMA BoundedIsSeq ==
  ASSUME NEW s \in BoundedSeq(Bytes, MaxLen)
  PROVE  s \in Seq(Bytes) /\ Len(s) \in Nat
<1>1. PICK m \in 0 .. MaxLen : s \in [1 .. m -> Bytes]
  BY DEF BoundedSeq, SeqOf
<1> QED
  BY <1>1

\* A step that opens and closes nothing leaves the counts of the ends right.
LEMMA EndsKept ==
  ASSUME EndsCounted, UNCHANGED <<readers, writers, freed, refs>>,
         \A p \in Procs : /\ pc'[p] = "closed" <=> pc[p] = "closed"
                          /\ pc'[p] = "release" <=> pc[p] = "release"
  PROVE  EndsCounted'
<1>1. Open(Readers)' = Open(Readers) /\ Open(Writers)' = Open(Writers)
  BY DEF Open, Procs
<1>2. EndOpen(Readers, readers, refs["r"])'
  BY <1>1 DEF EndsCounted, EndOpen, Procs
<1>3. EndOpen(Writers, writers, refs["w"])'
  BY <1>1 DEF EndsCounted, EndOpen, Procs
<1> QED
  BY <1>2, <1>3 DEF EndsCounted

\* Who closes leaves one process less with the end open; the last one knows.
LEMMA OneLess ==
  ASSUME NEW S, IsFiniteSet(S), NEW p \in Open(S), NEW new \in {"release", "closed"},
         pc' = [pc EXCEPT ![p] = new], pc \in [Procs -> Pcs], S \subseteq Procs
  PROVE  /\ Cardinality(Open(S)) \in Nat
         /\ Cardinality(Open(S)') = Cardinality(Open(S)) - 1
         /\ Cardinality(Open(S)) > 1 <=> \E q \in Open(S) : q # p
<1>1. Open(S)' = Open(S) \ {p}
  BY DEF Open
<1>2. IsFiniteSet(Open(S))
  BY FS_Subset DEF Open
<1>3. /\ IsFiniteSet(Open(S) \ {p})
      /\ Cardinality(Open(S) \ {p}) = Cardinality(Open(S)) - 1
  BY <1>2, FS_RemoveElement
<1>4. Cardinality(Open(S)) \in Nat /\ Cardinality(Open(S) \ {p}) \in Nat
  BY <1>2, <1>3, FS_CardinalityType
<1>5. Cardinality(Open(S) \ {p}) = 0 <=> Open(S) \ {p} = {}
  BY <1>3, FS_EmptySet
<1> QED
  BY <1>1, <1>3, <1>4, <1>5

-----------------------------------------------------------------------------
(* The inductive invariant.                                                 *)

\* signal_send_locked wakes the process; it touches no reason to sleep of anybody else.
LEMMA SignalInv ==
  ASSUME IInv, NEW p \in Procs, Signal(p)
  PROVE  IInv'
<1> USE DEF IInv, TypeOK, Signal, At, Goto, pipeVars, procVars
<1>1. TypeOK'
  BY DEF Pcs, OwnEnd
<1>2. OwnEnd'
  BY DEF OwnEnd, Pcs, LockHeld
<1>3. LockHeld'
  BY DEF LockHeld, Procs
<1>4. AboutToSleep'
  BY DEF AboutToSleep, LockHeld
<1>5. EndsCounted'
  BY EndsKept
<1>6. SleepersHaveReason'
  BY DEF SleepersHaveReason, Sleepers, AboutToSleep, LockHeld
<1> QED
  BY <1>1, <1>2, <1>3, <1>4, <1>5, <1>6

\* A handler that runs changes nothing of the pipe.
LEMMA DeliverInv ==
  ASSUME IInv, NEW p \in Procs, Deliver(p)
  PROVE  IInv'
<1> USE DEF IInv, TypeOK, Deliver, At, Goto, pipeVars, procVars
<1>1. TypeOK'
  BY DEF Pcs, OwnEnd
<1>2. OwnEnd'
  BY DEF OwnEnd, Pcs, LockHeld
<1>3. LockHeld'
  BY DEF LockHeld, Procs
<1>4. AboutToSleep'
  BY DEF AboutToSleep, LockHeld
<1>5. EndsCounted'
  BY EndsKept
<1>6. SleepersHaveReason'
  BY DEF SleepersHaveReason, Sleepers, AboutToSleep, LockHeld
<1> QED
  BY <1>1, <1>2, <1>3, <1>4, <1>5, <1>6

\* sys_read asks for at least one byte, so a read that finds data takes some.
LEMMA ReadInv ==
  ASSUME IInv, NEW p \in Procs, NEW n \in 1 .. MaxLen, Read(p, n)
  PROVE  IInv'
<1> USE DEF IInv, TypeOK, Read, At, Goto, pipeVars, procVars
<1>1. TypeOK'
  BY DEF Pcs, OwnEnd
<1>2. OwnEnd'
  BY DEF OwnEnd, Pcs, LockHeld
<1>3. LockHeld'
  BY DEF LockHeld, Procs
<1>4. AboutToSleep'
  BY DEF AboutToSleep, LockHeld
<1>5. EndsCounted'
  BY EndsKept
<1>6. SleepersHaveReason'
  BY DEF SleepersHaveReason, Sleepers, AboutToSleep, LockHeld
<1> QED
  BY <1>1, <1>2, <1>3, <1>4, <1>5, <1>6

\* End of file or a signal: the reader leaves without the lock it had.
LEMMA ReadNothingInv ==
  ASSUME IInv, NEW p \in Procs, ReadNothing(p)
  PROVE  IInv'
<1> USE DEF IInv, TypeOK, ReadNothing, ReadReturns, Eof, At, Goto, pipeVars, procVars
<1>1. TypeOK'
  BY DEF Pcs, OwnEnd
<1>2. OwnEnd'
  BY DEF OwnEnd, Pcs, LockHeld
<1>3. LockHeld'
  BY DEF LockHeld, Procs
<1>4. AboutToSleep'
  BY DEF AboutToSleep, LockHeld
<1>5. EndsCounted'
  BY EndsKept
<1>6. SleepersHaveReason'
  BY DEF SleepersHaveReason, Sleepers, AboutToSleep, LockHeld
<1> QED
  BY <1>1, <1>2, <1>3, <1>4, <1>5, <1>6

\* The reader keeps the lock, so count and writers stay what it tested.
LEMMA ReadSleepInv ==
  ASSUME IInv, NEW p \in Procs, ReadSleep(p)
  PROVE  IInv'
<1> USE DEF IInv, TypeOK, ReadSleep, Eof, At, Goto, pipeVars, procVars
<1>1. TypeOK'
  BY DEF Pcs, OwnEnd
<1>2. OwnEnd'
  BY DEF OwnEnd, Pcs, LockHeld
<1>3. LockHeld'
  BY DEF LockHeld, Procs
<1>4. AboutToSleep'
  BY DEF AboutToSleep, LockHeld
<1>5. EndsCounted'
  BY EndsKept
<1>6. SleepersHaveReason'
  BY DEF SleepersHaveReason, Sleepers, AboutToSleep, LockHeld
<1> QED
  BY <1>1, <1>2, <1>3, <1>4, <1>5, <1>6

\* Data is taken: no reader sleeps then, and the sleeping writers are woken.
LEMMA ReadDataInv ==
  ASSUME IInv, NEW p \in Procs, ReadData(p)
  PROVE  IInv'
<1> USE DEF IInv, TypeOK, ReadData, ReadReturns, Wakeup, Sleepers, MinOf, NewHead, At, Goto, pipeVars, procVars
<1> DEFINE n == MinOf(want[p], count)
<1>n. n \in 1 .. count
  <2>1. want[p] \in Nat \ {0} /\ count \in Nat \ {0}
    BY DEF OwnEnd
  <2> QED
    BY <2>1, MinBounds
<1>h. NewHead(n) \in 0 .. PIPE_SIZE - 1
  <2> HIDE DEF n
  <2>1. head + n \in Int
    BY <1>n
  <2> QED
    BY <2>1, ModRange
<1>d. [i \in 1 .. n |-> buf[(head + i - 1) % PIPE_SIZE]] \in Seq(Bytes)
  <2> HIDE DEF n
  <2>1. ASSUME NEW i \in 1 .. n
        PROVE  buf[(head + i - 1) % PIPE_SIZE] \in Bytes
    <3>1. head + i - 1 \in Int
      BY <1>n
    <3>2. (head + i - 1) % PIPE_SIZE \in 0 .. PIPE_SIZE - 1
      BY <3>1, ModRange
    <3> QED
      BY <3>2
  <2> QED
    BY <2>1, <1>n
<1>1. TypeOK'
  <2>1. dst' \in [Procs -> Seq(Bytes)]
    BY <1>d
  <2>2. head' \in 0 .. PIPE_SIZE - 1 /\ count' \in 0 .. PIPE_SIZE
    BY <1>n, <1>h
  <2>3. pc' \in [Procs -> Pcs] /\ state' \in [Procs -> {"RUNNING", "BLOCKED"}]
    BY DEF Pcs
  <2> QED
    BY <2>1, <2>2, <2>3
<1>2. OwnEnd'
  BY DEF OwnEnd, Pcs, LockHeld
<1>3. LockHeld'
  BY DEF LockHeld, Procs
<1>4. AboutToSleep'
  BY DEF AboutToSleep, LockHeld
<1>5. EndsCounted'
  BY EndsKept
<1>6. SleepersHaveReason'
  BY DEF SleepersHaveReason, Sleepers, AboutToSleep, LockHeld
<1> QED
  BY <1>1, <1>2, <1>3, <1>4, <1>5, <1>6

\* proc_sleep blocks the process for the reason it tested under the lock.
LEMMA SleepInv ==
  ASSUME IInv, NEW p \in Procs, Sleep(p)
  PROVE  IInv'
<1> USE DEF IInv, TypeOK, Sleep, At, Goto, pipeVars, procVars
<1>1. TypeOK'
  BY DEF Pcs, OwnEnd
<1>2. OwnEnd'
  BY DEF OwnEnd, Pcs, LockHeld
<1>3. LockHeld'
  BY DEF LockHeld, Procs
<1>4. AboutToSleep'
  BY DEF AboutToSleep, LockHeld
<1>5. EndsCounted'
  BY EndsKept
<1>6. SleepersHaveReason'
  BY DEF SleepersHaveReason, Sleepers, AboutToSleep, LockHeld
<1> QED
  BY <1>1, <1>2, <1>3, <1>4, <1>5, <1>6

\* sys_write starts with nothing done of a buffer of bytes.
LEMMA WriteInv ==
  ASSUME IInv, NEW p \in Procs, NEW s \in BoundedSeq(Bytes, MaxLen), Write(p, s)
  PROVE  IInv'
<1> USE DEF IInv, TypeOK, Write, At, Goto, pipeVars, procVars
<1>1. TypeOK'
  BY SMTT(40), BoundedIsSeq DEF Pcs, OwnEnd
<1>2. OwnEnd'
  BY DEF OwnEnd, Pcs, LockHeld
<1>3. LockHeld'
  BY DEF LockHeld, Procs
<1>4. AboutToSleep'
  BY DEF AboutToSleep, LockHeld
<1>5. EndsCounted'
  BY EndsKept
<1>6. SleepersHaveReason'
  BY DEF SleepersHaveReason, Sleepers, AboutToSleep, LockHeld
<1> QED
  BY <1>1, <1>2, <1>3, <1>4, <1>5, <1>6

\* The writer leaves with what it has written; it gives the lock back.
LEMMA WriteDoneInv ==
  ASSUME IInv, NEW p \in Procs, WriteDone(p)
  PROVE  IInv'
<1> USE DEF IInv, TypeOK, WriteDone, WriteTurn, WriteReturns, At, Goto, pipeVars, procVars
<1>1. TypeOK'
  BY DEF Pcs, OwnEnd
<1>2. OwnEnd'
  BY DEF OwnEnd, Pcs, LockHeld
<1>3. LockHeld'
  BY DEF LockHeld, Procs
<1>4. AboutToSleep'
  BY DEF AboutToSleep, LockHeld
<1>5. EndsCounted'
  BY EndsKept
<1>6. SleepersHaveReason'
  BY DEF SleepersHaveReason, Sleepers, AboutToSleep, LockHeld
<1> QED
  BY <1>1, <1>2, <1>3, <1>4, <1>5, <1>6

\* No reader is left: EPIPE.
LEMMA WriteBrokenInv ==
  ASSUME IInv, NEW p \in Procs, WriteBroken(p)
  PROVE  IInv'
<1> USE DEF IInv, TypeOK, WriteBroken, WriteTurn, At, Goto, pipeVars, procVars
<1>1. TypeOK'
  BY DEF Pcs, OwnEnd
<1>2. OwnEnd'
  BY DEF OwnEnd, Pcs, LockHeld
<1>3. LockHeld'
  BY DEF LockHeld, Procs
<1>4. AboutToSleep'
  BY DEF AboutToSleep, LockHeld
<1>5. EndsCounted'
  BY EndsKept
<1>6. SleepersHaveReason'
  BY DEF SleepersHaveReason, Sleepers, AboutToSleep, LockHeld
<1> QED
  BY <1>1, <1>2, <1>3, <1>4, <1>5, <1>6

\* SIGPIPE after the lock is released.
LEMMA WriteSigpipeInv ==
  ASSUME IInv, NEW p \in Procs, WriteSigpipe(p)
  PROVE  IInv'
<1> USE DEF IInv, TypeOK, WriteSigpipe, At, Goto, pipeVars, procVars
<1>1. TypeOK'
  BY DEF Pcs, OwnEnd
<1>2. OwnEnd'
  BY DEF OwnEnd, Pcs, LockHeld
<1>3. LockHeld'
  BY DEF LockHeld, Procs
<1>4. AboutToSleep'
  BY DEF AboutToSleep, LockHeld
<1>5. EndsCounted'
  BY EndsKept
<1>6. SleepersHaveReason'
  BY DEF SleepersHaveReason, Sleepers, AboutToSleep, LockHeld
<1> QED
  BY <1>1, <1>2, <1>3, <1>4, <1>5, <1>6

\* The full pipe wakes its readers; the writer keeps the lock, hence its reason.
LEMMA WriteSleepInv ==
  ASSUME IInv, NEW p \in Procs, WriteSleep(p)
  PROVE  IInv'
<1> USE DEF IInv, TypeOK, WriteSleep, WriteTurn, Wakeup, Sleepers, At, Goto, pipeVars, procVars
<1>1. TypeOK'
  BY DEF Pcs, OwnEnd
<1>2. OwnEnd'
  BY DEF OwnEnd, Pcs, LockHeld
<1>3. LockHeld'
  BY DEF LockHeld, Procs
<1>4. AboutToSleep'
  BY DEF AboutToSleep, LockHeld
<1>5. EndsCounted'
  BY EndsKept
<1>6. SleepersHaveReason'
  BY DEF SleepersHaveReason, Sleepers, AboutToSleep, LockHeld
<1> QED
  BY <1>1, <1>2, <1>3, <1>4, <1>5, <1>6

\* Data is put: sleeping readers are woken, and no writer sleeps since there was room.
LEMMA WriteDataInv ==
  ASSUME IInv, NEW p \in Procs, WriteData(p)
  PROVE  IInv'
<1> USE DEF IInv, TypeOK, WriteData, WriteTurn, Wakeup, WokenByData, Sleepers, MinOf, Room, At, Goto, pipeVars, procVars
<1> DEFINE n == MinOf(Len(src[p]) - done[p], Room)
           tail == (head + count) % PIPE_SIZE
<1>n. n \in 1 .. PIPE_SIZE - count /\ done[p] + n <= Len(src[p])
  <2>1. Len(src[p]) \in Nat /\ done[p] \in Nat /\ done[p] < Len(src[p]) /\ count < PIPE_SIZE
    OBVIOUS
  <2>2. Len(src[p]) - done[p] \in Nat \ {0} /\ Room \in Nat \ {0}
    BY SMTT(40), <2>1
  <2>3. n \in Nat \ {0} /\ n <= Len(src[p]) - done[p] /\ n <= Room
    BY <2>2, MinBounds
  <2>4. Room = PIPE_SIZE - count /\ count \in Nat
    OBVIOUS
  <2> HIDE DEF n, IInv, WriteData, Room
  <2> QED
    BY <2>1, <2>3, <2>4
<1>a. /\ count' = count + n /\ done' = [done EXCEPT ![p] = @ + n]
      /\ done \in [Procs -> Nat] /\ count \in Nat /\ src' = src /\ Len(src[p]) \in Nat
      /\ \A q \in Procs : done[q] <= Len(src[q])
  BY SMTT(30)
<1>t. tail \in 0 .. PIPE_SIZE - 1
  <2>1. head + count \in Int
    OBVIOUS
  <2> QED
    BY <2>1, ModRange
<1>b. buf' \in [0 .. PIPE_SIZE - 1 -> Bytes]
  <2> DEFINE k(i) == (i - tail + PIPE_SIZE) % PIPE_SIZE
  <2> HIDE DEF n, tail
  <2>1. ASSUME NEW i \in 0 .. PIPE_SIZE - 1
        PROVE  (IF k(i) < n THEN src[p][done[p] + k(i) + 1] ELSE buf[i]) \in Bytes
    <3>1. i - tail + PIPE_SIZE \in Int
      BY <1>t
    <3>2. k(i) \in 0 .. PIPE_SIZE - 1
      BY <3>1, ModRange
    <3> HIDE DEF k
    <3>3. k(i) < n => done[p] + k(i) + 1 \in 1 .. Len(src[p])
      <4> HIDE DEF IInv, WriteData
      <4> QED
        BY <3>2, <1>n, <1>a
    <3> QED
      BY <3>3
  <2> USE DEF n, tail
  <2>2. buf' = [i \in 0 .. PIPE_SIZE - 1 |-> IF k(i) < n THEN src[p][done[p] + k(i) + 1] ELSE buf[i]]
    OBVIOUS
  <2> HIDE DEF k, n, tail
  <2> QED
    BY <2>1, <2>2
<1>1. TypeOK'
  <2> HIDE DEF n
  <2>1. /\ count' \in 0 .. PIPE_SIZE
        /\ done' \in [Procs -> Nat] /\ \A q \in Procs : done'[q] <= Len(src'[q])
    <3> HIDE DEF IInv, WriteData
    <3> QED
      BY <1>n, <1>a
  <2>3. state' \in [Procs -> {"RUNNING", "BLOCKED"}]
    OBVIOUS
  <2> QED
    BY <1>b, <2>1, <2>3
<1>2. OwnEnd'
  BY DEF OwnEnd, Pcs, LockHeld
<1>3. LockHeld'
  BY DEF LockHeld, Procs
<1>4. AboutToSleep'
  BY DEF AboutToSleep, LockHeld
<1>5. EndsCounted'
  BY EndsKept
<1>6. SleepersHaveReason'
  <2>1. Sleepers("w_lock") = {}
    BY DEF SleepersHaveReason
  <2>2. Sleepers("r_lock")' = {} /\ Sleepers("w_lock")' = {}
    BY <2>1
  <2> QED
    BY <2>2 DEF SleepersHaveReason
<1> QED
  BY <1>1, <1>2, <1>3, <1>4, <1>5, <1>6

\* file_close counts one process less on its end; the last one goes to release it.
LEMMA CloseInv ==
  ASSUME IInv, NEW p \in Procs, Close(p)
  PROVE  IInv'
<1> USE DEF IInv, TypeOK, Close, End, At, Goto, pipeVars, procVars
<1> DEFINE new == IF refs[End(p)] > 1 THEN "closed" ELSE "release"
<1>n. new \in {"release", "closed"} /\ pc' = [pc EXCEPT ![p] = new]
  OBVIOUS
<1>r. ASSUME p \in Readers
      PROVE  /\ refs["r"] = Cardinality(Open(Readers)) /\ refs["r"] > 0
             /\ Cardinality(Open(Readers)') = refs["r"] - 1
             /\ refs["r"] > 1 <=> \E q \in Open(Readers) : q # p
  <2>1. p \in Open(Readers) /\ Readers \subseteq Procs
    BY <1>r DEF Open, Procs
  <2>2. /\ Cardinality(Open(Readers)) \in Nat
        /\ Cardinality(Open(Readers)') = Cardinality(Open(Readers)) - 1
        /\ Cardinality(Open(Readers)) > 1 <=> \E q \in Open(Readers) : q # p
    <3> HIDE DEF new, IInv, TypeOK, Close
    <3>1. pc \in [Procs -> Pcs]
      BY DEF IInv, TypeOK
    <3> QED
      BY <2>1, <1>n, <3>1, OneLess
  <2>3. Cardinality(Open(Readers)) # 0
    BY <2>1, FS_Subset, FS_EmptySet DEF Open
  <2> QED
    BY <2>2, <2>3 DEF EndsCounted, EndOpen
<1>w. ASSUME p \in Writers
      PROVE  /\ refs["w"] = Cardinality(Open(Writers)) /\ refs["w"] > 0
             /\ Cardinality(Open(Writers)') = refs["w"] - 1
             /\ refs["w"] > 1 <=> \E q \in Open(Writers) : q # p
  <2>1. p \in Open(Writers) /\ Writers \subseteq Procs
    BY <1>w DEF Open, Procs
  <2>2. /\ Cardinality(Open(Writers)) \in Nat
        /\ Cardinality(Open(Writers)') = Cardinality(Open(Writers)) - 1
        /\ Cardinality(Open(Writers)) > 1 <=> \E q \in Open(Writers) : q # p
    <3> HIDE DEF new, IInv, TypeOK, Close
    <3>1. pc \in [Procs -> Pcs]
      BY DEF IInv, TypeOK
    <3> QED
      BY <2>1, <1>n, <3>1, OneLess
  <2>3. Cardinality(Open(Writers)) # 0
    BY <2>1, FS_Subset, FS_EmptySet DEF Open
  <2> QED
    BY <2>2, <2>3 DEF EndsCounted, EndOpen
<1>1. TypeOK'
  <2>1. refs' \in [{"r", "w"} -> Nat]
    <3>1. End(p) \in {"r", "w"} /\ refs[End(p)] - 1 \in Nat
      <4>1. refs["r"] \in Nat /\ refs["w"] \in Nat /\ (p \in Readers \/ p \in Writers)
        BY DEF Procs
      <4>2. CASE p \in Readers
        BY <4>1, <4>2, <1>r
      <4>3. CASE p \in Writers
        <5>1. End(p) = "w"
          BY <4>3
        <5> QED
          BY <4>1, <4>3, <5>1, <1>w
      <4> QED
        BY <4>1, <4>2, <4>3
    <3> QED
      BY <3>1
  <2> QED
    BY <2>1 DEF Pcs
<1>2. OwnEnd'
  BY DEF OwnEnd, Pcs, LockHeld
<1>3. LockHeld'
  BY DEF LockHeld, Procs
<1>4. AboutToSleep'
  BY DEF AboutToSleep, LockHeld
<1>5. EndsCounted'
  <2>1. CASE p \in Readers
    <3>1. Open(Writers)' = Open(Writers)
      BY <2>1 DEF Open
    <3>2. EndOpen(Writers, writers, refs["w"])'
      BY <2>1, <3>1 DEF EndsCounted, EndOpen, Procs
    <3>3. refs["r"]' = Cardinality(Open(Readers)')
      BY <2>1, <1>r
    <3>4. \A q \in Readers : q # p /\ new = "release" => pc[q] = "closed"
      BY <2>1, <1>r DEF Open, EndsCounted, EndOpen
    <3>5. new = "closed" => \E q \in Readers : q # p /\ pc[q] # "closed"
      BY <2>1, <1>r DEF Open
    <3>6. EndOpen(Readers, readers, refs["r"])'
      BY <2>1, <3>3, <3>4, <3>5 DEF EndsCounted, EndOpen, Procs
    <3> QED
      BY <3>2, <3>6 DEF EndsCounted
  <2>2. CASE p \in Writers
    <3>1. Open(Readers)' = Open(Readers)
      BY <2>2 DEF Open
    <3>2. EndOpen(Readers, readers, refs["r"])'
      BY <2>2, <3>1 DEF EndsCounted, EndOpen, Procs
    <3>3. refs["w"]' = Cardinality(Open(Writers)')
      BY <2>2, <1>w
    <3>4. \A q \in Writers : q # p /\ new = "release" => pc[q] = "closed"
      BY <2>2, <1>w DEF Open, EndsCounted, EndOpen
    <3>5. new = "closed" => \E q \in Writers : q # p /\ pc[q] # "closed"
      BY <2>2, <1>w DEF Open
    <3>6. EndOpen(Writers, writers, refs["w"])'
      BY <2>2, <3>3, <3>4, <3>5 DEF EndsCounted, EndOpen, Procs
    <3> QED
      BY <3>2, <3>6 DEF EndsCounted
  <2> QED
    BY <2>1, <2>2 DEF Procs
<1>6. SleepersHaveReason'
  BY DEF SleepersHaveReason, Sleepers, AboutToSleep, LockHeld
<1> QED
  BY <1>1, <1>2, <1>3, <1>4, <1>5, <1>6

\* pipe_release: the end's count falls to 0, all sleepers are woken, the second one frees.
LEMMA ReleaseInv ==
  ASSUME IInv, NEW p \in Procs, Release(p)
  PROVE  IInv'
<1> USE DEF IInv, TypeOK, Release, Wakeup, WokenByClose, Sleepers, Dead, At, Goto, pipeVars, procVars
<1>o. Open(Readers)' = Open(Readers) /\ Open(Writers)' = Open(Writers)
  BY DEF Open, Procs
<1>r. p \in Readers => readers = 1 /\ readers' = 0 /\ writers' = writers
  BY DEF EndsCounted, EndOpen
<1>w. p \in Writers => writers = 1 /\ writers' = 0 /\ readers' = readers
  BY DEF EndsCounted, EndOpen
<1>f. freed = 0 /\ (freed' = 1 <=> readers' = 0 /\ writers' = 0) /\ freed' \in {0, 1}
  BY SMTT(30), <1>r, <1>w DEF EndsCounted, Procs
<1>1. TypeOK'
  BY <1>r, <1>w, <1>f DEF Pcs, OwnEnd, Procs
<1>2. OwnEnd'
  BY DEF OwnEnd, Pcs, LockHeld
<1>3. LockHeld'
  BY DEF LockHeld, Procs
<1>4. AboutToSleep'
  BY DEF AboutToSleep, LockHeld
<1>5. EndsCounted'
  <2>1. EndOpen(Readers, readers, refs["r"])'
    BY SMTT(30), <1>o, <1>r, <1>w DEF EndsCounted, EndOpen, Procs
  <2>2. EndOpen(Writers, writers, refs["w"])'
    BY SMTT(30), <1>o, <1>r, <1>w DEF EndsCounted, EndOpen, Procs
  <2> QED
    BY <2>1, <2>2, <1>f DEF EndsCounted
<1>6. SleepersHaveReason'
  BY DEF SleepersHaveReason, Sleepers, AboutToSleep, LockHeld
<1> QED
  BY <1>1, <1>2, <1>3, <1>4, <1>5, <1>6

\* The inductive invariant holds in every state of a pipe.
THEOREM PipeInvariant == Spec => []IInv
<1>1. Init => IInv
  <2> SUFFICES ASSUME Init
               PROVE  IInv
    OBVIOUS
  <2> USE DEF Init
  <2>1. TypeOK
    <3>1. (CHOOSE b \in Bytes : TRUE) \in Bytes
      OBVIOUS
    <3>2. Cardinality(Readers) \in Nat /\ Cardinality(Writers) \in Nat
      BY FS_CardinalityType
    <3> QED
      BY <3>1, <3>2 DEF TypeOK, Pcs
  <2>2. EndsCounted
    <3>1. Open(Readers) = Readers /\ Open(Writers) = Writers
      BY DEF Open, Procs
    <3> QED
      BY <3>1 DEF EndsCounted, EndOpen, Procs
  <2> QED
    BY <2>1, <2>2 DEF IInv, OwnEnd, LockHeld, AboutToSleep, SleepersHaveReason, Sleepers
<1>2. IInv /\ [Next]_vars => IInv'
  <2> SUFFICES ASSUME IInv, [Next]_vars
               PROVE  IInv'
    OBVIOUS
  <2>1. CASE UNCHANGED vars
    <3> USE <2>1 DEF vars, pipeVars, procVars
    <3>1. EndsCounted'
      BY EndsKept DEF IInv
    <3> QED
      BY <3>1 DEF IInv, TypeOK, OwnEnd, LockHeld, AboutToSleep, SleepersHaveReason, Sleepers
  <2>2. ASSUME NEW p \in Procs, KernelStep(p)
        PROVE  IInv'
    BY <2>2, ReadNothingInv, ReadSleepInv, ReadDataInv, SleepInv, WriteDoneInv, WriteBrokenInv,
       WriteSigpipeInv, WriteSleepInv, WriteDataInv, ReleaseInv DEF KernelStep
  <2>3. ASSUME NEW p \in Procs, Program(p)
        PROVE  IInv'
    BY <2>3, ReadInv, WriteInv, CloseInv DEF Program
  <2>4. ASSUME NEW p \in Procs, Signal(p) \/ Deliver(p)
        PROVE  IInv'
    BY <2>4, SignalInv, DeliverInv
  <2> QED
    BY <2>1, <2>2, <2>3, <2>4 DEF Next
<1> QED
  BY <1>1, <1>2, PTL DEF Spec

\* Nobody sleeps through data, room or the close of the other end (pipe_read,
\* pipe_write, pipe_release).
THEOREM SleepersNotForgotten == Spec => []SleepersHaveReason
<1>1. IInv => SleepersHaveReason
  BY DEF IInv
<1> QED
  BY <1>1, PipeInvariant, PTL

\* pipe_release frees the pipe once, when no process can reach it any more.
THEOREM PipeFreedOnce == Spec => []FreedOnceUnused
<1>1. IInv => FreedOnceUnused
  <2> SUFFICES ASSUME IInv, freed > 0
               PROVE  refs = [r |-> 0, w |-> 0] /\ \A p \in Procs : pc[p] = "closed"
    BY DEF FreedOnceUnused, IInv, TypeOK
  <2>1. readers = 0 /\ writers = 0
    BY DEF IInv, TypeOK, EndsCounted
  <2>2. \A p \in Procs : pc[p] = "closed"
    BY <2>1 DEF IInv, EndsCounted, EndOpen, Procs
  <2>3. Open(Readers) = {} /\ Open(Writers) = {}
    BY <2>2 DEF Open, Procs
  <2>4. refs["r"] = 0 /\ refs["w"] = 0
    BY <2>3, FS_EmptySet DEF IInv, EndsCounted, EndOpen
  <2> QED
    BY <2>2, <2>4 DEF IInv, TypeOK
<1> QED
  BY <1>1, PipeInvariant, PTL

-----------------------------------------------------------------------------
(* The ring buffer is a queue.                                              *)

\* The c bytes from position h of the buffer b on, and how far position i lies
\* behind the end of them.
Ring(b, h, c) == [i \in 1 .. c |-> b[(h + i - 1) % PIPE_SIZE]]
Behind(i, h, c) == (i - ((h + c) % PIPE_SIZE) + PIPE_SIZE) % PIPE_SIZE

\* b2 is b with n bytes of s, from d on, written behind the c bytes from h on.
Written(b2, b, h, c, n, s, d) ==
    \A i \in 0 .. PIPE_SIZE - 1 :
       b2[i] = IF Behind(i, h, c) < n THEN s[d + Behind(i, h, c) + 1] ELSE b[i]

\* The bytes of the ring are a sequence, read round the end of the buffer.
LEMMA RingIsSeq ==
  ASSUME NEW b \in [0 .. PIPE_SIZE - 1 -> Bytes], NEW h \in 0 .. PIPE_SIZE - 1,
         NEW c \in 0 .. PIPE_SIZE
  PROVE  /\ Ring(b, h, c) \in Seq(Bytes) /\ Len(Ring(b, h, c)) = c
         /\ \A i \in 1 .. c : Ring(b, h, c)[i] = b[(h + i - 1) % PIPE_SIZE]
<1>1. ASSUME NEW i \in 1 .. c
      PROVE  b[(h + i - 1) % PIPE_SIZE] \in Bytes
  <2>1. h + i - 1 \in Int
    OBVIOUS
  <2>2. (h + i - 1) % PIPE_SIZE \in 0 .. PIPE_SIZE - 1
    BY <2>1, ModRange
  <2> QED
    BY <2>2
<1> QED
  BY <1>1 DEF Ring

\* Where the read after a read of n bytes finds its bytes.
LEMMA Rotated ==
  ASSUME NEW h \in 0 .. PIPE_SIZE - 1, NEW c \in 0 .. PIPE_SIZE, NEW n \in 1 .. c,
         NEW i \in 1 .. c - n
  PROVE  (((h + n) % PIPE_SIZE) + i - 1) % PIPE_SIZE = (h + (n + i) - 1) % PIPE_SIZE
<1>1. h + n \in 0 .. 2 * PIPE_SIZE - 1
  OBVIOUS
<1>2. (h + n) % PIPE_SIZE = IF h + n < PIPE_SIZE THEN h + n ELSE h + n - PIPE_SIZE
  BY <1>1, ModOnce
<1> DEFINE m == (h + n) % PIPE_SIZE
<1>3. m \in 0 .. PIPE_SIZE - 1
  BY <1>1, ModRange
<1> HIDE DEF m
<1>4. m + i - 1 \in 0 .. 2 * PIPE_SIZE - 1 /\ h + (n + i) - 1 \in 0 .. 2 * PIPE_SIZE - 1
  BY <1>3
<1>5. (m + i - 1) % PIPE_SIZE = IF m + i - 1 < PIPE_SIZE THEN m + i - 1 ELSE m + i - 1 - PIPE_SIZE
  BY <1>3, <1>4, ModOnce
<1>6. (h + (n + i) - 1) % PIPE_SIZE =
        IF h + (n + i) - 1 < PIPE_SIZE THEN h + (n + i) - 1 ELSE h + (n + i) - 1 - PIPE_SIZE
  BY SMTT(30), <1>4, ModOnce
<1>7. m = IF h + n < PIPE_SIZE THEN h + n ELSE h + n - PIPE_SIZE
  BY <1>2 DEF m
<1>8. (m + i - 1) % PIPE_SIZE = (h + (n + i) - 1) % PIPE_SIZE
  BY <1>5, <1>6, <1>7, <1>3
<1> QED
  BY <1>8 DEF m

\* The bytes that are in the pipe are not written over, the new ones follow them.
LEMMA BehindTail ==
  ASSUME NEW h \in 0 .. PIPE_SIZE - 1, NEW c \in 0 .. PIPE_SIZE - 1,
         NEW n \in 1 .. PIPE_SIZE - c, NEW i \in 1 .. c + n
  PROVE  /\ (h + i - 1) % PIPE_SIZE \in 0 .. PIPE_SIZE - 1
         /\ i <= c => Behind((h + i - 1) % PIPE_SIZE, h, c) >= n
         /\ i > c => Behind((h + i - 1) % PIPE_SIZE, h, c) = i - c - 1
<1> DEFINE at == (h + i - 1) % PIPE_SIZE
           tail == (h + c) % PIPE_SIZE
           k == (at - tail + PIPE_SIZE) % PIPE_SIZE
<1>1. h + i - 1 \in 0 .. 2 * PIPE_SIZE - 1 /\ h + c \in 0 .. 2 * PIPE_SIZE - 1
  OBVIOUS
<1>2. at = IF h + i - 1 < PIPE_SIZE THEN h + i - 1 ELSE h + i - 1 - PIPE_SIZE
  BY <1>1, ModOnce
<1>3. tail = IF h + c < PIPE_SIZE THEN h + c ELSE h + c - PIPE_SIZE
  BY <1>1, ModOnce
<1> HIDE DEF at, tail
<1>4. at \in 0 .. PIPE_SIZE - 1 /\ tail \in 0 .. PIPE_SIZE - 1
  BY <1>1, <1>2, <1>3
<1>5. at - tail + PIPE_SIZE \in 0 .. 2 * PIPE_SIZE - 1
  BY <1>4
<1>6. k = IF at - tail + PIPE_SIZE < PIPE_SIZE THEN at - tail + PIPE_SIZE ELSE at - tail
  BY <1>4, <1>5, ModOnce
<1> HIDE DEF k
<1>7. (i <= c => k >= n) /\ (i > c => k = i - c - 1)
  BY <1>2, <1>3, <1>4, <1>6
<1> QED
  BY <1>4, <1>7 DEF k, at, tail, Behind

\* What a read leaves, and what it takes.
LEMMA RingRead ==
  ASSUME NEW b \in [0 .. PIPE_SIZE - 1 -> Bytes], NEW h \in 0 .. PIPE_SIZE - 1,
         NEW c \in 0 .. PIPE_SIZE, NEW n \in 1 .. c
  PROVE  /\ Len(Ring(b, h, c)) = c
         /\ Ring(b, h, n) = SubSeq(Ring(b, h, c), 1, n)
         /\ Ring(b, (h + n) % PIPE_SIZE, c - n) = SubSeq(Ring(b, h, c), n + 1, c)
<1> DEFINE m == (h + n) % PIPE_SIZE
           R == Ring(b, h, c)
<1> USE SizeAssumption
<1>3. /\ R \in Seq(Bytes) /\ Len(R) = c
      /\ \A i \in 1 .. c : R[i] = b[(h + i - 1) % PIPE_SIZE]
  BY RingIsSeq
<1>4. \A i \in 1 .. c - n : (m + i - 1) % PIPE_SIZE = (h + (n + i) - 1) % PIPE_SIZE
  BY Rotated
<1>5. \A i \in 1 .. c - n : n + i \in 1 .. c /\ n + 1 + i - 1 = n + i
  OBVIOUS
<1>6. c \in Nat /\ n \in Nat /\ 1 <= n /\ n <= c /\ c - n \in Nat
  OBVIOUS
<1> HIDE DEF R, m
<1>7. \A i \in 1 .. c - n : b[(m + i - 1) % PIPE_SIZE] = R[n + i]
  BY <1>3, <1>4, <1>5
<1>8. Ring(b, m, c - n) = [i \in 1 .. c - n |-> R[n + i]]
  BY <1>7 DEF Ring
<1>9. SubSeq(R, n + 1, c) = [i \in 1 .. c - n |-> R[n + i]]
  BY <1>3, <1>6
<1>10. SubSeq(R, 1, n) = [i \in 1 .. n |-> R[i]]
  BY <1>3, <1>6
<1>11. \A i \in 1 .. n : b[(h + i - 1) % PIPE_SIZE] = R[i]
  BY <1>3, <1>6
<1>12. Ring(b, h, n) = [i \in 1 .. n |-> R[i]]
  BY <1>11 DEF Ring
<1> QED
  BY <1>3, <1>8, <1>9, <1>10, <1>12 DEF R, m

\* Concatenation as a function of the position.
LEMMA ConcatIs ==
  ASSUME NEW B, NEW s \in Seq(B), NEW t \in Seq(B)
  PROVE  s \o t = [i \in 1 .. Len(s) + Len(t) |->
                     IF i <= Len(s) THEN s[i] ELSE t[i - Len(s)]]
<1> DEFINE st == s \o t
<1>1. st \in Seq(B) /\ Len(st) = Len(s) + Len(t)
  OBVIOUS
<1>2. \A i \in 1 .. Len(s) + Len(t) : st[i] = IF i <= Len(s) THEN s[i] ELSE t[i - Len(s)]
  OBVIOUS
<1> HIDE DEF st
<1>3. st = [i \in 1 .. Len(s) + Len(t) |-> st[i]]
  BY <1>1
<1> QED
  BY <1>2, <1>3 DEF st

\* What a write leaves: the bytes that were there, then the new ones.
LEMMA RingWrite ==
  ASSUME NEW b \in [0 .. PIPE_SIZE - 1 -> Bytes], NEW h \in 0 .. PIPE_SIZE - 1,
         NEW c \in 0 .. PIPE_SIZE - 1, NEW n \in 1 .. PIPE_SIZE - c,
         NEW s \in Seq(Bytes), NEW d \in Nat, d + n <= Len(s),
         NEW b2, Written(b2, b, h, c, n, s, d)
  PROVE  /\ Len(Ring(b, h, c)) = c
         /\ Ring(b2, h, c + n) = Ring(b, h, c) \o SubSeq(s, d + 1, d + n)
<1> DEFINE R == Ring(b, h, c)
           S == SubSeq(s, d + 1, d + n)
<1> USE SizeAssumption
<1>1. /\ R \in Seq(Bytes) /\ Len(R) = c
      /\ \A i \in 1 .. c : R[i] = b[(h + i - 1) % PIPE_SIZE]
  <2>1. c \in 0 .. PIPE_SIZE
    OBVIOUS
  <2> QED
    BY <2>1, RingIsSeq
<1>2. c \in Nat /\ n \in Nat /\ Len(s) \in Nat
  OBVIOUS
<1>3. S = [j \in 1 .. n |-> s[d + j]]
  BY <1>2
<1>4. S \in Seq(Bytes) /\ Len(S) = n
  BY <1>2
<1> HIDE DEF R, S
<1>5. R \o S = [i \in 1 .. c + n |-> IF i <= c THEN R[i] ELSE S[i - c]]
  <2>1. R \o S = [i \in 1 .. Len(R) + Len(S) |-> IF i <= Len(R) THEN R[i] ELSE S[i - Len(R)]]
    BY ONLY <1>1, <1>4, ConcatIs
  <2> QED
    BY <1>1, <1>4, <2>1
<1>6. ASSUME NEW i \in 1 .. c + n
      PROVE  b2[(h + i - 1) % PIPE_SIZE] = IF i <= c THEN R[i] ELSE S[i - c]
  <2> DEFINE at == (h + i - 1) % PIPE_SIZE
             k == Behind(at, h, c)
  <2>1. at \in 0 .. PIPE_SIZE - 1 /\ (i <= c => k >= n) /\ (i > c => k = i - c - 1)
    BY BehindTail
  <2>2. k \in Int
    <3>1. (h + c) % PIPE_SIZE \in Int
      BY <1>2, ModRange
    <3> HIDE DEF at
    <3> QED
      BY <2>1, <3>1, ModRange DEF Behind
  <2> HIDE DEF at
  <2>3. b2[at] = IF k < n THEN s[d + k + 1] ELSE b[at]
    BY <2>1 DEF Written
  <2> HIDE DEF k
  <2>4. CASE i <= c
    <3>1. ~(k < n)
      BY <1>2, <2>1, <2>2, <2>4
    <3>2. b2[at] = b[at]
      BY <2>3, <3>1
    <3>3. R[i] = b[at]
      BY <1>1, <1>2, <2>4 DEF at
    <3> QED
      BY <2>4, <3>2, <3>3 DEF at
  <2>5. CASE i > c
    <3>1. k < n /\ d + k + 1 = d + (i - c) /\ i - c \in 1 .. n
      BY <1>2, <2>1, <2>5
    <3>2. b2[at] = s[d + (i - c)]
      BY <2>3, <3>1
    <3>3. S[i - c] = s[d + (i - c)]
      BY <1>3, <3>1
    <3>4. ~(i <= c)
      BY <1>2, <2>5
    <3> QED
      BY <3>2, <3>3, <3>4 DEF at
  <2> QED
    BY <1>2, <2>4, <2>5
<1>7. Ring(b2, h, c + n) = [i \in 1 .. c + n |-> IF i <= c THEN R[i] ELSE S[i - c]]
  BY <1>6 DEF Ring
<1> QED
  BY <1>1, <1>5, <1>7 DEF R, S

\* A read takes the oldest bytes.
LEMMA ReadGets ==
  ASSUME IInv, NEW p \in Procs, ReadData(p)
  PROVE  Queue!Get(p)
<1> DEFINE len == MinOf(want[p], count)
<1>1. len \in 1 .. count /\ head \in 0 .. PIPE_SIZE - 1 /\ count \in 0 .. PIPE_SIZE
  <2>1. want[p] \in Nat \ {0} /\ count \in Nat \ {0}
    BY DEF IInv, TypeOK, OwnEnd, ReadData, At
  <2>2. len \in Nat \ {0} /\ len <= count
    BY <2>1, MinBounds
  <2> HIDE DEF len
  <2> QED
    BY <2>1, <2>2 DEF IInv, TypeOK
<1>2. /\ dst' = [dst EXCEPT ![p] = Ring(buf, head, len)]
      /\ head' = (head + len) % PIPE_SIZE /\ count' = count - len /\ buf' = buf
      /\ UNCHANGED <<src, done>>
  BY DEF ReadData, NewHead, ReadReturns, Ring
<1> HIDE DEF len
<1>3. Contents = Ring(buf, head, count)
  BY DEF Contents, Ring
<1>4. Contents' = Ring(buf, (head + len) % PIPE_SIZE, count - len)
  BY <1>2 DEF Contents, Ring
<1>5. buf \in [0 .. PIPE_SIZE - 1 -> Bytes]
  BY DEF IInv, TypeOK
<1>6. /\ Len(Contents) = count
      /\ Ring(buf, head, len) = SubSeq(Contents, 1, len)
      /\ Contents' = SubSeq(Contents, len + 1, count)
  <2>1. /\ Len(Ring(buf, head, count)) = count
        /\ Ring(buf, head, len) = SubSeq(Ring(buf, head, count), 1, len)
        /\ Ring(buf, (head + len) % PIPE_SIZE, count - len)
              = SubSeq(Ring(buf, head, count), len + 1, count)
    BY ONLY <1>1, <1>5, RingRead
  <2> QED
    BY <1>3, <1>4, <2>1
<1> QED
  BY <1>1, <1>2, <1>6 DEF Queue!Get

\* A write puts the next bytes of its buffer behind the ones that are there.
LEMMA WritePuts ==
  ASSUME IInv, NEW p \in Procs, WriteData(p)
  PROVE  Queue!Put(p)
<1> DEFINE len == MinOf(Len(src[p]) - done[p], Room)
<1>1. /\ len \in 1 .. PIPE_SIZE - count /\ len \in 1 .. Len(src[p]) - done[p]
      /\ head \in 0 .. PIPE_SIZE - 1 /\ count \in 0 .. PIPE_SIZE - 1
      /\ Len(src[p]) \in Nat /\ done[p] \in Nat /\ src[p] \in Seq(Bytes)
  <2>1. /\ Len(src[p]) \in Nat /\ done[p] \in Nat /\ done[p] < Len(src[p])
        /\ count \in Nat /\ count < PIPE_SIZE /\ src[p] \in Seq(Bytes)
    BY DEF IInv, TypeOK, WriteData
  <2>2. Len(src[p]) - done[p] \in Nat \ {0} /\ Room \in Nat \ {0}
    BY <2>1 DEF Room
  <2>3. len \in Nat \ {0} /\ len <= Len(src[p]) - done[p] /\ len <= Room
    BY <2>2, MinBounds
  <2> HIDE DEF len
  <2> QED
    BY <2>1, <2>3 DEF Room, IInv, TypeOK
<1>2. \A i \in 0 .. PIPE_SIZE - 1 :
         buf'[i] = IF Behind(i, head, count) < len
                   THEN src[p][done[p] + Behind(i, head, count) + 1] ELSE buf[i]
  <2>1. DOMAIN buf = 0 .. PIPE_SIZE - 1
    BY DEF IInv, TypeOK
  <2>2. ASSUME NEW i \in DOMAIN buf
        PROVE  buf'[i] = IF Behind(i, head, count) < len
                         THEN src[p][done[p] + Behind(i, head, count) + 1] ELSE buf[i]
    BY ONLY WriteData(p), i \in DOMAIN buf DEF WriteData, Behind, len
  <2> QED
    BY ONLY <2>1, <2>2
<1>w. Written(buf', buf, head, count, len, src[p], done[p])
  BY ONLY <1>2 DEF Written
<1>a. /\ count' = count + len /\ head' = head
      /\ done' = [done EXCEPT ![p] = @ + len]
      /\ UNCHANGED <<src, dst>>
  BY DEF WriteData
<1> HIDE DEF len
<1>3. Contents = Ring(buf, head, count)
  BY DEF Contents, Ring
<1>4. Contents' = Ring(buf', head, count + len)
  BY <1>a DEF Contents, Ring
<1>5. buf \in [0 .. PIPE_SIZE - 1 -> Bytes] /\ done[p] + len <= Len(src[p])
  BY <1>1 DEF IInv, TypeOK
<1>6. /\ Len(Contents) = count
      /\ Contents' = Contents \o SubSeq(src[p], done[p] + 1, done[p] + len)
  <2>1. /\ Len(Ring(buf, head, count)) = count
        /\ Ring(buf', head, count + len)
              = Ring(buf, head, count) \o SubSeq(src[p], done[p] + 1, done[p] + len)
    <3>1. \A b2 : Written(b2, buf, head, count, len, src[p], done[p]) =>
                    /\ Len(Ring(buf, head, count)) = count
                    /\ Ring(b2, head, count + len)
                          = Ring(buf, head, count) \o SubSeq(src[p], done[p] + 1, done[p] + len)
      BY ONLY <1>1, <1>5, RingWrite, Zenon
    <3> QED
      BY ONLY <1>w, <3>1
  <2> QED
    BY <1>3, <1>4, <2>1
<1> QED
  <2>1. Len(Contents) + len <= PIPE_SIZE
    BY <1>1, <1>6
  <2> QED
    BY <1>1, <1>a, <1>6, <2>1 DEF Queue!Put

\* Reads and writes of any sizes by any number of processes treat the ring buffer
\* as a queue: no byte is lost, duplicated or reordered (pipe_read, pipe_write).
THEOREM PipeImplementsFifo == Spec => ImplementsFifo
<1>1. Init => Queue!Init
  <2> SUFFICES ASSUME Init
               PROVE  Contents = <<>>
    BY DEF Init, Queue!Init
  <2>1. count = 0
    BY DEF Init
  <2> QED
    BY <2>1 DEF Contents
<1>2. IInv /\ [Next]_vars => [Queue!Next]_(Queue!vars)
  <2> SUFFICES ASSUME IInv, [Next]_vars
               PROVE  [Queue!Next]_(Queue!vars)
    OBVIOUS
  <2> DEFINE Same == UNCHANGED <<Contents, src, done, dst>>
  <2> USE DEF pipeVars, procVars, Goto
  <2>1. ASSUME NEW p \in Procs, KernelStep(p)
        PROVE  Same \/ Queue!Next
    <3>1. CASE ReadData(p)
      BY <3>1, ReadGets DEF Queue!Next
    <3>2. CASE WriteData(p)
      BY <3>2, WritePuts DEF Queue!Next
    <3>3. CASE WriteDone(p)
      <4>1. <<>> \in Queue!BoundedSeq(Bytes, MaxLen)
        BY DEF Queue!BoundedSeq, Queue!SeqOf
      <4>2. Contents' = Contents
        BY <3>3 DEF WriteDone, WriteReturns, Contents
      <4>3. Queue!Begin(p)
        BY <3>3, <4>1, <4>2 DEF WriteDone, WriteReturns, Queue!Begin
      <4> QED
        BY <4>3 DEF Queue!Next
    <3>4. CASE WriteSigpipe(p)
      <4>1. <<>> \in Queue!BoundedSeq(Bytes, MaxLen)
        BY DEF Queue!BoundedSeq, Queue!SeqOf
      <4>2. Contents' = Contents
        BY <3>4 DEF WriteSigpipe, Contents
      <4>3. done' = [done EXCEPT ![p] = 0]
        BY <3>4 DEF WriteSigpipe, At, IInv, TypeOK, OwnEnd
      <4>4. Queue!Begin(p)
        BY <3>4, <4>1, <4>2, <4>3 DEF WriteSigpipe, Queue!Begin
      <4> QED
        BY <4>4 DEF Queue!Next
    <3>5. CASE ReadNothing(p)
      BY <3>5 DEF ReadNothing, ReadReturns, Contents
    <3>6. CASE ReadSleep(p) \/ Sleep(p) \/ WriteBroken(p) \/ WriteSleep(p) \/ Release(p)
      BY <3>6 DEF ReadSleep, Sleep, WriteBroken, WriteSleep, Release, Contents
    <3> QED
      BY <2>1, <3>1, <3>2, <3>3, <3>4, <3>5, <3>6 DEF KernelStep
  <2>2. ASSUME NEW p \in Procs, NEW n \in 1 .. MaxLen, Read(p, n)
        PROVE  Queue!Nothing(p)
    BY <2>2 DEF Read, Queue!Nothing, Contents
  <2>3. ASSUME NEW p \in Procs, NEW s \in BoundedSeq(Bytes, MaxLen), Write(p, s)
        PROVE  Queue!Begin(p)
    BY <2>3 DEF Write, Queue!Begin, Contents, BoundedSeq, SeqOf, Queue!BoundedSeq, Queue!SeqOf
  <2>4. ASSUME NEW p \in Procs, Close(p) \/ Signal(p) \/ Deliver(p)
        PROVE  Same
    BY <2>4 DEF Close, Signal, Deliver, Contents
  <2>5. CASE UNCHANGED vars
    <3>1. UNCHANGED <<buf, head, count, src, done, dst>>
      BY <2>5 DEF vars
    <3>2. Contents' = Contents
      BY <3>1 DEF Contents
    <3> QED
      BY <3>1, <3>2 DEF Queue!vars
  <2> QED
    BY <2>1, <2>2, <2>3, <2>4, <2>5 DEF Next, Program, Queue!Next, Queue!vars
<1> QED
  BY <1>1, <1>2, PipeInvariant, PTL DEF Spec, ImplementsFifo, Queue!Spec
=============================================================================

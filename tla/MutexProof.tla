----------------------------- MODULE MutexProof -----------------------------
(***************************************************************************)
(* Proofs about Mutex, for every set of threads and every set of CPUs:     *)
(* mutex_lock and mutex_unlock implement a lock.                           *)
(***************************************************************************)
EXTENDS Mutex, FiniteSetTheorems, TLAPS

USE NoneAssumption

\* push_off has depth 0 on a CPU exactly when it holds neither spinlock.
LEMMA NoSpinlockHeld ==
  ASSUME NEW c
  PROVE  ncli(c) = 0 <=> mlock # c /\ proc_lock # c
<1> DEFINE L == {<<"m", mlock>>, <<"proc", proc_lock>>}
           H == {l \in L : l[2] = c}
<1>1. IsFiniteSet(L)
  <2>1. IsFiniteSet({<<"m", mlock>>})
    BY FS_Singleton
  <2>2. IsFiniteSet({<<"m", mlock>>} \cup {<<"proc", proc_lock>>})
    BY <2>1, FS_AddElement
  <2>3. L = {<<"m", mlock>>} \cup {<<"proc", proc_lock>>}
    OBVIOUS
  <2> QED
    BY <2>2, <2>3
<1>2. IsFiniteSet(H)
  BY <1>1, FS_Subset
<1>3. Cardinality(H) = 0 <=> H = {}
  BY <1>2, FS_EmptySet
<1>4. mlock = c => <<"m", mlock>> \in H
  OBVIOUS
<1>5. proc_lock = c => <<"proc", proc_lock>> \in H
  OBVIOUS
<1>6. \A l \in H : (l = <<"m", mlock>> /\ mlock = c) \/ (l = <<"proc", proc_lock>> /\ proc_lock = c)
  OBVIOUS
<1> QED
  BY <1>3, <1>4, <1>5, <1>6 DEF ncli

\* Types, one thread per CPU, the spinlocks held where the code says, and m->locked
\* and m->owner in step with who is inside: the invariant of lib/mutex.c.
THEOREM MutexInvariant == Spec => []IInv
<1>1. Init => IInv
  BY DEF Init, IInv, TypeOK, OneThreadPerCpu, SpinlocksHeld, SleepersInProcSleep, FieldsTell,
     LockedPcs, FreePcs
<1>2. IInv /\ [Next]_vars => IInv'
  <2> SUFFICES ASSUME IInv, [Next]_vars
               PROVE  IInv'
    OBVIOUS
  <2> USE DEF IInv, TypeOK, OneThreadPerCpu, SpinlocksHeld, SleepersInProcSleep, FieldsTell,
              LockedPcs, FreePcs, At, Goto
  <2>1. ASSUME NEW t \in Threads, NEW c \in CPUs, Dispatch(t, c)
        PROVE  IInv'
    BY <2>1 DEF Dispatch
  <2>2. ASSUME NEW t \in Threads, Preempt(t)
        PROVE  IInv'
    BY <2>2, NoSpinlockHeld DEF Preempt
  <2>3. ASSUME NEW t \in Threads, Signal(t)
        PROVE  IInv'
    BY <2>3 DEF Signal
  <2>4. ASSUME NEW t \in Threads, ReadCpu(t)
        PROVE  IInv'
    BY <2>4 DEF ReadCpu
  <2>5. ASSUME NEW t \in Threads, CheckNcli(t)
        PROVE  IInv'
    BY <2>5 DEF CheckNcli
  <2>6. ASSUME NEW t \in Threads, TakeSpinlock(t)
        PROVE  IInv'
    BY <2>6 DEF TakeSpinlock
  <2>7. ASSUME NEW t \in Threads, Test(t)
        PROVE  IInv'
    BY <2>7 DEF Test
  <2>8. ASSUME NEW t \in Threads, SleepLock(t)
        PROVE  IInv'
    BY <2>8 DEF SleepLock
  <2>9. ASSUME NEW t \in Threads, Block(t)
        PROVE  IInv'
    BY <2>9 DEF Block
  <2>10. ASSUME NEW t \in Threads, Acquire(t)
         PROVE  IInv'
    BY <2>10 DEF Acquire
  <2>11. ASSUME NEW t \in Threads, UnlockBegin(t)
         PROVE  IInv'
    BY <2>11 DEF UnlockBegin
  <2>12. ASSUME NEW t \in Threads, Release(t)
         PROVE  IInv'
    BY ZenonT(40), <2>12 DEF Release
  <2>13. ASSUME NEW t \in Threads, Wakeup(t)
         PROVE  IInv'
    BY <2>13 DEF Wakeup
  <2>14. ASSUME NEW t \in Threads, UnlockEnd(t)
         PROVE  IInv'
    BY <2>14 DEF UnlockEnd
  <2>15. CASE UNCHANGED vars
    BY <2>15 DEF vars
  <2> HIDE DEF IInv
  <2> QED
    BY <2>1, <2>2, <2>3, <2>4, <2>5, <2>6, <2>7, <2>8, <2>9, <2>10, <2>11, <2>12, <2>13,
       <2>14, <2>15 DEF Next, Lock, Unlock
<1> QED
  BY <1>1, <1>2, PTL DEF Spec

\* mutex_lock and mutex_unlock are a lock: one thread at a time is between them,
\* it had asked before, and only it gives the mutex back, whatever the
\* spinlocks, the scheduler and signals do.
THEOREM MutexImplementsLock == Spec => ImplementsLock
<1> DEFINE Passed == {"out", "panic"} \cup {"in", "release", "wakeup", "unlock"}
           W == {t \in Threads : pc[t] \notin Passed}
<1>1. Init => Abstract!Init
  BY DEF Init, Abstract!Init
<1>2. IInv /\ [Next]_vars => [Abstract!Next]_(Abstract!vars)
  <2> SUFFICES ASSUME IInv, [Next]_vars
               PROVE  [Abstract!Next]_(Abstract!vars)
    OBVIOUS
  <2> USE DEF At, Goto, Abstract!vars
  <2> DEFINE Same == UNCHANGED <<owner, W>>
  <2>1. ASSUME NEW t \in Threads, ReadCpu(t)
        PROVE  Abstract!Request(t)
    BY <2>1 DEF ReadCpu, Abstract!Request, IInv, TypeOK, FieldsTell
  <2>2. ASSUME NEW t \in Threads, CheckNcli(t)
        PROVE  Same \/ Abstract!GiveUp(t)
    BY <2>2 DEF CheckNcli, Abstract!GiveUp, IInv, TypeOK
  <2>3. ASSUME NEW t \in Threads, TakeSpinlock(t)
        PROVE  Same
    BY <2>3 DEF TakeSpinlock, IInv, TypeOK
  <2>4. ASSUME NEW t \in Threads, Test(t)
        PROVE  Same
    BY <2>4 DEF Test, IInv, TypeOK
  <2>5. ASSUME NEW t \in Threads, SleepLock(t)
        PROVE  Same
    BY <2>5 DEF SleepLock, IInv, TypeOK
  <2>6. ASSUME NEW t \in Threads, Block(t)
        PROVE  Same
    BY <2>6 DEF Block, IInv, TypeOK
  <2>7. ASSUME NEW t \in Threads, Acquire(t)
        PROVE  Abstract!Grant(t)
    BY <2>7 DEF Acquire, Abstract!Grant, IInv, TypeOK, FieldsTell
  <2>8. ASSUME NEW t \in Threads, UnlockBegin(t)
        PROVE  Same
    BY <2>8 DEF UnlockBegin, IInv, TypeOK
  <2>9. ASSUME NEW t \in Threads, Release(t)
        PROVE  Abstract!Return
    BY <2>9 DEF Release, Abstract!Return, IInv, TypeOK, FieldsTell
  <2>10. ASSUME NEW t \in Threads, Wakeup(t)
         PROVE  Same
    BY <2>10 DEF Wakeup, IInv, TypeOK
  <2>11. ASSUME NEW t \in Threads, UnlockEnd(t)
         PROVE  Same
    BY <2>11 DEF UnlockEnd, IInv, TypeOK
  <2>12. ASSUME NEW t \in Threads, Preempt(t) \/ Signal(t) \/ \E c \in CPUs : Dispatch(t, c)
         PROVE  Same
    BY <2>12 DEF Preempt, Signal, Dispatch
  <2>13. CASE UNCHANGED vars
    BY <2>13 DEF vars
  <2> QED
    BY <2>1, <2>2, <2>3, <2>4, <2>5, <2>6, <2>7, <2>8, <2>9, <2>10, <2>11, <2>12, <2>13
       DEF Next, Lock, Unlock, Abstract!Next
<1> QED
  BY <1>1, <1>2, MutexInvariant, PTL DEF Spec, ImplementsLock, Abstract!Spec
=============================================================================

------------------------------- MODULE Mutex -------------------------------
(***************************************************************************)
(* The sleeping mutex (lib/mutex.c) on proc_sleep and proc_wakeup          *)
(* (proc/process.c), one instance of it used by some threads.              *)
(*                                                                         *)
(* The two spinlocks involved, m->lock and proc_lock, are explicit, since  *)
(* the order in which proc_sleep takes one and releases the other is what  *)
(* prevents lost wakeups.  The scheduler is reduced to what Sched shows of *)
(* it: a READY thread gets a CPU, a running one may be preempted while it  *)
(* holds no spinlock, and may come back on another CPU.                    *)
(***************************************************************************)
EXTENDS Integers, FiniteSets

CONSTANTS Threads, CPUs, None

ASSUME NoneAssumption == None \notin Threads \cup CPUs

VARIABLES
    locked, owner,      \* struct mutex
    mlock, proc_lock,   \* owners of the spinlocks: a CPU or None
    state,              \* per thread: RUNNING, READY or BLOCKED (on the mutex)
    cpu,                \* per thread: the CPU it runs on, or None
    pc,                 \* per thread: where it is
    reg                 \* per thread: the value this_cpu() gave mutex_lock

vars == <<locked, owner, mlock, proc_lock, state, cpu, pc, reg>>

\* Where the thread's CPU holds m->lock, and where it holds neither spinlock.
LockedPcs == {"test", "p_sleep", "got", "release", "wakeup", "unlock"}
FreePcs   == {"out", "check", "m_lock", "relock", "in", "panic"}

Init ==
    /\ locked = FALSE /\ owner = None
    /\ mlock = None /\ proc_lock = None
    /\ state = [t \in Threads |-> "READY"]
    /\ cpu = [t \in Threads |-> None]
    /\ pc = [t \in Threads |-> "out"]
    /\ reg = [t \in Threads |-> None]

\* panic() stops all CPUs.
Panicked == \E t \in Threads : pc[t] = "panic"
At(t, l) == state[t] = "RUNNING" /\ pc[t] = l /\ ~Panicked
Goto(t, l) == pc' = [pc EXCEPT ![t] = l]

\* Depth of push_off on a CPU: the spinlocks its code holds.
ncli(c) == Cardinality({l \in {<<"m", mlock>>, <<"proc", proc_lock>>} : l[2] = c})

-----------------------------------------------------------------------------
(* The scheduler, as far as threads see it.                                 *)

\* A free CPU takes a READY thread (under proc_lock, for a moment).  A thread
\* that slept resumes inside proc_sleep, which lets go of proc_lock.
Dispatch(t, c) ==
    /\ state[t] = "READY" /\ ~Panicked
    /\ \A u \in Threads : cpu[u] # c
    /\ proc_lock = None
    /\ state' = [state EXCEPT ![t] = "RUNNING"]
    /\ cpu' = [cpu EXCEPT ![t] = c]
    /\ UNCHANGED <<locked, owner, mlock, proc_lock, pc, reg>>

\* The timer interrupt; IF is off while the CPU holds a spinlock.
Preempt(t) ==
    /\ state[t] = "RUNNING" /\ ~Panicked
    /\ ncli(cpu[t]) = 0
    /\ proc_lock = None
    /\ state' = [state EXCEPT ![t] = "READY"]
    /\ cpu' = [cpu EXCEPT ![t] = None]
    /\ UNCHANGED <<locked, owner, mlock, proc_lock, pc, reg>>

\* A signal wakes whoever is BLOCKED, whatever it waits for (signal.c:97).
Signal(t) ==
    /\ state[t] = "BLOCKED" /\ ~Panicked
    /\ proc_lock = None
    /\ state' = [state EXCEPT ![t] = "READY"]
    /\ UNCHANGED <<locked, owner, mlock, proc_lock, cpu, pc, reg>>

-----------------------------------------------------------------------------
(* mutex_lock.                                                              *)

\* this_cpu(), the first half of the test of ncli: one instruction ...
ReadCpu(t) ==
    /\ At(t, "out")
    /\ reg' = [reg EXCEPT ![t] = cpu[t]]
    /\ Goto(t, "check")
    /\ UNCHANGED <<locked, owner, mlock, proc_lock, state, cpu>>

\* ... and the load of ->ncli, the second; the thread may have moved since.
CheckNcli(t) ==
    /\ At(t, "check")
    /\ reg' = [reg EXCEPT ![t] = None]
    /\ Goto(t, IF ncli(reg[t]) > 0 THEN "panic" ELSE "m_lock")
    /\ UNCHANGED <<locked, owner, mlock, proc_lock, state, cpu>>

\* spin_lock(&m->lock), on entry and at the end of proc_sleep.
TakeSpinlock(t) ==
    /\ At(t, "m_lock") \/ At(t, "relock")
    /\ mlock = None
    /\ mlock' = cpu[t]
    /\ Goto(t, "test")
    /\ UNCHANGED <<locked, owner, proc_lock, state, cpu, reg>>

\* while (m->locked) proc_sleep(m, &m->lock).  A slip tests only once.
MutTest(t) ==
    /\ At(t, "test")
    /\ Goto(t, "got")
    /\ UNCHANGED <<locked, owner, mlock, proc_lock, state, cpu, reg>>
Test(t) ==
    /\ At(t, "test")
    /\ Goto(t, IF locked THEN "p_sleep" ELSE "got")
    /\ UNCHANGED <<locked, owner, mlock, proc_lock, state, cpu, reg>>

\* proc_sleep: proc_lock first, and only then is the caller's lock released.
SleepLock(t) ==
    /\ At(t, "p_sleep")
    /\ proc_lock = None
    /\ proc_lock' = cpu[t]
    /\ mlock' = None
    /\ Goto(t, "block")
    /\ UNCHANGED <<locked, owner, state, cpu, reg>>

\* BLOCKED and off the CPU; the scheduler loop releases proc_lock.
Block(t) ==
    /\ At(t, "block")
    /\ state' = [state EXCEPT ![t] = "BLOCKED"]
    /\ cpu' = [cpu EXCEPT ![t] = None]
    /\ proc_lock' = None
    /\ Goto(t, "relock")
    /\ UNCHANGED <<locked, owner, mlock, reg>>

\* m->locked = true; m->owner = current; spin_unlock.
Acquire(t) ==
    /\ At(t, "got")
    /\ locked' = TRUE
    /\ owner' = t
    /\ mlock' = None
    /\ Goto(t, "in")
    /\ UNCHANGED <<proc_lock, state, cpu, reg>>

-----------------------------------------------------------------------------
(* mutex_unlock.                                                            *)

UnlockBegin(t) ==
    /\ At(t, "in")
    /\ mlock = None
    /\ mlock' = cpu[t]
    /\ Goto(t, "release")
    /\ UNCHANGED <<locked, owner, proc_lock, state, cpu, reg>>

Release(t) ==
    /\ At(t, "release")
    /\ locked' = FALSE
    /\ owner' = None
    /\ Goto(t, "wakeup")
    /\ UNCHANGED <<mlock, proc_lock, state, cpu, reg>>

\* A slip: mutex_unlock wakes nobody.
MutWakeup(t) ==
    /\ At(t, "wakeup")
    /\ Goto(t, "unlock")
    /\ UNCHANGED <<locked, owner, mlock, proc_lock, state, cpu, reg>>

\* proc_wakeup(m), m->lock held: everyone asleep on the mutex.
Wakeup(t) ==
    /\ At(t, "wakeup")
    /\ proc_lock = None
    /\ state' = [u \in Threads |-> IF state[u] = "BLOCKED" THEN "READY" ELSE state[u]]
    /\ Goto(t, "unlock")
    /\ UNCHANGED <<locked, owner, mlock, proc_lock, cpu, reg>>

UnlockEnd(t) ==
    /\ At(t, "unlock")
    /\ mlock' = None
    /\ Goto(t, "out")
    /\ UNCHANGED <<locked, owner, proc_lock, state, cpu, reg>>

Lock(t) == \/ CheckNcli(t) \/ TakeSpinlock(t) \/ Test(t)
           \/ SleepLock(t) \/ Block(t) \/ Acquire(t)
Unlock(t) == UnlockBegin(t) \/ Release(t) \/ Wakeup(t) \/ UnlockEnd(t)

Next == \E t \in Threads :
           \/ ReadCpu(t) \/ Lock(t) \/ Unlock(t) \/ Preempt(t) \/ Signal(t)
           \/ \E c \in CPUs : Dispatch(t, c)

Spec == Init /\ [][Next]_vars

\* A thread that runs goes on (a CPU that waits for a spinlock gets it, see
\* Sched), the holder of the mutex gives it back, the timer ends time slices and
\* a READY thread is run (Sched's ReadyRuns).  No thread has to ask for the mutex.
Fairness == \A t \in Threads : /\ SF_vars(Lock(t) \/ Unlock(t))
                               /\ SF_vars(Preempt(t))
                               /\ SF_vars(\E c \in CPUs : Dispatch(t, c))
FairSpec == Spec /\ Fairness

-----------------------------------------------------------------------------
TypeOK ==
    /\ locked \in BOOLEAN /\ owner \in Threads \cup {None}
    /\ mlock \in CPUs \cup {None} /\ proc_lock \in CPUs \cup {None}
    /\ state \in [Threads -> {"RUNNING", "READY", "BLOCKED"}]
    /\ cpu \in [Threads -> CPUs \cup {None}]
    /\ pc \in [Threads -> LockedPcs \cup FreePcs \cup {"block"}]
    /\ reg \in [Threads -> CPUs \cup {None}]

\* Why it works, as an inductive invariant.  A thread runs where it has a CPU and
\* a CPU runs one thread; whoever is in a critical section has the spinlock on
\* its CPU, and so runs; whoever is BLOCKED is inside proc_sleep; and the fields
\* of the mutex say who is between mutex_lock and mutex_unlock.
OneThreadPerCpu ==
    /\ \A t \in Threads : state[t] = "RUNNING" <=> cpu[t] # None
    /\ \A t, u \in Threads : cpu[t] = cpu[u] /\ cpu[t] # None => t = u
SpinlocksHeld ==
    \A t \in Threads : /\ pc[t] \in LockedPcs => cpu[t] # None /\ mlock = cpu[t]
                       /\ pc[t] = "block" => cpu[t] # None /\ proc_lock = cpu[t]
SleepersInProcSleep == \A t \in Threads : state[t] = "BLOCKED" => pc[t] = "relock"
FieldsTell ==
    /\ locked <=> owner # None
    /\ \A t \in Threads : /\ pc[t] \in {"in", "release"} <=> owner = t
                          /\ pc[t] = "got" => ~locked
IInv == TypeOK /\ OneThreadPerCpu /\ SpinlocksHeld /\ SleepersInProcSleep /\ FieldsTell

\* The mutex does not get stuck: when someone wants it, somebody gets it, unless
\* the kernel panics.  (Which one is left open: a waiter can be overtaken for
\* ever.)
Progress ==
    (\E t \in Threads : pc[t] \in {"m_lock", "relock", "test"})
       ~> (Panicked \/ \E t \in Threads : pc[t] = "in")

\* The promise of a lock, without spinlocks and scheduling.
Abstract == INSTANCE AbstractLock WITH holder <- owner,
               waiting <- {t \in Threads : pc[t] \notin {"out", "panic"} \cup
                                           {"in", "release", "wakeup", "unlock"}}
ImplementsLock == Abstract!Spec
=============================================================================

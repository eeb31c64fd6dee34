------------------------------- MODULE Sched -------------------------------
(***************************************************************************)
(* The SMP scheduler of MyOS (kernel/proc/process.c with lib/spinlock.c,   *)
(* arch/percpu.c and proc/switch.asm): every CPU runs a scheduler loop on  *)
(* its idle stack, every process has a kernel stack of its own, and the    *)
(* spinlock proc_lock is held ACROSS context_switch and released by "the   *)
(* other side".                                                            *)
(*                                                                         *)
(* A step of the model is the code between two points where another CPU or *)
(* an interrupt may come in: a critical section under proc_lock that does  *)
(* not switch stacks is one step, an unlocked step is one step, and the    *)
(* two halves of a context switch are separate.  A process acts only while *)
(* its kernel stack is the one some CPU executes on.                       *)
(***************************************************************************)
EXTENDS Integers, FiniteSets

CONSTANTS
    MAX_PROCS,      \* slots of procs[]
    CPUs,           \* the CPUs
    BSP,            \* CPU 0: wakes sleepers, reaps orphans
    SCHED_QUANTUM,  \* ticks of a time slice
    MaxSleep,       \* bound: longest proc_sleep_ms, in ticks
    Spaces,         \* physical address spaces (page tables) to allocate
    Ops,            \* the operations processes of this instance perform
    Idle, None, Kernel, AnyPid,
    SleepChannel    \* &sleep_channel, the channel of proc_sleep_ms

ASSUME SlotAssumption    == MAX_PROCS \in Nat \ {0}
ASSUME QuantumAssumption == SCHED_QUANTUM \in Nat \ {0}
ASSUME SleepAssumption   == MaxSleep \in Nat \ {0}
ASSUME BspAssumption     == BSP \in CPUs
ASSUME OpsAssumption     ==
    Ops \subseteq {"yield", "sleep", "kthread", "fork", "spawn", "exec",
                   "wait", "nohang", "exit"}

Procs == 0 .. MAX_PROCS - 1
InitProc == 0               \* the kernel thread "init" (main.c)

\* The stand-ins are not CPUs, slots or page tables.
ASSUME NoneAssumption == /\ None \notin CPUs \cup Procs \cup Spaces
                         /\ Idle \notin Procs /\ AnyPid \notin Procs
                         /\ None # Idle /\ Kernel \notin Spaces
                         /\ SleepChannel \notin Procs \cup {None}

VARIABLES
    lock,       \* proc_lock.owner: the CPU that holds it, or None
    ifl,        \* per CPU: the interrupt flag IF
    ncli,       \* per CPU: push_off depth
    intena,     \* per CPU: IF before the outermost push_off
    cur,        \* per CPU: cur_proc
    stk,        \* per CPU: whose kernel stack RSP points into
    cr3,        \* per CPU: the loaded page tables
    spc,        \* per CPU: where the scheduler loop is
    reapi,      \* the index of reap_orphans' loop (BSP only)
    rr_next,    \* where pick_next starts
    state,      \* per slot: proc_state
    parent,     \* per slot
    wait_channel, \* per slot
    quantum,    \* per slot: quantum_left
    left,       \* per slot: wake_tick - timer_ticks(), at least 0
    pml4,       \* per slot: the process's page tables
    kstack,     \* per slot: is the kernel stack allocated
    live,       \* the allocated page tables
    pc,         \* per slot: where its code is
    ret,        \* per slot: where it goes on after sched()
    saved,      \* per slot: sched()'s local copy of intena
    ipc,        \* per slot: the code a timer interrupt stopped, or None
    arg,        \* per slot: the child proc_wait looks for, or AnyPid
    child,      \* per slot: the child being created or freed, or None
    old         \* per slot: page tables held in a local variable, or None

lockVars == <<lock, ifl, ncli, intena>>
cpuVars  == <<cur, stk, cr3, spc, reapi, rr_next>>
procVars == <<state, parent, wait_channel, quantum, left, pml4, kstack, live>>
codeVars == <<pc, ret, saved, ipc, arg, child, old>>
vars == <<lockVars, cpuVars, procVars, codeVars>>

States == {"UNUSED", "EMBRYO", "READY", "RUNNING", "BLOCKED", "ZOMBIE", "DEAD"}

\* Code that runs under proc_lock, and code that runs without it.
LockedPcs == {"new", "sched", "y_back", "s_test", "s_back", "w_scan", "w_back",
              "x_dead"}
FreePcs == {"run", "yield", "iret", "k_stack", "f_stack", "f_mm", "sp_alloc",
            "sp_stack", "c_ready", "p_free", "p_unused",
            "x_mm", "x_cr3", "x_free", "x_last", "e_swap", "e_cr3", "e_free"}
Pcs == LockedPcs \cup FreePcs
ASSUME PcAssumption == None \notin Pcs
SchedPcs == {"top", "pick", "switch", "back", "reap", "r_free", "r_unused", "halt"}

Channels == Procs \cup {SleepChannel, None}

Init ==
    /\ lock = None
    /\ ifl = [c \in CPUs |-> FALSE]
    /\ ncli = [c \in CPUs |-> 0]
    /\ intena = [c \in CPUs |-> FALSE]
    /\ cur = [c \in CPUs |-> Idle]
    /\ stk = [c \in CPUs |-> Idle]
    /\ cr3 = [c \in CPUs |-> Kernel]
    /\ spc = [c \in CPUs |-> "top"]
    /\ reapi = 0
    /\ rr_next = 0
    /\ state = [p \in Procs |-> IF p = InitProc THEN "READY" ELSE "UNUSED"]
    /\ parent = [p \in Procs |-> IF p = InitProc THEN Idle ELSE None]
    /\ wait_channel = [p \in Procs |-> None]
    /\ quantum = [p \in Procs |-> SCHED_QUANTUM]
    /\ left = [p \in Procs |-> 0]
    /\ pml4 = [p \in Procs |-> Kernel]
    /\ kstack = [p \in Procs |-> p = InitProc]
    /\ live = {}
    /\ pc = [p \in Procs |-> "new"]
    /\ ret = [p \in Procs |-> "new"]
    /\ saved = [p \in Procs |-> FALSE]
    /\ ipc = [p \in Procs |-> None]
    /\ arg = [p \in Procs |-> AnyPid]
    /\ child = [p \in Procs |-> None]
    /\ old = [p \in Procs |-> None]

-----------------------------------------------------------------------------
(* Spinlocks and interrupt flags (lib/spinlock.c, arch/percpu.c).           *)

\* push_off, then the xchg that finds the lock free.
SpinLock(c) ==
    /\ lock = None
    /\ lock' = c
    /\ ifl' = [ifl EXCEPT ![c] = FALSE]
    /\ ncli' = [ncli EXCEPT ![c] = @ + 1]
    /\ intena' = IF ncli[c] = 0 THEN [intena EXCEPT ![c] = ifl[c]] ELSE intena

\* Release, then pop_off: IF comes back on only at depth 0 and if it was on.
SpinUnlock(c) ==
    /\ lock' = None
    /\ ncli' = [ncli EXCEPT ![c] = @ - 1]
    /\ ifl' = IF ncli[c] = 1 /\ intena[c] THEN [ifl EXCEPT ![c] = TRUE] ELSE ifl
    /\ UNCHANGED intena

\* A critical section that is one step: spin_lock ... spin_unlock.
CriticalSection(c) ==
    /\ lock = None
    /\ intena' = IF ncli[c] = 0 THEN [intena EXCEPT ![c] = ifl[c]] ELSE intena
    /\ UNCHANGED <<lock, ifl, ncli>>

-----------------------------------------------------------------------------
(* The scheduler loop of a CPU, on its idle stack.                          *)

OnIdle(c, l) == stk[c] = Idle /\ spc[c] = l

\* process.c:258
SchedulerTop(c) ==
    /\ OnIdle(c, "top")
    /\ ifl' = [ifl EXCEPT ![c] = TRUE]
    /\ spc' = [spc EXCEPT ![c] = "pick"]
    /\ UNCHANGED <<lock, ncli, intena, cur, stk, cr3, reapi, rr_next, procVars, codeVars>>

\* The READY slot pick_next finds: the first one from rr_next on, cyclically.
Distance(i) == (i - rr_next + MAX_PROCS) % MAX_PROCS
IsNext(p) ==
    /\ state[p] = "READY"
    /\ \A q \in Procs : state[q] = "READY" => Distance(p) <= Distance(q)

\* A slip: the next search starts at the process just picked.
MutRrAfter(p) == p
RrAfter(p) == (p + 1) % MAX_PROCS

\* spin_lock, pick_next, and what is set up before the switch; the lock stays.
SchedulerPick(c) ==
    /\ OnIdle(c, "pick")
    /\ SpinLock(c)
    /\ \E p \in Procs :
          /\ IsNext(p)
          /\ rr_next' = RrAfter(p)
          /\ state' = [state EXCEPT ![p] = "RUNNING"]
          /\ quantum' = [quantum EXCEPT ![p] = SCHED_QUANTUM]
          /\ cur' = [cur EXCEPT ![c] = p]
          /\ cr3' = [cr3 EXCEPT ![c] = pml4[p]]
    /\ spc' = [spc EXCEPT ![c] = "switch"]
    /\ UNCHANGED <<stk, reapi, parent, wait_channel, left, pml4, kstack, live, codeVars>>

\* Nobody is READY: unlock, then reap (CPU0) or halt.
SchedulerNone(c) ==
    /\ OnIdle(c, "pick")
    /\ \A p \in Procs : state[p] # "READY"
    /\ CriticalSection(c)
    /\ spc' = [spc EXCEPT ![c] = IF c = BSP THEN "reap" ELSE "halt"]
    /\ reapi' = IF c = BSP THEN 0 ELSE reapi
    /\ UNCHANGED <<cur, stk, cr3, rr_next, procVars, codeVars>>

\* A slip: intena left as the CPU has it.
MutSwitchIn(c) ==
    /\ OnIdle(c, "switch")
    /\ stk' = [stk EXCEPT ![c] = cur[c]]
    /\ spc' = [spc EXCEPT ![c] = "back"]
    /\ UNCHANGED <<lockVars, cur, cr3, reapi, rr_next, procVars, codeVars>>

\* context_switch into the process: it goes on where it left, with the lock
\* held by this CPU; sched() restores its intena, a new process has none.
SwitchIn(c) ==
    /\ OnIdle(c, "switch")
    /\ LET p == cur[c] IN
          /\ stk' = [stk EXCEPT ![c] = p]
          /\ intena' = IF pc[p] = "new" THEN intena
                       ELSE [intena EXCEPT ![c] = saved[p]]
          /\ saved' = [saved EXCEPT ![p] = FALSE]
    /\ spc' = [spc EXCEPT ![c] = "back"]
    /\ UNCHANGED <<lock, ifl, ncli, cur, cr3, reapi, rr_next, procVars, pc, ret, ipc,
                   arg, child, old>>

\* A slip: the process's page tables stay loaded.
MutSwitchBack(c) ==
    /\ OnIdle(c, "back")
    /\ cur' = [cur EXCEPT ![c] = Idle]
    /\ SpinUnlock(c)
    /\ spc' = [spc EXCEPT ![c] = "top"]
    /\ UNCHANGED <<stk, cr3, reapi, rr_next, procVars, codeVars>>

\* Back from the process: kernel page tables, current = idle, unlock.
SwitchBack(c) ==
    /\ OnIdle(c, "back")
    /\ cr3' = [cr3 EXCEPT ![c] = Kernel]
    /\ cur' = [cur EXCEPT ![c] = Idle]
    /\ SpinUnlock(c)
    /\ spc' = [spc EXCEPT ![c] = "top"]
    /\ UNCHANGED <<stk, reapi, rr_next, procVars, codeVars>>

-----------------------------------------------------------------------------
(* reap_orphans, on the idle stack of CPU0.                                 *)

\* A slip: the zombie is freed without being marked DEAD first.
MutReapTake(c) ==
    /\ OnIdle(c, "reap")
    /\ reapi < MAX_PROCS
    /\ CriticalSection(c)
    /\ state[reapi] = "ZOMBIE" /\ parent[reapi] = None
    /\ spc' = [spc EXCEPT ![c] = "r_free"]
    /\ UNCHANGED <<cur, stk, cr3, reapi, rr_next, procVars, codeVars>>

\* An orphaned zombie: DEAD keeps everyone else off it.
ReapTake(c) ==
    /\ OnIdle(c, "reap")
    /\ reapi < MAX_PROCS
    /\ CriticalSection(c)
    /\ state[reapi] = "ZOMBIE" /\ parent[reapi] = None
    /\ state' = [state EXCEPT ![reapi] = "DEAD"]
    /\ spc' = [spc EXCEPT ![c] = "r_free"]
    /\ UNCHANGED <<cur, stk, cr3, reapi, rr_next, parent, wait_channel, quantum, left,
                   pml4, kstack, live, codeVars>>

ReapSkip(c) ==
    /\ OnIdle(c, "reap")
    /\ reapi < MAX_PROCS
    /\ CriticalSection(c)
    /\ ~(state[reapi] = "ZOMBIE" /\ parent[reapi] = None)
    /\ reapi' = reapi + 1
    /\ UNCHANGED <<cur, stk, cr3, spc, rr_next, procVars, codeVars>>

\* proc_release_resources: the kernel stack goes back to vmalloc.
ReapFree(c) ==
    /\ OnIdle(c, "r_free")
    /\ kstack' = [kstack EXCEPT ![reapi] = FALSE]
    /\ spc' = [spc EXCEPT ![c] = "r_unused"]
    /\ UNCHANGED <<lockVars, cur, stk, cr3, reapi, rr_next, state, parent,
                   wait_channel, quantum, left, pml4, live, codeVars>>

\* The end of proc_free.
ReapUnused(c) ==
    /\ OnIdle(c, "r_unused")
    /\ CriticalSection(c)
    /\ state' = [state EXCEPT ![reapi] = "UNUSED"]
    /\ reapi' = reapi + 1
    /\ spc' = [spc EXCEPT ![c] = "reap"]
    /\ UNCHANGED <<cur, stk, cr3, rr_next, parent, wait_channel, quantum, left,
                   pml4, kstack, live, codeVars>>

\* "sti; hlt" after the loop.
ReapDone(c) ==
    /\ OnIdle(c, "reap")
    /\ reapi = MAX_PROCS
    /\ spc' = [spc EXCEPT ![c] = "halt"]
    /\ ifl' = [ifl EXCEPT ![c] = TRUE]
    /\ UNCHANGED <<lock, ncli, intena, cur, stk, cr3, reapi, rr_next, procVars, codeVars>>

-----------------------------------------------------------------------------
(* The timer interrupt (sched_tick), possible whenever IF is on.            *)

\* A slip: a clock that does not advance.
MutEarlierStopped == left

\* One tick of the global clock: CPU0 alone counts it.
Earlier == [p \in Procs |-> IF left[p] = 0 THEN 0 ELSE left[p] - 1]

\* A sleeper whose time is up with this tick.
Due(p) == state[p] = "BLOCKED" /\ wait_channel[p] = SleepChannel /\ Earlier[p] = 0

\* What CPU0's tick does under proc_lock (IF is off in the interrupt): wake the
\* sleepers whose time is up.  The clock itself moves just before the lock is
\* taken; whoever reads it in between does as if he read it afterwards.
TickWork(c) ==
    IF c = BSP
    THEN /\ lock = None
         /\ intena' = [intena EXCEPT ![c] = FALSE]
         /\ left' = Earlier
         /\ state' = [p \in Procs |-> IF Due(p) THEN "READY" ELSE state[p]]
    ELSE UNCHANGED <<intena, left, state>>

\* The tick finds the CPU idle; a halted CPU goes round its loop again.
TickIdle(c) ==
    /\ stk[c] = Idle
    /\ ifl[c]
    /\ TickWork(c)
    /\ spc' = [spc EXCEPT ![c] = IF @ = "halt" THEN "top" ELSE @]
    /\ UNCHANGED <<lock, ifl, ncli, cur, stk, cr3, reapi, rr_next, parent,
                   wait_channel, quantum, pml4, kstack, live, codeVars>>

\* The tick stops a process inside its time slice.
TickProc(c) ==
    /\ stk[c] # Idle
    /\ ifl[c]
    /\ LET p == stk[c] IN
          /\ quantum[p] > 1
          /\ quantum' = [quantum EXCEPT ![p] = @ - 1]
    /\ TickWork(c)
    /\ UNCHANGED <<lock, ifl, ncli, cpuVars, parent, wait_channel, pml4, kstack, live, codeVars>>

\* The tick that ends the time slice: proc_yield from the interrupt, IF off.
TickYield(c) ==
    /\ stk[c] # Idle
    /\ ifl[c]
    /\ LET p == stk[c] IN
          /\ quantum[p] <= 1
          /\ quantum' = [quantum EXCEPT ![p] = 0]
          /\ pc' = [pc EXCEPT ![p] = "yield"]
          /\ ipc' = [ipc EXCEPT ![p] = pc[p]]
    /\ TickWork(c)
    /\ ifl' = [ifl EXCEPT ![c] = FALSE]
    /\ UNCHANGED <<lock, ncli, cpuVars, parent, wait_channel, pml4, kstack,
                   live, ret, saved, arg, child, old>>

-----------------------------------------------------------------------------
(* Processes: p's code runs on CPU c while c is on p's kernel stack.        *)

At(c, l) == stk[c] # Idle /\ pc[stk[c]] = l
Goto(p, l) == pc' = [pc EXCEPT ![p] = l]

\* sched(): from here the process waits for the stack switch.
SchedThen(p, l) ==
    /\ pc' = [pc EXCEPT ![p] = "sched"]
    /\ ret' = [ret EXCEPT ![p] = l]

\* sched(): intena is saved on the stack, context_switch to the scheduler loop.
SwitchOut(c) ==
    /\ At(c, "sched")
    /\ LET p == stk[c] IN
          /\ saved' = [saved EXCEPT ![p] = intena[c]]
          /\ Goto(p, ret[p])
          /\ ret' = [ret EXCEPT ![p] = "new"]
    /\ stk' = [stk EXCEPT ![c] = Idle]
    /\ UNCHANGED <<lockVars, cur, cr3, spc, reapi, rr_next, procVars, ipc, arg,
                   child, old>>

\* proc_first_run, and the iretq or the sti of kthread_start behind it.
FirstRun(c) ==
    /\ At(c, "new")
    /\ Goto(stk[c], "run")
    /\ lock' = None
    /\ ncli' = [ncli EXCEPT ![c] = @ - 1]
    /\ ifl' = [ifl EXCEPT ![c] = TRUE]
    /\ UNCHANGED <<intena, cpuVars, procVars, ret, saved, ipc, arg, child, old>>

\* sys_yield calls proc_yield.
Yield(c) ==
    /\ At(c, "run")
    /\ "yield" \in Ops
    /\ Goto(stk[c], "yield")
    /\ UNCHANGED <<lockVars, cpuVars, procVars, ret, saved, ipc, arg, child, old>>

\* proc_yield up to sched(), the lock apart.
YieldBody(c) ==
    /\ At(c, "yield")
    /\ state' = [state EXCEPT ![stk[c]] = "READY"]
    /\ SchedThen(stk[c], "y_back")
    /\ UNCHANGED <<cpuVars, parent, wait_channel, quantum, left, pml4, kstack, live,
                   saved, ipc, arg, child, old>>

\* A slip: the lock is given back before sched().
MutYieldLock(c) == YieldBody(c) /\ CriticalSection(c)
YieldLock(c) == YieldBody(c) /\ SpinLock(c)

\* proc_yield after sched(): to the interrupt's iretq, or to its caller.
YieldBack(c) ==
    /\ At(c, "y_back")
    /\ Goto(stk[c], IF ipc[stk[c]] = None THEN "run" ELSE "iret")
    /\ SpinUnlock(c)
    /\ UNCHANGED <<cpuVars, procVars, ret, saved, ipc, arg, child, old>>

\* iretq: the interrupted code goes on with IF on.
Iret(c) ==
    /\ At(c, "iret")
    /\ LET p == stk[c] IN
          /\ Goto(p, ipc[p])
          /\ ipc' = [ipc EXCEPT ![p] = None]
    /\ ifl' = [ifl EXCEPT ![c] = TRUE]
    /\ UNCHANGED <<lock, ncli, intena, cpuVars, procVars, ret, saved, arg, child, old>>

-----------------------------------------------------------------------------
(* proc_sleep_ms; proc_sleep(channel, &proc_lock) up to and after sched().  *)

SleepOn(p, ch, back) ==
    /\ wait_channel' = [wait_channel EXCEPT ![p] = ch]
    /\ state' = [state EXCEPT ![p] = "BLOCKED"]
    /\ SchedThen(p, back)

SleepMs(c) ==
    /\ At(c, "run")
    /\ "sleep" \in Ops
    /\ SpinLock(c)
    /\ \E n \in 1 .. MaxSleep : left' = [left EXCEPT ![stk[c]] = n]
    /\ Goto(stk[c], "s_test")
    /\ UNCHANGED <<cpuVars, state, parent, wait_channel, quantum, pml4, kstack, live,
                   ret, saved, ipc, arg, child, old>>

SleepMore(c) ==
    /\ At(c, "s_test")
    /\ left[stk[c]] > 0
    /\ SleepOn(stk[c], SleepChannel, "s_back")
    /\ UNCHANGED <<lockVars, cpuVars, parent, quantum, left, pml4, kstack, live,
                   saved, ipc, arg, child, old>>

SleepBack(c) ==
    /\ At(c, "s_back")
    /\ wait_channel' = [wait_channel EXCEPT ![stk[c]] = None]
    /\ Goto(stk[c], "s_test")
    /\ UNCHANGED <<lockVars, cpuVars, state, parent, quantum, left, pml4, kstack,
                   live, ret, saved, ipc, arg, child, old>>

\* A slip: the return path keeps the lock.
MutSleepDone(c) ==
    /\ At(c, "s_test")
    /\ left[stk[c]] = 0
    /\ Goto(stk[c], "run")
    /\ UNCHANGED <<lockVars, cpuVars, procVars, ret, saved, ipc, arg, child, old>>

SleepDone(c) ==
    /\ At(c, "s_test")
    /\ left[stk[c]] = 0
    /\ SpinUnlock(c)
    /\ Goto(stk[c], "run")
    /\ UNCHANGED <<cpuVars, procVars, ret, saved, ipc, arg, child, old>>

-----------------------------------------------------------------------------
(* Creating a process: proc_create_kernel_thread, proc_fork, proc_spawn.    *)

\* proc_alloc's search: the first UNUSED slot.
IsFirstUnused(i) ==
    /\ state[i] = "UNUSED"
    /\ \A j \in Procs : state[j] = "UNUSED" => i <= j

\* proc_alloc up to the unlock: the slot is cleared (memset) and taken.
TakeSlot(c, i, l) ==
    /\ CriticalSection(c)
    /\ state' = [state EXCEPT ![i] = "EMBRYO"]
    /\ parent' = [parent EXCEPT ![i] = stk[c]]
    /\ wait_channel' = [wait_channel EXCEPT ![i] = None]
    /\ left' = [left EXCEPT ![i] = 0]
    /\ child' = [child EXCEPT ![stk[c]] = i]
    /\ Goto(stk[c], l)
    /\ UNCHANGED <<cpuVars, quantum, pml4, kstack, live, ret, saved, ipc, arg, old>>

\* proc_create_kernel_thread: only kernel threads call it.
KthreadAlloc(c) ==
    /\ At(c, "run")
    /\ "kthread" \in Ops
    /\ pml4[stk[c]] = Kernel
    /\ \E i \in Procs : IsFirstUnused(i) /\ TakeSlot(c, i, "k_stack")

\* proc_fork: only user processes call it.
ForkAlloc(c) ==
    /\ At(c, "run")
    /\ "fork" \in Ops
    /\ pml4[stk[c]] # Kernel
    /\ \E i \in Procs : IsFirstUnused(i) /\ TakeSlot(c, i, "f_stack")

\* proc_spawn: load_image builds the new page tables first ...
SpawnLoad(c) ==
    /\ At(c, "run")
    /\ "spawn" \in Ops
    /\ \E s \in Spaces \ live :
          /\ live' = live \cup {s}
          /\ old' = [old EXCEPT ![stk[c]] = s]
    /\ Goto(stk[c], "sp_alloc")
    /\ UNCHANGED <<lockVars, cpuVars, state, parent, wait_channel, quantum, left, pml4,
                   kstack, ret, saved, ipc, arg, child>>

\* ... then takes a slot ...
SpawnAlloc(c) ==
    /\ At(c, "sp_alloc")
    /\ \E i \in Procs : IsFirstUnused(i) /\ TakeSlot(c, i, "sp_stack")

\* A slip: the error path forgets the page tables.
MutSpawnFull(c) ==
    /\ At(c, "sp_alloc")
    /\ lock = None
    /\ \A i \in Procs : state[i] # "UNUSED"
    /\ old' = [old EXCEPT ![stk[c]] = None]
    /\ Goto(stk[c], "run")
    /\ UNCHANGED <<lockVars, cpuVars, procVars, ret, saved, ipc, arg, child>>

\* ... or, the table being full, destroys the page tables again.
SpawnFull(c) ==
    /\ At(c, "sp_alloc")
    /\ lock = None
    /\ \A i \in Procs : state[i] # "UNUSED"
    /\ live' = live \ {old[stk[c]]}
    /\ old' = [old EXCEPT ![stk[c]] = None]
    /\ Goto(stk[c], "run")
    /\ UNCHANGED <<lockVars, cpuVars, state, parent, wait_channel, quantum, left, pml4,
                   kstack, ret, saved, ipc, arg, child>>

\* The rest of proc_alloc: vmalloc gives the kernel stack, and the frame on it
\* makes the first switch return to new_proc_start.
AllocStack(c) ==
    /\ At(c, "k_stack") \/ At(c, "f_stack") \/ At(c, "sp_stack")
    /\ LET p == stk[c]
           i == child[p]
       IN  /\ kstack' = [kstack EXCEPT ![i] = TRUE]
           /\ quantum' = [quantum EXCEPT ![i] = SCHED_QUANTUM]
           /\ pml4' = [pml4 EXCEPT ![i] = IF pc[p] = "sp_stack" THEN old[p] ELSE Kernel]
           /\ old' = [old EXCEPT ![p] = None]
           /\ pc' = [pc EXCEPT ![i] = "new",
                               ![p] = IF pc[p] = "f_stack" THEN "f_mm" ELSE "c_ready"]
           /\ ipc' = [ipc EXCEPT ![i] = None]
    /\ UNCHANGED <<lockVars, cpuVars, state, parent, wait_channel, left, live, ret,
                   saved, arg, child>>

\* vmalloc failed: the slot is given back; proc_spawn destroys its image.
AllocStackFails(c) ==
    /\ At(c, "k_stack") \/ At(c, "f_stack") \/ At(c, "sp_stack")
    /\ CriticalSection(c)
    /\ LET p == stk[c] IN
          /\ state' = [state EXCEPT ![child[p]] = "UNUSED"]
          /\ live' = live \ {old[p]}
          /\ old' = [old EXCEPT ![p] = None]
          /\ child' = [child EXCEPT ![p] = None]
          /\ Goto(p, "run")
    /\ UNCHANGED <<cpuVars, parent, wait_channel, quantum, left, pml4, kstack, ret,
                   saved, ipc, arg>>

\* proc_fork: mm_fork copies the page tables ...
ForkCopy(c) ==
    /\ At(c, "f_mm")
    /\ \E s \in Spaces \ live :
          /\ live' = live \cup {s}
          /\ pml4' = [pml4 EXCEPT ![child[stk[c]]] = s]
    /\ Goto(stk[c], "c_ready")
    /\ UNCHANGED <<lockVars, cpuVars, state, parent, wait_channel, quantum, left,
                   kstack, ret, saved, ipc, arg, child, old>>

\* ... or fails, and proc_free(child) follows.
ForkFails(c) ==
    /\ At(c, "f_mm")
    /\ Goto(stk[c], "p_free")
    /\ UNCHANGED <<lockVars, cpuVars, procVars, ret, saved, ipc, arg, child, old>>

\* proc_make_ready: the scheduler may take the child from now on.
MakeReady(c) ==
    /\ At(c, "c_ready")
    /\ CriticalSection(c)
    /\ state' = [state EXCEPT ![child[stk[c]]] = "READY"]
    /\ child' = [child EXCEPT ![stk[c]] = None]
    /\ Goto(stk[c], "run")
    /\ UNCHANGED <<cpuVars, parent, wait_channel, quantum, left, pml4, kstack, live,
                   ret, saved, ipc, arg, old>>

-----------------------------------------------------------------------------
(* proc_wait.                                                               *)

Matches(p, a) == {q \in Procs : /\ state[q] # "UNUSED"
                                /\ parent[q] = p
                                /\ a \in {AnyPid, q}}
Zombies(p, a) == {q \in Matches(p, a) : state[q] = "ZOMBIE"}
IsFirst(q, S) == q \in S /\ \A r \in S : q <= r

WaitLock(c) ==
    /\ At(c, "run")
    /\ "wait" \in Ops
    /\ SpinLock(c)
    /\ \E a \in {AnyPid} \cup Matches(stk[c], AnyPid) : arg' = [arg EXCEPT ![stk[c]] = a]
    /\ Goto(stk[c], "w_scan")
    /\ UNCHANGED <<cpuVars, procVars, ret, saved, ipc, child, old>>

\* A zombie child: DEAD keeps everyone else off it; unlock, then proc_free.
WaitFound(c) ==
    /\ At(c, "w_scan")
    /\ LET p == stk[c] IN
          /\ \E q \in Procs :
                /\ IsFirst(q, Zombies(p, arg[p]))
                /\ state' = [state EXCEPT ![q] = "DEAD"]
                /\ child' = [child EXCEPT ![p] = q]
          /\ Goto(p, "p_free")
          /\ arg' = [arg EXCEPT ![p] = AnyPid]
    /\ SpinUnlock(c)
    /\ UNCHANGED <<cpuVars, parent, wait_channel, quantum, left, pml4, kstack, live,
                   ret, saved, ipc, old>>

\* -ECHILD.
WaitNoChild(c) ==
    /\ At(c, "w_scan")
    /\ Matches(stk[c], arg[stk[c]]) = {}
    /\ arg' = [arg EXCEPT ![stk[c]] = AnyPid]
    /\ SpinUnlock(c)
    /\ Goto(stk[c], "run")
    /\ UNCHANGED <<cpuVars, procVars, ret, saved, ipc, child, old>>

\* Children, none of them a zombie: sleep on one's own address.
WaitSleep(c) ==
    /\ At(c, "w_scan")
    /\ LET p == stk[c] IN
          /\ Matches(p, arg[p]) # {}
          /\ Zombies(p, arg[p]) = {}
          /\ SleepOn(p, p, "w_back")
    /\ UNCHANGED <<lockVars, cpuVars, parent, quantum, left, pml4, kstack, live,
                   saved, ipc, arg, child, old>>

WaitBack(c) ==
    /\ At(c, "w_back")
    /\ wait_channel' = [wait_channel EXCEPT ![stk[c]] = None]
    /\ Goto(stk[c], "w_scan")
    /\ UNCHANGED <<lockVars, cpuVars, state, parent, quantum, left, pml4, kstack,
                   live, ret, saved, ipc, arg, child, old>>

\* WAIT_NOHANG, when it does find a zombie (otherwise nothing changes).
WaitNohang(c) ==
    /\ At(c, "run")
    /\ "nohang" \in Ops
    /\ CriticalSection(c)
    /\ LET p == stk[c] IN
          \E q \in Procs :
             /\ IsFirst(q, Zombies(p, AnyPid))
             /\ state' = [state EXCEPT ![q] = "DEAD"]
             /\ child' = [child EXCEPT ![p] = q]
             /\ Goto(p, "p_free")
    /\ UNCHANGED <<cpuVars, parent, wait_channel, quantum, left, pml4, kstack, live,
                   ret, saved, ipc, arg, old>>

\* proc_free(child): proc_release_resources without a lock ...
FreeStack(c) ==
    /\ At(c, "p_free")
    /\ kstack' = [kstack EXCEPT ![child[stk[c]]] = FALSE]
    /\ Goto(stk[c], "p_unused")
    /\ UNCHANGED <<lockVars, cpuVars, state, parent, wait_channel, quantum, left, pml4,
                   live, ret, saved, ipc, arg, child, old>>

\* ... then the slot is UNUSED again.
FreeSlot(c) ==
    /\ At(c, "p_unused")
    /\ CriticalSection(c)
    /\ state' = [state EXCEPT ![child[stk[c]]] = "UNUSED"]
    /\ child' = [child EXCEPT ![stk[c]] = None]
    /\ Goto(stk[c], "run")
    /\ UNCHANGED <<cpuVars, parent, wait_channel, quantum, left, pml4, kstack, live,
                   ret, saved, ipc, arg, old>>

-----------------------------------------------------------------------------
(* do_exit and proc_exec: giving up page tables another CPU may know.       *)

\* do_exit's beginning; init_thread never returns.
Exit(c) ==
    /\ At(c, "run")
    /\ "exit" \in Ops
    /\ stk[c] # InitProc
    /\ Goto(stk[c], IF pml4[stk[c]] = Kernel THEN "x_last" ELSE "x_mm")
    /\ UNCHANGED <<lockVars, cpuVars, procVars, ret, saved, ipc, arg, child, old>>

\* The page tables are taken out of the table under the lock ...
ExitDetach(c) ==
    /\ At(c, "x_mm")
    /\ CriticalSection(c)
    /\ LET p == stk[c] IN
          /\ old' = [old EXCEPT ![p] = pml4[p]]
          /\ pml4' = [pml4 EXCEPT ![p] = Kernel]
          /\ Goto(p, "x_cr3")
    /\ UNCHANGED <<cpuVars, state, parent, wait_channel, quantum, left, kstack, live,
                   ret, saved, ipc, arg, child>>

\* proc_exec: the new image is complete before the old one is touched ...
ExecLoad(c) ==
    /\ At(c, "run")
    /\ "exec" \in Ops
    /\ pml4[stk[c]] # Kernel
    /\ \E s \in Spaces \ live :
          /\ live' = live \cup {s}
          /\ old' = [old EXCEPT ![stk[c]] = s]
    /\ Goto(stk[c], "e_swap")
    /\ UNCHANGED <<lockVars, cpuVars, state, parent, wait_channel, quantum, left, pml4,
                   kstack, ret, saved, ipc, arg, child>>

\* ... then the two are exchanged under the lock.
ExecSwap(c) ==
    /\ At(c, "e_swap")
    /\ CriticalSection(c)
    /\ LET p == stk[c] IN
          /\ old' = [old EXCEPT ![p] = pml4[p]]
          /\ pml4' = [pml4 EXCEPT ![p] = old[p]]
          /\ Goto(p, "e_cr3")
    /\ UNCHANGED <<cpuVars, state, parent, wait_channel, quantum, left, kstack, live,
                   ret, saved, ipc, arg, child>>

\* vmm_switch(p->pml4), in both.
LoadCr3(c) ==
    /\ At(c, "x_cr3") \/ At(c, "e_cr3")
    /\ LET p == stk[c] IN
          /\ cr3' = [cr3 EXCEPT ![c] = pml4[p]]
          /\ Goto(p, IF pc[p] = "x_cr3" THEN "x_free" ELSE "e_free")
    /\ UNCHANGED <<lockVars, cur, stk, spc, reapi, rr_next, procVars, ret, saved, ipc,
                   arg, child, old>>

\* mm_destroy(old), in both.
DestroyOld(c) ==
    /\ At(c, "x_free") \/ At(c, "e_free")
    /\ LET p == stk[c] IN
          /\ live' = live \ {old[p]}
          /\ old' = [old EXCEPT ![p] = None]
          /\ Goto(p, IF pc[p] = "x_free" THEN "x_last" ELSE "run")
    /\ UNCHANGED <<lockVars, cpuVars, state, parent, wait_channel, quantum, left, pml4,
                   kstack, ret, saved, ipc, arg, child>>

\* wakeup_locked: whom it makes READY.  A slip wakes nobody.
MutSleepersOn(ch) == {}
SleepersOn(ch) == {q \in Procs : state[q] = "BLOCKED" /\ wait_channel[q] = ch}

\* The children of p become orphans.  A slip leaves them their parent.
MutOrphaned(p) == parent
Orphaned(p) == [q \in Procs |-> IF state[q] # "UNUSED" /\ parent[q] = p
                                THEN None ELSE parent[q]]

\* do_exit's last part, the lock apart: children become orphans, the parent is
\* woken, and the ZOMBIE leaves its stack for good.
ExitBody(c) ==
    /\ At(c, "x_last")
    /\ LET p == stk[c]
           woken == IF parent[p] = None THEN {} ELSE SleepersOn(parent[p])
       IN  /\ parent' = Orphaned(p)
           /\ state' = [q \in Procs |-> IF q = p THEN "ZOMBIE"
                                        ELSE IF q \in woken THEN "READY" ELSE state[q]]
           /\ SchedThen(p, "x_dead")
    /\ UNCHANGED <<cpuVars, wait_channel, quantum, left, pml4, kstack, live, saved,
                   ipc, arg, child, old>>

\* A slip: the lock is given back before sched().
MutExitZombie(c) == ExitBody(c) /\ CriticalSection(c)
ExitZombie(c) == ExitBody(c) /\ SpinLock(c)

-----------------------------------------------------------------------------
SchedulerStep(c) ==
    \/ SchedulerTop(c) \/ SchedulerPick(c) \/ SchedulerNone(c)
    \/ SwitchIn(c) \/ SwitchBack(c)
    \/ ReapTake(c) \/ ReapSkip(c) \/ ReapFree(c) \/ ReapUnused(c) \/ ReapDone(c)

\* Code a process has started and runs to its end.
ProcessStep(c) ==
    \/ SwitchOut(c) \/ FirstRun(c) \/ YieldLock(c) \/ YieldBack(c) \/ Iret(c)
    \/ SleepMore(c) \/ SleepBack(c) \/ SleepDone(c)
    \/ SpawnAlloc(c) \/ SpawnFull(c) \/ AllocStack(c) \/ AllocStackFails(c)
    \/ ForkCopy(c) \/ ForkFails(c) \/ MakeReady(c)
    \/ WaitFound(c) \/ WaitNoChild(c) \/ WaitSleep(c) \/ WaitBack(c)
    \/ FreeStack(c) \/ FreeSlot(c)
    \/ ExitDetach(c) \/ ExecSwap(c) \/ LoadCr3(c) \/ DestroyOld(c) \/ ExitZombie(c)

\* What a process in "run" may start.
Call(c) ==
    \/ Yield(c) \/ SleepMs(c) \/ KthreadAlloc(c) \/ ForkAlloc(c) \/ SpawnLoad(c)
    \/ WaitLock(c) \/ WaitNohang(c) \/ Exit(c) \/ ExecLoad(c)

TimerInterrupt(c) == TickIdle(c) \/ TickProc(c) \/ TickYield(c)

Next == \E c \in CPUs : \/ SchedulerStep(c) \/ ProcessStep(c)
                        \/ Call(c) \/ TimerInterrupt(c)

Spec == Init /\ [][Next]_vars

\* CPUs execute their code.  The fairness is strong for two reasons: spin_lock
\* panics when a CPU has waited too long (spinlock.c:34), so in a run without a
\* panic a CPU that waits for a lock gets it; and the local APIC latches a timer
\* interrupt until IF is on again.
Fairness == \A c \in CPUs : /\ SF_vars(SchedulerStep(c) \/ ProcessStep(c))
                            /\ SF_vars(TimerInterrupt(c))
FairSpec == Spec /\ Fairness

-----------------------------------------------------------------------------
LockType ==
    /\ lock \in CPUs \cup {None}
    /\ ifl \in [CPUs -> BOOLEAN]
    /\ ncli \in [CPUs -> Nat]
    /\ intena \in [CPUs -> BOOLEAN]

CpuType ==
    /\ cur \in [CPUs -> Procs \cup {Idle}]
    /\ stk \in [CPUs -> Procs \cup {Idle}]
    /\ cr3 \in [CPUs -> Spaces \cup {Kernel}]
    /\ spc \in [CPUs -> SchedPcs]
    /\ reapi \in 0 .. MAX_PROCS
    /\ rr_next \in Procs

ProcType ==
    /\ state \in [Procs -> States]
    /\ parent \in [Procs -> Procs \cup {Idle, None}]
    /\ wait_channel \in [Procs -> Channels]
    /\ quantum \in [Procs -> 0 .. SCHED_QUANTUM]
    /\ left \in [Procs -> 0 .. MaxSleep]
    /\ pml4 \in [Procs -> Spaces \cup {Kernel}]
    /\ kstack \in [Procs -> BOOLEAN]
    /\ live \subseteq Spaces

CodeType ==
    /\ pc \in [Procs -> Pcs]
    /\ ret \in [Procs -> Pcs]
    /\ saved \in [Procs -> BOOLEAN]
    /\ ipc \in [Procs -> FreePcs \cup {None}]
    /\ arg \in [Procs -> Procs \cup {AnyPid}]
    /\ child \in [Procs -> Procs \cup {None}]
    /\ old \in [Procs -> Spaces \cup {None}]

TypeOK == LockType /\ CpuType /\ ProcType /\ CodeType

-----------------------------------------------------------------------------
(* Safety.                                                                  *)

\* Two CPUs never execute on one kernel stack: a process that made itself READY
\* in proc_yield stays on its stack until context_switch, and only the lock held
\* across the switch keeps other CPUs from picking it (process.c:13-25).
OneCpuPerStack ==
    \A c, d \in CPUs : c # d /\ stk[c] # Idle => stk[c] # stk[d]

\* A CPU never executes on a kernel stack that proc_free gave back: wait() and
\* reap_orphans may free a ZOMBIE only after it has left its stack for good.
StackAllocated ==
    \A c \in CPUs : stk[c] # Idle => kstack[stk[c]]

\* The panics of sched(), spin_lock, spin_unlock and do_exit are unreachable: on
\* the way into sched() the CPU holds proc_lock and nothing else with IF off, a
\* CPU never takes a lock it holds, the code that unlocks holds it, and a ZOMBIE
\* is never resumed.
NoPanic ==
    \A c \in CPUs :
       /\ At(c, "sched") => /\ lock = c /\ ncli[c] = 1 /\ ~ifl[c]
                            /\ state[stk[c]] # "RUNNING"
       /\ stk[c] # Idle /\ pc[stk[c]] \in FreePcs => lock # c
       /\ stk[c] # Idle /\ pc[stk[c]] \in LockedPcs => lock = c
       /\ stk[c] = Idle => (lock = c <=> spc[c] \in {"switch", "back"})
       /\ ~At(c, "x_dead")

\* A process finds IF as it left it, on whichever CPU it goes on: on in ordinary
\* code, off in the interrupt handler that yielded; sched() keeps intena on the
\* process's stack for this.  A halted CPU always has IF on.
InterruptFlagFollowsProcess ==
    \A c \in CPUs :
       /\ At(c, "iret") => ~ifl[c]
       /\ At(c, "run") => ifl[c]
       /\ OnIdle(c, "halt") => ifl[c]

\* No CPU has page tables loaded that were freed: a CPU leaves a process's tables
\* as soon as it is back in its scheduler loop (process.c:268-279), because the
\* process may exit or exec on another CPU.
LoadedTablesLive ==
    \A c \in CPUs : cr3[c] # Kernel => cr3[c] \in live

\* Every set of page tables has exactly one owner, a slot in use or the local
\* variable of the code that is about to install or destroy it: proc_list, which
\* walks p->pml4 under proc_lock, never meets freed tables, and none are lost.
TablesOwnedOnce ==
    /\ \A s \in live :
          Cardinality({p \in Procs : state[p] # "UNUSED" /\ pml4[p] = s})
             + Cardinality({p \in Procs : old[p] = s}) = 1
    /\ \A p \in Procs : state[p] # "UNUSED" => pml4[p] \in live \cup {Kernel}

\* A parent pointer never leads to a slot that is free, dying or reused.
ParentAlive ==
    \A p \in Procs :
       state[p] \notin {"UNUSED", "DEAD"} /\ parent[p] \in Procs =>
          state[parent[p]] \in {"READY", "RUNNING", "BLOCKED"}

\* A parent asleep in proc_wait has a child to wait for, and none it waits for
\* is a zombie already: do_exit's wakeup is not lost.
WaiterNotForgotten ==
    \A p \in Procs :
       state[p] = "BLOCKED" /\ wait_channel[p] = p =>
          Matches(p, arg[p]) # {} /\ Zombies(p, arg[p]) = {}

\* Who is building or taking apart slot q: processes and CPU0's reaper.
Handlers(q) == {p \in Procs : child[p] = q}
                  \cup {c \in {BSP} : reapi = q /\ spc[c] \in {"r_free", "r_unused"}}

\* An EMBRYO or DEAD slot is in exactly one pair of hands, any other slot in none:
\* a zombie is never freed twice (proc_wait against reap_orphans), and no slot
\* stays taken because of an error path.
OneHandlerPerSlot ==
    \A q \in Procs :
       IF state[q] \in {"EMBRYO", "DEAD"} THEN Cardinality(Handlers(q)) = 1
                                          ELSE Handlers(q) = {}

-----------------------------------------------------------------------------
(* Liveness.                                                                *)

\* A READY process runs: round robin with a quantum leaves nobody behind.
ReadyRuns == \A p \in Procs : state[p] = "READY" ~> state[p] = "RUNNING"

\* proc_sleep_ms comes back to its caller.
SleepEnds ==
    \A p \in Procs : pc[p] = "s_back" ~> pc[p] = "run"

-----------------------------------------------------------------------------
(* The inductive invariant behind OneCpuPerStack, NoPanic, StackAllocated   *)
(* and InterruptFlagFollowsProcess (proved in SchedProof).                  *)

\* Is CPU c inside a critical section that spans steps?
Holding(c) == IF stk[c] = Idle THEN spc[c] \in {"switch", "back"}
                               ELSE pc[stk[c]] \in LockedPcs

LockInv ==
    \A c \in CPUs :
       /\ lock = c <=> Holding(c)
       /\ ncli[c] = IF lock = c THEN 1 ELSE 0
       /\ lock = c => ~ifl[c]

\* How cur_proc, the stack and the scheduler loop of a CPU fit together, and
\* what state the process it executes is in.
CpuInv ==
    \A c \in CPUs :
       /\ stk[c] # Idle => cur[c] = stk[c] /\ spc[c] = "back"
       /\ cur[c] = Idle <=> stk[c] = Idle /\ spc[c] \notin {"switch", "back"}
       /\ \A d \in CPUs : c # d /\ cur[c] # Idle => cur[c] # cur[d]
       /\ spc[c] = "switch" => state[cur[c]] = "RUNNING"
       /\ stk[c] # Idle => (pc[stk[c]] # "sched" <=> state[stk[c]] = "RUNNING")
       /\ spc[c] \in {"reap", "r_free", "r_unused"} => c = BSP
       /\ spc[c] \in {"r_free", "r_unused"} => reapi \in Procs /\ state[reapi] = "DEAD"

\* The interrupted code, while a timer interrupt runs on the stack.
Code(p) == IF ipc[p] = None THEN pc[p] ELSE ipc[p]
Between == {"READY", "BLOCKED", "ZOMBIE"}    \* the states sched() is called in
InUse   == {"READY", "RUNNING", "BLOCKED", "ZOMBIE"}
AfterSched == {"y_back", "s_back", "w_back", "x_dead"}

\* Where the code of a slot can be, by its state.
CodeInv ==
    \A p \in Procs :
       /\ ipc[p] # None => /\ pc[p] \in {"yield", "sched", "y_back", "iret"}
                           /\ ipc[p] # "iret"
                           /\ pc[p] = "sched" => ret[p] = "y_back"
       /\ pc[p] = "iret" => ipc[p] # None
       /\ pc[p] = "sched" => ret[p] \in AfterSched /\ state[p] \in Between
       /\ pc[p] = "sched" => (ret[p] = "x_dead" <=> state[p] = "ZOMBIE")
       /\ pc[p] = "x_dead" => state[p] \notin {"READY", "RUNNING", "BLOCKED"}
       /\ state[p] = "ZOMBIE" => pc[p] \in {"sched", "x_dead"}
       /\ state[p] \in {"UNUSED", "EMBRYO", "DEAD"} => pc[p] \in {"new", "x_dead"}
       /\ pc[p] \notin {"new"} \cup AfterSched => \E c \in CPUs : stk[c] = p
       /\ state[p] \in InUse => kstack[p]

\* Whom a slot is building or freeing, and which page tables it holds.
Building == {"k_stack", "f_stack", "f_mm", "sp_stack", "c_ready"}
Freeing  == {"p_free", "p_unused"}
Keeping  == {"sp_alloc", "sp_stack", "x_cr3", "x_free", "e_swap", "e_cr3", "e_free"}
ChildInv ==
    /\ \A p \in Procs :
          /\ child[p] # None <=> Code(p) \in Building \cup Freeing
          /\ Code(p) \in Building => state[child[p]] = "EMBRYO"
          /\ Code(p) \in Freeing => state[child[p]] \in {"EMBRYO", "DEAD"}
          /\ Code(p) \in {"f_mm", "c_ready"} =>
                pc[child[p]] = "new" /\ kstack[child[p]]
          /\ old[p] # None <=> Code(p) \in Keeping
          /\ Code(p) \in {"x_mm", "e_swap"} => pml4[p] # Kernel
          /\ spc[BSP] \in {"r_free", "r_unused"} => child[p] # reapi
    /\ \A p, q \in Procs : p # q /\ child[p] # None => child[p] # child[q]

\* intena belongs to the process: on its stack while it is switched out, in the
\* CPU while it is in a critical section.
FlagInv ==
    /\ \A c \in CPUs :
          /\ stk[c] # Idle /\ pc[stk[c]] \in FreePcs => (ifl[c] <=> ipc[stk[c]] = None)
          /\ stk[c] # Idle /\ pc[stk[c]] \in LockedPcs \ {"new"} =>
                (intena[c] <=> ipc[stk[c]] = None)
          /\ OnIdle(c, "halt") => ifl[c]
          /\ OnIdle(c, "pick") => ifl[c]
    /\ \A p \in Procs :
          pc[p] \in AfterSched /\ (\A c \in CPUs : stk[c] # p) =>
             (saved[p] <=> ipc[p] = None)

IInv == TypeOK /\ LockInv /\ CpuInv /\ CodeInv /\ ChildInv /\ FlagInv

-----------------------------------------------------------------------------
(* What LoadedTablesLive, TablesOwnedOnce, ParentAlive, WaiterNotForgotten  *)
(* and OneHandlerPerSlot need on top of it (proved in SchedProof).          *)

\* No two slots or local variables have the same page tables, and every set of
\* tables is somewhere.
TableInv ==
    /\ \A p, q \in Procs :
          /\ pml4[p] = pml4[q] /\ pml4[p] # Kernel => p = q
          /\ old[p] = old[q] /\ old[p] # None => p = q
          /\ pml4[p] # Kernel => pml4[p] # old[q]
    /\ \A p \in Procs : pml4[p] \in live \cup {Kernel} /\ old[p] \in live \cup {None}
    /\ \A s \in live : \E p \in Procs : pml4[p] = s \/ old[p] = s

\* Who has no page tables: free slots and those who have given them up, and a slot
\* whose maker has not yet come to give it any.
Bare == {"k_stack", "f_stack", "f_mm", "sp_stack", "p_free", "p_unused"}
BareInv ==
    \A p \in Procs :
       /\ state[p] \in {"UNUSED", "ZOMBIE", "DEAD"} => pml4[p] = Kernel
       /\ Code(p) \in {"x_cr3", "x_free", "x_last"} => pml4[p] = Kernel
       /\ Code(p) \in Bare => pml4[child[p]] = Kernel

\* What a CPU has loaded: the tables of its process, or those its process is about
\* to leave; and whose they are while the process has left its stack.
LoadedInv ==
    \A c \in CPUs :
       /\ cur[c] = Idle => cr3[c] = Kernel
       /\ cur[c] # Idle => \/ cr3[c] = pml4[cur[c]]
                           \/ Code(cur[c]) \in {"x_cr3", "e_cr3"} /\ cr3[c] = old[cur[c]]
       /\ stk[c] = Idle /\ spc[c] = "back" => state[cur[c]] \in Between

\* A process sleeps in proc_sleep_ms or proc_wait and nowhere else.
AsleepInv ==
    \A p \in Procs : state[p] = "BLOCKED" =>
       \/ pc[p] \in {"s_back", "w_back"}
       \/ pc[p] = "sched" /\ ret[p] \in {"s_back", "w_back"}

\* The parent builds or frees a slot; the reaper frees orphans.
HandlerInv ==
    \A q \in Procs : state[q] \in {"EMBRYO", "DEAD"} =>
       \/ parent[q] \in Procs /\ child[parent[q]] = q
       \/ parent[q] = None /\ reapi = q /\ spc[BSP] \in {"r_free", "r_unused"}

OwnInv ==
    /\ TableInv /\ BareInv /\ LoadedInv /\ ParentAlive
    /\ AsleepInv /\ HandlerInv /\ WaiterNotForgotten
=============================================================================

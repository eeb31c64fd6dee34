----------------------------- MODULE SchedProof -----------------------------
(***************************************************************************)
(* Proofs about Sched, for every number of slots and CPUs and every set of *)
(* operations: the lock that is handed over across context_switch keeps    *)
(* two CPUs off one kernel stack, no panic of the scheduler is reachable,  *)
(* and a process finds the interrupt flag as it left it.  The second part  *)
(* is about who owns page tables, slots and children: OwnInv is inductive  *)
(* relative to IInv, and gives that no CPU uses freed page tables, that    *)
(* none are lost, that a slot is freed once, and that a waiting parent is  *)
(* not forgotten.                                                          *)
(***************************************************************************)
EXTENDS Sched, FiniteSetTheorems, TLAPS

USE SlotAssumption, QuantumAssumption, SleepAssumption, BspAssumption,
    NoneAssumption, PcAssumption

\* The scheduler loop and the reaper of a CPU (scheduler_loop, reap_orphans)
\* keep the inductive invariant.
LEMMA SchedulerStepInv ==
  ASSUME NEW c \in CPUs, IInv, SchedulerStep(c)
  PROVE  IInv'
<1>1. CASE SchedulerTop(c)
  <2> USE DEF SchedulerTop, OnIdle, TypeOK, lockVars, cpuVars, procVars, codeVars
  <2>1. LockType'
    BY <1>1 DEF IInv, LockType, LockInv, CpuType, Holding, LockedPcs, CodeType
  <2>2. CpuType'  BY <1>1 DEF IInv, CpuType, ProcType, CpuInv, SchedPcs, Procs
  <2>3. ProcType'  BY <1>1 DEF IInv, ProcType
  <2>4. CodeType'  BY <1>1 DEF IInv, CodeType
  <2>5. LockInv'
    BY <1>1 DEF IInv, LockType, CpuType, ProcType, CodeType, LockInv, CpuInv, CodeInv,
       ChildInv, Holding, Code, LockedPcs, FreePcs, Building, AfterSched, Pcs
  <2>6. CpuInv'
    BY SMTT(90), <1>1 DEF IInv, LockType, CpuType, ProcType, CodeType, CpuInv, LockInv,
       CodeInv, ChildInv, Code, Building, Freeing, Holding, LockedPcs, Procs
  <2>7. CodeInv'  BY <1>1 DEF IInv, CodeInv
  <2>8. ChildInv'
    BY SMTT(90), <1>1 DEF IInv, LockType, CpuType, ProcType, CodeType, ChildInv, CodeInv,
       CpuInv, LockInv, FlagInv, Code, Holding, LockedPcs, FreePcs, Building, Freeing,
       Keeping, AfterSched
  <2>9. FlagInv'
    BY SMTT(90), <1>1 DEF IInv, LockType, CpuType, ProcType, CodeType, FlagInv, CpuInv,
       CodeInv, ChildInv, Code, Building, LockInv, Holding, FreePcs, LockedPcs, OnIdle,
       AfterSched
  <2> QED
    BY <2>1, <2>2, <2>3, <2>4, <2>5, <2>6, <2>7, <2>8, <2>9 DEF IInv
<1>2. CASE SchedulerPick(c)
  <2> USE DEF SchedulerPick, OnIdle, SpinLock, IsNext, TypeOK, lockVars, cpuVars, procVars, codeVars
  <2>f0. PICK p \in Procs : /\ state[p] = "READY" /\ rr_next' = RrAfter(p)
                 /\ state' = [state EXCEPT ![p] = "RUNNING"]
                 /\ cur' = [cur EXCEPT ![c] = p]
                 /\ cr3' = [cr3 EXCEPT ![c] = pml4[p]]
    BY <1>2 DEF IInv, IsNext
  <2>f1. \A d \in CPUs : cur[d] # p
    BY <1>2, <2>f0 DEF IInv, LockInv, Holding, CpuInv, LockedPcs, LockType, CpuType
  <2>f2. RrAfter(p) \in Procs
    BY <1>2, <2>f0, <2>f1 DEF IInv, RrAfter, Procs
  <2>f3. pc[p] # "sched"
    BY <1>2, <2>f0, <2>f1, <2>f2 DEF IInv, LockInv, Holding, CodeInv, LockedPcs,
       AfterSched
  <2>1. LockType'
    BY <1>2, <2>f0, <2>f1, <2>f2, <2>f3 DEF IInv, LockType, LockInv, CpuType, Holding,
       LockedPcs, CodeType
  <2>2. CpuType'
    BY ZenonT(40), <1>2, <2>f0, <2>f1, <2>f2, <2>f3 DEF IInv, CpuType, ProcType, CpuInv, SchedPcs,
       Procs
  <2>3. ProcType'
    BY <1>2, <2>f0, <2>f1, <2>f2, <2>f3 DEF IInv, ProcType, CodeType, CpuType, States,
       Channels, ChildInv, CodeInv, Code, Building, Keeping
  <2>4. CodeType'  BY <1>2 DEF IInv, CodeType
  <2>5. LockInv'
    BY <1>2, <2>f0, <2>f1, <2>f2, <2>f3 DEF IInv, LockType, CpuType, ProcType, CodeType,
       LockInv, CpuInv, CodeInv, ChildInv, Holding, Code, LockedPcs, FreePcs, Building,
       AfterSched, Pcs
  <2>6. CpuInv'
    BY SMTT(90), <1>2, <2>f0, <2>f1, <2>f2, <2>f3 DEF IInv, LockType, CpuType, ProcType,
       CodeType, CpuInv, LockInv, CodeInv, ChildInv, Code, Building, Freeing, Holding,
       LockedPcs, Procs
  <2>7. CodeInv'
    BY SMTT(90), <1>2, <2>f0, <2>f1, <2>f2, <2>f3 DEF IInv, LockType, CpuType, ProcType,
       CodeType, CodeInv, CpuInv, LockInv, FlagInv, ChildInv, Code, Holding, LockedPcs,
       FreePcs, AfterSched, Between, InUse, Building, Freeing
  <2>8. ChildInv'
    BY SMTT(90), <1>2, <2>f0, <2>f1, <2>f2, <2>f3 DEF IInv, LockType, CpuType, ProcType,
       CodeType, ChildInv, CodeInv, CpuInv, LockInv, FlagInv, Code, Holding, LockedPcs,
       FreePcs, Building, Freeing, Keeping, AfterSched
  <2>9. FlagInv'
    BY SMTT(90), <1>2, <2>f0, <2>f1, <2>f2, <2>f3 DEF IInv, LockType, CpuType, ProcType,
       CodeType, FlagInv, CpuInv, CodeInv, ChildInv, Code, Building, LockInv, Holding,
       FreePcs, LockedPcs, OnIdle, AfterSched
  <2> QED
    BY <2>1, <2>2, <2>3, <2>4, <2>5, <2>6, <2>7, <2>8, <2>9 DEF IInv
<1>3. CASE SchedulerNone(c)
  <2> USE DEF SchedulerNone, OnIdle, CriticalSection, TypeOK, lockVars, cpuVars, procVars, codeVars
  <2>1. LockType'
    BY <1>3 DEF IInv, LockType, LockInv, CpuType, Holding, LockedPcs, CodeType
  <2>2. CpuType'  BY <1>3 DEF IInv, CpuType, ProcType, CpuInv, SchedPcs, Procs
  <2>3. ProcType'  BY <1>3 DEF IInv, ProcType
  <2>4. CodeType'  BY <1>3 DEF IInv, CodeType
  <2>5. LockInv'
    BY <1>3 DEF IInv, LockType, CpuType, ProcType, CodeType, LockInv, CpuInv, CodeInv,
       ChildInv, Holding, Code, LockedPcs, FreePcs, Building, AfterSched, Pcs
  <2>6. CpuInv'
    BY SMTT(90), <1>3 DEF IInv, LockType, CpuType, ProcType, CodeType, CpuInv, LockInv,
       CodeInv, ChildInv, Code, Building, Freeing, Holding, LockedPcs, Procs
  <2>7. CodeInv'  BY <1>3 DEF IInv, CodeInv
  <2>8. ChildInv'
    BY SMTT(90), <1>3 DEF IInv, LockType, CpuType, ProcType, CodeType, ChildInv, CodeInv,
       CpuInv, LockInv, FlagInv, Code, Holding, LockedPcs, FreePcs, Building, Freeing,
       Keeping, AfterSched
  <2>9. FlagInv'
    BY SMTT(90), <1>3 DEF IInv, LockType, CpuType, ProcType, CodeType, FlagInv, CpuInv,
       CodeInv, ChildInv, Code, Building, LockInv, Holding, FreePcs, LockedPcs, OnIdle,
       AfterSched
  <2> QED
    BY <2>1, <2>2, <2>3, <2>4, <2>5, <2>6, <2>7, <2>8, <2>9 DEF IInv
<1>4. CASE SwitchIn(c)
  <2> USE DEF SwitchIn, OnIdle, TypeOK, lockVars, cpuVars, procVars, codeVars
  <2>f0. cur[c] \in Procs /\ state[cur[c]] = "RUNNING"
    BY <1>4 DEF IInv, CpuInv, CpuType
  <2>f1. pc[cur[c]] # "sched"
    BY <1>4, <2>f0 DEF IInv, CodeInv, Between
  <2>1. LockType'
    BY <1>4, <2>f0, <2>f1 DEF IInv, LockType, LockInv, CpuType, Holding, LockedPcs,
       CodeType
  <2>2. CpuType'
    BY <1>4, <2>f0, <2>f1 DEF IInv, CpuType, ProcType, CpuInv, SchedPcs, Procs
  <2>3. ProcType'  BY <1>4 DEF IInv, ProcType
  <2>4. CodeType'
    BY <1>4, <2>f0, <2>f1 DEF IInv, CodeType, ProcType, CpuType, Pcs, LockedPcs, FreePcs,
       CodeInv, LockType
  <2>5. LockInv'
    BY <1>4, <2>f0, <2>f1 DEF IInv, LockType, CpuType, ProcType, CodeType, LockInv,
       CpuInv, CodeInv, ChildInv, Holding, Code, LockedPcs, FreePcs, Building, AfterSched,
       Pcs
  <2>6. CpuInv'
    BY SMTT(90), <1>4, <2>f0, <2>f1 DEF IInv, LockType, CpuType, ProcType, CodeType,
       CpuInv, LockInv, CodeInv, ChildInv, Code, Building, Freeing, Holding, LockedPcs,
       Procs
  <2>7. CodeInv'
    BY SMTT(90), <1>4, <2>f0, <2>f1 DEF IInv, LockType, CpuType, ProcType, CodeType,
       CodeInv, CpuInv, LockInv, FlagInv, ChildInv, Code, Holding, LockedPcs, FreePcs,
       AfterSched, Between, InUse, Building, Freeing
  <2>8. ChildInv'
    BY SMTT(90), <1>4, <2>f0, <2>f1 DEF IInv, LockType, CpuType, ProcType, CodeType,
       ChildInv, CodeInv, CpuInv, LockInv, FlagInv, Code, Holding, LockedPcs, FreePcs,
       Building, Freeing, Keeping, AfterSched
  <2>9. FlagInv'
    BY SMTT(90), <1>4, <2>f0, <2>f1 DEF IInv, LockType, CpuType, ProcType, CodeType,
       FlagInv, CpuInv, CodeInv, ChildInv, Code, Building, LockInv, Holding, FreePcs,
       LockedPcs, OnIdle, AfterSched
  <2> QED
    BY <2>1, <2>2, <2>3, <2>4, <2>5, <2>6, <2>7, <2>8, <2>9 DEF IInv
<1>5. CASE SwitchBack(c)
  <2> USE DEF SwitchBack, OnIdle, SpinUnlock, TypeOK, lockVars, cpuVars, procVars, codeVars
  <2>1. LockType'
    BY <1>5 DEF IInv, LockType, LockInv, CpuType, Holding, LockedPcs, CodeType
  <2>2. CpuType'  BY <1>5 DEF IInv, CpuType, ProcType, CpuInv, SchedPcs, Procs
  <2>3. ProcType'  BY <1>5 DEF IInv, ProcType
  <2>4. CodeType'  BY <1>5 DEF IInv, CodeType
  <2>5. LockInv'
    BY <1>5 DEF IInv, LockType, CpuType, ProcType, CodeType, LockInv, CpuInv, CodeInv,
       ChildInv, Holding, Code, LockedPcs, FreePcs, Building, AfterSched, Pcs
  <2>6. CpuInv'
    BY SMTT(90), <1>5 DEF IInv, LockType, CpuType, ProcType, CodeType, CpuInv, LockInv,
       CodeInv, ChildInv, Code, Building, Freeing, Holding, LockedPcs, Procs
  <2>7. CodeInv'  BY <1>5 DEF IInv, CodeInv
  <2>8. ChildInv'
    BY SMTT(90), <1>5 DEF IInv, LockType, CpuType, ProcType, CodeType, ChildInv, CodeInv,
       CpuInv, LockInv, FlagInv, Code, Holding, LockedPcs, FreePcs, Building, Freeing,
       Keeping, AfterSched
  <2>9. FlagInv'
    BY SMTT(90), <1>5 DEF IInv, LockType, CpuType, ProcType, CodeType, FlagInv, CpuInv,
       CodeInv, ChildInv, Code, Building, LockInv, Holding, FreePcs, LockedPcs, OnIdle,
       AfterSched
  <2> QED
    BY <2>1, <2>2, <2>3, <2>4, <2>5, <2>6, <2>7, <2>8, <2>9 DEF IInv
<1>6. CASE ReapTake(c)
  <2> USE DEF ReapTake, OnIdle, CriticalSection, TypeOK, lockVars, cpuVars, procVars, codeVars
  <2>f0. reapi \in Procs
    BY <1>6 DEF IInv, CpuType, Procs
  <2>f1. \A d \in CPUs : state[reapi] = "ZOMBIE" => cur[d] # reapi
    BY <1>6, <2>f0 DEF IInv, LockInv, Holding, CpuInv, LockedPcs, LockType, CpuType
  <2>f2. state[reapi] = "ZOMBIE" => \A q \in Procs : child[q] # reapi
    BY <1>6, <2>f0, <2>f1 DEF IInv, ChildInv, CodeType
  <2>f3. c = BSP
    BY <1>6, <2>f0, <2>f1, <2>f2 DEF IInv, CpuInv
  <2>1. LockType'
    BY <1>6, <2>f0, <2>f1, <2>f2, <2>f3 DEF IInv, LockType, LockInv, CpuType, Holding,
       LockedPcs, CodeType
  <2>2. CpuType'
    BY <1>6, <2>f0, <2>f1, <2>f2, <2>f3 DEF IInv, CpuType, ProcType, CpuInv, SchedPcs,
       Procs
  <2>3. ProcType'
    BY <1>6, <2>f0, <2>f1, <2>f2, <2>f3 DEF IInv, ProcType, CodeType, CpuType, States,
       Channels, ChildInv, CodeInv, Code, Building, Keeping
  <2>4. CodeType'  BY <1>6 DEF IInv, CodeType
  <2>5. LockInv'
    BY <1>6, <2>f0, <2>f1, <2>f2, <2>f3 DEF IInv, LockType, CpuType, ProcType, CodeType,
       LockInv, CpuInv, CodeInv, ChildInv, Holding, Code, LockedPcs, FreePcs, Building,
       AfterSched, Pcs
  <2>6. CpuInv'
    BY SMTT(90), <1>6, <2>f0, <2>f1, <2>f2, <2>f3 DEF IInv, LockType, CpuType, ProcType,
       CodeType, CpuInv, LockInv, CodeInv, ChildInv, Code, Building, Freeing, Holding,
       LockedPcs, Procs
  <2>7. CodeInv'
    BY SMTT(90), <1>6, <2>f0, <2>f1, <2>f2, <2>f3 DEF IInv, LockType, CpuType, ProcType,
       CodeType, CodeInv, CpuInv, LockInv, FlagInv, ChildInv, Code, Holding, LockedPcs,
       FreePcs, AfterSched, Between, InUse, Building, Freeing
  <2>8. ChildInv'
    BY SMTT(90), <1>6, <2>f0, <2>f1, <2>f2, <2>f3 DEF IInv, LockType, CpuType, ProcType,
       CodeType, ChildInv, CodeInv, CpuInv, LockInv, FlagInv, Code, Holding, LockedPcs,
       FreePcs, Building, Freeing, Keeping, AfterSched
  <2>9. FlagInv'
    BY SMTT(90), <1>6, <2>f0, <2>f1, <2>f2, <2>f3 DEF IInv, LockType, CpuType, ProcType,
       CodeType, FlagInv, CpuInv, CodeInv, ChildInv, Code, Building, LockInv, Holding,
       FreePcs, LockedPcs, OnIdle, AfterSched
  <2> QED
    BY <2>1, <2>2, <2>3, <2>4, <2>5, <2>6, <2>7, <2>8, <2>9 DEF IInv
<1>7. CASE ReapSkip(c)
  <2> USE DEF ReapSkip, OnIdle, CriticalSection, TypeOK, lockVars, cpuVars, procVars, codeVars
  <2>f0. c = BSP /\ reapi + 1 \in 0 .. MAX_PROCS
    BY <1>7 DEF IInv, CpuInv, CpuType, Procs
  <2>1. LockType'
    BY <1>7, <2>f0 DEF IInv, LockType, LockInv, CpuType, Holding, LockedPcs, CodeType
  <2>2. CpuType'  BY <1>7, <2>f0 DEF IInv, CpuType, ProcType, CpuInv, SchedPcs, Procs
  <2>3. ProcType'  BY <1>7 DEF IInv, ProcType
  <2>4. CodeType'  BY <1>7 DEF IInv, CodeType
  <2>5. LockInv'  BY <1>7 DEF IInv, LockInv, Holding
  <2>6. CpuInv'
    BY SMTT(90), <1>7, <2>f0 DEF IInv, LockType, CpuType, ProcType, CodeType, CpuInv,
       LockInv, CodeInv, ChildInv, Code, Building, Freeing, Holding, LockedPcs, Procs
  <2>7. CodeInv'  BY <1>7 DEF IInv, CodeInv
  <2>8. ChildInv'
    BY SMTT(90), <1>7, <2>f0 DEF IInv, LockType, CpuType, ProcType, CodeType, ChildInv,
       CodeInv, CpuInv, LockInv, FlagInv, Code, Holding, LockedPcs, FreePcs, Building,
       Freeing, Keeping, AfterSched
  <2>9. FlagInv'
    BY SMTT(90), <1>7, <2>f0 DEF IInv, LockType, CpuType, ProcType, CodeType, FlagInv,
       CpuInv, CodeInv, ChildInv, Code, Building, LockInv, Holding, FreePcs, LockedPcs,
       OnIdle, AfterSched
  <2> QED
    BY <2>1, <2>2, <2>3, <2>4, <2>5, <2>6, <2>7, <2>8, <2>9 DEF IInv
<1>8. CASE ReapFree(c)
  <2> USE DEF ReapFree, OnIdle, TypeOK, lockVars, cpuVars, procVars, codeVars
  <2>1. LockType'  BY <1>8 DEF IInv, LockType
  <2>2. CpuType'  BY <1>8 DEF IInv, CpuType, ProcType, CpuInv, SchedPcs, Procs
  <2>3. ProcType'
    BY <1>8 DEF IInv, ProcType, CodeType, CpuType, States, Channels, ChildInv, CodeInv,
       Code, Building, Keeping
  <2>4. CodeType'  BY <1>8 DEF IInv, CodeType
  <2>5. LockInv'
    BY <1>8 DEF IInv, LockType, CpuType, ProcType, CodeType, LockInv, CpuInv, CodeInv,
       ChildInv, Holding, Code, LockedPcs, FreePcs, Building, AfterSched, Pcs
  <2>6. CpuInv'
    BY SMTT(90), <1>8 DEF IInv, LockType, CpuType, ProcType, CodeType, CpuInv, LockInv,
       CodeInv, ChildInv, Code, Building, Freeing, Holding, LockedPcs, Procs
  <2>7. CodeInv'
    BY SMTT(90), <1>8 DEF IInv, LockType, CpuType, ProcType, CodeType, CodeInv, CpuInv,
       LockInv, FlagInv, ChildInv, Code, Holding, LockedPcs, FreePcs, AfterSched, Between,
       InUse, Building, Freeing
  <2>8. ChildInv'
    BY SMTT(90), <1>8 DEF IInv, LockType, CpuType, ProcType, CodeType, ChildInv, CodeInv,
       CpuInv, LockInv, FlagInv, Code, Holding, LockedPcs, FreePcs, Building, Freeing,
       Keeping, AfterSched
  <2>9. FlagInv'
    BY SMTT(90), <1>8 DEF IInv, LockType, CpuType, ProcType, CodeType, FlagInv, CpuInv,
       CodeInv, ChildInv, Code, Building, LockInv, Holding, FreePcs, LockedPcs, OnIdle,
       AfterSched
  <2> QED
    BY <2>1, <2>2, <2>3, <2>4, <2>5, <2>6, <2>7, <2>8, <2>9 DEF IInv
<1>9. CASE ReapUnused(c)
  <2> USE DEF ReapUnused, OnIdle, CriticalSection, TypeOK, lockVars, cpuVars, procVars, codeVars
  <2>1. LockType'
    BY <1>9 DEF IInv, LockType, LockInv, CpuType, Holding, LockedPcs, CodeType
  <2>2. CpuType'  BY <1>9 DEF IInv, CpuType, ProcType, CpuInv, SchedPcs, Procs
  <2>3. ProcType'
    BY <1>9 DEF IInv, ProcType, CodeType, CpuType, States, Channels, ChildInv, CodeInv,
       Code, Building, Keeping
  <2>4. CodeType'  BY <1>9 DEF IInv, CodeType
  <2>5. LockInv'
    BY <1>9 DEF IInv, LockType, CpuType, ProcType, CodeType, LockInv, CpuInv, CodeInv,
       ChildInv, Holding, Code, LockedPcs, FreePcs, Building, AfterSched, Pcs
  <2>6. CpuInv'
    BY SMTT(90), <1>9 DEF IInv, LockType, CpuType, ProcType, CodeType, CpuInv, LockInv,
       CodeInv, ChildInv, Code, Building, Freeing, Holding, LockedPcs, Procs
  <2>7. CodeInv'
    BY SMTT(90), <1>9 DEF IInv, LockType, CpuType, ProcType, CodeType, CodeInv, CpuInv,
       LockInv, FlagInv, ChildInv, Code, Holding, LockedPcs, FreePcs, AfterSched, Between,
       InUse, Building, Freeing
  <2>8. ChildInv'
    BY SMTT(90), <1>9 DEF IInv, LockType, CpuType, ProcType, CodeType, ChildInv, CodeInv,
       CpuInv, LockInv, FlagInv, Code, Holding, LockedPcs, FreePcs, Building, Freeing,
       Keeping, AfterSched
  <2>9. FlagInv'
    BY SMTT(90), <1>9 DEF IInv, LockType, CpuType, ProcType, CodeType, FlagInv, CpuInv,
       CodeInv, ChildInv, Code, Building, LockInv, Holding, FreePcs, LockedPcs, OnIdle,
       AfterSched
  <2> QED
    BY <2>1, <2>2, <2>3, <2>4, <2>5, <2>6, <2>7, <2>8, <2>9 DEF IInv
<1>10. CASE ReapDone(c)
  <2> USE DEF ReapDone, OnIdle, TypeOK, lockVars, cpuVars, procVars, codeVars
  <2>1. LockType'
    BY <1>10 DEF IInv, LockType, LockInv, CpuType, Holding, LockedPcs, CodeType
  <2>2. CpuType'  BY <1>10 DEF IInv, CpuType, ProcType, CpuInv, SchedPcs, Procs
  <2>3. ProcType'  BY <1>10 DEF IInv, ProcType
  <2>4. CodeType'  BY <1>10 DEF IInv, CodeType
  <2>5. LockInv'
    BY <1>10 DEF IInv, LockType, CpuType, ProcType, CodeType, LockInv, CpuInv, CodeInv,
       ChildInv, Holding, Code, LockedPcs, FreePcs, Building, AfterSched, Pcs
  <2>6. CpuInv'
    BY SMTT(90), <1>10 DEF IInv, LockType, CpuType, ProcType, CodeType, CpuInv, LockInv,
       CodeInv, ChildInv, Code, Building, Freeing, Holding, LockedPcs, Procs
  <2>7. CodeInv'  BY <1>10 DEF IInv, CodeInv
  <2>8. ChildInv'
    BY SMTT(90), <1>10 DEF IInv, LockType, CpuType, ProcType, CodeType, ChildInv, CodeInv,
       CpuInv, LockInv, FlagInv, Code, Holding, LockedPcs, FreePcs, Building, Freeing,
       Keeping, AfterSched
  <2>9. FlagInv'
    BY SMTT(90), <1>10 DEF IInv, LockType, CpuType, ProcType, CodeType, FlagInv, CpuInv,
       CodeInv, ChildInv, Code, Building, LockInv, Holding, FreePcs, LockedPcs, OnIdle,
       AfterSched
  <2> QED
    BY <2>1, <2>2, <2>3, <2>4, <2>5, <2>6, <2>7, <2>8, <2>9 DEF IInv
<1> QED
  BY <1>1, <1>2, <1>3, <1>4, <1>5, <1>6, <1>7, <1>8, <1>9, <1>10 DEF SchedulerStep

\* The code of a process, from sched() and its return to the last step of
\* fork, wait, exec and exit, keeps the inductive invariant.
LEMMA ProcessStepInv ==
  ASSUME NEW c \in CPUs, IInv, ProcessStep(c)
  PROVE  IInv'
<1>1. CASE SwitchOut(c)
  <2> USE DEF SwitchOut, At, Goto, TypeOK, lockVars, cpuVars, procVars, codeVars
  <2>p. stk[c] \in Procs
    BY <1>1 DEF IInv, CpuType
  <2>1. LockType'  BY <1>1 DEF IInv, LockType
  <2>2. CpuType'  BY <1>1, <2>p DEF IInv, CpuType, ProcType, CpuInv, SchedPcs, Procs
  <2>3. ProcType'  BY <1>1 DEF IInv, ProcType
  <2>4. CodeType'
    BY <1>1, <2>p DEF IInv, CodeType, ProcType, CpuType, Pcs, LockedPcs, FreePcs, CodeInv,
       LockType
  <2>5. LockInv'
    BY <1>1, <2>p DEF IInv, LockType, CpuType, ProcType, CodeType, LockInv, CpuInv,
       CodeInv, ChildInv, Holding, Code, LockedPcs, FreePcs, Building, AfterSched, Pcs
  <2>6. CpuInv'
    BY SMTT(90), <1>1, <2>p DEF IInv, LockType, CpuType, ProcType, CodeType, CpuInv,
       LockInv, CodeInv, ChildInv, Code, Building, Freeing, Holding, LockedPcs, Procs
  <2>7. CodeInv'
    BY SMTT(90), <1>1, <2>p DEF IInv, LockType, CpuType, ProcType, CodeType, CodeInv,
       CpuInv, LockInv, FlagInv, ChildInv, Code, Holding, LockedPcs, FreePcs, AfterSched,
       Between, InUse, Building, Freeing
  <2>8. ChildInv'
    BY SMTT(90), <1>1, <2>p DEF IInv, LockType, CpuType, ProcType, CodeType, ChildInv,
       CodeInv, CpuInv, LockInv, FlagInv, Code, Holding, LockedPcs, FreePcs, Building,
       Freeing, Keeping, AfterSched
  <2>9. FlagInv'
    BY SMTT(90), <1>1, <2>p DEF IInv, LockType, CpuType, ProcType, CodeType, FlagInv,
       CpuInv, CodeInv, ChildInv, Code, Building, LockInv, Holding, FreePcs, LockedPcs,
       OnIdle, AfterSched
  <2> QED
    BY <2>1, <2>2, <2>3, <2>4, <2>5, <2>6, <2>7, <2>8, <2>9 DEF IInv
<1>2. CASE FirstRun(c)
  <2> USE DEF FirstRun, At, Goto, TypeOK, lockVars, cpuVars, procVars, codeVars
  <2>p. stk[c] \in Procs
    BY <1>2 DEF IInv, CpuType
  <2>1. LockType'
    BY <1>2, <2>p DEF IInv, LockType, LockInv, CpuType, Holding, LockedPcs, CodeType
  <2>2. CpuType'  BY <1>2 DEF IInv, CpuType
  <2>3. ProcType'  BY <1>2 DEF IInv, ProcType
  <2>4. CodeType'
    BY <1>2, <2>p DEF IInv, CodeType, ProcType, CpuType, Pcs, LockedPcs, FreePcs, CodeInv,
       LockType
  <2>5. LockInv'
    BY <1>2, <2>p DEF IInv, LockType, CpuType, ProcType, CodeType, LockInv, CpuInv,
       CodeInv, ChildInv, Holding, Code, LockedPcs, FreePcs, Building, AfterSched, Pcs
  <2>6. CpuInv'
    BY SMTT(90), <1>2, <2>p DEF IInv, LockType, CpuType, ProcType, CodeType, CpuInv,
       LockInv, CodeInv, ChildInv, Code, Building, Freeing, Holding, LockedPcs, Procs
  <2>7. CodeInv'
    BY SMTT(90), <1>2, <2>p DEF IInv, LockType, CpuType, ProcType, CodeType, CodeInv,
       CpuInv, LockInv, FlagInv, ChildInv, Code, Holding, LockedPcs, FreePcs, AfterSched,
       Between, InUse, Building, Freeing
  <2>8. ChildInv'
    BY SMTT(90), <1>2, <2>p DEF IInv, LockType, CpuType, ProcType, CodeType, ChildInv,
       CodeInv, CpuInv, LockInv, FlagInv, Code, Holding, LockedPcs, FreePcs, Building,
       Freeing, Keeping, AfterSched
  <2>9. FlagInv'
    BY SMTT(90), <1>2, <2>p DEF IInv, LockType, CpuType, ProcType, CodeType, FlagInv,
       CpuInv, CodeInv, ChildInv, Code, Building, LockInv, Holding, FreePcs, LockedPcs,
       OnIdle, AfterSched
  <2> QED
    BY <2>1, <2>2, <2>3, <2>4, <2>5, <2>6, <2>7, <2>8, <2>9 DEF IInv
<1>3. CASE YieldLock(c)
  <2> USE DEF YieldLock, YieldBody, SpinLock, At, SchedThen, TypeOK, lockVars, cpuVars, procVars, codeVars
  <2>p. stk[c] \in Procs
    BY <1>3 DEF IInv, CpuType
  <2>1. LockType'
    BY <1>3, <2>p DEF IInv, LockType, LockInv, CpuType, Holding, LockedPcs, CodeType
  <2>2. CpuType'  BY <1>3 DEF IInv, CpuType
  <2>3. ProcType'
    BY <1>3, <2>p DEF IInv, ProcType, CodeType, CpuType, States, Channels, ChildInv,
       CodeInv, Code, Building, Keeping
  <2>4. CodeType'
    BY <1>3, <2>p DEF IInv, CodeType, ProcType, CpuType, Pcs, LockedPcs, FreePcs, CodeInv,
       LockType
  <2>5. LockInv'
    BY <1>3, <2>p DEF IInv, LockType, CpuType, ProcType, CodeType, LockInv, CpuInv,
       CodeInv, ChildInv, Holding, Code, LockedPcs, FreePcs, Building, AfterSched, Pcs
  <2>6. CpuInv'
    BY SMTT(90), <1>3, <2>p DEF IInv, LockType, CpuType, ProcType, CodeType, CpuInv,
       LockInv, CodeInv, ChildInv, Code, Building, Freeing, Holding, LockedPcs, Procs
  <2>7. CodeInv'
    BY SMTT(90), <1>3, <2>p DEF IInv, LockType, CpuType, ProcType, CodeType, CodeInv,
       CpuInv, LockInv, FlagInv, ChildInv, Code, Holding, LockedPcs, FreePcs, AfterSched,
       Between, InUse, Building, Freeing
  <2>8. ChildInv'
    BY SMTT(90), <1>3, <2>p DEF IInv, LockType, CpuType, ProcType, CodeType, ChildInv,
       CodeInv, CpuInv, LockInv, FlagInv, Code, Holding, LockedPcs, FreePcs, Building,
       Freeing, Keeping, AfterSched
  <2>9. FlagInv'
    BY SMTT(90), <1>3, <2>p DEF IInv, LockType, CpuType, ProcType, CodeType, FlagInv,
       CpuInv, CodeInv, ChildInv, Code, Building, LockInv, Holding, FreePcs, LockedPcs,
       OnIdle, AfterSched
  <2> QED
    BY <2>1, <2>2, <2>3, <2>4, <2>5, <2>6, <2>7, <2>8, <2>9 DEF IInv
<1>4. CASE YieldBack(c)
  <2> USE DEF YieldBack, SpinUnlock, At, Goto, TypeOK, lockVars, cpuVars, procVars, codeVars
  <2>p. stk[c] \in Procs
    BY <1>4 DEF IInv, CpuType
  <2>1. LockType'
    BY <1>4, <2>p DEF IInv, LockType, LockInv, CpuType, Holding, LockedPcs, CodeType
  <2>2. CpuType'  BY <1>4 DEF IInv, CpuType
  <2>3. ProcType'  BY <1>4 DEF IInv, ProcType
  <2>4. CodeType'
    BY <1>4, <2>p DEF IInv, CodeType, ProcType, CpuType, Pcs, LockedPcs, FreePcs, CodeInv,
       LockType
  <2>5. LockInv'
    BY <1>4, <2>p DEF IInv, LockType, CpuType, ProcType, CodeType, LockInv, CpuInv,
       CodeInv, ChildInv, Holding, Code, LockedPcs, FreePcs, Building, AfterSched, Pcs
  <2>6. CpuInv'
    BY SMTT(90), <1>4, <2>p DEF IInv, LockType, CpuType, ProcType, CodeType, CpuInv,
       LockInv, CodeInv, ChildInv, Code, Building, Freeing, Holding, LockedPcs, Procs
  <2>7. CodeInv'
    BY SMTT(90), <1>4, <2>p DEF IInv, LockType, CpuType, ProcType, CodeType, CodeInv,
       CpuInv, LockInv, FlagInv, ChildInv, Code, Holding, LockedPcs, FreePcs, AfterSched,
       Between, InUse, Building, Freeing
  <2>8. ChildInv'
    BY SMTT(90), <1>4, <2>p DEF IInv, LockType, CpuType, ProcType, CodeType, ChildInv,
       CodeInv, CpuInv, LockInv, FlagInv, Code, Holding, LockedPcs, FreePcs, Building,
       Freeing, Keeping, AfterSched
  <2>9. FlagInv'
    BY SMTT(90), <1>4, <2>p DEF IInv, LockType, CpuType, ProcType, CodeType, FlagInv,
       CpuInv, CodeInv, ChildInv, Code, Building, LockInv, Holding, FreePcs, LockedPcs,
       OnIdle, AfterSched
  <2> QED
    BY <2>1, <2>2, <2>3, <2>4, <2>5, <2>6, <2>7, <2>8, <2>9 DEF IInv
<1>5. CASE Iret(c)
  <2> USE DEF Iret, At, Goto, TypeOK, lockVars, cpuVars, procVars, codeVars
  <2>p. stk[c] \in Procs
    BY <1>5 DEF IInv, CpuType
  <2>f0. ipc[stk[c]] \in FreePcs /\ ipc[stk[c]] \notin LockedPcs /\ ipc[stk[c]] # "iret"
    BY <1>5, <2>p DEF IInv, CodeInv, CodeType, FreePcs, LockedPcs
  <2>f1. state[stk[c]] = "RUNNING"
    BY <1>5, <2>p, <2>f0 DEF IInv, CpuInv
  <2>f2. ipc[stk[c]] # "sched"
    BY <1>5, <2>p, <2>f0, <2>f1 DEF IInv, LockedPcs
  <2>1. LockType'
    BY <1>5, <2>p, <2>f0, <2>f1, <2>f2 DEF IInv, LockType, LockInv, CpuType, Holding,
       LockedPcs, CodeType
  <2>2. CpuType'  BY <1>5 DEF IInv, CpuType
  <2>3. ProcType'  BY <1>5 DEF IInv, ProcType
  <2>4. CodeType'
    BY <1>5, <2>p, <2>f0, <2>f1, <2>f2 DEF IInv, CodeType, ProcType, CpuType, Pcs,
       LockedPcs, FreePcs, CodeInv, LockType
  <2>5. LockInv'
    BY <1>5, <2>p, <2>f0, <2>f1, <2>f2 DEF IInv, LockType, CpuType, ProcType, CodeType,
       LockInv, CpuInv, CodeInv, ChildInv, Holding, Code, LockedPcs, FreePcs, Building,
       AfterSched, Pcs
  <2>6. CpuInv'
    BY SMTT(90), <1>5, <2>p, <2>f0, <2>f1, <2>f2 DEF IInv, LockType, CpuType, ProcType,
       CodeType, CpuInv, LockInv, CodeInv, ChildInv, Code, Building, Freeing, Holding,
       LockedPcs, Procs
  <2>7. CodeInv'
    BY SMTT(90), <1>5, <2>p, <2>f0, <2>f1, <2>f2 DEF IInv, LockType, CpuType, ProcType,
       CodeType, CodeInv, CpuInv, LockInv, FlagInv, ChildInv, Code, Holding, LockedPcs,
       FreePcs, AfterSched, Between, InUse, Building, Freeing
  <2>8. ChildInv'
    BY SMTT(90), <1>5, <2>p, <2>f0, <2>f1, <2>f2 DEF IInv, LockType, CpuType, ProcType,
       CodeType, ChildInv, CodeInv, CpuInv, LockInv, FlagInv, Code, Holding, LockedPcs,
       FreePcs, Building, Freeing, Keeping, AfterSched
  <2>9. FlagInv'
    BY SMTT(90), <1>5, <2>p, <2>f0, <2>f1, <2>f2 DEF IInv, LockType, CpuType, ProcType,
       CodeType, FlagInv, CpuInv, CodeInv, ChildInv, Code, Building, LockInv, Holding,
       FreePcs, LockedPcs, OnIdle, AfterSched
  <2> QED
    BY <2>1, <2>2, <2>3, <2>4, <2>5, <2>6, <2>7, <2>8, <2>9 DEF IInv
<1>6. CASE SleepMore(c)
  <2> USE DEF SleepMore, At, SleepOn, SchedThen, TypeOK, lockVars, cpuVars, procVars, codeVars
  <2>p. stk[c] \in Procs
    BY <1>6 DEF IInv, CpuType
  <2>1. LockType'  BY <1>6 DEF IInv, LockType
  <2>2. CpuType'  BY <1>6 DEF IInv, CpuType
  <2>3. ProcType'
    BY <1>6, <2>p DEF IInv, ProcType, CodeType, CpuType, States, Channels, ChildInv,
       CodeInv, Code, Building, Keeping
  <2>4. CodeType'
    BY <1>6, <2>p DEF IInv, CodeType, ProcType, CpuType, Pcs, LockedPcs, FreePcs, CodeInv,
       LockType
  <2>5. LockInv'
    BY <1>6, <2>p DEF IInv, LockType, CpuType, ProcType, CodeType, LockInv, CpuInv,
       CodeInv, ChildInv, Holding, Code, LockedPcs, FreePcs, Building, AfterSched, Pcs
  <2>6. CpuInv'
    BY SMTT(90), <1>6, <2>p DEF IInv, LockType, CpuType, ProcType, CodeType, CpuInv,
       LockInv, CodeInv, ChildInv, Code, Building, Freeing, Holding, LockedPcs, Procs
  <2>7. CodeInv'
    BY SMTT(90), <1>6, <2>p DEF IInv, LockType, CpuType, ProcType, CodeType, CodeInv,
       CpuInv, LockInv, FlagInv, ChildInv, Code, Holding, LockedPcs, FreePcs, AfterSched,
       Between, InUse, Building, Freeing
  <2>8. ChildInv'
    BY SMTT(90), <1>6, <2>p DEF IInv, LockType, CpuType, ProcType, CodeType, ChildInv,
       CodeInv, CpuInv, LockInv, FlagInv, Code, Holding, LockedPcs, FreePcs, Building,
       Freeing, Keeping, AfterSched
  <2>9. FlagInv'
    BY SMTT(90), <1>6, <2>p DEF IInv, LockType, CpuType, ProcType, CodeType, FlagInv,
       CpuInv, CodeInv, ChildInv, Code, Building, LockInv, Holding, FreePcs, LockedPcs,
       OnIdle, AfterSched
  <2> QED
    BY <2>1, <2>2, <2>3, <2>4, <2>5, <2>6, <2>7, <2>8, <2>9 DEF IInv
<1>7. CASE SleepBack(c)
  <2> USE DEF SleepBack, At, Goto, TypeOK, lockVars, cpuVars, procVars, codeVars
  <2>p. stk[c] \in Procs
    BY <1>7 DEF IInv, CpuType
  <2>1. LockType'  BY <1>7 DEF IInv, LockType
  <2>2. CpuType'  BY <1>7 DEF IInv, CpuType
  <2>3. ProcType'
    BY <1>7, <2>p DEF IInv, ProcType, CodeType, CpuType, States, Channels, ChildInv,
       CodeInv, Code, Building, Keeping
  <2>4. CodeType'
    BY <1>7, <2>p DEF IInv, CodeType, ProcType, CpuType, Pcs, LockedPcs, FreePcs, CodeInv,
       LockType
  <2>5. LockInv'
    BY <1>7, <2>p DEF IInv, LockType, CpuType, ProcType, CodeType, LockInv, CpuInv,
       CodeInv, ChildInv, Holding, Code, LockedPcs, FreePcs, Building, AfterSched, Pcs
  <2>6. CpuInv'
    BY SMTT(90), <1>7, <2>p DEF IInv, LockType, CpuType, ProcType, CodeType, CpuInv,
       LockInv, CodeInv, ChildInv, Code, Building, Freeing, Holding, LockedPcs, Procs
  <2>7. CodeInv'
    BY SMTT(90), <1>7, <2>p DEF IInv, LockType, CpuType, ProcType, CodeType, CodeInv,
       CpuInv, LockInv, FlagInv, ChildInv, Code, Holding, LockedPcs, FreePcs, AfterSched,
       Between, InUse, Building, Freeing
  <2>8. ChildInv'
    BY SMTT(90), <1>7, <2>p DEF IInv, LockType, CpuType, ProcType, CodeType, ChildInv,
       CodeInv, CpuInv, LockInv, FlagInv, Code, Holding, LockedPcs, FreePcs, Building,
       Freeing, Keeping, AfterSched
  <2>9. FlagInv'
    BY SMTT(90), <1>7, <2>p DEF IInv, LockType, CpuType, ProcType, CodeType, FlagInv,
       CpuInv, CodeInv, ChildInv, Code, Building, LockInv, Holding, FreePcs, LockedPcs,
       OnIdle, AfterSched
  <2> QED
    BY <2>1, <2>2, <2>3, <2>4, <2>5, <2>6, <2>7, <2>8, <2>9 DEF IInv
<1>8. CASE SleepDone(c)
  <2> USE DEF SleepDone, At, Goto, SpinUnlock, TypeOK, lockVars, cpuVars, procVars, codeVars
  <2>p. stk[c] \in Procs
    BY <1>8 DEF IInv, CpuType
  <2>1. LockType'
    BY <1>8, <2>p DEF IInv, LockType, LockInv, CpuType, Holding, LockedPcs, CodeType
  <2>2. CpuType'  BY <1>8 DEF IInv, CpuType
  <2>3. ProcType'  BY <1>8 DEF IInv, ProcType
  <2>4. CodeType'
    BY <1>8, <2>p DEF IInv, CodeType, ProcType, CpuType, Pcs, LockedPcs, FreePcs, CodeInv,
       LockType
  <2>5. LockInv'
    BY <1>8, <2>p DEF IInv, LockType, CpuType, ProcType, CodeType, LockInv, CpuInv,
       CodeInv, ChildInv, Holding, Code, LockedPcs, FreePcs, Building, AfterSched, Pcs
  <2>6. CpuInv'
    BY SMTT(90), <1>8, <2>p DEF IInv, LockType, CpuType, ProcType, CodeType, CpuInv,
       LockInv, CodeInv, ChildInv, Code, Building, Freeing, Holding, LockedPcs, Procs
  <2>7. CodeInv'
    BY SMTT(90), <1>8, <2>p DEF IInv, LockType, CpuType, ProcType, CodeType, CodeInv,
       CpuInv, LockInv, FlagInv, ChildInv, Code, Holding, LockedPcs, FreePcs, AfterSched,
       Between, InUse, Building, Freeing
  <2>8. ChildInv'
    BY SMTT(90), <1>8, <2>p DEF IInv, LockType, CpuType, ProcType, CodeType, ChildInv,
       CodeInv, CpuInv, LockInv, FlagInv, Code, Holding, LockedPcs, FreePcs, Building,
       Freeing, Keeping, AfterSched
  <2>9. FlagInv'
    BY SMTT(90), <1>8, <2>p DEF IInv, LockType, CpuType, ProcType, CodeType, FlagInv,
       CpuInv, CodeInv, ChildInv, Code, Building, LockInv, Holding, FreePcs, LockedPcs,
       OnIdle, AfterSched
  <2> QED
    BY <2>1, <2>2, <2>3, <2>4, <2>5, <2>6, <2>7, <2>8, <2>9 DEF IInv
<1>9. CASE SpawnAlloc(c)
  <2> USE DEF SpawnAlloc, At, Goto, TakeSlot, CriticalSection, IsFirstUnused, TypeOK, lockVars, cpuVars, procVars, codeVars
  <2>p. stk[c] \in Procs
    BY <1>9 DEF IInv, CpuType
  <2>f0. state[stk[c]] = "RUNNING" /\ ipc[stk[c]] = None
    BY <1>9, <2>p DEF IInv, CpuInv, CodeInv
  <2>f1. \A i \in Procs : state[i] = "UNUSED" => i # stk[c] /\ \A q \in Procs : child[q] # i
    BY <1>9, <2>p, <2>f0 DEF IInv, CpuInv, ChildInv, CodeType
  <2>f2. \A i \in Procs : state[i] = "UNUSED" /\ spc[BSP] \in {"r_free", "r_unused"} => i # reapi
    BY <1>9, <2>p, <2>f0, <2>f1 DEF IInv, CpuInv
  <2>1. LockType'
    BY <1>9, <2>p, <2>f0, <2>f1, <2>f2 DEF IInv, LockType, LockInv, CpuType, Holding,
       LockedPcs, CodeType
  <2>2. CpuType'  BY <1>9 DEF IInv, CpuType
  <2>3. ProcType'
    BY <1>9, <2>p, <2>f0, <2>f1, <2>f2 DEF IInv, ProcType, CodeType, CpuType, States,
       Channels, ChildInv, CodeInv, Code, Building, Keeping
  <2>4. CodeType'
    BY <1>9, <2>p, <2>f0, <2>f1, <2>f2 DEF IInv, CodeType, ProcType, CpuType, Pcs,
       LockedPcs, FreePcs, CodeInv, LockType
  <2>5. LockInv'
    BY <1>9, <2>p, <2>f0, <2>f1, <2>f2 DEF IInv, LockType, CpuType, ProcType, CodeType,
       LockInv, CpuInv, CodeInv, ChildInv, Holding, Code, LockedPcs, FreePcs, Building,
       AfterSched, Pcs
  <2>6. CpuInv'
    BY SMTT(90), <1>9, <2>p, <2>f0, <2>f1, <2>f2 DEF IInv, LockType, CpuType, ProcType,
       CodeType, CpuInv, LockInv, CodeInv, ChildInv, Code, Building, Freeing, Holding,
       LockedPcs, Procs
  <2>7. CodeInv'
    BY SMTT(90), <1>9, <2>p, <2>f0, <2>f1, <2>f2 DEF IInv, LockType, CpuType, ProcType,
       CodeType, CodeInv, CpuInv, LockInv, FlagInv, ChildInv, Code, Holding, LockedPcs,
       FreePcs, AfterSched, Between, InUse, Building, Freeing
  <2>8. ChildInv'
    BY SMTT(90), <1>9, <2>p, <2>f0, <2>f1, <2>f2 DEF IInv, LockType, CpuType, ProcType,
       CodeType, ChildInv, CodeInv, CpuInv, LockInv, FlagInv, Code, Holding, LockedPcs,
       FreePcs, Building, Freeing, Keeping, AfterSched
  <2>9. FlagInv'
    BY SMTT(90), <1>9, <2>p, <2>f0, <2>f1, <2>f2 DEF IInv, LockType, CpuType, ProcType,
       CodeType, FlagInv, CpuInv, CodeInv, ChildInv, Code, Building, LockInv, Holding,
       FreePcs, LockedPcs, OnIdle, AfterSched
  <2> QED
    BY <2>1, <2>2, <2>3, <2>4, <2>5, <2>6, <2>7, <2>8, <2>9 DEF IInv
<1>10. CASE SpawnFull(c)
  <2> USE DEF SpawnFull, At, Goto, TypeOK, lockVars, cpuVars, procVars, codeVars
  <2>p. stk[c] \in Procs
    BY <1>10 DEF IInv, CpuType
  <2>1. LockType'  BY <1>10 DEF IInv, LockType
  <2>2. CpuType'  BY <1>10 DEF IInv, CpuType
  <2>3. ProcType'
    BY <1>10, <2>p DEF IInv, ProcType, CodeType, CpuType, States, Channels, ChildInv,
       CodeInv, Code, Building, Keeping
  <2>4. CodeType'
    BY <1>10, <2>p DEF IInv, CodeType, ProcType, CpuType, Pcs, LockedPcs, FreePcs,
       CodeInv, LockType
  <2>5. LockInv'
    BY <1>10, <2>p DEF IInv, LockType, CpuType, ProcType, CodeType, LockInv, CpuInv,
       CodeInv, ChildInv, Holding, Code, LockedPcs, FreePcs, Building, AfterSched, Pcs
  <2>6. CpuInv'
    BY SMTT(90), <1>10, <2>p DEF IInv, LockType, CpuType, ProcType, CodeType, CpuInv,
       LockInv, CodeInv, ChildInv, Code, Building, Freeing, Holding, LockedPcs, Procs
  <2>7. CodeInv'
    BY SMTT(90), <1>10, <2>p DEF IInv, LockType, CpuType, ProcType, CodeType, CodeInv,
       CpuInv, LockInv, FlagInv, ChildInv, Code, Holding, LockedPcs, FreePcs, AfterSched,
       Between, InUse, Building, Freeing
  <2>8. ChildInv'
    BY SMTT(90), <1>10, <2>p DEF IInv, LockType, CpuType, ProcType, CodeType, ChildInv,
       CodeInv, CpuInv, LockInv, FlagInv, Code, Holding, LockedPcs, FreePcs, Building,
       Freeing, Keeping, AfterSched
  <2>9. FlagInv'
    BY SMTT(90), <1>10, <2>p DEF IInv, LockType, CpuType, ProcType, CodeType, FlagInv,
       CpuInv, CodeInv, ChildInv, Code, Building, LockInv, Holding, FreePcs, LockedPcs,
       OnIdle, AfterSched
  <2> QED
    BY <2>1, <2>2, <2>3, <2>4, <2>5, <2>6, <2>7, <2>8, <2>9 DEF IInv
<1>11. CASE AllocStack(c)
  <2> USE DEF AllocStack, At, TypeOK, lockVars, cpuVars, procVars, codeVars
  <2>p. stk[c] \in Procs
    BY <1>11 DEF IInv, CpuType
  <2>f0. ipc[stk[c]] = None /\ state[stk[c]] = "RUNNING"
    BY <1>11, <2>p DEF IInv, CpuInv, CodeInv
  <2>f1. child[stk[c]] \in Procs /\ child[stk[c]] # stk[c] /\ state[child[stk[c]]] = "EMBRYO"
    BY <1>11, <2>p, <2>f0 DEF IInv, ChildInv, Code, CodeType, Building
  <2>f2. pc[stk[c]] = "sp_stack" => old[stk[c]] \in Spaces
    BY <1>11, <2>p, <2>f0, <2>f1 DEF IInv, ChildInv, Code, CodeType, Keeping
  <2>1. LockType'  BY <1>11 DEF IInv, LockType
  <2>2. CpuType'  BY <1>11 DEF IInv, CpuType
  <2>3. ProcType'
    BY <1>11, <2>p, <2>f0, <2>f1, <2>f2 DEF IInv, ProcType, CodeType, CpuType, States,
       Channels, ChildInv, CodeInv, Code, Building, Keeping
  <2>4. CodeType'
    BY <1>11, <2>p, <2>f0, <2>f1, <2>f2 DEF IInv, CodeType, ProcType, CpuType, Pcs,
       LockedPcs, FreePcs, CodeInv, LockType
  <2>5. LockInv'
    BY <1>11, <2>p, <2>f0, <2>f1, <2>f2 DEF IInv, LockType, CpuType, ProcType, CodeType,
       LockInv, CpuInv, CodeInv, ChildInv, Holding, Code, LockedPcs, FreePcs, Building,
       AfterSched, Pcs
  <2>6. CpuInv'
    BY SMTT(90), <1>11, <2>p, <2>f0, <2>f1, <2>f2 DEF IInv, LockType, CpuType, ProcType,
       CodeType, CpuInv, LockInv, CodeInv, ChildInv, Code, Building, Freeing, Holding,
       LockedPcs, Procs
  <2>7. CodeInv'
    BY SMTT(90), <1>11, <2>p, <2>f0, <2>f1, <2>f2 DEF IInv, LockType, CpuType, ProcType,
       CodeType, CodeInv, CpuInv, LockInv, FlagInv, ChildInv, Code, Holding, LockedPcs,
       FreePcs, AfterSched, Between, InUse, Building, Freeing
  <2>8. ChildInv'
    BY SMTT(90), <1>11, <2>p, <2>f0, <2>f1, <2>f2 DEF IInv, LockType, CpuType, ProcType,
       CodeType, ChildInv, CodeInv, CpuInv, LockInv, FlagInv, Code, Holding, LockedPcs,
       FreePcs, Building, Freeing, Keeping, AfterSched
  <2>9. FlagInv'
    BY SMTT(90), <1>11, <2>p, <2>f0, <2>f1, <2>f2 DEF IInv, LockType, CpuType, ProcType,
       CodeType, FlagInv, CpuInv, CodeInv, ChildInv, Code, Building, LockInv, Holding,
       FreePcs, LockedPcs, OnIdle, AfterSched
  <2> QED
    BY <2>1, <2>2, <2>3, <2>4, <2>5, <2>6, <2>7, <2>8, <2>9 DEF IInv
<1>12. CASE AllocStackFails(c)
  <2> USE DEF AllocStackFails, At, Goto, CriticalSection, TypeOK, lockVars, cpuVars, procVars, codeVars
  <2>p. stk[c] \in Procs
    BY <1>12 DEF IInv, CpuType
  <2>1. LockType'
    BY <1>12, <2>p DEF IInv, LockType, LockInv, CpuType, Holding, LockedPcs, CodeType
  <2>2. CpuType'  BY <1>12 DEF IInv, CpuType
  <2>3. ProcType'
    BY <1>12, <2>p DEF IInv, ProcType, CodeType, CpuType, States, Channels, ChildInv,
       CodeInv, Code, Building, Keeping
  <2>4. CodeType'
    BY <1>12, <2>p DEF IInv, CodeType, ProcType, CpuType, Pcs, LockedPcs, FreePcs,
       CodeInv, LockType
  <2>5. LockInv'
    BY <1>12, <2>p DEF IInv, LockType, CpuType, ProcType, CodeType, LockInv, CpuInv,
       CodeInv, ChildInv, Holding, Code, LockedPcs, FreePcs, Building, AfterSched, Pcs
  <2>6. CpuInv'
    BY SMTT(90), <1>12, <2>p DEF IInv, LockType, CpuType, ProcType, CodeType, CpuInv,
       LockInv, CodeInv, ChildInv, Code, Building, Freeing, Holding, LockedPcs, Procs
  <2>7. CodeInv'
    BY SMTT(90), <1>12, <2>p DEF IInv, LockType, CpuType, ProcType, CodeType, CodeInv,
       CpuInv, LockInv, FlagInv, ChildInv, Code, Holding, LockedPcs, FreePcs, AfterSched,
       Between, InUse, Building, Freeing
  <2>8. ChildInv'
    BY SMTT(90), <1>12, <2>p DEF IInv, LockType, CpuType, ProcType, CodeType, ChildInv,
       CodeInv, CpuInv, LockInv, FlagInv, Code, Holding, LockedPcs, FreePcs, Building,
       Freeing, Keeping, AfterSched
  <2>9. FlagInv'
    BY SMTT(90), <1>12, <2>p DEF IInv, LockType, CpuType, ProcType, CodeType, FlagInv,
       CpuInv, CodeInv, ChildInv, Code, Building, LockInv, Holding, FreePcs, LockedPcs,
       OnIdle, AfterSched
  <2> QED
    BY <2>1, <2>2, <2>3, <2>4, <2>5, <2>6, <2>7, <2>8, <2>9 DEF IInv
<1>13. CASE ForkCopy(c)
  <2> USE DEF ForkCopy, At, Goto, TypeOK, lockVars, cpuVars, procVars, codeVars
  <2>p. stk[c] \in Procs
    BY <1>13 DEF IInv, CpuType
  <2>1. LockType'  BY <1>13 DEF IInv, LockType
  <2>2. CpuType'  BY <1>13 DEF IInv, CpuType
  <2>3. ProcType'
    BY <1>13, <2>p DEF IInv, ProcType, CodeType, CpuType, States, Channels, ChildInv,
       CodeInv, Code, Building, Keeping
  <2>4. CodeType'
    BY <1>13, <2>p DEF IInv, CodeType, ProcType, CpuType, Pcs, LockedPcs, FreePcs,
       CodeInv, LockType
  <2>5. LockInv'
    BY <1>13, <2>p DEF IInv, LockType, CpuType, ProcType, CodeType, LockInv, CpuInv,
       CodeInv, ChildInv, Holding, Code, LockedPcs, FreePcs, Building, AfterSched, Pcs
  <2>6. CpuInv'
    BY SMTT(90), <1>13, <2>p DEF IInv, LockType, CpuType, ProcType, CodeType, CpuInv,
       LockInv, CodeInv, ChildInv, Code, Building, Freeing, Holding, LockedPcs, Procs
  <2>7. CodeInv'
    BY SMTT(90), <1>13, <2>p DEF IInv, LockType, CpuType, ProcType, CodeType, CodeInv,
       CpuInv, LockInv, FlagInv, ChildInv, Code, Holding, LockedPcs, FreePcs, AfterSched,
       Between, InUse, Building, Freeing
  <2>8. ChildInv'
    BY SMTT(90), <1>13, <2>p DEF IInv, LockType, CpuType, ProcType, CodeType, ChildInv,
       CodeInv, CpuInv, LockInv, FlagInv, Code, Holding, LockedPcs, FreePcs, Building,
       Freeing, Keeping, AfterSched
  <2>9. FlagInv'
    BY SMTT(90), <1>13, <2>p DEF IInv, LockType, CpuType, ProcType, CodeType, FlagInv,
       CpuInv, CodeInv, ChildInv, Code, Building, LockInv, Holding, FreePcs, LockedPcs,
       OnIdle, AfterSched
  <2> QED
    BY <2>1, <2>2, <2>3, <2>4, <2>5, <2>6, <2>7, <2>8, <2>9 DEF IInv
<1>14. CASE ForkFails(c)
  <2> USE DEF ForkFails, At, Goto, TypeOK, lockVars, cpuVars, procVars, codeVars
  <2>p. stk[c] \in Procs
    BY <1>14 DEF IInv, CpuType
  <2>1. LockType'  BY <1>14 DEF IInv, LockType
  <2>2. CpuType'  BY <1>14 DEF IInv, CpuType
  <2>3. ProcType'  BY <1>14 DEF IInv, ProcType
  <2>4. CodeType'
    BY <1>14, <2>p DEF IInv, CodeType, ProcType, CpuType, Pcs, LockedPcs, FreePcs,
       CodeInv, LockType
  <2>5. LockInv'
    BY <1>14, <2>p DEF IInv, LockType, CpuType, ProcType, CodeType, LockInv, CpuInv,
       CodeInv, ChildInv, Holding, Code, LockedPcs, FreePcs, Building, AfterSched, Pcs
  <2>6. CpuInv'
    BY SMTT(90), <1>14, <2>p DEF IInv, LockType, CpuType, ProcType, CodeType, CpuInv,
       LockInv, CodeInv, ChildInv, Code, Building, Freeing, Holding, LockedPcs, Procs
  <2>7. CodeInv'
    BY SMTT(90), <1>14, <2>p DEF IInv, LockType, CpuType, ProcType, CodeType, CodeInv,
       CpuInv, LockInv, FlagInv, ChildInv, Code, Holding, LockedPcs, FreePcs, AfterSched,
       Between, InUse, Building, Freeing
  <2>8. ChildInv'
    BY SMTT(90), <1>14, <2>p DEF IInv, LockType, CpuType, ProcType, CodeType, ChildInv,
       CodeInv, CpuInv, LockInv, FlagInv, Code, Holding, LockedPcs, FreePcs, Building,
       Freeing, Keeping, AfterSched
  <2>9. FlagInv'
    BY SMTT(90), <1>14, <2>p DEF IInv, LockType, CpuType, ProcType, CodeType, FlagInv,
       CpuInv, CodeInv, ChildInv, Code, Building, LockInv, Holding, FreePcs, LockedPcs,
       OnIdle, AfterSched
  <2> QED
    BY <2>1, <2>2, <2>3, <2>4, <2>5, <2>6, <2>7, <2>8, <2>9 DEF IInv
<1>15. CASE MakeReady(c)
  <2> USE DEF MakeReady, At, Goto, CriticalSection, TypeOK, lockVars, cpuVars, procVars, codeVars
  <2>p. stk[c] \in Procs
    BY <1>15 DEF IInv, CpuType
  <2>1. LockType'
    BY <1>15, <2>p DEF IInv, LockType, LockInv, CpuType, Holding, LockedPcs, CodeType
  <2>2. CpuType'  BY <1>15 DEF IInv, CpuType
  <2>3. ProcType'
    BY <1>15, <2>p DEF IInv, ProcType, CodeType, CpuType, States, Channels, ChildInv,
       CodeInv, Code, Building, Keeping
  <2>4. CodeType'
    BY <1>15, <2>p DEF IInv, CodeType, ProcType, CpuType, Pcs, LockedPcs, FreePcs,
       CodeInv, LockType
  <2>5. LockInv'
    BY <1>15, <2>p DEF IInv, LockType, CpuType, ProcType, CodeType, LockInv, CpuInv,
       CodeInv, ChildInv, Holding, Code, LockedPcs, FreePcs, Building, AfterSched, Pcs
  <2>6. CpuInv'
    BY SMTT(90), <1>15, <2>p DEF IInv, LockType, CpuType, ProcType, CodeType, CpuInv,
       LockInv, CodeInv, ChildInv, Code, Building, Freeing, Holding, LockedPcs, Procs
  <2>7. CodeInv'
    BY SMTT(90), <1>15, <2>p DEF IInv, LockType, CpuType, ProcType, CodeType, CodeInv,
       CpuInv, LockInv, FlagInv, ChildInv, Code, Holding, LockedPcs, FreePcs, AfterSched,
       Between, InUse, Building, Freeing
  <2>8. ChildInv'
    BY SMTT(90), <1>15, <2>p DEF IInv, LockType, CpuType, ProcType, CodeType, ChildInv,
       CodeInv, CpuInv, LockInv, FlagInv, Code, Holding, LockedPcs, FreePcs, Building,
       Freeing, Keeping, AfterSched
  <2>9. FlagInv'
    BY SMTT(90), <1>15, <2>p DEF IInv, LockType, CpuType, ProcType, CodeType, FlagInv,
       CpuInv, CodeInv, ChildInv, Code, Building, LockInv, Holding, FreePcs, LockedPcs,
       OnIdle, AfterSched
  <2> QED
    BY <2>1, <2>2, <2>3, <2>4, <2>5, <2>6, <2>7, <2>8, <2>9 DEF IInv
<1>16. CASE WaitFound(c)
  <2> USE DEF WaitFound, At, Goto, SpinUnlock, TypeOK, lockVars, cpuVars, procVars, codeVars
  <2>p. stk[c] \in Procs
    BY <1>16 DEF IInv, CpuType
  <2>f0. PICK q \in Procs : /\ state[q] = "ZOMBIE" /\ state' = [state EXCEPT ![q] = "DEAD"]
                 /\ child' = [child EXCEPT ![stk[c]] = q]
    BY <1>16, <2>p DEF IInv, IsFirst, Zombies, Matches
  <2>f1. q # stk[c] /\ \A r \in Procs : child[r] # q
    BY <1>16, <2>p, <2>f0 DEF IInv, CpuInv, ChildInv, CodeType
  <2>f2. spc[BSP] \in {"r_free", "r_unused"} => q # reapi
    BY <1>16, <2>p, <2>f0, <2>f1 DEF IInv, CpuInv
  <2>1. LockType'
    BY <1>16, <2>p, <2>f0, <2>f1, <2>f2 DEF IInv, LockType, LockInv, CpuType, Holding,
       LockedPcs, CodeType
  <2>2. CpuType'  BY <1>16 DEF IInv, CpuType
  <2>3. ProcType'
    BY <1>16, <2>p, <2>f0, <2>f1, <2>f2 DEF IInv, ProcType, CodeType, CpuType, States,
       Channels, ChildInv, CodeInv, Code, Building, Keeping
  <2>4. CodeType'
    BY <1>16, <2>p, <2>f0, <2>f1, <2>f2 DEF IInv, CodeType, ProcType, CpuType, Pcs,
       LockedPcs, FreePcs, CodeInv, LockType
  <2>5. LockInv'
    BY <1>16, <2>p, <2>f0, <2>f1, <2>f2 DEF IInv, LockType, CpuType, ProcType, CodeType,
       LockInv, CpuInv, CodeInv, ChildInv, Holding, Code, LockedPcs, FreePcs, Building,
       AfterSched, Pcs
  <2>6. CpuInv'
    BY SMTT(90), <1>16, <2>p, <2>f0, <2>f1, <2>f2 DEF IInv, LockType, CpuType, ProcType,
       CodeType, CpuInv, LockInv, CodeInv, ChildInv, Code, Building, Freeing, Holding,
       LockedPcs, Procs
  <2>7. CodeInv'
    BY SMTT(90), <1>16, <2>p, <2>f0, <2>f1, <2>f2 DEF IInv, LockType, CpuType, ProcType,
       CodeType, CodeInv, CpuInv, LockInv, FlagInv, ChildInv, Code, Holding, LockedPcs,
       FreePcs, AfterSched, Between, InUse, Building, Freeing
  <2>8. ChildInv'
    BY SMTT(90), <1>16, <2>p, <2>f0, <2>f1, <2>f2 DEF IInv, LockType, CpuType, ProcType,
       CodeType, ChildInv, CodeInv, CpuInv, LockInv, FlagInv, Code, Holding, LockedPcs,
       FreePcs, Building, Freeing, Keeping, AfterSched
  <2>9. FlagInv'
    BY SMTT(90), <1>16, <2>p, <2>f0, <2>f1, <2>f2 DEF IInv, LockType, CpuType, ProcType,
       CodeType, FlagInv, CpuInv, CodeInv, ChildInv, Code, Building, LockInv, Holding,
       FreePcs, LockedPcs, OnIdle, AfterSched
  <2> QED
    BY <2>1, <2>2, <2>3, <2>4, <2>5, <2>6, <2>7, <2>8, <2>9 DEF IInv
<1>17. CASE WaitNoChild(c)
  <2> USE DEF WaitNoChild, At, Goto, SpinUnlock, TypeOK, lockVars, cpuVars, procVars, codeVars
  <2>p. stk[c] \in Procs
    BY <1>17 DEF IInv, CpuType
  <2>1. LockType'
    BY <1>17, <2>p DEF IInv, LockType, LockInv, CpuType, Holding, LockedPcs, CodeType
  <2>2. CpuType'  BY <1>17 DEF IInv, CpuType
  <2>3. ProcType'  BY <1>17 DEF IInv, ProcType
  <2>4. CodeType'
    BY <1>17, <2>p DEF IInv, CodeType, ProcType, CpuType, Pcs, LockedPcs, FreePcs,
       CodeInv, LockType
  <2>5. LockInv'
    BY <1>17, <2>p DEF IInv, LockType, CpuType, ProcType, CodeType, LockInv, CpuInv,
       CodeInv, ChildInv, Holding, Code, LockedPcs, FreePcs, Building, AfterSched, Pcs
  <2>6. CpuInv'
    BY SMTT(90), <1>17, <2>p DEF IInv, LockType, CpuType, ProcType, CodeType, CpuInv,
       LockInv, CodeInv, ChildInv, Code, Building, Freeing, Holding, LockedPcs, Procs
  <2>7. CodeInv'
    BY SMTT(90), <1>17, <2>p DEF IInv, LockType, CpuType, ProcType, CodeType, CodeInv,
       CpuInv, LockInv, FlagInv, ChildInv, Code, Holding, LockedPcs, FreePcs, AfterSched,
       Between, InUse, Building, Freeing
  <2>8. ChildInv'
    BY SMTT(90), <1>17, <2>p DEF IInv, LockType, CpuType, ProcType, CodeType, ChildInv,
       CodeInv, CpuInv, LockInv, FlagInv, Code, Holding, LockedPcs, FreePcs, Building,
       Freeing, Keeping, AfterSched
  <2>9. FlagInv'
    BY SMTT(90), <1>17, <2>p DEF IInv, LockType, CpuType, ProcType, CodeType, FlagInv,
       CpuInv, CodeInv, ChildInv, Code, Building, LockInv, Holding, FreePcs, LockedPcs,
       OnIdle, AfterSched
  <2> QED
    BY <2>1, <2>2, <2>3, <2>4, <2>5, <2>6, <2>7, <2>8, <2>9 DEF IInv
<1>18. CASE WaitSleep(c)
  <2> USE DEF WaitSleep, At, SleepOn, SchedThen, TypeOK, lockVars, cpuVars, procVars, codeVars
  <2>p. stk[c] \in Procs
    BY <1>18 DEF IInv, CpuType
  <2>f0. state[stk[c]] = "RUNNING"
    BY <1>18, <2>p DEF IInv, CpuInv
  <2>1. LockType'  BY <1>18 DEF IInv, LockType
  <2>2. CpuType'  BY <1>18 DEF IInv, CpuType
  <2>3. ProcType'
    BY <1>18, <2>p, <2>f0 DEF IInv, ProcType, CodeType, CpuType, States, Channels,
       ChildInv, CodeInv, Code, Building, Keeping
  <2>4. CodeType'
    BY <1>18, <2>p, <2>f0 DEF IInv, CodeType, ProcType, CpuType, Pcs, LockedPcs, FreePcs,
       CodeInv, LockType
  <2>5. LockInv'
    BY <1>18, <2>p, <2>f0 DEF IInv, LockType, CpuType, ProcType, CodeType, LockInv,
       CpuInv, CodeInv, ChildInv, Holding, Code, LockedPcs, FreePcs, Building, AfterSched,
       Pcs
  <2>6. CpuInv'
    BY SMTT(90), <1>18, <2>p, <2>f0 DEF IInv, LockType, CpuType, ProcType, CodeType,
       CpuInv, LockInv, CodeInv, ChildInv, Code, Building, Freeing, Holding, LockedPcs,
       Procs
  <2>7. CodeInv'
    BY SMTT(90), <1>18, <2>p, <2>f0 DEF IInv, LockType, CpuType, ProcType, CodeType,
       CodeInv, CpuInv, LockInv, FlagInv, ChildInv, Code, Holding, LockedPcs, FreePcs,
       AfterSched, Between, InUse, Building, Freeing
  <2>8. ChildInv'
    BY SMTT(90), <1>18, <2>p, <2>f0 DEF IInv, LockType, CpuType, ProcType, CodeType,
       ChildInv, CodeInv, CpuInv, LockInv, FlagInv, Code, Holding, LockedPcs, FreePcs,
       Building, Freeing, Keeping, AfterSched
  <2>9. FlagInv'
    BY SMTT(90), <1>18, <2>p, <2>f0 DEF IInv, LockType, CpuType, ProcType, CodeType,
       FlagInv, CpuInv, CodeInv, ChildInv, Code, Building, LockInv, Holding, FreePcs,
       LockedPcs, OnIdle, AfterSched
  <2> QED
    BY <2>1, <2>2, <2>3, <2>4, <2>5, <2>6, <2>7, <2>8, <2>9 DEF IInv
<1>19. CASE WaitBack(c)
  <2> USE DEF WaitBack, At, Goto, TypeOK, lockVars, cpuVars, procVars, codeVars
  <2>p. stk[c] \in Procs
    BY <1>19 DEF IInv, CpuType
  <2>1. LockType'  BY <1>19 DEF IInv, LockType
  <2>2. CpuType'  BY <1>19 DEF IInv, CpuType
  <2>3. ProcType'
    BY <1>19, <2>p DEF IInv, ProcType, CodeType, CpuType, States, Channels, ChildInv,
       CodeInv, Code, Building, Keeping
  <2>4. CodeType'
    BY <1>19, <2>p DEF IInv, CodeType, ProcType, CpuType, Pcs, LockedPcs, FreePcs,
       CodeInv, LockType
  <2>5. LockInv'
    BY <1>19, <2>p DEF IInv, LockType, CpuType, ProcType, CodeType, LockInv, CpuInv,
       CodeInv, ChildInv, Holding, Code, LockedPcs, FreePcs, Building, AfterSched, Pcs
  <2>6. CpuInv'
    BY SMTT(90), <1>19, <2>p DEF IInv, LockType, CpuType, ProcType, CodeType, CpuInv,
       LockInv, CodeInv, ChildInv, Code, Building, Freeing, Holding, LockedPcs, Procs
  <2>7. CodeInv'
    BY SMTT(90), <1>19, <2>p DEF IInv, LockType, CpuType, ProcType, CodeType, CodeInv,
       CpuInv, LockInv, FlagInv, ChildInv, Code, Holding, LockedPcs, FreePcs, AfterSched,
       Between, InUse, Building, Freeing
  <2>8. ChildInv'
    BY SMTT(90), <1>19, <2>p DEF IInv, LockType, CpuType, ProcType, CodeType, ChildInv,
       CodeInv, CpuInv, LockInv, FlagInv, Code, Holding, LockedPcs, FreePcs, Building,
       Freeing, Keeping, AfterSched
  <2>9. FlagInv'
    BY SMTT(90), <1>19, <2>p DEF IInv, LockType, CpuType, ProcType, CodeType, FlagInv,
       CpuInv, CodeInv, ChildInv, Code, Building, LockInv, Holding, FreePcs, LockedPcs,
       OnIdle, AfterSched
  <2> QED
    BY <2>1, <2>2, <2>3, <2>4, <2>5, <2>6, <2>7, <2>8, <2>9 DEF IInv
<1>20. CASE FreeStack(c)
  <2> USE DEF FreeStack, At, Goto, TypeOK, lockVars, cpuVars, procVars, codeVars
  <2>p. stk[c] \in Procs
    BY <1>20 DEF IInv, CpuType
  <2>1. LockType'  BY <1>20 DEF IInv, LockType
  <2>2. CpuType'  BY <1>20 DEF IInv, CpuType
  <2>3. ProcType'
    BY <1>20, <2>p DEF IInv, ProcType, CodeType, CpuType, States, Channels, ChildInv,
       CodeInv, Code, Building, Keeping
  <2>4. CodeType'
    BY <1>20, <2>p DEF IInv, CodeType, ProcType, CpuType, Pcs, LockedPcs, FreePcs,
       CodeInv, LockType
  <2>5. LockInv'
    BY <1>20, <2>p DEF IInv, LockType, CpuType, ProcType, CodeType, LockInv, CpuInv,
       CodeInv, ChildInv, Holding, Code, LockedPcs, FreePcs, Building, AfterSched, Pcs
  <2>6. CpuInv'
    BY SMTT(90), <1>20, <2>p DEF IInv, LockType, CpuType, ProcType, CodeType, CpuInv,
       LockInv, CodeInv, ChildInv, Code, Building, Freeing, Holding, LockedPcs, Procs
  <2>7. CodeInv'
    BY SMTT(90), <1>20, <2>p DEF IInv, LockType, CpuType, ProcType, CodeType, CodeInv,
       CpuInv, LockInv, FlagInv, ChildInv, Code, Holding, LockedPcs, FreePcs, AfterSched,
       Between, InUse, Building, Freeing
  <2>8. ChildInv'
    BY SMTT(90), <1>20, <2>p DEF IInv, LockType, CpuType, ProcType, CodeType, ChildInv,
       CodeInv, CpuInv, LockInv, FlagInv, Code, Holding, LockedPcs, FreePcs, Building,
       Freeing, Keeping, AfterSched
  <2>9. FlagInv'
    BY SMTT(90), <1>20, <2>p DEF IInv, LockType, CpuType, ProcType, CodeType, FlagInv,
       CpuInv, CodeInv, ChildInv, Code, Building, LockInv, Holding, FreePcs, LockedPcs,
       OnIdle, AfterSched
  <2> QED
    BY <2>1, <2>2, <2>3, <2>4, <2>5, <2>6, <2>7, <2>8, <2>9 DEF IInv
<1>21. CASE FreeSlot(c)
  <2> USE DEF FreeSlot, At, Goto, CriticalSection, TypeOK, lockVars, cpuVars, procVars, codeVars
  <2>p. stk[c] \in Procs
    BY <1>21 DEF IInv, CpuType
  <2>1. LockType'
    BY <1>21, <2>p DEF IInv, LockType, LockInv, CpuType, Holding, LockedPcs, CodeType
  <2>2. CpuType'  BY <1>21 DEF IInv, CpuType
  <2>3. ProcType'
    BY <1>21, <2>p DEF IInv, ProcType, CodeType, CpuType, States, Channels, ChildInv,
       CodeInv, Code, Building, Keeping
  <2>4. CodeType'
    BY <1>21, <2>p DEF IInv, CodeType, ProcType, CpuType, Pcs, LockedPcs, FreePcs,
       CodeInv, LockType
  <2>5. LockInv'
    BY <1>21, <2>p DEF IInv, LockType, CpuType, ProcType, CodeType, LockInv, CpuInv,
       CodeInv, ChildInv, Holding, Code, LockedPcs, FreePcs, Building, AfterSched, Pcs
  <2>6. CpuInv'
    BY SMTT(90), <1>21, <2>p DEF IInv, LockType, CpuType, ProcType, CodeType, CpuInv,
       LockInv, CodeInv, ChildInv, Code, Building, Freeing, Holding, LockedPcs, Procs
  <2>7. CodeInv'
    BY SMTT(90), <1>21, <2>p DEF IInv, LockType, CpuType, ProcType, CodeType, CodeInv,
       CpuInv, LockInv, FlagInv, ChildInv, Code, Holding, LockedPcs, FreePcs, AfterSched,
       Between, InUse, Building, Freeing
  <2>8. ChildInv'
    BY SMTT(90), <1>21, <2>p DEF IInv, LockType, CpuType, ProcType, CodeType, ChildInv,
       CodeInv, CpuInv, LockInv, FlagInv, Code, Holding, LockedPcs, FreePcs, Building,
       Freeing, Keeping, AfterSched
  <2>9. FlagInv'
    BY SMTT(90), <1>21, <2>p DEF IInv, LockType, CpuType, ProcType, CodeType, FlagInv,
       CpuInv, CodeInv, ChildInv, Code, Building, LockInv, Holding, FreePcs, LockedPcs,
       OnIdle, AfterSched
  <2> QED
    BY <2>1, <2>2, <2>3, <2>4, <2>5, <2>6, <2>7, <2>8, <2>9 DEF IInv
<1>22. CASE ExitDetach(c)
  <2> USE DEF ExitDetach, At, Goto, CriticalSection, TypeOK, lockVars, cpuVars, procVars, codeVars
  <2>p. stk[c] \in Procs
    BY <1>22 DEF IInv, CpuType
  <2>f0. ipc[stk[c]] = None /\ state[stk[c]] = "RUNNING"
    BY <1>22, <2>p DEF IInv, CpuInv, CodeInv
  <2>f1. pml4[stk[c]] \in Spaces
    BY <1>22, <2>p, <2>f0 DEF IInv, ChildInv, Code, ProcType
  <2>1. LockType'
    BY <1>22, <2>p, <2>f0, <2>f1 DEF IInv, LockType, LockInv, CpuType, Holding, LockedPcs,
       CodeType
  <2>2. CpuType'  BY <1>22 DEF IInv, CpuType
  <2>3. ProcType'
    BY <1>22, <2>p, <2>f0, <2>f1 DEF IInv, ProcType, CodeType, CpuType, States, Channels,
       ChildInv, CodeInv, Code, Building, Keeping
  <2>4. CodeType'
    BY <1>22, <2>p, <2>f0, <2>f1 DEF IInv, CodeType, ProcType, CpuType, Pcs, LockedPcs,
       FreePcs, CodeInv, LockType
  <2>5. LockInv'
    BY <1>22, <2>p, <2>f0, <2>f1 DEF IInv, LockType, CpuType, ProcType, CodeType, LockInv,
       CpuInv, CodeInv, ChildInv, Holding, Code, LockedPcs, FreePcs, Building, AfterSched,
       Pcs
  <2>6. CpuInv'
    BY SMTT(90), <1>22, <2>p, <2>f0, <2>f1 DEF IInv, LockType, CpuType, ProcType,
       CodeType, CpuInv, LockInv, CodeInv, ChildInv, Code, Building, Freeing, Holding,
       LockedPcs, Procs
  <2>7. CodeInv'
    BY SMTT(90), <1>22, <2>p, <2>f0, <2>f1 DEF IInv, LockType, CpuType, ProcType,
       CodeType, CodeInv, CpuInv, LockInv, FlagInv, ChildInv, Code, Holding, LockedPcs,
       FreePcs, AfterSched, Between, InUse, Building, Freeing
  <2>8. ChildInv'
    BY SMTT(90), <1>22, <2>p, <2>f0, <2>f1 DEF IInv, LockType, CpuType, ProcType,
       CodeType, ChildInv, CodeInv, CpuInv, LockInv, FlagInv, Code, Holding, LockedPcs,
       FreePcs, Building, Freeing, Keeping, AfterSched
  <2>9. FlagInv'
    BY SMTT(90), <1>22, <2>p, <2>f0, <2>f1 DEF IInv, LockType, CpuType, ProcType,
       CodeType, FlagInv, CpuInv, CodeInv, ChildInv, Code, Building, LockInv, Holding,
       FreePcs, LockedPcs, OnIdle, AfterSched
  <2> QED
    BY <2>1, <2>2, <2>3, <2>4, <2>5, <2>6, <2>7, <2>8, <2>9 DEF IInv
<1>23. CASE ExecSwap(c)
  <2> USE DEF ExecSwap, At, Goto, CriticalSection, TypeOK, lockVars, cpuVars, procVars, codeVars
  <2>p. stk[c] \in Procs
    BY <1>23 DEF IInv, CpuType
  <2>f0. ipc[stk[c]] = None /\ state[stk[c]] = "RUNNING"
    BY <1>23, <2>p DEF IInv, CpuInv, CodeInv
  <2>f1. pml4[stk[c]] \in Spaces
    BY <1>23, <2>p, <2>f0 DEF IInv, ChildInv, Code, ProcType
  <2>f2. old[stk[c]] \in Spaces
    BY <1>23, <2>p, <2>f0, <2>f1 DEF IInv, ChildInv, Code, CodeType, Keeping
  <2>1. LockType'
    BY <1>23, <2>p, <2>f0, <2>f1, <2>f2 DEF IInv, LockType, LockInv, CpuType, Holding,
       LockedPcs, CodeType
  <2>2. CpuType'  BY <1>23 DEF IInv, CpuType
  <2>3. ProcType'
    BY <1>23, <2>p, <2>f0, <2>f1, <2>f2 DEF IInv, ProcType, CodeType, CpuType, States,
       Channels, ChildInv, CodeInv, Code, Building, Keeping
  <2>4. CodeType'
    BY <1>23, <2>p, <2>f0, <2>f1, <2>f2 DEF IInv, CodeType, ProcType, CpuType, Pcs,
       LockedPcs, FreePcs, CodeInv, LockType
  <2>5. LockInv'
    BY <1>23, <2>p, <2>f0, <2>f1, <2>f2 DEF IInv, LockType, CpuType, ProcType, CodeType,
       LockInv, CpuInv, CodeInv, ChildInv, Holding, Code, LockedPcs, FreePcs, Building,
       AfterSched, Pcs
  <2>6. CpuInv'
    BY SMTT(90), <1>23, <2>p, <2>f0, <2>f1, <2>f2 DEF IInv, LockType, CpuType, ProcType,
       CodeType, CpuInv, LockInv, CodeInv, ChildInv, Code, Building, Freeing, Holding,
       LockedPcs, Procs
  <2>7. CodeInv'
    BY SMTT(90), <1>23, <2>p, <2>f0, <2>f1, <2>f2 DEF IInv, LockType, CpuType, ProcType,
       CodeType, CodeInv, CpuInv, LockInv, FlagInv, ChildInv, Code, Holding, LockedPcs,
       FreePcs, AfterSched, Between, InUse, Building, Freeing
  <2>8. ChildInv'
    BY SMTT(90), <1>23, <2>p, <2>f0, <2>f1, <2>f2 DEF IInv, LockType, CpuType, ProcType,
       CodeType, ChildInv, CodeInv, CpuInv, LockInv, FlagInv, Code, Holding, LockedPcs,
       FreePcs, Building, Freeing, Keeping, AfterSched
  <2>9. FlagInv'
    BY SMTT(90), <1>23, <2>p, <2>f0, <2>f1, <2>f2 DEF IInv, LockType, CpuType, ProcType,
       CodeType, FlagInv, CpuInv, CodeInv, ChildInv, Code, Building, LockInv, Holding,
       FreePcs, LockedPcs, OnIdle, AfterSched
  <2> QED
    BY <2>1, <2>2, <2>3, <2>4, <2>5, <2>6, <2>7, <2>8, <2>9 DEF IInv
<1>24. CASE LoadCr3(c)
  <2> USE DEF LoadCr3, At, Goto, TypeOK, lockVars, cpuVars, procVars, codeVars
  <2>p. stk[c] \in Procs
    BY <1>24 DEF IInv, CpuType
  <2>1. LockType'  BY <1>24 DEF IInv, LockType
  <2>2. CpuType'  BY <1>24, <2>p DEF IInv, CpuType, ProcType, CpuInv, SchedPcs, Procs
  <2>3. ProcType'  BY <1>24 DEF IInv, ProcType
  <2>4. CodeType'
    BY <1>24, <2>p DEF IInv, CodeType, ProcType, CpuType, Pcs, LockedPcs, FreePcs,
       CodeInv, LockType
  <2>5. LockInv'
    BY <1>24, <2>p DEF IInv, LockType, CpuType, ProcType, CodeType, LockInv, CpuInv,
       CodeInv, ChildInv, Holding, Code, LockedPcs, FreePcs, Building, AfterSched, Pcs
  <2>6. CpuInv'
    BY SMTT(90), <1>24, <2>p DEF IInv, LockType, CpuType, ProcType, CodeType, CpuInv,
       LockInv, CodeInv, ChildInv, Code, Building, Freeing, Holding, LockedPcs, Procs
  <2>7. CodeInv'
    BY SMTT(90), <1>24, <2>p DEF IInv, LockType, CpuType, ProcType, CodeType, CodeInv,
       CpuInv, LockInv, FlagInv, ChildInv, Code, Holding, LockedPcs, FreePcs, AfterSched,
       Between, InUse, Building, Freeing
  <2>8. ChildInv'
    BY SMTT(90), <1>24, <2>p DEF IInv, LockType, CpuType, ProcType, CodeType, ChildInv,
       CodeInv, CpuInv, LockInv, FlagInv, Code, Holding, LockedPcs, FreePcs, Building,
       Freeing, Keeping, AfterSched
  <2>9. FlagInv'
    BY SMTT(90), <1>24, <2>p DEF IInv, LockType, CpuType, ProcType, CodeType, FlagInv,
       CpuInv, CodeInv, ChildInv, Code, Building, LockInv, Holding, FreePcs, LockedPcs,
       OnIdle, AfterSched
  <2> QED
    BY <2>1, <2>2, <2>3, <2>4, <2>5, <2>6, <2>7, <2>8, <2>9 DEF IInv
<1>25. CASE DestroyOld(c)
  <2> USE DEF DestroyOld, At, Goto, TypeOK, lockVars, cpuVars, procVars, codeVars
  <2>p. stk[c] \in Procs
    BY <1>25 DEF IInv, CpuType
  <2>1. LockType'  BY <1>25 DEF IInv, LockType
  <2>2. CpuType'  BY <1>25 DEF IInv, CpuType
  <2>3. ProcType'
    BY <1>25, <2>p DEF IInv, ProcType, CodeType, CpuType, States, Channels, ChildInv,
       CodeInv, Code, Building, Keeping
  <2>4. CodeType'
    BY <1>25, <2>p DEF IInv, CodeType, ProcType, CpuType, Pcs, LockedPcs, FreePcs,
       CodeInv, LockType
  <2>5. LockInv'
    BY <1>25, <2>p DEF IInv, LockType, CpuType, ProcType, CodeType, LockInv, CpuInv,
       CodeInv, ChildInv, Holding, Code, LockedPcs, FreePcs, Building, AfterSched, Pcs
  <2>6. CpuInv'
    BY SMTT(90), <1>25, <2>p DEF IInv, LockType, CpuType, ProcType, CodeType, CpuInv,
       LockInv, CodeInv, ChildInv, Code, Building, Freeing, Holding, LockedPcs, Procs
  <2>7. CodeInv'
    BY SMTT(90), <1>25, <2>p DEF IInv, LockType, CpuType, ProcType, CodeType, CodeInv,
       CpuInv, LockInv, FlagInv, ChildInv, Code, Holding, LockedPcs, FreePcs, AfterSched,
       Between, InUse, Building, Freeing
  <2>8. ChildInv'
    BY SMTT(90), <1>25, <2>p DEF IInv, LockType, CpuType, ProcType, CodeType, ChildInv,
       CodeInv, CpuInv, LockInv, FlagInv, Code, Holding, LockedPcs, FreePcs, Building,
       Freeing, Keeping, AfterSched
  <2>9. FlagInv'
    BY SMTT(90), <1>25, <2>p DEF IInv, LockType, CpuType, ProcType, CodeType, FlagInv,
       CpuInv, CodeInv, ChildInv, Code, Building, LockInv, Holding, FreePcs, LockedPcs,
       OnIdle, AfterSched
  <2> QED
    BY <2>1, <2>2, <2>3, <2>4, <2>5, <2>6, <2>7, <2>8, <2>9 DEF IInv
<1>26. CASE ExitZombie(c)
  <2> USE DEF ExitZombie, ExitBody, SleepersOn, Orphaned, SpinLock, At, SchedThen, TypeOK, lockVars, cpuVars, procVars, codeVars
  <2>p. stk[c] \in Procs
    BY <1>26 DEF IInv, CpuType
  <2>1. LockType'
    BY <1>26, <2>p DEF IInv, LockType, LockInv, CpuType, Holding, LockedPcs, CodeType
  <2>2. CpuType'  BY <1>26 DEF IInv, CpuType
  <2>3. ProcType'
    BY <1>26, <2>p DEF IInv, ProcType, CodeType, CpuType, States, Channels, ChildInv,
       CodeInv, Code, Building, Keeping
  <2>4. CodeType'
    BY <1>26, <2>p DEF IInv, CodeType, ProcType, CpuType, Pcs, LockedPcs, FreePcs,
       CodeInv, LockType
  <2>5. LockInv'
    BY <1>26, <2>p DEF IInv, LockType, CpuType, ProcType, CodeType, LockInv, CpuInv,
       CodeInv, ChildInv, Holding, Code, LockedPcs, FreePcs, Building, AfterSched, Pcs
  <2>6. CpuInv'
    BY SMTT(90), <1>26, <2>p DEF IInv, LockType, CpuType, ProcType, CodeType, CpuInv,
       LockInv, CodeInv, ChildInv, Code, Building, Freeing, Holding, LockedPcs, Procs
  <2>7. CodeInv'
    BY SMTT(90), <1>26, <2>p DEF IInv, LockType, CpuType, ProcType, CodeType, CodeInv,
       CpuInv, LockInv, FlagInv, ChildInv, Code, Holding, LockedPcs, FreePcs, AfterSched,
       Between, InUse, Building, Freeing
  <2>8. ChildInv'
    BY SMTT(90), <1>26, <2>p DEF IInv, LockType, CpuType, ProcType, CodeType, ChildInv,
       CodeInv, CpuInv, LockInv, FlagInv, Code, Holding, LockedPcs, FreePcs, Building,
       Freeing, Keeping, AfterSched
  <2>9. FlagInv'
    BY SMTT(90), <1>26, <2>p DEF IInv, LockType, CpuType, ProcType, CodeType, FlagInv,
       CpuInv, CodeInv, ChildInv, Code, Building, LockInv, Holding, FreePcs, LockedPcs,
       OnIdle, AfterSched
  <2> QED
    BY <2>1, <2>2, <2>3, <2>4, <2>5, <2>6, <2>7, <2>8, <2>9 DEF IInv
<1> QED
  BY <1>1, <1>2, <1>3, <1>4, <1>5, <1>6, <1>7, <1>8, <1>9, <1>10, <1>11, <1>12, <1>13,
     <1>14, <1>15, <1>16, <1>17, <1>18, <1>19, <1>20, <1>21, <1>22, <1>23, <1>24, <1>25,
     <1>26 DEF ProcessStep

\* Entering an operation (yield, sleep, create, wait, exit, exec) keeps the
\* inductive invariant.
LEMMA CallInv ==
  ASSUME NEW c \in CPUs, IInv, Call(c)
  PROVE  IInv'
<1>1. CASE Yield(c)
  <2> USE DEF Yield, At, Goto, TypeOK, lockVars, cpuVars, procVars, codeVars
  <2>p. stk[c] \in Procs
    BY <1>1 DEF IInv, CpuType
  <2>1. LockType'  BY <1>1 DEF IInv, LockType
  <2>2. CpuType'  BY <1>1 DEF IInv, CpuType
  <2>3. ProcType'  BY <1>1 DEF IInv, ProcType
  <2>4. CodeType'
    BY <1>1, <2>p DEF IInv, CodeType, ProcType, CpuType, Pcs, LockedPcs, FreePcs, CodeInv,
       LockType
  <2>5. LockInv'
    BY <1>1, <2>p DEF IInv, LockType, CpuType, ProcType, CodeType, LockInv, CpuInv,
       CodeInv, ChildInv, Holding, Code, LockedPcs, FreePcs, Building, AfterSched, Pcs
  <2>6. CpuInv'
    BY SMTT(90), <1>1, <2>p DEF IInv, LockType, CpuType, ProcType, CodeType, CpuInv,
       LockInv, CodeInv, ChildInv, Code, Building, Freeing, Holding, LockedPcs, Procs
  <2>7. CodeInv'
    BY SMTT(90), <1>1, <2>p DEF IInv, LockType, CpuType, ProcType, CodeType, CodeInv,
       CpuInv, LockInv, FlagInv, ChildInv, Code, Holding, LockedPcs, FreePcs, AfterSched,
       Between, InUse, Building, Freeing
  <2>8. ChildInv'
    BY SMTT(90), <1>1, <2>p DEF IInv, LockType, CpuType, ProcType, CodeType, ChildInv,
       CodeInv, CpuInv, LockInv, FlagInv, Code, Holding, LockedPcs, FreePcs, Building,
       Freeing, Keeping, AfterSched
  <2>9. FlagInv'
    BY SMTT(90), <1>1, <2>p DEF IInv, LockType, CpuType, ProcType, CodeType, FlagInv,
       CpuInv, CodeInv, ChildInv, Code, Building, LockInv, Holding, FreePcs, LockedPcs,
       OnIdle, AfterSched
  <2> QED
    BY <2>1, <2>2, <2>3, <2>4, <2>5, <2>6, <2>7, <2>8, <2>9 DEF IInv
<1>2. CASE SleepMs(c)
  <2> USE DEF SleepMs, At, Goto, SpinLock, TypeOK, lockVars, cpuVars, procVars, codeVars
  <2>p. stk[c] \in Procs
    BY <1>2 DEF IInv, CpuType
  <2>1. LockType'
    BY <1>2, <2>p DEF IInv, LockType, LockInv, CpuType, Holding, LockedPcs, CodeType
  <2>2. CpuType'  BY <1>2 DEF IInv, CpuType
  <2>3. ProcType'
    BY <1>2, <2>p DEF IInv, ProcType, CodeType, CpuType, States, Channels, ChildInv,
       CodeInv, Code, Building, Keeping
  <2>4. CodeType'
    BY <1>2, <2>p DEF IInv, CodeType, ProcType, CpuType, Pcs, LockedPcs, FreePcs, CodeInv,
       LockType
  <2>5. LockInv'
    BY <1>2, <2>p DEF IInv, LockType, CpuType, ProcType, CodeType, LockInv, CpuInv,
       CodeInv, ChildInv, Holding, Code, LockedPcs, FreePcs, Building, AfterSched, Pcs
  <2>6. CpuInv'
    BY SMTT(90), <1>2, <2>p DEF IInv, LockType, CpuType, ProcType, CodeType, CpuInv,
       LockInv, CodeInv, ChildInv, Code, Building, Freeing, Holding, LockedPcs, Procs
  <2>7. CodeInv'
    BY SMTT(90), <1>2, <2>p DEF IInv, LockType, CpuType, ProcType, CodeType, CodeInv,
       CpuInv, LockInv, FlagInv, ChildInv, Code, Holding, LockedPcs, FreePcs, AfterSched,
       Between, InUse, Building, Freeing
  <2>8. ChildInv'
    BY SMTT(90), <1>2, <2>p DEF IInv, LockType, CpuType, ProcType, CodeType, ChildInv,
       CodeInv, CpuInv, LockInv, FlagInv, Code, Holding, LockedPcs, FreePcs, Building,
       Freeing, Keeping, AfterSched
  <2>9. FlagInv'
    BY SMTT(90), <1>2, <2>p DEF IInv, LockType, CpuType, ProcType, CodeType, FlagInv,
       CpuInv, CodeInv, ChildInv, Code, Building, LockInv, Holding, FreePcs, LockedPcs,
       OnIdle, AfterSched
  <2> QED
    BY <2>1, <2>2, <2>3, <2>4, <2>5, <2>6, <2>7, <2>8, <2>9 DEF IInv
<1>3. CASE KthreadAlloc(c)
  <2> USE DEF KthreadAlloc, At, Goto, TakeSlot, CriticalSection, IsFirstUnused, TypeOK, lockVars, cpuVars, procVars, codeVars
  <2>p. stk[c] \in Procs
    BY <1>3 DEF IInv, CpuType
  <2>f0. state[stk[c]] = "RUNNING" /\ ipc[stk[c]] = None
    BY <1>3, <2>p DEF IInv, CpuInv, CodeInv
  <2>f1. \A i \in Procs : state[i] = "UNUSED" => i # stk[c] /\ \A q \in Procs : child[q] # i
    BY <1>3, <2>p, <2>f0 DEF IInv, CpuInv, ChildInv, CodeType
  <2>f2. \A i \in Procs : state[i] = "UNUSED" /\ spc[BSP] \in {"r_free", "r_unused"} => i # reapi
    BY <1>3, <2>p, <2>f0, <2>f1 DEF IInv, CpuInv
  <2>1. LockType'
    BY <1>3, <2>p, <2>f0, <2>f1, <2>f2 DEF IInv, LockType, LockInv, CpuType, Holding,
       LockedPcs, CodeType
  <2>2. CpuType'  BY <1>3 DEF IInv, CpuType
  <2>3. ProcType'
    BY <1>3, <2>p, <2>f0, <2>f1, <2>f2 DEF IInv, ProcType, CodeType, CpuType, States,
       Channels, ChildInv, CodeInv, Code, Building, Keeping
  <2>4. CodeType'
    BY <1>3, <2>p, <2>f0, <2>f1, <2>f2 DEF IInv, CodeType, ProcType, CpuType, Pcs,
       LockedPcs, FreePcs, CodeInv, LockType
  <2>5. LockInv'
    BY <1>3, <2>p, <2>f0, <2>f1, <2>f2 DEF IInv, LockType, CpuType, ProcType, CodeType,
       LockInv, CpuInv, CodeInv, ChildInv, Holding, Code, LockedPcs, FreePcs, Building,
       AfterSched, Pcs
  <2>6. CpuInv'
    BY SMTT(90), <1>3, <2>p, <2>f0, <2>f1, <2>f2 DEF IInv, LockType, CpuType, ProcType,
       CodeType, CpuInv, LockInv, CodeInv, ChildInv, Code, Building, Freeing, Holding,
       LockedPcs, Procs
  <2>7. CodeInv'
    BY SMTT(90), <1>3, <2>p, <2>f0, <2>f1, <2>f2 DEF IInv, LockType, CpuType, ProcType,
       CodeType, CodeInv, CpuInv, LockInv, FlagInv, ChildInv, Code, Holding, LockedPcs,
       FreePcs, AfterSched, Between, InUse, Building, Freeing
  <2>8. ChildInv'
    BY SMTT(90), <1>3, <2>p, <2>f0, <2>f1, <2>f2 DEF IInv, LockType, CpuType, ProcType,
       CodeType, ChildInv, CodeInv, CpuInv, LockInv, FlagInv, Code, Holding, LockedPcs,
       FreePcs, Building, Freeing, Keeping, AfterSched
  <2>9. FlagInv'
    BY SMTT(90), <1>3, <2>p, <2>f0, <2>f1, <2>f2 DEF IInv, LockType, CpuType, ProcType,
       CodeType, FlagInv, CpuInv, CodeInv, ChildInv, Code, Building, LockInv, Holding,
       FreePcs, LockedPcs, OnIdle, AfterSched
  <2> QED
    BY <2>1, <2>2, <2>3, <2>4, <2>5, <2>6, <2>7, <2>8, <2>9 DEF IInv
<1>4. CASE ForkAlloc(c)
  <2> USE DEF ForkAlloc, At, Goto, TakeSlot, CriticalSection, IsFirstUnused, TypeOK, lockVars, cpuVars, procVars, codeVars
  <2>p. stk[c] \in Procs
    BY <1>4 DEF IInv, CpuType
  <2>f0. state[stk[c]] = "RUNNING" /\ ipc[stk[c]] = None
    BY <1>4, <2>p DEF IInv, CpuInv, CodeInv
  <2>f1. \A i \in Procs : state[i] = "UNUSED" => i # stk[c] /\ \A q \in Procs : child[q] # i
    BY <1>4, <2>p, <2>f0 DEF IInv, CpuInv, ChildInv, CodeType
  <2>f2. \A i \in Procs : state[i] = "UNUSED" /\ spc[BSP] \in {"r_free", "r_unused"} => i # reapi
    BY <1>4, <2>p, <2>f0, <2>f1 DEF IInv, CpuInv
  <2>1. LockType'
    BY <1>4, <2>p, <2>f0, <2>f1, <2>f2 DEF IInv, LockType, LockInv, CpuType, Holding,
       LockedPcs, CodeType
  <2>2. CpuType'  BY <1>4 DEF IInv, CpuType
  <2>3. ProcType'
    BY <1>4, <2>p, <2>f0, <2>f1, <2>f2 DEF IInv, ProcType, CodeType, CpuType, States,
       Channels, ChildInv, CodeInv, Code, Building, Keeping
  <2>4. CodeType'
    BY <1>4, <2>p, <2>f0, <2>f1, <2>f2 DEF IInv, CodeType, ProcType, CpuType, Pcs,
       LockedPcs, FreePcs, CodeInv, LockType
  <2>5. LockInv'
    BY <1>4, <2>p, <2>f0, <2>f1, <2>f2 DEF IInv, LockType, CpuType, ProcType, CodeType,
       LockInv, CpuInv, CodeInv, ChildInv, Holding, Code, LockedPcs, FreePcs, Building,
       AfterSched, Pcs
  <2>6. CpuInv'
    BY SMTT(90), <1>4, <2>p, <2>f0, <2>f1, <2>f2 DEF IInv, LockType, CpuType, ProcType,
       CodeType, CpuInv, LockInv, CodeInv, ChildInv, Code, Building, Freeing, Holding,
       LockedPcs, Procs
  <2>7. CodeInv'
    BY SMTT(90), <1>4, <2>p, <2>f0, <2>f1, <2>f2 DEF IInv, LockType, CpuType, ProcType,
       CodeType, CodeInv, CpuInv, LockInv, FlagInv, ChildInv, Code, Holding, LockedPcs,
       FreePcs, AfterSched, Between, InUse, Building, Freeing
  <2>8. ChildInv'
    BY SMTT(90), <1>4, <2>p, <2>f0, <2>f1, <2>f2 DEF IInv, LockType, CpuType, ProcType,
       CodeType, ChildInv, CodeInv, CpuInv, LockInv, FlagInv, Code, Holding, LockedPcs,
       FreePcs, Building, Freeing, Keeping, AfterSched
  <2>9. FlagInv'
    BY SMTT(90), <1>4, <2>p, <2>f0, <2>f1, <2>f2 DEF IInv, LockType, CpuType, ProcType,
       CodeType, FlagInv, CpuInv, CodeInv, ChildInv, Code, Building, LockInv, Holding,
       FreePcs, LockedPcs, OnIdle, AfterSched
  <2> QED
    BY <2>1, <2>2, <2>3, <2>4, <2>5, <2>6, <2>7, <2>8, <2>9 DEF IInv
<1>5. CASE SpawnLoad(c)
  <2> USE DEF SpawnLoad, At, Goto, TypeOK, lockVars, cpuVars, procVars, codeVars
  <2>p. stk[c] \in Procs
    BY <1>5 DEF IInv, CpuType
  <2>1. LockType'  BY <1>5 DEF IInv, LockType
  <2>2. CpuType'  BY <1>5 DEF IInv, CpuType
  <2>3. ProcType'
    BY <1>5, <2>p DEF IInv, ProcType, CodeType, CpuType, States, Channels, ChildInv,
       CodeInv, Code, Building, Keeping
  <2>4. CodeType'
    BY <1>5, <2>p DEF IInv, CodeType, ProcType, CpuType, Pcs, LockedPcs, FreePcs, CodeInv,
       LockType
  <2>5. LockInv'
    BY <1>5, <2>p DEF IInv, LockType, CpuType, ProcType, CodeType, LockInv, CpuInv,
       CodeInv, ChildInv, Holding, Code, LockedPcs, FreePcs, Building, AfterSched, Pcs
  <2>6. CpuInv'
    BY SMTT(90), <1>5, <2>p DEF IInv, LockType, CpuType, ProcType, CodeType, CpuInv,
       LockInv, CodeInv, ChildInv, Code, Building, Freeing, Holding, LockedPcs, Procs
  <2>7. CodeInv'
    BY SMTT(90), <1>5, <2>p DEF IInv, LockType, CpuType, ProcType, CodeType, CodeInv,
       CpuInv, LockInv, FlagInv, ChildInv, Code, Holding, LockedPcs, FreePcs, AfterSched,
       Between, InUse, Building, Freeing
  <2>8. ChildInv'
    BY SMTT(90), <1>5, <2>p DEF IInv, LockType, CpuType, ProcType, CodeType, ChildInv,
       CodeInv, CpuInv, LockInv, FlagInv, Code, Holding, LockedPcs, FreePcs, Building,
       Freeing, Keeping, AfterSched
  <2>9. FlagInv'
    BY SMTT(90), <1>5, <2>p DEF IInv, LockType, CpuType, ProcType, CodeType, FlagInv,
       CpuInv, CodeInv, ChildInv, Code, Building, LockInv, Holding, FreePcs, LockedPcs,
       OnIdle, AfterSched
  <2> QED
    BY <2>1, <2>2, <2>3, <2>4, <2>5, <2>6, <2>7, <2>8, <2>9 DEF IInv
<1>6. CASE WaitLock(c)
  <2> USE DEF WaitLock, At, Goto, SpinLock, Matches, TypeOK, lockVars, cpuVars, procVars, codeVars
  <2>p. stk[c] \in Procs
    BY <1>6 DEF IInv, CpuType
  <2>1. LockType'
    BY <1>6, <2>p DEF IInv, LockType, LockInv, CpuType, Holding, LockedPcs, CodeType
  <2>2. CpuType'  BY <1>6 DEF IInv, CpuType
  <2>3. ProcType'  BY <1>6 DEF IInv, ProcType
  <2>4. CodeType'
    BY <1>6, <2>p DEF IInv, CodeType, ProcType, CpuType, Pcs, LockedPcs, FreePcs, CodeInv,
       LockType
  <2>5. LockInv'
    BY <1>6, <2>p DEF IInv, LockType, CpuType, ProcType, CodeType, LockInv, CpuInv,
       CodeInv, ChildInv, Holding, Code, LockedPcs, FreePcs, Building, AfterSched, Pcs
  <2>6. CpuInv'
    BY SMTT(90), <1>6, <2>p DEF IInv, LockType, CpuType, ProcType, CodeType, CpuInv,
       LockInv, CodeInv, ChildInv, Code, Building, Freeing, Holding, LockedPcs, Procs
  <2>7. CodeInv'
    BY SMTT(90), <1>6, <2>p DEF IInv, LockType, CpuType, ProcType, CodeType, CodeInv,
       CpuInv, LockInv, FlagInv, ChildInv, Code, Holding, LockedPcs, FreePcs, AfterSched,
       Between, InUse, Building, Freeing
  <2>8. ChildInv'
    BY SMTT(90), <1>6, <2>p DEF IInv, LockType, CpuType, ProcType, CodeType, ChildInv,
       CodeInv, CpuInv, LockInv, FlagInv, Code, Holding, LockedPcs, FreePcs, Building,
       Freeing, Keeping, AfterSched
  <2>9. FlagInv'
    BY SMTT(90), <1>6, <2>p DEF IInv, LockType, CpuType, ProcType, CodeType, FlagInv,
       CpuInv, CodeInv, ChildInv, Code, Building, LockInv, Holding, FreePcs, LockedPcs,
       OnIdle, AfterSched
  <2> QED
    BY <2>1, <2>2, <2>3, <2>4, <2>5, <2>6, <2>7, <2>8, <2>9 DEF IInv
<1>7. CASE WaitNohang(c)
  <2> USE DEF WaitNohang, At, Goto, CriticalSection, TypeOK, lockVars, cpuVars, procVars, codeVars
  <2>p. stk[c] \in Procs
    BY <1>7 DEF IInv, CpuType
  <2>f0. PICK q \in Procs : /\ state[q] = "ZOMBIE" /\ state' = [state EXCEPT ![q] = "DEAD"]
                 /\ child' = [child EXCEPT ![stk[c]] = q]
    BY <1>7, <2>p DEF IInv, IsFirst, Zombies, Matches
  <2>f1. q # stk[c] /\ \A r \in Procs : child[r] # q
    BY <1>7, <2>p, <2>f0 DEF IInv, CpuInv, ChildInv, CodeType
  <2>f2. spc[BSP] \in {"r_free", "r_unused"} => q # reapi
    BY <1>7, <2>p, <2>f0, <2>f1 DEF IInv, CpuInv
  <2>1. LockType'
    BY <1>7, <2>p, <2>f0, <2>f1, <2>f2 DEF IInv, LockType, LockInv, CpuType, Holding,
       LockedPcs, CodeType
  <2>2. CpuType'  BY <1>7 DEF IInv, CpuType
  <2>3. ProcType'
    BY <1>7, <2>p, <2>f0, <2>f1, <2>f2 DEF IInv, ProcType, CodeType, CpuType, States,
       Channels, ChildInv, CodeInv, Code, Building, Keeping
  <2>4. CodeType'
    BY <1>7, <2>p, <2>f0, <2>f1, <2>f2 DEF IInv, CodeType, ProcType, CpuType, Pcs,
       LockedPcs, FreePcs, CodeInv, LockType
  <2>5. LockInv'
    BY <1>7, <2>p, <2>f0, <2>f1, <2>f2 DEF IInv, LockType, CpuType, ProcType, CodeType,
       LockInv, CpuInv, CodeInv, ChildInv, Holding, Code, LockedPcs, FreePcs, Building,
       AfterSched, Pcs
  <2>6. CpuInv'
    BY SMTT(90), <1>7, <2>p, <2>f0, <2>f1, <2>f2 DEF IInv, LockType, CpuType, ProcType,
       CodeType, CpuInv, LockInv, CodeInv, ChildInv, Code, Building, Freeing, Holding,
       LockedPcs, Procs
  <2>7. CodeInv'
    BY SMTT(90), <1>7, <2>p, <2>f0, <2>f1, <2>f2 DEF IInv, LockType, CpuType, ProcType,
       CodeType, CodeInv, CpuInv, LockInv, FlagInv, ChildInv, Code, Holding, LockedPcs,
       FreePcs, AfterSched, Between, InUse, Building, Freeing
  <2>8. ChildInv'
    BY SMTT(90), <1>7, <2>p, <2>f0, <2>f1, <2>f2 DEF IInv, LockType, CpuType, ProcType,
       CodeType, ChildInv, CodeInv, CpuInv, LockInv, FlagInv, Code, Holding, LockedPcs,
       FreePcs, Building, Freeing, Keeping, AfterSched
  <2>9. FlagInv'
    BY SMTT(90), <1>7, <2>p, <2>f0, <2>f1, <2>f2 DEF IInv, LockType, CpuType, ProcType,
       CodeType, FlagInv, CpuInv, CodeInv, ChildInv, Code, Building, LockInv, Holding,
       FreePcs, LockedPcs, OnIdle, AfterSched
  <2> QED
    BY <2>1, <2>2, <2>3, <2>4, <2>5, <2>6, <2>7, <2>8, <2>9 DEF IInv
<1>8. CASE Exit(c)
  <2> USE DEF Exit, At, Goto, TypeOK, lockVars, cpuVars, procVars, codeVars
  <2>p. stk[c] \in Procs
    BY <1>8 DEF IInv, CpuType
  <2>1. LockType'  BY <1>8 DEF IInv, LockType
  <2>2. CpuType'  BY <1>8 DEF IInv, CpuType
  <2>3. ProcType'  BY <1>8 DEF IInv, ProcType
  <2>4. CodeType'
    BY <1>8, <2>p DEF IInv, CodeType, ProcType, CpuType, Pcs, LockedPcs, FreePcs, CodeInv,
       LockType
  <2>5. LockInv'
    BY <1>8, <2>p DEF IInv, LockType, CpuType, ProcType, CodeType, LockInv, CpuInv,
       CodeInv, ChildInv, Holding, Code, LockedPcs, FreePcs, Building, AfterSched, Pcs
  <2>6. CpuInv'
    BY SMTT(90), <1>8, <2>p DEF IInv, LockType, CpuType, ProcType, CodeType, CpuInv,
       LockInv, CodeInv, ChildInv, Code, Building, Freeing, Holding, LockedPcs, Procs
  <2>7. CodeInv'
    BY SMTT(90), <1>8, <2>p DEF IInv, LockType, CpuType, ProcType, CodeType, CodeInv,
       CpuInv, LockInv, FlagInv, ChildInv, Code, Holding, LockedPcs, FreePcs, AfterSched,
       Between, InUse, Building, Freeing
  <2>8. ChildInv'
    BY SMTT(90), <1>8, <2>p DEF IInv, LockType, CpuType, ProcType, CodeType, ChildInv,
       CodeInv, CpuInv, LockInv, FlagInv, Code, Holding, LockedPcs, FreePcs, Building,
       Freeing, Keeping, AfterSched
  <2>9. FlagInv'
    BY SMTT(90), <1>8, <2>p DEF IInv, LockType, CpuType, ProcType, CodeType, FlagInv,
       CpuInv, CodeInv, ChildInv, Code, Building, LockInv, Holding, FreePcs, LockedPcs,
       OnIdle, AfterSched
  <2> QED
    BY <2>1, <2>2, <2>3, <2>4, <2>5, <2>6, <2>7, <2>8, <2>9 DEF IInv
<1>9. CASE ExecLoad(c)
  <2> USE DEF ExecLoad, At, Goto, TypeOK, lockVars, cpuVars, procVars, codeVars
  <2>p. stk[c] \in Procs
    BY <1>9 DEF IInv, CpuType
  <2>1. LockType'  BY <1>9 DEF IInv, LockType
  <2>2. CpuType'  BY <1>9 DEF IInv, CpuType
  <2>3. ProcType'
    BY <1>9, <2>p DEF IInv, ProcType, CodeType, CpuType, States, Channels, ChildInv,
       CodeInv, Code, Building, Keeping
  <2>4. CodeType'
    BY <1>9, <2>p DEF IInv, CodeType, ProcType, CpuType, Pcs, LockedPcs, FreePcs, CodeInv,
       LockType
  <2>5. LockInv'
    BY <1>9, <2>p DEF IInv, LockType, CpuType, ProcType, CodeType, LockInv, CpuInv,
       CodeInv, ChildInv, Holding, Code, LockedPcs, FreePcs, Building, AfterSched, Pcs
  <2>6. CpuInv'
    BY SMTT(90), <1>9, <2>p DEF IInv, LockType, CpuType, ProcType, CodeType, CpuInv,
       LockInv, CodeInv, ChildInv, Code, Building, Freeing, Holding, LockedPcs, Procs
  <2>7. CodeInv'
    BY SMTT(90), <1>9, <2>p DEF IInv, LockType, CpuType, ProcType, CodeType, CodeInv,
       CpuInv, LockInv, FlagInv, ChildInv, Code, Holding, LockedPcs, FreePcs, AfterSched,
       Between, InUse, Building, Freeing
  <2>8. ChildInv'
    BY SMTT(90), <1>9, <2>p DEF IInv, LockType, CpuType, ProcType, CodeType, ChildInv,
       CodeInv, CpuInv, LockInv, FlagInv, Code, Holding, LockedPcs, FreePcs, Building,
       Freeing, Keeping, AfterSched
  <2>9. FlagInv'
    BY SMTT(90), <1>9, <2>p DEF IInv, LockType, CpuType, ProcType, CodeType, FlagInv,
       CpuInv, CodeInv, ChildInv, Code, Building, LockInv, Holding, FreePcs, LockedPcs,
       OnIdle, AfterSched
  <2> QED
    BY <2>1, <2>2, <2>3, <2>4, <2>5, <2>6, <2>7, <2>8, <2>9 DEF IInv
<1> QED
  BY <1>1, <1>2, <1>3, <1>4, <1>5, <1>6, <1>7, <1>8, <1>9 DEF Call

\* The timer interrupt (sched_tick) keeps the inductive invariant, wherever it
\* stops a CPU whose IF is on.
LEMMA TimerInterruptInv ==
  ASSUME NEW c \in CPUs, IInv, TimerInterrupt(c)
  PROVE  IInv'
<1>1. CASE TickIdle(c)
  <2> USE DEF TickIdle, TickWork, Due, Earlier, TypeOK, lockVars, cpuVars, procVars, codeVars
  <2>1. LockType'
    BY ZenonT(40), <1>1 DEF IInv, LockType, LockInv, CpuType, Holding, LockedPcs, CodeType
  <2>2. CpuType'  BY <1>1 DEF IInv, CpuType, ProcType, CpuInv, SchedPcs, Procs
  <2>3. ProcType'
    BY <1>1 DEF IInv, ProcType, CodeType, CpuType, States, Channels, ChildInv, CodeInv,
       Code, Building, Keeping
  <2>4. CodeType'  BY <1>1 DEF IInv, CodeType
  <2>5. LockInv'
    BY <1>1 DEF IInv, LockType, CpuType, ProcType, CodeType, LockInv, CpuInv, CodeInv,
       ChildInv, Holding, Code, LockedPcs, FreePcs, Building, AfterSched, Pcs
  <2>6. CpuInv'
    BY SMTT(90), <1>1 DEF IInv, LockType, CpuType, ProcType, CodeType, CpuInv, LockInv,
       CodeInv, ChildInv, Code, Building, Freeing, Holding, LockedPcs, Procs
  <2>7. CodeInv'
    BY SMTT(90), <1>1 DEF IInv, LockType, CpuType, ProcType, CodeType, CodeInv, CpuInv,
       LockInv, FlagInv, ChildInv, Code, Holding, LockedPcs, FreePcs, AfterSched, Between,
       InUse, Building, Freeing
  <2>8. ChildInv'
    BY SMTT(90), <1>1 DEF IInv, LockType, CpuType, ProcType, CodeType, ChildInv, CodeInv,
       CpuInv, LockInv, FlagInv, Code, Holding, LockedPcs, FreePcs, Building, Freeing,
       Keeping, AfterSched
  <2>9. FlagInv'
    BY SMTT(90), <1>1 DEF IInv, LockType, CpuType, ProcType, CodeType, FlagInv, CpuInv,
       CodeInv, ChildInv, Code, Building, LockInv, Holding, FreePcs, LockedPcs, OnIdle,
       AfterSched
  <2> QED
    BY <2>1, <2>2, <2>3, <2>4, <2>5, <2>6, <2>7, <2>8, <2>9 DEF IInv
<1>2. CASE TickProc(c)
  <2> USE DEF TickProc, TickWork, Due, Earlier, TypeOK, lockVars, cpuVars, procVars, codeVars
  <2>p. stk[c] \in Procs
    BY <1>2 DEF IInv, CpuType
  <2>1. LockType'
    BY <1>2, <2>p DEF IInv, LockType, LockInv, CpuType, Holding, LockedPcs, CodeType
  <2>2. CpuType'  BY <1>2 DEF IInv, CpuType
  <2>3. ProcType'  BY <1>2, <2>p DEF IInv, ProcType, States
  <2>4. CodeType'  BY <1>2 DEF IInv, CodeType
  <2>5. LockInv'  BY <1>2 DEF IInv, LockInv, Holding
  <2>6. CpuInv'
    BY SMTT(90), <1>2, <2>p DEF IInv, LockType, CpuType, ProcType, CodeType, CpuInv,
       LockInv, CodeInv, ChildInv, Code, Building, Freeing, Holding, LockedPcs, Procs
  <2>7. CodeInv'
    BY SMTT(90), <1>2, <2>p DEF IInv, LockType, CpuType, ProcType, CodeType, CodeInv,
       CpuInv, LockInv, FlagInv, ChildInv, Code, Holding, LockedPcs, FreePcs, AfterSched,
       Between, InUse, Building, Freeing
  <2>8. ChildInv'
    BY SMTT(90), <1>2, <2>p DEF IInv, LockType, CpuType, ProcType, CodeType, ChildInv,
       CodeInv, CpuInv, LockInv, FlagInv, Code, Holding, LockedPcs, FreePcs, Building,
       Freeing, Keeping, AfterSched
  <2>9. FlagInv'
    BY SMTT(90), <1>2, <2>p DEF IInv, LockType, CpuType, ProcType, CodeType, FlagInv,
       CpuInv, CodeInv, ChildInv, Code, Building, LockInv, Holding, FreePcs, LockedPcs,
       OnIdle, AfterSched
  <2> QED
    BY <2>1, <2>2, <2>3, <2>4, <2>5, <2>6, <2>7, <2>8, <2>9 DEF IInv
<1>3. CASE TickYield(c)
  <2> USE DEF TickYield, TickWork, Due, Earlier, TypeOK, lockVars, cpuVars, procVars, codeVars
  <2>p. stk[c] \in Procs
    BY <1>3 DEF IInv, CpuType
  <2>f0. pc[stk[c]] \in FreePcs
    BY <1>3, <2>p DEF IInv, LockInv, Holding, CodeType, Pcs
  <2>f1. ipc[stk[c]] = None
    BY <1>3, <2>p, <2>f0 DEF IInv, FlagInv
  <2>f2. pc[stk[c]] # "iret"
    BY <1>3, <2>p, <2>f0, <2>f1 DEF IInv, CodeInv
  <2>f3. state[stk[c]] = "RUNNING"
    BY <1>3, <2>p, <2>f0, <2>f1, <2>f2 DEF IInv, CpuInv, FreePcs
  <2>f4. c = BSP => \A q \in Procs : state'[q] = IF Due(q) THEN "READY" ELSE state[q]
    BY <1>3, <2>p, <2>f0, <2>f1, <2>f2, <2>f3 DEF IInv, ProcType
  <2>f5. \A q \in Procs : state'[q] = state[q] \/ (state[q] = "BLOCKED" /\ state'[q] = "READY")
    BY <1>3, <2>p, <2>f0, <2>f1, <2>f2, <2>f3, <2>f4 DEF IInv, ProcType
  <2>f6. \A q \in Procs : Code(q)' = Code(q)
    BY <1>3, <2>p, <2>f0, <2>f1, <2>f2, <2>f3, <2>f4, <2>f5 DEF IInv, Code, CodeType, Pcs
  <2>1. LockType'  BY <1>3, <2>p DEF IInv, LockType
  <2>2. CpuType'  BY <1>3 DEF IInv, CpuType
  <2>3. ProcType'  BY <1>3, <2>p DEF IInv, ProcType, States
  <2>4. CodeType'
    BY <1>3, <2>p, <2>f0, <2>f1, <2>f2, <2>f3, <2>f4, <2>f5, <2>f6 DEF IInv, CodeType,
       ProcType, CpuType, Pcs, LockedPcs, FreePcs, CodeInv, LockType
  <2>5. LockInv'
    BY <1>3, <2>p, <2>f0, <2>f1, <2>f2, <2>f3, <2>f4, <2>f5, <2>f6 DEF IInv, LockType,
       CpuType, ProcType, CodeType, LockInv, CpuInv, CodeInv, ChildInv, Holding, Code,
       LockedPcs, FreePcs, Building, AfterSched, Pcs
  <2>6. CpuInv'
    BY SMTT(90), <1>3, <2>p, <2>f0, <2>f1, <2>f2, <2>f3, <2>f4, <2>f5, <2>f6 DEF IInv,
       LockType, CpuType, ProcType, CodeType, CpuInv, LockInv, CodeInv, ChildInv, Code,
       Building, Freeing, Holding, LockedPcs, Procs
  <2>7. CodeInv'
    BY SMTT(90), <1>3, <2>p, <2>f0, <2>f1, <2>f2, <2>f3, <2>f4, <2>f5, <2>f6 DEF IInv,
       LockType, CpuType, ProcType, CodeType, CodeInv, CpuInv, LockInv, FlagInv, ChildInv,
       Code, Holding, LockedPcs, FreePcs, AfterSched, Between, InUse, Building, Freeing
  <2>8. ChildInv'
    BY SMTT(90), <1>3, <2>p, <2>f0, <2>f1, <2>f2, <2>f3, <2>f4, <2>f5, <2>f6 DEF IInv,
       CodeType, ChildInv, CpuInv
  <2>9. FlagInv'
    BY SMTT(90), <1>3, <2>p, <2>f0, <2>f1, <2>f2, <2>f3, <2>f4, <2>f5, <2>f6 DEF IInv,
       LockType, CpuType, CodeType, FlagInv, CpuInv, FreePcs, LockedPcs, OnIdle,
       AfterSched
  <2> QED
    BY <2>1, <2>2, <2>3, <2>4, <2>5, <2>6, <2>7, <2>8, <2>9 DEF IInv
<1> QED
  BY <1>1, <1>2, <1>3 DEF TimerInterrupt

\* The first state of the kernel, with the init thread READY, satisfies it.
LEMMA InitInv == Init => IInv
<1> SUFFICES ASSUME Init PROVE IInv
  OBVIOUS
<1> USE DEF Init
<1>1. TypeOK
  BY DEF TypeOK, LockType, CpuType, ProcType, CodeType, Procs, States, SchedPcs,
     Channels, Pcs, LockedPcs, InitProc
<1>2. LockInv
  BY DEF LockInv, Holding
<1>3. CpuInv
  BY DEF CpuInv
<1>4. CodeInv
  BY DEF CodeInv, AfterSched, Between, InUse, InitProc, Procs
<1>5. ChildInv
  BY DEF ChildInv, Code, Building, Freeing, Keeping
<1>6. FlagInv
  BY DEF FlagInv, OnIdle, AfterSched
<1> QED
  BY <1>1, <1>2, <1>3, <1>4, <1>5, <1>6 DEF IInv

\* The inductive invariant holds in every reachable state: what state a process
\* is in, whether a CPU stands on its stack and who holds proc_lock determine
\* each other (process.c:13-25).
THEOREM Inductive == Spec => []IInv
<1>1. IInv /\ [Next]_vars => IInv'
  <2> SUFFICES ASSUME IInv, [Next]_vars PROVE IInv'
    OBVIOUS
  <2>1. CASE UNCHANGED vars
    <3> USE <2>1 DEF IInv, TypeOK, vars, lockVars, cpuVars, procVars, codeVars
    <3>1. LockType' /\ CpuType' /\ ProcType' /\ CodeType'
      BY DEF LockType, CpuType, ProcType, CodeType
    <3>2. LockInv' /\ CpuInv'
      BY DEF LockInv, CpuInv, Holding
    <3>3. CodeInv' /\ ChildInv'
      BY DEF CodeInv, ChildInv, Code
    <3>4. FlagInv'
      BY DEF FlagInv, OnIdle
    <3> QED
      BY <3>1, <3>2, <3>3, <3>4
  <2>2. ASSUME NEW c \in CPUs, SchedulerStep(c) PROVE IInv'
    BY <2>2, SchedulerStepInv
  <2>3. ASSUME NEW c \in CPUs, ProcessStep(c) PROVE IInv'
    BY <2>3, ProcessStepInv
  <2>4. ASSUME NEW c \in CPUs, Call(c) PROVE IInv'
    BY <2>4, CallInv
  <2>5. ASSUME NEW c \in CPUs, TimerInterrupt(c) PROVE IInv'
    BY <2>5, TimerInterruptInv
  <2> QED
    BY <2>1, <2>2, <2>3, <2>4, <2>5 DEF Next
<1> QED
  BY <1>1, InitInv, PTL DEF Spec

\* Every variable keeps its type.
THEOREM TypeCorrect == Spec => []TypeOK
<1>1. IInv => TypeOK
  BY DEF IInv
<1> QED
  BY <1>1, Inductive, PTL

\* Two CPUs never execute on one kernel stack, however many CPUs and processes
\* there are: what the lock held across context_switch is for.
THEOREM StacksExclusive == Spec => []OneCpuPerStack
<1>1. IInv => OneCpuPerStack
  BY DEF IInv, CpuInv, OneCpuPerStack
<1> QED
  BY <1>1, Inductive, PTL

\* A CPU never executes on a freed kernel stack: proc_wait and reap_orphans free
\* a ZOMBIE only after its last context_switch.
THEOREM StacksAllocated == Spec => []StackAllocated
<1>1. IInv => StackAllocated
  <2> SUFFICES ASSUME IInv, NEW c \in CPUs, stk[c] # Idle
               PROVE  kstack[stk[c]]
    BY DEF StackAllocated
  <2>1. stk[c] \in Procs
    BY DEF IInv, TypeOK, CpuType
  <2>2. state[stk[c]] \in InUse
    BY <2>1 DEF IInv, CpuInv, CodeInv, Between, InUse
  <2> QED
    BY <2>1, <2>2 DEF IInv, CodeInv
<1> QED
  BY <1>1, Inductive, PTL

\* The panics of sched(), spin_lock, spin_unlock and do_exit are unreachable.
THEOREM PanicFree == Spec => []NoPanic
<1>1. IInv => NoPanic
  <2> SUFFICES ASSUME IInv, NEW c \in CPUs
               PROVE  /\ At(c, "sched") => /\ lock = c /\ ncli[c] = 1 /\ ~ifl[c]
                                           /\ state[stk[c]] # "RUNNING"
                      /\ stk[c] # Idle /\ pc[stk[c]] \in FreePcs => lock # c
                      /\ stk[c] # Idle /\ pc[stk[c]] \in LockedPcs => lock = c
                      /\ stk[c] = Idle => (lock = c <=> spc[c] \in {"switch", "back"})
                      /\ ~At(c, "x_dead")
    BY DEF NoPanic
  <2>1. stk[c] # Idle => stk[c] \in Procs
    BY DEF IInv, TypeOK, CpuType
  <2>2. At(c, "sched") => /\ lock = c /\ ncli[c] = 1 /\ ~ifl[c]
                          /\ state[stk[c]] # "RUNNING"
    BY DEF IInv, LockInv, CpuInv, Holding, At, LockedPcs
  <2>3. stk[c] # Idle /\ pc[stk[c]] \in FreePcs => lock # c
    BY DEF IInv, LockInv, Holding, LockedPcs, FreePcs
  <2>4. ~At(c, "x_dead")
    BY <2>1 DEF IInv, CpuInv, CodeInv, At
  <2> QED
    BY <2>2, <2>3, <2>4 DEF IInv, LockInv, Holding
<1> QED
  BY <1>1, Inductive, PTL

\* A process finds IF as it left it, on whichever CPU it is resumed.
THEOREM InterruptFlagKept == Spec => []InterruptFlagFollowsProcess
<1>1. IInv => InterruptFlagFollowsProcess
  <2> SUFFICES ASSUME IInv, NEW c \in CPUs
               PROVE  /\ At(c, "iret") => ~ifl[c]
                      /\ At(c, "run") => ifl[c]
                      /\ OnIdle(c, "halt") => ifl[c]
    BY DEF InterruptFlagFollowsProcess
  <2>1. stk[c] # Idle => stk[c] \in Procs
    BY DEF IInv, TypeOK, CpuType
  <2>2. At(c, "iret") => ipc[stk[c]] # None
    BY <2>1 DEF IInv, CodeInv, At
  <2>3. At(c, "run") => ipc[stk[c]] = None
    BY <2>1 DEF IInv, CodeInv, At
  <2> QED
    BY <2>2, <2>3 DEF IInv, FlagInv, At, FreePcs
<1> QED
  BY <1>1, Inductive, PTL

-----------------------------------------------------------------------------
(* Who owns page tables, slots and children.                                *)

\* A process that executes on CPU c: nobody else has it, it is RUNNING, and the slot it
\* builds or frees is not in use anywhere.
LEMMA ProcFacts ==
  ASSUME NEW c \in CPUs, IInv, OwnInv, stk[c] # Idle
  PROVE  /\ stk[c] \in Procs /\ cur[c] = stk[c]
         /\ \A d \in CPUs : d # c => cur[d] # stk[c]
         /\ pc[stk[c]] # "sched" => state[stk[c]] = "RUNNING"
         /\ child[stk[c]] # None =>
               /\ child[stk[c]] \in Procs /\ child[stk[c]] # stk[c]
               /\ state[child[stk[c]]] \in {"EMBRYO", "DEAD"}
               /\ \A d \in CPUs : cur[d] # child[stk[c]] /\ stk[d] # child[stk[c]]
<1>1. stk[c] \in Procs /\ cur[c] = stk[c]
  BY DEF IInv, TypeOK, CpuType, CpuInv
<1>2. /\ \A d \in CPUs : d # c => cur[d] # stk[c]
      /\ pc[stk[c]] # "sched" => state[stk[c]] = "RUNNING"
  BY <1>1 DEF IInv, CpuInv
<1>3. ASSUME NEW d \in CPUs, cur[d] # Idle
      PROVE  state[cur[d]] \in Between \cup {"RUNNING"}
  <2>1. CASE stk[d] # Idle
    <3>1. cur[d] = stk[d] /\ stk[d] \in Procs
      BY <1>3, <2>1 DEF IInv, CpuInv, TypeOK, CpuType
    <3> QED
      BY <2>1, <3>1 DEF IInv, CpuInv, CodeInv
  <2>2. CASE stk[d] = Idle
    BY <1>3, <2>2 DEF IInv, CpuInv, OwnInv, LoadedInv
  <2> QED
    BY <2>1, <2>2
<1>4. child[stk[c]] # None =>
        child[stk[c]] \in Procs /\ state[child[stk[c]]] \in {"EMBRYO", "DEAD"}
  BY <1>1 DEF IInv, ChildInv, TypeOK, CodeType
<1>5. child[stk[c]] # None => \A d \in CPUs : cur[d] # child[stk[c]] /\ stk[d] # child[stk[c]]
  <2> SUFFICES ASSUME child[stk[c]] # None, NEW d \in CPUs
               PROVE  cur[d] # child[stk[c]] /\ stk[d] # child[stk[c]]
    OBVIOUS
  <2>1. cur[d] # child[stk[c]]
    BY <1>3, <1>4 DEF Between
  <2>2. stk[d] # Idle => cur[d] = stk[d]
    BY DEF IInv, CpuInv
  <2> QED
    BY <1>4, <2>1, <2>2
<1> QED
  BY <1>1, <1>2, <1>4, <1>5

\* Where the code of the process that executes on c goes on: no interrupt is under way.
LEMMA OwnCode ==
  ASSUME NEW c \in CPUs, IInv, stk[c] \in Procs, NEW l,
         pc[stk[c]] \notin {"yield", "sched", "y_back", "iret"},
         pc' = [pc EXCEPT ![stk[c]] = l], ipc' = ipc
  PROVE  /\ ipc[stk[c]] = None /\ Code(stk[c]) = pc[stk[c]]
         /\ \A q \in Procs : Code(q)' = IF q = stk[c] THEN pc'[stk[c]] ELSE Code(q)
<1>1. ipc[stk[c]] = None
  BY DEF IInv, CodeInv
<1> QED
  BY <1>1 DEF Code, IInv, TypeOK, CodeType

\* A timer interrupt changes no more than this: sleepers become READY, a halted CPU
\* leaves its hlt, a process whose time is up is about to yield.
LEMMA TickFacts ==
  ASSUME NEW c \in CPUs, IInv, TimerInterrupt(c)
  PROVE  /\ \A q \in Procs : state'[q] = state[q] \/ (state[q] = "BLOCKED" /\ state'[q] = "READY")
         /\ \A q \in Procs : Code(q)' = Code(q)
         /\ \A q \in Procs : pc'[q] = pc[q] \/ state[q] = "RUNNING"
         /\ \A d \in CPUs : spc'[d] = spc[d] \/ (spc[d] = "halt" /\ spc'[d] = "top")
         /\ UNCHANGED <<cur, stk, cr3, reapi, parent, wait_channel, pml4, live, ret, arg,
                        child, old>>
<1>1. /\ UNCHANGED <<cur, stk, cr3, reapi, parent, wait_channel, pml4, live, ret, arg, child, old>>
      /\ TickWork(c)
  BY DEF TimerInterrupt, TickIdle, TickProc, TickYield, cpuVars, codeVars
<1>2. \A q \in Procs : state'[q] = state[q] \/ (state[q] = "BLOCKED" /\ state'[q] = "READY")
  BY <1>1 DEF TickWork, Due, IInv, TypeOK, ProcType
<1>3. \A d \in CPUs : spc'[d] = spc[d] \/ (spc[d] = "halt" /\ spc'[d] = "top")
  <2>1. CASE TickIdle(c)
    BY <2>1 DEF TickIdle, IInv, TypeOK, CpuType
  <2>2. CASE UNCHANGED spc
    BY <2>2
  <2> QED
    BY <2>1, <2>2 DEF TimerInterrupt, TickProc, TickYield, cpuVars
<1>4. CASE UNCHANGED <<pc, ipc>>
  BY <1>1, <1>2, <1>3, <1>4 DEF Code
<1>5. CASE TickYield(c)
  <2>1. stk[c] \in Procs
    BY <1>5 DEF TickYield, IInv, TypeOK, CpuType
  <2>2. pc[stk[c]] \in FreePcs
    BY <1>5, <2>1 DEF TickYield, IInv, LockInv, Holding, TypeOK, CodeType, Pcs
  <2>3. ipc[stk[c]] = None /\ state[stk[c]] = "RUNNING"
    BY <1>5, <2>1, <2>2 DEF TickYield, IInv, FlagInv, CpuInv, FreePcs
  <2>4. pc' = [pc EXCEPT ![stk[c]] = "yield"] /\ ipc' = [ipc EXCEPT ![stk[c]] = pc[stk[c]]]
    BY <1>5 DEF TickYield
  <2>5. \A q \in Procs : Code(q)' = Code(q)
    BY <2>1, <2>2, <2>3, <2>4 DEF Code, IInv, TypeOK, CodeType, Pcs
  <2>6. \A q \in Procs : pc'[q] = pc[q] \/ state[q] = "RUNNING"
    BY <2>1, <2>3, <2>4 DEF IInv, TypeOK, CodeType
  <2> QED
    BY <1>1, <1>2, <1>3, <2>5, <2>6
<1> QED
  BY <1>4, <1>5 DEF TimerInterrupt, TickIdle, TickProc, codeVars

\* Slots that are free, or that have given up their page tables, have none.
LEMMA BareStep ==
  ASSUME NEW c \in CPUs, IInv, OwnInv,
         SchedulerStep(c) \/ ProcessStep(c) \/ Call(c) \/ TimerInterrupt(c)
  PROVE  BareInv'
<1>1. CASE SchedulerTop(c)
  BY <1>1 DEF SchedulerTop, BareInv, Code, OwnInv, procVars, codeVars
<1>2. CASE SchedulerPick(c)
  BY <1>2 DEF SchedulerPick, BareInv, Code, OwnInv, codeVars
<1>3. CASE SchedulerNone(c)
  BY <1>3 DEF SchedulerNone, BareInv, Code, OwnInv, procVars, codeVars
<1>4. CASE SwitchIn(c)
  BY <1>4 DEF SwitchIn, BareInv, Code, OwnInv, procVars
<1>5. CASE SwitchBack(c)
  BY <1>5 DEF SwitchBack, BareInv, Code, OwnInv, procVars, codeVars
<1>6. CASE ReapTake(c)
  BY <1>6 DEF ReapTake, BareInv, Code, OwnInv, codeVars
<1>7. CASE ReapSkip(c)
  BY <1>7 DEF ReapSkip, BareInv, Code, OwnInv, procVars, codeVars
<1>8. CASE ReapFree(c)
  BY <1>8 DEF ReapFree, BareInv, Code, OwnInv, codeVars
<1>9. CASE ReapUnused(c)
  BY <1>9 DEF ReapUnused, OnIdle, BareInv, Code, CpuInv, IInv, OwnInv, codeVars
<1>10. CASE ReapDone(c)
  BY <1>10 DEF ReapDone, BareInv, Code, OwnInv, procVars, codeVars
<1>11. CASE SwitchOut(c)
  <2>1. stk[c] \in Procs /\ pc[stk[c]] = "sched" /\ ret[stk[c]] \in AfterSched
    BY <1>11, ProcFacts DEF SwitchOut, At, IInv, CodeInv
  <2>2. pc' = [pc EXCEPT ![stk[c]] = ret[stk[c]]] /\ UNCHANGED <<ipc, child, state, pml4>>
    BY <1>11 DEF SwitchOut, Goto, procVars
  <2>3. \A q \in Procs : Code(q)' \in AfterSched \cup {Code(q)}
    BY <2>1, <2>2 DEF Code, IInv, TypeOK, CodeType
  <2> QED
    BY <2>2, <2>3 DEF AfterSched, Bare, OwnInv, BareInv
<1>12. CASE FirstRun(c)
  BY <1>12 DEF FirstRun, Goto, BareInv, Code, Bare, OwnInv, procVars
<1>13. CASE YieldLock(c)
  BY <1>13 DEF YieldLock, YieldBody, SchedThen, BareInv, Code, Bare, OwnInv
<1>14. CASE YieldBack(c)
  BY <1>14 DEF YieldBack, Goto, BareInv, Code, Bare, OwnInv, procVars
<1>15. CASE Iret(c)
  BY <1>15 DEF Iret, At, Goto, BareInv, Code, CodeInv, Bare, IInv, OwnInv,
     procVars
<1>16. CASE SleepMore(c)
  BY <1>16 DEF SleepMore, SleepOn, SchedThen, BareInv, Code, Bare, OwnInv
<1>17. CASE SleepBack(c)
  BY <1>17 DEF SleepBack, Goto, BareInv, Code, Bare, OwnInv
<1>18. CASE SleepDone(c)
  BY <1>18 DEF SleepDone, Goto, BareInv, Code, Bare, OwnInv, procVars
<1>19. CASE SpawnAlloc(c)
  BY <1>19 DEF SpawnAlloc, TakeSlot, Goto, IsFirstUnused, BareInv, Code, IInv,
     OwnInv, TypeOK, CodeType
<1>20. CASE SpawnFull(c)
  BY <1>20 DEF SpawnFull, Goto, BareInv, Code, Bare, OwnInv
<1>21. CASE AllocStack(c)
  <2> DEFINE p == stk[c]
             i == child[p]
             l == IF pc[p] = "f_stack" THEN "f_mm" ELSE "c_ready"
  <2>1. p \in Procs /\ pc[p] \in {"k_stack", "f_stack", "sp_stack"} /\ ipc[p] = None
    BY <1>21, ProcFacts DEF AllocStack, At, IInv, CodeInv
  <2>2. child[p] # None /\ Code(p) = pc[p] /\ i \in Procs /\ i # p /\ state[i] = "EMBRYO"
    BY <1>21, <2>1, ProcFacts DEF AllocStack, At, IInv, ChildInv, Code, Building
  <2>3. /\ pml4' = [pml4 EXCEPT ![i] = IF pc[p] = "sp_stack" THEN old[p] ELSE Kernel]
        /\ pc' = [pc EXCEPT ![i] = "new", ![p] = l]
        /\ ipc' = [ipc EXCEPT ![i] = None] /\ UNCHANGED <<state, child>>
    BY <1>21 DEF AllocStack
  <2> HIDE DEF l, i, p
  <2>4. \A q \in Procs : Code(q)' = IF q = p THEN l ELSE IF q = i THEN "new" ELSE Code(q)
    BY <2>1, <2>2, <2>3 DEF Code, IInv, TypeOK, CodeType
  <2>5. \A q \in Procs : q # i => pml4'[q] = pml4[q]
    BY <2>2, <2>3 DEF IInv, TypeOK, ProcType
  <2>6. ASSUME NEW q \in Procs
        PROVE  /\ state[q] \in {"UNUSED", "ZOMBIE", "DEAD"} => pml4'[q] = Kernel
               /\ Code(q)' \in {"x_cr3", "x_free", "x_last"} => pml4'[q] = Kernel
               /\ Code(q)' \in Bare => pml4'[child[q]] = Kernel
    <3>1. CASE q = p
      BY <2>1, <2>2, <2>3, <2>4, <2>5, <3>1 DEF l, i, Bare, OwnInv, BareInv, IInv, TypeOK, ProcType
    <3>2. CASE q # p
      <4>1. Code(q)' \in Bare => child[q] \in Procs /\ child[q] # i
        BY <2>1, <2>2, <2>4, <3>2 DEF i, Bare, IInv, ChildInv, Building, Freeing, TypeOK, CodeType
      <4> QED
        BY <2>2, <2>4, <2>5, <3>2, <4>1 DEF Bare, OwnInv, BareInv
    <3> QED
      BY <3>1, <3>2
  <2> QED
    BY <2>3, <2>6 DEF BareInv
<1>22. CASE AllocStackFails(c)
  <2>1. /\ stk[c] \in Procs /\ ipc[stk[c]] = None /\ Code(stk[c]) = pc[stk[c]]
        /\ \A q \in Procs : Code(q)' = IF q = stk[c] THEN pc'[stk[c]] ELSE Code(q)
    BY <1>22, ProcFacts, OwnCode DEF AllocStackFails, At, Goto
  <2>2. /\ pc'[stk[c]] = "run" /\ child' = [child EXCEPT ![stk[c]] = None] /\ UNCHANGED pml4
        /\ state' = [state EXCEPT ![child[stk[c]]] = "UNUSED"]
    BY <1>22, <2>1 DEF AllocStackFails, Goto, IInv, TypeOK, CodeType
  <2>3. pml4[child[stk[c]]] = Kernel
    BY <1>22, <2>1 DEF AllocStackFails, At, Bare, OwnInv, BareInv
  <2> QED
    BY <2>1, <2>2, <2>3 DEF Bare, OwnInv, BareInv, IInv, TypeOK, CodeType, ProcType
<1>23. CASE ForkCopy(c)
  <2>1. /\ stk[c] \in Procs /\ ipc[stk[c]] = None /\ Code(stk[c]) = pc[stk[c]]
        /\ \A q \in Procs : Code(q)' = IF q = stk[c] THEN pc'[stk[c]] ELSE Code(q)
    BY <1>23, ProcFacts, OwnCode DEF ForkCopy, At, Goto
  <2>2. child[stk[c]] # None /\ state[child[stk[c]]] = "EMBRYO"
    BY <1>23, <2>1 DEF ForkCopy, At, IInv, ChildInv, Building
  <2>3. \A q \in Procs : q # child[stk[c]] => pml4'[q] = pml4[q]
    BY <1>23 DEF ForkCopy, IInv, TypeOK, ProcType
  <2>4. pc'[stk[c]] = "c_ready" /\ UNCHANGED <<state, child>>
    BY <1>23, <2>1 DEF ForkCopy, Goto, IInv, TypeOK, CodeType
  <2>5. Code(child[stk[c]]) = "new"
    BY <1>23, <2>1, <2>2, ProcFacts DEF ForkCopy, At, IInv, ChildInv, CodeInv, Code
  <2>6. \A q \in Procs : q # stk[c] /\ child[q] # None => child[q] # child[stk[c]]
    BY <2>1, <2>2 DEF IInv, ChildInv
  <2>7. \A q \in Procs : Code(q) \in Bare => child[q] \in Procs /\ child[q] # None
    BY DEF Bare, IInv, ChildInv, Building, Freeing, TypeOK, CodeType
  <2> QED
    BY <2>1, <2>2, <2>3, <2>4, <2>5, <2>6, <2>7 DEF Bare, OwnInv, BareInv
<1>24. CASE ForkFails(c)
  BY <1>24 DEF ForkFails, At, Goto, BareInv, Code, Bare, OwnInv, procVars
<1>25. CASE MakeReady(c)
  <2>1. /\ stk[c] \in Procs /\ ipc[stk[c]] = None /\ Code(stk[c]) = pc[stk[c]]
        /\ \A q \in Procs : Code(q)' = IF q = stk[c] THEN pc'[stk[c]] ELSE Code(q)
    BY <1>25, ProcFacts, OwnCode DEF MakeReady, At, Goto
  <2>2. /\ pc'[stk[c]] = "run" /\ child' = [child EXCEPT ![stk[c]] = None] /\ UNCHANGED pml4
        /\ state' = [state EXCEPT ![child[stk[c]]] = "READY"]
    BY <1>25, <2>1 DEF MakeReady, Goto, IInv, TypeOK, CodeType
  <2> QED
    BY <2>1, <2>2 DEF Bare, OwnInv, BareInv, IInv, TypeOK, CodeType, ProcType
<1>26. CASE WaitFound(c)
  BY <1>26 DEF WaitFound, Goto, IsFirst, Zombies, BareInv, Code, IInv, OwnInv,
     TypeOK, CodeType
<1>27. CASE WaitNoChild(c)
  BY <1>27 DEF WaitNoChild, Goto, BareInv, Code, Bare, OwnInv, procVars
<1>28. CASE WaitSleep(c)
  BY <1>28 DEF WaitSleep, SleepOn, SchedThen, BareInv, Code, Bare, OwnInv
<1>29. CASE WaitBack(c)
  BY <1>29 DEF WaitBack, Goto, BareInv, Code, Bare, OwnInv
<1>30. CASE FreeStack(c)
  BY <1>30 DEF FreeStack, At, Goto, BareInv, Code, Bare, OwnInv
<1>31. CASE FreeSlot(c)
  <2>1. /\ stk[c] \in Procs /\ ipc[stk[c]] = None /\ Code(stk[c]) = pc[stk[c]]
        /\ \A q \in Procs : Code(q)' = IF q = stk[c] THEN pc'[stk[c]] ELSE Code(q)
    BY <1>31, ProcFacts, OwnCode DEF FreeSlot, At, Goto
  <2>2. /\ pc'[stk[c]] = "run" /\ child' = [child EXCEPT ![stk[c]] = None] /\ UNCHANGED pml4
        /\ state' = [state EXCEPT ![child[stk[c]]] = "UNUSED"]
    BY <1>31, <2>1 DEF FreeSlot, Goto, IInv, TypeOK, CodeType
  <2>3. pml4[child[stk[c]]] = Kernel
    BY <1>31, <2>1 DEF FreeSlot, At, Bare, OwnInv, BareInv
  <2> QED
    BY <2>1, <2>2, <2>3 DEF Bare, OwnInv, BareInv, IInv, TypeOK, CodeType, ProcType
<1>32. CASE ExitDetach(c)
  BY <1>32 DEF ExitDetach, Goto, BareInv, Code, Bare, IInv, OwnInv, TypeOK,
     ProcType
<1>33. CASE ExecSwap(c)
  <2>1. /\ stk[c] \in Procs /\ ipc[stk[c]] = None /\ Code(stk[c]) = pc[stk[c]]
        /\ \A q \in Procs : Code(q)' = IF q = stk[c] THEN pc'[stk[c]] ELSE Code(q)
    BY <1>33, ProcFacts, OwnCode DEF ExecSwap, At, Goto
  <2>2. /\ pc'[stk[c]] = "e_cr3" /\ UNCHANGED <<child, state>>
        /\ \A q \in Procs : q # stk[c] => pml4'[q] = pml4[q]
    BY <1>33, <2>1 DEF ExecSwap, Goto, IInv, TypeOK, CodeType, ProcType
  <2>3. state[stk[c]] = "RUNNING"
    BY <1>33, ProcFacts DEF ExecSwap, At
  <2>4. \A q \in Procs : Code(q) \in Bare => child[q] \in Procs /\ child[q] # stk[c]
    BY <2>1, <2>3 DEF Bare, IInv, ChildInv, Building, Freeing, TypeOK, CodeType
  <2> QED
    BY <2>1, <2>2, <2>3, <2>4 DEF Bare, OwnInv, BareInv
<1>34. CASE LoadCr3(c)
  BY <1>34 DEF LoadCr3, Goto, BareInv, Code, Bare, OwnInv, procVars
<1>35. CASE DestroyOld(c)
  BY <1>35 DEF DestroyOld, Goto, BareInv, Code, Bare, OwnInv
<1>36. CASE ExitZombie(c)
  <2>1. /\ stk[c] \in Procs /\ ipc[stk[c]] = None /\ Code(stk[c]) = pc[stk[c]]
        /\ \A q \in Procs : Code(q)' = IF q = stk[c] THEN pc'[stk[c]] ELSE Code(q)
    BY <1>36, ProcFacts, OwnCode DEF ExitZombie, At, Goto, ExitBody, SchedThen
  <2>2. /\ pc'[stk[c]] = "sched" /\ UNCHANGED <<child, pml4>> /\ pml4[stk[c]] = Kernel
        /\ \A q \in Procs : q # stk[c] => state'[q] \in {state[q], "READY"}
    BY <1>36, <2>1 DEF ExitZombie, ExitBody, At, SchedThen, IInv, TypeOK, CodeType, ProcType,
       OwnInv, BareInv
  <2> QED
    BY <2>1, <2>2 DEF Bare, OwnInv, BareInv
<1>37. CASE Yield(c)
  BY <1>37 DEF Yield, Goto, BareInv, Code, Bare, OwnInv, procVars
<1>38. CASE SleepMs(c)
  BY <1>38 DEF SleepMs, Goto, BareInv, Code, Bare, OwnInv
<1>39. CASE KthreadAlloc(c)
  BY <1>39 DEF KthreadAlloc, TakeSlot, Goto, IsFirstUnused, BareInv, Code, IInv,
     OwnInv, TypeOK, CodeType
<1>40. CASE ForkAlloc(c)
  BY <1>40 DEF ForkAlloc, TakeSlot, Goto, IsFirstUnused, BareInv, Code, IInv,
     OwnInv, TypeOK, CodeType
<1>41. CASE SpawnLoad(c)
  BY <1>41 DEF SpawnLoad, Goto, BareInv, Code, Bare, OwnInv
<1>42. CASE WaitLock(c)
  BY <1>42 DEF WaitLock, Goto, BareInv, Code, Bare, OwnInv, procVars
<1>43. CASE WaitNohang(c)
  BY <1>43 DEF WaitNohang, Goto, IsFirst, Zombies, BareInv, Code, IInv, OwnInv,
     TypeOK, CodeType
<1>44. CASE Exit(c)
  BY <1>44 DEF Exit, Goto, BareInv, Code, Bare, OwnInv, procVars
<1>45. CASE ExecLoad(c)
  BY <1>45 DEF ExecLoad, Goto, BareInv, Code, Bare, OwnInv
<1>46. CASE TimerInterrupt(c)
  BY <1>46, TickFacts DEF OwnInv, BareInv
<1> QED
  BY <1>1, <1>2, <1>3, <1>4, <1>5, <1>6, <1>7, <1>8, <1>9, <1>10, <1>11, <1>12, <1>13,
     <1>14, <1>15, <1>16, <1>17, <1>18, <1>19, <1>20, <1>21, <1>22, <1>23, <1>24, <1>25, <1>26,
     <1>27, <1>28, <1>29, <1>30, <1>31, <1>32, <1>33, <1>34, <1>35, <1>36, <1>37, <1>38, <1>39,
     <1>40, <1>41, <1>42, <1>43, <1>44, <1>45, <1>46 DEF SchedulerStep, ProcessStep, Call

\* A CPU has the page tables of its process loaded, or those it is about to leave.
LEMMA LoadedStep ==
  ASSUME NEW c \in CPUs, IInv, OwnInv,
         SchedulerStep(c) \/ ProcessStep(c) \/ Call(c) \/ TimerInterrupt(c)
  PROVE  LoadedInv'
<1>1. CASE SchedulerTop(c)
  BY <1>1 DEF SchedulerTop, LoadedInv, Code, OwnInv, procVars, codeVars
<1>2. CASE SchedulerPick(c)
  BY <1>2 DEF SchedulerPick, SpinLock, LoadedInv, Code, LockInv, Holding, IInv,
     OwnInv, TypeOK, CpuType, codeVars
<1>3. CASE SchedulerNone(c)
  BY <1>3 DEF SchedulerNone, LoadedInv, Code, OwnInv, procVars, codeVars
<1>4. CASE SwitchIn(c)
  BY <1>4 DEF SwitchIn, OnIdle, LoadedInv, Code, CpuInv, IInv, OwnInv, TypeOK,
     CpuType, procVars
<1>5. CASE SwitchBack(c)
  BY <1>5 DEF SwitchBack, LoadedInv, Code, IInv, OwnInv, TypeOK, CpuType,
     procVars, codeVars
<1>6. CASE ReapTake(c)
  BY <1>6 DEF ReapTake, CriticalSection, LoadedInv, Code, LockInv, Holding, IInv,
     OwnInv, codeVars
<1>7. CASE ReapSkip(c)
  BY <1>7 DEF ReapSkip, LoadedInv, Code, OwnInv, procVars, codeVars
<1>8. CASE ReapFree(c)
  BY <1>8 DEF ReapFree, LoadedInv, Code, OwnInv, codeVars
<1>9. CASE ReapUnused(c)
  BY <1>9 DEF ReapUnused, OnIdle, LoadedInv, Code, CpuInv, Between, IInv, OwnInv,
     codeVars
<1>10. CASE ReapDone(c)
  BY <1>10 DEF ReapDone, LoadedInv, Code, OwnInv, procVars, codeVars
<1>11. CASE SwitchOut(c)
  BY <1>11 DEF SwitchOut, At, Goto, LoadedInv, Code, CodeInv, CpuInv, IInv,
     OwnInv, TypeOK, CpuType, procVars
<1>12. CASE FirstRun(c)
  BY <1>12 DEF FirstRun, At, Goto, LoadedInv, Code, OwnInv, cpuVars, procVars
<1>13. CASE YieldLock(c)
  BY <1>13 DEF YieldLock, YieldBody, At, SchedThen, LoadedInv, Code, Between,
     OwnInv, cpuVars
<1>14. CASE YieldBack(c)
  BY <1>14 DEF YieldBack, At, Goto, LoadedInv, Code, OwnInv, cpuVars, procVars
<1>15. CASE Iret(c)
  BY <1>15 DEF Iret, At, Goto, LoadedInv, Code, IInv, OwnInv, TypeOK, CodeType,
     cpuVars, procVars
<1>16. CASE SleepMore(c)
  BY <1>16 DEF SleepMore, At, SleepOn, SchedThen, LoadedInv, Code, Between,
     OwnInv, cpuVars
<1>17. CASE SleepBack(c)
  BY <1>17 DEF SleepBack, At, Goto, LoadedInv, Code, OwnInv, cpuVars
<1>18. CASE SleepDone(c)
  BY <1>18 DEF SleepDone, At, Goto, LoadedInv, Code, OwnInv, cpuVars, procVars
<1>19. CASE SpawnAlloc(c)
  BY <1>19 DEF SpawnAlloc, At, TakeSlot, Goto, IsFirstUnused, LoadedInv, Code,
     Between, OwnInv, cpuVars
<1>20. CASE SpawnFull(c)
  BY <1>20 DEF SpawnFull, At, Goto, LoadedInv, Code, CodeInv, IInv, OwnInv,
     TypeOK, CpuType, cpuVars
<1>21. CASE AllocStack(c)
  <2>1. /\ stk[c] \in Procs /\ pc[stk[c]] \in {"k_stack", "f_stack", "sp_stack"}
        /\ ipc[stk[c]] = None /\ Code(stk[c]) = pc[stk[c]]
    BY <1>21, ProcFacts DEF AllocStack, At, IInv, CodeInv, Code
  <2>2. /\ child[stk[c]] \in Procs /\ child[stk[c]] # stk[c]
        /\ \A d \in CPUs : cur[d] # child[stk[c]]
    BY <1>21, <2>1, ProcFacts DEF AllocStack, At, IInv, ChildInv, Building
  <2>3. \A q \in Procs : q # child[stk[c]] =>
           /\ pml4'[q] = pml4[q]
           /\ q # stk[c] => Code(q)' = Code(q) /\ old'[q] = old[q]
    BY <1>21, <2>1, <2>2 DEF AllocStack, Code, IInv, TypeOK, ProcType, CodeType
  <2>4. UNCHANGED <<cur, stk, cr3, spc, state>>
    BY <1>21 DEF AllocStack, cpuVars
  <2>5. \A d \in CPUs : cur[d] # Idle => cur[d] \in Procs
    BY DEF IInv, TypeOK, CpuType
  <2> QED
    BY <2>1, <2>2, <2>3, <2>4, <2>5 DEF OwnInv, LoadedInv
<1>22. CASE AllocStackFails(c)
  <2>1. /\ stk[c] \in Procs /\ ipc[stk[c]] = None /\ Code(stk[c]) = pc[stk[c]]
        /\ \A q \in Procs : Code(q)' = IF q = stk[c] THEN pc'[stk[c]] ELSE Code(q)
    BY <1>22, ProcFacts, OwnCode DEF AllocStackFails, At, Goto
  <2>2. child[stk[c]] \in Procs /\ \A d \in CPUs : cur[d] # child[stk[c]]
    BY <1>22, <2>1, ProcFacts DEF AllocStackFails, At, IInv, ChildInv, Building
  <2>3. \A q \in Procs :
           (q # child[stk[c]] => state'[q] = state[q]) /\ (q # stk[c] => old'[q] = old[q])
    BY <1>22, <2>1, <2>2 DEF AllocStackFails, IInv, TypeOK, ProcType, CodeType
  <2>4. UNCHANGED <<cur, stk, cr3, spc, pml4>> /\ Code(stk[c]) \notin {"x_cr3", "e_cr3"}
    BY <1>22, <2>1 DEF AllocStackFails, At, cpuVars
  <2>5. \A d \in CPUs : cur[d] # Idle => cur[d] \in Procs
    BY DEF IInv, TypeOK, CpuType
  <2>6. \A d \in CPUs : cur[d] # Idle => state'[cur[d]] = state[cur[d]]
    BY <2>2, <2>3, <2>5
  <2>7. \A d \in CPUs : stk[d] = Idle /\ spc[d] = "back" => cur[d] # Idle
    BY DEF IInv, CpuInv
  <2> QED
    BY <2>1, <2>3, <2>4, <2>5, <2>6, <2>7 DEF OwnInv, LoadedInv
<1>23. CASE ForkCopy(c)
  BY <1>23 DEF ForkCopy, At, Goto, LoadedInv, ChildInv, Code, CodeInv, CpuInv,
     Between, IInv, OwnInv, TypeOK, CpuType, cpuVars
<1>24. CASE ForkFails(c)
  BY <1>24 DEF ForkFails, At, Goto, LoadedInv, Code, OwnInv, cpuVars, procVars
<1>25. CASE MakeReady(c)
  BY <1>25 DEF MakeReady, At, Goto, LoadedInv, Code, Between, OwnInv, cpuVars
<1>26. CASE WaitFound(c)
  BY <1>26 DEF WaitFound, At, Goto, LoadedInv, Code, LockInv, Holding, LockedPcs,
     IInv, OwnInv, cpuVars
<1>27. CASE WaitNoChild(c)
  BY <1>27 DEF WaitNoChild, At, Goto, LoadedInv, Code, OwnInv, cpuVars, procVars
<1>28. CASE WaitSleep(c)
  BY <1>28 DEF WaitSleep, At, SleepOn, SchedThen, LoadedInv, Code, Between,
     OwnInv, cpuVars
<1>29. CASE WaitBack(c)
  BY <1>29 DEF WaitBack, At, Goto, LoadedInv, Code, OwnInv, cpuVars
<1>30. CASE FreeStack(c)
  BY <1>30 DEF FreeStack, At, Goto, LoadedInv, Code, OwnInv, cpuVars
<1>31. CASE FreeSlot(c)
  BY <1>31 DEF FreeSlot, At, Goto, CriticalSection, LoadedInv, Code, LockInv,
     Holding, IInv, OwnInv, cpuVars
<1>32. CASE ExitDetach(c)
  BY <1>32 DEF ExitDetach, At, Goto, LoadedInv, Code, CodeInv, IInv, OwnInv,
     TypeOK, CpuType, CodeType, cpuVars
<1>33. CASE ExecSwap(c)
  BY <1>33 DEF ExecSwap, At, Goto, LoadedInv, Code, CodeInv, IInv, OwnInv, TypeOK,
     CpuType, CodeType, cpuVars
<1>34. CASE LoadCr3(c)
  BY <1>34 DEF LoadCr3, At, Goto, LoadedInv, Code, CpuInv, IInv, OwnInv, TypeOK,
     CpuType, procVars
<1>35. CASE DestroyOld(c)
  BY <1>35 DEF DestroyOld, At, Goto, LoadedInv, Code, CodeInv, IInv, OwnInv,
     TypeOK, CpuType, cpuVars
<1>36. CASE ExitZombie(c)
  BY <1>36 DEF ExitZombie, ExitBody, At, SchedThen, SpinLock, LoadedInv, Code,
     LockInv, Holding, IInv, OwnInv, cpuVars
<1>37. CASE Yield(c)
  BY <1>37 DEF Yield, At, Goto, LoadedInv, Code, OwnInv, cpuVars, procVars
<1>38. CASE SleepMs(c)
  BY <1>38 DEF SleepMs, At, Goto, LoadedInv, Code, OwnInv, cpuVars
<1>39. CASE KthreadAlloc(c)
  BY <1>39 DEF KthreadAlloc, At, TakeSlot, Goto, IsFirstUnused, LoadedInv, Code,
     Between, OwnInv, cpuVars
<1>40. CASE ForkAlloc(c)
  BY <1>40 DEF ForkAlloc, At, TakeSlot, Goto, IsFirstUnused, LoadedInv, Code,
     Between, OwnInv, cpuVars
<1>41. CASE SpawnLoad(c)
  BY <1>41 DEF SpawnLoad, At, Goto, LoadedInv, Code, CodeInv, IInv, OwnInv,
     TypeOK, CodeType, cpuVars
<1>42. CASE WaitLock(c)
  BY <1>42 DEF WaitLock, At, Goto, LoadedInv, Code, OwnInv, cpuVars, procVars
<1>43. CASE WaitNohang(c)
  BY <1>43 DEF WaitNohang, At, Goto, CriticalSection, LoadedInv, Code, LockInv,
     Holding, IInv, OwnInv, cpuVars
<1>44. CASE Exit(c)
  BY <1>44 DEF Exit, At, Goto, LoadedInv, Code, OwnInv, cpuVars, procVars
<1>45. CASE ExecLoad(c)
  BY <1>45 DEF ExecLoad, At, Goto, LoadedInv, Code, CodeInv, IInv, OwnInv, TypeOK,
     CpuType, cpuVars
<1>46. CASE TimerInterrupt(c)
  <2>1. \A d \in CPUs : stk[d] = Idle /\ spc'[d] = "back" => spc[d] = "back" /\ lock = d
    BY <1>46, TickFacts DEF IInv, LockInv, Holding, TypeOK, CpuType
  <2>2. \A d \in CPUs : cur[d] # Idle => cur[d] \in Procs
    BY DEF IInv, TypeOK, CpuType
  <2> QED
    BY <1>46, <2>1, <2>2, TickFacts DEF OwnInv, LoadedInv, IInv, CpuInv, Between
<1> QED
  BY <1>1, <1>2, <1>3, <1>4, <1>5, <1>6, <1>7, <1>8, <1>9, <1>10, <1>11, <1>12, <1>13,
     <1>14, <1>15, <1>16, <1>17, <1>18, <1>19, <1>20, <1>21, <1>22, <1>23, <1>24, <1>25, <1>26,
     <1>27, <1>28, <1>29, <1>30, <1>31, <1>32, <1>33, <1>34, <1>35, <1>36, <1>37, <1>38, <1>39,
     <1>40, <1>41, <1>42, <1>43, <1>44, <1>45, <1>46 DEF SchedulerStep, ProcessStep, Call

\* Whoever is BLOCKED went to sleep in proc_sleep_ms or in proc_wait.
LEMMA AsleepStep ==
  ASSUME NEW c \in CPUs, IInv, OwnInv,
         SchedulerStep(c) \/ ProcessStep(c) \/ Call(c) \/ TimerInterrupt(c)
  PROVE  AsleepInv'
<1>1. CASE SchedulerTop(c)
  BY <1>1 DEF SchedulerTop, AsleepInv, OwnInv, procVars, codeVars
<1>2. CASE SchedulerPick(c)
  BY <1>2 DEF SchedulerPick, AsleepInv, OwnInv, codeVars
<1>3. CASE SchedulerNone(c)
  BY <1>3 DEF SchedulerNone, AsleepInv, OwnInv, procVars, codeVars
<1>4. CASE SwitchIn(c)
  BY <1>4 DEF SwitchIn, AsleepInv, OwnInv, procVars
<1>5. CASE SwitchBack(c)
  BY <1>5 DEF SwitchBack, AsleepInv, OwnInv, procVars, codeVars
<1>6. CASE ReapTake(c)
  BY <1>6 DEF ReapTake, AsleepInv, OwnInv, codeVars
<1>7. CASE ReapSkip(c)
  BY <1>7 DEF ReapSkip, AsleepInv, OwnInv, procVars, codeVars
<1>8. CASE ReapFree(c)
  BY <1>8 DEF ReapFree, AsleepInv, OwnInv, codeVars
<1>9. CASE ReapUnused(c)
  BY <1>9 DEF ReapUnused, AsleepInv, OwnInv, codeVars
<1>10. CASE ReapDone(c)
  BY <1>10 DEF ReapDone, AsleepInv, OwnInv, procVars, codeVars
<1>11. CASE SwitchOut(c)
  BY <1>11 DEF SwitchOut, At, Goto, AsleepInv, IInv, OwnInv, TypeOK, CodeType,
     procVars
<1>12. CASE FirstRun(c)
  BY <1>12 DEF FirstRun, At, Goto, AsleepInv, OwnInv, procVars
<1>13. CASE YieldLock(c)
  BY <1>13 DEF YieldLock, YieldBody, At, SchedThen, AsleepInv, OwnInv
<1>14. CASE YieldBack(c)
  BY <1>14 DEF YieldBack, At, Goto, AsleepInv, OwnInv, procVars
<1>15. CASE Iret(c)
  BY <1>15 DEF Iret, At, Goto, AsleepInv, OwnInv, procVars
<1>16. CASE SleepMore(c)
  BY <1>16 DEF SleepMore, SleepOn, SchedThen, AsleepInv, IInv, OwnInv, TypeOK,
     CodeType
<1>17. CASE SleepBack(c)
  BY <1>17 DEF SleepBack, At, Goto, AsleepInv, CpuInv, IInv, OwnInv
<1>18. CASE SleepDone(c)
  BY <1>18 DEF SleepDone, At, Goto, AsleepInv, OwnInv, procVars
<1>19. CASE SpawnAlloc(c)
  BY <1>19 DEF SpawnAlloc, At, TakeSlot, Goto, AsleepInv, OwnInv
<1>20. CASE SpawnFull(c)
  BY <1>20 DEF SpawnFull, At, Goto, AsleepInv, OwnInv
<1>21. CASE AllocStack(c)
  BY <1>21 DEF AllocStack, At, AsleepInv, ChildInv, IInv, OwnInv, TypeOK, CpuType,
     CodeType
<1>22. CASE AllocStackFails(c)
  BY <1>22 DEF AllocStackFails, At, Goto, AsleepInv, OwnInv
<1>23. CASE ForkCopy(c)
  BY <1>23 DEF ForkCopy, At, Goto, AsleepInv, OwnInv
<1>24. CASE ForkFails(c)
  BY <1>24 DEF ForkFails, At, Goto, AsleepInv, OwnInv, procVars
<1>25. CASE MakeReady(c)
  BY <1>25 DEF MakeReady, At, Goto, AsleepInv, OwnInv
<1>26. CASE WaitFound(c)
  BY <1>26 DEF WaitFound, At, Goto, AsleepInv, OwnInv
<1>27. CASE WaitNoChild(c)
  BY <1>27 DEF WaitNoChild, At, Goto, AsleepInv, OwnInv, procVars
<1>28. CASE WaitSleep(c)
  BY <1>28 DEF WaitSleep, SleepOn, SchedThen, AsleepInv, IInv, OwnInv, TypeOK,
     CodeType
<1>29. CASE WaitBack(c)
  BY <1>29 DEF WaitBack, At, Goto, AsleepInv, CpuInv, IInv, OwnInv
<1>30. CASE FreeStack(c)
  BY <1>30 DEF FreeStack, At, Goto, AsleepInv, OwnInv
<1>31. CASE FreeSlot(c)
  BY <1>31 DEF FreeSlot, At, Goto, AsleepInv, OwnInv
<1>32. CASE ExitDetach(c)
  BY <1>32 DEF ExitDetach, At, Goto, AsleepInv, OwnInv
<1>33. CASE ExecSwap(c)
  BY <1>33 DEF ExecSwap, At, Goto, AsleepInv, OwnInv
<1>34. CASE LoadCr3(c)
  BY <1>34 DEF LoadCr3, At, Goto, AsleepInv, OwnInv, procVars
<1>35. CASE DestroyOld(c)
  BY <1>35 DEF DestroyOld, At, Goto, AsleepInv, OwnInv
<1>36. CASE ExitZombie(c)
  BY <1>36 DEF ExitZombie, ExitBody, SchedThen, AsleepInv, OwnInv
<1>37. CASE Yield(c)
  BY <1>37 DEF Yield, At, Goto, AsleepInv, OwnInv, procVars
<1>38. CASE SleepMs(c)
  BY <1>38 DEF SleepMs, At, Goto, AsleepInv, OwnInv
<1>39. CASE KthreadAlloc(c)
  BY <1>39 DEF KthreadAlloc, At, TakeSlot, Goto, AsleepInv, OwnInv
<1>40. CASE ForkAlloc(c)
  BY <1>40 DEF ForkAlloc, At, TakeSlot, Goto, AsleepInv, OwnInv
<1>41. CASE SpawnLoad(c)
  BY <1>41 DEF SpawnLoad, At, Goto, AsleepInv, OwnInv
<1>42. CASE WaitLock(c)
  BY <1>42 DEF WaitLock, At, Goto, AsleepInv, OwnInv, procVars
<1>43. CASE WaitNohang(c)
  BY <1>43 DEF WaitNohang, At, Goto, AsleepInv, OwnInv
<1>44. CASE Exit(c)
  BY <1>44 DEF Exit, At, Goto, AsleepInv, OwnInv, procVars
<1>45. CASE ExecLoad(c)
  BY <1>45 DEF ExecLoad, At, Goto, AsleepInv, OwnInv
<1>46. CASE TimerInterrupt(c)
  BY <1>46, TickFacts DEF OwnInv, AsleepInv
<1> QED
  BY <1>1, <1>2, <1>3, <1>4, <1>5, <1>6, <1>7, <1>8, <1>9, <1>10, <1>11, <1>12, <1>13,
     <1>14, <1>15, <1>16, <1>17, <1>18, <1>19, <1>20, <1>21, <1>22, <1>23, <1>24, <1>25, <1>26,
     <1>27, <1>28, <1>29, <1>30, <1>31, <1>32, <1>33, <1>34, <1>35, <1>36, <1>37, <1>38, <1>39,
     <1>40, <1>41, <1>42, <1>43, <1>44, <1>45, <1>46 DEF SchedulerStep, ProcessStep, Call

\* do_exit makes its children orphans before the slot can be freed and given out again.
LEMMA ParentStep ==
  ASSUME NEW c \in CPUs, IInv, OwnInv,
         SchedulerStep(c) \/ ProcessStep(c) \/ Call(c) \/ TimerInterrupt(c)
  PROVE  ParentAlive'
<1>1. CASE SchedulerPick(c)
  BY <1>1 DEF SchedulerPick, IsNext, ParentAlive, OwnInv
<1>2. CASE ReapTake(c)
  BY <1>2 DEF ReapTake, ParentAlive, OwnInv
<1>3. CASE ReapUnused(c)
  BY <1>3 DEF ReapUnused, OnIdle, ParentAlive, CpuInv, IInv, OwnInv
<1>4. CASE YieldLock(c)
  BY <1>4 DEF YieldLock, YieldBody, At, ParentAlive, CodeInv, IInv, OwnInv
<1>5. CASE SleepMore(c)
  BY <1>5 DEF SleepMore, At, SleepOn, ParentAlive, CodeInv, IInv, OwnInv
<1>6. CASE SpawnAlloc(c)
  BY <1>6 DEF SpawnAlloc, At, TakeSlot, IsFirstUnused, ParentAlive, CpuInv, IInv,
     OwnInv, TypeOK, ProcType
<1>7. CASE AllocStackFails(c)
  BY <1>7 DEF AllocStackFails, At, ParentAlive, ChildInv, IInv, OwnInv, TypeOK,
     CpuType
<1>8. CASE MakeReady(c)
  <2>1. /\ stk[c] \in Procs /\ child[stk[c]] \in Procs /\ state[child[stk[c]]] = "EMBRYO"
        /\ state' = [state EXCEPT ![child[stk[c]]] = "READY"] /\ UNCHANGED parent
    BY <1>8, ProcFacts DEF MakeReady, At, IInv, ChildInv, CodeInv, Code, Building
  <2> QED
    BY <2>1 DEF OwnInv, ParentAlive, IInv, TypeOK, ProcType
<1>9. CASE WaitFound(c)
  BY <1>9 DEF WaitFound, IsFirst, Zombies, ParentAlive, OwnInv
<1>10. CASE WaitSleep(c)
  BY <1>10 DEF WaitSleep, At, SleepOn, ParentAlive, CodeInv, IInv, OwnInv
<1>11. CASE FreeSlot(c)
  BY <1>11 DEF FreeSlot, At, ParentAlive, ChildInv, IInv, OwnInv, TypeOK, CpuType
<1>12. CASE ExitZombie(c)
  BY <1>12 DEF ExitZombie, ExitBody, At, Orphaned, SleepersOn, ParentAlive,
     CodeInv, IInv, OwnInv
<1>13. CASE KthreadAlloc(c)
  BY <1>13 DEF KthreadAlloc, At, TakeSlot, IsFirstUnused, ParentAlive, CpuInv,
     IInv, OwnInv, TypeOK, ProcType
<1>14. CASE ForkAlloc(c)
  BY <1>14 DEF ForkAlloc, At, TakeSlot, IsFirstUnused, ParentAlive, CpuInv, IInv,
     OwnInv, TypeOK, ProcType
<1>15. CASE WaitNohang(c)
  BY <1>15 DEF WaitNohang, IsFirst, Zombies, ParentAlive, OwnInv
<1>16. CASE TimerInterrupt(c)
  BY <1>16, TickFacts DEF OwnInv, ParentAlive
<1>17. CASE UNCHANGED <<state, parent>>
  BY <1>17 DEF OwnInv, ParentAlive
<1>18. CASE SchedulerStep(c)
  BY <1>18, <1>1, <1>2, <1>3, <1>4, <1>5, <1>6, <1>7, <1>8, <1>9, <1>10, <1>11, <1>12,
     <1>13, <1>14, <1>15, <1>16, <1>17 DEF SchedulerStep, SchedulerTop, SchedulerNone,
     SwitchIn, SwitchBack, ReapSkip, ReapFree, ReapDone, lockVars, cpuVars, procVars, codeVars
<1>19. CASE ProcessStep(c)
  BY <1>19, <1>1, <1>2, <1>3, <1>4, <1>5, <1>6, <1>7, <1>8, <1>9, <1>10, <1>11, <1>12,
     <1>13, <1>14, <1>15, <1>16, <1>17 DEF ProcessStep, SwitchOut, FirstRun, YieldBack, Iret,
     SleepBack, SleepDone, SpawnFull, AllocStack, ForkCopy, ForkFails, WaitNoChild, WaitBack,
     FreeStack, ExitDetach, ExecSwap, LoadCr3, DestroyOld, lockVars, cpuVars, procVars,
     codeVars
<1>20. CASE Call(c)
  BY <1>20, <1>1, <1>2, <1>3, <1>4, <1>5, <1>6, <1>7, <1>8, <1>9, <1>10, <1>11, <1>12,
     <1>13, <1>14, <1>15, <1>16, <1>17 DEF Call, Yield, SleepMs, SpawnLoad, WaitLock, Exit,
     ExecLoad, lockVars, cpuVars, procVars, codeVars
<1> QED
  BY <1>18, <1>19, <1>20, <1>16

\* The slot that is built or freed is in the hands of its parent, or of the reaper.
LEMMA HandlerStep ==
  ASSUME NEW c \in CPUs, IInv, OwnInv,
         SchedulerStep(c) \/ ProcessStep(c) \/ Call(c) \/ TimerInterrupt(c)
  PROVE  HandlerInv'
<1>1. CASE SchedulerTop(c)
  BY <1>1 DEF SchedulerTop, OnIdle, HandlerInv, OwnInv, procVars, codeVars
<1>2. CASE SchedulerPick(c)
  BY <1>2 DEF SchedulerPick, OnIdle, HandlerInv, OwnInv, codeVars
<1>3. CASE SchedulerNone(c)
  BY <1>3 DEF SchedulerNone, OnIdle, HandlerInv, OwnInv, procVars, codeVars
<1>4. CASE SwitchIn(c)
  BY <1>4 DEF SwitchIn, OnIdle, HandlerInv, OwnInv, procVars
<1>5. CASE SwitchBack(c)
  BY <1>5 DEF SwitchBack, OnIdle, HandlerInv, OwnInv, procVars, codeVars
<1>6. CASE ReapTake(c)
  BY <1>6 DEF ReapTake, OnIdle, HandlerInv, CpuInv, IInv, OwnInv, TypeOK, CpuType,
     codeVars
<1>7. CASE ReapSkip(c)
  BY <1>7 DEF ReapSkip, OnIdle, HandlerInv, CpuInv, IInv, OwnInv, procVars,
     codeVars
<1>8. CASE ReapFree(c)
  BY <1>8 DEF ReapFree, HandlerInv, OwnInv, codeVars
<1>9. CASE ReapUnused(c)
  BY <1>9 DEF ReapUnused, HandlerInv, IInv, OwnInv, TypeOK, ProcType, codeVars
<1>10. CASE ReapDone(c)
  BY <1>10 DEF ReapDone, OnIdle, HandlerInv, OwnInv, procVars, codeVars
<1>11. CASE YieldLock(c)
  BY <1>11 DEF YieldLock, YieldBody, HandlerInv, OwnInv, cpuVars
<1>12. CASE SleepMore(c)
  BY <1>12 DEF SleepMore, SleepOn, HandlerInv, OwnInv, cpuVars
<1>13. CASE SpawnAlloc(c)
  <2>1. stk[c] \in Procs /\ state[stk[c]] = "RUNNING" /\ child[stk[c]] = None
    BY <1>13, ProcFacts DEF SpawnAlloc, At, IInv, ChildInv, CodeInv, Code, Building,
       Freeing
  <2>2. PICK i \in Procs :
           /\ state[i] = "UNUSED" /\ state' = [state EXCEPT ![i] = "EMBRYO"]
           /\ parent' = [parent EXCEPT ![i] = stk[c]] /\ child' = [child EXCEPT ![stk[c]] = i]
           /\ UNCHANGED <<reapi, spc>>
    BY <1>13 DEF SpawnAlloc, IsFirstUnused, TakeSlot, cpuVars
  <2>3. \A q \in Procs : q # i => state'[q] = state[q] /\ parent'[q] = parent[q]
    BY <2>2 DEF IInv, TypeOK, ProcType
  <2>4. parent'[i] = stk[c] /\ child'[stk[c]] = i
        /\ \A r \in Procs : r # stk[c] => child'[r] = child[r]
    BY <2>1, <2>2 DEF IInv, TypeOK, ProcType, CodeType
  <2> QED
    BY <2>1, <2>2, <2>3, <2>4 DEF OwnInv, HandlerInv
<1>14. CASE AllocStackFails(c)
  BY <1>14 DEF AllocStackFails, HandlerInv, IInv, OwnInv, TypeOK, ProcType,
     cpuVars
<1>15. CASE MakeReady(c)
  BY <1>15 DEF MakeReady, HandlerInv, IInv, OwnInv, TypeOK, ProcType, cpuVars
<1>16. CASE WaitFound(c)
  <2>1. stk[c] \in Procs /\ state[stk[c]] = "RUNNING" /\ child[stk[c]] = None
    BY <1>16, ProcFacts DEF WaitFound, At, IInv, ChildInv, CodeInv, Code, Building,
       Freeing
  <2>2. PICK q \in Procs :
           /\ parent[q] = stk[c] /\ state' = [state EXCEPT ![q] = "DEAD"]
           /\ child' = [child EXCEPT ![stk[c]] = q] /\ UNCHANGED <<parent, reapi, spc>>
    BY <1>16 DEF WaitFound, IsFirst, Zombies, Matches, cpuVars
  <2>3. child'[stk[c]] = q /\ \A r \in Procs : r # stk[c] => child'[r] = child[r]
    BY <2>1, <2>2 DEF IInv, TypeOK, CodeType
  <2>4. \A r \in Procs : r # q => state'[r] = state[r]
    BY <2>2 DEF IInv, TypeOK, ProcType
  <2> QED
    BY <2>1, <2>2, <2>3, <2>4 DEF OwnInv, HandlerInv
<1>17. CASE WaitSleep(c)
  BY <1>17 DEF WaitSleep, SleepOn, HandlerInv, OwnInv, cpuVars
<1>18. CASE FreeSlot(c)
  BY <1>18 DEF FreeSlot, HandlerInv, IInv, OwnInv, TypeOK, ProcType, cpuVars
<1>19. CASE ExitZombie(c)
  <2>1. stk[c] \in Procs /\ state[stk[c]] = "RUNNING" /\ child[stk[c]] = None
    BY <1>19, ProcFacts DEF ExitZombie, At, ExitBody, IInv, ChildInv, CodeInv, Code, Building,
       Freeing
  <2>2. /\ \A q \in Procs : parent'[q] = parent[q] \/ parent[q] = stk[c]
        /\ \A q \in Procs : state'[q] \in {"ZOMBIE", "READY", state[q]}
        /\ UNCHANGED <<child, reapi, spc>>
    BY <1>19 DEF ExitZombie, ExitBody, Orphaned, cpuVars, IInv, TypeOK, ProcType
  <2> QED
    BY <2>1, <2>2 DEF OwnInv, HandlerInv
<1>20. CASE KthreadAlloc(c)
  <2>1. stk[c] \in Procs /\ state[stk[c]] = "RUNNING" /\ child[stk[c]] = None
    BY <1>20, ProcFacts DEF KthreadAlloc, At, IInv, ChildInv, CodeInv, Code, Building,
       Freeing
  <2>2. PICK i \in Procs :
           /\ state[i] = "UNUSED" /\ state' = [state EXCEPT ![i] = "EMBRYO"]
           /\ parent' = [parent EXCEPT ![i] = stk[c]] /\ child' = [child EXCEPT ![stk[c]] = i]
           /\ UNCHANGED <<reapi, spc>>
    BY <1>20 DEF KthreadAlloc, IsFirstUnused, TakeSlot, cpuVars
  <2>3. \A q \in Procs : q # i => state'[q] = state[q] /\ parent'[q] = parent[q]
    BY <2>2 DEF IInv, TypeOK, ProcType
  <2>4. parent'[i] = stk[c] /\ child'[stk[c]] = i
        /\ \A r \in Procs : r # stk[c] => child'[r] = child[r]
    BY <2>1, <2>2 DEF IInv, TypeOK, ProcType, CodeType
  <2> QED
    BY <2>1, <2>2, <2>3, <2>4 DEF OwnInv, HandlerInv
<1>21. CASE ForkAlloc(c)
  <2>1. stk[c] \in Procs /\ state[stk[c]] = "RUNNING" /\ child[stk[c]] = None
    BY <1>21, ProcFacts DEF ForkAlloc, At, IInv, ChildInv, CodeInv, Code, Building,
       Freeing
  <2>2. PICK i \in Procs :
           /\ state[i] = "UNUSED" /\ state' = [state EXCEPT ![i] = "EMBRYO"]
           /\ parent' = [parent EXCEPT ![i] = stk[c]] /\ child' = [child EXCEPT ![stk[c]] = i]
           /\ UNCHANGED <<reapi, spc>>
    BY <1>21 DEF ForkAlloc, IsFirstUnused, TakeSlot, cpuVars
  <2>3. \A q \in Procs : q # i => state'[q] = state[q] /\ parent'[q] = parent[q]
    BY <2>2 DEF IInv, TypeOK, ProcType
  <2>4. parent'[i] = stk[c] /\ child'[stk[c]] = i
        /\ \A r \in Procs : r # stk[c] => child'[r] = child[r]
    BY <2>1, <2>2 DEF IInv, TypeOK, ProcType, CodeType
  <2> QED
    BY <2>1, <2>2, <2>3, <2>4 DEF OwnInv, HandlerInv
<1>22. CASE WaitNohang(c)
  <2>1. stk[c] \in Procs /\ state[stk[c]] = "RUNNING" /\ child[stk[c]] = None
    BY <1>22, ProcFacts DEF WaitNohang, At, IInv, ChildInv, CodeInv, Code, Building,
       Freeing
  <2>2. PICK q \in Procs :
           /\ parent[q] = stk[c] /\ state' = [state EXCEPT ![q] = "DEAD"]
           /\ child' = [child EXCEPT ![stk[c]] = q] /\ UNCHANGED <<parent, reapi, spc>>
    BY <1>22 DEF WaitNohang, IsFirst, Zombies, Matches, cpuVars
  <2>3. child'[stk[c]] = q /\ \A r \in Procs : r # stk[c] => child'[r] = child[r]
    BY <2>1, <2>2 DEF IInv, TypeOK, CodeType
  <2>4. \A r \in Procs : r # q => state'[r] = state[r]
    BY <2>2 DEF IInv, TypeOK, ProcType
  <2> QED
    BY <2>1, <2>2, <2>3, <2>4 DEF OwnInv, HandlerInv
<1>23. CASE TimerInterrupt(c)
  <2>1. spc[BSP] \in {"r_free", "r_unused"} => spc'[BSP] = spc[BSP]
    BY <1>23, TickFacts
  <2> QED
    BY <1>23, <2>1, TickFacts DEF OwnInv, HandlerInv
<1>24. CASE UNCHANGED <<state, parent, child, reapi, spc>>
  BY <1>24 DEF OwnInv, HandlerInv
<1>25. CASE SchedulerStep(c)
  BY <1>25, <1>1, <1>2, <1>3, <1>4, <1>5, <1>6, <1>7, <1>8, <1>9, <1>10, <1>11, <1>12,
     <1>13, <1>14, <1>15, <1>16, <1>17, <1>18, <1>19, <1>20, <1>21, <1>22, <1>23, <1>24 DEF
     SchedulerStep, lockVars, cpuVars, procVars, codeVars
<1>26. CASE ProcessStep(c)
  BY <1>26, <1>1, <1>2, <1>3, <1>4, <1>5, <1>6, <1>7, <1>8, <1>9, <1>10, <1>11, <1>12,
     <1>13, <1>14, <1>15, <1>16, <1>17, <1>18, <1>19, <1>20, <1>21, <1>22, <1>23, <1>24 DEF
     ProcessStep, SwitchOut, FirstRun, YieldBack, Iret, SleepBack, SleepDone, SpawnFull,
     AllocStack, ForkCopy, ForkFails, WaitNoChild, WaitBack, FreeStack, ExitDetach, ExecSwap,
     LoadCr3, DestroyOld, lockVars, cpuVars, procVars, codeVars
<1>27. CASE Call(c)
  BY <1>27, <1>1, <1>2, <1>3, <1>4, <1>5, <1>6, <1>7, <1>8, <1>9, <1>10, <1>11, <1>12,
     <1>13, <1>14, <1>15, <1>16, <1>17, <1>18, <1>19, <1>20, <1>21, <1>22, <1>23, <1>24 DEF
     Call, Yield, SleepMs, SpawnLoad, WaitLock, Exit, ExecLoad, lockVars, cpuVars, procVars,
     codeVars
<1> QED
  BY <1>25, <1>26, <1>27, <1>23

\* do_exit wakes the parent that waits for this child; nobody else can take a child from it.
LEMMA WaiterStep ==
  ASSUME NEW c \in CPUs, IInv, OwnInv,
         SchedulerStep(c) \/ ProcessStep(c) \/ Call(c) \/ TimerInterrupt(c)
  PROVE  WaiterNotForgotten'
<1>1. CASE SchedulerPick(c)
  BY <1>1 DEF SchedulerPick, WaiterNotForgotten, Matches, Zombies, OwnInv,
     codeVars
<1>2. CASE ReapTake(c)
  BY <1>2 DEF ReapTake, WaiterNotForgotten, Matches, Zombies, OwnInv, codeVars
<1>3. CASE ReapUnused(c)
  BY <1>3 DEF ReapUnused, OnIdle, WaiterNotForgotten, Matches, Zombies,
     HandlerInv, ChildInv, CpuInv, IInv, OwnInv, codeVars
<1>4. CASE YieldLock(c)
  BY <1>4 DEF YieldLock, YieldBody, WaiterNotForgotten, Matches, Zombies, OwnInv
<1>5. CASE SleepMore(c)
  BY <1>5 DEF SleepMore, SleepOn, WaiterNotForgotten, Matches, Zombies, IInv,
     OwnInv, TypeOK, ProcType
<1>6. CASE SleepBack(c)
  BY <1>6 DEF SleepBack, WaiterNotForgotten, Matches, Zombies, OwnInv
<1>7. CASE SpawnAlloc(c)
  BY <1>7 DEF SpawnAlloc, TakeSlot, IsFirstUnused, WaiterNotForgotten, Matches,
     Zombies, OwnInv
<1>8. CASE AllocStackFails(c)
  BY <1>8 DEF AllocStackFails, At, WaiterNotForgotten, Matches, Zombies,
     HandlerInv, AsleepInv, ChildInv, IInv, OwnInv, TypeOK, CpuType
<1>9. CASE MakeReady(c)
  BY <1>9 DEF MakeReady, WaiterNotForgotten, Matches, Zombies, OwnInv
<1>10. CASE WaitFound(c)
  BY <1>10 DEF WaitFound, IsFirst, Zombies, Matches, WaiterNotForgotten, OwnInv
<1>11. CASE WaitNoChild(c)
  BY <1>11 DEF WaitNoChild, WaiterNotForgotten, Matches, Zombies, OwnInv, procVars
<1>12. CASE WaitSleep(c)
  BY <1>12 DEF WaitSleep, SleepOn, WaiterNotForgotten, Matches, Zombies, OwnInv
<1>13. CASE WaitBack(c)
  BY <1>13 DEF WaitBack, WaiterNotForgotten, Matches, Zombies, OwnInv
<1>14. CASE FreeSlot(c)
  BY <1>14 DEF FreeSlot, At, WaiterNotForgotten, Matches, Zombies, HandlerInv,
     AsleepInv, ChildInv, IInv, OwnInv, TypeOK, CpuType
<1>15. CASE ExitZombie(c)
  BY <1>15 DEF ExitZombie, ExitBody, Orphaned, SleepersOn, WaiterNotForgotten,
     Matches, Zombies, IInv, OwnInv, TypeOK, ProcType
<1>16. CASE KthreadAlloc(c)
  BY <1>16 DEF KthreadAlloc, TakeSlot, IsFirstUnused, WaiterNotForgotten, Matches,
     Zombies, OwnInv
<1>17. CASE ForkAlloc(c)
  BY <1>17 DEF ForkAlloc, TakeSlot, IsFirstUnused, WaiterNotForgotten, Matches,
     Zombies, OwnInv
<1>18. CASE WaitLock(c)
  BY <1>18 DEF WaitLock, At, WaiterNotForgotten, Matches, Zombies, AsleepInv,
     OwnInv, procVars
<1>19. CASE WaitNohang(c)
  BY <1>19 DEF WaitNohang, Zombies, Matches, WaiterNotForgotten, OwnInv
<1>20. CASE TimerInterrupt(c)
  <2>1. \A p \in Procs : \A a : Matches(p, a)' = Matches(p, a) /\ Zombies(p, a)' = Zombies(p, a)
    BY <1>20, TickFacts DEF Matches, Zombies
  <2> QED
    BY <1>20, <2>1, TickFacts DEF OwnInv, WaiterNotForgotten
<1>21. CASE UNCHANGED <<state, parent, wait_channel, arg>>
  BY <1>21 DEF OwnInv, WaiterNotForgotten, Matches, Zombies
<1>22. CASE SchedulerStep(c)
  BY <1>22, <1>1, <1>2, <1>3, <1>4, <1>5, <1>6, <1>7, <1>8, <1>9, <1>10, <1>11, <1>12,
     <1>13, <1>14, <1>15, <1>16, <1>17, <1>18, <1>19, <1>20, <1>21 DEF SchedulerStep,
     SchedulerTop, SchedulerNone, SwitchIn, SwitchBack, ReapSkip, ReapFree, ReapDone, lockVars,
     cpuVars, procVars, codeVars
<1>23. CASE ProcessStep(c)
  BY <1>23, <1>1, <1>2, <1>3, <1>4, <1>5, <1>6, <1>7, <1>8, <1>9, <1>10, <1>11, <1>12,
     <1>13, <1>14, <1>15, <1>16, <1>17, <1>18, <1>19, <1>20, <1>21 DEF ProcessStep, SwitchOut,
     FirstRun, YieldBack, Iret, SleepDone, SpawnFull, AllocStack, ForkCopy, ForkFails,
     FreeStack, ExitDetach, ExecSwap, LoadCr3, DestroyOld, lockVars, cpuVars, procVars,
     codeVars
<1>24. CASE Call(c)
  BY <1>24, <1>1, <1>2, <1>3, <1>4, <1>5, <1>6, <1>7, <1>8, <1>9, <1>10, <1>11, <1>12,
     <1>13, <1>14, <1>15, <1>16, <1>17, <1>18, <1>19, <1>20, <1>21 DEF Call, Yield, SleepMs,
     SpawnLoad, Exit, ExecLoad, lockVars, cpuVars, procVars, codeVars
<1> QED
  BY <1>22, <1>23, <1>24, <1>20

\* Page tables change hands.  New ones go to the local variable of who made them ...
LEMMA TablesMade ==
  ASSUME IInv, TableInv, NEW p \in Procs, old[p] = None, NEW s \in Spaces \ live,
         live' = live \cup {s}, old' = [old EXCEPT ![p] = s], pml4' = pml4
  PROVE  TableInv'
<1>1. \A q \in Procs : old'[q] = IF q = p THEN s ELSE old[q]
  BY DEF IInv, TypeOK, CodeType
<1>2. \A q \in Procs : pml4[q] # s /\ old[q] # s
  BY DEF TableInv
<1>3. ASSUME NEW r \in live'
      PROVE  \E q \in Procs : pml4'[q] = r \/ old'[q] = r
  <2>1. CASE r = s
    BY <1>1, <2>1
  <2>2. CASE r # s
    <3>1. PICK q \in Procs : pml4[q] = r \/ old[q] = r
      BY <1>3, <2>2 DEF TableInv
    <3>2. r # None
      BY <1>3 DEF IInv, TypeOK, ProcType
    <3> QED
      BY <1>1, <3>1, <3>2
  <2> QED
    BY <2>1, <2>2
<1> QED
  BY <1>1, <1>2, <1>3 DEF TableInv

\* ... or, in proc_fork, to the child at once ...
LEMMA TablesCopied ==
  ASSUME IInv, TableInv, NEW i \in Procs, pml4[i] = Kernel, NEW s \in Spaces \ live,
         live' = live \cup {s}, pml4' = [pml4 EXCEPT ![i] = s], old' = old
  PROVE  TableInv'
<1>1. \A q \in Procs : pml4'[q] = IF q = i THEN s ELSE pml4[q]
  BY DEF IInv, TypeOK, ProcType
<1>2. \A q \in Procs : pml4[q] # s /\ old[q] # s
  BY DEF TableInv
<1>3. ASSUME NEW r \in live'
      PROVE  \E q \in Procs : pml4'[q] = r \/ old'[q] = r
  <2>1. CASE r = s
    BY <1>1, <2>1
  <2>2. CASE r # s
    <3>1. PICK q \in Procs : pml4[q] = r \/ old[q] = r
      BY <1>3, <2>2 DEF TableInv
    <3>2. r # Kernel
      BY <1>3 DEF IInv, TypeOK, ProcType
    <3> QED
      BY <1>1, <3>1, <3>2
  <2> QED
    BY <2>1, <2>2
<1> QED
  BY <1>1, <1>2, <1>3 DEF TableInv

\* ... or from the local variable of p to slot i, and those of i to p's variable:
\* proc_spawn, proc_exec and do_exit.  Kernel in a slot and None in a variable stand for
\* no tables.
LEMMA TablesMoved ==
  ASSUME IInv, TableInv, NEW p \in Procs, NEW i \in Procs, NEW x, NEW y,
         x = pml4[i] \/ (x = None /\ pml4[i] = Kernel),
         y = old[p] \/ (y = Kernel /\ old[p] = None),
         x \in Spaces \cup {None}, y \in Spaces \cup {Kernel},
         old' = [old EXCEPT ![p] = x], pml4' = [pml4 EXCEPT ![i] = y], live' = live
  PROVE  TableInv'
<1>1. /\ \A q \in Procs : old'[q] = IF q = p THEN x ELSE old[q]
      /\ \A q \in Procs : pml4'[q] = IF q = i THEN y ELSE pml4[q]
  BY DEF IInv, TypeOK, CodeType, ProcType
<1>2. /\ x # None => x = pml4[i] /\ x \in live /\ x # Kernel
      /\ y # Kernel => y = old[p] /\ y \in live /\ y # None
  BY DEF TableInv
<1>3. ASSUME NEW r \in live
      PROVE  \E q \in Procs : pml4'[q] = r \/ old'[q] = r
  <2>1. PICK q \in Procs : pml4[q] = r \/ old[q] = r
    BY DEF TableInv
  <2>2. r # Kernel /\ r # None
    BY DEF IInv, TypeOK, ProcType
  <2>3. CASE pml4[q] = r
    BY <1>1, <2>2, <2>3
  <2>4. CASE old[q] = r
    BY <1>1, <2>2, <2>4
  <2> QED
    BY <2>1, <2>3, <2>4
<1>4. ASSUME NEW q \in Procs, NEW r \in Procs
      PROVE  /\ pml4'[q] = pml4'[r] /\ pml4'[q] # Kernel => q = r
             /\ old'[q] = old'[r] /\ old'[q] # None => q = r
             /\ pml4'[q] # Kernel => pml4'[q] # old'[r]
  <2>1. pml4'[q] = pml4'[r] /\ pml4'[q] # Kernel => q = r
    BY <1>1, <1>2 DEF TableInv
  <2>2. old'[q] = old'[r] /\ old'[q] # None => q = r
    BY <1>1, <1>2 DEF TableInv
  <2>3. pml4'[q] # Kernel => pml4'[q] # old'[r]
    <3>1. pml4[q] # Kernel => pml4[q] # None
      BY DEF TableInv, IInv, TypeOK, ProcType
    <3> QED
      BY <1>1, <1>2, <3>1 DEF TableInv
  <2> QED
    BY <2>1, <2>2, <2>3
<1>5. \A q \in Procs : pml4'[q] \in live \cup {Kernel} /\ old'[q] \in live \cup {None}
  BY <1>1, <1>2 DEF TableInv
<1> QED
  BY <1>3, <1>4, <1>5 DEF TableInv

\* mm_destroy: whoever holds page tables in his local variable gives them back.
LEMMA TablesDropped ==
  ASSUME IInv, TableInv, NEW p \in Procs, live' = live \ {old[p]},
         old' = [old EXCEPT ![p] = None], pml4' = pml4
  PROVE  TableInv'
<1>1. \A q \in Procs : old'[q] = IF q = p THEN None ELSE old[q]
  BY DEF IInv, TypeOK, CodeType
<1>2. \A q \in Procs : /\ pml4[q] # Kernel => pml4[q] # old[p]
                       /\ (q # p /\ old[q] # None => old[q] # old[p])
  BY DEF TableInv
<1>4. \A q \in Procs : pml4[q] # Kernel => pml4[q] # None
  BY DEF TableInv, IInv, TypeOK, ProcType
<1>3. ASSUME NEW r \in live'
      PROVE  \E q \in Procs : pml4[q] = r \/ old'[q] = r
  <2>1. PICK q \in Procs : pml4[q] = r \/ old[q] = r
    BY <1>3 DEF TableInv
  <2> QED
    BY <1>1, <1>3, <2>1
<1> QED
  BY <1>1, <1>2, <1>3, <1>4 DEF TableInv

\* Page tables are made and given up one owner at a time.
LEMMA TableStep ==
  ASSUME NEW c \in CPUs, IInv, OwnInv,
         SchedulerStep(c) \/ ProcessStep(c) \/ Call(c) \/ TimerInterrupt(c)
  PROVE  TableInv'
<1>0. TableInv
  BY DEF OwnInv
<1>1. CASE SpawnLoad(c) \/ ExecLoad(c)
  <2>1. stk[c] \in Procs /\ old[stk[c]] = None
    BY <1>1, ProcFacts DEF SpawnLoad, ExecLoad, At, IInv, ChildInv, CodeInv, Code, Keeping
  <2>2. PICK s \in Spaces \ live : live' = live \cup {s} /\ old' = [old EXCEPT ![stk[c]] = s]
    BY <1>1 DEF SpawnLoad, ExecLoad
  <2>3. pml4' = pml4
    BY <1>1 DEF SpawnLoad, ExecLoad
  <2> QED
    BY <1>0, <2>1, <2>2, <2>3, TablesMade
<1>2. CASE SpawnFull(c) \/ AllocStackFails(c) \/ DestroyOld(c)
  <2>1. /\ stk[c] \in Procs /\ live' = live \ {old[stk[c]]}
        /\ old' = [old EXCEPT ![stk[c]] = None] /\ pml4' = pml4
    BY <1>2, ProcFacts DEF SpawnFull, AllocStackFails, DestroyOld, At
  <2> QED
    BY <1>0, <2>1, TablesDropped
<1>3. CASE ForkCopy(c)
  <2>1. stk[c] \in Procs /\ Code(stk[c]) = "f_mm"
    BY <1>3, ProcFacts DEF ForkCopy, At, IInv, CodeInv, Code
  <2>2. child[stk[c]] \in Procs /\ pml4[child[stk[c]]] = Kernel
    BY <1>3, <2>1, ProcFacts DEF ForkCopy, At, IInv, ChildInv, Building, OwnInv, BareInv, Bare
  <2>3. PICK s \in Spaces \ live :
           live' = live \cup {s} /\ pml4' = [pml4 EXCEPT ![child[stk[c]]] = s]
    BY <1>3 DEF ForkCopy
  <2>4. old' = old
    BY <1>3 DEF ForkCopy
  <2> QED
    BY <1>0, <2>2, <2>3, <2>4, TablesCopied
<1>4. CASE AllocStack(c)
  <2> DEFINE p == stk[c]
             y == IF pc[p] = "sp_stack" THEN old[p] ELSE Kernel
  <2>1. /\ p \in Procs /\ Code(p) = pc[p] /\ pc[p] \in {"k_stack", "f_stack", "sp_stack"}
    BY <1>4, ProcFacts DEF AllocStack, At, IInv, CodeInv, Code
  <2>2. child[p] \in Procs /\ pml4[child[p]] = Kernel
    BY <1>4, <2>1, ProcFacts DEF AllocStack, At, IInv, ChildInv, Building, OwnInv, BareInv, Bare
  <2>3. /\ y = old[p] \/ (y = Kernel /\ old[p] = None)
        /\ y \in Spaces \cup {Kernel}
    BY <2>1 DEF IInv, ChildInv, Keeping, TypeOK, CodeType
  <2>4. /\ pml4' = [pml4 EXCEPT ![child[p]] = y] /\ old' = [old EXCEPT ![p] = None]
        /\ live' = live
    BY <1>4 DEF AllocStack
  <2> HIDE DEF y
  <2> QED
    BY <1>0, <2>1, <2>2, <2>3, <2>4, TablesMoved
<1>5. CASE ExitDetach(c)
  <2>1. stk[c] \in Procs /\ old[stk[c]] = None /\ pml4[stk[c]] \in Spaces
    BY <1>5, ProcFacts DEF ExitDetach, At, IInv, ChildInv, CodeInv, Code, Keeping, TypeOK, ProcType
  <2>2. /\ pml4' = [pml4 EXCEPT ![stk[c]] = Kernel] /\ live' = live
        /\ old' = [old EXCEPT ![stk[c]] = pml4[stk[c]]]
    BY <1>5 DEF ExitDetach
  <2> QED
    BY <1>0, <2>1, <2>2, TablesMoved
<1>6. CASE ExecSwap(c)
  <2>1. stk[c] \in Procs /\ old[stk[c]] \in Spaces /\ pml4[stk[c]] \in Spaces
    BY SMTT(30), <1>6, ProcFacts DEF ExecSwap, At, IInv, ChildInv, CodeInv, Code, Keeping, TypeOK, ProcType,
       CodeType
  <2>2. /\ pml4' = [pml4 EXCEPT ![stk[c]] = old[stk[c]]] /\ live' = live
        /\ old' = [old EXCEPT ![stk[c]] = pml4[stk[c]]]
    BY <1>6 DEF ExecSwap
  <2> QED
    BY <1>0, <2>1, <2>2, TablesMoved
<1>7. CASE UNCHANGED <<pml4, old, live>>
  BY <1>0, <1>7 DEF TableInv
<1>8. CASE SchedulerStep(c)
  BY <1>7, <1>8 DEF SchedulerStep, SchedulerTop, SchedulerPick, SchedulerNone, SwitchIn,
     SwitchBack, ReapTake, ReapSkip, ReapFree, ReapUnused, ReapDone, procVars, codeVars
<1>9. CASE ProcessStep(c)
  BY <1>2, <1>3, <1>4, <1>5, <1>6, <1>7, <1>9 DEF ProcessStep, SwitchOut, FirstRun, YieldLock,
     YieldBody, YieldBack, Iret, SleepMore, SleepBack, SleepDone, SpawnAlloc, TakeSlot, ForkFails,
     MakeReady, WaitFound, WaitNoChild, WaitSleep, WaitBack, FreeStack, FreeSlot, LoadCr3,
     ExitZombie, ExitBody, procVars, codeVars
<1>10. CASE Call(c)
  BY <1>1, <1>7, <1>10 DEF Call, Yield, SleepMs, KthreadAlloc, ForkAlloc, TakeSlot, WaitLock,
     WaitNohang, Exit, procVars, codeVars
<1>11. CASE TimerInterrupt(c)
  BY <1>7, <1>11, TickFacts
<1> QED
  BY <1>8, <1>9, <1>10, <1>11

-----------------------------------------------------------------------------
\* OwnInv is an invariant, with IInv.
THEOREM OwnersInvariant == Spec => []OwnInv
<1>1. Init => OwnInv
  <2> SUFFICES ASSUME Init PROVE OwnInv
    OBVIOUS
  <2> USE DEF Init, Procs, InitProc
  <2>1. TableInv /\ BareInv
    BY DEF TableInv, BareInv, Code, Bare
  <2>2. LoadedInv /\ AsleepInv
    BY DEF LoadedInv, AsleepInv
  <2>3. ParentAlive /\ HandlerInv
    BY DEF ParentAlive, HandlerInv
  <2>4. WaiterNotForgotten
    BY DEF WaiterNotForgotten
  <2> QED
    BY <2>1, <2>2, <2>3, <2>4 DEF OwnInv
<1>2. IInv /\ OwnInv /\ [Next]_vars => OwnInv'
  <2> SUFFICES ASSUME IInv, OwnInv, [Next]_vars PROVE OwnInv'
    OBVIOUS
  <2>1. CASE UNCHANGED vars
    <3> USE <2>1 DEF OwnInv, vars, lockVars, cpuVars, procVars, codeVars
    <3>1. TableInv' /\ BareInv'
      BY DEF TableInv, BareInv, Code
    <3>2. LoadedInv' /\ AsleepInv'
      BY DEF LoadedInv, AsleepInv, Code
    <3>3. ParentAlive' /\ HandlerInv'
      BY DEF ParentAlive, HandlerInv
    <3>4. WaiterNotForgotten'
      BY DEF WaiterNotForgotten, Matches, Zombies
    <3> QED
      BY <3>1, <3>2, <3>3, <3>4
  <2>2. ASSUME NEW c \in CPUs,
               SchedulerStep(c) \/ ProcessStep(c) \/ Call(c) \/ TimerInterrupt(c)
        PROVE  OwnInv'
    BY <2>2, TableStep, BareStep, LoadedStep, AsleepStep, ParentStep, HandlerStep, WaiterStep
       DEF OwnInv
  <2> QED
    BY <2>1, <2>2 DEF Next
<1> QED
  BY <1>1, <1>2, Inductive, PTL DEF Spec

\* No CPU has page tables loaded that were freed, however processes exit, exec and move
\* between CPUs.
THEOREM LoadedTablesAlive == Spec => []LoadedTablesLive
<1>1. IInv /\ OwnInv => LoadedTablesLive
  <2> SUFFICES ASSUME IInv, OwnInv, NEW c \in CPUs, cr3[c] # Kernel
               PROVE  cr3[c] \in live
    BY DEF LoadedTablesLive
  <2>1. cur[c] \in Procs
    BY DEF OwnInv, LoadedInv, IInv, TypeOK, CpuType
  <2>2. cr3[c] \in Spaces
    BY DEF IInv, TypeOK, CpuType
  <2> QED
    BY <2>1, <2>2 DEF OwnInv, LoadedInv, TableInv
<1> QED
  BY <1>1, Inductive, OwnersInvariant, PTL

\* A set whose members are all the same, and that has one, has one member.
LEMMA OneMember ==
  ASSUME NEW S
  PROVE  /\ S = {} => Cardinality(S) = 0
         /\ \A x \in S : (\A y \in S : y = x) => Cardinality(S) = 1
<1>1. S = {} => Cardinality(S) = 0
  BY FS_EmptySet
<1>2. ASSUME NEW x \in S, \A y \in S : y = x
      PROVE  Cardinality(S) = 1
  <2>1. S = {x}
    BY <1>2
  <2> QED
    BY <2>1, FS_Singleton
<1> QED
  BY <1>1, <1>2

\* Every set of page tables has one owner at every moment: proc_list never walks freed
\* tables, and no error path of proc_spawn, proc_fork or proc_exec loses any.
THEOREM TablesHaveOneOwner == Spec => []TablesOwnedOnce
<1>1. IInv /\ OwnInv => TablesOwnedOnce
  <2> SUFFICES ASSUME IInv, OwnInv PROVE TablesOwnedOnce
    OBVIOUS
  <2>1. ASSUME NEW s \in live
        PROVE  Cardinality({p \in Procs : state[p] # "UNUSED" /\ pml4[p] = s})
                 + Cardinality({p \in Procs : old[p] = s}) = 1
    <3> DEFINE P == {p \in Procs : state[p] # "UNUSED" /\ pml4[p] = s}
               O == {p \in Procs : old[p] = s}
    <3>1. s # Kernel /\ s # None
      BY DEF IInv, TypeOK, ProcType
    <3>2. PICK q \in Procs : pml4[q] = s \/ old[q] = s
      BY DEF OwnInv, TableInv
    <3>3. CASE pml4[q] = s
      <4>1. q \in P /\ (\A r \in P : r = q) /\ O = {}
        BY <3>1, <3>3 DEF OwnInv, TableInv, BareInv
      <4>2. Cardinality(P) = 1 /\ Cardinality(O) = 0
        BY ONLY <4>1, OneMember
      <4> QED
        BY <4>2
    <3>4. CASE old[q] = s
      <4>1. q \in O /\ (\A r \in O : r = q) /\ P = {}
        BY <3>1, <3>4 DEF OwnInv, TableInv
      <4>2. Cardinality(P) = 0 /\ Cardinality(O) = 1
        BY ONLY <4>1, OneMember
      <4> QED
        BY <4>2
    <3> QED
      BY <3>2, <3>3, <3>4
  <2>2. \A p \in Procs : state[p] # "UNUSED" => pml4[p] \in live \cup {Kernel}
    BY DEF OwnInv, TableInv
  <2> QED
    BY <2>1, <2>2 DEF TablesOwnedOnce
<1> QED
  BY <1>1, Inductive, OwnersInvariant, PTL

\* A parent pointer never leads to a slot that is free, dying or reused.
THEOREM ParentsAlive == Spec => []ParentAlive
<1>1. OwnInv => ParentAlive
  BY DEF OwnInv
<1> QED
  BY <1>1, OwnersInvariant, PTL

\* No wakeup of a waiting parent is lost, with any number of CPUs and processes.
THEOREM WaitersNotForgotten == Spec => []WaiterNotForgotten
<1>1. OwnInv => WaiterNotForgotten
  BY DEF OwnInv
<1> QED
  BY <1>1, OwnersInvariant, PTL

\* A slot that is built or taken apart is in one pair of hands: no zombie is freed twice,
\* and no slot stays taken.
THEOREM SlotsHaveOneHandler == Spec => []OneHandlerPerSlot
<1>1. IInv /\ OwnInv => OneHandlerPerSlot
  <2> SUFFICES ASSUME IInv, OwnInv, NEW q \in Procs
               PROVE  IF state[q] \in {"EMBRYO", "DEAD"} THEN Cardinality(Handlers(q)) = 1
                                                         ELSE Handlers(q) = {}
    BY DEF OneHandlerPerSlot
  <2>1. \A p \in Procs : child[p] = q => state[q] \in {"EMBRYO", "DEAD"}
    BY DEF IInv, ChildInv
  <2>2. reapi = q /\ spc[BSP] \in {"r_free", "r_unused"} =>
           state[q] = "DEAD" /\ \A p \in Procs : child[p] # q
    BY DEF IInv, CpuInv, ChildInv
  <2>3. CASE state[q] \notin {"EMBRYO", "DEAD"}
    BY <2>1, <2>2, <2>3 DEF Handlers
  <2>4. CASE state[q] \in {"EMBRYO", "DEAD"}
    <3>1. CASE parent[q] \in Procs /\ child[parent[q]] = q
      <4>1. \A p \in Procs : child[p] = q => p = parent[q]
        BY <3>1 DEF IInv, ChildInv
      <4>2. parent[q] \in Handlers(q) /\ \A x \in Handlers(q) : x = parent[q]
        BY <2>2, <3>1, <4>1 DEF Handlers
      <4> QED
        BY <2>4, <4>2, OneMember
    <3>2. CASE reapi = q /\ spc[BSP] \in {"r_free", "r_unused"}
      <4>1. BSP \in Handlers(q) /\ \A x \in Handlers(q) : x = BSP
        BY <2>2, <3>2 DEF Handlers
      <4> QED
        BY <2>4, <4>1, OneMember
    <3> QED
      BY <2>4, <3>1, <3>2 DEF OwnInv, HandlerInv
  <2> QED
    BY <2>3, <2>4
<1> QED
  BY <1>1, Inductive, OwnersInvariant, PTL
=============================================================================

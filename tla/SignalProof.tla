---------------------------- MODULE SignalProof -----------------------------
(***************************************************************************)
(* Proofs about Signal, for any number of processes, any set of signals    *)
(* and any programs: nobody sleeps through a signal or through the news of *)
(* a child, and SIGKILL wins over stopping.                                *)
(***************************************************************************)
EXTENDS Signal, WellFoundedInduction, TLAPS

-----------------------------------------------------------------------------
(* What the operators on one struct process do.                             *)

\* The two invariants that speak of one process.
Calm(r) == /\ r.state = "BLOCKED" => ~signal_interrupted(r)
           /\ r.state = "STOPPED" => ~r.killed

\* r2 can replace r behind the back of the process and of its parent: it is woken
\* or stays as it is, and is no news to anybody that it was not before.
Behind(r, r2) ==
    /\ r2.state = r.state \/ (r.state \in {"BLOCKED", "STOPPED"} /\ r2.state = "RUNNING")
    /\ r2.parent = r.parent /\ r2.reported = r.reported

\* next_signal finds the lowest number of a set of signals that is not empty.
LEMMA LowestSignal ==
  ASSUME NEW S \in SUBSET Sigs, S # {}
  PROVE  \E s \in S : \A t \in S : s <= t
<1>1. S \subseteq Nat
  BY SigsAssumption
<1>2. PICK s \in S : \A t \in S : ~(<<t, s>> \in OpToRel(<, Nat))
  BY <1>1, WFMin, NatLessThanWellFounded
<1>3. ASSUME NEW t \in S
      PROVE  s <= t
  <2>1. <<t, s>> \in Nat \X Nat
    BY <1>1
  <2>2. ~(t < s)
    BY <1>2, <2>1 DEF OpToRel
  <2> QED
    BY <1>1, <2>2
<1> QED
  BY <1>3

\* next_signal gives a signal of the process, or 0.
LEMMA NextSignalType ==
  ASSUME NEW r \in ProcType
  PROVE  next_signal(r) \in Sigs \cup {0}
<1> DEFINE ready == r.pending \ r.blocked
<1>1. ready \in SUBSET Sigs /\ SIGKILL \in Sigs
  BY SigsAssumption DEF ProcType
<1>2. CASE r.killed \/ SIGKILL \in ready
  BY <1>1, <1>2 DEF next_signal
<1>3. CASE ~(r.killed \/ SIGKILL \in ready) /\ ready = {}
  BY <1>3 DEF next_signal
<1>4. CASE ~(r.killed \/ SIGKILL \in ready) /\ ready # {}
  <2>1. next_signal(r) = CHOOSE s \in ready : \A t \in ready : s <= t
    BY <1>4 DEF next_signal
  <2> HIDE DEF ready
  <2>2. \E s \in ready : \A t \in ready : s <= t
    BY <1>1, <1>4, LowestSignal
  <2>3. next_signal(r) \in ready
    BY <2>1, <2>2
  <2> QED
    BY <1>1, <2>3
<1> QED
  BY <1>2, <1>3, <1>4

\* What job control leaves of a struct process, field by field.
LEMMA JobControlDoes ==
  ASSUME NEW r \in ProcType, NEW s \in Sigs
  PROVE  LET j == JobControl(r, s) IN
         /\ j \in ProcType
         /\ j.state = IF s = SIGCONT /\ r.state = "STOPPED" THEN "RUNNING" ELSE r.state
         /\ j.killed = (r.killed \/ s = SIGKILL)
         /\ j.pending \subseteq r.pending
         /\ j.blocked = r.blocked /\ j.actions = r.actions
         /\ j.parent = r.parent /\ j.reported = r.reported
BY DEF JobControl, ProcType, States

\* A signal never puts a process to sleep or stops it, and wakes whom it concerns.
LEMMA SendDoes ==
  ASSUME NEW r \in ProcType, NEW s \in Sigs
  PROVE  LET r2 == signal_send_locked(r, s) IN
         r2 \in ProcType /\ Behind(r, r2) /\ (Calm(r) => Calm(r2))
<1> DEFINE j == JobControl(r, s)
           r2 == signal_send_locked(r, s)
<1>1. /\ j \in ProcType
      /\ j.state = IF s = SIGCONT /\ r.state = "STOPPED" THEN "RUNNING" ELSE r.state
      /\ j.killed = (r.killed \/ s = SIGKILL)
      /\ j.pending \subseteq r.pending
      /\ j.blocked = r.blocked /\ j.actions = r.actions
      /\ j.parent = r.parent /\ j.reported = r.reported
  BY JobControlDoes
<1>2. CASE r.state \in {"ZOMBIE", "DEAD"}
  <2>1. r2 = r
    BY <1>2 DEF signal_send_locked
  <2> QED
    BY <2>1 DEF Behind
<1>3. CASE r.state \notin {"ZOMBIE", "DEAD"} /\ Ignored(j, s)
  <2>1. r2 = j
    BY <1>3 DEF signal_send_locked
  <2>2. s # SIGKILL
    BY <1>3 DEF Ignored, UNBLOCKABLE
  <2> HIDE DEF j, r2
  <2>3. Behind(r, r2)
    BY <1>1, <2>1 DEF Behind
  <2>4. Calm(r) => Calm(r2)
    BY <1>1, <2>1, <2>2 DEF Calm, signal_interrupted
  <2> QED
    BY <1>1, <2>1, <2>3, <2>4 DEF r2
<1>4. CASE r.state \notin {"ZOMBIE", "DEAD"} /\ ~Ignored(j, s)
  <2> DEFINE wake == s \notin j.blocked \ UNBLOCKABLE /\ Wakes(j, s)
  <2>1. r2 = [j EXCEPT !.pending = @ \cup {s}, !.state = IF wake THEN "RUNNING" ELSE @]
    BY <1>4 DEF signal_send_locked
  <2> HIDE DEF j, r2, wake
  <2>2. /\ r2 \in ProcType
        /\ r2.state = IF wake THEN "RUNNING" ELSE j.state
        /\ r2.pending = j.pending \cup {s}
        /\ r2.killed = j.killed /\ r2.blocked = j.blocked
        /\ r2.parent = j.parent /\ r2.reported = j.reported
    BY <1>1, <2>1 DEF ProcType, States
  <2>3. wake => j.state \in {"BLOCKED", "STOPPED"}
    BY DEF wake, Wakes
  <2>4. Behind(r, r2)
    BY <1>1, <2>2, <2>3 DEF Behind
  <2>5. ASSUME Calm(r), r2.state = "BLOCKED"
        PROVE  ~signal_interrupted(r2)
    <3>1. ~wake /\ j.state = "BLOCKED" /\ r.state = "BLOCKED"
      BY <1>1, <2>2, <2>5
    <3>2. s \in j.blocked /\ s \notin UNBLOCKABLE
      BY <3>1 DEF wake, Wakes
    <3> QED
      BY <1>1, <2>2, <2>5, <3>1, <3>2 DEF Calm, signal_interrupted, UNBLOCKABLE
  <2>6. ASSUME Calm(r), r2.state = "STOPPED"
        PROVE  ~r2.killed
    <3>1. ~wake /\ j.state = "STOPPED" /\ r.state = "STOPPED"
      BY <1>1, <2>2, <2>6
    <3>2. s # SIGKILL
      BY <3>1 DEF wake, Wakes, UNBLOCKABLE
    <3> QED
      BY <1>1, <2>2, <2>6, <3>1, <3>2 DEF Calm
  <2> QED
    BY <2>2, <2>4, <2>5, <2>6 DEF Calm, r2
<1> QED
  BY <1>2, <1>3, <1>4

\* wakeup_locked and SIGCHLD: the parent does not sleep in proc_wait afterwards.
LEMMA TellDoes ==
  ASSUME proc \in [Procs -> ProcType], NEW p \in Procs, NEW r \in ProcType
  PROVE  LET all == TellParent(p, r) IN
         /\ all \in [Procs -> ProcType]
         /\ all[p] = r
         /\ \A q \in Procs \ {p} :
               /\ Behind(proc[q], all[q])
               /\ Calm(proc[q]) => Calm(all[q])
               /\ q = r.parent /\ call[q] = "wait" => all[q].state # "BLOCKED"
<1> DEFINE all == TellParent(p, r)
           woken(q) == [proc[q] EXCEPT !.state = IF @ = "BLOCKED" /\ call[q] = "wait"
                                                 THEN "RUNNING" ELSE @]
<1>1. DOMAIN all = Procs /\ all = [q \in Procs |-> all[q]] /\ all[p] = r
  BY DEF TellParent
<1>2. ASSUME NEW q \in Procs \ {p}, q # r.parent
      PROVE  all[q] = proc[q]
  BY <1>2 DEF TellParent
<1>3. ASSUME NEW q \in Procs \ {p}, q = r.parent
      PROVE  all[q] = signal_send_locked(woken(q), SIGCHLD)
  BY <1>3 DEF TellParent
<1> HIDE DEF all
<1>4. ASSUME NEW q \in Procs \ {p}
      PROVE  /\ woken(q) \in ProcType
             /\ woken(q).state = IF proc[q].state = "BLOCKED" /\ call[q] = "wait"
                                 THEN "RUNNING" ELSE proc[q].state
             /\ woken(q).parent = proc[q].parent /\ woken(q).reported = proc[q].reported
             /\ woken(q).killed = proc[q].killed
             /\ woken(q).pending = proc[q].pending /\ woken(q).blocked = proc[q].blocked
  BY DEF ProcType, States
<1> HIDE DEF woken
<1>5. ASSUME NEW q \in Procs \ {p}
      PROVE  /\ all[q] \in ProcType
             /\ Behind(proc[q], all[q])
             /\ Calm(proc[q]) => Calm(all[q])
             /\ q = r.parent /\ call[q] = "wait" => all[q].state # "BLOCKED"
  <2>1. CASE q # r.parent
    BY <1>2, <2>1 DEF Behind
  <2>2. CASE q = r.parent
    <3>1. SIGCHLD \in Sigs
      BY SigsAssumption
    <3>2. /\ all[q] \in ProcType /\ Behind(woken(q), all[q])
          /\ Calm(woken(q)) => Calm(all[q])
      BY <1>3, <1>4, <2>2, <3>1, SendDoes
    <3>3. Calm(proc[q]) => Calm(woken(q))
      BY <1>4 DEF Calm, signal_interrupted
    <3> QED
      BY <1>4, <3>2, <3>3 DEF Behind
  <2> QED
    BY <2>1, <2>2
<1>6. all \in [Procs -> ProcType]
  BY <1>1, <1>5
<1> QED
  BY <1>1, <1>5, <1>6 DEF all

-----------------------------------------------------------------------------
(* Steps.                                                                   *)

\* The invariants of single processes.
LEMMA AllCalm ==
  (\A p \in Procs : Calm(proc[p])) <=> SleepersUninterrupted /\ KilledNotStopped
BY DEF Calm, SleepersUninterrupted, KilledNotStopped

\* A step of a running process that keeps running and keeps its parent, and leaves
\* the others alone, disturbs none of the three.
LEMMA RunningStep ==
  ASSUME IInv, NEW p \in Procs, NEW r \in ProcType, proc' = [proc EXCEPT ![p] = r],
         proc[p].state = "RUNNING", r.state = "RUNNING", r.parent = proc[p].parent,
         \A q \in Procs \ {p} : call'[q] = call[q]
  PROVE  /\ proc' \in [Procs -> ProcType]
         /\ SleepersUninterrupted' /\ WaiterTold' /\ KilledNotStopped'
<1>1. proc \in [Procs -> ProcType] /\ proc' \in [Procs -> ProcType]
  BY DEF IInv, TypeOK
<1>2. \A q \in Procs : proc'[q] = IF q = p THEN r ELSE proc[q]
  BY <1>1
<1>3. SleepersUninterrupted' /\ KilledNotStopped'
  BY <1>2 DEF IInv, SleepersUninterrupted, KilledNotStopped
<1>4. WaiterTold'
  BY <1>2 DEF IInv, WaiterTold, Children, News
<1> QED
  BY <1>1, <1>3, <1>4

\* Signals sent to any set of processes.
LEMMA KillStep ==
  ASSUME IInv, NEW T, NEW s \in Sigs, Kill(T, s), prog' = prog
  PROVE  IInv'
<1>1. proc \in [Procs -> ProcType]
  BY DEF IInv, TypeOK
<1>2. ASSUME NEW q \in Procs
      PROVE  proc'[q] \in ProcType /\ Behind(proc[q], proc'[q]) /\ Calm(proc'[q])
  <2>1. Calm(proc[q])
    BY AllCalm DEF IInv
  <2>2. CASE q \in T
    <3>1. proc'[q] = signal_send_locked(proc[q], s)
      BY <2>2 DEF Kill
    <3> QED
      BY <1>1, <2>1, <3>1, SendDoes
  <2>3. CASE q \notin T
    <3>1. proc'[q] = proc[q]
      BY <2>3 DEF Kill
    <3> QED
      BY <1>1, <2>1, <3>1 DEF Behind
  <2> QED
    BY <2>2, <2>3
<1>3. proc' = [q \in Procs |-> proc'[q]]
  BY DEF Kill
<1>4. TypeOK'
  <2>1. proc' \in [Procs -> ProcType]
    BY <1>2, <1>3
  <2> QED
    BY <2>1 DEF IInv, TypeOK, Kill
<1>5. SleepersUninterrupted' /\ KilledNotStopped'
  BY <1>2 DEF Calm, SleepersUninterrupted, KilledNotStopped
<1>6. WaiterTold'
  <2>1. call' = call
    BY DEF Kill
  <2> QED
    BY <1>2, <2>1 DEF IInv, WaiterTold, Children, News, Behind
<1>7. Acting'
  BY DEF IInv, Acting, Kill
<1> QED
  BY <1>4, <1>5, <1>6, <1>7 DEF IInv

\* The parts of the state that are not struct process.
RestOK ==
    /\ pc \in [Procs -> Pcs]
    /\ call \in [Procs -> prog.calls \cup {None}]
    /\ result \in [Procs -> Results]
    /\ taken \in [Procs -> [sig : Sigs \cup {0}, act : Handlers]]
    /\ frames \in [Procs -> Seq([mask : SUBSET Sigs, result : Results,
                                 call : prog.calls \cup {None}])]
    /\ prog \in Programs
    /\ Acting

\* The invariant, taken apart and put together.
LEMMA Parts ==
  /\ IInv => RestOK /\ proc \in [Procs -> ProcType]
  /\ RestOK' /\ proc' \in [Procs -> ProcType]
        /\ SleepersUninterrupted' /\ WaiterTold' /\ KilledNotStopped' => IInv'
BY DEF IInv, TypeOK, RestOK

\* The stack of signal frames.
LEMMA Frames ==
  ASSUME NEW S, NEW s \in Seq(S)
  PROVE  /\ \A x \in S : Append(s, x) \in Seq(S)
         /\ s # <<>> => s[Len(s)] \in S /\ SubSeq(s, 1, Len(s) - 1) \in Seq(S)
OBVIOUS

\* Steps of a running process that change no struct process.
LEMMA QuietStep ==
  ASSUME IInv, NEW p \in Procs, proc[p].state = "RUNNING", proc' = proc, RestOK',
         \A q \in Procs \ {p} : call'[q] = call[q]
  PROVE  IInv'
<1>1. proc[p] \in ProcType /\ proc' = [proc EXCEPT ![p] = proc[p]]
  BY Parts
<1> QED
  BY <1>1, Parts, RunningStep

\* System calls that begin, end or go round, interrupts, and the decisions of delivery.
LEMMA QuietActions ==
  ASSUME IInv, NEW p \in Procs, prog' = prog,
         \/ \E c \in prog.calls : Syscall(p, c)
         \/ SyscallEnd(p) \/ Interrupt(p) \/ Exit(p)
         \/ DeliverKilled(p) \/ DeliverNone(p) \/ DeliverAct(p) \/ FrameFails(p)
         \/ ((Pause(p) \/ Wait(p)) /\ proc' = proc)
  PROVE  IInv'
<1> USE Parts DEF RestOK, Acting, At, Goto, Pcs, Results, Return
<1>1. CASE \E c \in prog.calls : Syscall(p, c)
  <2>1. PICK c \in prog.calls : Syscall(p, c)
    BY <1>1
  <2>2. proc[p].state = "RUNNING" /\ proc' = proc /\ \A q \in Procs \ {p} : call'[q] = call[q]
    BY <2>1 DEF Syscall
  <2>3. RestOK'
    BY <2>1 DEF Syscall
  <2> QED
    BY <2>2, <2>3, QuietStep
<1>2. CASE SyscallEnd(p)
  BY <1>2, QuietStep DEF SyscallEnd
<1>3. CASE Interrupt(p) \/ Exit(p) \/ DeliverKilled(p) \/ FrameFails(p)
  <2>1. proc[p].state = "RUNNING" /\ proc' = proc /\ call' = call
    BY <1>3 DEF Interrupt, Exit, DeliverKilled, FrameFails
  <2>2. RestOK'
    BY <1>3 DEF Interrupt, Exit, DeliverKilled, FrameFails
  <2> QED
    BY <2>1, <2>2, QuietStep
<1>4. CASE DeliverNone(p)
  <2>1. proc[p].state = "RUNNING" /\ proc' = proc /\ \A q \in Procs \ {p} : call'[q] = call[q]
    BY <1>4 DEF DeliverNone, ToUser
  <2>2. RestOK'
    BY <1>4 DEF DeliverNone, ToUser
  <2> QED
    BY <2>1, <2>2, QuietStep
<1>5. CASE DeliverAct(p)
  <2> DEFINE l == CASE taken[p].act = "IGN" -> "deliver"
                    [] taken[p].act = "DFL" /\ default_ignore(taken[p].sig) -> "deliver"
                    [] taken[p].act = "DFL" /\ default_stop(taken[p].sig) -> "stop"
                    [] taken[p].act = "DFL" /\ ~default_ignore(taken[p].sig)
                         /\ ~default_stop(taken[p].sig) -> "exit"
                    [] OTHER -> "frame"
  <2>1. l \in Pcs
    OBVIOUS
  <2>2. pc' = [pc EXCEPT ![p] = l] /\ UNCHANGED <<proc, call, result, taken, frames>>
        /\ proc[p].state = "RUNNING"
    BY <1>5 DEF DeliverAct
  <2> HIDE DEF l
  <2>3. l = "frame" \/ l = "act" => taken[p].sig # 0
    BY <1>5 DEF DeliverAct
  <2>4. RestOK'
    BY <2>1, <2>2, <2>3
  <2> QED
    BY <2>2, <2>4, QuietStep
<1>6. CASE (Pause(p) \/ Wait(p)) /\ proc' = proc
  <2>1. proc[p].state = "RUNNING" /\ UNCHANGED <<call, taken, frames>>
    BY <1>6 DEF Pause, Wait
  <2>2. pc' \in [Procs -> Pcs] /\ result' \in [Procs -> Results]
    BY <1>6 DEF Pause, Wait
  <2>3. Acting'
    BY <1>6, <2>1 DEF Pause, Wait
  <2>4. RestOK'
    BY <2>1, <2>2, <2>3
  <2> QED
    BY <1>6, <2>1, <2>4, QuietStep
<1> QED
  BY <1>1, <1>2, <1>3, <1>4, <1>5, <1>6

\* System calls and delivery change the process's own signals, mask and actions.
LEMMA OwnActions ==
  ASSUME IInv, NEW p \in Procs, prog' = prog,
         \/ \E s \in prog.caught, h \in prog.set : sys_sigaction(p, s, h)
         \/ \E m \in SUBSET prog.masked : sys_sigprocmask(p, m)
         \/ \E s \in prog.faults : Exception(p, s)
         \/ \E m \in {{}, prog.masked}, n, r \in BOOLEAN : SetupFrame(p, m, n, r)
         \/ sys_sigreturn(p) \/ DeliverTake(p)
  PROVE  IInv'
<1>p. prog.caught \subseteq Sigs /\ prog.set \subseteq Handlers /\ prog.masked \subseteq Sigs
      /\ prog.faults \subseteq Sigs
  BY Parts, ProgramAssumption DEF RestOK, Acting, ProgramType
<1>t. proc[p] \in ProcType /\ RestOK
  BY Parts
<1> USE DEF At, Goto, Set
<1>1. CASE \E s \in prog.caught, h \in prog.set : sys_sigaction(p, s, h)
  <2>1. PICK s \in prog.caught, h \in prog.set : sys_sigaction(p, s, h)
    BY <1>1
  <2> DEFINE r == [proc[p] EXCEPT
                     !.actions[s] = h,
                     !.pending = IF h = "IGN" \/ (h = "DFL" /\ default_ignore(s))
                                 THEN @ \ {s} ELSE @]
  <2>2. r \in ProcType /\ r.state = proc[p].state /\ r.parent = proc[p].parent
    BY <1>p, <1>t DEF ProcType
  <2>3. proc' = [proc EXCEPT ![p] = r] /\ proc[p].state = "RUNNING" /\ call' = call
    BY <2>1 DEF sys_sigaction
  <2>4. RestOK'
    BY <1>t, <2>1 DEF RestOK, Acting, sys_sigaction, Pcs
  <2> HIDE DEF r
  <2> QED
    BY <2>2, <2>3, <2>4, RunningStep, Parts
<1>2. CASE \E m \in SUBSET prog.masked : sys_sigprocmask(p, m)
  <2>1. PICK m \in SUBSET prog.masked : sys_sigprocmask(p, m)
    BY <1>2
  <2> DEFINE r == [proc[p] EXCEPT !.blocked = NewMask(m)]
  <2>2. r \in ProcType /\ r.state = proc[p].state /\ r.parent = proc[p].parent
    BY <1>p, <1>t DEF ProcType, NewMask
  <2>3. proc' = [proc EXCEPT ![p] = r] /\ proc[p].state = "RUNNING" /\ call' = call
    BY <2>1 DEF sys_sigprocmask
  <2>4. RestOK'
    BY <1>t, <2>1 DEF RestOK, Acting, sys_sigprocmask, Pcs
  <2> HIDE DEF r
  <2> QED
    BY <2>2, <2>3, <2>4, RunningStep, Parts
<1>3. CASE \E s \in prog.faults : Exception(p, s)
  <2>1. PICK s \in prog.faults : Exception(p, s)
    BY <1>3
  <2> DEFINE r == signal_force(proc[p], s)
  <2>2. r \in ProcType /\ r.state = proc[p].state /\ r.parent = proc[p].parent
    <3> DEFINE reset == proc[p].actions[s] = "IGN" \/ s \in proc[p].blocked
               acts == [proc[p].actions EXCEPT ![s] = IF reset THEN "DFL" ELSE @]
               mask == IF reset THEN proc[p].blocked \ {s} ELSE proc[p].blocked
    <3>1. r = [proc[p] EXCEPT !.actions = acts, !.blocked = mask,
                              !.pending = @ \cup {s}]
      BY DEF signal_force
    <3>2. acts \in [Sigs -> Handlers] /\ mask \in SUBSET Sigs
      BY <1>p, <1>t DEF ProcType, Handlers
    <3> HIDE DEF acts, mask, r
    <3> QED
      BY <1>p, <1>t, <3>1, <3>2 DEF ProcType
  <2>3. proc' = [proc EXCEPT ![p] = r] /\ proc[p].state = "RUNNING" /\ call' = call
    BY <2>1 DEF Exception
  <2> HIDE DEF r
  <2>4. RestOK'
    BY <1>t, <2>1 DEF RestOK, Acting, Exception, Pcs
  <2> QED
    BY <2>2, <2>3, <2>4, RunningStep, Parts
<1>4. CASE \E m \in {{}, prog.masked}, n, r \in BOOLEAN : SetupFrame(p, m, n, r)
  <2>1. PICK m \in {{}, prog.masked}, n, reset \in BOOLEAN : SetupFrame(p, m, n, reset)
    BY <1>4
  <2> DEFINE s == taken[p].sig
             r == [proc[p] EXCEPT
                     !.blocked = @ \cup NewMask(m) \cup (IF n THEN {} ELSE {s}),
                     !.actions[s] = IF reset THEN "DFL" ELSE @]
             f == [mask |-> proc[p].blocked, result |-> result[p], call |-> call[p]]
  <2>2. s \in Sigs
    BY <1>t, <2>1 DEF RestOK, Acting, SetupFrame
  <2>3. r \in ProcType /\ r.state = proc[p].state /\ r.parent = proc[p].parent
    BY <1>p, <1>t, <2>2 DEF ProcType, NewMask, Handlers
  <2>4. proc' = [proc EXCEPT ![p] = r] /\ proc[p].state = "RUNNING"
        /\ call' = [call EXCEPT ![p] = None]
    BY <2>1 DEF SetupFrame
  <2>5. f \in [mask : SUBSET Sigs, result : Results, call : prog.calls \cup {None}]
    BY <1>t DEF RestOK, Acting, ProcType
  <2>6. frames' = [frames EXCEPT ![p] = Append(@, f)]
    BY <2>1 DEF SetupFrame
  <2> HIDE DEF r, f, s
  <2>a. frames' \in [Procs -> Seq([mask : SUBSET Sigs, result : Results,
                                   call : prog.calls \cup {None}])]
    BY <1>t, <2>5, <2>6, Frames DEF RestOK
  <2>7. RestOK'
    BY <1>t, <2>1, <2>a DEF RestOK, Acting, SetupFrame, Pcs, Results
  <2> QED
    BY <2>3, <2>4, <2>7, RunningStep, Parts DEF RestOK
<1>5. CASE sys_sigreturn(p)
  <2> DEFINE f == frames[p][Len(frames[p])]
             r == [proc[p] EXCEPT !.blocked = NewMask(f.mask)]
  <2>1. f \in [mask : SUBSET Sigs, result : Results, call : prog.calls \cup {None}]
    BY <1>5, <1>t, Frames DEF RestOK, sys_sigreturn
  <2>2. /\ proc' = [proc EXCEPT ![p] = r] /\ proc[p].state = "RUNNING"
        /\ call' = [call EXCEPT ![p] = f.call]
        /\ result' = [result EXCEPT ![p] = f.result]
        /\ frames[p] # <<>>
        /\ frames' = [frames EXCEPT ![p] = SubSeq(@, 1, Len(@) - 1)]
    BY <1>5 DEF sys_sigreturn
  <2> HIDE DEF f
  <2>3. r \in ProcType /\ r.state = proc[p].state /\ r.parent = proc[p].parent
    BY <1>t, <2>1 DEF ProcType, NewMask
  <2>4. frames' \in [Procs -> Seq([mask : SUBSET Sigs, result : Results,
                                   call : prog.calls \cup {None}])]
    BY <1>t, <2>2, Frames DEF RestOK
  <2>5. RestOK'
    BY <1>5, <1>t, <2>1, <2>2, <2>4 DEF RestOK, Acting, sys_sigreturn, Pcs
  <2> HIDE DEF r
  <2> QED
    BY <1>t, <2>2, <2>3, <2>5, RunningStep, Parts DEF RestOK
<1>6. CASE DeliverTake(p)
  <2> DEFINE s == next_signal(proc[p])
             r == [proc[p] EXCEPT !.pending = @ \ {s}]
  <2>1. s \in Sigs /\ s # 0
    BY <1>6, <1>t, NextSignalType DEF DeliverTake
  <2>2. /\ proc' = [proc EXCEPT ![p] = r] /\ proc[p].state = "RUNNING"
        /\ taken' = [taken EXCEPT ![p] = [sig |-> s, act |-> proc[p].actions[s]]]
        /\ UNCHANGED <<call, result, frames>> /\ pc' = [pc EXCEPT ![p] = "act"]
    BY <1>6 DEF DeliverTake
  <2> HIDE DEF s
  <2>3. r \in ProcType /\ r.state = proc[p].state /\ r.parent = proc[p].parent
    BY <1>t DEF ProcType
  <2>4. [sig |-> s, act |-> proc[p].actions[s]] \in [sig : Sigs \cup {0}, act : Handlers]
    BY <1>t, <2>1 DEF ProcType
  <2>5. RestOK'
    <3>1. Acting'
      BY <1>t, <2>1, <2>2 DEF RestOK, Acting
    <3> QED
      BY <1>t, <2>2, <2>4, <3>1 DEF RestOK, Pcs
  <2> HIDE DEF r
  <2> QED
    BY <2>2, <2>3, <2>5, RunningStep, Parts
<1> QED
  BY <1>1, <1>2, <1>3, <1>4, <1>5, <1>6

\* proc_sleep in pause and sleep: the test of signal_interrupted and the block are
\* one critical section.
LEMMA BlockStep ==
  ASSUME IInv, NEW p \in Procs, prog' = prog, proc[p].state = "RUNNING",
         ~signal_interrupted(proc[p]),
         call[p] = "wait" => ~\E q \in Children(p) : News(q),
         Set(p, Block(proc[p])), UNCHANGED <<pc, call, result, taken, frames>>
  PROVE  IInv'
<1>1. proc \in [Procs -> ProcType] /\ RestOK /\ RestOK'
  BY Parts DEF RestOK, Acting
<1>2. /\ Block(proc[p]) \in ProcType /\ Block(proc[p]).state = "BLOCKED"
      /\ Block(proc[p]).parent = proc[p].parent
      /\ signal_interrupted(Block(proc[p])) = signal_interrupted(proc[p])
  BY <1>1 DEF Block, ProcType, States, signal_interrupted
<1>3. \A q \in Procs : proc'[q] = IF q = p THEN Block(proc[p]) ELSE proc[q]
  BY <1>1 DEF Set
<1>4. proc' \in [Procs -> ProcType]
  BY <1>1, <1>2 DEF Set
<1>5. SleepersUninterrupted' /\ KilledNotStopped'
  BY <1>2, <1>3 DEF IInv, SleepersUninterrupted, KilledNotStopped
<1>6. WaiterTold'
  BY <1>2, <1>3 DEF IInv, WaiterTold, Children, News
<1> QED
  BY <1>1, <1>4, <1>5, <1>6, Parts

\* proc_wait collects the news of a child: it is news no longer.
LEMMA CollectStep ==
  ASSUME IInv, NEW p \in Procs, prog' = prog, At(p, "call"),
         NEW q \in Children(p), News(q),
         Set(q, IF proc[q].state = "ZOMBIE" THEN [proc[q] EXCEPT !.state = "DEAD"]
                                            ELSE [proc[q] EXCEPT !.reported = TRUE]),
         Return(p, "ok"), UNCHANGED <<call, taken, frames>>
  PROVE  IInv'
<1> DEFINE r == IF proc[q].state = "ZOMBIE" THEN [proc[q] EXCEPT !.state = "DEAD"]
                                            ELSE [proc[q] EXCEPT !.reported = TRUE]
<1>1. proc \in [Procs -> ProcType] /\ RestOK /\ q \in Procs
  BY Parts DEF Children
<1>2. RestOK'
  BY <1>1 DEF RestOK, Acting, Return, Goto, Pcs, Results
<1>3. /\ r \in ProcType /\ r.parent = proc[q].parent /\ r.killed = proc[q].killed
      /\ r.state \in {"DEAD", "STOPPED"} /\ (r.state = "STOPPED" => r.reported)
      /\ r.state = "STOPPED" => proc[q].state = "STOPPED"
  BY <1>1 DEF ProcType, States, News
<1>4. proc' = [proc EXCEPT ![q] = r]
  BY DEF Set
<1> HIDE DEF r
<1>5. proc' \in [Procs -> ProcType] /\ \A x \in Procs : proc'[x] = IF x = q THEN r ELSE proc[x]
  BY <1>1, <1>3, <1>4
<1>6. SleepersUninterrupted' /\ KilledNotStopped'
  BY <1>1, <1>3, <1>5 DEF IInv, SleepersUninterrupted, KilledNotStopped
<1>7. WaiterTold'
  BY <1>1, <1>3, <1>5 DEF IInv, WaiterTold, Children, News
<1> QED
  BY <1>2, <1>5, <1>6, <1>7, Parts

\* The timer ends a sleep.
LEMMA SleepEndsStep ==
  ASSUME IInv, NEW p \in Procs, prog' = prog, SleepEnds(p)
  PROVE  IInv'
<1> DEFINE r == [proc[p] EXCEPT !.state = "RUNNING"]
<1>1. proc \in [Procs -> ProcType] /\ RestOK
  BY Parts
<1>2. RestOK'
  BY <1>1 DEF RestOK, Acting, SleepEnds, Return, Goto, Pcs, Results
<1>3. r \in ProcType /\ r.state = "RUNNING" /\ r.parent = proc[p].parent
  BY <1>1 DEF ProcType, States
<1>4. proc' = [proc EXCEPT ![p] = r] /\ call' = call
  BY DEF SleepEnds, Set
<1> HIDE DEF r
<1>5. proc' \in [Procs -> ProcType] /\ \A x \in Procs : proc'[x] = IF x = p THEN r ELSE proc[x]
  BY <1>1, <1>3, <1>4
<1>6. SleepersUninterrupted' /\ KilledNotStopped'
  BY <1>3, <1>5 DEF IInv, SleepersUninterrupted, KilledNotStopped
<1>7. WaiterTold'
  BY <1>3, <1>4, <1>5 DEF IInv, WaiterTold, Children, News
<1> QED
  BY <1>2, <1>5, <1>6, <1>7, Parts

\* proc_stop_self: not after SIGKILL, and the parent hears of it.
LEMMA StopStep ==
  ASSUME IInv, NEW p \in Procs, prog' = prog, StopSelf(p)
  PROVE  IInv'
<1>1. proc \in [Procs -> ProcType] /\ RestOK /\ \A q \in Procs : Calm(proc[q])
  BY Parts, AllCalm DEF IInv
<1>2. RestOK' /\ call' = call /\ proc[p].state = "RUNNING"
  BY <1>1 DEF RestOK, Acting, StopSelf, At, Goto, Pcs
<1>3. CASE proc[p].killed
  BY <1>2, <1>3, QuietStep DEF StopSelf
<1>4. CASE ~proc[p].killed
  <2> DEFINE r == [proc[p] EXCEPT !.state = "STOPPED", !.reported = FALSE]
  <2>1. r \in ProcType /\ r.state = "STOPPED" /\ r.parent = proc[p].parent /\ ~r.killed
    BY <1>1, <1>4 DEF ProcType, States
  <2>2. proc' = TellParent(p, r)
    BY <1>4 DEF StopSelf
  <2> HIDE DEF r
  <2>3. /\ proc' \in [Procs -> ProcType] /\ proc'[p] = r
        /\ \A q \in Procs \ {p} :
              /\ Behind(proc[q], proc'[q])
              /\ Calm(proc[q]) => Calm(proc'[q])
              /\ q = r.parent /\ call[q] = "wait" => proc'[q].state # "BLOCKED"
    BY <1>1, <2>1, <2>2, TellDoes
  <2>4. \A q \in Procs : Calm(proc'[q])
    BY <1>1, <2>1, <2>3 DEF Calm
  <2>5. SleepersUninterrupted' /\ KilledNotStopped'
    BY <2>4 DEF Calm, SleepersUninterrupted, KilledNotStopped
  <2>6. WaiterTold'
    BY <1>2, <2>1, <2>3 DEF IInv, WaiterTold, Children, News, Behind
  <2> QED
    BY <1>2, <2>3, <2>5, <2>6, Parts
<1> QED
  BY <1>3, <1>4

\* do_exit: the children are nobody's, the parent hears of it.
LEMMA ExitStep ==
  ASSUME IInv, NEW p \in Procs, prog' = prog, ExitZombie(p)
  PROVE  IInv'
<1> DEFINE r == [proc[p] EXCEPT !.state = "ZOMBIE"]
           all == TellParent(p, r)
<1>1. proc \in [Procs -> ProcType] /\ RestOK /\ \A q \in Procs : Calm(proc[q])
  BY Parts, AllCalm DEF IInv
<1>2. proc[p].state = "RUNNING" /\ \A q \in Procs \ {p} : call'[q] = call[q]
  BY DEF ExitZombie, At
<1>3. RestOK'
  <2>1. /\ pc' = [pc EXCEPT ![p] = "dead"] /\ call' = [call EXCEPT ![p] = None]
        /\ result' = [result EXCEPT ![p] = "none"]
        /\ frames' = [frames EXCEPT ![p] = <<>>] /\ taken' = taken
    BY DEF ExitZombie, Goto
  <2>2. frames' \in [Procs -> Seq([mask : SUBSET Sigs, result : Results,
                                   call : prog.calls \cup {None}])]
    <3> DEFINE F == [mask : SUBSET Sigs, result : Results, call : prog.calls \cup {None}]
    <3>1. frames \in [Procs -> Seq(F)]
      BY <1>1, Zenon DEF RestOK
    <3> HIDE DEF F
    <3>2. frames' \in [Procs -> Seq(F)]
      BY <2>1, <3>1
    <3> QED
      BY <3>2 DEF F
  <2> QED
    BY <1>1, <2>1, <2>2 DEF RestOK, Acting, Pcs, Results
<1>4. r \in ProcType /\ r.state = "ZOMBIE" /\ r.parent = proc[p].parent
  BY <1>1 DEF ProcType, States
<1>5. proc' = [q \in Procs |-> IF proc[q].parent = p THEN [all[q] EXCEPT !.parent = None]
                                                     ELSE all[q]]
  BY DEF ExitZombie
<1> HIDE DEF r
<1>6. /\ all \in [Procs -> ProcType] /\ all[p] = r
      /\ \A q \in Procs \ {p} :
            /\ Behind(proc[q], all[q])
            /\ Calm(proc[q]) => Calm(all[q])
            /\ q = r.parent /\ call[q] = "wait" => all[q].state # "BLOCKED"
  BY <1>1, <1>4, TellDoes
<1> HIDE DEF all
<1>7. ASSUME NEW q \in Procs
      PROVE  /\ proc'[q] \in ProcType
             /\ proc'[q].state = all[q].state /\ proc'[q].reported = all[q].reported
             /\ proc'[q].parent = IF proc[q].parent = p THEN None ELSE all[q].parent
             /\ Calm(proc'[q]) <=> Calm(all[q])
  BY ZenonT(40), <1>5, <1>6 DEF ProcType, Calm, signal_interrupted
<1>8. proc' \in [Procs -> ProcType]
  BY <1>5, <1>7
<1>9. \A q \in Procs : Calm(proc'[q])
  <2>1. Calm(r)
    BY <1>4 DEF Calm
  <2> QED
    BY <1>1, <1>6, <1>7, <2>1
<1>10. SleepersUninterrupted' /\ KilledNotStopped'
  BY <1>9 DEF Calm, SleepersUninterrupted, KilledNotStopped
<1>11. WaiterTold'
  <2> SUFFICES ASSUME NEW x \in Procs, proc'[x].state = "BLOCKED", call'[x] = "wait",
                      NEW q \in Procs, proc'[q].state # "DEAD", proc'[q].parent = x,
                      News(q)'
               PROVE  FALSE
    BY DEF WaiterTold, Children
  <2>1. x # p /\ proc[x].state = "BLOCKED" /\ call[x] = "wait"
    BY <1>2, <1>4, <1>6, <1>7 DEF Behind
  <2>2. None \notin Procs
    BY ProgramAssumption
  <2>3. proc[q].parent # p /\ all[q].parent = x
    BY <1>7, <2>2
  <2>4. CASE q = p
    BY <1>4, <1>6, <1>7, <2>1, <2>3, <2>4
  <2>5. CASE q # p
    <3>1. q \in Children(x) /\ News(q)
      BY <1>6, <1>7, <2>3, <2>5 DEF Behind, News, Children
    <3> QED
      BY <2>1, <3>1 DEF IInv, WaiterTold
  <2> QED
    BY <2>4, <2>5
<1> QED
  BY <1>3, <1>8, <1>10, <1>11, Parts

-----------------------------------------------------------------------------
\* The inductive invariant holds in every state.
THEOREM SignalInvariant == Spec => []IInv
<1>1. Init => IInv
  <2> SUFFICES ASSUME Init
               PROVE  IInv
    OBVIOUS
  <2>1. prog \in Programs /\ prog \in ProgramType
    BY ProgramAssumption DEF Init
  <2>2. PICK T \in SUBSET Procs : prog.parent \in [T -> T \cup {None}]
    BY <2>1 DEF ProgramType
  <2>3. \A p \in Live : prog.parent[p] \in Procs \cup {None}
    BY <2>2 DEF Live
  <2>4. ASSUME NEW p \in Procs
        PROVE  /\ proc[p] \in ProcType
               /\ proc[p].state \in {"RUNNING", "DEAD"}
    BY <2>3 DEF Init, ProcType, States, Handlers
  <2>5. proc \in [Procs -> ProcType]
    BY <2>4 DEF Init
  <2>6. RestOK
    <3>1. /\ pc \in [Procs -> Pcs] /\ call \in [Procs -> prog.calls \cup {None}]
          /\ result \in [Procs -> Results]
      BY DEF Init, Pcs, Results
    <3>2. taken \in [Procs -> [sig : Sigs \cup {0}, act : Handlers]]
      BY DEF Init, NoSignal, Handlers
    <3>3. frames \in [Procs -> Seq([mask : SUBSET Sigs, result : Results,
                                    call : prog.calls \cup {None}])]
      BY DEF Init
    <3>4. Acting
      BY DEF Init, Acting
    <3> QED
      BY <2>1, <3>1, <3>2, <3>3, <3>4 DEF RestOK
  <2>7. SleepersUninterrupted /\ WaiterTold /\ KilledNotStopped
    BY <2>4 DEF SleepersUninterrupted, WaiterTold, KilledNotStopped
  <2> QED
    BY <2>5, <2>6, <2>7 DEF IInv, TypeOK, RestOK
<1>2. IInv /\ [Next]_vars => IInv'
  <2> SUFFICES ASSUME IInv, [Next]_vars
               PROVE  IInv'
    OBVIOUS
  <2>1. CASE UNCHANGED vars
    BY <2>1 DEF vars, IInv, TypeOK, Acting, SleepersUninterrupted, WaiterTold,
                KilledNotStopped, Children, News
  <2>2. ASSUME Send, prog' = prog
        PROVE  IInv'
    <3>1. prog.sent \subseteq Sigs
      BY Parts, ProgramAssumption DEF RestOK, ProgramType
    <3> QED
      BY <2>2, <3>1, KillStep DEF Send
  <2>3. ASSUME NEW p \in Procs, prog' = prog,
               KernelStep(p) \/ Program(p) \/ Interrupt(p) \/ SleepEnds(p)
        PROVE  IInv'
    <3>1. CASE Pause(p)
      <4>1. CASE proc' = proc
        BY <2>3, <3>1, <4>1, QuietActions
      <4>2. CASE ~(proc' = proc)
        <5>1. ~signal_interrupted(proc[p]) /\ Set(p, Block(proc[p]))
              /\ UNCHANGED <<pc, call, result, taken, frames>>
              /\ proc[p].state = "RUNNING" /\ call[p] # "wait"
          BY <3>1, <4>2 DEF Pause, At
        <5> QED
          BY <2>3, <5>1, BlockStep
      <4> QED
        BY <4>1, <4>2
    <3>2. CASE Wait(p)
      <4>1. CASE proc' = proc
        BY <2>3, <3>2, <4>1, QuietActions
      <4>2. CASE \E q \in Children(p) :
                    /\ News(q)
                    /\ Set(q, IF proc[q].state = "ZOMBIE"
                              THEN [proc[q] EXCEPT !.state = "DEAD"]
                              ELSE [proc[q] EXCEPT !.reported = TRUE])
                    /\ Return(p, "ok")
        BY <2>3, <3>2, <4>2, CollectStep DEF Wait
      <4>3. CASE /\ ~\E q \in Children(p) : News(q)
                 /\ ~signal_interrupted(proc[p])
                 /\ Set(p, Block(proc[p])) /\ UNCHANGED <<pc, result>>
        <5>1. proc[p].state = "RUNNING" /\ UNCHANGED <<call, taken, frames>>
          BY <3>2 DEF Wait, At
        <5> QED
          BY <2>3, <4>3, <5>1, BlockStep
      <4> QED
        BY <3>2, <4>1, <4>2, <4>3 DEF Wait
    <3>3. CASE StopSelf(p)
      BY <2>3, <3>3, StopStep
    <3>4. CASE ExitZombie(p)
      BY <2>3, <3>4, ExitStep
    <3>5. CASE SleepEnds(p)
      BY <2>3, <3>5, SleepEndsStep
    <3> QED
      BY <2>3, <3>1, <3>2, <3>3, <3>4, <3>5, QuietActions, OwnActions DEF KernelStep, Program
  <2> QED
    BY <2>1, <2>2, <2>3 DEF Next
<1> QED
  BY <1>1, <1>2, PTL DEF Spec

\* No process sleeps in pause, sleep or wait with a signal to react to: what the tests
\* of signal_interrupted under proc_lock are for.
THEOREM NobodySleepsThroughSignal == Spec => []SleepersUninterrupted
<1>1. IInv => SleepersUninterrupted
  BY DEF IInv
<1> QED
  BY <1>1, SignalInvariant, PTL

\* No parent sleeps in proc_wait with a child's news to collect.
THEOREM ParentsTold == Spec => []WaiterTold
<1>1. IInv => WaiterTold
  BY DEF IInv
<1> QED
  BY <1>1, SignalInvariant, PTL

\* A process that SIGKILL was sent to is not stopped, in whatever order SIGKILL, the
\* stop signals and SIGCONT come.
THEOREM KillBeatsStop == Spec => []KilledNotStopped
<1>1. IInv => KilledNotStopped
  BY DEF IInv
<1> QED
  BY <1>1, SignalInvariant, PTL
=============================================================================

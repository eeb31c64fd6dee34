------------------------------- MODULE Signal -------------------------------
(***************************************************************************)
(* Signals and job control (proc/signal.c, with proc_stop_self, proc_wait, *)
(* do_exit and proc_sleep_ms of proc/process.c, the end of syscall_dispatch*)
(* in sys/syscall.c and of interrupt_dispatch in arch/interrupts.c).       *)
(*                                                                         *)
(* Everything signals touch is read and written under proc_lock, so a step *)
(* is a critical section; what is interesting lies between them: a signal  *)
(* taken out of sig_pending but not acted on, a decision to restart a call *)
(* made before the signal that will be delivered is known.                 *)
(***************************************************************************)
EXTENDS Integers, Sequences, FiniteSets

CONSTANTS
    Procs,          \* slots for user processes
    None,
    Sigs,           \* signals of this instance
    Programs        \* what the processes of a behaviour do (ProgramType)

SIGKILL  == 9
SIGSEGV  == 11
SIGCHLD  == 17
SIGCONT  == 18
SIGSTOP  == 19
SIGWINCH == 28

UNBLOCKABLE  == {SIGKILL, SIGSTOP}
STOP_SIGNALS == {SIGSTOP, 20, 21, 22}       \* SIGTSTP, SIGTTIN, SIGTTOU
default_ignore(s) == s \in {SIGCHLD, SIGCONT, SIGWINCH, 23}
default_stop(s) == s \in STOP_SIGNALS

\* sa_handler: SIG_DFL, SIG_IGN, or a handler without or with SA_RESTART.
Handlers == {"DFL", "IGN", "H", "HR"}

\* parent: the processes there are, each with its parent or None; sent: the signals
\* that kill(), the terminal and alarms send; caught, set: the ones programs call
\* sigaction for, and what for; masked: the ones they block; faults: the ones their own
\* mistakes raise; calls: blocking system calls; frames: bound on handlers in handlers.
ProgramType ==
    [parent : UNION {[T -> T \cup {None}] : T \in SUBSET Procs},
     sent : SUBSET Sigs, caught : SUBSET (Sigs \ UNBLOCKABLE), set : SUBSET Handlers,
     masked : SUBSET Sigs, faults : SUBSET (Sigs \cap {SIGSEGV}),
     calls : SUBSET {"pause", "wait", "sleep"}, frames : Nat]

ASSUME SigsAssumption == {SIGKILL, SIGCHLD} \subseteq Sigs /\ Sigs \subseteq 1 .. 31
ASSUME ProgramAssumption == Programs \subseteq ProgramType /\ None \notin Procs

VARIABLES
    proc,     \* per process: the fields of struct process that proc_lock guards
    pc,       \* per process: where its code is
    call,     \* per process: the system call it is in, or None
    result,   \* per process: what the call left in the frame's RAX and RIP
    taken,    \* per process: signal_deliver's locals sig and act
    frames,   \* per process: the signal frames on the user stack
    prog      \* what the processes do: a member of Programs, chosen at the start

vars == <<proc, pc, call, result, taken, frames, prog>>
Live == DOMAIN prog.parent

\* RUNNING stands for READY and RUNNING (Sched tells them apart).
States == {"RUNNING", "BLOCKED", "STOPPED", "ZOMBIE", "DEAD"}
Pcs == {"user", "call", "ret", "deliver", "act", "stop", "frame", "exit", "dead"}
Results == {"none", "ok", "EINTR", "restart"}
NoSignal == [sig |-> 0, act |-> "DFL"]

Init ==
    /\ prog \in Programs
    /\ proc = [p \in Procs |->
                [state |-> IF p \in Live THEN "RUNNING" ELSE "DEAD",
                 parent |-> IF p \in Live THEN prog.parent[p] ELSE None, pending |-> {},
                 blocked |-> {}, killed |-> FALSE, reported |-> FALSE,
                 actions |-> [s \in Sigs |-> "DFL"]]]
    /\ pc = [p \in Procs |-> IF p \in Live THEN "user" ELSE "dead"]
    /\ call = [p \in Procs |-> None]
    /\ result = [p \in Procs |-> "none"]
    /\ taken = [p \in Procs |-> NoSignal]
    /\ frames = [p \in Procs |-> <<>>]

-----------------------------------------------------------------------------
(* Sending.                                                                 *)

\* Slips of signal_send_locked: a signal does not wake a sleeper; SIGKILL does
\* not wake a stopped process.
MutWakes(r, s) == FALSE
Wakes(r, s) == \/ r.state = "BLOCKED"
               \/ r.state = "STOPPED" /\ s = SIGKILL

Ignored(r, s) == /\ s \notin UNBLOCKABLE \cup r.blocked
                 /\ \/ r.actions[s] = "IGN"
                    \/ r.actions[s] = "DFL" /\ default_ignore(s)

\* Job control, whatever the disposition: SIGCONT continues and cancels the
\* stop signals that wait, a stop signal cancels a SIGCONT that waits.
JobControl(r, s) ==
    [r EXCEPT !.pending = IF s = SIGCONT THEN @ \ STOP_SIGNALS
                          ELSE IF default_stop(s) THEN @ \ {SIGCONT} ELSE @,
              !.state = IF s = SIGCONT /\ @ = "STOPPED" THEN "RUNNING" ELSE @,
              !.killed = @ \/ s = SIGKILL]

\* signal_send_locked: the struct process afterwards.
signal_send_locked(r, s) ==
    IF r.state \in {"ZOMBIE", "DEAD"} THEN r
    ELSE LET j == JobControl(r, s) IN
         IF Ignored(j, s) THEN j
         ELSE [j EXCEPT !.pending = @ \cup {s},
                        !.state = IF s \notin j.blocked \ UNBLOCKABLE /\ Wakes(j, s)
                                  THEN "RUNNING" ELSE @]

\* signal_kill to one process, signal_send_pgrp to a group (here: everybody),
\* signal_check_alarms_locked.
Kill(T, s) ==
    /\ proc' = [p \in Procs |-> IF p \in T THEN signal_send_locked(proc[p], s)
                                           ELSE proc[p]]
    /\ UNCHANGED <<pc, call, result, taken, frames>>

signal_interrupted(r) == r.killed \/ r.pending \ r.blocked # {}

\* The lowest number, SIGKILL before all; 0 when there is none.
next_signal(r) ==
    LET ready == r.pending \ r.blocked IN
    IF r.killed \/ SIGKILL \in ready THEN SIGKILL
    ELSE IF ready = {} THEN 0
    ELSE CHOOSE s \in ready : \A t \in ready : s <= t

-----------------------------------------------------------------------------
(* System calls.                                                            *)

At(p, l) == proc[p].state = "RUNNING" /\ pc[p] = l
Goto(p, l) == pc' = [pc EXCEPT ![p] = l]
Set(p, r) == proc' = [proc EXCEPT ![p] = r]

sys_sigaction(p, s, h) ==
    /\ At(p, "user")
    /\ Set(p, [proc[p] EXCEPT
                 !.actions[s] = h,
                 !.pending = IF h = "IGN" \/ (h = "DFL" /\ default_ignore(s))
                             THEN @ \ {s} ELSE @])
    /\ Goto(p, "deliver")
    /\ UNCHANGED <<call, result, taken, frames>>

\* The new mask, whatever "how" was.
NewMask(m) == m \ UNBLOCKABLE
sys_sigprocmask(p, m) ==
    /\ At(p, "user")
    /\ Set(p, [proc[p] EXCEPT !.blocked = NewMask(m)])
    /\ Goto(p, "deliver")
    /\ UNCHANGED <<call, result, taken, frames>>

\* A blocking call begins (again, when it was restarted).
Syscall(p, c) ==
    /\ At(p, "user")
    /\ call' = [call EXCEPT ![p] = c]
    /\ Goto(p, "call")
    /\ UNCHANGED <<proc, result, taken, frames>>

Return(p, r) ==
    /\ result' = [result EXCEPT ![p] = r]
    /\ Goto(p, "ret")

Block(r) == [r EXCEPT !.state = "BLOCKED"]

\* sys_pause and proc_sleep_ms: one turn of the loop, proc_lock held.
Pause(p) ==
    /\ At(p, "call") /\ call[p] \in {"pause", "sleep"}
    /\ \/ /\ signal_interrupted(proc[p])
          /\ Return(p, "EINTR")
          /\ UNCHANGED proc
       \/ /\ ~signal_interrupted(proc[p])
          /\ Set(p, Block(proc[p]))
          /\ UNCHANGED <<pc, result>>
    /\ UNCHANGED <<call, taken, frames>>

\* sched_tick at the end of a sleep, and proc_sleep_ms's return.
SleepEnds(p) ==
    /\ call[p] = "sleep" /\ pc[p] = "call" /\ proc[p].state = "BLOCKED"
    /\ Set(p, [proc[p] EXCEPT !.state = "RUNNING"])
    /\ Return(p, "ok")
    /\ UNCHANGED <<call, taken, frames>>

Children(p) == {q \in Procs : proc[q].state # "DEAD" /\ proc[q].parent = p}
News(q) == \/ proc[q].state = "ZOMBIE"
           \/ proc[q].state = "STOPPED" /\ ~proc[q].reported

\* proc_wait(-1, WUNTRACED): one turn of its loop.
Wait(p) ==
    /\ At(p, "call") /\ call[p] = "wait"
    /\ \/ \E q \in Children(p) :
             /\ News(q)
             /\ Set(q, IF proc[q].state = "ZOMBIE"
                       THEN [proc[q] EXCEPT !.state = "DEAD"]
                       ELSE [proc[q] EXCEPT !.reported = TRUE])
             /\ Return(p, "ok")
       \/ /\ Children(p) = {}
          /\ Return(p, "ok")
          /\ UNCHANGED proc
       \/ /\ Children(p) # {} /\ ~\E q \in Children(p) : News(q)
          /\ signal_interrupted(proc[p])
          /\ Return(p, "EINTR")
          /\ UNCHANGED proc
       \/ /\ Children(p) # {} /\ ~\E q \in Children(p) : News(q)
          /\ ~signal_interrupted(proc[p])
          /\ Set(p, Block(proc[p]))
          /\ UNCHANGED <<pc, result>>
    /\ UNCHANGED <<call, taken, frames>>

\* signal_should_restart(nr), from the signal that is next NOW.
signal_should_restart(p) ==
    LET s == next_signal(proc[p]) IN
    /\ call[p] \in {"wait", "sleep"}
    /\ s \notin {0, SIGKILL}
    /\ \/ proc[p].actions[s] = "DFL" /\ default_stop(s)
       \/ proc[p].actions[s] = "HR" /\ call[p] # "sleep"

\* The end of syscall_dispatch.
SyscallEnd(p) ==
    /\ At(p, "ret")
    /\ result' = [result EXCEPT ![p] =
                    IF @ = "EINTR" /\ signal_should_restart(p) THEN "restart" ELSE @]
    /\ Goto(p, "deliver")
    /\ UNCHANGED <<proc, call, taken, frames>>

\* A slip: interrupts go straight back to the program.
MutInterrupt(p) ==
    /\ At(p, "user")
    /\ UNCHANGED <<proc, pc, call, result, taken, frames>>

\* An interrupt (the timer) while the program runs in user mode.
Interrupt(p) ==
    /\ At(p, "user")
    /\ Goto(p, "deliver")
    /\ UNCHANGED <<proc, call, result, taken, frames>>

\* handle_exception and signal_force: the program did something wrong.
signal_force(r, s) ==
    LET reset == r.actions[s] = "IGN" \/ s \in r.blocked IN
    [r EXCEPT !.actions[s] = IF reset THEN "DFL" ELSE @,
              !.blocked = IF reset THEN @ \ {s} ELSE @,
              !.pending = @ \cup {s}]
Exception(p, s) ==
    /\ At(p, "user")
    /\ Set(p, signal_force(proc[p], s))
    /\ Goto(p, IF signal_force(proc[p], s).actions[s] = "DFL" THEN "exit" ELSE "deliver")
    /\ UNCHANGED <<call, result, taken, frames>>

-----------------------------------------------------------------------------
(* Delivery (signal_deliver), on the way back to user mode.                 *)

\* The unlocked test of p->killed at the head of the loop.
DeliverKilled(p) ==
    /\ At(p, "deliver")
    /\ proc[p].killed
    /\ Goto(p, "exit")
    /\ UNCHANGED <<proc, call, result, taken, frames>>

\* Back to the program; a call to be restarted is entered again.
ToUser(p) ==
    IF result[p] = "restart"
    THEN Goto(p, "call") /\ UNCHANGED call
    ELSE Goto(p, "user") /\ call' = [call EXCEPT ![p] = None]

\* Nothing is pending.
DeliverNone(p) ==
    /\ At(p, "deliver")
    /\ next_signal(proc[p]) = 0
    /\ ToUser(p)
    /\ result' = [result EXCEPT ![p] = "none"]
    /\ UNCHANGED <<proc, taken, frames>>

\* The signal leaves sig_pending, its action is copied, proc_lock is released.
\* (The test of killed above may be out of date: then SIGKILL is taken here.)
DeliverTake(p) ==
    /\ At(p, "deliver")
    /\ LET s == next_signal(proc[p]) IN
          /\ s # 0
          /\ Set(p, [proc[p] EXCEPT !.pending = @ \ {s}])
          /\ taken' = [taken EXCEPT ![p] = [sig |-> s, act |-> proc[p].actions[s]]]
    /\ Goto(p, "act")
    /\ UNCHANGED <<call, result, frames>>

\* What is done with it, without the lock.
DeliverAct(p) ==
    /\ At(p, "act")
    /\ LET s == taken[p].sig
           a == taken[p].act
       IN  Goto(p, CASE a = "IGN" -> "deliver"
                     [] a = "DFL" /\ default_ignore(s) -> "deliver"
                     [] a = "DFL" /\ default_stop(s) -> "stop"
                     [] a = "DFL" /\ ~default_ignore(s) /\ ~default_stop(s) -> "exit"
                     [] OTHER -> "frame")
    /\ UNCHANGED <<proc, call, result, taken, frames>>

\* wakeup_locked(parent) and SIGCHLD to it, after process p itself changed to r.
TellParent(p, r) ==
    LET f == r.parent IN
    [q \in Procs |->
       CASE q = p -> r
         [] q # p /\ q = f ->
              signal_send_locked(
                 [proc[q] EXCEPT !.state = IF @ = "BLOCKED" /\ call[q] = "wait"
                                           THEN "RUNNING" ELSE @], SIGCHLD)
         [] OTHER -> proc[q]]

\* Slips: SIGKILL is not looked for again; the parent is not told.
MutStopSelf(p) ==
    /\ At(p, "stop")
    /\ proc' = TellParent(p, [proc[p] EXCEPT !.state = "STOPPED", !.reported = FALSE])
    /\ Goto(p, "deliver")
    /\ UNCHANGED <<call, result, taken, frames>>
MutStopSelfSilent(p) ==
    /\ At(p, "stop")
    /\ proc' = IF proc[p].killed THEN proc
               ELSE [proc EXCEPT ![p].state = "STOPPED", ![p].reported = FALSE]
    /\ Goto(p, "deliver")
    /\ UNCHANGED <<call, result, taken, frames>>

\* proc_stop_self: STOPPED until SIGCONT or SIGKILL, unless SIGKILL came first;
\* afterwards signal_deliver goes round its loop again.
StopSelf(p) ==
    /\ At(p, "stop")
    /\ proc' = IF proc[p].killed THEN proc
               ELSE TellParent(p, [proc[p] EXCEPT !.state = "STOPPED",
                                                  !.reported = FALSE])
    /\ Goto(p, "deliver")
    /\ UNCHANGED <<call, result, taken, frames>>

\* setup_frame: registers and mask go to the user stack, the handler's mask is
\* added.  "mask", "nodefer" and "resethand" stand for the sigaction's flags.
SetupFrame(p, mask, nodefer, resethand) ==
    /\ At(p, "frame")
    /\ Len(frames[p]) < prog.frames
    /\ LET s == taken[p].sig IN
          /\ frames' = [frames EXCEPT ![p] =
                          Append(@, [mask |-> proc[p].blocked, result |-> result[p],
                                     call |-> call[p]])]
          /\ Set(p, [proc[p] EXCEPT
                       !.blocked = @ \cup NewMask(mask) \cup (IF nodefer THEN {} ELSE {s}),
                       !.actions[s] = IF resethand THEN "DFL" ELSE @])
    /\ Goto(p, "user")
    /\ call' = [call EXCEPT ![p] = None]
    /\ result' = [result EXCEPT ![p] = "none"]
    /\ UNCHANGED taken

\* The user stack cannot take the frame: SIGSEGV ends the process.
FrameFails(p) ==
    /\ At(p, "frame")
    /\ Goto(p, "exit")
    /\ UNCHANGED <<proc, call, result, taken, frames>>

\* sys_sigreturn: the handler is done, the frame says how to go on.
sys_sigreturn(p) ==
    /\ At(p, "user") /\ frames[p] # <<>>
    /\ LET f == frames[p][Len(frames[p])] IN
          /\ Set(p, [proc[p] EXCEPT !.blocked = NewMask(f.mask)])
          /\ result' = [result EXCEPT ![p] = f.result]
          /\ call' = [call EXCEPT ![p] = f.call]
    /\ frames' = [frames EXCEPT ![p] = SubSeq(@, 1, Len(@) - 1)]
    /\ Goto(p, "deliver")
    /\ UNCHANGED taken

\* The program calls exit().
Exit(p) ==
    /\ At(p, "user")
    /\ Goto(p, "exit")
    /\ UNCHANGED <<proc, call, result, taken, frames>>

\* do_exit's last section: children become orphans, the parent is told.
ExitZombie(p) ==
    /\ At(p, "exit")
    /\ LET all == TellParent(p, [proc[p] EXCEPT !.state = "ZOMBIE"]) IN
       proc' = [q \in Procs |-> IF proc[q].parent = p
                                THEN [all[q] EXCEPT !.parent = None] ELSE all[q]]
    /\ Goto(p, "dead")
    /\ call' = [call EXCEPT ![p] = None]
    /\ result' = [result EXCEPT ![p] = "none"]
    /\ frames' = [frames EXCEPT ![p] = <<>>]
    /\ UNCHANGED taken

-----------------------------------------------------------------------------
\* Kernel code that runs on its own, once a process is in it.
KernelStep(p) ==
    \/ Pause(p) \/ Wait(p) \/ SyscallEnd(p)
    \/ DeliverKilled(p) \/ DeliverNone(p) \/ DeliverTake(p) \/ DeliverAct(p)
    \/ StopSelf(p) \/ FrameFails(p) \/ ExitZombie(p)
    \/ \E m \in {{}, prog.masked}, n, r \in BOOLEAN : SetupFrame(p, m, n, r)

\* What a program does of its own accord.
Program(p) ==
    \/ \E s \in prog.caught, h \in prog.set : sys_sigaction(p, s, h)
    \/ \E m \in SUBSET prog.masked : sys_sigprocmask(p, m)
    \/ \E c \in prog.calls : Syscall(p, c)
    \/ \E s \in prog.faults : Exception(p, s)
    \/ sys_sigreturn(p)
    \/ Exit(p)

Send == \E s \in prog.sent : \/ \E p \in Live : Kill({p}, s)
                             \/ Kill(Live, s)

Next == /\ \/ Send
           \/ \E p \in Procs : \/ KernelStep(p) \/ Program(p)
                               \/ Interrupt(p) \/ SleepEnds(p)
        /\ prog' = prog

Spec == Init /\ [][Next]_vars

\* Processes get the CPU (Sched's ReadyRuns), and the timer interrupts programs
\* in user mode.
Fairness == \A p \in Procs : WF_vars(KernelStep(p) /\ prog' = prog) /\ WF_vars(Interrupt(p) /\ prog' = prog)
FairSpec == Spec /\ Fairness

-----------------------------------------------------------------------------
ProcType ==
    [state : States, parent : Procs \cup {None}, pending : SUBSET Sigs,
     blocked : SUBSET Sigs, killed : BOOLEAN, reported : BOOLEAN,
     actions : [Sigs -> Handlers]]

TypeOK ==
    /\ proc \in [Procs -> ProcType]
    /\ pc \in [Procs -> Pcs]
    /\ call \in [Procs -> prog.calls \cup {None}]
    /\ result \in [Procs -> Results]
    /\ taken \in [Procs -> [sig : Sigs \cup {0}, act : Handlers]]
    /\ frames \in [Procs -> Seq([mask : SUBSET Sigs, result : Results,
                                 call : prog.calls \cup {None}])]
    /\ prog \in Programs

\* Whoever sleeps in pause, sleep or wait has no signal to react to: the call
\* tests signal_interrupted and blocks in one critical section, so a signal is
\* either seen by the test or finds the process BLOCKED and wakes it.
SleepersUninterrupted ==
    \A p \in Procs : proc[p].state = "BLOCKED" => ~signal_interrupted(proc[p])

\* A parent asleep in proc_wait has no news to collect: no child of its is a
\* zombie or stopped and not yet reported.
WaiterTold ==
    \A p \in Procs : proc[p].state = "BLOCKED" /\ call[p] = "wait" =>
       \A q \in Children(p) : ~News(q)

\* SIGKILL wins over stopping, whichever came first: no process that SIGKILL was
\* sent to stays stopped (proc_stop_self looks at killed under the lock).
KilledNotStopped ==
    \A p \in Procs : proc[p].state = "STOPPED" => ~proc[p].killed

\* The three hold together, step by step, of processes of the right type; who acts on
\* a signal has one.
Acting == \A p \in Procs : pc[p] \in {"act", "frame"} => taken[p].sig # 0
IInv == TypeOK /\ Acting /\ SleepersUninterrupted /\ WaiterTold /\ KilledNotStopped

\* SIGKILL ends a process, wherever it is.
KillEnds ==
    \A p \in Procs : proc[p].killed ~> proc[p].state \in {"ZOMBIE", "DEAD"}

\* A program that only computes meets its signals all the same: the timer takes
\* it through signal_deliver.  When a signal is pending that is not blocked, some
\* signal is acted on (the one with the lowest number; others may wait behind it).
PendingDelivered ==
    \A p \in Procs :
       next_signal(proc[p]) # 0 /\ pc[p] # "dead"
          ~> \/ pc[p] = "act"
             \/ next_signal(proc[p]) = 0
             \/ proc[p].state \in {"STOPPED", "ZOMBIE", "DEAD"}
=============================================================================

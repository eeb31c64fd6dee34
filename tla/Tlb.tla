-------------------------------- MODULE Tlb ---------------------------------
(***************************************************************************)
(* TLB shootdown between the CPUs (arch/smp.c).  Each CPU keeps its own    *)
(* cache of translations.  tlb_shootdown drops one page from the cache of  *)
(* the CPU it starts on, then posts a request, kept on its own stack, in   *)
(* the inbox of every other CPU, interrupts it, and waits with interrupts  *)
(* off until all have answered, answering requests to itself meanwhile.    *)
(*                                                                         *)
(* A module that extends this one supplies the page tables and the code    *)
(* that calls tlb_shootdown.  All CPUs are online: smp_init has returned.  *)
(***************************************************************************)
EXTENDS Naturals, FiniteSets, FiniteSetsExt

CONSTANTS
    NCPU,       \* ncpus, two or more
    Threads,    \* processes in kernel code that changes kernel mappings
    END,        \* pages of the vmalloc region
    Frames,     \* physical pages
    None        \* no thread, no CPU, no frame

ASSUME TlbAssumption ==
    /\ NCPU \in Nat \ {0, 1}
    /\ END \in Nat
    /\ None \notin Frames \cup Threads \cup Nat

CPUs == 0 .. NCPU - 1
Pages == 0 .. END - 1

VARIABLES
    on,       \* on[t]: the CPU that t runs on with interrupts off, or None
    pc,       \* pc[t]: where t is
    req,      \* req[t]: the struct tlb_req on t's stack and the loop index i
    inbox,    \* inbox[c][s]: request from CPU s to CPU c (the thread it is of)
    ipi,      \* ipi[c]: VECTOR_TLB_SHOOT is latched in c's local APIC
    scan,     \* scan[c]: process_inbox on c: next slot, request in hand
    tlb       \* tlb[c][v]: the translation that c has cached

tlbVars == <<on, pc, req, inbox, ipi, scan, tlb>>

NoReq == [virt |-> 0, pending |-> 0, i |-> 0]
Idle  == [step |-> "idle", slot |-> 0, got |-> None]
Scan  == [Idle EXCEPT !.step = "take"]

TlbInit ==
    /\ on = [t \in Threads |-> None]
    /\ req = [t \in Threads |-> NoReq]
    /\ inbox = [c \in CPUs |-> [s \in CPUs |-> None]]
    /\ ipi = [c \in CPUs |-> FALSE]
    /\ scan = [c \in CPUs |-> Idle]
    /\ tlb = [c \in CPUs |-> [v \in Pages |-> None]]

\* Between push_off and pop_off interrupts are off and t stays on its CPU.
\* Elsewhere the timer may move it from any CPU to any other (module Sched), so
\* that on[t] is kept only here.
PushedOff(t) == pc[t] \in {"send", "kick", "wait"}
InterruptsOn(c) == \A t \in Threads : on[t] # c

\* t executes with interrupts off: no scan of the inbox is under way on its CPU.
At(t, l) == pc[t] = l /\ scan[on[t]].step = "idle"
Goto(t, l) == pc' = [pc EXCEPT ![t] = l]

\* A CPU that may execute code of t with interrupts on.
MayRun(c) == InterruptsOn(c) /\ scan[c].step = "idle"

-----------------------------------------------------------------------------
\* flush_local on the CPU c that t happens to be on.
FlushLocal(t, c) ==
    /\ pc[t] = "flush" /\ MayRun(c)
    /\ tlb' = [tlb EXCEPT ![c][req[t].virt] = None]
    /\ Goto(t, "pushoff")
    /\ UNCHANGED <<on, req, inbox, ipi, scan>>

\* The loop passes over the CPU it runs on and comes to the end at NCPU.
MutReceives(me, c) == c # me /\ c # 0
Receives(me, c) == c # me
NextReceiver(me, i) == Min({c \in CPUs : c >= i /\ Receives(me, c)} \cup {NCPU})
LoopAt(t, i) == Goto(t, IF i = NCPU THEN "wait" ELSE "send")

\* push_off, cpu_id and the initialised request, on the CPU c where t is by now.
PushOff(t, c) ==
    /\ pc[t] = "pushoff" /\ MayRun(c)
    /\ on' = [on EXCEPT ![t] = c]
    /\ LET i == NextReceiver(c, 0) IN
       /\ req' = [req EXCEPT ![t].pending = 0, ![t].i = i]
       /\ LoopAt(t, i)
    /\ UNCHANGED <<inbox, ipi, scan, tlb>>

\* The receiver is counted and finds the request in its inbox ...
Send(t) ==
    /\ At(t, "send")
    /\ req' = [req EXCEPT ![t].pending = @ + 1]
    /\ inbox' = [inbox EXCEPT ![req[t].i][on[t]] = t]
    /\ Goto(t, "kick")
    /\ UNCHANGED <<on, ipi, scan, tlb>>

\* ... and is interrupted (lapic_send_ipi).
Kick(t) ==
    /\ At(t, "kick")
    /\ ipi' = [ipi EXCEPT ![req[t].i] = TRUE]
    /\ LET i == NextReceiver(on[t], req[t].i + 1) IN
       /\ req' = [req EXCEPT ![t].i = i]
       /\ LoopAt(t, i)
    /\ UNCHANGED <<on, inbox, scan, tlb>>

\* The waiting loop: all have answered (pop_off and return), or look into one's
\* own inbox; rounds that find it empty change nothing and are left out.
MutAllAnswered(t) == req[t].pending <= 1
AllAnswered(t) == req[t].pending = 0

ShootdownReturns(t, l) ==
    /\ At(t, "wait")
    /\ AllAnswered(t)
    /\ on' = [on EXCEPT ![t] = None]
    /\ Goto(t, l)
    /\ UNCHANGED <<req, inbox, ipi, scan, tlb>>

MutWaitScans(t) == FALSE /\ UNCHANGED tlbVars
WaitScans(t) ==
    /\ At(t, "wait")
    /\ ~AllAnswered(t)
    /\ \E s \in CPUs : inbox[on[t]][s] # None
    /\ scan' = [scan EXCEPT ![on[t]] = Scan]
    /\ UNCHANGED <<on, pc, req, inbox, ipi, tlb>>

\* tlb_ipi: the interrupt is taken where interrupts are on.
TlbIpi(c) ==
    /\ ipi[c] /\ InterruptsOn(c) /\ scan[c].step = "idle"
    /\ ipi' = [ipi EXCEPT ![c] = FALSE]
    /\ scan' = [scan EXCEPT ![c] = Scan]
    /\ UNCHANGED <<on, pc, req, inbox, tlb>>

-----------------------------------------------------------------------------
\* process_inbox on CPU c.  Slots are looked at in their order, and the request
\* in the next one that is not empty is taken out by an exchange ...
Filled(c) == {s \in CPUs : s >= scan[c].slot /\ inbox[c][s] # None}

Take(c) ==
    /\ scan[c].step = "take"
    /\ Filled(c) # {}
    /\ LET s == Min(Filled(c)) IN
       /\ inbox' = [inbox EXCEPT ![c][s] = None]
       /\ scan' = [scan EXCEPT ![c] = [step |-> "answer", slot |-> s, got |-> inbox[c][s]]]
    /\ UNCHANGED <<on, pc, req, ipi, tlb>>

\* ... its translation dropped, and the answer counted.
Answer(c) ==
    /\ scan[c].step = "answer"
    /\ LET t == scan[c].got IN
       /\ tlb' = [tlb EXCEPT ![c][req[t].virt] = None]
       /\ req' = [req EXCEPT ![t].pending = @ - 1]
    /\ scan' = [scan EXCEPT ![c] = [Scan EXCEPT !.slot = scan[c].slot + 1]]
    /\ UNCHANGED <<on, pc, inbox, ipi>>

ScanEnds(c) ==
    /\ scan[c].step = "take"
    /\ Filled(c) = {}
    /\ scan' = [scan EXCEPT ![c] = Idle]
    /\ UNCHANGED <<on, pc, req, inbox, ipi, tlb>>

-----------------------------------------------------------------------------
\* The part of tlb_shootdown with interrupts off.
OffStep(t, l) ==
    \/ Send(t) \/ Kick(t) \/ WaitScans(t) \/ ShootdownReturns(t, l)

CpuStep(c) == TlbIpi(c) \/ Take(c) \/ Answer(c) \/ ScanEnds(c)

-----------------------------------------------------------------------------
\* A request lies on its sender's stack.  While a slot or a CPU refers to it,
\* the sender is still inside tlb_shootdown, on the CPU whose slot it used, and
\* counts that CPU: nobody reads or counts down a dead stack frame.
RequestAlive ==
    \A c, s \in CPUs :
       /\ inbox[c][s] # None =>
            LET t == inbox[c][s] IN PushedOff(t) /\ on[t] = s
       /\ scan[c].got # None =>
            LET t == scan[c].got IN PushedOff(t) /\ on[t] = scan[c].slot /\ req[t].pending > 0

\* Why that is so, for an inductive invariant.  A thread with interrupts off has its
\* CPU for itself; a request is known at most once to each CPU, and only to CPUs
\* that the loop has passed; pending counts the CPUs that still know it.
Owes(t) == {c \in CPUs : inbox[c][on[t]] = t \/ scan[c].got = t}
OwnCpu ==
    /\ \A t \in Threads : on[t] # None <=> PushedOff(t)
    /\ \A t, u \in Threads : on[t] = on[u] /\ on[t] # None => t = u
ScanInHand == \A c \in CPUs : scan[c].got # None <=> scan[c].step = "answer"
Referred ==
    \A c \in CPUs :
       /\ \A s \in CPUs : inbox[c][s] # None => on[inbox[c][s]] = s
       /\ scan[c].got # None =>
            on[scan[c].got] = scan[c].slot /\ inbox[c][scan[c].slot] # scan[c].got
Counted == \A t \in Threads : PushedOff(t) => req[t].pending = Cardinality(Owes(t))
Passed(t, c) == c < req[t].i \/ (pc[t] = "kick" /\ c = req[t].i)
Loop ==
    \A t \in Threads :
       /\ pc[t] \in {"send", "kick"} => req[t].i \in CPUs \ {on[t]}
       /\ pc[t] = "wait" => req[t].i = NCPU
       /\ PushedOff(t) => \A c \in Owes(t) : Passed(t, c)

TlbTypeOK ==
    /\ on \in [Threads -> CPUs \cup {None}]
    /\ req \in [Threads -> [virt : Nat, pending : Nat, i : 0 .. NCPU]]
    /\ inbox \in [CPUs -> [CPUs -> Threads \cup {None}]]
    /\ ipi \in [CPUs -> BOOLEAN]
    /\ scan \in [CPUs -> [step : {"idle", "take", "answer"}, slot : 0 .. NCPU,
                          got : Threads \cup {None}]]
    /\ tlb \in [CPUs -> [Pages -> Frames \cup {None}]]
TlbInv == TlbTypeOK /\ OwnCpu /\ ScanInHand /\ Referred /\ Counted /\ Loop
=============================================================================

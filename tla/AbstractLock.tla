---------------------------- MODULE AbstractLock ----------------------------
(***************************************************************************)
(* What a mutex promises: threads ask for it, one at a time has it, and    *)
(* only the one that has it gives it back.                                 *)
(***************************************************************************)
CONSTANTS Threads, None

VARIABLES holder, waiting

vars == <<holder, waiting>>

Init == holder = None /\ waiting = {}

Request(t) ==
    /\ t \notin waiting /\ holder # t
    /\ waiting' = waiting \cup {t}
    /\ UNCHANGED holder

Grant(t) ==
    /\ holder = None /\ t \in waiting
    /\ holder' = t
    /\ waiting' = waiting \ {t}

Return ==
    /\ holder # None
    /\ holder' = None
    /\ UNCHANGED waiting

\* A thread stops asking: its call ended in a panic.
GiveUp(t) ==
    /\ t \in waiting
    /\ waiting' = waiting \ {t}
    /\ UNCHANGED holder

Next == Return \/ \E t \in Threads : Request(t) \/ Grant(t) \/ GiveUp(t)

Spec == Init /\ [][Next]_vars
=============================================================================

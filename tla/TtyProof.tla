------------------------------ MODULE TtyProof ------------------------------
(***************************************************************************)
(* Proofs about Tty, for any number of programs, any keys, texts, lengths  *)
(* and modes: readers get what was sent, each byte once and in order, and  *)
(* no reader sleeps on a byte or on the signal of a canonical key.         *)
(***************************************************************************)
EXTENDS Tty, SequenceTheorems, TLAPS

-----------------------------------------------------------------------------
(* The inductive invariant.  Who is in a read has the mutex; who waits for  *)
(* a byte does so with no line ready, and between the test and the sleep    *)
(* with input_lock.                                                         *)

Fields == {"at", "pc", "out", "c", "push", "back", "pend", "life"}
ThShape == DOMAIN th = Procs /\ \A p \in Procs : DOMAIN th[p] = Fields

InRead(t) ==
    \/ t.pc \in {"line", "getc", "sleep", "asleep", "got", "end"}
    \/ t.pc = "push" /\ t.back = "line"

\* What process p, which is at t, may take for granted.
Place(p, t) ==
    /\ t.at \in Nat \ {0}
    /\ InRead(t) => holder = p
    /\ InRead(t) \/ t.pc = "mutex" => Scene.prog[p][t.at][2] \in Nat \ {0}
    /\ t.pc \in {"getc", "sleep", "asleep", "got"} => tty.ready = 0
    /\ t.pc = "push" => t.back \in {"user", "line"}
    /\ t.pc = "sleep" => ilock = p
    /\ t.pc \in {"sleep", "asleep"} =>
          /\ input = <<>>
          /\ t.pend \cap KeySignals # {} => irq.pc # "idle" \/ irq.raw
PlaceInv ==
    /\ ThShape /\ DOMAIN irq = {"pc", "c", "raw", "fg"} /\ sc \in DOMAIN Scenarios
    /\ \A p \in Procs : Place(p, th[p])

\* The line: what is ready was sent and not given, the rest is being typed and leaves
\* room for a newline; it is empty in raw mode.
LineInv ==
    /\ DOMAIN tty = {"mode", "line", "ready", "rpos", "eof", "esc", "fg"}
    /\ DOMAIN edited = {"sent", "cur", "esc"}
    /\ tty.ready \in Nat /\ tty.rpos \in Nat
    /\ tty.rpos <= tty.ready /\ tty.ready <= Len(tty.line)
    /\ tty.rpos = tty.ready => tty.ready = 0
    /\ ~tty.mode.canon => tty.ready = 0
    /\ Len(tty.line) - tty.ready <= LINE_MAX - 1
    /\ edited.esc = tty.esc
    /\ LinesWhole

\* Process p comes to t, the others stay where they are.
Moves(p, t) ==
    /\ DOMAIN t = Fields
    /\ th' = [th EXCEPT ![p] = t]

LEMMA Moved1 ==
  ASSUME ThShape, NEW p \in Procs, NEW t, Moves(p, t)
  PROVE  ThShape' /\ \A q \in Procs : th'[q] = IF q = p THEN t ELSE th[q]
BY DEF ThShape, Moves

LEMMA Went ==
  ASSUME ThShape, NEW p \in Procs, NEW l, Goto(p, l)
  PROVE  \E t : /\ Moves(p, t) /\ t.pc = l
                /\ t.at = th[p].at /\ t.back = th[p].back /\ t.pend = th[p].pend
<1>1. PICK t : t = [th[p] EXCEPT !.pc = l]
  OBVIOUS
<1>2. /\ DOMAIN t = Fields /\ t.pc = l
      /\ t.at = th[p].at /\ t.back = th[p].back /\ t.pend = th[p].pend
  BY <1>1 DEF ThShape, Fields
<1>3. th' = [th EXCEPT ![p] = t]
  BY <1>1 DEF Goto, ThShape
<1> QED
  BY <1>2, <1>3 DEF Moves

LEMMA Returned ==
  ASSUME NEW t, DOMAIN t = Fields, t.at \in Nat \ {0}, NEW i
  PROVE  /\ DOMAIN Return(t, i) = Fields /\ Return(t, i).pc = "user"
         /\ Return(t, i).at \in Nat \ {0} /\ Return(t, i).pend = t.pend
BY DEF Return, Fields

LEMMA PlaceStep ==
  ASSUME PlaceInv, NEW p \in Procs, NEW t, Moves(p, t), Place(p, t)', sc' = sc, irq' = irq,
         holder' = holder \/ holder \in {p, None},
         tty'.ready = tty.ready \/ holder \in {p, None},
         ilock' = ilock \/ ilock \in {p, None},
         input' = input \/ input # <<>>
  PROVE  PlaceInv'
<1>1. ThShape' /\ \A q \in Procs : th'[q] = IF q = p THEN t ELSE th[q]
  BY Moved1 DEF PlaceInv
<1>2. ASSUME NEW q \in Procs \ {p}
      PROVE  Place(q, th[q])'
  <2>1. Place(q, th[q]) /\ th'[q] = th[q] /\ q # None
    BY <1>1, TtyAssumption DEF PlaceInv
  <2>2. AllScenes' = AllScenes
    BY DEF AllScenes
  <2>3. Scene' = Scene
    BY <2>2 DEF Scene
  <2>4. InRead(th[q]) => holder = q
    BY <2>1 DEF Place
  <2>5. InRead(th[q])' <=> InRead(th[q])
    BY <2>1 DEF InRead
  <2>6. th[q].pc \in {"getc", "sleep", "asleep", "got"} => InRead(th[q])
    BY DEF InRead
  <2> QED
    BY <2>1, <2>3, <2>4, <2>5, <2>6 DEF Place
<1> QED
  BY <1>1, <1>2 DEF PlaceInv

-----------------------------------------------------------------------------
(* The queue of typed bytes.                                                *)

\* A byte is taken.
LEMMA GetcPlace ==
  ASSUME PlaceInv, NEW p \in Procs, Getc(p)
  PROVE  PlaceInv'
<1>1. PICK t : t = [th[p] EXCEPT !.pc = "got", !.c = Head(input)]
  OBVIOUS
<1>2. /\ DOMAIN t = Fields /\ t.pc = "got" /\ t.at = th[p].at /\ t.back = th[p].back
  BY <1>1 DEF PlaceInv, ThShape, Fields
<1>3. th' = [th EXCEPT ![p] = t]
  BY <1>1 DEF Getc, PlaceInv, ThShape
<1>4. Moves(p, t)
  BY <1>2, <1>3 DEF Moves
<1>5. /\ Place(p, th[p]) /\ th[p].pc = "getc" /\ input # <<>>
      /\ UNCHANGED <<sc, ilock, tty, holder, irq>>
  BY DEF PlaceInv, Getc, Runs
<1>6. Place(p, t)'
  BY <1>2, <1>5 DEF Place, InRead, Scene, AllScenes
<1> QED
  BY <1>4, <1>5, <1>6, PlaceStep

\* A read ends with a signal, or with what it has.
LEMMA GetcInterruptedPlace ==
  ASSUME PlaceInv, NEW p \in Procs, GetcInterrupted(p)
  PROVE  PlaceInv'
<1>1. /\ Place(p, th[p]) /\ th[p].pc = "getc" /\ ThShape
      /\ UNCHANGED <<sc, input, ilock, tty, irq>>
  BY DEF PlaceInv, GetcInterrupted, Runs
<1>2. holder = p
  BY <1>1 DEF Place, InRead
<1>3. CASE Goto(p, "end") /\ UNCHANGED holder
  <2>1. PICK t : Moves(p, t) /\ t.pc = "end" /\ t.at = th[p].at
    BY <1>1, <1>3, Went
  <2>2. Place(p, t)'
    BY <1>1, <1>2, <1>3, <2>1 DEF Place, InRead, Scene, AllScenes
  <2> QED
    BY <1>1, <1>2, <1>3, <2>1, <2>2, PlaceStep
<1>4. CASE th' = [th EXCEPT ![p] = Return(@, TRUE)] /\ holder' = None
  <2>1. PICK t0, t : t0 = th[p] /\ t = Return(t0, TRUE)
    OBVIOUS
  <2>2. DOMAIN t = Fields /\ t.pc = "user" /\ t.at \in Nat \ {0}
    BY <1>1, <2>1, Returned DEF ThShape, Place
  <2>3. Moves(p, t)
    BY <1>1, <1>4, <2>1, <2>2 DEF Moves, ThShape
  <2>4. Place(p, t)'
    BY <2>2 DEF Place, InRead
  <2> QED
    BY <1>1, <1>2, <1>4, <2>3, <2>4, PlaceStep
<1> QED
  BY <1>3, <1>4 DEF GetcInterrupted

\* The test, and with input_lock still held the sleep.
LEMMA GetcTestPlace ==
  ASSUME PlaceInv, NEW p \in Procs, GetcTest(p)
  PROVE  PlaceInv'
<1>1. /\ Place(p, th[p]) /\ th[p].pc = "getc" /\ ThShape /\ Goto(p, "sleep")
      /\ input = <<>> /\ th[p].pend = {} /\ ilock = None /\ ilock' = p
      /\ UNCHANGED <<sc, input, tty, holder, irq>>
  BY DEF PlaceInv, GetcTest, Runs
<1>2. PICK t : Moves(p, t) /\ t.pc = "sleep" /\ t.at = th[p].at /\ t.pend = th[p].pend
  BY <1>1, Went
<1>3. Place(p, t)'
  BY <1>1, <1>2 DEF Place, InRead, Scene, AllScenes
<1> QED
  BY <1>1, <1>2, <1>3, PlaceStep

LEMMA SleepPlace ==
  ASSUME PlaceInv, NEW p \in Procs, Sleep(p)
  PROVE  PlaceInv'
<1>1. /\ Place(p, th[p]) /\ th[p].pc = "sleep" /\ ThShape /\ Goto(p, "asleep")
      /\ ilock' = None /\ UNCHANGED <<sc, input, tty, holder, irq>>
  BY DEF PlaceInv, Sleep, Runs
<1>2. PICK t : Moves(p, t) /\ t.pc = "asleep" /\ t.at = th[p].at /\ t.pend = th[p].pend
  BY <1>1, Went
<1>3. Place(p, t)' /\ ilock = p
  BY <1>1, <1>2 DEF Place, InRead, Scene, AllScenes, KeySignals
<1> QED
  BY <1>1, <1>2, <1>3, PlaceStep

-----------------------------------------------------------------------------
(* Reads.                                                                   *)

LEMMA ReadLockPlace ==
  ASSUME PlaceInv, LineInv, NEW p \in Procs, ReadLock(p)
  PROVE  PlaceInv'
<1>1. /\ Place(p, th[p]) /\ th[p].pc = "mutex" /\ ThShape
      /\ holder = None /\ holder' = p
      /\ UNCHANGED <<sc, input, ilock, tty, irq>>
  BY DEF PlaceInv, ReadLock, Runs
<1>2. PICK l : Goto(p, l) /\ l = IF tty.mode.canon THEN "line" ELSE "getc"
  BY DEF ReadLock
<1>3. PICK t : Moves(p, t) /\ t.pc = l /\ t.at = th[p].at /\ t.pend = th[p].pend
  BY <1>1, <1>2, Went
<1>4. l = "getc" => tty.ready = 0
  BY <1>2 DEF LineInv
<1>5. Place(p, t)'
  BY <1>1, <1>2, <1>3, <1>4 DEF Place, InRead, Scene, AllScenes
<1> QED
  BY <1>1, <1>3, <1>5, PlaceStep

LEMMA ReadMorePlace ==
  ASSUME PlaceInv, LineInv, NEW p \in Procs, ReadMore(p)
  PROVE  PlaceInv'
<1>1. /\ Place(p, th[p]) /\ th[p].pc = "line" /\ ThShape /\ Goto(p, "getc")
      /\ tty.rpos = tty.ready
      /\ UNCHANGED <<sc, input, ilock, tty, holder, irq>>
  BY DEF PlaceInv, ReadMore, Runs
<1>2. PICK t : Moves(p, t) /\ t.pc = "getc" /\ t.at = th[p].at /\ t.pend = th[p].pend
  BY <1>1, Went
<1>3. tty.ready = 0
  BY <1>1 DEF LineInv
<1>4. Place(p, t)'
  BY <1>1, <1>2, <1>3 DEF Place, InRead, Scene, AllScenes
<1> QED
  BY <1>1, <1>2, <1>4, PlaceStep

\* A call that ends, or goes on, outside of a read.
LEMMA OutsidePlace ==
  ASSUME PlaceInv, NEW p \in Procs, NEW t, DOMAIN t = Fields, t.at \in Nat \ {0},
         th' = [th EXCEPT ![p] = t], ~InRead(t), t.pc # "mutex", t.pc = "push" => t.back = "user",
         UNCHANGED <<sc, input, ilock, irq>>, holder' = holder \/ (holder = p /\ holder' = None),
         tty'.ready = tty.ready \/ holder \in {p, None}
  PROVE  PlaceInv'
<1>1. Moves(p, t)
  BY DEF Moves
<1>2. Place(p, t)'
  BY DEF Place, InRead
<1> QED
  BY <1>1, <1>2, PlaceStep

LEMMA Said ==
  ASSUME NEW p \in Procs, NEW t, DOMAIN t = Fields, NEW s, NEW l, Say(p, t, s, l)
  PROVE  \E u : /\ DOMAIN u = Fields /\ th' = [th EXCEPT ![p] = u]
                /\ u.at = t.at /\ u.pend = t.pend
                /\ u.pc = l \/ (u.pc = "push" /\ u.back = l)
<1>1. PICK r : th' = [th EXCEPT ![p] = IF r = <<>> THEN [t EXCEPT !.pc = l]
                         ELSE [t EXCEPT !.pc = "push", !.push = r, !.back = l]]
  BY DEF Say
<1>2. CASE r = <<>>
  <2>1. PICK u : u = [t EXCEPT !.pc = l]
    OBVIOUS
  <2>2. DOMAIN u = Fields /\ u.at = t.at /\ u.pend = t.pend /\ u.pc = l
    BY <2>1 DEF Fields
  <2> QED
    BY <1>1, <1>2, <2>1, <2>2
<1>3. CASE r # <<>>
  <2>1. PICK u : u = [t EXCEPT !.pc = "push", !.push = r, !.back = l]
    OBVIOUS
  <2>2. DOMAIN u = Fields /\ u.at = t.at /\ u.pend = t.pend /\ u.pc = "push" /\ u.back = l
    BY <2>1 DEF Fields
  <2> QED
    BY <1>1, <1>3, <2>1, <2>2
<1> QED
  BY <1>2, <1>3

LEMMA ReadStartPlace ==
  ASSUME PlaceInv, NEW p \in Procs, ReadStart(p)
  PROVE  PlaceInv'
<1>1. /\ Place(p, th[p]) /\ ThShape /\ Starts(p, "read") /\ sc \in DOMAIN Scenarios
      /\ UNCHANGED <<sc, input, ilock, tty, holder, irq>>
  BY DEF PlaceInv, ReadStart
<1>2. PICK t0 : t0 = th[p] /\ DOMAIN t0 = Fields /\ t0.at \in Nat \ {0} /\ t0.pc = "user"
  BY <1>1 DEF ThShape, Place, Starts, Runs
<1>3. CASE th' = [th EXCEPT ![p] = Return(@, FALSE)]
  <2>1. PICK t : t = Return(t0, FALSE)
    OBVIOUS
  <2>2. DOMAIN t = Fields /\ t.at \in Nat \ {0} /\ t.pc = "user"
    BY <1>2, <2>1, Returned
  <2>3. th' = [th EXCEPT ![p] = t]
    BY <1>1, <1>2, <1>3, <2>1 DEF ThShape
  <2> QED
    BY <1>1, <2>2, <2>3, OutsidePlace DEF InRead
<1>4. ASSUME NEW l \in {"ttin", "mutex"}, Goto(p, l)
      PROVE  PlaceInv'
  <2>1. PICK t : Moves(p, t) /\ t.pc = l /\ t.at = th[p].at
    BY <1>1, <1>4, Went
  <2>2. Scene.prog[p][th[p].at][2] \in Nat \ {0}
    <3>1. Scene = Scenarios[sc]
      BY DEF Scene, AllScenes
    <3>2. PICK prog : prog = Scenarios[sc].prog[p]
      OBVIOUS
    <3>3. /\ prog[th[p].at][1] = "read" /\ ~(th[p].at > Len(prog))
      BY <1>1, <3>1, <3>2 DEF Starts, Ended, Call
    <3>4. \A i \in 1 .. Len(prog) : prog[i][1] = "read" => prog[i][2] \in Nat \ {0}
      BY <1>1, <3>2, TtyAssumption
    <3>5. PICK i : i = th[p].at
      OBVIOUS
    <3>6. i \in Nat \ {0} /\ Len(prog) \in Nat /\ prog[i][1] = "read" /\ ~(i > Len(prog))
      BY <1>2, <3>3, <3>5
    <3>7. i \in 1 .. Len(prog)
      BY <3>6
    <3>8. prog[i][2] \in Nat \ {0}
      BY <3>4, <3>6, <3>7
    <3> QED
      BY <3>1, <3>2, <3>5, <3>8
  <2>3. Place(p, t)'
    BY <1>1, <1>2, <2>1, <2>2 DEF Place, InRead, Scene, AllScenes
  <2> QED
    BY <1>1, <2>1, <2>3, PlaceStep
<1> QED
  BY <1>3, <1>4, Zenon DEF ReadStart, Goto

-----------------------------------------------------------------------------
(* Steps that touch several processes: signals, and a byte that wakes who   *)
(* sleeps.  Process q stays where it is, or wakes up.                       *)

Stays(q) ==
    /\ th'[q].at = th[q].at /\ th'[q].back = th[q].back
    /\ th'[q].pc = th[q].pc \/ (th[q].pc = "asleep" /\ th'[q].pc = "getc")

LEMMA StaysPlace ==
  ASSUME PlaceInv, NEW q \in Procs, Stays(q), sc' = sc, holder' = holder,
         tty'.ready = tty.ready, ilock' = ilock,
         th'[q].pc \in {"sleep", "asleep"} =>
           /\ input' = <<>>
           /\ th'[q].pend \cap KeySignals # {} => irq'.pc # "idle" \/ irq'.raw
  PROVE  Place(q, th[q])'
<1>1. Place(q, th[q])
  BY DEF PlaceInv
<1>2. AllScenes' = AllScenes
  BY DEF AllScenes
<1>3. Scene' = Scene
  BY <1>2 DEF Scene
<1>4. PICK t, u : t = th[q] /\ u = th'[q]
  OBVIOUS
<1>5. /\ u.at = t.at /\ u.back = t.back
      /\ u.pc = t.pc \/ (t.pc = "asleep" /\ u.pc = "getc")
  BY <1>4 DEF Stays
<1>6. /\ InRead(u) => InRead(t)
      /\ u.pc = "mutex" => t.pc = "mutex"
      /\ u.pc \in {"getc", "sleep", "asleep", "got"} => t.pc \in {"getc", "sleep", "asleep", "got"}
      /\ u.pc = "sleep" => t.pc = "sleep"
      /\ u.pc = "push" => t.pc = "push"
  BY <1>5 DEF InRead
<1>7. /\ InRead(th[q])' <=> InRead(u)
      /\ InRead(th[q]) <=> InRead(t)
  BY <1>4 DEF InRead
<1> QED
  BY <1>1, <1>3, <1>4, <1>5, <1>6, <1>7 DEF Place

LEMMA KeyPlace ==
  ASSUME PlaceInv, Key
  PROVE  PlaceInv'
<1>1. /\ UNCHANGED <<sc, input, ilock, tty, holder, th>> /\ irq'.pc # "idle"
      /\ DOMAIN irq' = {"pc", "c", "raw", "fg"}
  BY DEF Key
<1>2. ASSUME NEW q \in Procs
      PROVE  Place(q, th[q])'
  <2>1. Stays(q)
    BY <1>1 DEF Stays
  <2>2. th'[q].pc \in {"sleep", "asleep"} => input' = <<>>
    BY <1>1 DEF PlaceInv, Place
  <2> QED
    BY <1>1, <2>1, <2>2, StaysPlace
<1>3. ThShape'
  BY <1>1 DEF PlaceInv, ThShape
<1> QED
  BY <1>1, <1>2, <1>3 DEF PlaceInv

LEMMA KeyFlushPlace ==
  ASSUME PlaceInv, KeyFlush
  PROVE  PlaceInv'
<1>1. /\ UNCHANGED <<sc, ilock, tty, holder, th>> /\ input' = <<>>
      /\ irq' = [irq EXCEPT !.pc = "send", !.fg = tty.fg]
  BY DEF KeyFlush
<1>2. irq'.pc # "idle" /\ DOMAIN irq' = {"pc", "c", "raw", "fg"}
  BY <1>1 DEF PlaceInv
<1>3. ASSUME NEW q \in Procs
      PROVE  Place(q, th[q])'
  <2>1. Stays(q)
    BY <1>1 DEF Stays
  <2> QED
    BY <1>1, <1>2, <2>1, StaysPlace
<1>4. ThShape'
  BY <1>1 DEF PlaceInv, ThShape
<1> QED
  BY <1>1, <1>2, <1>3, <1>4 DEF PlaceInv


LEMMA SignalledStays ==
  ASSUME ThShape, NEW g, NEW sig, NEW q \in Procs
  PROVE  LET u == Signalled(th, g, sig) IN
         /\ DOMAIN u = Procs /\ DOMAIN u[q] = Fields
         /\ u[q].at = th[q].at /\ u[q].back = th[q].back
         /\ u[q].pc = th[q].pc \/ (th[q].pc = "asleep" /\ u[q].pc = "getc")
         /\ u[q].pc = "asleep" => u[q].pend = th[q].pend
         /\ u[q].pend = th[q].pend \/ u[q].pend = th[q].pend \cup {sig}
<1>1. PICK t, u : t = th[q] /\ u = Signalled(th, g, sig)[q] /\ DOMAIN t = Fields
  BY DEF ThShape
<1>2. \/ u = t
      \/ u = [t EXCEPT !.pend = @ \cup {sig}, !.pc = IF @ = "asleep" THEN "getc" ELSE @]
  BY <1>1, Zenon DEF Signalled
<1>3. /\ DOMAIN u = Fields
      /\ u.at = t.at /\ u.back = t.back
      /\ u.pc = t.pc \/ (t.pc = "asleep" /\ u.pc = "getc")
      /\ u.pc = "asleep" => u.pend = t.pend
      /\ u.pend = t.pend \/ u.pend = t.pend \cup {sig}
  BY <1>1, <1>2 DEF Fields
<1>4. DOMAIN Signalled(th, g, sig) = Procs
  BY DEF Signalled
<1> QED
  BY <1>1, <1>3, <1>4

\* The signal of a key: who is between its test and its sleep has it too, and the byte
\* of the key comes after it.
LEMMA KeySendPlace ==
  ASSUME PlaceInv, KeySend
  PROVE  PlaceInv'
<1>1. /\ UNCHANGED <<sc, input, ilock, tty, holder>>
      /\ irq' = [irq EXCEPT !.pc = IF irq.raw THEN "idle" ELSE "put"]
      /\ th' = IF irq.fg > 0 THEN Signalled(th, irq.fg, SigOf[irq.c]) ELSE th
  BY DEF KeySend
<1>2. /\ DOMAIN irq' = {"pc", "c", "raw", "fg"}
      /\ irq'.pc # "idle" \/ irq'.raw
  BY <1>1 DEF PlaceInv
<1>3. ASSUME NEW q \in Procs
      PROVE  Stays(q) /\ DOMAIN th'[q] = Fields /\ DOMAIN th' = Procs
  <2>1. CASE th' = th
    BY <2>1 DEF PlaceInv, ThShape, Stays
  <2>2. CASE th' = Signalled(th, irq.fg, SigOf[irq.c])
    <3>1. ThShape
      BY DEF PlaceInv
    <3> QED
      BY <3>1, <2>2, SignalledStays DEF Stays
  <2> QED
    BY <1>1, <2>1, <2>2
<1>4. ThShape'
  <2>1. DOMAIN th' = Procs
    BY <1>1, SignalledStays DEF Signalled, PlaceInv, ThShape
  <2> QED
    BY <1>3, <2>1 DEF ThShape
<1>5. ASSUME NEW q \in Procs
      PROVE  Place(q, th[q])'
  <2>1. th'[q].pc \in {"sleep", "asleep"} => input' = <<>>
    BY <1>1, <1>3, <1>5 DEF PlaceInv, Place, Stays
  <2> QED
    BY <1>1, <1>2, <1>3, <2>1, StaysPlace
<1> QED
  BY <1>1, <1>2, <1>4, <1>5 DEF PlaceInv

LEMMA WokenStays ==
  ASSUME NEW t, DOMAIN t = Procs, NEW q \in Procs, DOMAIN t[q] = Fields
  PROVE  LET u == Woken(t) IN
         /\ DOMAIN u = Procs /\ DOMAIN u[q] = Fields
         /\ u[q].at = t[q].at /\ u[q].back = t[q].back
         /\ u[q].pc = IF t[q].pc = "asleep" THEN "getc" ELSE t[q].pc
<1>1. PICK a, u : a = t[q] /\ u = Woken(t)[q]
  OBVIOUS
<1>2. u = IF a.pc = "asleep" THEN [a EXCEPT !.pc = "getc"] ELSE a
  BY <1>1 DEF Woken
<1>3. /\ DOMAIN u = Fields
      /\ u.at = a.at /\ u.back = a.back
      /\ u.pc = IF a.pc = "asleep" THEN "getc" ELSE a.pc
  BY <1>1, <1>2 DEF Fields
<1> QED
  BY <1>1, <1>3 DEF Woken

\* A byte is queued, and whoever sleeps wakes up; or there is no room, then nobody
\* sleeps.
LEMMA KeyPutPlace ==
  ASSUME PlaceInv, KeyPut
  PROVE  PlaceInv'
<1>1. /\ UNCHANGED <<sc, ilock, tty, holder>> /\ ilock = None
      /\ input' = Enqueue(irq.c)
      /\ irq' = [irq EXCEPT !.pc = "idle"]
      /\ th' = IF Len(input) < INPUT_BUFFER_SIZE - 1 THEN Woken(th) ELSE th
  BY DEF KeyPut
<1>2. DOMAIN irq' = {"pc", "c", "raw", "fg"}
  BY <1>1 DEF PlaceInv
<1>3. ThShape
  BY DEF PlaceInv
<1>4. ASSUME NEW q \in Procs
      PROVE  /\ Stays(q) /\ DOMAIN th'[q] = Fields
             /\ th'[q].pc \notin {"sleep", "asleep"}
  <2>1. Place(q, th[q]) /\ q # None
    BY TtyAssumption DEF PlaceInv
  <2>2. th[q].pc # "sleep"
    BY <1>1, <2>1 DEF Place
  <2>3. CASE Len(input) < INPUT_BUFFER_SIZE - 1
    BY <1>1, <1>3, <2>2, <2>3, WokenStays DEF Stays, ThShape
  <2>4. CASE ~(Len(input) < INPUT_BUFFER_SIZE - 1)
    <3>1. input # <<>>
      BY <2>4, TtyAssumption
    <3>2. th[q].pc # "asleep"
      BY <3>1, <2>1 DEF Place
    <3> QED
      BY <1>1, <1>3, <2>2, <2>4, <3>2 DEF Stays, ThShape
  <2> QED
    BY <2>3, <2>4
<1>5. ThShape'
  <2>1. DOMAIN th' = Procs
    BY <1>1, <1>3 DEF Woken, ThShape
  <2> QED
    BY <1>4, <2>1 DEF ThShape
<1>6. ASSUME NEW q \in Procs
      PROVE  Place(q, th[q])'
  BY <1>1, <1>4, StaysPlace
<1> QED
  BY <1>1, <1>2, <1>5, <1>6 DEF PlaceInv

\* The terminal's own answer, byte by byte.
LEMMA PushPlace ==
  ASSUME PlaceInv, NEW p \in Procs, Push(p)
  PROVE  PlaceInv'
<1>1. /\ UNCHANGED <<sc, ilock, tty, holder, irq>> /\ ilock = None
      /\ th[p].pc = "push"
  BY DEF Push, Runs
<1>2. ThShape
  BY DEF PlaceInv
<1>3. PICK a : a = [th[p] EXCEPT !.push = Tail(@), !.pc = IF Len(th[p].push) = 1 THEN th[p].back ELSE @]
  OBVIOUS
<1>4. /\ DOMAIN a = Fields /\ a.at = th[p].at /\ a.back = th[p].back
      /\ a.pc \in {"push", th[p].back}
  BY <1>1, <1>2, <1>3 DEF ThShape, Fields
<1>5. PICK t : /\ t = [th EXCEPT ![p] = a]
               /\ th' = IF Len(input) < INPUT_BUFFER_SIZE - 1 THEN Woken(t) ELSE t
               /\ Len(input) < INPUT_BUFFER_SIZE - 1 \/ input' = input
  <2>1. PICK t : t = [th EXCEPT ![p].push = Tail(@), ![p].pc = IF Len(th[p].push) = 1 THEN th[p].back ELSE @]
    OBVIOUS
  <2>2. t = [th EXCEPT ![p] = a]
    BY <1>2, <1>3, <2>1 DEF ThShape, Fields
  <2>3. input' = Enqueue(Head(th[p].push))
    BY DEF Push
  <2>4. th' = IF Len(input) < INPUT_BUFFER_SIZE - 1 THEN Woken(t) ELSE t
    BY <2>1 DEF Push
  <2> QED
    BY <2>2, <2>3, <2>4 DEF Enqueue
<1>6. /\ DOMAIN t = Procs
      /\ \A q \in Procs : DOMAIN t[q] = Fields /\ t[q] = IF q = p THEN a ELSE th[q]
  BY <1>2, <1>4, <1>5 DEF ThShape
<1>7. /\ DOMAIN th' = Procs
      /\ \A q \in Procs : /\ DOMAIN th'[q] = Fields
                          /\ th'[q].at = t[q].at /\ th'[q].back = t[q].back
                          /\ \/ th'[q].pc = t[q].pc /\ t[q].pc # "asleep"
                             \/ t[q].pc = "asleep" /\ th'[q].pc = "getc"
                             \/ th'[q] = t[q] /\ input' = input
  <2>1. CASE th' = Woken(t)
    BY <1>6, <2>1, WokenStays DEF Woken
  <2>2. CASE th' = t /\ input' = input
    BY <1>6, <2>2
  <2> QED
    BY <1>5, <2>1, <2>2
<1>8. ASSUME NEW q \in Procs, q # p
      PROVE  Place(q, th[q])'
  <2>1. Place(q, th[q]) /\ q # None
    BY TtyAssumption DEF PlaceInv
  <2>2. Stays(q) /\ (th'[q].pc \in {"sleep", "asleep"} => th'[q] = th[q] /\ input' = input)
    BY <1>1, <1>6, <1>7, <1>8, <2>1 DEF Stays, Place
  <2>3. th'[q].pc \in {"sleep", "asleep"} => input' = <<>>
    BY <2>1, <2>2 DEF Place
  <2>4. th'[q].pc \in {"sleep", "asleep"} =>
          (th'[q].pend \cap KeySignals # {} => irq'.pc # "idle" \/ irq'.raw)
    BY <1>1, <2>1, <2>2 DEF Place
  <2> QED
    BY <1>1, <2>2, <2>3, <2>4, StaysPlace
<1>9. Place(p, th[p])'
  <2>1. Place(p, th[p])
    BY DEF PlaceInv
  <2>2. /\ th[p].back \in {"user", "line"}
        /\ th'[p].at = th[p].at /\ th'[p].back = th[p].back
        /\ th'[p].pc \in {"push", th[p].back}
    BY <1>1, <1>4, <1>6, <1>7, <2>1 DEF Place
  <2>3. Scene' = Scene
    BY <1>1 DEF Scene, AllScenes
  <2> QED
    BY <1>1, <2>1, <2>2, <2>3 DEF Place, InRead
<1> QED
  BY <1>1, <1>7, <1>8, <1>9 DEF PlaceInv, ThShape

\* SIGTTIN to the group: its readers wake up, the call ends.
LEMMA ReadTtinPlace ==
  ASSUME PlaceInv, NEW p \in Procs, ReadTtin(p)
  PROVE  PlaceInv'
<1>1. UNCHANGED <<sc, input, ilock, tty, holder, irq>> /\ ThShape /\ Place(p, th[p])
  BY DEF ReadTtin, PlaceInv
<1>2. PICK u : /\ u = Signalled(th, Scene.group[p], "TTIN")
               /\ th' = [u EXCEPT ![p] = Return(@, TRUE)]
  BY DEF ReadTtin
<1>3. /\ DOMAIN u = Procs
      /\ \A q \in Procs : /\ DOMAIN u[q] = Fields
                          /\ u[q].at = th[q].at /\ u[q].back = th[q].back
                          /\ u[q].pc = th[q].pc \/ (th[q].pc = "asleep" /\ u[q].pc = "getc")
                          /\ u[q].pend = th[q].pend \/ u[q].pend = th[q].pend \cup {"TTIN"}
  <2>1. PICK g : u = Signalled(th, g, "TTIN")
    BY <1>2
  <2>2. ASSUME NEW q \in Procs
        PROVE  /\ DOMAIN u[q] = Fields /\ DOMAIN u = Procs
               /\ u[q].at = th[q].at /\ u[q].back = th[q].back
               /\ u[q].pc = th[q].pc \/ (th[q].pc = "asleep" /\ u[q].pc = "getc")
               /\ u[q].pend = th[q].pend \/ u[q].pend = th[q].pend \cup {"TTIN"}
    BY <1>1, <2>1, SignalledStays
  <2> QED
    BY <2>2
<1>4. PICK t0, t : t0 = u[p] /\ t = Return(t0, TRUE)
  OBVIOUS
<1>5. DOMAIN t = Fields /\ t.pc = "user" /\ t.at \in Nat \ {0}
  <2>1. DOMAIN t0 = Fields /\ t0.at \in Nat \ {0}
    BY <1>1, <1>3, <1>4 DEF Place
  <2> QED
    BY <1>4, <2>1, Returned
<1>6. th' = [u EXCEPT ![p] = t]
  BY <1>2, <1>3, <1>4
<1>7. Place(p, th[p])'
  BY <1>3, <1>5, <1>6 DEF Place, InRead
<1>8. ASSUME NEW q \in Procs, q # p
      PROVE  Place(q, th[q])'
  <2>1. Place(q, th[q]) /\ Stays(q)
    BY <1>3, <1>6, <1>8 DEF PlaceInv, Stays
  <2>2. th'[q].pend \cap KeySignals = th[q].pend \cap KeySignals
    BY <1>3, <1>6, <1>8 DEF KeySignals
  <2>3. th'[q].pc \in {"sleep", "asleep"} =>
          /\ input' = <<>>
          /\ th'[q].pend \cap KeySignals # {} => irq'.pc # "idle" \/ irq'.raw
    BY <1>1, <2>1, <2>2 DEF Place, Stays
  <2> QED
    BY <1>1, <2>1, <2>3, StaysPlace
<1> QED
  BY <1>1, <1>3, <1>5, <1>6, <1>7, <1>8 DEF PlaceInv, ThShape

LEMMA ContinuePlace ==
  ASSUME PlaceInv, NEW p \in Procs, Continue(p)
  PROVE  PlaceInv'
<1>1. UNCHANGED <<sc, input, ilock, tty, holder, irq>> /\ ThShape /\ Place(p, th[p])
  BY DEF Continue, PlaceInv
<1>2. PICK g, u : u = Continued(th, g) /\ th' = [u EXCEPT ![p] = Return(@, FALSE)]
  BY DEF Continue
<1>3. ASSUME NEW q \in Procs
      PROVE  /\ DOMAIN u[q] = Fields
             /\ u[q].at = th[q].at /\ u[q].back = th[q].back /\ u[q].pc = th[q].pc
             /\ u[q].pend \in {th[q].pend, th[q].pend \ StopSignals}
  <2>1. PICK a, b : a = th[q] /\ b = u[q] /\ DOMAIN a = Fields
    BY <1>1 DEF ThShape
  <2>2. b = a \/ b = [a EXCEPT !.pend = @ \ StopSignals, !.life = "runs"]
    BY <1>2, <2>1, Zenon DEF Continued
  <2>3. /\ DOMAIN b = Fields /\ b.at = a.at /\ b.back = a.back /\ b.pc = a.pc
        /\ b.pend \in {a.pend, a.pend \ StopSignals}
    BY <2>1, <2>2 DEF Fields
  <2> QED
    BY <2>1, <2>3
<1>4. DOMAIN u = Procs
  BY <1>2 DEF Continued
<1>5. PICK t0, t : t0 = u[p] /\ t = Return(t0, FALSE)
  OBVIOUS
<1>6. DOMAIN t = Fields /\ t.pc = "user" /\ t.at \in Nat \ {0}
  <2>1. DOMAIN t0 = Fields /\ t0.at \in Nat \ {0}
    BY <1>1, <1>3, <1>5 DEF Place
  <2> QED
    BY <1>5, <2>1, Returned
<1>7. th' = [u EXCEPT ![p] = t]
  BY <1>2, <1>4, <1>5
<1>8. Place(p, th[p])'
  BY <1>4, <1>6, <1>7 DEF Place, InRead
<1>9. ASSUME NEW q \in Procs, q # p
      PROVE  Place(q, th[q])'
  <2>1. Place(q, th[q]) /\ Stays(q)
    BY <1>3, <1>4, <1>7, <1>9 DEF PlaceInv, Stays
  <2>2. th'[q].pc = th[q].pc /\ th'[q].pend \subseteq th[q].pend
    BY <1>3, <1>4, <1>7, <1>9
  <2>3. th'[q].pc \in {"sleep", "asleep"} =>
          /\ input' = <<>>
          /\ th'[q].pend \cap KeySignals # {} => irq'.pc # "idle" \/ irq'.raw
    BY <1>1, <2>1, <2>2 DEF Place
  <2> QED
    BY <1>1, <2>1, <2>3, StaysPlace
<1> QED
  BY <1>1, <1>3, <1>4, <1>6, <1>7, <1>8, <1>9 DEF PlaceInv, ThShape

-----------------------------------------------------------------------------
(* Calls of one process.                                                    *)

LEMMA DeliverPlace ==
  ASSUME PlaceInv, NEW p \in Procs, Deliver(p)
  PROVE  PlaceInv'
<1>1. UNCHANGED <<sc, input, ilock, tty, holder, irq>> /\ ThShape /\ Place(p, th[p])
  BY DEF Deliver, PlaceInv
<1>2. PICK sig, l : th' = [th EXCEPT ![p].pend = @ \ {sig}, ![p].life = l]
  BY DEF Deliver
<1>3. PICK t : t = [th[p] EXCEPT !.pend = @ \ {sig}, !.life = l]
  OBVIOUS
<1>4. th[p].pc = "user"
  BY DEF Deliver, Runs
<1>5. DOMAIN t = Fields /\ t.pc = "user" /\ t.at \in Nat \ {0}
  BY <1>1, <1>3, <1>4 DEF Place, ThShape, Fields
<1>6. th' = [th EXCEPT ![p] = t]
  BY <1>1, <1>2, <1>3 DEF ThShape, Fields
<1> QED
  BY <1>1, <1>5, <1>6, OutsidePlace DEF InRead

\* A call that returns at once.
LEMMA ReturnPlace ==
  ASSUME PlaceInv, NEW p \in Procs, th' = [th EXCEPT ![p] = Return(@, FALSE)],
         UNCHANGED <<sc, input, ilock, irq>>, holder' = holder \/ (holder = p /\ holder' = None),
         tty'.ready = tty.ready \/ holder \in {p, None}
  PROVE  PlaceInv'
<1>1. ThShape /\ Place(p, th[p])
  BY DEF PlaceInv
<1>2. PICK t0, t : t0 = th[p] /\ t = Return(t0, FALSE)
  OBVIOUS
<1>3. DOMAIN t = Fields /\ t.pc = "user" /\ t.at \in Nat \ {0}
  BY <1>1, <1>2, Returned DEF ThShape, Place
<1>4. th' = [th EXCEPT ![p] = t]
  BY <1>1, <1>2 DEF ThShape
<1> QED
  BY <1>3, <1>4, OutsidePlace DEF InRead

LEMMA ReadGivePlace ==
  ASSUME PlaceInv, NEW p \in Procs, ReadGive(p)
  PROVE  PlaceInv'
<1>1. /\ th' = [th EXCEPT ![p] = Return(@, FALSE)] /\ holder' = None
      /\ UNCHANGED <<sc, input, ilock, irq>> /\ th[p].pc = "line" /\ Place(p, th[p])
  BY DEF ReadGive, Runs, PlaceInv
<1>2. holder = p
  BY <1>1 DEF Place, InRead
<1> QED
  BY <1>1, <1>2, ReturnPlace

LEMMA SetModePlace ==
  ASSUME PlaceInv, NEW p \in Procs, SetMode(p)
  PROVE  PlaceInv'
<1>1. /\ th' = [th EXCEPT ![p] = Return(@, FALSE)] /\ holder' = holder /\ holder = None
      /\ UNCHANGED <<sc, input, ilock, irq>>
  BY DEF SetMode
<1> QED
  BY <1>1, ReturnPlace

LEMMA SetForegroundPlace ==
  ASSUME PlaceInv, LineInv, NEW p \in Procs, SetForeground(p)
  PROVE  PlaceInv'
<1>1. /\ th' = [th EXCEPT ![p] = Return(@, FALSE)] /\ holder' = holder
      /\ UNCHANGED <<sc, input, ilock, irq>> /\ tty' = [tty EXCEPT !.fg = Call(p)[2]]
  BY DEF SetForeground
<1>2. tty'.ready = tty.ready
  BY <1>1 DEF LineInv
<1> QED
  BY <1>1, <1>2, ReturnPlace

LEMMA WaitPlace ==
  ASSUME PlaceInv, NEW p \in Procs, Wait(p)
  PROVE  PlaceInv'
BY ReturnPlace DEF Wait

LEMMA ModeStartPlace ==
  ASSUME PlaceInv, NEW p \in Procs, ModeStart(p)
  PROVE  PlaceInv'
<1>1. UNCHANGED <<sc, input, ilock, tty, holder, irq>> /\ ThShape /\ Place(p, th[p])
      /\ Goto(p, "mode")
  BY DEF ModeStart, PlaceInv
<1>2. PICK t : Moves(p, t) /\ t.pc = "mode" /\ t.at = th[p].at
  BY <1>1, Went
<1> QED
  BY <1>1, <1>2, OutsidePlace DEF InRead, Moves, Place

LEMMA TtyWritePlace ==
  ASSUME PlaceInv, NEW p \in Procs, TtyWrite(p)
  PROVE  PlaceInv'
<1>1. UNCHANGED <<sc, input, ilock, tty, holder, irq>> /\ ThShape /\ Place(p, th[p])
  BY DEF TtyWrite, PlaceInv
<1>2. PICK s, t0, t : t0 = th[p] /\ t = Return(t0, FALSE) /\ Say(p, t, s, "user")
  BY Zenon DEF TtyWrite
<1>3. DOMAIN t = Fields /\ t.at \in Nat \ {0}
  BY <1>1, <1>2, Returned DEF ThShape, Place
<1>4. PICK u : /\ DOMAIN u = Fields /\ th' = [th EXCEPT ![p] = u]
               /\ u.at = t.at /\ u.pend = t.pend
               /\ u.pc = "user" \/ (u.pc = "push" /\ u.back = "user")
  <2>1. DOMAIN t = Fields /\ Say(p, t, s, "user")
    BY <1>2, <1>3
  <2> HIDE DEF Say
  <2> QED
    BY <2>1, Said
<1> QED
  BY <1>1, <1>3, <1>4, OutsidePlace DEF InRead

LEMMA ReadRawEndPlace ==
  ASSUME PlaceInv, NEW p \in Procs, ReadRawEnd(p)
  PROVE  PlaceInv'
<1>1. /\ UNCHANGED <<sc, input, ilock, tty, irq>> /\ ThShape /\ Place(p, th[p])
      /\ th[p].pc = "end" /\ holder' = None
  BY DEF ReadRawEnd, PlaceInv, Runs
<1>2. PICK s, t0, t : t0 = th[p] /\ t = Return(t0, FALSE) /\ Say(p, t, s, "user")
  BY Zenon DEF ReadRawEnd
<1>3. DOMAIN t = Fields /\ t.at \in Nat \ {0}
  BY <1>1, <1>2, Returned DEF ThShape, Place
<1>4. PICK u : /\ DOMAIN u = Fields /\ th' = [th EXCEPT ![p] = u]
               /\ u.at = t.at /\ u.pend = t.pend
               /\ u.pc = "user" \/ (u.pc = "push" /\ u.back = "user")
  <2>1. DOMAIN t = Fields /\ Say(p, t, s, "user")
    BY <1>2, <1>3
  <2> HIDE DEF Say
  <2> QED
    BY <2>1, Said
<1>5. holder = p
  BY <1>1 DEF Place, InRead
<1> QED
  BY <1>1, <1>3, <1>4, <1>5, OutsidePlace DEF InRead

LEMMA ReadEatPlace ==
  ASSUME PlaceInv, NEW p \in Procs, ReadEat(p)
  PROVE  PlaceInv'
<1>1. /\ UNCHANGED <<sc, input, ilock, holder, irq>> /\ ThShape /\ Place(p, th[p])
      /\ th[p].pc = "got"
  BY DEF ReadEat, PlaceInv, Runs
<1>2. PICK s, t : t = [th[p] EXCEPT !.c = None] /\ Say(p, t, s, "line")
  BY Zenon DEF ReadEat
<1>3. DOMAIN t = Fields /\ t.at = th[p].at
  BY <1>1, <1>2 DEF ThShape, Fields
<1>4. PICK u : /\ DOMAIN u = Fields /\ th' = [th EXCEPT ![p] = u]
               /\ u.at = t.at /\ u.pend = t.pend
               /\ u.pc = "line" \/ (u.pc = "push" /\ u.back = "line")
  <2>1. DOMAIN t = Fields /\ Say(p, t, s, "line")
    BY <1>2, <1>3
  <2> HIDE DEF Say
  <2> QED
    BY <2>1, Said
<1>5. holder = p /\ Moves(p, u)
  BY <1>1, <1>4 DEF Place, InRead, Moves
<1>6. Place(p, u)'
  BY <1>1, <1>3, <1>4, <1>5 DEF Place, InRead, Scene, AllScenes
<1> QED
  BY <1>1, <1>5, <1>6, PlaceStep

LEMMA ReadRawPlace ==
  ASSUME PlaceInv, NEW p \in Procs, ReadRaw(p)
  PROVE  PlaceInv'
<1>1. /\ UNCHANGED <<sc, input, ilock, tty, holder, irq>> /\ ThShape /\ Place(p, th[p])
      /\ th[p].pc = "got"
  BY DEF ReadRaw, PlaceInv, Runs
<1>2. PICK out, l : /\ th' = [th EXCEPT ![p].out = out, ![p].c = None, ![p].pc = l]
                    /\ l \in {"getc", "end"}
  BY DEF ReadRaw
<1>3. PICK t : t = [th[p] EXCEPT !.out = out, !.c = None, !.pc = l]
  OBVIOUS
<1>4. DOMAIN t = Fields /\ t.pc = l /\ t.at = th[p].at
  BY <1>1, <1>3 DEF ThShape, Fields
<1>5. th' = [th EXCEPT ![p] = t]
  BY <1>1, <1>2, <1>3 DEF ThShape, Fields
<1>6. Moves(p, t)
  BY <1>4, <1>5 DEF Moves
<1>7. Place(p, t)'
  BY <1>1, <1>2, <1>4 DEF Place, InRead, Scene, AllScenes
<1> QED
  BY <1>1, <1>6, <1>7, PlaceStep

LEMMA PlaceNext ==
  ASSUME PlaceInv, LineInv, Next
  PROVE  PlaceInv'
<1>1. ASSUME NEW p \in Procs, Reads(p)
      PROVE  PlaceInv'
  BY <1>1, ReadStartPlace, ReadTtinPlace, ReadLockPlace, ReadMorePlace, ReadGivePlace,
     ReadEatPlace, ReadRawPlace, ReadRawEndPlace, GetcPlace, GetcInterruptedPlace,
     GetcTestPlace, SleepPlace, Zenon DEF Reads
<1>2. ASSUME NEW p \in Procs, Others(p)
      PROVE  PlaceInv'
  BY <1>2, DeliverPlace, TtyWritePlace, PushPlace, ModeStartPlace, SetModePlace,
     SetForegroundPlace, ContinuePlace, WaitPlace, Zenon DEF Others
<1> QED
  BY <1>1, <1>2, KeyPlace, KeyFlushPlace, KeySendPlace, KeyPutPlace, Zenon DEF Next

-----------------------------------------------------------------------------
(* The line.                                                                *)

\* The bytes are of some set.
LineSeq(S) ==
    /\ tty.line \in Seq(S) /\ given \in Seq(S)
    /\ edited.sent \in Seq(S) /\ edited.cur \in Seq(S)
SeqInv == \E S : LineSeq(S)

LEMMA PartOf ==
  ASSUME NEW S, NEW s \in Seq(S), NEW m \in Nat \ {0}, NEW n \in Nat, n <= Len(s)
  PROVE  /\ SubSeq(s, m, n) \in Seq(S)
         /\ Len(SubSeq(s, m, n)) = IF m <= n THEN n - m + 1 ELSE 0
<1>1. Len(s) \in Nat /\ \A i \in 1 .. Len(s) : s[i] \in S
  BY LenProperties, ElementOfSeq
<1>2. m \in Int /\ n \in Int /\ \A i \in m .. n : s[i] \in S
  BY <1>1
<1> QED
  BY <1>2, SubSeqProperties

LEMMA LineKept ==
  ASSUME LineInv, SeqInv, UNCHANGED <<tty, edited, given>>
  PROVE  LineInv' /\ SeqInv'
<1>1. LineInv'
  BY DEF LineInv, LinesWhole
<1>2. SeqInv'
  <2>1. PICK S : LineSeq(S)
    BY DEF SeqInv
  <2>2. LineSeq(S)'
    BY <2>1 DEF LineSeq
  <2> QED
    BY <2>2 DEF SeqInv
<1> QED
  BY <1>1, <1>2

\* A canonical read gets the next bytes of the ready part.
LEMMA ReadGiveLine ==
  ASSUME PlaceInv, LineInv, SeqInv, NEW p \in Procs, ReadGive(p)
  PROVE  LineInv' /\ SeqInv'
<1>1. PICK S : LineSeq(S)
  BY DEF SeqInv
<1>2. PICK n : /\ n = Least(Call(p)[2], tty.ready - tty.rpos)
               /\ tty' = IF n = 0 THEN [tty EXCEPT !.eof = FALSE] ELSE Taken(n)
               /\ given' = given \o SubSeq(tty.line, tty.rpos + 1, tty.rpos + n)
  BY DEF ReadGive
<1>3. Call(p)[2] \in Nat \ {0}
  BY DEF PlaceInv, Place, InRead, ReadGive, Runs, Call
<1>4. PICK line, ready, rpos : line = tty.line /\ ready = tty.ready /\ rpos = tty.rpos
  OBVIOUS
<1>5. /\ line \in Seq(S) /\ given \in Seq(S) /\ edited.sent \in Seq(S) /\ edited.cur \in Seq(S)
      /\ Len(line) \in Nat /\ ready \in Nat /\ rpos \in Nat
      /\ rpos <= ready /\ ready <= Len(line) /\ \A i \in 1 .. Len(line) : line[i] \in S
      /\ LINE_MAX \in Nat \ {0}
  BY <1>1, <1>4, ElementOfSeq, LenProperties, TtyAssumption DEF LineSeq, LineInv
<1>6. n \in Nat /\ n <= ready - rpos /\ (n = 0 <=> rpos = ready)
  BY <1>2, <1>3, <1>4, <1>5 DEF Least
<1>7. /\ given \o SubSeq(line, rpos + 1, ready) = edited.sent
      /\ SubSeq(line, ready + 1, Len(line)) = edited.cur
      /\ edited' = edited
  BY <1>4 DEF LineInv, LinesWhole, ReadGive
<1>8. PICK part : part = SubSeq(line, rpos + 1, rpos + n) /\ part \in Seq(S) /\ given' = given \o part
  <2>1. rpos + 1 \in Nat \ {0} /\ rpos + n \in Nat /\ rpos + n <= Len(line)
    BY <1>5, <1>6
  <2>2. SubSeq(line, rpos + 1, rpos + n) \in Seq(S)
    BY <1>5, <2>1, PartOf
  <2> QED
    BY <1>2, <1>4, <2>2
<1>9. given' \in Seq(S)
  BY <1>5, <1>8, ConcatProperties
<1>10. PICK rest : rest = SubSeq(line, ready + 1, Len(line)) /\ rest \in Seq(S)
                   /\ Len(rest) = Len(line) - ready
  <2>1. PICK rest : rest = SubSeq(line, ready + 1, Len(line))
    OBVIOUS
  <2>2. ready + 1 \in Nat \ {0}
    BY <1>5
  <2>3. /\ rest \in Seq(S)
        /\ Len(rest) = IF ready + 1 <= Len(line) THEN Len(line) - (ready + 1) + 1 ELSE 0
    BY <1>5, <2>1, <2>2, PartOf
  <2>4. Len(rest) = Len(line) - ready
    BY <1>5, <2>3
  <2> QED
    BY <2>1, <2>3, <2>4
<1>11. CASE n = 0
  <2>1. tty' = [tty EXCEPT !.eof = FALSE]
    BY <1>2, <1>11
  <2>2. /\ tty'.line = line /\ tty'.ready = ready /\ tty'.rpos = rpos
        /\ tty'.mode = tty.mode /\ tty'.esc = tty.esc
        /\ DOMAIN tty' = {"mode", "line", "ready", "rpos", "eof", "esc", "fg"}
    BY <1>4, <2>1 DEF LineInv
  <2>3. part = <<>>
    BY <1>5, <1>8, <1>11, SubSeqEmpty
  <2>4. given' = given
    BY <1>5, <1>8, <2>3, ConcatEmptySeq
  <2>5. LineSeq(S)'
    BY <1>5, <1>7, <2>2, <2>4 DEF LineSeq
  <2>6. LineInv'
    BY <1>4, <1>5, <1>7, <2>2, <2>4 DEF LineInv, LinesWhole
  <2> QED
    BY <2>5, <2>6 DEF SeqInv
<1>12. CASE n # 0 /\ rpos + n < ready
  <2>1. tty' = [tty EXCEPT !.rpos = @ + n]
    BY <1>2, <1>4, <1>12 DEF Taken
  <2>2. /\ tty'.line = line /\ tty'.ready = ready /\ tty'.rpos = rpos + n
        /\ tty'.mode = tty.mode /\ tty'.esc = tty.esc
        /\ DOMAIN tty' = {"mode", "line", "ready", "rpos", "eof", "esc", "fg"}
    BY <1>4, <2>1 DEF LineInv
  <2>3. PICK end : end = SubSeq(line, rpos + n + 1, ready) /\ end \in Seq(S)
    <3>1. rpos + n + 1 \in Nat \ {0}
      BY <1>5, <1>6
    <3> QED
      BY <1>5, <3>1, PartOf
  <2>4. part \o end = SubSeq(line, rpos + 1, ready)
    <3>1. PICK m, k : m = rpos + 1 /\ k = rpos + n
      OBVIOUS
    <3>2. m \in 1 .. Len(line) + 1 /\ k \in m - 1 .. Len(line) /\ ready \in k .. Len(line)
      BY <1>5, <1>6, <1>12, <3>1
    <3>3. SubSeq(line, m, k) \o SubSeq(line, k + 1, ready) = SubSeq(line, m, ready)
      BY <1>5, <3>2, ConcatAdjacentSubSeq
    <3> QED
      BY <1>8, <2>3, <3>1, <3>3
  <2>5. given' \o end = edited.sent
    <3>1. (given \o part) \o end = given \o (part \o end)
      <4>1. given \in Seq(S) /\ part \in Seq(S) /\ end \in Seq(S)
        BY <1>5, <1>8, <2>3
      <4> QED
        BY <4>1, ConcatAssociative
    <3> QED
      BY <1>7, <1>8, <2>4, <3>1
  <2>6. LineSeq(S)'
    BY <1>5, <1>7, <1>9, <2>2 DEF LineSeq
  <2>7. LinesWhole'
    BY <1>7, <2>2, <2>3, <2>5 DEF LinesWhole
  <2>8. /\ rpos + n \in Nat /\ rpos + n <= ready /\ rpos + n # ready
        /\ Len(line) - ready <= LINE_MAX - 1
        /\ tty.mode.canon \/ ready = 0
    BY <1>4, <1>5, <1>6, <1>12 DEF LineInv
  <2>9. ready # 0 /\ DOMAIN edited = {"sent", "cur", "esc"} /\ edited.esc = tty.esc
    BY <1>5, <1>6, <1>12 DEF LineInv
  <2>10. LineInv'
    BY <1>5, <1>7, <2>2, <2>7, <2>8, <2>9 DEF LineInv
  <2> QED
    BY <2>6, <2>10 DEF SeqInv
<1>13. CASE n # 0 /\ ~(rpos + n < ready)
  <2>1. tty' = [tty EXCEPT !.line = SubSeq(@, tty.ready + 1, Len(@)), !.ready = 0, !.rpos = 0]
    BY <1>2, <1>4, <1>13 DEF Taken
  <2>2. /\ tty'.line = rest /\ tty'.ready = 0 /\ tty'.rpos = 0
        /\ tty'.mode = tty.mode /\ tty'.esc = tty.esc
        /\ DOMAIN tty' = {"mode", "line", "ready", "rpos", "eof", "esc", "fg"}
    BY <1>4, <1>10, <2>1 DEF LineInv
  <2>3. given' = edited.sent
    <3>1. rpos + n = ready
      BY <1>5, <1>6, <1>13
    <3> QED
      BY <1>7, <1>8, <3>1
  <2>4. given' \o SubSeq(rest, 1, 0) = given'
    BY <1>9, SubSeqEmpty, ConcatEmptySeq
  <2>5. SubSeq(rest, 1, Len(rest)) = rest
    BY <1>10, SubSeqFull
  <2>6. LineSeq(S)'
    BY <1>5, <1>7, <1>9, <1>10, <2>2 DEF LineSeq
  <2>7. LinesWhole'
    <3>1. given' \o SubSeq(tty'.line, tty'.rpos + 1, tty'.ready) = edited'.sent
      BY <1>7, <2>2, <2>3, <2>4
    <3>2. SubSeq(tty'.line, tty'.ready + 1, Len(tty'.line)) = edited'.cur
      <4>1. tty'.ready + 1 = 1
        BY <2>2
      <4>2. SubSeq(tty'.line, tty'.ready + 1, Len(tty'.line)) = rest
        BY <2>2, <2>5, <4>1
      <4> QED
        BY <1>7, <1>10, <4>2
    <3> QED
      BY <3>1, <3>2 DEF LinesWhole
  <2>8. /\ Len(line) - ready <= LINE_MAX - 1
        /\ DOMAIN edited = {"sent", "cur", "esc"} /\ edited.esc = tty.esc
    BY <1>4 DEF LineInv
  <2>10. Len(rest) \in Nat /\ Len(rest) <= LINE_MAX - 1
    BY <1>5, <1>10, <2>8
  <2>9. LineInv'
    BY <1>5, <1>7, <2>2, <2>7, <2>8, <2>10 DEF LineInv
  <2> QED
    BY <2>6, <2>9 DEF SeqInv
<1> QED
  BY <1>11, <1>12, <1>13

\* What may become of the terminal and the lines with a key, when nothing is ready: none
\* but an escape sequence, nothing, bytes less, a line sent without or with its newline,
\* a byte more.
KeyMade(t, a, line) ==
    \/ \E e : t = [tty EXCEPT !.esc = e] /\ a = [edited EXCEPT !.esc = e]
    \/ t = tty /\ a = edited
    \/ \E k \in Nat :
          /\ k <= Len(line)
          /\ t = [tty EXCEPT !.line = SubSeq(line, 1, Len(line) - k)]
          /\ \/ a = [edited EXCEPT !.cur = SubSeq(line, 1, Len(line) - k)]
             \/ k = 0 /\ a = edited
    \/ \E b : /\ t = [tty EXCEPT !.eof = b, !.ready = Len(line)]
              /\ a = [edited EXCEPT !.sent = edited.sent \o line, !.cur = <<>>]
    \/ /\ t = [tty EXCEPT !.line = Append(line, "NL"), !.ready = Len(Append(line, "NL"))]
       /\ a = [edited EXCEPT !.sent = edited.sent \o line \o <<"NL">>, !.cur = <<>>]
    \/ \E e : /\ t = [tty EXCEPT !.line = Append(line, e)]
              /\ a = [edited EXCEPT !.cur = Append(line, e)]
              /\ Len(line) < LINE_MAX - 1

\* What canon_input makes of a key, and what was to become of it.
LEMMA Canon ==
  ASSUME NEW c, NEW line, line = tty.line, tty.ready = 0, Len(line) \in Nat,
         line # <<>> => Len(line) # 0,
         Len(line) <= LINE_MAX - 1, edited.cur = line, edited.esc = tty.esc, LINE_MAX \in Nat
  PROVE  KeyMade(CanonInput(c).tty, Typed(edited, c), line)
<1>1. DOMAIN SigOf = {"^C", "^\\", "^Z"}
  BY DEF SigOf
<1>2. CASE tty.esc = 1
  <2>1. PICK e : e = IF c \in {"[", "O"} THEN 2 ELSE 0
    OBVIOUS
  <2>2. CanonInput(c).tty = [tty EXCEPT !.esc = e]
    BY <1>2, <2>1 DEF CanonInput
  <2>3. Typed(edited, c) = [edited EXCEPT !.esc = e]
    BY <1>2, <2>1 DEF Typed
  <2> QED
    BY <2>2, <2>3 DEF KeyMade
<1>3. CASE tty.esc = 2
  <2>1. PICK e : e = IF c \in Finals THEN 0 ELSE 2
    OBVIOUS
  <2>2. CanonInput(c).tty = [tty EXCEPT !.esc = e]
    BY <1>3, <2>1 DEF CanonInput
  <2>3. Typed(edited, c) = [edited EXCEPT !.esc = e]
    BY <1>3, <2>1 DEF Typed
  <2> QED
    BY <2>2, <2>3 DEF KeyMade
<1>4. CASE tty.esc \notin {0, 1, 2}
  <2>1. CanonInput(c).tty = tty
    BY <1>4 DEF CanonInput
  <2>2. Typed(edited, c) = edited
    BY <1>4 DEF Typed
  <2> QED
    BY <2>1, <2>2 DEF KeyMade
<1>5. CASE tty.esc = 0 /\ c = "ESC"
  <2>1. CanonInput(c).tty = [tty EXCEPT !.esc = 1]
    BY <1>1, <1>5 DEF CanonInput, Controls
  <2>2. Typed(edited, c) = [edited EXCEPT !.esc = 1]
    BY <1>1, <1>5 DEF Typed, Controls
  <2> QED
    BY <2>1, <2>2 DEF KeyMade
<1>6. CASE tty.esc = 0 /\ c \in {"BS", "DEL"}
  <2>1. PICK k : k = Least(1, Len(line))
    OBVIOUS
  <2>2. k \in Nat /\ k <= Len(line) /\ (k = 0 <=> Len(line) = 0) /\ k \in {0, 1}
    BY <2>1 DEF Least
  <2>3. CanonInput(c).tty = Erased(tty, k)
    BY <1>1, <1>6, <2>1 DEF CanonInput, Controls
  <2>4. CanonInput(c).tty = [tty EXCEPT !.line = SubSeq(line, 1, Len(line) - k)]
    BY <2>3 DEF Erased
  <2>5. CASE line = <<>>
    <3>1. Typed(edited, c) = edited
      BY <1>1, <1>6, <2>5 DEF Typed, Controls
    <3>2. k = 0
      BY <2>2, <2>5
    <3> QED
      BY <2>2, <2>4, <3>1, <3>2 DEF KeyMade
  <2>6. CASE line # <<>> /\ k = 1
    <3>1. Typed(edited, c) = [edited EXCEPT !.cur = SubSeq(line, 1, Len(line) - 1)]
      BY <1>1, <1>6, <2>6 DEF Typed, Controls
    <3> QED
      BY <2>2, <2>4, <2>6, <3>1 DEF KeyMade
  <2>7. line # <<>> => k = 1
    BY <2>2
  <2> QED
    BY <2>5, <2>6, <2>7 DEF KeyMade
<1>7. CASE tty.esc = 0 /\ (c = "^U" \/ (c \in DOMAIN SigOf /\ tty.mode.isig))
  <2>1. CanonInput(c).tty = Erased(tty, Len(line) - 0)
    BY <1>1, <1>7 DEF CanonInput, Controls
  <2>2. CanonInput(c).tty = [tty EXCEPT !.line = SubSeq(line, 1, Len(line) - Len(line))]
    BY <2>1 DEF Erased
  <2>3. Typed(edited, c) = [edited EXCEPT !.cur = <<>>]
    BY <1>1, <1>7 DEF Typed, Controls
  <2>4. PICK k : k = Len(line)
    OBVIOUS
  <2>5. k \in Nat /\ k <= Len(line)
    BY <2>4
  <2>6. SubSeq(line, 1, Len(line) - k) = <<>>
    BY <2>4, SubSeqEmpty
  <2> QED
    BY <2>2, <2>3, <2>4, <2>5, <2>6, Zenon DEF KeyMade
<1>8. CASE tty.esc = 0 /\ c \in DOMAIN SigOf /\ ~tty.mode.isig
  <2>1. CanonInput(c).tty = tty
    BY <1>1, <1>8 DEF CanonInput, Controls
  <2>2. Typed(edited, c) = edited
    BY <1>1, <1>8 DEF Typed, Controls
  <2> QED
    BY <2>1, <2>2 DEF KeyMade
<1>9. CASE tty.esc = 0 /\ c = "^D"
  <2>1. PICK b : b = (tty.eof \/ Len(line) - 0 = 0)
    OBVIOUS
  <2>2. CanonInput(c).tty = [tty EXCEPT !.eof = b, !.ready = Len(line)]
    BY <1>1, <1>9, <2>1 DEF CanonInput, Controls
  <2>3. Typed(edited, c) = [edited EXCEPT !.sent = edited.sent \o line, !.cur = <<>>]
    BY <1>1, <1>9 DEF Typed, Controls
  <2> QED
    BY <2>2, <2>3 DEF KeyMade
<1>10. CASE tty.esc = 0 /\ c \in {"NL", "CR"}
  <2>1. Len(line) < LINE_MAX
    OBVIOUS
  <2>2. PICK l : l = Append(line, "NL") /\ l = Append(tty.line, "NL")
    OBVIOUS
  <2>4. ASSUME c = "NL"
        PROVE  CanonInput(c).tty = [tty EXCEPT !.line = l, !.ready = Len(l)]
    BY <1>1, <1>10, <2>1, <2>2, <2>4 DEF CanonInput, Controls
  <2>5. ASSUME c = "CR"
        PROVE  CanonInput(c).tty = [tty EXCEPT !.line = l, !.ready = Len(l)]
    BY <1>1, <1>10, <2>1, <2>2, <2>5 DEF CanonInput, Controls
  <2>3. Typed(edited, c) = [edited EXCEPT !.sent = edited.sent \o line \o <<"NL">>, !.cur = <<>>]
    BY <1>1, <1>10 DEF Typed, Controls
  <2>6. CanonInput(c).tty = [tty EXCEPT !.line = l, !.ready = Len(l)]
    BY <1>10, <2>4, <2>5
  <2> QED
    BY <2>2, <2>3, <2>6 DEF KeyMade
<1>11. CASE tty.esc = 0 /\ (c \notin Controls \/ c = "TAB") /\ Len(line) < LINE_MAX - 1
  <2>1. CanonInput(c).tty = [tty EXCEPT !.line = Append(line, c)]
    BY <1>1, <1>11 DEF CanonInput, Controls
  <2>2. Typed(edited, c) = [edited EXCEPT !.cur = Append(line, c)]
    BY <1>1, <1>11 DEF Typed, Controls
  <2> QED
    BY <1>11, <2>1, <2>2 DEF KeyMade
<1>12. CASE /\ tty.esc = 0
            /\ \/ (c \notin Controls \/ c = "TAB") /\ ~(Len(line) < LINE_MAX - 1)
               \/ c = "BEL"
  <2>1. CanonInput(c).tty = tty
    BY <1>1, <1>12 DEF CanonInput, Controls
  <2>2. Typed(edited, c) = edited
    BY <1>1, <1>12 DEF Typed, Controls
  <2> QED
    BY <2>1, <2>2 DEF KeyMade
<1> QED
  BY <1>1, <1>2, <1>3, <1>4, <1>5, <1>6, <1>7, <1>8, <1>9, <1>10, <1>11, <1>12 DEF Controls

\* A key is eaten: the line is what an editor would have made of it.
LEMMA ReadEatLine ==
  ASSUME PlaceInv, LineInv, SeqInv, NEW p \in Procs, ReadEat(p)
  PROVE  LineInv' /\ SeqInv'
<1>1. PICK S : LineSeq(S)
  BY DEF SeqInv
<1>2. PICK c, line : c = th[p].c /\ line = tty.line
  OBVIOUS
<1>3. /\ tty' = CanonInput(c).tty /\ edited' = Typed(edited, c) /\ given' = given
      /\ tty.mode.canon
  BY <1>2 DEF ReadEat
<1>4. tty.ready = 0 /\ tty.rpos = 0
  <2>1. Place(p, th[p]) /\ th[p].pc = "got"
    BY DEF PlaceInv, ReadEat, Runs
  <2> QED
    BY <2>1 DEF Place, LineInv
<1>5. /\ line \in Seq(S) /\ given \in Seq(S) /\ edited.sent \in Seq(S) /\ edited.cur \in Seq(S)
      /\ Len(line) \in Nat /\ Len(line) <= LINE_MAX - 1 /\ LINE_MAX \in Nat \ {0}
      /\ line # <<>> => Len(line) # 0
  BY <1>1, <1>2, <1>4, EmptySeq, LenProperties, TtyAssumption DEF LineSeq, LineInv
<1>6. given = edited.sent /\ edited.cur = line
  <2>1. /\ given \o SubSeq(line, 1, 0) = edited.sent
        /\ SubSeq(line, 1, Len(line)) = edited.cur
    BY <1>2, <1>4 DEF LineInv, LinesWhole
  <2>2. SubSeq(line, 1, 0) = <<>> /\ given \o <<>> = given
    BY <1>5, SubSeqEmpty, ConcatEmptySeq
  <2> QED
    BY <1>5, <2>1, <2>2, SubSeqFull
<1>7. /\ DOMAIN tty = {"mode", "line", "ready", "rpos", "eof", "esc", "fg"}
      /\ DOMAIN edited = {"sent", "cur", "esc"} /\ edited.esc = tty.esc
  BY DEF LineInv
\* Nothing is sent: a line l is being typed.
<1>8. ASSUME NEW T, NEW l \in Seq(T), given \in Seq(T), Len(l) <= LINE_MAX - 1,
             DOMAIN tty' = DOMAIN tty, DOMAIN edited' = DOMAIN edited,
             tty'.line = l, tty'.ready = 0, tty'.rpos = 0, edited'.esc = tty'.esc,
             edited'.sent = edited.sent, edited'.cur = l
      PROVE  LineInv' /\ SeqInv'
  <2>1. Len(l) \in Nat /\ SubSeq(l, 1, Len(l)) = l /\ SubSeq(l, 1, 0) = <<>> /\ given \o <<>> = given
    BY <1>8, LenProperties, SubSeqFull, SubSeqEmpty, ConcatEmptySeq
  <2>2. tty'.ready + 1 = 1 /\ tty'.rpos + 1 = 1
    BY <1>8
  <2>3. LinesWhole'
    BY <1>3, <1>6, <1>8, <2>1, <2>2 DEF LinesWhole
  <2>4. LineInv'
    BY <1>5, <1>7, <1>8, <2>1, <2>3 DEF LineInv
  <2>5. LineSeq(T)'
    BY <1>3, <1>6, <1>8 DEF LineSeq
  <2> QED
    BY <2>4, <2>5 DEF SeqInv
\* The line is sent, as l.
<1>9. ASSUME NEW T, NEW l \in Seq(T), given \in Seq(T),
             DOMAIN tty' = DOMAIN tty, DOMAIN edited' = DOMAIN edited,
             tty'.line = l, tty'.ready = Len(l), tty'.rpos = 0, edited'.esc = tty'.esc,
             tty'.mode = tty.mode,
             edited'.sent = given \o l, edited'.cur = <<>>
      PROVE  LineInv' /\ SeqInv'
  <2>1. /\ Len(l) \in Nat /\ SubSeq(l, 1, Len(l)) = l /\ given \o l \in Seq(T)
        /\ <<>> \in Seq(T)
    BY <1>9, LenProperties, SubSeqFull, ConcatProperties, EmptySeq
  <2>2. SubSeq(l, Len(l) + 1, Len(l)) = <<>>
    BY <2>1, SubSeqEmpty
  <2>3. tty'.rpos + 1 = 1
    BY <1>9
  <2>4. LinesWhole'
    BY <1>3, <1>9, <2>1, <2>2, <2>3 DEF LinesWhole
  <2>5. LineInv'
    BY <1>3, <1>5, <1>7, <1>9, <2>1, <2>4 DEF LineInv
  <2>6. LineSeq(T)'
    BY <1>3, <1>9, <2>1 DEF LineSeq
  <2> QED
    BY <2>5, <2>6 DEF SeqInv
<1>10. ASSUME NEW e, tty' = [tty EXCEPT !.esc = e], edited' = [edited EXCEPT !.esc = e]
       PROVE  LineInv' /\ SeqInv'
  <2>1. /\ DOMAIN tty' = DOMAIN tty /\ DOMAIN edited' = DOMAIN edited
        /\ tty'.line = line /\ tty'.ready = 0 /\ tty'.rpos = 0 /\ edited'.esc = tty'.esc
        /\ edited'.sent = edited.sent /\ edited'.cur = line
    BY <1>2, <1>4, <1>6, <1>7, <1>10
  <2> QED
    BY <1>5, <1>8, <2>1
<1>11. CASE tty' = tty /\ edited' = edited
  BY <1>3, <1>11, LineKept
<1>12. ASSUME NEW k \in Nat, k <= Len(line),
              tty' = [tty EXCEPT !.line = SubSeq(line, 1, Len(line) - k)],
              \/ edited' = [edited EXCEPT !.cur = SubSeq(line, 1, Len(line) - k)]
              \/ k = 0 /\ edited' = edited
       PROVE  LineInv' /\ SeqInv'
  <2>1. PICK l : /\ l = SubSeq(line, 1, Len(line) - k) /\ l \in Seq(S) /\ Len(l) <= LINE_MAX - 1
                 /\ k = 0 => l = line
    <3>1. PICK n : n = Len(line) - k /\ n \in Nat /\ n <= Len(line)
      BY <1>5, <1>12
    <3>2. PICK l : l = SubSeq(line, 1, n)
      OBVIOUS
    <3>3. 1 \in Nat \ {0}
      OBVIOUS
    <3>4. l \in Seq(S) /\ Len(l) = IF 1 <= n THEN n - 1 + 1 ELSE 0
      BY <1>5, <3>1, <3>2, <3>3, PartOf
    <3>5. k = 0 => l = line
      BY <1>5, <3>1, <3>2, SubSeqFull
    <3>6. Len(l) = n
      BY <3>1, <3>4
    <3>7. Len(l) <= LINE_MAX - 1
      BY <1>5, <3>1, <3>6
    <3> QED
      BY <3>1, <3>2, <3>4, <3>5, <3>7
  <2>2. /\ DOMAIN tty' = DOMAIN tty /\ DOMAIN edited' = DOMAIN edited
        /\ tty'.line = l /\ tty'.ready = 0 /\ tty'.rpos = 0 /\ edited'.esc = tty'.esc
        /\ edited'.sent = edited.sent /\ edited'.cur = l
    BY <1>4, <1>6, <1>7, <1>12, <2>1
  <2> QED
    BY <1>5, <1>8, <2>1, <2>2
<1>13. ASSUME NEW b, tty' = [tty EXCEPT !.eof = b, !.ready = Len(line)],
              edited' = [edited EXCEPT !.sent = edited.sent \o line, !.cur = <<>>]
       PROVE  LineInv' /\ SeqInv'
  <2>1. /\ DOMAIN tty' = DOMAIN tty /\ DOMAIN edited' = DOMAIN edited
        /\ tty'.line = line /\ tty'.ready = Len(line) /\ tty'.rpos = 0 /\ edited'.esc = tty'.esc
        /\ tty'.mode = tty.mode
        /\ edited'.sent = given \o line /\ edited'.cur = <<>>
    BY <1>2, <1>4, <1>6, <1>7, <1>13
  <2> QED
    BY <1>5, <1>9, <2>1
\* One byte more; the bytes are of a larger set.
<1>14. ASSUME NEW e
       PROVE  \E T : /\ line \in Seq(T) /\ given \in Seq(T)
                     /\ Append(line, e) \in Seq(T) /\ Len(Append(line, e)) = Len(line) + 1
                     /\ Append(line, e) = line \o <<e>>
                     /\ (given \o line) \o <<e>> = given \o Append(line, e)
  <2>1. PICK T : T = S \cup {e}
    OBVIOUS
  <2>2. line \in Seq(T) /\ given \in Seq(T) /\ e \in T
    BY <1>5, <2>1, SeqMonotonic
  <2>3. Append(line, e) \in Seq(T) /\ Len(Append(line, e)) = Len(line) + 1
    BY <2>2, AppendProperties
  <2>4. Append(line, e) = line \o <<e>>
    BY <2>2, AppendIsConcat
  <2>5. <<e>> \in Seq(T)
    BY <2>2
  <2>6. (given \o line) \o <<e>> = given \o (line \o <<e>>)
    BY <2>2, <2>5, ConcatAssociative
  <2> QED
    BY <2>2, <2>3, <2>4, <2>6
<1>15. CASE /\ tty' = [tty EXCEPT !.line = Append(line, "NL"), !.ready = Len(Append(line, "NL"))]
            /\ edited' = [edited EXCEPT !.sent = edited.sent \o line \o <<"NL">>, !.cur = <<>>]
  <2>1. PICK T : /\ given \in Seq(T) /\ Append(line, "NL") \in Seq(T)
                 /\ (given \o line) \o <<"NL">> = given \o Append(line, "NL")
    BY <1>14
  <2>2. PICK l : l = Append(line, "NL") /\ l \in Seq(T)
    BY <2>1
  <2>3. /\ DOMAIN tty' = DOMAIN tty /\ DOMAIN edited' = DOMAIN edited
        /\ tty'.line = l /\ tty'.ready = Len(l) /\ tty'.rpos = 0 /\ edited'.esc = tty'.esc
        /\ tty'.mode = tty.mode
        /\ edited'.sent = given \o l /\ edited'.cur = <<>>
    BY <1>2, <1>4, <1>6, <1>7, <1>15, <2>1, <2>2
  <2> QED
    BY <1>9, <2>1, <2>2, <2>3
<1>16. ASSUME NEW e, tty' = [tty EXCEPT !.line = Append(line, e)],
              edited' = [edited EXCEPT !.cur = Append(line, e)], Len(line) < LINE_MAX - 1
       PROVE  LineInv' /\ SeqInv'
  <2>1. PICK T : /\ given \in Seq(T) /\ Append(line, e) \in Seq(T)
                 /\ Len(Append(line, e)) = Len(line) + 1
    BY <1>14
  <2>2. PICK l : l = Append(line, e) /\ l \in Seq(T) /\ Len(l) <= LINE_MAX - 1
    <3>1. PICK l : l = Append(line, e)
      OBVIOUS
    <3>2. l \in Seq(T) /\ Len(l) = Len(line) + 1
      BY <2>1, <3>1
    <3>3. Len(l) <= LINE_MAX - 1
      BY <1>5, <1>16, <3>2
    <3> QED
      BY <3>1, <3>2, <3>3
  <2>3. /\ DOMAIN tty' = DOMAIN tty /\ DOMAIN edited' = DOMAIN edited
        /\ tty'.line = l /\ tty'.ready = 0 /\ tty'.rpos = 0 /\ edited'.esc = tty'.esc
        /\ edited'.sent = edited.sent /\ edited'.cur = l
    BY <1>2, <1>4, <1>6, <1>7, <1>16, <2>2
  <2> QED
    BY <1>8, <2>1, <2>2, <2>3
<1>17. KeyMade(CanonInput(c).tty, Typed(edited, c), line)
  BY <1>2, <1>4, <1>5, <1>6, <1>7, Canon
<1> QED
  BY <1>3, <1>10, <1>11, <1>12, <1>13, <1>15, <1>16, <1>17, Zenon DEF KeyMade

\* Leaving canonical mode, the line is dropped, and what was sent with it.
LEMMA SetModeLine ==
  ASSUME LineInv, SeqInv, NEW p \in Procs, SetMode(p)
  PROVE  LineInv' /\ SeqInv'
<1>1. PICK S : LineSeq(S)
  BY DEF SeqInv
<1>2. /\ DOMAIN tty = {"mode", "line", "ready", "rpos", "eof", "esc", "fg"}
      /\ DOMAIN edited = {"sent", "cur", "esc"} /\ edited.esc = tty.esc
  BY DEF LineInv
<1>3. PICK m : m = Call(p)[2]
  OBVIOUS
<1>4. CASE tty.mode.canon /\ ~m.canon
  <2>1. /\ tty' = [tty EXCEPT !.mode = m, !.line = <<>>, !.ready = 0, !.rpos = 0, !.eof = FALSE]
        /\ edited' = [edited EXCEPT !.sent = <<>>, !.cur = <<>>]
        /\ given' = <<>>
    BY <1>3, <1>4 DEF SetMode
  <2>2. /\ DOMAIN tty' = DOMAIN tty /\ DOMAIN edited' = DOMAIN edited
        /\ tty'.line = <<>> /\ tty'.ready = 0 /\ tty'.rpos = 0 /\ edited'.esc = tty'.esc
        /\ edited'.sent = <<>> /\ edited'.cur = <<>>
    BY <1>2, <2>1
  <2>3. /\ SubSeq(<<>>, 1, 0) = <<>> /\ <<>> \o <<>> = <<>> /\ Len(<<>>) = 0
        /\ <<>> \in Seq(S)
    BY SubSeqEmpty, ConcatEmptySeq, EmptySeq
  <2>4. tty'.ready + 1 = 1 /\ tty'.rpos + 1 = 1
    BY <2>2
  <2>5. LinesWhole'
    BY <2>1, <2>2, <2>3, <2>4 DEF LinesWhole
  <2>6. LineInv'
    BY <1>2, <2>2, <2>3, <2>5, TtyAssumption DEF LineInv
  <2>7. LineSeq(S)'
    BY <2>1, <2>2, <2>3 DEF LineSeq
  <2> QED
    BY <2>6, <2>7 DEF SeqInv
<1>5. CASE ~(tty.mode.canon /\ ~m.canon)
  <2>1. tty' = [tty EXCEPT !.mode = m] /\ edited' = edited /\ given' = given
    BY <1>3, <1>5 DEF SetMode
  <2>2. /\ DOMAIN tty' = DOMAIN tty /\ tty'.mode = m
        /\ tty'.line = tty.line /\ tty'.ready = tty.ready /\ tty'.rpos = tty.rpos
        /\ tty'.esc = tty.esc
    BY <1>2, <2>1
  <2>3. LinesWhole'
    BY <2>1, <2>2 DEF LineInv, LinesWhole
  <2>4. LineInv'
    BY <1>5, <2>1, <2>2, <2>3 DEF LineInv
  <2>5. LineSeq(S)'
    BY <1>1, <2>1, <2>2 DEF LineSeq
  <2> QED
    BY <2>4, <2>5 DEF SeqInv
<1> QED
  BY <1>4, <1>5

LEMMA SetForegroundLine ==
  ASSUME LineInv, SeqInv, NEW p \in Procs, SetForeground(p)
  PROVE  LineInv' /\ SeqInv'
<1>1. PICK S : LineSeq(S)
  BY DEF SeqInv
<1>2. PICK g : tty' = [tty EXCEPT !.fg = g] /\ edited' = edited /\ given' = given
  BY DEF SetForeground
<1>3. /\ DOMAIN tty' = DOMAIN tty /\ tty'.mode = tty.mode
      /\ tty'.line = tty.line /\ tty'.ready = tty.ready /\ tty'.rpos = tty.rpos
      /\ tty'.esc = tty.esc
  BY <1>2 DEF LineInv
<1>4. LinesWhole'
  BY <1>2, <1>3 DEF LineInv, LinesWhole
<1>5. LineInv'
  BY <1>2, <1>3, <1>4 DEF LineInv
<1>6. LineSeq(S)'
  BY <1>1, <1>2, <1>3 DEF LineSeq
<1> QED
  BY <1>5, <1>6 DEF SeqInv

LEMMA LineNext ==
  ASSUME PlaceInv, LineInv, SeqInv, Next
  PROVE  LineInv' /\ SeqInv'
<1>1. ASSUME NEW p \in Procs, Reads(p)
      PROVE  LineInv' /\ SeqInv'
  <2>1. CASE ReadGive(p)
    BY <2>1, ReadGiveLine
  <2>2. CASE ReadEat(p)
    BY <2>2, ReadEatLine
  <2>3. CASE ~ReadGive(p) /\ ~ReadEat(p)
    <3>1. UNCHANGED <<tty, edited, given>>
      BY <1>1, <2>3 DEF Reads, ReadStart, ReadTtin, ReadLock, ReadMore, ReadRaw, ReadRawEnd,
         Getc, GetcInterrupted, GetcTest, Sleep
    <3> QED
      BY <3>1, LineKept
  <2> QED
    BY <2>1, <2>2, <2>3
<1>2. ASSUME NEW p \in Procs, Others(p)
      PROVE  LineInv' /\ SeqInv'
  <2>1. CASE SetMode(p)
    BY <2>1, SetModeLine
  <2>2. CASE SetForeground(p)
    BY <2>2, SetForegroundLine
  <2>3. CASE ~SetMode(p) /\ ~SetForeground(p)
    <3>1. UNCHANGED <<tty, edited, given>>
      BY <1>2, <2>3 DEF Others, Deliver, TtyWrite, Push, ModeStart, Continue, Wait
    <3> QED
      BY <3>1, LineKept
  <2> QED
    BY <2>1, <2>2, <2>3
<1>3. CASE Key \/ KeyFlush \/ KeySend \/ KeyPut
  <2>1. UNCHANGED <<tty, edited, given>>
    BY <1>3 DEF Key, KeyFlush, KeySend, KeyPut
  <2> QED
    BY <2>1, LineKept
<1> QED
  BY <1>1, <1>2, <1>3, Zenon DEF Next

-----------------------------------------------------------------------------
(* The specification.                                                       *)

TtyInv == PlaceInv /\ LineInv /\ SeqInv

LEMMA TtyInit == Init => TtyInv
<1> SUFFICES ASSUME Init
             PROVE  TtyInv
  OBVIOUS
<1>1. /\ tty = [mode |-> [canon |-> TRUE, isig |-> TRUE, echo |-> TRUE], line |-> <<>>,
                ready |-> 0, rpos |-> 0, eof |-> FALSE, esc |-> 0, fg |-> Scene.fg]
      /\ edited = [sent |-> <<>>, cur |-> <<>>, esc |-> 0] /\ given = <<>>
  BY DEF Init
<1>2. /\ SubSeq(<<>>, 1, 0) = <<>> /\ <<>> \o <<>> = <<>> /\ Len(<<>>) = 0
      /\ <<>> \in Seq({})
  BY SubSeqEmpty, ConcatEmptySeq, EmptySeq
<1>3. LineSeq({})
  BY <1>1, <1>2 DEF LineSeq
<1>4. LinesWhole
  BY <1>1, <1>2 DEF LinesWhole
<1>5. LineInv
  BY <1>1, <1>2, <1>4, TtyAssumption DEF LineInv
<1>6. /\ sc \in DOMAIN Scenarios /\ irq = [pc |-> "idle", c |-> None, raw |-> FALSE, fg |-> 0]
      /\ th = [p \in Procs |-> [at |-> 1, pc |-> "user", out |-> <<>>, c |-> None,
                                push |-> <<>>, back |-> "user", pend |-> {}, life |-> "runs"]]
  BY DEF Init
<1>7. PICK t : t = [at |-> 1, pc |-> "user", out |-> <<>>, c |-> None,
                    push |-> <<>>, back |-> "user", pend |-> {}, life |-> "runs"]
  OBVIOUS
<1>8. DOMAIN t = Fields /\ t.at = 1 /\ t.pc = "user"
  BY <1>7 DEF Fields
<1>9. /\ DOMAIN th = Procs /\ \A p \in Procs : th[p] = t
      /\ DOMAIN irq = {"pc", "c", "raw", "fg"}
  BY <1>6, <1>7
<1>10. PlaceInv
  BY <1>6, <1>8, <1>9 DEF PlaceInv, ThShape, Place, InRead
<1> QED
  BY <1>3, <1>5, <1>10 DEF TtyInv, SeqInv

\* Who is where in a read with which locks, and what the line holds, in any order of
\* keys, reads, signals and changes of mode (tty.c, console.c).
THEOREM TtyInvariant == Spec => []TtyInv
<1>1. TtyInv /\ [Next]_vars => TtyInv'
  <2> SUFFICES ASSUME TtyInv, [Next]_vars
               PROVE  TtyInv'
    OBVIOUS
  <2>1. CASE Next
    BY <2>1, PlaceNext, LineNext DEF TtyInv
  <2>2. CASE UNCHANGED vars
    <3>1. UNCHANGED <<sc, input, ilock, tty, holder, th, irq, edited, given>>
      BY <2>2 DEF vars
    <3>2. LineInv' /\ SeqInv'
      BY <3>1, LineKept DEF TtyInv
    <3>3. ASSUME NEW p \in Procs
          PROVE  Place(p, th[p])'
      BY <3>1, StaysPlace DEF TtyInv, Stays, PlaceInv, Place
    <3>4. PlaceInv'
      BY <3>1, <3>3 DEF TtyInv, PlaceInv, ThShape
    <3> QED
      BY <3>2, <3>4 DEF TtyInv
  <2> QED
    BY <2>1, <2>2
<1> QED
  BY <1>1, TtyInit, PTL DEF Spec

\* However readers share a line, are interrupted and read it in parts, they are given
\* what was sent, every byte once and in order, for any length of line, any bytes and
\* any number of readers (tty.c:219-240).
THEOREM LinesAreWhole == Spec => []LinesWhole
<1>1. TtyInv => LinesWhole
  BY DEF TtyInv, LineInv
<1> QED
  BY <1>1, TtyInvariant, PTL

\* No reader sleeps on a byte, nor on the signal of a key past the key's interrupt
\* unless the key was one of raw mode, whenever the key comes while the reader goes to
\* sleep (console.c:153-211, tty.c:148-175).
THEOREM ReadersAreTold == Spec => []ReaderTold
<1>1. TtyInv => ReaderTold
  BY DEF TtyInv, PlaceInv, Place, ReaderTold
<1> QED
  BY <1>1, TtyInvariant, PTL
=============================================================================

-------------------------------- MODULE Tty --------------------------------
(***************************************************************************)
(* The terminal: line discipline and job control (kernel/drivers/tty.c),   *)
(* the console's input queue (drivers/console.c), and behind them the      *)
(* screen of Vt.  Keys arrive in an interrupt of CPU 0; programs read,     *)
(* write, change the mode and the foreground group, wait and are stopped   *)
(* or killed by the keys.                                                  *)
(*                                                                         *)
(* A step ends where another CPU can come in: at each acquisition of       *)
(* input_lock, proc_lock, console_lock and of the mutex tty.lock.          *)
(***************************************************************************)
EXTENDS Vt, FiniteSets
LOCAL INSTANCE SequencesExt

CONSTANTS
    Procs,
    LINE_MAX,           \* a line with its newline
    INPUT_BUFFER_SIZE,  \* one more than the queue of typed bytes holds
    Scenarios,          \* what may run: programs, groups, actions, keys, the screen
    None

\* Room for a newline, for one byte in the queue; who reads asks for something.
ASSUME TtyAssumption ==
    /\ LINE_MAX \in Nat \ {0} /\ INPUT_BUFFER_SIZE \in Nat \ {0, 1}
    /\ None \notin Procs
    /\ \A s \in DOMAIN Scenarios : \A p \in Procs :
          LET prog == Scenarios[s].prog[p] IN
          \A i \in 1 .. Len(prog) : prog[i][1] = "read" => prog[i][2] \in Nat \ {0}

VARIABLES
    sc,         \* which of them runs
    vt,         \* the screen
    input,      \* bytes between input_tail and input_head
    ilock,      \* input_lock, where it is held from one step to the next
    tty,        \* struct tty: mode, line, ready, rpos, eof, esc, fg
    holder,     \* tty.lock
    th,         \* per process: the call it is at, pc and locals, pending signals
    irq,        \* the keyboard interrupt
    keys,       \* keys that may still be pressed (bound)
    edited,     \* lines sent, the line being typed: what is to become of the keys (history)
    given       \* bytes that canonical reads have returned, in order (history)

vars == <<sc, vt, input, ilock, tty, holder, th, irq, keys, edited, given>>

SigOf == [c \in {"^C", "^\\", "^Z"} |->
            CASE c = "^C" -> "INT" [] c = "^Z" -> "TSTP" [] OTHER -> "QUIT"]
StopSignals == {"TSTP", "TTIN"}

\* (A definition of its own, which TLC evaluates once.)
AllScenes == Scenarios
Scene == AllScenes[sc]

Init ==
    /\ sc \in DOMAIN Scenarios
    /\ vt = Scene.vt
    /\ input = <<>>
    /\ ilock = None
    /\ tty = [mode |-> [canon |-> TRUE, isig |-> TRUE, echo |-> TRUE], line |-> <<>>,
              ready |-> 0, rpos |-> 0, eof |-> FALSE, esc |-> 0, fg |-> Scene.fg]
    /\ holder = None
    /\ th = [p \in Procs |-> [at |-> 1, pc |-> "user", out |-> <<>>, c |-> None,
                              push |-> <<>>, back |-> "user", pend |-> {}, life |-> "runs"]]
    /\ irq = [pc |-> "idle", c |-> None, raw |-> FALSE, fg |-> 0]
    /\ keys = Scene.keys
    /\ edited = [sent |-> <<>>, cur |-> <<>>, esc |-> 0]
    /\ given = <<>>

-----------------------------------------------------------------------------
(* Signals: what proc/signal.c does to a reader (module Signal has the rest).*)

Group(g) == {p \in Procs : Scene.group[p] = g}

\* next_signal: the lowest number.
NextSignal(pend) == CHOOSE s \in pend :
    \A r \in pend : LET n == [INT |-> 2, QUIT |-> 3, TSTP |-> 20, TTIN |-> 21] IN n[s] <= n[r]

\* signal_send_locked: kept unless it is ignored; whoever sleeps wakes up.
Signalled(t, g, sig) ==
    [p \in Procs |->
        IF p \in Group(g) /\ t[p].life # "dead" /\ Scene.act[p][sig] # "IGN"
        THEN [t[p] EXCEPT !.pend = @ \cup {sig}, !.pc = IF @ = "asleep" THEN "getc" ELSE @]
        ELSE t[p]]

\* SIGCONT: stop signals are forgotten, whoever is stopped goes on.
Continued(t, g) ==
    [p \in Procs |->
        IF p \in Group(g) /\ t[p].life # "dead"
        THEN [t[p] EXCEPT !.pend = @ \ StopSignals, !.life = "runs"] ELSE t[p]]

\* The end of a system call; one that a stop interrupts is made again.  (Stop
\* signals have no handlers here.)
Return(t, intr) ==
    LET again == /\ intr /\ t.pend # {}
                 /\ NextSignal(t.pend) \in StopSignals
    IN  [t EXCEPT !.pc = "user", !.out = <<>>, !.c = None,
                  !.at = IF again THEN @ ELSE @ + 1]

Runs(p, l) == th[p].pc = l /\ th[p].life = "runs"
Goto(p, l) == th' = [th EXCEPT ![p].pc = l]
Call(p) == Scene.prog[p][th[p].at]
Ended(p) == th[p].at > Len(Scene.prog[p])

\* signal_deliver on the way back to the program.
Deliver(p) ==
    /\ Runs(p, "user") /\ th[p].pend # {}
    /\ LET sig == NextSignal(th[p].pend) IN
          th' = [th EXCEPT ![p].pend = @ \ {sig},
                           ![p].life = IF Scene.act[p][sig] # "DFL" THEN @
                                       ELSE IF sig \in StopSignals THEN "stopped" ELSE "dead"]
    /\ UNCHANGED <<sc, vt, input, ilock, tty, holder, irq, keys, edited, given>>

Starts(p, name) == Runs(p, "user") /\ th[p].pend = {} /\ ~Ended(p) /\ Call(p)[1] = name

-----------------------------------------------------------------------------
(* The queue of typed bytes.                                                *)

\* A slip: the sleeping reader is not told.
MutWoken(t) == t
Woken(t) == [p \in Procs |-> IF t[p].pc = "asleep" THEN [t[p] EXCEPT !.pc = "getc"] ELSE t[p]]

\* The end of console_input_char: a byte that finds no room is dropped.
Enqueue(c) ==
    IF Len(input) < INPUT_BUFFER_SIZE - 1 THEN Append(input, c) ELSE input

\* A key.  Those of tty_input_signal are shown at once.
Key ==
    /\ irq.pc = "idle" /\ keys > 0 /\ ~vt.stuck
    /\ \E c \in Scene.bytes :
          LET sig == tty.mode.isig /\ c \in DOMAIN SigOf IN
          /\ irq' = [pc |-> IF sig THEN "flush" ELSE "put", c |-> c, raw |-> ~tty.mode.canon, fg |-> 0]
          /\ vt' = IF sig /\ tty.mode.echo
                   THEN Write(vt, <<"^", CASE c = "^C" -> "C" [] c = "^Z" -> "Z" [] OTHER -> "\\", "NL">>)
                   ELSE vt
    /\ keys' = keys - 1
    /\ UNCHANGED <<sc, input, ilock, tty, holder, th, edited, given>>

\* console_input_flush; then the foreground group is read.
KeyFlush ==
    /\ irq.pc = "flush" /\ ilock = None
    /\ input' = <<>>
    /\ irq' = [irq EXCEPT !.pc = "send", !.fg = tty.fg]
    /\ UNCHANGED <<sc, vt, ilock, tty, holder, th, keys, edited, given>>

\* The signal goes to the foreground group; in raw mode the byte ends here.
KeySend ==
    /\ irq.pc = "send"
    /\ th' = IF irq.fg > 0 THEN Signalled(th, irq.fg, SigOf[irq.c]) ELSE th
    /\ irq' = [irq EXCEPT !.pc = IF irq.raw THEN "idle" ELSE "put"]
    /\ UNCHANGED <<sc, vt, input, ilock, tty, holder, keys, edited, given>>

KeyPut ==
    /\ irq.pc = "put" /\ ilock = None
    /\ input' = Enqueue(irq.c)
    /\ th' = IF Len(input) < INPUT_BUFFER_SIZE - 1 THEN Woken(th) ELSE th
    /\ irq' = [irq EXCEPT !.pc = "idle"]
    /\ UNCHANGED <<sc, vt, ilock, tty, holder, keys, edited, given>>

\* console_getc: a byte ...
Getc(p) ==
    /\ Runs(p, "getc") /\ ilock = None /\ input # <<>>
    /\ input' = Tail(input)
    /\ th' = [th EXCEPT ![p].pc = "got", ![p].c = Head(input)]
    /\ UNCHANGED <<sc, vt, ilock, tty, holder, irq, keys, edited, given>>

\* ... or a signal: the read ends; a raw one with the bytes it has.
GetcInterrupted(p) ==
    /\ Runs(p, "getc") /\ ilock = None /\ input = <<>> /\ th[p].pend # {}
    /\ IF th[p].out # <<>>
       THEN Goto(p, "end") /\ UNCHANGED holder
       ELSE th' = [th EXCEPT ![p] = Return(@, TRUE)] /\ holder' = None
    /\ UNCHANGED <<sc, vt, input, ilock, tty, irq, keys, edited, given>>

\* ... or neither: proc_sleep, which gives input_lock back once it has proc_lock.
GetcTest(p) ==
    /\ Runs(p, "getc") /\ ilock = None /\ input = <<>> /\ th[p].pend = {}
    /\ ilock' = p
    /\ Goto(p, "sleep")
    /\ UNCHANGED <<sc, vt, input, tty, holder, irq, keys, edited, given>>

Sleep(p) ==
    /\ Runs(p, "sleep")
    /\ ilock' = None
    /\ Goto(p, "asleep")
    /\ UNCHANGED <<sc, vt, input, tty, holder, irq, keys, edited, given>>

-----------------------------------------------------------------------------
(* Output.  Who writes takes the answer of the terminal too and queues it   *)
(* byte by byte; it makes no difference whose write takes it.               *)

Say(p, t, s, l) ==
    LET v == Write(vt, s) IN
    /\ ~vt.stuck
    /\ vt' = [v EXCEPT !.resp = <<>>]
    /\ th' = [th EXCEPT ![p] = IF v.resp = <<>> THEN [t EXCEPT !.pc = l]
                               ELSE [t EXCEPT !.pc = "push", !.push = v.resp, !.back = l]]

\* flush_vt_response: the answer comes in as if it was typed.
Push(p) ==
    /\ Runs(p, "push") /\ ilock = None
    /\ input' = Enqueue(Head(th[p].push))
    /\ LET t == [th EXCEPT ![p].push = Tail(@), ![p].pc = IF Len(th[p].push) = 1 THEN th[p].back ELSE @]
       IN  th' = IF Len(input) < INPUT_BUFFER_SIZE - 1 THEN Woken(t) ELSE t
    /\ UNCHANGED <<sc, vt, ilock, tty, holder, irq, keys, edited, given>>

\* tty_write.
TtyWrite(p) ==
    /\ Starts(p, "write")
    /\ \E s \in Call(p)[2] : Say(p, Return(th[p], FALSE), s, "user")
    /\ UNCHANGED <<sc, input, ilock, tty, holder, irq, keys, edited, given>>

-----------------------------------------------------------------------------
(* tty_read.                                                                *)

\* background_read_check, then the mutex.
ReadStart(p) ==
    /\ Starts(p, "read")
    /\ LET bg == tty.fg > 0 /\ Scene.group[p] # tty.fg IN
          th' = IF bg /\ Scene.act[p]["TTIN"] = "IGN" THEN [th EXCEPT ![p] = Return(@, FALSE)]
                ELSE [th EXCEPT ![p].pc = IF bg THEN "ttin" ELSE "mutex"]
    /\ UNCHANGED <<sc, vt, input, ilock, tty, holder, irq, keys, edited, given>>

\* Its group is told; the foreground group may be another one by now.
ReadTtin(p) ==
    /\ Runs(p, "ttin")
    /\ th' = [Signalled(th, Scene.group[p], "TTIN") EXCEPT ![p] = Return(@, TRUE)]
    /\ UNCHANGED <<sc, vt, input, ilock, tty, holder, irq, keys, edited, given>>

ReadLock(p) ==
    /\ Runs(p, "mutex") /\ holder = None
    /\ holder' = p
    /\ Goto(p, IF tty.mode.canon THEN "line" ELSE "getc")
    /\ UNCHANGED <<sc, vt, input, ilock, tty, irq, keys, edited, given>>

\* The loop of a canonical read: no line is ready.
ReadMore(p) ==
    /\ Runs(p, "line") /\ tty.rpos = tty.ready /\ ~tty.eof
    /\ Goto(p, "getc")
    /\ UNCHANGED <<sc, vt, input, ilock, tty, holder, irq, keys, edited, given>>

\* A slip: the rest of a line is forgotten with the part that was read.
MutTaken(n) ==
    [tty EXCEPT !.line = SubSeq(@, tty.ready + 1, Len(@)), !.ready = 0, !.rpos = 0]

\* n bytes of the ready part are read; once all are, what is left moves down.
Taken(n) ==
    IF tty.rpos + n < tty.ready THEN [tty EXCEPT !.rpos = @ + n]
    ELSE [tty EXCEPT !.line = SubSeq(@, tty.ready + 1, Len(@)), !.ready = 0, !.rpos = 0]

\* End of file is told once; a line is given in parts of the length asked for.
ReadGive(p) ==
    /\ Runs(p, "line")
    /\ tty.rpos # tty.ready \/ tty.eof
    /\ LET n == Least(Call(p)[2], tty.ready - tty.rpos) IN
          /\ tty' = IF n = 0 THEN [tty EXCEPT !.eof = FALSE] ELSE Taken(n)
          /\ given' = given \o SubSeq(tty.line, tty.rpos + 1, tty.rpos + n)
    /\ th' = [th EXCEPT ![p] = Return(@, FALSE)]
    /\ holder' = None
    /\ UNCHANGED <<sc, vt, input, ilock, irq, keys, edited>>

\* erase_one, k times.
Erased(t, k) == [t EXCEPT !.line = SubSeq(@, 1, Len(@) - k)]
Rubout(k) == FoldLeft(LAMBDA s, i : s \o <<"BS", " ", "BS">>, <<>>, [i \in 1 .. k |-> i])

\* canon_input: the new tty and what is echoed.
CanonInput(c0) ==
    LET c == IF c0 = "CR" THEN "NL" ELSE c0
        len == Len(tty.line)
        typed == len - tty.ready        \* of the line that is not sent yet
        quiet(t) == [tty |-> t, say |-> <<>>]
    IN  CASE tty.esc = 1 -> quiet([tty EXCEPT !.esc = IF c0 \in {"[", "O"} THEN 2 ELSE 0])
          [] tty.esc = 2 -> quiet([tty EXCEPT !.esc = IF c0 \in Finals THEN 0 ELSE 2])
          [] tty.esc = 0 /\ c = "ESC" -> quiet([tty EXCEPT !.esc = 1])
          [] tty.esc = 0 /\ c \in {"BS", "DEL"} ->
                [tty |-> Erased(tty, Least(1, typed)), say |-> Rubout(Least(1, typed))]
          [] tty.esc = 0 /\ c = "^U" -> [tty |-> Erased(tty, typed), say |-> Rubout(typed)]
          [] tty.esc = 0 /\ c \in DOMAIN SigOf ->
                quiet(IF tty.mode.isig THEN Erased(tty, typed) ELSE tty)
          [] tty.esc = 0 /\ c = "^D" ->
                quiet([tty EXCEPT !.eof = @ \/ typed = 0, !.ready = len])
          [] tty.esc = 0 /\ c = "NL" ->
                LET line == IF len < LINE_MAX THEN Append(tty.line, c) ELSE tty.line
                IN  [tty |-> [tty EXCEPT !.line = line, !.ready = Len(line)], say |-> <<c>>]
          [] tty.esc = 0 /\ (c \notin Controls \/ c = "TAB") /\ len < LINE_MAX - 1 ->
                [tty |-> [tty EXCEPT !.line = Append(@, c)], say |-> <<c>>]
          [] OTHER -> quiet(tty)

\* What a terminal is to make of a key, from the lines that are sent and the line that
\* is being typed, of which each key changes the latter only (history).
Typed(a, c) ==
    CASE a.esc = 1 -> [a EXCEPT !.esc = IF c \in {"[", "O"} THEN 2 ELSE 0]
      [] a.esc = 2 -> [a EXCEPT !.esc = IF c \in Finals THEN 0 ELSE 2]
      [] a.esc = 0 /\ c = "ESC" -> [a EXCEPT !.esc = 1]
      [] a.esc = 0 /\ c \in {"NL", "CR"} -> [a EXCEPT !.sent = @ \o a.cur \o <<"NL">>, !.cur = <<>>]
      [] a.esc = 0 /\ c = "^D" -> [a EXCEPT !.sent = @ \o a.cur, !.cur = <<>>]
      [] a.esc = 0 /\ c \in {"BS", "DEL"} /\ a.cur # <<>> ->
            [a EXCEPT !.cur = SubSeq(@, 1, Len(@) - 1)]
      [] a.esc = 0 /\ (c = "^U" \/ (c \in DOMAIN SigOf /\ tty.mode.isig)) -> [a EXCEPT !.cur = <<>>]
      [] a.esc = 0 /\ c \notin Controls \ {"TAB"} /\ Len(a.cur) < LINE_MAX - 1 ->
            [a EXCEPT !.cur = Append(@, c)]
      [] OTHER -> a

ReadEat(p) ==
    /\ Runs(p, "got") /\ tty.mode.canon
    /\ LET r == CanonInput(th[p].c) IN
          /\ tty' = r.tty
          /\ Say(p, [th[p] EXCEPT !.c = None], IF tty.mode.echo THEN r.say ELSE <<>>, "line")
    /\ edited' = Typed(edited, th[p].c)
    /\ UNCHANGED <<sc, input, ilock, holder, irq, keys, given>>

\* A raw read takes what is there, without waiting for more.
ReadRaw(p) ==
    /\ Runs(p, "got") /\ ~tty.mode.canon
    /\ LET out == Append(th[p].out, th[p].c) IN
          th' = [th EXCEPT ![p].out = out, ![p].c = None,
                           ![p].pc = IF Len(out) < Call(p)[2] /\ input # <<>> THEN "getc" ELSE "end"]
    /\ UNCHANGED <<sc, vt, input, ilock, tty, holder, irq, keys, edited, given>>

ReadRawEnd(p) ==
    /\ Runs(p, "end")
    /\ Say(p, Return(th[p], FALSE), IF tty.mode.echo THEN th[p].out ELSE <<>>, "user")
    /\ holder' = None
    /\ UNCHANGED <<sc, input, ilock, tty, irq, keys, edited, given>>

-----------------------------------------------------------------------------
(* tty_ioctl, and the shell's other calls.                                  *)

\* TCSETS waits for the mutex; leaving canonical mode, the line is dropped, but not
\* an escape sequence that has begun.
ModeStart(p) ==
    /\ Starts(p, "mode")
    /\ Goto(p, "mode")
    /\ UNCHANGED <<sc, vt, input, ilock, tty, holder, irq, keys, edited, given>>

SetMode(p) ==
    /\ Runs(p, "mode") /\ holder = None
    /\ LET drop == tty.mode.canon /\ ~Call(p)[2].canon IN
          /\ tty' = IF drop THEN [tty EXCEPT !.mode = Call(p)[2], !.line = <<>>, !.ready = 0,
                                             !.rpos = 0, !.eof = FALSE]
                    ELSE [tty EXCEPT !.mode = Call(p)[2]]
          /\ edited' = IF drop THEN [edited EXCEPT !.sent = <<>>, !.cur = <<>>] ELSE edited
          /\ given' = IF drop THEN <<>> ELSE given
    /\ th' = [th EXCEPT ![p] = Return(@, FALSE)]
    /\ UNCHANGED <<sc, vt, input, ilock, holder, irq, keys>>

\* TIOCSPGRP.
SetForeground(p) ==
    /\ Starts(p, "fg")
    /\ tty' = [tty EXCEPT !.fg = Call(p)[2]]
    /\ th' = [th EXCEPT ![p] = Return(@, FALSE)]
    /\ UNCHANGED <<sc, vt, input, ilock, holder, irq, keys, edited, given>>

\* kill(-g, SIGCONT).
Continue(p) ==
    /\ Starts(p, "cont")
    /\ th' = [Continued(th, Call(p)[2]) EXCEPT ![p] = Return(@, FALSE)]
    /\ UNCHANGED <<sc, vt, input, ilock, tty, holder, irq, keys, edited, given>>

\* wait(WUNTRACED) for a child: until it is stopped or gone.
Wait(p) ==
    /\ Starts(p, "wait")
    /\ LET q == Call(p)[2] IN
          th[q].life # "runs" \/ (th[q].pc = "user" /\ Ended(q))
    /\ th' = [th EXCEPT ![p] = Return(@, FALSE)]
    /\ UNCHANGED <<sc, vt, input, ilock, tty, holder, irq, keys, edited, given>>

Reads(p) ==
    \/ ReadStart(p) \/ ReadTtin(p) \/ ReadLock(p) \/ ReadMore(p) \/ ReadGive(p) \/ ReadEat(p)
    \/ ReadRaw(p) \/ ReadRawEnd(p)
    \/ Getc(p) \/ GetcInterrupted(p) \/ GetcTest(p) \/ Sleep(p)

Others(p) ==
    \/ Deliver(p) \/ TtyWrite(p) \/ Push(p) \/ ModeStart(p) \/ SetMode(p) \/ SetForeground(p)
    \/ Continue(p) \/ Wait(p)

Next == Key \/ KeyFlush \/ KeySend \/ KeyPut \/ \E p \in Procs : Reads(p) \/ Others(p)

Spec == Init /\ [][Next]_vars

-----------------------------------------------------------------------------
(* Properties.                                                              *)

\* However the readers share the line, are interrupted and read it in parts, what
\* they were given followed by what is ready for them is what was sent, every byte
\* once and in order, and what is left is the line being typed (tty.c:219-240).
LinesWhole ==
    /\ given \o SubSeq(tty.line, tty.rpos + 1, tty.ready) = edited.sent
    /\ SubSeq(tty.line, tty.ready + 1, Len(tty.line)) = edited.cur

\* The driver has drawn what the cells say, and the cursor at its place, after any
\* sequence of bytes from programs, echo and kernel (vt.c: the cells are "the
\* source of truth").
ScreenShowsCells ==
    ~vt.stuck =>
       /\ vt.screen = IF ~vt.hw /\ vt.vis
                      THEN [vt.cells EXCEPT ![CursorCell(vt) + 1] = Reversed(@)] ELSE vt.cells
       /\ vt.hw => vt.hwcur = <<Least(vt.cx, COLS - 1), vt.cy, vt.vis>>

\* A reader sleeps on no byte, and on the signal of a key only until the key's
\* interrupt has ended, whenever it is that they come while it goes to sleep:
\* proc_sleep does not look for signals, and it is the byte that follows the signal of
\* Ctrl-C that wakes it (tty.c:171-174).  A key of raw mode has no such byte, also when
\* a canonical read has begun before its signal is sent.
KeySignals == {"INT", "QUIT", "TSTP"}
ReaderTold ==
    \A p \in Procs : th[p].pc = "asleep" =>
       /\ input = <<>>
       /\ th[p].pend \cap KeySignals # {} => irq.pc # "idle" \/ irq.raw

\* The same for all signals and keys: tty.c:31-33, Ctrl-C stops a program whatever it does.
ReaderToldInEveryMode ==
    \A p \in Procs : th[p].pc = "asleep" /\ th[p].pend # {} => irq.pc # "idle"

\* tty.c:35-37: no program of a background group takes what is typed.
ForegroundReads ==
    [][\A p \in Procs : th[p].pc = "line" /\ given' # given /\ th'[p].pc = "user" =>
          tty.fg = 0 \/ Scene.group[p] = tty.fg]_vars

\* tty.c:165-166: after a signal key nothing that was typed before is read.
FlushComplete ==
    [][irq.pc = "flush" /\ irq'.pc = "send" => tty.rpos = tty.ready]_vars

\* vt.c:137: scroll_up moves the rows and ends.
ScrollEnds == ~vt.stuck
=============================================================================

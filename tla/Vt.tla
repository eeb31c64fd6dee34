--------------------------------- MODULE Vt ---------------------------------
(***************************************************************************)
(* The terminal emulator (kernel/drivers/vt.c): a buffer of cells, a       *)
(* cursor, a scroll region and a parser of UTF-8 and escape sequences.     *)
(* Its state is one record v; every operator maps a record to the next     *)
(* one, since all of it runs under console_lock.  v.screen is what the     *)
(* driver was told to draw: with a hardware cursor (v.hw, VGA), or without *)
(* one (framebuffer), where the cursor is a cell drawn in reverse.         *)
(*                                                                         *)
(* A byte is a string: a character, a control ("NL", "ESC", ...), or a     *)
(* part of a UTF-8 sequence ("lead2", "lead3", "lead4", "cont", "bad").    *)
(***************************************************************************)
EXTENDS Integers, Sequences, TLC
LOCAL INSTANCE SequencesExt

CONSTANTS
    COLS, ROWS,     \* size of the screen
    MAX_PARAMS,     \* numbers of one escape sequence
    UINT_MOD        \* 2^w: unsigned numbers have w bits

Least(m, n) == IF m <= n THEN m ELSE n
U(n) == n % UINT_MOD

\* Places on the screen are numbered from 0, row by row.
FirstOf(y) == y * COLS
LastOf(y) == (y + 1) * COLS - 1

\* n times the cell c, as a tuple.
Copies(c, n) == SubSeq([i \in 1 .. n |-> c], 1, n)

\* s written over the sequence of cells f, from place at on.
Over(f, at, s) == SubSeq(f, 1, at) \o s \o SubSeq(f, at + Len(s) + 1, Len(f))

Controls == {"NL", "CR", "BS", "TAB", "ESC", "BEL", "DEL", "^C", "^D", "^U", "^Z", "^\\"}
Utf == [lead2 |-> 1, lead3 |-> 2, lead4 |-> 3]      \* bytes that follow
Digit == [d \in {"0", "1", "2", "3", "4", "5", "6", "7", "8", "9"} |->
             CHOOSE n \in 0 .. 9 : ToString(n) = d]
Finals == {"A", "B", "C", "D", "E", "F", "G", "H", "J", "K", "L", "M", "P", "R", "S", "T",
           "X", "@", "[", "]", "\\", "^", "~", "a", "c", "d", "f", "h", "l", "m", "n", "r", "s", "u"}

Blank(v) == <<" ", v.fg, v.bg>>
Reversed(cell) == <<cell[1], cell[3], cell[2]>>

\* cur_attr: bold is a bright colour.
CurAttr(v) == LET f == IF v.bold /\ v.fg < 8 THEN v.fg + 8 ELSE v.fg
              IN  IF v.rev THEN <<v.bg, f>> ELSE <<f, v.bg>>

\* vt_attach: a clear screen; hw, the driver moves the cursor itself; alt, there
\* was memory for a second screen.
Attach(hw, alt) ==
    LET blank == Copies(<<" ", 7, 0>>, COLS * ROWS)
    IN  [cells |-> blank, alt |-> blank, altOk |-> alt, altOn |-> FALSE,
         screen |-> IF hw THEN blank ELSE [blank EXCEPT ![1] = Reversed(@)],
         hw |-> hw, hwcur |-> <<0, 0, TRUE>>,
         cx |-> 0, cy |-> 0, wrap |-> FALSE, saved |-> <<0, 0>>, main |-> <<0, 0>>,
         vis |-> TRUE, top |-> 0, bottom |-> ROWS - 1,
         fg |-> 7, bg |-> 0, bold |-> FALSE, rev |-> FALSE,
         st |-> "NORMAL", params |-> <<>>, priv |-> FALSE,
         need |-> 0, cp |-> "u", resp |-> <<>>, stuck |-> FALSE]

-----------------------------------------------------------------------------
(* Drawing.                                                                 *)

\* draw() of the cells from place i to place j.
Draw(v, i, j) == [v EXCEPT !.screen = Over(@, i, SubSeq(v.cells, i + 1, j + 1))]

ClearCells(v, i, j) ==
    LET blank == Copies(Blank(v), j + 1 - i)
    IN  [v EXCEPT !.cells = Over(@, i, blank), !.screen = Over(@, i, blank)]

CursorCell(v) == FirstOf(v.cy) + Least(v.cx, COLS - 1)

HideCursor(v) == IF ~v.hw /\ v.vis THEN Draw(v, CursorCell(v), CursorCell(v)) ELSE v

ShowCursor(v) ==
    IF v.hw THEN [v EXCEPT !.hwcur = <<Least(v.cx, COLS - 1), v.cy, v.vis>>]
    ELSE IF v.vis THEN [v EXCEPT !.screen[CursorCell(v) + 1] = Reversed(v.cells[CursorCell(v) + 1])]
    ELSE v

\* The cells from i to j take what is k cells further (memmove), and are drawn.
Moved(v, i, j, k) == [v EXCEPT !.cells = Over(@, i, SubSeq(@, i + k + 1, j + k + 1))]
Shifted(v, i, j, k) == Draw(Moved(v, i, j, k), i, j)

\* scroll_up.  Its loop ends at "y <= b - n", unsigned: when all rows from 0 go
\* there is no such y to stop at, and the loop draws for ever.
ScrollUp(v, t, b, k) ==
    LET n == Least(k, b - t + 1)
    IN  IF b - n < 0 THEN [v EXCEPT !.stuck = TRUE]
        ELSE ClearCells(Shifted(v, FirstOf(t), LastOf(b - n), n * COLS), FirstOf(b + 1 - n), LastOf(b))

ScrollDown(v, t, b, k) ==
    LET n == Least(k, b - t + 1)
    IN  ClearCells(Shifted(v, FirstOf(t + n), LastOf(b), -(n * COLS)), FirstOf(t), LastOf(t + n - 1))

LineFeed(v) ==
    IF v.cy = v.bottom THEN ScrollUp(v, v.top, v.bottom, 1)
    ELSE IF v.cy < ROWS - 1 THEN [v EXCEPT !.cy = @ + 1] ELSE v

\* put_char: the line is only left when another character comes.
Wrapped(v) == IF v.wrap THEN LineFeed([v EXCEPT !.wrap = FALSE, !.cx = 0]) ELSE v
Placed(v, i, cp) == Draw([v EXCEPT !.cells[i + 1] = <<cp>> \o CurAttr(v)], i, i)
Advanced(v) == IF v.cx = COLS - 1 THEN [v EXCEPT !.wrap = TRUE] ELSE [v EXCEPT !.cx = @ + 1]
PutAt(v, cp) == IF v.stuck THEN v ELSE Advanced(Placed(v, FirstOf(v.cy) + v.cx, cp))
PutChar(v, cp) == PutAt(Wrapped(v), cp)

-----------------------------------------------------------------------------
(* Escape sequences.                                                        *)

Param(v, i, def) == IF i <= Len(v.params) /\ v.params[i] # 0 THEN v.params[i] ELSE def

SetCursor(v, x, y) ==
    [v EXCEPT !.cx = Least(x, COLS - 1), !.cy = Least(y, ROWS - 1), !.wrap = FALSE]

AnsiToVga == <<0, 4, 2, 6, 1, 5, 3, 7>>
Colour(n) == AnsiToVga[n + 1]

\* 38 and 48: one of 256 colours, or red, green and blue.
Extended(ps, i) ==
    LET kind == ps[i + 1] IN
    CASE kind = 5 /\ i + 2 <= Len(ps) ->
            [skip |-> 2, col |-> CASE ps[i + 2] < 8 -> Colour(ps[i + 2])
                                   [] ps[i + 2] \in 8 .. 15 -> Colour(ps[i + 2] - 8) + 8
                                   [] OTHER -> 7]
      [] kind = 2 /\ i + 4 <= Len(ps) ->
            [skip |-> 4, col |->
                LET on(k, bit) == IF ps[i + k] > 127 THEN bit ELSE 0
                IN  Colour(on(2, 4) + on(3, 2) + on(4, 1))
                       + (IF U(ps[i + 2] + ps[i + 3] + ps[i + 4]) > 500 THEN 8 ELSE 0)]
      [] OTHER -> [skip |-> 0, col |-> 7]

Sgr(v) ==
    LET ps == IF v.params = <<>> THEN <<0>> ELSE v.params
        Set(a, i) ==
            LET p == ps[i] IN
            CASE p = 0 -> [a EXCEPT !.fg = 7, !.bg = 0, !.bold = FALSE, !.rev = FALSE]
              [] p \in {1, 22} -> [a EXCEPT !.bold = p = 1]
              [] p \in {7, 27} -> [a EXCEPT !.rev = p = 7]
              [] p \in 30 .. 37 -> [a EXCEPT !.fg = Colour(p - 30)]
              [] p \in 40 .. 47 -> [a EXCEPT !.bg = Colour(p - 40)]
              [] p = 39 -> [a EXCEPT !.fg = 7]
              [] p = 49 -> [a EXCEPT !.bg = 0]
              [] p \in 90 .. 97 -> [a EXCEPT !.fg = Colour(p - 90) + 8]
              [] p \in 100 .. 107 -> [a EXCEPT !.bg = Colour(p - 100) + 8]
              [] p = 38 /\ i < Len(ps) -> [a EXCEPT !.fg = Extended(ps, i).col, !.skip = Extended(ps, i).skip]
              [] p = 48 /\ i < Len(ps) -> [a EXCEPT !.bg = Extended(ps, i).col, !.skip = Extended(ps, i).skip]
              [] OTHER -> a
        Step(a, i) == IF a.skip > 0 THEN [a EXCEPT !.skip = @ - 1] ELSE Set(a, i)
        r == FoldLeft(Step, [fg |-> v.fg, bg |-> v.bg, bold |-> v.bold, rev |-> v.rev, skip |-> 0],
                      [i \in 1 .. Len(ps) |-> i])
    IN  [v EXCEPT !.fg = r.fg, !.bg = r.bg, !.bold = r.bold, !.rev = r.rev]

\* set_alt_screen: an editor's screen over the shell's.
SetAltScreen(v, on) ==
    IF on = v.altOn \/ ~v.altOk THEN v
    ELSE IF on
    THEN ClearCells([v EXCEPT !.alt = v.cells, !.main = <<v.cx, v.cy>>, !.altOn = TRUE], 0, LastOf(ROWS - 1))
    ELSE Draw(SetCursor([v EXCEPT !.cells = v.alt, !.altOn = FALSE], v.main[1], v.main[2]), 0, LastOf(ROWS - 1))

\* ESC [ ? ... h and l.
PrivateMode(v, on) ==
    LET Set(w, p) == CASE p = 25 -> [w EXCEPT !.vis = on]
                       [] p \in {1049, 47, 1047} -> SetAltScreen(w, on)
                       [] OTHER -> w
    IN  FoldLeft(Set, v, v.params)

\* J and K: from the cursor, up to the cursor, or all of it.
Erase(v, first, last) ==
    LET mode == Param(v, 1, 0)
    IN  ClearCells(v, IF mode = 0 THEN CursorCell(v) ELSE first, IF mode = 1 THEN CursorCell(v) ELSE last)

\* @ and P: characters come in, or go, at the cursor.
InsertChars(v, k) ==
    LET n == Least(k, COLS - v.cx)
        at == FirstOf(v.cy) + v.cx
    IN  ClearCells(Shifted(v, at + n, LastOf(v.cy), -n), at, at + n - 1)

\* A slip: the characters that move up are not drawn.
MutDeleteChars(v, k) ==
    LET n == Least(k, COLS - v.cx)
        end == LastOf(v.cy)
    IN  ClearCells(Moved(v, FirstOf(v.cy) + v.cx, end - n, n), end - n + 1, end)

DeleteChars(v, k) ==
    LET n == Least(k, COLS - v.cx)
        end == LastOf(v.cy)
    IN  ClearCells(Shifted(v, FirstOf(v.cy) + v.cx, end - n, n), end - n + 1, end)

\* r: the scroll region.
SetRegion(v) ==
    LET t == Param(v, 1, 1) - 1
        b == Param(v, 2, ROWS) - 1
    IN  IF t < b /\ b < ROWS THEN SetCursor([v EXCEPT !.top = t, !.bottom = b], 0, 0) ELSE v

InRegion(v) == v.cy \in v.top .. v.bottom

\* csi_dispatch.
Csi(v, f) ==
    LET n == Param(v, 1, 1)
        up == IF v.cy >= n THEN v.cy - n ELSE 0
        left == IF v.cx >= n THEN v.cx - n ELSE 0
        row == FirstOf(v.cy)
    IN
    CASE v.priv -> IF f \in {"h", "l"} THEN PrivateMode(v, f = "h") ELSE v
      [] ~v.priv /\ f = "A" -> SetCursor(v, v.cx, up)
      [] ~v.priv /\ f = "B" -> SetCursor(v, v.cx, U(v.cy + n))
      [] ~v.priv /\ f = "C" -> SetCursor(v, U(v.cx + n), v.cy)
      [] ~v.priv /\ f = "D" -> SetCursor(v, left, v.cy)
      [] ~v.priv /\ f = "E" -> SetCursor(v, 0, U(v.cy + n))
      [] ~v.priv /\ f = "F" -> SetCursor(v, 0, up)
      [] ~v.priv /\ f = "G" -> SetCursor(v, n - 1, v.cy)
      [] ~v.priv /\ f = "d" -> SetCursor(v, v.cx, n - 1)
      [] ~v.priv /\ f \in {"H", "f"} -> SetCursor(v, Param(v, 2, 1) - 1, n - 1)
      [] ~v.priv /\ f = "J" -> Erase(v, 0, LastOf(ROWS - 1))
      [] ~v.priv /\ f = "K" -> Erase(v, row, LastOf(v.cy))
      [] ~v.priv /\ f = "L" -> IF InRegion(v) THEN ScrollDown(v, v.cy, v.bottom, n) ELSE v
      [] ~v.priv /\ f = "M" -> IF InRegion(v) THEN ScrollUp(v, v.cy, v.bottom, n) ELSE v
      [] ~v.priv /\ f = "S" -> ScrollUp(v, v.top, v.bottom, n)
      [] ~v.priv /\ f = "T" -> ScrollDown(v, v.top, v.bottom, n)
      [] ~v.priv /\ f = "@" -> InsertChars(v, n)
      [] ~v.priv /\ f = "P" -> DeleteChars(v, n)
      [] ~v.priv /\ f = "X" -> ClearCells(v, row + v.cx, row + Least(U(v.cx + n), COLS) - 1)
      [] ~v.priv /\ f = "m" -> Sgr(v)
      [] ~v.priv /\ f = "r" -> SetRegion(v)
      [] ~v.priv /\ f = "s" -> [v EXCEPT !.saved = <<v.cx, v.cy>>]
      [] ~v.priv /\ f = "u" -> SetCursor(v, v.saved[1], v.saved[2])
      [] ~v.priv /\ f = "n" /\ Param(v, 1, 0) = 6 ->
            [v EXCEPT !.resp = <<"ESC", "[", ToString(v.cy + 1), ";", ToString(v.cx + 1), "R">>]
      [] OTHER -> v

-----------------------------------------------------------------------------
(* vt_putc.                                                                 *)

Control(v, c) ==
    CASE c = "NL" -> LineFeed([v EXCEPT !.cx = 0, !.wrap = FALSE])
      [] c = "CR" -> [v EXCEPT !.cx = 0, !.wrap = FALSE]
      [] c = "BS" -> [v EXCEPT !.cx = IF @ > 0 THEN @ - 1 ELSE 0, !.wrap = FALSE]
      [] c = "TAB" -> [v EXCEPT !.cx = Least(((@ + 8) \div 8) * 8, COLS - 1)]
      [] c = "ESC" -> [v EXCEPT !.st = "ESC"]
      [] OTHER -> v

\* A UTF-8 sequence that breaks off is shown as "?", and the byte starts anew.
BrokenOff(v) == IF v.need > 0 THEN PutChar([v EXCEPT !.need = 0], "?") ELSE v
FirstByte(v, c) ==
    CASE c \in Controls -> Control(v, c)
      [] c \in DOMAIN Utf -> [v EXCEPT !.need = Utf[c], !.cp = IF c = "lead4" THEN "?" ELSE "u"]
      [] OTHER -> PutChar(v, IF c \in {"bad", "cont"} THEN "?" ELSE c)
NormalByte(v, c) ==
    CASE v.need > 1 /\ c = "cont" -> [v EXCEPT !.need = @ - 1]
      [] v.need = 1 /\ c = "cont" -> PutChar([v EXCEPT !.need = 0], v.cp)
      [] OTHER -> FirstByte(BrokenOff(v), c)

EscByte(v, c) ==
    CASE c = "[" -> [v EXCEPT !.st = "CSI", !.params = <<>>, !.priv = FALSE]
      [] c = "]" -> [v EXCEPT !.st = "OSC"]
      [] c = "7" -> [v EXCEPT !.saved = <<v.cx, v.cy>>]
      [] c = "8" -> SetCursor(v, v.saved[1], v.saved[2])
      [] c = "M" /\ v.cy = v.top -> ScrollDown(v, v.top, v.bottom, 1)
      [] c = "M" /\ v.cy # v.top -> [v EXCEPT !.cy = IF @ > 0 THEN @ - 1 ELSE 0]
      [] c = "D" -> LineFeed(v)
      [] c = "E" -> LineFeed([v EXCEPT !.cx = 0])
      [] c = "c" -> SetCursor(ClearCells([v EXCEPT !.fg = 7, !.bg = 0, !.bold = FALSE, !.rev = FALSE,
                                 !.top = 0, !.bottom = ROWS - 1, !.vis = TRUE], 0, LastOf(ROWS - 1)), 0, 0)
      [] OTHER -> v

CsiByte(v, c) ==
    LET ps == IF v.params = <<>> THEN <<0>> ELSE v.params IN
    CASE c \in DOMAIN Digit -> [v EXCEPT !.params = [ps EXCEPT ![Len(ps)] = U(@ * 10 + Digit[c])]]
      [] c = ";" -> [v EXCEPT !.params = IF Len(ps) < MAX_PARAMS THEN Append(ps, 0) ELSE ps]
      [] c \in {"?", ">", "="} -> [v EXCEPT !.priv = c = "?"]
      [] c \in Finals -> [Csi(v, c) EXCEPT !.st = "NORMAL"]
      [] c \in Controls -> Control(v, c)
      [] OTHER -> v

OscByte(v, c) ==
    CASE v.st = "OSC" /\ c = "BEL" -> [v EXCEPT !.st = "NORMAL"]
      [] v.st = "OSC" /\ c = "ESC" -> [v EXCEPT !.st = "OSC_ESC"]
      [] v.st = "OSC_ESC" -> [v EXCEPT !.st = IF c = "\\" THEN "NORMAL" ELSE "OSC"]
      [] OTHER -> v

Parsed(v, c) ==
    CASE v.st = "NORMAL" -> NormalByte(v, c)
      [] v.st = "ESC" -> EscByte([v EXCEPT !.st = "NORMAL"], c)
      [] v.st = "CSI" -> CsiByte(v, c)
      [] OTHER -> OscByte(v, c)
Shown(v) == IF v.stuck THEN v ELSE ShowCursor(v)
Putc(v, c) == IF v.stuck THEN v ELSE Shown(Parsed(HideCursor(v), c))

\* A message, written under one hold of console_lock.
Write(v, s) == FoldLeft(Putc, v, s)
=============================================================================

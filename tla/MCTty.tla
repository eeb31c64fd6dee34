------------------------------- MODULE MCTty -------------------------------
EXTENDS Tty

CONSTANTS shell, job, kid

cooked == [canon |-> TRUE, isig |-> TRUE, echo |-> TRUE]
raw == [canon |-> FALSE, isig |-> FALSE, echo |-> FALSE]
nosig == [canon |-> TRUE, isig |-> FALSE, echo |-> TRUE]
cbreak == [canon |-> FALSE, isig |-> TRUE, echo |-> TRUE]

default == [INT |-> "DFL", QUIT |-> "DFL", TSTP |-> "DFL", TTIN |-> "DFL"]
shellish == [INT |-> "HANDLER", QUIT |-> "IGN", TSTP |-> "IGN", TTIN |-> "IGN"]

Sc(fg, sh, j, k, bytes, n) ==
    [fg |-> fg, prog |-> (shell :> sh) @@ (job :> j) @@ (kid :> k),
     group |-> (shell :> 1) @@ (job :> 2) @@ (kid :> 2),
     act |-> (shell :> shellish) @@ (job :> default) @@ (kid :> default),
     bytes |-> bytes, keys |-> n, vt |-> Attach(FALSE, TRUE)]

Csi1(f) == <<"ESC", "[", f>>
CsiN(ps, f) == <<"ESC", "[">> \o ps \o <<f>>

\* A screen with a letter in every cell but the last one.
Full(hw, alt) == Write(Attach(hw, alt), <<"a", "b", "c", "d", "e", "f", "g", "h">>)

Texts == {<<"x">>, <<"NL">>, <<"BS">>, <<"TAB">>, <<"CR", "x">>,
          <<"lead2", "cont">>, <<"lead3", "cont">>, <<"cont">>, <<"lead4">>, <<"bad">>,
          <<"ESC", "M">>, <<"ESC", "D">>, <<"ESC", "E">>, <<"ESC", "7">>, <<"ESC", "8">>,
          <<"ESC", "c">>, <<"ESC", "]", "x", "BEL">>, <<"ESC", "]", "ESC">>, <<"\\">>, <<"ESC", "[">>}
Moves == {CsiN(<<n>>, f) : n \in {"0", "2"}, f \in {"A", "B", "C", "D", "E", "F", "G", "d"}}
           \cup {Csi1("H"), CsiN(<<"2", ";", "3">>, "f"), Csi1("s"), Csi1("u"),
                 CsiN(<<"6", "5", "5", "3", "5">>, "C"), CsiN(<<"2", ";", "3">>, "r"), CsiN(<<"1", ";", "2">>, "r")}
Edits == {CsiN(<<n>>, f) : n \in {"0", "1", "2"}, f \in {"J", "K", "L", "M", "S", "T", "@", "P"}}
           \cup {Csi1("X"), CsiN(<<"6", "5", "5", "3", "5">>, "X"), Csi1("m"), CsiN(<<"3", "1", ";", "7">>, "m"),
                 CsiN(<<"1", ";", "4", "8", ";", "5", ";", "9">>, "m"),
                 CsiN(<<"3", "8", ";", "2", ";", "2", "0", "0", ";", "0", ";", "0">>, "m"),
                 CsiN(<<"?", "2", "5">>, "l"), CsiN(<<"?", "2", "5">>, "h"),
                 CsiN(<<"?", "1", "0", "4", "9">>, "h"), CsiN(<<"?", "1", "0", "4", "9">>, "l")}
Writes(hw, alt, a, b, c) ==
    [Sc(2, <<>>, <<<<"write", a>>, <<"write", b>>, <<"write", c>>>>, <<>>, {}, 0) EXCEPT !.vt = Full(hw, alt)]

mcScenarios == <<
    \* two readers of one group share the lines
    Sc(2, <<>>, <<<<"read", 1>>, <<"read", 3>>>>, <<<<"read", 2>>>>, {"x", "NL", "BS"}, 4),
    Sc(2, <<>>, <<<<"read", 2>>, <<"read", 2>>>>, <<>>, {"x", "y", "^D", "^U", "CR", "ESC", "A", "["}, 3),
    \* a job is typed at, killed or stopped and continued; then the shell reads
    Sc(2, <<<<"wait", job>>, <<"fg", 1>>, <<"read", 2>>>>, <<<<"read", 2>>>>, <<>>, {"x", "^C", "^Z"}, 3),
    Sc(2, <<>>, <<<<"read", 2>>, <<"read", 2>>>>, <<<<"read", 1>>>>, {"NL", "^C", "^\\"}, 3),
    Sc(1, <<<<"wait", job>>, <<"fg", 2>>, <<"cont", 2>>, <<"wait", job>>, <<"fg", 1>>, <<"read", 2>>>>,
          <<<<"read", 2>>>>, <<>>, {"x", "NL", "^C"}, 3),
    \* raw reads, and back; the answer of the terminal among the keys
    Sc(1, <<<<"mode", raw>>, <<"read", 2>>, <<"mode", cooked>>, <<"read", 2>>>>, <<<<"read", 1>>>>, <<>>, {"x", "NL", "^C"}, 3),
    Sc(2, <<>>, <<<<"mode", cbreak>>, <<"write", {CsiN(<<"6">>, "n")}>>, <<"read", 3>>, <<"read", 5>>>>, <<>>, {"x", "^C"}, 2),
    Sc(2, <<>>, <<<<"write", {CsiN(<<"6">>, "n")}>>, <<"read", 2>>>>, <<>>, {"x", "NL"}, 2),
    \* the mode changes while the interrupt of a key is under way, as when the shell ends
    \* its own line editing; Ctrl-C as no signal
    Sc(1, <<<<"mode", cbreak>>, <<"mode", cooked>>, <<"read", 2>>>>, <<>>, <<>>, {"x", "NL", "^C"}, 3),
    Sc(2, <<>>, <<<<"mode", nosig>>, <<"read", 3>>, <<"read", 1>>>>, <<>>, {"x", "NL", "^C", "^D"}, 4),
    \* a child of the job reads once the shell has the terminal: both are told SIGTTIN
    Sc(2, <<<<"fg", 1>>>>, <<<<"read", 2>>>>, <<<<"read", 2>>>>, {"x", "NL", "^C"}, 2),
    \* anything is written on a full screen
    Writes(FALSE, TRUE, Texts \cup Moves, Edits, Texts),
    Writes(FALSE, TRUE, Edits, Texts \cup Moves, Edits),
    Writes(TRUE, FALSE, Moves, Edits, Texts) >>

\* A child of the job reads; the shell has seen the job go and takes the terminal.
mcSteal == <<
    Sc(2, <<<<"wait", job>>, <<"fg", 1>>, <<"read", 2>>>>, <<>>, <<<<"read", 2>>>>, {"x", "NL"}, 2) >>

\* Part of a line is read when Ctrl-C comes.
mcFlush == <<
    Sc(2, <<<<"wait", job>>, <<"fg", 1>>, <<"read", 2>>>>, <<<<"read", 1>>, <<"read", 1>>>>, <<>>, {"x", "NL", "^C"}, 3) >>

\* A reader of single keys.
mcRaw == << Sc(2, <<>>, <<<<"mode", cbreak>>, <<"read", 2>>>>, <<>>, {"x", "^C"}, 2) >>

\* All the rows go.
mcScroll == << Writes(FALSE, TRUE, {CsiN(<<"3">>, "S")}, Texts, Texts) >>
=============================================================================

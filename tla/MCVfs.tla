------------------------------- MODULE MCVfs -------------------------------
EXTENDS Vfs

Dots(i, up) == "." :> i @@ ".." :> up
Dir(n, b) == [mode |-> "dir", nlink |-> n, size |-> 1, ptr |-> <<b, 0>>]
File(b) == [mode |-> "file", nlink |-> 1, size |-> 1, ptr |-> <<b, 0>>]
Img(inodes, ents) == [
    dino |-> [i \in 1 .. NI |-> IF i \in DOMAIN inodes THEN inodes[i] ELSE ZeroInode],
    dblk |-> [b \in 1 .. NB |-> IF b \in DOMAIN ents THEN [ZeroBlock EXCEPT !.ents = ents[b]] ELSE ZeroBlock],
    ibm |-> DOMAIN inodes, bbm |-> {inodes[i].ptr[1] : i \in DOMAIN inodes}]

\* The root alone; with a file x; with a directory a; with both; and so on.
Bare == Img(<<Dir(2, 1)>>, <<Dots(1, 1)>>)
WithX == Img(<<Dir(2, 1), File(2)>>, <<Dots(1, 1) @@ "x" :> 2>>)
WithA == Img(<<Dir(3, 1), Dir(2, 2)>>, <<Dots(1, 1) @@ "a" :> 2, Dots(2, 1)>>)
WithAX == Img(<<Dir(3, 1), Dir(2, 2), File(3)>>, <<Dots(1, 1) @@ "a" :> 2 @@ "x" :> 3, Dots(2, 1)>>)
WithAB == Img(<<Dir(4, 1), Dir(2, 2), Dir(2, 3)>>, <<Dots(1, 1) @@ "a" :> 2 @@ "b" :> 3, Dots(2, 1), Dots(3, 1)>>)
Deep == Img(<<Dir(4, 1), Dir(3, 2), Dir(2, 3), Dir(2, 4)>>,
            <<Dots(1, 1) @@ "a" :> 2 @@ "c" :> 4, Dots(2, 1) @@ "b" :> 3, Dots(3, 2), Dots(4, 1)>>)
Deeper == Img(<<Dir(4, 1), Dir(3, 2), Dir(2, 3), Dir(3, 4), Dir(2, 5)>>,
              <<Dots(1, 1) @@ "a" :> 2 @@ "c" :> 4, Dots(2, 1) @@ "b" :> 3, Dots(3, 2), Dots(4, 1) @@ "d" :> 5, Dots(5, 4)>>)

top == <<>>
a == <<"a">>
b == <<"b">>
With(img, p1, p2) == [prog |-> <<p1, p2>>] @@ img

mcScenarios == {
    \* a file is cut, and removed, while blocks are wanted
    With(WithX, <<<<"trunc", top, "x">>, <<"write">>, <<"close">>>>,
                <<<<"unlink", top, "x">>, <<"open", top, "y">>, <<"write">>, <<"close">>>>),
    \* the disk fills up, with an indirect block in one file
    With(Bare,  <<<<"open", top, "x">>, <<"write">>, <<"write">>, <<"write">>, <<"ftruncate", 2>>, <<"ftruncate", 1>>,
                  <<"write">>, <<"close">>, <<"unlink", top, "x">>>>,
                <<<<"open", top, "y">>, <<"write">>, <<"close">>>>),
    \* no room for a third name, for a directory's block, for an inode
    With(WithX, <<<<"open", top, "y">>, <<"write">>, <<"write">>, <<"close">>>>,
                <<<<"open", top, "z">>, <<"close">>, <<"mkdir", top, "w">>, <<"open", top, "z">>, <<"close">>>>),
    With(Deep,  <<<<"open", a, "x">>, <<"write">>, <<"close">>>>, <<<<"mkdir", b, "y">>, <<"open", <<"c">>, "z">>, <<"close">>>>),
    \* two threads in one directory
    With(WithA, <<<<"mkdir", a, "b">>, <<"rmdir", a, "b">>>>,
                <<<<"open", a, "x">>, <<"write">>, <<"unlink", a, "x">>, <<"close">>>>),
    \* a directory is removed while a file is made in it
    With(WithA, <<<<"rmdir", top, "a">>>>, <<<<"open", a, "x">>, <<"close">>>>),
    \* renames of a file, over another one, against its users
    With(WithAX, <<<<"rename", top, "x", a, "x">>, <<"rename", a, "x", top, "x">>>>,
                 <<<<"open", top, "x">>, <<"write">>, <<"close">>, <<"unlink", a, "x">>>>),
    \* renames of a directory, over an empty one, into another one, into itself
    With(WithAB, <<<<"rename", top, "a", top, "b">>, <<"mkdir", top, "a">>, <<"rename", top, "b", a, "c">>>>,
                 <<<<"open", b, "x">>, <<"close">>>>),
    With(WithAB, <<<<"rename", top, "a", b, "c">>, <<"rename", top, "b", <<"b", "c">>, "d">>>>, <<<<"mkdir", a, "d">>>>),
    With(Deeper, <<<<"rename", <<"c">>, "d", <<"a", "b">>, "d">>>>, <<<<"rmdir", a, "b">>>>) }

\* Renames that meet: within a directory that another one moves.
mcRenames == {
    With(Deep, <<<<"rename", a, "b", a, "z">>>>, <<<<"rename", top, "a", <<"c">>, "a">>>>) }

\* A directory goes below a/b while directories are made in a.
mcStale == {
    With(Deeper, <<<<"rename", <<"c">>, "d", <<"a", "b">>, "d">>>>, <<<<"mkdir", a, "x">>>>) }
=============================================================================

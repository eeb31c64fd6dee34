--------------------------- MODULE MCBufferCache ---------------------------
EXTENDS BufferCache

CONSTANTS t1, t2

\* Two blocks of one size and one of another.
mcBlocks == {<<1, 1>>, <<2, 1>>, <<3, 4>>}
Symmetry == Permutations({t1, t2})
=============================================================================

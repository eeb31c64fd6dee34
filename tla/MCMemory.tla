------------------------------ MODULE MCMemory ------------------------------
(* Instances of Slab, and with it Buddy and Memblock, for TLC. *)
EXTENDS Slab

CONSTANTS t1, t2

\* Memory maps: one region across the border of the zones, with a free block of
\* the largest order in the upper zone, and two regions that touch inside what
\* would be one block.  Page 0 and pages in the middle are kept.
MCThreads == {t1, t2}
MCRamMaps == {<<Region(0, 9)>>, <<Region(0, 5), Region(5, 8)>>}
MCReserved == <<Region(0, 1), Region(2, 4)>>
MCSymmetry == Permutations(MCThreads)
=============================================================================

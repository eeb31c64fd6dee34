----------------------------- MODULE MCVmalloc ------------------------------
(***************************************************************************)
(* Two threads that ask for areas of different sizes and release their     *)
(* own.  Three frames: the two areas and their table need one more, and a  *)
(* table can be overwritten.  Both use page 1, which one CPU looks up.     *)
(***************************************************************************)
EXTENDS Vmalloc

CONSTANTS t1, t2

MCThreads == {t1, t2}
MCSizes == [t \in MCThreads |-> IF t = t1 THEN {1} ELSE {2}]
MCTouched == {<<0, 1>>}
=============================================================================

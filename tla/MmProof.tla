------------------------------- MODULE MmProof -------------------------------
(***************************************************************************)
(* Proofs about Mm, for any number of processes, any address space and any *)
(* size of the memory: no frame is lost or freed while it is in use, no    *)
(* CPU goes on with a translation that the page tables have withdrawn, and *)
(* each process sees a memory of its own (PrivateMemory).                  *)
(***************************************************************************)
EXTENDS Mm, FiniteSetTheorems, SequenceTheorems, WellFoundedInduction, TLAPS

USE MmAssumption

-----------------------------------------------------------------------------
(* Helpers: the least element, finite sets.                                 *)

\* Min is one of the elements, and the least of them.
LEMMA LeastOf ==
  ASSUME NEW S \in SUBSET Nat, S # {}
  PROVE  Min(S) \in S /\ \A x \in S : Min(S) <= x
<1>1. PICK m \in S : \A x \in S : ~(<<x, m>> \in OpToRel(<, Nat))
  BY WFMin, NatLessThanWellFounded
<1>2. \A x \in S : m <= x
  <2> TAKE x \in S
  <2>1. <<x, m>> \in Nat \X Nat
    OBVIOUS
  <2>2. ~(x < m)
    BY <1>1, <2>1 DEF OpToRel
  <2> QED
    BY <2>2
<1> QED
  BY <1>2 DEF Min

LEMMA PagesAreNat == Pages \subseteq Nat /\ UserStart \in Pages
BY DEF Pages

\* Everything that is counted is finite.
LEMMA AllFinite ==
  /\ IsFiniteSet(Pages) /\ IsFiniteSet(Regions) /\ IsFiniteSet(Frames)
  /\ IsFiniteSet(Procs \X Pages) /\ IsFiniteSet(Procs \X Regions)
<1>1. IsFiniteSet(Pages)
  BY FS_Interval DEF Pages
<1>2. IsFiniteSet(Regions)
  <2> DEFINE g == [v \in Pages |-> v \div PtPages]
  <2>1. Regions = {g[v] : v \in Pages}
    BY DEF Regions
  <2>2. g \in Surjection(Pages, {g[v] : v \in Pages})
    BY DEF Surjection
  <2>3. IsFiniteSet({g[v] : v \in Pages})
    BY <1>1, <2>2, FS_Surjection
  <2> QED
    BY <2>1, <2>3
<1>3. IsFiniteSet(1 .. Copies)
  BY FS_Interval
<1> QED
  BY <1>1, <1>2, <1>3, FS_Product DEF Frames

LEMMA Counting ==
  ASSUME NEW U, IsFiniteSet(U), NEW S \in SUBSET U
  PROVE  /\ IsFiniteSet(S) /\ Cardinality(S) \in Nat /\ (Cardinality(S) = 0 <=> S = {})
         /\ \A x \in U \ S : Cardinality(S \cup {x}) = Cardinality(S) + 1
         /\ \A x \in S : Cardinality(S \ {x}) = Cardinality(S) - 1
<1>1. IsFiniteSet(S)
  BY FS_Subset
<1> QED
  BY <1>1, FS_CardinalityType, FS_EmptySet, FS_AddElement, FS_RemoveElement

-----------------------------------------------------------------------------
(* Address spaces: the parts of the invariant that do not count.            *)

\* A step in which process p changes only its own tables, TLB and place in the kernel.
LocalShape(p, npt, nt, nk) ==
    /\ kern[p].pc \in {"user", "copy", "put"} /\ sc' = sc
    /\ pt' = [pt EXCEPT ![p] = npt] /\ tlb' = [tlb EXCEPT ![p] = nt]
    /\ kern' = [kern EXCEPT ![p] = nk]
    /\ refcount' \in [Frames -> Int] /\ ntables' \in Int
    /\ npt.root /\ \A v \in Pages : npt.pte[v] # None => npt.pte[v].f[1] = v
    /\ nk.pc \in {"user", "copy", "put", "destroy"} /\ (nk.pc = "destroy" => nk.child = p)
    /\ nk.pc \in {"copy", "put"} => nk.va \in Pages /\ nk.f \in Frames
    /\ nk.pc = "copy" => npt.pte[nk.va] # None /\ npt.pte[nk.va].f = nk.f
    /\ nk.pc # "destroy" /\ nt # None =>
          \/ nk.pc = "put" /\ nt.va = nk.va
          \/ npt.pte[nt.va] # None /\ npt.pte[nt.va].f = nt.f /\ (nt.w => npt.pte[nt.va].w)

\* A process whose entries, TLB and place in the kernel stay as they are, whose TLB is
\* empty, or that is where the TLB plays no part, does not disturb TlbInv.
LEMMA TlbStep ==
  ASSUME TlbInv,
         \A q \in Procs : \/ tlb'[q] = tlb[q] /\ pt'[q] = pt[q] /\ kern'[q] = kern[q]
                         \/ tlb'[q] = None
                         \/ kern'[q].pc \notin {"user", "copy", "put", "destroy"}
  PROVE  TlbInv'
BY DEF TlbInv, Allowed

LEMMA LocalStep ==
  ASSUME SpacesInv, NEW p \in Procs, NEW npt \in PtType, NEW nt \in TlbType \cup {None},
         NEW nk \in KernType, LocalShape(p, npt, nt, nk)
  PROVE  SpacesInv'
<1> USE DEF LocalShape
<1>1. /\ \A q \in Procs : pt'[q] = IF q = p THEN npt ELSE pt[q]
      /\ \A q \in Procs : tlb'[q] = IF q = p THEN nt ELSE tlb[q]
      /\ \A q \in Procs : kern'[q] = IF q = p THEN nk ELSE kern[q]
  BY DEF SpacesInv, TypeOK
<1>2. TypeOK'
  BY DEF SpacesInv, TypeOK
<1>3. NamesInv'
  BY <1>1 DEF SpacesInv, NamesInv
<1>4. \A q \in Procs : Parent(q)' => q # p /\ Parent(q) /\ kern'[q] = kern[q]
  BY <1>1 DEF Parent
<1>5. \A q \in Procs : Parent(q) => q # p /\ kern[q].child \in Procs \ {p, q}
  BY DEF SpacesInv, ParentInv, Parent
<1>6. ParentInv'
  <2>1. \A q \in Procs : kern'[q].pc = "destroy" => kern'[q].child \in Procs
    BY <1>1 DEF SpacesInv, ParentInv
  <2>2. ASSUME NEW q \in Procs, Parent(q)'
        PROVE  kern'[q].child \in Procs \ {q} /\ kern'[kern'[q].child].pc = "born"
    BY <1>1, <1>4, <1>5, <2>2 DEF SpacesInv, ParentInv
  <2>3. \A q, r \in Procs : Parent(q)' /\ Parent(r)' /\ kern'[q].child = kern'[r].child => q = r
    BY <1>4 DEF SpacesInv, ParentInv
  <2>4. ASSUME NEW q \in Procs, kern'[q].pc \in {"fork", "share"}, NEW v \in Pages, v >= kern'[q].va
        PROVE  pt'[kern'[q].child].pte[v] = None
    <3>1. q # p /\ kern'[q] = kern[q] /\ Parent(q)
      BY <1>1, <2>4 DEF Parent
    <3> QED
      BY <1>1, <1>5, <2>4, <3>1 DEF SpacesInv, ParentInv
  <2> QED
    BY <2>1, <2>2, <2>3, <2>4 DEF ParentInv
<1>7. CopyInv'
  BY <1>1 DEF SpacesInv, CopyInv
<1>8. SpaceInv'
  <2>1. NoPt' = NoPt
    BY DEF NoPt
  <2> QED
    BY <1>1, <2>1 DEF SpacesInv, SpaceInv
<1>9. TlbInv'
  <2>1. ASSUME NEW q \in Procs, q # p, tlb'[q] # None
        PROVE  /\ kern'[q].pc \in {"user", "copy"} => Allowed(q)'
               /\ kern'[q].pc = "put" => tlb'[q].va = kern'[q].va \/ Allowed(q)'
               /\ kern'[q].pc = "destroy" => kern'[q].child = q
    <3>1. tlb'[q] = tlb[q] /\ pt'[q] = pt[q] /\ kern'[q] = kern[q]
      BY <1>1, <2>1
    <3> QED
      BY <2>1, <3>1 DEF SpacesInv, TlbInv, Allowed
  <2>2. /\ tlb'[p] # None /\ kern'[p].pc \in {"user", "copy"} => Allowed(p)'
        /\ tlb'[p] # None /\ kern'[p].pc = "put" => tlb'[p].va = kern'[p].va \/ Allowed(p)'
        /\ kern'[p].pc = "destroy" => kern'[p].child = p
    BY <1>1 DEF Allowed
  <2> QED
    BY <2>1, <2>2 DEF TlbInv
<1> QED
  BY <1>2, <1>3, <1>6, <1>7, <1>8, <1>9 DEF SpacesInv

-----------------------------------------------------------------------------
(* Counting frames and tables.                                              *)

\* The sets that are counted.
LEMMA CountedSets ==
  ASSUME NEW f
  PROVE  /\ Entries(f) \in SUBSET (Procs \X Pages)
         /\ Putting(f) \in SUBSET Procs /\ Sharing(f) \in SUBSET Procs
BY DEF Entries, Putting, Sharing

LEMMA CountedTables ==
  /\ Roots \in SUBSET Procs /\ Tables \in SUBSET (Procs \X Regions) /\ Used \in SUBSET Frames
  /\ Cardinality(Roots) \in Nat /\ Cardinality(Tables) \in Nat /\ Cardinality(Used) \in Nat
<1>1. Roots \in SUBSET Procs /\ Tables \in SUBSET (Procs \X Regions) /\ Used \in SUBSET Frames
  BY DEF Roots, Tables, Used
<1> QED
  BY <1>1, AllFinite, Counting

LEMMA CountsNat ==
  ASSUME NEW f
  PROVE  /\ Cardinality(Entries(f)) \in Nat /\ Cardinality(Putting(f)) \in Nat
         /\ Cardinality(Sharing(f)) \in Nat
BY CountedSets, AllFinite, Counting

\* A frame with a user is counted.
LEMMA UsersCounted ==
  ASSUME FramesAccounted, NEW f \in Frames
  PROVE  /\ refcount[f] \in Nat
         /\ refcount[f] = 0 => Entries(f) = {} /\ Putting(f) = {} /\ Sharing(f) = {}
         /\ refcount[f] = 1 => \A x, y \in Entries(f) : x = y
<1>1. refcount[f] = Cardinality(Entries(f)) + Cardinality(Putting(f)) + Cardinality(Sharing(f))
  BY DEF FramesAccounted, References
<1>2. refcount[f] = 0 => Entries(f) = {} /\ Putting(f) = {} /\ Sharing(f) = {}
  <2>1. /\ Cardinality(Entries(f)) = 0 => Entries(f) = {}
        /\ Cardinality(Putting(f)) = 0 => Putting(f) = {}
        /\ Cardinality(Sharing(f)) = 0 => Sharing(f) = {}
    BY CountedSets, AllFinite, Counting
  <2> QED
    BY <1>1, <2>1, CountsNat
<1>3. ASSUME refcount[f] = 1, NEW x \in Entries(f), NEW y \in Entries(f), x # y
      PROVE  FALSE
  <2>1. PICK S \in SUBSET (Procs \X Pages) : S = Entries(f) \ {x}
    BY CountedSets
  <2>2. Cardinality(S) = Cardinality(Entries(f)) - 1
    BY <2>1, CountedSets, AllFinite, Counting
  <2>a. S # {}
    BY <1>3, <2>1
  <2>3. Cardinality(S) \in Nat /\ Cardinality(S) # 0
    BY <2>a, AllFinite, Counting
  <2> QED
    BY <1>1, <1>3, <2>2, <2>3, CountsNat
<1> QED
  BY <1>1, <1>2, <1>3, CountsNat

\* Memory is left after a step that takes at most what was free.
LEMMA FreeLeft ==
  ASSUME TypeOK, FramesAccounted, sc' = sc, NEW k \in Int, NEW n \in {0, 1},
         ntables' \in Int, ntables' <= ntables + k, k + n <= Free,
         \/ n = 0 /\ Used' \subseteq Used
         \/ n = 1 /\ \E f \in Frames : Used' \subseteq Used \cup {f}
  PROVE  Free' >= 0
<1>1. sc.frames \in Int /\ ntables \in Int
  BY DEF TypeOK
<1>2. Cardinality(Used) \in Nat /\ Cardinality(Used') \in Nat /\ Cardinality(Used') <= Cardinality(Used) + n
  <2>1. IsFiniteSet(Used) /\ Used \subseteq Frames /\ Cardinality(Used) \in Nat
    BY AllFinite, Counting DEF Used
  <2>2. PICK S \in SUBSET Frames : S = Used'
    BY DEF Used
  <2>3. CASE n = 0
    <3>1. S \in SUBSET Used
      BY <2>2, <2>3
    <3> QED
      BY <2>1, <2>2, <2>3, <3>1, AllFinite, Counting, FS_Subset
  <2>4. CASE n = 1
    <3>1. PICK f \in Frames : S \subseteq Used \cup {f}
      BY <2>2, <2>4
    <3>2. PICK T \in SUBSET Frames : T = Used \cup {f}
      BY <2>1
    <3>3. IsFiniteSet(T) /\ Cardinality(T) <= Cardinality(Used) + 1
      <4>1. CASE f \in Used
        <5>1. T = Used
          BY <3>2, <4>1
        <5> QED
          BY <2>1, <5>1
      <4>2. CASE f \notin Used
        BY <2>1, <3>2, <4>2, AllFinite, Counting
      <4> QED
        BY <4>1, <4>2
    <3>4. Cardinality(T) \in Nat /\ Cardinality(S) \in Nat
      BY AllFinite, Counting
    <3>5. S \in SUBSET T
      BY <3>1, <3>2
    <3>6. Cardinality(S) <= Cardinality(T)
      BY <3>3, <3>5, FS_Subset
    <3> QED
      BY <2>1, <2>2, <2>4, <3>3, <3>4, <3>6
  <2> QED
    BY <2>3, <2>4
<1>3. Free' = sc.frames - ntables' - Cardinality(Used')
  BY DEF Free
<1>4. Free = sc.frames - ntables - Cardinality(Used)
  BY DEF Free
<1> QED
  BY <1>1, <1>2, <1>3, <1>4

\* Nothing that is counted changes.
LEMMA CountsKept ==
  ASSUME TypeOK, FramesAccounted, sc' = sc, refcount' = refcount, ntables' = ntables,
         \A q \in Procs : (pt'[q].root <=> pt[q].root) /\ pt'[q].tables = pt[q].tables,
         \A q \in Procs, v \in Pages :
            /\ pt'[q].pte[v] = None <=> pt[q].pte[v] = None
            /\ pt'[q].pte[v] # None => pt'[q].pte[v].f = pt[q].pte[v].f,
         \A f \in Frames : Putting(f)' = Putting(f) /\ Sharing(f)' = Sharing(f)
  PROVE  FramesAccounted'
<1>1. Roots' = Roots /\ Tables' = Tables /\ Used' = Used
  BY DEF Roots, Tables, Used
<1>2. ASSUME NEW f \in Frames
      PROVE  Entries(f)' = Entries(f)
  BY DEF Entries
<1>3. Free' >= 0
  BY <1>1 DEF Free, FramesAccounted
<1>4. \A f \in Frames : References(f)' = References(f)
  BY <1>2 DEF References
<1> QED
  BY <1>1, <1>3, <1>4 DEF FramesAccounted

-----------------------------------------------------------------------------
(* Steps of a process with its own address space.                           *)

\* The ones that take and give nothing.
LEMMA QuietStep ==
  ASSUME IInv, NEW p \in Procs, NEW npt \in PtType, NEW nt \in TlbType \cup {None},
         NEW nk \in KernType, LocalShape(p, npt, nt, nk),
         refcount' = refcount, ntables' = ntables, npt.tables = pt[p].tables,
         \A v \in Pages : /\ npt.pte[v] = None <=> pt[p].pte[v] = None
                          /\ npt.pte[v] # None => npt.pte[v].f = pt[p].pte[v].f,
         kern[p].pc # "put" /\ nk.pc # "put"
  PROVE  IInv'
<1>1. SpacesInv'
  BY LocalStep DEF IInv
<1>2. TypeOK /\ FramesAccounted
  BY DEF IInv, SpacesInv
<1>3. /\ \A q \in Procs : pt'[q] = IF q = p THEN npt ELSE pt[q]
      /\ \A q \in Procs : kern'[q] = IF q = p THEN nk ELSE kern[q]
      /\ sc' = sc /\ npt.root /\ pt[p].root
      /\ nk.pc # "share" /\ kern[p].pc # "share"
  BY <1>2 DEF TypeOK, LocalShape, IInv, SpacesInv, SpaceInv
<1>4. \A f \in Frames : Putting(f)' = Putting(f) /\ Sharing(f)' = Sharing(f)
  BY <1>3 DEF Putting, Sharing
<1>5. FramesAccounted'
  <2>1. \A q \in Procs : (pt'[q].root <=> pt[q].root) /\ pt'[q].tables = pt[q].tables
    BY <1>3
  <2>2. \A q \in Procs, v \in Pages :
            /\ pt'[q].pte[v] = None <=> pt[q].pte[v] = None
            /\ pt'[q].pte[v] # None => pt'[q].pte[v].f = pt[q].pte[v].f
    BY <1>3
  <2> QED
    BY <1>2, <1>3, <1>4, <2>1, <2>2, CountsKept
<1> QED
  BY <1>1, <1>5 DEF IInv

\* The process has its own tables, and types.
LEMMA OwnTypes ==
  ASSUME IInv, NEW p \in Procs
  PROVE  /\ pt[p] \in PtType /\ tlb[p] \in TlbType \cup {None} /\ kern[p] \in KernType
         /\ pt = [pt EXCEPT ![p] = pt[p]] /\ tlb = [tlb EXCEPT ![p] = tlb[p]]
         /\ kern = [kern EXCEPT ![p] = kern[p]]
         /\ refcount \in [Frames -> Int] /\ ntables \in Int
         /\ \A v \in Pages : pt[p].pte[v] # None => pt[p].pte[v].f[1] = v
         /\ pt[p].pte \in [Pages -> PteType \cup {None}] /\ pt[p].tables \in SUBSET Regions
         /\ kern[p].pc \notin {"none", "unused"} => pt[p].root
<1>1. /\ pt \in [Procs -> PtType] /\ tlb \in [Procs -> TlbType \cup {None}]
      /\ kern \in [Procs -> KernType] /\ refcount \in [Frames -> Int] /\ ntables \in Int
  BY DEF IInv, SpacesInv, TypeOK
<1>2. pt[p] \in PtType /\ tlb[p] \in TlbType \cup {None} /\ kern[p] \in KernType
  BY <1>1
<1>3. pt[p].pte \in [Pages -> PteType \cup {None}] /\ pt[p].tables \in SUBSET Regions
  BY <1>2 DEF PtType
<1>4. \A v \in Pages : pt[p].pte[v] # None => pt[p].pte[v].f[1] = v
  BY DEF IInv, SpacesInv, NamesInv
<1>5. kern[p].pc \notin {"none", "unused"} => pt[p].root
  BY DEF IInv, SpacesInv, SpaceInv
<1> QED
  BY <1>1, <1>2, <1>3, <1>4, <1>5

\* Nothing but the place in the kernel and the TLB changes.
StillShape(p, nt, nk) ==
    /\ kern[p].pc \in {"user", "copy"} /\ nk.pc \in {"user", "copy", "destroy"}
    /\ nk.pc = "destroy" => nk.child = p
    /\ nk.pc = "copy" => nk.va \in Pages /\ pt[p].pte[nk.va] # None /\ nk.f \in Frames
                         /\ pt[p].pte[nk.va].f = nk.f
    /\ \/ nt \in {tlb[p], None}
       \/ /\ pt[p].pte[nt.va] # None /\ pt[p].pte[nt.va].f = nt.f
          /\ nt.w => pt[p].pte[nt.va].w
    /\ tlb' = [tlb EXCEPT ![p] = nt] /\ kern' = [kern EXCEPT ![p] = nk]
    /\ UNCHANGED <<sc, pt, refcount, ntables>>

LEMMA StillStep ==
  ASSUME IInv, NEW p \in Procs, NEW nt \in TlbType \cup {None}, NEW nk \in KernType,
         StillShape(p, nt, nk)
  PROVE  IInv'
<1> USE DEF StillShape
<1>1. PICK npt \in PtType : npt = pt[p]
  BY OwnTypes
<1>2. tlb[p] # None => /\ npt.pte[tlb[p].va] # None /\ npt.pte[tlb[p].va].f = tlb[p].f
                       /\ tlb[p].w => npt.pte[tlb[p].va].w
  BY <1>1 DEF IInv, SpacesInv, TlbInv, Allowed
<1>3. pt' = [pt EXCEPT ![p] = npt] /\ refcount' \in [Frames -> Int] /\ ntables' \in Int
  BY <1>1, OwnTypes
<1>4. npt.root /\ \A v \in Pages : npt.pte[v] # None => npt.pte[v].f[1] = v
  BY <1>1, OwnTypes
<1>5. LocalShape(p, npt, nt, nk)
  BY <1>1, <1>2, <1>3, <1>4 DEF LocalShape
<1> QED
  BY <1>1, <1>5, QuietStep

\* Seen(p, v) is a translation that the tables allow.
LEMMA SeenAllowed ==
  ASSUME IInv, NEW p \in Procs, Runs(p), NEW v \in Pages, Seen(p, v) # None
  PROVE  /\ Seen(p, v) \in TlbType /\ Seen(p, v).va = v
         /\ pt[p].pte[v] # None /\ pt[p].pte[v].f = Seen(p, v).f
         /\ Seen(p, v).w => pt[p].pte[v].w
<1>1. CASE tlb[p] # None /\ tlb[p].va = v
  BY <1>1, OwnTypes DEF Seen, IInv, SpacesInv, TlbInv, Allowed, Runs
<1>2. CASE ~(tlb[p] # None /\ tlb[p].va = v)
  <2>1. /\ pt[p].pte[v] # None
        /\ Seen(p, v) = [va |-> v, f |-> pt[p].pte[v].f, w |-> pt[p].pte[v].w]
    BY <1>2 DEF Seen
  <2>2. pt[p].pte[v] \in PteType
    BY <2>1, OwnTypes
  <2> QED
    BY <2>1, <2>2 DEF PteType, TlbType
<1> QED
  BY <1>1, <1>2

\* Loads, stores, evictions, mmap, the start of an exit, faults that kill or fail.
LEMMA QuietActions ==
  ASSUME IInv, NEW p \in Procs,
         \/ \E a \in MapArgs : mm_map(p, a[1], a[2], a[3])
         \/ Exit(p) \/ Evict(p)
         \/ \E v \in Pages : Read(p, v)
         \/ \E v \in Pages, x \in Values : Write(p, v, x)
         \/ Runs(p) /\ Unresolved(p) /\ UNCHANGED <<sc, pt, refcount, ntables, tlb>>
  PROVE  IInv'
<1>1. kern[p].pc = "user"
  BY DEF mm_map, Exit, Evict, Read, Write, Runs
<1>2. PICK k0 \in KernType : k0 = kern[p]
  BY OwnTypes
<1>3. PICK t0 \in TlbType \cup {None} : t0 = tlb[p]
  BY OwnTypes
<1>4. At("destroy", UserStart, None, p) \in KernType
  BY DEF At, KernType
<1>5. PICK k1 \in KernType : k1 = At("destroy", UserStart, None, p)
  BY <1>4
<1>6. k1.pc = "destroy" /\ k1.child = p
  BY <1>5 DEF At
<1>7. CASE UNCHANGED <<sc, pt, refcount, ntables, tlb, kern>>
  <2>1. tlb' = [tlb EXCEPT ![p] = t0] /\ kern' = [kern EXCEPT ![p] = k0]
    BY <1>2, <1>3, <1>7, OwnTypes
  <2>5. StillShape(p, t0, k0)
    BY <1>1, <1>2, <1>3, <1>7, <2>1 DEF StillShape
  <2> QED
    BY <2>5, StillStep
<1>8. CASE Exits(p) /\ UNCHANGED <<sc, pt, refcount, ntables, tlb>>
  <2>1. tlb' = [tlb EXCEPT ![p] = t0] /\ kern' = [kern EXCEPT ![p] = k1]
    BY <1>3, <1>5, <1>8, OwnTypes DEF Exits
  <2>5. StillShape(p, t0, k1)
    BY <1>1, <1>3, <1>6, <1>8, <2>1 DEF StillShape
  <2> QED
    BY <2>5, StillStep
<1>9. CASE Evict(p)
  <2>1. tlb' = [tlb EXCEPT ![p] = None] /\ kern' = [kern EXCEPT ![p] = k0]
    BY <1>2, <1>9, OwnTypes DEF Evict
  <2>2. PICK nt \in TlbType \cup {None} : nt = None
    OBVIOUS
  <2>3. UNCHANGED <<sc, pt, refcount, ntables>>
    BY <1>9 DEF Evict
  <2>5. StillShape(p, nt, k0)
    BY <1>1, <1>2, <2>1, <2>2, <2>3 DEF StillShape
  <2> QED
    BY <2>5, StillStep
<1>10. ASSUME NEW v \in Pages, Seen(p, v) # None, tlb' = [tlb EXCEPT ![p] = Seen(p, v)],
              UNCHANGED <<sc, pt, refcount, ntables, kern>>
       PROVE  IInv'
  <2>1. Runs(p)
    BY <1>1 DEF Runs
  <2>2. PICK nt \in TlbType : nt = Seen(p, v)
    BY <1>10, <2>1, SeenAllowed
  <2>3. /\ nt.va = v /\ pt[p].pte[v] # None /\ pt[p].pte[v].f = nt.f
        /\ nt.w => pt[p].pte[v].w
    BY <1>10, <2>1, <2>2, SeenAllowed
  <2>4. tlb' = [tlb EXCEPT ![p] = nt] /\ kern' = [kern EXCEPT ![p] = k0]
    BY <1>2, <1>10, <2>2, OwnTypes
  <2>5. StillShape(p, nt, k0)
    BY <1>1, <1>2, <1>10, <2>3, <2>4 DEF StillShape
  <2> QED
    BY <2>5, StillStep
<1> QED
  BY <1>7, <1>8, <1>9, <1>10 DEF mm_map, Exit, Evict, Read, Write, Unresolved

-----------------------------------------------------------------------------
(* Taking frames and tables.                                                *)

\* There are names for as many frames as there can be.
LEMMA NewFrameFree ==
  ASSUME IInv, NEW v \in Pages, Free > 0
  PROVE  NewFrame(v) \in Frames /\ NewFrame(v)[1] = v /\ refcount[NewFrame(v)] = 0
<1> DEFINE I == {i \in 1 .. Copies : refcount[<<v, i>>] = 0}
<1>1. I # {}
  <2> SUFFICES ASSUME I = {}
               PROVE  FALSE
    OBVIOUS
  <2>1. PICK S : S = {v} \X (1 .. Copies)
    OBVIOUS
  <2>2. S \in SUBSET Used
    BY <2>1 DEF Used, Frames
  <2>3. Cardinality(S) = 1 * Copies
    <3>1. IsFiniteSet({v}) /\ Cardinality({v}) = 1
      BY FS_Singleton
    <3>2. IsFiniteSet(1 .. Copies) /\ Cardinality(1 .. Copies) = Copies
      BY FS_Interval
    <3>3. Cardinality({v} \X (1 .. Copies)) = Cardinality({v}) * Cardinality(1 .. Copies)
      BY <3>1, <3>2, FS_Product
    <3> QED
      BY <2>1, <3>1, <3>2, <3>3
  <2>4. IsFiniteSet(Used) /\ Cardinality(Used) \in Nat
    BY CountedTables, AllFinite, Counting
  <2>5. Cardinality(S) <= Cardinality(Used)
    BY <2>2, <2>4, FS_Subset
  <2>6. ntables \in Nat /\ sc.frames \in 1 .. Copies
    BY CountedTables DEF IInv, SpacesInv, TypeOK, FramesAccounted
  <2>7. Free = sc.frames - ntables - Cardinality(Used)
    BY DEF Free
  <2> QED
    BY <2>3, <2>4, <2>5, <2>6, <2>7
<1>2. I \in SUBSET Nat /\ NewFrame(v) = <<v, Min(I)>>
  BY DEF NewFrame
<1>3. Min(I) \in I
  BY <1>1, <1>2, LeastOf
<1> QED
  BY <1>2, <1>3 DEF Frames

\* Records of page tables.
LEMMA PtWithPte ==
  ASSUME NEW x \in PtType, NEW e \in [Pages -> PteType \cup {None}]
  PROVE  \E y \in PtType : /\ y = [x EXCEPT !.pte = e]
                           /\ (y.root <=> x.root) /\ y.tables = x.tables /\ y.pte = e
<1>1. PICK y : y = [x EXCEPT !.pte = e]
  OBVIOUS
<1>2. y \in PtType /\ (y.root <=> x.root) /\ y.tables = x.tables /\ y.pte = e
  BY <1>1 DEF PtType
<1> QED
  BY <1>1, <1>2

LEMMA PtWithTables ==
  ASSUME NEW x \in PtType, NEW T \in SUBSET Regions
  PROVE  \E y \in PtType : /\ y = [x EXCEPT !.tables = T]
                           /\ (y.root <=> x.root) /\ y.tables = T /\ y.pte = x.pte
<1>1. PICK y : y = [x EXCEPT !.tables = T]
  OBVIOUS
<1>2. y \in PtType /\ (y.root <=> x.root) /\ y.tables = T /\ y.pte = x.pte
  BY <1>1 DEF PtType
<1> QED
  BY <1>1, <1>2

LEMMA PteMade ==
  ASSUME NEW f \in Frames, NEW w \in BOOLEAN, NEW c \in BOOLEAN
  PROVE  /\ Pte(f, w, c) \in PteType /\ Pte(f, w, c) # None
         /\ Pte(f, w, c).f = f /\ Pte(f, w, c).w = w /\ Pte(f, w, c).cow = c
<1>1. Pte(f, w, c) \in PteType
  BY DEF Pte, PteType
<1> QED
  BY <1>1 DEF Pte

LEMMA NeedOneOrNone ==
  ASSUME NEW r, NEW T
  PROVE  Cardinality({r} \ T) \in {0, 1}
<1>1. CASE r \in T
  <2>1. {r} \ T = {}
    BY <1>1
  <2> QED
    BY <2>1, FS_EmptySet
<1>2. CASE r \notin T
  <2>1. {r} \ T = {r}
    BY <1>2
  <2> QED
    BY <2>1, FS_Singleton
<1> QED
  BY <1>1, <1>2

\* A table is needed, or is there.
LEMMA TablesAdded ==
  ASSUME TypeOK, FramesAccounted, NEW p \in Procs, NEW r \in Regions,
         Tables' = Tables \cup {<<p, r>>}, Roots' = Roots
  PROVE  /\ Cardinality({r} \ pt[p].tables) \in {0, 1}
         /\ Cardinality(Roots') + Cardinality(Tables') = ntables + Cardinality({r} \ pt[p].tables)
<1>1. CASE r \in pt[p].tables
  <2>1. Tables' = Tables /\ {r} \ pt[p].tables = {}
    BY <1>1 DEF Tables
  <2>2. Cardinality({r} \ pt[p].tables) = 0
    BY <2>1, FS_EmptySet
  <2>3. ntables \in Int /\ ntables = Cardinality(Roots) + Cardinality(Tables)
    BY DEF TypeOK, FramesAccounted
  <2>4. Cardinality(Roots') = Cardinality(Roots) /\ Cardinality(Tables') = Cardinality(Tables)
    BY <2>1
  <2> QED
    BY <2>2, <2>3, <2>4, CountedTables
<1>2. CASE r \notin pt[p].tables
  <2>1. <<p, r>> \in (Procs \X Regions) \ Tables /\ {r} \ pt[p].tables = {r}
    BY <1>2 DEF Tables
  <2>2. Cardinality({r} \ pt[p].tables) = 1
    BY <2>1, FS_Singleton
  <2>3. Cardinality(Tables \cup {<<p, r>>}) = Cardinality(Tables) + 1
    <3>1. PICK U : U = Procs \X Regions
      OBVIOUS
    <3>2. PICK S \in SUBSET U : S = Tables
      BY <3>1, CountedTables
    <3>3. PICK x \in U \ S : x = <<p, r>>
      BY <2>1, <3>1, <3>2
    <3>4. IsFiniteSet(U)
      BY <3>1, AllFinite
    <3> QED
      BY <3>2, <3>3, <3>4, Counting
  <2> QED
    BY <2>2, <2>3, CountedTables DEF FramesAccounted
<1> QED
  BY <1>1, <1>2

LEMMA TableAdded ==
  ASSUME NEW p \in Procs, NEW r \in Regions,
         pt'[p].tables = pt[p].tables \cup {r},
         \A q \in Procs : q # p => pt'[q].tables = pt[q].tables,
         \A q \in Procs : pt'[q].root <=> pt[q].root
  PROVE  Tables' = Tables \cup {<<p, r>>} /\ Roots' = Roots
<1>1. Roots' = Roots
  BY DEF Roots
<1>2. ASSUME NEW x \in Procs \X Regions
      PROVE  x \in Tables' <=> x \in Tables \/ x = <<p, r>>
  <2>1. x[1] \in Procs /\ x[2] \in Regions /\ (x = <<p, r>> <=> x[1] = p /\ x[2] = r)
    OBVIOUS
  <2> QED
    BY <2>1 DEF Tables
<1>3. Tables' \subseteq Procs \X Regions /\ Tables \subseteq Procs \X Regions
  BY DEF Tables
<1> QED
  BY <1>1, <1>2, <1>3

LEMMA RegionsOfPages == \A v \in Pages : RegionOf(v) \in Regions
BY DEF RegionOf, Regions

\* What invlpg leaves in the TLB.
LEMMA Forgotten ==
  ASSUME IInv, NEW p \in Procs, NEW S
  PROVE  \E nt \in TlbType \cup {None} :
            /\ Invlpg(p, S) = [tlb EXCEPT ![p] = nt]
            /\ nt # None => nt = tlb[p] /\ nt.va \notin S
<1>1. PICK nt : nt = IF tlb[p] # None /\ tlb[p].va \in S THEN None ELSE tlb[p]
  OBVIOUS
<1>2. tlb \in [Procs -> TlbType \cup {None}]
  BY DEF IInv, SpacesInv, TypeOK
<1>3. Invlpg(p, S) = [tlb EXCEPT ![p] = nt]
  BY <1>1, <1>2 DEF Invlpg
<1> QED
  BY <1>1, <1>2, <1>3

\* A page that the count says is not shared any more, and the start of a copy.
LEMMA CowStep ==
  ASSUME IInv, NEW p \in Procs, NEW v \in Pages, Runs(p), pt[p].pte[v] # None, Cow(p, v),
         UNCHANGED <<sc, refcount, ntables>>
  PROVE  IInv'
<1>1. PICK e \in PteType : e = pt[p].pte[v]
  BY OwnTypes
<1>2. e.f \in Frames /\ e.f[1] = v /\ pt \in [Procs -> PtType] /\ kern[p].pc = "user"
  BY <1>1, OwnTypes DEF PteType, IInv, SpacesInv, TypeOK, Runs
<1>3. CASE SoleOwner(e.f)
  <2>a. PICK x \in PtType : x = pt[p]
    BY OwnTypes
  <2>b. x.pte \in [Pages -> PteType \cup {None}] /\ x.tables \in SUBSET Regions /\ x.root
    BY <1>2, <2>a, OwnTypes
  <2>c. PICK g \in PteType : g = Pte(e.f, TRUE, FALSE) /\ g.f = e.f /\ g # None
    BY <1>2, PteMade
  <2>1. PICK ne \in [Pages -> PteType \cup {None}] : ne = [x.pte EXCEPT ![v] = g]
    BY <2>b
  <2>2. \A w \in Pages : ne[w] = IF w = v THEN g ELSE pt[p].pte[w]
    BY <2>a, <2>b, <2>1
  <2>3. PICK npt \in PtType : /\ npt = [x EXCEPT !.pte = ne]
                              /\ (npt.root <=> x.root) /\ npt.tables = x.tables /\ npt.pte = ne
    BY PtWithPte
  <2>4. npt.root /\ npt.tables = pt[p].tables /\ npt.pte = ne
    BY <2>a, <2>b, <2>3
  <2>5. pt' = [pt EXCEPT ![p] = npt] /\ tlb' = Invlpg(p, {v}) /\ kern' = kern
    BY <1>1, <1>2, <1>3, <2>a, <2>c, <2>1, <2>3 DEF Cow
  <2>6. PICK nt \in TlbType \cup {None} :
           tlb' = [tlb EXCEPT ![p] = nt] /\ (nt # None => nt = tlb[p] /\ nt.va \notin {v})
    BY <2>5, Forgotten
  <2>7. PICK nk \in KernType : nk = kern[p]
    BY OwnTypes
  <2>8. kern' = [kern EXCEPT ![p] = nk] /\ refcount' \in [Frames -> Int] /\ ntables' \in Int
    BY <2>5, <2>7, OwnTypes
  <2>9. \A w \in Pages : /\ npt.pte[w] = None <=> pt[p].pte[w] = None
                         /\ npt.pte[w] # None => npt.pte[w].f = pt[p].pte[w].f
    BY <1>1, <2>c, <2>2, <2>4
  <2>10. \A w \in Pages : npt.pte[w] # None => npt.pte[w].f[1] = w
    BY <2>9, OwnTypes
  <2>11. nt # None => /\ npt.pte[nt.va] # None /\ npt.pte[nt.va].f = nt.f
                      /\ nt.w => npt.pte[nt.va].w
    <3>1. nt # None => nt.va \in Pages
      BY <2>6 DEF TlbType
    <3>2. nt # None => Allowed(p)
      BY <1>2, <2>6 DEF IInv, SpacesInv, TlbInv
    <3> QED
      BY <2>2, <2>4, <2>6, <3>1, <3>2 DEF Allowed
  <2>12. LocalShape(p, npt, nt, nk)
    BY <1>2, <2>4, <2>5, <2>6, <2>7, <2>8, <2>10, <2>11 DEF LocalShape
  <2> QED
    BY <1>2, <2>4, <2>7, <2>9, <2>12, QuietStep
<1>4. CASE ~SoleOwner(e.f)
  <2>1. At("copy", v, e.f, None) \in KernType
    BY <1>2, PagesAreNat DEF At, KernType
  <2>2. PICK nk \in KernType : nk = At("copy", v, e.f, None)
    BY <2>1
  <2>3. nk.pc = "copy" /\ nk.va = v /\ nk.f = e.f
    BY <2>2 DEF At
  <2>4. kern' = [kern EXCEPT ![p] = nk] /\ pt' = pt /\ tlb' = tlb
    BY <1>1, <1>4, <2>2 DEF Cow
  <2>5. PICK t0 \in TlbType \cup {None} : t0 = tlb[p] /\ tlb' = [tlb EXCEPT ![p] = t0]
    BY <2>4, OwnTypes
  <2>6. StillShape(p, t0, nk)
    BY <1>1, <1>2, <2>3, <2>4, <2>5 DEF StillShape
  <2> QED
    BY <2>6, StillStep
<1> QED
  BY <1>3, <1>4

\* An entry with frame f is added at page v of process p.
LEMMA EntryAdded ==
  ASSUME NEW p \in Procs, NEW v \in Pages, NEW f \in Frames, NEW g \in Frames,
         pt[p].pte[v] = None, pt'[p].pte[v] # None, pt'[p].pte[v].f = f,
         \A q \in Procs, w \in Pages : ~(q = p /\ w = v) => pt'[q].pte[w] = pt[q].pte[w]
  PROVE  /\ g # f => Entries(g)' = Entries(g)
         /\ Cardinality(Entries(f)') = Cardinality(Entries(f)) + 1
<1>1. ASSUME NEW x \in Procs \X Pages
      PROVE  /\ x \in Entries(g)' <=> x \in Entries(g) \/ (g = f /\ x = <<p, v>>)
             /\ x \in Entries(f)' <=> x \in Entries(f) \/ x = <<p, v>>
  <2>1. x[1] \in Procs /\ x[2] \in Pages /\ (x = <<p, v>> <=> x[1] = p /\ x[2] = v)
    OBVIOUS
  <2> QED
    BY <2>1 DEF Entries
<1>2. Entries(g)' \subseteq Procs \X Pages /\ Entries(f)' \subseteq Procs \X Pages
  BY DEF Entries
<1>3. g # f => Entries(g)' = Entries(g)
  BY <1>1, <1>2, CountedSets
<1>4. Entries(f)' = Entries(f) \cup {<<p, v>>}
  BY <1>1, <1>2, CountedSets
<1>5. PICK S \in SUBSET (Procs \X Pages) : S = Entries(f)
  BY CountedSets
<1>6. PICK x \in (Procs \X Pages) \ S : x = <<p, v>>
  BY <1>5 DEF Entries
<1>7. Cardinality(S \cup {x}) = Cardinality(S) + 1
  <2>1. PICK U : U = Procs \X Pages
    OBVIOUS
  <2>2. S \in SUBSET U /\ x \in U \ S /\ IsFiniteSet(U)
    BY <2>1, AllFinite
  <2> QED
    BY <2>2, Counting
<1> QED
  BY <1>3, <1>4, <1>5, <1>6, <1>7

\* An entry with frame f is taken away.
LEMMA EntryRemoved ==
  ASSUME NEW p \in Procs, NEW v \in Pages, NEW f \in Frames, NEW g \in Frames,
         pt[p].pte[v] # None, pt[p].pte[v].f = f,
         pt'[p].pte[v] = None,
         \A q \in Procs, w \in Pages : ~(q = p /\ w = v) => pt'[q].pte[w] = pt[q].pte[w]
  PROVE  /\ g # f => Entries(g)' = Entries(g)
         /\ Cardinality(Entries(f)') = Cardinality(Entries(f)) - 1
<1>1. ASSUME NEW x \in Procs \X Pages
      PROVE  /\ x \in Entries(g)' <=> x \in Entries(g) /\ ~(g = f /\ x = <<p, v>>)
             /\ x \in Entries(f)' <=> x \in Entries(f) /\ x # <<p, v>>
  <2>1. x[1] \in Procs /\ x[2] \in Pages /\ (x = <<p, v>> <=> x[1] = p /\ x[2] = v)
    OBVIOUS
  <2> QED
    BY <2>1 DEF Entries
<1>2. Entries(g)' \subseteq Procs \X Pages /\ Entries(f)' \subseteq Procs \X Pages
  BY DEF Entries
<1>3. g # f => Entries(g)' = Entries(g)
  BY <1>1, <1>2, CountedSets
<1>4. Entries(f)' = Entries(f) \ {<<p, v>>}
  BY <1>1, <1>2, CountedSets
<1>5. PICK S \in SUBSET (Procs \X Pages) : S = Entries(f)
  BY CountedSets
<1>6. PICK x \in S : x = <<p, v>>
  BY <1>5 DEF Entries
<1>7. Cardinality(S \ {x}) = Cardinality(S) - 1
  BY AllFinite, Counting
<1> QED
  BY <1>3, <1>4, <1>5, <1>6, <1>7

\* A process comes to the set of those that put, or share, frame f, or leaves it.
LEMMA OneMore ==
  ASSUME NEW S \in SUBSET Procs, NEW T \in SUBSET Procs, NEW p \in Procs,
         p \notin S, p \in T, \A q \in Procs : q # p => (q \in S <=> q \in T)
  PROVE  Cardinality(T) = Cardinality(S) + 1 /\ Cardinality(S) = Cardinality(T) - 1
<1>1. T = S \cup {p} /\ S = T \ {p}
  OBVIOUS
<1> QED
  BY <1>1, Counting

\* A page of zeros, or only the table for it.
LEMMA AbsentStep ==
  ASSUME IInv, NEW p \in Procs, NEW v \in Pages, Runs(p), pt[p].pte[v] = None,
         NEW as, NEW w \in BOOLEAN, Absent(p, v, as, w), UNCHANGED <<sc, tlb>>
  PROVE  IInv'
<1>1. PICK r \in Regions : r = RegionOf(v)
  BY RegionsOfPages
<1>2. PICK need : need = Cardinality({r} \ pt[p].tables)
  OBVIOUS
<1>a. need \in {0, 1}
  BY <1>2, NeedOneOrNone
<1>3. PICK f : f = NewFrame(v)
  OBVIOUS
<1>4. TypeOK /\ FramesAccounted /\ pt \in [Procs -> PtType] /\ kern[p].pc = "user" /\ Free \in Int
  BY CountedTables DEF IInv, SpacesInv, TypeOK, Runs, Free
<1>5. PICK x \in PtType : x = pt[p] /\ x.root
  BY <1>4, OwnTypes
<1>6. x.pte \in [Pages -> PteType \cup {None}] /\ x.tables \in SUBSET Regions
  BY <1>5, OwnTypes
<1>7. PICK T \in SUBSET Regions : T = x.tables \cup {r}
  BY <1>6
<1>8. PICK t0 \in TlbType \cup {None} : t0 = tlb[p] /\ tlb' = [tlb EXCEPT ![p] = t0]
  BY OwnTypes
<1>9. t0 # None => /\ t0.va \in Pages /\ t0.va # v /\ x.pte[t0.va] # None
                   /\ x.pte[t0.va].f = t0.f /\ (t0.w => x.pte[t0.va].w)
  <2>1. t0 # None => t0.va \in Pages
    BY DEF TlbType
  <2> QED
    BY <1>4, <1>5, <1>8, <2>1 DEF IInv, SpacesInv, TlbInv, Allowed
<1>b. \/ /\ Free < need /\ Unresolved(p) /\ UNCHANGED <<pt, refcount, ntables, content>>
      \/ /\ Free = need /\ pt' = [pt EXCEPT ![p].tables = @ \cup {r}]
         /\ ntables' = ntables + need /\ Unresolved(p) /\ UNCHANGED <<refcount, content>>
      \/ /\ Free > need
         /\ pt' = [pt EXCEPT ![p].tables = @ \cup {r}, ![p].pte[v] = Pte(f, w, FALSE)]
         /\ ntables' = ntables + need /\ refcount' = [refcount EXCEPT ![f] = 1] /\ kern' = kern
  BY <1>1, <1>2, <1>3, Zenon DEF Absent
<1>c. (Free < need => ~(Free = need) /\ ~(Free > need)) /\ (Free = need => ~(Free > need))
  BY <1>4, <1>a
<1>10. CASE Free < need
  <2>1. Unresolved(p) /\ UNCHANGED <<sc, pt, refcount, ntables, tlb>>
    BY <1>b, <1>c, <1>10, Zenon
  <2> QED
    BY <2>1, QuietActions
<1>11. CASE Free = need
  <2>1. /\ pt' = [pt EXCEPT ![p].tables = @ \cup {r}] /\ ntables' = ntables + need
        /\ Unresolved(p) /\ refcount' = refcount
    BY <1>b, <1>c, <1>11, Zenon
  <2>2. PICK npt \in PtType : /\ npt = [x EXCEPT !.tables = T]
                              /\ (npt.root <=> x.root) /\ npt.tables = T /\ npt.pte = x.pte
    BY PtWithTables
  <2>3. pt' = [pt EXCEPT ![p] = npt]
    BY <1>4, <1>5, <1>7, <2>1, <2>2
  <2>4. \A q \in Procs : pt'[q] = IF q = p THEN npt ELSE pt[q]
    BY <1>4, <2>3
  <2>5. Tables' = Tables \cup {<<p, r>>} /\ Roots' = Roots
    <3>1. pt'[p].tables = pt[p].tables \cup {r}
      BY <1>5, <1>7, <2>2, <2>4
    <3>2. \A q \in Procs : q # p => pt'[q].tables = pt[q].tables
      BY <2>4
    <3>3. \A q \in Procs : pt'[q].root <=> pt[q].root
      BY <1>5, <2>2, <2>4
    <3> QED
      BY <3>1, <3>2, <3>3, TableAdded
  <2>6. need \in {0, 1} /\ ntables' = Cardinality(Roots') + Cardinality(Tables')
    BY <1>2, <1>4, <2>1, <2>5, TablesAdded
  <2>7. PICK nk \in KernType : /\ kern' = [kern EXCEPT ![p] = nk] /\ nk.pc \in {"user", "destroy"}
                               /\ nk.pc = "destroy" => nk.child = p
    <3>1. CASE Exits(p)
      <4>1. /\ At("destroy", UserStart, None, p) \in KernType
            /\ At("destroy", UserStart, None, p).pc = "destroy"
            /\ At("destroy", UserStart, None, p).child = p
        BY DEF At, KernType
      <4> QED
        BY <3>1, <4>1 DEF Exits
    <3>2. CASE kern' = kern
      BY <1>4, <3>2, OwnTypes
    <3> QED
      BY <2>1, <3>1, <3>2 DEF Unresolved
  <2>8. refcount' \in [Frames -> Int] /\ ntables' \in Int
    BY <2>1, <2>6, OwnTypes
  <2>9. \A u \in Pages : npt.pte[u] # None => npt.pte[u].f[1] = u
    BY <1>5, <2>2, OwnTypes
  <2>10. LocalShape(p, npt, t0, nk)
    BY <1>4, <1>5, <1>8, <1>9, <2>2, <2>3, <2>7, <2>8, <2>9 DEF LocalShape
  <2>11. SpacesInv'
    BY <2>10, LocalStep DEF IInv
  <2>12. Used' = Used
    BY <2>1 DEF Used
  <2>13. Free' >= 0
    BY <1>4, <1>11, <2>1, <2>6, <2>8, <2>12, FreeLeft
  <2>14. \A q \in Procs : kern'[q] = IF q = p THEN nk ELSE kern[q]
    BY <1>4, <2>7 DEF TypeOK
  <2>15. ASSUME NEW g \in Frames
         PROVE  References(g)' = refcount'[g]
    <3>1. Putting(g)' = Putting(g) /\ Sharing(g)' = Sharing(g)
      BY <1>4, <2>4, <2>7, <2>14 DEF Putting, Sharing
    <3>2. Entries(g)' = Entries(g)
      BY ZenonT(60), <1>5, <2>2, <2>4 DEF Entries
    <3> QED
      BY <1>4, <2>1, <3>1, <3>2 DEF References, FramesAccounted
  <2> QED
    BY <2>6, <2>11, <2>13, <2>15 DEF IInv, FramesAccounted
<1>12. CASE Free > need
  <2>1. /\ pt' = [pt EXCEPT ![p].tables = @ \cup {r}, ![p].pte[v] = Pte(f, w, FALSE)]
        /\ ntables' = ntables + need /\ refcount' = [refcount EXCEPT ![f] = 1] /\ kern' = kern
    BY <1>b, <1>c, <1>12, Zenon
  <2>b. f \in Frames /\ f[1] = v /\ refcount[f] = 0
    BY <1>3, <1>4, <1>12, <1>a, NewFrameFree
  <2>c. PICK e \in PteType : e = Pte(f, w, FALSE) /\ e.f = f /\ e # None
    BY ZenonT(60), <2>b, PteMade
  <2>d. PICK ne \in [Pages -> PteType \cup {None}] : ne = [x.pte EXCEPT ![v] = e]
    BY <1>6
  <2>e. \A u \in Pages : ne[u] = IF u = v THEN e ELSE pt[p].pte[u]
    BY <1>5, <1>6, <2>d
  <2>f. PICK y \in PtType : /\ y = [x EXCEPT !.tables = T]
                            /\ (y.root <=> x.root) /\ y.tables = T /\ y.pte = x.pte
    BY PtWithTables
  <2>2. PICK npt \in PtType : /\ npt = [y EXCEPT !.pte = ne]
                              /\ (npt.root <=> y.root) /\ npt.tables = y.tables /\ npt.pte = ne
    BY PtWithPte
  <2>g. npt.root /\ npt.tables = pt[p].tables \cup {r} /\ npt.pte = ne
    BY <1>5, <1>7, <2>f, <2>2
  <2>3. pt' = [pt EXCEPT ![p] = npt]
    <3>1. PICK p1 \in [Procs -> PtType] : p1 = [pt EXCEPT ![p] = y]
      BY <1>4
    <3>2. [pt EXCEPT ![p].tables = @ \cup {r}] = p1
      BY <1>4, <1>5, <1>7, <2>f, <3>1
    <3>3. pt' = [p1 EXCEPT ![p].pte[v] = e]
      BY <2>1, <2>c, <3>2
    <3>4. p1[p] = y /\ y.pte = x.pte
      BY <1>4, <2>f, <3>1
    <3>5. pt' = [p1 EXCEPT ![p] = npt]
      BY <2>d, <2>2, <3>3, <3>4
    <3> QED
      BY <1>4, <3>1, <3>5
  <2>4. \A q \in Procs : pt'[q] = IF q = p THEN npt ELSE pt[q]
    BY <1>4, <2>3
  <2>5. Tables' = Tables \cup {<<p, r>>} /\ Roots' = Roots
    BY <1>5, <2>g, <2>4, TableAdded
  <2>6. need \in {0, 1} /\ ntables' = Cardinality(Roots') + Cardinality(Tables')
    BY <1>2, <1>4, <2>1, <2>5, TablesAdded
  <2>7. PICK nk \in KernType : kern' = [kern EXCEPT ![p] = nk] /\ nk.pc = "user"
    BY <1>4, <2>1, OwnTypes
  <2>8. /\ refcount' \in [Frames -> Int] /\ ntables' \in Int
        /\ \A g \in Frames : refcount'[g] = IF g = f THEN 1 ELSE refcount[g]
    BY <2>1, <2>6, <2>b, OwnTypes
  <2>9. \A u \in Pages : npt.pte[u] # None => npt.pte[u].f[1] = u
    <3>1. \A u \in Pages : u # v => npt.pte[u] = pt[p].pte[u]
      BY <2>g, <2>e
    <3>2. npt.pte[v].f[1] = v
      BY <2>b, <2>c, <2>e, <2>g
    <3> QED
      BY <3>1, <3>2, OwnTypes
  <2>10. LocalShape(p, npt, t0, nk)
    <3>1. t0 # None => /\ npt.pte[t0.va] # None /\ npt.pte[t0.va].f = t0.f
                       /\ t0.w => npt.pte[t0.va].w
      BY <1>5, <1>9, <2>g, <2>e
    <3> QED
      BY <1>4, <1>8, <2>g, <2>3, <2>7, <2>8, <2>9, <3>1 DEF LocalShape
  <2>11. SpacesInv'
    BY <2>10, LocalStep DEF IInv
  <2>12. Used' \subseteq Used \cup {f}
    BY <2>8 DEF Used
  <2>13. Free' >= 0
    BY <1>4, <1>12, <2>1, <2>6, <2>8, <2>12, <2>b, FreeLeft
  <2>15. ASSUME NEW g \in Frames
         PROVE  References(g)' = refcount'[g]
    <3>1. Putting(g)' = Putting(g) /\ Sharing(g)' = Sharing(g)
      <4>1. \A q \in Procs : kern[q].pc = "share" => q # p
        BY <1>4
      <4> QED
        BY ZenonT(60), <2>1, <2>4, <4>1 DEF Putting, Sharing
    <3>2. /\ g # f => Entries(g)' = Entries(g)
          /\ Cardinality(Entries(f)') = Cardinality(Entries(f)) + 1
      <4>1. pt'[p].pte[v] # None /\ pt'[p].pte[v].f = f
        BY <2>g, <2>4, <2>c, <2>e
      <4>2. \A q \in Procs, u \in Pages : ~(q = p /\ u = v) => pt'[q].pte[u] = pt[q].pte[u]
        BY <2>g, <2>4, <2>e
      <4> QED
        BY <2>b, <4>1, <4>2, EntryAdded
    <3>3. CASE g # f
      BY <1>4, <2>8, <3>1, <3>2, <3>3 DEF References, FramesAccounted
    <3>4. CASE g = f
      <4>1. Cardinality(Entries(f)) = 0 /\ Cardinality(Putting(f)) = 0 /\ Cardinality(Sharing(f)) = 0
        BY <1>4, <2>b, UsersCounted, FS_EmptySet
      <4> QED
        BY <2>8, <3>1, <3>2, <3>4, <4>1 DEF References
    <3> QED
      BY <3>3, <3>4
  <2> QED
    BY <2>6, <2>11, <2>13, <2>15 DEF IInv, FramesAccounted
<1> QED
  BY <1>4, <1>10, <1>11, <1>12, <1>a

\* The entry of page v changes from frame f to frame h.
LEMMA EntryMoved ==
  ASSUME NEW p \in Procs, NEW v \in Pages, NEW f \in Frames, NEW h \in Frames, NEW g \in Frames,
         f # h, pt[p].pte[v] # None, pt[p].pte[v].f = f, pt'[p].pte[v] # None, pt'[p].pte[v].f = h,
         \A q \in Procs, w \in Pages : ~(q = p /\ w = v) => pt'[q].pte[w] = pt[q].pte[w]
  PROVE  /\ g \notin {f, h} => Entries(g)' = Entries(g)
         /\ Cardinality(Entries(f)') = Cardinality(Entries(f)) - 1
         /\ Cardinality(Entries(h)') = Cardinality(Entries(h)) + 1
<1>1. ASSUME NEW x \in Procs \X Pages
      PROVE  /\ g \notin {f, h} => (x \in Entries(g)' <=> x \in Entries(g))
             /\ x \in Entries(f)' <=> x \in Entries(f) /\ x # <<p, v>>
             /\ x \in Entries(h)' <=> x \in Entries(h) \/ x = <<p, v>>
  <2>1. x[1] \in Procs /\ x[2] \in Pages /\ (x = <<p, v>> <=> x[1] = p /\ x[2] = v)
    OBVIOUS
  <2> QED
    BY <2>1 DEF Entries
<1>2. /\ Entries(g)' \subseteq Procs \X Pages /\ Entries(f)' \subseteq Procs \X Pages
      /\ Entries(h)' \subseteq Procs \X Pages
  BY DEF Entries
<1>3. g \notin {f, h} => Entries(g)' = Entries(g)
  BY <1>1, <1>2, CountedSets
<1>4. Entries(f)' = Entries(f) \ {<<p, v>>} /\ Entries(h)' = Entries(h) \cup {<<p, v>>}
  BY <1>1, <1>2, CountedSets
<1>5. PICK U : U = Procs \X Pages
  OBVIOUS
<1>6. PICK S \in SUBSET U, T \in SUBSET U : S = Entries(f) /\ T = Entries(h)
  BY <1>5, CountedSets
<1>7. PICK x : x = <<p, v>>
  OBVIOUS
<1>8. x \in S /\ x \in U \ T /\ IsFiniteSet(U)
  BY <1>5, <1>6, <1>7, AllFinite DEF Entries
<1>9. Cardinality(S \ {x}) = Cardinality(S) - 1 /\ Cardinality(T \cup {x}) = Cardinality(T) + 1
  BY <1>8, Counting
<1> QED
  BY <1>3, <1>4, <1>6, <1>7, <1>9

\* The places in the kernel that processes come to from outside.
LEMMA KernMade ==
  /\ InUser \in KernType /\ InUser.pc = "user"
  /\ \A p \in Procs : /\ At("destroy", UserStart, None, p) \in KernType
                       /\ At("destroy", UserStart, None, p).pc = "destroy"
                       /\ At("destroy", UserStart, None, p).child = p
BY DEF InUser, At, KernType

LEMMA RightsAreBoolean ==
  ASSUME NEW prot
  PROVE  prot_to_pte(prot) \in BOOLEAN
BY DEF prot_to_pte

\* The second part of a copy-on-write fault.
LEMMA CowCopyStep ==
  ASSUME IInv, NEW p \in Procs, CowCopy(p)
  PROVE  IInv'
<1>1. kern[p].pc = "copy" /\ TypeOK /\ FramesAccounted /\ pt \in [Procs -> PtType]
  BY DEF CowCopy, IInv, SpacesInv, TypeOK
<1>2. PICK v \in Pages, o \in Frames : /\ v = kern[p].va /\ o = kern[p].f
                                      /\ pt[p].pte[v] # None /\ pt[p].pte[v].f = o
  BY <1>1 DEF IInv, SpacesInv, CopyInv
<1>3. sc' = sc /\ ntables' = ntables /\ tlb' = tlb
  BY DEF CowCopy
<1>4. PICK t0 \in TlbType \cup {None} : t0 = tlb[p] /\ tlb' = [tlb EXCEPT ![p] = t0]
  BY <1>3, OwnTypes
<1>5. CASE OutOfMemory
  <2>1. /\ Exits(p) \/ kern' = [kern EXCEPT ![p] = InUser]
        /\ UNCHANGED <<pt, refcount>>
    BY <1>5 DEF CowCopy
  <2>2. PICK nk \in KernType : /\ kern' = [kern EXCEPT ![p] = nk] /\ nk.pc \in {"user", "destroy"}
                               /\ nk.pc = "destroy" => nk.child = p
    BY <2>1, KernMade DEF Exits
  <2>3. StillShape(p, t0, nk)
    BY <1>1, <1>3, <1>4, <2>1, <2>2 DEF StillShape
  <2> QED
    BY <2>3, StillStep
<1>6. CASE ~OutOfMemory
  <2>a. PICK prot : prot = mm[p].vmas[find_vma(p, v)].prot
    OBVIOUS
  <2>1. PICK w \in BOOLEAN : w = prot_to_pte(prot)
    BY RightsAreBoolean
  <2>2. PICK f : f = NewFrame(v)
    OBVIOUS
  <2>3. /\ pt' = [pt EXCEPT ![p].pte[v] = Pte(f, w, FALSE)]
        /\ refcount' = [refcount EXCEPT ![f] = 1]
        /\ kern' = [kern EXCEPT ![p].pc = "put"]
    BY <1>2, <1>6, <2>a, <2>1, <2>2, Zenon DEF CowCopy
  <2>4. Free > 0
    <3>1. Free \in Int /\ Free >= 0 /\ Free # 0
      BY <1>1, <1>6, CountedTables DEF Free, FramesAccounted, OutOfMemory, TypeOK
    <3> QED
      BY <3>1
  <2>5. f \in Frames /\ f[1] = v /\ refcount[f] = 0
    BY <2>2, <2>4, NewFrameFree
  <2>6. f # o
    <3>1. <<p, v>> \in Entries(o)
      BY <1>2 DEF Entries
    <3> QED
      BY <1>1, <2>5, <3>1, UsersCounted
  <2>7. PICK e \in PteType : e = Pte(f, w, FALSE) /\ e.f = f /\ e # None
    BY <2>5, PteMade
  <2>8. PICK x \in PtType : x = pt[p] /\ x.root
    BY <1>1, OwnTypes
  <2>9. x.pte \in [Pages -> PteType \cup {None}]
    BY <2>8, OwnTypes
  <2>10. PICK ne \in [Pages -> PteType \cup {None}] : ne = [x.pte EXCEPT ![v] = e]
    BY <2>9
  <2>11. \A u \in Pages : ne[u] = IF u = v THEN e ELSE pt[p].pte[u]
    BY <2>8, <2>9, <2>10
  <2>12. PICK npt \in PtType : /\ npt = [x EXCEPT !.pte = ne]
                               /\ (npt.root <=> x.root) /\ npt.tables = x.tables /\ npt.pte = ne
    BY PtWithPte
  <2>b. npt.root /\ npt.tables = pt[p].tables /\ npt.pte = ne
    BY <2>8, <2>12
  <2>13. pt' = [pt EXCEPT ![p] = npt]
    BY <1>1, <2>3, <2>7, <2>8, <2>10, <2>12
  <2>14. \A q \in Procs : pt'[q] = IF q = p THEN npt ELSE pt[q]
    BY <1>1, <2>13
  <2>15. PICK nk : nk = [kern[p] EXCEPT !.pc = "put"]
    OBVIOUS
  <2>16. nk \in KernType /\ nk.pc = "put" /\ nk.va = v /\ nk.f = o
    BY <1>2, <2>15, OwnTypes DEF KernType
  <2>17. kern \in [Procs -> KernType] /\ kern' = [kern EXCEPT ![p] = nk]
    BY <1>1, <2>3, <2>15 DEF TypeOK
  <2>18. \A q \in Procs : kern'[q] = IF q = p THEN nk ELSE kern[q]
    BY <2>17
  <2>19. /\ refcount' \in [Frames -> Int] /\ ntables' \in Int
         /\ \A g \in Frames : refcount'[g] = IF g = f THEN 1 ELSE refcount[g]
    BY <1>3, <2>3, <2>5, OwnTypes
  <2>20. \A u \in Pages : npt.pte[u] # None => npt.pte[u].f[1] = u
    <3>1. \A u \in Pages : u # v => npt.pte[u] = pt[p].pte[u]
      BY <2>11, <2>12
    <3>2. npt.pte[v].f[1] = v
      BY ZenonT(60), <2>5, <2>7, <2>11, <2>12
    <3> QED
      BY <3>1, <3>2, OwnTypes
  <2>21. t0 # None => \/ t0.va = v
                      \/ /\ npt.pte[t0.va] # None /\ npt.pte[t0.va].f = t0.f
                         /\ t0.w => npt.pte[t0.va].w
    <3>1. t0 # None => t0.va \in Pages
      BY DEF TlbType
    <3>2. t0 # None => Allowed(p)
      BY <1>1, <1>4 DEF IInv, SpacesInv, TlbInv
    <3> QED
      BY <1>4, <2>11, <2>12, <3>1, <3>2 DEF Allowed
  <2>22. LocalShape(p, npt, t0, nk)
    BY <1>1, <1>3, <1>4, <2>8, <2>12, <2>13, <2>16, <2>17, <2>19, <2>20, <2>21 DEF LocalShape
  <2>23. SpacesInv'
    BY <2>16, <2>22, LocalStep DEF IInv
  <2>24. Used' \subseteq Used \cup {f}
    BY <2>19 DEF Used
  <2>25. Free' >= 0
    <3>1. ntables \in Int /\ Free \in Int
      BY <1>1, CountedTables DEF TypeOK, Free
    <3>2. ntables' <= ntables + 0 /\ 0 + 1 <= Free
      BY <1>3, <2>4, <3>1
    <3> QED
      BY <1>1, <1>3, <2>5, <2>19, <2>24, <3>2, FreeLeft
  <2>26. Roots' = Roots /\ Tables' = Tables
    BY ZenonT(60), <2>8, <2>12, <2>14 DEF Roots, Tables
  <2>27. ASSUME NEW g \in Frames
         PROVE  References(g)' = refcount'[g]
    <3>1. Sharing(g)' = Sharing(g)
      BY <1>1, <2>14, <2>16, <2>18 DEF Sharing
    <3>2. /\ g \notin {o, f} => Entries(g)' = Entries(g)
          /\ Cardinality(Entries(o)') = Cardinality(Entries(o)) - 1
          /\ Cardinality(Entries(f)') = Cardinality(Entries(f)) + 1
      <4>1. pt'[p].pte[v] # None /\ pt'[p].pte[v].f = f
        BY <2>7, <2>11, <2>b, <2>14
      <4>2. \A q \in Procs, u \in Pages : ~(q = p /\ u = v) => pt'[q].pte[u] = pt[q].pte[u]
        BY <2>11, <2>b, <2>14
      <4> QED
        BY <1>2, <2>5, <2>6, <4>1, <4>2, EntryMoved
    <3>3. g # o => Putting(g)' = Putting(g)
      BY <1>1, <2>16, <2>18 DEF Putting
    <3>4. Cardinality(Putting(o)') = Cardinality(Putting(o)) + 1
      <4>1. PICK S \in SUBSET Procs, T \in SUBSET Procs : S = Putting(o) /\ T = Putting(o)'
        BY DEF Putting
      <4>2. p \notin S /\ p \in T /\ \A q \in Procs : q # p => (q \in S <=> q \in T)
        BY <1>1, <2>16, <2>18, <4>1 DEF Putting
      <4> QED
        BY <4>1, <4>2, OneMore
    <3>5. refcount[g] = Cardinality(Entries(g)) + Cardinality(Putting(g)) + Cardinality(Sharing(g))
      BY <1>1 DEF FramesAccounted, References
    <3>6. /\ Cardinality(Entries(g)) \in Nat /\ Cardinality(Putting(g)) \in Nat
          /\ Cardinality(Sharing(g)) \in Nat
      BY CountsNat
    <3>7. CASE g = f
      <4>1. Cardinality(Entries(f)) = 0 /\ Cardinality(Putting(f)) = 0 /\ Cardinality(Sharing(f)) = 0
        BY <1>1, <2>5, UsersCounted, FS_EmptySet
      <4> QED
        BY <2>6, <2>19, <3>1, <3>2, <3>3, <3>7, <4>1 DEF References
    <3>8. CASE g = o
      BY <2>6, <2>19, <3>1, <3>2, <3>4, <3>5, <3>6, <3>8 DEF References
    <3>9. CASE g \notin {o, f}
      BY <2>19, <3>1, <3>2, <3>3, <3>5, <3>9 DEF References
    <3> QED
      BY <3>7, <3>8, <3>9
  <2> QED
    BY <1>1, <1>3, <2>23, <2>25, <2>26, <2>27 DEF IInv, FramesAccounted
<1> QED
  BY <1>5, <1>6

\* The third part: the old frame is put.
LEMMA CowPutStep ==
  ASSUME IInv, NEW p \in Procs, CowPut(p)
  PROVE  IInv'
<1>1. kern[p].pc = "put" /\ TypeOK /\ FramesAccounted /\ pt \in [Procs -> PtType]
  BY DEF CowPut, IInv, SpacesInv, TypeOK
<1>2. PICK v \in Pages, o \in Frames : v = kern[p].va /\ o = kern[p].f
  BY <1>1 DEF IInv, SpacesInv, CopyInv
<1>3. /\ sc' = sc /\ ntables' = ntables /\ pt' = pt /\ tlb' = Invlpg(p, {v})
      /\ kern' = [kern EXCEPT ![p] = InUser] /\ refcount' = [refcount EXCEPT ![o] = @ - 1]
  BY <1>2 DEF CowPut
<1>4. PICK nt \in TlbType \cup {None} :
         tlb' = [tlb EXCEPT ![p] = nt] /\ (nt # None => nt = tlb[p] /\ nt.va \notin {v})
  BY <1>3, Forgotten
<1>5. PICK nk \in KernType : nk = InUser /\ nk.pc = "user"
  BY KernMade
<1>6. PICK npt \in PtType : npt = pt[p] /\ npt.root
  BY <1>1, OwnTypes
<1>7. kern \in [Procs -> KernType] /\ kern' = [kern EXCEPT ![p] = nk]
  BY <1>1, <1>3, <1>5 DEF TypeOK
<1>8. \A q \in Procs : kern'[q] = IF q = p THEN nk ELSE kern[q]
  BY <1>7
<1>9. /\ refcount' \in [Frames -> Int] /\ ntables' \in Int
      /\ \A g \in Frames : refcount'[g] = IF g = o THEN refcount[g] - 1 ELSE refcount[g]
  BY <1>3, OwnTypes
<1>10. pt' = [pt EXCEPT ![p] = npt] /\ \A u \in Pages : npt.pte[u] # None => npt.pte[u].f[1] = u
  BY <1>3, <1>6, OwnTypes
<1>11. nt # None => /\ npt.pte[nt.va] # None /\ npt.pte[nt.va].f = nt.f
                    /\ nt.w => npt.pte[nt.va].w
  <2>1. nt # None => Allowed(p)
    BY <1>1, <1>2, <1>4 DEF IInv, SpacesInv, TlbInv
  <2> QED
    BY <1>4, <1>6, <2>1 DEF Allowed
<1>12. LocalShape(p, npt, nt, nk)
  BY <1>1, <1>3, <1>4, <1>5, <1>6, <1>7, <1>9, <1>10, <1>11 DEF LocalShape
<1>13. SpacesInv'
  BY <1>12, LocalStep DEF IInv
<1>14. Roots' = Roots /\ Tables' = Tables
  BY <1>3 DEF Roots, Tables
<1>15. Used' \subseteq Used
  <2>1. p \in Putting(o)
    BY <1>1, <1>2 DEF Putting
  <2>2. o \in Used
    BY <1>1, <2>1, UsersCounted DEF Used
  <2> QED
    BY <1>9, <2>2 DEF Used
<1>16. Free' >= 0
  <2>1. ntables \in Int /\ Free \in Int /\ Free >= 0
    BY <1>1, CountedTables DEF TypeOK, Free, FramesAccounted
  <2>2. ntables' <= ntables + 0 /\ 0 + 0 <= Free
    BY <1>3, <2>1
  <2> QED
    BY <1>1, <1>3, <1>9, <1>15, <2>2, FreeLeft
<1>17. ASSUME NEW g \in Frames
       PROVE  References(g)' = refcount'[g]
  <2>1. Sharing(g)' = Sharing(g) /\ Entries(g)' = Entries(g)
    BY <1>1, <1>3, <1>5, <1>8 DEF Sharing, Entries
  <2>2. g # o => Putting(g)' = Putting(g)
    BY <1>1, <1>2, <1>5, <1>8 DEF Putting
  <2>3. Cardinality(Putting(o)') = Cardinality(Putting(o)) - 1
    <3>1. PICK S \in SUBSET Procs, T \in SUBSET Procs : S = Putting(o)' /\ T = Putting(o)
      BY DEF Putting
    <3>2. p \notin S /\ p \in T /\ \A q \in Procs : q # p => (q \in S <=> q \in T)
      BY <1>1, <1>2, <1>5, <1>8, <3>1 DEF Putting
    <3> QED
      BY <3>1, <3>2, OneMore
  <2>4. refcount[g] = Cardinality(Entries(g)) + Cardinality(Putting(g)) + Cardinality(Sharing(g))
    BY <1>1 DEF FramesAccounted, References
  <2> QED
    BY <1>9, <2>1, <2>2, <2>3, <2>4, CountsNat DEF References
<1> QED
  BY <1>1, <1>3, <1>13, <1>14, <1>16, <1>17 DEF IInv, FramesAccounted

\* mm_handle_fault, whatever it has to do.
LEMMA FaultStep ==
  ASSUME IInv, NEW p \in Procs, NEW v \in Pages, NEW write \in BOOLEAN,
         mm_handle_fault(p, v, write)
  PROVE  IInv'
<1>1. PICK as, i : as = Found(p, v).as /\ i = Found(p, v).i
  OBVIOUS
<1>2. PICK prot : prot = as[i].prot
  OBVIOUS
<1>3. PICK w \in BOOLEAN : w = prot_to_pte(prot)
  BY RightsAreBoolean
<1>4. /\ Runs(p) /\ sc' = sc
      /\ \/ Unresolved(p) /\ UNCHANGED <<pt, mm, refcount, ntables, content, tlb>>
         \/ pt[p].pte[v] = None /\ Absent(p, v, as, w) /\ tlb' = tlb
         \/ /\ pt[p].pte[v] # None /\ Cow(p, v)
            /\ UNCHANGED <<mm, refcount, ntables, content>>
  BY <1>1, <1>2, <1>3, Zenon DEF mm_handle_fault
<1>5. CASE Unresolved(p) /\ UNCHANGED <<pt, mm, refcount, ntables, content, tlb>>
  <2>1. UNCHANGED <<sc, pt, refcount, ntables, tlb>>
    BY <1>4, <1>5
  <2> QED
    BY <1>4, <1>5, <2>1, QuietActions
<1>6. CASE pt[p].pte[v] = None /\ Absent(p, v, as, w) /\ tlb' = tlb
  BY <1>4, <1>6, AbsentStep
<1>7. CASE pt[p].pte[v] # None /\ Cow(p, v) /\ UNCHANGED <<mm, refcount, ntables, content>>
  BY <1>4, <1>7, CowStep
<1> QED
  BY <1>4, <1>5, <1>6, <1>7

-----------------------------------------------------------------------------
(* Giving pages and tables back.                                            *)

\* Process p loses its entries for the pages G.
LEMMA EntriesUnmapped ==
  ASSUME NamesInv, NEW p \in Procs, NEW G \in SUBSET Pages, NEW g \in Frames,
         \A q \in Procs, w \in Pages :
            pt'[q].pte[w] = IF q = p /\ w \in G THEN None ELSE pt[q].pte[w]
  PROVE  IF g[1] \in G /\ pt[p].pte[g[1]] # None /\ pt[p].pte[g[1]].f = g
         THEN Cardinality(Entries(g)') = Cardinality(Entries(g)) - 1
         ELSE Entries(g)' = Entries(g)
<1>1. PICK v \in Pages : v = g[1]
  BY DEF Frames
<1>2. \A w \in Pages : pt[p].pte[w] # None /\ pt[p].pte[w].f = g => w = v
  BY <1>1 DEF NamesInv
<1>3. ASSUME NEW x \in Procs \X Pages
      PROVE  x \in Entries(g)' <=>
                x \in Entries(g) /\ ~(v \in G /\ x = <<p, v>>)
  <2>1. x[1] \in Procs /\ x[2] \in Pages /\ (x = <<p, v>> <=> x[1] = p /\ x[2] = v)
    OBVIOUS
  <2>2. x[1] = p /\ x \in Entries(g) => x[2] = v
    BY <1>2, <2>1 DEF Entries
  <2> QED
    BY <2>1, <2>2 DEF Entries
<1>4. Entries(g)' \subseteq Procs \X Pages
  BY DEF Entries
<1>5. PICK S \in SUBSET (Procs \X Pages) : S = Entries(g)
  BY CountedSets
<1>6. CASE v \in G /\ pt[p].pte[v] # None /\ pt[p].pte[v].f = g
  <2>1. PICK x \in S : x = <<p, v>>
    BY <1>5, <1>6 DEF Entries
  <2>2. Entries(g)' = S \ {x}
    BY <1>3, <1>4, <1>5, <1>6, <2>1
  <2>3. Cardinality(S \ {x}) = Cardinality(S) - 1
    BY AllFinite, Counting
  <2> QED
    BY <1>1, <1>5, <1>6, <2>2, <2>3
<1>7. CASE ~(v \in G /\ pt[p].pte[v] # None /\ pt[p].pte[v].f = g)
  <2>1. ~(v \in G /\ <<p, v>> \in S)
    BY <1>5, <1>7 DEF Entries
  <2>2. Entries(g)' = S
    BY <1>3, <1>4, <1>5, <2>1
  <2> QED
    BY <1>1, <1>5, <1>7, <2>2
<1> QED
  BY <1>6, <1>7

\* Process p loses the tables E.
LEMMA TablesDropped ==
  ASSUME NEW p \in Procs, NEW E \in SUBSET Regions, E \subseteq pt[p].tables,
         pt'[p].tables = pt[p].tables \ E,
         \A q \in Procs : q # p => pt'[q].tables = pt[q].tables
  PROVE  Cardinality(E) \in Nat /\ Cardinality(Tables') = Cardinality(Tables) - Cardinality(E)
<1>1. PICK D : D = {p} \X E
  OBVIOUS
<1>2. ASSUME NEW x \in Procs \X Regions
      PROVE  x \in Tables' <=> x \in Tables /\ x \notin D
  <2>1. x[1] \in Procs /\ x[2] \in Regions /\ (x \in D <=> x[1] = p /\ x[2] \in E)
    BY <1>1
  <2> QED
    BY <2>1 DEF Tables
<1>3. Tables' \subseteq Procs \X Regions /\ Tables \subseteq Procs \X Regions
  BY DEF Tables
<1>4. Tables' = Tables \ D
  BY <1>2, <1>3
<1>5. Tables \cap D = D
  BY <1>1 DEF Tables
<1>6. IsFiniteSet(Tables) /\ IsFiniteSet(E) /\ Cardinality(E) \in Nat
  BY <1>3, AllFinite, Counting
<1>7. IsFiniteSet({p}) /\ Cardinality({p}) = 1
  BY FS_Singleton
<1>8. Cardinality({p} \X E) = Cardinality({p}) * Cardinality(E)
  BY <1>6, <1>7, FS_Product
<1>9. Cardinality(D) = Cardinality(E)
  BY <1>1, <1>6, <1>7, <1>8
<1>10. Cardinality(Tables \ D) = Cardinality(Tables) - Cardinality(Tables \cap D)
  BY <1>6, FS_Difference
<1> QED
  BY <1>4, <1>5, <1>6, <1>9, <1>10

\* munmap and a heap that shrinks.
LEMMA UnmapStep ==
  ASSUME IInv, NEW p \in Procs, Runs(p), NEW S, NEW as, NEW brk, Unmap(p, S, as, brk)
  PROVE  IInv'
<1>1. PICK G \in SUBSET Pages : G = Mapped(p, S)
  BY DEF Mapped
<1>2. PICK E \in SUBSET Regions : E = Emptied(p, S) /\ E \subseteq pt[p].tables
  <2>1. Emptied(p, S) \subseteq pt[p].tables
    BY DEF Emptied
  <2> QED
    BY <2>1, OwnTypes
<1>3. \A v \in G : pt[p].pte[v] # None
  BY <1>1 DEF Mapped
<1>4. TypeOK /\ NamesInv /\ FramesAccounted /\ pt \in [Procs -> PtType] /\ kern[p].pc = "user"
  BY DEF IInv, SpacesInv, TypeOK, Runs
<1>5. PICK F : F = {pt[p].pte[v].f : v \in G}
  OBVIOUS
<1>6. \A g \in Frames : g \in F <=> g[1] \in G /\ pt[p].pte[g[1]] # None /\ pt[p].pte[g[1]].f = g
  BY <1>3, <1>4, <1>5 DEF NamesInv
<1>7. /\ pt' = [pt EXCEPT ![p].pte = [v \in Pages |-> IF v \in G THEN None ELSE @[v]],
                          ![p].tables = @ \ E]
      /\ refcount' = [f \in Frames |-> IF f \in F THEN refcount[f] - 1 ELSE refcount[f]]
      /\ ntables' = ntables - Cardinality(E)
      /\ tlb' = IF E # {} THEN [tlb EXCEPT ![p] = None] ELSE Invlpg(p, G)
      /\ sc' = sc /\ kern' = kern
  BY <1>1, <1>2, <1>5, Zenon DEF Unmap
<1>8. PICK x \in PtType : x = pt[p] /\ x.root
  BY <1>4, OwnTypes
<1>9. x.pte \in [Pages -> PteType \cup {None}] /\ x.tables \in SUBSET Regions
  BY <1>8, OwnTypes
<1>10. PICK ne \in [Pages -> PteType \cup {None}] :
          ne = [v \in Pages |-> IF v \in G THEN None ELSE x.pte[v]]
  BY <1>9
<1>11. PICK y \in PtType : /\ y = [x EXCEPT !.pte = ne]
                            /\ (y.root <=> x.root) /\ y.tables = x.tables /\ y.pte = ne
  BY PtWithPte
<1>12. PICK T \in SUBSET Regions : T = x.tables \ E
  BY <1>9
<1>13. PICK npt \in PtType : /\ npt = [y EXCEPT !.tables = T]
                              /\ (npt.root <=> y.root) /\ npt.tables = T /\ npt.pte = y.pte
  BY PtWithTables
<1>14. npt.root /\ npt.tables = pt[p].tables \ E /\ npt.pte = ne
  BY <1>8, <1>11, <1>12, <1>13
<1>15. pt' = [pt EXCEPT ![p] = npt]
  <2>1. PICK p1 \in [Procs -> PtType] : p1 = [pt EXCEPT ![p] = y]
    BY <1>4
  <2>2. [pt EXCEPT ![p].pte = [v \in Pages |-> IF v \in G THEN None ELSE @[v]]] = p1
    BY <1>4, <1>8, <1>10, <1>11, <2>1
  <2>3. pt' = [p1 EXCEPT ![p].tables = @ \ E]
    BY <1>7, <2>2
  <2>4. p1[p] = y /\ y.tables = x.tables
    BY <1>4, <1>11, <2>1
  <2>5. pt' = [p1 EXCEPT ![p] = npt]
    BY <1>12, <1>13, <2>3, <2>4
  <2> QED
    BY <1>4, <2>1, <2>5
<1>16. \A q \in Procs : pt'[q] = IF q = p THEN npt ELSE pt[q]
  BY <1>4, <1>15
<1>17. \A u \in Pages : ne[u] = IF u \in G THEN None ELSE pt[p].pte[u]
  BY <1>8, <1>10
<1>18. \A q \in Procs, u \in Pages :
          pt'[q].pte[u] = IF q = p /\ u \in G THEN None ELSE pt[q].pte[u]
  BY <1>14, <1>16, <1>17
<1>19. PICK nt \in TlbType \cup {None} :
          tlb' = [tlb EXCEPT ![p] = nt] /\ (nt # None => nt = tlb[p] /\ nt.va \notin G)
  <2>1. CASE E # {}
    BY <1>7, <2>1
  <2>2. CASE E = {}
    BY <1>7, <2>2, Forgotten
  <2> QED
    BY <2>1, <2>2
<1>20. PICK nk \in KernType : nk = kern[p] /\ kern' = [kern EXCEPT ![p] = nk] /\ nk.pc = "user"
  BY <1>4, <1>7, OwnTypes
<1>21. Cardinality(E) \in Nat /\ Cardinality(Tables') = Cardinality(Tables) - Cardinality(E)
  <2>1. pt'[p].tables = pt[p].tables \ E /\ \A q \in Procs : q # p => pt'[q].tables = pt[q].tables
    BY <1>14, <1>16
  <2> QED
    BY <1>2, <2>1, TablesDropped
<1>22. /\ refcount' \in [Frames -> Int] /\ ntables' \in Int
       /\ \A g \in Frames : refcount'[g] = IF g \in F THEN refcount[g] - 1 ELSE refcount[g]
  BY <1>7, <1>21, OwnTypes
<1>23. LocalShape(p, npt, nt, nk)
  <2>1. nt # None => nt.va \in Pages
    BY DEF TlbType
  <2>2. nt # None => Allowed(p)
    BY <1>4, <1>19 DEF IInv, SpacesInv, TlbInv
  <2>3. nt # None => /\ npt.pte[nt.va] # None /\ npt.pte[nt.va].f = nt.f
                     /\ nt.w => npt.pte[nt.va].w
    BY <1>14, <1>17, <1>19, <2>1, <2>2 DEF Allowed
  <2>4. \A u \in Pages : npt.pte[u] # None => npt.pte[u].f[1] = u
    <3>1. \A u \in Pages : npt.pte[u] # None => npt.pte[u] = pt[p].pte[u]
      BY <1>14, <1>17
    <3> QED
      BY <3>1, OwnTypes
  <2> QED
    BY <1>4, <1>7, <1>14, <1>15, <1>19, <1>20, <1>22, <2>3, <2>4 DEF LocalShape
<1>24. SpacesInv'
  BY <1>23, LocalStep DEF IInv
<1>25. Roots' = Roots
  BY <1>8, <1>14, <1>16 DEF Roots
<1>26. Used' \subseteq Used
  <2>1. ASSUME NEW g \in F, g \in Frames
        PROVE  g \in Used
    <3>1. <<p, g[1]>> \in Entries(g)
      BY <1>6, <2>1 DEF Entries
    <3> QED
      BY <1>4, <2>1, <3>1, UsersCounted DEF Used
  <2> QED
    BY <1>22, <2>1 DEF Used
<1>27. ntables = Cardinality(Roots) + Cardinality(Tables) /\ ntables \in Int
  BY <1>4 DEF FramesAccounted, TypeOK
<1>28. ntables' = Cardinality(Roots') + Cardinality(Tables')
  BY <1>7, <1>21, <1>25, <1>27, CountedTables
<1>29. Free' >= 0
  <2>1. Free \in Int /\ Free >= 0
    BY <1>4, CountedTables DEF TypeOK, Free, FramesAccounted
  <2>2. ntables' <= ntables + 0 /\ 0 + 0 <= Free
    BY <1>7, <1>21, <1>27, <2>1
  <2> QED
    BY <1>4, <1>7, <1>22, <1>26, <2>2, FreeLeft
<1>30. ASSUME NEW g \in Frames
       PROVE  References(g)' = refcount'[g]
  <2>1. Putting(g)' = Putting(g) /\ Sharing(g)' = Sharing(g)
    <3>1. \A q \in Procs : kern[q].pc = "share" => q # p
      BY <1>4
    <3> QED
      BY <1>7, <1>16, <3>1 DEF Putting, Sharing
  <2>2. IF g \in F THEN Cardinality(Entries(g)') = Cardinality(Entries(g)) - 1
        ELSE Entries(g)' = Entries(g)
    BY <1>4, <1>6, <1>18, EntriesUnmapped
  <2>3. refcount[g] = Cardinality(Entries(g)) + Cardinality(Putting(g)) + Cardinality(Sharing(g))
    BY <1>4 DEF FramesAccounted, References
  <2> QED
    BY <1>22, <2>1, <2>2, <2>3, CountsNat DEF References
<1> QED
  BY <1>24, <1>28, <1>29, <1>30 DEF IInv, FramesAccounted

-----------------------------------------------------------------------------
(* Fork.                                                                    *)

LEMMA RootMade ==
  /\ Root \in PtType /\ Root.root /\ Root.tables = {} /\ \A v \in Pages : Root.pte[v] = None
  /\ NoPt \in PtType /\ ~NoPt.root /\ NoPt.tables = {} /\ \A v \in Pages : NoPt.pte[v] = None
<1>1. NoPt \in PtType /\ ~NoPt.root /\ NoPt.tables = {} /\ \A v \in Pages : NoPt.pte[v] = None
  BY DEF NoPt, PtType
<1>2. Root = [NoPt EXCEPT !.root = TRUE]
  BY DEF Root
<1> QED
  BY <1>1, <1>2 DEF PtType

\* The child of a process is not born yet and has no other parent.
LEMMA Children ==
  ASSUME IInv, NEW q \in Procs, Parent(q)
  PROVE  /\ kern[q].child \in Procs \ {q} /\ kern[kern[q].child].pc = "born"
         /\ \A r \in Procs : Parent(r) /\ kern[r].child = kern[q].child => r = q
BY DEF IInv, SpacesInv, ParentInv

\* The child gets a root and stands at the beginning.
LEMMA ForkStep ==
  ASSUME IInv, NEW p \in Procs, NEW c \in Procs, mm_fork(p, c)
  PROVE  IInv'
<1>1. /\ kern[p].pc = "user" /\ kern[c].pc = "none" /\ ~OutOfMemory
      /\ pt' = [pt EXCEPT ![c] = Root] /\ ntables' = ntables + 1
      /\ UNCHANGED <<sc, refcount, tlb>>
  BY DEF mm_fork, Runs
<1>2. PICK pc \in {"fork", "undo"} :
         kern' = [kern EXCEPT ![p] = At(pc, UserStart, None, c), ![c].pc = "born"]
  BY Zenon DEF mm_fork
<1>3. TypeOK /\ FramesAccounted /\ pt \in [Procs -> PtType] /\ kern \in [Procs -> KernType] /\ p # c
  BY <1>1 DEF IInv, SpacesInv, TypeOK
<1>4. PICK kp \in KernType : /\ kp = At(pc, UserStart, None, c)
                             /\ kp.pc = pc /\ kp.va = UserStart /\ kp.child = c
  <2>1. /\ At(pc, UserStart, None, c) \in KernType
        /\ At(pc, UserStart, None, c).pc = pc /\ At(pc, UserStart, None, c).va = UserStart
        /\ At(pc, UserStart, None, c).child = c
    BY DEF At, KernType
  <2> QED
    BY <2>1
<1>5. PICK kc \in KernType : kc = [kern[c] EXCEPT !.pc = "born"] /\ kc.pc = "born"
  <2>1. PICK x \in KernType : x = kern[c]
    BY OwnTypes
  <2>2. PICK y : y = [x EXCEPT !.pc = "born"]
    OBVIOUS
  <2>3. y \in KernType /\ y.pc = "born"
    BY <2>2 DEF KernType
  <2> QED
    BY <2>1, <2>2, <2>3
<1>6. kern' \in [Procs -> KernType] /\ \A q \in Procs : kern'[q] = IF q = p THEN kp ELSE IF q = c THEN kc ELSE kern[q]
  BY <1>2, <1>3, <1>4, <1>5
<1>7. PICK R \in PtType : R = Root /\ R.root /\ R.tables = {} /\ \A v \in Pages : R.pte[v] = None
  BY RootMade
<1>8. pt' \in [Procs -> PtType] /\ \A q \in Procs : pt'[q] = IF q = c THEN R ELSE pt[q]
  BY <1>1, <1>3, <1>7
<1>9. pt[c].root = FALSE /\ pt[c].tables = {} /\ \A v \in Pages : pt[c].pte[v] = None
  BY <1>1, RootMade DEF IInv, SpacesInv, SpaceInv
<1>10. SpacesInv'
  <2>1. TypeOK'
    BY <1>1, <1>3, <1>6, <1>8 DEF TypeOK
  <2>2. NamesInv'
    BY <1>7, <1>8 DEF IInv, SpacesInv, NamesInv
  <2>3. \A q \in Procs : q # p => (Parent(q)' => q # c /\ Parent(q) /\ kern'[q] = kern[q])
    BY <1>5, <1>6 DEF Parent
  <2>4. \A q \in Procs : Parent(q) => /\ q \notin {p, c} /\ kern[q].child \in Procs \ {p, c, q}
                                      /\ kern[kern[q].child].pc = "born"
    BY <1>1, Children DEF Parent
  <2>5. ParentInv'
    <3>1. \A q \in Procs : kern'[q].pc = "destroy" => kern'[q].child \in Procs
      BY <1>4, <1>5, <1>6 DEF IInv, SpacesInv, ParentInv
    <3>2. ASSUME NEW q \in Procs, Parent(q)'
          PROVE  kern'[q].child \in Procs \ {q} /\ kern'[kern'[q].child].pc = "born"
      BY ZenonT(60), <1>3, <1>4, <1>5, <1>6, <2>3, <2>4, <3>2
    <3>3. ASSUME NEW q \in Procs, NEW r \in Procs, Parent(q)', Parent(r)', kern'[q].child = kern'[r].child
          PROVE  q = r
      <4>1. CASE q = p \/ r = p
        BY <1>4, <1>6, <2>3, <2>4, <3>3, <4>1
      <4>2. CASE q # p /\ r # p
        BY <2>3, <3>3, <4>2, Children
      <4> QED
        BY <4>1, <4>2
    <3>4. ASSUME NEW q \in Procs, kern'[q].pc \in {"fork", "share"}, NEW v \in Pages, v >= kern'[q].va
          PROVE  pt'[kern'[q].child].pte[v] = None
      <4>1. CASE q = p
        BY <1>4, <1>6, <1>7, <1>8, <4>1
      <4>2. CASE q # p
        <5>1. Parent(q) /\ kern'[q] = kern[q]
          BY <2>3, <3>4, <4>2 DEF Parent
        <5> QED
          BY <1>8, <2>4, <3>4, <5>1 DEF IInv, SpacesInv, ParentInv
      <4> QED
        BY <4>1, <4>2
    <3> QED
      BY <3>1, <3>2, <3>3, <3>4 DEF ParentInv
  <2>6. CopyInv'
    BY ZenonT(60), <1>4, <1>5, <1>6, <1>8 DEF IInv, SpacesInv, CopyInv
  <2>7. SpaceInv'
    <3>1. NoPt' = NoPt
      BY DEF NoPt
    <3> QED
      BY ZenonT(60), <1>1, <1>4, <1>5, <1>6, <1>7, <1>8, <3>1 DEF IInv, SpacesInv, SpaceInv
  <2>8. TlbInv'
    <3>1. TlbInv /\ kern'[p].pc \in {"fork", "undo"}
      BY <1>4, <1>6 DEF IInv, SpacesInv
    <3>2. \A q \in Procs : q \notin {p, c} => tlb'[q] = tlb[q] /\ pt'[q] = pt[q] /\ kern'[q] = kern[q]
      BY <1>1, <1>6, <1>8
    <3>3. kern'[c].pc = "born"
      BY <1>3, <1>5, <1>6
    <3> QED
      BY <3>1, <3>2, <3>3, TlbStep
  <2> QED
    BY <2>1, <2>2, <2>5, <2>6, <2>7, <2>8 DEF SpacesInv
<1>11. Cardinality(Roots') = Cardinality(Roots) + 1
  <2>1. PICK S \in SUBSET Procs, T \in SUBSET Procs : S = Roots /\ T = Roots'
    BY DEF Roots
  <2>2. c \notin S /\ c \in T /\ \A q \in Procs : q # c => (q \in S <=> q \in T)
    BY <1>7, <1>8, <1>9, <2>1 DEF Roots
  <2> QED
    BY <2>1, <2>2, OneMore
<1>12. Tables' = Tables /\ Used' = Used
  BY <1>1, <1>7, <1>8, <1>9 DEF Tables, Used
<1>13. ntables' = Cardinality(Roots') + Cardinality(Tables') /\ ntables \in Int /\ ntables' \in Int
  BY <1>1, <1>3, <1>11, <1>12, CountedTables DEF FramesAccounted, TypeOK
<1>14. Free' >= 0
  <2>1. Free \in Int /\ Free >= 0 /\ Free # 0
    BY <1>1, <1>3, CountedTables DEF TypeOK, Free, FramesAccounted, OutOfMemory
  <2>2. ntables' <= ntables + 1 /\ 1 + 0 <= Free
    BY <1>1, <1>13, <2>1
  <2> QED
    BY <1>1, <1>3, <1>12, <1>13, <2>2, FreeLeft
<1>15. ASSUME NEW g \in Frames
       PROVE  References(g)' = refcount'[g]
  <2>a. \A q \in Procs : kern'[q].pc \in {"put", "share"} \/ kern[q].pc \in {"put", "share"}
                           => q \notin {p, c} /\ kern'[q] = kern[q] /\ pt'[q] = pt[q]
    BY <1>1, <1>4, <1>5, <1>6, <1>8
  <2>1. Putting(g)' = Putting(g) /\ Sharing(g)' = Sharing(g)
    BY <2>a DEF Putting, Sharing
  <2>2. Entries(g)' = Entries(g)
    BY <1>7, <1>8, <1>9 DEF Entries
  <2> QED
    BY <1>1, <1>3, <2>1, <2>2 DEF FramesAccounted, References
<1> QED
  BY <1>10, <1>13, <1>14, <1>15 DEF IInv, FramesAccounted

\* The next page that is present.
LEMMA NextPageIs ==
  ASSUME NEW c, NEW from \in Nat, NextPage(c, from) # {}
  PROVE  /\ Min(NextPage(c, from)) \in Pages /\ Min(NextPage(c, from)) >= from
         /\ pt[c].pte[Min(NextPage(c, from))] # None
<1>1. PICK S : S = NextPage(c, from)
  OBVIOUS
<1>2. S \in SUBSET Pages /\ \A v \in S : v >= from /\ pt[c].pte[v] # None
  BY <1>1 DEF NextPage, Mapped, Pages
<1>3. S \in SUBSET Nat
  BY <1>2, PagesAreNat
<1>4. Min(S) \in S
  BY <1>1, <1>3, LeastOf
<1> QED
  BY <1>1, <1>2, <1>4

\* The entry that both sides get.
LEMMA SharedEntry ==
  ASSUME NEW e \in PteType
  PROVE  Shared(e) \in PteType /\ Shared(e) # None /\ Shared(e).f = e.f
<1>1. e.f \in Frames /\ e.w \in BOOLEAN
  BY DEF PteType
<1>2. CASE e.w
  <2>1. Shared(e) = Pte(e.f, FALSE, TRUE)
    BY <1>2 DEF Shared
  <2> QED
    BY <1>1, <2>1, PteMade
<1>3. CASE ~e.w
  BY <1>3 DEF Shared
<1> QED
  BY <1>2, <1>3

\* The parent's entry becomes read-only and one more reference is counted.
LEMMA ForkGetStep ==
  ASSUME IInv, NEW p \in Procs, ForkGet(p)
  PROVE  IInv'
<1>1. /\ kern[p].pc = "fork" /\ NextPage(p, kern[p].va) # {}
      /\ kern \in [Procs -> KernType] /\ pt \in [Procs -> PtType] /\ TypeOK /\ FramesAccounted
      /\ UNCHANGED <<sc, ntables, tlb>>
  BY DEF ForkGet, IInv, SpacesInv, TypeOK
<1>2. PICK k0 \in KernType : k0 = kern[p] /\ k0.va \in Nat /\ k0.pc = "fork"
  BY <1>1, OwnTypes DEF KernType
<1>3. PICK v \in Pages : v = Min(NextPage(p, kern[p].va)) /\ v >= k0.va /\ pt[p].pte[v] # None
  BY <1>1, <1>2, NextPageIs
<1>4. Parent(p) /\ k0.child \in Procs \ {p}
  BY <1>1, <1>2, Children DEF Parent
<1>5. PICK e \in PteType : e = pt[p].pte[v]
  BY <1>3, OwnTypes
<1>6. PICK f \in Frames : f = e.f /\ f[1] = v
  BY <1>3, <1>5, OwnTypes DEF PteType
<1>7. PICK e1 \in PteType : e1 = Shared(e) /\ e1 # None /\ e1.f = f
  BY <1>6, SharedEntry
<1>8. /\ pt' = [pt EXCEPT ![p].pte[v] = Shared(@)]
      /\ refcount' = [refcount EXCEPT ![f] = @ + 1]
      /\ kern' = [kern EXCEPT ![p] = At("share", v, None, @.child)]
  BY <1>3, <1>5, <1>6 DEF ForkGet
<1>9. PICK nk \in KernType : /\ nk = At("share", v, None, k0.child)
                             /\ nk.pc = "share" /\ nk.va = v /\ nk.child = k0.child
  <2>1. /\ At("share", v, None, k0.child) \in KernType
        /\ At("share", v, None, k0.child).pc = "share" /\ At("share", v, None, k0.child).va = v
        /\ At("share", v, None, k0.child).child = k0.child
    BY <1>4, PagesAreNat DEF At, KernType
  <2> QED
    BY <2>1
<1>10. kern' \in [Procs -> KernType] /\ \A q \in Procs : kern'[q] = IF q = p THEN nk ELSE kern[q]
  BY <1>1, <1>2, <1>8, <1>9
<1>11. PICK x \in PtType : x = pt[p] /\ x.root
  BY <1>1, OwnTypes
<1>12. x.pte \in [Pages -> PteType \cup {None}]
  BY <1>11, OwnTypes
<1>13. PICK ne \in [Pages -> PteType \cup {None}] : ne = [x.pte EXCEPT ![v] = e1]
  BY <1>12
<1>14. PICK npt \in PtType : /\ npt = [x EXCEPT !.pte = ne]
                              /\ (npt.root <=> x.root) /\ npt.tables = x.tables /\ npt.pte = ne
  BY PtWithPte
<1>15. npt.root /\ npt.tables = pt[p].tables /\ npt.pte = ne
  BY <1>11, <1>14
<1>16. pt' = [pt EXCEPT ![p] = npt]
  BY <1>1, <1>5, <1>7, <1>8, <1>11, <1>13, <1>14
<1>17. pt' \in [Procs -> PtType] /\ \A q \in Procs : pt'[q] = IF q = p THEN npt ELSE pt[q]
  BY <1>1, <1>16
<1>18. \A u \in Pages : npt.pte[u] = IF u = v THEN e1 ELSE pt[p].pte[u]
  BY <1>11, <1>12, <1>13, <1>15
<1>19. \A q \in Procs, u \in Pages : /\ pt'[q].pte[u] = None <=> pt[q].pte[u] = None
                                     /\ pt'[q].pte[u] # None => pt'[q].pte[u].f = pt[q].pte[u].f
  BY <1>3, <1>5, <1>6, <1>7, <1>17, <1>18
<1>20. /\ refcount' \in [Frames -> Int]
       /\ \A g \in Frames : refcount'[g] = IF g = f THEN refcount[g] + 1 ELSE refcount[g]
  BY <1>8, OwnTypes
<1>21. \A q \in Procs : Parent(q)' <=> Parent(q)
  BY <1>2, <1>4, <1>9, <1>10 DEF Parent
<1>22. \A q \in Procs : kern'[q].child = kern[q].child
  BY <1>2, <1>9, <1>10
<1>23. SpacesInv'
  <2>1. TypeOK'
    BY <1>1, <1>10, <1>17, <1>20 DEF TypeOK
  <2>2. NamesInv'
    BY <1>19 DEF IInv, SpacesInv, NamesInv
  <2>3. ParentInv'
    <3>1. \A q \in Procs : kern'[q].pc = "destroy" => kern'[q].child \in Procs
      BY <1>9, <1>10 DEF IInv, SpacesInv, ParentInv
    <3>2. ASSUME NEW q \in Procs, Parent(q)'
          PROVE  kern'[q].child \in Procs \ {q} /\ kern'[kern'[q].child].pc = "born"
      BY <1>1, <1>10, <1>21, <1>22, <3>2, Children
    <3>3. ASSUME NEW q \in Procs, NEW r \in Procs, Parent(q)', Parent(r)', kern'[q].child = kern'[r].child
          PROVE  q = r
      BY <1>21, <1>22, <3>3, Children
    <3>4. ASSUME NEW q \in Procs, kern'[q].pc \in {"fork", "share"}, NEW u \in Pages, u >= kern'[q].va
          PROVE  pt'[kern'[q].child].pte[u] = None
      <4>1. kern[q].pc \in {"fork", "share"} /\ u >= kern[q].va
        <5>1. u \in Nat /\ v \in Nat
          BY PagesAreNat
        <5> QED
          BY <1>2, <1>3, <1>9, <1>10, <3>4, <5>1
      <4>2. kern[q].child \in Procs
        BY <4>1, Children DEF Parent
      <4> QED
        BY <1>19, <1>22, <4>1, <4>2 DEF IInv, SpacesInv, ParentInv
    <3> QED
      BY <3>1, <3>2, <3>3, <3>4 DEF ParentInv
  <2>4. CopyInv'
    BY <1>3, <1>9, <1>10, <1>17, <1>19 DEF IInv, SpacesInv, CopyInv
  <2>5. SpaceInv'
    <3>1. NoPt' = NoPt
      BY DEF NoPt
    <3> QED
      BY <1>1, <1>9, <1>10, <1>15, <1>17, <3>1 DEF IInv, SpacesInv, SpaceInv
  <2>6. TlbInv'
    <3>1. TlbInv /\ kern'[p].pc = "share"
      BY <1>9, <1>10 DEF IInv, SpacesInv
    <3>2. \A q \in Procs : q # p => tlb'[q] = tlb[q] /\ pt'[q] = pt[q] /\ kern'[q] = kern[q]
      BY <1>1, <1>10, <1>17
    <3> QED
      BY <3>1, <3>2, TlbStep
  <2> QED
    BY <2>1, <2>2, <2>3, <2>4, <2>5, <2>6 DEF SpacesInv
<1>24. Roots' = Roots /\ Tables' = Tables
  BY <1>11, <1>15, <1>17 DEF Roots, Tables
<1>25. Used' \subseteq Used
  <2>1. <<p, v>> \in Entries(f)
    BY <1>3, <1>5, <1>6 DEF Entries
  <2>2. f \in Used
    BY <1>1, <2>1, UsersCounted DEF Used
  <2> QED
    BY <1>20, <2>2 DEF Used
<1>26. Free' >= 0
  <2>1. ntables \in Int /\ Free \in Int /\ Free >= 0
    BY <1>1, CountedTables DEF TypeOK, Free, FramesAccounted
  <2>2. ntables' \in Int /\ ntables' <= ntables + 0 /\ 0 + 0 <= Free
    BY <1>1, <2>1
  <2> QED
    BY <1>1, <1>25, <2>2, FreeLeft
<1>27. ASSUME NEW g \in Frames
       PROVE  References(g)' = refcount'[g]
  <2>1. Putting(g)' = Putting(g)
    BY <1>1, <1>9, <1>10 DEF Putting
  <2>2. Entries(g)' = Entries(g)
    BY <1>19 DEF Entries
  <2>3. \A q \in Procs : q # p => kern'[q] = kern[q] /\ pt'[q] = pt[q]
    BY <1>10, <1>17
  <2>4. kern[p].pc # "share" /\ kern'[p].pc = "share" /\ pt'[p].pte[kern'[p].va].f = f
    BY <1>1, <1>7, <1>9, <1>10, <1>17, <1>18
  <2>5. g # f => Sharing(g)' = Sharing(g)
    BY <2>3, <2>4 DEF Sharing
  <2>6. Cardinality(Sharing(f)') = Cardinality(Sharing(f)) + 1
    <3>1. PICK S \in SUBSET Procs, T \in SUBSET Procs : S = Sharing(f) /\ T = Sharing(f)'
      BY DEF Sharing
    <3>2. p \notin S /\ p \in T /\ \A q \in Procs : q # p => (q \in S <=> q \in T)
      BY <2>3, <2>4, <3>1 DEF Sharing
    <3> QED
      BY <3>1, <3>2, OneMore
  <2>7. refcount[g] = Cardinality(Entries(g)) + Cardinality(Putting(g)) + Cardinality(Sharing(g))
    BY <1>1 DEF FramesAccounted, References
  <2> QED
    BY <1>20, <2>1, <2>2, <2>5, <2>6, <2>7, CountsNat DEF References
<1> QED
  BY <1>1, <1>23, <1>24, <1>26, <1>27 DEF IInv, FramesAccounted

\* There was no memory for the child's table: the reference is given back.
FailedShape(p) ==
    /\ kern[p].pc = "share" /\ UNCHANGED <<sc, pt, ntables, tlb>>
    /\ refcount' = ForkFailed(pt[p].pte[kern[p].va].f)
    /\ kern' = [kern EXCEPT ![p].pc = "undo"]

LEMMA ForkFailedStep ==
  ASSUME IInv, NEW p \in Procs, FailedShape(p)
  PROVE  IInv'
<1>1. /\ kern \in [Procs -> KernType] /\ pt \in [Procs -> PtType] /\ TypeOK /\ FramesAccounted
      /\ UNCHANGED <<sc, ntables, tlb, pt>> /\ kern[p].pc = "share"
  BY DEF IInv, SpacesInv, TypeOK, FailedShape
<1>2. PICK v \in Pages : v = kern[p].va /\ pt[p].pte[v] # None
  BY <1>1 DEF IInv, SpacesInv, CopyInv
<1>3. PICK e \in PteType : e = pt[p].pte[v]
  BY <1>2, OwnTypes
<1>4. PICK f \in Frames : f = e.f
  BY <1>3 DEF PteType
<1>5. PICK nk : nk = [kern[p] EXCEPT !.pc = "undo"]
  OBVIOUS
<1>6. nk \in KernType /\ nk.pc = "undo" /\ nk.child = kern[p].child
  BY <1>5, OwnTypes DEF KernType
<1>7. kern' \in [Procs -> KernType] /\ \A q \in Procs : kern'[q] = IF q = p THEN nk ELSE kern[q]
  BY <1>1, <1>5, <1>6 DEF FailedShape
<1>8. /\ refcount' \in [Frames -> Int]
      /\ \A g \in Frames : refcount'[g] = IF g = f THEN refcount[g] - 1 ELSE refcount[g]
  <2>1. refcount' = [refcount EXCEPT ![f] = @ - 1]
    BY <1>2, <1>3, <1>4 DEF ForkFailed, FailedShape
  <2>2. refcount \in [Frames -> Int]
    BY <1>1 DEF TypeOK
  <2> QED
    BY <2>1, <2>2
<1>9. \A q \in Procs : (Parent(q)' <=> Parent(q)) /\ kern'[q].child = kern[q].child
  BY <1>1, <1>6, <1>7 DEF Parent
<1>10. SpacesInv'
  <2>1. TypeOK'
    BY <1>1, <1>7, <1>8 DEF TypeOK
  <2>2. NamesInv'
    BY <1>1 DEF IInv, SpacesInv, NamesInv
  <2>3. ParentInv'
    <3>1. \A q \in Procs : kern'[q].pc = "destroy" => kern'[q].child \in Procs
      BY <1>6, <1>7 DEF IInv, SpacesInv, ParentInv
    <3>2. ASSUME NEW q \in Procs, Parent(q)'
          PROVE  kern'[q].child \in Procs \ {q} /\ kern'[kern'[q].child].pc = "born"
      BY <1>1, <1>7, <1>9, <3>2, Children
    <3>3. ASSUME NEW q \in Procs, NEW r \in Procs, Parent(q)', Parent(r)', kern'[q].child = kern'[r].child
          PROVE  q = r
      BY <1>9, <3>3, Children
    <3>4. ASSUME NEW q \in Procs, kern'[q].pc \in {"fork", "share"}, NEW u \in Pages, u >= kern'[q].va
          PROVE  pt'[kern'[q].child].pte[u] = None
      BY <1>1, <1>6, <1>7, <3>4 DEF IInv, SpacesInv, ParentInv
    <3> QED
      BY <3>1, <3>2, <3>3, <3>4 DEF ParentInv
  <2>4. CopyInv'
    BY <1>1, <1>6, <1>7 DEF IInv, SpacesInv, CopyInv
  <2>5. SpaceInv'
    <3>1. NoPt' = NoPt
      BY DEF NoPt
    <3> QED
      BY <1>1, <1>6, <1>7, <3>1 DEF IInv, SpacesInv, SpaceInv
  <2>6. TlbInv'
    <3>1. \A q \in Procs : q # p => kern'[q] = kern[q]
      BY <1>7
    <3>2. TlbInv /\ kern'[p].pc = "undo"
      BY <1>6, <1>7 DEF IInv, SpacesInv
    <3> QED
      BY <1>1, <3>1, <3>2, TlbStep
  <2> QED
    BY <2>1, <2>2, <2>3, <2>4, <2>5, <2>6 DEF SpacesInv
<1>11. Roots' = Roots /\ Tables' = Tables
  BY <1>1 DEF Roots, Tables
<1>12. Used' \subseteq Used
  <2>1. <<p, v>> \in Entries(f)
    BY <1>2, <1>3, <1>4 DEF Entries
  <2>2. f \in Used
    BY <1>1, <2>1, UsersCounted DEF Used
  <2> QED
    BY <1>8, <2>2 DEF Used
<1>13. Free' >= 0
  <2>1. ntables \in Int /\ Free \in Int /\ Free >= 0
    BY <1>1, CountedTables DEF TypeOK, Free, FramesAccounted
  <2>2. ntables' \in Int /\ ntables' <= ntables + 0 /\ 0 + 0 <= Free
    BY <1>1, <2>1
  <2> QED
    BY <1>1, <1>12, <2>2, FreeLeft
<1>14. ASSUME NEW g \in Frames
       PROVE  References(g)' = refcount'[g]
  <2>1. Putting(g)' = Putting(g) /\ Entries(g)' = Entries(g)
    BY <1>1, <1>6, <1>7 DEF Putting, Entries
  <2>2. g # f => Sharing(g)' = Sharing(g)
    BY <1>1, <1>2, <1>3, <1>4, <1>6, <1>7 DEF Sharing
  <2>3. Cardinality(Sharing(f)') = Cardinality(Sharing(f)) - 1
    <3>1. PICK S \in SUBSET Procs, T \in SUBSET Procs : S = Sharing(f)' /\ T = Sharing(f)
      BY DEF Sharing
    <3>2. p \notin S /\ p \in T /\ \A q \in Procs : q # p => (q \in S <=> q \in T)
      BY <1>1, <1>2, <1>3, <1>4, <1>6, <1>7, <3>1 DEF Sharing
    <3> QED
      BY <3>1, <3>2, OneMore
  <2>4. refcount[g] = Cardinality(Entries(g)) + Cardinality(Putting(g)) + Cardinality(Sharing(g))
    BY <1>1 DEF FramesAccounted, References
  <2>5. PICK i \in Nat, j \in Nat, k \in Nat :
          i = Cardinality(Entries(g)) /\ j = Cardinality(Putting(g)) /\ k = Cardinality(Sharing(g))
    BY CountsNat
  <2>6. refcount[g] = i + j + k
    BY <2>4, <2>5
  <2>7. References(g)' = i + j + Cardinality(Sharing(g)')
    BY <2>1, <2>5 DEF References
  <2>8. CASE g = f
    <3>1. Cardinality(Sharing(g)') = k - 1
      BY <2>3, <2>5, <2>8
    <3>2. refcount'[g] = i + j + k - 1
      BY <1>8, <2>6, <2>8
    <3> QED
      BY <2>7, <3>1, <3>2
  <2>9. CASE g # f
    BY <1>8, <2>2, <2>5, <2>6, <2>7, <2>9
  <2> QED
    BY <2>8, <2>9
<1> QED
  BY <1>1, <1>10, <1>11, <1>13, <1>14 DEF IInv, FramesAccounted

\* The child gets the entry.
SharedShape(p, v, c, need) ==
    /\ kern[p].pc = "share" /\ UNCHANGED <<sc, refcount, tlb>>
    /\ v = kern[p].va /\ c = kern[p].child
    /\ need = Cardinality({RegionOf(v)} \ pt[c].tables) /\ Free >= need
    /\ pt' = [pt EXCEPT ![c].pte[v] = pt[p].pte[v], ![c].tables = @ \cup {RegionOf(v)}]
    /\ ntables' = ntables + need
    /\ kern' = [kern EXCEPT ![p].pc = "fork", ![p].va = v + 1]

LEMMA ForkSharedStep ==
  ASSUME IInv, NEW p \in Procs, NEW v \in Pages, NEW c \in Procs, NEW need,
         SharedShape(p, v, c, need)
  PROVE  IInv'
<1>1. /\ kern \in [Procs -> KernType] /\ pt \in [Procs -> PtType] /\ TypeOK /\ FramesAccounted
  BY DEF IInv, SpacesInv, TypeOK
<1>a. /\ kern[p].pc = "share" /\ UNCHANGED <<sc, refcount, tlb>> /\ v = kern[p].va /\ c = kern[p].child
      /\ need = Cardinality({RegionOf(v)} \ pt[c].tables) /\ Free >= need /\ ntables' = ntables + need
  BY DEF SharedShape
<1>2. PICK r \in Regions : r = RegionOf(v)
  BY RegionsOfPages
<1>3. PICK e \in PteType : e = pt[p].pte[v] /\ e # None /\ e.f[1] = v
  <2>1. pt[p].pte[v] # None
    BY <1>a DEF IInv, SpacesInv, CopyInv
  <2>2. pt[p].pte[v] \in PteType
    BY <2>1, OwnTypes
  <2>3. pt[p].pte[v].f[1] = v
    BY <2>1 DEF IInv, SpacesInv, NamesInv
  <2> QED
    BY <2>1, <2>2, <2>3
<1>4. PICK f \in Frames : f = e.f
  BY <1>3 DEF PteType
<1>5. Parent(p) /\ c # p /\ kern[c].pc = "born" /\ pt[c].root
  BY <1>a, Children, OwnTypes DEF Parent
<1>6. pt[c].pte[v] = None
  <2>1. v >= kern[p].va
    BY <1>a, PagesAreNat
  <2> QED
    BY <1>a, <2>1 DEF IInv, SpacesInv, ParentInv
<1>7. PICK nk \in KernType : /\ nk.pc = "fork" /\ nk.va = v + 1 /\ nk.child = c
                             /\ kern' = [kern EXCEPT ![p] = nk]
  <2>1. PICK k0 \in KernType : k0 = kern[p] /\ k0.child = c
    BY <1>a, OwnTypes
  <2>2. PICK k1 : k1 = [k0 EXCEPT !.pc = "fork"]
    OBVIOUS
  <2>3. k1 \in KernType /\ k1.pc = "fork" /\ k1.child = c
    BY <2>1, <2>2 DEF KernType
  <2>4. PICK k2 : k2 = [k1 EXCEPT !.va = v + 1]
    OBVIOUS
  <2>5. k2 \in KernType /\ k2.pc = "fork" /\ k2.child = c /\ k2.va = v + 1
    BY <2>3, <2>4, PagesAreNat DEF KernType
  <2>6. PICK a \in [Procs -> KernType] : a = [kern EXCEPT ![p] = k1]
    BY <1>1, <2>3
  <2>7. [kern EXCEPT ![p].pc = "fork"] = a
    BY <1>1, <2>1, <2>2, <2>6
  <2>8. kern' = [a EXCEPT ![p].va = v + 1]
    BY <2>7 DEF SharedShape
  <2>9. kern' = [a EXCEPT ![p] = k2]
    BY <1>1, <2>4, <2>6, <2>8
  <2>10. kern' = [kern EXCEPT ![p] = k2]
    BY <1>1, <2>6, <2>9
  <2> QED
    BY <2>5, <2>10
<1>8. kern' \in [Procs -> KernType] /\ \A q \in Procs : kern'[q] = IF q = p THEN nk ELSE kern[q]
  BY <1>1, <1>7
<1>9. PICK x \in PtType : x = pt[c] /\ x.root
  BY <1>5, OwnTypes
<1>10. x.pte \in [Pages -> PteType \cup {None}] /\ x.tables \in SUBSET Regions
  BY <1>9, OwnTypes
<1>11. PICK ne \in [Pages -> PteType \cup {None}] : ne = [x.pte EXCEPT ![v] = e]
  BY <1>10
<1>12. PICK y \in PtType : /\ y = [x EXCEPT !.pte = ne]
                            /\ (y.root <=> x.root) /\ y.tables = x.tables /\ y.pte = ne
  BY PtWithPte
<1>13. PICK T \in SUBSET Regions : T = x.tables \cup {r}
  BY <1>10
<1>14. PICK npt \in PtType : /\ npt = [y EXCEPT !.tables = T]
                              /\ (npt.root <=> y.root) /\ npt.tables = T /\ npt.pte = y.pte
  BY PtWithTables
<1>15. npt.root /\ npt.tables = pt[c].tables \cup {r} /\ npt.pte = ne
  BY <1>9, <1>12, <1>13, <1>14
<1>16. pt' = [pt EXCEPT ![c] = npt]
  <2>1. PICK p1 \in [Procs -> PtType] : p1 = [pt EXCEPT ![c] = y]
    BY <1>1
  <2>2. [pt EXCEPT ![c].pte[v] = e] = p1
    BY <1>1, <1>9, <1>11, <1>12, <2>1
  <2>a. pt' = [pt EXCEPT ![c].pte[v] = e, ![c].tables = @ \cup {r}]
    BY <1>2, <1>3, Zenon DEF SharedShape
  <2>3. pt' = [p1 EXCEPT ![c].tables = @ \cup {r}]
    BY ZenonT(60), <2>a, <2>2
  <2>4. p1[c] = y /\ y.tables = x.tables
    BY <1>1, <1>12, <2>1
  <2>5. pt' = [p1 EXCEPT ![c] = npt]
    BY <1>13, <1>14, <2>3, <2>4
  <2> QED
    BY <1>1, <2>1, <2>5
<1>17. pt' \in [Procs -> PtType] /\ \A q \in Procs : pt'[q] = IF q = c THEN npt ELSE pt[q]
  BY <1>1, <1>16
<1>18. \A u \in Pages : npt.pte[u] = IF u = v THEN e ELSE pt[c].pte[u]
  BY <1>9, <1>10, <1>11, <1>15
<1>19. Tables' = Tables \cup {<<c, r>>} /\ Roots' = Roots
  BY <1>9, <1>15, <1>17, TableAdded
<1>20. need \in {0, 1} /\ ntables' = Cardinality(Roots') + Cardinality(Tables')
  BY <1>1, <1>2, <1>a, <1>19, TablesAdded
<1>21. \A q \in Procs : (Parent(q)' <=> Parent(q)) /\ kern'[q].child = kern[q].child
  BY <1>5, <1>7, <1>8, <1>a DEF Parent
<1>22. SpacesInv'
  <2>1. TypeOK'
    BY <1>1, <1>8, <1>17, <1>20, <1>a, CountedTables DEF TypeOK
  <2>2. NamesInv'
    BY <1>3, <1>17, <1>18 DEF IInv, SpacesInv, NamesInv
  <2>3. ParentInv'
    <3>1. \A q \in Procs : kern'[q].pc = "destroy" => kern'[q].child \in Procs
      BY <1>7, <1>8 DEF IInv, SpacesInv, ParentInv
    <3>2. ASSUME NEW q \in Procs, Parent(q)'
          PROVE  kern'[q].child \in Procs \ {q} /\ kern'[kern'[q].child].pc = "born"
      BY <1>8, <1>21, <1>a, <3>2, Children
    <3>3. ASSUME NEW q \in Procs, NEW s \in Procs, Parent(q)', Parent(s)', kern'[q].child = kern'[s].child
          PROVE  q = s
      BY <1>21, <3>3, Children
    <3>4. ASSUME NEW q \in Procs, kern'[q].pc \in {"fork", "share"}, NEW u \in Pages, u >= kern'[q].va
          PROVE  pt'[kern'[q].child].pte[u] = None
      <4>1. CASE q = p
        <5>1. u \in Nat /\ v \in Nat
          BY PagesAreNat
        <5>2. u >= v /\ u # v
          BY <1>7, <1>8, <3>4, <4>1, <5>1
        <5>3. pt[c].pte[u] = None
          BY <1>a, <5>2 DEF IInv, SpacesInv, ParentInv
        <5> QED
          BY <1>7, <1>8, <1>17, <1>18, <4>1, <5>2, <5>3
      <4>2. CASE q # p
        <5>1. kern'[q] = kern[q] /\ kern[q].pc \in {"fork", "share"} /\ Parent(q)
          BY <1>8, <3>4, <4>2 DEF Parent
        <5>2. kern[q].child \in Procs \ {c}
          BY <1>5, <1>a, <4>2, <5>1, Children
        <5> QED
          BY <1>17, <3>4, <5>1, <5>2 DEF IInv, SpacesInv, ParentInv
      <4> QED
        BY <4>1, <4>2
    <3> QED
      BY <3>1, <3>2, <3>3, <3>4 DEF ParentInv
  <2>4. CopyInv'
    BY <1>5, <1>7, <1>8, <1>17 DEF IInv, SpacesInv, CopyInv
  <2>5. SpaceInv'
    <3>1. NoPt' = NoPt
      BY DEF NoPt
    <3> QED
      BY <1>5, <1>7, <1>8, <1>15, <1>17, <1>a, <3>1 DEF IInv, SpacesInv, SpaceInv
  <2>6. TlbInv'
    <3>1. \A q \in Procs : q \notin {p, c} => tlb'[q] = tlb[q] /\ pt'[q] = pt[q] /\ kern'[q] = kern[q]
      BY <1>8, <1>17, <1>a
    <3>2. TlbInv /\ kern'[c].pc = "born" /\ kern'[p].pc = "fork"
      BY <1>5, <1>7, <1>8 DEF IInv, SpacesInv
    <3> QED
      BY <3>1, <3>2, TlbStep
  <2> QED
    BY <2>1, <2>2, <2>3, <2>4, <2>5, <2>6 DEF SpacesInv
<1>23. Used' = Used
  BY <1>a DEF Used
<1>24. Free' >= 0
  <2>1. ntables \in Int /\ Free \in Int /\ need \in Int
    BY <1>1, <1>20, CountedTables DEF TypeOK, Free
  <2>2. ntables' \in Int /\ ntables' <= ntables + need /\ need + 0 <= Free
    BY <1>a, <2>1
  <2> QED
    BY <1>1, <1>23, <1>a, <2>1, <2>2, FreeLeft
<1>25. ASSUME NEW g \in Frames
       PROVE  References(g)' = refcount'[g]
  <2>1. Putting(g)' = Putting(g)
    BY <1>7, <1>8, <1>a DEF Putting
  <2>2. \A q \in Procs : q # p /\ (kern'[q].pc = "share" \/ kern[q].pc = "share")
                            => kern'[q] = kern[q] /\ pt'[q] = pt[q]
    BY <1>5, <1>8, <1>17
  <2>3. kern'[p].pc # "share" /\ pt[p].pte[kern[p].va].f = f
    BY <1>3, <1>4, <1>7, <1>8, <1>a
  <2>4. g # f => Sharing(g)' = Sharing(g)
    BY <2>2, <2>3 DEF Sharing
  <2>5. Cardinality(Sharing(f)') = Cardinality(Sharing(f)) - 1
    <3>1. PICK S \in SUBSET Procs, T2 \in SUBSET Procs : S = Sharing(f)' /\ T2 = Sharing(f)
      BY DEF Sharing
    <3>2. p \notin S /\ p \in T2 /\ \A q \in Procs : q # p => (q \in S <=> q \in T2)
      BY <1>a, <2>2, <2>3, <3>1 DEF Sharing
    <3> QED
      BY <3>1, <3>2, OneMore
  <2>6. /\ g # f => Entries(g)' = Entries(g)
        /\ Cardinality(Entries(f)') = Cardinality(Entries(f)) + 1
    <3>1. pt'[c].pte[v] # None /\ pt'[c].pte[v].f = f
      BY <1>3, <1>4, <1>17, <1>18
    <3>2. \A q \in Procs, u \in Pages : ~(q = c /\ u = v) => pt'[q].pte[u] = pt[q].pte[u]
      BY <1>17, <1>18
    <3> QED
      BY <1>6, <3>1, <3>2, EntryAdded
  <2>7. refcount[g] = Cardinality(Entries(g)) + Cardinality(Putting(g)) + Cardinality(Sharing(g))
    BY <1>1 DEF FramesAccounted, References
  <2> QED
    BY <1>a, <2>1, <2>4, <2>5, <2>6, <2>7, CountsNat DEF References
<1> QED
  BY <1>20, <1>22, <1>24, <1>25 DEF IInv, FramesAccounted

LEMMA ForkShareStep ==
  ASSUME IInv, NEW p \in Procs, ForkShare(p)
  PROVE  IInv'
<1>1. PICK v \in Pages : v = kern[p].va
  BY DEF ForkShare, IInv, SpacesInv, CopyInv
<1>2. PICK c \in Procs : c = kern[p].child
  BY Children DEF ForkShare, Parent
<1>3. PICK need : need = Cardinality({RegionOf(v)} \ pt[c].tables)
  OBVIOUS
<1>4. /\ kern[p].pc = "share" /\ UNCHANGED <<sc, tlb>>
      /\ \/ /\ refcount' = ForkFailed(pt[p].pte[kern[p].va].f)
            /\ kern' = [kern EXCEPT ![p].pc = "undo"] /\ UNCHANGED <<pt, ntables>>
         \/ /\ Free >= need
            /\ pt' = [pt EXCEPT ![c].pte[v] = pt[p].pte[v], ![c].tables = @ \cup {RegionOf(v)}]
            /\ ntables' = ntables + need
            /\ kern' = [kern EXCEPT ![p].pc = "fork", ![p].va = v + 1]
            /\ refcount' = refcount
  BY <1>1, <1>2, <1>3, Zenon DEF ForkShare
<1> QED
  <2>1. CASE Free >= need /\ refcount' = refcount /\ SharedShape(p, v, c, need)
    BY <2>1, ForkSharedStep
  <2>2. CASE FailedShape(p)
    BY <2>2, ForkFailedStep
  <2> QED
    BY <1>1, <1>2, <1>3, <1>4, <2>1, <2>2, Zenon DEF SharedShape, FailedShape

\* The end of a fork, and the beginning of the end of one that failed.
LEMMA ForkEndStep ==
  ASSUME IInv, NEW p \in Procs, ForkEnd(p)
  PROVE  IInv'
<1>1. /\ kern \in [Procs -> KernType] /\ pt \in [Procs -> PtType] /\ TypeOK /\ FramesAccounted
      /\ tlb \in [Procs -> TlbType \cup {None}]
  BY DEF IInv, SpacesInv, TypeOK
<1>2. kern[p].pc \in {"fork", "undo"} /\ Parent(p) /\ UNCHANGED <<sc, pt, refcount, ntables>>
  BY DEF ForkEnd, Parent
<1>3. PICK c \in Procs : c = kern[p].child /\ c # p /\ kern[c].pc = "born"
  BY <1>2, Children
<1>4. /\ tlb' = [tlb EXCEPT ![p] = None]
      /\ \/ kern' = [kern EXCEPT ![p] = InUser, ![c] = InUser]
         \/ kern' = [kern EXCEPT ![p] = At("destroy", UserStart, None, c)]
  BY <1>3 DEF ForkEnd, Reloaded
<1>5. tlb' \in [Procs -> TlbType \cup {None}] /\ \A q \in Procs : tlb'[q] = IF q = p THEN None ELSE tlb[q]
  BY <1>1, <1>4
<1>6. PICK kp \in KernType, kc \in KernType :
         /\ kern' \in [Procs -> KernType]
         /\ \A q \in Procs : kern'[q] = IF q = p THEN kp ELSE IF q = c THEN kc ELSE kern[q]
         /\ \/ kp.pc = "user" /\ kc.pc = "user"
            \/ kp.pc = "destroy" /\ kp.child = c /\ kc.pc = "born"
  <2>1. CASE kern' = [kern EXCEPT ![p] = InUser, ![c] = InUser]
    <3>1. PICK k \in KernType : k = InUser /\ k.pc = "user"
      BY KernMade
    <3>2. kern' \in [Procs -> KernType] /\ \A q \in Procs : kern'[q] = IF q = p THEN k ELSE IF q = c THEN k ELSE kern[q]
      BY <1>1, <2>1, <3>1
    <3> QED
      BY <3>1, <3>2
  <2>2. CASE kern' = [kern EXCEPT ![p] = At("destroy", UserStart, None, c)]
    <3>1. PICK k \in KernType : k = At("destroy", UserStart, None, c) /\ k.pc = "destroy" /\ k.child = c
      BY KernMade
    <3>2. PICK k2 \in KernType : k2 = kern[c] /\ k2.pc = "born"
      BY <1>3, OwnTypes
    <3>3. kern' \in [Procs -> KernType] /\ \A q \in Procs : kern'[q] = IF q = p THEN k ELSE IF q = c THEN k2 ELSE kern[q]
      BY <1>1, <2>2, <3>1, <3>2
    <3> QED
      BY <3>1, <3>2, <3>3
  <2> QED
    BY <1>4, <2>1, <2>2
<1>7. SpacesInv'
  <2>1. TypeOK'
    BY <1>1, <1>2, <1>5, <1>6 DEF TypeOK
  <2>2. NamesInv'
    BY <1>2 DEF IInv, SpacesInv, NamesInv
  <2>3. \A q \in Procs : Parent(q)' => /\ Parent(q) /\ kern'[q].child = kern[q].child
                                       /\ q # p => kern'[q] = kern[q]
                                       /\ q = p => kern'[c].pc = "born"
    BY <1>2, <1>3, <1>6 DEF Parent
  <2>4. ParentInv'
    <3>1. \A q \in Procs : kern'[q].pc = "destroy" => kern'[q].child \in Procs
      BY <1>3, <1>6 DEF IInv, SpacesInv, ParentInv
    <3>2. ASSUME NEW q \in Procs, Parent(q)'
          PROVE  kern'[q].child \in Procs \ {q} /\ kern'[kern'[q].child].pc = "born"
      <4>1. CASE q = p
        BY <1>3, <2>3, <3>2, <4>1
      <4>2. CASE q # p
        <5>1. /\ kern'[q].child = kern[q].child /\ kern[q].child \in Procs \ {p, c, q}
              /\ kern[kern[q].child].pc = "born"
          BY <1>2, <1>3, <2>3, <3>2, <4>2, Children
        <5> QED
          BY <1>6, <5>1
      <4> QED
        BY <4>1, <4>2
    <3>3. ASSUME NEW q \in Procs, NEW r \in Procs, Parent(q)', Parent(r)', kern'[q].child = kern'[r].child
          PROVE  q = r
      BY <2>3, <3>3, Children
    <3>4. ASSUME NEW q \in Procs, kern'[q].pc \in {"fork", "share"}, NEW u \in Pages, u >= kern'[q].va
          PROVE  pt'[kern'[q].child].pte[u] = None
      <4>1. kern'[q] = kern[q]
        BY <1>6, <3>4
      <4> QED
        BY <1>2, <3>4, <4>1 DEF IInv, SpacesInv, ParentInv
    <3> QED
      BY <3>1, <3>2, <3>3, <3>4 DEF ParentInv
  <2>5. CopyInv'
    BY <1>2, <1>6 DEF IInv, SpacesInv, CopyInv
  <2>6. SpaceInv'
    <3>1. NoPt' = NoPt
      BY DEF NoPt
    <3> QED
      BY <1>2, <1>3, <1>5, <1>6, <3>1 DEF IInv, SpacesInv, SpaceInv
  <2>7. TlbInv'
    <3>1. TlbInv /\ tlb'[p] = None /\ tlb'[c] = None
      BY <1>3, <1>5 DEF IInv, SpacesInv, SpaceInv
    <3>2. \A q \in Procs : q \notin {p, c} => tlb'[q] = tlb[q] /\ pt'[q] = pt[q] /\ kern'[q] = kern[q]
      BY <1>2, <1>5, <1>6
    <3> QED
      BY <3>1, <3>2, TlbStep
  <2> QED
    BY <2>1, <2>2, <2>4, <2>5, <2>6, <2>7 DEF SpacesInv
<1>8. FramesAccounted'
  <2>1. \A f \in Frames : Putting(f)' = Putting(f) /\ Sharing(f)' = Sharing(f)
    <3>1. \A q \in Procs : kern'[q].pc \in {"put", "share"} \/ kern[q].pc \in {"put", "share"}
                             => kern'[q] = kern[q]
      BY <1>2, <1>3, <1>6
    <3> QED
      BY <1>2, <3>1 DEF Putting, Sharing
  <2> QED
    BY <1>1, <1>2, <2>1, CountsKept
<1> QED
  BY <1>7, <1>8 DEF IInv

-----------------------------------------------------------------------------
(* The end of an address space.                                             *)

\* Who is taken apart is the process itself or its child that is not born.
LEMMA Destroyed ==
  ASSUME IInv, NEW p \in Procs, kern[p].pc = "destroy"
  PROVE  /\ kern[p].child \in Procs /\ kern[kern[p].child].pc \in {"destroy", "born"}
         /\ pt[kern[p].child].root
         /\ kern[p].child # p => kern[kern[p].child].pc = "born" /\ tlb[p] = None
         /\ \A q \in Procs : Parent(q) /\ kern[q].child = kern[p].child => q = p /\ kern[p].child # p
<1>1. PICK c \in Procs : c = kern[p].child
  BY DEF IInv, SpacesInv, ParentInv
<1>2. CASE c = p
  <2>1. pt[c].root
    BY <1>2, OwnTypes
  <2>2. ~Parent(p)
    BY <1>1, <1>2 DEF Parent
  <2> QED
    BY <1>1, <1>2, <2>1, <2>2, Children
<1>3. CASE c # p
  <2>1. Parent(p) /\ kern[c].pc = "born"
    BY <1>1, <1>3, Children DEF Parent
  <2>2. pt[c].root
    BY <2>1, OwnTypes
  <2>3. tlb[p] = None
    BY <1>1, <1>3 DEF IInv, SpacesInv, TlbInv
  <2> QED
    BY <1>1, <1>3, <2>1, <2>2, <2>3, Children
<1> QED
  BY <1>2, <1>3

\* One page after the other ...
LEMMA DestroyPageStep ==
  ASSUME IInv, NEW p \in Procs, DestroyPage(p)
  PROVE  IInv'
<1>1. /\ kern \in [Procs -> KernType] /\ pt \in [Procs -> PtType] /\ TypeOK /\ FramesAccounted
      /\ kern[p].pc = "destroy" /\ UNCHANGED <<sc, ntables, tlb, kern>>
      /\ NextPage(kern[p].child, UserStart) # {}
  BY DEF DestroyPage, IInv, SpacesInv, TypeOK
<1>2. PICK c \in Procs : c = kern[p].child /\ kern[c].pc \in {"destroy", "born"} /\ pt[c].root
  BY <1>1, Destroyed
<1>3. PICK v \in Pages : v = Min(NextPage(c, UserStart)) /\ pt[c].pte[v] # None
  BY <1>1, <1>2, NextPageIs
<1>4. PICK e \in PteType : e = pt[c].pte[v]
  BY <1>3, OwnTypes
<1>5. PICK f \in Frames : f = e.f
  BY <1>4 DEF PteType
<1>6. pt' = [pt EXCEPT ![c].pte[v] = None] /\ refcount' = [refcount EXCEPT ![f] = @ - 1]
  BY <1>2, <1>3, <1>4, <1>5 DEF DestroyPage
<1>7. PICK x \in PtType : x = pt[c] /\ x.root
  BY <1>2, OwnTypes
<1>8. x.pte \in [Pages -> PteType \cup {None}]
  BY <1>7, OwnTypes
<1>9. PICK ne \in [Pages -> PteType \cup {None}] : ne = [x.pte EXCEPT ![v] = None]
  BY <1>8
<1>10. PICK npt \in PtType : /\ npt = [x EXCEPT !.pte = ne]
                              /\ (npt.root <=> x.root) /\ npt.tables = x.tables /\ npt.pte = ne
  BY PtWithPte
<1>11. npt.root /\ npt.tables = pt[c].tables /\ npt.pte = ne
  BY <1>7, <1>10
<1>12. pt' = [pt EXCEPT ![c] = npt]
  BY <1>1, <1>6, <1>7, <1>9, <1>10
<1>13. pt' \in [Procs -> PtType] /\ \A q \in Procs : pt'[q] = IF q = c THEN npt ELSE pt[q]
  BY <1>1, <1>12
<1>14. \A u \in Pages : npt.pte[u] = IF u = v THEN None ELSE pt[c].pte[u]
  BY <1>7, <1>8, <1>9, <1>11
<1>15. \A q \in Procs, u \in Pages :
          /\ ~(q = c /\ u = v) => pt'[q].pte[u] = pt[q].pte[u]
          /\ q = c /\ u = v => pt'[q].pte[u] = None
  BY <1>13, <1>14
<1>16. /\ refcount' \in [Frames -> Int]
       /\ \A g \in Frames : refcount'[g] = IF g = f THEN refcount[g] - 1 ELSE refcount[g]
  BY <1>6, OwnTypes
<1>17. SpacesInv'
  <2>1. TypeOK'
    BY <1>1, <1>13, <1>16 DEF TypeOK
  <2>2. NamesInv'
    BY <1>15 DEF IInv, SpacesInv, NamesInv
  <2>3. ParentInv'
    <3>1. \A q \in Procs : Parent(q)' <=> Parent(q)
      BY <1>1 DEF Parent
    <3>2. ASSUME NEW q \in Procs, kern[q].pc \in {"fork", "share"}, NEW u \in Pages, u >= kern[q].va
          PROVE  pt'[kern[q].child].pte[u] = None
      <4>1. kern[q].child \in Procs /\ pt[kern[q].child].pte[u] = None
        BY <3>2, Children DEF IInv, SpacesInv, ParentInv, Parent
      <4> QED
        BY <1>15, <4>1
    <3> QED
      BY <1>1, <3>1, <3>2 DEF IInv, SpacesInv, ParentInv
  <2>4. CopyInv'
    BY <1>1, <1>2, <1>13 DEF IInv, SpacesInv, CopyInv
  <2>5. SpaceInv'
    <3>1. NoPt' = NoPt
      BY DEF NoPt
    <3> QED
      BY <1>1, <1>2, <1>11, <1>13, <3>1 DEF IInv, SpacesInv, SpaceInv
  <2>6. TlbInv'
    <3>1. TlbInv /\ \A q \in Procs : q # c => tlb'[q] = tlb[q] /\ pt'[q] = pt[q] /\ kern'[q] = kern[q]
      BY <1>1, <1>13 DEF IInv, SpacesInv
    <3>2. kern[c].pc \notin {"user", "copy", "put"} /\ kern' = kern /\ tlb' = tlb
      BY <1>1, <1>2
    <3> QED
      BY <3>1, <3>2 DEF TlbInv, Allowed
  <2> QED
    BY <2>1, <2>2, <2>3, <2>4, <2>5, <2>6 DEF SpacesInv
<1>18. Roots' = Roots /\ Tables' = Tables
  BY <1>2, <1>11, <1>13 DEF Roots, Tables
<1>19. Used' \subseteq Used
  <2>1. <<c, v>> \in Entries(f)
    BY <1>3, <1>4, <1>5 DEF Entries
  <2>2. f \in Used
    BY <1>1, <2>1, UsersCounted DEF Used
  <2> QED
    BY <1>16, <2>2 DEF Used
<1>20. Free' >= 0
  <2>1. ntables \in Int /\ Free \in Int /\ Free >= 0
    BY <1>1, CountedTables DEF TypeOK, Free, FramesAccounted
  <2>2. ntables' \in Int /\ ntables' <= ntables + 0 /\ 0 + 0 <= Free
    BY <1>1, <2>1
  <2> QED
    BY <1>1, <1>19, <2>2, FreeLeft
<1>21. ASSUME NEW g \in Frames
       PROVE  References(g)' = refcount'[g]
  <2>1. \A q \in Procs : kern[q].pc = "share" => pt'[q] = pt[q]
    BY <1>2, <1>13
  <2>2. Putting(g)' = Putting(g) /\ Sharing(g)' = Sharing(g)
    BY <1>1, <2>1 DEF Putting, Sharing
  <2>3. /\ g # f => Entries(g)' = Entries(g)
        /\ Cardinality(Entries(f)') = Cardinality(Entries(f)) - 1
    BY <1>3, <1>4, <1>5, <1>15, EntryRemoved
  <2>4. refcount[g] = Cardinality(Entries(g)) + Cardinality(Putting(g)) + Cardinality(Sharing(g))
    BY <1>1 DEF FramesAccounted, References
  <2> QED
    BY <1>16, <2>2, <2>3, <2>4, CountsNat DEF References
<1> QED
  BY <1>1, <1>17, <1>18, <1>20, <1>21 DEF IInv, FramesAccounted

\* ... then the tables.
LEMMA DestroyTablesStep ==
  ASSUME IInv, NEW p \in Procs, DestroyTables(p)
  PROVE  IInv'
<1>1. /\ kern \in [Procs -> KernType] /\ pt \in [Procs -> PtType] /\ TypeOK /\ FramesAccounted
      /\ tlb \in [Procs -> TlbType \cup {None}]
      /\ kern[p].pc = "destroy" /\ UNCHANGED <<sc, refcount>>
      /\ NextPage(kern[p].child, UserStart) = {}
  BY DEF DestroyTables, IInv, SpacesInv, TypeOK
<1>2. PICK c \in Procs : /\ c = kern[p].child /\ kern[c].pc \in {"destroy", "born"} /\ pt[c].root
                         /\ c # p => kern[c].pc = "born" /\ tlb[p] = None
                         /\ \A q \in Procs : Parent(q) /\ kern[q].child = c => q = p /\ c # p
  BY <1>1, Destroyed
<1>3. /\ pt' = [pt EXCEPT ![c] = NoPt] /\ ntables' = ntables - Cardinality(pt[c].tables) - 1
      /\ tlb' = [tlb EXCEPT ![c] = None]
      /\ kern' = [q \in Procs |-> CASE q = c -> At("none", UserStart, None, None)
                                     [] q = p /\ p # c -> InUser
                                     [] OTHER -> kern[q]]
  BY <1>2, Zenon DEF DestroyTables
<1>4. \A v \in Pages : pt[c].pte[v] = None
  BY <1>1, <1>2 DEF NextPage, Mapped, Pages
<1>5. PICK kc \in KernType : kc = At("none", UserStart, None, None) /\ kc.pc = "none"
  <2>1. At("none", UserStart, None, None) \in KernType /\ At("none", UserStart, None, None).pc = "none"
    BY DEF At, KernType
  <2> QED
    BY <2>1
<1>6. PICK kp \in KernType : kp = InUser /\ kp.pc = "user"
  BY KernMade
<1>7. /\ \A q \in Procs : kern'[q] = IF q = c THEN kc ELSE IF q = p THEN kp ELSE kern[q]
      /\ kern' \in [Procs -> KernType]
  <2>1. kern' = [q \in Procs |-> IF q = c THEN kc ELSE IF q = p THEN kp ELSE kern[q]]
    BY <1>3, <1>5, <1>6
  <2> QED
    BY <1>1, <2>1
<1>8. PICK N \in PtType : N = NoPt /\ ~N.root /\ N.tables = {} /\ \A v \in Pages : N.pte[v] = None
  BY RootMade
<1>9. pt' \in [Procs -> PtType] /\ \A q \in Procs : pt'[q] = IF q = c THEN N ELSE pt[q]
  BY <1>1, <1>3, <1>8
<1>10. tlb' \in [Procs -> TlbType \cup {None}] /\ \A q \in Procs : tlb'[q] = IF q = c THEN None ELSE tlb[q]
  BY <1>1, <1>3
<1>11. PICK E \in SUBSET Regions : E = pt[c].tables
  BY OwnTypes
<1>12. Cardinality(E) \in Nat /\ Cardinality(Tables') = Cardinality(Tables) - Cardinality(E)
  <2>1. /\ E \subseteq pt[c].tables /\ pt'[c].tables = pt[c].tables \ E
        /\ \A q \in Procs : q # c => pt'[q].tables = pt[q].tables
    BY <1>8, <1>9, <1>11
  <2> QED
    BY <2>1, TablesDropped
<1>13. Cardinality(Roots') = Cardinality(Roots) - 1
  <2>1. PICK S \in SUBSET Procs, T \in SUBSET Procs : S = Roots' /\ T = Roots
    BY DEF Roots
  <2>2. c \notin S /\ c \in T /\ \A q \in Procs : q # c => (q \in S <=> q \in T)
    BY <1>2, <1>8, <1>9, <2>1 DEF Roots
  <2> QED
    BY <2>1, <2>2, OneMore
<1>14. /\ ntables' = Cardinality(Roots') + Cardinality(Tables')
       /\ ntables \in Int /\ ntables' \in Int /\ ntables' <= ntables
  <2>1. ntables = Cardinality(Roots) + Cardinality(Tables) /\ ntables' = ntables - Cardinality(E) - 1
    BY <1>1, <1>3, <1>11 DEF FramesAccounted
  <2> QED
    BY <1>12, <1>13, <2>1, CountedTables
<1>15. SpacesInv'
  <2>1. TypeOK'
    BY <1>1, <1>7, <1>9, <1>10, <1>14 DEF TypeOK
  <2>2. NamesInv'
    BY <1>8, <1>9 DEF IInv, SpacesInv, NamesInv
  <2>3. \A q \in Procs : Parent(q)' => q \notin {p, c} /\ Parent(q) /\ kern'[q] = kern[q]
    BY <1>5, <1>6, <1>7 DEF Parent
  <2>4. \A q \in Procs : Parent(q) /\ q # p => kern[q].child \in Procs \ {p, c, q}
    BY <1>1, <1>2, Children
  <2>5. ParentInv'
    <3>1. \A q \in Procs : kern'[q].pc = "destroy" => kern'[q].child \in Procs
      BY <1>5, <1>6, <1>7 DEF IInv, SpacesInv, ParentInv
    <3>2. ASSUME NEW q \in Procs, Parent(q)'
          PROVE  kern'[q].child \in Procs \ {q} /\ kern'[kern'[q].child].pc = "born"
      BY <1>7, <2>3, <2>4, <3>2, Children
    <3>3. ASSUME NEW q \in Procs, NEW r \in Procs, Parent(q)', Parent(r)', kern'[q].child = kern'[r].child
          PROVE  q = r
      BY <2>3, <3>3, Children
    <3>4. ASSUME NEW q \in Procs, kern'[q].pc \in {"fork", "share"}, NEW u \in Pages, u >= kern'[q].va
          PROVE  pt'[kern'[q].child].pte[u] = None
      <4>1. Parent(q) /\ q # p /\ kern'[q] = kern[q]
        BY <2>3, <3>4 DEF Parent
      <4> QED
        BY <1>9, <2>4, <3>4, <4>1 DEF IInv, SpacesInv, ParentInv
    <3> QED
      BY <3>1, <3>2, <3>3, <3>4 DEF ParentInv
  <2>6. CopyInv'
    BY <1>5, <1>6, <1>7, <1>9 DEF IInv, SpacesInv, CopyInv
  <2>7. SpaceInv'
    <3>1. NoPt' = NoPt
      BY DEF NoPt
    <3> QED
      BY <1>1, <1>5, <1>6, <1>7, <1>8, <1>9, <1>10, <3>1 DEF IInv, SpacesInv, SpaceInv
  <2>8. TlbInv'
    BY <1>2, <1>5, <1>6, <1>7, <1>9, <1>10 DEF IInv, SpacesInv, TlbInv, Allowed
  <2> QED
    BY <2>1, <2>2, <2>5, <2>6, <2>7, <2>8 DEF SpacesInv
<1>16. Free' >= 0
  <2>1. Free \in Int /\ Free >= 0
    BY <1>1, CountedTables DEF TypeOK, Free, FramesAccounted
  <2>2. ntables' <= ntables + 0 /\ 0 + 0 <= Free
    BY <1>14, <2>1
  <2>3. Used' = Used
    BY <1>1 DEF Used
  <2> QED
    BY <1>1, <1>14, <2>2, <2>3, FreeLeft
<1>17. ASSUME NEW g \in Frames
       PROVE  References(g)' = refcount'[g]
  <2>1. \A q \in Procs : kern'[q].pc \in {"put", "share"} \/ kern[q].pc \in {"put", "share"}
                           => kern'[q] = kern[q] /\ pt'[q] = pt[q]
    BY <1>1, <1>2, <1>5, <1>6, <1>7, <1>9
  <2>2. Putting(g)' = Putting(g) /\ Sharing(g)' = Sharing(g)
    BY <2>1 DEF Putting, Sharing
  <2>3. Entries(g)' = Entries(g)
    BY <1>4, <1>8, <1>9 DEF Entries
  <2> QED
    BY <1>1, <2>2, <2>3 DEF FramesAccounted, References
<1> QED
  BY <1>14, <1>15, <1>16, <1>17 DEF IInv, FramesAccounted

-----------------------------------------------------------------------------
(* The theorems.                                                            *)

\* One address space with nothing in it.
LEMMA InitIInv == Init => IInv
<1> SUFFICES ASSUME Init PROVE IInv
  OBVIOUS
<1>1. PICK s \in Scenarios, p \in Procs :
         /\ p = s.first /\ sc = s /\ ntables = 1
         /\ pt = [q \in Procs |-> IF q = p THEN Root ELSE NoPt]
         /\ refcount = [f \in Frames |-> 0] /\ tlb = [q \in Procs |-> None]
         /\ kern = [q \in Procs |-> IF q = p THEN InUser
                      ELSE At(IF q \in s.procs THEN "none" ELSE "unused", UserStart, None, None)]
  BY DEF Init
<1>2. PICK R \in PtType, N \in PtType :
         /\ R = Root /\ R.root /\ R.tables = {} /\ \A v \in Pages : R.pte[v] = None
         /\ N = NoPt /\ ~N.root /\ N.tables = {} /\ \A v \in Pages : N.pte[v] = None
  BY RootMade
<1>3. pt \in [Procs -> PtType] /\ \A q \in Procs : pt[q] = IF q = p THEN R ELSE N
  BY <1>1, <1>2
<1>4. ASSUME NEW pc \in {"none", "unused"}
      PROVE  At(pc, UserStart, None, None) \in KernType /\ At(pc, UserStart, None, None).pc = pc
  BY DEF At, KernType
<1>5. /\ kern \in [Procs -> KernType] /\ kern[p].pc = "user"
      /\ \A q \in Procs : q # p => kern[q].pc \in {"none", "unused"}
  BY <1>1, <1>4, KernMade
<1>6. /\ refcount \in [Frames -> Int] /\ tlb \in [Procs -> TlbType \cup {None}]
      /\ \A f \in Frames : refcount[f] = 0
      /\ \A q \in Procs : tlb[q] = None
  BY <1>1
<1>7. SpacesInv
  <2>1. TypeOK
    BY <1>1, <1>3, <1>5, <1>6 DEF TypeOK
  <2>2. NamesInv
    BY <1>2, <1>3 DEF NamesInv
  <2>3. ParentInv
    BY <1>5 DEF ParentInv, Parent
  <2>4. CopyInv
    BY <1>5 DEF CopyInv
  <2>5. SpaceInv
    BY <1>2, <1>3, <1>5, <1>6 DEF SpaceInv
  <2>6. TlbInv
    BY <1>6 DEF TlbInv
  <2> QED
    BY <2>1, <2>2, <2>3, <2>4, <2>5, <2>6 DEF SpacesInv
<1>8. ASSUME NEW f \in Frames
      PROVE  refcount[f] = References(f)
  <2>1. Entries(f) = {}
    BY <1>2, <1>3 DEF Entries
  <2>2. Putting(f) = {} /\ Sharing(f) = {}
    BY <1>5 DEF Putting, Sharing
  <2> QED
    BY <1>6, <2>1, <2>2, FS_EmptySet DEF References
<1>9. Roots = {p} /\ Tables = {} /\ Used = {}
  BY <1>2, <1>3, <1>6 DEF Roots, Tables, Used
<1>10. Cardinality(Roots) = 1 /\ Cardinality(Tables) = 0 /\ Cardinality(Used) = 0
  BY <1>9, FS_EmptySet, FS_Singleton
<1>11. Free >= 0
  <2>1. sc.frames \in 1 .. Copies
    BY <1>1
  <2> QED
    BY <1>1, <1>10, <2>1 DEF Free
<1> QED
  BY <1>1, <1>7, <1>8, <1>10, <1>11 DEF IInv, FramesAccounted

\* Each step of a process keeps the invariant.
LEMMA CallsStep ==
  ASSUME IInv, NEW p \in Procs, Calls(p)
  PROVE  IInv'
<1>1. ASSUME NEW a \in UnmapArgs, mm_unmap(p, a[1], a[2])
      PROVE  IInv'
  <2>1. Runs(p) /\ \E S, as, brk : Unmap(p, S, as, brk)
    BY <1>1, Zenon DEF mm_unmap
  <2> QED
    BY <2>1, UnmapStep
<1>2. ASSUME NEW inc \in SbrkArgs, mm_sbrk(p, inc)
      PROVE  IInv'
  <2>1. Runs(p) /\ \E S, as, brk : Unmap(p, S, as, brk)
    BY <1>2, Zenon DEF mm_sbrk
  <2> QED
    BY <2>1, UnmapStep
<1>3. CASE (\E a \in MapArgs : mm_map(p, a[1], a[2], a[3])) \/ Exit(p)
  BY <1>3, QuietActions
<1> QED
  BY <1>1, <1>2, <1>3, ForkStep DEF Calls

LEMMA StepsStep ==
  ASSUME IInv, NEW p \in Procs, Steps(p)
  PROVE  IInv'
BY CowCopyStep, CowPutStep, ForkGetStep, ForkShareStep, ForkEndStep, DestroyPageStep,
   DestroyTablesStep DEF Steps

LEMMA ProgramStep ==
  ASSUME IInv, NEW p \in Procs, Program(p)
  PROVE  IInv'
<1>1. sc.touch \subseteq Pages
  BY DEF IInv, SpacesInv, TypeOK
<1>2. CASE Evict(p)
  BY <1>2, QuietActions
<1>3. ASSUME NEW v \in Pages, Read(p, v) \/ \E x \in Values : Write(p, v, x)
      PROVE  IInv'
  BY <1>3, QuietActions
<1>4. ASSUME NEW v \in Pages, NEW write \in BOOLEAN, Fault(p, v, write)
      PROVE  IInv'
  <2>1. mm_handle_fault(p, v, write)
    BY <1>4 DEF Fault
  <2> QED
    BY <2>1, FaultStep
<1> QED
  BY <1>1, <1>2, <1>3, <1>4 DEF Program

LEMMA NextStep == IInv /\ [Next]_vars => IInv'
<1> SUFFICES ASSUME IInv, [Next]_vars PROVE IInv'
  OBVIOUS
<1>1. CASE Next
  BY <1>1, CallsStep, StepsStep, ProgramStep DEF Next
<1>2. CASE UNCHANGED vars
  <2>1. UNCHANGED <<sc, pt, refcount, ntables, tlb, kern>>
    BY <1>2 DEF vars
  <2>2. SpacesInv'
    <3>1. TypeOK' /\ NamesInv'
      BY <2>1 DEF IInv, SpacesInv, TypeOK, NamesInv
    <3>2. ParentInv' /\ CopyInv'
      BY <2>1 DEF IInv, SpacesInv, ParentInv, Parent, CopyInv
    <3>3. SpaceInv'
      BY <2>1 DEF IInv, SpacesInv, SpaceInv, NoPt
    <3>4. TlbInv'
      BY <2>1, TlbStep DEF IInv, SpacesInv
    <3> QED
      BY <3>1, <3>2, <3>3, <3>4 DEF SpacesInv
  <2>3. \A f \in Frames : Putting(f)' = Putting(f) /\ Sharing(f)' = Sharing(f)
    BY <2>1 DEF Putting, Sharing
  <2>4. TypeOK /\ FramesAccounted
    BY DEF IInv, SpacesInv
  <2>5. FramesAccounted'
    BY <2>1, <2>3, <2>4, CountsKept
  <2> QED
    BY <2>2, <2>5 DEF IInv
<1> QED
  BY <1>1, <1>2

\* IInv holds in every state of every behaviour of address spaces.
THEOREM MmInvariant == Spec => []IInv
BY InitIInv, NextStep, PTL DEF Spec

\* No frame is lost and none is freed while somebody can reach it: put_page and
\* get_page of faults, copies, forks that fail half way and exits balance.
THEOREM FramesAreAccounted == Spec => []FramesAccounted
<1>1. IInv => FramesAccounted
  BY DEF IInv
<1> QED
  BY <1>1, MmInvariant, PTL

\* A translation that a running program's CPU has is one of its page table: mm_fork,
\* mm_unmap and the copy of a page drop what they withdraw before the program goes on.
THEOREM TlbAlwaysAgrees == Spec => []TlbAgrees
<1>1. IInv => TlbAgrees
  BY DEF IInv, SpacesInv, TlbInv, Allowed, TlbAgrees, Runs
<1> QED
  BY <1>1, MmInvariant, PTL

-----------------------------------------------------------------------------
(* The memory that programs see: the lists of areas.                        *)
HIDE MmAssumption

LEMMA LastOf ==
  ASSUME NEW n \in Nat, NEW S \in SUBSET (1 .. n), S # {}
  PROVE  Max(S) \in S /\ \A x \in S : x <= Max(S)
<1> DEFINE R == {n - x : x \in S}
<1>1. R \in SUBSET Nat /\ R # {}
  <2>1. \A x \in S : n - x \in Nat
    OBVIOUS
  <2> QED
    BY <2>1
<1>2. PICK k : k = Min(R)
  OBVIOUS
<1>3. k \in R /\ \A r \in R : k <= r
  BY <1>1, <1>2, LeastOf
<1>4. PICK m \in S : k = n - m
  BY <1>3
<1>5. \A x \in S : x <= m
  <2> TAKE x \in S
  <2>1. k <= n - x
    BY <1>3
  <2> QED
    BY <1>4, <2>1
<1> QED
  BY <1>5 DEF Max

\* An area for page v is found if there is one.
LEMMA Searched ==
  ASSUME NEW vs \in Seq(VmaType), NEW v
  PROVE  IF Covers(vs, v) THEN AreaOf(vs, v) \in DOMAIN vs /\ Within(v, vs[AreaOf(vs, v)])
         ELSE AreaOf(vs, v) = 0
<1> DEFINE I == {i \in 1 .. Len(vs) : Within(v, vs[i])}
<1>1. DOMAIN vs = 1 .. Len(vs) /\ Len(vs) \in Nat
  OBVIOUS
<1>2. AreaOf(vs, v) = IF I # {} THEN Min(I) ELSE 0
  BY DEF AreaOf, SelectInSeq
<1>3. Covers(vs, v) <=> I # {}
  BY <1>1 DEF Covers
<1>4. I \in SUBSET Nat
  BY <1>1
<1>5. I # {} => Min(I) \in I
  BY <1>4, LeastOf
<1>6. \A i \in I : i \in DOMAIN vs /\ Within(v, vs[i])
  BY <1>1
<1> QED
  BY <1>2, <1>3, <1>5, <1>6

LEMMA Searches ==
  ASSUME NEW vs \in Seq(VmaType), NEW v \in Pages
  PROVE  (\A i \in DOMAIN vs : ~Meets(vs[i], v, v + 1)) <=> ~Covers(vs, v)
<1>1. v \in Int /\ v \in Nat
  BY PagesAreNat
<1>2. ASSUME NEW a \in VmaType
      PROVE  Meets(a, v, v + 1) <=> Within(v, a)
  <2>1. a.start \in Nat /\ a.end \in Nat
    BY DEF VmaType
  <2> QED
    BY <1>1, <2>1 DEF Meets, Within
<1>3. \A i \in DOMAIN vs : Meets(vs[i], v, v + 1) <=> Within(v, vs[i])
  BY <1>2, ElementOfSeq, LenProperties
<1> QED
  BY <1>3 DEF Covers

\* insert_vma adds the pages of the new area.
LEMMA Inserted ==
  ASSUME NEW T, NEW vs \in Seq(T), NEW a \in T
  PROVE  /\ insert_vma(vs, a) \in Seq(T)
         /\ \A v : Covers(insert_vma(vs, a), v) <=> Covers(vs, v) \/ Within(v, a)
<1>1. DOMAIN vs = 1 .. Len(vs) /\ Len(vs) \in Nat
  OBVIOUS
<1>a. PICK I : I = {i \in 1 .. Len(vs) : a.start < vs[i].start}
  OBVIOUS
<1>2. PICK j : /\ j = IF I # {} THEN Min(I) ELSE 0
               /\ insert_vma(vs, a) = IF j = 0 THEN Append(vs, a) ELSE InsertAt(vs, j, a)
  BY <1>a DEF insert_vma, SelectInSeq
<1>3. I \in SUBSET Nat /\ \A i \in I : i \in 0 .. Len(vs)
  BY <1>1, <1>a
<1>4. j \in 0 .. Len(vs)
  <2>1. I # {} => Min(I) \in I
    BY <1>3, LeastOf
  <2>2. j = IF I # {} THEN Min(I) ELSE 0
    BY <1>2
  <2>3. CASE I # {}
    <3>1. j = Min(I) /\ j \in I
      BY <2>1, <2>2, <2>3, Zenon
    <3> QED
      BY <1>3, <3>1
  <2>4. CASE I = {}
    BY <1>1, <2>2, <2>4
  <2> QED
    BY <2>3, <2>4
<1>5. insert_vma(vs, a) = IF j = 0 THEN Append(vs, a) ELSE InsertAt(vs, j, a)
  BY <1>2
<1>6. CASE j = 0
  <2>1. insert_vma(vs, a) = Append(vs, a)
    BY <1>5, <1>6
  <2>2. PICK t \in Seq(T) : t = Append(vs, a)
    BY AppendProperties, Zenon
  <2>3. /\ DOMAIN t = 1 .. Len(vs) + 1 /\ t[Len(vs) + 1] = a
        /\ \A i \in 1 .. Len(vs) : t[i] = vs[i]
    BY <2>2
  <2>4. \A v : Covers(t, v) <=> Covers(vs, v) \/ Within(v, a)
    BY <1>1, <2>3 DEF Covers
  <2> QED
    BY <2>1, <2>2, <2>4
<1>7. CASE j # 0
  <2>1. PICK k \in 1 .. Len(vs) : k = j
    BY <1>4, <1>7
  <2>2. insert_vma(vs, a) = SubSeq(vs, 1, k - 1) \o <<a>> \o SubSeq(vs, k, Len(vs))
    BY <1>5, <1>7, <2>1 DEF InsertAt
  <2>3. PICK l \in Seq(T) : l = SubSeq(vs, 1, k - 1)
    <3>1. SubSeq(vs, 1, k - 1) \in Seq(T)
      BY <2>1, SubSeqProperties
    <3> QED
      BY <3>1, Zenon
  <2>4. Len(l) = k - 1 /\ \A i \in 1 .. k - 1 : l[i] = vs[i]
    BY <2>1, <2>3, SubSeqProperties
  <2>5. PICK r \in Seq(T) : r = SubSeq(vs, k, Len(vs))
    <3>1. SubSeq(vs, k, Len(vs)) \in Seq(T)
      BY <2>1, SubSeqProperties
    <3> QED
      BY <3>1, Zenon
  <2>6. Len(r) = Len(vs) - k + 1 /\ \A i \in 1 .. Len(vs) - k + 1 : r[i] = vs[k + i - 1]
    BY <2>1, <2>5, SubSeqProperties
  <2>7. PICK t \in Seq(T) : t = (l \o <<a>>) \o r
    <3>1. (l \o <<a>>) \o r \in Seq(T)
      OBVIOUS
    <3> QED
      BY <3>1, Zenon
  <2>8. Len(t) = Len(vs) + 1 /\ \A i \in 1 .. Len(vs) + 1 :
           t[i] = IF i < k THEN vs[i] ELSE IF i = k THEN a ELSE vs[i - 1]
    <3>1. PICK u \in Seq(T) : u = l \o <<a>>
      <4>1. l \o <<a>> \in Seq(T)
        OBVIOUS
      <4> QED
        BY <4>1, Zenon
    <3>2. Len(u) = k /\ \A i \in 1 .. k : u[i] = IF i < k THEN vs[i] ELSE a
      BY <2>1, <2>4, <3>1
    <3>3. t = u \o r
      BY <2>7, <3>1
    <3>4. Len(t) = Len(u) + Len(r)
      BY <3>3
    <3>5. ASSUME NEW i \in 1 .. Len(vs) + 1
          PROVE  t[i] = IF i < k THEN vs[i] ELSE IF i = k THEN a ELSE vs[i - 1]
      <4>1. CASE i <= k
        <5>1. t[i] = u[i]
          BY <2>1, <3>2, <3>3, <4>1
        <5> QED
          BY <2>1, <3>2, <4>1, <5>1
      <4>2. CASE i > k
        <5>1. t[i] = r[i - k]
          BY <2>1, <2>6, <3>2, <3>3, <4>2
        <5>2. i - k \in 1 .. Len(vs) - k + 1 /\ k + (i - k) - 1 = i - 1
          BY <2>1, <4>2
        <5> QED
          BY <2>6, <4>2, <5>1, <5>2
      <4> QED
        BY <2>1, <4>1, <4>2
    <3> QED
      BY <2>1, <2>6, <3>2, <3>4, <3>5
  <2>a. DOMAIN t = 1 .. Len(vs) + 1
    BY <1>1, <2>8
  <2>9. ASSUME NEW v
        PROVE  Covers(t, v) <=> Covers(vs, v) \/ Within(v, a)
    <3>1. ASSUME NEW i \in 1 .. Len(vs) + 1, Within(v, t[i])
          PROVE  Within(v, a) \/ \E m \in 1 .. Len(vs) : Within(v, vs[m])
      <4>1. CASE i < k
        <5>1. i \in 1 .. Len(vs) /\ t[i] = vs[i]
          BY <1>1, <2>1, <2>8, <4>1
        <5> QED
          BY <3>1, <5>1
      <4>2. CASE i = k
        BY <2>1, <2>8, <3>1, <4>2
      <4>3. CASE i > k
        <5>1. i - 1 \in 1 .. Len(vs) /\ t[i] = vs[i - 1]
          BY <1>1, <2>1, <2>8, <4>3
        <5> QED
          BY <3>1, <5>1
      <4> QED
        BY <2>1, <4>1, <4>2, <4>3
    <3>2. Within(v, a) => \E m \in 1 .. Len(vs) + 1 : Within(v, t[m])
      <4>1. k \in 1 .. Len(vs) + 1 /\ t[k] = a
        BY <1>1, <2>1, <2>8
      <4> QED
        BY <4>1
    <3>3. ASSUME NEW i \in 1 .. Len(vs), Within(v, vs[i])
          PROVE  \E m \in 1 .. Len(vs) + 1 : Within(v, t[m])
      <4>1. CASE i < k
        <5>1. i \in 1 .. Len(vs) + 1 /\ t[i] = vs[i]
          BY <1>1, <2>1, <2>8, <4>1
        <5> QED
          BY <3>3, <5>1
      <4>2. CASE i >= k
        <5>1. i + 1 \in 1 .. Len(vs) + 1 /\ t[i + 1] = vs[i]
          BY <1>1, <2>1, <2>8, <4>2
        <5> QED
          BY <3>3, <5>1
      <4> QED
        BY <2>1, <4>1, <4>2
    <3> QED
      BY <1>1, <2>a, <3>1, <3>2, <3>3 DEF Covers
  <2> QED
    BY <2>2, <2>7, <2>3, <2>5, <2>9
<1> QED
  BY <1>6, <1>7

LEMMA Joined ==
  ASSUME NEW T, NEW s \in Seq(T), NEW t \in Seq(T)
  PROVE  \A v : Covers(s \o t, v) <=> Covers(s, v) \/ Covers(t, v)
<1>1. PICK k \in Nat, l \in Nat : k = Len(s) /\ l = Len(t) /\ DOMAIN s = 1 .. k /\ DOMAIN t = 1 .. l
  BY LenProperties
<1>2. PICK u \in Seq(T) : u = s \o t
  <2>1. s \o t \in Seq(T)
    OBVIOUS
  <2> QED
    BY <2>1, Zenon
<1>3. /\ DOMAIN u = 1 .. k + l
      /\ \A i \in 1 .. k + l : u[i] = IF i <= k THEN s[i] ELSE t[i - k]
  BY <1>1, <1>2, ConcatProperties
<1>4. \A i \in DOMAIN s : i \in DOMAIN u /\ u[i] = s[i]
  BY <1>1, <1>3
<1>5. ASSUME NEW i \in DOMAIN t
      PROVE  i + k \in DOMAIN u /\ u[i + k] = t[i]
  <2>1. i + k \in 1 .. k + l /\ ~(i + k <= k) /\ i + k - k = i
    BY <1>1
  <2> QED
    BY <1>3, <2>1
<1>6. ASSUME NEW i \in DOMAIN u
      PROVE  (i \in DOMAIN s /\ u[i] = s[i]) \/ (i - k \in DOMAIN t /\ u[i] = t[i - k])
  <2>1. i \in 1 .. k + l
    BY <1>3
  <2>2. i <= k => i \in 1 .. k
    BY <2>1
  <2>3. ~(i <= k) => i - k \in 1 .. l
    BY <2>1
  <2>4. CASE i <= k
    <3>1. u[i] = s[i] /\ i \in DOMAIN s
      BY <1>1, <1>3, <2>1, <2>2, <2>4
    <3> QED
      BY <3>1
  <2>5. CASE ~(i <= k)
    BY <1>1, <1>3, <2>1, <2>3, <2>5
  <2> QED
    BY <2>4, <2>5
<1>7. \A v : Covers(u, v) <=> Covers(s, v) \/ Covers(t, v)
  BY <1>4, <1>5, <1>6, Zenon DEF Covers
<1> QED
  BY <1>2, <1>7

\* FlattenSeq has the elements of its sequences.
LEMMA FlattenExists ==
  ASSUME NEW n \in Nat, NEW ss
  PROVE  \E f : f = [i \in 1 .. n |-> IF i = 1 THEN ss[i] ELSE f[i - 1] \o ss[i]]
<1> DEFINE Fits(g, k) == g = [i \in 1 .. k |-> IF i = 1 THEN ss[i] ELSE g[i - 1] \o ss[i]]
           B == {k \in Nat : ~\E g : Fits(g, k)}
<1>1. SUFFICES ASSUME B # {}
               PROVE  FALSE
  OBVIOUS
<1>2. PICK k \in B : \A l \in B : k <= l
  BY <1>1, LeastOf
<1>3. k \in Nat /\ ~\E g : Fits(g, k)
  BY <1>2
<1>4. k # 0
  <2>1. PICK g : g = [i \in 1 .. 0 |-> 0]
    OBVIOUS
  <2>2. Fits(g, 0)
    BY <2>1
  <2> QED
    BY <1>3, <2>2
<1>5. k - 1 \in Nat /\ k - 1 \notin B
  <2>1. k - 1 \in Nat /\ ~(k <= k - 1)
    BY <1>3, <1>4
  <2> QED
    BY <1>2, <2>1
<1>6. PICK g : Fits(g, k - 1)
  BY <1>5
<1>7. PICK h : h = [i \in 1 .. k |-> IF i = k THEN IF k = 1 THEN ss[1] ELSE g[k - 1] \o ss[k] ELSE g[i]]
  OBVIOUS
<1>8. ASSUME NEW i \in 1 .. k
      PROVE  h[i] = IF i = 1 THEN ss[i] ELSE h[i - 1] \o ss[i]
  <2>1. CASE i = k /\ i = 1
    BY <1>7, <2>1
  <2>2. CASE i = k /\ i # 1
    <3>1. i - 1 \in 1 .. k /\ i - 1 # k
      BY <1>3, <2>2
    <3>2. h[i - 1] = g[k - 1]
      BY <1>7, <2>2, <3>1
    <3> QED
      BY <1>7, <2>2, <3>2
  <2>3. CASE i # k
    <3>1. i \in 1 .. k - 1 /\ (i # 1 => i - 1 \in 1 .. k /\ i - 1 # k)
      BY <1>3, <2>3
    <3>2. h[i] = g[i] /\ (i # 1 => h[i - 1] = g[i - 1])
      BY <1>7, <2>3, <3>1
    <3>3. g[i] = IF i = 1 THEN ss[i] ELSE g[i - 1] \o ss[i]
      BY <1>6, <3>1
    <3> QED
      BY <3>2, <3>3
  <2> QED
    BY <2>1, <2>2, <2>3
<1>9. Fits(h, k)
  BY <1>7, <1>8
<1> QED
  BY <1>3, <1>9

LEMMA Flattened ==
  ASSUME NEW T, NEW ss \in Seq(Seq(T))
  PROVE  /\ FlattenSeq(ss) \in Seq(T)
         /\ \A v : Covers(FlattenSeq(ss), v) <=> \E i \in DOMAIN ss : Covers(ss[i], v)
<1>1. PICK n \in Nat : n = Len(ss) /\ DOMAIN ss = 1 .. n
  BY LenProperties
<1>2. \A i \in 1 .. n : ss[i] \in Seq(T)
  BY <1>1, ElementOfSeq
<1>3. CASE n = 0
  <2>1. FlattenSeq(ss) = ss /\ ss = <<>>
    BY <1>1, <1>3 DEF FlattenSeq
  <2>2. <<>> \in Seq(T) /\ DOMAIN <<>> = {}
    OBVIOUS
  <2> QED
    BY <2>1, <2>2 DEF Covers
<1>4. CASE n # 0
  <2>1. PICK f : /\ f = [i \in 1 .. n |-> IF i = 1 THEN ss[i] ELSE f[i - 1] \o ss[i]]
                 /\ FlattenSeq(ss) = f[n]
    BY <1>1, <1>4, FlattenExists DEF FlattenSeq
  <2> DEFINE Fine(i) == /\ f[i] \in Seq(T)
                        /\ \A v : Covers(f[i], v) <=> \E j \in 1 .. i : Covers(ss[j], v)
             B == {i \in 1 .. n : ~Fine(i)}
  <2>2. B = {}
    <3>1. SUFFICES ASSUME B # {}
                   PROVE  FALSE
      OBVIOUS
    <3>2. B \in SUBSET Nat
      OBVIOUS
    <3>3. PICK k \in B : \A l \in B : k <= l
      BY <3>1, <3>2, LeastOf
    <3>4. k \in 1 .. n /\ ~Fine(k)
      BY <3>3
    <3>5. CASE k = 1
      <4>1. f[1] = ss[1] /\ 1 .. 1 = {1}
        BY <2>1, <3>4, <3>5
      <4>2. Fine(1)
        BY <1>2, <3>4, <3>5, <4>1
      <4> QED
        BY <3>4, <3>5, <4>2
    <3>6. CASE k # 1
      <4>1. k - 1 \in 1 .. n /\ ~(k <= k - 1) /\ 1 .. k = (1 .. k - 1) \cup {k}
        BY <3>4, <3>6
      <4>2. Fine(k - 1)
        BY <3>3, <4>1
      <4>3. f[k] = f[k - 1] \o ss[k] /\ ss[k] \in Seq(T)
        BY <1>2, <2>1, <3>4, <3>6
      <4>4. f[k] \in Seq(T)
        BY <4>2, <4>3
      <4>5. \A v : Covers(f[k], v) <=> Covers(f[k - 1], v) \/ Covers(ss[k], v)
        BY <4>2, <4>3, Joined
      <4>6. Fine(k)
        BY <4>1, <4>2, <4>4, <4>5, Zenon
      <4> QED
        BY <3>4, <4>6
    <3> QED
      BY <3>5, <3>6
  <2>3. n \in 1 .. n
    BY <1>4
  <2>4. Fine(n)
    BY <2>2, <2>3
  <2> QED
    BY <1>1, <2>1, <2>4
<1> QED
  BY <1>3, <1>4

\* What a munmap leaves of an area: nothing new, and all that is outside of [s, e).
LEMMA LeftPieces ==
  ASSUME NEW a \in VmaType, NEW s \in Nat, NEW e \in Nat, s < e, NEW split
  PROVE  /\ Left(a, s, e, split) \in Seq(VmaType)
         /\ \A v \in Nat : /\ Covers(Left(a, s, e, split), v) => Within(v, a)
                           /\ Within(v, a) /\ (v < s \/ v >= e) => Covers(Left(a, s, e, split), v)
<1>1. a.start \in Nat /\ a.end \in Nat
  BY DEF VmaType
<1>2. PICK h \in VmaType : h = [a EXCEPT !.end = MinOf(s, a.end)]
  <2>1. MinOf(s, a.end) \in Nat
    BY <1>1 DEF MinOf
  <2> QED
    BY <2>1 DEF VmaType
<1>3. PICK r \in VmaType : r = [a EXCEPT !.start = MaxOf(e, a.start)]
  <2>1. MaxOf(e, a.start) \in Nat
    BY <1>1 DEF MaxOf
  <2> QED
    BY <2>1 DEF VmaType
<1>4. h.start = a.start /\ h.end = IF s < a.end THEN s ELSE a.end
  BY <1>2 DEF VmaType, MinOf
<1>5. r.end = a.end /\ r.start = IF e > a.start THEN e ELSE a.start
  BY <1>3 DEF VmaType, MaxOf
<1> DEFINE some(b) == IF b.start < b.end THEN <<b>> ELSE <<>>
<1>6. ASSUME NEW b \in VmaType
      PROVE  some(b) \in Seq(VmaType) /\ \A v \in Nat : Covers(some(b), v) <=> Within(v, b)
  <2>1. b.start \in Nat /\ b.end \in Nat
    BY DEF VmaType
  <2>2. CASE b.start < b.end
    <3>1. some(b) = <<b>> /\ <<b>> \in Seq(VmaType) /\ DOMAIN <<b>> = {1} /\ <<b>>[1] = b
      BY <2>2
    <3> QED
      BY <3>1 DEF Covers
  <2>3. CASE ~(b.start < b.end)
    <3>1. some(b) = <<>> /\ <<>> \in Seq(VmaType) /\ DOMAIN <<>> = {}
      BY <2>3
    <3>2. \A v \in Nat : ~Within(v, b)
      BY <2>1, <2>3 DEF Within
    <3> QED
      BY <3>1, <3>2 DEF Covers
  <2> QED
    BY <2>2, <2>3
<1>7. CASE ~Meets(a, s, e) \/ (a.start < s /\ e < a.end /\ ~split)
  <2>1. Left(a, s, e, split) = <<a>>
    BY <1>7 DEF Left
  <2>2. <<a>> \in Seq(VmaType) /\ DOMAIN <<a>> = {1} /\ <<a>>[1] = a
    OBVIOUS
  <2> QED
    BY <2>1, <2>2 DEF Covers
<1>8. CASE ~(~Meets(a, s, e) \/ (a.start < s /\ e < a.end /\ ~split))
  <2>1. Left(a, s, e, split) = some(h) \o some(r)
    BY <1>2, <1>3, <1>8, Zenon DEF Left
  <2>2. PICK x \in Seq(VmaType), y \in Seq(VmaType) : x = some(h) /\ y = some(r)
    BY <1>6, Zenon
  <2>3. x \o y \in Seq(VmaType)
    OBVIOUS
  <2>4. \A v \in Nat : Covers(x \o y, v) <=> Within(v, h) \/ Within(v, r)
    BY <1>6, <2>2, Joined, Zenon
  <2>5. ASSUME NEW v \in Nat
        PROVE  /\ Within(v, h) \/ Within(v, r) => Within(v, a)
               /\ Within(v, a) /\ (v < s \/ v >= e) => Within(v, h) \/ Within(v, r)
    BY <1>1, <1>4, <1>5 DEF Within
  <2> QED
    BY <2>1, <2>2, <2>3, <2>4, <2>5
<1> QED
  BY <1>7, <1>8

\* The end or the start of one area of a list moves.
LEMMA Moved ==
  ASSUME NEW vs \in Seq(VmaType), NEW h \in DOMAIN vs, NEW a \in VmaType
  PROVE  /\ [vs EXCEPT ![h] = a] \in Seq(VmaType)
         /\ \A v : /\ Covers([vs EXCEPT ![h] = a], v) => Covers(vs, v) \/ Within(v, a)
                   /\ Covers(vs, v) => Covers([vs EXCEPT ![h] = a], v) \/ Within(v, vs[h])
                   /\ Within(v, a) => Covers([vs EXCEPT ![h] = a], v)
<1>1. PICK t \in Seq(VmaType) : t = [vs EXCEPT ![h] = a]
  <2>1. [vs EXCEPT ![h] = a] \in Seq(VmaType)
    BY LenProperties, ExceptSeq
  <2> QED
    BY <2>1, Zenon
<1>2. DOMAIN t = DOMAIN vs /\ t[h] = a /\ \A i \in DOMAIN vs : i # h => t[i] = vs[i]
  BY <1>1
<1>3. \A v : /\ Covers(t, v) => Covers(vs, v) \/ Within(v, a)
             /\ Covers(vs, v) => Covers(t, v) \/ Within(v, vs[h])
             /\ Within(v, a) => Covers(t, v)
  BY <1>2, Zenon DEF Covers
<1> QED
  BY <1>1, <1>3

\* A stack that grows loses no page.
LEMMA Grown ==
  ASSUME NEW p \in Procs, mm[p] \in MmType, NEW v \in Nat
  PROVE  /\ grow_stack(p, v) \in Seq(VmaType)
         /\ \A u \in Nat : Covers(mm[p].vmas, u) => Covers(grow_stack(p, v), u)
<1>1. PICK vs \in Seq(VmaType) : vs = mm[p].vmas
  BY DEF MmType
<1>2. CASE grow_stack(p, v) = vs
  BY <1>1, <1>2
<1>3. ASSUME grow_stack(p, v) # vs
      PROVE  \E i \in DOMAIN vs : v < vs[i].start /\ grow_stack(p, v) = [vs EXCEPT ![i].start = v]
  <2>1. PICK I : I = {i \in 1 .. Len(vs) : vs[i].kind = "stack" /\ v < vs[i].start}
    OBVIOUS
  <2>2. I \in SUBSET Nat /\ \A i \in I : i \in DOMAIN vs /\ v < vs[i].start
    BY <2>1, LenProperties
  <2>3. PICK j : /\ j = IF I # {} THEN Min(I) ELSE 0
                 /\ j # 0 /\ grow_stack(p, v) = [vs EXCEPT ![j].start = v]
    BY <1>1, <1>3, <2>1 DEF grow_stack, SelectInSeq
  <2>4. j \in I
    <3>1. I # {} /\ j = Min(I)
      BY <2>3, Zenon
    <3> QED
      BY <2>2, <3>1, LeastOf
  <2> QED
    BY <2>2, <2>3, <2>4
<1>4. CASE grow_stack(p, v) # vs
  <2>1. PICK i \in DOMAIN vs : v < vs[i].start /\ grow_stack(p, v) = [vs EXCEPT ![i].start = v]
    BY <1>3, <1>4
  <2>2. PICK b \in VmaType : b = vs[i]
    BY ElementOfSeq, LenProperties
  <2>3. PICK a \in VmaType : a = [b EXCEPT !.start = v]
    BY DEF VmaType
  <2>4. a.start = v /\ a.end = b.end /\ b.start \in Nat /\ b.end \in Nat
    BY <2>3 DEF VmaType
  <2>5. grow_stack(p, v) = [vs EXCEPT ![i] = a]
    BY <2>1, <2>2, <2>3
  <2>6. \A u \in Nat : Within(u, b) => Within(u, a)
    BY <2>1, <2>2, <2>4 DEF Within
  <2>7. [vs EXCEPT ![i] = a] \in Seq(VmaType)
    BY Moved
  <2>a. \A u : /\ Covers(vs, u) => Covers([vs EXCEPT ![i] = a], u) \/ Within(u, vs[i])
               /\ Within(u, a) => Covers([vs EXCEPT ![i] = a], u)
    BY Moved, Zenon
  <2>8. ASSUME NEW u \in Nat, Covers(vs, u)
        PROVE  Covers([vs EXCEPT ![i] = a], u)
    BY <2>2, <2>6, <2>8, <2>a
  <2> QED
    BY <1>1, <2>5, <2>7, <2>8
<1> QED
  BY <1>1, <1>2, <1>4

-----------------------------------------------------------------------------
(* What a process sees of its memory.                                       *)

LEMMA SumNotZero ==
  ASSUME NEW A \in SUBSET (Procs \X Pages), NEW B \in SUBSET Procs, NEW C \in SUBSET Procs, A # {}
  PROVE  Cardinality(A) + Cardinality(B) + Cardinality(C) # 0
<1>1. PICK k \in Nat, l \in Nat, n \in Nat :
        k = Cardinality(A) /\ l = Cardinality(B) /\ n = Cardinality(C) /\ k # 0
  BY AllFinite, MmAssumption, Counting
<1> QED
  BY <1>1

\* The frame of an entry is in use.
LEMMA InUse ==
  ASSUME NEW q \in Procs, NEW v \in Pages
  PROVE  /\ IInv /\ pt[q].pte[v] # None =>
              pt[q].pte[v] \in PteType /\ pt[q].pte[v].f \in Frames /\ refcount[pt[q].pte[v].f] # 0
         /\ IInv' /\ pt'[q].pte[v] # None =>
              pt'[q].pte[v] \in PteType /\ pt'[q].pte[v].f \in Frames /\ refcount'[pt'[q].pte[v].f] # 0
<1>1. ASSUME IInv, pt[q].pte[v] # None
      PROVE  pt[q].pte[v] \in PteType /\ pt[q].pte[v].f \in Frames /\ refcount[pt[q].pte[v].f] # 0
  <2>1. PICK e \in PteType : e = pt[q].pte[v] /\ e.f \in Frames
    BY <1>1 DEF IInv, SpacesInv, TypeOK, PtType, PteType
  <2>2. <<q, v>> \in Entries(e.f)
    BY <1>1, <2>1 DEF Entries
  <2>3. refcount[e.f] = Cardinality(Entries(e.f)) + Cardinality(Putting(e.f)) + Cardinality(Sharing(e.f))
    BY <1>1, <2>1 DEF IInv, FramesAccounted, References
  <2>4. /\ Entries(e.f) \in SUBSET (Procs \X Pages) /\ Entries(e.f) # {}
        /\ Putting(e.f) \in SUBSET Procs /\ Sharing(e.f) \in SUBSET Procs
    BY <2>2 DEF Entries, Putting, Sharing
  <2> QED
    BY <2>1, <2>3, <2>4, SumNotZero
<1>2. ASSUME IInv', pt'[q].pte[v] # None
      PROVE  pt'[q].pte[v] \in PteType /\ pt'[q].pte[v].f \in Frames /\ refcount'[pt'[q].pte[v].f] # 0
  <2>1. PICK e \in PteType : e = pt'[q].pte[v] /\ e.f \in Frames
    BY <1>2 DEF IInv, SpacesInv, TypeOK, PtType, PteType
  <2>2. <<q, v>> \in Entries(e.f)'
    BY <1>2, <2>1 DEF Entries
  <2>3. refcount'[e.f] = Cardinality(Entries(e.f)') + Cardinality(Putting(e.f)') + Cardinality(Sharing(e.f)')
    BY <1>2, <2>1 DEF IInv, FramesAccounted, References
  <2>4. /\ Entries(e.f)' \in SUBSET (Procs \X Pages) /\ Entries(e.f)' # {}
        /\ Putting(e.f)' \in SUBSET Procs /\ Sharing(e.f)' \in SUBSET Procs
    BY <2>2 DEF Entries, Putting, Sharing
  <2> QED
    BY <2>1, <2>3, <2>4, SumNotZero
<1> QED
  BY <1>1, <1>2

\* What page v of process p holds.
PageOf(p, v) == IF ~Covers(mm[p].vmas, v) THEN None
                ELSE IF pt[p].pte[v] = None THEN 0 ELSE content[pt[p].pte[v].f]

LEMMA MemoryIs ==
  ASSUME NEW p \in Procs
  PROVE  /\ MemoryType => MemoryOf(p) = [v \in Pages |-> PageOf(p, v)]
         /\ MemoryType' => MemoryOf(p)' = [v \in Pages |-> PageOf(p, v)']
<1>1. ASSUME MemoryType
      PROVE  MemoryOf(p) = [v \in Pages |-> PageOf(p, v)]
  <2>1. mm[p].vmas \in Seq(VmaType)
    BY <1>1 DEF MemoryType, MmType
  <2>2. \A v \in Pages : range_free(p, v, v + 1) <=> ~Covers(mm[p].vmas, v)
    BY <2>1, Searches DEF range_free
  <2> QED
    BY <2>2 DEF MemoryOf, PageOf
<1>2. ASSUME MemoryType'
      PROVE  MemoryOf(p)' = [v \in Pages |-> PageOf(p, v)']
  <2>1. mm'[p].vmas \in Seq(VmaType)
    BY <1>2 DEF MemoryType, MmType
  <2>2. \A v \in Pages : range_free(p, v, v + 1)' <=> ~Covers(mm'[p].vmas, v)
    BY <2>1, Searches DEF range_free
  <2> QED
    BY <2>2 DEF MemoryOf, PageOf
<1> QED
  BY <1>1, <1>2

-----------------------------------------------------------------------------
(* Steps that change the entries and the areas of one process x.            *)

\* Frame f is in no entry that allows stores; in no entry of a process other than x.
ReadOnlyFrame(f) ==
    \A q \in Procs, u \in Pages : pt[q].pte[u] # None /\ pt[q].pte[u].f = f => ~pt[q].pte[u].w
NotElsewhere(x, f) ==
    \A q \in Procs \ {x}, u \in Pages : pt[q].pte[u] # None => pt[q].pte[u].f # f

MemoryShape(x, npte, nm) ==
    /\ \A q \in Procs : pt'[q].pte = IF q = x THEN npte ELSE pt[q].pte
    /\ \A q \in Procs : mm'[q] = IF q = x THEN nm ELSE mm[q]
    /\ mm' \in [Procs -> MmType]
    /\ content' \in [Frames -> Values \cup {0, None}]
    /\ \A f \in Frames : refcount[f] # 0 /\ refcount'[f] # 0 => content'[f] # None \/ content'[f] = content[f]
    /\ \A v \in Pages : npte[v] # None => Covers(nm.vmas, v)
    /\ \A v \in Pages : npte[v] # None =>
          \/ pt[x].pte[v] # None /\ npte[v].f = pt[x].pte[v].f
          \/ content'[npte[v].f] # None /\ ReadOnlyFrame(npte[v].f)
    /\ \A v \in Pages : npte[v] # None /\ npte[v].w =>
          npte[v] = pt[x].pte[v] \/ NotElsewhere(x, npte[v].f)

LEMMA MemoryStep ==
  ASSUME IInv, IInv', SpaceMemoryInv, NEW x \in Procs, NEW npte, NEW nm, MemoryShape(x, npte, nm)
  PROVE  SpaceMemoryInv'
<1>1. /\ \A q \in Procs \ {x} : pt'[q].pte = pt[q].pte /\ mm'[q] = mm[q]
      /\ pt'[x].pte = npte /\ mm'[x] = nm
  BY DEF MemoryShape
<1>2. MemoryType'
  BY DEF MemoryShape, MemoryType
<1>3. CoverInv'
  <2>1. ASSUME NEW q \in Procs, NEW v \in Pages, pt'[q].pte[v] # None
        PROVE  Covers(mm'[q].vmas, v)
    <3>1. CASE q = x
      BY <1>1, <2>1, <3>1 DEF MemoryShape
    <3>2. CASE q # x
      BY <1>1, <2>1, <3>2 DEF SpaceMemoryInv, CoverInv
    <3> QED
      BY <3>1, <3>2
  <2> QED
    BY <2>1 DEF CoverInv
<1>4. ContentInv'
  <2>1. ASSUME NEW q \in Procs, NEW v \in Pages, pt'[q].pte[v] # None,
               pt[q].pte[v] # None, pt'[q].pte[v].f = pt[q].pte[v].f
        PROVE  content'[pt'[q].pte[v].f] # None
    <3>1. PICK f \in Frames : f = pt[q].pte[v].f /\ refcount[f] # 0 /\ refcount'[f] # 0
      BY <2>1, InUse
    <3>2. content[f] # None
      BY <2>1, <3>1 DEF SpaceMemoryInv, ContentInv
    <3> QED
      BY <2>1, <3>1, <3>2 DEF MemoryShape
  <2>2. ASSUME NEW v \in Pages, npte[v] # None
        PROVE  content'[npte[v].f] # None
    <3>1. CASE pt[x].pte[v] # None /\ npte[v].f = pt[x].pte[v].f
      BY <1>1, <2>1, <2>2, <3>1
    <3> QED
      BY <2>2, <3>1 DEF MemoryShape
  <2> QED
    BY <1>1, <2>1, <2>2 DEF ContentInv
<1>5. \A q \in Procs, v \in Pages : pt'[q].pte[v] # None => pt'[q].pte[v].f[1] = v
  BY DEF IInv, SpacesInv, NamesInv
<1>6. \A v \in Pages : npte[v] # None =>
          (pt[x].pte[v] # None /\ npte[v].f = pt[x].pte[v].f) \/ ReadOnlyFrame(npte[v].f)
  BY DEF MemoryShape
<1>7. \A v \in Pages : npte[v] # None /\ npte[v].w =>
          npte[v] = pt[x].pte[v] \/ NotElsewhere(x, npte[v].f)
  BY DEF MemoryShape
<1>8. StoreInv
  BY DEF SpaceMemoryInv
<1>9. StoreInv'
  <2>1. ASSUME NEW p \in Procs, NEW q \in Procs, NEW v \in Pages, NEW u \in Pages,
               pt'[p].pte[v] # None, pt'[p].pte[v].w,
               pt'[q].pte[u] # None, pt'[q].pte[u].f = pt'[p].pte[v].f
        PROVE  p = q /\ v = u
    <3>1. v = u
      BY <1>5, <2>1
    <3>2. CASE p # x /\ q # x
      BY <1>1, <1>8, <2>1, <3>2 DEF StoreInv
    <3>3. CASE p = x /\ q # x
      <4>1. npte[v] = pt[x].pte[v]
        BY <1>1, <1>7, <2>1, <3>3 DEF NotElsewhere
      <4>2. pt'[p].pte = npte /\ pt'[q].pte = pt[q].pte
        BY <1>1, <3>3
      <4>3. /\ pt[x].pte[v] # None /\ pt[x].pte[v].w /\ pt[q].pte[u] # None
            /\ pt[q].pte[u].f = pt[x].pte[v].f
        BY <2>1, <4>1, <4>2
      <4> QED
        BY <1>8, <3>3, <4>3 DEF StoreInv
    <3>4. CASE p # x /\ q = x
      <4>1. pt[x].pte[u] # None /\ npte[u].f = pt[x].pte[u].f
        BY <1>1, <1>6, <2>1, <3>4 DEF ReadOnlyFrame
      <4>2. pt'[p].pte = pt[p].pte /\ pt'[q].pte = npte
        BY <1>1, <3>4
      <4>3. pt[p].pte[v] # None /\ pt[p].pte[v].w /\ pt[x].pte[u].f = pt[p].pte[v].f
        BY <2>1, <4>1, <4>2
      <4> QED
        BY <1>8, <3>4, <4>1, <4>3 DEF StoreInv
    <3> QED
      BY <3>1, <3>2, <3>3, <3>4
  <2> QED
    BY <2>1 DEF StoreInv
<1> QED
  BY <1>2, <1>3, <1>4, <1>9 DEF SpaceMemoryInv

\* A fork that goes on is not disturbed by a step on tables that are not its own.
LEMMA ForkKept ==
  ASSUME ForkInv, IInv, NEW x \in Procs,
         \A q \in Procs \ {x} : pt'[q].pte = pt[q].pte /\ mm'[q] = mm[q],
         \A p \in Procs : kern'[p].pc \in {"fork", "share"} =>
            kern'[p] = kern[p] /\ p # x /\ kern[p].child # x
  PROVE  ForkInv'
<1>1. ASSUME NEW p \in Procs, kern'[p].pc \in {"fork", "share"}
      PROVE  LET c == kern'[p].child IN
             /\ mm'[c] = mm'[p]
             /\ \A v \in Pages : v < kern'[p].va =>
                   /\ pt'[c].pte[v] = None <=> pt'[p].pte[v] = None
                   /\ pt'[p].pte[v] # None => pt'[c].pte[v].f = pt'[p].pte[v].f
             /\ kern'[p].pc = "share" => ~pt'[p].pte[kern'[p].va].w
  <2>1. kern'[p] = kern[p] /\ p # x /\ kern[p].child # x
    BY <1>1
  <2>2. kern[p].child \in Procs
    BY <1>1, <2>1 DEF IInv, SpacesInv, ParentInv, Parent
  <2>3. /\ pt'[p].pte = pt[p].pte /\ mm'[p] = mm[p]
        /\ pt'[kern[p].child].pte = pt[kern[p].child].pte /\ mm'[kern[p].child] = mm[kern[p].child]
    BY <2>1, <2>2
  <2> QED
    BY <1>1, <2>1, <2>3 DEF ForkInv
<1> QED
  BY <1>1 DEF ForkInv

-----------------------------------------------------------------------------
(* The steps of PrivateMemory.                                              *)

MemoryIn(p) == IF Alive(p) THEN MemoryOf(p) ELSE None

LEMMA MemoryTyped ==
  ASSUME NEW p \in Procs
  PROVE  /\ IInv /\ MemoryType => MemoryOf(p) \in [Pages -> Values \cup {0, None}] /\ MemoryOf(p) # None
         /\ IInv' /\ MemoryType' => MemoryOf(p)' \in [Pages -> Values \cup {0, None}] /\ MemoryOf(p)' # None
<1>1. ASSUME IInv, MemoryType
      PROVE  MemoryOf(p) \in [Pages -> Values \cup {0, None}]
  <2>1. \A v \in Pages : pt[p].pte[v] # None => content[pt[p].pte[v].f] \in Values \cup {0, None}
    BY <1>1, InUse DEF MemoryType
  <2>2. \A v \in Pages : PageOf(p, v) \in Values \cup {0, None}
    BY <2>1 DEF PageOf
  <2>3. MemoryOf(p) = [v \in Pages |-> PageOf(p, v)]
    BY <1>1, MemoryIs
  <2> QED
    BY <2>2, <2>3
<1>2. ASSUME IInv', MemoryType'
      PROVE  MemoryOf(p)' \in [Pages -> Values \cup {0, None}]
  <2>1. \A v \in Pages : pt'[p].pte[v] # None => content'[pt'[p].pte[v].f] \in Values \cup {0, None}
    BY <1>2, InUse DEF MemoryType
  <2>2. \A v \in Pages : PageOf(p, v)' \in Values \cup {0, None}
    BY <2>1 DEF PageOf
  <2>3. MemoryOf(p)' = [v \in Pages |-> PageOf(p, v)']
    BY <1>2, MemoryIs
  <2> QED
    BY <2>2, <2>3
<1> QED
  BY <1>1, <1>2, NoneAssumption

\* The memory of a process whose entries and areas stay as they are, in a step in which
\* frames keep what they hold as long as they are in use.
ContentKept == \A f \in Frames : refcount[f] # 0 /\ refcount'[f] # 0 => content'[f] = content[f]

LEMMA PageKept ==
  ASSUME IInv, IInv', ContentKept, NEW p \in Procs, NEW v \in Pages,
         pt[p].pte[v] # None, pt'[p].pte[v] # None, pt'[p].pte[v].f = pt[p].pte[v].f
  PROVE  content'[pt'[p].pte[v].f] = content[pt[p].pte[v].f]
<1>1. PICK f \in Frames : f = pt[p].pte[v].f /\ refcount[f] # 0 /\ refcount'[f] # 0
  BY InUse
<1> QED
  BY <1>1 DEF ContentKept

LEMMA MemoryKept ==
  ASSUME IInv, IInv', MemoryType, MemoryType', ContentKept, NEW p \in Procs,
         pt'[p].pte = pt[p].pte, mm'[p] = mm[p]
  PROVE  MemoryOf(p)' = MemoryOf(p)
<1>1. ASSUME NEW v \in Pages
      PROVE  PageOf(p, v)' = PageOf(p, v)
  <2>1. pt[p].pte[v] # None => content'[pt'[p].pte[v].f] = content[pt[p].pte[v].f]
    BY PageKept
  <2> QED
    BY <2>1 DEF PageOf
<1> QED
  BY <1>1, MemoryIs, Zenon

LEMMA StutterStep ==
  ASSUME \A q \in Procs : MemoryIn(q)' = MemoryIn(q)
  PROVE  Memories' = Memories
BY DEF Memories, MemoryIn

LEMMA ExitStep ==
  ASSUME NEW p \in Procs, \A q \in Procs \ {p} : MemoryIn(q)' = MemoryIn(q),
         Alive(p), ~Alive(p)', MemoryOf(p) # None
  PROVE  Private!Exit(p)
<1>1. Memories[p] # None
  BY DEF Memories
<1>2. Memories' = [Memories EXCEPT ![p] = None]
  BY DEF Memories, MemoryIn
<1> QED
  BY <1>1, <1>2 DEF Private!Exit

\* The memory of process p changes page by page.
OwnShape(p) ==
    /\ \A q \in Procs \ {p} : MemoryIn(q)' = MemoryIn(q)
    /\ Alive(p) /\ Alive(p)' /\ MemoryOf(p) # None /\ MemoryOf(p)' # None
    /\ MemoryOf(p) = [v \in Pages |-> PageOf(p, v)]
    /\ MemoryOf(p)' = [v \in Pages |-> PageOf(p, v)']

LEMMA OwnStep ==
  ASSUME NEW p \in Procs, OwnShape(p)
  PROVE  /\ \A q \in Procs \ {p} : Memories'[q] = Memories[q]
         /\ Memories[p] # None /\ Memories'[p] # None
         /\ \A v \in Pages : Memories[p][v] = PageOf(p, v) /\ Memories'[p][v] = PageOf(p, v)'
<1>1. Memories[p] = MemoryOf(p) /\ Memories'[p] = MemoryOf(p)'
  BY DEF Memories, OwnShape
<1>2. \A q \in Procs \ {p} : Memories'[q] = Memories[q]
  BY DEF Memories, OwnShape, MemoryIn
<1>3. MemoryOf(p) # None /\ MemoryOf(p)' # None
  BY DEF OwnShape
<1>4. \A v \in Pages : MemoryOf(p)[v] = PageOf(p, v) /\ MemoryOf(p)'[v] = PageOf(p, v)'
  BY DEF OwnShape
<1> QED
  BY <1>1, <1>2, <1>3, <1>4

LEMMA SameStep ==
  ASSUME NEW p \in Procs, OwnShape(p), \A v \in Pages : PageOf(p, v)' = PageOf(p, v)
  PROVE  Memories' = Memories
<1>1. MemoryOf(p)' = MemoryOf(p)
  BY DEF OwnShape
<1>2. MemoryIn(p)' = MemoryIn(p)
  BY <1>1 DEF OwnShape, MemoryIn
<1>3. \A q \in Procs : MemoryIn(q)' = MemoryIn(q)
  BY <1>2 DEF OwnShape
<1> QED
  BY <1>3, StutterStep

LEMMA MapStep ==
  ASSUME NEW p \in Procs, OwnShape(p),
         \A v \in Pages : \/ PageOf(p, v)' = PageOf(p, v)
                          \/ PageOf(p, v) = None /\ PageOf(p, v)' \in {None, 0}
  PROVE  Private!Map(p)
BY OwnStep DEF Private!Map, Private!Own

LEMMA UnseenMaps ==
  ASSUME NEW p \in Procs, Alive(p), MemoryOf(p) # None, Memories' = Memories
  PROVE  Private!Map(p)
<1>1. Memories[p] # None
  BY DEF Memories
<1> QED
  BY <1>1 DEF Private!Map, Private!Own

LEMMA DropStep ==
  ASSUME NEW p \in Procs, NEW R \in SUBSET Pages, OwnShape(p),
         \A v \in Pages \ R : PageOf(p, v)' = PageOf(p, v),
         \A v \in R : PageOf(p, v)' = None \/ (PageOf(p, v) # None /\ PageOf(p, v)' = 0)
  PROVE  Private!Drop(p, R)
BY OwnStep DEF Private!Drop, Private!Own

LEMMA StoreStep ==
  ASSUME NEW p \in Procs, NEW u \in Pages, NEW x, OwnShape(p),
         \A v \in Pages \ {u} : PageOf(p, v)' = PageOf(p, v),
         PageOf(p, u) # None, PageOf(p, u)' = x
  PROVE  Private!Store(p, u, x)
BY OwnStep DEF Private!Store, Private!Own

LEMMA ForkedStep ==
  ASSUME NEW p \in Procs, NEW c \in Procs, \A q \in Procs \ {c} : MemoryIn(q)' = MemoryIn(q),
         Alive(p), MemoryOf(p) # None, ~Alive(c), Alive(c)', MemoryOf(c)' = MemoryOf(p)
  PROVE  Private!Fork(p, c)
<1>1. Memories[p] # None /\ Memories[c] = None /\ Memories[p] = MemoryOf(p)
  BY DEF Memories
<1>2. Memories' = [Memories EXCEPT ![c] = Memories[p]]
  BY <1>1 DEF Memories, MemoryIn
<1> QED
  BY <1>1, <1>2 DEF Private!Fork

-----------------------------------------------------------------------------
(* Steps of a process on its own memory.                                    *)

\* What a step leaves: the memories as they are; p's own, with new pages; or p gone.
Unseen == MemoryInv' /\ Memories' = Memories
Fresh(p) == MemoryInv' /\ Private!Map(p)
Ended(p) == MemoryInv' /\ Private!Exit(p)

LEMMA OthersKept ==
  ASSUME IInv, IInv', MemoryType, MemoryType', ContentKept, NEW x \in Procs,
         NEW npte, NEW nm, MemoryShape(x, npte, nm),
         \A q \in Procs \ {x} : Alive(q)' <=> Alive(q)
  PROVE  \A q \in Procs \ {x} : MemoryIn(q)' = MemoryIn(q)
<1> TAKE q \in Procs \ {x}
<1>1. pt'[q].pte = pt[q].pte /\ mm'[q] = mm[q]
  BY DEF MemoryShape
<1>2. MemoryOf(q)' = MemoryOf(q)
  BY <1>1, MemoryKept
<1> QED
  BY <1>2 DEF MemoryIn

\* Process p is in a fault or a call and changes no more than its own place in the kernel.
LocalPlace(p) ==
    /\ kern[p].pc \in {"user", "copy", "put"}
    /\ \A q \in Procs \ {p} : kern'[q] = kern[q]
    /\ kern'[p].pc \in {"user", "copy", "put"} \/ (kern'[p].pc = "destroy" /\ kern'[p].child = p)

LEMMA LocalInv ==
  ASSUME IInv, IInv', MemoryInv, NEW p \in Procs, NEW npte, NEW nm,
         MemoryShape(p, npte, nm), LocalPlace(p)
  PROVE  MemoryInv'
<1>1. SpaceMemoryInv'
  BY MemoryStep DEF MemoryInv
<1>2. \A q \in Procs \ {p} : pt'[q].pte = pt[q].pte /\ mm'[q] = mm[q]
  BY DEF MemoryShape
<1>3. ASSUME NEW r \in Procs, kern'[r].pc \in {"fork", "share"}
      PROVE  kern'[r] = kern[r] /\ r # p /\ kern[r].child # p
  <2>1. r # p
    BY <1>3 DEF LocalPlace
  <2>2. kern'[r] = kern[r]
    BY <2>1 DEF LocalPlace
  <2>3. Parent(r)
    BY <1>3, <2>2 DEF Parent
  <2>4. kern[kern[r].child].pc = "born"
    BY <2>3, Children
  <2> QED
    BY <2>1, <2>2, <2>4 DEF LocalPlace
<1>4. ForkInv'
  BY <1>2, <1>3, ForkKept DEF MemoryInv
<1> QED
  BY <1>1, <1>4 DEF MemoryInv

LEMMA LocalMemory ==
  ASSUME IInv, IInv', MemoryInv, NEW p \in Procs, NEW npte, NEW nm,
         MemoryShape(p, npte, nm), LocalPlace(p), ContentKept
  PROVE  /\ \A q \in Procs \ {p} : MemoryIn(q)' = MemoryIn(q)
         /\ kern'[p].pc = "destroy" => Private!Exit(p)
         /\ kern'[p].pc # "destroy" => OwnShape(p)
         /\ \A v \in Pages : pt[p].pte[v] # None /\ npte[v] # None /\ npte[v].f = pt[p].pte[v].f =>
               content'[npte[v].f] = content[pt[p].pte[v].f]
         /\ pt'[p].pte = npte /\ mm'[p] = nm
         /\ \A v \in Pages : pt[p].pte[v] # None =>
               content[pt[p].pte[v].f] # None /\ Covers(mm[p].vmas, v)
<1>1. MemoryType /\ MemoryType'
  BY LocalInv DEF MemoryInv, SpaceMemoryInv
<1>2. \A q \in Procs \ {p} : Alive(q)' <=> Alive(q)
  BY DEF LocalPlace, Alive
<1>3. \A q \in Procs \ {p} : MemoryIn(q)' = MemoryIn(q)
  BY <1>1, <1>2, OthersKept
<1>4. Alive(p)
  BY DEF LocalPlace, Alive
<1>5. MemoryOf(p) # None /\ MemoryOf(p)' # None
  BY <1>1, MemoryTyped
<1>6. kern'[p].pc = "destroy" => ~Alive(p)'
  BY DEF LocalPlace, Alive
<1>7. kern'[p].pc # "destroy" => Alive(p)'
  BY DEF LocalPlace, Alive
<1>8. kern'[p].pc = "destroy" => Private!Exit(p)
  BY <1>3, <1>4, <1>5, <1>6, ExitStep
<1>9. kern'[p].pc # "destroy" => OwnShape(p)
  BY <1>1, <1>3, <1>4, <1>5, <1>7, MemoryIs DEF OwnShape
<1>10. pt'[p].pte = npte /\ mm'[p] = nm
  BY DEF MemoryShape
<1>11. ASSUME NEW v \in Pages, pt[p].pte[v] # None, npte[v] # None, npte[v].f = pt[p].pte[v].f
       PROVE  content'[npte[v].f] = content[pt[p].pte[v].f]
  BY <1>10, <1>11, PageKept
<1>12. \A v \in Pages : pt[p].pte[v] # None =>
          content[pt[p].pte[v].f] # None /\ Covers(mm[p].vmas, v)
  BY DEF MemoryInv, SpaceMemoryInv, ContentInv, CoverInv
<1> QED
  BY <1>3, <1>8, <1>9, <1>10, <1>11, <1>12

LEMMA SameMm ==
  ASSUME MemoryInv, NEW p \in Procs
  PROVE  /\ mm[p] \in MmType /\ mm = [mm EXCEPT ![p] = mm[p]]
         /\ content \in [Frames -> Values \cup {0, None}]
BY DEF MemoryInv, SpaceMemoryInv, MemoryType

\* Entries and frames stay as they are, process p may get areas for more pages.
LEMMA MoreAreas ==
  ASSUME IInv, IInv', MemoryInv, NEW p \in Procs, LocalPlace(p), NEW nm \in MmType,
         \A q \in Procs : pt'[q].pte = pt[q].pte,
         ContentKept, content' \in [Frames -> Values \cup {0, None}],
         mm' = [mm EXCEPT ![p] = nm],
         \A v \in Pages : Covers(mm[p].vmas, v) => Covers(nm.vmas, v)
  PROVE  /\ kern'[p].pc = "destroy" => Ended(p)
         /\ kern'[p].pc # "destroy" => Fresh(p)
         /\ kern'[p].pc # "destroy" /\ nm = mm[p] => Unseen
<1>1. mm \in [Procs -> MmType] /\ \A v \in Pages : pt[p].pte[v] # None => Covers(nm.vmas, v)
  BY DEF MemoryInv, SpaceMemoryInv, MemoryType, CoverInv
<1>2. MemoryShape(p, pt[p].pte, nm)
  BY <1>1 DEF MemoryShape, ContentKept
<1>3. MemoryInv'
  BY <1>2, LocalInv
<1>4. CASE kern'[p].pc = "destroy"
  BY <1>2, <1>3, <1>4, LocalMemory DEF Ended
<1>5. CASE kern'[p].pc # "destroy"
  <2>1. /\ OwnShape(p) /\ mm'[p] = nm /\ pt'[p].pte = pt[p].pte
        /\ \A v \in Pages : pt[p].pte[v] # None => Covers(mm[p].vmas, v)
        /\ \A v \in Pages : pt[p].pte[v] # None => content'[pt[p].pte[v].f] = content[pt[p].pte[v].f]
    BY <1>2, <1>5, LocalMemory
  <2>2. ASSUME NEW v \in Pages
        PROVE  \/ PageOf(p, v)' = PageOf(p, v)
               \/ PageOf(p, v) = None /\ PageOf(p, v)' \in {None, 0}
    BY <2>1 DEF PageOf
  <2>3. Fresh(p)
    BY <1>3, <2>1, <2>2, MapStep DEF Fresh
  <2>4. ASSUME nm = mm[p]
        PROVE  Unseen
    <3>1. \A v \in Pages : PageOf(p, v)' = PageOf(p, v)
      BY <2>1, <2>4 DEF PageOf
    <3> QED
      BY <1>3, <2>1, <3>1, SameStep DEF Unseen
  <2> QED
    BY <1>5, <2>3, <2>4
<1> QED
  BY <1>4, <1>5

\* Nothing changes but the TLB and the place in the kernel.
LEMMA QuietMemory ==
  ASSUME IInv, IInv', MemoryInv, NEW p \in Procs, LocalPlace(p),
         UNCHANGED <<pt, mm, refcount, content>>
  PROVE  /\ kern'[p].pc = "destroy" => Ended(p)
         /\ kern'[p].pc # "destroy" => Unseen
<1>1. PICK nm \in MmType : nm = mm[p] /\ mm' = [mm EXCEPT ![p] = nm]
  BY SameMm
<1>2. ContentKept /\ content' \in [Frames -> Values \cup {0, None}]
  BY SameMm DEF ContentKept
<1> QED
  BY <1>1, <1>2, MoreAreas

LEMMA MmMade ==
  ASSUME NEW x \in MmType, NEW vs \in Seq(VmaType)
  PROVE  \E y \in MmType : y = [x EXCEPT !.vmas = vs] /\ y.vmas = vs
<1>1. PICK y : y = [x EXCEPT !.vmas = vs]
  OBVIOUS
<1>2. y \in MmType /\ y.vmas = vs
  BY <1>1 DEF MmType
<1> QED
  BY <1>1, <1>2, Zenon

\* mmap: the new area has no page yet.
LEMMA MmMapMemory ==
  ASSUME IInv, IInv', MemoryInv, NEW p \in Procs, NEW m \in MapArgs, mm_map(p, m[1], m[2], m[3])
  PROVE  Fresh(p)
<1>1. m[2] \in Nat /\ m[3] \in Prots
  BY CallsAssumption
<1>2. PICK a \in Pages : mm' = [mm EXCEPT ![p].vmas = insert_vma(@, Vma(a, a + m[2], m[3], "anon"))]
  BY DEF mm_map
<1>3. PICK x \in VmaType : x = Vma(a, a + m[2], m[3], "anon")
  <2>1. a \in Nat /\ a + m[2] \in Nat
    BY <1>1, PagesAreNat
  <2> QED
    BY <1>1, <2>1 DEF Vma, VmaType
<1>4. mm \in [Procs -> MmType] /\ mm[p] \in MmType
  BY DEF MemoryInv, SpaceMemoryInv, MemoryType
<1>5. PICK vs \in Seq(VmaType) : vs = mm[p].vmas
  BY <1>4 DEF MmType
<1>6. PICK nvs \in Seq(VmaType) : /\ nvs = insert_vma(vs, x)
                                  /\ \A v : Covers(vs, v) => Covers(nvs, v)
  BY Inserted
<1>7. PICK nm \in MmType : nm = [mm[p] EXCEPT !.vmas = nvs] /\ nm.vmas = nvs
  BY <1>4, MmMade
<1>8. mm' = [mm EXCEPT ![p] = nm]
  BY <1>2, <1>3, <1>4, <1>5, <1>6, <1>7
<1>9. LocalPlace(p) /\ kern'[p].pc # "destroy" /\ UNCHANGED <<pt, refcount, content>>
  BY DEF mm_map, LocalPlace, Runs
<1>10. ContentKept /\ content' \in [Frames -> Values \cup {0, None}]
  BY <1>9, SameMm DEF ContentKept
<1> QED
  BY <1>5, <1>6, <1>7, <1>8, <1>9, <1>10, MoreAreas

\* ForgetFreed forgets no frame that is in use.
LEMMA ForgetKeeps ==
  ASSUME MemoryInv, ForgetFreed
  PROVE  ContentKept /\ content' \in [Frames -> Values \cup {0, None}]
BY DEF ForgetFreed, ContentKept, MemoryInv, SpaceMemoryInv, MemoryType

\* Pages S of process p are unmapped and its areas become vs.
UnmapShape(p, S, vs, nm) ==
    /\ \A v \in Pages : pt[p].pte[v] # None /\ v \notin S => Covers(vs, v)
    /\ nm.vmas = vs
    /\ mm' = [mm EXCEPT ![p] = nm]

\* The pages R are given up; the areas get larger and no page goes.
GivesUp(p, S, R, vs) ==
    /\ \A v \in Pages \ R : v \notin S /\ (Covers(vs, v) <=> Covers(mm[p].vmas, v))
    /\ \A v \in R : /\ Covers(mm[p].vmas, v) => v \in S
                    /\ Covers(vs, v) => Covers(mm[p].vmas, v)
Grows(p, S, vs) ==
    \A v \in Pages : v \notin S /\ (Covers(mm[p].vmas, v) => Covers(vs, v))

LEMMA UnmapMemory ==
  ASSUME IInv, IInv', MemoryInv, NEW p \in Procs, Runs(p), NEW S, NEW vs, NEW brk,
         NEW nm \in MmType, Unmap(p, S, vs, brk), UnmapShape(p, S, vs, nm)
  PROVE  /\ MemoryInv'
         /\ \A R \in SUBSET Pages : GivesUp(p, S, R, vs) => Private!Drop(p, R)
         /\ Grows(p, S, vs) => Private!Map(p)
<1>1. PICK G \in SUBSET Pages : G = Mapped(p, S)
  BY DEF Mapped
<1>2. \A v \in Pages : v \in G <=> v \in S /\ pt[p].pte[v] # None
  BY <1>1 DEF Mapped
<1>3. PICK npte : npte = [v \in Pages |-> IF v \in G THEN None ELSE pt[p].pte[v]]
  OBVIOUS
<1>4. /\ mm \in [Procs -> MmType] /\ pt \in [Procs -> PtType]
      /\ ForgetFreed /\ kern' = kern
  BY DEF MemoryInv, SpaceMemoryInv, MemoryType, IInv, SpacesInv, TypeOK, Unmap
<1>5. \A q \in Procs : pt'[q].pte = IF q = p THEN npte ELSE pt[q].pte
  <2>1. PICK E : pt' = [pt EXCEPT ![p].pte = [v \in Pages |-> IF v \in G THEN None ELSE @[v]],
                                  ![p].tables = @ \ E]
    BY <1>1 DEF Unmap
  <2>2. \A q \in Procs : pt[q] \in PtType
    BY <1>4
  <2> QED
    BY <1>3, <1>4, <2>1, <2>2 DEF PtType
<1>6. \A q \in Procs : mm'[q] = IF q = p THEN nm ELSE mm[q]
  BY <1>4 DEF UnmapShape
<1>7. mm' \in [Procs -> MmType]
  BY <1>4 DEF UnmapShape
<1>8. ContentKept /\ content' \in [Frames -> Values \cup {0, None}]
  BY <1>4, ForgetKeeps
<1>9. \A v \in Pages : npte[v] # None => npte[v] = pt[p].pte[v] /\ v \notin S /\ Covers(nm.vmas, v)
  BY <1>2, <1>3 DEF UnmapShape
<1>10. MemoryShape(p, npte, nm)
  BY <1>5, <1>6, <1>7, <1>8, <1>9 DEF MemoryShape, ContentKept
<1>11. LocalPlace(p) /\ kern'[p].pc # "destroy"
  BY <1>4 DEF LocalPlace, Runs
<1>12. MemoryInv'
  BY <1>10, <1>11, LocalInv
<1>13. /\ OwnShape(p) /\ pt'[p].pte = npte /\ mm'[p] = nm
       /\ \A v \in Pages : pt[p].pte[v] # None /\ npte[v] # None /\ npte[v].f = pt[p].pte[v].f =>
               content'[npte[v].f] = content[pt[p].pte[v].f]
       /\ \A v \in Pages : pt[p].pte[v] # None =>
               content[pt[p].pte[v].f] # None /\ Covers(mm[p].vmas, v)
  BY <1>8, <1>10, <1>11, LocalMemory
<1>14. \A v \in Pages : pt[p].pte[v] # None /\ npte[v] # None =>
               content'[npte[v].f] = content[pt[p].pte[v].f]
  BY <1>9, <1>13
<1>15. \A v \in Pages :
         /\ PageOf(p, v) = IF ~Covers(mm[p].vmas, v) THEN None
                           ELSE IF pt[p].pte[v] = None THEN 0 ELSE content[pt[p].pte[v].f]
         /\ PageOf(p, v)' = IF ~Covers(vs, v) THEN None
                            ELSE IF npte[v] = None THEN 0 ELSE content'[npte[v].f]
  BY <1>13 DEF PageOf, UnmapShape
<1>16. ASSUME NEW R \in SUBSET Pages, GivesUp(p, S, R, vs)
       PROVE  Private!Drop(p, R)
  <2>1. ASSUME NEW v \in Pages \ R
        PROVE  PageOf(p, v)' = PageOf(p, v)
    <3>1. /\ npte[v] = pt[p].pte[v]
          /\ Covers(vs, v) <=> Covers(mm[p].vmas, v)
      BY <1>2, <1>3, <1>16 DEF GivesUp
    <3> QED
      BY <1>14, <1>15, <3>1
  <2>2. ASSUME NEW v \in R
        PROVE  PageOf(p, v)' = None \/ (PageOf(p, v) # None /\ PageOf(p, v)' = 0)
    <3>1. CASE Covers(vs, v)
      <4>1. Covers(mm[p].vmas, v) /\ v \in S
        BY <1>16, <3>1 DEF GivesUp
      <4>2. npte[v] = None
        BY <1>9, <4>1
      <4> QED
        BY <1>13, <1>15, <3>1, <4>1, <4>2, NoneAssumption
    <3>2. CASE ~Covers(vs, v)
      BY <1>15, <3>2
    <3> QED
      BY <3>1, <3>2
  <2> QED
    BY <1>13, <2>1, <2>2, DropStep
<1>17. ASSUME Grows(p, S, vs)
       PROVE  Private!Map(p)
  <2>1. ASSUME NEW v \in Pages
        PROVE  \/ PageOf(p, v)' = PageOf(p, v)
               \/ PageOf(p, v) = None /\ PageOf(p, v)' \in {None, 0}
    <3>1. npte[v] = pt[p].pte[v]
      BY <1>2, <1>3, <1>17 DEF Grows
    <3>2. CASE pt[p].pte[v] = None
      BY <1>15, <1>17, <3>1, <3>2 DEF Grows
    <3>3. CASE pt[p].pte[v] # None
      <4>1. Covers(vs, v) /\ Covers(mm[p].vmas, v)
        BY <1>13, <1>17, <3>3 DEF Grows
      <4> QED
        BY <1>14, <1>15, <3>1, <3>3, <4>1
    <3> QED
      BY <3>2, <3>3
  <2> QED
    BY <1>13, <2>1, MapStep
<1> QED
  BY <1>12, <1>16, <1>17

\* munmap: what stays mapped is outside of the range.
LEMMA MmUnmapMemory ==
  ASSUME IInv, IInv', MemoryInv, NEW p \in Procs, NEW m \in UnmapArgs, mm_unmap(p, m[1], m[2])
  PROVE  MemoryInv' /\ Private!Drop(p, Pages \cap (m[1] .. m[1] + m[2] - 1))
<1>1. PICK s \in Nat, len \in Nat : s = m[1] /\ len = m[2] /\ len # 0
  BY CallsAssumption
<1>2. mm \in [Procs -> MmType] /\ mm[p] \in MmType
  BY DEF MemoryInv, SpaceMemoryInv, MemoryType
<1>3. PICK vs \in Seq(VmaType) : vs = mm[p].vmas
  BY <1>2 DEF MmType
<1>4. PICK S, nvs, split :
         /\ S = {v \in s .. s + len - 1 : find_vma(p, v) # 0}
         /\ nvs = FlattenSeq([i \in DOMAIN vs |-> Left(vs[i], s, s + len, split)])
         /\ Runs(p) /\ Unmap(p, S, nvs, mm[p].brk)
  BY <1>1, <1>3, Zenon DEF mm_unmap
<1>5. PICK ss : ss = [i \in DOMAIN vs |-> Left(vs[i], s, s + len, split)]
  OBVIOUS
<1>6. ASSUME NEW i \in DOMAIN vs
      PROVE  /\ ss[i] \in Seq(VmaType)
             /\ \A v \in Nat : /\ Covers(ss[i], v) => Within(v, vs[i])
                               /\ Within(v, vs[i]) /\ (v < s \/ v >= s + len) => Covers(ss[i], v)
  <2>1. PICK a \in VmaType : a = vs[i]
    BY ElementOfSeq, LenProperties
  <2>2. s + len \in Nat /\ s < s + len
    BY <1>1
  <2>3. ss[i] = Left(a, s, s + len, split)
    BY <1>5, <2>1
  <2> QED
    BY <2>1, <2>2, <2>3, LeftPieces
<1>7. ss \in Seq(Seq(VmaType)) /\ DOMAIN ss = DOMAIN vs
  <2>1. PICK n \in Nat : DOMAIN vs = 1 .. n
    BY LenProperties
  <2>2. ss \in [1 .. n -> Seq(VmaType)]
    BY <1>5, <1>6, <2>1
  <2> QED
    BY <1>5, <2>1, <2>2, IsASeq
<1>8. nvs \in Seq(VmaType) /\ \A v : Covers(nvs, v) <=> \E i \in DOMAIN vs : Covers(ss[i], v)
  BY <1>4, <1>5, <1>7, Flattened, Zenon
<1>9. \A v \in Pages : Covers(nvs, v) => Covers(vs, v)
  <2>1. ASSUME NEW v \in Pages, Covers(nvs, v)
        PROVE  Covers(vs, v)
    <3>1. PICK i \in DOMAIN vs : Covers(ss[i], v)
      BY <1>8, <2>1
    <3>2. Within(v, vs[i])
      BY <1>6, <3>1, PagesAreNat
    <3> QED
      BY <3>2 DEF Covers
  <2> QED
    BY <2>1
<1>10. ASSUME NEW v \in Pages, pt[p].pte[v] # None, v \notin S
       PROVE  Covers(nvs, v)
  <2>1. v \in Nat /\ Covers(vs, v)
    BY <1>3, <1>10, PagesAreNat DEF MemoryInv, SpaceMemoryInv, CoverInv
  <2>2. find_vma(p, v) # 0
    <3>1. AreaOf(vs, v) \in DOMAIN vs
      BY <2>1, Searched
    <3>2. 0 \notin DOMAIN vs
      BY LenProperties
    <3> QED
      BY <1>3, <3>1, <3>2 DEF find_vma
  <2>3. v < s \/ v >= s + len
    BY <1>4, <1>10, <2>1, <2>2
  <2>4. PICK i \in DOMAIN vs : Within(v, vs[i])
    BY <2>1 DEF Covers
  <2>5. Covers(ss[i], v)
    BY <1>6, <2>1, <2>3, <2>4
  <2> QED
    BY <1>8, <2>5
<1>11. PICK nm \in MmType : nm = [mm[p] EXCEPT !.vmas = nvs] /\ nm.vmas = nvs
  BY <1>2, <1>8, MmMade
<1>12. mm' = [mm EXCEPT ![p] = nm]
  <2>1. mm' = [mm EXCEPT ![p].vmas = nvs, ![p].brk = mm[p].brk]
    BY <1>4 DEF Unmap
  <2>2. nm.brk = mm[p].brk /\ nm = [nm EXCEPT !.brk = mm[p].brk]
    BY <1>2, <1>11 DEF MmType
  <2> QED
    BY <1>2, <1>11, <2>1, <2>2
<1>13. UnmapShape(p, S, nvs, nm)
  BY <1>10, <1>11, <1>12 DEF UnmapShape
<1>14. PICK R \in SUBSET Pages : R = Pages \cap (s .. s + len - 1)
  OBVIOUS
<1>15. ASSUME NEW v \in Pages, Covers(vs, v)
       PROVE  find_vma(p, v) # 0
  <2>1. AreaOf(vs, v) \in DOMAIN vs
    BY <1>15, PagesAreNat, Searched
  <2>2. 0 \notin DOMAIN vs
    BY LenProperties
  <2> QED
    BY <1>3, <2>1, <2>2 DEF find_vma
<1>16. ASSUME NEW v \in Pages \ R
       PROVE  v \notin S /\ (Covers(nvs, v) <=> Covers(vs, v))
  <2>1. v \in Nat /\ (v < s \/ v >= s + len)
    BY <1>1, <1>14, PagesAreNat
  <2>2. v \notin S
    BY <1>4, <1>14
  <2>3. ASSUME Covers(vs, v)
        PROVE  Covers(nvs, v)
    <3>1. PICK i \in DOMAIN vs : Within(v, vs[i])
      BY <2>3 DEF Covers
    <3>2. Covers(ss[i], v)
      BY <1>6, <2>1, <3>1
    <3> QED
      BY <1>8, <3>2
  <2> QED
    BY <1>9, <2>2, <2>3
<1>17. \A v \in R : Covers(vs, v) => v \in S
  BY <1>4, <1>14, <1>15
<1>18. GivesUp(p, S, R, nvs)
  BY <1>3, <1>9, <1>16, <1>17 DEF GivesUp
<1>19. MemoryInv' /\ Private!Drop(p, R)
  BY <1>4, <1>13, <1>18, UnmapMemory
<1> QED
  BY <1>1, <1>14, <1>19

\* sbrk: the heap's last area ends elsewhere, and the pages above its new end go.
LEMMA MmSbrkMemory ==
  ASSUME IInv, IInv', MemoryInv, NEW p \in Procs, NEW inc \in SbrkArgs, mm_sbrk(p, inc)
  PROVE  /\ MemoryInv'
         /\ Private!Map(p) \/ \E S \in SUBSET AboveBreak(p, inc) : Private!Drop(p, S)
<1>1. inc \in Int
  BY CallsAssumption
<1>2. mm \in [Procs -> MmType] /\ mm[p] \in MmType
  BY DEF MemoryInv, SpaceMemoryInv, MemoryType
<1>3. PICK vs \in Seq(VmaType), b \in Nat, b0 \in Nat :
         vs = mm[p].vmas /\ b = mm[p].brk /\ b0 = mm[p].brk_start
  BY <1>2 DEF MmType
<1>4. PICK n \in Nat : n = Len(vs) /\ DOMAIN vs = 1 .. n
  BY LenProperties
<1>5. PICK I : I = {i \in 1 .. n : vs[i].kind = "heap"}
  OBVIOUS
<1>6. PICK h, brk, end :
         /\ h = IF I # {} THEN Max(I) ELSE 0
         /\ h # 0 /\ brk = mm[p].brk + inc
         /\ brk = b + inc /\ (inc < 0 => brk >= b0)
         /\ end = MaxOf(AlignUp(brk), vs[h].start + 1)
         /\ Runs(p) /\ Unmap(p, end .. vs[h].end - 1, [vs EXCEPT ![h].end = end], brk)
  BY <1>3, <1>4, <1>5 DEF mm_sbrk, SelectLastInSeq
<1>7. h \in DOMAIN vs
  <2>1. I # {} /\ h = Max(I)
    BY <1>6, Zenon
  <2>2. I \in SUBSET (1 .. n)
    BY <1>5
  <2>3. Max(I) \in I
    BY <2>1, <2>2, LastOf
  <2> QED
    BY <1>4, <2>1, <2>2, <2>3
<1>8. brk \in Nat
  BY <1>1, <1>3, <1>6
<1>9. PICK old \in VmaType : old = vs[h] /\ old.start \in Nat /\ old.end \in Nat
  <2>1. vs[h] \in VmaType
    BY <1>4, <1>7, ElementOfSeq
  <2> QED
    BY <2>1 DEF VmaType
<1>10. end \in Nat
  <2>1. AlignUp(brk) \in Nat
    BY <1>8 DEF AlignUp
  <2>2. end = MaxOf(AlignUp(brk), old.start + 1)
    BY <1>6, <1>9
  <2> QED
    BY <1>9, <2>1, <2>2 DEF MaxOf
<1>11. PICK a \in VmaType : a = [old EXCEPT !.end = end]
  BY <1>9, <1>10 DEF VmaType
<1>12. a.start = old.start /\ a.end = end
  BY <1>11 DEF VmaType
<1>13. PICK nvs : nvs = [vs EXCEPT ![h] = a] /\ nvs = [vs EXCEPT ![h].end = end]
  BY <1>9, <1>11
<1>14. nvs \in Seq(VmaType)
  <2>1. [vs EXCEPT ![h] = a] \in Seq(VmaType)
    BY <1>7, Moved, Zenon
  <2> QED
    BY <1>13, <2>1
<1>15. \A v : /\ Covers(nvs, v) => Covers(vs, v) \/ Within(v, a)
              /\ Covers(vs, v) => Covers(nvs, v) \/ Within(v, vs[h])
              /\ Within(v, a) => Covers(nvs, v)
  <2>1. \A v : /\ Covers([vs EXCEPT ![h] = a], v) => Covers(vs, v) \/ Within(v, a)
               /\ Covers(vs, v) => Covers([vs EXCEPT ![h] = a], v) \/ Within(v, vs[h])
               /\ Within(v, a) => Covers([vs EXCEPT ![h] = a], v)
    BY <1>7, Moved, Zenon
  <2>2. nvs = [vs EXCEPT ![h] = a]
    BY <1>13
  <2> QED
    BY <2>1, <2>2, Zenon
<1>16. \A v : Within(v, old) => Covers(vs, v)
  BY <1>7, <1>9 DEF Covers
<1>17. PICK S : S = end .. old.end - 1
  OBVIOUS
<1>18. ASSUME NEW v \in Pages
       PROVE  /\ Within(v, old) <=> old.start <= v /\ v < old.end
              /\ Within(v, a) <=> old.start <= v /\ v < end
              /\ v \in S <=> end <= v /\ v < old.end
  <2>1. v \in Nat
    BY PagesAreNat
  <2> QED
    BY <1>9, <1>10, <1>12, <1>17, <2>1 DEF Within
<1>19. ASSUME NEW v \in Pages, pt[p].pte[v] # None, v \notin S
       PROVE  Covers(nvs, v)
  <2>1. Covers(vs, v)
    BY <1>3, <1>19 DEF MemoryInv, SpaceMemoryInv, CoverInv
  <2>2. v \in Nat
    BY PagesAreNat
  <2>3. Within(v, old) => Within(v, a)
    BY <1>9, <1>10, <1>18, <1>19, <2>2
  <2> QED
    BY <1>9, <1>15, <2>1, <2>3
<1>20. PICK R \in SUBSET Pages : R = Pages \cap S
  OBVIOUS
<1>25. \/ \A v \in Pages : /\ Covers(nvs, v) => Covers(vs, v)
                           /\ v \notin S => (Covers(vs, v) => Covers(nvs, v))
       \/ \A v \in Pages : v \notin S /\ (Covers(vs, v) => Covers(nvs, v))
  <2>1. CASE end <= old.end
    <3>1. \A v \in Pages : /\ Within(v, a) => Within(v, old)
                           /\ v \notin S => (Within(v, old) => Within(v, a))
      BY <1>9, <1>10, <1>18, <2>1, PagesAreNat
    <3> QED
      BY <1>9, <1>15, <1>16, <3>1
  <2>2. CASE old.end < end
    <3>1. \A v \in Pages : v \notin S /\ (Within(v, old) => Within(v, a))
      BY <1>9, <1>10, <1>18, <2>2, PagesAreNat
    <3> QED
      BY <1>9, <1>15, <3>1
  <2> QED
    BY <1>9, <1>10, <2>1, <2>2
<1>26. GivesUp(p, S, R, nvs) \/ Grows(p, S, nvs)
  BY <1>3, <1>20, <1>25 DEF GivesUp, Grows
<1>27. R \in SUBSET AboveBreak(p, inc)
  <2>1. h \in I
    <3>1. I # {} /\ h = Max(I) /\ I \in SUBSET (1 .. n)
      BY <1>5, <1>6, Zenon
    <3> QED
      BY <1>4, <3>1, LastOf
  <2>2. AlignUp(brk) \in Nat /\ end = MaxOf(AlignUp(brk), old.start + 1)
    BY <1>6, <1>8, <1>9 DEF AlignUp
  <2>3. AlignUp(brk) <= end /\ old.start < end
    BY <1>9, <2>2 DEF MaxOf
  <2>4. ASSUME NEW v \in R
        PROVE  v >= AlignUp(mm[p].brk + inc) /\ Within(v, vs[h])
    <3>1. PICK al \in Nat : al = AlignUp(brk)
      BY <2>2
    <3>2. v \in Pages /\ v \in Nat /\ v \in S
      BY <1>20, <2>4, PagesAreNat
    <3>3. end <= v /\ v < old.end /\ al <= end /\ old.start < end
      BY <1>18, <2>3, <3>1, <3>2
    <3>4. al <= v /\ old.start <= v /\ v < old.end
      BY <1>9, <1>10, <3>2, <3>3
    <3>5. Within(v, vs[h])
      BY <1>9, <1>18, <3>2, <3>4
    <3>6. v >= AlignUp(brk)
      BY <3>1, <3>2, <3>4
    <3> QED
      BY <1>6, <3>5, <3>6, Zenon
  <2> QED
    BY <1>3, <1>5, <1>7, <2>1, <2>4 DEF AboveBreak
<1>21. PICK nm \in MmType : nm = [mm[p] EXCEPT !.vmas = nvs, !.brk = brk] /\ nm.vmas = nvs
  <2>1. PICK x \in MmType : x = mm[p]
    BY <1>2
  <2>2. PICK ns \in Seq(VmaType), nb \in Nat : ns = nvs /\ nb = brk
    BY <1>8, <1>14, Zenon
  <2>3. PICK y : y = [x EXCEPT !.vmas = ns, !.brk = nb]
    OBVIOUS
  <2>4. y \in MmType /\ y.vmas = ns
    BY <2>3 DEF MmType
  <2> QED
    BY <2>1, <2>2, <2>3, <2>4
<1>22. Unmap(p, S, nvs, brk)
  BY <1>6, <1>9, <1>13, <1>17
<1>23. mm' = [mm EXCEPT ![p] = nm]
  <2>1. mm' = [mm EXCEPT ![p].vmas = nvs, ![p].brk = brk]
    BY <1>22 DEF Unmap
  <2> QED
    BY <1>2, <1>21, <2>1
<1>24. UnmapShape(p, S, nvs, nm)
  BY <1>19, <1>21, <1>23 DEF UnmapShape
<1> QED
  BY <1>6, <1>22, <1>24, <1>26, <1>27, UnmapMemory

\* A store changes one page of one process: the frame is in no other entry.
LEMMA WriteMemory ==
  ASSUME IInv, IInv', MemoryInv, NEW p \in Procs, NEW v \in Pages, NEW x \in Values, Write(p, v, x)
  PROVE  MemoryInv' /\ Private!Store(p, v, x)
<1>1. /\ Runs(p) /\ Seen(p, v) # None /\ Seen(p, v).w
      /\ content' = [content EXCEPT ![Seen(p, v).f] = x]
      /\ UNCHANGED <<sc, pt, mm, refcount, ntables, kern>>
  BY DEF Write
<1>2. PICK f \in Frames : /\ f = Seen(p, v).f /\ pt[p].pte[v] # None /\ pt[p].pte[v].f = f
                          /\ pt[p].pte[v].w
  BY <1>1, SeenAllowed, InUse
<1>3. /\ content \in [Frames -> Values \cup {0, None}] /\ MemoryType /\ StoreInv /\ CoverInv /\ ContentInv
      /\ x # None
  BY NoneAssumption DEF MemoryInv, SpaceMemoryInv, MemoryType
<1>4. /\ content' \in [Frames -> Values \cup {0, None}] /\ content'[f] = x
      /\ \A g \in Frames \ {f} : content'[g] = content[g]
  BY <1>1, <1>2, <1>3
<1>5. PICK nm \in MmType : nm = mm[p] /\ mm' = [mm EXCEPT ![p] = nm]
  BY <1>1, SameMm
<1>6. MemoryShape(p, pt[p].pte, nm)
  BY <1>1, <1>3, <1>4, <1>5 DEF MemoryShape, MemoryType, CoverInv
<1>7. LocalPlace(p) /\ \A q \in Procs : Alive(q)' <=> Alive(q)
  BY <1>1 DEF LocalPlace, Runs, Alive
<1>8. MemoryInv' /\ MemoryType'
  BY <1>6, <1>7, LocalInv DEF MemoryInv, SpaceMemoryInv
<1>9. ASSUME NEW q \in Procs, NEW u \in Pages, q # p \/ u # v
      PROVE  PageOf(q, u)' = PageOf(q, u)
  <2>1. CASE pt[q].pte[u] = None
    BY <1>1, <2>1 DEF PageOf
  <2>2. CASE pt[q].pte[u] # None
    <3>1. pt[q].pte[u].f \in Frames
      BY <2>2, InUse
    <3>2. pt[q].pte[u].f # f
      BY <1>2, <1>3, <1>9, <2>2 DEF StoreInv
    <3>3. content'[pt[q].pte[u].f] = content[pt[q].pte[u].f]
      BY <1>4, <3>1, <3>2
    <3> QED
      BY <1>1, <3>3 DEF PageOf
  <2> QED
    BY <2>1, <2>2
<1>10. \A q \in Procs \ {p} : MemoryIn(q)' = MemoryIn(q)
  <2> TAKE q \in Procs \ {p}
  <2>1. MemoryOf(q)' = MemoryOf(q)
    BY <1>3, <1>8, <1>9, MemoryIs, Zenon
  <2> QED
    BY <1>7, <2>1 DEF MemoryIn
<1>11. OwnShape(p)
  <2>1. Alive(p)
    BY <1>1 DEF Runs, Alive
  <2> QED
    BY <1>3, <1>7, <1>8, <1>10, <2>1, MemoryIs, MemoryTyped DEF OwnShape
<1>12. PageOf(p, v) # None /\ PageOf(p, v)' = x
  <2>1. Covers(mm[p].vmas, v) /\ content[f] # None
    BY <1>2, <1>3 DEF CoverInv, ContentInv
  <2> QED
    BY <1>1, <1>2, <1>4, <2>1 DEF PageOf
<1>13. Private!Store(p, v, x)
  BY <1>9, <1>11, <1>12, StoreStep
<1> QED
  BY <1>8, <1>13

USE MmAssumption

\* Nobody has an entry for a frame that is free.
LEMMA FreeFrame ==
  ASSUME IInv, NEW f \in Frames, refcount[f] = 0, NEW x
  PROVE  ReadOnlyFrame(f) /\ NotElsewhere(x, f)
<1>1. \A q \in Procs, u \in Pages : pt[q].pte[u] # None => pt[q].pte[u].f # f
  BY InUse
<1> QED
  BY <1>1 DEF ReadOnlyFrame, NotElsewhere

\* The frame of page v of process p becomes f, which is new or was the page's.
PageShape(p, v, e, nm) ==
    /\ pt[p].pte[v] # None \/ Covers(nm.vmas, v)
    /\ \A q \in Procs : pt'[q].pte = IF q = p THEN [pt[p].pte EXCEPT ![v] = e] ELSE pt[q].pte
    /\ mm' = [mm EXCEPT ![p] = nm]
    /\ \A u \in Pages : Covers(mm[p].vmas, u) => Covers(nm.vmas, u)
    /\ content' \in [Frames -> Values \cup {0, None}]
    /\ ContentKept
    /\ \/ pt[p].pte[v] # None /\ pt[p].pte[v].f = e.f
       \/ e.f \in Frames /\ refcount[e.f] = 0 /\ content'[e.f] # None
    /\ NotElsewhere(p, e.f)
    /\ content'[e.f] = IF pt[p].pte[v] = None THEN 0 ELSE content[pt[p].pte[v].f]

LEMMA PageMemory ==
  ASSUME IInv, IInv', MemoryInv, NEW p \in Procs, NEW v \in Pages, NEW e \in PteType,
         NEW nm \in MmType, LocalPlace(p), kern'[p].pc # "destroy", PageShape(p, v, e, nm)
  PROVE  /\ Fresh(p)
         /\ pt[p].pte[v] # None /\ nm = mm[p] => Unseen
<1>1. pt[p].pte \in [Pages -> PteType \cup {None}] /\ e # None
  BY OwnTypes, MmAssumption
<1>2. PICK npte : npte = [pt[p].pte EXCEPT ![v] = e]
  OBVIOUS
<1>3. npte[v] = e /\ \A u \in Pages \ {v} : npte[u] = pt[p].pte[u]
  BY <1>1, <1>2
<1>4. mm \in [Procs -> MmType] /\ MemoryType /\ CoverInv /\ ContentInv
  BY DEF MemoryInv, SpaceMemoryInv, MemoryType
<1>5. \A u \in Pages : pt[p].pte[u] # None => Covers(mm[p].vmas, u) /\ Covers(nm.vmas, u)
  BY <1>4 DEF PageShape, CoverInv
<1>6. Covers(nm.vmas, v)
  BY <1>5 DEF PageShape
<1>7. \A u \in Pages : npte[u] # None => Covers(nm.vmas, u)
  BY <1>3, <1>5, <1>6
<1>8. \A u \in Pages : npte[u] # None =>
          \/ pt[p].pte[u] # None /\ npte[u].f = pt[p].pte[u].f
          \/ content'[npte[u].f] # None /\ ReadOnlyFrame(npte[u].f)
  BY <1>3, FreeFrame DEF PageShape
<1>9. \A u \in Pages : npte[u] # None /\ npte[u].w =>
          npte[u] = pt[p].pte[u] \/ NotElsewhere(p, npte[u].f)
  BY <1>3 DEF PageShape
<1>10. /\ \A q \in Procs : mm'[q] = IF q = p THEN nm ELSE mm[q]
       /\ mm' \in [Procs -> MmType]
  BY <1>4 DEF PageShape
<1>11. ContentKept /\ content' \in [Frames -> Values \cup {0, None}]
       /\ \A q \in Procs : pt'[q].pte = IF q = p THEN npte ELSE pt[q].pte
  BY <1>2 DEF PageShape
<1>12. MemoryShape(p, npte, nm)
  BY <1>7, <1>8, <1>9, <1>10, <1>11 DEF MemoryShape, ContentKept
<1>13. MemoryInv'
  BY <1>12, LocalInv
<1>14. /\ OwnShape(p) /\ pt'[p].pte = npte /\ mm'[p] = nm
       /\ \A u \in Pages : pt[p].pte[u] # None /\ npte[u] # None /\ npte[u].f = pt[p].pte[u].f =>
             content'[npte[u].f] = content[pt[p].pte[u].f]
  BY <1>11, <1>12, LocalMemory
<1>15. \A u \in Pages :
         /\ PageOf(p, u) = IF ~Covers(mm[p].vmas, u) THEN None
                           ELSE IF pt[p].pte[u] = None THEN 0 ELSE content[pt[p].pte[u].f]
         /\ PageOf(p, u)' = IF ~Covers(nm.vmas, u) THEN None
                            ELSE IF npte[u] = None THEN 0 ELSE content'[npte[u].f]
  BY <1>14 DEF PageOf
<1>16. ASSUME NEW u \in Pages
       PROVE  \/ PageOf(p, u)' = PageOf(p, u)
              \/ PageOf(p, u) = None /\ PageOf(p, u)' \in {None, 0}
  <2>1. CASE u = v
    <3>1. PageOf(p, v)' = IF pt[p].pte[v] = None THEN 0 ELSE content[pt[p].pte[v].f]
      BY <1>1, <1>3, <1>6, <1>15 DEF PageShape
    <3> QED
      BY <1>5, <1>15, <2>1, <3>1
  <2>2. CASE u # v
    <3>1. npte[u] = pt[p].pte[u]
      BY <1>3, <2>2
    <3>2. CASE pt[p].pte[u] = None
      BY <1>15, <3>1, <3>2 DEF PageShape
    <3>3. CASE pt[p].pte[u] # None
      BY <1>5, <1>14, <1>15, <3>1, <3>3
    <3> QED
      BY <3>2, <3>3
  <2> QED
    BY <2>1, <2>2
<1>17. Private!Map(p)
  BY <1>14, <1>16, MapStep
<1>18. ASSUME pt[p].pte[v] # None, nm = mm[p]
       PROVE  Memories' = Memories
  <2>1. ASSUME NEW u \in Pages
        PROVE  PageOf(p, u)' = PageOf(p, u)
    <3>1. Covers(mm[p].vmas, v) /\ npte[v] # None /\ npte[v] = e
      BY <1>1, <1>3, <1>5, <1>18
    <3>2. CASE u = v
      BY <1>15, <1>18, <3>1, <3>2 DEF PageShape
    <3>3. CASE u # v
      <4>1. npte[u] = pt[p].pte[u]
        BY <1>3, <3>3
      <4> QED
        BY <1>14, <1>15, <1>18, <4>1
    <3> QED
      BY <3>2, <3>3
  <2> QED
    BY <1>14, <2>1, SameStep
<1> QED
  BY <1>13, <1>17, <1>18 DEF Fresh, Unseen

\* An access to a page that has no frame.
LEMMA AbsentMemory ==
  ASSUME IInv, IInv', MemoryInv, NEW p \in Procs, NEW v \in Pages, Runs(p), pt[p].pte[v] = None,
         NEW vs \in Seq(VmaType), NEW w \in BOOLEAN, Absent(p, v, vs, w), UNCHANGED <<sc, tlb>>,
         Covers(vs, v), \A u \in Pages : Covers(mm[p].vmas, u) => Covers(vs, u)
  PROVE  Fresh(p) \/ Ended(p)
<1>1. /\ mm \in [Procs -> MmType] /\ mm[p] \in MmType /\ pt \in [Procs -> PtType]
      /\ content \in [Frames -> Values \cup {0, None}]
  BY DEF MemoryInv, SpaceMemoryInv, MemoryType, IInv, SpacesInv, TypeOK
<1>2. PICK nm \in MmType : nm = [mm[p] EXCEPT !.vmas = vs] /\ nm.vmas = vs
  BY <1>1, MmMade
<1>3. mm' = [mm EXCEPT ![p] = nm]
  <2>1. mm' = [mm EXCEPT ![p].vmas = vs]
    BY DEF Absent
  <2> QED
    BY <1>1, <1>2, <2>1
<1>a. PICK r \in Regions : r = RegionOf(v)
  BY RegionsOfPages
<1>4. PICK need, f :
         /\ r = RegionOf(v) /\ need = Cardinality({r} \ pt[p].tables) /\ f = NewFrame(v)
  BY <1>a
<1>5. \/ /\ Unresolved(p) /\ UNCHANGED <<refcount, content>>
         /\ \/ pt' = pt
            \/ pt' = [pt EXCEPT ![p].tables = @ \cup {r}]
      \/ /\ Free > need
         /\ pt' = [pt EXCEPT ![p].tables = @ \cup {r}, ![p].pte[v] = Pte(f, w, FALSE)]
         /\ refcount' = [refcount EXCEPT ![f] = 1]
         /\ content' = [content EXCEPT ![f] = 0] /\ kern' = kern
  BY <1>4, Zenon DEF Absent
<1>6. CASE /\ Unresolved(p) /\ UNCHANGED <<refcount, content>>
           /\ \/ pt' = pt
              \/ pt' = [pt EXCEPT ![p].tables = @ \cup {r}]
  <2>1. LocalPlace(p)
    <3>1. kern \in [Procs -> KernType]
      BY DEF IInv, SpacesInv, TypeOK
    <3> QED
      BY <1>6, <3>1 DEF Unresolved, Exits, LocalPlace, Runs, At
  <2>2. \A q \in Procs : pt'[q].pte = pt[q].pte
    BY <1>1, <1>6 DEF PtType
  <2>3. ContentKept /\ content' \in [Frames -> Values \cup {0, None}]
    BY <1>1, <1>6 DEF ContentKept
  <2> QED
    BY <1>2, <1>3, <2>1, <2>2, <2>3, MoreAreas
<1>7. CASE /\ Free > need
           /\ pt' = [pt EXCEPT ![p].tables = @ \cup {r}, ![p].pte[v] = Pte(f, w, FALSE)]
           /\ refcount' = [refcount EXCEPT ![f] = 1]
           /\ content' = [content EXCEPT ![f] = 0] /\ kern' = kern
  <2>1. Free > 0
    <3>1. Free \in Int
      BY CountedTables DEF Free, IInv, SpacesInv, TypeOK
    <3>2. need \in {0, 1}
      BY <1>4, NeedOneOrNone
    <3> QED
      BY <1>7, <3>1, <3>2
  <2>2. f \in Frames /\ refcount[f] = 0
    BY <1>4, <2>1, NewFrameFree
  <2>3. PICK e \in PteType : e = Pte(f, w, FALSE) /\ e.f = f
    BY <2>2, PteMade
  <2>4. \A q \in Procs : pt'[q].pte = IF q = p THEN [pt[p].pte EXCEPT ![v] = e] ELSE pt[q].pte
    BY <1>1, <1>7, <2>3 DEF PtType
  <2>5. content' \in [Frames -> Values \cup {0, None}] /\ content'[f] = 0 /\ 0 # None
    BY <1>1, <1>7, <2>2, NoneAssumption
  <2>6. ContentKept
    BY <1>1, <1>7, <2>2 DEF ContentKept
  <2>7. NotElsewhere(p, f)
    BY <2>2, FreeFrame
  <2>8. PageShape(p, v, e, nm)
    BY <1>2, <1>3, <2>2, <2>3, <2>4, <2>5, <2>6, <2>7 DEF PageShape
  <2>9. LocalPlace(p) /\ kern'[p].pc # "destroy"
    BY <1>7 DEF LocalPlace, Runs
  <2> QED
    BY <2>8, <2>9, PageMemory
<1> QED
  BY <1>5, <1>6, <1>7

\* A store to a page that is shared: taken over by its last owner, or to be copied.
LEMMA CowMemory ==
  ASSUME IInv, IInv', MemoryInv, NEW p \in Procs, NEW v \in Pages, Runs(p), pt[p].pte[v] # None,
         Cow(p, v), UNCHANGED <<sc, mm, refcount, ntables, content>>
  PROVE  Unseen
<1>1. PICK o \in PteType : o = pt[p].pte[v] /\ o.f \in Frames
  BY InUse
<1>2. /\ pt \in [Procs -> PtType] /\ kern \in [Procs -> KernType] /\ kern[p].pc = "user"
      /\ FramesAccounted
  BY DEF IInv, SpacesInv, TypeOK, Runs
<1>3. CASE SoleOwner(o.f)
  <2>1. pt' = [pt EXCEPT ![p].pte[v] = Pte(o.f, TRUE, FALSE)] /\ kern' = kern
    BY <1>1, <1>3 DEF Cow
  <2>2. PICK e \in PteType : e = Pte(o.f, TRUE, FALSE) /\ e.f = o.f
    BY <1>1, PteMade
  <2>3. \A q \in Procs : pt'[q].pte = IF q = p THEN [pt[p].pte EXCEPT ![v] = e] ELSE pt[q].pte
    BY <1>2, <2>1, <2>2 DEF PtType
  <2>4. NotElsewhere(p, o.f)
    <3>1. \A x, y \in Entries(o.f) : x = y
      BY <1>1, <1>2, <1>3, UsersCounted DEF SoleOwner
    <3>2. <<p, v>> \in Entries(o.f)
      BY <1>1 DEF Entries
    <3>3. ASSUME NEW q \in Procs \ {p}, NEW u \in Pages, pt[q].pte[u] # None, pt[q].pte[u].f = o.f
          PROVE  FALSE
      <4>1. <<q, u>> \in Entries(o.f)
        BY <3>3 DEF Entries
      <4> QED
        BY <3>1, <3>2, <4>1
    <3> QED
      BY <3>3 DEF NotElsewhere
  <2>5. PICK nm \in MmType : nm = mm[p] /\ mm' = [mm EXCEPT ![p] = nm]
    BY SameMm
  <2>6. ContentKept /\ content' \in [Frames -> Values \cup {0, None}]
    BY SameMm DEF ContentKept
  <2>7. PageShape(p, v, e, nm)
    BY <1>1, <2>2, <2>3, <2>4, <2>5, <2>6 DEF PageShape
  <2>8. LocalPlace(p) /\ kern'[p].pc # "destroy"
    BY <1>2, <2>1 DEF LocalPlace
  <2> QED
    BY <1>1, <2>5, <2>7, <2>8, PageMemory
<1>4. CASE ~SoleOwner(o.f)
  <2>1. kern' = [kern EXCEPT ![p] = At("copy", v, o.f, None)] /\ pt' = pt
    BY <1>1, <1>4 DEF Cow
  <2>2. LocalPlace(p) /\ kern'[p].pc # "destroy"
    BY <1>2, <2>1 DEF LocalPlace, At
  <2> QED
    BY <2>1, <2>2, QuietMemory
<1> QED
  BY <1>3, <1>4

\* The copy holds what the shared page holds.
LEMMA CowCopyMemory ==
  ASSUME IInv, IInv', MemoryInv, NEW p \in Procs, CowCopy(p)
  PROVE  Unseen \/ Ended(p)
<1>1. /\ pt \in [Procs -> PtType] /\ kern \in [Procs -> KernType] /\ kern[p].pc = "copy"
      /\ UNCHANGED <<sc, mm, ntables, tlb>>
  BY DEF IInv, SpacesInv, TypeOK, CowCopy
<1>2. PICK v \in Pages : v = kern[p].va /\ pt[p].pte[v] # None /\ pt[p].pte[v].f = kern[p].f
  BY <1>1 DEF IInv, SpacesInv, CopyInv
<1>3. CASE OutOfMemory
  <2>1. /\ Exits(p) \/ kern' = [kern EXCEPT ![p] = InUser]
        /\ UNCHANGED <<pt, refcount, content>>
    BY <1>3 DEF CowCopy
  <2>2. LocalPlace(p)
    BY <1>1, <2>1, KernMade DEF LocalPlace, Exits
  <2> QED
    BY <1>1, <2>1, <2>2, QuietMemory
<1>4. CASE ~OutOfMemory
  <2>1. PICK f, prot :
          /\ f = NewFrame(v)
          /\ pt' = [pt EXCEPT ![p].pte[v] = Pte(f, prot_to_pte(prot), FALSE)]
          /\ refcount' = [refcount EXCEPT ![f] = 1]
          /\ content' = [content EXCEPT ![f] = Copied(kern[p].f)]
          /\ kern' = [kern EXCEPT ![p].pc = "put"]
    BY <1>2, <1>4 DEF CowCopy
  <2>2. f \in Frames /\ refcount[f] = 0
    <3>1. Free \in Int
      BY CountedTables DEF Free, IInv, SpacesInv, TypeOK
    <3>2. Free > 0
      BY <1>4, <3>1 DEF OutOfMemory, IInv, FramesAccounted
    <3> QED
      BY <2>1, <3>2, NewFrameFree
  <2>w. PICK w \in BOOLEAN : w = prot_to_pte(prot)
    BY RightsAreBoolean
  <2>3. PICK e \in PteType : e = Pte(f, prot_to_pte(prot), FALSE) /\ e.f = f
    BY <2>2, <2>w, PteMade
  <2>4. \A q \in Procs : pt'[q].pte = IF q = p THEN [pt[p].pte EXCEPT ![v] = e] ELSE pt[q].pte
    BY <1>1, <2>1, <2>3 DEF PtType
  <2>5. PICK nm \in MmType : nm = mm[p] /\ mm' = [mm EXCEPT ![p] = nm]
    BY <1>1, SameMm
  <2>6. kern[p].f \in Frames /\ content[kern[p].f] # None
    BY <1>2, InUse DEF MemoryInv, SpaceMemoryInv, ContentInv
  <2>7. content' \in [Frames -> Values \cup {0, None}] /\ content'[f] = content[kern[p].f]
    BY <2>1, <2>2, <2>6, SameMm DEF Copied
  <2>8. ContentKept
    BY <2>1, <2>2, SameMm DEF ContentKept
  <2>9. NotElsewhere(p, f)
    BY <2>2, FreeFrame
  <2>10. PageShape(p, v, e, nm)
    BY <1>2, <2>2, <2>3, <2>4, <2>5, <2>6, <2>7, <2>8, <2>9 DEF PageShape
  <2>11. LocalPlace(p) /\ kern'[p].pc # "destroy"
    BY <1>1, <2>1 DEF LocalPlace
  <2> QED
    BY <1>2, <2>5, <2>10, <2>11, PageMemory
<1> QED
  BY <1>3, <1>4

LEMMA CowPutMemory ==
  ASSUME IInv, IInv', MemoryInv, NEW p \in Procs, CowPut(p)
  PROVE  Unseen
<1>1. /\ kern \in [Procs -> KernType] /\ kern[p].pc = "put" /\ ForgetFreed
      /\ kern' = [kern EXCEPT ![p] = InUser]
      /\ UNCHANGED <<sc, pt, mm, ntables>>
  BY DEF IInv, SpacesInv, TypeOK, CowPut
<1>2. LocalPlace(p) /\ kern'[p].pc # "destroy"
  BY <1>1, KernMade DEF LocalPlace
<1>3. PICK nm \in MmType : nm = mm[p] /\ mm' = [mm EXCEPT ![p] = nm]
  BY <1>1, SameMm
<1> QED
  BY <1>1, <1>2, <1>3, ForgetKeeps, MoreAreas

\* Faults.
LEMMA FaultMemory ==
  ASSUME IInv, IInv', MemoryInv, NEW p \in Procs, NEW v \in Pages, NEW write \in BOOLEAN,
         mm_handle_fault(p, v, write)
  PROVE  Unseen \/ Fresh(p) \/ Ended(p)
<1>1. PICK vs, i : vs = Found(p, v).as /\ i = Found(p, v).i
  OBVIOUS
<1>2. PICK prot : prot = vs[i].prot
  OBVIOUS
<1>3. PICK w \in BOOLEAN : w = prot_to_pte(prot)
  BY RightsAreBoolean
<1>4. /\ Runs(p) /\ sc' = sc
      /\ \/ Unresolved(p) /\ UNCHANGED <<pt, mm, refcount, ntables, content, tlb>>
         \/ i # 0 /\ pt[p].pte[v] = None /\ Absent(p, v, vs, w) /\ tlb' = tlb
         \/ /\ pt[p].pte[v] # None /\ Cow(p, v)
            /\ UNCHANGED <<mm, refcount, ntables, content>>
  BY <1>1, <1>2, <1>3, Zenon DEF mm_handle_fault
<1>5. CASE Unresolved(p) /\ UNCHANGED <<pt, mm, refcount, ntables, content, tlb>>
  <2>1. kern \in [Procs -> KernType]
    BY DEF IInv, SpacesInv, TypeOK
  <2>2. LocalPlace(p)
    BY <1>4, <1>5, <2>1, KernMade DEF LocalPlace, Unresolved, Exits, Runs
  <2> QED
    BY <1>5, <2>2, QuietMemory
<1>6. CASE i # 0 /\ pt[p].pte[v] = None /\ Absent(p, v, vs, w) /\ tlb' = tlb
  <2>1. mm[p] \in MmType /\ v \in Nat
    BY SameMm, PagesAreNat
  <2>2. mm[p].vmas \in Seq(VmaType)
    BY <2>1 DEF MmType
  <2>3. vs = (IF find_vma(p, v) = 0 THEN grow_stack(p, v) ELSE mm[p].vmas) /\ i = AreaOf(vs, v)
    BY <1>1 DEF Found
  <2>4. vs \in Seq(VmaType) /\ \A u \in Nat : Covers(mm[p].vmas, u) => Covers(vs, u)
    BY <2>1, <2>2, <2>3, Grown
  <2>5. Covers(vs, v)
    BY <1>6, <2>3, <2>4, Searched
  <2>6. \A u \in Pages : Covers(mm[p].vmas, u) => Covers(vs, u)
    BY <2>4, PagesAreNat
  <2> QED
    BY <1>4, <1>6, <2>4, <2>5, <2>6, AbsentMemory
<1>7. CASE pt[p].pte[v] # None /\ Cow(p, v) /\ UNCHANGED <<mm, refcount, ntables, content>>
  BY <1>4, <1>7, CowMemory
<1> QED
  BY <1>4, <1>5, <1>6, <1>7

-----------------------------------------------------------------------------
(* Forks and exits.                                                         *)

\* Process x changes, which nobody sees: it is not born yet, or has left its memory.
LEMMA UnseenMemory ==
  ASSUME IInv, IInv', MemoryInv, NEW x \in Procs, NEW npte, NEW nm, MemoryShape(x, npte, nm),
         ContentKept, ~Alive(x), ~Alive(x)', \A q \in Procs \ {x} : Alive(q)' <=> Alive(q), ForkInv'
  PROVE  Unseen
<1>1. SpaceMemoryInv'
  BY MemoryStep DEF MemoryInv
<1>2. MemoryType /\ MemoryType'
  BY <1>1 DEF MemoryInv, SpaceMemoryInv
<1>3. \A q \in Procs \ {x} : MemoryIn(q)' = MemoryIn(q)
  BY <1>2, OthersKept
<1>4. \A q \in Procs : MemoryIn(q)' = MemoryIn(q)
  BY <1>3 DEF MemoryIn
<1> QED
  BY <1>1, <1>4, StutterStep DEF MemoryInv, Unseen

\* Process x keeps its areas and which pages it has, and sees what it saw.
LEMMA SeenMemory ==
  ASSUME IInv, IInv', MemoryInv, NEW x \in Procs, NEW npte, MemoryShape(x, npte, mm[x]),
         \A v \in Pages : /\ npte[v] = None <=> pt[x].pte[v] = None
                          /\ npte[v] # None => npte[v].f = pt[x].pte[v].f,
         ContentKept, \A q \in Procs : Alive(q)' <=> Alive(q), ForkInv'
  PROVE  Unseen
<1>1. SpaceMemoryInv'
  BY MemoryStep DEF MemoryInv
<1>2. MemoryType /\ MemoryType'
  BY <1>1 DEF MemoryInv, SpaceMemoryInv
<1>3. \A q \in Procs \ {x} : MemoryIn(q)' = MemoryIn(q)
  BY <1>2, OthersKept
<1>4. pt'[x].pte = npte /\ mm'[x] = mm[x]
  BY DEF MemoryShape
<1>5. ASSUME NEW v \in Pages
      PROVE  PageOf(x, v)' = PageOf(x, v)
  <2>1. npte[v] # None => content'[npte[v].f] = content[pt[x].pte[v].f]
    BY <1>4, PageKept
  <2> QED
    BY <1>4, <2>1 DEF PageOf
<1>6. MemoryIn(x)' = MemoryIn(x)
  <2>1. MemoryOf(x)' = MemoryOf(x)
    BY <1>2, <1>5, MemoryIs, Zenon
  <2> QED
    BY <2>1 DEF MemoryIn
<1>7. \A q \in Procs : MemoryIn(q)' = MemoryIn(q)
  BY <1>3, <1>6
<1> QED
  BY <1>1, <1>7, StutterStep DEF MemoryInv, Unseen

LEMMA ForkChild ==
  ASSUME IInv, NEW r \in Procs, kern[r].pc \in {"fork", "share"}
  PROVE  /\ kern[r].child \in Procs \ {r} /\ kern[kern[r].child].pc = "born"
         /\ \A q \in Procs : Parent(q) /\ kern[q].child = kern[r].child => q = r
<1>1. Parent(r)
  BY DEF Parent
<1> QED
  BY <1>1, Children

\* The child gets its parent's areas, or the first of them.
LEMMA MmForkMemory ==
  ASSUME IInv, IInv', MemoryInv, NEW p \in Procs, NEW c \in Procs, mm_fork(p, c)
  PROVE  Unseen
<1>1. /\ kern \in [Procs -> KernType] /\ pt \in [Procs -> PtType] /\ mm \in [Procs -> MmType]
      /\ content \in [Frames -> Values \cup {0, None}] /\ mm[p] \in MmType
  BY DEF IInv, SpacesInv, TypeOK, MemoryInv, SpaceMemoryInv, MemoryType
<1>2. /\ kern[p].pc = "user" /\ kern[c].pc = "none" /\ p # c
      /\ pt' = [pt EXCEPT ![c] = Root] /\ UNCHANGED <<refcount, content>>
  BY DEF mm_fork, Runs
<1>3. PICK vs \in Seq(VmaType) : vs = mm[p].vmas /\ Len(vs) \in Nat
  BY <1>1, LenProperties DEF MmType
<1>4. PICK n \in 0 .. Len(vs), pc \in {"fork", "undo"} :
         /\ mm' = [mm EXCEPT ![c] = [mm[p] EXCEPT !.vmas = SubSeq(@, 1, n)]]
         /\ pc = IF n = Len(vs) THEN "fork" ELSE "undo"
         /\ kern' = [kern EXCEPT ![p] = At(pc, UserStart, None, c), ![c].pc = "born"]
  BY <1>3 DEF mm_fork
<1>5. PICK nvs \in Seq(VmaType) : nvs = SubSeq(vs, 1, n) /\ (n = Len(vs) => nvs = vs)
  <2>1. n <= Len(vs) /\ \A i \in 1 .. n : vs[i] \in VmaType
    BY <1>3, <1>4, ElementOfSeq
  <2>2. SubSeq(vs, 1, n) \in Seq(VmaType)
    BY <1>3, <1>4, <2>1, SubSeqProperties
  <2>3. n = Len(vs) => SubSeq(vs, 1, n) = vs
    BY SubSeqFull, Zenon
  <2> QED
    BY <2>2, <2>3, Zenon
<1>6. PICK nm \in MmType : nm = [mm[p] EXCEPT !.vmas = nvs] /\ nm.vmas = nvs
  BY <1>1, MmMade
<1>7. nvs = vs => nm = mm[p]
  BY <1>1, <1>3, <1>6 DEF MmType
<1>8. mm' \in [Procs -> MmType] /\ \A q \in Procs : mm'[q] = IF q = c THEN nm ELSE mm[q]
  BY <1>1, <1>3, <1>4, <1>5, <1>6
<1>9. /\ \A v \in Pages : pt[c].pte[v] = None
      /\ \A q \in Procs : pt'[q].pte = pt[q].pte
  <2>1. pt[c] = NoPt
    BY <1>2 DEF IInv, SpacesInv, SpaceInv
  <2>2. Root.pte = NoPt.pte
    BY DEF Root, NoPt
  <2> QED
    BY <1>1, <1>2, <2>1, <2>2, RootMade
<1>10. /\ kern'[p].pc = pc /\ kern'[p].va = UserStart /\ kern'[p].child = c
       /\ kern'[c].pc = "born" /\ \A q \in Procs \ {p, c} : kern'[q] = kern[q]
  BY <1>1, <1>2, <1>4 DEF At, KernType
<1>11. MemoryShape(c, pt[c].pte, nm)
  BY <1>1, <1>2, <1>8, <1>9 DEF MemoryShape
<1>12. ContentKept
  BY <1>2 DEF ContentKept
<1>13. /\ ~Alive(c) /\ ~Alive(c)'
       /\ \A q \in Procs \ {c} : Alive(q)' <=> Alive(q)
  <2>1. pc \in {"fork", "undo"}
    BY <1>4
  <2>2. ~Alive(c) /\ ~Alive(c)'
    BY <1>2, <1>10 DEF Alive
  <2>3. Alive(p) /\ Alive(p)'
    BY <1>2, <1>10, <2>1 DEF Alive
  <2>4. \A q \in Procs \ {p, c} : Alive(q)' <=> Alive(q)
    BY <1>10 DEF Alive
  <2> QED
    BY <2>2, <2>3, <2>4
<1>14. ForkInv'
  <2>1. ASSUME NEW r \in Procs, kern'[r].pc \in {"fork", "share"}, r # p
        PROVE  kern'[r] = kern[r] /\ r # c /\ kern[r].child \in Procs \ {c}
    <3>1. r # c /\ kern'[r] = kern[r]
      BY <1>10, <2>1
    <3> QED
      BY <1>2, <2>1, <3>1, ForkChild
  <2>2. ASSUME NEW r \in Procs, kern'[r].pc \in {"fork", "share"}
        PROVE  LET k == kern'[r].child IN
               /\ mm'[k] = mm'[r]
               /\ \A v \in Pages : v < kern'[r].va =>
                     /\ pt'[k].pte[v] = None <=> pt'[r].pte[v] = None
                     /\ pt'[r].pte[v] # None => pt'[k].pte[v].f = pt'[r].pte[v].f
               /\ kern'[r].pc = "share" => ~pt'[r].pte[kern'[r].va].w
    <3>1. CASE r = p
      <4>1. pc = "fork" /\ nm = mm[p]
        BY <1>4, <1>5, <1>7, <1>10, <2>2, <3>1
      <4>2. \A v \in Pages : ~(v < UserStart)
        BY DEF Pages
      <4> QED
        BY <1>2, <1>8, <1>10, <3>1, <4>1, <4>2
    <3>2. CASE r # p
      <4>1. kern'[r] = kern[r] /\ r # c /\ kern[r].child \in Procs \ {c}
        BY <2>1, <2>2, <3>2
      <4>2. /\ mm'[r] = mm[r] /\ mm'[kern[r].child] = mm[kern[r].child]
            /\ pt'[r].pte = pt[r].pte /\ pt'[kern[r].child].pte = pt[kern[r].child].pte
        BY <1>8, <1>9, <4>1
      <4> QED
        BY <2>2, <4>1, <4>2 DEF MemoryInv, ForkInv
    <3> QED
      BY <3>1, <3>2
  <2> QED
    BY <2>2 DEF ForkInv
<1> QED
  BY <1>11, <1>12, <1>13, <1>14, UnseenMemory

\* A page of the parent becomes read-only.
LEMMA ForkGetMemory ==
  ASSUME IInv, IInv', MemoryInv, NEW p \in Procs, ForkGet(p)
  PROVE  Unseen
<1>1. /\ kern \in [Procs -> KernType] /\ pt \in [Procs -> PtType] /\ kern[p].pc = "fork"
      /\ NextPage(p, kern[p].va) # {} /\ UNCHANGED <<mm, content>>
  BY DEF IInv, SpacesInv, TypeOK, ForkGet
<1>2. kern[p].va \in Nat /\ mm \in [Procs -> MmType]
  BY <1>1, OwnTypes DEF KernType, MemoryInv, SpaceMemoryInv, MemoryType
<1>3. PICK v \in Pages : v = Min(NextPage(p, kern[p].va)) /\ v >= kern[p].va /\ pt[p].pte[v] # None
  BY <1>1, <1>2, NextPageIs
<1>4. \A u \in Pages : u >= kern[p].va /\ u < v => pt[p].pte[u] = None
  <2>1. NextPage(p, kern[p].va) \in SUBSET Nat
    BY PagesAreNat DEF NextPage, Mapped
  <2>2. \A u \in NextPage(p, kern[p].va) : v <= u
    BY <1>1, <1>3, <2>1, LeastOf
  <2>3. ASSUME NEW u \in Pages, u >= kern[p].va, u < v
        PROVE  pt[p].pte[u] = None
    <3>1. u \notin NextPage(p, kern[p].va)
      BY <2>2, <2>3, PagesAreNat
    <3>2. u \in kern[p].va .. UserEnd - 1
      BY <1>2, <2>3 DEF Pages
    <3> QED
      BY <3>1, <3>2 DEF NextPage, Mapped
  <2> QED
    BY <2>3
<1>5. PICK e \in PteType : e = pt[p].pte[v]
  BY <1>3, OwnTypes
<1>6. PICK s \in PteType : s = Shared(e) /\ s # None /\ s.f = e.f /\ ~s.w
  <2>1. ~Shared(e).w
    BY DEF Shared, Pte
  <2> QED
    BY <2>1, SharedEntry
<1>7. PICK npte : npte = [pt[p].pte EXCEPT ![v] = s]
  OBVIOUS
<1>8. npte[v] = s /\ \A u \in Pages \ {v} : npte[u] = pt[p].pte[u]
  BY <1>7, OwnTypes
<1>9. \A q \in Procs : pt'[q].pte = IF q = p THEN npte ELSE pt[q].pte
  <2>1. pt' = [pt EXCEPT ![p].pte[v] = s]
    BY <1>1, <1>3, <1>5, <1>6 DEF ForkGet
  <2> QED
    BY <1>1, <1>7, <2>1 DEF PtType
<1>10. PICK c \in Procs \ {p} : c = kern[p].child /\ kern[c].pc = "born"
  BY <1>1, ForkChild
<1>11. /\ kern'[p].pc = "share" /\ kern'[p].va = v /\ kern'[p].child = c
       /\ \A q \in Procs \ {p} : kern'[q] = kern[q]
  BY <1>1, <1>3, <1>10 DEF ForkGet, At
<1>12. \A u \in Pages : /\ npte[u] = None <=> pt[p].pte[u] = None
                        /\ npte[u] # None => npte[u].f = pt[p].pte[u].f
                        /\ npte[u] # None /\ npte[u].w => npte[u] = pt[p].pte[u]
  BY <1>3, <1>5, <1>6, <1>8
<1>13. MemoryShape(p, npte, mm[p])
  <2>1. \A u \in Pages : npte[u] # None => Covers(mm[p].vmas, u)
    BY <1>12 DEF MemoryInv, SpaceMemoryInv, CoverInv
  <2>2. content' \in [Frames -> Values \cup {0, None}]
    BY <1>1, SameMm
  <2> QED
    BY <1>1, <1>2, <1>9, <1>12, <2>1, <2>2 DEF MemoryShape
<1>14. ContentKept /\ \A q \in Procs : Alive(q)' <=> Alive(q)
  BY <1>1, <1>11 DEF ContentKept, Alive
<1>15. ForkInv'
  <2>1. ASSUME NEW r \in Procs, kern'[r].pc \in {"fork", "share"}
        PROVE  LET k == kern'[r].child IN
               /\ mm'[k] = mm'[r]
               /\ \A u \in Pages : u < kern'[r].va =>
                     /\ pt'[k].pte[u] = None <=> pt'[r].pte[u] = None
                     /\ pt'[r].pte[u] # None => pt'[k].pte[u].f = pt'[r].pte[u].f
               /\ kern'[r].pc = "share" => ~pt'[r].pte[kern'[r].va].w
    <3>1. CASE r = p
      <4>1. mm'[c] = mm'[p]
        BY <1>1, <1>10 DEF MemoryInv, ForkInv
      <4>2. ASSUME NEW u \in Pages, u < v
            PROVE  /\ pt'[c].pte[u] = None <=> pt'[p].pte[u] = None
                   /\ pt'[p].pte[u] # None => pt'[c].pte[u].f = pt'[p].pte[u].f
        <5>1. u # v /\ u \in Nat /\ v \in Nat
          BY <4>2, PagesAreNat
        <5>2. pt'[p].pte[u] = pt[p].pte[u] /\ pt'[c].pte[u] = pt[c].pte[u]
          BY <1>8, <1>9, <1>10, <5>1
        <5>3. CASE u < kern[p].va
          BY <1>1, <1>10, <5>2, <5>3 DEF MemoryInv, ForkInv
        <5>4. CASE u >= kern[p].va
          <6>1. pt[p].pte[u] = None
            BY <1>4, <4>2, <5>4
          <6>2. pt[c].pte[u] = None
            BY <1>1, <1>10, <5>4 DEF IInv, SpacesInv, ParentInv
          <6> QED
            BY <5>2, <6>1, <6>2
        <5> QED
          BY <1>2, <5>1, <5>3, <5>4
      <4>3. ~pt'[p].pte[v].w
        BY <1>6, <1>8, <1>9
      <4> QED
        BY <1>11, <3>1, <4>1, <4>2, <4>3
    <3>2. CASE r # p
      <4>1. kern'[r] = kern[r] /\ kern[r].child \in Procs /\ kern[r].child # p
        BY <1>1, <1>11, <2>1, <3>2, ForkChild
      <4>2. pt'[r].pte = pt[r].pte /\ pt'[kern[r].child].pte = pt[kern[r].child].pte
        BY <1>9, <3>2, <4>1
      <4> QED
        BY <1>1, <2>1, <4>1, <4>2 DEF MemoryInv, ForkInv
    <3> QED
      BY <3>1, <3>2
  <2> QED
    BY <2>1 DEF ForkInv
<1> QED
  BY <1>12, <1>13, <1>14, <1>15, SeenMemory

\* A page of the parent goes to the child, or the fork fails.
LEMMA ForkShareMemory ==
  ASSUME IInv, IInv', MemoryInv, NEW p \in Procs, ForkShare(p)
  PROVE  Unseen
<1>1. /\ kern \in [Procs -> KernType] /\ pt \in [Procs -> PtType] /\ mm \in [Procs -> MmType]
      /\ kern[p].pc = "share" /\ UNCHANGED <<sc, mm, tlb>> /\ ForgetFreed
  BY DEF IInv, SpacesInv, TypeOK, MemoryInv, SpaceMemoryInv, MemoryType, ForkShare
<1>2. PICK v \in Pages : v = kern[p].va /\ pt[p].pte[v] # None
  BY <1>1 DEF IInv, SpacesInv, CopyInv
<1>3. PICK c \in Procs \ {p} : c = kern[p].child /\ kern[c].pc = "born"
  BY <1>1, ForkChild
<1>4. PICK e \in PteType : e = pt[p].pte[v] /\ e # None
  BY <1>2, OwnTypes
<1>5. ContentKept /\ content' \in [Frames -> Values \cup {0, None}]
  BY <1>1, ForgetKeeps
<1>6. \/ /\ kern' = [kern EXCEPT ![p].pc = "undo"]
         /\ pt' = pt
      \/ /\ pt' = [pt EXCEPT ![c].pte[v] = e, ![c].tables = @ \cup {RegionOf(v)}]
         /\ kern' = [kern EXCEPT ![p].pc = "fork", ![p].va = v + 1]
  BY <1>2, <1>3, <1>4, Zenon DEF ForkShare
<1>7. CASE kern' = [kern EXCEPT ![p].pc = "undo"] /\ pt' = pt
  <2>1. kern'[p].pc = "undo" /\ \A q \in Procs \ {p} : kern'[q] = kern[q]
    BY <1>1, <1>7 DEF KernType
  <2>2. MemoryShape(p, pt[p].pte, mm[p])
    <3>1. \A u \in Pages : pt[p].pte[u] # None => Covers(mm[p].vmas, u)
      BY DEF MemoryInv, SpaceMemoryInv, CoverInv
    <3> QED
      BY <1>1, <1>5, <1>7, <3>1 DEF MemoryShape, ContentKept
  <2>3. \A q \in Procs : Alive(q)' <=> Alive(q)
    BY <1>1, <2>1 DEF Alive
  <2>4. ForkInv'
    <3>1. ASSUME NEW r \in Procs, kern'[r].pc \in {"fork", "share"}
          PROVE  kern'[r] = kern[r] /\ r # p /\ kern[r].child # p
      <4>1. r # p /\ kern'[r] = kern[r]
        BY <2>1, <3>1
      <4> QED
        BY <1>1, <3>1, <4>1, ForkChild
    <3>2. \A q \in Procs \ {p} : pt'[q].pte = pt[q].pte /\ mm'[q] = mm[q]
      BY <1>1, <1>7
    <3> QED
      BY <3>1, <3>2, ForkKept DEF MemoryInv
  <2> QED
    BY <1>5, <2>2, <2>3, <2>4, SeenMemory
<1>8. CASE /\ pt' = [pt EXCEPT ![c].pte[v] = e, ![c].tables = @ \cup {RegionOf(v)}]
           /\ kern' = [kern EXCEPT ![p].pc = "fork", ![p].va = v + 1]
  <2>1. PICK npte : npte = [pt[c].pte EXCEPT ![v] = e]
    OBVIOUS
  <2>2. npte[v] = e /\ \A u \in Pages \ {v} : npte[u] = pt[c].pte[u]
    BY <2>1, OwnTypes
  <2>3. \A q \in Procs : pt'[q].pte = IF q = c THEN npte ELSE pt[q].pte
    <3>1. \A q \in Procs : pt[q] \in PtType
      BY <1>1
    <3> QED
      BY <1>1, <1>8, <2>1, <3>1 DEF PtType
  <2>4. /\ kern'[p].pc = "fork" /\ kern'[p].va = v + 1 /\ kern'[p].child = c
        /\ \A q \in Procs \ {p} : kern'[q] = kern[q]
    <3>1. kern[p] \in KernType
      BY <1>1
    <3> QED
      BY <1>1, <1>3, <1>8, <3>1 DEF KernType
  <2>5. mm[c] = mm[p] /\ ~e.w
    BY <1>1, <1>2, <1>3, <1>4 DEF MemoryInv, ForkInv
  <2>6. ReadOnlyFrame(e.f)
    BY <1>2, <1>4, <2>5 DEF MemoryInv, SpaceMemoryInv, StoreInv, ReadOnlyFrame
  <2>7. content'[e.f] # None
    <3>1. content'[e.f] = content[e.f]
      <4>1. refcount[e.f] # 0 /\ e.f \in Frames
        BY <1>4, InUse
      <4>2. pt'[p].pte[v] = e
        BY <1>3, <1>4, <2>3
      <4>3. refcount'[e.f] # 0
        BY <1>4, <4>2, InUse
      <4> QED
        BY <1>5, <4>1, <4>3 DEF ContentKept
    <3>2. content[e.f] # None
      BY <1>4 DEF MemoryInv, SpaceMemoryInv, ContentInv
    <3> QED
      BY <3>1, <3>2
  <2>8. MemoryShape(c, npte, mm[c])
    <3>1. ASSUME NEW u \in Pages, npte[u] # None
          PROVE  /\ Covers(mm[c].vmas, u)
                 /\ \/ pt[c].pte[u] # None /\ npte[u].f = pt[c].pte[u].f
                    \/ content'[npte[u].f] # None /\ ReadOnlyFrame(npte[u].f)
                 /\ npte[u].w => npte[u] = pt[c].pte[u]
      <4>1. CASE u = v
        BY <1>4, <2>2, <2>5, <2>6, <2>7, <4>1 DEF MemoryInv, SpaceMemoryInv, CoverInv
      <4>2. CASE u # v
        BY <2>2, <3>1, <4>2 DEF MemoryInv, SpaceMemoryInv, CoverInv
      <4> QED
        BY <4>1, <4>2
    <3> QED
      BY <1>1, <1>5, <2>3, <3>1 DEF MemoryShape, ContentKept
  <2>9. /\ ~Alive(c) /\ ~Alive(c)'
        /\ \A q \in Procs \ {c} : Alive(q)' <=> Alive(q)
    BY <1>1, <1>3, <2>4 DEF Alive
  <2>10. ForkInv'
    <3>1. ASSUME NEW r \in Procs, kern'[r].pc \in {"fork", "share"}
          PROVE  LET k == kern'[r].child IN
                 /\ mm'[k] = mm'[r]
                 /\ \A u \in Pages : u < kern'[r].va =>
                       /\ pt'[k].pte[u] = None <=> pt'[r].pte[u] = None
                       /\ pt'[r].pte[u] # None => pt'[k].pte[u].f = pt'[r].pte[u].f
                 /\ kern'[r].pc = "share" => ~pt'[r].pte[kern'[r].va].w
      <4>1. CASE r = p
        <5>1. ASSUME NEW u \in Pages, u < v + 1
              PROVE  /\ pt'[c].pte[u] = None <=> pt'[p].pte[u] = None
                     /\ pt'[p].pte[u] # None => pt'[c].pte[u].f = pt'[p].pte[u].f
          <6>1. CASE u = v
            BY <1>3, <1>4, <2>2, <2>3, <6>1
          <6>2. CASE u # v
            <7>1. u < kern[p].va
              BY <1>2, <5>1, <6>2, PagesAreNat
            <7>2. pt'[c].pte[u] = pt[c].pte[u] /\ pt'[p].pte[u] = pt[p].pte[u]
              BY <1>3, <2>2, <2>3, <6>2
            <7> QED
              BY <1>1, <1>3, <7>1, <7>2 DEF MemoryInv, ForkInv
          <6> QED
            BY <6>1, <6>2
        <5> QED
          BY <1>1, <2>4, <2>5, <4>1, <5>1
      <4>2. CASE r # p
        <5>1. kern'[r] = kern[r]
          BY <2>4, <4>2
        <5>2. kern[r].child \in Procs /\ kern[r].child # c /\ r # c
          <6>1. kern[r].pc \in {"fork", "share"} /\ r # c /\ Parent(r)
            BY <1>3, <3>1, <5>1 DEF Parent
          <6>2. \A q \in Procs : Parent(q) /\ kern[q].child = c => q = p
            BY <1>1, <1>3, ForkChild
          <6>3. kern[r].child \in Procs
            BY <6>1, Children
          <6> QED
            BY <4>2, <6>1, <6>2, <6>3
        <5>3. pt'[r].pte = pt[r].pte /\ pt'[kern[r].child].pte = pt[kern[r].child].pte
          BY <2>3, <5>2
        <5> QED
          BY <1>1, <3>1, <5>1, <5>2, <5>3 DEF MemoryInv, ForkInv
      <4> QED
        BY <4>1, <4>2
    <3> QED
      BY <3>1 DEF ForkInv
  <2> QED
    BY <1>5, <2>8, <2>9, <2>10, UnseenMemory
<1> QED
  BY <1>6, <1>7, <1>8

\* The child begins to run with the memory of its parent; or the parent goes to take
\* it apart.
LEMMA ForkEndMemory ==
  ASSUME IInv, IInv', MemoryInv, NEW p \in Procs, ForkEnd(p)
  PROVE  /\ MemoryInv'
         /\ kern[p].pc = "fork" => Private!Fork(p, kern[p].child)
         /\ kern[p].pc # "fork" => Memories' = Memories
<1>1. /\ kern \in [Procs -> KernType] /\ kern[p].pc \in {"fork", "undo"}
      /\ UNCHANGED <<sc, pt, mm, refcount, ntables, content>>
      /\ MemoryType /\ CoverInv /\ mm \in [Procs -> MmType]
  BY DEF IInv, SpacesInv, TypeOK, MemoryInv, SpaceMemoryInv, MemoryType, ForkEnd
<1>2. PICK c \in Procs \ {p} : c = kern[p].child /\ kern[c].pc = "born"
  <2>1. Parent(p)
    BY <1>1 DEF Parent
  <2> QED
    BY <2>1, Children
<1>3. ContentKept /\ content' \in [Frames -> Values \cup {0, None}]
  BY <1>1, SameMm DEF ContentKept
<1>4. MemoryShape(p, pt[p].pte, mm[p])
  <2>1. \A u \in Pages : pt[p].pte[u] # None => Covers(mm[p].vmas, u)
    BY <1>1 DEF CoverInv
  <2> QED
    BY <1>1, <1>3, <2>1 DEF MemoryShape, ContentKept
<1>5. \/ /\ kern[p].pc = "fork" /\ NextPage(p, kern[p].va) = {}
         /\ kern' = [kern EXCEPT ![p] = InUser, ![c] = InUser]
      \/ /\ kern[p].pc = "undo"
         /\ kern' = [kern EXCEPT ![p] = At("destroy", UserStart, None, c)]
  BY <1>2 DEF ForkEnd
<1>6. /\ kern'[p].pc \in {"user", "destroy"} /\ kern'[c].pc \in {"user", "born"}
      /\ kern'[p].pc = "destroy" => kern'[p].child = c
      /\ \A q \in Procs \ {p, c} : kern'[q] = kern[q]
  BY <1>1, <1>2, <1>5, KernMade
<1>7. ForkInv'
  <2>1. ASSUME NEW r \in Procs, kern'[r].pc \in {"fork", "share"}
        PROVE  kern'[r] = kern[r] /\ r # p /\ kern[r].child # p
    <3>1. r # p /\ kern'[r] = kern[r]
      BY <1>6, <2>1
    <3> QED
      BY <1>1, <2>1, <3>1, ForkChild
  <2> QED
    BY <1>1, <2>1, ForkKept DEF MemoryInv
<1>8. MemoryInv'
  BY <1>4, <1>7, MemoryStep DEF MemoryInv
<1>9. CASE kern[p].pc = "undo" /\ kern' = [kern EXCEPT ![p] = At("destroy", UserStart, None, c)]
  <2>1. \A q \in Procs : Alive(q)' <=> Alive(q)
    <3>1. kern'[p].pc = "destroy" /\ kern'[p].child = c /\ \A q \in Procs \ {p} : kern'[q] = kern[q]
      BY <1>1, <1>9, KernMade
    <3> QED
      BY <1>2, <1>9, <3>1 DEF Alive
  <2> QED
    BY <1>3, <1>4, <1>7, <1>9, <2>1, SeenMemory DEF Unseen
<1>10. CASE /\ kern[p].pc = "fork" /\ NextPage(p, kern[p].va) = {}
            /\ kern' = [kern EXCEPT ![p] = InUser, ![c] = InUser]
  <2>1. kern'[p].pc = "user" /\ kern'[c].pc = "user"
    BY <1>1, <1>10, KernMade
  <2>2. Alive(p) /\ Alive(p)' /\ ~Alive(c) /\ Alive(c)'
    BY <1>2, <1>10, <2>1 DEF Alive
  <2>3. \A q \in Procs \ {c} : Alive(q)' <=> Alive(q)
    BY <1>6, <2>2 DEF Alive
  <2>4. MemoryType'
    BY <1>8 DEF MemoryInv, SpaceMemoryInv
  <2>5. \A q \in Procs : MemoryOf(q)' = MemoryOf(q)
    BY <1>1, <1>3, <2>4, MemoryKept
  <2>6. \A q \in Procs \ {c} : MemoryIn(q)' = MemoryIn(q)
    BY <2>3, <2>5 DEF MemoryIn
  <2>7. ASSUME NEW u \in Pages
        PROVE  PageOf(c, u) = PageOf(p, u)
    <3>1. mm[c] = mm[p]
      BY <1>2, <1>10 DEF MemoryInv, ForkInv
    <3>2. CASE u < kern[p].va
      <4>1. /\ pt[c].pte[u] = None <=> pt[p].pte[u] = None
            /\ pt[p].pte[u] # None => pt[c].pte[u].f = pt[p].pte[u].f
        BY <1>2, <1>10, <3>2 DEF MemoryInv, ForkInv
      <4> QED
        BY <3>1, <4>1 DEF PageOf
    <3>3. CASE u >= kern[p].va
      <4>1. pt[c].pte[u] = None
        BY <1>2, <1>10, <3>3 DEF IInv, SpacesInv, ParentInv
      <4>2. u \in kern[p].va .. UserEnd - 1
        <5>1. kern[p].va \in Nat
          BY <1>1, OwnTypes DEF KernType
        <5> QED
          BY <3>3, <5>1 DEF Pages
      <4>3. pt[p].pte[u] = None
        BY <1>10, <4>2 DEF NextPage, Mapped
      <4> QED
        BY <3>1, <4>1, <4>3 DEF PageOf
    <3>4. kern[p].va \in Nat /\ u \in Nat
      BY <1>1, PagesAreNat DEF KernType
    <3> QED
      BY <3>2, <3>3, <3>4
  <2>8. MemoryOf(c) = MemoryOf(p)
    BY <1>1, <2>7, MemoryIs, Zenon
  <2>9. MemoryOf(p) # None /\ MemoryOf(c)' = MemoryOf(p)
    BY <1>1, <2>5, <2>8, MemoryTyped
  <2>10. Private!Fork(p, c)
    BY <2>2, <2>6, <2>9, ForkedStep
  <2> QED
    BY <1>2, <1>8, <1>10, <2>10
<1> QED
  BY <1>5, <1>9, <1>10

\* A page of an address space that nobody sees any more goes back.
LEMMA DestroyPageMemory ==
  ASSUME IInv, IInv', MemoryInv, NEW p \in Procs, DestroyPage(p)
  PROVE  Unseen
<1>1. /\ kern \in [Procs -> KernType] /\ pt \in [Procs -> PtType] /\ mm \in [Procs -> MmType]
      /\ kern[p].pc = "destroy" /\ UNCHANGED <<sc, mm, ntables, tlb, kern>> /\ ForgetFreed
      /\ NextPage(kern[p].child, UserStart) # {}
  BY DEF IInv, SpacesInv, TypeOK, MemoryInv, SpaceMemoryInv, MemoryType, DestroyPage
<1>2. PICK c \in Procs : /\ c = kern[p].child /\ kern[c].pc \in {"destroy", "born"}
                         /\ \A q \in Procs : Parent(q) /\ kern[q].child = c => q = p /\ c # p
                         /\ c # p => kern[c].pc = "born"
  BY <1>1, Destroyed
<1>3. PICK v \in Pages : v = Min(NextPage(c, UserStart)) /\ pt[c].pte[v] # None
  BY <1>1, <1>2, NextPageIs
<1>4. pt' = [pt EXCEPT ![c].pte[v] = None]
  BY <1>2, <1>3 DEF DestroyPage
<1>5. PICK npte : npte = [pt[c].pte EXCEPT ![v] = None]
  OBVIOUS
<1>6. npte[v] = None /\ \A u \in Pages \ {v} : npte[u] = pt[c].pte[u]
  BY <1>5, OwnTypes
<1>7. \A q \in Procs : pt'[q].pte = IF q = c THEN npte ELSE pt[q].pte
  BY <1>1, <1>4, <1>5 DEF PtType
<1>8. ContentKept /\ content' \in [Frames -> Values \cup {0, None}]
  BY <1>1, ForgetKeeps
<1>9. MemoryShape(c, npte, mm[c])
  <2>1. \A u \in Pages : npte[u] # None => npte[u] = pt[c].pte[u] /\ Covers(mm[c].vmas, u)
    BY <1>6 DEF MemoryInv, SpaceMemoryInv, CoverInv
  <2> QED
    BY <1>1, <1>7, <1>8, <2>1 DEF MemoryShape, ContentKept
<1>10. ~Alive(c) /\ ~Alive(c)' /\ \A q \in Procs \ {c} : Alive(q)' <=> Alive(q)
  BY <1>1, <1>2 DEF Alive
<1>11. ForkInv'
  <2>1. ASSUME NEW r \in Procs, kern'[r].pc \in {"fork", "share"}
        PROVE  kern'[r] = kern[r] /\ r # c /\ kern[r].child # c
    <3>1. kern'[r] = kern[r] /\ Parent(r) /\ r # c /\ r # p
      BY <1>1, <1>2, <2>1 DEF Parent
    <3> QED
      BY <1>2, <3>1
  <2>2. \A q \in Procs \ {c} : pt'[q].pte = pt[q].pte /\ mm'[q] = mm[q]
    BY <1>1, <1>7
  <2> QED
    BY <2>1, <2>2, ForkKept DEF MemoryInv
<1> QED
  BY <1>8, <1>9, <1>10, <1>11, UnseenMemory

\* ... then its tables and areas.
LEMMA DestroyTablesMemory ==
  ASSUME IInv, IInv', MemoryInv, NEW p \in Procs, DestroyTables(p)
  PROVE  Unseen
<1>1. /\ kern \in [Procs -> KernType] /\ pt \in [Procs -> PtType] /\ mm \in [Procs -> MmType]
      /\ kern[p].pc = "destroy" /\ UNCHANGED <<sc, refcount, content>>
  BY DEF IInv, SpacesInv, TypeOK, MemoryInv, SpaceMemoryInv, MemoryType, DestroyTables
<1>2. PICK c \in Procs : /\ c = kern[p].child /\ kern[c].pc \in {"destroy", "born"}
                         /\ \A q \in Procs : Parent(q) /\ kern[q].child = c => q = p /\ c # p
                         /\ c # p => kern[c].pc = "born"
  BY <1>1, Destroyed
<1>3. /\ pt' = [pt EXCEPT ![c] = NoPt] /\ mm' = [mm EXCEPT ![c] = NoMm]
      /\ kern' = [q \in Procs |-> CASE q = c -> At("none", UserStart, None, None)
                                     [] q = p /\ p # c -> InUser
                                     [] OTHER -> kern[q]]
  BY <1>2, Zenon DEF DestroyTables
<1>4. /\ kern'[c].pc = "none" /\ (c # p => kern'[p].pc = "user")
      /\ \A q \in Procs \ {c, p} : kern'[q] = kern[q]
  BY <1>3, KernMade DEF At
<1>5. PICK nm \in MmType : nm = NoMm
  <2>1. <<>> \in Seq(VmaType)
    OBVIOUS
  <2> QED
    BY <2>1 DEF NoMm, MmType
<1>6. mm' \in [Procs -> MmType] /\ \A q \in Procs : mm'[q] = IF q = c THEN nm ELSE mm[q]
  BY <1>1, <1>3, <1>5
<1>7. PICK npte : npte = NoPt.pte
  OBVIOUS
<1>8. (\A v \in Pages : npte[v] = None) /\ \A q \in Procs : pt'[q].pte = IF q = c THEN npte ELSE pt[q].pte
  BY <1>1, <1>3, <1>7, RootMade
<1>9. ContentKept /\ content' \in [Frames -> Values \cup {0, None}]
  BY <1>1, SameMm DEF ContentKept
<1>10. MemoryShape(c, npte, nm)
  BY <1>6, <1>8, <1>9 DEF MemoryShape, ContentKept
<1>11. ~Alive(c) /\ ~Alive(c)' /\ \A q \in Procs \ {c} : Alive(q)' <=> Alive(q)
  <2>1. ~Alive(c) /\ ~Alive(c)'
    BY <1>1, <1>2, <1>4 DEF Alive
  <2>2. c # p => Alive(p) /\ Alive(p)'
    BY <1>1, <1>2, <1>4 DEF Alive
  <2>3. \A q \in Procs \ {c, p} : Alive(q)' <=> Alive(q)
    BY <1>4 DEF Alive
  <2> QED
    BY <2>1, <2>2, <2>3
<1>12. ForkInv'
  <2>1. ASSUME NEW r \in Procs, kern'[r].pc \in {"fork", "share"}
        PROVE  kern'[r] = kern[r] /\ r # c /\ kern[r].child # c
    <3>1. kern'[r] = kern[r] /\ Parent(r) /\ r # c /\ r # p
      BY <1>4, <2>1 DEF Parent
    <3> QED
      BY <1>2, <3>1
  <2>2. \A q \in Procs \ {c} : pt'[q].pte = pt[q].pte /\ mm'[q] = mm[q]
    BY <1>6, <1>8
  <2> QED
    BY <2>1, <2>2, ForkKept DEF MemoryInv
<1> QED
  BY <1>9, <1>10, <1>11, <1>12, UnseenMemory

-----------------------------------------------------------------------------
(* Each step keeps MemoryInv and is a step of PrivateMemory or none.        *)

\* The first process has areas and no page.
LEMMA InitMemory == Init => MemoryInv /\ Private!Init
<1> SUFFICES ASSUME Init PROVE MemoryInv /\ Private!Init
  OBVIOUS
<1>1. PICK s \in Scenarios, p \in Procs :
         /\ pt = [q \in Procs |-> IF q = p THEN Root ELSE NoPt]
         /\ mm = [q \in Procs |->
                    IF q = p THEN [vmas |-> s.vmas, brk_start |-> s.brk, brk |-> s.brk] ELSE NoMm]
         /\ content = [f \in Frames |-> None]
         /\ kern = [q \in Procs |-> IF q = p THEN InUser
                      ELSE At(IF q \in s.procs THEN "none" ELSE "unused", UserStart, None, None)]
  BY DEF Init
<1>2. PICK a \in MmType, b \in MmType : a = [vmas |-> s.vmas, brk_start |-> s.brk, brk |-> s.brk] /\ b = NoMm
  <2>1. <<>> \in Seq(VmaType)
    OBVIOUS
  <2>2. s.vmas \in Seq(VmaType) /\ s.brk \in Nat
    BY CallsAssumption
  <2> QED
    BY <2>1, <2>2 DEF NoMm, MmType
<1>3. mm \in [Procs -> MmType] /\ content \in [Frames -> Values \cup {0, None}]
  BY <1>1, <1>2
<1>4. \A q \in Procs, v \in Pages : pt[q].pte[v] = None
  BY <1>1, RootMade
<1>5. \A q \in Procs : kern[q].pc \in {"user", "none", "unused"}
  BY <1>1, KernMade DEF At
<1>6. MemoryType /\ MemoryInv
  BY <1>3, <1>4, <1>5 DEF MemoryInv, SpaceMemoryInv, MemoryType, CoverInv, ContentInv, StoreInv, ForkInv
<1>7. \A q \in Procs : MemoryOf(q) \in [Pages -> {None, 0}]
  BY <1>4 DEF MemoryOf
<1>8. Memories \in [Procs -> {None} \cup [Pages -> {None, 0}]]
  BY <1>7 DEF Memories
<1> QED
  BY <1>6, <1>8 DEF Private!Init

\* The step is the one that the private memories should make.
Promised == MemoryInv' /\ PrivateStep

LEMMA CallsMemory ==
  ASSUME IInv, IInv', MemoryInv, NEW p \in Procs, Calls(p)
  PROVE  Promised
<1>1. CASE Exit(p)
  <2>1. LocalPlace(p) /\ kern'[p].pc = "destroy"
    <3>1. kern \in [Procs -> KernType]
      BY DEF IInv, SpacesInv, TypeOK
    <3> QED
      BY <1>1, <3>1, KernMade DEF LocalPlace, Exit, Exits, Runs
  <2>2. Ended(p)
    BY <1>1, <2>1, QuietMemory DEF Exit
  <2> QED
    BY <1>1, <2>2 DEF Ended, Promised, PrivateStep, CallSeen
<1>2. ASSUME NEW a \in MapArgs, mm_map(p, a[1], a[2], a[3])
      PROVE  Promised
  BY <1>2, MmMapMemory DEF Fresh, Promised, PrivateStep, CallSeen
<1>3. ASSUME NEW a \in UnmapArgs, mm_unmap(p, a[1], a[2])
      PROVE  Promised
  <2>1. MemoryInv' /\ Private!Drop(p, Pages \cap (a[1] .. a[1] + a[2] - 1))
    BY <1>3, MmUnmapMemory
  <2>2. CallSeen(p)
    BY <1>3, <2>1, Zenon DEF CallSeen
  <2> QED
    BY <2>1, <2>2 DEF Promised, PrivateStep
<1>4. ASSUME NEW inc \in SbrkArgs, mm_sbrk(p, inc)
      PROVE  Promised
  <2>1. /\ MemoryInv'
        /\ Private!Map(p) \/ \E S \in SUBSET AboveBreak(p, inc) : Private!Drop(p, S)
    BY <1>4, MmSbrkMemory
  <2>2. CallSeen(p)
    BY <1>4, <2>1, Zenon DEF CallSeen
  <2> QED
    BY <2>1, <2>2 DEF Promised, PrivateStep
<1>5. ASSUME NEW c \in Procs, mm_fork(p, c)
      PROVE  Promised
  BY <1>5, MmForkMemory DEF Unseen, Promised, PrivateStep, KernelSeen
<1> QED
  BY <1>1, <1>2, <1>3, <1>4, <1>5 DEF Calls

LEMMA StepsMemory ==
  ASSUME IInv, IInv', MemoryInv, NEW p \in Procs, Steps(p)
  PROVE  Promised
<1>1. CASE CowCopy(p)
  BY <1>1, CowCopyMemory DEF Unseen, Ended, Promised, PrivateStep, KernelSeen, Steps
<1>2. CASE ForkEnd(p)
  BY <1>2, ForkEndMemory DEF Promised, PrivateStep, KernelSeen, Steps
<1>3. CASE CowPut(p) \/ ForkGet(p) \/ ForkShare(p) \/ DestroyPage(p) \/ DestroyTables(p)
  <2>1. Unseen
    BY <1>3, CowPutMemory, ForkGetMemory, ForkShareMemory, DestroyPageMemory, DestroyTablesMemory, Zenon
  <2> QED
    BY <2>1 DEF Unseen, Promised, PrivateStep, KernelSeen
<1> QED
  BY <1>1, <1>2, <1>3 DEF Steps

LEMMA ProgramMemory ==
  ASSUME IInv, IInv', MemoryInv, NEW p \in Procs, Program(p)
  PROVE  Promised
<1>1. sc.touch \subseteq Pages
  BY DEF IInv, SpacesInv, TypeOK
<1>2. ASSUME Evict(p) \/ \E v \in Pages : Read(p, v)
      PROVE  Unseen /\ Memories[p] # None
  <2>1. Runs(p) /\ UNCHANGED <<pt, mm, refcount, content, kern>>
    BY <1>2 DEF Evict, Read
  <2>2. LocalPlace(p) /\ kern'[p].pc # "destroy" /\ Alive(p)
    BY <2>1 DEF LocalPlace, Runs, Alive
  <2>3. MemoryOf(p) # None
    BY MemoryTyped DEF MemoryInv, SpaceMemoryInv
  <2> QED
    BY <2>1, <2>2, <2>3, QuietMemory DEF Memories
<1>3. ASSUME Evict(p)
      PROVE  Promised
  BY <1>2, <1>3 DEF Unseen, Promised, PrivateStep, KernelSeen
<1>4. ASSUME NEW v \in Pages, Read(p, v)
      PROVE  Promised
  BY <1>2, <1>4 DEF Unseen, Private!Load, Promised, PrivateStep, AccessSeen
<1>5. ASSUME NEW v \in Pages, NEW x \in Values, Write(p, v, x)
      PROVE  Promised
  BY <1>5, WriteMemory DEF Promised, PrivateStep, AccessSeen
<1>6. ASSUME NEW v \in Pages, NEW write \in BOOLEAN, Fault(p, v, write)
      PROVE  Promised
  <2>1. Unseen \/ Fresh(p) \/ Ended(p)
    BY <1>6, FaultMemory DEF Fault
  <2>2. Unseen => Private!Map(p)
    <3>1. MemoryOf(p) # None
      BY MemoryTyped DEF MemoryInv, SpaceMemoryInv
    <3>2. Alive(p)
      BY <1>6 DEF Fault, mm_handle_fault, Runs, Alive
    <3> QED
      BY <3>1, <3>2, UnseenMaps DEF Unseen
  <2> QED
    BY <1>6, <2>1, <2>2 DEF Unseen, Fresh, Ended, Promised, PrivateStep, AccessSeen
<1> QED
  BY <1>1, <1>3, <1>4, <1>5, <1>6 DEF Program

LEMMA NextMemory == IInv /\ IInv' /\ MemoryInv /\ [Next]_vars => MemoryInv' /\ [PrivateStep]_vars
<1> SUFFICES ASSUME IInv, IInv', MemoryInv, [Next]_vars PROVE MemoryInv' /\ [PrivateStep]_vars
  OBVIOUS
<1>1. CASE Next
  BY <1>1, CallsMemory, StepsMemory, ProgramMemory DEF Next, Promised
<1>2. CASE UNCHANGED vars
  <2>1. UNCHANGED <<pt, mm, content, kern>>
    BY <1>2 DEF vars
  <2>2. MemoryInv'
    BY <2>1 DEF MemoryInv, SpaceMemoryInv, MemoryType, CoverInv, ContentInv, StoreInv, ForkInv
  <2> QED
    BY <1>2, <2>2
<1> QED
  BY <1>1, <1>2

\* A step of Mm is a step of PrivateMemory.
LEMMA PrivateNext == IInv /\ [PrivateStep]_vars => [Private!Next]_Memories
<1> SUFFICES ASSUME IInv, [PrivateStep]_vars PROVE [Private!Next]_Memories
  OBVIOUS
<1>1. ASSUME NEW p \in Procs, NEW S \in SUBSET Pages, Private!Drop(p, S)
      PROVE  Private!Drop(p, Private!Changed(p))
  BY <1>1 DEF Private!Drop, Private!Own, Private!Changed
<1>2. ASSUME NEW p \in Procs, CallSeen(p)
      PROVE  Private!Next
  <2>1. \A S \in SUBSET Pages : Private!Drop(p, S) => Private!Next
    BY <1>1 DEF Private!Next
  <2>2. \A inc \in SbrkArgs : AboveBreak(p, inc) \subseteq Pages
    BY DEF AboveBreak
  <2>3. Private!Map(p) \/ Private!Exit(p) \/ \E S \in SUBSET Pages : Private!Drop(p, S)
    <3>1. \A a \in UnmapArgs : Pages \cap (a[1] .. a[1] + a[2] - 1) \in SUBSET Pages
      OBVIOUS
    <3> QED
      BY <1>2, <2>2, <3>1, Zenon DEF CallSeen
  <2> QED
    BY <2>1, <2>3 DEF Private!Next
<1>3. ASSUME NEW p \in Procs, AccessSeen(p)
      PROVE  Private!Next
  BY <1>3, Zenon DEF AccessSeen, Private!Next
<1>4. ASSUME NEW p \in Procs, KernelSeen(p)
      PROVE  [Private!Next]_Memories
  <2>1. CASE kern[p].pc = "fork" /\ ForkEnd(p) /\ Private!Fork(p, kern[p].child)
    <3>1. Parent(p)
      BY <2>1 DEF Parent
    <3>2. kern[p].child \in Procs
      BY <3>1, Children
    <3> QED
      BY <2>1, <3>2 DEF Private!Next
  <2> QED
    BY <1>4, <2>1 DEF KernelSeen, Private!Next
<1>5. CASE UNCHANGED vars
  BY <1>5 DEF vars, Memories, Alive, MemoryOf, range_free
<1> QED
  BY <1>2, <1>3, <1>4, <1>5 DEF PrivateStep

\* Pages lie in areas, frames in use hold something, a frame that can be stored to is
\* in one entry, a fork that goes on has given the child what its parent has.
THEOREM MemoryInvariant == Spec => []MemoryInv
<1>1. Init => MemoryInv
  BY InitMemory
<1>2. IInv /\ IInv' /\ MemoryInv /\ [Next]_vars => MemoryInv'
  BY NextMemory
<1> QED
  BY <1>1, <1>2, MmInvariant, PTL DEF Spec

\* Copy-on-write is invisible: the address spaces implement private memories, and each
\* step is the one that its call or access promises.  A copy of a page, a fork, an exit
\* of somebody else changes nothing; a page is lost only to its own munmap or sbrk.
THEOREM CopyOnWriteInvisible == Spec => ImplementsPrivate
<1>1. Init => Private!Init
  BY InitMemory
<1>2. IInv /\ IInv' /\ MemoryInv /\ [Next]_vars => [PrivateStep]_vars
  BY NextMemory
<1>3. IInv /\ [PrivateStep]_vars => [Private!Next]_Memories
  BY PrivateNext
<1> QED
  BY <1>1, <1>2, <1>3, MmInvariant, MemoryInvariant, PTL DEF Spec, ImplementsPrivate, Private!Spec
=============================================================================

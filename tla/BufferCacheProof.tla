-------------------------- MODULE BufferCacheProof --------------------------
(***************************************************************************)
(* Proofs about BufferCache, for any number of threads, blocks and buffers *)
(* and any size of the cache: a buffer in use is not given to another      *)
(* block, and what a reader finds valid agrees with the disk.              *)
(***************************************************************************)
EXTENDS BufferCache, FiniteSetTheorems, WellFoundedInduction, TLAPS

USE CacheAssumption

-----------------------------------------------------------------------------
(* Helpers: lists, the least element, counting.                             *)

\* One element is taken out of a list in which nothing is twice.
LEMMA TakenOut ==
  ASSUME NEW B, NEW s \in Seq(B), NEW i \in DOMAIN s,
         \A j, k \in DOMAIN s : s[j] = s[k] => j = k
  PROVE  LET r == RemoveAt(s, i) IN
         /\ r \in Seq(B)
         /\ ToSet(r) = ToSet(s) \ {s[i]}
         /\ \A j, k \in DOMAIN r : r[j] = r[k] => j = k
<1> DEFINE r == RemoveAt(s, i)
<1>1. Len(s) \in Nat /\ DOMAIN s = 1 .. Len(s) /\ i \in 1 .. Len(s)
  OBVIOUS
<1>2. /\ SubSeq(s, 1, i - 1) \in Seq(B) /\ Len(SubSeq(s, 1, i - 1)) = i - 1
      /\ \A j \in 1 .. i - 1 : SubSeq(s, 1, i - 1)[j] = s[j]
  BY <1>1
<1>a. /\ SubSeq(s, i + 1, Len(s)) \in Seq(B) /\ Len(SubSeq(s, i + 1, Len(s))) = Len(s) - i
      /\ \A j \in 1 .. Len(s) - i : SubSeq(s, i + 1, Len(s))[j] = s[j + i]
  BY <1>1
<1>b. ASSUME NEW p \in Seq(B), NEW q \in Seq(B)
      PROVE  /\ p \o q \in Seq(B) /\ Len(p \o q) = Len(p) + Len(q)
             /\ \A j \in 1 .. Len(p) + Len(q) :
                   (p \o q)[j] = IF j <= Len(p) THEN p[j] ELSE q[j - Len(p)]
  OBVIOUS
<1>c. PICK p \in Seq(B) : p = SubSeq(s, 1, i - 1)
  BY <1>2
<1>d. PICK q \in Seq(B) : q = SubSeq(s, i + 1, Len(s))
  BY <1>a
<1>e. r = p \o q
  BY <1>c, <1>d DEF RemoveAt
<1> HIDE DEF r
<1>f. /\ Len(p) = i - 1 /\ \A j \in 1 .. i - 1 : p[j] = s[j]
      /\ Len(q) = Len(s) - i /\ \A j \in 1 .. Len(s) - i : q[j] = s[j + i]
  BY <1>2, <1>a, <1>c, <1>d
<1>g. /\ r \in Seq(B) /\ Len(r) = Len(p) + Len(q)
      /\ \A j \in 1 .. Len(p) + Len(q) :
            r[j] = IF j <= Len(p) THEN p[j] ELSE q[j - Len(p)]
  BY <1>b, <1>e
<1>3. /\ r \in Seq(B) /\ Len(r) = Len(s) - 1
      /\ \A j \in 1 .. Len(s) - 1 : r[j] = s[IF j < i THEN j ELSE j + 1]
  <2>1. Len(r) = Len(s) - 1
    BY <1>1, <1>f, <1>g
  <2>2. ASSUME NEW j \in 1 .. Len(s) - 1
        PROVE  r[j] = s[IF j < i THEN j ELSE j + 1]
    <3>1. CASE j < i
      BY <1>1, <1>f, <1>g, <3>1
    <3>2. CASE ~(j < i)
      <4>1. j - (i - 1) \in 1 .. Len(s) - i /\ (j - (i - 1)) + i = j + 1
        BY <1>1, <3>2
      <4>2. r[j] = q[j - (i - 1)]
        BY <1>1, <1>f, <1>g, <3>2
      <4> QED
        BY <1>f, <3>2, <4>1, <4>2
    <3> QED
      BY <3>1, <3>2
  <2> QED
    BY <1>g, <2>1, <2>2
<1>4. DOMAIN r = 1 .. Len(s) - 1
  BY <1>1, <1>3
<1>5. ASSUME NEW j \in DOMAIN r, NEW k \in DOMAIN r, r[j] = r[k]
      PROVE  j = k
  <2>1. s[IF j < i THEN j ELSE j + 1] = s[IF k < i THEN k ELSE k + 1]
    BY <1>3, <1>4, <1>5
  <2>2. (IF j < i THEN j ELSE j + 1) = (IF k < i THEN k ELSE k + 1)
    BY <1>1, <1>4, <2>1
  <2> QED
    BY <1>1, <1>4, <2>2
<1>6. ASSUME NEW x \in ToSet(r)
      PROVE  x \in ToSet(s) \ {s[i]}
  <2>1. PICK j \in DOMAIN r : x = r[j]
    BY DEF ToSet
  <2>2. PICK k \in DOMAIN s : k = (IF j < i THEN j ELSE j + 1) /\ k # i
    BY <1>1, <1>4
  <2>3. x = s[k]
    BY <1>3, <1>4, <2>1, <2>2
  <2> QED
    BY <2>2, <2>3 DEF ToSet
<1>7. ASSUME NEW x \in ToSet(s) \ {s[i]}
      PROVE  x \in ToSet(r)
  <2>1. PICK j \in 1 .. Len(s) : x = s[j]
    BY <1>1, <1>7 DEF ToSet
  <2>2. CASE j < i
    <3>1. j \in DOMAIN r /\ r[j] = s[j]
      BY <1>1, <1>3, <1>4, <2>1, <2>2
    <3> QED
      BY <2>1, <3>1 DEF ToSet
  <2>3. CASE j > i
    <3>1. j - 1 \in DOMAIN r /\ r[j - 1] = s[j]
      BY <1>1, <1>3, <1>4, <2>1, <2>3
    <3> QED
      BY <2>1, <3>1 DEF ToSet
  <2> QED
    BY <1>1, <1>7, <2>1, <2>2, <2>3
<1> QED
  BY <1>3, <1>5, <1>6, <1>7 DEF r

\* list_add of an element that is not in the list.
LEMMA PutInFront ==
  ASSUME NEW B, NEW s \in Seq(B), NEW x \in B, x \notin ToSet(s),
         \A j, k \in DOMAIN s : s[j] = s[k] => j = k
  PROVE  LET r == <<x>> \o s IN
         /\ r \in Seq(B)
         /\ ToSet(r) = ToSet(s) \cup {x}
         /\ \A j, k \in DOMAIN r : r[j] = r[k] => j = k
<1> DEFINE r == <<x>> \o s
<1>1. /\ r \in Seq(B) /\ Len(r) = Len(s) + 1 /\ Len(s) \in Nat
      /\ \A j \in 1 .. Len(s) + 1 : r[j] = IF j = 1 THEN x ELSE s[j - 1]
  OBVIOUS
<1>2. DOMAIN r = 1 .. Len(s) + 1 /\ DOMAIN s = 1 .. Len(s)
  BY <1>1
<1> HIDE DEF r
<1>3. \A j \in 1 .. Len(s) : s[j] # x
  BY <1>2 DEF ToSet
<1>4. ASSUME NEW j \in DOMAIN r, NEW k \in DOMAIN r, r[j] = r[k]
      PROVE  j = k
  <2>1. CASE j = 1 \/ k = 1
    BY <1>1, <1>2, <1>3, <1>4, <2>1
  <2>2. CASE j # 1 /\ k # 1
    <3>1. j - 1 \in DOMAIN s /\ k - 1 \in DOMAIN s /\ s[j - 1] = s[k - 1]
      BY <1>1, <1>2, <1>4, <2>2
    <3> QED
      BY <1>2, <3>1
  <2> QED
    BY <2>1, <2>2
<1>5. \A y \in ToSet(r) : y \in ToSet(s) \cup {x}
  BY <1>1, <1>2 DEF ToSet
<1>6. ASSUME NEW y \in ToSet(s)
      PROVE  y \in ToSet(r)
  <2>1. PICK j \in 1 .. Len(s) : y = s[j]
    BY <1>2 DEF ToSet
  <2>2. j + 1 \in DOMAIN r /\ r[j + 1] = s[j]
    BY <1>1, <1>2
  <2> QED
    BY <2>1, <2>2 DEF ToSet
<1>7. x \in ToSet(r)
  <2>1. 1 \in DOMAIN r /\ r[1] = x
    BY <1>1, <1>2
  <2> QED
    BY <2>1 DEF ToSet
<1> QED
  BY <1>1, <1>4, <1>5, <1>6, <1>7 DEF r

\* What list_del and the move to the front do to the list of buffers.
LEMMA ListMoves ==
  ASSUME TypeOK, ListInv, NEW b \in Cached
  PROVE  /\ ListDel(b) \in Seq(Bufs) /\ ToFront(b) \in Seq(Bufs)
         /\ ToSet(ListDel(b)) = Cached \ {b} /\ ToSet(ToFront(b)) = Cached
         /\ \A i, j \in DOMAIN ListDel(b) : ListDel(b)[i] = ListDel(b)[j] => i = j
         /\ \A i, j \in DOMAIN ToFront(b) : ToFront(b)[i] = ToFront(b)[j] => i = j
<1>1. lru \in Seq(Bufs) /\ \A i, j \in DOMAIN lru : lru[i] = lru[j] => i = j
  BY DEF TypeOK, ListInv
<1>2. PICK i \in DOMAIN lru : i = (CHOOSE j \in DOMAIN lru : lru[j] = b) /\ lru[i] = b
  BY DEF Cached, ToSet
<1>3. ListDel(b) = RemoveAt(lru, i)
  BY <1>2 DEF ListDel
<1>4. /\ ListDel(b) \in Seq(Bufs) /\ ToSet(ListDel(b)) = Cached \ {b}
      /\ \A j, k \in DOMAIN ListDel(b) : ListDel(b)[j] = ListDel(b)[k] => j = k
  BY <1>1, <1>2, <1>3, TakenOut DEF Cached
<1>5. b \in Bufs /\ b \notin ToSet(ListDel(b))
  <2>1. b \notin ToSet(ListDel(b))
    BY ONLY <1>4
  <2> QED
    BY <1>1, <1>2, <2>1
<1>6. /\ ToFront(b) \in Seq(Bufs) /\ ToSet(ToFront(b)) = ToSet(ListDel(b)) \cup {b}
      /\ \A j, k \in DOMAIN ToFront(b) : ToFront(b)[j] = ToFront(b)[k] => j = k
  BY <1>4, <1>5, PutInFront DEF ToFront
<1> QED
  BY <1>4, <1>6

\* Min is the least element.
LEMMA LeastOf ==
  ASSUME NEW S \in SUBSET Nat, S # {}
  PROVE  Min(S) \in S
<1>1. PICK m \in S : \A x \in S : ~(<<x, m>> \in OpToRel(<, Nat))
  BY WFMin, NatLessThanWellFounded
<1>2. \A x \in S : m <= x
  <2> TAKE x \in S
  <2>1. <<x, m>> \in Nat \X Nat
    OBVIOUS
  <2>2. ~(x < m)
    BY <1>1, <2>1 DEF OpToRel
  <2> QED
    BY <2>2
<1> QED
  BY <1>2 DEF Min

\* Counting the holders of a buffer.
LEMMA Counting ==
  ASSUME NEW S \in SUBSET Threads
  PROVE  /\ Cardinality(S) \in Nat /\ (Cardinality(S) = 0 <=> S = {})
         /\ \A t \in Threads \ S : Cardinality(S \cup {t}) = Cardinality(S) + 1
         /\ \A t \in S : Cardinality(S \ {t}) = Cardinality(S) - 1
<1>1. IsFiniteSet(S)
  BY FS_Subset
<1> QED
  BY <1>1, FS_CardinalityType, FS_EmptySet, FS_AddElement, FS_RemoveElement

\* A buffer that nobody counts is used by nobody, and its mutex is free.
LEMMA FreeBuffer ==
  ASSUME IInv, NEW b \in Cached, buf[b].refcount = 0
  PROVE  /\ \A t \in Threads : ~(th[t].b = b /\ Using(t))
         /\ Holders(b) = {} /\ buf[b].lock = None
<1>1. Holders(b) \in SUBSET Threads /\ Cardinality(Holders(b)) = 0
  BY DEF IInv, HeldBufferKept, Holders
<1>2. Holders(b) = {}
  BY <1>1, Counting
<1>3. \A t \in Threads : ~(th[t].b = b /\ Using(t))
  BY <1>2 DEF Holders, Using
<1>4. b \in Bufs
  BY DEF IInv, TypeOK, Cached, ToSet
<1>5. buf[b].lock \in Threads \cup {None}
  BY <1>4 DEF IInv, TypeOK, BufType
<1> QED
  BY <1>2, <1>3, <1>5 DEF IInv, MutexInv, Using, Inside

-----------------------------------------------------------------------------
(* The steps of a thread that has a buffer: bread after bget, bwrite, brelse. *)

\* A step of thread t with its buffer b, which becomes nb: nobody else is inside b, only
\* the disk block of b can change, and what t leaves behind agrees with the disk.
HeldShape(t, b, nb, l) ==
    /\ Using(t) /\ b = th[t].b
    /\ buf' = [buf EXCEPT ![b] = nb] /\ th' = [th EXCEPT ![t].pc = l] /\ lru' = lru
    /\ nb.block = buf[b].block /\ nb.refcount = buf[b].refcount
    /\ buf[b].lock \in {t, None} /\ nb.lock = IF l = "put" THEN None ELSE t
    /\ disk' \in [Blocks -> Nat] /\ failed' \subseteq Blocks
    /\ \A k \in Blocks : k # th[t].want =>
          disk'[k] = disk[k] /\ (k \in failed <=> k \in failed')
    /\ (l = "read" => ~nb.valid) /\ (l \in {"have", "write"} => nb.valid)
    /\ l = "have" \/ (l = "put" /\ nb.valid) =>
          nb.data = disk'[th[t].want] \/ th[t].want \in failed'
    /\ bcache_count' \in Int /\ writes' \in Nat /\ errors' \in Nat

LEMMA HeldStep ==
  ASSUME IInv, NEW t \in Threads, NEW b \in Bufs, NEW nb \in BufType,
         NEW l \in {"read", "have", "write", "put"}, HeldShape(t, b, nb, l)
  PROVE  IInv'
<1> USE DEF HeldShape
<1>1. /\ b \in Cached /\ b \in Bufs /\ buf[b].block = th[t].want /\ th[t].want \in Blocks
      /\ Cached' = Cached
  BY SMTT(30) DEF IInv, HeldBufferKept, Using, Cached, ToSet, TypeOK, ListInv
<1>2. /\ \A c \in Bufs : buf'[c] = IF c = b THEN nb ELSE buf[c]
      /\ buf' \in [Bufs -> BufType]
  BY <1>1 DEF IInv, TypeOK
<1> DEFINE nt == [th[t] EXCEPT !.pc = l]
<1>3. /\ nt \in ThreadType /\ nt.pc = l /\ nt.b = b /\ nt.want = th[t].want
      /\ th' = [th EXCEPT ![t] = nt]
  <2>1. th[t] \in ThreadType
    BY DEF IInv, TypeOK
  <2> QED
    BY <2>1 DEF ThreadType, IInv, TypeOK
<1> HIDE DEF nt
<1>4. /\ \A u \in Threads : th'[u] = IF u = t THEN nt ELSE th[u]
      /\ th' \in [Threads -> ThreadType]
  BY <1>3 DEF IInv, TypeOK
<1>5. Cached \subseteq Bufs
  BY DEF IInv, TypeOK, Cached, ToSet
<1>6. TypeOK'
  BY <1>2, <1>4 DEF IInv, TypeOK
<1>7. ListInv'
  BY <1>1, <1>2, <1>5 DEF IInv, ListInv
<1>8. AllocInv'
  <2>1. \A u \in Threads : th'[u].pc \in {"alloc", "insert"} => u # t /\ th'[u] = th[u]
    BY <1>3, <1>4
  <2>2. \A u \in Threads : th[u].pc = "insert" => th[u].b # b /\ th[u].b \in Bufs
    BY <1>1 DEF IInv, AllocInv
  <2>3. \A u \in Threads : th'[u].pc = "insert" => buf'[th[u].b] = buf[th[u].b]
    BY <1>2, <2>1, <2>2
  <2>4. \A u, v \in Threads : th'[u].pc = "insert" /\ th'[v].pc = "insert" /\ th'[u].b = th'[v].b => u = v
    BY <2>1 DEF IInv, AllocInv
  <2>5. \A u \in Threads : th'[u].pc = "insert" =>
           /\ th'[u].b \in Bufs \ Cached
           /\ buf'[th'[u].b] = Fresh(th'[u].want)
    BY <2>1, <2>3 DEF IInv, AllocInv
  <2>6. \A u \in Threads : th'[u].pc \in {"alloc", "insert"} => th'[u].want \in Blocks
    BY <2>1 DEF IInv, AllocInv
  <2> QED
    BY <1>1, <2>4, <2>5, <2>6 DEF AllocInv, Fresh
<1>9. MutexInv'
  <2> SUFFICES ASSUME NEW c \in Cached, NEW u \in Threads
               PROVE  buf'[c].lock = u <=> th'[u].b = c /\ Inside(u)'
    BY <1>1 DEF MutexInv
  <2>1. Inside(u)' <=> IF u = t THEN l # "put" ELSE Inside(u)
    BY <1>3, <1>4 DEF Inside
  <2>2. buf[c].lock = u <=> th[u].b = c /\ Inside(u)
    BY DEF IInv, MutexInv
  <2>3. buf[b].lock = u <=> th[u].b = b /\ Inside(u)
    BY <1>1 DEF IInv, MutexInv
  <2>4. CASE c = b
    BY <1>2, <1>3, <1>4, <1>5, <2>1, <2>3, <2>4
  <2>5. CASE c # b
    BY <1>2, <1>3, <1>4, <1>5, <2>1, <2>2, <2>5
  <2> QED
    BY <2>4, <2>5
<1>10. HeldBufferKept'
  <2>1. \A c \in Cached : Holders(c)' = Holders(c)
    BY <1>3, <1>4 DEF Holders, Using
  <2>2. \A c \in Cached : buf'[c].refcount = buf[c].refcount /\ buf'[c].block = buf[c].block
    BY <1>2, <1>5
  <2>3. ASSUME NEW u \in Threads, Using(u)'
        PROVE  th'[u].b \in Cached /\ buf[th'[u].b].block = th'[u].want
    BY <1>1, <1>3, <1>4, <2>3 DEF IInv, HeldBufferKept, Using
  <2>4. \A c \in Cached : buf'[c].refcount = Cardinality(Holders(c)')
    BY <2>1, <2>2 DEF IInv, HeldBufferKept
  <2> QED
    BY <1>1, <2>2, <2>3, <2>4 DEF HeldBufferKept, Using
<1>11. \A c \in Cached : c # b => buf'[c] = buf[c] /\ (Agrees(c) => Agrees(c)')
  BY <1>1, <1>2, <1>5 DEF IInv, ListInv, Agrees
<1>12. DataInv'
  <2> SUFFICES ASSUME NEW u \in Threads
               PROVE  /\ th'[u].pc = "read" => ~buf'[th'[u].b].valid
                      /\ th'[u].pc \in {"have", "write"} => buf'[th'[u].b].valid
                      /\ th'[u].pc = "have" => buf'[th'[u].b].data = disk'[buf'[th'[u].b].block]
                                               \/ buf'[th'[u].b].block \in failed'
    BY DEF DataInv, Agrees
  <2>1. CASE u = t
    BY <1>1, <1>2, <1>3, <1>4, <2>1
  <2>2. CASE u # t
    <3>1. Inside(u) => th[u].b \in Cached /\ th[u].b # b
      BY <1>1, <2>2 DEF IInv, HeldBufferKept, MutexInv, Inside
    <3> QED
      BY <1>4, <1>11, <2>2, <3>1 DEF IInv, DataInv, Inside, Agrees
  <2> QED
    BY <2>1, <2>2
<1>13. CacheCoherent'
  <2> SUFFICES ASSUME NEW c \in Cached, buf'[c].valid, buf'[c].lock = None
               PROVE  buf'[c].data = disk'[buf'[c].block] \/ buf'[c].block \in failed'
    BY <1>1 DEF CacheCoherent
  <2>1. CASE c = b
    BY <1>1, <1>2, <2>1
  <2>2. CASE c # b
    BY <1>11, <2>2 DEF IInv, CacheCoherent, Agrees
  <2> QED
    BY <2>1, <2>2
<1> QED
  BY <1>6, <1>7, <1>8, <1>9, <1>10, <1>12, <1>13 DEF IInv

\* Every operation between bget and the end of brelse is such a step.
LEMMA HeldActions ==
  ASSUME IInv, NEW t \in Threads,
         \/ Lock(t) \/ blk_read(t) \/ ReadFails(t)
         \/ Modify(t) \/ bwrite(t) \/ WriteFails(t) \/ brelse(t)
  PROVE  IInv'
<1>a. PICK b : b = th[t].b
  OBVIOUS
<1>b. PICK k : k = th[t].want
  OBVIOUS
<1>1. Using(t)
  BY DEF Using, Lock, blk_read, ReadFails, Modify, bwrite, WriteFails, brelse
<1>2. b \in Cached /\ b \in Bufs /\ buf[b].block = k /\ k \in Blocks
  BY <1>a, <1>b, <1>1 DEF IInv, HeldBufferKept, Using, Cached, ToSet, TypeOK, ListInv
<1>3. /\ buf \in [Bufs -> BufType] /\ buf[b] \in BufType /\ disk \in [Blocks -> Nat]
      /\ bcache_count \in Int /\ writes \in Nat /\ errors \in Nat /\ failed \subseteq Blocks
  BY <1>2 DEF IInv, TypeOK
<1>4. Inside(t) => buf[b].lock = t
  BY <1>a, <1>2 DEF IInv, MutexInv
<1>5. disk[k] \in Nat
  BY <1>2, <1>3
<1>6. CASE Lock(t)
  <2>a. PICK nb : nb = [buf[b] EXCEPT !.lock = t]
    OBVIOUS
  <2>b. PICK l \in {"have", "read"} : l = IF buf[b].valid THEN "have" ELSE "read"
    OBVIOUS
  <2>1. /\ nb \in BufType /\ nb.block = buf[b].block /\ nb.refcount = buf[b].refcount
        /\ nb.lock = t /\ nb.valid = buf[b].valid /\ nb.data = buf[b].data
    BY <1>a, <1>b, <2>a, <2>b, <1>3 DEF BufType
  <2>2. buf' = [buf EXCEPT ![b] = nb] /\ th' = [th EXCEPT ![t].pc = l]
    BY <1>a, <1>b, <2>a, <2>b, <1>6 DEF Lock
  <2>3. buf[b].valid => buf[b].data = disk[k] \/ k \in failed
    BY <1>a, <1>b, <2>a, <2>b, <1>2, <1>6 DEF Lock, IInv, CacheCoherent
  <2>8. HeldShape(t, b, nb, l)
    BY <1>a, <1>b, <2>a, <2>b, <1>1, <1>2, <1>3, <1>6, <2>1, <2>2, <2>3 DEF HeldShape, Lock
  <2> QED
    BY <1>2, <2>1, <2>8, HeldStep
<1>7. CASE blk_read(t)
  <2>a. PICK nb : nb = [buf[b] EXCEPT !.valid = TRUE, !.data = disk[k]]
    OBVIOUS
  <2>1. /\ nb \in BufType /\ nb.block = buf[b].block /\ nb.refcount = buf[b].refcount
        /\ nb.lock = buf[b].lock /\ nb.valid /\ nb.data = disk[k]
    BY <1>a, <1>b, <2>a, <1>3, <1>5 DEF BufType
  <2>2. buf' = [buf EXCEPT ![b] = nb] /\ th' = [th EXCEPT ![t].pc = "have"]
    BY <1>a, <1>b, <2>a, <1>2, <1>3, <1>7 DEF blk_read
  <2>3. buf[b].lock = t
    BY <1>a, <1>b, <2>a, <1>4, <1>7 DEF blk_read, Inside
  <2>8. HeldShape(t, b, nb, "have")
    BY <1>a, <1>b, <2>a, <1>1, <1>2, <1>3, <1>7, <2>1, <2>2, <2>3 DEF HeldShape, blk_read
  <2> QED
    BY <1>2, <2>1, <2>8, HeldStep
<1>8. CASE ReadFails(t)
  <2>a. PICK nb : nb = [buf[b] EXCEPT !.lock = None]
    OBVIOUS
  <2>1. /\ nb \in BufType /\ nb.block = buf[b].block /\ nb.refcount = buf[b].refcount
        /\ nb.lock = None /\ nb.valid = buf[b].valid
    BY <1>a, <1>b, <2>a, <1>3 DEF BufType
  <2>2. buf' = [buf EXCEPT ![b] = nb] /\ th' = [th EXCEPT ![t].pc = "put"]
    BY <1>a, <1>b, <2>a, <1>8 DEF ReadFails
  <2>3. buf[b].lock = t /\ ~buf[b].valid
    BY <1>a, <1>b, <2>a, <1>4, <1>8 DEF ReadFails, Inside, IInv, DataInv
  <2>8. HeldShape(t, b, nb, "put")
    BY <1>a, <1>b, <2>a, <1>1, <1>2, <1>3, <1>8, <2>1, <2>2, <2>3 DEF HeldShape, ReadFails
  <2> QED
    BY <1>2, <2>1, <2>8, HeldStep
<1>9. CASE Modify(t)
  <2>a. PICK nb : nb = [buf[b] EXCEPT !.data = writes + 1]
    OBVIOUS
  <2>1. /\ nb \in BufType /\ nb.block = buf[b].block /\ nb.refcount = buf[b].refcount
        /\ nb.lock = buf[b].lock /\ nb.valid = buf[b].valid
    BY <1>a, <1>b, <2>a, <1>3 DEF BufType
  <2>2. buf' = [buf EXCEPT ![b] = nb] /\ th' = [th EXCEPT ![t].pc = "write"]
    BY <1>a, <1>b, <2>a, <1>9 DEF Modify
  <2>3. buf[b].lock = t /\ buf[b].valid
    BY <1>a, <1>b, <2>a, <1>4, <1>9 DEF Modify, Inside, IInv, DataInv
  <2>8. HeldShape(t, b, nb, "write")
    BY <1>a, <1>b, <2>a, <1>1, <1>2, <1>3, <1>9, <2>1, <2>2, <2>3 DEF HeldShape, Modify
  <2> QED
    BY <1>2, <2>1, <2>8, HeldStep
<1>10. CASE bwrite(t)
  <2>a. PICK nb \in BufType : nb = buf[b]
    BY <1>3
  <2>1. buf' = [buf EXCEPT ![b] = nb] /\ th' = [th EXCEPT ![t].pc = "have"]
    BY <1>a, <1>b, <2>a, <1>3, <1>10 DEF bwrite
  <2>2. buf[b].lock = t /\ buf[b].valid
    BY <1>a, <1>b, <2>a, <1>4, <1>10 DEF bwrite, Inside, IInv, DataInv
  <2>3. buf[b].data \in Nat
    BY <1>a, <1>b, <2>a, <1>3 DEF BufType
  <2>4. /\ disk' \in [Blocks -> Nat] /\ failed' \subseteq Blocks
        /\ \A j \in Blocks : j # k => disk'[j] = disk[j] /\ (j \in failed <=> j \in failed')
        /\ buf[b].data = disk'[k]
    BY <1>a, <1>b, <2>a, <1>2, <1>3, <1>10, <2>3 DEF bwrite
  <2>8. HeldShape(t, b, nb, "have")
    BY <1>a, <1>b, <2>a, <1>1, <1>2, <1>3, <1>10, <2>1, <2>2, <2>4 DEF HeldShape, bwrite
  <2> QED
    BY <1>2, <2>a, <2>8, HeldStep
<1>11. CASE WriteFails(t)
  <2>a. PICK nb \in BufType : nb = buf[b]
    BY <1>3
  <2>1. buf' = [buf EXCEPT ![b] = nb] /\ th' = [th EXCEPT ![t].pc = "have"]
    BY <1>a, <1>b, <2>a, <1>3, <1>11 DEF WriteFails
  <2>2. buf[b].lock = t /\ buf[b].valid
    BY <1>a, <1>b, <2>a, <1>4, <1>11 DEF WriteFails, Inside, IInv, DataInv
  <2>3. /\ disk' = disk /\ failed' \subseteq Blocks /\ k \in failed' /\ errors' \in Nat
        /\ bcache_count' = bcache_count /\ writes' = writes /\ lru' = lru
        /\ \A j \in Blocks : j # k => (j \in failed <=> j \in failed')
    BY <1>b, <1>2, <1>3, <1>11 DEF WriteFails
  <2>8. HeldShape(t, b, nb, "have")
    BY <1>a, <1>b, <2>a, <1>1, <1>2, <1>3, <2>1, <2>2, <2>3 DEF HeldShape
  <2> QED
    BY <1>2, <2>a, <2>8, HeldStep
<1>12. CASE brelse(t)
  <2>a. PICK nb : nb = [buf[b] EXCEPT !.lock = None]
    OBVIOUS
  <2>1. /\ nb \in BufType /\ nb.block = buf[b].block /\ nb.refcount = buf[b].refcount
        /\ nb.lock = None /\ nb.valid = buf[b].valid /\ nb.data = buf[b].data
    BY <1>a, <1>b, <2>a, <1>3 DEF BufType
  <2>2. buf' = [buf EXCEPT ![b] = nb] /\ th' = [th EXCEPT ![t].pc = "put"]
    BY <1>a, <1>b, <2>a, <1>12 DEF brelse
  <2>3. buf[b].lock = t /\ (buf[b].data = disk[k] \/ k \in failed)
    BY <1>a, <1>b, <2>a, <1>2, <1>4, <1>12 DEF brelse, Inside, IInv, DataInv, Agrees
  <2>8. HeldShape(t, b, nb, "put")
    BY <1>a, <1>b, <2>a, <1>1, <1>2, <1>3, <1>12, <2>1, <2>2, <2>3 DEF HeldShape, brelse
  <2> QED
    BY <1>2, <2>1, <2>8, HeldStep
<1> QED
  BY <1>6, <1>7, <1>8, <1>9, <1>10, <1>11, <1>12

-----------------------------------------------------------------------------
(* The steps of bget.                                                      *)

\* Thread t gets buffer b, which becomes nb, for block k: bget returns.
EnterShape(t, b, k, nb) ==
    /\ ~Using(t) /\ th' = [th EXCEPT ![t] = [pc |-> "lock", want |-> k, b |-> b]]
    /\ lru' \in Seq(Bufs) /\ Cached' = Cached \cup {b}
    /\ \A i, j \in DOMAIN lru' : lru'[i] = lru'[j] => i = j
    /\ buf' \in [Bufs -> BufType] /\ buf'[b] = nb /\ \A c \in Cached \ {b} : buf'[c] = buf[c]
    /\ nb.block = k /\ \A c \in Cached \ {b} : buf[c].block # k
    /\ \A u \in Threads : u # t /\ th[u].pc = "insert" =>
          th[u].b # b /\ buf'[th[u].b] = buf[th[u].b]
    /\ \A u \in Threads : Using(u) /\ th[u].b = b =>
          buf[b].block = k /\ nb.valid = buf[b].valid /\ nb.data = buf[b].data
    /\ nb.refcount = Cardinality(Holders(b)) + 1
    /\ \A u \in Threads : nb.lock = u <=> th[u].b = b /\ Inside(u)
    /\ nb.valid /\ nb.lock = None => nb.data = disk[k] \/ k \in failed
    /\ bcache_count' \in Int /\ UNCHANGED <<disk, writes, errors, failed>>

LEMMA EnterStep ==
  ASSUME IInv, NEW t \in Threads, NEW b \in Bufs, NEW k \in Blocks, NEW nb \in BufType,
         EnterShape(t, b, k, nb)
  PROVE  IInv'
<1> USE DEF EnterShape
<1>1. PICK nt : nt = [pc |-> "lock", want |-> k, b |-> b]
  OBVIOUS
<1>2. /\ nt \in ThreadType /\ nt.pc = "lock" /\ nt.b = b /\ nt.want = k
      /\ th' = [th EXCEPT ![t] = nt]
  BY <1>1 DEF ThreadType
<1>3. /\ \A u \in Threads : th'[u] = IF u = t THEN nt ELSE th[u]
      /\ th' \in [Threads -> ThreadType]
  BY <1>2 DEF IInv, TypeOK
<1>4. /\ Cached \subseteq Bufs /\ b \in Cached'
      /\ \A c \in Cached' : c # b => c \in Cached /\ buf'[c] = buf[c]
  <2>1. Cached \subseteq Bufs
    BY DEF IInv, TypeOK, Cached, ToSet
  <2> QED
    BY <2>1
<1>5. TypeOK'
  BY <1>3 DEF IInv, TypeOK
<1>6. ListInv'
  BY <1>4 DEF IInv, ListInv
<1>7. AllocInv'
  <2>1. \A u \in Threads : th'[u].pc \in {"alloc", "insert"} => u # t /\ th'[u] = th[u]
    BY <1>2, <1>3
  <2>2. \A u \in Threads : th'[u].pc \in {"alloc", "insert"} => th'[u].want \in Blocks
    BY <2>1 DEF IInv, AllocInv
  <2>3. \A u, v \in Threads : th'[u].pc = "insert" /\ th'[v].pc = "insert" /\ th'[u].b = th'[v].b => u = v
    BY <2>1 DEF IInv, AllocInv
  <2>4. \A u \in Threads : th'[u].pc = "insert" =>
           /\ th'[u].b \in Bufs \ Cached'
           /\ buf'[th'[u].b] = Fresh(th'[u].want)
    BY <2>1 DEF IInv, AllocInv
  <2> QED
    BY <2>2, <2>3, <2>4 DEF AllocInv, Fresh
<1>8. MutexInv'
  <2> SUFFICES ASSUME NEW c \in Cached', NEW u \in Threads
               PROVE  buf'[c].lock = u <=> th'[u].b = c /\ Inside(u)'
    BY DEF MutexInv
  <2>1. Inside(u)' <=> u # t /\ Inside(u)
    BY <1>2, <1>3 DEF Inside
  <2>2. Inside(u) => u # t
    BY DEF Using, Inside
  <2>3. c # b => (buf[c].lock = u <=> th[u].b = c /\ Inside(u))
    BY <1>4 DEF IInv, MutexInv
  <2> QED
    BY <1>3, <1>4, <2>1, <2>2, <2>3
<1>9. HeldBufferKept'
  <2>1. \A c \in Bufs : Holders(c)' = IF c = b THEN Holders(c) \cup {t} ELSE Holders(c)
    BY <1>2, <1>3 DEF Holders, Using
  <2>2. Holders(b) \subseteq Threads /\ t \notin Holders(b)
    BY DEF Holders, Using
  <2>3. Cardinality(Holders(b) \cup {t}) = Cardinality(Holders(b)) + 1
    BY <2>2, Counting
  <2>4. ASSUME NEW c \in Cached'
        PROVE  buf'[c].refcount = Cardinality(Holders(c)')
    <3>1. CASE c = b
      <4>1. Holders(c)' = Holders(b) \cup {t}
        BY <2>1, <3>1
      <4> QED
        BY <2>3, <3>1, <4>1
    <3>2. CASE c # b
      <4>1. c \in Cached /\ c \in Bufs /\ buf'[c] = buf[c]
        BY <1>4, <3>2
      <4>2. Holders(c)' = Holders(c)
        BY <2>1, <3>2, <4>1
      <4> QED
        BY <4>1, <4>2 DEF IInv, HeldBufferKept
    <3> QED
      BY <3>1, <3>2
  <2>5. ASSUME NEW u \in Threads, Using(u)'
        PROVE  th'[u].b \in Cached' /\ buf'[th'[u].b].block = th'[u].want
    <3>1. CASE u = t
      BY <1>2, <1>3, <1>4, <3>1
    <3>2. CASE u # t
      <4>1. th'[u] = th[u] /\ Using(u)
        BY <1>3, <2>5, <3>2 DEF Using
      <4>2. th[u].b \in Cached /\ buf[th[u].b].block = th[u].want
        BY <4>1 DEF IInv, HeldBufferKept, Using
      <4>3. CASE th[u].b = b
        BY <1>4, <4>1, <4>2, <4>3
      <4>4. CASE th[u].b # b
        BY <4>1, <4>2, <4>4
      <4> QED
        BY <4>3, <4>4
    <3> QED
      BY <3>1, <3>2
  <2> QED
    BY <2>4, <2>5 DEF HeldBufferKept, Using
<1>10. DataInv'
  <2> SUFFICES ASSUME NEW u \in Threads, Inside(u)'
               PROVE  /\ th'[u].pc = "read" => ~buf'[th'[u].b].valid
                      /\ th'[u].pc \in {"have", "write"} => buf'[th'[u].b].valid
                      /\ th'[u].pc = "have" => buf'[th'[u].b].data = disk'[buf'[th'[u].b].block]
                                               \/ buf'[th'[u].b].block \in failed'
    BY DEF DataInv, Agrees, Inside
  <2>1. u # t /\ th'[u] = th[u] /\ Inside(u) /\ Using(u)
    BY <1>2, <1>3 DEF Inside, Using
  <2>2. th[u].b \in Cached
    BY <2>1 DEF IInv, HeldBufferKept, Using
  <2>3. /\ buf'[th[u].b].valid = buf[th[u].b].valid /\ buf'[th[u].b].data = buf[th[u].b].data
        /\ buf'[th[u].b].block = buf[th[u].b].block
    BY <2>1, <2>2
  <2> QED
    BY <2>1, <2>3 DEF IInv, DataInv, Agrees
<1>11. CacheCoherent'
  BY <1>4 DEF IInv, CacheCoherent
<1> QED
  BY <1>5, <1>6, <1>7, <1>8, <1>9, <1>10, <1>11 DEF IInv

\* Thread t, which has no buffer of the cache, moves on inside bget or gives up; buffers
\* that nobody uses may leave the cache.
OutsideShape(t, nt) ==
    /\ ~Using(t) /\ th' = [th EXCEPT ![t] = nt] /\ nt.pc \in {"idle", "alloc", "insert"}
    /\ nt.pc # "idle" => nt.want \in Blocks
    /\ lru' \in Seq(Bufs) /\ \A i, j \in DOMAIN lru' : lru'[i] = lru'[j] => i = j
    /\ Cached' \subseteq Cached /\ \A u \in Threads : Using(u) => th[u].b \in Cached'
    /\ buf' \in [Bufs -> BufType] /\ \A c \in Cached' : buf'[c] = buf[c]
    /\ \A u \in Threads : u # t /\ th[u].pc = "insert" => buf'[th[u].b] = buf[th[u].b]
    /\ nt.pc = "insert" =>
          /\ nt.b \in Bufs \ Cached' /\ buf'[nt.b] = Fresh(nt.want)
          /\ \A u \in Threads : u # t /\ th[u].pc = "insert" => th[u].b # nt.b
    /\ bcache_count' \in Int /\ UNCHANGED <<disk, writes, errors, failed>>

LEMMA OutsideStep ==
  ASSUME IInv, NEW t \in Threads, NEW nt \in ThreadType, OutsideShape(t, nt)
  PROVE  IInv'
<1> USE DEF OutsideShape
<1>1. /\ \A u \in Threads : th'[u] = IF u = t THEN nt ELSE th[u]
      /\ th' \in [Threads -> ThreadType]
  BY DEF IInv, TypeOK
<1>2. \A u \in Threads : Using(u)' => u # t /\ Using(u) /\ th'[u] = th[u]
  BY <1>1 DEF Using
<1>3. Cached' \subseteq Bufs
  BY DEF Cached, ToSet
<1>4. TypeOK'
  BY <1>1 DEF IInv, TypeOK
<1>5. ListInv'
  BY DEF IInv, ListInv
<1>6. AllocInv'
  <2>1. \A u \in Threads : u # t => th'[u] = th[u]
    BY <1>1
  <2>2. \A u \in Threads : th'[u].pc \in {"alloc", "insert"} => th'[u].want \in Blocks
    BY <1>1 DEF IInv, AllocInv
  <2>3. ASSUME NEW u \in Threads, NEW v \in Threads, th'[u].pc = "insert", th'[v].pc = "insert",
               th'[u].b = th'[v].b
        PROVE  u = v
    BY <1>1, <2>3 DEF IInv, AllocInv
  <2>4. ASSUME NEW u \in Threads, th'[u].pc = "insert"
        PROVE  /\ th'[u].b \in Bufs \ Cached'
               /\ buf'[th'[u].b] = Fresh(th'[u].want)
    BY <1>1, <2>4 DEF IInv, AllocInv
  <2> QED
    BY <2>2, <2>3, <2>4 DEF AllocInv, Fresh
<1>7. MutexInv'
  <2> SUFFICES ASSUME NEW c \in Cached', NEW u \in Threads
               PROVE  buf'[c].lock = u <=> th'[u].b = c /\ Inside(u)'
    BY DEF MutexInv
  <2>1. Inside(u)' <=> u # t /\ Inside(u)
    BY <1>1 DEF Inside
  <2>2. Inside(u) => u # t
    BY DEF Using, Inside
  <2>3. buf[c].lock = u <=> th[u].b = c /\ Inside(u)
    BY DEF IInv, MutexInv
  <2> QED
    BY <1>1, <2>1, <2>2, <2>3
<1>8. HeldBufferKept'
  <2>1. \A c : Holders(c)' = Holders(c)
    BY <1>1 DEF Holders, Using
  <2>2. \A c \in Cached' : buf'[c].refcount = Cardinality(Holders(c)')
    BY <2>1 DEF IInv, HeldBufferKept
  <2>3. ASSUME NEW u \in Threads, Using(u)'
        PROVE  th'[u].b \in Cached' /\ buf'[th'[u].b].block = th'[u].want
    BY <1>2, <2>3 DEF IInv, HeldBufferKept, Using
  <2> QED
    BY <2>2, <2>3 DEF HeldBufferKept, Using
<1>9. DataInv'
  <2> SUFFICES ASSUME NEW u \in Threads, Inside(u)'
               PROVE  /\ th'[u].pc = "read" => ~buf'[th'[u].b].valid
                      /\ th'[u].pc \in {"have", "write"} => buf'[th'[u].b].valid
                      /\ th'[u].pc = "have" => buf'[th'[u].b].data = disk'[buf'[th'[u].b].block]
                                               \/ buf'[th'[u].b].block \in failed'
    BY DEF DataInv, Agrees, Inside
  <2>1. Using(u) /\ th'[u] = th[u]
    BY <1>2 DEF Inside, Using
  <2>2. buf'[th[u].b] = buf[th[u].b]
    BY <2>1
  <2> QED
    BY <2>1, <2>2 DEF IInv, DataInv, Agrees
<1>10. CacheCoherent'
  BY DEF IInv, CacheCoherent
<1> QED
  BY <1>4, <1>5, <1>6, <1>7, <1>8, <1>9, <1>10 DEF IInv

LEMMA BgetHit ==
  ASSUME IInv, NEW t \in Threads, NEW k \in Blocks, bget_hit(t, k)
  PROVE  IInv'
<1>1. PICK b \in Listed(k) :
         /\ buf' = [buf EXCEPT ![b].refcount = @ + 1] /\ lru' = ToFront(b)
         /\ th' = [th EXCEPT ![t] = [pc |-> "lock", want |-> k, b |-> b]]
  BY DEF bget_hit
<1>2. b \in Cached /\ buf[b].block = k
  BY <1>1 DEF Listed
<1>3. /\ lru' \in Seq(Bufs) /\ Cached' = Cached
      /\ \A i, j \in DOMAIN lru' : lru'[i] = lru'[j] => i = j
  BY <1>1, <1>2, ListMoves DEF IInv, Cached
<1>4. Cached \subseteq Bufs
  BY DEF IInv, TypeOK, Cached, ToSet
<1>5. buf \in [Bufs -> BufType] /\ buf[b] \in BufType
  BY <1>2, <1>4 DEF IInv, TypeOK
<1>6. PICK nb : nb = [buf[b] EXCEPT !.refcount = @ + 1]
  OBVIOUS
<1>7. /\ nb \in BufType /\ nb.block = k /\ nb.valid = buf[b].valid /\ nb.data = buf[b].data
      /\ nb.lock = buf[b].lock /\ nb.refcount = buf[b].refcount + 1
  BY <1>2, <1>5, <1>6 DEF BufType
<1>8. /\ buf' = [buf EXCEPT ![b] = nb] /\ buf' \in [Bufs -> BufType] /\ buf'[b] = nb
      /\ \A c \in Bufs : c # b => buf'[c] = buf[c]
  BY <1>1, <1>2, <1>4, <1>5, <1>6, <1>7
<1>9. \A u \in Threads : th[u].pc = "insert" => th[u].b \in Bufs \ Cached
  BY DEF IInv, AllocInv
<1>10. nb.refcount = Cardinality(Holders(b)) + 1
  BY <1>2, <1>7 DEF IInv, HeldBufferKept
<1>11. \A u \in Threads : nb.lock = u <=> th[u].b = b /\ Inside(u)
  BY <1>2, <1>7 DEF IInv, MutexInv
<1>12. nb.valid /\ nb.lock = None => nb.data = disk[k] \/ k \in failed
  BY <1>2, <1>7 DEF IInv, CacheCoherent
<1>13. \A c \in Cached \ {b} : buf[c].block # k
  BY <1>2 DEF IInv, ListInv
<1>14. ~Using(t) /\ bcache_count' \in Int /\ UNCHANGED <<disk, writes, errors, failed>>
  BY DEF bget_hit, Using, IInv, TypeOK
<1>15. EnterShape(t, b, k, nb)
  BY <1>1, <1>2, <1>3, <1>4, <1>7, <1>8, <1>9, <1>10, <1>11, <1>12, <1>13, <1>14 DEF EnterShape
<1> QED
  BY <1>2, <1>4, <1>7, <1>15, EnterStep

\* A buffer that bget takes away from its block is in the list, and used by nobody.
LEMMA VictimFree ==
  ASSUME IInv, NEW b \in Victim
  PROVE  /\ b \in Cached /\ buf[b].refcount = 0
         /\ b \in Bufs
BY DEF Victim, Oldest, Cached, ToSet, IInv, TypeOK

LEMMA BgetReuse ==
  ASSUME IInv, NEW t \in Threads, NEW k \in Blocks, bget_reuse(t, k)
  PROVE  IInv'
<1>1. PICK b \in Victim :
         /\ buf' = [buf EXCEPT ![b] = Rekeyed(@, k)] /\ lru' = ToFront(b)
         /\ th' = [th EXCEPT ![t] = [pc |-> "lock", want |-> k, b |-> b]]
  BY DEF bget_reuse
<1>2. /\ b \in Cached /\ b \in Bufs /\ Holders(b) = {} /\ buf[b].lock = None
      /\ \A u \in Threads : ~(th[u].b = b /\ Using(u))
  BY VictimFree, FreeBuffer
<1>3. /\ lru' \in Seq(Bufs) /\ Cached' = Cached
      /\ \A i, j \in DOMAIN lru' : lru'[i] = lru'[j] => i = j
  BY <1>1, <1>2, ListMoves DEF IInv, Cached
<1>4. Cached \subseteq Bufs
  BY DEF IInv, TypeOK, Cached, ToSet
<1>5. buf \in [Bufs -> BufType] /\ buf[b] \in BufType
  BY <1>2 DEF IInv, TypeOK
<1>6. PICK nb : nb = Rekeyed(buf[b], k)
  OBVIOUS
<1>7. /\ nb \in BufType /\ nb.block = k /\ ~nb.valid
      /\ nb.lock = buf[b].lock /\ nb.refcount = 1
  <2>1. nb = [block |-> k, valid |-> FALSE, refcount |-> 1, lock |-> buf[b].lock, data |-> buf[b].data]
    BY <1>5, <1>6 DEF BufType, Rekeyed
  <2>2. buf[b].lock \in Threads \cup {None} /\ buf[b].data \in Nat
    BY <1>5 DEF BufType
  <2> QED
    BY <2>1, <2>2 DEF BufType
<1>8. /\ buf' = [buf EXCEPT ![b] = nb] /\ buf' \in [Bufs -> BufType] /\ buf'[b] = nb
      /\ \A c \in Bufs : c # b => buf'[c] = buf[c]
  BY <1>1, <1>2, <1>5, <1>6, <1>7
<1>9. \A u \in Threads : th[u].pc = "insert" => th[u].b \in Bufs \ Cached
  BY DEF IInv, AllocInv
<1>10. nb.refcount = Cardinality(Holders(b)) + 1
  BY <1>2, <1>7, FS_EmptySet
<1>11. \A u \in Threads : nb.lock = u <=> th[u].b = b /\ Inside(u)
  BY <1>2, <1>7 DEF Using, Inside
<1>12. \A c \in Cached \ {b} : buf[c].block # k
  BY DEF bget_reuse, Listed
<1>13. ~Using(t) /\ bcache_count' \in Int /\ UNCHANGED <<disk, writes, errors, failed>>
  BY DEF bget_reuse, Using, IInv, TypeOK
<1>14. EnterShape(t, b, k, nb)
  BY <1>1, <1>2, <1>3, <1>4, <1>7, <1>8, <1>9, <1>10, <1>11, <1>12, <1>13 DEF EnterShape
<1> QED
  BY <1>2, <1>7, <1>14, EnterStep

LEMMA BgetInsert ==
  ASSUME IInv, NEW t \in Threads, Insert(t)
  PROVE  IInv'
<1>1. PICK b, k, nb : b = th[t].b /\ k = th[t].want /\ nb = buf[b]
  OBVIOUS
<1>2. th[t].pc = "insert" /\ Listed(k) = {} /\ lru' = <<b>> \o lru /\ buf' = buf
  BY <1>1 DEF Insert, Dup
<1>3. k \in Blocks /\ b \in Bufs /\ b \notin Cached /\ nb = Fresh(k)
  BY <1>1, <1>2 DEF IInv, AllocInv
<1>4. Cached \subseteq Bufs /\ buf \in [Bufs -> BufType] /\ nb \in BufType
  <2>1. Cached \subseteq Bufs /\ buf \in [Bufs -> BufType]
    BY DEF IInv, TypeOK, Cached, ToSet
  <2> QED
    BY <1>1, <1>3, <2>1
<1>5. nb.block = k /\ ~nb.valid /\ nb.lock = None /\ nb.refcount = 1
  BY <1>3 DEF Fresh
<1>6. /\ lru' \in Seq(Bufs) /\ Cached' = Cached \cup {b}
      /\ \A i, j \in DOMAIN lru' : lru'[i] = lru'[j] => i = j
  <2>1. lru \in Seq(Bufs) /\ \A i, j \in DOMAIN lru : lru[i] = lru[j] => i = j
    BY DEF IInv, TypeOK, ListInv
  <2> QED
    BY <1>2, <1>3, <2>1, PutInFront DEF Cached
<1>7. \A u \in Threads : ~(Using(u) /\ th[u].b = b)
  BY <1>3 DEF IInv, HeldBufferKept, Using
<1>8. nb.refcount = Cardinality(Holders(b)) + 1
  <2>1. Holders(b) = {}
    BY <1>7 DEF Holders, Using
  <2> QED
    BY <1>5, <2>1, FS_EmptySet
<1>9. \A u \in Threads : nb.lock = u <=> th[u].b = b /\ Inside(u)
  BY <1>5, <1>7 DEF Using, Inside
<1>10. th' = [th EXCEPT ![t] = [pc |-> "lock", want |-> k, b |-> b]]
  <2>1. th \in [Threads -> ThreadType] /\ th[t] \in ThreadType
    BY DEF IInv, TypeOK
  <2>2. [th[t] EXCEPT !.pc = "lock"] = [pc |-> "lock", want |-> k, b |-> b]
    BY <1>1, <2>1 DEF ThreadType
  <2>3. th' = [th EXCEPT ![t] = [th[t] EXCEPT !.pc = "lock"]]
    BY <2>1 DEF Insert
  <2> QED
    BY <2>2, <2>3
<1>11. \A u \in Threads : u # t /\ th[u].pc = "insert" => th[u].b # b
  BY <1>1, <1>2 DEF IInv, AllocInv
<1>12. \A c \in Cached \ {b} : buf[c].block # k
  BY <1>2 DEF Listed
<1>13. ~Using(t) /\ bcache_count' \in Int /\ UNCHANGED <<disk, writes, errors, failed>>
  BY DEF Insert, Using, IInv, TypeOK
<1>14. EnterShape(t, b, k, nb)
  BY <1>1, <1>2, <1>4, <1>5, <1>6, <1>7, <1>8, <1>9, <1>10, <1>11, <1>12, <1>13 DEF EnterShape
<1> QED
  BY <1>3, <1>4, <1>14, EnterStep

LEMMA BgetInsertDup ==
  ASSUME IInv, NEW t \in Threads, InsertDup(t)
  PROVE  IInv'
<1>1. PICK p, k : p = th[t].b /\ k = th[t].want
  OBVIOUS
<1>2. PICK b \in Listed(k) :
         /\ buf' = [buf EXCEPT ![b].refcount = @ + 1, ![p] = Empty]
         /\ th' = [th EXCEPT ![t].pc = "lock", ![t].b = b]
  BY <1>1 DEF InsertDup, Dup
<1>3. b \in Cached /\ buf[b].block = k /\ th[t].pc = "insert"
  BY <1>2 DEF Listed, InsertDup
<1>4. Cached \subseteq Bufs /\ b \in Bufs
  BY <1>3 DEF IInv, TypeOK, Cached, ToSet
<1>5. k \in Blocks /\ p \in Bufs /\ p \notin Cached
  BY <1>1, <1>3 DEF IInv, AllocInv
<1>6. buf \in [Bufs -> BufType] /\ buf[b] \in BufType /\ Empty \in BufType
  BY <1>4 DEF IInv, TypeOK, BufType, Empty
<1>7. PICK nb : nb = [buf[b] EXCEPT !.refcount = @ + 1]
  OBVIOUS
<1>8. /\ nb \in BufType /\ nb.block = k /\ nb.valid = buf[b].valid /\ nb.data = buf[b].data
      /\ nb.lock = buf[b].lock /\ nb.refcount = buf[b].refcount + 1
  BY <1>3, <1>6, <1>7 DEF BufType
<1>9. buf' = [[buf EXCEPT ![b] = nb] EXCEPT ![p] = Empty]
  BY <1>2, <1>4, <1>6, <1>7
<1>10. /\ buf' \in [Bufs -> BufType] /\ buf'[b] = nb
       /\ \A c \in Bufs : c # b /\ c # p => buf'[c] = buf[c]
  BY <1>3, <1>4, <1>5, <1>6, <1>8, <1>9
<1>11. \A u \in Threads : u # t /\ th[u].pc = "insert" => th[u].b \in Bufs \ Cached /\ th[u].b # p
  BY <1>1, <1>3 DEF IInv, AllocInv
<1>12. nb.refcount = Cardinality(Holders(b)) + 1
  BY <1>3, <1>8 DEF IInv, HeldBufferKept
<1>13. \A u \in Threads : nb.lock = u <=> th[u].b = b /\ Inside(u)
  BY <1>3, <1>8 DEF IInv, MutexInv
<1>14. nb.valid /\ nb.lock = None => nb.data = disk[k] \/ k \in failed
  BY <1>3, <1>8 DEF IInv, CacheCoherent
<1>15. \A c \in Cached \ {b} : buf[c].block # k
  BY <1>3 DEF IInv, ListInv
<1>16. th' = [th EXCEPT ![t] = [pc |-> "lock", want |-> k, b |-> b]]
  <2>1. th \in [Threads -> ThreadType] /\ th[t] \in ThreadType
    BY DEF IInv, TypeOK
  <2>2. [th[t] EXCEPT !.pc = "lock", !.b = b] = [pc |-> "lock", want |-> k, b |-> b]
    <3>1. PICK x \in ThreadType : x = th[t] /\ x.want = k
      BY <1>1, <2>1
    <3>2. PICK y : y = [x EXCEPT !.pc = "lock", !.b = b]
      OBVIOUS
    <3>3. y \in ThreadType /\ y.pc = "lock" /\ y.want = x.want /\ y.b = b
      BY <1>4, <3>2 DEF ThreadType
    <3>4. y = [pc |-> y.pc, want |-> y.want, b |-> y.b]
      BY <3>3 DEF ThreadType
    <3> QED
      BY <3>1, <3>2, <3>3, <3>4
  <2>3. th' = [th EXCEPT ![t] = [th[t] EXCEPT !.pc = "lock", !.b = b]]
    BY <1>2, <2>1
  <2> QED
    BY <2>2, <2>3
<1>17. /\ ~Using(t) /\ bcache_count' \in Int /\ UNCHANGED <<disk, writes, errors, failed>>
       /\ lru' = lru /\ Cached' = Cached \cup {b}
       /\ lru \in Seq(Bufs) /\ \A i, j \in DOMAIN lru : lru[i] = lru[j] => i = j
  BY <1>3 DEF InsertDup, Using, IInv, TypeOK, ListInv, Cached
<1>18. EnterShape(t, b, k, nb)
  BY <1>3, <1>4, <1>5, <1>8, <1>10, <1>11, <1>12, <1>13, <1>14, <1>15, <1>16, <1>17 DEF EnterShape
<1> QED
  BY <1>4, <1>5, <1>8, <1>18, EnterStep

\* The steps that leave a thread outside: the ones that go for memory, with or without a
\* buffer freed, and what comes of it.
LEMMA BgetOutside ==
  ASSUME IInv, NEW t \in Threads, NEW k \in Blocks,
         bget_free(t, k) \/ bget_new(t, k) \/ Alloc(t) \/ AllocFails(t)
  PROVE  IInv'
<1>1. /\ lru \in Seq(Bufs) /\ Cached \subseteq Bufs /\ buf \in [Bufs -> BufType]
      /\ th \in [Threads -> ThreadType] /\ th[t] \in ThreadType /\ bcache_count \in Int
  BY DEF IInv, TypeOK, Cached, ToSet
<1>2. \A i, j \in DOMAIN lru : lru[i] = lru[j] => i = j
  BY DEF IInv, ListInv
<1>3. \A u \in Threads : Using(u) => th[u].b \in Cached
  BY DEF IInv, HeldBufferKept, Using
<1>4. \A u \in Threads : th[u].pc = "insert" => th[u].b \in Bufs \ Cached
  BY DEF IInv, AllocInv
<1>5. PICK nt : nt = [pc |-> "alloc", want |-> k, b |-> None]
  OBVIOUS
<1>6. nt \in ThreadType /\ nt.pc = "alloc" /\ nt.want = k
  BY <1>5 DEF ThreadType
<1>7. CASE bget_free(t, k)
  <2>1. PICK b \in Victim : buf' = [buf EXCEPT ![b] = Empty] /\ lru' = ListDel(b)
    BY <1>7 DEF bget_free
  <2>2. /\ b \in Cached /\ b \in Bufs
        /\ \A u \in Threads : ~(th[u].b = b /\ Using(u))
    BY VictimFree, FreeBuffer
  <2>3. /\ lru' \in Seq(Bufs) /\ Cached' = Cached \ {b}
        /\ \A i, j \in DOMAIN lru' : lru'[i] = lru'[j] => i = j
    BY <2>1, <2>2, ListMoves DEF IInv, Cached
  <2>4. Empty \in BufType
    BY DEF Empty, BufType
  <2>5. buf' \in [Bufs -> BufType] /\ \A c \in Bufs : c # b => buf'[c] = buf[c]
    BY <1>1, <2>1, <2>2, <2>4
  <2>6. OutsideShape(t, nt)
    BY <1>1, <1>3, <1>4, <1>5, <1>6, <1>7, <2>2, <2>3, <2>5 DEF OutsideShape, bget_free, Using
  <2> QED
    BY <1>6, <2>6, OutsideStep
<1>8. CASE bget_new(t, k)
  <2>1. Cached' = Cached
    BY <1>8 DEF bget_new, Cached
  <2>2. OutsideShape(t, nt)
    BY <1>1, <1>2, <1>3, <1>5, <1>6, <1>8, <2>1 DEF OutsideShape, bget_new, Using
  <2> QED
    BY <1>6, <2>2, OutsideStep
<1>9. CASE AllocFails(t)
  <2>1. Cached' = Cached
    BY <1>9 DEF AllocFails, Cached
  <2>a. Idle \in ThreadType /\ Idle.pc = "idle"
    BY DEF Idle, ThreadType
  <2>2. PICK it : it = Idle /\ it \in ThreadType /\ it.pc = "idle"
    BY <2>a
  <2>3. OutsideShape(t, it)
    BY <1>1, <1>2, <1>3, <1>9, <2>1, <2>2 DEF OutsideShape, AllocFails, Using
  <2> QED
    BY <2>2, <2>3, OutsideStep
<1>10. CASE Alloc(t)
  <2>1. PICK b : b = Min(Bufs \ (Cached \cup Private))
    OBVIOUS
  <2>2. /\ buf' = [buf EXCEPT ![b] = Fresh(th[t].want)]
        /\ th' = [th EXCEPT ![t].pc = "insert", ![t].b = b]
    BY <1>10, <2>1 DEF Alloc
  <2>3. b \in Bufs \ (Cached \cup Private)
    BY <1>10, <2>1, LeastOf DEF Alloc
  <2>4. PICK w \in Blocks : w = th[t].want
    BY <1>10 DEF Alloc, IInv, AllocInv
  <2>5. Fresh(w) \in BufType
    BY DEF Fresh, BufType
  <2>6. PICK mt : mt = [th[t] EXCEPT !.pc = "insert", !.b = b]
    OBVIOUS
  <2>7. mt \in ThreadType /\ mt.pc = "insert" /\ mt.b = b /\ mt.want = w
    BY <1>1, <2>3, <2>4, <2>6 DEF ThreadType
  <2>8. th' = [th EXCEPT ![t] = mt]
    BY <1>1, <2>2, <2>6
  <2>9. /\ buf' \in [Bufs -> BufType] /\ buf'[b] = Fresh(w)
        /\ \A c \in Bufs : c # b => buf'[c] = buf[c]
    BY <1>1, <2>2, <2>3, <2>4, <2>5
  <2>10. \A u \in Threads : th[u].pc = "insert" => th[u].b # b
    BY <2>3 DEF Private
  <2>11. Cached' = Cached /\ lru' = lru /\ UNCHANGED <<bcache_count, disk, writes, errors, failed>>
    BY <1>10 DEF Alloc, Cached
  <2>12. ~Using(t)
    BY <1>10 DEF Alloc, Using
  <2>13. OutsideShape(t, mt)
    BY <1>1, <1>2, <1>3, <1>4, <2>3, <2>7, <2>8, <2>9, <2>10, <2>11, <2>12 DEF OutsideShape
  <2> QED
    BY <2>7, <2>13, OutsideStep
<1> QED
  BY <1>7, <1>8, <1>9, <1>10

-----------------------------------------------------------------------------
(* The end of brelse, bcache_invalidate, and the invariant.                 *)

LEMMA PutStep ==
  ASSUME IInv, NEW t \in Threads, Put(t)
  PROVE  IInv'
<1>1. PICK b, nb, nt : /\ b = th[t].b /\ nb = [buf[b] EXCEPT !.refcount = @ - 1]
                       /\ nt = Idle
  OBVIOUS
<1>2. th[t].pc = "put" /\ th' = [th EXCEPT ![t] = nt] /\ UNCHANGED <<lru, disk, failed>>
  BY <1>1 DEF Put
<1>3. b \in Cached /\ buf[b].block = th[t].want /\ Cached' = Cached
  BY <1>1, <1>2 DEF IInv, HeldBufferKept, Cached
<1>4. Cached \subseteq Bufs /\ buf \in [Bufs -> BufType] /\ th \in [Threads -> ThreadType]
  BY DEF IInv, TypeOK, Cached, ToSet
<1>5. buf[b] \in BufType
  BY <1>3, <1>4
<1>6. /\ nb \in BufType /\ nb.block = buf[b].block /\ nb.valid = buf[b].valid
      /\ nb.data = buf[b].data /\ nb.lock = buf[b].lock /\ nb.refcount = buf[b].refcount - 1
  BY <1>1, <1>5 DEF BufType
<1>7. nt \in ThreadType /\ nt.pc = "idle"
  BY <1>1 DEF Idle, ThreadType
<1>8. /\ \A u \in Threads : th'[u] = IF u = t THEN nt ELSE th[u]
      /\ th' \in [Threads -> ThreadType]
  BY <1>2, <1>4, <1>7
<1>9. /\ \A c \in Bufs : buf'[c] = IF c = b THEN nb ELSE buf[c]
      /\ buf' \in [Bufs -> BufType]
  <2>1. buf' = [buf EXCEPT ![b] = nb]
    BY <1>1, <1>3, <1>4 DEF Put
  <2> QED
    BY <1>3, <1>4, <1>6, <2>1
<1>10. \A c \in Cached : /\ buf'[c].block = buf[c].block /\ buf'[c].valid = buf[c].valid
                          /\ buf'[c].data = buf[c].data /\ buf'[c].lock = buf[c].lock
  BY <1>4, <1>6, <1>9
<1>11. \A u \in Threads : th'[u].pc # "idle" => u # t /\ th'[u] = th[u]
  BY <1>7, <1>8
<1>12. TypeOK'
  BY <1>8, <1>9 DEF Put, IInv, TypeOK
<1>13. ListInv'
  BY <1>2, <1>3, <1>10 DEF IInv, ListInv
<1>14. AllocInv'
  <2>1. \A u \in Threads : th'[u].pc \in {"alloc", "insert"} => th'[u].want \in Blocks
    BY <1>11 DEF IInv, AllocInv
  <2>2. \A u, v \in Threads : th'[u].pc = "insert" /\ th'[v].pc = "insert" /\ th'[u].b = th'[v].b => u = v
    BY <1>11 DEF IInv, AllocInv
  <2>3. ASSUME NEW u \in Threads, th'[u].pc = "insert"
        PROVE  /\ th'[u].b \in Bufs \ Cached'
               /\ buf'[th'[u].b] = Fresh(th'[u].want)
    <3>1. th'[u] = th[u]
      BY <1>11, <2>3
    <3>2. th[u].b \in Bufs \ Cached /\ buf[th[u].b] = Fresh(th[u].want)
      BY <2>3, <3>1 DEF IInv, AllocInv
    <3> QED
      BY <1>3, <1>9, <3>1, <3>2
  <2> QED
    BY <2>1, <2>2, <2>3 DEF AllocInv, Fresh
<1>15. MutexInv'
  <2> SUFFICES ASSUME NEW c \in Cached, NEW u \in Threads
               PROVE  buf'[c].lock = u <=> th'[u].b = c /\ Inside(u)'
    BY <1>3 DEF MutexInv
  <2>1. (Inside(u)' <=> Inside(u)) /\ (Inside(u) => th'[u] = th[u])
    BY <1>2, <1>7, <1>8 DEF Inside
  <2>2. buf[c].lock = u <=> th[u].b = c /\ Inside(u)
    BY DEF IInv, MutexInv
  <2> QED
    BY <1>10, <2>1, <2>2
<1>16. HeldBufferKept'
  <2>1. \A c : Holders(c)' = IF c = b THEN Holders(c) \ {t} ELSE Holders(c)
    BY <1>1, <1>7, <1>8 DEF Holders
  <2>2. Holders(b) \subseteq Threads /\ t \in Holders(b)
    BY <1>1, <1>2 DEF Holders
  <2>3. Cardinality(Holders(b) \ {t}) = Cardinality(Holders(b)) - 1
    BY <2>2, Counting
  <2>4. ASSUME NEW c \in Cached
        PROVE  buf'[c].refcount = Cardinality(Holders(c)')
    <3>1. buf[c].refcount = Cardinality(Holders(c))
      BY DEF IInv, HeldBufferKept
    <3>2. CASE c = b
      <4>1. Holders(c)' = Holders(b) \ {t}
        BY <2>1, <3>2
      <4>2. buf'[c].refcount = buf[b].refcount - 1
        BY <1>4, <1>6, <1>9, <3>2
      <4> QED
        BY <2>3, <3>1, <3>2, <4>1, <4>2
    <3>3. CASE c # b
      <4>1. Holders(c)' = Holders(c)
        BY <2>1, <3>3
      <4>2. buf'[c] = buf[c]
        BY <1>4, <1>9, <3>3
      <4> QED
        BY <3>1, <4>1, <4>2
    <3> QED
      BY <3>2, <3>3
  <2>5. ASSUME NEW u \in Threads, Using(u)'
        PROVE  th'[u].b \in Cached /\ buf'[th'[u].b].block = th'[u].want
    <3>1. th'[u] = th[u] /\ Using(u)
      BY <1>11, <2>5 DEF Using
    <3>2. th[u].b \in Cached /\ buf[th[u].b].block = th[u].want
      BY <3>1 DEF IInv, HeldBufferKept, Using
    <3> QED
      BY <1>10, <3>1, <3>2
  <2> QED
    BY <1>3, <2>4, <2>5 DEF HeldBufferKept, Using
<1>17. DataInv'
  <2> SUFFICES ASSUME NEW u \in Threads, Inside(u)'
               PROVE  /\ th'[u].pc = "read" => ~buf'[th'[u].b].valid
                      /\ th'[u].pc \in {"have", "write"} => buf'[th'[u].b].valid
                      /\ th'[u].pc = "have" => buf'[th'[u].b].data = disk'[buf'[th'[u].b].block]
                                               \/ buf'[th'[u].b].block \in failed'
    BY DEF DataInv, Agrees, Inside
  <2>1. th'[u] = th[u] /\ Inside(u)
    BY <1>11 DEF Inside
  <2>2. th[u].b \in Cached
    BY <2>1 DEF IInv, HeldBufferKept, Inside
  <2> QED
    BY <1>2, <1>10, <2>1, <2>2 DEF IInv, DataInv, Agrees
<1>18. CacheCoherent'
  BY <1>2, <1>3, <1>10 DEF IInv, CacheCoherent
<1> QED
  BY <1>12, <1>13, <1>14, <1>15, <1>16, <1>17, <1>18 DEF IInv

LEMMA InvalidateStep ==
  ASSUME IInv, bcache_invalidate
  PROVE  IInv'
<1>1. /\ th' = th /\ Cached' = Cached /\ UNCHANGED <<lru, disk, failed>>
      /\ \A u \in Threads : (Using(u)' <=> Using(u)) /\ (Inside(u)' <=> Inside(u))
      /\ \A c : Holders(c)' = Holders(c)
  BY DEF bcache_invalidate, Cached, Using, Inside, Holders
<1>2. Cached \subseteq Bufs /\ buf \in [Bufs -> BufType]
  BY DEF IInv, TypeOK, Cached, ToSet
<1>3. ASSUME NEW c \in Bufs
      PROVE  /\ buf'[c] \in BufType /\ buf'[c].block = buf[c].block
             /\ buf'[c].refcount = buf[c].refcount /\ buf'[c].lock = buf[c].lock
             /\ buf'[c].data = buf[c].data /\ (buf'[c].valid => buf[c].valid)
             /\ buf'[c] # buf[c] => c \in Cached /\ buf[c].refcount = 0
  <2>1. PICK x \in BufType : x = buf[c]
    BY <1>2
  <2>2. buf'[c] = IF c \in Cached /\ x.refcount = 0 THEN [x EXCEPT !.valid = FALSE] ELSE x
    BY <2>1 DEF bcache_invalidate
  <2>3. PICK y : y = [x EXCEPT !.valid = FALSE]
    OBVIOUS
  <2>4. /\ y \in BufType /\ y.block = x.block /\ y.refcount = x.refcount /\ y.lock = x.lock
        /\ y.data = x.data /\ ~y.valid
    BY <2>3 DEF BufType
  <2> QED
    BY <2>1, <2>2, <2>3, <2>4
<1>4. ASSUME NEW u \in Threads, Using(u)
      PROVE  th[u].b \in Cached /\ buf'[th[u].b] = buf[th[u].b]
  <2>1. th[u].b \in Cached
    BY <1>4 DEF IInv, HeldBufferKept, Using
  <2>2. buf[th[u].b].refcount # 0
    BY <1>4, <2>1, FreeBuffer
  <2> QED
    BY <1>2, <1>3, <2>1, <2>2
<1>5. TypeOK'
  <2>1. buf' \in [Bufs -> BufType]
    <3>1. DOMAIN buf' = Bufs /\ buf' = [c \in Bufs |-> buf'[c]]
      BY DEF bcache_invalidate
    <3> QED
      BY <1>3, <3>1
  <2> QED
    BY <1>1, <2>1 DEF bcache_invalidate, IInv, TypeOK
<1>6. ListInv'
  BY <1>1, <1>2, <1>3 DEF IInv, ListInv
<1>7. AllocInv'
  <2>1. \A u \in Threads : th[u].pc = "insert" => buf'[th[u].b] = buf[th[u].b]
    BY <1>3 DEF IInv, AllocInv
  <2> QED
    BY <1>1, <2>1 DEF IInv, AllocInv, Fresh
<1>8. MutexInv'
  BY <1>1, <1>2, <1>3 DEF IInv, MutexInv
<1>9. HeldBufferKept'
  <2>1. \A c \in Cached : buf'[c].refcount = Cardinality(Holders(c)')
    BY <1>1, <1>2, <1>3 DEF IInv, HeldBufferKept
  <2>2. ASSUME NEW u \in Threads, Using(u)
        PROVE  th[u].b \in Cached /\ buf'[th[u].b].block = th[u].want
    BY <1>4, <2>2 DEF IInv, HeldBufferKept, Using
  <2> QED
    BY <1>1, <2>1, <2>2 DEF HeldBufferKept, Using
<1>10. DataInv'
  <2>1. \A u \in Threads : Inside(u) => buf'[th[u].b] = buf[th[u].b]
    BY <1>4 DEF Using, Inside
  <2> QED
    BY <1>1, <2>1 DEF IInv, DataInv, Agrees, Inside
<1>11. CacheCoherent'
  BY <1>1, <1>2, <1>3 DEF IInv, CacheCoherent
<1> QED
  BY <1>5, <1>6, <1>7, <1>8, <1>9, <1>10, <1>11 DEF IInv

LEMMA CacheInit == Init => IInv
<1> SUFFICES ASSUME Init
             PROVE  IInv
  OBVIOUS
<1>1. Cached = {} /\ lru = <<>>
  BY DEF Init, Cached, ToSet
<1>2. Empty \in BufType /\ Idle \in ThreadType /\ Idle.pc = "idle"
  BY DEF Empty, Idle, BufType, ThreadType
<1>3. \A t \in Threads : th[t].pc = "idle"
  BY <1>2 DEF Init
<1>4. TypeOK
  BY <1>1, <1>2 DEF Init, TypeOK
<1>5. ListInv /\ AllocInv /\ MutexInv /\ DataInv
  BY <1>1, <1>3 DEF ListInv, AllocInv, MutexInv, DataInv
<1>6. HeldBufferKept /\ CacheCoherent
  BY <1>1, <1>3 DEF HeldBufferKept, CacheCoherent
<1> QED
  BY <1>4, <1>5, <1>6 DEF IInv

\* The inductive invariant of the buffer cache: every block has at most one buffer, a
\* buffer is counted by those who use it and locked by the one inside it, and what is
\* valid agrees with the disk or its last bwrite failed.
THEOREM CacheInvariant == Spec => []IInv
<1>1. IInv /\ [Next]_vars => IInv'
  <2> SUFFICES ASSUME IInv, [Next]_vars
               PROVE  IInv'
    OBVIOUS
  <2>1. CASE \E t \in Threads, k \in Blocks :
                bget_hit(t, k) \/ bget_reuse(t, k) \/ bget_free(t, k) \/ bget_new(t, k)
    BY <2>1, BgetHit, BgetReuse, BgetOutside
  <2>2. ASSUME NEW t \in Threads, Alloc(t) \/ AllocFails(t)
        PROVE  IInv'
    <3>1. PICK k \in Blocks : k = th[t].want
      BY <2>2 DEF Alloc, AllocFails, IInv, AllocInv
    <3> QED
      BY <2>2, <3>1, BgetOutside
  <2>3. ASSUME NEW t \in Threads, Insert(t) \/ InsertDup(t) \/ Put(t)
        PROVE  IInv'
    BY <2>3, BgetInsert, BgetInsertDup, PutStep
  <2>4. ASSUME NEW t \in Threads,
               \/ Lock(t) \/ blk_read(t) \/ ReadFails(t)
               \/ Modify(t) \/ bwrite(t) \/ WriteFails(t) \/ brelse(t)
        PROVE  IInv'
    BY <2>4, HeldActions
  <2>5. CASE bcache_invalidate
    BY <2>5, InvalidateStep
  <2>6. CASE UNCHANGED vars
    <3>1. /\ UNCHANGED <<lru, buf, bcache_count, th, disk, writes, errors, failed>>
          /\ Cached' = Cached /\ \A c : Holders(c)' = Holders(c)
      BY <2>6 DEF vars, Cached, Holders
    <3>2. TypeOK' /\ ListInv'
      BY <3>1 DEF IInv, TypeOK, ListInv
    <3>3. AllocInv' /\ MutexInv'
      BY <3>1 DEF IInv, AllocInv, MutexInv, Inside, Fresh
    <3>4. HeldBufferKept'
      BY <3>1 DEF IInv, HeldBufferKept
    <3>5. DataInv' /\ CacheCoherent'
      BY <3>1 DEF IInv, DataInv, CacheCoherent, Agrees
    <3> QED
      BY <3>2, <3>3, <3>4, <3>5 DEF IInv
  <2> QED
    BY <2>1, <2>2, <2>3, <2>4, <2>5, <2>6 DEF Next
<1> QED
  BY CacheInit, <1>1, PTL DEF Spec

\* A buffer that bget returned stays in the list, and the buffer of the block asked for,
\* until brelse has counted its user out: bget never takes it for another block.
THEOREM HeldBuffersKept == Spec => []HeldBufferKept
<1>1. IInv => HeldBufferKept
  BY DEF IInv
<1> QED
  BY <1>1, CacheInvariant, PTL

\* A valid buffer that nobody is inside has what the disk has, unless the last bwrite of
\* its block failed: the cache is write-through.
THEOREM CacheIsCoherent == Spec => []CacheCoherent
<1>1. IInv => CacheCoherent
  BY DEF IInv
<1> QED
  BY <1>1, CacheInvariant, PTL
=============================================================================

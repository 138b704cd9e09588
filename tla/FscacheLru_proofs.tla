------------------------- MODULE FscacheLru_proofs -------------------------
(***************************************************************************)
(* Proofs about the LRU list of gphoto2-filesys.c, for any set of cells,   *)
(* any limit and any sizes.  The inductive invariant is IInv: the links    *)
(* are well formed, the walk of the list meets every linked cell, every    *)
(* linked cell is allocated and caches a picture.  WellFormed alone is not *)
(* enough for gp_filesystem_lru_clear, which unlinks what it walks over:   *)
(* it speaks of neighbours only and would allow a ring of cells off the    *)
(* walk.  On IInv rests the refinement: the chain of the cells is a queue. *)
(***************************************************************************)
EXTENDS FscacheLru, FiniteSetTheorems, SequenceTheorems, WellFoundedInduction,
        TLAPS

\* Every set that a walk cannot leave holds every linked cell.
Reach(l) == \A S \in SUBSET Entry : Closed(l, S) => Listed(l) \subseteq S

GoodList(l) == WellFormed(l) /\ Reach(l)

-----------------------------------------------------------------------------
(***************************************************************************)
(* gp_filesystem_lru_remove_one.                                           *)
(***************************************************************************)

\* What the unlinking of a linked cell writes, pointer by pointer.
LEMMA RemoveOneEffect ==
  ASSUME NEW l \in Links, NEW e \in Entry, InList(l, e),
         NEW m, m = RemoveOne(l, e)
  PROVE  /\ m \in Links
         /\ m.first = IF l.first # e THEN l.first
                      ELSE IF l.last = e THEN NULL ELSE l.next[e]
         /\ m.last = IF l.last # e THEN l.last
                     ELSE IF l.first = e THEN NULL ELSE l.prev[e]
         /\ \A x \in Entry :
              /\ m.prev[x] = IF x = e THEN NULL
                             ELSE IF x # l.next[e] THEN l.prev[x]
                             ELSE IF l.first = e /\ l.last # e THEN x
                             ELSE l.prev[e]
              /\ m.next[x] = IF x = e THEN NULL
                             ELSE IF x = l.prev[e] THEN l.next[e] ELSE l.next[x]
BY EntryAssumption DEF RemoveOne, Links, Link, Ptr, InList

\* A cell outside the list is left alone; every cell keeps its type.
LEMMA RemoveOneType ==
  ASSUME NEW l \in Links, NEW e \in Entry
  PROVE  /\ RemoveOne(l, e) \in Links
         /\ ~InList(l, e) => RemoveOne(l, e) = l
<1>1. CASE InList(l, e)
  BY <1>1, RemoveOneEffect
<1>2. CASE ~InList(l, e)
  BY <1>2 DEF RemoveOne, InList
<1> QED BY <1>1, <1>2

\* A cell taken out by gp_filesystem_lru_remove_one leaves a well-formed list of
\* the other cells, and none of them is cut off the walk.
LEMMA RemoveOneGood ==
  ASSUME NEW l \in Links, NEW e \in Entry, GoodList(l)
  PROVE  /\ GoodList(RemoveOne(l, e))
         /\ Listed(RemoveOne(l, e)) = Listed(l) \ {e}
<1>1. CASE ~InList(l, e)
  BY <1>1, RemoveOneType DEF Listed
<1>2. CASE InList(l, e)
  <2> DEFINE m == RemoveOne(l, e)
  <2>1. /\ m \in Links
        /\ m.first = IF l.first # e THEN l.first
                     ELSE IF l.last = e THEN NULL ELSE l.next[e]
        /\ m.last = IF l.last # e THEN l.last
                    ELSE IF l.first = e THEN NULL ELSE l.prev[e]
        /\ \A x \in Entry :
             /\ m.prev[x] = IF x = e THEN NULL
                            ELSE IF x # l.next[e] THEN l.prev[x]
                            ELSE IF l.first = e /\ l.last # e THEN x
                            ELSE l.prev[e]
             /\ m.next[x] = IF x = e THEN NULL
                            ELSE IF x = l.prev[e] THEN l.next[e] ELSE l.next[x]
    BY <1>2, RemoveOneEffect
  <2>0. WellFormed(l) /\ Reach(l)
    BY DEF GoodList
  <2> HIDE DEF m
  <2>2. \A x \in Entry : InList(m, x) <=> InList(l, x) /\ x # e
    BY <1>2, <2>0, <2>1, EntryAssumption DEF WellFormed, InList, Links, Ptr
  <2>3. WellFormed(m)
    <3>1. m.first = NULL <=> m.last = NULL
      BY <1>2, <2>0, <2>1, EntryAssumption DEF WellFormed, InList, Links, Ptr
    <3>2. m.first # NULL => /\ m.prev[m.first] = m.first
                            /\ InList(m, m.last)
                            /\ m.next[m.last] = NULL
      BY <1>2, <2>0, <2>1, <2>2, EntryAssumption DEF WellFormed, InList, Links, Ptr
    <3>3. ASSUME NEW x \in Entry, ~InList(m, x)
          PROVE  m.next[x] = NULL
      BY <1>2, <2>0, <2>1, <2>2, <3>3, EntryAssumption
      DEF WellFormed, InList, Links, Ptr
    <3>6. ASSUME NEW x \in Entry, InList(m, x)
          PROVE  m.first # NULL
      <4>1. CASE l.first = e /\ l.last = e
        <5>1. Closed(l, {e})
          BY <4>1, <2>0 DEF WellFormed, Closed
        <5>2. x \in {e}
          BY <5>1, <2>0, <2>2, <3>6 DEF Reach, Listed
        <5> QED BY <5>2, <2>2, <3>6
      <4>2. CASE ~(l.first = e /\ l.last = e)
        BY <1>2, <2>0, <2>1, <2>2, <3>6, <4>2, EntryAssumption
        DEF WellFormed, InList, Links, Ptr
      <4> QED BY <4>1, <4>2
    <3>4. ASSUME NEW x \in Entry, InList(m, x), x # m.first
          PROVE  InList(m, m.prev[x]) /\ m.next[m.prev[x]] = x
      BY <1>2, <2>0, <2>1, <2>2, <3>4, EntryAssumption
      DEF WellFormed, InList, Links, Ptr
    <3>5. ASSUME NEW x \in Entry, InList(m, x), x # m.last
          PROVE  /\ m.next[x] # NULL
                 /\ m.next[x] # m.first
                 /\ m.prev[m.next[x]] = x
      BY <1>2, <2>0, <2>1, <2>2, <3>5, EntryAssumption
      DEF WellFormed, InList, Links, Ptr
    <3> QED BY <3>1, <3>2, <3>3, <3>4, <3>5, <3>6 DEF WellFormed
  <2>4. Reach(m)
    <3> SUFFICES ASSUME NEW S \in SUBSET Entry, Closed(m, S)
                 PROVE  Listed(l) \ {e} \subseteq S
      BY <2>2 DEF Reach, Listed
    <3> DEFINE T == IF l.prev[e] \in S \/ l.first = e THEN S \union {e}
                                                      ELSE S \ {e}
    <3>1. Closed(l, T)
      BY <1>2, <2>0, <2>1, EntryAssumption
      DEF Closed, WellFormed, InList, Links, Ptr
    <3>2. T \in SUBSET Entry
      OBVIOUS
    <3> QED BY <2>0, <3>1, <3>2 DEF Reach
  <2> QED BY <2>2, <2>3, <2>4 DEF m, Listed, GoodList
<1> QED BY <1>1, <1>2

-----------------------------------------------------------------------------
(***************************************************************************)
(* The end of gp_filesystem_lru_update.                                    *)
(***************************************************************************)

\* A cell outside the list, put at its end, makes a good list with that cell.
LEMMA InsertLastGood ==
  ASSUME NEW l \in Links, NEW e \in Entry, GoodList(l), ~InList(l, e)
  PROVE  /\ InsertLast(l, e) \in Links
         /\ GoodList(InsertLast(l, e))
         /\ Listed(InsertLast(l, e)) = Listed(l) \union {e}
<1> DEFINE m == InsertLast(l, e)
<1>0. WellFormed(l) /\ Reach(l)
  BY DEF GoodList
<1>1. l.last = NULL \/ (l.last \in Entry /\ l.last # e)
  BY <1>0, EntryAssumption DEF WellFormed, InList, Links, Ptr
<1>2. /\ m \in Links
      /\ m.first = IF l.first = NULL THEN e ELSE l.first
      /\ m.last = e
      /\ \A x \in Entry :
           /\ m.prev[x] = IF x # e THEN l.prev[x]
                          ELSE IF l.first = NULL THEN e ELSE l.last
           /\ m.next[x] = IF x = l.last THEN e ELSE l.next[x]
  BY <1>0, <1>1, EntryAssumption DEF InsertLast, WellFormed, InList, Links, Ptr
<1> HIDE DEF m
<1>3. \A x \in Entry : InList(m, x) <=> InList(l, x) \/ x = e
  BY <1>0, <1>1, <1>2, EntryAssumption DEF WellFormed, InList, Links, Ptr
<1>4. WellFormed(m)
  <2>1. /\ m.first # NULL /\ m.last # NULL
        /\ m.prev[m.first] = m.first
        /\ InList(m, m.last)
        /\ m.next[m.last] = NULL
    BY <1>0, <1>1, <1>2, <1>3, EntryAssumption
    DEF WellFormed, InList, Links, Ptr
  <2>2. ASSUME NEW x \in Entry, ~InList(m, x)
        PROVE  m.next[x] = NULL
    BY <1>0, <1>1, <1>2, <1>3, <2>2, EntryAssumption
    DEF WellFormed, InList, Links, Ptr
  <2>3. ASSUME NEW x \in Entry, InList(m, x), x # m.first
        PROVE  InList(m, m.prev[x]) /\ m.next[m.prev[x]] = x
    BY <1>0, <1>1, <1>2, <1>3, <2>3, EntryAssumption
    DEF WellFormed, InList, Links, Ptr
  <2>4. ASSUME NEW x \in Entry, InList(m, x), x # m.last
        PROVE  /\ m.next[x] # NULL
               /\ m.next[x] # m.first
               /\ m.prev[m.next[x]] = x
    BY <1>0, <1>1, <1>2, <1>3, <2>4, EntryAssumption
    DEF WellFormed, InList, Links, Ptr
  <2> QED BY <2>1, <2>2, <2>3, <2>4 DEF WellFormed
<1>5. Reach(m)
  <2> SUFFICES ASSUME NEW S \in SUBSET Entry, Closed(m, S)
               PROVE  Listed(l) \union {e} \subseteq S
    BY <1>3 DEF Reach, Listed
  <2>1. Closed(l, S \ {e})
    BY <1>0, <1>1, <1>2, EntryAssumption
    DEF Closed, WellFormed, InList, Links, Ptr
  <2>2. Listed(l) \subseteq S \ {e}
    BY <1>0, <2>1 DEF Reach
  <2>3. e \in S
    BY <1>0, <1>1, <1>2, <2>2, EntryAssumption
    DEF Closed, WellFormed, InList, Links, Ptr, Listed
  <2> QED BY <2>2, <2>3
<1> QED BY <1>2, <1>3, <1>4, <1>5 DEF m, Listed, GoodList

-----------------------------------------------------------------------------
(***************************************************************************)
(* gp_filesystem_lru_free and gp_filesystem_lru_clear.                     *)
(***************************************************************************)

\* gp_filesystem_lru_free takes exactly the first cell out of a good list.
LEMMA FreeFirstGood ==
  ASSUME NEW l \in Links, GoodList(l), l.first # NULL
  PROVE  /\ FreeFirst(l) \in Links
         /\ GoodList(FreeFirst(l))
         /\ Listed(FreeFirst(l)) = Listed(l) \ {l.first}
<1> DEFINE m == FreeFirst(l)
           e == l.first
<1>0. WellFormed(l) /\ Reach(l) /\ e \in Entry
  BY DEF GoodList, Links, Ptr
<1>1. /\ m \in Links
      /\ m.first = l.next[e]
      /\ m.last = IF l.next[e] = NULL THEN NULL ELSE l.last
      /\ \A x \in Entry :
           /\ m.prev[x] = IF x = e THEN NULL
                          ELSE IF x = l.next[e] THEN x ELSE l.prev[x]
           /\ m.next[x] = IF x = e THEN NULL ELSE l.next[x]
  BY <1>0, EntryAssumption DEF FreeFirst, Link, Links, Ptr
<1> HIDE DEF m
<1>2. \A x \in Entry : InList(m, x) <=> InList(l, x) /\ x # e
  BY <1>0, <1>1, EntryAssumption DEF WellFormed, InList, Links, Ptr
<1>3. WellFormed(m)
  <2>1. m.first = NULL <=> m.last = NULL
    BY <1>0, <1>1, EntryAssumption DEF WellFormed, InList, Links, Ptr
  <2>2. m.first # NULL => /\ m.prev[m.first] = m.first
                          /\ InList(m, m.last)
                          /\ m.next[m.last] = NULL
    BY <1>0, <1>1, <1>2, EntryAssumption DEF WellFormed, InList, Links, Ptr
  <2>3. ASSUME NEW x \in Entry, ~InList(m, x)
        PROVE  m.next[x] = NULL
    BY <1>0, <1>1, <1>2, <2>3, EntryAssumption
    DEF WellFormed, InList, Links, Ptr
  <2>4. ASSUME NEW x \in Entry, InList(m, x)
        PROVE  m.first # NULL
    <3>1. CASE l.next[e] = NULL
      <4>1. Closed(l, {e})
        BY <1>0, <3>1 DEF Closed
      <4>2. x \in {e}
        BY <1>0, <1>2, <2>4, <4>1 DEF Reach, Listed
      <4> QED BY <1>2, <2>4, <4>2
    <3>2. CASE l.next[e] # NULL
      BY <1>1, <3>2
    <3> QED BY <3>1, <3>2
  <2>5. ASSUME NEW x \in Entry, InList(m, x), x # m.first
        PROVE  InList(m, m.prev[x]) /\ m.next[m.prev[x]] = x
    BY <1>0, <1>1, <1>2, <2>5, EntryAssumption
    DEF WellFormed, InList, Links, Ptr
  <2>6. ASSUME NEW x \in Entry, InList(m, x), x # m.last
        PROVE  /\ m.next[x] # NULL
               /\ m.next[x] # m.first
               /\ m.prev[m.next[x]] = x
    BY <1>0, <1>1, <1>2, <2>6, EntryAssumption
    DEF WellFormed, InList, Links, Ptr
  <2> QED BY <2>1, <2>2, <2>3, <2>4, <2>5, <2>6 DEF WellFormed
<1>4. Reach(m)
  <2> SUFFICES ASSUME NEW S \in SUBSET Entry, Closed(m, S)
               PROVE  Listed(l) \ {e} \subseteq S
    BY <1>2 DEF Reach, Listed
  <2>1. Closed(l, S \union {e})
    BY <1>0, <1>1, EntryAssumption DEF Closed, Links, Ptr
  <2> QED BY <1>0, <2>1 DEF Reach
<1> QED BY <1>1, <1>2, <1>3, <1>4 DEF m, Listed, GoodList

\* In a good list the walk and the linked cells are the same: the linked cells
\* are themselves a set that a walk cannot leave.
LEMMA GoodListWalk ==
  ASSUME NEW l \in Links, GoodList(l)
  PROVE  Walked(l) = Listed(l)
<1>1. Closed(l, Listed(l))
  BY EntryAssumption
  DEF GoodList, WellFormed, Closed, Listed, InList, Links, Ptr
<1>2. Walked(l) \subseteq Listed(l)
  BY <1>1 DEF Walked, Listed
<1>3. Listed(l) \subseteq Walked(l)
  BY DEF GoodList, Reach, Walked, Listed
<1> QED BY <1>2, <1>3

\* The other way round, a walk that meets every linked cell is what Reach says.
LEMMA WalkReach ==
  ASSUME NEW l \in Links, Walked(l) = Listed(l)
  PROVE  Reach(l)
BY DEF Reach, Walked, Listed

\* gp_filesystem_lru_clear leaves the empty list and no cell that still
\* believes it is in it.
LEMMA ClearAllGood ==
  ASSUME NEW l \in Links, GoodList(l)
  PROVE  /\ ClearAll(l) \in Links
         /\ GoodList(ClearAll(l))
         /\ Listed(ClearAll(l)) = {}
<1> DEFINE m == ClearAll(l)
<1>1. \A x \in Entry : x \in Walked(l) <=> l.prev[x] # NULL
  BY GoodListWalk DEF Listed, InList
<1>2. /\ m \in Links
      /\ m.first = NULL /\ m.last = NULL
      /\ \A x \in Entry : m.prev[x] = NULL /\ m.next[x] = NULL
  BY <1>1, EntryAssumption DEF ClearAll, Links, Ptr, GoodList, WellFormed, InList
<1> HIDE DEF m
<1>3. Listed(m) = {}
  BY <1>2 DEF Listed, InList
<1>4. WellFormed(m) /\ Reach(m)
  BY <1>2, <1>3 DEF WellFormed, InList, Reach
<1> QED BY <1>2, <1>3, <1>4 DEF m, GoodList

-----------------------------------------------------------------------------
(***************************************************************************)
(* Type correctness.                                                       *)
(***************************************************************************)

\* lru_size is an unsigned long: whatever is added or taken off, it is reduced
\* to a residue.
LEMMA ResidueType ==
  ASSUME NEW i \in Int
  PROVE  i % SizeMod \in 0..SizeMod - 1
BY BoundAssumption

\* The bytes of a cell are a number, whichever of its files are present.
LEMMA BytesType ==
  ASSUME TypeOK, NEW e \in Entry
  PROVE  Bytes(e) \in Int /\ content[e] \in [Kind -> Size \union {NoFile}]
BY BoundAssumption DEF TypeOK, Bytes, Kind, Size, NoFile

\* The operation that lru_update works on, while there is one.
LEMMA OpType ==
  ASSUME TypeOK, op # NoOp
  PROVE  op \in Op /\ op.entry \in Entry /\ op.kind \in Kind /\ op.size \in Size
BY DEF TypeOK, Op

\* The first cell, when the count of cached pictures is above the limit: the
\* CHECK_NULL of gp_filesystem_lru_free does not fail.
LEMMA FirstType ==
  ASSUME TypeOK, LruCount > PicturesToKeep
  PROVE  lru.first \in Entry /\ lru.first # NULL
<1>1. ASSUME lru.first = NULL
      PROVE  FALSE
  <2>1. Closed(lru, {})
    BY <1>1 DEF Closed
  <2>2. Walked(lru) = {}
    BY <2>1 DEF Walked
  <2>3. LruCount = 0
    BY <2>2, FS_EmptySet DEF LruCount
  <2> QED BY <2>3, BoundAssumption
<1> QED BY <1>1, EntryAssumption DEF TypeOK, Links, Ptr

\* The inductive invariant.
IInv == TypeOK /\ ListIntact /\ WalkMeetsAll /\ ListedCache

\* What the invariant says of the list, in the terms of the lemmas above.
LEMMA IInvList ==
  ASSUME IInv
  PROVE  lru \in Links /\ GoodList(lru)
BY WalkReach DEF IInv, TypeOK, ListIntact, WalkMeetsAll, GoodList

\* A good list of allocated cells that cache something is the invariant.
LEMMA ListIInv ==
  ASSUME TypeOK, GoodList(lru), Listed(lru) \subseteq entries,
         op # NoOp => op.entry \in entries, ListedCache
  PROVE  IInv
BY GoodListWalk DEF IInv, TypeOK, ListIntact, WalkMeetsAll, GoodList

LEMMA InitIInv == Init => IInv
<1> SUFFICES ASSUME Init PROVE IInv
  OBVIOUS
<1>1. TypeOK
  BY BoundAssumption, EntryAssumption
  DEF Init, TypeOK, NoContent, EmptyLinks, Links, Ptr
<1>2. Listed(lru) = {}
  BY DEF Init, EmptyLinks, Listed, InList
<1>3. GoodList(lru)
  BY <1>2 DEF Init, EmptyLinks, GoodList, WellFormed, InList, Reach
<1> QED BY <1>1, <1>2, <1>3, ListIInv DEF Init, ListedCache

\* What a step has to establish.
Step == /\ TypeOK' /\ GoodList(lru') /\ Listed(lru') \subseteq entries'
        /\ op' # NoOp => op'.entry \in entries'
        /\ ListedCache'

LEMMA NextIInv == IInv /\ [Next]_vars => IInv'
<1> SUFFICES ASSUME IInv, [Next]_vars PROVE Step
  BY GoodListWalk DEF Step, IInv, TypeOK, ListIntact, WalkMeetsAll, GoodList
<1>0. /\ TypeOK /\ lru \in Links /\ GoodList(lru)
      /\ Listed(lru) \subseteq entries /\ ListedCache
      /\ op # NoOp => op.entry \in entries
  BY IInvList DEF IInv, ListIntact
<1>1. ASSUME NEW e \in Entry, InternalAppend(e)
      PROVE  Step
  BY <1>0, <1>1 DEF Step, InternalAppend, TypeOK, ListedCache, HasContent
<1>2. ASSUME NEW e \in Entry, NEW s \in Size, AppendFile(e, s)
      PROVE  Step
  <2>1. TypeOK'
    BY <1>0, <1>2 DEF AppendFile, TypeOK, NoContent, Kind
  <2>2. ListedCache'
    BY <1>0, <1>2 DEF AppendFile, TypeOK, ListedCache, HasContent
  <2> QED BY <1>0, <1>2, <2>1, <2>2 DEF Step, AppendFile
<1>3. ASSUME NEW e \in Entry, DeleteFile(e)
      PROVE  Step
  <2>1. GoodList(lru') /\ lru' \in Links /\ Listed(lru') = Listed(lru) \ {e}
    BY <1>0, <1>3, RemoveOneGood, RemoveOneType DEF DeleteFile
  <2>2. TypeOK'
    BY <1>0, <1>3, <2>1 DEF DeleteFile, TypeOK, NoContent
  <2>3. ListedCache'
    BY <1>0, <1>3, <2>1 DEF DeleteFile, TypeOK, ListedCache, HasContent, Listed
  <2> QED BY <1>0, <1>3, <2>1, <2>2, <2>3 DEF Step, DeleteFile
<1>4. ASSUME Reset
      PROVE  Step
  <2>1. GoodList(lru') /\ lru' \in Links /\ Listed(lru') = {}
    BY <1>0, <1>4, ClearAllGood DEF Reset
  <2>2. TypeOK'
    BY <1>0, <1>4, <2>1, BoundAssumption DEF Reset, TypeOK, NoContent
  <2> QED BY <1>4, <2>1, <2>2 DEF Step, Reset, ListedCache
<1>5. ASSUME NEW e \in Entry, NEW k \in Kind, NEW s \in Size,
             StartSetFile(e, k, s)
      PROVE  Step
  BY <1>0, <1>5 DEF Step, StartSetFile, TypeOK, Op, ListedCache, HasContent
<1>6. ASSUME Prune
      PROVE  Step
  <2>1. lru.first \in Entry /\ lru.first # NULL
    BY <1>0, <1>6, FirstType DEF Prune
  <2>2. /\ GoodList(lru') /\ lru' \in Links
        /\ Listed(lru') = Listed(lru) \ {lru.first}
    BY <1>0, <1>6, <2>1, FreeFirstGood DEF Prune
  <2>3. lru_size' \in 0..SizeMod - 1
    BY <1>0, <1>6, <2>1, BytesType, ResidueType, BoundAssumption
    DEF Prune, TypeOK
  <2>4. TypeOK'
    BY <1>0, <1>6, <2>1, <2>2, <2>3 DEF Prune, TypeOK, NoContent
  <2>5. ListedCache'
    BY <1>0, <1>6, <2>2 DEF Prune, TypeOK, ListedCache, HasContent, Listed
  <2> QED BY <1>0, <1>6, <2>2, <2>4, <2>5 DEF Step, Prune
<1>7. ASSUME FinishSetFile
      PROVE  Step
  <2> DEFINE e == op.entry
             m == RemoveOne(lru, e)
  <2>1. op \in Op /\ e \in Entry /\ op.kind \in Kind /\ op.size \in Size
    BY <1>0, <1>7, OpType DEF FinishSetFile
  <2>2. GoodList(m) /\ m \in Links /\ Listed(m) = Listed(lru) \ {e}
    BY <1>0, <2>1, RemoveOneGood, RemoveOneType
  <2>3. ~InList(m, e)
    BY <2>1, <2>2 DEF Listed
  <2> HIDE DEF m
  <2>4. /\ InsertLast(m, e) \in Links
        /\ GoodList(InsertLast(m, e))
        /\ Listed(InsertLast(m, e)) = Listed(m) \union {e}
    BY <2>1, <2>2, <2>3, InsertLastGood
  <2>5. /\ GoodList(lru') /\ lru' \in Links
        /\ Listed(lru') = Listed(lru) \union {e}
    BY <1>7, <2>1, <2>2, <2>4 DEF FinishSetFile, m, Listed
  <2>6. lru_size' \in 0..SizeMod - 1
    <3>1. content[e][op.kind] \in Int /\ op.size \in Int
      BY <1>0, <2>1, BytesType DEF Size, NoFile
    <3>2. Replaced \in Int
      BY <3>1 DEF Replaced, NoFile
    <3>3. lru_size - Replaced + op.size \in Int
      BY <1>0, <3>1, <3>2, BoundAssumption DEF TypeOK
    <3> QED BY <1>7, <3>3, ResidueType DEF FinishSetFile
  <2>7. TypeOK'
    BY <1>0, <1>7, <2>1, <2>5, <2>6 DEF FinishSetFile, TypeOK
  <2>8. content'[e][op.kind] # NoFile
    BY <1>0, <1>7, <2>1 DEF FinishSetFile, TypeOK, Size, NoFile
  <2>9. ListedCache'
    <3>1. ASSUME NEW x \in Listed(lru') PROVE HasContent(x)'
      <4>1. CASE x = e
        BY <2>1, <2>8, <4>1 DEF HasContent
      <4>2. CASE x # e
        <5>1. x \in Listed(lru) /\ content'[x] = content[x]
          BY <1>0, <1>7, <2>5, <4>2 DEF FinishSetFile, TypeOK, Listed
        <5> QED BY <1>0, <5>1 DEF ListedCache, HasContent
      <4> QED BY <4>1, <4>2
    <3> QED BY <3>1 DEF ListedCache
  <2>10. e \in entries
    BY <1>0, <1>7 DEF FinishSetFile
  <2> QED BY <1>0, <1>7, <2>5, <2>7, <2>9, <2>10 DEF Step, FinishSetFile
<1>8. CASE UNCHANGED vars
  BY <1>0, <1>8 DEF Step, vars, TypeOK, ListedCache, HasContent
<1> QED BY <1>1, <1>2, <1>3, <1>4, <1>5, <1>6, <1>7, <1>8 DEF Next

-----------------------------------------------------------------------------
(***************************************************************************)
(* The theorems.                                                           *)
(***************************************************************************)

\* The inductive invariant holds in every reachable state.
THEOREM Invariance == Spec => []IInv
<1>1. Init => IInv
  BY InitIInv
<1>2. IInv /\ [Next]_vars => IInv'
  BY NextIInv
<1> QED BY <1>1, <1>2, PTL DEF Spec

\* Every pointer, count and cached size of gphoto2-filesys.c's LRU list keeps
\* its type, for any cells, sizes and limit.
THEOREM TypeCorrect == Spec => []TypeOK
<1>1. IInv => TypeOK
  BY DEF IInv
<1> QED BY <1>1, Invariance, PTL

\* Through uploads, listings, deletions, resets and pruning the links of the
\* list stay well formed and lead to no freed cell.
THEOREM ListStaysIntact == Spec => []ListIntact
<1>1. IInv => ListIntact
  BY DEF IInv
<1> QED BY <1>1, Invariance, PTL

\* A walk from lru_first (gp_filesystem_lru_count, gp_filesystem_lru_clear)
\* meets exactly the cells whose lru_prev says that they are in the list.
THEOREM WalkIsComplete == Spec => []WalkMeetsAll
<1>1. IInv => WalkMeetsAll
  BY DEF IInv
<1> QED BY <1>1, Invariance, PTL

\* Every listed cell holds a picture that gp_filesystem_lru_free can drop.
THEOREM ListedCellsCache == Spec => []ListedCache
<1>1. IInv => ListedCache
  BY DEF IInv
<1> QED BY <1>1, Invariance, PTL

\* A step can add one cell to the list, and only when gp_filesystem_lru_count
\* has found no more than pictures_to_keep in it.
LEMMA GrowsWithinLimit ==
  ASSUME IInv, [Next]_vars
  PROVE  \/ Listed(lru') \subseteq Listed(lru)
         \/ \E e \in Entry :
              /\ Listed(lru') = Listed(lru) \union {e}
              /\ Cardinality(Listed(lru)) <= PicturesToKeep
<1>0. lru \in Links /\ GoodList(lru) /\ TypeOK
  BY IInvList DEF IInv
<1>1. CASE UNCHANGED lru
  BY <1>1
<1>2. ASSUME NEW e \in Entry, DeleteFile(e)
      PROVE  Listed(lru') \subseteq Listed(lru)
  BY <1>0, <1>2, RemoveOneGood DEF DeleteFile
<1>3. ASSUME Reset
      PROVE  Listed(lru') \subseteq Listed(lru)
  BY <1>0, <1>3, ClearAllGood DEF Reset
<1>4. ASSUME Prune
      PROVE  Listed(lru') \subseteq Listed(lru)
  BY <1>0, <1>4, FirstType, FreeFirstGood DEF Prune
<1>5. ASSUME FinishSetFile
      PROVE  /\ op.entry \in Entry
             /\ Listed(lru') = Listed(lru) \union {op.entry}
             /\ Cardinality(Listed(lru)) <= PicturesToKeep
  <2> DEFINE m == RemoveOne(lru, op.entry)
  <2>1. op.entry \in Entry
    BY <1>0, <1>5, OpType DEF FinishSetFile
  <2>2. GoodList(m) /\ m \in Links /\ Listed(m) = Listed(lru) \ {op.entry}
    BY <1>0, <2>1, RemoveOneGood, RemoveOneType
  <2>3. ~InList(m, op.entry)
    BY <2>1, <2>2 DEF Listed
  <2> HIDE DEF m
  <2>4. Listed(InsertLast(m, op.entry)) = Listed(m) \union {op.entry}
    BY <2>1, <2>2, <2>3, InsertLastGood
  <2>5. Listed(lru') = Listed(lru) \union {op.entry}
    BY <1>5, <2>1, <2>2, <2>4 DEF FinishSetFile, m, Listed
  <2>6. {e \in Walked(lru) : HasContent(e)} = Listed(lru)
    BY <1>0, GoodListWalk DEF IInv, ListedCache
  <2>7. LruCount = Cardinality(Listed(lru))
    BY <2>6 DEF LruCount
  <2> QED BY <1>5, <2>1, <2>5, <2>7 DEF FinishSetFile
<1> QED
  BY <1>1, <1>2, <1>3, <1>4, <1>5
  DEF Next, InternalAppend, AppendFile, StartSetFile, vars

\* The cache holds at most one picture more than the setting "cached-images"
\* allows, whatever the application and the drivers do.
THEOREM CacheIsBounded == Spec => []AtMostOneExtra
<1>1. Init => AtMostOneExtra
  <2> SUFFICES ASSUME Init PROVE AtMostOneExtra
    OBVIOUS
  <2>1. Listed(lru) = {}
    BY DEF Init, EmptyLinks, Listed, InList
  <2> QED BY <2>1, FS_EmptySet, BoundAssumption DEF AtMostOneExtra
<1>2. IInv /\ AtMostOneExtra /\ [Next]_vars => AtMostOneExtra'
  <2> SUFFICES ASSUME IInv, AtMostOneExtra, [Next]_vars
               PROVE  Cardinality(Listed(lru')) <= PicturesToKeep + 1
    BY DEF AtMostOneExtra
  <2>1. IsFiniteSet(Listed(lru)) /\ Cardinality(Listed(lru)) \in Nat
    BY EntryAssumption, FS_Subset, FS_CardinalityType DEF Listed
  <2>2. CASE Listed(lru') \subseteq Listed(lru)
    <3>1. /\ Cardinality(Listed(lru')) \in Nat
          /\ Cardinality(Listed(lru')) <= Cardinality(Listed(lru))
      BY <2>1, <2>2, FS_Subset, FS_CardinalityType
    <3> QED BY <2>1, <3>1, BoundAssumption DEF AtMostOneExtra
  <2>3. ASSUME NEW e \in Entry,
               Listed(lru') = Listed(lru) \union {e},
               Cardinality(Listed(lru)) <= PicturesToKeep
        PROVE  Cardinality(Listed(lru')) <= PicturesToKeep + 1
    BY <2>1, <2>3, FS_AddElement, BoundAssumption
  <2> QED BY <2>2, <2>3, GrowsWithinLimit
<1> QED BY <1>1, <1>2, Invariance, PTL DEF Spec

-----------------------------------------------------------------------------
(***************************************************************************)
(* The list is a queue.  IsWalk(l, q) says that the sequence q is the      *)
(* chain of cells from lru_first to lru_last: each operation on the links  *)
(* is shown to be the queue's operation on the chain.                      *)
(***************************************************************************)

IsWalk(l, q) ==
  /\ q \in Seq(Entry)
  /\ \A i, j \in 1 .. Len(q) : q[i] = q[j] => i = j
  /\ \A x \in Entry : InList(l, x) <=> \E i \in 1 .. Len(q) : q[i] = x
  /\ IF Len(q) = 0 THEN l.first = NULL
                   ELSE l.first = q[1] /\ l.last = q[Len(q)]
  /\ \A i \in 1 .. Len(q) - 1 : l.next[q[i]] = q[i + 1]

\* A set of natural numbers has a least: induction, for what depends on data.
LEMMA LeastNat ==
  ASSUME NEW T, T \subseteq Nat, T # {}
  PROVE  \E m \in T : \A k \in T : m <= k
<1> DEFINE R == OpToRel(<, Nat)
<1>1. IsWellFoundedOn(R, Nat)
  BY NatLessThanWellFounded
<1>2. \A x, y \in Nat : <<x, y>> \in R <=> x < y
  BY DEF OpToRel
<1> HIDE DEF R
<1>3. PICK m \in T : \A y \in T : ~ (<<y, m>> \in R)
  BY <1>1, WFMin
<1>4. ASSUME NEW k \in T
      PROVE  m <= k
  <2>1. k \in Nat /\ m \in Nat /\ ~(k < m)
    BY <1>2, <1>3
  <2> QED BY <2>1
<1> QED BY <1>4

\* The chain has as many cells as there are linked cells.
LEMMA WalkLength ==
  ASSUME NEW l, NEW q, IsWalk(l, q)
  PROVE  Cardinality(Listed(l)) = Len(q) /\ Len(q) \in Nat
<1>1. q \in Seq(Entry) /\ Len(q) \in Nat /\ q \in [1 .. Len(q) -> Entry]
  BY LenProperties DEF IsWalk
<1>2. q \in [1 .. Len(q) -> Listed(l)]
  BY <1>1 DEF IsWalk, Listed
<1>3. q \in Bijection(1 .. Len(q), Listed(l))
  BY <1>2 DEF Bijection, Injection, Surjection, IsInjective, IsWalk, Listed
<1> QED BY <1>1, <1>3, FS_CountingElements DEF ExistsBijection

\* The chain is what a loop along lru_next meets, cell by cell: there is no other
\* function with that recursion.
LEMMA WalkIsTheChain ==
  ASSUME NEW l \in Links, GoodList(l), NEW q, IsWalk(l, q)
  PROVE  WalkOf(l) = q
<1> DEFINE N == Len(q)
           Chain(f) == f = [n \in 1 .. N |-> IF n = 1 THEN l.first ELSE l.next[f[n - 1]]]
           f == CHOOSE f : Chain(f)
           T == {n \in 1 .. N : f[n] # q[n]}
<1>1. N \in Nat /\ q \in [1 .. N -> Entry]
  BY LenProperties DEF IsWalk
<1>2. Cardinality(Walked(l)) = N
  BY GoodListWalk, WalkLength
<1>3. WalkOf(l) = f
  BY <1>2 DEF WalkOf
<1>4. Chain(q)
  <2>1. ASSUME NEW n \in 1 .. N
        PROVE  q[n] = IF n = 1 THEN l.first ELSE l.next[q[n - 1]]
    <3>1. CASE n = 1
      BY <1>1, <3>1 DEF IsWalk
    <3>2. CASE n # 1
      <4>1. n - 1 \in 1 .. N - 1 /\ (n - 1) + 1 = n
        BY <1>1, <3>2
      <4> QED BY <3>2, <4>1 DEF IsWalk
    <3> QED BY <3>1, <3>2
  <2> QED BY <1>1, <2>1
<1>5. Chain(f)
  BY <1>4
<1> HIDE DEF f
<1>6. ASSUME NEW m \in T, \A k \in T : m <= k
      PROVE  FALSE
  <2>1. m \in 1 .. N /\ f[m] # q[m]
    BY <1>6
  <2>2. CASE m = 1
    BY <1>1, <1>4, <1>5, <2>1, <2>2
  <2>3. CASE m # 1
    <3>1. m - 1 \in 1 .. N /\ ~(m <= m - 1)
      BY <1>1, <2>1, <2>3
    <3>2. f[m - 1] = q[m - 1]
      BY <1>6, <3>1
    <3> QED BY <1>4, <1>5, <2>1, <2>3, <3>2
  <2> QED BY <2>2, <2>3
<1>7. T \subseteq Nat
  BY <1>1
<1>8. T = {}
  <2> HIDE DEF T
  <2> QED BY <1>6, <1>7, LeastNat
<1>9. \A n \in 1 .. N : f[n] = q[n]
  BY <1>8
<1> QED BY <1>1, <1>3, <1>5, <1>9

\* A list of no cells is walked in no steps.
LEMMA EmptyWalk ==
  ASSUME NEW l, l.first = NULL, Listed(l) = {}
  PROVE  IsWalk(l, << >>)
<1>1. << >> \in Seq(Entry) /\ Len(<< >>) = 0
  BY EmptySeq
<1>2. 1 .. 0 = {} /\ 1 .. (0 - 1) = {}
  OBVIOUS
<1> QED BY <1>1, <1>2 DEF IsWalk, Listed

\* gp_filesystem_lru_free takes the first cell off the chain.
LEMMA FreeFirstWalk ==
  ASSUME NEW l \in Links, GoodList(l), l.first # NULL, NEW q, IsWalk(l, q)
  PROVE  IsWalk(FreeFirst(l), Tail(q)) /\ Len(q) > 0
<1> DEFINE m == FreeFirst(l)
           t == Tail(q)
<1>1. q \in Seq(Entry) /\ Len(q) \in Nat /\ Len(q) # 0 /\ q # << >>
  BY LenProperties, EmptySeq DEF IsWalk
<1>2. /\ t \in Seq(Entry) /\ Len(t) = Len(q) - 1
      /\ \A i \in 1 .. Len(t) : t[i] = q[i + 1]
  BY <1>1, HeadTailProperties
<1>3. l.first = q[1] /\ l.last = q[Len(q)] /\ l.first \in Entry
  BY <1>1 DEF IsWalk, Links, Ptr
<1>4. Listed(m) = Listed(l) \ {l.first}
  BY FreeFirstGood
<1>5. /\ m.first = l.next[l.first]
      /\ m.last = IF l.next[l.first] = NULL THEN NULL ELSE l.last
      /\ \A x \in Entry : x # l.first => m.next[x] = l.next[x]
  BY <1>3 DEF FreeFirst, Links
<1> HIDE DEF m, t
<1>6. \A i, j \in 1 .. Len(t) : t[i] = t[j] => i = j
  <2>1. \A i \in 1 .. Len(t) : i + 1 \in 1 .. Len(q) /\ i \in Nat
    BY <1>1, <1>2
  <2>2. \A i, j \in Nat : i + 1 = j + 1 => i = j
    OBVIOUS
  <2> QED BY <1>2, <2>1, <2>2 DEF IsWalk
<1>7. \A x \in Entry : InList(m, x) <=> \E i \in 1 .. Len(t) : t[i] = x
  <2> SUFFICES ASSUME NEW x \in Entry
               PROVE  InList(m, x) <=> \E i \in 1 .. Len(t) : t[i] = x
    OBVIOUS
  <2>1. InList(m, x) <=> InList(l, x) /\ x # q[1]
    BY <1>3, <1>4 DEF Listed
  <2>2. ASSUME NEW i \in 1 .. Len(q), q[i] = x, x # q[1]
        PROVE  \E k \in 1 .. Len(t) : t[k] = x
    <3>1. i - 1 \in 1 .. Len(t) /\ (i - 1) + 1 = i
      BY <1>1, <1>2, <2>2
    <3> QED BY <1>2, <2>2, <3>1
  <2>3. ASSUME NEW i \in 1 .. Len(t), t[i] = x
        PROVE  InList(l, x) /\ x # q[1]
    <3>1. i + 1 \in 1 .. Len(q) /\ i + 1 # 1 /\ 1 \in 1 .. Len(q)
      BY <1>1, <1>2
    <3> QED BY <1>2, <2>3, <3>1 DEF IsWalk
  <2> QED BY <2>1, <2>2, <2>3 DEF IsWalk
<1>8. CASE Len(q) = 1
  <2>1. l.next[l.first] = NULL
    BY <1>3, <1>8 DEF GoodList, WellFormed
  <2>2. Len(t) = 0 /\ 1 .. Len(t) - 1 = {}
    BY <1>2, <1>8
  <2> QED BY <1>1, <1>2, <1>5, <1>6, <1>7, <2>1, <2>2 DEF IsWalk, m, t
<1>9. CASE Len(q) # 1
  <2>1. /\ 1 \in 1 .. Len(q) - 1 /\ Len(t) # 0 /\ 1 \in 1 .. Len(t)
        /\ Len(t) \in 1 .. Len(t) /\ Len(t) + 1 = Len(q)
    BY <1>1, <1>2, <1>9
  <2>2. l.next[l.first] = q[2] /\ q[2] \in Entry
    BY <1>1, <1>3, <2>1 DEF IsWalk
  <2>3. m.first = t[1] /\ m.last = t[Len(t)]
    BY <1>2, <1>3, <1>5, <2>1, <2>2, EntryAssumption
  <2>4. ASSUME NEW i \in 1 .. Len(t) - 1
        PROVE  m.next[t[i]] = t[i + 1]
    <3>1. /\ i \in 1 .. Len(t) /\ i + 1 \in 1 .. Len(t)
          /\ i + 1 \in 1 .. Len(q) - 1 /\ i + 1 \in 1 .. Len(q) /\ i + 1 # 1 /\ 1 \in 1 .. Len(q)
      BY <1>1, <1>2
    <3>2. q[i + 1] # q[1] /\ q[i + 1] \in Entry /\ l.next[q[i + 1]] = q[(i + 1) + 1]
      BY <1>1, <3>1, ElementOfSeq DEF IsWalk
    <3> QED BY <1>2, <1>3, <1>5, <3>1, <3>2
  <2> QED BY <1>1, <1>2, <1>6, <1>7, <2>1, <2>3, <2>4 DEF IsWalk, m, t
<1> QED BY <1>1, <1>8, <1>9

\* gp_filesystem_lru_update puts a cell that is not in the list at the end of the
\* chain.
LEMMA InsertLastWalk ==
  ASSUME NEW l \in Links, NEW e \in Entry, GoodList(l), ~InList(l, e),
         NEW q, IsWalk(l, q)
  PROVE  IsWalk(InsertLast(l, e), Append(q, e))
<1> DEFINE m == InsertLast(l, e)
           a == Append(q, e)
<1>1. q \in Seq(Entry) /\ Len(q) \in Nat
  BY LenProperties DEF IsWalk
<1>2. /\ a \in Seq(Entry) /\ Len(a) = Len(q) + 1
      /\ \A i \in 1 .. Len(q) : a[i] = q[i]
      /\ a[Len(q) + 1] = e
  BY <1>1, AppendProperties
<1>3. Listed(m) = Listed(l) \union {e}
  BY InsertLastGood
<1>4. /\ m.first = IF l.first = NULL THEN e ELSE l.first
      /\ m.last = e
      /\ \A x \in Entry : x # e => m.next[x] = IF x = l.last THEN e ELSE l.next[x]
  BY EntryAssumption DEF InsertLast, Links, Ptr, GoodList, WellFormed, InList
<1> HIDE DEF m, a
<1>5. \A i \in 1 .. Len(a) : i \in 1 .. Len(q) \/ i = Len(q) + 1
  BY <1>1, <1>2
<1>6. \A i \in 1 .. Len(q) : q[i] # e /\ q[i] \in Entry /\ i \in 1 .. Len(a)
  BY <1>1, <1>2, ElementOfSeq DEF IsWalk
<1>7. \A i, j \in 1 .. Len(a) : a[i] = a[j] => i = j
  BY <1>2, <1>5, <1>6 DEF IsWalk
<1>8. \A x \in Entry : InList(m, x) <=> \E i \in 1 .. Len(a) : a[i] = x
  <2>1. \A x \in Entry : InList(m, x) <=> InList(l, x) \/ x = e
    BY <1>3 DEF Listed
  <2>2. Len(q) + 1 \in 1 .. Len(a)
    BY <1>1, <1>2
  <2> QED BY <1>2, <1>5, <1>6, <2>1, <2>2 DEF IsWalk
<1>9. CASE Len(q) = 0
  <2>1. Len(a) = 1 /\ 1 .. Len(a) - 1 = {}
    BY <1>2, <1>9
  <2> QED BY <1>2, <1>4, <1>7, <1>8, <1>9, <2>1 DEF IsWalk, m, a
<1>10. CASE Len(q) # 0
  <2>1. 1 \in 1 .. Len(q) /\ Len(q) \in 1 .. Len(q)
    BY <1>1, <1>10
  <2>2. l.first = q[1] /\ l.last = q[Len(q)] /\ q[1] # NULL
    BY <1>6, <1>10, <2>1, EntryAssumption DEF IsWalk
  <2>3. ASSUME NEW i \in 1 .. Len(a) - 1
        PROVE  m.next[a[i]] = a[i + 1]
    <3>1. i \in 1 .. Len(q)
      BY <1>1, <1>2
    <3>2. m.next[a[i]] = IF q[i] = l.last THEN e ELSE l.next[q[i]]
      BY <1>2, <1>4, <1>6, <3>1
    <3>3. CASE i = Len(q)
      BY <1>2, <2>2, <3>2, <3>3
    <3>4. CASE i # Len(q)
      <4>1. i \in 1 .. Len(q) - 1 /\ i + 1 \in 1 .. Len(q)
        BY <1>1, <3>1, <3>4
      <4>2. q[i] # l.last /\ l.next[q[i]] = q[i + 1]
        BY <2>1, <2>2, <3>1, <3>4, <4>1 DEF IsWalk
      <4> QED BY <1>2, <3>2, <4>1, <4>2
    <3> QED BY <3>3, <3>4
  <2>4. m.first = a[1] /\ m.last = a[Len(a)] /\ Len(a) # 0
    BY <1>1, <1>2, <1>4, <2>1, <2>2
  <2> QED BY <1>2, <1>7, <1>8, <2>3, <2>4 DEF IsWalk, m, a
<1> QED BY <1>9, <1>10

\* The neighbours in the chain of the cell at place k.
LEMMA WalkNeighbours ==
  ASSUME NEW l \in Links, GoodList(l), NEW q, IsWalk(l, q), NEW k \in 1 .. Len(q)
  PROVE  /\ l.next[q[k]] = IF k = Len(q) THEN NULL ELSE q[k + 1]
         /\ l.prev[q[k]] = IF k = 1 THEN q[k] ELSE q[k - 1]
<1>1. q \in Seq(Entry) /\ Len(q) \in Nat /\ Len(q) # 0
  BY LenProperties DEF IsWalk
<1>2. l.first = q[1] /\ l.last = q[Len(q)] /\ l.first # NULL
  BY <1>1, ElementOfSeq, EntryAssumption DEF IsWalk
<1>3. l.next[q[k]] = IF k = Len(q) THEN NULL ELSE q[k + 1]
  <2>1. k # Len(q) => k \in 1 .. Len(q) - 1
    BY <1>1
  <2> QED BY <1>2, <2>1 DEF IsWalk, GoodList, WellFormed
<1>4. CASE k = 1
  BY <1>2, <1>3, <1>4 DEF GoodList, WellFormed
<1>5. CASE k # 1
  <2>1. /\ k - 1 \in 1 .. Len(q) - 1 /\ (k - 1) + 1 = k /\ k - 1 \in 1 .. Len(q)
        /\ Len(q) \in 1 .. Len(q) /\ k - 1 # Len(q)
    BY <1>1, <1>5
  <2>2. q[k - 1] \in Entry /\ InList(l, q[k - 1]) /\ q[k - 1] # l.last
    BY <1>1, <1>2, <2>1, ElementOfSeq DEF IsWalk
  <2>3. l.next[q[k - 1]] = q[k]
    BY <2>1 DEF IsWalk
  <2> QED BY <1>3, <1>5, <2>2, <2>3 DEF GoodList, WellFormed
<1> QED BY <1>4, <1>5

\* gp_filesystem_lru_remove_one takes the cell out of the chain and leaves the
\* others in their order.
LEMMA RemoveOneWalk ==
  ASSUME NEW l \in Links, NEW e \in Entry, GoodList(l), NEW q, IsWalk(l, q)
  PROVE  IsWalk(RemoveOne(l, e), Queue!Without(q, e))
<1> DEFINE m == RemoveOne(l, e)
           w == Queue!Without(q, e)
<1>0. q \in Seq(Entry) /\ Len(q) \in Nat
  BY LenProperties DEF IsWalk
<1>1. CASE ~InList(l, e)
  <2>1. m = l
    BY <1>1, RemoveOneType
  <2>2. \A i \in 1 .. Len(q) : q[i] # e
    BY <1>1 DEF IsWalk
  <2>3. w = q
    BY <2>2 DEF Queue!Without
  <2> QED BY <2>1, <2>3
<1>2. CASE InList(l, e)
  <2> DEFINE k == CHOOSE i \in 1 .. Len(q) : q[i] = e
  <2>1. k \in 1 .. Len(q) /\ q[k] = e
    BY <1>2 DEF IsWalk
  <2>2. w = [i \in 1 .. Len(q) - 1 |-> IF i < k THEN q[i] ELSE q[i + 1]]
    BY <2>1 DEF Queue!Without
  <2> HIDE DEF k
  <2>3. Len(q) - 1 \in Nat
    BY <1>0, <2>1
  <2>4. w \in Seq(Entry) /\ Len(w) = Len(q) - 1
    <3>1. \A i \in 1 .. Len(q) - 1 : i \in 1 .. Len(q) /\ i + 1 \in 1 .. Len(q)
      BY <1>0
    <3>2. w \in [1 .. Len(q) - 1 -> Entry]
      BY <1>0, <2>2, <3>1, ElementOfSeq
    <3>3. w \in Seq(Entry)
      BY <2>3, <3>2, SeqDef
    <3>4. DOMAIN w = 1 .. Len(q) - 1 /\ DOMAIN w = 1 .. Len(w) /\ Len(w) \in Nat
      BY <2>2, <3>3, LenProperties
    <3> QED BY <2>3, <3>3, <3>4
  <2>5. \A i \in 1 .. Len(w) : /\ i < k => w[i] = q[i] /\ i \in 1 .. Len(q) /\ i # k
                               /\ ~(i < k) => /\ w[i] = q[i + 1]
                                              /\ i + 1 \in 1 .. Len(q) /\ i + 1 # k
    BY <1>0, <2>1, <2>2, <2>4
  <2>6. \A i, j \in 1 .. Len(q) : q[i] = q[j] => i = j
    BY DEF IsWalk
  <2> HIDE DEF w
  <2>7. ASSUME NEW i \in 1 .. Len(w), NEW j \in 1 .. Len(w), w[i] = w[j]
        PROVE  i = j
    <3>1. i \in Int /\ j \in Int /\ k \in Int
      BY <1>0, <2>1, <2>4
    <3>2. CASE i < k /\ j < k
      BY <2>5, <2>6, <2>7, <3>2
    <3>3. CASE i < k /\ ~(j < k)
      <4>1. i = j + 1
        BY <2>5, <2>6, <2>7, <3>3
      <4> QED BY <3>1, <3>3, <4>1
    <3>4. CASE ~(i < k) /\ j < k
      <4>1. i + 1 = j
        BY <2>5, <2>6, <2>7, <3>4
      <4> QED BY <3>1, <3>4, <4>1
    <3>5. CASE ~(i < k) /\ ~(j < k)
      <4>1. i + 1 = j + 1
        BY <2>5, <2>6, <2>7, <3>5
      <4> QED BY <3>1, <4>1
    <3> QED BY <3>2, <3>3, <3>4, <3>5
  <2>8. \A x \in Entry : InList(m, x) <=> \E i \in 1 .. Len(w) : w[i] = x
    <3> SUFFICES ASSUME NEW x \in Entry
                 PROVE  InList(m, x) <=> \E i \in 1 .. Len(w) : w[i] = x
      OBVIOUS
    <3>1. InList(m, x) <=> InList(l, x) /\ x # e
      BY RemoveOneGood DEF Listed
    <3>2. ASSUME NEW i \in 1 .. Len(q), q[i] = x, x # e
          PROVE  \E j \in 1 .. Len(w) : w[j] = x
      <4>1. i # k /\ i \in Int /\ k \in Int
        BY <1>0, <2>1, <3>2
      <4>2. CASE i < k
        <5>1. i \in 1 .. Len(w)
          BY <1>0, <2>1, <2>4, <4>2
        <5> QED BY <2>5, <3>2, <4>2, <5>1
      <4>3. CASE ~(i < k)
        <5>1. i - 1 \in 1 .. Len(w) /\ ~(i - 1 < k) /\ (i - 1) + 1 = i
          BY <1>0, <2>1, <2>4, <4>1, <4>3
        <5> QED BY <2>5, <3>2, <5>1
      <4> QED BY <4>2, <4>3
    <3>3. ASSUME NEW i \in 1 .. Len(w), w[i] = x
          PROVE  InList(l, x) /\ x # e
      BY <2>1, <2>5, <2>6, <3>3 DEF IsWalk
    <3> QED BY <3>1, <3>2, <3>3 DEF IsWalk
  <2>9. /\ m.first = IF l.first # e THEN l.first
                     ELSE IF l.last = e THEN NULL ELSE l.next[e]
        /\ m.last = IF l.last # e THEN l.last
                    ELSE IF l.first = e THEN NULL ELSE l.prev[e]
        /\ \A x \in Entry : x # e =>
             m.next[x] = IF x = l.prev[e] THEN l.next[e] ELSE l.next[x]
    BY <1>2, RemoveOneEffect
  <2> HIDE DEF m
  <2>10. /\ l.next[e] = IF k = Len(q) THEN NULL ELSE q[k + 1]
         /\ l.prev[e] = IF k = 1 THEN e ELSE q[k - 1]
    BY <2>1, WalkNeighbours
  <2>11. /\ 1 \in 1 .. Len(q) /\ Len(q) \in 1 .. Len(q)
         /\ l.first = q[1] /\ l.last = q[Len(q)]
    BY <1>0, <2>1 DEF IsWalk
  <2>12. (l.first = e <=> k = 1) /\ (l.last = e <=> k = Len(q))
    BY <2>1, <2>6, <2>11
  <2>13. IF Len(w) = 0 THEN m.first = NULL
                       ELSE m.first = w[1] /\ m.last = w[Len(w)]
    <3>1. CASE Len(w) = 0
      <4>0. Len(q) = 1
        BY <1>0, <2>4, <3>1
      <4>1. k = 1 /\ k = Len(q)
        BY <2>1, <4>0
      <4> QED BY <2>9, <2>12, <3>1, <4>1
    <3>2. CASE Len(w) # 0
      <4>1. 1 \in 1 .. Len(w) /\ Len(w) \in 1 .. Len(w) /\ ~(k = 1 /\ k = Len(q))
        BY <2>3, <2>4, <3>2
      <4>2. w[1] = m.first
        <5>1. CASE k = 1
          <6>1. ~(1 < k) /\ 1 + 1 = k + 1
            BY <5>1
          <6> QED BY <2>5, <2>9, <2>10, <2>12, <4>1, <5>1, <6>1
        <5>2. CASE k # 1
          <6>1. 1 < k
            BY <1>0, <2>1, <5>2
          <6> QED BY <2>5, <2>9, <2>11, <2>12, <4>1, <5>2, <6>1
        <5> QED BY <5>1, <5>2
      <4>3. w[Len(w)] = m.last
        <5>1. CASE k = Len(q)
          <6>1. Len(w) < k /\ Len(w) = k - 1
            BY <1>0, <2>4, <5>1
          <6> QED BY <2>5, <2>9, <2>10, <2>12, <4>1, <5>1, <6>1
        <5>2. CASE k # Len(q)
          <6>1. ~(Len(w) < k) /\ Len(w) + 1 = Len(q)
            BY <1>0, <2>1, <2>4, <5>2
          <6> QED BY <2>5, <2>9, <2>11, <2>12, <4>1, <5>2, <6>1
        <5> QED BY <5>1, <5>2
      <4> QED BY <3>2, <4>2, <4>3
    <3> QED BY <3>1, <3>2
  <2>14. ASSUME NEW i \in 1 .. Len(w) - 1
         PROVE  m.next[w[i]] = w[i + 1]
    <3>1. i \in 1 .. Len(w) /\ i + 1 \in 1 .. Len(w) /\ i \in Int /\ k \in Int
      BY <1>0, <2>1, <2>3, <2>4
    <3>2. w[i] \in Entry /\ w[i] # e
      BY <2>1, <2>4, <2>5, <2>6, <3>1, ElementOfSeq
    <3>3. m.next[w[i]] = IF w[i] = l.prev[e] THEN l.next[e] ELSE l.next[w[i]]
      BY <2>9, <3>2
    <3>4. CASE i + 1 < k
      <4>1. i < k /\ i # k - 1 /\ k # 1 /\ k - 1 \in 1 .. Len(q) /\ i \in 1 .. Len(q) - 1
        BY <1>0, <2>1, <3>1, <3>4
      <4>2. w[i] = q[i] /\ w[i + 1] = q[i + 1] /\ i \in 1 .. Len(q)
        BY <2>5, <3>1, <3>4, <4>1
      <4>3. w[i] # l.prev[e]
        BY <2>6, <2>10, <4>1, <4>2
      <4> QED BY <3>3, <4>1, <4>2, <4>3 DEF IsWalk
    <3>5. CASE i + 1 = k
      <4>1. i < k /\ ~(i + 1 < k) /\ k # 1 /\ i = k - 1 /\ k # Len(q)
        BY <1>0, <2>1, <2>4, <3>1, <3>5
      <4>2. w[i] = q[k - 1] /\ w[i + 1] = q[k + 1]
        BY <2>5, <3>1, <3>5, <4>1
      <4> QED BY <2>10, <3>3, <4>1, <4>2
    <3>6. CASE k < i + 1
      <4>1. ~(i < k) /\ ~(i + 1 < k) /\ i + 1 \in 1 .. Len(q) - 1
        BY <1>0, <2>1, <2>4, <3>1, <3>6
      <4>2. w[i] = q[i + 1] /\ w[i + 1] = q[(i + 1) + 1] /\ i + 1 \in 1 .. Len(q)
        BY <2>5, <3>1, <4>1
      <4>3. w[i] # l.prev[e]
        <5>1. k # 1 => k - 1 \in 1 .. Len(q) /\ k - 1 # i + 1
          BY <1>0, <2>1, <3>1, <3>6
        <5> QED BY <2>6, <2>10, <3>2, <4>2, <5>1
      <4> QED BY <3>3, <4>1, <4>2, <4>3 DEF IsWalk
    <3> QED BY <3>1, <3>4, <3>5, <3>6
  <2> QED BY <2>4, <2>7, <2>8, <2>13, <2>14 DEF IsWalk, m, w
<1> QED BY <1>1, <1>2

-----------------------------------------------------------------------------
\* The invariant of the refinement: the walk of the list is its chain.
QInv == IInv /\ IsWalk(lru, WalkOf(lru))

\* A chain of a good list is the walk.
LEMMA ChainQInv ==
  ASSUME NEW l \in Links, GoodList(l), NEW q, IsWalk(l, q)
  PROVE  WalkOf(l) = q /\ IsWalk(l, WalkOf(l))
BY WalkIsTheChain

\* gp_filesystem_lru_count is the length of the queue.
LEMMA CountIsLength ==
  ASSUME QInv
  PROVE  LruCount = Len(WalkOf(lru))
<1>1. lru \in Links /\ GoodList(lru) /\ ListedCache
  BY IInvList DEF QInv, IInv
<1>2. {e \in Walked(lru) : HasContent(e)} = Listed(lru)
  BY <1>1, GoodListWalk DEF ListedCache
<1> QED BY <1>2, WalkLength DEF LruCount, QInv

\* Every step on the links is a step of the queue.
LEMMA QueueStep ==
  ASSUME QInv, [Next]_vars
  PROVE  /\ IsWalk(lru', WalkOf(lru'))
         /\ Queue!Next \/ UNCHANGED <<WalkOf(lru), op.entry>>
<1> DEFINE q == WalkOf(lru)
<1>0. /\ lru \in Links /\ GoodList(lru) /\ IsWalk(lru, q) /\ TypeOK
      /\ lru' \in Links /\ GoodList(lru') /\ NoOp.entry = NULL
  <2>1. IInv'
    BY NextIInv DEF QInv
  <2>2. lru' \in Links /\ GoodList(lru')
    BY <2>1, GoodListWalk, WalkReach DEF IInv, TypeOK, ListIntact, WalkMeetsAll, GoodList
  <2> QED BY <2>2, IInvList DEF QInv, IInv, NoOp
<1>00. (op = NoOp => op.entry = NULL) /\ (op # NoOp => op.entry \in Entry /\ op.entry # NULL)
  BY <1>0, OpType, EntryAssumption DEF NoOp
<1>1. CASE UNCHANGED <<lru, op>>
  BY <1>0, <1>1
<1>2. ASSUME NEW e \in Entry, DeleteFile(e)
      PROVE  IsWalk(lru', WalkOf(lru')) /\ Queue!Next
  <2>1. IsWalk(lru', Queue!Without(q, e))
    BY <1>0, <1>2, RemoveOneWalk DEF DeleteFile
  <2>2. WalkOf(lru') = Queue!Without(q, e) /\ IsWalk(lru', WalkOf(lru'))
    BY <1>0, <2>1, ChainQInv
  <2>3. Queue!Leave(e)
    BY <1>00, <1>2, <2>2 DEF DeleteFile, Queue!Leave
  <2> QED BY <2>2, <2>3 DEF Queue!Next
<1>3. ASSUME Reset
      PROVE  IsWalk(lru', WalkOf(lru')) /\ Queue!Next
  <2>1. Listed(lru') = {} /\ lru'.first = NULL
    BY <1>0, <1>3, ClearAllGood DEF Reset, ClearAll
  <2>2. IsWalk(lru', << >>)
    BY <2>1, EmptyWalk
  <2>3. WalkOf(lru') = << >> /\ IsWalk(lru', WalkOf(lru'))
    BY <1>0, <2>2, ChainQInv
  <2>4. Queue!Clear
    BY <1>00, <1>3, <2>3 DEF Reset, Queue!Clear
  <2> QED BY <2>3, <2>4 DEF Queue!Next
<1>4. ASSUME NEW e \in Entry, NEW k \in Kind, NEW s \in Size, StartSetFile(e, k, s)
      PROVE  IsWalk(lru', WalkOf(lru')) /\ Queue!Next
  <2>1. op.entry = NULL /\ op'.entry = e /\ lru' = lru
    BY <1>00, <1>4 DEF StartSetFile
  <2>2. Queue!Ask(e)
    BY <2>1 DEF Queue!Ask
  <2> QED BY <1>0, <2>1, <2>2 DEF Queue!Next
<1>5. ASSUME Prune
      PROVE  IsWalk(lru', WalkOf(lru')) /\ Queue!Next
  <2>1. lru.first # NULL /\ lru' = FreeFirst(lru) /\ op' = op /\ op # NoOp
    BY <1>0, <1>5, FirstType DEF Prune
  <2>2. IsWalk(lru', Tail(q))
    BY <1>0, <2>1, FreeFirstWalk
  <2>3. WalkOf(lru') = Tail(q) /\ IsWalk(lru', WalkOf(lru'))
    BY <1>0, <2>2, ChainQInv
  <2>4. Len(q) > PicturesToKeep
    BY <1>5, CountIsLength DEF Prune
  <2>5. Queue!Evict
    BY <1>00, <2>1, <2>3, <2>4 DEF Queue!Evict
  <2> QED BY <2>3, <2>5 DEF Queue!Next
<1>6. ASSUME FinishSetFile
      PROVE  IsWalk(lru', WalkOf(lru')) /\ Queue!Next
  <2> DEFINE m == RemoveOne(lru, op.entry)
             w == Queue!Without(q, op.entry)
  <2>1. /\ op # NoOp /\ op.entry \in Entry /\ op' = NoOp
        /\ lru' = InsertLast(m, op.entry)
    BY <1>00, <1>6 DEF FinishSetFile
  <2>2. /\ m \in Links /\ GoodList(m) /\ IsWalk(m, w)
        /\ Listed(m) = Listed(lru) \ {op.entry}
    BY <1>0, <2>1, RemoveOneType, RemoveOneGood, RemoveOneWalk
  <2>3. ~InList(m, op.entry)
    BY <2>1, <2>2 DEF Listed
  <2> HIDE DEF m, w
  <2>4. IsWalk(lru', Append(w, op.entry))
    BY <2>1, <2>2, <2>3, InsertLastWalk
  <2>5. WalkOf(lru') = Append(w, op.entry) /\ IsWalk(lru', WalkOf(lru'))
    BY <1>0, <2>4, ChainQInv
  <2>6. Len(q) <= PicturesToKeep
    BY <1>6, CountIsLength DEF FinishSetFile
  <2>7. Queue!Hand
    BY <1>0, <1>00, <2>1, <2>5, <2>6 DEF Queue!Hand, w
  <2> QED BY <2>5, <2>7 DEF Queue!Next
<1> QED
  BY <1>1, <1>2, <1>3, <1>4, <1>5, <1>6
  DEF Next, InternalAppend, AppendFile, vars

\* The hand-linked list of gphoto2-filesys.c is a queue, for any cells and any
\* limit: a picture that gp_filesystem_set_file_noop hands over is evicted after
\* all those before it, a deleted cell leaves the others in their order, and
\* gp_filesystem_reset empties it.
THEOREM ListIsQueue == Spec => IsQueue
<1>1. Init => QInv /\ Queue!Init
  <2> SUFFICES ASSUME Init PROVE QInv /\ Queue!Init
    OBVIOUS
  <2>1. IInv /\ lru.first = NULL /\ Listed(lru) = {} /\ op.entry = NULL
    BY InitIInv DEF Init, EmptyLinks, Listed, InList, NoOp
  <2>2. IsWalk(lru, << >>)
    BY <2>1, EmptyWalk
  <2>3. WalkOf(lru) = << >> /\ IsWalk(lru, WalkOf(lru))
    BY <2>1, <2>2, IInvList, ChainQInv
  <2> QED BY <2>1, <2>3 DEF QInv, Queue!Init
<1>2. QInv /\ [Next]_vars => QInv' /\ [Queue!Next]_(Queue!vars)
  <2> SUFFICES ASSUME QInv, [Next]_vars
               PROVE  QInv' /\ [Queue!Next]_(Queue!vars)
    OBVIOUS
  <2>1. IInv'
    BY NextIInv DEF QInv
  <2> QED BY <2>1, QueueStep DEF QInv, Queue!vars
<1> QED BY <1>1, <1>2, PTL DEF Spec, IsQueue, Queue!Spec
=============================================================================

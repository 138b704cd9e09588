----------------------- MODULE PtpObjectSearch_proofs -----------------------
(***************************************************************************)
(* Proofs about the list of cached objects (ptp2/ptp.c), for any number of *)
(* objects and any handles that lie in one half of the numbers (Near).     *)
(*                                                                         *)
(* The search keeps the handle's place between begin and end; so what it   *)
(* does not find is not there, the place where it inserts keeps the order, *)
(* and the array is a set of handles to whoever calls it.                  *)
(***************************************************************************)
EXTENDS PtpObjectSearch, SequenceTheorems, TLAPS

-----------------------------------------------------------------------------
(***************************************************************************)
(* The two ways the array is edited.                                       *)
(***************************************************************************)

\* memmove() and the new object.
LEMMA InsertedProperties ==
  ASSUME NEW S, NEW s \in Seq(S), NEW i \in 0 .. Len(s), NEW h \in S
  PROVE  /\ Inserted(s, i, h) \in Seq(S)
         /\ Len(Inserted(s, i, h)) = Len(s) + 1
         /\ \A k \in 1 .. (Len(s) + 1) :
              Inserted(s, i, h)[k] = IF k <= i THEN s[k]
                                     ELSE IF k = i + 1 THEN h ELSE s[k - 1]
<1>1. Len(s) \in Nat /\ \A k \in 1 .. Len(s) : s[k] \in S
  BY LenProperties, ElementOfSeq
<1>2. \A k \in 1 .. (Len(s) + 1) :
        (IF k <= i THEN s[k] ELSE IF k = i + 1 THEN h ELSE s[k - 1]) \in S
  BY <1>1
<1> QED BY <1>1, <1>2 DEF Inserted

\* The new object is at its place.
LEMMA InsertedElement ==
  ASSUME NEW S, NEW s \in Seq(S), NEW i \in 0 .. Len(s), NEW h \in S
  PROVE  Inserted(s, i, h)[i + 1] = h
<1>1. i + 1 \in 1 .. (Len(s) + 1) /\ ~(i + 1 <= i)
  BY LenProperties
<1> QED BY <1>1 DEF Inserted

\* memmove() over the object that goes.
LEMMA WithoutProperties ==
  ASSUME NEW S, NEW s \in Seq(S), NEW i \in 0 .. (Len(s) - 1)
  PROVE  /\ Without(s, i) \in Seq(S)
         /\ Len(Without(s, i)) = Len(s) - 1
         /\ \A k \in 1 .. (Len(s) - 1) :
              Without(s, i)[k] = IF k <= i THEN s[k] ELSE s[k + 1]
<1>1. Len(s) \in Nat /\ \A k \in 1 .. Len(s) : s[k] \in S
  BY LenProperties, ElementOfSeq
<1>2. Len(s) - 1 \in Nat
  BY <1>1
<1>3. \A k \in 1 .. (Len(s) - 1) : (IF k <= i THEN s[k] ELSE s[k + 1]) \in S
  BY <1>1
<1> QED BY <1>1, <1>2, <1>3 DEF Without

\* A shuffled array has the same length.
LEMMA ShuffledProperties ==
  ASSUME TypeOK, NEW p \in Shuffles
  PROVE  /\ Shuffled(p) \in Seq(Handle)
         /\ Len(Shuffled(p)) = Len(objects)
         /\ \A k \in 1 .. Len(objects) : /\ p[k] \in 1 .. Len(objects)
                                         /\ Shuffled(p)[k] = objects[p[k]]
<1>1. Len(objects) \in Nat /\ \A k \in 1 .. Len(objects) : objects[k] \in Handle
  BY LenProperties, ElementOfSeq DEF TypeOK
<1>2. \A k \in 1 .. Len(objects) : p[k] \in 1 .. Len(objects)
  BY DEF Shuffles, Bijection, Injection
<1> QED BY <1>1, <1>2 DEF Shuffled

-----------------------------------------------------------------------------
(***************************************************************************)
(* Types, and indices within the array, for any handles.                   *)
(***************************************************************************)

Bounds ==
  /\ pc \in {"probe", "settle"} => /\ of = "find_or_insert" /\ handle \in Handle
                                   /\ begin <= end /\ end < Len(objects)
  /\ pc # "idle" => at = None
  /\ at # None => at < Len(objects)

TInv == TypeOK /\ Bounds

\* The middle of the range, and the place of insertion, are in the array.
LEMMA InRange ==
  ASSUME TInv, pc \in {"probe", "settle"}
  PROVE  /\ Cursor \in Nat /\ begin <= Cursor /\ Cursor <= end
         /\ InsertAt \in 0 .. Len(objects)
         /\ Len(objects) \in Nat
BY LenProperties DEF TInv, TypeOK, Bounds, Cursor, InsertAt

LEMMA TypeStep ==
  ASSUME TInv, [Next]_vars
  PROVE  TInv'
<1>1. Len(objects) \in Nat
  BY LenProperties DEF TInv, TypeOK
<1>2. ASSUME NEW h \in Handle, FindOrInsert(h)
      PROVE  TInv'
  <2>1. CASE objects = << >>
    <3>1. <<h>> \in Seq(Handle) /\ Len(<<h>>) = 1
      OBVIOUS
    <3>2. objects' = <<h>> /\ Return(0) /\ Called("find_or_insert", h)
      BY <1>2, <2>1 DEF FindOrInsert
    <3> QED BY <3>1, <3>2 DEF Return, Called, TInv, TypeOK, Bounds, None
  <2>2. CASE objects # << >>
    <3>1. Len(objects) - 1 \in Nat
      BY <1>1, <2>2, EmptySeq DEF TInv, TypeOK
    <3> QED BY <1>2, <2>2, <3>1 DEF FindOrInsert, Called, TInv, TypeOK, Bounds, None
  <2> QED BY <2>1, <2>2
<1>3. CASE Probe
  <2>1. pc = "probe" /\ Cursor \in Nat /\ begin <= Cursor /\ Cursor <= end
        /\ end < Len(objects)
    BY <1>3, InRange DEF Probe, TInv, Bounds
  <2>2. CASE Oid(Cursor) = handle
    BY <1>1, <1>3, <2>1, <2>2 DEF Probe, Return, TInv, TypeOK, Bounds, None
  <2>3. CASE Oid(Cursor) # handle
    BY <1>1, <1>3, <2>1, <2>3 DEF Probe, TInv, TypeOK, Bounds, None
  <2> QED BY <2>2, <2>3
<1>4. CASE Settle
  <2>1. pc = "settle" /\ handle \in Handle /\ InsertAt \in 0 .. Len(objects)
        /\ UNCHANGED <<of, handle>> /\ begin <= end /\ end < Len(objects)
    BY <1>4, InRange DEF Settle, TInv, Bounds
  <2>2. CASE Return(begin) /\ UNCHANGED objects
    BY <1>1, <2>1, <2>2 DEF Return, TInv, TypeOK, Bounds, None
  <2>3. CASE Return(end) /\ UNCHANGED objects
    BY <1>1, <2>1, <2>3 DEF Return, TInv, TypeOK, Bounds, None
  <2>4. CASE objects' = Inserted(objects, InsertAt, handle) /\ Return(InsertAt)
    <3>1. objects' \in Seq(Handle) /\ Len(objects') = Len(objects) + 1
      BY <2>1, <2>4, InsertedProperties DEF TInv, TypeOK
    <3> QED BY <1>1, <2>1, <2>4, <3>1 DEF Return, TInv, TypeOK, Bounds, None
  <2> QED BY <1>4, <2>2, <2>3, <2>4 DEF Settle
<1>5. ASSUME NEW h \in Handle, Find(h)
      PROVE  TInv'
  <2>1. at' \in Indices \union {None}
    BY <1>5 DEF Find, Hits
  <2> QED BY <1>1, <1>5, <2>1 DEF Find, Called, Indices, TInv, TypeOK, Bounds, None
<1>6. ASSUME NEW h \in Handle, RemoveFromCache(h)
      PROVE  TInv'
  <2>1. PICK i \in Hits(h) : objects' = IF i = None THEN objects ELSE Without(objects, i)
    BY <1>6 DEF RemoveFromCache
  <2>2. i = None \/ i \in 0 .. (Len(objects) - 1)
    BY DEF Hits, Indices
  <2>3. objects' \in Seq(Handle)
    BY <2>1, <2>2, WithoutProperties DEF TInv, TypeOK
  <2> QED BY <1>6, <2>3 DEF RemoveFromCache, Called, TInv, TypeOK, Bounds, None
<1>7. ASSUME NEW h \in Handle, ListHandle(h)
      PROVE  TInv'
  <2>1. objects' \in Seq(Handle)
    BY <1>7, AppendProperties DEF ListHandle, TInv, TypeOK
  <2> QED BY <1>7, <2>1 DEF ListHandle, Called, TInv, TypeOK, Bounds, None
<1>8. CASE BeginListing
  BY <1>8 DEF BeginListing, Called, TInv, TypeOK, Bounds, None
<1>9. CASE EndListing
  <2>1. objects' \in Seq(Handle)
    BY <1>9, ShuffledProperties DEF EndListing, TInv, TypeOK
  <2> QED BY <1>9, <2>1 DEF EndListing, TInv, TypeOK, Bounds, None
<1>10. CASE UNCHANGED vars
  BY <1>10 DEF vars, TInv, TypeOK, Bounds
<1> QED BY <1>2, <1>3, <1>4, <1>5, <1>6, <1>7, <1>8, <1>9, <1>10 DEF Next

LEMMA TypeInit == Init => TInv
<1>1. << >> \in Seq(Handle)
  BY EmptySeq
<1>2. Init => changed \in BOOLEAN
  BY DEF Init
<1>3. Init => /\ objects \in Seq(Handle) /\ pc = "idle" /\ of = "none" /\ handle = 0
              /\ begin = 0 /\ end = 0 /\ at = None
  BY <1>1 DEF Init
<1> QED BY <1>2, <1>3 DEF TInv, TypeOK, Bounds, None

(* The variables keep their types and the indices stay within the array,   *)
(* whatever the handles are: nothing beyond params->objects is read.       *)
THEOREM TypeCorrect == Spec => []TInv
<1>1. Init => TInv
  BY TypeInit
<1>2. TInv /\ [Next]_vars => TInv'
  BY TypeStep
<1> QED BY <1>1, <1>2, PTL DEF Spec

-----------------------------------------------------------------------------
(***************************************************************************)
(* Order, for handles in one half of the numbers.                          *)
(***************************************************************************)

\* There, the difference as an int has the sign of the order.
LEMMA CompareIsOrder ==
  ASSUME Near, NEW a \in Handle, NEW b \in Handle
  PROVE  Compare(a, b) = a - b
<1>1. a \in Nat /\ b \in Nat /\ Half \in Nat /\ a - b < Half /\ b - a < Half
  BY HandleAssumption DEF Near
<1> QED BY <1>1 DEF Compare

LEMMA HandlesAreNumbers ==
  ASSUME NEW s \in Seq(Handle)
  PROVE  /\ Len(s) \in Nat
         /\ \A k \in 1 .. Len(s) : s[k] \in Handle /\ s[k] \in Nat
         /\ Handle \subseteq Nat \ {0}
<1>1. Handle \subseteq Nat \ {0}
  BY HandleAssumption
<1>2. \A k \in 1 .. Len(s) : s[k] \in Handle
  BY ElementOfSeq
<1> QED BY <1>1, <1>2, LenProperties

LEMMA ObjectsAreHandles ==
  ASSUME TypeOK
  PROVE  /\ Len(objects) \in Nat
         /\ \A k \in 1 .. Len(objects) : objects[k] \in Handle /\ objects[k] \in Nat
         /\ Handle \subseteq Nat \ {0}
BY HandlesAreNumbers DEF TypeOK

\* bsearch() finds the object if it is in a sorted array.
LEMMA HitsAreRight ==
  ASSUME Near, TypeOK, Sorted, pc # "list", NEW h \in Handle, NEW i \in Hits(h)
  PROVE  IF h \in Known THEN i \in Indices /\ Oid(i) = h ELSE i = None
<1>1. \A k \in 1 .. Len(objects) : /\ objects[k] \in Handle
                                   /\ Compare(h, objects[k]) = h - objects[k]
                                   /\ Compare(h, objects[k]) = 0 <=> objects[k] = h
  BY ObjectsAreHandles, CompareIsOrder
<1>2. Ordered(objects)
  BY CompareIsOrder, ObjectsAreHandles DEF Ordered, Sorted, Increasing
<1>3. \A j \in Indices : Compare(h, Oid(j)) = 0 <=> Oid(j) = h
  BY <1>1, ObjectsAreHandles DEF Indices, Oid
<1>4. h \in Known <=> \E j \in Indices : Oid(j) = h
  <2>1. ASSUME NEW k \in 1 .. Len(objects) PROVE k - 1 \in Indices /\ Oid(k - 1) = objects[k]
    BY ObjectsAreHandles DEF Indices, Oid
  <2>2. ASSUME NEW j \in Indices PROVE j + 1 \in 1 .. Len(objects)
    BY ObjectsAreHandles DEF Indices
  <2> QED BY <2>1, <2>2 DEF Known, Oid
<1>5. None \notin Indices
  BY DEF None, Indices
<1> QED BY <1>2, <1>3, <1>4, <1>5 DEF Hits

\* What the search has not met at begin or end is nowhere in the array, and its
\* place is InsertAt.
LEMMA PlaceOfInsertion ==
  ASSUME TInv, Sorted, Bracketed, pc = "settle", end - begin <= 1,
         handle \notin {Oid(begin), Oid(end)},
         NEW k \in 1 .. Len(objects)
  PROVE  /\ k <= InsertAt => objects[k] < handle
         /\ k > InsertAt => handle < objects[k]
<1>1. /\ Len(objects) \in Nat /\ begin \in Nat /\ end \in Nat
      /\ begin <= end /\ end < Len(objects)
      /\ begin + 1 \in 1 .. Len(objects) /\ end + 1 \in 1 .. Len(objects)
      /\ 1 \in 1 .. Len(objects)
  BY ObjectsAreHandles DEF TInv, TypeOK, Bounds
<1>2. handle \in Nat /\ \A j \in 1 .. Len(objects) : objects[j] \in Nat
  BY ObjectsAreHandles DEF TInv, Bounds
<1>3. \A i, j \in 1 .. Len(objects) : i < j => objects[i] < objects[j]
  BY DEF Sorted, Increasing
<1>4. CASE begin = 0 /\ handle < Oid(0)
  <2>1. InsertAt = 0
    BY <1>4 DEF InsertAt
  <2> QED BY <1>1, <1>2, <1>3, <1>4, <2>1 DEF Oid
<1>5. CASE ~(begin = 0 /\ handle < Oid(0)) /\ end = Len(objects) - 1 /\ handle > Oid(end)
  <2>1. InsertAt = Len(objects)
    BY <1>1, <1>5 DEF InsertAt
  <2> QED BY <1>1, <1>2, <1>3, <1>5, <2>1 DEF Oid
<1>6. CASE /\ ~(begin = 0 /\ handle < Oid(0))
           /\ ~(end = Len(objects) - 1 /\ handle > Oid(end))
  <2>1. InsertAt = begin + 1
    BY <1>6 DEF InsertAt
  <2>2. Oid(begin) < handle /\ handle < Oid(end)
    BY <1>1, <1>2, <1>6 DEF Bracketed, Oid
  <2>3. end = begin + 1
    BY <1>1, <1>2, <2>2 DEF Oid
  <2> QED BY <1>1, <1>2, <1>3, <2>1, <2>2, <2>3 DEF Oid
<1> QED BY <1>4, <1>5, <1>6

-----------------------------------------------------------------------------
(***************************************************************************)
(* The array is sorted.                                                    *)
(***************************************************************************)

\* An object goes where those before it are smaller, those behind it larger.
LEMMA SortedInsertion ==
  ASSUME NEW s \in Seq(Handle), NEW i \in 0 .. Len(s), NEW h \in Handle,
         Increasing(s),
         \A k \in 1 .. Len(s) : /\ k <= i => s[k] < h
                                /\ k > i => h < s[k]
  PROVE  Increasing(Inserted(s, i, h)) /\ Inserted(s, i, h) \in Seq(Handle)
<1> DEFINE t == Inserted(s, i, h)
<1>1. /\ t \in Seq(Handle) /\ Len(t) = Len(s) + 1
      /\ \A k \in 1 .. (Len(s) + 1) :
           t[k] = IF k <= i THEN s[k] ELSE IF k = i + 1 THEN h ELSE s[k - 1]
  BY InsertedProperties
<1>2. /\ Len(s) \in Nat /\ h \in Nat
      /\ \A k \in 1 .. Len(s) : s[k] \in Nat
  BY HandlesAreNumbers
<1> HIDE DEF t
<1>3. ASSUME NEW j \in 1 .. (Len(s) + 1), NEW k \in 1 .. (Len(s) + 1), j < k
      PROVE  t[j] < t[k]
  <2>1. CASE k <= i
    BY <1>1, <1>2, <1>3, <2>1 DEF Increasing
  <2>2. CASE k = i + 1
    <3>1. t[k] = h /\ j <= i /\ j \in 1 .. Len(s)
      BY <1>1, <1>2, <1>3, <2>2
    <3>2. t[j] = s[j]
      BY <1>1, <1>3, <3>1
    <3> QED BY <3>1, <3>2
  <2>3. CASE k > i + 1
    <3>1. k - 1 \in 1 .. Len(s) /\ t[k] = s[k - 1]
      BY <1>1, <1>2, <2>3
    <3>2. CASE j <= i
      <4>1. t[j] = s[j] /\ j \in 1 .. Len(s) /\ j < k - 1
        BY <1>1, <1>2, <2>3, <3>2
      <4> QED BY <3>1, <4>1 DEF Increasing
    <3>3. CASE j = i + 1
      <4>1. t[j] = h /\ k - 1 > i
        BY <1>1, <2>3, <3>3
      <4> QED BY <3>1, <4>1
    <3>4. CASE j > i + 1
      <4>1. j - 1 \in 1 .. Len(s) /\ t[j] = s[j - 1]
        BY <1>1, <1>2, <3>4
      <4> QED BY <1>2, <1>3, <3>1, <4>1 DEF Increasing
    <3> QED BY <3>2, <3>3, <3>4
  <2> QED BY <2>1, <2>2, <2>3
<1>4. Increasing(t)
  BY <1>1, <1>3 DEF Increasing
<1> QED BY <1>1, <1>4 DEF t

\* Taking an object out of a sorted array leaves it sorted.
LEMMA SortedRemoval ==
  ASSUME NEW s \in Seq(Handle), NEW i \in 0 .. (Len(s) - 1), Increasing(s)
  PROVE  Increasing(Without(s, i)) /\ Without(s, i) \in Seq(Handle)
<1> DEFINE t == Without(s, i)
<1>1. /\ t \in Seq(Handle) /\ Len(t) = Len(s) - 1 /\ Len(s) \in Nat
      /\ \A k \in 1 .. (Len(s) - 1) : t[k] = IF k <= i THEN s[k] ELSE s[k + 1]
  BY WithoutProperties, LenProperties
<1> HIDE DEF t
<1>2. \A k \in 1 .. Len(s) : s[k] \in Nat
  BY HandlesAreNumbers
<1>3. ASSUME NEW j \in 1 .. (Len(s) - 1), NEW k \in 1 .. (Len(s) - 1), j < k
      PROVE  t[j] < t[k]
  <2>1. /\ {j, j + 1, k, k + 1} \subseteq 1 .. Len(s)
        /\ s[j] < s[k] /\ s[j] < s[k + 1] /\ s[j + 1] < s[k + 1]
    BY <1>1, <1>2, <1>3 DEF Increasing
  <2> QED BY <1>1, <1>3, <2>1
<1>4. Increasing(t)
  BY <1>1, <1>3 DEF Increasing
<1> QED BY <1>1, <1>4 DEF t

LEMMA IncreasingIsDistinct ==
  ASSUME NEW s \in Seq(Handle), Increasing(s)
  PROVE  \A j, k \in 1 .. Len(s) : s[j] = s[k] => j = k
<1>1. Len(s) \in Nat /\ \A k \in 1 .. Len(s) : s[k] \in Nat
  BY HandlesAreNumbers
<1> QED BY <1>1 DEF Increasing

SInv ==
  /\ TInv /\ Sorted /\ Distinct /\ Bracketed
  /\ pc = "settle" => end - begin <= 1
  /\ pc = "list" /\ ~changed => Increasing(objects)

\* Without a listing, an array that stays as it is stays sorted.
LEMMA SameArray ==
  ASSUME SInv, UNCHANGED objects, pc # "list" \/ pc' = "list"
  PROVE  Sorted' /\ Distinct'
BY DEF SInv, Sorted, Distinct

LEMMA SearchStep ==
  ASSUME Near, SInv, Probe \/ Settle \/ \E h \in Handle : FindOrInsert(h)
  PROVE  SInv'
<1>1. TInv' /\ TInv
  BY TypeStep DEF Next, SInv
<1>2. Len(objects) \in Nat
  BY <1>1, ObjectsAreHandles DEF TInv
<1>3. ASSUME NEW h \in Handle, FindOrInsert(h)
      PROVE  SInv'
  <2>1. CASE objects = << >>
    <3>1. objects' = <<h>> /\ pc' = "idle"
      BY <1>3, <2>1 DEF FindOrInsert, Return
    <3>2. Len(objects') = 1
      BY <3>1
    <3> QED BY <1>1, <3>1, <3>2 DEF SInv, Sorted, Increasing, Distinct, Bracketed
  <2>2. CASE objects # << >>
    <3>1. /\ pc' = "probe" /\ UNCHANGED objects /\ pc = "idle"
          /\ begin' = 0 /\ end' = Len(objects) - 1
      BY <1>3, <2>2 DEF FindOrInsert
    <3>2. 0 <= Len(objects) - 1
      BY <1>2, <2>2, EmptySeq, <1>1 DEF TInv, TypeOK
    <3> QED BY <1>1, <1>2, <3>1, <3>2, SameArray DEF SInv, Bracketed
  <2> QED BY <2>1, <2>2
<1>4. CASE Probe
  <2>1. /\ pc = "probe" /\ UNCHANGED objects /\ handle \in Handle
        /\ Cursor \in Nat /\ begin <= Cursor /\ Cursor <= end /\ end < Len(objects)
        /\ begin \in Nat /\ end \in Nat
    BY <1>1, <1>4, InRange DEF Probe, TInv, TypeOK, Bounds
  <2>2. pc' # "list" /\ Sorted' /\ Distinct'
    BY <1>4, <2>1, SameArray DEF Probe, Return
  <2>3. CASE Oid(Cursor) = handle
    BY <1>1, <1>4, <2>2, <2>3 DEF Probe, Return, SInv, Bracketed
  <2>4. CASE Oid(Cursor) # handle
    <3>1. Oid(Cursor) \in Nat /\ handle \in Nat
      BY <1>1, <2>1, ObjectsAreHandles DEF Oid, TInv
    <3>2. CASE Oid(Cursor) < handle
      <4>1. /\ begin' = Cursor /\ end' = end /\ handle' = handle
            /\ pc' = IF end' - begin' <= 1 THEN "settle" ELSE "probe"
        BY <1>4, <2>4, <3>2 DEF Probe
      <4> QED BY <1>1, <2>1, <2>2, <3>2, <4>1 DEF SInv, Bracketed, Oid
    <3>3. CASE handle < Oid(Cursor)
      <4>1. /\ begin' = begin /\ end' = Cursor /\ handle' = handle
            /\ pc' = IF end' - begin' <= 1 THEN "settle" ELSE "probe"
        BY <1>4, <2>4, <3>1, <3>3 DEF Probe
      <4> QED BY <1>1, <2>1, <2>2, <3>3, <4>1 DEF SInv, Bracketed, Oid
    <3> QED BY <2>4, <3>1, <3>2, <3>3
  <2> QED BY <2>3, <2>4
<1>5. CASE Settle
  <2>1. pc = "settle" /\ pc' = "idle"
    BY <1>5 DEF Settle, Return
  <2>2. CASE UNCHANGED objects
    BY <1>1, <2>1, <2>2, SameArray DEF SInv, Bracketed
  <2>3. CASE /\ handle \notin {Oid(begin), Oid(end)}
             /\ objects' = Inserted(objects, InsertAt, handle)
    <3>1. InsertAt \in 0 .. Len(objects) /\ handle \in Handle /\ objects \in Seq(Handle)
      BY <1>1, <2>1, InRange DEF TInv, TypeOK, Bounds
    <3>2. \A k \in 1 .. Len(objects) : /\ k <= InsertAt => objects[k] < handle
                                       /\ k > InsertAt => handle < objects[k]
      BY <2>1, <2>3, PlaceOfInsertion DEF SInv
    <3>3. Increasing(objects') /\ objects' \in Seq(Handle)
      BY <1>1, <2>1, <2>3, <3>1, <3>2, SortedInsertion DEF SInv, Sorted, TInv, TypeOK
    <3>4. Distinct'
      BY <3>3, IncreasingIsDistinct DEF Distinct
    <3> QED BY <1>1, <2>1, <3>3, <3>4 DEF SInv, Sorted, Bracketed
  <2> QED BY <1>5, <2>2, <2>3 DEF Settle
<1> QED BY <1>3, <1>4, <1>5

LEMMA ListingStep ==
  ASSUME Near, SInv, BeginListing \/ EndListing \/ \E h \in Handle : ListHandle(h)
  PROVE  SInv'
<1>1. TInv' /\ TInv
  BY TypeStep DEF Next, SInv
<1>2. objects \in Seq(Handle)
  BY <1>1 DEF TInv, TypeOK
<1>3. CASE BeginListing
  BY <1>1, <1>3 DEF BeginListing, SInv, Sorted, Distinct, Bracketed
<1>4. ASSUME NEW h \in Handle, ListHandle(h)
      PROVE  SInv'
  <2>1. CASE h \in Known
    BY <1>1, <1>4, <2>1 DEF ListHandle, SInv, Sorted, Distinct, Bracketed
  <2>2. CASE h \notin Known
    <3>1. pc = "list" /\ pc' = "list" /\ objects' = Append(objects, h) /\ changed' = TRUE
      BY <1>4, <2>2 DEF ListHandle
    <3>2. /\ Len(objects') = Len(objects) + 1 /\ Len(objects) \in Nat
          /\ \A k \in 1 .. Len(objects) : objects'[k] = objects[k]
          /\ objects'[Len(objects) + 1] = h
      BY <1>2, <3>1, AppendProperties, LenProperties
    <3>3. \A k \in 1 .. Len(objects) : objects[k] # h
      BY <2>2 DEF Known
    <3>4. Distinct'
      <4> SUFFICES ASSUME NEW j \in 1 .. (Len(objects) + 1),
                          NEW k \in 1 .. (Len(objects) + 1), objects'[j] = objects'[k]
                   PROVE  j = k
        BY <3>2 DEF Distinct
      <4> QED BY <3>2, <3>3 DEF SInv, Distinct
    <3>5. changed'
      BY <3>1
    <3> QED BY <1>1, <3>1, <3>4, <3>5 DEF SInv, Sorted, Bracketed
  <2> QED BY <2>1, <2>2
<1>5. CASE EndListing
  <2>1. pc = "list" /\ pc' = "idle"
    BY <1>5 DEF EndListing
  <2>2. CASE ~changed /\ UNCHANGED objects
    BY <1>1, <2>1, <2>2 DEF SInv, Sorted, Distinct, Bracketed
  <2>3. ASSUME NEW p \in Shuffles, objects' = Shuffled(p),
               Sortable => Ordered(Shuffled(p))
        PROVE  SInv'
    <3>1. /\ objects' \in Seq(Handle) /\ Len(objects') = Len(objects)
          /\ \A k \in 1 .. Len(objects) : /\ p[k] \in 1 .. Len(objects)
                                          /\ objects'[k] = objects[p[k]]
      BY <1>1, <2>3, ShuffledProperties DEF TInv
    <3>2. Sortable
      <4>1. \A a \in Known : a \in Handle /\ a \in Nat
        BY <1>2, HandlesAreNumbers DEF Known
      <4> QED BY <4>1, CompareIsOrder DEF Sortable
    <3>3. \A j, k \in 1 .. Len(objects) : p[j] = p[k] => j = k
      BY DEF Shuffles, Bijection, Injection, IsInjective
    <3>4. Distinct'
      BY <3>1, <3>3 DEF Distinct, SInv
    <3>5. Increasing(objects')
      <4> SUFFICES ASSUME NEW j \in 1 .. Len(objects'), NEW k \in 1 .. Len(objects'), j < k
                   PROVE  objects'[j] < objects'[k]
        BY DEF Increasing
      <4>1. objects'[j] \in Handle /\ objects'[k] \in Handle
            /\ objects'[j] \in Nat /\ objects'[k] \in Nat /\ Len(objects') \in Nat
        BY <3>1, HandlesAreNumbers
      <4>2. Compare(objects'[j], objects'[k]) <= 0
        BY <2>3, <3>2 DEF Ordered
      <4>3. objects'[j] - objects'[k] <= 0
        BY <4>1, <4>2, CompareIsOrder
      <4>4. objects'[j] # objects'[k]
        BY <3>4, <4>1 DEF Distinct
      <4> QED BY <4>1, <4>3, <4>4
    <3> QED BY <1>1, <2>1, <3>4, <3>5 DEF SInv, Sorted, Bracketed
  <2> QED BY <1>5, <2>2, <2>3 DEF EndListing
<1> QED BY <1>3, <1>4, <1>5

LEMMA LookupStep ==
  ASSUME Near, SInv, \E h \in Handle : Find(h) \/ RemoveFromCache(h)
  PROVE  SInv'
<1>1. TInv' /\ TInv
  BY TypeStep DEF Next, SInv
<1>2. ASSUME NEW h \in Handle, Find(h)
      PROVE  SInv'
  BY <1>1, <1>2 DEF Find, SInv, Sorted, Distinct, Bracketed
<1>3. ASSUME NEW h \in Handle, RemoveFromCache(h)
      PROVE  SInv'
  <2>1. /\ pc = "idle" /\ pc' = "idle" /\ Increasing(objects)
        /\ objects \in Seq(Handle)
    BY <1>1, <1>3 DEF RemoveFromCache, SInv, Sorted, TInv, TypeOK
  <2>2. PICK i \in Hits(h) : objects' = IF i = None THEN objects ELSE Without(objects, i)
    BY <1>3 DEF RemoveFromCache
  <2>3. i = None \/ i \in 0 .. (Len(objects) - 1)
    BY DEF Hits, Indices
  <2>4. Increasing(objects') /\ objects' \in Seq(Handle)
    BY <2>1, <2>2, <2>3, SortedRemoval
  <2>5. Distinct'
    BY <2>4, IncreasingIsDistinct DEF Distinct
  <2> QED BY <1>1, <2>1, <2>4, <2>5 DEF SInv, Sorted, Bracketed
<1> QED BY <1>2, <1>3

LEMMA SortedInvariant ==
  ASSUME Near
  PROVE  Spec => []SInv
<1>1. Init => SInv
  <2> SUFFICES ASSUME Init PROVE SInv
    OBVIOUS
  <2>1. TInv
    BY TypeInit
  <2>2. objects = << >> /\ pc = "idle" /\ Len(objects) = 0
    BY DEF Init
  <2> QED BY <2>1, <2>2 DEF SInv, Sorted, Increasing, Distinct, Bracketed
<1>2. SInv /\ [Next]_vars => SInv'
  <2> SUFFICES ASSUME SInv, [Next]_vars PROVE SInv'
    OBVIOUS
  <2>1. CASE UNCHANGED vars
    <3>1. TInv'
      BY <2>1, TypeStep DEF SInv
    <3>2. Sorted' /\ Distinct' /\ (pc = "list" /\ ~changed => Increasing(objects))'
      BY <2>1 DEF vars, SInv, Sorted, Distinct
    <3>3. Bracketed' /\ (pc = "settle" => end - begin <= 1)'
      BY <2>1 DEF vars, SInv, Bracketed, Oid
    <3> QED BY <3>1, <3>2, <3>3 DEF SInv
  <2> QED BY <2>1, SearchStep, ListingStep, LookupStep DEF Next
<1> QED BY <1>1, <1>2, PTL DEF Spec

(* The array is sorted whenever no listing is going on, so that the binary *)
(* search of ptp_object_find_or_insert and bsearch() may be used on it.    *)
THEOREM ArrayIsSorted ==
  ASSUME Near
  PROVE  Spec => []Sorted
<1>1. SInv => Sorted
  BY DEF SInv
<1> QED BY <1>1, SortedInvariant, PTL

(* ptp_object_find_or_insert keeps the handle's place between begin and    *)
(* end in every iteration.                                                 *)
THEOREM SearchIsBracketed ==
  ASSUME Near
  PROVE  Spec => []Bracketed
<1>1. SInv => Bracketed
  BY DEF SInv
<1> QED BY <1>1, SortedInvariant, PTL

-----------------------------------------------------------------------------
(***************************************************************************)
(* The array is a set of handles.                                          *)
(***************************************************************************)

\* Inserting and removing, as seen by the set.
LEMMA InsertedKnown ==
  ASSUME NEW s \in Seq(Handle), NEW i \in 0 .. Len(s), NEW h \in Handle
  PROVE  {Inserted(s, i, h)[k] : k \in 1 .. Len(Inserted(s, i, h))} =
         {s[k] : k \in 1 .. Len(s)} \union {h}
<1> DEFINE t == Inserted(s, i, h)
<1>1. /\ Len(t) = Len(s) + 1 /\ Len(s) \in Nat
      /\ \A k \in 1 .. (Len(s) + 1) :
           t[k] = IF k <= i THEN s[k] ELSE IF k = i + 1 THEN h ELSE s[k - 1]
  BY InsertedProperties, LenProperties
<1> HIDE DEF t
<1>2. ASSUME NEW k \in 1 .. Len(t)
      PROVE  t[k] = h \/ \E j \in 1 .. Len(s) : t[k] = s[j]
  <2>1. k <= i \/ k = i + 1 \/ k - 1 \in 1 .. Len(s)
    BY <1>1
  <2>2. k <= i => k \in 1 .. Len(s)
    BY <1>1
  <2> QED BY <1>1, <2>1, <2>2
<1>3. ASSUME NEW j \in 1 .. Len(s)
      PROVE  \E k \in 1 .. Len(t) : t[k] = s[j]
  <2>1. CASE j <= i
    <3>1. j \in 1 .. Len(t) /\ t[j] = s[j]
      BY <1>1, <2>1
    <3> QED BY <3>1
  <2>2. CASE j > i
    <3>1. j + 1 \in 1 .. Len(t) /\ t[j + 1] = s[j]
      BY <1>1, <2>2
    <3> QED BY <3>1
  <2> QED BY <1>1, <2>1, <2>2
<1>4. i + 1 \in 1 .. Len(t) /\ t[i + 1] = h
  BY <1>1
<1>5. {t[k] : k \in 1 .. Len(t)} = {s[k] : k \in 1 .. Len(s)} \union {h}
  <2>1. {t[k] : k \in 1 .. Len(t)} \subseteq {s[k] : k \in 1 .. Len(s)} \union {h}
    BY <1>2
  <2>2. {s[k] : k \in 1 .. Len(s)} \subseteq {t[k] : k \in 1 .. Len(t)}
    BY <1>3
  <2>3. h \in {t[k] : k \in 1 .. Len(t)}
    BY <1>4
  <2> QED BY <2>1, <2>2, <2>3
<1> QED BY <1>5 DEF t

LEMMA WithoutKnown ==
  ASSUME NEW s \in Seq(Handle), NEW i \in 0 .. (Len(s) - 1),
         \A j, k \in 1 .. Len(s) : s[j] = s[k] => j = k
  PROVE  {Without(s, i)[k] : k \in 1 .. Len(Without(s, i))} =
         {s[k] : k \in 1 .. Len(s)} \ {s[i + 1]}
<1> DEFINE t == Without(s, i)
<1>1. /\ Len(t) = Len(s) - 1 /\ Len(s) \in Nat
      /\ \A k \in 1 .. (Len(s) - 1) : t[k] = IF k <= i THEN s[k] ELSE s[k + 1]
  BY WithoutProperties, LenProperties
<1> HIDE DEF t
<1>2. ASSUME NEW k \in 1 .. Len(t)
      PROVE  t[k] # s[i + 1] /\ \E j \in 1 .. Len(s) : t[k] = s[j]
  <2>1. k \in 1 .. Len(s) /\ k + 1 \in 1 .. Len(s) /\ i + 1 \in 1 .. Len(s)
    BY <1>1
  <2>2. CASE k <= i
    <3>1. t[k] = s[k] /\ k # i + 1
      BY <1>1, <2>2
    <3> QED BY <2>1, <3>1
  <2>3. CASE k > i
    <3>1. t[k] = s[k + 1] /\ k + 1 # i + 1
      BY <1>1, <2>3
    <3> QED BY <2>1, <3>1
  <2> QED BY <2>2, <2>3
<1>3. ASSUME NEW j \in 1 .. Len(s), s[j] # s[i + 1]
      PROVE  \E k \in 1 .. Len(t) : t[k] = s[j]
  <2>1. CASE j <= i
    <3>1. j \in 1 .. Len(t) /\ t[j] = s[j]
      BY <1>1, <2>1
    <3> QED BY <3>1
  <2>2. CASE j > i + 1
    <3>1. j - 1 \in 1 .. Len(t) /\ t[j - 1] = s[j]
      BY <1>1, <2>2
    <3> QED BY <3>1
  <2> QED BY <1>3, <2>1, <2>2
<1>4. {t[k] : k \in 1 .. Len(t)} = {s[k] : k \in 1 .. Len(s)} \ {s[i + 1]}
  BY <1>2, <1>3
<1> QED BY <1>4 DEF t

\* A shuffle changes nothing.
LEMMA ShuffledKnown ==
  ASSUME TypeOK, NEW p \in Shuffles
  PROVE  {Shuffled(p)[k] : k \in 1 .. Len(Shuffled(p))} = Known
<1>1. /\ Len(Shuffled(p)) = Len(objects)
      /\ \A k \in 1 .. Len(objects) : /\ p[k] \in 1 .. Len(objects)
                                      /\ Shuffled(p)[k] = objects[p[k]]
  BY ShuffledProperties
<1>2. \A j \in 1 .. Len(objects) : \E k \in 1 .. Len(objects) : p[k] = j
  BY DEF Shuffles, Bijection, Surjection
<1>3. {Shuffled(p)[k] : k \in 1 .. Len(Shuffled(p))} \subseteq Known
  BY <1>1 DEF Known
<1>4. ASSUME NEW j \in 1 .. Len(objects)
      PROVE  \E k \in 1 .. Len(Shuffled(p)) : Shuffled(p)[k] = objects[j]
  <2>1. PICK k \in 1 .. Len(objects) : p[k] = j
    BY <1>2
  <2> QED BY <1>1, <2>1
<1>5. Known \subseteq {Shuffled(p)[k] : k \in 1 .. Len(Shuffled(p))}
  BY <1>4 DEF Known
<1> QED BY <1>3, <1>5

state  == IF pc \in {"probe", "settle"} THEN "asked" ELSE "idle"
answer == IF at = None THEN 0 ELSE Oid(at)

\* The object at an index is known.
LEMMA OidIsKnown ==
  ASSUME TypeOK, NEW i \in Nat, i < Len(objects)
  PROVE  Oid(i) \in Known
<1>1. i + 1 \in 1 .. Len(objects)
  BY ObjectsAreHandles
<1> QED BY <1>1 DEF Known, Oid

LEMMA FindOrInsertRefines ==
  ASSUME SInv, Probe \/ Settle \/ \E h \in Handle : FindOrInsert(h)
  PROVE  Set!Next \/ UNCHANGED <<Known, of, handle, state, answer>>
<1>1. TInv /\ TypeOK
  BY DEF SInv, TInv
<1>2. None # 0 /\ \A i \in Nat : i # None
  BY DEF None
<1>3. ASSUME NEW h \in Handle, FindOrInsert(h)
      PROVE  Set!Next
  <2>1. pc = "idle"
    BY <1>3 DEF FindOrInsert
  <2>2. CASE objects = << >>
    <3>1. /\ objects' = <<h>> /\ at' = 0 /\ pc' = "idle"
          /\ of' = "find_or_insert" /\ handle' = h
      BY <1>3, <2>2 DEF FindOrInsert, Return, Called
    <3>2. Known = {} /\ Known' = {h} /\ answer' = h
      BY <1>2, <2>2, <3>1 DEF Known, answer, Oid
    <3> QED BY <2>1, <3>1, <3>2 DEF Set!Next, Set!Insert, Set!Called, Called, state, answer
  <2>3. CASE objects # << >>
    <3>1. /\ pc' = "probe" /\ of' = "find_or_insert" /\ handle' = h
          /\ at' = None /\ UNCHANGED objects
      BY <1>3, <2>3 DEF FindOrInsert, Called
    <3> QED BY <2>1, <3>1 DEF Set!Next, Set!Ask, Set!Called, Called, Known
  <2> QED BY <2>2, <2>3
<1>4. ASSUME pc \in {"probe", "settle"}, NEW i \in Nat, i < Len(objects),
             Oid(i) = handle, Return(i),
             UNCHANGED <<objects, of, handle>>
      PROVE  Set!Next
  <2>1. handle \in Known /\ handle \in Handle /\ of = "find_or_insert"
    BY <1>1, <1>4, OidIsKnown DEF TInv, Bounds
  <2>2. pc' = "idle" /\ at' = i /\ Known' = Known /\ Oid(i)' = handle
    BY <1>4 DEF Return, Known, Oid
  <2> QED BY <1>2, <1>4, <2>1, <2>2 DEF Set!Next, Set!Insert, Set!Called, Called, Oid
<1>5. CASE Probe
  <2>1. pc = "probe" /\ Cursor \in Nat /\ Cursor < Len(objects)
        /\ UNCHANGED <<objects, of, handle>>
    BY <1>1, <1>5, InRange DEF Probe, TInv, TypeOK, Bounds
  <2>2. CASE Oid(Cursor) = handle
    <3>1. Return(Cursor)
      BY <1>5, <2>2 DEF Probe
    <3> QED BY <1>4, <2>1, <2>2, <3>1
  <2>3. CASE Oid(Cursor) # handle
    <3>1. pc' \in {"probe", "settle"} /\ at' = at /\ at = None
      BY <1>1, <1>5, <2>1, <2>3 DEF Probe, TInv, Bounds
    <3> QED BY <2>1, <3>1 DEF Known, state, answer
  <2> QED BY <2>2, <2>3
<1>6. CASE Settle
  <2>1. /\ pc = "settle" /\ begin \in Nat /\ end \in Nat /\ begin < Len(objects)
        /\ end < Len(objects) /\ handle \in Handle /\ InsertAt \in 0 .. Len(objects)
        /\ of = "find_or_insert" /\ UNCHANGED <<of, handle>>
    BY <1>1, <1>6, InRange DEF Settle, TInv, TypeOK, Bounds
  <2>2. CASE Oid(begin) = handle
    BY <1>4, <1>6, <2>1, <2>2 DEF Settle
  <2>3. CASE Oid(begin) # handle /\ Oid(end) = handle
    BY <1>4, <1>6, <2>1, <2>3 DEF Settle
  <2>4. CASE handle \notin {Oid(begin), Oid(end)}
    <3>1. objects' = Inserted(objects, InsertAt, handle) /\ Return(InsertAt)
      BY <1>6, <2>4 DEF Settle
    <3>2. PICK i \in 0 .. Len(objects) : i = InsertAt
      BY <2>1
    <3>3. objects' = Inserted(objects, i, handle) /\ pc' = "idle" /\ at' = i /\ at' # None
      BY <1>2, <3>1, <3>2 DEF Return
    <3>4. Known' = Known \union {handle}
      <4>1. Known' = {Inserted(objects, i, handle)[k] :
                        k \in 1 .. Len(Inserted(objects, i, handle))}
        BY <3>3 DEF Known
      <4>2. objects \in Seq(Handle)
        BY <1>1 DEF TypeOK
      <4> QED BY <2>1, <4>1, <4>2, InsertedKnown DEF Known
    <3>5. objects'[at' + 1] = handle
      <4>1. Inserted(objects, i, handle)[i + 1] = handle
        BY <1>1, <2>1, InsertedElement DEF TypeOK
      <4> QED BY <3>3, <4>1
    <3> QED BY <2>1, <3>3, <3>4, <3>5 DEF Set!Next, Set!Insert, Set!Called, Called, Oid
  <2> QED BY <2>2, <2>3, <2>4
<1> QED BY <1>3, <1>5, <1>6

LEMMA LookupRefines ==
  ASSUME Near, SInv, \E h \in Handle : Find(h) \/ RemoveFromCache(h)
  PROVE  Set!Next
<1>1. TypeOK /\ Sorted /\ Distinct /\ None # 0
  BY DEF SInv, TInv, None
<1>2. \A i \in Indices : i # None /\ i \in 0 .. (Len(objects) - 1)
  BY DEF Indices, None
<1>3. ASSUME NEW h \in Handle, Find(h)
      PROVE  Set!Next
  <2>1. /\ pc = "idle" /\ pc' = "idle" /\ at' \in Hits(h) /\ objects' = objects
        /\ Known' = Known /\ of' = "find" /\ handle' = h
    BY <1>3 DEF Find, Called, Known
  <2>2. IF h \in Known THEN at' \in Indices /\ Oid(at') = h ELSE at' = None
    BY <1>1, <2>1, HitsAreRight
  <2>3. answer' = IF h \in Known THEN h ELSE 0
    BY <1>2, <2>1, <2>2 DEF answer, Oid
  <2> QED BY <2>1, <2>3 DEF Set!Next, Set!Lookup, Set!Called, answer
<1>4. ASSUME NEW h \in Handle, RemoveFromCache(h)
      PROVE  Set!Next
  <2>1. /\ pc = "idle" /\ pc' = "idle" /\ at' = None
        /\ of' = "remove" /\ handle' = h
    BY <1>4 DEF RemoveFromCache, Called
  <2>2. PICK i \in Hits(h) : objects' = IF i = None THEN objects ELSE Without(objects, i)
    BY <1>4 DEF RemoveFromCache
  <2>3. IF h \in Known THEN i \in Indices /\ Oid(i) = h ELSE i = None
    BY <1>1, <2>1, HitsAreRight
  <2>4. Known' = Known \ {h}
    <3>1. CASE h \notin Known
      BY <2>2, <2>3, <3>1 DEF Known
    <3>2. CASE h \in Known
      <4>1. /\ objects' = Without(objects, i) /\ i \in 0 .. (Len(objects) - 1)
            /\ objects[i + 1] = h /\ objects \in Seq(Handle)
        BY <1>1, <1>2, <2>2, <2>3, <3>2 DEF Oid, TypeOK
      <4>2. {Without(objects, i)[k] : k \in 1 .. Len(Without(objects, i))} =
            {objects[k] : k \in 1 .. Len(objects)} \ {objects[i + 1]}
        BY <1>1, <4>1, WithoutKnown DEF Distinct
      <4> QED BY <4>1, <4>2 DEF Known
    <3> QED BY <3>1, <3>2
  <2> QED BY <2>1, <2>4 DEF Set!Next, Set!Remove, Set!Called
<1> QED BY <1>3, <1>4

LEMMA ListingRefines ==
  ASSUME SInv, BeginListing \/ EndListing \/ \E h \in Handle : ListHandle(h)
  PROVE  Set!Next \/ UNCHANGED <<Known, of, handle, state, answer>>
<1>1. TypeOK /\ (pc = "list" => at = None) /\ (at # None => at \in Nat /\ at < Len(objects))
  BY DEF SInv, TInv, TypeOK, Bounds
<1>2. CASE BeginListing
  <2>1. pc = "idle" /\ pc' = "list" /\ at' = None /\ Called("list", 0) /\ Known' = Known
    BY <1>2 DEF BeginListing, Known
  <2> QED BY <2>1 DEF Called, Set!Next, Set!List, Set!Called
<1>3. ASSUME NEW h \in Handle, ListHandle(h)
      PROVE  Set!Next
  <2>1. /\ pc = "list" /\ pc' = "list" /\ at' = None
        /\ of' = "list" /\ handle' = h /\ 0 \notin Handle
    BY <1>1, <1>3, HandleAssumption DEF ListHandle, Called
  <2>2. Known' = Known \union {h}
    <3>1. CASE h \in Known
      BY <1>3, <3>1 DEF ListHandle, Known
    <3>2. CASE h \notin Known
      <4>1. objects' = Append(objects, h)
        BY <1>3, <3>2 DEF ListHandle
      <4>2. /\ Len(objects') = Len(objects) + 1 /\ Len(objects) \in Nat
            /\ \A k \in 1 .. Len(objects) : objects'[k] = objects[k]
            /\ objects'[Len(objects) + 1] = h
        BY <1>1, <4>1, AppendProperties, LenProperties DEF TypeOK
      <4>3. \A k \in 1 .. Len(objects') : k \in 1 .. Len(objects) \/ k = Len(objects) + 1
        BY <4>2
      <4>4. Known' \subseteq Known \union {h}
        BY <4>2, <4>3 DEF Known
      <4>5. Known \subseteq Known'
        <5> SUFFICES ASSUME NEW k \in 1 .. Len(objects)
                     PROVE  objects[k] \in Known'
          BY DEF Known
        <5>1. k \in 1 .. Len(objects')
          BY <4>2
        <5> QED BY <4>2, <5>1 DEF Known
      <4>6. h \in Known'
        <5>1. Len(objects) + 1 \in 1 .. Len(objects')
          BY <4>2
        <5> QED BY <4>2, <5>1 DEF Known
      <4> QED BY <4>4, <4>5, <4>6
    <3> QED BY <3>1, <3>2
  <2> QED BY <2>1, <2>2 DEF Set!Next, Set!List, Set!Called
<1>4. CASE EndListing
  <2>1. pc = "list" /\ pc' = "idle" /\ at = None /\ at' = None
        /\ UNCHANGED <<of, handle>>
    BY <1>1, <1>4 DEF EndListing
  <2>2. Known' = Known
    BY <1>1, <1>4, ShuffledKnown DEF EndListing, Known
  <2> QED BY <2>1, <2>2 DEF state, answer
<1> QED BY <1>2, <1>3, <1>4

(* The list of objects, with its two orders and its two binary searches,   *)
(* is a set of handles to the functions of the driver: what is asked for   *)
(* is found or added, what is removed is gone, and nothing else happens.   *)
THEOREM ArrayIsHandleSet ==
  ASSUME Near
  PROVE  Spec => IsHandleSet
<1>1. Init => Set!Init
  <2>1. Init => Known = {} /\ state = "idle" /\ answer = 0
    BY DEF Init, Known, state, answer, None
  <2> QED BY <2>1 DEF Init, Set!Init, state, answer
<1>2. SInv /\ [Next]_vars => [Set!Next]_(Set!vars)
  <2> SUFFICES ASSUME SInv, [Next]_vars
               PROVE  Set!Next \/ UNCHANGED <<Known, of, handle, state, answer>>
    BY DEF Set!vars, state, answer
  <2>1. CASE UNCHANGED vars
    BY <2>1 DEF vars, Known, state, answer, Oid
  <2> QED BY <2>1, FindOrInsertRefines, LookupRefines, ListingRefines DEF Next
<1> QED BY <1>1, <1>2, SortedInvariant, PTL DEF IsHandleSet, Spec, Set!Spec
=============================================================================

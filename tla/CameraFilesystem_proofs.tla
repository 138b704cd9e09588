---------------------- MODULE CameraFilesystem_proofs ----------------------
(***************************************************************************)
(* Proofs about the virtual filesystem of libgphoto2/gphoto2-filesys.c     *)
(* (CameraFilesystem), for any camera, names, depth and failures: the      *)
(* cells are a tree; while failures are steady nothing freed is used, and  *)
(* what is marked clean has the camera's folders; while there are none it  *)
(* has the camera's files, and the cache cannot be told from the camera    *)
(* (CameraDirectory).                                                      *)
(*                                                                         *)
(* Looking up a path lists folders on the way, and listing a folder looks  *)
(* up its path: the internal functions go down one name at a time, and     *)
(* what they preserve is shown by induction over the names of a path.      *)
(***************************************************************************)
EXTENDS CameraFilesystem, FiniteSetTheorems, SequenceTheorems, WellFoundedInduction, TLAPS

-----------------------------------------------------------------------------
(***************************************************************************)
(* Paths, and the order in which a set is gone through.                    *)
(***************************************************************************)

\* A set of natural numbers has a least: induction, for what depends on data.
LEMMA LeastNat ==
  ASSUME NEW T, T \subseteq Nat, T # {}
  PROVE  \E m \in T : \A k \in T : m <= k
<1> DEFINE R == OpToRel(<, Nat)
<1>1. IsWellFoundedOn(R, Nat)
  BY NatLessThanWellFounded
<1>2. \A x, y \in Nat : <<x, y>> \in R <=> x < y
  BY DEF OpToRel
<1> HIDE DEF R
<1>3. PICK m \in T : \A y \in T : ~ (<<y, m>> \in R)
  BY <1>1, WFMin
<1>4. ASSUME NEW k \in T
      PROVE  m <= k
  <2>1. k \in Nat /\ m \in Nat /\ ~(k < m)
    BY <1>2, <1>3
  <2> QED BY <2>1
<1> QED BY <1>4

\* The path q is longer than p and begins with it.
Deeper(p, q) == Len(p) < Len(q) /\ \A i \in 1 .. Len(p) : q[i] = p[i]

\* A path is a sequence of at most MaxDepth names.
LEMMA PathsAreSequences ==
  /\ \A p \in Path : p \in Seq(Name) /\ Len(p) \in 0 .. MaxDepth
  /\ \A p \in Seq(Name) : Len(p) <= MaxDepth => p \in Path
  /\ MaxDepth \in Nat /\ << >> \in Path /\ Len(<< >>) = 0
<1>1. Path = UNION {[1 .. m -> Name] : m \in 0 .. MaxDepth}
  BY DEF Path, BoundedSeq, SeqOf
<1>2. MaxDepth \in Nat
  BY BoundAssumption
<1>3. ASSUME NEW p \in Path
      PROVE  p \in Seq(Name) /\ Len(p) \in 0 .. MaxDepth
  <2>1. PICK m \in 0 .. MaxDepth : p \in [1 .. m -> Name]
    BY <1>1
  <2> QED BY <1>2, <2>1
<1>4. ASSUME NEW p \in Seq(Name), Len(p) <= MaxDepth
      PROVE  p \in Path
  <2>1. p \in [1 .. Len(p) -> Name] /\ Len(p) \in 0 .. MaxDepth
    BY <1>2, <1>4
  <2> QED BY <1>1, <2>1
<1>5. << >> \in Seq(Name) /\ Len(<< >>) = 0
  OBVIOUS
<1>6. << >> \in Path
  <2>1. Len(<< >>) <= MaxDepth
    BY <1>2
  <2> QED BY <1>4, <1>5, <2>1, Zenon
<1>7. \A p \in Path : p \in Seq(Name) /\ Len(p) \in 0 .. MaxDepth
  BY <1>3
<1>8. \A p \in Seq(Name) : Len(p) <= MaxDepth => p \in Path
  BY <1>4
<1> QED BY <1>2, <1>5, <1>6, <1>7, <1>8

\* A path with one more name.
LEMMA AppendPath ==
  ASSUME NEW p \in Seq(Name), NEW nm \in Name
  PROVE  /\ Append(p, nm) \in Seq(Name) /\ Len(Append(p, nm)) = Len(p) + 1
         /\ \A i \in 1 .. Len(p) : Append(p, nm)[i] = p[i]
         /\ Append(p, nm)[Len(p) + 1] = nm /\ Last(Append(p, nm)) = nm
         /\ Append(p, nm) # << >> /\ Deeper(p, Append(p, nm))
<1>1. /\ Append(p, nm) \in Seq(Name) /\ Len(Append(p, nm)) = Len(p) + 1
      /\ \A i \in 1 .. Len(p) : Append(p, nm)[i] = p[i]
      /\ Append(p, nm)[Len(p) + 1] = nm /\ Len(p) \in Nat
  BY AppendProperties, LenProperties
<1>2. Len(<< >>) = 0
  OBVIOUS
<1>3. Append(p, nm) # << >> /\ Last(Append(p, nm)) = nm
  BY <1>1, <1>2 DEF Last
<1>4. Deeper(p, Append(p, nm))
  BY <1>1 DEF Deeper
<1> QED BY <1>1, <1>3, <1>4

\* Paths are equal when their names are.
LEMMA SamePath ==
  ASSUME NEW p \in Seq(Name), NEW q \in Seq(Name), Len(p) = Len(q),
         \A i \in 1 .. Len(p) : p[i] = q[i]
  PROVE  p = q
BY SeqEqual

\* Two paths with one more name are the same path and name.
LEMMA SameAppend ==
  ASSUME NEW p \in Seq(Name), NEW q \in Seq(Name), NEW x \in Name, NEW y \in Name,
         Append(p, x) = Append(q, y)
  PROVE  p = q /\ x = y
<1>1. Len(p) = Len(q) /\ Len(p) \in Nat /\ Len(q) \in Nat
  BY AppendPath, LenProperties
<1>2. \A i \in 1 .. Len(p) : p[i] = q[i]
  BY <1>1, AppendPath
<1>3. x = y
  BY <1>1, AppendPath
<1> QED BY <1>1, <1>2, <1>3, SamePath

\* The beginning of a path, of i names.
LEMMA PathPrefix ==
  ASSUME NEW p \in Seq(Name), NEW i \in 0 .. Len(p)
  PROVE  /\ SubSeq(p, 1, i) \in Seq(Name) /\ Len(SubSeq(p, 1, i)) = i
         /\ \A k \in 1 .. i : SubSeq(p, 1, i)[k] = p[k]
         /\ i < Len(p) => Deeper(SubSeq(p, 1, i), p)
         /\ i # 0 => /\ p[i] \in Name
                     /\ SubSeq(p, 1, i) = Append(SubSeq(p, 1, i - 1), p[i])
<1>1. Len(p) \in Nat /\ i \in Nat /\ i <= Len(p)
  BY LenProperties
<1>2. ASSUME NEW j \in 0 .. Len(p)
      PROVE  /\ SubSeq(p, 1, j) \in Seq(Name) /\ Len(SubSeq(p, 1, j)) = j
             /\ \A k \in 1 .. j : SubSeq(p, 1, j)[k] = p[k]
  BY <1>1, SubSeqProperties
<1>3. i < Len(p) => Deeper(SubSeq(p, 1, i), p)
  BY <1>1, <1>2 DEF Deeper
<1>4. ASSUME i # 0
      PROVE  p[i] \in Name /\ SubSeq(p, 1, i) = Append(SubSeq(p, 1, i - 1), p[i])
  <2>1. p[i] \in Name /\ i - 1 \in 0 .. Len(p)
    BY <1>1, <1>4
  <2> DEFINE q == Append(SubSeq(p, 1, i - 1), p[i])
  <2>2. /\ SubSeq(p, 1, i - 1) \in Seq(Name) /\ Len(SubSeq(p, 1, i - 1)) = i - 1
        /\ \A k \in 1 .. i - 1 : SubSeq(p, 1, i - 1)[k] = p[k]
    BY <1>2, <2>1
  <2>3. /\ q \in Seq(Name) /\ Len(q) = (i - 1) + 1 /\ q[(i - 1) + 1] = p[i]
        /\ \A k \in 1 .. i - 1 : q[k] = SubSeq(p, 1, i - 1)[k]
    BY <2>1, <2>2, AppendPath
  <2>4. Len(q) = Len(SubSeq(p, 1, i)) /\ \A k \in 1 .. Len(q) : q[k] = SubSeq(p, 1, i)[k]
    <3> HIDE DEF q
    <3> QED BY <1>1, <1>2, <2>2, <2>3
  <2> HIDE DEF q
  <2>5. SubSeq(p, 1, i) = q
    BY <1>2, <2>3, <2>4, SamePath
  <2> QED BY <2>1, <2>5 DEF q
<1> QED BY <1>2, <1>3, <1>4

\* All of a path, and none of it.
LEMMA WholePath ==
  ASSUME NEW p \in Seq(Name)
  PROVE  SubSeq(p, 1, Len(p)) = p /\ SubSeq(p, 1, 0) = << >>
<1>1. Len(p) \in 0 .. Len(p) /\ 0 \in 0 .. Len(p)
  BY LenProperties
<1>2. SubSeq(p, 1, Len(p)) = p
  BY <1>1, PathPrefix, SamePath
<1>3. SubSeq(p, 1, 0) \in Seq(Name) /\ Len(SubSeq(p, 1, 0)) = 0
  BY <1>1, PathPrefix
<1> QED BY <1>2, <1>3, EmptySeq

\* What is below a path is below the beginnings of the path, and is not the path.
LEMMA DeeperIsAnOrder ==
  ASSUME NEW p \in Seq(Name), NEW q \in Seq(Name), NEW r \in Seq(Name), Deeper(q, r)
  PROVE  /\ q # r /\ ~ Deeper(r, q) /\ ~ Deeper(q, q)
         /\ Deeper(p, q) => Deeper(p, r)
<1>1. Len(p) \in Nat /\ Len(q) \in Nat /\ Len(r) \in Nat
  BY LenProperties
<1> QED BY <1>1 DEF Deeper

\* A folder below q is q's subfolder, or below one.
LEMMA DeeperAppend ==
  ASSUME NEW p \in Seq(Name), NEW q \in Seq(Name), NEW nm \in Name
  PROVE  Deeper(p, Append(q, nm)) <=> p = q \/ Deeper(p, q)
<1>1. Len(p) \in Nat /\ Len(q) \in Nat
  BY LenProperties
<1>2. /\ Append(q, nm) \in Seq(Name) /\ Len(Append(q, nm)) = Len(q) + 1
      /\ \A i \in 1 .. Len(q) : Append(q, nm)[i] = q[i]
  BY AppendPath
<1>3. ASSUME Deeper(p, Append(q, nm)), ~ Deeper(p, q)
      PROVE  p = q
  <2>1. Len(p) < Len(q) + 1 /\ \A i \in 1 .. Len(p) : p[i] = q[i]
    BY <1>1, <1>2, <1>3 DEF Deeper
  <2>2. Len(p) = Len(q)
    BY <1>1, <1>3, <2>1 DEF Deeper
  <2> QED BY <2>1, <2>2, SamePath
<1>4. ASSUME p = q \/ Deeper(p, q)
      PROVE  Deeper(p, Append(q, nm))
  BY <1>1, <1>2, <1>4 DEF Deeper
<1> QED BY <1>3, <1>4

\* The sequence of a finite set has each element once.
LEMMA ListOfSet ==
  ASSUME NEW S, IsFiniteSet(S)
  PROVE  /\ SetToSeq(S) \in Seq(S) /\ Len(SetToSeq(S)) \in Nat
         /\ \A i, j \in 1 .. Len(SetToSeq(S)) :
              SetToSeq(S)[i] = SetToSeq(S)[j] => i = j
         /\ \A x \in S : \E i \in 1 .. Len(SetToSeq(S)) : SetToSeq(S)[i] = x
<1> DEFINE n == Cardinality(S)
           D == 1 .. n
           q == SetToSeq(S)
<1>1. n \in Nat /\ \E f \in Bijection(D, S) : TRUE
  BY FS_CardinalityType DEF ExistsBijection
<1>2. \E f \in [D -> S] : IsInjective(f)
  BY <1>1 DEF Bijection, Injection
<1>3. q \in [D -> S] /\ IsInjective(q)
  BY <1>2 DEF SetToSeq
<1>4. IsFiniteSet(D) /\ Cardinality(D) = n
  <2>1. Cardinality(D) = IF 1 > n THEN 0 ELSE n - 1 + 1
    BY <1>1, FS_Interval
  <2>2. IsFiniteSet(D)
    BY <1>1, FS_Interval
  <2> QED BY <1>1, <2>1, <2>2
<1>5. q \in Surjection(D, S)
  BY <1>3, <1>4, FS_Injection DEF Injection
<1>6. Len(q) = n /\ q \in Seq(S)
  BY <1>1, <1>3
<1>7. \A i, j \in D : q[i] = q[j] => i = j
  BY <1>3 DEF IsInjective
<1>8. \A x \in S : \E i \in D : q[i] = x
  BY <1>5 DEF Surjection
<1> QED BY <1>1, <1>6, <1>7, <1>8

-----------------------------------------------------------------------------
(***************************************************************************)
(* The tree of folder cells.                                               *)
(***************************************************************************)

\* The part of TreeIsSound that is about the cells.
IsTree(c) ==
  /\ c \in Seq(Folder) /\ Len(c) >= Root
  /\ c[Root].path = << >> /\ c[Root].parent = NULL
  /\ \A n \in Cells(c) \ {Root} :
       /\ c[n].parent \in Cells(c)
       /\ \E nm \in Name : c[n].path = Append(c[c[n].parent].path, nm)
  /\ \A m, n \in Cells(c) : c[m].path = c[n].path => m = n

\* There is a cell for the path q.
Has(c, q) == \E n \in Cells(c) : c[n].path = q

\* The cells of a tree are folders, among them the root folder.
LEMMA CellFacts ==
  ASSUME NEW c, IsTree(c)
  PROVE  /\ Root \in Cells(c) /\ NULL \notin Cells(c) /\ Len(c) \in Nat
         /\ \A n \in Cells(c) : /\ n \in Nat /\ n \in 1 .. Len(c) /\ c[n] \in Folder
                                /\ c[n].path \in Path /\ c[n].path \in Seq(Name)
<1>1. c \in Seq(Folder) /\ Len(c) \in Nat /\ Len(c) >= 1
  BY LenProperties DEF IsTree, Root
<1>2. \A n \in 1 .. Len(c) : c[n] \in Folder
  BY <1>1
<1>3. \A f \in Folder : f.path \in Path
  BY DEF Folder
<1>4. Root \in Cells(c) /\ NULL \notin Cells(c)
  BY <1>1 DEF Cells, Root, NULL
<1>5. \A n \in Cells(c) : n \in Nat /\ n \in 1 .. Len(c)
  BY <1>1 DEF Cells
<1> QED BY <1>1, <1>2, <1>3, <1>4, <1>5, PathsAreSequences

\* A folder that has a parent has its path and one more name.
LEMMA ParentFacts ==
  ASSUME NEW c, IsTree(c), NEW n \in Cells(c) \ {Root}
  PROVE  /\ c[n].parent \in Cells(c) /\ c[n].parent # NULL
         /\ Last(c[n].path) \in Name /\ c[n].path # << >>
         /\ c[n].path = Append(c[c[n].parent].path, Last(c[n].path))
<1>1. c[n].parent \in Cells(c)
  BY DEF IsTree
<1>2. PICK nm \in Name : c[n].path = Append(c[c[n].parent].path, nm)
  BY DEF IsTree
<1>3. c[c[n].parent].path \in Seq(Name) /\ NULL \notin Cells(c)
  BY <1>1, CellFacts
<1> DEFINE p == c[c[n].parent].path
<1>4. p \in Seq(Name) /\ c[n].path = Append(p, nm)
  BY <1>2, <1>3
<1> HIDE DEF p
<1>5. Last(c[n].path) = nm /\ c[n].path # << >>
  BY <1>4, AppendPath
<1> QED BY <1>1, <1>3, <1>4, <1>5 DEF p

\* A cell with the path of a subfolder is a child.
LEMMA KidFacts ==
  ASSUME NEW c, IsTree(c), NEW n \in Cells(c), NEW k \in Cells(c), NEW nm \in Name,
         c[k].path = Append(c[n].path, nm)
  PROVE  k # Root /\ c[k].parent = n /\ Last(c[k].path) = nm /\ k # n
<1>1. c[n].path \in Seq(Name)
  BY CellFacts
<1>2. Last(c[k].path) = nm /\ c[k].path # << >> /\ Deeper(c[n].path, c[k].path)
  BY <1>1, AppendPath
<1>3. k # Root /\ k # n
  BY <1>1, <1>2, DeeperIsAnOrder DEF IsTree
<1>4. /\ c[k].parent \in Cells(c) /\ c[c[k].parent].path \in Seq(Name)
      /\ c[k].path = Append(c[c[k].parent].path, Last(c[k].path))
  BY <1>3, ParentFacts, CellFacts
<1>5. c[c[k].parent].path = c[n].path
  <2> DEFINE p == c[c[k].parent].path
             q == c[n].path
  <2>1. /\ p \in Seq(Name) /\ q \in Seq(Name)
        /\ Append(p, Last(c[k].path)) = Append(q, nm) /\ Last(c[k].path) \in Name
    BY <1>1, <1>2, <1>4
  <2> HIDE DEF p, q
  <2>2. p = q
    BY <2>1, SameAppend
  <2> QED BY <2>2 DEF p, q
<1> QED BY <1>2, <1>3, <1>4, <1>5 DEF IsTree

\* Every beginning of a cell's path has a cell.
LEMMA AncestorFacts ==
  ASSUME NEW c, IsTree(c), NEW q \in Seq(Name), NEW n \in Cells(c),
         Deeper(q, c[n].path)
  PROVE  Has(c, q)
<1> DEFINE T == {Len(c[m].path) : m \in {m \in Cells(c) : Deeper(q, c[m].path)}}
<1>1. SUFFICES ASSUME ~ Has(c, q)
               PROVE  FALSE
  OBVIOUS
<1>2. T \subseteq Nat
  BY CellFacts, LenProperties
<1>3. T # {}
  OBVIOUS
<1>4. PICK l \in T : \A k \in T : l <= k
  <2> HIDE DEF T
  <2> QED BY <1>2, <1>3, LeastNat
<1>5. PICK m \in Cells(c) : Deeper(q, c[m].path) /\ l = Len(c[m].path)
  BY <1>4
<1>6. m # Root
  <2>1. Len(q) \in Nat /\ Len(<< >>) = 0
    BY LenProperties
  <2> QED BY <1>5, <2>1 DEF Deeper, IsTree
<1> DEFINE k == c[m].parent
<1>7. /\ k \in Cells(c) /\ c[k].path \in Seq(Name) /\ Last(c[m].path) \in Name
      /\ c[m].path = Append(c[k].path, Last(c[m].path))
  BY <1>6, ParentFacts, CellFacts
<1>8. q = c[k].path \/ Deeper(q, c[k].path)
  BY <1>5, <1>7, DeeperAppend
<1>9. CASE q = c[k].path
  BY <1>1, <1>7, <1>9 DEF Has
<1>10. CASE Deeper(q, c[k].path)
  <2>1. Len(c[k].path) \in T
    BY <1>7, <1>10
  <2>2. Len(c[m].path) = Len(c[k].path) + 1 /\ Len(c[k].path) \in Nat
    BY <1>7, AppendPath, LenProperties
  <2> HIDE DEF T, k
  <2> QED BY <1>4, <1>5, <2>1, <2>2
<1> QED BY <1>8, <1>9, <1>10

\* Without a folder there is nothing below it.
LEMMA NothingDeeper ==
  ASSUME NEW c, IsTree(c), NEW q \in Seq(Name), ~ Has(c, q)
  PROVE  \A n \in Cells(c) : ~ Deeper(q, c[n].path) /\ c[n].path # q
BY AncestorFacts DEF Has

\* lookup_folder finds the child of a name, if there is one.
LEMMA ChildFacts ==
  ASSUME NEW s, IsTree(s.cache), NEW n \in Cells(s.cache), NEW nm \in Name
  PROVE  LET k == Child(s, n, nm)
             q == Append(s.cache[n].path, nm)
         IN /\ k # NULL => k \in Cells(s.cache) /\ s.cache[k].path = q
            /\ Has(s.cache, q) => k # NULL
<1> DEFINE c == s.cache
           q == Append(c[n].path, nm)
           K == {m \in Kids(s, n) : NameOf(s, m) = nm}
<1>1. Child(s, n, nm) = IF K = {} THEN NULL ELSE CHOOSE m \in K : TRUE
  BY DEF Child
<1>2. ASSUME NEW m \in K
      PROVE  m \in Cells(c) /\ c[m].path = q
  <2>1. m \in Cells(c) /\ c[m].parent = n /\ Last(c[m].path) = nm
    BY DEF Kids, NameOf
  <2>2. n # NULL
    BY CellFacts
  <2>3. m # Root
    BY <2>1, <2>2 DEF IsTree
  <2> QED BY <2>1, <2>3, ParentFacts
<1>3. ASSUME NEW m \in Cells(c), c[m].path = q
      PROVE  m \in K
  BY <1>3, KidFacts DEF Kids, NameOf
<1>4. Has(c, q) => K # {}
  <2> HIDE DEF K, q, c
  <2> QED BY <1>3 DEF Has
<1>5. K # {} => Child(s, n, nm) \in K
  <2> HIDE DEF K
  <2> QED BY <1>1
<1>6. NULL \notin Cells(c)
  BY CellFacts
<1> HIDE DEF K, q, c
<1>7. /\ Child(s, n, nm) # NULL =>
           Child(s, n, nm) \in Cells(c) /\ c[Child(s, n, nm)].path = q
      /\ Has(c, q) => Child(s, n, nm) # NULL
  BY <1>1, <1>2, <1>4, <1>5, <1>6
<1> QED BY <1>7 DEF c, q

-----------------------------------------------------------------------------
(***************************************************************************)
(* The record of an operation, and the steps on its cells.                 *)
(***************************************************************************)

Cameras == {cam \in UNION {[D -> SUBSET FileName] : D \in SUBSET Path} : IsCamera(cam)}

\* The set of the cameras, against the predicate.
LEMMA CamerasAreCameras ==
  \A cam : cam \in Cameras <=> IsCamera(cam)
<1>1. ASSUME NEW cam, IsCamera(cam)
      PROVE  cam \in UNION {[D -> SUBSET FileName] : D \in SUBSET Path}
  <2>1. Dirs(cam) \in SUBSET Path /\ cam \in [Dirs(cam) -> SUBSET FileName]
    BY <1>1 DEF IsCamera, Dirs
  <2> QED BY <2>1
<1> QED BY <1>1 DEF Cameras

Progress == [camera : Cameras, cache : Seq(Folder), calls : 0 .. MaxCalls,
             bad : SUBSET (1 .. MaxCalls), freed : SUBSET Nat, stale : BOOLEAN]

\* The cells are a tree, of folders that the camera has, and apart from what the
\* operation has freed.
Heap(s) ==
  /\ s \in Progress /\ IsTree(s.cache)
  /\ s.freed \subseteq 1 .. Len(s.cache) /\ s.freed \intersect Cells(s.cache) = {}
  /\ \A n \in Cells(s.cache) : s.cache[n].path \in Dirs(s.camera)

\* The records that a lookup may pass on are records of an operation.
LEMMA RecordsAreProgress ==
  ASSUME NEW s \in Progress
  PROVE  /\ s \in Records(s) /\ Records(s) \subseteq Progress
         /\ \A t \in Records(s) : Records(t) = Records(s)
BY DEF Progress, Records

\* The fields of the record of an operation.
LEMMA ProgressFacts ==
  ASSUME NEW s \in Progress
  PROVE  /\ s.camera \in Cameras /\ IsCamera(s.camera) /\ s.cache \in Seq(Folder)
         /\ s.calls \in 0 .. MaxCalls /\ s.bad \subseteq 1 .. MaxCalls
         /\ s.freed \subseteq Nat /\ s.stale \in BOOLEAN
BY CamerasAreCameras DEF Progress

\* delete_folder, of cells and all that hangs below them.
LEMMA ReleaseFacts ==
  ASSUME NEW s, Heap(s), NEW M, M \subseteq Cells(s.cache), Root \notin M,
         \A m \in Cells(s.cache) : s.cache[m].parent \in M => m \in M
  PROVE  LET t == Release(s, M)
         IN /\ Heap(t) /\ t \in Records(s) /\ t.calls = s.calls /\ t.stale = s.stale
            /\ t.freed = s.freed \union M
            /\ Cells(t.cache) = Cells(s.cache) \ M
            /\ \A n \in Cells(t.cache) : t.cache[n] = s.cache[n]
<1> DEFINE t == Release(s, M)
           c == s.cache
           d == [n \in 1 .. Len(c) |-> IF n \in M THEN Free ELSE c[n]]
<1>1. s \in Progress /\ IsTree(c) /\ c \in Seq(Folder) /\ Len(c) \in Nat
  BY LenProperties DEF Heap, IsTree
<1>2. t = [s EXCEPT !.cache = d, !.freed = s.freed \union M]
  BY <1>1 DEF Release, Progress
<1>3. Free \in Folder /\ Free.parent = NULL
  BY PathsAreSequences DEF Free, Folder, NULL
<1>4. \A n \in 1 .. Len(c) : d[n] \in Folder
  BY <1>1, <1>3
<1>5. d \in Seq(Folder) /\ Len(d) = Len(c)
  <2>1. d \in [1 .. Len(c) -> Folder]
    BY <1>4
  <2> HIDE DEF d
  <2> QED BY <1>1, <2>1
<1>6. M \subseteq Nat /\ M \subseteq 1 .. Len(c)
  BY <1>1, CellFacts
<1>7. /\ t.cache = d /\ t.freed = s.freed \union M /\ t.camera = s.camera
      /\ t.calls = s.calls /\ t.stale = s.stale /\ t.bad = s.bad
  BY <1>1, <1>2 DEF Progress
<1>8. t \in Progress /\ t \in Records(s)
  <2> HIDE DEF d
  <2> QED BY <1>1, <1>2, <1>5, <1>6 DEF Progress, Records
<1>9. Cells(d) = Cells(c) \ M
  BY <1>3, <1>5 DEF Cells
<1>10. \A n \in Cells(d) : n \in 1 .. Len(c) /\ n \notin M /\ n \in Cells(c) /\ d[n] = c[n]
  BY <1>1, <1>5, <1>9 DEF Cells
<1> HIDE DEF t, d, c
<1>11. IsTree(d)
  <2>1. Root \in Cells(d) /\ d[Root] = c[Root] /\ c[Root].path = << >>
        /\ c[Root].parent = NULL /\ Len(d) >= Root
    BY <1>1, <1>5, <1>9, <1>10, CellFacts DEF IsTree
  <2>2. ASSUME NEW n \in Cells(d) \ {Root}
        PROVE  /\ d[n].parent \in Cells(d)
               /\ \E nm \in Name : d[n].path = Append(d[d[n].parent].path, nm)
    <3>1. n \in Cells(c) \ {Root} /\ n \notin M /\ d[n] = c[n]
      BY <1>10
    <3>2. /\ c[n].parent \in Cells(c)
          /\ \E nm \in Name : c[n].path = Append(c[c[n].parent].path, nm)
      BY <1>1, <3>1 DEF IsTree
    <3>3. c[n].parent \notin M
      BY <3>1 DEF c
    <3>4. c[n].parent \in Cells(d) /\ d[c[n].parent] = c[c[n].parent]
      BY <1>9, <1>10, <3>2, <3>3
    <3> QED BY <3>1, <3>2, <3>4
  <2>3. \A m, n \in Cells(d) : d[m].path = d[n].path => m = n
    BY <1>1, <1>10 DEF IsTree
  <2> QED BY <1>5, <2>1, <2>2, <2>3 DEF IsTree
<1>12. Heap(t)
  <2>1. t.freed \subseteq 1 .. Len(t.cache) /\ t.freed \intersect Cells(t.cache) = {}
    BY <1>5, <1>6, <1>7, <1>9 DEF Heap, c
  <2>2. \A n \in Cells(t.cache) : t.cache[n].path \in Dirs(t.camera)
    BY <1>7, <1>10 DEF Heap, c
  <2> QED BY <1>7, <1>8, <1>11, <2>1, <2>2 DEF Heap
<1> QED BY <1>7, <1>8, <1>9, <1>10, <1>12 DEF t, c

\* The new cell is none that there is, or that the operation has freed.
LEMMA AppendOneFacts ==
  ASSUME NEW s, Heap(s), NEW n \in Cells(s.cache), NEW nm \in Name,
         Append(s.cache[n].path, nm) \in Dirs(s.camera),
         ~ Has(s.cache, Append(s.cache[n].path, nm))
  PROVE  LET t == AppendFolderOne(s, n, nm)
         IN /\ Heap(t) /\ t \in Records(s)
            /\ t.calls = s.calls /\ t.stale = s.stale /\ t.freed = s.freed
            /\ \E m \in Nat :
                 /\ m \notin Cells(s.cache) /\ Cells(t.cache) = Cells(s.cache) \union {m}
                 /\ t.cache[m] = NewFolder(n, Append(s.cache[n].path, nm))
            /\ \A k \in Cells(s.cache) : t.cache[k] = s.cache[k]
<1> DEFINE t == AppendFolderOne(s, n, nm)
           c == s.cache
           q == Append(c[n].path, nm)
           f == NewFolder(n, q)
           m == CHOOSE m \in 1 .. Len(c) + 1 : m \notin Cells(c) \union s.freed
           d == IF m \in 1 .. Len(c) THEN [c EXCEPT ![m] = f] ELSE Append(c, f)
<1>1. s \in Progress /\ IsTree(c) /\ c \in Seq(Folder) /\ Len(c) \in Nat /\ Len(c) >= 1
  BY LenProperties DEF Heap, IsTree, Root
<1>2. t = [s EXCEPT !.cache = d]
  BY DEF AppendFolderOne
<1>3. m \in 1 .. Len(c) + 1 /\ m \notin Cells(c) /\ m \notin s.freed
  <2>1. Len(c) + 1 \notin Cells(c) /\ Len(c) + 1 \notin s.freed
    BY <1>1 DEF Cells, Heap
  <2>2. Len(c) + 1 \in 1 .. Len(c) + 1
    BY <1>1
  <2> QED BY <2>1, <2>2
<1>4. q \in Path /\ n \in Nat /\ n \in 1 .. Len(c) /\ n # NULL
  BY <1>1, CellFacts, ProgressFacts DEF IsCamera
<1> HIDE DEF m, q
<1>5. f \in Folder /\ f.path = q /\ f.parent = n
  BY <1>4 DEF NewFolder, Folder
<1> HIDE DEF f
<1>6. /\ d \in Seq(Folder) /\ Len(d) >= Len(c) /\ Len(d) \in Nat /\ m \in 1 .. Len(d)
      /\ d[m] = f /\ \A k \in 1 .. Len(d) : k # m => k \in 1 .. Len(c) /\ d[k] = c[k]
  <2>1. CASE m \in 1 .. Len(c)
    <3>1. d \in [1 .. Len(c) -> Folder] /\ d = [c EXCEPT ![m] = f]
      BY <1>1, <1>5, <2>1
    <3>2. d \in Seq(Folder) /\ Len(d) = Len(c)
      BY <1>1, <3>1
    <3> QED BY <1>1, <2>1, <3>1, <3>2
  <2>2. CASE m \notin 1 .. Len(c)
    <3>1. m = Len(c) + 1 /\ d = Append(c, f)
      BY <1>1, <1>3, <2>2
    <3>2. /\ d \in Seq(Folder) /\ Len(d) = Len(c) + 1 /\ d[Len(c) + 1] = f
          /\ \A k \in 1 .. Len(c) : d[k] = c[k]
      BY <1>1, <1>5, <3>1, AppendProperties
    <3> QED BY <1>1, <3>1, <3>2
  <2> QED BY <2>1, <2>2
<1> HIDE DEF d
<1>7. /\ t.cache = d /\ t.freed = s.freed /\ t.camera = s.camera
      /\ t.calls = s.calls /\ t.stale = s.stale /\ t.bad = s.bad
      /\ t \in Progress /\ t \in Records(s)
  BY <1>1, <1>2, <1>6 DEF Progress, Records
<1> HIDE DEF t
<1>8. m # Root /\ Root \in Cells(c)
  BY <1>1, <1>3, CellFacts
<1>9. Cells(d) = Cells(c) \union {m} /\ \A k \in Cells(c) : d[k] = c[k]
  <2>1. \A k \in Cells(c) : k # m /\ k \in 1 .. Len(d)
    BY <1>1, <1>3, <1>6, CellFacts
  <2> QED BY <1>4, <1>5, <1>6, <2>1 DEF Cells
<1>10. IsTree(d)
  <2>1. d[Root].path = << >> /\ d[Root].parent = NULL /\ Len(d) >= Root
    BY <1>1, <1>6, <1>8, <1>9 DEF IsTree, Root
  <2>2. ASSUME NEW k \in Cells(d) \ {Root}
        PROVE  /\ d[k].parent \in Cells(d)
               /\ \E x \in Name : d[k].path = Append(d[d[k].parent].path, x)
    <3>1. CASE k = m
      BY <1>5, <1>6, <1>9, <3>1 DEF q
    <3>2. CASE k # m
      <4>1. k \in Cells(c) \ {Root} /\ d[k] = c[k]
        BY <1>9, <3>2
      <4>2. /\ c[k].parent \in Cells(c)
            /\ \E x \in Name : c[k].path = Append(c[c[k].parent].path, x)
        BY <1>1, <4>1 DEF IsTree
      <4> QED BY <1>9, <4>1, <4>2
    <3> QED BY <3>1, <3>2
  <2>3. ASSUME NEW x \in Cells(d), NEW y \in Cells(d), d[x].path = d[y].path
        PROVE  x = y
    <3>1. ~ Has(c, q)
      BY DEF c, q
    <3>2. \A k \in Cells(c) : d[k] = c[k] /\ c[k].path # q
      BY <1>9, <3>1 DEF Has
    <3> QED BY <1>1, <1>5, <1>6, <1>9, <2>3, <3>2 DEF IsTree
  <2> QED BY <1>6, <2>1, <2>2, <2>3 DEF IsTree
<1>11. Heap(t)
  <2>1. t.freed \subseteq 1 .. Len(d) /\ t.freed \intersect Cells(d) = {}
    BY <1>1, <1>3, <1>6, <1>7, <1>9 DEF Heap, c
  <2>2. \A k \in Cells(d) : d[k].path \in Dirs(t.camera)
    BY <1>5, <1>6, <1>7, <1>9 DEF Heap, c, q
  <2> QED BY <1>7, <1>10, <2>1, <2>2 DEF Heap
<1>12. \E x \in Nat : /\ x \notin Cells(c) /\ Cells(t.cache) = Cells(c) \union {x}
                      /\ t.cache[x] = NewFolder(n, q)
  <2>1. m \in Nat
    BY <1>1, <1>3
  <2> QED BY <1>3, <1>6, <1>7, <1>9, <2>1 DEF f
<1> QED BY <1>7, <1>9, <1>11, <1>12 DEF t, c, q

\* A change of flags or files leaves the tree as it is.
LEMMA SameTree ==
  ASSUME NEW s, Heap(s), NEW t \in Progress, t.freed = s.freed,
         Len(t.cache) = Len(s.cache),
         \A n \in 1 .. Len(s.cache) : /\ t.cache[n].path = s.cache[n].path
                                      /\ t.cache[n].parent = s.cache[n].parent,
         \A n \in Cells(s.cache) : s.cache[n].path \in Dirs(t.camera)
  PROVE  Heap(t) /\ Cells(t.cache) = Cells(s.cache)
<1> DEFINE c == s.cache
           d == t.cache
<1>1. IsTree(c) /\ d \in Seq(Folder)
  BY ProgressFacts DEF Heap
<1>2. Cells(d) = Cells(c)
  BY DEF Cells
<1>3. /\ \A n \in Cells(c) : d[n].path = c[n].path /\ d[n].parent = c[n].parent
      /\ Root \in Cells(c)
  BY <1>1, CellFacts
<1>4. IsTree(d)
  <2> HIDE DEF c, d
  <2>1. Len(d) = Len(c)
    BY DEF c, d
  <2>2. IsTree(c)
    BY <1>1
  <2>3. ASSUME NEW n \in Cells(d) \ {Root}
        PROVE  /\ d[n].parent \in Cells(d)
               /\ \E nm \in Name : d[n].path = Append(d[d[n].parent].path, nm)
    <3>1. n \in Cells(c) \ {Root} /\ d[n].path = c[n].path /\ d[n].parent = c[n].parent
      BY <1>2, <1>3
    <3>2. PICK nm \in Name : c[n].path = Append(c[c[n].parent].path, nm)
      BY <2>2, <3>1 DEF IsTree
    <3>3. c[n].parent \in Cells(c)
      BY <2>2, <3>1 DEF IsTree
    <3>4. d[c[n].parent].path = c[c[n].parent].path
      BY <1>3, <3>3
    <3> QED BY <1>2, <3>1, <3>2, <3>3, <3>4
  <2>4. \A m, n \in Cells(d) : d[m].path = d[n].path => m = n
    BY <1>2, <1>3, <2>2 DEF IsTree
  <2>5. d[Root].path = << >> /\ d[Root].parent = NULL
    BY <1>3, <2>2 DEF IsTree
  <2>6. Len(d) >= Root
    BY <2>1, <2>2 DEF IsTree
  <2> QED BY <1>1, <2>3, <2>4, <2>5, <2>6 DEF IsTree
<1>5. t.freed \subseteq 1 .. Len(d) /\ t.freed \intersect Cells(d) = {}
  BY <1>2 DEF Heap
<1>6. \A n \in Cells(d) : d[n].path \in Dirs(t.camera)
  BY <1>2, <1>3
<1> QED BY <1>2, <1>4, <1>5, <1>6 DEF Heap

\* What is below a folder.
LEMMA BelowFacts ==
  ASSUME NEW s, IsTree(s.cache), NEW n \in Cells(s.cache)
  PROVE  /\ Below(s, n) \subseteq Cells(s.cache)
         /\ Root \notin Below(s, n) /\ n \notin Below(s, n)
         /\ \A m \in Cells(s.cache) :
              s.cache[m].parent \in Below(s, n) \union {n} => m \in Below(s, n)
         /\ \A m \in Below(s, n) : Deeper(s.cache[n].path, s.cache[m].path)
<1> DEFINE c == s.cache
           Closed(M) == Kids(s, n) \subseteq M /\ (\A x \in M : Kids(s, x) \subseteq M)
           D == {m \in Cells(c) : Deeper(c[n].path, c[m].path)}
<1>1. Below(s, n) = {m \in Cells(c) : \A M \in SUBSET Cells(c) : Closed(M) => m \in M}
  BY DEF Below
<1>2. ASSUME NEW m \in Cells(c), c[m].parent \in Below(s, n) \union {n}
      PROVE  m \in Below(s, n)
  <2>1. m \in Kids(s, c[m].parent)
    BY DEF Kids
  <2>2. ASSUME NEW M \in SUBSET Cells(c), Closed(M)
        PROVE  m \in M
    <3>1. CASE c[m].parent = n
      BY <2>1, <2>2, <3>1
    <3>2. CASE c[m].parent \in Below(s, n)
      <4>1. c[m].parent \in M
        BY <1>1, <2>2, <3>2
      <4> QED BY <2>1, <2>2, <4>1
    <3> QED BY <1>2, <3>1, <3>2
  <2> HIDE DEF Closed
  <2> QED BY <1>1, <2>2
<1>3. Closed(D)
  <2>1. ASSUME NEW x \in Cells(c), x = n \/ Deeper(c[n].path, c[x].path), NEW k \in Kids(s, x)
        PROVE  k \in D
    <3>1. k \in Cells(c) /\ c[k].parent = x /\ x # NULL
      BY CellFacts DEF Kids
    <3>2. k \in Cells(c) \ {Root}
      BY <3>1 DEF IsTree
    <3>3. /\ c[n].path \in Seq(Name) /\ c[x].path \in Seq(Name)
          /\ Last(c[k].path) \in Name /\ c[k].path = Append(c[x].path, Last(c[k].path))
      BY <3>1, <3>2, ParentFacts, CellFacts
    <3>4. c[n].path = c[x].path \/ Deeper(c[n].path, c[x].path)
      BY <2>1
    <3>5. Deeper(c[n].path, c[k].path)
      BY <3>3, <3>4, DeeperAppend
    <3> QED BY <3>1, <3>5
  <2>2. Kids(s, n) \subseteq D
    BY <2>1
  <2>3. \A x \in D : Kids(s, x) \subseteq D
    BY <2>1
  <2> QED BY <2>2, <2>3
<1>4. Below(s, n) \subseteq D
  <2>1. D \in SUBSET Cells(c)
    OBVIOUS
  <2> HIDE DEF D, Closed
  <2> QED BY <1>1, <1>3, <2>1
<1>5. n \notin D
  <2>1. c[n].path \in Seq(Name)
    BY CellFacts
  <2> QED BY <2>1, DeeperIsAnOrder
<1>6. Root \notin D
  <2>1. Len(c[n].path) \in Nat /\ Len(<< >>) = 0
    BY CellFacts, LenProperties
  <2> QED BY <2>1 DEF Deeper, IsTree
<1> QED BY <1>2, <1>4, <1>5, <1>6

\* delete_all_folders: all that is below a folder goes.
LEMMA EmptyFacts ==
  ASSUME NEW s, Heap(s), NEW n \in Cells(s.cache)
  PROVE  LET t == Release(s, Below(s, n))
         IN /\ Heap(t) /\ t \in Records(s) /\ t.calls = s.calls /\ t.stale = s.stale
            /\ t.freed = s.freed \union Below(s, n)
            /\ Cells(t.cache) = Cells(s.cache) \ Below(s, n) /\ n \in Cells(t.cache)
            /\ \A k \in Cells(t.cache) : t.cache[k] = s.cache[k]
            /\ \A nm \in Name : ~ Has(t.cache, Append(s.cache[n].path, nm))
<1> DEFINE t == Release(s, Below(s, n))
           c == s.cache
<1>1. IsTree(c)
  BY DEF Heap
<1>2. /\ Below(s, n) \subseteq Cells(c) /\ Root \notin Below(s, n) /\ n \notin Below(s, n)
      /\ \A m \in Cells(c) : c[m].parent \in Below(s, n) \union {n} => m \in Below(s, n)
  BY <1>1, BelowFacts
<1>3. /\ Heap(t) /\ t \in Records(s) /\ t.calls = s.calls /\ t.stale = s.stale
      /\ t.freed = s.freed \union Below(s, n)
      /\ Cells(t.cache) = Cells(c) \ Below(s, n)
      /\ \A k \in Cells(t.cache) : t.cache[k] = c[k]
  BY <1>2, ReleaseFacts
<1>4. ASSUME NEW nm \in Name, NEW k \in Cells(t.cache), t.cache[k].path = Append(c[n].path, nm)
      PROVE  FALSE
  <2>1. k \in Cells(c) /\ k \notin Below(s, n) /\ c[k].path = Append(c[n].path, nm)
    BY <1>3, <1>4
  <2>2. c[k].parent = n
    BY <1>1, <2>1, KidFacts
  <2> QED BY <1>2, <2>1, <2>2
<1> HIDE DEF t
<1>5. \A nm \in Name : ~ Has(t.cache, Append(c[n].path, nm))
  BY <1>4 DEF Has
<1> QED BY <1>2, <1>3, <1>5 DEF t

-----------------------------------------------------------------------------
(***************************************************************************)
(* The listed folders are appended one after the other.                    *)
(***************************************************************************)

AppendStep(s, n, names, f, k) ==
  IF k = 0 THEN s ELSE AppendFolderOne(f[k - 1], n, names[k])

\* The function that appends one folder after the other exists.
LEMMA AppendsExist ==
  ASSUME NEW s, NEW n, NEW names, NEW L \in Nat
  PROVE  \E f : f = [k \in 0 .. L |-> AppendStep(s, n, names, f, k)]
<1> DEFINE Upto(j, f) == f = [k \in 0 .. j |-> AppendStep(s, n, names, f, k)]
           T == {j \in 0 .. L : ~ \E f : Upto(j, f)}
<1>1. ASSUME NEW j \in T, \A k \in T : j <= k
      PROVE  FALSE
  <2>1. j \in Nat /\ j \in 0 .. L /\ ~ \E f : Upto(j, f)
    OBVIOUS
  <2>2. CASE j = 0
    <3> DEFINE f == [k \in 0 .. 0 |-> s]
    <3>1. f = [k \in 0 .. 0 |-> AppendStep(s, n, names, f, k)]
      BY DEF AppendStep
    <3> QED BY <2>1, <2>2, <3>1
  <2>3. CASE j # 0
    <3>1. j - 1 \in 0 .. L /\ j - 1 \notin T
      BY <1>1, <2>1, <2>3
    <3>2. PICK f : Upto(j - 1, f)
      BY <3>1
    <3> DEFINE g == [k \in 0 .. j |-> IF k < j THEN f[k] ELSE AppendStep(s, n, names, f, j)]
    <3>3. ASSUME NEW k \in 0 .. j
          PROVE  g[k] = AppendStep(s, n, names, g, k)
      <4>1. k = 0 \/ g[k - 1] = f[k - 1]
        BY <2>1
      <4>2. AppendStep(s, n, names, g, k) = AppendStep(s, n, names, f, k)
        BY <4>1 DEF AppendStep
      <4>3. CASE k < j
        <5>1. k \in 0 .. (j - 1)
          BY <2>1, <4>3
        <5>2. f[k] = AppendStep(s, n, names, f, k)
          <6> HIDE DEF g
          <6> QED BY <3>2, <5>1
        <5> QED BY <4>2, <4>3, <5>2
      <4>4. CASE k = j
        BY <4>2, <4>4, <2>1
      <4> QED BY <4>3, <4>4, <2>1
    <3>4. g = [k \in 0 .. j |-> AppendStep(s, n, names, g, k)]
      <4>1. g = [k \in 0 .. j |-> g[k]]
        OBVIOUS
      <4> HIDE DEF g
      <4> QED BY <3>3, <4>1
    <3> QED BY <2>1, <3>4
  <2> QED BY <2>2, <2>3
<1>2. T = {}
  <2>1. T \subseteq Nat
    OBVIOUS
  <2> HIDE DEF T
  <2> QED BY <1>1, <2>1, LeastNat
<1>3. L \in 0 .. L /\ L \notin T
  BY <1>2
<1> QED BY <1>3

\* AppendFolders appends one folder after the other.
LEMMA AppendFoldersIs ==
  ASSUME NEW s, NEW n, NEW S, IsFiniteSet(S)
  PROVE  LET names == SetToSeq(S)
         IN \E f : /\ f[0] = s /\ AppendFolders(s, n, S) = f[Len(names)]
                   /\ \A k \in 1 .. Len(names) : f[k] = AppendFolderOne(f[k - 1], n, names[k])
<1> DEFINE names == SetToSeq(S)
           L == Len(names)
           f == CHOOSE f : f = [k \in 0 .. L |->
                  IF k = 0 THEN s ELSE AppendFolderOne(f[k - 1], n, names[k])]
<1>1. L \in Nat
  BY ListOfSet
<1>2. f = [k \in 0 .. L |-> IF k = 0 THEN s ELSE AppendFolderOne(f[k - 1], n, names[k])]
  BY <1>1, AppendsExist DEF AppendStep
<1>3. AppendFolders(s, n, S) = f[L]
  BY DEF AppendFolders
<1> HIDE DEF f
<1>4. 0 \in 0 .. L /\ \A k \in 1 .. L : k \in 0 .. L /\ k # 0
  BY <1>1
<1>5. f[0] = s /\ \A k \in 1 .. L : f[k] = AppendFolderOne(f[k - 1], n, names[k])
  <2> HIDE DEF L, names
  <2> QED BY <1>2, <1>4
<1> QED BY <1>3, <1>5

\* append_folder_one, for each name that the driver has listed.
LEMMA AppendFoldersFacts ==
  ASSUME NEW s, Heap(s), NEW n \in Cells(s.cache), NEW S \in SUBSET Name, IsFiniteSet(S),
         \A nm \in S : /\ Append(s.cache[n].path, nm) \in Dirs(s.camera)
                       /\ ~ Has(s.cache, Append(s.cache[n].path, nm))
  PROVE  LET t == AppendFolders(s, n, S)
         IN /\ Heap(t) /\ t \in Records(s)
            /\ t.calls = s.calls /\ t.stale = s.stale /\ t.freed = s.freed
            /\ \A k \in Cells(s.cache) : k \in Cells(t.cache) /\ t.cache[k] = s.cache[k]
            /\ \A m \in Cells(t.cache) \ Cells(s.cache) :
                 \E nm \in S : t.cache[m] = NewFolder(n, Append(s.cache[n].path, nm))
            /\ \A nm \in S : Has(t.cache, Append(s.cache[n].path, nm))
<1> DEFINE names == SetToSeq(S)
           L == Len(names)
           To(nm) == Append(s.cache[n].path, nm)
<1>1. /\ L \in Nat /\ \A i \in 1 .. L : names[i] \in S
      /\ \A i, j \in 1 .. L : names[i] = names[j] => i = j
      /\ \A x \in S : \E i \in 1 .. L : names[i] = x
  BY ListOfSet
<1>2. PICK f : /\ f[0] = s /\ AppendFolders(s, n, S) = f[L]
               /\ \A k \in 1 .. L : f[k] = AppendFolderOne(f[k - 1], n, names[k])
  BY AppendFoldersIs
<1> DEFINE Good(j, t) ==
             /\ Heap(t) /\ t \in Records(s)
             /\ t.calls = s.calls /\ t.stale = s.stale /\ t.freed = s.freed
             /\ \A k \in Cells(s.cache) : k \in Cells(t.cache) /\ t.cache[k] = s.cache[k]
             /\ \A m \in Cells(t.cache) \ Cells(s.cache) :
                  \E i \in 1 .. j : t.cache[m] = NewFolder(n, To(names[i]))
             /\ \A i \in 1 .. j : Has(t.cache, To(names[i]))
           T == {j \in 0 .. L : ~ Good(j, f[j])}
<1> HIDE DEF names, L, To
<1>3. s \in Progress /\ s.cache[n].path \in Seq(Name)
  BY CellFacts DEF Heap
<1>4. Good(0, f[0])
  BY <1>2, <1>3, RecordsAreProgress
<1>5. ASSUME NEW j \in 1 .. L, Good(j - 1, f[j - 1])
      PROVE  Good(j, f[j])
  <2> DEFINE u == f[j - 1]
             t == f[j]
  <2>1. /\ Heap(u) /\ u \in Records(s) /\ n \in Cells(u.cache) /\ u.cache[n] = s.cache[n]
        /\ u.calls = s.calls /\ u.stale = s.stale /\ u.freed = s.freed
        /\ \A k \in Cells(s.cache) : k \in Cells(u.cache) /\ u.cache[k] = s.cache[k]
    BY <1>5
  <2>2. j \in Nat /\ names[j] \in S /\ names[j] \in Name /\ t = AppendFolderOne(u, n, names[j])
    BY <1>1, <1>2
  <2>3. ~ Has(u.cache, To(names[j]))
    <3>1. SUFFICES ASSUME NEW m \in Cells(u.cache), u.cache[m].path = To(names[j])
                   PROVE  FALSE
      BY DEF Has
    <3>2. m \notin Cells(s.cache)
      <4>1. ~ Has(s.cache, To(names[j]))
        BY <2>2 DEF To
      <4> QED BY <2>1, <3>1, <4>1 DEF Has
    <3>3. PICK i \in 1 .. j - 1 : u.cache[m] = NewFolder(n, To(names[i]))
      BY <1>5, <3>2
    <3>4. i \in 1 .. L /\ i # j /\ names[i] \in Name
      BY <1>1, <2>2
    <3>5. To(names[i]) = To(names[j])
      BY <3>1, <3>3 DEF NewFolder
    <3>6. names[i] = names[j]
      BY <1>3, <2>2, <3>4, <3>5, SameAppend DEF To
    <3> QED BY <1>1, <3>4, <3>6
  <2>4. To(names[j]) \in Dirs(u.camera)
    <3>1. u.camera = s.camera
      BY <2>1 DEF Records
    <3> QED BY <2>2, <3>1 DEF To
  <2>5. Append(u.cache[n].path, names[j]) = To(names[j])
    BY <2>1 DEF To
  <2> HIDE DEF u, t
  <2>6. /\ Heap(t) /\ t \in Records(u)
        /\ t.calls = u.calls /\ t.stale = u.stale /\ t.freed = u.freed
        /\ \E m \in Nat :
             /\ m \notin Cells(u.cache) /\ Cells(t.cache) = Cells(u.cache) \union {m}
             /\ t.cache[m] = NewFolder(n, To(names[j]))
        /\ \A k \in Cells(u.cache) : t.cache[k] = u.cache[k]
    <3> DEFINE q == Append(u.cache[n].path, names[j])
    <3>1. q \in Dirs(u.camera) /\ ~ Has(u.cache, q)
      BY <2>3, <2>4, <2>5
    <3>2. /\ Heap(t) /\ t \in Records(u)
          /\ t.calls = u.calls /\ t.stale = u.stale /\ t.freed = u.freed
          /\ \E m \in Nat :
               /\ m \notin Cells(u.cache) /\ Cells(t.cache) = Cells(u.cache) \union {m}
               /\ t.cache[m] = NewFolder(n, q)
          /\ \A k \in Cells(u.cache) : t.cache[k] = u.cache[k]
      BY <2>1, <2>2, <3>1, AppendOneFacts
    <3>3. q = To(names[j])
      BY <2>5
    <3> HIDE DEF q
    <3> QED BY <3>2, <3>3
  <2>7. PICK m \in Nat : /\ m \notin Cells(u.cache)
                         /\ Cells(t.cache) = Cells(u.cache) \union {m}
                         /\ t.cache[m] = NewFolder(n, To(names[j]))
    BY <2>6
  <2>8. Records(u) = Records(s)
    BY <1>3, <2>1, RecordsAreProgress
  <2>9. \A k \in Cells(s.cache) : k \in Cells(t.cache) /\ t.cache[k] = s.cache[k]
    BY <2>1, <2>6, <2>7
  <2>10. ASSUME NEW x \in Cells(t.cache) \ Cells(s.cache)
         PROVE  \E i \in 1 .. j : t.cache[x] = NewFolder(n, To(names[i]))
    <3>1. CASE x = m
      <4>1. j \in 1 .. j
        BY <2>2
      <4> QED BY <2>7, <3>1, <4>1
    <3>2. CASE x # m
      <4>1. x \in Cells(u.cache) /\ t.cache[x] = u.cache[x]
        BY <2>6, <2>7, <3>2
      <4>2. PICK i \in 1 .. j - 1 : u.cache[x] = NewFolder(n, To(names[i]))
        BY <1>5, <4>1 DEF u
      <4>3. i \in 1 .. j
        BY <2>2
      <4> QED BY <4>1, <4>2, <4>3
    <3> QED BY <3>1, <3>2
  <2>11. ASSUME NEW i \in 1 .. j
         PROVE  Has(t.cache, To(names[i]))
    <3>1. CASE i = j
      <4>1. t.cache[m].path = To(names[j])
        BY <2>7 DEF NewFolder
      <4> QED BY <2>7, <3>1, <4>1 DEF Has
    <3>2. CASE i # j
      <4>1. i \in 1 .. j - 1
        BY <2>2, <3>2
      <4>2. Has(u.cache, To(names[i]))
        BY <1>5, <4>1 DEF u
      <4> QED BY <2>6, <2>7, <4>2 DEF Has
    <3> QED BY <3>1, <3>2
  <2>12. /\ Heap(t) /\ t \in Records(s)
         /\ t.calls = s.calls /\ t.stale = s.stale /\ t.freed = s.freed
    BY <2>1, <2>6, <2>8
  <2> QED BY <2>9, <2>10, <2>11, <2>12 DEF t
<1> HIDE DEF Good
<1>6. ASSUME NEW j \in T, \A k \in T : j <= k
      PROVE  FALSE
  <2>1. j \in 0 .. L /\ ~ Good(j, f[j])
    OBVIOUS
  <2>2. j \in 1 .. L
    BY <1>1, <1>4, <2>1
  <2>3. j - 1 \in 0 .. L /\ j - 1 \notin T
    BY <1>1, <1>6, <2>2
  <2>4. Good(j - 1, f[j - 1])
    BY <2>3
  <2> HIDE DEF T
  <2> QED BY <1>5, <2>1, <2>2, <2>4
<1>7. T = {}
  <2>1. T \subseteq Nat
    BY <1>1
  <2> HIDE DEF T
  <2> QED BY <1>6, <2>1, LeastNat
<1>8. Good(L, f[L])
  BY <1>1, <1>7
<1>9. L \in Nat /\ \A nm \in S : \E i \in 1 .. L : names[i] = nm
  BY <1>1
<1> DEFINE t == AppendFolders(s, n, S)
<1>10. Good(L, t)
  BY <1>2, <1>8
<1> HIDE DEF t
<1>11. \A nm \in S : Has(t.cache, To(nm))
  BY <1>9, <1>10 DEF Good
<1>12. \A m \in Cells(t.cache) \ Cells(s.cache) : \E nm \in S : t.cache[m] = NewFolder(n, To(nm))
  BY <1>1, <1>10 DEF Good
<1> QED BY <1>10, <1>11, <1>12 DEF Good, t, To

-----------------------------------------------------------------------------
(***************************************************************************)
(* What a lookup may do to the cells.                                      *)
(***************************************************************************)

\* A cell that is still there.
Kept(f, g) ==
  /\ g.path = f.path /\ g.parent = f.parent
  /\ g.files = f.files /\ g.files_dirty = f.files_dirty
  /\ ~ f.folders_dirty => ~ g.folders_dirty

\* A cell is kept or freed; the new ones have no files yet.
Moved(s, t) ==
  /\ t \in Records(s)
  /\ s.freed \subseteq t.freed /\ (s.stale => t.stale)
  /\ \A n \in Cells(s.cache) :
       n \in t.freed \/ (n \in Cells(t.cache) /\ Kept(s.cache[n], t.cache[n]))
  /\ \A n \in Cells(t.cache) \ Cells(s.cache) :
       t.cache[n].files_dirty /\ t.cache[n].files = {}

\* The cells of the path q are all dirty: there is at most one.
DirtyAt(c, q) == \A n \in Cells(c) : c[n].path = q => c[n].folders_dirty

\* A path of i names or more does not become clean.
StaysDirty(s, t, i) ==
  \A q \in Seq(Name) : Len(q) >= i /\ DirtyAt(s.cache, q) => DirtyAt(t.cache, q)

\* A clean folder has a cell for each of the camera's subfolders, but for X.
Complete(s, X) ==
  \A n \in Cells(s.cache), nm \in Name :
    LET q == Append(s.cache[n].path, nm)
    IN ~ s.cache[n].folders_dirty /\ q \in Dirs(s.camera) => Has(s.cache, q) \/ q \in X

Looked(s, t, i) ==
  /\ Heap(t) /\ Moved(s, t) /\ StaysDirty(s, t, i)
  /\ \A X : Complete(s, X) => Complete(t, X)

\* Nothing has happened to the cells.
LEMMA LookedNothing ==
  ASSUME NEW s, Heap(s), NEW t \in Records(s), NEW i,
         t.cache = s.cache, t.freed = s.freed, s.stale => t.stale
  PROVE  Looked(s, t, i)
<1>1. s \in Progress /\ t \in Progress /\ t.camera = s.camera
  BY RecordsAreProgress DEF Heap, Records
<1>2. Heap(t)
  BY <1>1 DEF Heap
<1>3. Moved(s, t)
  BY DEF Moved, Kept
<1> QED BY <1>1, <1>2, <1>3 DEF Looked, StaysDirty, Complete

\* What two steps do to the cells, together.
LEMMA MovedOn ==
  ASSUME NEW s, NEW t, NEW u, Heap(s), Heap(t), Heap(u), Moved(s, t), Moved(t, u)
  PROVE  Moved(s, u)
<1>1. u \in Records(s)
  BY RecordsAreProgress DEF Heap, Moved
<1>2. s.freed \subseteq u.freed /\ (s.stale => u.stale)
  BY DEF Moved
<1>3. ASSUME NEW n \in Cells(s.cache), n \notin u.freed
      PROVE  n \in Cells(u.cache) /\ Kept(s.cache[n], u.cache[n])
  <2>1. n \notin t.freed
    BY <1>3 DEF Moved
  <2>2. n \in Cells(t.cache) /\ Kept(s.cache[n], t.cache[n])
    BY <2>1 DEF Moved
  <2>3. n \in Cells(u.cache) /\ Kept(t.cache[n], u.cache[n])
    BY <1>3, <2>2 DEF Moved
  <2> QED BY <2>2, <2>3 DEF Kept
<1>4. ASSUME NEW n \in Cells(u.cache) \ Cells(s.cache)
      PROVE  u.cache[n].files_dirty /\ u.cache[n].files = {}
  <2>1. CASE n \in Cells(t.cache)
    <3>1. n \notin u.freed
      BY DEF Heap
    <3>2. Kept(t.cache[n], u.cache[n])
      BY <2>1, <3>1 DEF Moved
    <3>3. t.cache[n].files_dirty /\ t.cache[n].files = {}
      BY <2>1 DEF Moved
    <3> QED BY <3>2, <3>3 DEF Kept
  <2>2. CASE n \notin Cells(t.cache)
    BY <2>2 DEF Moved
  <2> QED BY <2>1, <2>2
<1> QED BY <1>1, <1>2, <1>3, <1>4 DEF Moved

\* Two steps of a lookup, together.
LEMMA LookedOn ==
  ASSUME NEW s, NEW t, NEW u, NEW i \in Nat, NEW j \in Nat, NEW k \in Nat, i <= k, j <= k,
         Heap(s), Looked(s, t, i), Looked(t, u, j)
  PROVE  Looked(s, u, k)
<1>1. Heap(t) /\ Heap(u) /\ Moved(s, t) /\ Moved(t, u)
  BY DEF Looked
<1>2. Moved(s, u)
  BY <1>1, MovedOn
<1>3. StaysDirty(s, u, k)
  <2>1. ASSUME NEW q \in Seq(Name), Len(q) >= k, DirtyAt(s.cache, q)
        PROVE  DirtyAt(u.cache, q)
    <3>1. Len(q) >= i /\ Len(q) >= j
      BY <2>1, LenProperties
    <3>2. DirtyAt(t.cache, q)
      BY <2>1, <3>1 DEF Looked, StaysDirty
    <3> QED BY <3>1, <3>2 DEF Looked, StaysDirty
  <2> QED BY <2>1 DEF StaysDirty
<1> QED BY <1>1, <1>2, <1>3 DEF Looked

\* A deeper path goes through a subfolder.
LEMMA DeeperStep ==
  ASSUME NEW p \in Seq(Name), NEW q \in Seq(Name), Deeper(p, q)
  PROVE  \E nm \in Name : q = Append(p, nm) \/ Deeper(Append(p, nm), q)
<1> DEFINE nm == q[Len(p) + 1]
           r == Append(p, nm)
<1>1. Len(p) \in Nat /\ Len(q) \in Nat /\ Len(p) < Len(q)
  BY LenProperties DEF Deeper
<1>2. nm \in Name
  BY <1>1, ElementOfSeq
<1>3. /\ r \in Seq(Name) /\ Len(r) = Len(p) + 1 /\ r[Len(p) + 1] = nm
      /\ \A i \in 1 .. Len(p) : r[i] = p[i]
  BY <1>2, AppendPath
<1> HIDE DEF r
<1>4. \A i \in 1 .. Len(r) : r[i] = q[i]
  BY <1>1, <1>3 DEF Deeper
<1>5. CASE Len(r) = Len(q)
  <2>1. q = r
    BY <1>3, <1>4, <1>5, SamePath
  <2> QED BY <1>2, <2>1 DEF r
<1>6. CASE Len(r) # Len(q)
  <2>1. Deeper(r, q)
    BY <1>1, <1>3, <1>4, <1>6 DEF Deeper
  <2> QED BY <1>2, <2>1 DEF r
<1> QED BY <1>5, <1>6

\* An emptied folder is dirty, and nothing is below it.
LEMMA EmptiedFolder ==
  ASSUME NEW s, Heap(s), NEW n \in Cells(s.cache), s.cache[n].folders_dirty, NEW i
  PROVE  LET t == Release(s, Below(s, n))
         IN /\ Looked(s, t, i) /\ t.calls = s.calls /\ t.stale = s.stale
            /\ t.freed = s.freed \union Below(s, n)
            /\ n \in Cells(t.cache) /\ t.cache[n] = s.cache[n]
            /\ \A k \in Cells(t.cache) : ~ Deeper(s.cache[n].path, t.cache[k].path)
<1> DEFINE t == Release(s, Below(s, n))
           p == s.cache[n].path
<1>1. /\ Heap(t) /\ t \in Records(s) /\ t.calls = s.calls /\ t.stale = s.stale
      /\ t.freed = s.freed \union Below(s, n)
      /\ Cells(t.cache) = Cells(s.cache) \ Below(s, n) /\ n \in Cells(t.cache)
      /\ \A k \in Cells(t.cache) : t.cache[k] = s.cache[k]
      /\ \A nm \in Name : ~ Has(t.cache, Append(p, nm))
  BY EmptyFacts
<1> HIDE DEF t
<1>2. IsTree(s.cache) /\ IsTree(t.cache) /\ p \in Seq(Name) /\ t.camera = s.camera
  BY <1>1, CellFacts DEF Heap, Records
<1>3. ASSUME NEW k \in Cells(t.cache), Deeper(p, t.cache[k].path)
      PROVE  FALSE
  <2>1. t.cache[k].path \in Seq(Name)
    BY <1>2, CellFacts
  <2>2. PICK nm \in Name : \/ t.cache[k].path = Append(p, nm)
                           \/ Deeper(Append(p, nm), t.cache[k].path)
    BY <1>2, <1>3, <2>1, DeeperStep
  <2>3. Append(p, nm) \in Seq(Name)
    BY <1>2, AppendPath
  <2>4. Has(t.cache, Append(p, nm))
    <3> DEFINE q == Append(p, nm)
    <3>1. q \in Seq(Name) /\ (t.cache[k].path = q \/ Deeper(q, t.cache[k].path))
      BY <2>2, <2>3
    <3> HIDE DEF q
    <3>2. Has(t.cache, q)
      BY <1>2, <3>1, AncestorFacts DEF Has
    <3> QED BY <3>2 DEF q
  <2> QED BY <1>1, <2>4
<1>4. Moved(s, t)
  BY <1>1 DEF Moved, Kept
<1>5. StaysDirty(s, t, i)
  BY <1>1 DEF StaysDirty, DirtyAt
<1>6. ASSUME NEW X, Complete(s, X)
      PROVE  Complete(t, X)
  <2>1. ASSUME NEW m \in Cells(t.cache), NEW nm \in Name, ~ t.cache[m].folders_dirty,
               Append(t.cache[m].path, nm) \in Dirs(t.camera),
               Append(t.cache[m].path, nm) \notin X
        PROVE  Has(t.cache, Append(t.cache[m].path, nm))
    <3> DEFINE q == Append(t.cache[m].path, nm)
    <3>1. m \in Cells(s.cache) /\ t.cache[m] = s.cache[m] /\ t.cache[m].path \in Seq(Name)
      BY <1>1, <1>2, CellFacts
    <3>2. Has(s.cache, q)
      BY <1>2, <1>6, <2>1, <3>1 DEF Complete
    <3>3. PICK k \in Cells(s.cache) : s.cache[k].path = q
      BY <3>2 DEF Has
    <3>4. k \notin Below(s, n)
      <4>1. SUFFICES ASSUME k \in Below(s, n)
                     PROVE  FALSE
        OBVIOUS
      <4>2. Deeper(p, q)
        <5>1. Deeper(p, s.cache[k].path)
          BY <1>2, <4>1, BelowFacts
        <5>2. s.cache[k].path = q
          BY <3>3
        <5> HIDE DEF p, q
        <5> QED BY <5>1, <5>2
      <4>3. p = t.cache[m].path \/ Deeper(p, t.cache[m].path)
        BY <1>2, <3>1, <4>2, DeeperAppend
      <4>4. p = s.cache[m].path
        BY <1>3, <3>1, <4>3
      <4>5. m = n
        BY <1>2, <3>1, <4>4 DEF IsTree
      <4> QED BY <2>1, <3>1, <4>5
    <3> HIDE DEF q
    <3>5. k \in Cells(t.cache) /\ t.cache[k].path = q
      BY <1>1, <3>3, <3>4
    <3> QED BY <3>5 DEF Has, q
  <2> QED BY <2>1 DEF Complete
<1>7. \A k \in Cells(t.cache) : ~ Deeper(p, t.cache[k].path)
  BY <1>3
<1>8. Looked(s, t, i) /\ t.cache[n] = s.cache[n]
  BY <1>1, <1>4, <1>5, <1>6 DEF Looked
<1> QED BY <1>1, <1>7, <1>8 DEF t, p

\* The names of the subfolders that the camera has are finitely many.
LEMMA SubDirsFacts ==
  ASSUME NEW cam, IsCamera(cam), NEW p \in Seq(Name)
  PROVE  /\ SubDirs(cam, p) \in SUBSET Name /\ IsFiniteSet(SubDirs(cam, p))
         /\ \A nm \in Name : nm \in SubDirs(cam, p) <=> Append(p, nm) \in Dirs(cam)
<1> DEFINE S == SubDirs(cam, p)
           g == [nm \in S |-> Append(p, nm)]
<1>1. S \in SUBSET Name /\ \A nm \in Name : nm \in S <=> Append(p, nm) \in Dirs(cam)
  BY DEF SubDirs
<1>2. g \in [S -> Dirs(cam)]
  BY <1>1
<1>3. \A x, y \in S : g[x] = g[y] => x = y
  BY <1>1, SameAppend
<1>4. g \in Injection(S, Dirs(cam))
  BY <1>2, <1>3 DEF Injection, IsInjective
<1>5. IsFiniteSet(Dirs(cam))
  BY DEF IsCamera
<1>6. IsFiniteSet(S)
  BY <1>4, <1>5, FS_Injection
<1> QED BY <1>1, <1>6

\* The folder that has been emptied gets all the subfolders that the camera has.
FilledFolder(s, n) ==
  [AppendFolders(s, n, SubDirs(s.camera, s.cache[n].path))
     EXCEPT !.cache[n].folders_dirty = FALSE]
\* A dirty folder with nothing below it gets its subfolders.
LEMMA FillsFolder ==
  ASSUME NEW s, Heap(s), NEW n \in Cells(s.cache), s.cache[n].folders_dirty,
         \A k \in Cells(s.cache) : ~ Deeper(s.cache[n].path, s.cache[k].path)
  PROVE  LET t == FilledFolder(s, n)
         IN /\ Looked(s, t, Len(s.cache[n].path) + 1)
            /\ t.calls = s.calls /\ t.stale = s.stale /\ t.freed = s.freed
            /\ n \in Cells(t.cache) /\ t.cache[n].path = s.cache[n].path
            /\ ~ t.cache[n].folders_dirty
            /\ \A k \in Cells(t.cache) \ Cells(s.cache) :
                 t.cache[k].parent = n /\ t.cache[k].folders_dirty
<1> DEFINE p == s.cache[n].path
           S == SubDirs(s.camera, p)
           u == AppendFolders(s, n, S)
           t == [u EXCEPT !.cache[n].folders_dirty = FALSE]
<1>1. /\ s \in Progress /\ IsTree(s.cache) /\ IsCamera(s.camera)
      /\ p \in Seq(Name) /\ Len(p) \in Nat /\ s.cache[n] \in Folder
  BY CellFacts, ProgressFacts, LenProperties DEF Heap
<1>2. /\ S \in SUBSET Name /\ IsFiniteSet(S)
      /\ \A nm \in Name : nm \in S <=> Append(p, nm) \in Dirs(s.camera)
  BY <1>1, SubDirsFacts
<1>3. \A nm \in S : Append(p, nm) \in Dirs(s.camera) /\ ~ Has(s.cache, Append(p, nm))
  BY <1>1, <1>2, AppendPath DEF Has
<1>4. /\ Heap(u) /\ u \in Records(s)
      /\ u.calls = s.calls /\ u.stale = s.stale /\ u.freed = s.freed
      /\ \A k \in Cells(s.cache) : k \in Cells(u.cache) /\ u.cache[k] = s.cache[k]
      /\ \A m \in Cells(u.cache) \ Cells(s.cache) :
           \E nm \in S : u.cache[m] = NewFolder(n, Append(p, nm))
      /\ \A nm \in S : Has(u.cache, Append(p, nm))
  BY <1>2, <1>3, AppendFoldersFacts
<1> HIDE DEF u, S
<1>5. /\ u \in Progress /\ IsTree(u.cache) /\ u.cache \in Seq(Folder) /\ n \in Cells(u.cache)
      /\ n \in 1 .. Len(u.cache) /\ u.cache[n] = s.cache[n] /\ u.camera = s.camera
  <2>1. IsTree(u.cache) /\ u \in Progress /\ n \in Cells(u.cache)
    BY <1>4 DEF Heap
  <2> QED BY <1>4, <2>1, CellFacts, ProgressFacts DEF Records
<1>6. /\ t \in Progress /\ t.freed = u.freed /\ t.calls = u.calls /\ t.stale = u.stale
      /\ t.bad = u.bad /\ t.camera = u.camera /\ Len(t.cache) = Len(u.cache)
      /\ t.cache[n] = [s.cache[n] EXCEPT !.folders_dirty = FALSE]
      /\ \A k \in 1 .. Len(u.cache) : k # n => t.cache[k] = u.cache[k]
  <2> DEFINE f == [s.cache[n] EXCEPT !.folders_dirty = FALSE]
             d == [u.cache EXCEPT ![n] = f]
  <2>1. f \in Folder
    BY <1>1 DEF Folder
  <2>2. t = [u EXCEPT !.cache = d]
    BY <1>5 DEF Progress
  <2> HIDE DEF f
  <2>3. /\ d \in Seq(Folder) /\ Len(d) = Len(u.cache) /\ d[n] = f
        /\ \A k \in 1 .. Len(u.cache) : k # n => d[k] = u.cache[k]
    BY <1>5, <2>1, ExceptSeq
  <2> HIDE DEF d, t
  <2>4. t.cache = d /\ t \in Progress
    BY <1>5, <2>2, <2>3 DEF Progress
  <2>5. /\ t.freed = u.freed /\ t.calls = u.calls /\ t.stale = u.stale
        /\ t.bad = u.bad /\ t.camera = u.camera
    BY <1>5, <2>2 DEF Progress
  <2> QED BY <2>3, <2>4, <2>5 DEF f
<1> HIDE DEF t
<1>7. /\ t.cache[n].path = p /\ t.cache[n].parent = s.cache[n].parent
      /\ t.cache[n].files = s.cache[n].files /\ t.cache[n].files_dirty = s.cache[n].files_dirty
      /\ ~ t.cache[n].folders_dirty
  BY <1>1, <1>6 DEF Folder
<1>8. Heap(t) /\ Cells(t.cache) = Cells(u.cache)
  <2>1. \A k \in 1 .. Len(u.cache) : /\ t.cache[k].path = u.cache[k].path
                                     /\ t.cache[k].parent = u.cache[k].parent
    BY <1>5, <1>6, <1>7
  <2>2. \A k \in Cells(u.cache) : u.cache[k].path \in Dirs(t.camera)
    BY <1>4, <1>6 DEF Heap
  <2> QED BY <1>4, <1>6, <2>1, <2>2, SameTree
<1>9. \A k \in Cells(u.cache) : k # n => t.cache[k] = u.cache[k]
  BY <1>5, <1>6, CellFacts
<1>10. \A k \in Cells(t.cache) \ Cells(s.cache) :
         /\ t.cache[k].parent = n /\ t.cache[k].folders_dirty
         /\ t.cache[k].files_dirty /\ t.cache[k].files = {}
  <2>1. ASSUME NEW k \in Cells(u.cache) \ Cells(s.cache)
        PROVE  /\ t.cache[k].parent = n /\ t.cache[k].folders_dirty
               /\ t.cache[k].files_dirty /\ t.cache[k].files = {}
    <3>1. k # n /\ t.cache[k] = u.cache[k]
      BY <1>9
    <3>2. PICK nm \in S : u.cache[k] = NewFolder(n, Append(p, nm))
      BY <1>4
    <3> QED BY <3>1, <3>2 DEF NewFolder
  <2> QED BY <1>8, <2>1
<1>11. Moved(s, t)
  <2>1. t \in Records(s)
    BY <1>4, <1>6 DEF Records, Progress
  <2>2. \A k \in Cells(s.cache) : k \in Cells(t.cache) /\ Kept(s.cache[k], t.cache[k])
    BY <1>4, <1>7, <1>8, <1>9 DEF Kept
  <2> QED BY <1>4, <1>6, <1>10, <2>1, <2>2 DEF Moved
<1>12. StaysDirty(s, t, Len(p) + 1)
  <2>1. ASSUME NEW q \in Seq(Name), Len(q) >= Len(p) + 1, DirtyAt(s.cache, q),
               NEW k \in Cells(t.cache), t.cache[k].path = q
        PROVE  t.cache[k].folders_dirty
    <3>1. k # n
      BY <1>1, <1>7, <2>1
    <3>2. CASE k \in Cells(s.cache)
      BY <1>4, <1>9, <2>1, <3>1, <3>2 DEF DirtyAt
    <3>3. CASE k \notin Cells(s.cache)
      BY <1>10, <3>3
    <3> QED BY <3>2, <3>3
  <2> QED BY <2>1 DEF StaysDirty, DirtyAt
<1>13. ASSUME NEW q, Has(u.cache, q)
       PROVE  Has(t.cache, q)
  BY <1>5, <1>7, <1>8, <1>9, <1>13 DEF Has
<1>14. ASSUME NEW X, Complete(s, X)
       PROVE  Complete(t, X)
  <2>1. ASSUME NEW m \in Cells(t.cache), NEW nm \in Name, ~ t.cache[m].folders_dirty,
               Append(t.cache[m].path, nm) \in Dirs(t.camera),
               Append(t.cache[m].path, nm) \notin X
        PROVE  Has(t.cache, Append(t.cache[m].path, nm))
    <3>1. CASE m = n
      <4>1. nm \in S
        BY <1>2, <1>5, <1>6, <1>7, <2>1, <3>1
      <4>2. Has(u.cache, Append(p, nm))
        BY <1>4, <4>1
      <4> QED BY <1>7, <1>13, <3>1, <4>2
    <3>2. CASE m # n
      <4>1. m \in Cells(s.cache) /\ t.cache[m] = s.cache[m]
        BY <1>4, <1>8, <1>9, <1>10, <2>1, <3>2
      <4>2. Has(s.cache, Append(s.cache[m].path, nm))
        BY <1>5, <1>6, <1>14, <2>1, <4>1 DEF Complete
      <4>3. Has(u.cache, Append(s.cache[m].path, nm))
        BY <1>4, <4>2 DEF Has
      <4> QED BY <1>13, <4>1, <4>3
    <3> QED BY <3>1, <3>2
  <2> QED BY <2>1 DEF Complete
<1>15. Looked(s, t, Len(p) + 1) /\ n \in Cells(t.cache)
  BY <1>5, <1>8, <1>11, <1>12, <1>14 DEF Looked
<1>16. t = FilledFolder(s, n)
  BY DEF FilledFolder, t, u, S
<1>17. t.calls = s.calls /\ t.stale = s.stale /\ t.freed = s.freed
  BY <1>4, <1>6
<1> HIDE DEF p
<1>18. /\ Looked(s, t, Len(p) + 1) /\ t.cache[n].path = p
       /\ ~ t.cache[n].folders_dirty
       /\ \A k \in Cells(t.cache) \ Cells(s.cache) :
                 t.cache[k].parent = n /\ t.cache[k].folders_dirty
  BY <1>7, <1>10, <1>15
<1> QED BY <1>15, <1>16, <1>17, <1>18 DEF p

-----------------------------------------------------------------------------
(***************************************************************************)
(* Looking up and listing, for a function look that looks up the path q.   *)
(***************************************************************************)

\* What an internal function returns from the record s: if it is GP_OK, the cell
\* of the path q.
LookFrom(s, r, q, i) ==
  /\ Looked(s, r.s, i) /\ r.ok \in BOOLEAN
  /\ r.ok => r.n \in Cells(r.s.cache) /\ r.s.cache[r.n].path = q

Looks(look, s, q) ==
  \A t \in Records(s) : Heap(t) => LookFrom(t, look[t], q, Len(q))

\* The fields of what an internal function returns.
LEMMA RetFacts ==
  \A s, ok, n : /\ Ret(s, ok, n).s = s /\ Ret(s, ok, n).ok = ok /\ Ret(s, ok, n).n = n
BY DEF Ret

\* A step of a lookup that is returned.
LEMMA LookFromRet ==
  ASSUME NEW s, NEW t, NEW ok \in BOOLEAN, NEW n, NEW q, NEW i, Looked(s, t, i),
         ok => n \in Cells(t.cache) /\ t.cache[n].path = q
  PROVE  LookFrom(s, Ret(t, ok, n), q, i)
BY RetFacts DEF LookFrom

\* A step of a lookup touches the deeper paths, too.
LEMMA LookedWeaker ==
  ASSUME NEW s, NEW t, NEW i \in Nat, NEW j \in Nat, i <= j, Looked(s, t, i)
  PROVE  Looked(s, t, j)
<1>1. StaysDirty(s, t, j)
  <2>1. ASSUME NEW q \in Seq(Name), Len(q) >= j, DirtyAt(s.cache, q)
        PROVE  DirtyAt(t.cache, q)
    <3>1. Len(q) >= i
      BY <2>1, LenProperties
    <3> QED BY <2>1, <3>1 DEF Looked, StaysDirty
  <2> QED BY <2>1 DEF StaysDirty
<1> QED BY <1>1 DEF Looked

\* A call of the driver, and the use of something freed, leave the cells alone.
LEMMA StaleAndCalled ==
  ASSUME NEW s, Heap(s), NEW i
  PROVE  /\ Looked(s, Stale(s), i) /\ Stale(s).stale
         /\ Looked(s, Called(s), i) /\ Called(s).calls = NextCall(s)
         /\ Called(s).cache = s.cache /\ Called(s).freed = s.freed
         /\ Called(s).stale = s.stale
         /\ Stale(s).cache = s.cache /\ Stale(s).freed = s.freed
         /\ Stale(s).calls = s.calls
<1>1. s \in Progress /\ s.calls \in 0 .. MaxCalls /\ MaxCalls \in Nat
  BY ProgressFacts, BoundAssumption DEF Heap
<1>2. NextCall(s) \in 0 .. MaxCalls
  BY <1>1 DEF NextCall
<1>3. /\ Stale(s) \in Records(s) /\ Stale(s).stale /\ Stale(s).cache = s.cache
      /\ Stale(s).freed = s.freed /\ Stale(s).calls = s.calls
  BY <1>1 DEF Stale, Records, Progress
<1>4. /\ Called(s) \in Records(s) /\ Called(s).calls = NextCall(s) /\ Called(s).cache = s.cache
      /\ Called(s).freed = s.freed /\ Called(s).stale = s.stale
  BY <1>1, <1>2 DEF Called, Records, Progress
<1> QED BY <1>3, <1>4, LookedNothing

\* A record that a lookup has come to.
LEMMA LookedRecord ==
  ASSUME NEW s, Heap(s), NEW t, NEW i, Looked(s, t, i)
  PROVE  /\ Heap(t) /\ t \in Records(s) /\ Records(t) = Records(s)
         /\ t.camera = s.camera /\ t.bad = s.bad
BY RecordsAreProgress DEF Looked, Moved, Heap, Records

\* A cell that is not freed is where it was.
LEMMA StillThere ==
  ASSUME NEW s, Heap(s), NEW t, NEW i, Looked(s, t, i),
         NEW n \in Cells(s.cache), n \notin t.freed
  PROVE  n \in Cells(t.cache) /\ Kept(s.cache[n], t.cache[n])
BY DEF Looked, Moved

\* The second half of gp_filesystem_list_folders.
LEMMA RefillLooked ==
  ASSUME NEW s, NEW q \in Path, NEW look, Looks(look, s, q),
         NEW t \in Records(s), Heap(t), NEW n \in Cells(t.cache),
         t.cache[n].path = q, t.cache[n].folders_dirty
  PROVE  LookFrom(t, RefillFolders(look, t, n, q), q, Len(q) + 1)
<1> DEFINE l == look[t]
           emptied == DeleteAllFolders(look, t)
           filled == AppendFolders(emptied, n, SubDirs(t.camera, q))
           r == RefillFolders(look, t, n, q)
<1>1. r = IF emptied.stale \/ n \in emptied.freed THEN Ret(Stale(emptied), FALSE, NULL)
          ELSE Ret([filled EXCEPT !.cache[n].folders_dirty = FALSE], TRUE, n)
  BY DEF RefillFolders
<1>2. emptied = IF ~ l.ok THEN Stale(l.s) ELSE Release(l.s, Below(l.s, l.n))
  BY DEF DeleteAllFolders
<1>3. LookFrom(t, l, q, Len(q))
  BY DEF Looks
<1>4. Looked(t, l.s, Len(q)) /\ Heap(l.s) /\ l.s.camera = t.camera
  BY <1>3, LookedRecord DEF LookFrom
<1>5. q \in Seq(Name) /\ Len(q) \in Nat
  BY PathsAreSequences, LenProperties
<1> HIDE DEF l, emptied, r
<1>6. CASE ~ l.ok
  <2>1. emptied = Stale(l.s) /\ emptied.stale
    BY <1>2, <1>4, <1>6, StaleAndCalled
  <2>2. Looked(l.s, emptied, Len(q)) /\ Heap(emptied)
    BY <1>4, <2>1, StaleAndCalled DEF Looked
  <2>3. Looked(emptied, Stale(emptied), Len(q))
    BY <2>2, StaleAndCalled
  <2>4. Looked(t, Stale(emptied), Len(q) + 1)
    <3>1. Looked(t, emptied, Len(q))
      BY <1>4, <1>5, <2>2, LookedOn
    <3> QED BY <1>5, <2>3, <3>1, LookedOn
  <2>5. r = Ret(Stale(emptied), FALSE, NULL)
    BY <1>1, <2>1
  <2> QED BY <2>4, <2>5, LookFromRet DEF r
<1>7. CASE l.ok
  <2>1. l.n \in Cells(l.s.cache) /\ l.s.cache[l.n].path = q
    BY <1>3, <1>7 DEF LookFrom
  <2>2. l.s.cache[l.n].folders_dirty
    <3>1. DirtyAt(t.cache, q)
      BY DEF DirtyAt, Heap, IsTree
    <3>2. DirtyAt(l.s.cache, q)
      BY <1>4, <1>5, <3>1 DEF Looked, StaysDirty
    <3> QED BY <2>1, <3>2 DEF DirtyAt
  <2>3. /\ Looked(l.s, emptied, Len(q)) /\ emptied.stale = l.s.stale
        /\ l.n \in Cells(emptied.cache) /\ emptied.cache[l.n] = l.s.cache[l.n]
        /\ \A k \in Cells(emptied.cache) : ~ Deeper(q, emptied.cache[k].path)
    BY <1>2, <1>4, <1>7, <2>1, <2>2, EmptiedFolder
  <2>4. Heap(emptied) /\ emptied.camera = l.s.camera /\ Looked(t, emptied, Len(q))
    BY <1>4, <1>5, <2>3, LookedRecord, LookedOn
  <2>5. CASE emptied.stale \/ n \in emptied.freed
    <3>1. Looked(emptied, Stale(emptied), Len(q))
      BY <2>4, StaleAndCalled
    <3>2. Looked(t, Stale(emptied), Len(q) + 1)
      BY <1>5, <2>4, <3>1, LookedOn
    <3>3. r = Ret(Stale(emptied), FALSE, NULL)
      BY <1>1, <2>5
    <3> QED BY <3>2, <3>3, LookFromRet DEF r
  <2>6. CASE ~ (emptied.stale \/ n \in emptied.freed)
    <3>1. n \in Cells(emptied.cache) /\ emptied.cache[n].path = q
      BY <2>4, <2>6, StillThere DEF Kept
    <3>2. n = l.n
      BY <2>1, <2>3, <2>4, <3>1 DEF Heap, IsTree
    <3>3. r.s = FilledFolder(emptied, n) /\ r.ok = TRUE /\ r.n = n
      <4> DEFINE w == [filled EXCEPT !.cache[n].folders_dirty = FALSE]
      <4>1. r = Ret(w, TRUE, n)
        BY <1>1, <2>6
      <4>2. t.camera = emptied.camera /\ emptied.cache[n].path = q
        BY <1>4, <2>4, <3>1
      <4>3. w = FilledFolder(emptied, n)
        BY <4>2 DEF FilledFolder
      <4> HIDE DEF w
      <4> QED BY <4>1, <4>3 DEF Ret
    <3>4. /\ Looked(emptied, r.s, Len(q) + 1) /\ n \in Cells(r.s.cache)
          /\ r.s.cache[n].path = q
      BY <2>2, <2>3, <2>4, <3>1, <3>2, <3>3, FillsFolder
    <3>5. Looked(t, r.s, Len(q) + 1)
      BY <1>5, <2>4, <3>4, LookedOn
    <3> QED BY <3>3, <3>4, <3>5 DEF LookFrom, r
  <2> QED BY <2>5, <2>6
<1> QED BY <1>3, <1>6, <1>7 DEF LookFrom

\* gp_filesystem_list_folders.
LEMMA RelistLooked ==
  ASSUME NEW s, NEW q \in Path, NEW look, Looks(look, s, q),
         NEW t \in Records(s), Heap(t)
  PROVE  LookFrom(t, Relist(look, t, q), q, Len(q) + 1)
<1> DEFINE l == look[t]
           c == Called(l.s)
           r == Relist(look, t, q)
<1>1. r = IF ~ l.ok \/ ~ l.s.cache[l.n].folders_dirty THEN l
          ELSE IF CallFails(l.s) \/ q \notin Dirs(l.s.camera) THEN Ret(c, FALSE, l.n)
          ELSE RefillFolders(look, c, l.n, q)
  BY DEF Relist
<1>2. LookFrom(t, l, q, Len(q))
  BY DEF Looks
<1>3. q \in Seq(Name) /\ Len(q) \in Nat /\ Looked(t, l.s, Len(q))
  BY <1>2, PathsAreSequences, LenProperties DEF LookFrom
<1>4. Heap(l.s) /\ l.s \in Records(t) /\ Records(t) = Records(s)
  <2>1. t \in Records(t)
    BY RecordsAreProgress DEF Heap
  <2> QED BY <1>3, LookedRecord DEF Records
<1>5. Looked(l.s, c, Len(q)) /\ Heap(c) /\ c \in Records(s) /\ c.cache = l.s.cache
  <2>1. Looked(l.s, c, Len(q)) /\ c.cache = l.s.cache
    BY <1>4, StaleAndCalled
  <2>2. Heap(c) /\ c \in Records(l.s) /\ Records(l.s) = Records(t)
    BY <1>3, <1>4, <2>1, LookedRecord
  <2> QED BY <1>4, <2>1, <2>2
<1>6. Looked(t, c, Len(q))
  BY <1>3, <1>5, LookedOn
<1> HIDE DEF l, c, r
<1>7. CASE ~ l.ok \/ ~ l.s.cache[l.n].folders_dirty
  <2>1. Looked(t, l.s, Len(q) + 1)
    BY <1>3, LookedWeaker
  <2> QED BY <1>1, <1>2, <1>7, <2>1 DEF LookFrom, r
<1>8. CASE /\ ~ (~ l.ok \/ ~ l.s.cache[l.n].folders_dirty)
           /\ CallFails(l.s) \/ q \notin Dirs(l.s.camera)
  <2>1. Looked(t, c, Len(q) + 1)
    BY <1>3, <1>6, LookedWeaker
  <2>2. r = Ret(c, FALSE, l.n)
    BY <1>1, <1>8
  <2> QED BY <2>1, <2>2, LookFromRet DEF r
<1>9. CASE /\ ~ (~ l.ok \/ ~ l.s.cache[l.n].folders_dirty)
           /\ ~ (CallFails(l.s) \/ q \notin Dirs(l.s.camera))
  <2>1. l.n \in Cells(c.cache) /\ c.cache[l.n].path = q /\ c.cache[l.n].folders_dirty
    BY <1>2, <1>5, <1>9 DEF LookFrom
  <2>2. LookFrom(c, r, q, Len(q) + 1)
    BY <1>1, <1>5, <1>9, <2>1, RefillLooked
  <2>3. Looked(t, r.s, Len(q) + 1)
    BY <1>3, <1>6, <2>2, LookedOn DEF LookFrom
  <2> QED BY <2>2, <2>3 DEF LookFrom, r
<1> QED BY <1>7, <1>8, <1>9

\* One turn of the loop of lookup_folder.
LEMMA EnterLooked ==
  ASSUME NEW s, NEW q \in Path, NEW look, Looks(look, s, q),
         NEW nm \in Name, NEW t \in Records(s), Heap(t)
  PROVE  LookFrom(t, Enter(look, t, q, nm), Append(q, nm), Len(q) + 1)
<1> DEFINE l == look[t]
           u == IF l.s.cache[l.n].folders_dirty THEN Relist(look, l.s, q).s ELSE l.s
           k == Child(u, l.n, nm)
           r == Enter(look, t, q, nm)
<1>1. r = IF ~ l.ok THEN l
          ELSE IF u.stale \/ l.n \in u.freed THEN Ret(Stale(u), FALSE, NULL)
          ELSE Ret(u, k # NULL, k)
  BY DEF Enter
<1>2. LookFrom(t, l, q, Len(q))
  BY DEF Looks
<1>3. q \in Seq(Name) /\ Len(q) \in Nat /\ Looked(t, l.s, Len(q))
  BY <1>2, PathsAreSequences, LenProperties DEF LookFrom
<1>4. Heap(l.s) /\ l.s \in Records(s)
  BY <1>3, LookedRecord DEF Records
<1>5. LookFrom(l.s, Relist(look, l.s, q), q, Len(q) + 1)
  BY <1>4, RelistLooked
<1>6. Looked(l.s, u, Len(q) + 1) /\ Heap(u)
  <2>1. Looked(l.s, l.s, Len(q) + 1)
    BY <1>4, LookedNothing, RecordsAreProgress DEF Heap
  <2> QED BY <1>5, <2>1 DEF LookFrom, Looked
<1>7. Looked(t, u, Len(q) + 1)
  BY <1>3, <1>6, LookedOn
<1> HIDE DEF l, u, k, r
<1>8. CASE ~ l.ok
  <2>1. Looked(t, l.s, Len(q) + 1)
    BY <1>3, LookedWeaker
  <2> QED BY <1>1, <1>2, <1>8, <2>1 DEF LookFrom, r
<1>9. CASE l.ok /\ (u.stale \/ l.n \in u.freed)
  <2>1. Looked(u, Stale(u), Len(q) + 1)
    BY <1>6, StaleAndCalled
  <2>2. Looked(t, Stale(u), Len(q) + 1)
    BY <1>3, <1>7, <2>1, LookedOn
  <2>3. r = Ret(Stale(u), FALSE, NULL)
    BY <1>1, <1>9
  <2> QED BY <2>2, <2>3, LookFromRet DEF r
<1>10. CASE l.ok /\ ~ (u.stale \/ l.n \in u.freed)
  <2>1. l.n \in Cells(l.s.cache) /\ l.s.cache[l.n].path = q
    BY <1>2, <1>10 DEF LookFrom
  <2>2. l.n \in Cells(u.cache) /\ u.cache[l.n].path = q
    BY <1>4, <1>6, <1>10, <2>1, StillThere DEF Kept
  <2>3. IsTree(u.cache)
    BY <1>6 DEF Heap
  <2>4. k # NULL => k \in Cells(u.cache) /\ u.cache[k].path = Append(q, nm)
    BY <2>2, <2>3, ChildFacts DEF k
  <2>5. r.s = u /\ r.ok = (k # NULL) /\ r.n = k
    BY <1>1, <1>10, RetFacts
  <2> QED BY <1>7, <2>4, <2>5 DEF LookFrom, r
<1> QED BY <1>2, <1>8, <1>9, <1>10 DEF LookFrom

-----------------------------------------------------------------------------
(***************************************************************************)
(* lookup_folder: one turn for each name of the path.                      *)
(***************************************************************************)

LookStep(s, p, look, i) ==
  [t \in Records(s) |-> IF i = 0 THEN Ret(t, TRUE, Root)
                        ELSE Enter(look[i - 1], t, SubSeq(p, 1, i - 1), p[i])]

\* The function that enters one folder after the other exists.
LEMMA LooksExist ==
  ASSUME NEW s, NEW p, NEW L \in Nat
  PROVE  \E f : f = [k \in 0 .. L |-> LookStep(s, p, f, k)]
<1> DEFINE Upto(j, f) == f = [k \in 0 .. j |-> LookStep(s, p, f, k)]
           T == {j \in 0 .. L : ~ \E f : Upto(j, f)}
<1>1. ASSUME NEW j \in T, \A k \in T : j <= k
      PROVE  FALSE
  <2>1. j \in Nat /\ j \in 0 .. L /\ ~ \E f : Upto(j, f)
    OBVIOUS
  <2>2. CASE j = 0
    <3> DEFINE f == [k \in 0 .. 0 |-> [t \in Records(s) |-> Ret(t, TRUE, Root)]]
    <3>1. f = [k \in 0 .. 0 |-> LookStep(s, p, f, k)]
      BY DEF LookStep
    <3> QED BY <2>1, <2>2, <3>1
  <2>3. CASE j # 0
    <3>1. j - 1 \in 0 .. L /\ j - 1 \notin T
      BY <1>1, <2>1, <2>3
    <3>2. PICK f : Upto(j - 1, f)
      BY <3>1
    <3> DEFINE g == [k \in 0 .. j |-> IF k < j THEN f[k] ELSE LookStep(s, p, f, j)]
    <3>3. ASSUME NEW k \in 0 .. j
          PROVE  g[k] = LookStep(s, p, g, k)
      <4>1. k = 0 \/ g[k - 1] = f[k - 1]
        BY <2>1
      <4>2. LookStep(s, p, g, k) = LookStep(s, p, f, k)
        <5> HIDE DEF g
        <5>1. CASE k = 0
          BY <5>1 DEF LookStep
        <5>2. CASE g[k - 1] = f[k - 1]
          BY <5>2 DEF LookStep
        <5> QED BY <4>1, <5>1, <5>2
      <4>3. CASE k < j
        <5>1. k \in 0 .. (j - 1)
          BY <2>1, <4>3
        <5>2. f[k] = LookStep(s, p, f, k)
          <6> HIDE DEF g
          <6> QED BY <3>2, <5>1
        <5> QED BY <4>2, <4>3, <5>2
      <4>4. CASE k = j
        BY <4>2, <4>4, <2>1
      <4> QED BY <4>3, <4>4, <2>1
    <3>4. g = [k \in 0 .. j |-> LookStep(s, p, g, k)]
      <4>1. g = [k \in 0 .. j |-> g[k]]
        OBVIOUS
      <4> HIDE DEF g
      <4> QED BY <3>3, <4>1
    <3> QED BY <2>1, <3>4
  <2> QED BY <2>2, <2>3
<1>2. T = {}
  <2>1. T \subseteq Nat
    OBVIOUS
  <2> HIDE DEF T
  <2> QED BY <1>1, <2>1, LeastNat
<1>3. L \in 0 .. L /\ L \notin T
  BY <1>2
<1> QED BY <1>3

LookFunction(s, p) == CHOOSE f : f = [k \in 0 .. Len(p) |-> LookStep(s, p, f, k)]

\* lookup_folder enters one folder after the other.
LEMMA LookFunctionFacts ==
  ASSUME NEW s, NEW p \in Seq(Name)
  PROVE  /\ LookupOf(s, p) = LookFunction(s, p)[Len(p)]
         /\ \A k \in 0 .. Len(p) :
              LookFunction(s, p)[k] = LookStep(s, p, LookFunction(s, p), k)
<1> DEFINE f == LookFunction(s, p)
<1>1. Len(p) \in Nat
  BY LenProperties
<1>2. f = [k \in 0 .. Len(p) |-> LookStep(s, p, f, k)]
  BY <1>1, LooksExist DEF LookFunction
<1>3. LookupOf(s, p) = f[Len(p)]
  BY DEF LookupOf, LookFunction, LookStep
<1> HIDE DEF f
<1>4. \A k \in 0 .. Len(p) : f[k] = LookStep(s, p, f, k)
  BY <1>2
<1> QED BY <1>3, <1>4 DEF f

\* The root folder is where every lookup begins.
LEMMA LookupRoot ==
  ASSUME NEW s
  PROVE  LookupOf(s, << >>) = [t \in Records(s) |-> Ret(t, TRUE, Root)]
<1>1. << >> \in Seq(Name) /\ Len(<< >>) = 0 /\ 0 \in 0 .. 0
  OBVIOUS
<1>2. LookupOf(s, << >>) = LookFunction(s, << >>)[0]
  BY <1>1, LookFunctionFacts
<1>3. LookFunction(s, << >>)[0] = LookStep(s, << >>, LookFunction(s, << >>), 0)
  BY <1>1, LookFunctionFacts
<1> QED BY <1>2, <1>3 DEF LookStep

\* A longer path is looked up as the shorter one, and then the name that follows.
LEMMA LookupSteps ==
  ASSUME NEW s, NEW q \in Seq(Name), NEW nm \in Name
  PROVE  LookupOf(s, Append(q, nm)) =
           [t \in Records(s) |-> Enter(LookupOf(s, q), t, q, nm)]
<1> DEFINE p == Append(q, nm)
           f == LookFunction(s, p)
           g == LookFunction(s, q)
           T == {k \in 0 .. Len(q) : f[k] # g[k]}
<1>2. /\ p \in Seq(Name) /\ Len(p) = Len(q) + 1 /\ Len(q) \in Nat /\ p[Len(q) + 1] = nm
      /\ \A i \in 1 .. Len(q) : p[i] = q[i]
  BY AppendPath, LenProperties
<1> HIDE DEF p, f, g
<1>3. ASSUME NEW i \in 0 .. Len(q)
      PROVE  SubSeq(p, 1, i) = SubSeq(q, 1, i)
  <2>1. i \in 0 .. Len(p) /\ i \in Nat
    BY <1>2
  <2>2. /\ SubSeq(p, 1, i) \in Seq(Name) /\ Len(SubSeq(p, 1, i)) = i
        /\ \A k \in 1 .. i : SubSeq(p, 1, i)[k] = p[k]
    BY <1>2, <2>1, PathPrefix
  <2>3. /\ SubSeq(q, 1, i) \in Seq(Name) /\ Len(SubSeq(q, 1, i)) = i
        /\ \A k \in 1 .. i : SubSeq(q, 1, i)[k] = q[k]
    BY <2>1, PathPrefix
  <2>4. \A k \in 1 .. i : p[k] = q[k]
    BY <1>2, <2>1
  <2> QED BY <2>2, <2>3, <2>4, SamePath
<1>4. /\ \A k \in 0 .. Len(p) : f[k] = LookStep(s, p, f, k)
      /\ \A k \in 0 .. Len(q) : g[k] = LookStep(s, q, g, k)
      /\ LookupOf(s, p) = f[Len(p)] /\ LookupOf(s, q) = g[Len(q)]
  BY <1>2, LookFunctionFacts DEF f, g
<1>5. ASSUME NEW m \in T, \A k \in T : m <= k
      PROVE  FALSE
  <2>1. m \in 0 .. Len(q) /\ m \in 0 .. Len(p) /\ m \in Nat /\ f[m] # g[m]
    BY <1>2
  <2>2. f[m] = LookStep(s, p, f, m) /\ g[m] = LookStep(s, q, g, m)
    BY <1>4, <2>1
  <2>3. CASE m = 0
    <3>1. LookStep(s, p, f, 0) = LookStep(s, q, g, 0)
      BY DEF LookStep
    <3> QED BY <2>1, <2>2, <2>3, <3>1
  <2>4. CASE m # 0
    <3>1. m - 1 \in 0 .. Len(q) /\ m - 1 \notin T /\ m \in 1 .. Len(q)
      BY <1>2, <1>5, <2>1, <2>4
    <3>2. f[m - 1] = g[m - 1] /\ p[m] = q[m] /\ SubSeq(p, 1, m - 1) = SubSeq(q, 1, m - 1)
      BY <1>2, <1>3, <3>1
    <3>3. LookStep(s, p, f, m) = LookStep(s, q, g, m)
      BY <3>2 DEF LookStep
    <3> QED BY <2>1, <2>2, <3>3
  <2> QED BY <2>3, <2>4
<1>6. T = {}
  <2>1. T \subseteq Nat
    BY <1>2
  <2> HIDE DEF T
  <2> QED BY <1>5, <2>1, LeastNat
<1>7. f[Len(q)] = g[Len(q)]
  <2>1. Len(q) \in 0 .. Len(q)
    BY <1>2
  <2> QED BY <1>6, <2>1
<1>8. LookupOf(s, p) = [t \in Records(s) |-> Enter(LookupOf(s, q), t, q, nm)]
  <2>1. Len(p) \in 0 .. Len(p) /\ Len(p) # 0 /\ Len(p) - 1 = Len(q) /\ Len(q) \in 0 .. Len(q)
    BY <1>2
  <2>2. SubSeq(p, 1, Len(q)) = q
    BY <1>3, <2>1, WholePath
  <2>3. LookupOf(s, p) = LookStep(s, p, f, Len(p))
    BY <1>4, <2>1
  <2>4. LookStep(s, p, f, Len(p)) =
          [t \in Records(s) |-> Enter(f[Len(q)], t, SubSeq(p, 1, Len(q)), p[Len(p)])]
    BY <2>1 DEF LookStep
  <2>5. f[Len(q)] = LookupOf(s, q) /\ p[Len(p)] = nm
    BY <1>2, <1>4, <1>7
  <2> QED BY <2>2, <2>3, <2>4, <2>5
<1> QED BY <1>8 DEF p

\* Every path is "/" or a shorter path with one name more.
LEMMA PathCases ==
  ASSUME NEW p \in Path, Len(p) # 0
  PROVE  \E q \in Path, nm \in Name : p = Append(q, nm) /\ Len(p) = Len(q) + 1
<1>1. p \in Seq(Name) /\ Len(p) \in Nat /\ Len(p) <= MaxDepth /\ MaxDepth \in Nat
  BY PathsAreSequences
<1> DEFINE q == SubSeq(p, 1, Len(p) - 1)
<1>2. q \in Seq(Name) /\ Len(q) = Len(p) - 1
  <2>1. Len(p) - 1 \in 0 .. Len(p)
    BY <1>1
  <2> QED BY <1>1, <2>1, PathPrefix
<1>3. SubSeq(p, 1, Len(p)) = Append(q, p[Len(p)]) /\ p[Len(p)] \in Name
  <2>1. Len(p) \in 0 .. Len(p)
    BY <1>1
  <2> QED BY <1>1, <2>1, PathPrefix
<1>4. SubSeq(p, 1, Len(p)) = p
  BY <1>1, WholePath
<1>5. q \in Path
  <2> HIDE DEF q
  <2>1. Len(q) <= MaxDepth
    BY <1>1, <1>2
  <2> QED BY <1>2, <2>1, PathsAreSequences
<1>6. p[Len(p)] \in Name /\ p = Append(q, p[Len(p)]) /\ Len(p) = Len(q) + 1
  BY <1>1, <1>2, <1>3, <1>4
<1> HIDE DEF q
<1> QED BY <1>5, <1>6

\* lookup_folder, by induction over the names of the path.
LEMMA LookupLooks ==
  ASSUME NEW s, NEW p \in Path
  PROVE  Looks(LookupOf(s, p), s, p)
<1> DEFINE T == {Len(q) : q \in {q \in Path : ~ Looks(LookupOf(s, q), s, q)}}
<1>1. T \subseteq Nat
  BY PathsAreSequences
<1>2. ASSUME NEW m \in T, \A k \in T : m <= k
      PROVE  FALSE
  <2>1. PICK q \in Path : ~ Looks(LookupOf(s, q), s, q) /\ m = Len(q)
    OBVIOUS
  <2>2. CASE Len(q) = 0
    <3>1. q = << >>
      BY <2>2, PathsAreSequences, EmptySeq
    <3>2. ASSUME NEW t \in Records(s), Heap(t)
          PROVE  LookFrom(t, LookupOf(s, q)[t], q, Len(q))
      <4>1. LookupOf(s, q) = [u \in Records(s) |-> Ret(u, TRUE, Root)]
        BY <3>1, LookupRoot
      <4>2. LookupOf(s, q)[t] = Ret(t, TRUE, Root)
        BY <4>1
      <4>3. Looked(t, t, Len(q))
        BY <3>2, LookedNothing, RecordsAreProgress DEF Heap
      <4>4. IsTree(t.cache)
        BY <3>2 DEF Heap
      <4>5. Root \in Cells(t.cache) /\ t.cache[Root].path = q
        BY <3>1, <4>4, CellFacts DEF IsTree
      <4>6. LookFrom(t, Ret(t, TRUE, Root), q, Len(q))
        BY <4>3, <4>5, LookFromRet
      <4> QED BY <4>2, <4>6
    <3> QED BY <2>1, <3>2 DEF Looks
  <2>3. CASE Len(q) # 0
    <3>1. PICK o \in Path, nm \in Name : q = Append(o, nm) /\ Len(q) = Len(o) + 1
      BY <2>3, PathCases
    <3>2. o \in Seq(Name) /\ Len(o) \in Nat /\ Len(o) \notin T
      <4>1. o \in Seq(Name) /\ Len(o) \in Nat
        BY PathsAreSequences
      <4>2. m = Len(o) + 1
        BY <2>1, <3>1
      <4>3. ~ (m <= Len(o))
        BY <4>1, <4>2
      <4> QED BY <1>2, <4>1, <4>3
    <3>3. Looks(LookupOf(s, o), s, o)
      BY <3>2
    <3>4. ASSUME NEW t \in Records(s), Heap(t)
          PROVE  LookFrom(t, LookupOf(s, q)[t], q, Len(q))
      <4>1. LookupOf(s, Append(o, nm)) =
              [u \in Records(s) |-> Enter(LookupOf(s, o), u, o, nm)]
        BY <3>2, LookupSteps
      <4>2. LookupOf(s, Append(o, nm))[t] = Enter(LookupOf(s, o), t, o, nm)
        BY <4>1
      <4>3. LookFrom(t, Enter(LookupOf(s, o), t, o, nm), Append(o, nm), Len(o) + 1)
        BY <3>3, <3>4, EnterLooked
      <4> QED BY <3>1, <4>2, <4>3
    <3> QED BY <2>1, <3>4 DEF Looks
  <2> QED BY <2>2, <2>3
<1>3. T = {}
  <2> HIDE DEF T
  <2> QED BY <1>1, <1>2, LeastNat
<1> QED BY <1>3

\* lookup_folder and gp_filesystem_list_folders keep the tree.
LEMMA LookupFacts ==
  ASSUME NEW s, Heap(s), NEW p \in Path
  PROVE  /\ LookFrom(s, Lookup(s, p), p, Len(p))
         /\ LookFrom(s, ListFolders(s, p), p, Len(p) + 1)
<1>1. s \in Records(s)
  BY RecordsAreProgress DEF Heap
<1>2. Looks(LookupOf(s, p), s, p)
  BY LookupLooks
<1>3. LookFrom(s, Lookup(s, p), p, Len(p))
  BY <1>1, <1>2 DEF Looks, Lookup
<1> QED BY <1>1, <1>2, <1>3, RelistLooked DEF ListFolders

-----------------------------------------------------------------------------
(***************************************************************************)
(* While failures are steady, a driver that has failed fails again: what   *)
(* has been looked up once is found again, at the same place.              *)
(***************************************************************************)

SteadyBad(bad) == \A n \in bad : n < MaxCalls => n + 1 \in bad

\* The next driver call fails, and hence all that follow.
Gone(s) == CallFails(s)

\* A lookup of the path q lists nothing, or tries to in vain.
Clear(s, q) ==
  Gone(s) \/ \A n \in Cells(s.cache) :
               Deeper(s.cache[n].path, q) => ~ s.cache[n].folders_dirty

\* Nothing is used that is freed, and a cell whose path is clear stays.
Firm(s, t) ==
  /\ Gone(s) => Gone(t)
  /\ ~ s.stale => ~ t.stale
  /\ \A n \in Cells(s.cache) :
       Clear(s, s.cache[n].path) =>
         /\ n \in Cells(t.cache) /\ t.cache[n].path = s.cache[n].path
         /\ Clear(t, s.cache[n].path)

\* The driver may have been asked in vain; nothing else has happened.
Quiet(s, t) ==
  /\ t.cache = s.cache /\ t.freed = s.freed /\ t.stale = s.stale
  /\ Gone(s) => Gone(t)

\* While failures are steady, a driver that fails goes on failing.
LEMMA GoneStaysGone ==
  ASSUME NEW s, Heap(s), SteadyBad(s.bad), Gone(s)
  PROVE  Gone(Called(s))
<1>1. s \in Progress /\ s.calls \in 0 .. MaxCalls /\ MaxCalls \in Nat \ {0}
  BY ProgressFacts, BoundAssumption DEF Heap
<1>2. Called(s).calls = NextCall(s) /\ Called(s).bad = s.bad
  BY <1>1 DEF Called, Progress
<1>3. NextCall(s) \in s.bad
  BY DEF Gone, CallFails
<1>4. NextCall(Called(s)) \in s.bad
  <2>1. CASE NextCall(s) < MaxCalls
    <3>1. NextCall(Called(s)) = NextCall(s) + 1
      BY <1>2, <2>1 DEF NextCall
    <3> QED BY <1>3, <2>1, <3>1 DEF SteadyBad
  <2>2. CASE ~ (NextCall(s) < MaxCalls)
    <3>1. NextCall(s) = MaxCalls
      BY <1>1, <2>2 DEF NextCall
    <3>2. NextCall(Called(s)) = MaxCalls
      BY <1>1, <1>2, <3>1 DEF NextCall
    <3> QED BY <1>3, <3>1, <3>2
  <2> QED BY <2>1, <2>2
<1> QED BY <1>2, <1>4 DEF Gone, CallFails

\* A call of the driver changes no cell.
LEMMA QuietCall ==
  ASSUME NEW s, Heap(s), SteadyBad(s.bad)
  PROVE  Quiet(s, Called(s))
BY StaleAndCalled, GoneStaysGone DEF Quiet

\* Two quiet steps, together.
LEMMA QuietOn ==
  ASSUME NEW s, NEW t, NEW u, Quiet(s, t), Quiet(t, u)
  PROVE  Quiet(s, u)
BY DEF Quiet

\* A quiet step lists nothing.
LEMMA QuietIsClear ==
  ASSUME NEW s, NEW t, Quiet(s, t), NEW q, Clear(s, q)
  PROVE  Clear(t, q)
BY DEF Quiet, Clear

\* A quiet step keeps every cell.
LEMMA QuietIsFirm ==
  ASSUME NEW s, NEW t, Quiet(s, t)
  PROVE  Firm(s, t)
BY DEF Quiet, Clear, Firm

\* Two firm steps, together.
LEMMA FirmOn ==
  ASSUME NEW s, NEW t, NEW u, Firm(s, t), Firm(t, u)
  PROVE  Firm(s, u)
<1>1. ASSUME NEW n \in Cells(s.cache), Clear(s, s.cache[n].path)
      PROVE  /\ n \in Cells(u.cache) /\ u.cache[n].path = s.cache[n].path
             /\ Clear(u, s.cache[n].path)
  <2>1. /\ n \in Cells(t.cache) /\ t.cache[n].path = s.cache[n].path
        /\ Clear(t, t.cache[n].path)
    BY <1>1 DEF Firm
  <2> QED BY <2>1 DEF Firm
<1> QED BY <1>1 DEF Firm

\* What is clear for a path is clear for the beginnings of the path.
LEMMA ClearBefore ==
  ASSUME NEW s, Heap(s), NEW q \in Seq(Name), NEW nm \in Name
  PROVE  /\ Clear(s, Append(q, nm)) => Clear(s, q)
         /\ Clear(s, Append(q, nm)) <=>
              /\ Clear(s, q)
              /\ Gone(s) \/ \A n \in Cells(s.cache) :
                              s.cache[n].path = q => ~ s.cache[n].folders_dirty
<1>1. \A n \in Cells(s.cache) : s.cache[n].path \in Seq(Name)
  BY CellFacts DEF Heap
<1>2. \A n \in Cells(s.cache) :
        Deeper(s.cache[n].path, Append(q, nm)) <=>
          s.cache[n].path = q \/ Deeper(s.cache[n].path, q)
  BY <1>1, DeeperAppend
<1> DEFINE p == Append(q, nm)
<1> HIDE DEF p
<1>3. \A n \in Cells(s.cache) :
        Deeper(s.cache[n].path, p) <=>
          s.cache[n].path = q \/ Deeper(s.cache[n].path, q)
  BY <1>2 DEF p
<1>4. Clear(s, p) <=>
        /\ Clear(s, q)
        /\ Gone(s) \/ \A n \in Cells(s.cache) :
                        s.cache[n].path = q => ~ s.cache[n].folders_dirty
  BY <1>3 DEF Clear
<1> QED BY <1>4 DEF p

\* What a lookup finds, or does not find, when its path is clear.
LooksQuietly(look, s, q) ==
  \A t \in Records(s) :
    Heap(t) /\ ~ t.stale /\ Clear(t, q) =>
      /\ Quiet(t, look[t].s)
      /\ look[t].ok <=> Has(t.cache, q)

\* Listing a dirty folder in vain.
LEMMA RelistQuietly ==
  ASSUME NEW s, SteadyBad(s.bad), NEW q \in Path, NEW look,
         Looks(look, s, q), LooksQuietly(look, s, q),
         NEW t \in Records(s), Heap(t), ~ t.stale, Gone(t), NEW n \in Cells(t.cache),
         t.cache[n].path = q, t.cache[n].folders_dirty
  PROVE  Quiet(t, Relist(look, t, q).s)
<1> DEFINE l == look[t]
           c == Called(l.s)
<1>1. LookFrom(t, l, q, Len(q))
  BY DEF Looks
<1>2. Clear(t, q)
  BY DEF Clear
<1>3. Quiet(t, l.s) /\ l.ok
  BY <1>2 DEF LooksQuietly, Has
<1>4. Relist(look, t, q) =
        IF ~ l.ok \/ ~ l.s.cache[l.n].folders_dirty THEN l
        ELSE IF CallFails(l.s) \/ q \notin Dirs(l.s.camera) THEN Ret(c, FALSE, l.n)
        ELSE RefillFolders(look, c, l.n, q)
  BY DEF Relist
<1>5. Heap(l.s) /\ SteadyBad(l.s.bad)
  <2>1. Looked(t, l.s, Len(q)) /\ t.bad = s.bad
    BY <1>1 DEF LookFrom, Records
  <2>2. Heap(l.s) /\ l.s.bad = t.bad
    BY <2>1, LookedRecord
  <2> QED BY <2>1, <2>2
<1> HIDE DEF l, c
<1>6. CallFails(l.s)
  BY <1>3 DEF Quiet, Gone
<1>7. CASE ~ l.s.cache[l.n].folders_dirty
  BY <1>3, <1>4, <1>7
<1>8. CASE l.s.cache[l.n].folders_dirty
  <2>1. Relist(look, t, q) = Ret(c, FALSE, l.n)
    BY <1>3, <1>4, <1>6, <1>8
  <2>2. Quiet(l.s, c)
    BY <1>5, QuietCall DEF c
  <2>3. Quiet(t, c)
    BY <1>3, <2>2, QuietOn
  <2> QED BY <2>1, <2>3 DEF Ret
<1> QED BY <1>7, <1>8

\* One turn of lookup_folder's loop, where the path is clear.
LEMMA EnterQuietly ==
  ASSUME NEW s, SteadyBad(s.bad), NEW q \in Path, NEW look,
         Looks(look, s, q), LooksQuietly(look, s, q), NEW nm \in Name,
         NEW t \in Records(s), Heap(t), ~ t.stale, Clear(t, Append(q, nm))
  PROVE  LET r == Enter(look, t, q, nm)
         IN Quiet(t, r.s) /\ (r.ok <=> Has(t.cache, Append(q, nm)))
<1> DEFINE l == look[t]
           u == IF l.s.cache[l.n].folders_dirty THEN Relist(look, l.s, q).s ELSE l.s
           k == Child(u, l.n, nm)
           r == Enter(look, t, q, nm)
<1>1. r = IF ~ l.ok THEN l
          ELSE IF u.stale \/ l.n \in u.freed THEN Ret(Stale(u), FALSE, NULL)
          ELSE Ret(u, k # NULL, k)
  BY DEF Enter
<1>2. q \in Seq(Name) /\ Append(q, nm) \in Seq(Name) /\ Deeper(q, Append(q, nm))
  BY PathsAreSequences, AppendPath
<1>3. /\ Clear(t, q)
      /\ Gone(t) \/ \A n \in Cells(t.cache) :
                      t.cache[n].path = q => ~ t.cache[n].folders_dirty
  BY <1>2, ClearBefore
<1>4. LookFrom(t, l, q, Len(q))
  BY DEF Looks
<1>5. Quiet(t, l.s) /\ (l.ok <=> Has(t.cache, q))
  BY <1>3 DEF LooksQuietly
<1>6. Heap(l.s) /\ l.s \in Records(s) /\ ~ l.s.stale
  <2>1. Looked(t, l.s, Len(q))
    BY <1>4 DEF LookFrom
  <2>2. Heap(l.s) /\ l.s \in Records(t) /\ Records(t) = Records(s)
    BY <2>1, LookedRecord DEF Records
  <2> QED BY <1>5, <2>2 DEF Quiet
<1> HIDE DEF l, r
<1>7. CASE ~ l.ok
  <2>1. ~ Has(t.cache, q)
    BY <1>5, <1>7
  <2>2. ~ Has(t.cache, Append(q, nm))
    <3> DEFINE p == Append(q, nm)
    <3>1. \A n \in Cells(t.cache) : ~ Deeper(q, t.cache[n].path)
      BY <1>2, <2>1, AncestorFacts DEF Heap
    <3>2. Deeper(q, p)
      BY <1>2
    <3> HIDE DEF p
    <3>3. ~ Has(t.cache, p)
      BY <3>1, <3>2 DEF Has
    <3> QED BY <3>3 DEF p
  <2> QED BY <1>1, <1>5, <1>7, <2>2 DEF r
<1>8. CASE l.ok
  <2>1. l.n \in Cells(l.s.cache) /\ l.s.cache[l.n].path = q
    BY <1>4, <1>8 DEF LookFrom
  <2>2. Quiet(l.s, u)
    <3>1. CASE l.s.cache[l.n].folders_dirty
      <4>1. Gone(l.s)
        BY <1>3, <1>5, <2>1, <3>1 DEF Quiet
      <4>2. Quiet(l.s, Relist(look, l.s, q).s)
        BY <1>6, <2>1, <3>1, <4>1, RelistQuietly
      <4> QED BY <3>1, <4>2
    <3>2. CASE ~ l.s.cache[l.n].folders_dirty
      BY <3>2 DEF Quiet
    <3> QED BY <3>1, <3>2
  <2> HIDE DEF u
  <2>3. Quiet(t, u) /\ u.cache = l.s.cache /\ u.cache = t.cache /\ ~ u.stale /\ u.freed = l.s.freed
    BY <1>5, <1>6, <2>2, QuietOn DEF Quiet
  <2>4. l.n \notin u.freed
    BY <1>6, <2>1, <2>3 DEF Heap
  <2>5. IsTree(u.cache) /\ l.n \in Cells(u.cache) /\ u.cache[l.n].path = q
    BY <1>6, <2>1, <2>3 DEF Heap
  <2>6. /\ k # NULL => k \in Cells(u.cache) /\ u.cache[k].path = Append(q, nm)
        /\ Has(u.cache, Append(q, nm)) => k # NULL
    BY <2>5, ChildFacts
  <2> HIDE DEF k
  <2>7. r = Ret(u, k # NULL, k)
    BY <1>1, <1>8, <2>3, <2>4
  <2>8. k # NULL <=> Has(t.cache, Append(q, nm))
    BY <2>3, <2>6 DEF Has
  <2>9. r.s = u /\ r.ok = (k # NULL)
    BY <2>7 DEF Ret
  <2> QED BY <2>3, <2>8, <2>9 DEF r
<1> QED BY <1>7, <1>8

\* lookup_folder, where the path is clear, lists nothing.
LEMMA LookupLooksQuietly ==
  ASSUME NEW s, SteadyBad(s.bad), NEW p \in Path
  PROVE  LooksQuietly(LookupOf(s, p), s, p)
<1> DEFINE T == {Len(q) : q \in {q \in Path : ~ LooksQuietly(LookupOf(s, q), s, q)}}
<1>1. T \subseteq Nat
  BY PathsAreSequences
<1>2. ASSUME NEW m \in T, \A k \in T : m <= k
      PROVE  FALSE
  <2>1. PICK q \in Path : ~ LooksQuietly(LookupOf(s, q), s, q) /\ m = Len(q)
    OBVIOUS
  <2>2. CASE Len(q) = 0
    <3>1. q = << >>
      BY <2>2, PathsAreSequences, EmptySeq
    <3>2. ASSUME NEW t \in Records(s), Heap(t)
          PROVE  Quiet(t, LookupOf(s, q)[t].s) /\ (LookupOf(s, q)[t].ok <=> Has(t.cache, q))
      <4>1. LookupOf(s, q) = [u \in Records(s) |-> Ret(u, TRUE, Root)]
        BY <3>1, LookupRoot
      <4>2. LookupOf(s, q)[t] = Ret(t, TRUE, Root)
        BY <4>1
      <4>3. LookupOf(s, q)[t].s = t /\ LookupOf(s, q)[t].ok
        BY <4>2 DEF Ret
      <4>4. IsTree(t.cache)
        BY <3>2 DEF Heap
      <4>5. Root \in Cells(t.cache) /\ t.cache[Root].path = q
        BY <3>1, <4>4, CellFacts DEF IsTree
      <4> QED BY <4>3, <4>5 DEF Has, Quiet
    <3> QED BY <2>1, <3>2 DEF LooksQuietly
  <2>3. CASE Len(q) # 0
    <3>1. PICK o \in Path, nm \in Name : q = Append(o, nm) /\ Len(q) = Len(o) + 1
      BY <2>3, PathCases
    <3>2. o \in Seq(Name) /\ Len(o) \in Nat /\ Len(o) \notin T
      <4>1. o \in Seq(Name) /\ Len(o) \in Nat /\ ~ (m <= Len(o))
        BY <2>1, <3>1, PathsAreSequences
      <4> HIDE DEF T
      <4> QED BY <1>2, <4>1
    <3>3. LooksQuietly(LookupOf(s, o), s, o) /\ Looks(LookupOf(s, o), s, o)
      BY <3>2, LookupLooks
    <3>4. ASSUME NEW t \in Records(s), Heap(t), ~ t.stale, Clear(t, q)
          PROVE  Quiet(t, LookupOf(s, q)[t].s) /\ (LookupOf(s, q)[t].ok <=> Has(t.cache, q))
      <4>1. LookupOf(s, Append(o, nm)) =
              [u \in Records(s) |-> Enter(LookupOf(s, o), u, o, nm)]
        BY <3>2, LookupSteps
      <4>2. LookupOf(s, q)[t] = Enter(LookupOf(s, o), t, o, nm)
        BY <3>1, <4>1
      <4>3. Clear(t, Append(o, nm))
        BY <3>1, <3>4
      <4>4. /\ Quiet(t, Enter(LookupOf(s, o), t, o, nm).s)
            /\ Enter(LookupOf(s, o), t, o, nm).ok <=> Has(t.cache, Append(o, nm))
        BY <3>3, <3>4, <4>3, EnterQuietly
      <4> QED BY <3>1, <4>2, <4>4
    <3> QED BY <2>1, <3>4 DEF LooksQuietly
  <2> QED BY <2>2, <2>3
<1>3. T = {}
  <2> HIDE DEF T
  <2> QED BY <1>1, <1>2, LeastNat
<1> QED BY <1>3

OpenTo(c, q) == \A n \in Cells(c) : Deeper(c[n].path, q) => ~ c[n].folders_dirty

\* A folder that is listed anew: what is not below it stays, and stays open.
LEMMA FillsFirmly ==
  ASSUME NEW v, Heap(v), NEW n \in Cells(v.cache), v.cache[n].folders_dirty,
         OpenTo(v.cache, v.cache[n].path)
  PROVE  LET e == Release(v, Below(v, n))
             u == FilledFolder(e, n)
             q == v.cache[n].path
         IN /\ u.stale = v.stale /\ n \notin e.freed /\ e.stale = v.stale
            /\ n \in Cells(u.cache) /\ u.cache[n].path = q /\ ~ u.cache[n].folders_dirty
            /\ OpenTo(u.cache, q)
            /\ \A m \in Cells(v.cache) :
                 OpenTo(v.cache, v.cache[m].path) =>
                   /\ m \in Cells(u.cache) /\ u.cache[m].path = v.cache[m].path
                   /\ OpenTo(u.cache, v.cache[m].path)
<1> DEFINE e == Release(v, Below(v, n))
           u == FilledFolder(e, n)
           q == v.cache[n].path
<1>1. /\ Looked(v, e, 0) /\ e.stale = v.stale
      /\ e.freed = v.freed \union Below(v, n)
      /\ n \in Cells(e.cache) /\ e.cache[n] = v.cache[n]
      /\ \A k \in Cells(e.cache) : ~ Deeper(q, e.cache[k].path)
  BY EmptiedFolder
<1>2. Heap(e) /\ IsTree(v.cache) /\ q \in Seq(Name)
  BY <1>1, CellFacts DEF Looked, Heap
<1>3. Cells(e.cache) = Cells(v.cache) \ Below(v, n)
      /\ \A k \in Cells(e.cache) : e.cache[k] = v.cache[k]
  BY EmptyFacts
<1> HIDE DEF e
<1>4. /\ Looked(e, u, Len(q) + 1) /\ u.stale = e.stale /\ u.freed = e.freed
      /\ n \in Cells(u.cache) /\ u.cache[n].path = q /\ ~ u.cache[n].folders_dirty
      /\ \A k \in Cells(u.cache) \ Cells(e.cache) :
                 u.cache[k].parent = n /\ u.cache[k].folders_dirty
  <2>1. e.cache[n].folders_dirty /\ e.cache[n].path = q
    BY <1>1
  <2>2. \A k \in Cells(e.cache) : ~ Deeper(e.cache[n].path, e.cache[k].path)
    BY <1>1
  <2>3. /\ Looked(e, u, Len(e.cache[n].path) + 1) /\ u.stale = e.stale /\ u.freed = e.freed
        /\ n \in Cells(u.cache) /\ u.cache[n].path = e.cache[n].path
        /\ ~ u.cache[n].folders_dirty
        /\ \A k \in Cells(u.cache) \ Cells(e.cache) :
                   u.cache[k].parent = n /\ u.cache[k].folders_dirty
    BY <1>1, <1>2, <2>1, <2>2, FillsFolder, ZenonT(30)
  <2> HIDE DEF u, q
  <2> QED BY <2>1, <2>3
<1>5. Heap(u) /\ IsTree(u.cache)
  BY <1>4 DEF Looked, Heap
<1>6. \A k \in Cells(e.cache) : k \in Cells(u.cache) /\ Kept(e.cache[k], u.cache[k])
  BY <1>2, <1>4 DEF Looked, Moved, Heap
<1> HIDE DEF u, q
<1>7. \A k \in Cells(u.cache) \ Cells(e.cache) : Deeper(q, u.cache[k].path)
  <2>1. ASSUME NEW k \in Cells(u.cache) \ Cells(e.cache)
        PROVE  Deeper(q, u.cache[k].path)
    <3>1. u.cache[k].parent = n /\ n # NULL
      BY <1>2, <1>4, CellFacts
    <3>2. k \in Cells(u.cache) \ {Root}
      BY <1>5, <3>1 DEF IsTree
    <3>3. Last(u.cache[k].path) \in Name /\ u.cache[k].path = Append(q, Last(u.cache[k].path))
      BY <1>4, <1>5, <3>1, <3>2, ParentFacts
    <3> QED BY <1>2, <3>3, AppendPath
  <2> QED BY <2>1
<1>8. n \notin Below(v, n) /\ n \notin v.freed
  BY <1>2, BelowFacts DEF Heap
<1>9. \A k \in Cells(v.cache) : ~ Deeper(q, v.cache[k].path) => k \in Cells(e.cache)
  BY <1>2, <1>3, BelowFacts DEF q
<1>10. ASSUME NEW p \in Seq(Name), OpenTo(v.cache, p), ~ Deeper(q, p)
       PROVE  OpenTo(u.cache, p)
  <2>1. ASSUME NEW k \in Cells(u.cache), Deeper(u.cache[k].path, p)
        PROVE  ~ u.cache[k].folders_dirty
    <3>1. CASE k \in Cells(e.cache)
      <4>1. k \in Cells(v.cache) /\ Kept(v.cache[k], u.cache[k])
        BY <1>3, <1>6, <3>1
      <4> QED BY <1>10, <2>1, <4>1 DEF OpenTo, Kept
    <3>2. CASE k \notin Cells(e.cache)
      <4>1. Deeper(q, u.cache[k].path) /\ u.cache[k].path \in Seq(Name)
        BY <1>5, <1>7, <3>2, CellFacts
      <4>2. Deeper(q, p)
        BY <1>2, <2>1, <4>1, DeeperIsAnOrder
      <4> QED BY <1>10, <4>2
    <3> QED BY <3>1, <3>2
  <2> QED BY <2>1 DEF OpenTo
<1>11. ASSUME NEW m \in Cells(v.cache), OpenTo(v.cache, v.cache[m].path)
       PROVE  /\ m \in Cells(u.cache) /\ u.cache[m].path = v.cache[m].path
              /\ OpenTo(u.cache, v.cache[m].path)
  <2>1. ~ Deeper(q, v.cache[m].path) /\ v.cache[m].path \in Seq(Name)
    BY <1>2, <1>11, CellFacts DEF OpenTo, q
  <2>2. m \in Cells(e.cache) /\ e.cache[m] = v.cache[m]
    BY <1>3, <1>9, <2>1
  <2> QED BY <1>6, <1>10, <1>11, <2>1, <2>2 DEF Kept
<1>12. OpenTo(u.cache, q)
  BY <1>11 DEF q
<1>13. n \notin e.freed /\ u.stale = v.stale
  BY <1>1, <1>4, <1>8
<1>14. \A m \in Cells(v.cache) :
         OpenTo(v.cache, v.cache[m].path) =>
           /\ m \in Cells(u.cache) /\ u.cache[m].path = v.cache[m].path
           /\ OpenTo(u.cache, v.cache[m].path)
  BY <1>11
<1> QED BY <1>1, <1>4, <1>12, <1>13, <1>14 DEF u, e, q

LooksFirmly(look, s, q) ==
  \A t \in Records(s) :
    Heap(t) /\ ~ t.stale =>
      /\ Firm(t, look[t].s) /\ Clear(look[t].s, q)
      /\ look[t].ok <=> Has(look[t].s.cache, q)

\* A folder has been listed, or can no more be listed.
AtRest(s, q) ==
  Gone(s) \/ \A n \in Cells(s.cache) : s.cache[n].path = q => ~ s.cache[n].folders_dirty

\* gp_filesystem_list_folders keeps the folders whose path is clear.
LEMMA RelistFirmly ==
  ASSUME NEW s, SteadyBad(s.bad), NEW q \in Path, NEW look,
         Looks(look, s, q), LooksQuietly(look, s, q), LooksFirmly(look, s, q),
         NEW t \in Records(s), Heap(t), ~ t.stale
  PROVE  LET r == Relist(look, t, q)
         IN /\ Firm(t, r.s) /\ Clear(r.s, q) /\ AtRest(r.s, q)
            /\ ~ look[t].ok => ~ Has(r.s.cache, q)
<1> DEFINE l == look[t]
           c == Called(l.s)
           r == Relist(look, t, q)
<1>1. r = IF ~ l.ok \/ ~ l.s.cache[l.n].folders_dirty THEN l
          ELSE IF CallFails(l.s) \/ q \notin Dirs(l.s.camera) THEN Ret(c, FALSE, l.n)
          ELSE RefillFolders(look, c, l.n, q)
  BY DEF Relist
<1>2. LookFrom(t, l, q, Len(q)) /\ q \in Seq(Name)
  BY PathsAreSequences DEF Looks
<1>3. Firm(t, l.s) /\ Clear(l.s, q) /\ (l.ok <=> Has(l.s.cache, q)) /\ ~ l.s.stale
  <2>1. Firm(t, l.s) /\ Clear(l.s, q) /\ (l.ok <=> Has(l.s.cache, q))
    BY DEF LooksFirmly
  <2> QED BY <2>1 DEF Firm
<1>4. Heap(l.s) /\ SteadyBad(l.s.bad) /\ Records(l.s) = Records(s)
  <2>1. Looked(t, l.s, Len(q)) /\ t.bad = s.bad
    BY <1>2 DEF LookFrom, Records
  <2>2. Heap(l.s) /\ l.s.bad = t.bad /\ Records(l.s) = Records(t)
    BY <2>1, LookedRecord
  <2> QED BY <2>1, <2>2 DEF Records
<1>5. Quiet(l.s, c) /\ Looked(l.s, c, 0) /\ c.cache = l.s.cache /\ c.stale = l.s.stale
      /\ Heap(c) /\ c \in Records(s)
  <2>1. Looked(l.s, c, 0) /\ c.cache = l.s.cache /\ c.stale = l.s.stale
    BY <1>4, StaleAndCalled
  <2>2. Heap(c) /\ c \in Records(l.s)
    BY <1>4, <2>1, LookedRecord
  <2> QED BY <1>4, <2>1, <2>2, QuietCall
<1>6. IsTree(l.s.cache)
  BY <1>4 DEF Heap
<1> HIDE DEF l, c, r
<1>7. CASE ~ l.ok
  BY <1>1, <1>3, <1>7 DEF AtRest, Has, r, l
<1>8. CASE l.ok /\ ~ l.s.cache[l.n].folders_dirty
  <2>1. \A n \in Cells(l.s.cache) : l.s.cache[n].path = q => n = l.n
    BY <1>2, <1>6, <1>8 DEF LookFrom, IsTree
  <2> QED BY <1>1, <1>3, <1>8, <2>1 DEF AtRest, r, l
<1>9. CASE /\ l.ok /\ l.s.cache[l.n].folders_dirty
           /\ CallFails(l.s) \/ q \notin Dirs(l.s.camera)
  <2>1. r.s = c
    BY <1>1, <1>9 DEF Ret
  <2>2. l.n \in Cells(l.s.cache) /\ l.s.cache[l.n].path = q
    BY <1>2, <1>9 DEF LookFrom
  <2>3. q \in Dirs(l.s.camera)
    BY <1>4, <2>2 DEF Heap
  <2>4. Gone(c)
    BY <1>5, <1>9, <2>3 DEF Quiet, Gone
  <2>5. Firm(t, c)
    BY <1>3, <1>5, QuietIsFirm, FirmOn
  <2> QED BY <1>9, <2>1, <2>4, <2>5 DEF AtRest, Clear, r, l
<1>10. CASE /\ l.ok /\ l.s.cache[l.n].folders_dirty
            /\ ~ (CallFails(l.s) \/ q \notin Dirs(l.s.camera))
  <2> DEFINE n == l.n
             k == look[c]
             e == DeleteAllFolders(look, c)
             u == FilledFolder(e, n)
  <2>1. r = RefillFolders(look, c, n, q)
    BY <1>1, <1>10
  <2>2. n \in Cells(c.cache) /\ c.cache[n].path = q /\ c.cache[n].folders_dirty
    BY <1>2, <1>5, <1>10 DEF LookFrom
  <2>3. OpenTo(c.cache, q) /\ Clear(c, q)
    BY <1>3, <1>5, <1>10 DEF OpenTo, Clear, Gone
  <2>4. LookFrom(c, k, q, Len(q))
    BY <1>5 DEF Looks
  <2>5. Quiet(c, k.s) /\ k.ok
    BY <1>3, <1>5, <2>2, <2>3 DEF LooksQuietly, Has
  <2>6. Heap(k.s) /\ k.n \in Cells(k.s.cache) /\ k.s.cache[k.n].path = q
    BY <2>4, <2>5 DEF LookFrom, Looked
  <2>7. k.s.cache = c.cache /\ k.s.stale = c.stale /\ k.n = n
    BY <1>5, <2>2, <2>5, <2>6, ZenonT(30) DEF Quiet, Heap, IsTree
  <2>8. e = Release(k.s, Below(k.s, n))
    BY <2>5, <2>7 DEF DeleteAllFolders
  <2> HIDE DEF n, k, e, u
  <2>9. /\ u.stale = k.s.stale /\ n \notin e.freed /\ e.stale = k.s.stale
        /\ n \in Cells(u.cache) /\ u.cache[n].path = q /\ ~ u.cache[n].folders_dirty
        /\ OpenTo(u.cache, q)
        /\ \A m \in Cells(k.s.cache) :
             OpenTo(k.s.cache, k.s.cache[m].path) =>
               /\ m \in Cells(u.cache) /\ u.cache[m].path = k.s.cache[m].path
               /\ OpenTo(u.cache, k.s.cache[m].path)
    <3>1. n \in Cells(k.s.cache) /\ k.s.cache[n].folders_dirty /\ k.s.cache[n].path = q
      BY <2>2, <2>7
    <3>2. OpenTo(k.s.cache, k.s.cache[n].path)
      BY <2>3, <2>7, <3>1
    <3> QED BY <2>6, <2>8, <3>1, <3>2, FillsFirmly DEF u
  <2>10. r.s = u
    <3> DEFINE f == AppendFolders(e, n, SubDirs(c.camera, q))
    <3>1. ~ e.stale
      BY <1>3, <1>5, <2>7, <2>9
    <3>2. r = Ret([f EXCEPT !.cache[n].folders_dirty = FALSE], TRUE, n)
      BY <2>1, <2>9, <3>1 DEF RefillFolders, e
    <3>3. e.camera = c.camera /\ e.cache[n].path = q
      <4>1. n \in Cells(k.s.cache) /\ k.s.cache[n].folders_dirty
        BY <2>2, <2>7
      <4>2. Looked(k.s, e, 0) /\ e.cache[n] = k.s.cache[n]
        BY <2>6, <2>8, <4>1, EmptiedFolder
      <4>3. e.camera = k.s.camera /\ k.s.camera = c.camera
        BY <1>5, <2>4, <2>6, <4>2, LookedRecord DEF LookFrom
      <4> QED BY <2>2, <2>7, <4>2, <4>3
    <3>4. u = [f EXCEPT !.cache[n].folders_dirty = FALSE]
      BY <3>3 DEF FilledFolder, u
    <3> DEFINE w == [f EXCEPT !.cache[n].folders_dirty = FALSE]
    <3>5. r = Ret(w, TRUE, n) /\ u = w
      BY <3>2, <3>4
    <3> HIDE DEF w
    <3> QED BY <3>5 DEF Ret
  <2>11. Firm(l.s, u)
    <3>1. ~ Gone(l.s)
      BY <1>10 DEF Gone
    <3>2. ~ u.stale
      BY <1>3, <1>5, <2>7, <2>9
    <3>3. ASSUME NEW m \in Cells(l.s.cache), Clear(l.s, l.s.cache[m].path)
          PROVE  /\ m \in Cells(u.cache) /\ u.cache[m].path = l.s.cache[m].path
                 /\ Clear(u, l.s.cache[m].path)
      <4>1. OpenTo(l.s.cache, l.s.cache[m].path)
        BY <3>1, <3>3 DEF Clear, OpenTo
      <4>2. k.s.cache = l.s.cache
        BY <1>5, <2>7
      <4>3. /\ m \in Cells(u.cache) /\ u.cache[m].path = l.s.cache[m].path
            /\ OpenTo(u.cache, l.s.cache[m].path)
        BY <2>9, <4>1, <4>2
      <4> QED BY <4>3 DEF Clear, OpenTo
    <3> QED BY <3>1, <3>2, <3>3 DEF Firm
  <2>12. Firm(t, u) /\ Clear(u, q)
    BY <1>3, <2>9, <2>11, FirmOn DEF Clear, OpenTo
  <2>13. AtRest(u, q)
    <3>1. LookFrom(t, r, q, Len(q) + 1)
      BY RelistLooked DEF r
    <3>2. IsTree(u.cache)
      BY <2>10, <3>1 DEF LookFrom, Looked, Heap
    <3>3. \A m \in Cells(u.cache) : u.cache[m].path = q => m = n
      BY <2>9, <3>2 DEF IsTree
    <3> QED BY <2>9, <3>3 DEF AtRest
  <2> QED BY <1>10, <2>10, <2>12, <2>13 DEF r, l
<1> QED BY <1>2, <1>7, <1>8, <1>9, <1>10 DEF LookFrom

\* One turn of lookup_folder's loop keeps them.
LEMMA EnterFirmly ==
  ASSUME NEW s, SteadyBad(s.bad), NEW q \in Path, NEW look,
         Looks(look, s, q), LooksQuietly(look, s, q), LooksFirmly(look, s, q),
         NEW nm \in Name, NEW t \in Records(s), Heap(t), ~ t.stale
  PROVE  LET r == Enter(look, t, q, nm)
         IN /\ Firm(t, r.s) /\ Clear(r.s, Append(q, nm))
            /\ r.ok <=> Has(r.s.cache, Append(q, nm))
<1> DEFINE l == look[t]
           u == IF l.s.cache[l.n].folders_dirty THEN Relist(look, l.s, q).s ELSE l.s
           k == Child(u, l.n, nm)
           r == Enter(look, t, q, nm)
           p == Append(q, nm)
<1>1. r = IF ~ l.ok THEN l
          ELSE IF u.stale \/ l.n \in u.freed THEN Ret(Stale(u), FALSE, NULL)
          ELSE Ret(u, k # NULL, k)
  BY DEF Enter
<1>2. q \in Seq(Name) /\ p \in Seq(Name) /\ Deeper(q, p)
  BY PathsAreSequences, AppendPath
<1>3. LookFrom(t, l, q, Len(q))
  BY DEF Looks
<1>4. Firm(t, l.s) /\ Clear(l.s, q) /\ (l.ok <=> Has(l.s.cache, q))
  BY DEF LooksFirmly
<1>5. Heap(l.s) /\ l.s \in Records(s) /\ ~ l.s.stale
  <2>1. Looked(t, l.s, Len(q))
    BY <1>3 DEF LookFrom
  <2>2. Heap(l.s) /\ l.s \in Records(t) /\ Records(t) = Records(s)
    BY <2>1, LookedRecord DEF Records
  <2> QED BY <1>4, <2>2 DEF Firm
<1>6. \A v : Heap(v) =>
        (Clear(v, p) <=>
           /\ Clear(v, q)
           /\ Gone(v) \/ \A n \in Cells(v.cache) :
                           v.cache[n].path = q => ~ v.cache[n].folders_dirty)
  BY <1>2, ClearBefore
<1> HIDE DEF l, r, p
<1>7. CASE ~ l.ok
  <2>1. ~ Has(l.s.cache, q)
    BY <1>4, <1>7
  <2>2. ~ Has(l.s.cache, p)
    <3>1. \A n \in Cells(l.s.cache) : ~ Deeper(q, l.s.cache[n].path)
      BY <1>2, <1>5, <2>1, AncestorFacts DEF Heap
    <3> QED BY <1>2, <3>1 DEF Has
  <2>3. Clear(l.s, p)
    BY <1>4, <1>5, <1>6, <2>1 DEF Has
  <2> QED BY <1>1, <1>4, <1>7, <2>2, <2>3 DEF r, p
<1>8. CASE l.ok
  <2>1. l.n \in Cells(l.s.cache) /\ l.s.cache[l.n].path = q /\ IsTree(l.s.cache)
    BY <1>3, <1>5, <1>8 DEF LookFrom, Heap
  <2>2. Firm(l.s, u) /\ Clear(u, q) /\ AtRest(u, q)
    <3>1. CASE l.s.cache[l.n].folders_dirty
      <4>1. LET v == Relist(look, l.s, q).s
            IN Firm(l.s, v) /\ Clear(v, q) /\ AtRest(v, q)
        BY <1>5, RelistFirmly
      <4> QED BY <3>1, <4>1
    <3>2. CASE ~ l.s.cache[l.n].folders_dirty
      <4>1. \A n \in Cells(l.s.cache) : l.s.cache[n].path = q => n = l.n
        BY <2>1 DEF IsTree
      <4>2. Firm(l.s, l.s)
        BY DEF Firm
      <4> QED BY <1>4, <3>2, <4>1, <4>2 DEF AtRest
    <3> QED BY <3>1, <3>2
  <2>3. Heap(u)
    <3>1. LookFrom(l.s, Relist(look, l.s, q), q, Len(q) + 1)
      BY <1>5, RelistLooked
    <3> QED BY <1>5, <3>1 DEF LookFrom, Looked
  <2> HIDE DEF u
  <2>4. l.n \in Cells(u.cache) /\ u.cache[l.n].path = q /\ ~ u.stale
    BY <1>4, <1>5, <2>1, <2>2 DEF Firm
  <2>5. l.n \notin u.freed /\ IsTree(u.cache)
    BY <2>3, <2>4 DEF Heap
  <2>6. /\ k # NULL => k \in Cells(u.cache) /\ u.cache[k].path = p
        /\ Has(u.cache, p) => k # NULL
    BY <2>4, <2>5, ChildFacts DEF p
  <2> HIDE DEF k
  <2>7. r = Ret(u, k # NULL, k)
    BY <1>1, <1>8, <2>4, <2>5
  <2>8. r.s = u /\ r.ok = (k # NULL)
    BY <2>7 DEF Ret
  <2>9. k # NULL <=> Has(u.cache, p)
    BY <2>6 DEF Has
  <2>10. Clear(u, p)
    BY <1>6, <2>2, <2>3 DEF AtRest
  <2>11. Firm(t, u)
    BY <1>4, <2>2, FirmOn
  <2> QED BY <2>8, <2>9, <2>10, <2>11 DEF r, p
<1> QED BY <1>7, <1>8

\* lookup_folder keeps the folders whose path is clear, and clears its own path.
LEMMA LookupLooksFirmly ==
  ASSUME NEW s, SteadyBad(s.bad), NEW p \in Path
  PROVE  LooksFirmly(LookupOf(s, p), s, p)
<1> DEFINE T == {Len(q) : q \in {q \in Path : ~ LooksFirmly(LookupOf(s, q), s, q)}}
<1>1. T \subseteq Nat
  BY PathsAreSequences
<1>2. ASSUME NEW m \in T, \A k \in T : m <= k
      PROVE  FALSE
  <2>1. PICK q \in Path : ~ LooksFirmly(LookupOf(s, q), s, q) /\ m = Len(q)
    OBVIOUS
  <2>2. CASE Len(q) = 0
    <3>1. q = << >>
      BY <2>2, PathsAreSequences, EmptySeq
    <3>2. ASSUME NEW t \in Records(s), Heap(t)
          PROVE  LET l == LookupOf(s, q)[t]
                 IN /\ Firm(t, l.s) /\ Clear(l.s, q)
                    /\ l.ok <=> Has(l.s.cache, q)
      <4>1. LookupOf(s, q) = [u \in Records(s) |-> Ret(u, TRUE, Root)]
        BY <3>1, LookupRoot
      <4>2. LookupOf(s, q)[t] = Ret(t, TRUE, Root)
        BY <4>1
      <4>3. LookupOf(s, q)[t].s = t /\ LookupOf(s, q)[t].ok
        BY <4>2 DEF Ret
      <4>4. IsTree(t.cache)
        BY <3>2 DEF Heap
      <4>5. Root \in Cells(t.cache) /\ t.cache[Root].path = q
        BY <3>1, <4>4, CellFacts DEF IsTree
      <4>6. Clear(t, q)
        <5>1. \A n \in Cells(t.cache) : ~ Deeper(t.cache[n].path, q)
          BY <2>2, <4>4, CellFacts, LenProperties DEF Deeper
        <5> QED BY <5>1 DEF Clear
      <4>7. Firm(t, t)
        BY DEF Firm
      <4> QED BY <4>3, <4>5, <4>6, <4>7 DEF Has
    <3> QED BY <2>1, <3>2 DEF LooksFirmly
  <2>3. CASE Len(q) # 0
    <3>1. PICK o \in Path, nm \in Name : q = Append(o, nm) /\ Len(q) = Len(o) + 1
      BY <2>3, PathCases
    <3>2. o \in Seq(Name) /\ Len(o) \in Nat /\ Len(o) \notin T
      <4>1. o \in Seq(Name) /\ Len(o) \in Nat /\ ~ (m <= Len(o))
        BY <2>1, <3>1, PathsAreSequences
      <4> HIDE DEF T
      <4> QED BY <1>2, <4>1
    <3>3. /\ LooksFirmly(LookupOf(s, o), s, o) /\ Looks(LookupOf(s, o), s, o)
          /\ LooksQuietly(LookupOf(s, o), s, o)
      BY <3>2, LookupLooks, LookupLooksQuietly
    <3>4. ASSUME NEW t \in Records(s), Heap(t), ~ t.stale
          PROVE  LET l == LookupOf(s, q)[t]
                 IN /\ Firm(t, l.s) /\ Clear(l.s, q)
                    /\ l.ok <=> Has(l.s.cache, q)
      <4>1. LookupOf(s, Append(o, nm)) =
              [u \in Records(s) |-> Enter(LookupOf(s, o), u, o, nm)]
        BY <3>2, LookupSteps
      <4> DEFINE l == Enter(LookupOf(s, o), t, o, nm)
      <4>2. LookupOf(s, q)[t] = l
        BY <3>1, <4>1
      <4>3. /\ Firm(t, l.s) /\ Clear(l.s, Append(o, nm))
            /\ l.ok <=> Has(l.s.cache, Append(o, nm))
        BY <3>3, <3>4, EnterFirmly
      <4> HIDE DEF l
      <4> QED BY <3>1, <4>2, <4>3
    <3> QED BY <2>1, <3>4 DEF LooksFirmly
  <2> QED BY <2>2, <2>3
<1>3. T = {}
  <2> HIDE DEF T
  <2> QED BY <1>1, <1>2, LeastNat
<1> QED BY <1>3

\* lookup_folder and gp_filesystem_list_folders, while failures are steady.
LEMMA LookupFirm ==
  ASSUME NEW s, Heap(s), ~ s.stale, SteadyBad(s.bad), NEW p \in Path
  PROVE  LET l == Lookup(s, p)
             r == ListFolders(s, p)
         IN /\ Firm(s, l.s) /\ Clear(l.s, p) /\ (l.ok <=> Has(l.s.cache, p))
            /\ Firm(s, r.s) /\ Clear(r.s, p)
            /\ Clear(s, p) => Quiet(s, l.s) /\ (l.ok <=> Has(s.cache, p))
<1>1. s \in Records(s)
  BY RecordsAreProgress DEF Heap
<1>2. /\ Looks(LookupOf(s, p), s, p) /\ LooksQuietly(LookupOf(s, p), s, p)
      /\ LooksFirmly(LookupOf(s, p), s, p)
  BY LookupLooks, LookupLooksQuietly, LookupLooksFirmly
<1>3. LET r == ListFolders(s, p)
      IN Firm(s, r.s) /\ Clear(r.s, p)
  BY <1>1, <1>2, RelistFirmly DEF ListFolders
<1>4. LET l == Lookup(s, p)
      IN /\ Firm(s, l.s) /\ Clear(l.s, p) /\ (l.ok <=> Has(l.s.cache, p))
         /\ Clear(s, p) => Quiet(s, l.s) /\ (l.ok <=> Has(s.cache, p))
  BY <1>1, <1>2 DEF LooksFirmly, LooksQuietly, Lookup
<1> QED BY <1>3, <1>4

-----------------------------------------------------------------------------
(***************************************************************************)
(* What every internal function preserves.  e excuses: directories e.dirs  *)
(* that the cache need not have yet, and files e.loose, each with its      *)
(* path, that a folder may have or not.  Whether the files are looked at   *)
(* is e.files.                                                             *)
(***************************************************************************)

\* The files A of a clean cell are those of the camera.
FileFits(cam, p, A, e) ==
  \A x \in FileName : <<p, x>> \in e.loose \/ (x \in A <=> x \in Files(cam, p))

Fine(s, e) ==
  /\ Heap(s)
  /\ \A n \in Cells(s.cache) : IsFiniteSet(s.cache[n].files)
  /\ SteadyBad(s.bad) => ~ s.stale
  /\ ~ s.stale => Complete(s, e.dirs)
  /\ e.files => s.bad = {}
  /\ e.files => \A n \in Cells(s.cache) :
       ~ s.cache[n].files_dirty =>
         FileFits(s.camera, s.cache[n].path, s.cache[n].files, e)

Onward(s, t) ==
  /\ t.bad = s.bad /\ s.freed \subseteq t.freed /\ (s.stale => t.stale)
  /\ \A n \in Cells(s.cache) :
       n \in t.freed \/ (n \in Cells(t.cache) /\ t.cache[n].path = s.cache[n].path)
  /\ SteadyBad(s.bad) => Firm(s, t)

\* What an internal function does for the path p, and returns.
Yields(s, r, p, e) ==
  /\ Fine(r.s, e) /\ Onward(s, r.s) /\ r.ok \in BOOLEAN
  /\ r.ok => r.n \in Cells(r.s.cache) /\ r.s.cache[r.n].path = p
  /\ SteadyBad(s.bad) => Clear(r.s, p)

\* Two steps of an operation, together.
LEMMA OnwardOn ==
  ASSUME NEW s, NEW t, NEW u, Onward(s, t), Onward(t, u)
  PROVE  Onward(s, u)
<1>1. u.bad = s.bad /\ s.freed \subseteq u.freed /\ (s.stale => u.stale)
  BY DEF Onward
<1>2. ASSUME NEW n \in Cells(s.cache), n \notin u.freed
      PROVE  n \in Cells(u.cache) /\ u.cache[n].path = s.cache[n].path
  <2>1. n \notin t.freed
    BY <1>2 DEF Onward
  <2>2. n \in Cells(t.cache) /\ t.cache[n].path = s.cache[n].path
    BY <2>1 DEF Onward
  <2> QED BY <1>2, <2>2 DEF Onward
<1>3. SteadyBad(s.bad) => Firm(s, u)
  BY FirmOn DEF Onward
<1> QED BY <1>1, <1>2, <1>3 DEF Onward

\* No step at all.
LEMMA OnwardSelf ==
  \A s : Onward(s, s)
BY DEF Onward, Firm

\* A driver that never fails is a steady one.
LEMMA NoFailureIsSteady == SteadyBad({})
BY DEF SteadyBad

\* A lookup is a step of an operation.
LEMMA LookedOnward ==
  ASSUME NEW s, Heap(s), NEW t, NEW i, Looked(s, t, i), SteadyBad(s.bad) => Firm(s, t)
  PROVE  Onward(s, t)
<1>1. t.bad = s.bad
  BY LookedRecord
<1> QED BY <1>1 DEF Looked, Moved, Onward, Kept

\* A lookup preserves what every internal function preserves.
LEMMA LookedFine ==
  ASSUME NEW s, NEW e, Fine(s, e), NEW t, NEW i, Looked(s, t, i),
         SteadyBad(s.bad) => ~ t.stale
  PROVE  Fine(t, e)
<1>1. Heap(s) /\ Heap(t) /\ Moved(s, t) /\ t.camera = s.camera /\ t.bad = s.bad
  BY LookedRecord DEF Fine, Looked
<1>2. \A n \in Cells(t.cache) : n \notin t.freed
  BY <1>1 DEF Heap
<1>3. \A n \in Cells(t.cache) :
        \/ n \in Cells(s.cache) /\ Kept(s.cache[n], t.cache[n])
        \/ t.cache[n].files_dirty /\ t.cache[n].files = {}
  BY <1>1, <1>2 DEF Moved
<1>4. \A n \in Cells(t.cache) : IsFiniteSet(t.cache[n].files)
  BY <1>3, FS_EmptySet DEF Fine, Kept
<1>5. ~ t.stale => Complete(t, e.dirs)
  BY <1>1 DEF Looked, Moved, Fine
<1>6. ASSUME e.files, NEW n \in Cells(t.cache), ~ t.cache[n].files_dirty
      PROVE  FileFits(t.camera, t.cache[n].path, t.cache[n].files, e)
  <2>1. n \in Cells(s.cache) /\ Kept(s.cache[n], t.cache[n])
    BY <1>3, <1>6
  <2>2. FileFits(s.camera, s.cache[n].path, s.cache[n].files, e)
    BY <1>6, <2>1 DEF Fine, Kept
  <2> QED BY <1>1, <2>1, <2>2 DEF Kept
<1> QED BY <1>1, <1>4, <1>5, <1>6 DEF Fine

\* lookup_folder and gp_filesystem_list_folders.
LEMMA LookupFine ==
  ASSUME NEW s, NEW e, Fine(s, e), NEW p \in Path
  PROVE  /\ Yields(s, Lookup(s, p), p, e) /\ Looked(s, Lookup(s, p).s, Len(p))
         /\ SteadyBad(s.bad) => (Lookup(s, p).ok <=> Has(Lookup(s, p).s.cache, p))
         /\ Yields(s, ListFolders(s, p), p, e) /\ Looked(s, ListFolders(s, p).s, Len(p) + 1)
<1>1. Heap(s)
  BY DEF Fine
<1>2. LookFrom(s, Lookup(s, p), p, Len(p)) /\ LookFrom(s, ListFolders(s, p), p, Len(p) + 1)
  BY <1>1, LookupFacts
<1>3. SteadyBad(s.bad) =>
        /\ Firm(s, Lookup(s, p).s) /\ Clear(Lookup(s, p).s, p)
        /\ Lookup(s, p).ok <=> Has(Lookup(s, p).s.cache, p)
        /\ Firm(s, ListFolders(s, p).s) /\ Clear(ListFolders(s, p).s, p)
  BY <1>1, LookupFirm DEF Fine
<1>4. SteadyBad(s.bad) => ~ Lookup(s, p).s.stale /\ ~ ListFolders(s, p).s.stale
  BY <1>3 DEF Firm, Fine
<1>5. Looked(s, Lookup(s, p).s, Len(p)) /\ Looked(s, ListFolders(s, p).s, Len(p) + 1)
  BY <1>2 DEF LookFrom
<1>6. Fine(Lookup(s, p).s, e) /\ Onward(s, Lookup(s, p).s)
  BY <1>1, <1>3, <1>4, <1>5, LookedFine, LookedOnward
<1>7. Fine(ListFolders(s, p).s, e) /\ Onward(s, ListFolders(s, p).s)
  BY <1>1, <1>3, <1>4, <1>5, LookedFine, LookedOnward
<1> QED BY <1>2, <1>3, <1>5, <1>6, <1>7 DEF Yields, LookFrom

\* The record s with another cell n, and another camera.
Edited(s, n, f, cam) ==
  [camera |-> cam, cache |-> [s.cache EXCEPT ![n] = f], calls |-> s.calls,
   bad |-> s.bad, freed |-> s.freed, stale |-> s.stale]

\* A change of a cell that keeps its place, with what the camera has there.
LEMMA EditFine ==
  ASSUME NEW s, NEW e, Fine(s, e), NEW n \in Cells(s.cache), NEW f \in Folder,
         f.path = s.cache[n].path, f.parent = s.cache[n].parent,
         f.folders_dirty = s.cache[n].folders_dirty, IsFiniteSet(f.files),
         NEW cam \in Cameras, Dirs(cam) = Dirs(s.camera),
         \A q \in Dirs(cam) : q # f.path => cam[q] = s.camera[q],
         e.files => f.files_dirty \/ FileFits(cam, f.path, f.files, e),
         NEW u, u = Edited(s, n, f, cam)
  PROVE  /\ Fine(u, e) /\ Onward(s, u)
         /\ Cells(u.cache) = Cells(s.cache) /\ u.cache[n] = f
         /\ \A m \in Cells(s.cache) : m # n => u.cache[m] = s.cache[m]
         /\ \A q : SteadyBad(s.bad) /\ Clear(s, q) => Clear(u, q)
<1>1. Heap(s) /\ s \in Progress /\ IsTree(s.cache)
  BY DEF Fine, Heap
<1>2. /\ s.cache \in Seq(Folder) /\ n \in 1 .. Len(s.cache) /\ Len(s.cache) \in Nat
      /\ s.calls \in 0 .. MaxCalls /\ MaxCalls \in Nat
  BY <1>1, CellFacts, ProgressFacts, BoundAssumption
<1> DEFINE d == [s.cache EXCEPT ![n] = f]
<1>3. /\ d \in Seq(Folder) /\ Len(d) = Len(s.cache) /\ d[n] = f
      /\ \A m \in 1 .. Len(s.cache) : m # n => d[m] = s.cache[m]
  BY <1>2, ExceptSeq
<1>4. u = [camera |-> cam, cache |-> d, calls |-> s.calls,
           bad |-> s.bad, freed |-> s.freed, stale |-> s.stale]
  BY DEF Edited
<1> HIDE DEF d
<1>5. /\ u.camera = cam /\ u.cache = d /\ u.calls = s.calls /\ u.bad = s.bad
      /\ u.freed = s.freed /\ u.stale = s.stale
  BY <1>4
<1>6. u \in Progress
  <2>2. s.bad \in SUBSET (1 .. MaxCalls) /\ s.freed \in SUBSET Nat /\ s.stale \in BOOLEAN
    BY <1>1, ProgressFacts
  <2>3. d \in Seq(Folder)
    BY <1>3
  <2>4. [camera |-> cam, cache |-> d, calls |-> s.calls,
         bad |-> s.bad, freed |-> s.freed, stale |-> s.stale] \in Progress
    BY <1>2, <2>2, <2>3 DEF Progress
  <2> QED BY <1>4, <2>4
<1>7. Heap(u) /\ Cells(u.cache) = Cells(s.cache)
  <2>1. \A m \in 1 .. Len(s.cache) : /\ u.cache[m].path = s.cache[m].path
                                     /\ u.cache[m].parent = s.cache[m].parent
    BY <1>2, <1>3, <1>5
  <2>2. \A m \in Cells(s.cache) : s.cache[m].path \in Dirs(u.camera)
    BY <1>1, <1>5 DEF Heap
  <2>3. u.freed = s.freed /\ Len(u.cache) = Len(s.cache)
    BY <1>3, <1>5
  <2> HIDE <1>4, <1>5
  <2> QED BY <1>1, <1>6, <2>1, <2>2, <2>3, SameTree
<1>8. u.cache[n] = f /\ \A m \in Cells(s.cache) : m # n => u.cache[m] = s.cache[m]
  BY <1>1, <1>3, <1>5, CellFacts
<1>9. \A m \in Cells(s.cache) : /\ u.cache[m].path = s.cache[m].path
                                /\ u.cache[m].folders_dirty = s.cache[m].folders_dirty
  BY <1>8
<1>10. \A X : Complete(s, X) => Complete(u, X)
  <2>1. \A q : Has(s.cache, q) => Has(u.cache, q)
    BY <1>7, <1>9 DEF Has
  <2> QED BY <1>5, <1>7, <1>9, <2>1 DEF Complete
<1>11. Gone(s) => Gone(u)
  BY <1>5 DEF Gone, CallFails, NextCall
<1>12. ASSUME NEW q, SteadyBad(s.bad), Clear(s, q)
       PROVE  Clear(u, q)
  <2>1. \A m \in Cells(u.cache) : m \in Cells(s.cache)
    BY <1>7
  <2> QED BY <1>9, <1>11, <1>12, <2>1 DEF Clear
<1>13. SteadyBad(s.bad) => Firm(s, u)
  BY <1>5, <1>7, <1>9, <1>11, <1>12 DEF Firm
<1>14. Onward(s, u)
  BY <1>5, <1>7, <1>9, <1>13 DEF Onward
<1>15. Fine(u, e)
  <2>1. \A m \in Cells(u.cache) : IsFiniteSet(u.cache[m].files)
    BY <1>7, <1>8 DEF Fine
  <2>2. ASSUME e.files, NEW m \in Cells(u.cache), ~ u.cache[m].files_dirty
        PROVE  FileFits(u.camera, u.cache[m].path, u.cache[m].files, e)
    <3>1. CASE m = n
      BY <1>5, <1>8, <2>2, <3>1
    <3>2. CASE m # n
      <4>1. m \in Cells(s.cache) /\ u.cache[m] = s.cache[m]
        BY <1>7, <1>8, <3>2
      <4>2. FileFits(s.camera, s.cache[m].path, s.cache[m].files, e)
        BY <2>2, <4>1 DEF Fine
      <4>3. s.cache[m].path # f.path /\ s.cache[m].path \in Dirs(cam)
        BY <1>1, <3>2, <4>1 DEF IsTree, Heap
      <4>4. Files(cam, s.cache[m].path) = Files(s.camera, s.cache[m].path)
        BY <4>3 DEF Files
      <4> QED BY <1>5, <4>1, <4>2, <4>4 DEF FileFits
    <3> QED BY <3>1, <3>2
  <2> QED BY <1>5, <1>7, <1>10, <2>1, <2>2 DEF Fine
<1> QED BY <1>7, <1>8, <1>12, <1>14, <1>15

\* The folder cell f with other files.
Refilled(f, A, dirty) == [f EXCEPT !.files = A, !.files_dirty = dirty]

\* A cell with other files, and another files_dirty.
LEMMA RefilledFacts ==
  ASSUME NEW f \in Folder, NEW A \in SUBSET FileName, NEW dirty \in BOOLEAN
  PROVE  LET g == Refilled(f, A, dirty)
         IN /\ g \in Folder /\ g.path = f.path /\ g.parent = f.parent /\ g.files = A
            /\ g.files_dirty = dirty /\ g.folders_dirty = f.folders_dirty
BY DEF Refilled, Folder

FilesWritten(s, n, A) == [s EXCEPT !.cache[n].files = A]
FlagWritten(s, n, d) == [s EXCEPT !.cache[n].files_dirty = d]
FolderWritten(s, n, A, d) == [s EXCEPT !.cache[n].files = A, !.cache[n].files_dirty = d]

\* The camera with other files B in the folder p.
InFolder(cam, p, B) == [cam EXCEPT ![p] = B]

CameraWritten(s, p, B) == [s EXCEPT !.camera[p] = B]
BothWritten(s, n, A, p, B) == [s EXCEPT !.cache[n].files = A, !.camera[p] = B]
BothWrittenToo(s, n, A, p, B) == [s EXCEPT !.camera[p] = B, !.cache[n].files = A]
AllWritten(s, n, A, d, p, B) ==
  [s EXCEPT !.cache[n].files = A, !.cache[n].files_dirty = d, !.camera[p] = B]

\* What the operations write into a cell, as one change of it.
LEMMA CellEdits ==
  ASSUME NEW s \in Progress, NEW n \in 1 .. Len(s.cache), s.cache[n] \in Folder
  PROVE  LET f == s.cache[n]
         IN /\ \A A \in SUBSET FileName :
                 FilesWritten(s, n, A) = Edited(s, n, Refilled(f, A, f.files_dirty), s.camera)
            /\ \A d \in BOOLEAN :
                 FlagWritten(s, n, d) = Edited(s, n, Refilled(f, f.files, d), s.camera)
            /\ \A A \in SUBSET FileName, d \in BOOLEAN :
                 FolderWritten(s, n, A, d) = Edited(s, n, Refilled(f, A, d), s.camera)
<1> DEFINE f == s.cache[n]
<1>1. \A c : [s EXCEPT !.cache = c] = [camera |-> s.camera, cache |-> c, calls |-> s.calls,
                                       bad |-> s.bad, freed |-> s.freed, stale |-> s.stale]
  BY DEF Progress
<1>2. ASSUME NEW A \in SUBSET FileName, NEW d \in BOOLEAN
      PROVE  /\ FilesWritten(s, n, A) = Edited(s, n, Refilled(f, A, f.files_dirty), s.camera)
             /\ FlagWritten(s, n, d) = Edited(s, n, Refilled(f, f.files, d), s.camera)
             /\ FolderWritten(s, n, A, d) = Edited(s, n, Refilled(f, A, d), s.camera)
  <2> DEFINE g == Refilled(f, A, f.files_dirty)
             h == Refilled(f, f.files, d)
             i == Refilled(f, A, d)
  <2>1. /\ g = [f EXCEPT !.files = A] /\ h = [f EXCEPT !.files_dirty = d]
        /\ i = [[f EXCEPT !.files = A] EXCEPT !.files_dirty = d]
    BY DEF Folder, Refilled
  <2>2. /\ [s EXCEPT !.cache[n].files = A]
              = [s EXCEPT !.cache = [s.cache EXCEPT ![n] = [f EXCEPT !.files = A]]]
        /\ [s EXCEPT !.cache[n].files_dirty = d]
              = [s EXCEPT !.cache = [s.cache EXCEPT ![n] = [f EXCEPT !.files_dirty = d]]]
        /\ [s EXCEPT !.cache[n].files = A, !.cache[n].files_dirty = d]
              = [s EXCEPT !.cache = [s.cache EXCEPT
                   ![n] = [[f EXCEPT !.files = A] EXCEPT !.files_dirty = d]]]
    BY DEF Progress
  <2> HIDE DEF g, h, i
  <2> QED BY <1>1, <2>1, <2>2 DEF Edited, g, h, i, FilesWritten, FlagWritten, FolderWritten
<1> HIDE DEF f
<1>3. TRUE \in BOOLEAN /\ {} \in SUBSET FileName
  OBVIOUS
<1> QED BY <1>2, <1>3 DEF f

\* ... with a change on the camera.
LEMMA CameraEdit ==
  ASSUME NEW s \in Progress, NEW n \in 1 .. Len(s.cache), NEW p, NEW B
  PROVE  CameraWritten(s, p, B) = Edited(s, n, s.cache[n], InFolder(s.camera, p, B))
<1>1. s.cache = [s.cache EXCEPT ![n] = s.cache[n]]
  BY DEF Progress
<1> QED BY <1>1, Z3 DEF Edited, Progress, InFolder, CameraWritten

\* A change of the camera after one of a cell.
LEMMA EditedCamera ==
  ASSUME NEW s, NEW n, NEW f, NEW p, NEW B
  PROVE  CameraWritten(Edited(s, n, f, s.camera), p, B)
           = Edited(s, n, f, InFolder(s.camera, p, B))
BY DEF Edited, InFolder, CameraWritten

\* A change of a cell's files and of the camera, in either order.
LEMMA BothEdits ==
  ASSUME NEW s \in Progress, NEW n \in 1 .. Len(s.cache), s.cache[n] \in Folder,
         NEW A \in SUBSET FileName, NEW p, NEW B
  PROVE  LET f == Refilled(s.cache[n], A, s.cache[n].files_dirty)
             cam == InFolder(s.camera, p, B)
         IN /\ BothWritten(s, n, A, p, B) = Edited(s, n, f, cam)
            /\ BothWrittenToo(s, n, A, p, B) = Edited(s, n, f, cam)
<1>1. FilesWritten(s, n, A)
        = Edited(s, n, Refilled(s.cache[n], A, s.cache[n].files_dirty), s.camera)
  BY CellEdits
<1>2. BothWritten(s, n, A, p, B) = CameraWritten(FilesWritten(s, n, A), p, B)
  BY DEF BothWritten, CameraWritten, FilesWritten
<1>3. BothWrittenToo(s, n, A, p, B) = CameraWritten(FilesWritten(s, n, A), p, B)
  BY DEF BothWrittenToo, CameraWritten, FilesWritten, Progress
<1> QED BY <1>1, <1>2, <1>3, EditedCamera

\* A change of a cell's files and flag, and of the camera.
LEMMA AllEdits ==
  ASSUME NEW s \in Progress, NEW n \in 1 .. Len(s.cache), s.cache[n] \in Folder,
         NEW A \in SUBSET FileName, NEW d \in BOOLEAN, NEW p, NEW B
  PROVE  AllWritten(s, n, A, d, p, B)
           = Edited(s, n, Refilled(s.cache[n], A, d), InFolder(s.camera, p, B))
<1>1. FolderWritten(s, n, A, d) = Edited(s, n, Refilled(s.cache[n], A, d), s.camera)
  BY CellEdits
<1>2. AllWritten(s, n, A, d, p, B) = CameraWritten(FolderWritten(s, n, A, d), p, B)
  BY DEF AllWritten, CameraWritten, FolderWritten
<1> QED BY <1>1, <1>2, EditedCamera

\* The last change of a cell counts.
LEMMA EditedTwice ==
  ASSUME NEW s, NEW n, NEW f, NEW g, NEW cam, NEW other
  PROVE  Edited(Edited(s, n, f, cam), n, g, other) = Edited(s, n, g, other)
BY DEF Edited

\* The driver is asked once more.
LEMMA CalledFine ==
  ASSUME NEW s, NEW e, Fine(s, e)
  PROVE  LET t == Called(s)
         IN /\ Fine(t, e) /\ Onward(s, t) /\ t.cache = s.cache /\ t.camera = s.camera
            /\ t.bad = s.bad /\ t.freed = s.freed
            /\ \A q : SteadyBad(s.bad) /\ Clear(s, q) => Clear(t, q)
<1>1. Heap(s) /\ Looked(s, Called(s), 0) /\ Called(s).cache = s.cache
      /\ Called(s).freed = s.freed /\ Called(s).stale = s.stale
  BY StaleAndCalled DEF Fine
<1>2. SteadyBad(s.bad) => Quiet(s, Called(s))
  BY <1>1, QuietCall
<1>3. SteadyBad(s.bad) => ~ Called(s).stale
  BY <1>1 DEF Fine
<1>4. SteadyBad(s.bad) => Firm(s, Called(s))
  BY <1>2, QuietIsFirm
<1>5. Fine(Called(s), e) /\ Onward(s, Called(s))
  BY <1>1, <1>3, <1>4, LookedFine, LookedOnward
<1>6. Called(s).camera = s.camera /\ Called(s).bad = s.bad
  BY <1>1, LookedRecord
<1> QED BY <1>1, <1>2, <1>5, <1>6, QuietIsClear

(***************************************************************************)
(* Listing the files of a folder, and looking up a file.                   *)
(***************************************************************************)

\* What gp_filesystem_list_files does once the folder is found.
ListFilesOf(l, p) ==
  LET c == FolderWritten(Called(l.s), l.n, {}, FALSE)
  IN IF ~l.s.cache[l.n].files_dirty THEN l
     ELSE IF CallFails(l.s) \/ p \notin Dirs(c.camera) THEN Ret(c, FALSE, l.n)
     ELSE Ret(FilesWritten(c, l.n, c.camera[p]), TRUE, l.n)

\* gp_filesystem_list_files is a lookup, then the rest of it.
LEMMA ListFilesIs ==
  \A s, p : ListFiles(s, p) = IF Lookup(s, p).ok THEN ListFilesOf(Lookup(s, p), p)
                              ELSE Lookup(s, p)
BY DEF ListFiles, IfOk, ListFilesOf, FolderWritten, FilesWritten

\* The other folders keep what is known of their files, and new ones are empty.
OthersKept(s, t, p) ==
  /\ \A n \in Cells(s.cache) \intersect Cells(t.cache) :
       s.cache[n].path # p => /\ t.cache[n].files_dirty = s.cache[n].files_dirty
                              /\ t.cache[n].files = s.cache[n].files
  /\ \A n \in Cells(t.cache) \ Cells(s.cache) :
       t.cache[n].path # p => t.cache[n].files = {}

ListsFiles(s, r, p, e) ==
  /\ Yields(s, r, p, e) /\ r.s.camera = s.camera /\ OthersKept(s, r.s, p)
  /\ r.ok => ~ r.s.cache[r.n].files_dirty
  /\ e.files => (r.ok <=> Has(r.s.cache, p))

\* gp_filesystem_list_files, once the folder is found.
LEMMA ListFilesOfFine ==
  ASSUME NEW l, NEW e, Fine(l.s, e), NEW p, l.n \in Cells(l.s.cache), l.ok = TRUE,
         l.s.cache[l.n].path = p, SteadyBad(l.s.bad) => Clear(l.s, p)
  PROVE  ListsFiles(l.s, ListFilesOf(l, p), p, e)
<1> SUFFICES ASSUME NEW s, s = l.s, NEW n, n = l.n, NEW r, r = ListFilesOf(l, p)
             PROVE  ListsFiles(s, r, p, e)
  OBVIOUS
<1>0. /\ Fine(s, e) /\ n \in Cells(s.cache) /\ s.cache[n].path = p
      /\ SteadyBad(s.bad) => Clear(s, p)
  OBVIOUS
<1> DEFINE v == Called(s)
           f == s.cache[n]
           c == FolderWritten(v, n, {}, FALSE)
           u == FilesWritten(c, n, c.camera[p])
           g == Refilled(f, {}, FALSE)
           h == Refilled(f, s.camera[p], FALSE)
<1>1. /\ Heap(s) /\ s \in Progress /\ IsTree(s.cache) /\ f \in Folder /\ f.path \in Dirs(s.camera)
      /\ IsCamera(s.camera) /\ s.camera \in Cameras
      /\ n \in 1 .. Len(s.cache) /\ f.files_dirty \in BOOLEAN
  BY <1>0, CellFacts, ProgressFacts DEF Fine, Heap, Folder
<1>2. /\ Fine(v, e) /\ Onward(s, v) /\ v.cache = s.cache /\ v.camera = s.camera
      /\ v.bad = s.bad
      /\ \A q : SteadyBad(s.bad) /\ Clear(s, q) => Clear(v, q)
  BY <1>0, CalledFine
<1>3. v \in Progress
  BY <1>2 DEF Fine, Heap
<1>4. s.camera[p] \in SUBSET FileName /\ IsFiniteSet(s.camera[p])
  BY <1>1 DEF IsCamera
<1>5. /\ g \in Folder /\ g.path = p /\ g.parent = f.parent /\ g.files = {}
      /\ g.folders_dirty = f.folders_dirty
      /\ h \in Folder /\ h.path = p /\ h.parent = f.parent /\ h.files = s.camera[p]
      /\ h.folders_dirty = f.folders_dirty /\ ~ g.files_dirty /\ ~ h.files_dirty
  <2>1. /\ g \in Folder /\ g.path = f.path /\ g.parent = f.parent /\ g.files = {}
        /\ g.files_dirty = FALSE /\ g.folders_dirty = f.folders_dirty
    BY <1>1, RefilledFacts, ZenonT(30)
  <2>2. /\ h \in Folder /\ h.path = f.path /\ h.parent = f.parent /\ h.files = s.camera[p]
        /\ h.files_dirty = FALSE /\ h.folders_dirty = f.folders_dirty
    BY <1>1, <1>4, RefilledFacts
  <2> QED BY <2>1, <2>2
<1> HIDE DEF v, g, h
<1>6. CASE ~ f.files_dirty
  <2>1. r = l
    BY <1>6 DEF ListFilesOf
  <2>2. r.s = s /\ r.ok = TRUE /\ r.n = n
    BY <2>1
  <2>3. OthersKept(s, s, p) /\ Onward(s, s)
    BY OnwardSelf DEF OthersKept
  <2> QED BY <1>0, <1>1, <1>6, <2>2, <2>3 DEF ListsFiles, Yields, Has
<1>7. CASE f.files_dirty
  <2>1. c = Edited(v, n, g, s.camera)
    <3>1. n \in 1 .. Len(v.cache) /\ v.cache[n] = f /\ v.cache[n] \in Folder
      BY <1>1, <1>2
    <3>2. c = Edited(v, n, Refilled(v.cache[n], {}, FALSE), v.camera)
      BY <1>3, <3>1, CellEdits
    <3> QED BY <1>2, <3>1, <3>2, Zenon DEF g
  <2>2. c.camera = s.camera /\ c.cache = [s.cache EXCEPT ![n] = g]
    <3> HIDE DEF c
    <3> QED BY <1>2, <2>1 DEF Edited
  <2>3. ASSUME NEW w, NEW a \in Folder, w = Edited(v, n, a, s.camera), a.path = p,
               a.parent = f.parent, a.folders_dirty = f.folders_dirty, IsFiniteSet(a.files),
               e.files => FileFits(s.camera, p, a.files, e), ~ a.files_dirty,
               NEW ok \in BOOLEAN, e.files => ok, r = Ret(w, ok, n)
        PROVE  ListsFiles(s, r, p, e)
    <3>1. /\ Fine(w, e) /\ Onward(v, w)
          /\ Cells(w.cache) = Cells(v.cache) /\ w.cache[n] = a
          /\ \A m \in Cells(v.cache) : m # n => w.cache[m] = v.cache[m]
          /\ \A q : SteadyBad(v.bad) /\ Clear(v, q) => Clear(w, q)
      BY <1>0, <1>1, <1>2, <2>3, EditFine
    <3>2. r.s = w /\ r.ok = ok /\ r.n = n
      BY <2>3 DEF Ret
    <3>3. Onward(s, w)
      BY <1>2, <3>1, OnwardOn
    <3>4. w.camera = s.camera
      BY <2>3 DEF Edited
    <3>5. OthersKept(s, w, p)
      BY <1>2, <3>1 DEF OthersKept
    <3>6. Has(w.cache, p)
      BY <1>0, <1>2, <2>3, <3>1 DEF Has
    <3>7. Yields(s, r, p, e)
      BY <1>0, <1>2, <2>3, <3>1, <3>2, <3>3 DEF Yields
    <3> QED BY <2>3, <3>1, <3>2, <3>4, <3>5, <3>6, <3>7 DEF ListsFiles
  <2>4. CASE CallFails(s) \/ p \notin Dirs(c.camera)
    <3>1. r = Ret(c, FALSE, n)
      BY <1>7, <2>4 DEF ListFilesOf, v
    <3>2. CallFails(s)
      BY <1>1, <2>2, <2>4
    <3>3. ~ e.files
      BY <1>0, <3>2 DEF CallFails, Fine
    <3> QED BY <1>5, <2>1, <2>3, <3>1, <3>3, FS_EmptySet
  <2>5. CASE ~ (CallFails(s) \/ p \notin Dirs(c.camera))
    <3>1. r = Ret(u, TRUE, n)
      BY <1>7, <2>5 DEF ListFilesOf, v
    <3>2. c \in Progress /\ n \in 1 .. Len(c.cache) /\ c.cache[n] = g
      <4> HIDE DEF c
      <4>1. Len(c.cache) = Len(s.cache) /\ c.cache[n] = g /\ c.cache \in Seq(Folder)
        BY <1>1, <1>5, <2>2, ExceptSeq, ProgressFacts
      <4>2. /\ v.calls \in 0 .. MaxCalls /\ v.bad \in SUBSET (1 .. MaxCalls)
            /\ v.freed \in SUBSET Nat /\ v.stale \in BOOLEAN
        BY <1>3, ProgressFacts
      <4>3. c = [camera |-> s.camera, cache |-> c.cache, calls |-> v.calls,
                 bad |-> v.bad, freed |-> v.freed, stale |-> v.stale]
        BY <2>1 DEF Edited
      <4>4. [camera |-> s.camera, cache |-> c.cache, calls |-> v.calls,
             bad |-> v.bad, freed |-> v.freed, stale |-> v.stale] \in Progress
        BY <1>1, <4>1, <4>2 DEF Progress
      <4> QED BY <1>1, <4>1, <4>3, <4>4
    <3>3. u = Edited(c, n, Refilled(g, s.camera[p], FALSE), s.camera)
      <4> HIDE DEF c
      <4>1. g.files_dirty = FALSE /\ c.cache[n] \in Folder
        BY <1>5, <3>2 DEF Folder
      <4>2. FilesWritten(c, n, s.camera[p])
              = Edited(c, n, Refilled(c.cache[n], s.camera[p], c.cache[n].files_dirty), c.camera)
        BY <1>4, <3>2, <4>1, CellEdits
      <4>3. u = FilesWritten(c, n, s.camera[p])
        BY <2>2
      <4> HIDE DEF u
      <4> QED BY <2>2, <3>2, <4>1, <4>2, <4>3
    <3>4. Refilled(g, s.camera[p], FALSE) = h
      BY <1>1 DEF Refilled, g, h, Folder
    <3>5. u = Edited(v, n, h, s.camera)
      <4> HIDE DEF u, c
      <4>1. Edited(Edited(v, n, g, s.camera), n, h, s.camera) = Edited(v, n, h, s.camera)
        BY EditedTwice
      <4>2. u = Edited(Edited(v, n, g, s.camera), n, h, s.camera)
        BY <2>1, <3>3, <3>4, Zenon
      <4> QED BY <4>1, <4>2
    <3>6. FileFits(s.camera, p, s.camera[p], e)
      BY <1>1 DEF FileFits, Files
    <3> QED BY <1>4, <1>5, <2>3, <3>1, <3>5, <3>6
  <2> QED BY <2>4, <2>5
<1> QED BY <1>1, <1>6, <1>7

\* A cell that is still there has been there all the time.
LEMMA NeverReused ==
  ASSUME NEW s, NEW t, NEW u, Heap(u), Onward(s, t), Onward(t, u),
         NEW n \in Cells(s.cache), n \in Cells(u.cache)
  PROVE  /\ n \in Cells(t.cache) /\ t.cache[n].path = s.cache[n].path
         /\ u.cache[n].path = s.cache[n].path
BY DEF Heap, Onward

\* Two steps that leave the other folders alone, together.
LEMMA OthersKeptOn ==
  ASSUME NEW s, NEW t, NEW u, NEW p, Heap(u), Onward(s, t), Onward(t, u),
         OthersKept(s, t, p), OthersKept(t, u, p)
  PROVE  OthersKept(s, u, p)
<1>1. ASSUME NEW n \in Cells(s.cache) \intersect Cells(u.cache), s.cache[n].path # p
      PROVE  /\ u.cache[n].files_dirty = s.cache[n].files_dirty
             /\ u.cache[n].files = s.cache[n].files
  <2>1. n \in Cells(t.cache) /\ t.cache[n].path # p
    BY <1>1, NeverReused
  <2> QED BY <1>1, <2>1 DEF OthersKept
<1>2. ASSUME NEW n \in Cells(u.cache) \ Cells(s.cache), u.cache[n].path # p
      PROVE  u.cache[n].files = {}
  <2>1. CASE n \in Cells(t.cache)
    <3>1. n \notin u.freed
      BY <1>2 DEF Heap
    <3>2. u.cache[n].path = t.cache[n].path
      BY <2>1, <3>1 DEF Onward
    <3> QED BY <1>2, <2>1, <3>2 DEF OthersKept
  <2>2. CASE n \notin Cells(t.cache)
    BY <1>2, <2>2 DEF OthersKept
  <2> QED BY <2>1, <2>2
<1> QED BY <1>1, <1>2 DEF OthersKept

\* gp_filesystem_list_files.
LEMMA ListFilesFine ==
  ASSUME NEW s, NEW e, Fine(s, e), NEW p \in Path
  PROVE  ListsFiles(s, ListFiles(s, p), p, e)
<1> DEFINE l == Lookup(s, p)
           r == ListFiles(s, p)
<1>1. /\ Yields(s, l, p, e) /\ Looked(s, l.s, Len(p))
      /\ SteadyBad(s.bad) => (l.ok <=> Has(l.s.cache, p))
  BY LookupFine
<1>2. r = IF l.ok THEN ListFilesOf(l, p) ELSE l
  BY ListFilesIs
<1> HIDE DEF l, r
<1>3. l.s.camera = s.camera /\ l.s.bad = s.bad /\ Heap(l.s)
  BY <1>1, LookedRecord DEF Fine
<1>4. OthersKept(s, l.s, p)
  <2>1. \A n \in Cells(l.s.cache) : n \notin l.s.freed
    BY <1>3 DEF Heap
  <2>2. \A n \in Cells(s.cache) \intersect Cells(l.s.cache) : Kept(s.cache[n], l.s.cache[n])
    BY <1>1, <2>1 DEF Looked, Moved
  <2>3. \A n \in Cells(l.s.cache) \ Cells(s.cache) : l.s.cache[n].files = {}
    BY <1>1 DEF Looked, Moved
  <2> QED BY <2>2, <2>3 DEF OthersKept, Kept
<1>5. CASE ~ l.ok
  <2>1. e.files => ~ Has(l.s.cache, p)
    BY <1>1, <1>5, NoFailureIsSteady DEF Fine
  <2>2. r = l
    BY <1>2, <1>5
  <2> QED BY <1>1, <1>3, <1>4, <1>5, <2>1, <2>2 DEF ListsFiles, r
<1>6. CASE l.ok
  <2>1. /\ Fine(l.s, e) /\ l.n \in Cells(l.s.cache) /\ l.s.cache[l.n].path = p
        /\ SteadyBad(l.s.bad) => Clear(l.s, p)
    BY <1>1, <1>3, <1>6 DEF Yields
  <2>2. r = ListFilesOf(l, p) /\ l.ok = TRUE
    BY <1>1, <1>2, <1>6 DEF Yields
  <2>3. ListsFiles(l.s, r, p, e)
    BY <2>1, <2>2, ListFilesOfFine
  <2>4. /\ Fine(r.s, e) /\ Onward(l.s, r.s) /\ r.ok \in BOOLEAN
        /\ r.ok => r.n \in Cells(r.s.cache) /\ r.s.cache[r.n].path = p
        /\ SteadyBad(l.s.bad) => Clear(r.s, p)
        /\ r.s.camera = l.s.camera /\ OthersKept(l.s, r.s, p)
        /\ r.ok => ~ r.s.cache[r.n].files_dirty
        /\ e.files => (r.ok <=> Has(r.s.cache, p))
    BY <2>3 DEF ListsFiles, Yields
  <2>5. Onward(s, l.s)
    BY <1>1 DEF Yields
  <2>6. Onward(s, r.s)
    BY <2>4, <2>5, OnwardOn
  <2>7. OthersKept(s, r.s, p)
    BY <1>4, <2>4, <2>5, OthersKeptOn DEF Fine
  <2>8. Yields(s, r, p, e)
    BY <1>3, <2>4, <2>6 DEF Yields
  <2> QED BY <1>3, <2>4, <2>7, <2>8 DEF ListsFiles, r
<1> QED BY <1>5, <1>6

\* A step of an operation that need not find a folder.
Goes(s, r, e) == Fine(r.s, e) /\ Onward(s, r.s) /\ r.ok \in BOOLEAN

\* What finds a folder is a step.
LEMMA YieldsGoes ==
  ASSUME NEW s, NEW r, NEW p, NEW e, Yields(s, r, p, e)
  PROVE  Goes(s, r, e)
BY DEF Yields, Goes

\* A step after others.
LEMMA GoesOn ==
  ASSUME NEW s, NEW t, NEW r, NEW e, Onward(s, t), Goes(t, r, e)
  PROVE  Goes(s, r, e)
BY OnwardOn DEF Goes

\* What finds a folder after other steps finds it.
LEMMA YieldsOn ==
  ASSUME NEW s, NEW t, NEW r, NEW p, NEW e, Onward(s, t), Yields(t, r, p, e)
  PROVE  Yields(s, r, p, e)
<1>1. Onward(s, r.s) /\ t.bad = s.bad
  BY OnwardOn DEF Yields, Onward
<1> QED BY <1>1 DEF Yields

\* Something has been used that is freed.
LEMMA StaleFine ==
  ASSUME NEW s, NEW e, Fine(s, e), ~ SteadyBad(s.bad), NEW ok \in BOOLEAN, NEW n
  PROVE  Goes(s, Ret(Stale(s), ok, n), e) /\ Ret(Stale(s), ok, n).s.stale
<1>1. Heap(s) /\ Looked(s, Stale(s), 0) /\ Stale(s).stale
  BY StaleAndCalled DEF Fine
<1>2. Fine(Stale(s), e) /\ Onward(s, Stale(s))
  BY <1>1, LookedFine, LookedOnward
<1>3. Ret(Stale(s), ok, n).s = Stale(s) /\ Ret(Stale(s), ok, n).ok = ok
  BY DEF Ret
<1> QED BY <1>1, <1>2, <1>3 DEF Goes

\* The file list of the folder n is made clean: n is the folder of the path, or
\* one above it.
LEMMA CleanFilesFine ==
  ASSUME NEW s, NEW e, Fine(s, e), NEW p \in Path, NEW n \in Cells(s.cache),
         SteadyBad(s.bad) => Clear(s, s.cache[n].path)
  PROVE  LET r == CleanFiles(s, n, p)
         IN /\ Goes(s, r, e) /\ r.s.camera = s.camera
            /\ ~ r.s.stale \/ r.ok => n \in Cells(r.s.cache) /\ r.s.cache[n].path = s.cache[n].path
            /\ r.ok => r.n = n
            /\ s.cache[n].path # p /\ s.cache[n].files_dirty /\ n \in Cells(r.s.cache) =>
                 r.s.cache[n].files_dirty
            /\ s.cache[n].path = p /\ r.ok => ~ r.s.cache[n].files_dirty
            /\ s.cache[n].path = p /\ e.files => r.ok
            /\ SteadyBad(s.bad) => Clear(r.s, s.cache[n].path)
<1> DEFINE r == CleanFiles(s, n, p)
           a == ListFiles(s, p)
<1>1. CASE ~ s.cache[n].files_dirty
  <2>1. r = Ret(s, TRUE, n)
    BY <1>1 DEF CleanFiles
  <2>2. r.s = s /\ r.ok = TRUE /\ r.n = n
    BY <2>1 DEF Ret
  <2> HIDE DEF r
  <2>3. Goes(s, r, e)
    BY <2>2, OnwardSelf DEF Goes
  <2> QED BY <1>1, <2>2, <2>3 DEF r
<1>2. CASE s.cache[n].files_dirty
  <2>1. ListsFiles(s, a, p, e)
    BY ListFilesFine
  <2>2. r = IF n \in a.s.freed THEN Ret(Stale(a.s), FALSE, NULL) ELSE Ret(a.s, a.ok, n)
    BY <1>2 DEF CleanFiles
  <2> HIDE DEF r, a
  <2>3. /\ Fine(a.s, e) /\ Onward(s, a.s) /\ a.ok \in BOOLEAN
        /\ a.ok => a.n \in Cells(a.s.cache) /\ a.s.cache[a.n].path = p
        /\ a.s.camera = s.camera /\ OthersKept(s, a.s, p)
        /\ a.ok => ~ a.s.cache[a.n].files_dirty
        /\ e.files => (a.ok <=> Has(a.s.cache, p))
    BY <2>1 DEF ListsFiles, Yields
  <2>4. SteadyBad(s.bad) => n \notin a.s.freed /\ Clear(a.s, s.cache[n].path)
    BY <2>3 DEF Onward, Firm, Fine, Heap
  <2>5. a.s.bad = s.bad /\ IsTree(a.s.cache) /\ (e.files => SteadyBad(s.bad))
    BY <2>3, NoFailureIsSteady DEF Onward, Fine, Heap
  <2>6. CASE n \in a.s.freed
    <3>1. ~ SteadyBad(s.bad)
      BY <2>4, <2>6
    <3>2. r = Ret(Stale(a.s), FALSE, NULL)
      BY <2>2, <2>6
    <3>3. Goes(a.s, r, e) /\ r.s.stale
      BY <2>3, <2>5, <3>1, <3>2, StaleFine
    <3>4. Goes(s, r, e)
      BY <2>3, <3>3, GoesOn
    <3>5. r.ok = FALSE /\ r.s.camera = s.camera /\ r.s.freed = a.s.freed
      <4>1. Heap(a.s) /\ r.s = Stale(a.s) /\ r.ok = FALSE
        BY <2>3, <3>2 DEF Ret, Fine
      <4>2. Looked(a.s, Stale(a.s), 0) /\ Stale(a.s).freed = a.s.freed
        BY <4>1, StaleAndCalled
      <4>3. Stale(a.s).camera = a.s.camera
        BY <4>1, <4>2, LookedRecord
      <4> QED BY <2>3, <4>1, <4>2, <4>3
    <3>6. n \notin Cells(r.s.cache)
      BY <2>6, <3>3, <3>5 DEF Goes, Fine, Heap
    <3> QED BY <2>5, <3>1, <3>3, <3>4, <3>5, <3>6 DEF r
  <2>7. CASE n \notin a.s.freed
    <3>1. r.s = a.s /\ r.ok = a.ok /\ r.n = n
      BY <2>2, <2>7 DEF Ret
    <3>2. n \in Cells(a.s.cache) /\ a.s.cache[n].path = s.cache[n].path
      BY <2>3, <2>7 DEF Onward
    <3>3. s.cache[n].path = p /\ a.ok => a.n = n
      BY <2>3, <2>5, <3>2 DEF IsTree
    <3>4. s.cache[n].path = p => Has(a.s.cache, p)
      BY <3>2 DEF Has
    <3>5. s.cache[n].path # p => a.s.cache[n].files_dirty = s.cache[n].files_dirty
      BY <2>3, <3>2 DEF OthersKept
    <3>6. Goes(s, r, e)
      BY <2>3, <3>1 DEF Goes
    <3> QED BY <1>2, <2>3, <2>4, <3>1, <3>2, <3>3, <3>4, <3>5, <3>6 DEF r
  <2> QED BY <2>6, <2>7
<1> QED BY <1>1, <1>2

\* The folder n, and what the camera has in it, are written to.
Written(s, n, A, dirty, B) ==
  Edited(s, n, Refilled(s.cache[n], A, dirty), InFolder(s.camera, s.cache[n].path, B))

\* The parts of a cell, and of what the camera has in its folder.
LEMMA CellParts ==
  ASSUME NEW s, Heap(s), NEW n \in Cells(s.cache)
  PROVE  /\ s \in Progress /\ n \in 1 .. Len(s.cache) /\ s.cache[n] \in Folder
         /\ s.cache[n].files \in SUBSET FileName /\ s.cache[n].files_dirty \in BOOLEAN
         /\ InFolder(s.camera, s.cache[n].path, s.camera[s.cache[n].path]) = s.camera
         /\ Refilled(s.cache[n], s.cache[n].files, s.cache[n].files_dirty) = s.cache[n]
<1>1. /\ s \in Progress /\ n \in 1 .. Len(s.cache) /\ s.cache[n] \in Folder
      /\ IsCamera(s.camera) /\ s.cache[n].path \in Dirs(s.camera)
      /\ s.cache[n].files \in SUBSET FileName /\ s.cache[n].files_dirty \in BOOLEAN
  BY CellFacts, ProgressFacts DEF Heap, Folder
<1>2. InFolder(s.camera, s.cache[n].path, s.camera[s.cache[n].path]) = s.camera
  BY <1>1 DEF IsCamera, InFolder
<1>3. Refilled(s.cache[n], s.cache[n].files, s.cache[n].files_dirty) = s.cache[n]
  BY <1>1 DEF Refilled, Folder
<1> QED BY <1>1, <1>2, <1>3

\* A change of a cell's files is a change of the folder.
LEMMA FilesWrittenIs ==
  ASSUME NEW s, Heap(s), NEW n \in Cells(s.cache), NEW A \in SUBSET FileName
  PROVE  FilesWritten(s, n, A)
           = Written(s, n, A, s.cache[n].files_dirty, s.camera[s.cache[n].path])
BY CellParts, CellEdits DEF Written

\* A change of files_dirty is a change of the folder.
LEMMA FlagWrittenIs ==
  ASSUME NEW s, Heap(s), NEW n \in Cells(s.cache), NEW d \in BOOLEAN
  PROVE  FlagWritten(s, n, d)
           = Written(s, n, s.cache[n].files, d, s.camera[s.cache[n].path])
BY CellParts, CellEdits DEF Written

\* A change of the files, here and on the camera, is one.
LEMMA BothWrittenIs ==
  ASSUME NEW s, Heap(s), NEW n \in Cells(s.cache), NEW A \in SUBSET FileName, NEW B, NEW p,
         p = s.cache[n].path
  PROVE  /\ BothWritten(s, n, A, p, B) = Written(s, n, A, s.cache[n].files_dirty, B)
         /\ BothWrittenToo(s, n, A, p, B) = Written(s, n, A, s.cache[n].files_dirty, B)
BY CellParts, BothEdits DEF Written

\* A change of the files and of files_dirty, and on the camera, is one.
LEMMA AllWrittenIs ==
  ASSUME NEW s, Heap(s), NEW n \in Cells(s.cache), NEW A \in SUBSET FileName,
         NEW d \in BOOLEAN, NEW B, NEW p, p = s.cache[n].path
  PROVE  AllWritten(s, n, A, d, p, B) = Written(s, n, A, d, B)
BY CellParts, AllEdits DEF Written

\* A change on the camera is one.
LEMMA CameraWrittenIs ==
  ASSUME NEW s, Heap(s), NEW n \in Cells(s.cache), NEW B, NEW p, p = s.cache[n].path
  PROVE  CameraWritten(s, p, B) = Written(s, n, s.cache[n].files, s.cache[n].files_dirty, B)
BY CellParts, CameraEdit DEF Written

\* What is written into a clean folder is what the camera has.
Agrees(s, n, A, dirty, B, e) ==
  ~ e.files \/ dirty = TRUE \/
    \A y \in FileName : <<s.cache[n].path, y>> \in e.loose \/ (y \in A <=> y \in B)

FileSet(A) == A \in SUBSET FileName /\ IsFiniteSet(A)

\* A change of a folder and of what the camera has in it, which agree.
LEMMA WrittenFine ==
  ASSUME NEW s, NEW e, Fine(s, e), NEW n \in Cells(s.cache), NEW d \in BOOLEAN,
         NEW A, FileSet(A), NEW B, FileSet(B), Agrees(s, n, A, d, B, e)
  PROVE  LET u == Written(s, n, A, d, B)
             p == s.cache[n].path
         IN /\ Fine(u, e) /\ Onward(s, u) /\ Cells(u.cache) = Cells(s.cache)
            /\ u.cache[n].path = p /\ u.cache[n].files = A /\ u.cache[n].files_dirty = d
            /\ \A m \in Cells(s.cache) : m # n => u.cache[m] = s.cache[m]
            /\ \A q : SteadyBad(s.bad) /\ Clear(s, q) => Clear(u, q)
            /\ u.camera = InFolder(s.camera, p, B)
<1>0. /\ A \in SUBSET FileName /\ IsFiniteSet(A) /\ B \in SUBSET FileName /\ IsFiniteSet(B)
      /\ ~ e.files \/ d = TRUE \/
          \A y \in FileName : <<s.cache[n].path, y>> \in e.loose \/ (y \in A <=> y \in B)
  BY DEF FileSet, Agrees
<1> DEFINE p == s.cache[n].path
           f == Refilled(s.cache[n], A, d)
           cam == InFolder(s.camera, p, B)
           u == Edited(s, n, f, cam)
<1>1. /\ s.cache[n] \in Folder /\ p \in Dirs(s.camera) /\ IsCamera(s.camera)
  BY CellFacts, ProgressFacts DEF Fine, Heap
<1>2. /\ f \in Folder /\ f.path = p /\ f.parent = s.cache[n].parent /\ f.files = A
      /\ f.files_dirty = d /\ f.folders_dirty = s.cache[n].folders_dirty
  BY <1>0, <1>1, RefilledFacts
<1>3. /\ Dirs(cam) = Dirs(s.camera) /\ cam[p] = B
      /\ \A q \in Dirs(cam) : q # p => cam[q] = s.camera[q]
  BY <1>1 DEF IsCamera, Dirs, InFolder
<1>4. cam \in Cameras
  <2>1. cam = [q \in Dirs(cam) |-> cam[q]]
    BY DEF Dirs, InFolder
  <2> HIDE DEF cam
  <2>2. IsCamera(cam)
    BY <1>0, <1>1, <1>3, <2>1 DEF IsCamera
  <2> QED BY <2>2, CamerasAreCameras
<1>5. e.files => f.files_dirty \/ FileFits(cam, f.path, f.files, e)
  BY <1>0, <1>1, <1>2, <1>3 DEF FileFits, Files
<1>6. u = Written(s, n, A, d, B) /\ u.camera = cam
  BY DEF Written, Edited
<1> HIDE DEF f, cam, p
<1>7. /\ Fine(u, e) /\ Onward(s, u)
      /\ Cells(u.cache) = Cells(s.cache) /\ u.cache[n] = f
      /\ \A m \in Cells(s.cache) : m # n => u.cache[m] = s.cache[m]
      /\ \A q : SteadyBad(s.bad) /\ Clear(s, q) => Clear(u, q)
  <2> HIDE DEF u
  <2>1. \A w : w = Edited(s, n, f, cam) =>
          /\ Fine(w, e) /\ Onward(s, w)
          /\ Cells(w.cache) = Cells(s.cache) /\ w.cache[n] = f
          /\ \A m \in Cells(s.cache) : m # n => w.cache[m] = s.cache[m]
          /\ \A q : SteadyBad(s.bad) /\ Clear(s, q) => Clear(w, q)
    BY <1>0, <1>2, <1>3, <1>4, <1>5, EditFine DEF p
  <2> QED BY <2>1 DEF u
<1> HIDE DEF u
<1> QED BY <1>2, <1>6, <1>7 DEF p, cam

\* lookup_folder_file.
LEMMA LookupFileFine ==
  ASSUME NEW s, NEW e, Fine(s, e), NEW p \in Path, NEW x
  PROVE  LET r == LookupFile(s, p, x)
         IN /\ Yields(s, r, p, e) /\ r.s.camera = s.camera
            /\ r.ok => x \in r.s.cache[r.n].files
            /\ e.files /\ ~ r.ok => \A m \in Cells(r.s.cache) :
                                      r.s.cache[m].path = p => x \notin r.s.cache[m].files
<1> DEFINE l == Lookup(s, p)
           t == CleanFiles(l.s, l.n, p).s
           r == LookupFile(s, p, x)
<1>1. /\ Yields(s, l, p, e) /\ Looked(s, l.s, Len(p))
      /\ SteadyBad(s.bad) => (l.ok <=> Has(l.s.cache, p))
  BY LookupFine
<1>2. r = IF l.ok THEN Ret(t, ~ t.stale /\ x \in t.cache[l.n].files, l.n) ELSE l
  BY DEF LookupFile, IfOk
<1> HIDE DEF l, r
<1>3. l.s.camera = s.camera /\ l.s.bad = s.bad /\ (e.files => SteadyBad(s.bad))
  BY <1>1, LookedRecord, NoFailureIsSteady DEF Fine
<1>4. CASE ~ l.ok
  <2>1. r = l
    BY <1>2, <1>4
  <2>2. e.files => \A m \in Cells(r.s.cache) : r.s.cache[m].path # p
    BY <1>1, <1>3, <1>4, <2>1 DEF Has
  <2> QED BY <1>1, <1>3, <1>4, <2>1, <2>2 DEF r
<1>5. CASE l.ok
  <2> DEFINE a == CleanFiles(l.s, l.n, p)
  <2>1. /\ Fine(l.s, e) /\ Onward(s, l.s) /\ l.n \in Cells(l.s.cache)
        /\ l.s.cache[l.n].path = p
        /\ SteadyBad(l.s.bad) => Clear(l.s, l.s.cache[l.n].path)
    BY <1>1, <1>3, <1>5 DEF Yields
  <2>2. /\ Goes(l.s, a, e) /\ a.s.camera = l.s.camera
        /\ ~ a.s.stale \/ a.ok => l.n \in Cells(a.s.cache) /\ a.s.cache[l.n].path = p
        /\ SteadyBad(l.s.bad) => Clear(a.s, p)
    BY <2>1, CleanFilesFine
  <2> HIDE DEF a
  <2>3. r.s = a.s /\ r.ok = (~ a.s.stale /\ x \in a.s.cache[l.n].files) /\ r.n = l.n
    BY <1>2, <1>5 DEF Ret, a
  <2>4. Fine(a.s, e) /\ Onward(s, a.s) /\ IsTree(a.s.cache)
    BY <2>1, <2>2, OnwardOn DEF Goes, Fine, Heap
  <2>5. Yields(s, r, p, e)
    BY <1>3, <2>2, <2>3, <2>4 DEF Yields
  <2>6. ASSUME e.files, ~ r.ok, NEW m \in Cells(r.s.cache), r.s.cache[m].path = p
        PROVE  x \notin r.s.cache[m].files
    <3>1. ~ a.s.stale
      BY <1>3, <2>4, <2>6 DEF Onward, Fine
    <3>2. m = l.n
      BY <2>2, <2>3, <2>4, <2>6, <3>1 DEF IsTree
    <3> QED BY <2>3, <2>6, <3>1, <3>2
  <2> QED BY <1>3, <2>2, <2>3, <2>5, <2>6 DEF r
<1> QED BY <1>4, <1>5

(***************************************************************************)
(* Deleting files.                                                         *)
(***************************************************************************)

\* The folder n of the path p and its files, and what the camera has there.
LEMMA HereFacts ==
  ASSUME NEW s, NEW e, Fine(s, e), NEW n \in Cells(s.cache)
  PROVE  LET p == s.cache[n].path
             A == s.cache[n].files
             B == s.camera[p]
         IN /\ Heap(s) /\ p \in Path /\ p \in Dirs(s.camera) /\ s.cache[n].files_dirty \in BOOLEAN
            /\ FileSet(A) /\ FileSet(B) /\ Files(s.camera, p) = B
            /\ Agrees(s, n, A, s.cache[n].files_dirty, B, e)
<1>1. /\ Heap(s) /\ IsTree(s.cache) /\ IsCamera(s.camera) /\ s.cache[n] \in Folder
      /\ s.cache[n].path \in Path /\ s.cache[n].path \in Dirs(s.camera)
  BY CellFacts, ProgressFacts DEF Fine, Heap
<1>2. s.cache[n].files_dirty \in BOOLEAN /\ FileSet(s.cache[n].files)
  BY <1>1 DEF Folder, Fine, FileSet
<1>3. /\ FileSet(s.camera[s.cache[n].path])
      /\ Files(s.camera, s.cache[n].path) = s.camera[s.cache[n].path]
  BY <1>1 DEF IsCamera, Files, FileSet
<1>4. ~ e.files \/ s.cache[n].files_dirty = TRUE \/
        FileFits(s.camera, s.cache[n].path, s.cache[n].files, e)
  BY <1>2 DEF Fine
<1> QED BY <1>1, <1>2, <1>3, <1>4 DEF FileFits, Agrees

\* gp_filesystem_delete_file.
LEMMA DeleteOneFine ==
  ASSUME NEW s, NEW e, Fine(s, e), NEW p \in Path, NEW x
  PROVE  Yields(s, DeleteOne(s, p, x), p, e)
<1> DEFINE l == LookupFile(s, p, x)
           n == l.n
           c == Called(l.s)
           A == c.cache[n].files \ {x}
           B == c.camera[p] \ {x}
           u == BothWritten(c, n, A, p, B)
           r == DeleteOne(s, p, x)
<1>1. Yields(s, l, p, e) /\ l.s.camera = s.camera
  BY LookupFileFine
<1>2. r = IF l.ok
          THEN IF CallFails(l.s) \/ x \notin Files(c.camera, p) THEN Ret(c, FALSE, n)
               ELSE Ret(u, TRUE, n)
          ELSE l
  BY DEF DeleteOne, IfOk, BothWritten
<1> HIDE DEF l, r
<1>3. CASE ~ l.ok
  BY <1>1, <1>2, <1>3 DEF r
<1>4. CASE l.ok
  <2>1. /\ Fine(l.s, e) /\ Onward(s, l.s) /\ n \in Cells(l.s.cache) /\ l.s.cache[n].path = p
        /\ SteadyBad(s.bad) => Clear(l.s, p)
    BY <1>1, <1>4 DEF Yields
  <2>2. /\ Fine(c, e) /\ Onward(l.s, c) /\ c.cache = l.s.cache /\ c.camera = l.s.camera
        /\ \A q : SteadyBad(l.s.bad) /\ Clear(l.s, q) => Clear(c, q)
    BY <2>1, CalledFine
  <2> HIDE DEF c
  <2>3. /\ Onward(s, c) /\ l.s.bad = s.bad /\ c.bad = s.bad /\ n \in Cells(c.cache)
        /\ c.cache[n].path = p
        /\ SteadyBad(s.bad) => Clear(c, p)
    <3>1. l.s.bad = s.bad /\ c.bad = l.s.bad
      BY <2>1, <2>2 DEF Onward
    <3> QED BY <2>1, <2>2, <3>1, OnwardOn
  <2>4. CASE CallFails(l.s) \/ x \notin Files(c.camera, p)
    <3>1. r.s = c /\ r.ok = FALSE
      BY <1>2, <1>4, <2>4 DEF Ret
    <3> QED BY <2>2, <2>3, <3>1 DEF Yields, r
  <2>5. CASE ~ (CallFails(l.s) \/ x \notin Files(c.camera, p))
    <3>1. r.s = u /\ r.ok = TRUE /\ r.n = n
      BY <1>2, <1>4, <2>5 DEF Ret
    <3>2. /\ Heap(c) /\ c.cache[n].files_dirty \in BOOLEAN
          /\ FileSet(c.cache[n].files) /\ FileSet(c.camera[c.cache[n].path])
          /\ Agrees(c, n, c.cache[n].files, c.cache[n].files_dirty, c.camera[c.cache[n].path], e)
      BY <2>2, <2>3, HereFacts
    <3>3. /\ FileSet(A) /\ FileSet(B) /\ A \in SUBSET FileName
          /\ Agrees(c, n, A, c.cache[n].files_dirty, B, e)
      BY <2>3, <3>2, FS_Subset DEF FileSet, Agrees
    <3> HIDE DEF A, B
    <3>4. u = Written(c, n, A, c.cache[n].files_dirty, B)
      <4>1. Heap(c) /\ n \in Cells(c.cache) /\ A \in SUBSET FileName /\ p = c.cache[n].path
        BY <2>3, <3>2, <3>3
      <4> QED BY <4>1, BothWrittenIs
    <3> HIDE DEF u
    <3>5. /\ Fine(u, e) /\ Onward(c, u) /\ Cells(u.cache) = Cells(c.cache)
          /\ u.cache[n].path = p /\ \A q : SteadyBad(c.bad) /\ Clear(c, q) => Clear(u, q)
      <4> DEFINE g == c.cache[n].files_dirty
      <4>1. u = Written(c, n, A, g, B) /\ g \in BOOLEAN /\ Agrees(c, n, A, g, B, e)
        BY <3>2, <3>3, <3>4
      <4>2. FileSet(A) /\ FileSet(B) /\ Fine(c, e) /\ n \in Cells(c.cache)
            /\ c.cache[n].path = p
        BY <2>2, <2>3, <3>3
      <4> HIDE DEF g
      <4> QED BY <4>1, <4>2, WrittenFine
    <3>6. Onward(s, u)
      BY <2>3, <3>5, OnwardOn
    <3> QED BY <2>3, <3>1, <3>5, <3>6 DEF Yields, r
  <2> QED BY <2>4, <2>5
<1> QED BY <1>3, <1>4

(***************************************************************************)
(* gp_filesystem_delete_file, one file after the other.                    *)
(***************************************************************************)

DeleteStep(s, p, files, f, k) ==
  IF k = 0 THEN Ret(s, TRUE, NULL)
  ELSE IF f[k - 1].ok THEN DeleteOne(f[k - 1].s, p, files[k]) ELSE f[k - 1]

\* The function that deletes one file after the other exists.
LEMMA DeletesExist ==
  ASSUME NEW s, NEW p, NEW files, NEW L \in Nat
  PROVE  \E f : f = [k \in 0 .. L |-> DeleteStep(s, p, files, f, k)]
<1> DEFINE Upto(j, f) == f = [k \in 0 .. j |-> DeleteStep(s, p, files, f, k)]
           T == {j \in 0 .. L : ~ \E f : Upto(j, f)}
<1>1. ASSUME NEW j \in T, \A k \in T : j <= k
      PROVE  FALSE
  <2>1. j \in Nat /\ j \in 0 .. L /\ ~ \E f : Upto(j, f)
    OBVIOUS
  <2>2. CASE j = 0
    <3> DEFINE f == [k \in 0 .. 0 |-> Ret(s, TRUE, NULL)]
    <3>1. f = [k \in 0 .. 0 |-> DeleteStep(s, p, files, f, k)]
      BY DEF DeleteStep
    <3> QED BY <2>1, <2>2, <3>1
  <2>3. CASE j # 0
    <3>1. j - 1 \in 0 .. L /\ j - 1 \notin T
      BY <1>1, <2>1, <2>3
    <3>2. PICK f : Upto(j - 1, f)
      BY <3>1
    <3> DEFINE g == [k \in 0 .. j |-> IF k < j THEN f[k] ELSE DeleteStep(s, p, files, f, j)]
    <3>3. ASSUME NEW k \in 0 .. j
          PROVE  g[k] = DeleteStep(s, p, files, g, k)
      <4>1. k = 0 \/ g[k - 1] = f[k - 1]
        BY <2>1
      <4>2. DeleteStep(s, p, files, g, k) = DeleteStep(s, p, files, f, k)
        <5> HIDE DEF g
        <5>1. CASE k = 0
          BY <5>1 DEF DeleteStep
        <5>2. CASE g[k - 1] = f[k - 1]
          BY <5>2 DEF DeleteStep
        <5> QED BY <4>1, <5>1, <5>2
      <4>3. CASE k < j
        <5>1. k \in 0 .. (j - 1)
          BY <2>1, <4>3
        <5>2. f[k] = DeleteStep(s, p, files, f, k)
          <6> HIDE DEF g
          <6> QED BY <3>2, <5>1
        <5> QED BY <4>2, <4>3, <5>2
      <4>4. CASE k = j
        BY <4>2, <4>4, <2>1
      <4> QED BY <4>3, <4>4, <2>1
    <3>4. g = [k \in 0 .. j |-> DeleteStep(s, p, files, g, k)]
      <4>1. g = [k \in 0 .. j |-> g[k]]
        OBVIOUS
      <4> HIDE DEF g
      <4> QED BY <3>3, <4>1
    <3> QED BY <2>1, <3>4
  <2> QED BY <2>2, <2>3
<1>2. T = {}
  <2>1. T \subseteq Nat
    OBVIOUS
  <2> HIDE DEF T
  <2> QED BY <1>1, <2>1, LeastNat
<1>3. L \in 0 .. L /\ L \notin T
  BY <1>2
<1> QED BY <1>3

\* DeleteEach deletes one file after the other.
LEMMA DeleteEachIs ==
  ASSUME NEW s, NEW p, NEW X, IsFiniteSet(X)
  PROVE  LET files == SetToSeq(X)
         IN \E f : /\ DeleteEach(s, p, X) = f[Len(files)]
                   /\ \A k \in 0 .. Len(files) : f[k] = DeleteStep(s, p, files, f, k)
<1> DEFINE files == SetToSeq(X)
           L == Len(files)
           f == CHOOSE f : f = [k \in 0 .. L |-> DeleteStep(s, p, files, f, k)]
<1>1. L \in Nat
  BY ListOfSet
<1>2. DeleteEach(s, p, X) = f[L]
  BY DEF DeleteEach, IfOk, DeleteStep
<1>3. f = [k \in 0 .. L |-> DeleteStep(s, p, files, f, k)]
  <2> HIDE DEF files, L
  <2> QED BY <1>1, DeletesExist
<1> HIDE DEF f, files, L
<1>4. \A k \in 0 .. L : f[k] = DeleteStep(s, p, files, f, k)
  BY <1>3
<1> QED BY <1>2, <1>4 DEF files, L

\* gp_filesystem_delete_file, for one file after the other.
LEMMA DeleteEachFine ==
  ASSUME NEW s, NEW e, Fine(s, e), NEW p \in Path, NEW X, IsFiniteSet(X)
  PROVE  Goes(s, DeleteEach(s, p, X), e)
<1> DEFINE files == SetToSeq(X)
           L == Len(files)
<1>1. L \in Nat
  BY ListOfSet
<1>2. PICK f : /\ DeleteEach(s, p, X) = f[L]
               /\ \A k \in 0 .. L : f[k] = DeleteStep(s, p, files, f, k)
  BY DeleteEachIs
<1> HIDE DEF files, L
<1> DEFINE T == {k \in 0 .. L : ~ Goes(s, f[k], e)}
<1>3. ASSUME NEW j \in T, \A k \in T : j <= k
      PROVE  FALSE
  <2>1. j \in 0 .. L /\ ~ Goes(s, f[j], e) /\ f[j] = DeleteStep(s, p, files, f, j)
    BY <1>2
  <2>2. CASE j = 0
    <3>1. f[j].s = s /\ f[j].ok = TRUE
      BY <2>1, <2>2 DEF DeleteStep, Ret
    <3> QED BY <2>1, <3>1, OnwardSelf DEF Goes
  <2>3. CASE j # 0
    <3>1. j - 1 \in 0 .. L /\ j - 1 \notin T
      BY <1>1, <1>3, <2>1, <2>3
    <3>2. Goes(s, f[j - 1], e)
      BY <3>1
    <3>3. Yields(f[j - 1].s, DeleteOne(f[j - 1].s, p, files[j]), p, e)
      BY <3>2, DeleteOneFine DEF Goes
    <3>4. Goes(s, DeleteOne(f[j - 1].s, p, files[j]), e)
      BY <3>2, <3>3, YieldsGoes, GoesOn DEF Goes
    <3>5. f[j] = IF f[j - 1].ok THEN DeleteOne(f[j - 1].s, p, files[j]) ELSE f[j - 1]
      BY <2>1, <2>3 DEF DeleteStep
    <3> QED BY <2>1, <3>2, <3>4, <3>5
  <2> QED BY <2>2, <2>3
<1>4. T = {}
  <2>1. T \subseteq Nat
    BY <1>1
  <2> HIDE DEF T
  <2> QED BY <1>3, <2>1, LeastNat
<1>5. L \in 0 .. L /\ L \notin T
  BY <1>1, <1>4
<1> QED BY <1>2, <1>5

\* gp_filesystem_delete_all_one_by_one.
LEMMA DeleteOneByOneFine ==
  ASSUME NEW s, NEW e, Fine(s, e), NEW p \in Path
  PROVE  Goes(s, DeleteOneByOne(s, p), e)
<1> DEFINE a == ListFiles(s, p)
           r == DeleteOneByOne(s, p)
<1>1. Yields(s, a, p, e)
  BY ListFilesFine DEF ListsFiles
<1>2. r = IF a.ok THEN DeleteEach(a.s, p, a.s.cache[a.n].files) ELSE a
  BY DEF DeleteOneByOne, IfOk
<1> HIDE DEF a, r
<1>3. CASE ~ a.ok
  BY <1>1, <1>2, <1>3, YieldsGoes DEF r
<1>4. CASE a.ok
  <2>1. Fine(a.s, e) /\ Onward(s, a.s) /\ IsFiniteSet(a.s.cache[a.n].files)
    BY <1>1, <1>4 DEF Yields, Fine
  <2>2. Goes(a.s, r, e)
    BY <1>2, <1>4, <2>1, DeleteEachFine
  <2> QED BY <2>1, <2>2, GoesOn DEF r
<1> QED BY <1>3, <1>4

\* gp_filesystem_delete_all, once the folder n is found.
DeleteFilesOf(l, p, has, left) ==
  LET c == FlagWritten(Called(l.s), l.n, TRUE)
      r == DeleteOneByOne(CameraWritten(c, p, c.camera[p] \intersect left), p)
  IN IF ~has THEN DeleteOneByOne(l.s, p)
     ELSE IF p \notin Dirs(c.camera) THEN DeleteOneByOne(c, p)
     ELSE IF CallFails(l.s)
          THEN IF r.ok
               THEN IF l.n \in r.s.freed THEN Ret(Stale(r.s), FALSE, NULL)
                    ELSE Ret(FlagWritten(r.s, l.n, FALSE), TRUE, l.n)
               ELSE r
     ELSE Ret(AllWritten(c, l.n, {}, FALSE, p, {}), TRUE, l.n)

\* gp_filesystem_delete_all is a lookup, then the rest of it.
LEMMA DeleteFilesIs ==
  \A s, p, has, left : DeleteFiles(s, p, has, left) =
    IF Lookup(s, p).ok THEN DeleteFilesOf(Lookup(s, p), p, has, left) ELSE Lookup(s, p)
BY DEF DeleteFiles, IfOk, DeleteFilesOf, FlagWritten, CameraWritten, AllWritten

\* gp_filesystem_delete_all, once the folder is found: its pointer stays good.
LEMMA DeleteFilesOfFine ==
  ASSUME NEW l, NEW e, Fine(l.s, e), NEW p, p \in Path, l.n \in Cells(l.s.cache),
         l.s.cache[l.n].path = p, SteadyBad(l.s.bad) => Clear(l.s, p),
         NEW has, NEW left
  PROVE  Goes(l.s, DeleteFilesOf(l, p, has, left), e)
<1> DEFINE n == l.n
           v == Called(l.s)
           c == FlagWritten(v, n, TRUE)
           B == c.camera[p] \intersect left
           w == CameraWritten(c, p, B)
           a == DeleteOneByOne(w, p)
           z == AllWritten(c, n, {}, FALSE, p, {})
           r == DeleteFilesOf(l, p, has, left)
<1>1. r = IF ~has THEN DeleteOneByOne(l.s, p)
          ELSE IF p \notin Dirs(c.camera) THEN DeleteOneByOne(c, p)
          ELSE IF CallFails(l.s)
               THEN IF a.ok
                    THEN IF n \in a.s.freed THEN Ret(Stale(a.s), FALSE, NULL)
                         ELSE Ret(FlagWritten(a.s, n, FALSE), TRUE, n)
                    ELSE a
          ELSE Ret(z, TRUE, n)
  BY DEF DeleteFilesOf
<1>2. /\ Fine(v, e) /\ Onward(l.s, v) /\ v.cache = l.s.cache /\ v.bad = l.s.bad
      /\ \A q : SteadyBad(l.s.bad) /\ Clear(l.s, q) => Clear(v, q)
  BY CalledFine
<1> HIDE DEF v, r
<1>3. n \in Cells(v.cache) /\ v.cache[n].path = p
  BY <1>2
<1>4. /\ Heap(v) /\ FileSet(v.cache[n].files) /\ FileSet(v.camera[v.cache[n].path])
  BY <1>2, <1>3, HereFacts
<1>5. c = Written(v, n, v.cache[n].files, TRUE, v.camera[v.cache[n].path])
  BY <1>3, <1>4, FlagWrittenIs DEF FileSet
<1> HIDE DEF c
<1>6. /\ Fine(c, e) /\ Onward(v, c) /\ Cells(c.cache) = Cells(v.cache)
      /\ c.cache[n].path = p /\ c.cache[n].files_dirty = TRUE
      /\ \A q : SteadyBad(v.bad) /\ Clear(v, q) => Clear(c, q)
  <2> DEFINE A == v.cache[n].files
             C == v.camera[v.cache[n].path]
             d == TRUE
  <2>0. d = TRUE
    OBVIOUS
  <2>1. d \in BOOLEAN /\ Agrees(v, n, A, d, C, e) /\ FileSet(A) /\ FileSet(C)
    BY <1>4 DEF Agrees
  <2>2. c = Written(v, n, A, d, C)
    BY <1>5
  <2> HIDE DEF A, C, d
  <2>3. /\ Fine(c, e) /\ Onward(v, c) /\ Cells(c.cache) = Cells(v.cache)
        /\ c.cache[n].path = v.cache[n].path /\ c.cache[n].files_dirty = d
        /\ \A q : SteadyBad(v.bad) /\ Clear(v, q) => Clear(c, q)
    BY <1>2, <1>3, <2>1, <2>2, WrittenFine
  <2> QED BY <1>3, <2>0, <2>3
<1>7. /\ Onward(l.s, c) /\ c.bad = l.s.bad /\ n \in Cells(c.cache)
      /\ SteadyBad(l.s.bad) => Clear(c, p)
  BY <1>2, <1>3, <1>6, OnwardOn DEF Onward
<1>8. Heap(c) /\ FileSet(c.cache[n].files) /\ FileSet(c.camera[p])
  BY <1>6, <1>7, HereFacts
<1>9. CASE ~ has
  BY <1>1, <1>9, DeleteOneByOneFine DEF r
<1>10. CASE has /\ p \notin Dirs(c.camera)
  <2>1. r = DeleteOneByOne(c, p)
    BY <1>1, <1>10
  <2>2. Goes(c, r, e)
    BY <1>6, <2>1, DeleteOneByOneFine
  <2> QED BY <1>7, <2>2, GoesOn DEF r
<1>11. CASE has /\ p \in Dirs(c.camera) /\ ~ CallFails(l.s)
  <2>1. r = Ret(z, TRUE, n)
    BY <1>1, <1>11
  <2> DEFINE E == {}
             g == FALSE
  <2>2. /\ FileSet(E) /\ E \in SUBSET FileName /\ g \in BOOLEAN
        /\ p = c.cache[n].path /\ Agrees(c, n, E, g, E, e)
    BY <1>6, FS_EmptySet DEF FileSet, Agrees
  <2>3. z = Written(c, n, E, g, E)
    BY <1>7, <1>8, <2>2, AllWrittenIs
  <2> HIDE DEF z, E, g
  <2>4. Fine(z, e) /\ Onward(c, z)
    BY <1>6, <1>7, <2>2, <2>3, WrittenFine
  <2>5. r.s = z /\ r.ok = TRUE
    BY <2>1 DEF Ret
  <2> QED BY <1>7, <2>4, <2>5, OnwardOn DEF Goes, r
<1>12. CASE has /\ p \in Dirs(c.camera) /\ CallFails(l.s)
  <2>1. ~ e.files
    BY <1>12 DEF Fine, CallFails
  <2>2. /\ FileSet(B) /\ p = c.cache[n].path
        /\ Agrees(c, n, c.cache[n].files, c.cache[n].files_dirty, B, e)
    BY <1>6, <1>8, <2>1, FS_Subset DEF FileSet, Agrees
  <2> HIDE DEF B
  <2>3. w = Written(c, n, c.cache[n].files, c.cache[n].files_dirty, B)
    BY <1>7, <1>8, <2>2, CameraWrittenIs
  <2> HIDE DEF w
  <2>4. /\ Fine(w, e) /\ Onward(c, w) /\ Cells(w.cache) = Cells(c.cache)
        /\ w.cache[n].path = p /\ \A q : SteadyBad(c.bad) /\ Clear(c, q) => Clear(w, q)
    <3>1. c.cache[n].files_dirty \in BOOLEAN
      BY <1>6
    <3> DEFINE u == Written(c, n, c.cache[n].files, c.cache[n].files_dirty, B)
    <3>2. /\ Fine(u, e) /\ Onward(c, u) /\ Cells(u.cache) = Cells(c.cache)
          /\ u.cache[n].path = c.cache[n].path
          /\ \A q : SteadyBad(c.bad) /\ Clear(c, q) => Clear(u, q)
      BY <1>6, <1>7, <1>8, <2>2, <3>1, WrittenFine
    <3> QED BY <1>6, <2>3, <3>2
  <2>5. Goes(w, a, e)
    BY <2>4, DeleteOneByOneFine
  <2>6. /\ Fine(a.s, e) /\ Onward(w, a.s) /\ a.ok \in BOOLEAN /\ Onward(l.s, a.s)
        /\ Heap(a.s) /\ a.s.bad = l.s.bad
    BY <1>7, <2>4, <2>5, OnwardOn DEF Goes, Fine, Onward
  <2>7. SteadyBad(l.s.bad) => n \in Cells(a.s.cache)
    BY <1>7, <2>4, <2>6 DEF Onward, Firm
  <2> HIDE DEF a
  <2>8. CASE ~ a.ok
    BY <1>1, <1>12, <2>6, <2>8 DEF Goes, r
  <2>9. CASE a.ok /\ n \in a.s.freed
    <3>1. r = Ret(Stale(a.s), FALSE, NULL)
      BY <1>1, <1>12, <2>9
    <3>2. ~ SteadyBad(a.s.bad)
      BY <2>6, <2>7, <2>9 DEF Heap
    <3>3. Goes(a.s, r, e)
      BY <2>6, <3>1, <3>2, StaleFine
    <3> QED BY <2>6, <3>3, GoesOn DEF r
  <2>10. CASE a.ok /\ n \notin a.s.freed
    <3> DEFINE u == FlagWritten(a.s, n, FALSE)
    <3>1. r = Ret(u, TRUE, n)
      BY <1>1, <1>12, <2>10
    <3>2. n \in Cells(a.s.cache) /\ FALSE \in BOOLEAN
      BY <1>3, <2>6, <2>10, <1>2 DEF Onward
    <3>3. /\ FileSet(a.s.cache[n].files) /\ FileSet(a.s.camera[a.s.cache[n].path])
          /\ Agrees(a.s, n, a.s.cache[n].files, FALSE, a.s.camera[a.s.cache[n].path], e)
      BY <2>1, <2>6, <3>2, HereFacts, Zenon DEF Agrees
    <3>4. u = Written(a.s, n, a.s.cache[n].files, FALSE, a.s.camera[a.s.cache[n].path])
      BY <2>6, <3>2, <3>3, FlagWrittenIs, Zenon DEF FileSet
    <3> HIDE DEF u
    <3>5. Fine(u, e) /\ Onward(a.s, u)
      <4> DEFINE A == a.s.cache[n].files
                 C == a.s.camera[a.s.cache[n].path]
                 d == FALSE
      <4>1. d \in BOOLEAN /\ Agrees(a.s, n, A, d, C, e) /\ FileSet(A) /\ FileSet(C)
        BY <3>3
      <4>2. u = Written(a.s, n, A, d, C)
        BY <3>4
      <4> HIDE DEF A, C, d
      <4> QED BY <2>6, <3>2, <4>1, <4>2, WrittenFine
    <3>6. r.s = u /\ r.ok = TRUE
      BY <3>1 DEF Ret
    <3> QED BY <2>6, <3>5, <3>6, OnwardOn DEF Goes, r
  <2> QED BY <2>8, <2>9, <2>10
<1> QED BY <1>9, <1>10, <1>11, <1>12

\* gp_filesystem_delete_all.
LEMMA DeleteFilesFine ==
  ASSUME NEW s, NEW e, Fine(s, e), NEW p \in Path, NEW has, NEW left
  PROVE  Goes(s, DeleteFiles(s, p, has, left), e)
<1> DEFINE l == Lookup(s, p)
           r == DeleteFiles(s, p, has, left)
<1>1. Yields(s, l, p, e)
  BY LookupFine
<1>2. r = IF l.ok THEN DeleteFilesOf(l, p, has, left) ELSE l
  BY DeleteFilesIs
<1> HIDE DEF l, r
<1>3. CASE ~ l.ok
  BY <1>1, <1>2, <1>3, YieldsGoes DEF r
<1>4. CASE l.ok
  <2>1. /\ Fine(l.s, e) /\ Onward(s, l.s) /\ l.n \in Cells(l.s.cache)
        /\ l.s.cache[l.n].path = p
        /\ SteadyBad(l.s.bad) => Clear(l.s, p)
    BY <1>1, <1>4 DEF Yields, Onward
  <2>2. Goes(l.s, r, e)
    BY <1>2, <1>4, <2>1, DeleteFilesOfFine
  <2> QED BY <2>1, <2>2, GoesOn DEF r
<1> QED BY <1>3, <1>4

\* gp_filesystem_put_file.
LEMMA PutFileFine ==
  ASSUME NEW s, NEW e, Fine(s, e), NEW p \in Path, NEW x \in FileName
  PROVE  Yields(s, PutFile(s, p, x), p, e)
<1> DEFINE l == Lookup(s, p)
           n == l.n
           A == l.s.cache[n].files \union {x}
           B == l.s.camera[p] \union {x}
           u == BothWrittenToo(l.s, n, A, p, B)
           fails == CallFails(l.s) \/ p \notin Dirs(l.s.camera) \/ x \in l.s.camera[p]
           r == PutFile(s, p, x)
<1>1. Yields(s, l, p, e)
  BY LookupFine
<1>2. r = IF l.ok
          THEN IF fails THEN Ret(l.s, FALSE, n)
               ELSE Ret(u, x \notin l.s.cache[n].files, n)
          ELSE l
  BY DEF PutFile, IfOk, BothWrittenToo
<1> HIDE DEF l, r
<1>3. CASE ~ l.ok
  BY <1>1, <1>2, <1>3 DEF r
<1>4. CASE l.ok
  <2>1. /\ Fine(l.s, e) /\ Onward(s, l.s) /\ n \in Cells(l.s.cache)
        /\ p = l.s.cache[n].path /\ l.s.bad = s.bad
        /\ SteadyBad(s.bad) => Clear(l.s, p)
    BY <1>1, <1>4 DEF Yields, Onward
  <2>2. CASE fails
    <3>1. r.s = l.s /\ r.ok = FALSE
      BY <1>2, <1>4, <2>2 DEF Ret
    <3> QED BY <2>1, <3>1 DEF Yields, r
  <2>3. CASE ~ fails
    <3>1. r.s = u /\ r.ok = (x \notin l.s.cache[n].files) /\ r.n = n
      BY <1>2, <1>4, <2>3 DEF Ret
    <3>2. /\ Heap(l.s) /\ l.s.cache[n].files_dirty \in BOOLEAN
          /\ FileSet(l.s.cache[n].files) /\ FileSet(l.s.camera[p])
          /\ Agrees(l.s, n, l.s.cache[n].files, l.s.cache[n].files_dirty, l.s.camera[p], e)
      BY <2>1, HereFacts
    <3>3. /\ FileSet(A) /\ FileSet(B) /\ A \in SUBSET FileName
          /\ Agrees(l.s, n, A, l.s.cache[n].files_dirty, B, e)
      BY <3>2, FS_AddElement DEF FileSet, Agrees
    <3> HIDE DEF A, B
    <3>4. u = Written(l.s, n, A, l.s.cache[n].files_dirty, B)
      <4>1. /\ Heap(l.s) /\ n \in Cells(l.s.cache) /\ A \in SUBSET FileName
            /\ p = l.s.cache[n].path
        BY <2>1, <3>2, <3>3
      <4> QED BY <4>1, BothWrittenIs
    <3> HIDE DEF u
    <3>5. /\ Fine(u, e) /\ Onward(l.s, u) /\ Cells(u.cache) = Cells(l.s.cache)
          /\ u.cache[n].path = p /\ \A q : SteadyBad(l.s.bad) /\ Clear(l.s, q) => Clear(u, q)
      <4> DEFINE d == l.s.cache[n].files_dirty
                 t == l.s
      <4>1. /\ d \in BOOLEAN /\ Agrees(t, n, A, d, B, e) /\ FileSet(A) /\ FileSet(B)
            /\ Fine(t, e) /\ n \in Cells(t.cache) /\ p = t.cache[n].path
        BY <2>1, <3>2, <3>3
      <4>2. u = Written(t, n, A, d, B)
        BY <3>4
      <4>3. t = l.s
        OBVIOUS
      <4> HIDE DEF d, t
      <4>4. /\ Fine(u, e) /\ Onward(t, u) /\ Cells(u.cache) = Cells(t.cache)
            /\ u.cache[n].path = t.cache[n].path
            /\ \A q : SteadyBad(t.bad) /\ Clear(t, q) => Clear(u, q)
        BY <4>1, <4>2, WrittenFine
      <4> QED BY <4>1, <4>3, <4>4
    <3>6. Onward(s, u)
      BY <2>1, <3>5, OnwardOn
    <3> QED BY <2>1, <3>1, <3>5, <3>6 DEF Yields, r
  <2> QED BY <2>2, <2>3
<1> QED BY <1>3, <1>4

\* gp_filesystem_number.
LEMMA SeekFileFine ==
  ASSUME NEW s, NEW e, Fine(s, e), NEW p \in Path, NEW x
  PROVE  Goes(s, SeekFile(s, p, x), e)
<1> DEFINE l == Lookup(s, p)
           a == ListFiles(l.s, p)
           r == SeekFile(s, p, x)
<1>1. Goes(s, l, e)
  BY LookupFine, YieldsGoes
<1>2. r = IF l.ok
          THEN IF x \in l.s.cache[l.n].files \/ ~l.s.cache[l.n].files_dirty THEN l
               ELSE IF a.ok THEN Lookup(a.s, p) ELSE a
          ELSE l
  BY DEF SeekFile, IfOk
<1>3. Goes(l.s, a, e)
  BY <1>1, ListFilesFine, YieldsGoes DEF Goes, ListsFiles
<1>4. Goes(a.s, Lookup(a.s, p), e)
  BY <1>3, LookupFine, YieldsGoes DEF Goes
<1> HIDE DEF l, r, a
<1>5. Goes(s, a, e) /\ Goes(s, Lookup(a.s, p), e)
  BY <1>1, <1>3, <1>4, GoesOn DEF Goes
<1> QED BY <1>1, <1>2, <1>5 DEF r

-----------------------------------------------------------------------------
\* Without its subfolders the root folder has nothing below it.
LEMMA OnlyRoot ==
  ASSUME NEW c, IsTree(c), \A nm \in Name : ~ Has(c, Append(<< >>, nm))
  PROVE  Cells(c) = {Root}
<1>1. ASSUME NEW n \in Cells(c), n # Root
      PROVE  FALSE
  <2> DEFINE q == c[n].path
             m == c[n].parent
  <2>1. m \in Cells(c) /\ Last(q) \in Name /\ q = Append(c[m].path, Last(q))
    BY <1>1, ParentFacts
  <2>2. c[m].path \in Seq(Name) /\ q \in Seq(Name) /\ << >> \in Seq(Name) /\ Len(<< >>) = 0
    BY <1>1, <2>1, CellFacts
  <2>3. Deeper(<< >>, q)
    <3> HIDE DEF q, m
    <3>1. Len(q) = Len(c[m].path) + 1 /\ Len(c[m].path) \in Nat
      BY <2>1, <2>2, AppendPath
    <3> QED BY <2>2, <3>1 DEF Deeper
  <2>4. PICK nm \in Name : q = Append(<< >>, nm) \/ Deeper(Append(<< >>, nm), q)
    BY <2>2, <2>3, DeeperStep
  <2>5. Append(<< >>, nm) \in Seq(Name)
    BY <2>2, AppendPath
  <2>6. CASE q = Append(<< >>, nm)
    BY <1>1, <2>6 DEF Has
  <2>7. CASE Deeper(Append(<< >>, nm), q)
    BY <1>1, <2>5, <2>7, AncestorFacts
  <2> QED BY <2>4, <2>6, <2>7
<1> QED BY <1>1, CellFacts

\* The root folder, marked dirty.
RootDirty(s) == [s EXCEPT !.cache[Root].files_dirty = TRUE,
                          !.cache[Root].folders_dirty = TRUE]

\* gp_filesystem_reset.
LEMMA ResetFine ==
  ASSUME NEW s, NEW e, Fine(s, e)
  PROVE  LET u == ResetCache(s)
         IN /\ Fine(u, e) /\ u.bad = s.bad /\ u.camera = s.camera
            /\ Cells(u.cache) = {Root} /\ u.cache[Root].files = s.cache[Root].files
<1> DEFINE v == Release(s, Below(s, Root))
           u == RootDirty(v)
<1>1. Heap(s) /\ Root \in Cells(s.cache) /\ s.cache[Root].path = << >>
  BY CellFacts DEF Fine, Heap, IsTree
<1>2. /\ Heap(v) /\ v \in Records(s) /\ v.stale = s.stale
      /\ \A k \in Cells(v.cache) : v.cache[k] = s.cache[k]
      /\ \A nm \in Name : ~ Has(v.cache, Append(s.cache[Root].path, nm))
  BY <1>1, EmptyFacts
<1>3. ResetCache(s) = u
  BY DEF ResetCache, RootDirty
<1> HIDE DEF v
<1>4. IsTree(v.cache) /\ v \in Progress /\ Root \in 1 .. Len(v.cache)
  BY <1>2, CellFacts DEF Heap
<1>5. Cells(v.cache) = {Root}
  BY <1>1, <1>2, <1>4, OnlyRoot
<1>6. /\ u.camera = v.camera /\ u.freed = v.freed /\ u.stale = v.stale /\ u.bad = v.bad
      /\ u.calls = v.calls
      /\ u = [camera |-> u.camera, cache |-> u.cache, calls |-> u.calls, bad |-> u.bad,
              freed |-> u.freed, stale |-> u.stale]
  <2> DEFINE d == u.cache
  <2>1. u = [v EXCEPT !.cache = d]
    BY <1>4 DEF RootDirty, Progress
  <2> HIDE DEF u, d
  <2> QED BY <1>4, <2>1 DEF Progress
<1>7. /\ Len(u.cache) = Len(v.cache) /\ u.cache \in Seq(Folder)
      /\ \A n \in 1 .. Len(v.cache) : /\ u.cache[n].path = v.cache[n].path
                                      /\ u.cache[n].parent = v.cache[n].parent
                                      /\ u.cache[n].files = v.cache[n].files
      /\ u.cache[Root].files_dirty = TRUE /\ u.cache[Root].folders_dirty = TRUE
  <2> DEFINE f == [v.cache[Root] EXCEPT !.files_dirty = TRUE]
             g == [f EXCEPT !.folders_dirty = TRUE]
             c == v.cache
  <2>1. c \in Seq(Folder) /\ c[Root] \in Folder
    BY <1>4, CellFacts DEF Progress, IsTree
  <2>2. /\ g \in Folder /\ g.path = c[Root].path /\ g.parent = c[Root].parent
        /\ g.files = c[Root].files /\ g.files_dirty = TRUE /\ g.folders_dirty = TRUE
    BY <2>1 DEF Folder
  <2>3. u.cache = [[c EXCEPT ![Root] = f] EXCEPT ![Root] = g]
    BY <1>4, <2>1 DEF RootDirty, Progress
  <2> HIDE DEF f, g, c, u
  <2>4. u.cache = [c EXCEPT ![Root] = g]
    BY <2>1, <2>3
  <2> QED BY <1>4, <2>1, <2>2, <2>4 DEF c
<1> HIDE DEF u
<1>8. u \in Progress
  <2>1. /\ v.camera \in Cameras /\ v.calls \in 0 .. MaxCalls /\ v.bad \subseteq 1 .. MaxCalls
        /\ v.freed \subseteq Nat /\ v.stale \in BOOLEAN
    BY <1>4, ProgressFacts
  <2> QED BY <1>6, <1>7, <2>1 DEF Progress
<1>9. Heap(u) /\ Cells(u.cache) = Cells(v.cache)
  <2>1. \A n \in Cells(v.cache) : v.cache[n].path \in Dirs(u.camera)
    BY <1>2, <1>6 DEF Heap
  <2> QED BY <1>2, <1>6, <1>7, <1>8, <2>1, SameTree
<1>10. IsFiniteSet(u.cache[Root].files)
  BY <1>1, <1>2, <1>4, <1>5, <1>7 DEF Fine
<1>11. u.bad = s.bad /\ u.stale = s.stale /\ u.camera = s.camera
  BY <1>2, <1>6 DEF Records
<1>12. Complete(u, e.dirs)
  BY <1>5, <1>7, <1>9 DEF Complete
<1>13. u.cache[Root].files = s.cache[Root].files
  BY <1>2, <1>4, <1>5, <1>7
<1>14. Fine(u, e)
  BY <1>5, <1>7, <1>9, <1>10, <1>11, <1>12 DEF Fine
<1> QED BY <1>3, <1>5, <1>9, <1>11, <1>13, <1>14

-----------------------------------------------------------------------------
(***************************************************************************)
(* New folders.                                                            *)
(***************************************************************************)

\* What is excused after a directory q is new on the camera.
Excuses(e, d, q) ==
  d.files = e.files /\ d.loose = e.loose /\ \A x \in d.dirs : x \in e.dirs \/ x = q

\* append_folder_one.
LEMMA AppendOneFine ==
  ASSUME NEW s, NEW d, Fine(s, d), NEW n \in Cells(s.cache), NEW nm \in Name,
         Append(s.cache[n].path, nm) \in Dirs(s.camera),
         ~ Has(s.cache, Append(s.cache[n].path, nm)),
         NEW e, Excuses(e, d, Append(s.cache[n].path, nm))
  PROVE  LET t == AppendFolderOne(s, n, nm)
             q == Append(s.cache[n].path, nm)
         IN /\ Fine(t, e) /\ Onward(s, t) /\ t.stale = s.stale
            /\ t.camera = s.camera /\ t.bad = s.bad
            /\ \A m \in Cells(t.cache) : t.cache[m].path = q =>
                 /\ t.cache[m].files_dirty /\ t.cache[m].folders_dirty
                 /\ m \notin Cells(s.cache)
            /\ Has(t.cache, q)
            /\ \A m \in Cells(t.cache) : ~ Deeper(q, t.cache[m].path)
            /\ \A k \in Cells(s.cache) : k \in Cells(t.cache) /\ t.cache[k] = s.cache[k]
            /\ \A k \in Cells(t.cache) \ Cells(s.cache) : t.cache[k].files = {}
            /\ \A r : Clear(s, r) /\ ~ Deeper(q, r) => Clear(t, r)
<1> DEFINE t == AppendFolderOne(s, n, nm)
           q == Append(s.cache[n].path, nm)
<1>1. Heap(s) /\ IsTree(s.cache) /\ s \in Progress
  BY DEF Fine, Heap
<1>2. /\ s.cache[n].path \in Seq(Name) /\ q \in Seq(Name)
  BY <1>1, CellFacts, AppendPath
<1>3. /\ Heap(t) /\ t \in Records(s)
      /\ t.calls = s.calls /\ t.stale = s.stale /\ t.freed = s.freed
      /\ \E m \in Nat :
           /\ m \notin Cells(s.cache) /\ Cells(t.cache) = Cells(s.cache) \union {m}
           /\ t.cache[m] = NewFolder(n, q)
      /\ \A k \in Cells(s.cache) : t.cache[k] = s.cache[k]
  <2>1. /\ Heap(t) /\ t \in Records(s)
        /\ t.calls = s.calls /\ t.stale = s.stale /\ t.freed = s.freed
        /\ \E m \in Nat :
             /\ m \notin Cells(s.cache) /\ Cells(t.cache) = Cells(s.cache) \union {m}
             /\ t.cache[m] = NewFolder(n, Append(s.cache[n].path, nm))
        /\ \A k \in Cells(s.cache) : t.cache[k] = s.cache[k]
    BY <1>1, AppendOneFacts
  <2> HIDE DEF t
  <2> QED BY <2>1
<1>0. q \in Dirs(s.camera) /\ ~ Has(s.cache, q) /\ Excuses(e, d, q)
  OBVIOUS
<1> HIDE DEF t, q
<1>4. PICK m \in Nat : /\ m \notin Cells(s.cache) /\ Cells(t.cache) = Cells(s.cache) \union {m}
                       /\ t.cache[m] = NewFolder(n, q)
  BY <1>3
<1>5. /\ t.cache[m].path = q /\ t.cache[m].files = {} /\ t.cache[m].files_dirty = TRUE
      /\ t.cache[m].folders_dirty = TRUE
  BY <1>4 DEF NewFolder
<1>6. \A k \in Cells(s.cache) : k \in Cells(t.cache) /\ t.cache[k] = s.cache[k]
  BY <1>3, <1>4
<1>7. t.camera = s.camera /\ t.bad = s.bad
  BY <1>3 DEF Records
<1>8. \A k \in Cells(s.cache) : ~ Deeper(q, s.cache[k].path) /\ s.cache[k].path # q
  BY <1>0, <1>1, <1>2, NothingDeeper
<1>9. \A k \in Cells(t.cache) : ~ Deeper(q, t.cache[k].path)
  <2>1. ~ Deeper(q, q)
    BY <1>2 DEF Deeper
  <2> QED BY <1>4, <1>5, <1>6, <1>8, <2>1
<1>10. Gone(t) <=> Gone(s)
  BY <1>3, <1>7 DEF Gone, CallFails, NextCall
<1>11. ASSUME NEW r, Clear(s, r), ~ Deeper(q, r)
       PROVE  Clear(t, r)
  BY <1>4, <1>5, <1>6, <1>10, <1>11 DEF Clear
<1>12. Firm(s, t)
  BY <1>3, <1>6, <1>8, <1>10, <1>11 DEF Firm
<1>13. Onward(s, t)
  BY <1>3, <1>6, <1>7, <1>12 DEF Onward
<1>14. ASSUME Complete(s, d.dirs)
       PROVE  Complete(t, e.dirs)
  <2>1. \A r : Has(s.cache, r) => Has(t.cache, r)
    BY <1>6 DEF Has
  <2>2. Has(t.cache, q)
    BY <1>4, <1>5 DEF Has
  <2>3. ASSUME NEW k \in Cells(t.cache), NEW x \in Name, ~ t.cache[k].folders_dirty,
               Append(t.cache[k].path, x) \in Dirs(t.camera)
        PROVE  Has(t.cache, Append(t.cache[k].path, x)) \/ Append(t.cache[k].path, x) \in e.dirs
    <3>1. k \in Cells(s.cache) /\ t.cache[k] = s.cache[k]
      BY <1>4, <1>5, <1>6, <2>3
    <3> DEFINE y == Append(t.cache[k].path, x)
    <3>2. Has(s.cache, y) \/ y \in d.dirs
      BY <1>7, <1>14, <2>3, <3>1 DEF Complete
    <3> HIDE DEF y
    <3>3. Has(t.cache, y) \/ y \in e.dirs
      BY <1>0, <2>1, <2>2, <3>2 DEF Excuses
    <3> QED BY <3>3 DEF y
  <2> QED BY <2>3 DEF Complete
<1>15. \A k \in Cells(t.cache) : IsFiniteSet(t.cache[k].files)
  BY <1>4, <1>5, <1>6, FS_EmptySet DEF Fine
<1>16. ASSUME e.files, NEW k \in Cells(t.cache), ~ t.cache[k].files_dirty
       PROVE  FileFits(t.camera, t.cache[k].path, t.cache[k].files, e)
  <2>1. k \in Cells(s.cache) /\ t.cache[k] = s.cache[k]
    BY <1>4, <1>5, <1>6, <1>16
  <2>2. FileFits(s.camera, s.cache[k].path, s.cache[k].files, d)
    BY <1>0, <1>16, <2>1 DEF Fine, Excuses
  <2> QED BY <1>0, <1>7, <2>1, <2>2 DEF FileFits, Excuses
<1>17. Fine(t, e)
  BY <1>0, <1>3, <1>7, <1>14, <1>15, <1>16 DEF Fine, Excuses
<1>18. Has(t.cache, q)
  BY <1>4, <1>5 DEF Has
<1>19. \A k \in Cells(t.cache) : t.cache[k].path = q =>
                 /\ t.cache[k].files_dirty /\ t.cache[k].folders_dirty
                 /\ k \notin Cells(s.cache)
  BY <1>4, <1>5, <1>6, <1>8
<1>20. \A k \in Cells(t.cache) \ Cells(s.cache) : t.cache[k].files = {}
  BY <1>4, <1>5
<1> QED BY <1>3, <1>6, <1>7, <1>9, <1>11, <1>13, <1>17, <1>18, <1>19, <1>20 DEF t, q

\* The camera gets new directories, without files.
LEMMA WithFacts ==
  ASSUME NEW cam, IsCamera(cam), NEW N, N \subseteq Path, IsFiniteSet(N)
  PROVE  /\ IsCamera(With(cam, N)) /\ Dirs(With(cam, N)) = Dirs(cam) \union N
         /\ \A p : Files(With(cam, N), p) = Files(cam, p)
<1> DEFINE w == With(cam, N)
<1>1. Dirs(w) = Dirs(cam) \union N /\ \A p \in Dirs(w) : w[p] = Files(cam, p)
  BY DEF With, Dirs
<1>2. \A p : Files(w, p) = Files(cam, p)
  BY <1>1 DEF Files
<1>3. w = [p \in Dirs(w) |-> w[p]]
  BY DEF With, Dirs
<1>4. IsFiniteSet(Dirs(cam) \union N)
  BY FS_Union DEF IsCamera
<1>5. \A p \in Dirs(w) : w[p] \subseteq FileName /\ IsFiniteSet(w[p])
  BY <1>1, FS_EmptySet DEF Files, IsCamera
<1> HIDE DEF w
<1>6. IsCamera(w)
  BY <1>1, <1>3, <1>4, <1>5 DEF IsCamera
<1> QED BY <1>1, <1>2, <1>6 DEF w

\* The camera has new directories.
Grown(s, N) == [s EXCEPT !.camera = With(s.camera, N)]
Excusing(e, N) == [files |-> e.files, dirs |-> e.dirs \union N, loose |-> e.loose]

\* New directories on the camera, which the cache need not have yet.
LEMMA GrownFine ==
  ASSUME NEW s, NEW e, Fine(s, e), NEW N, N \subseteq Path, IsFiniteSet(N)
  PROVE  LET t == Grown(s, N)
         IN /\ Fine(t, Excusing(e, N)) /\ Onward(s, t) /\ t.cache = s.cache
            /\ t.stale = s.stale /\ t.bad = s.bad /\ t.camera = With(s.camera, N)
            /\ \A q : Clear(s, q) => Clear(t, q)
<1> DEFINE t == Grown(s, N)
           cam == With(s.camera, N)
           d == Excusing(e, N)
<1>1. Heap(s) /\ IsTree(s.cache) /\ s \in Progress /\ IsCamera(s.camera)
  BY ProgressFacts DEF Fine, Heap
<1>2. /\ IsCamera(cam) /\ Dirs(cam) = Dirs(s.camera) \union N
      /\ \A p : Files(cam, p) = Files(s.camera, p)
  BY <1>1, WithFacts
<1> HIDE DEF cam
<1>3. cam \in Cameras
  BY <1>2, CamerasAreCameras
<1>4. t = [s EXCEPT !.camera = cam]
  BY DEF Grown, cam
<1> HIDE DEF t
<1>5. /\ t.camera = cam /\ t.cache = s.cache /\ t.calls = s.calls /\ t.bad = s.bad
      /\ t.freed = s.freed /\ t.stale = s.stale /\ t \in Progress
  BY <1>1, <1>3, <1>4 DEF Progress
<1>6. Heap(t)
  BY <1>1, <1>2, <1>5 DEF Heap
<1>7. Gone(t) <=> Gone(s)
  BY <1>5 DEF Gone, CallFails, NextCall
<1>8. \A q : Clear(s, q) => Clear(t, q)
  BY <1>5, <1>7 DEF Clear
<1>9. Firm(s, t)
  BY <1>5, <1>7, <1>8 DEF Firm
<1>10. Onward(s, t)
  BY <1>5, <1>9 DEF Onward
<1>11. d.files = e.files /\ d.loose = e.loose /\ d.dirs = e.dirs \union N
  BY DEF Excusing
<1> HIDE DEF d
<1>12. Complete(s, e.dirs) => Complete(t, d.dirs)
  BY <1>2, <1>5, <1>11 DEF Complete
<1>13. ASSUME e.files, NEW k \in Cells(t.cache), ~ t.cache[k].files_dirty
       PROVE  FileFits(t.camera, t.cache[k].path, t.cache[k].files, d)
  <2>1. FileFits(s.camera, s.cache[k].path, s.cache[k].files, e)
    BY <1>5, <1>13 DEF Fine
  <2> QED BY <1>2, <1>5, <1>11, <2>1 DEF FileFits
<1>14. Fine(t, d)
  BY <1>5, <1>6, <1>11, <1>12, <1>13 DEF Fine
<1> QED BY <1>5, <1>8, <1>10, <1>14 DEF t, d, cam

\* gp_filesystem_make_dir.
LEMMA MakeFolderFine ==
  ASSUME NEW s, NEW e, Fine(s, e), NEW p \in Path, Len(p) < MaxDepth, NEW nm \in Name
  PROVE  Goes(s, MakeFolder(s, p, nm), e)
<1> DEFINE l == Lookup(s, p)
           q == Append(p, nm)
           v == Grown(l.s, {q})
           u == AppendFolderOne(v, l.n, nm)
           fails == CallFails(l.s) \/ p \notin Dirs(l.s.camera) \/ q \in Dirs(l.s.camera)
           r == MakeFolder(s, p, nm)
<1>1. Yields(s, l, p, e)
  BY LookupFine
<1>2. r = IF l.ok THEN IF fails THEN Ret(l.s, FALSE, l.n) ELSE Ret(u, TRUE, l.n) ELSE l
  BY DEF MakeFolder, IfOk, Grown
<1> HIDE DEF r, l
<1>3. CASE ~ l.ok
  BY <1>1, <1>2, <1>3, YieldsGoes DEF r
<1>4. CASE l.ok
  <2>1. /\ Fine(l.s, e) /\ Onward(s, l.s) /\ l.n \in Cells(l.s.cache)
        /\ l.s.cache[l.n].path = p
    BY <1>1, <1>4 DEF Yields
  <2>2. CASE fails
    <3>1. r.s = l.s /\ r.ok = FALSE
      BY <1>2, <1>4, <2>2 DEF Ret
    <3> QED BY <2>1, <3>1 DEF Goes, r
  <2>3. CASE ~ fails
    <3> DEFINE d == Excusing(e, {q})
    <3>1. p \in Seq(Name) /\ q \in Seq(Name) /\ q \in Path
      <4>1. p \in Seq(Name) /\ Len(p) \in Nat /\ MaxDepth \in Nat
        BY PathsAreSequences
      <4>2. q \in Seq(Name) /\ Len(q) = Len(p) + 1
        BY <4>1, AppendPath
      <4>3. Len(q) <= MaxDepth
        BY <4>1, <4>2
      <4> QED BY <4>1, <4>2, <4>3, PathsAreSequences
    <3>2. ~ Has(l.s.cache, q)
      BY <2>1, <2>3 DEF Has, Fine, Heap
    <3>3. {q} \subseteq Path /\ IsFiniteSet({q})
      BY <3>1, FS_Singleton
    <3>4. /\ Fine(v, d) /\ Onward(l.s, v) /\ v.cache = l.s.cache
          /\ v.camera = With(l.s.camera, {q})
      <4> HIDE DEF q
      <4> QED BY <2>1, <3>3, GrownFine
    <3>5. q \in Dirs(v.camera) /\ l.n \in Cells(v.cache) /\ v.cache[l.n].path = p
          /\ ~ Has(v.cache, q)
      <4>1. Dirs(With(l.s.camera, {q})) = Dirs(l.s.camera) \union {q}
        BY DEF With, Dirs
      <4> QED BY <2>1, <3>2, <3>4, <4>1
    <3>6. Excuses(e, d, q)
      BY DEF Excuses, Excusing
    <3>7. /\ Append(v.cache[l.n].path, nm) \in Dirs(v.camera)
          /\ ~ Has(v.cache, Append(v.cache[l.n].path, nm))
          /\ Excuses(e, d, Append(v.cache[l.n].path, nm))
      BY <3>5, <3>6
    <3> HIDE DEF v, d, q
    <3>8. Fine(u, e) /\ Onward(v, u)
      BY <3>4, <3>5, <3>7, AppendOneFine
    <3> HIDE DEF u
    <3>9. r.s = u /\ r.ok = TRUE
      BY <1>2, <1>4, <2>3 DEF Ret
    <3>10. Onward(s, u)
      BY <2>1, <3>4, <3>8, OnwardOn
    <3> QED BY <3>8, <3>9, <3>10 DEF Goes, r
  <2> QED BY <2>2, <2>3
<1> QED BY <1>3, <1>4

-----------------------------------------------------------------------------
(***************************************************************************)
(* Folders that go.                                                        *)
(***************************************************************************)

\* What goes from the camera with the directory q.
Tree(cam, q) == {d \in Dirs(cam) : IsPrefix(q, d)}
Pruned(s, k, D) == [Release(s, {k}) EXCEPT !.camera = Restrict(@, DOMAIN @ \ D)]

\* What a path begins with.
LEMMA PrefixFacts ==
  ASSUME NEW p \in Seq(Name), NEW q \in Seq(Name)
  PROVE  /\ IsPrefix(q, q) /\ (IsPrefix(q, p) => p = q \/ Deeper(q, p))
         /\ q # << >> => ~ IsPrefix(q, << >>)
<1>1. Len(p) \in Nat /\ Len(q) \in Nat
  BY LenProperties
<1>2. IsPrefix(q, q)
  BY <1>1 DEF IsPrefix
<1>3. ASSUME IsPrefix(q, p)
      PROVE  p = q \/ Deeper(q, p)
  <2>1. Len(q) <= Len(p) /\ SubSeq(q, 1, Len(q)) = SubSeq(p, 1, Len(q))
    BY <1>3 DEF IsPrefix
  <2>2. SubSeq(q, 1, Len(q)) = q
    BY WholePath
  <2>3. \A i \in 1 .. Len(q) : p[i] = q[i]
    <3>1. Len(q) \in 0 .. Len(p)
      BY <1>1, <2>1
    <3>2. \A i \in 1 .. Len(q) : SubSeq(p, 1, Len(q))[i] = p[i]
      BY <3>1, PathPrefix
    <3> QED BY <2>1, <2>2, <3>2
  <2>4. CASE Len(q) = Len(p)
    BY <2>3, <2>4, SamePath
  <2>5. CASE Len(q) < Len(p)
    BY <2>3, <2>5 DEF Deeper
  <2> QED BY <1>1, <2>1, <2>4, <2>5
<1>4. ASSUME q # << >>, IsPrefix(q, << >>)
      PROVE  FALSE
  <2>1. Len(q) <= 0
    BY <1>4, EmptySeq DEF IsPrefix
  <2> QED BY <1>1, <1>4, <2>1, EmptySeq
<1> QED BY <1>2, <1>3, <1>4

\* A folder without subfolders has nothing below it.
LEMMA Barren ==
  ASSUME NEW s, IsTree(s.cache), NEW k \in Cells(s.cache), Kids(s, k) = {}
  PROVE  \A m \in Cells(s.cache) : ~ Deeper(s.cache[k].path, s.cache[m].path)
<1> DEFINE q == s.cache[k].path
<1>1. SUFFICES ASSUME NEW m \in Cells(s.cache), Deeper(q, s.cache[m].path)
               PROVE  FALSE
  OBVIOUS
<1>2. q \in Seq(Name) /\ s.cache[m].path \in Seq(Name)
  BY CellFacts
<1>3. PICK nm \in Name : \/ s.cache[m].path = Append(q, nm)
                         \/ Deeper(Append(q, nm), s.cache[m].path)
  BY <1>1, <1>2, DeeperStep
<1>4. Append(q, nm) \in Seq(Name)
  BY <1>2, AppendPath
<1>5. PICK j \in Cells(s.cache) : s.cache[j].path = Append(q, nm)
  BY <1>3, <1>4, AncestorFacts DEF Has
<1>6. s.cache[j].parent = k
  BY <1>5, KidFacts
<1> QED BY <1>5, <1>6 DEF Kids

\* A folder without subfolders goes, and what the camera has there.
LEMMA PrunedFine ==
  ASSUME NEW t, NEW e, Fine(t, e), NEW k \in Cells(t.cache), k # Root, Kids(t, k) = {}
  PROVE  LET D == Tree(t.camera, t.cache[k].path)
             u == Pruned(t, k, D)
         IN /\ Fine(u, e) /\ u.bad = t.bad
            /\ u.camera = Restrict(t.camera, Dirs(t.camera) \ D)
            /\ Cells(u.cache) = Cells(t.cache) \ {k}
            /\ \A n \in Cells(u.cache) : u.cache[n] = t.cache[n]
<1> DEFINE q == t.cache[k].path
           D == Tree(t.camera, q)
           v == Release(t, {k})
           u == Pruned(t, k, D)
           cam == Restrict(t.camera, Dirs(t.camera) \ D)
<1>1. Heap(t) /\ IsTree(t.cache) /\ t \in Progress /\ IsCamera(t.camera)
  BY ProgressFacts DEF Fine, Heap
<1>2. /\ Heap(v) /\ v \in Records(t) /\ v.calls = t.calls /\ v.stale = t.stale
      /\ v.freed = t.freed \union {k}
      /\ Cells(v.cache) = Cells(t.cache) \ {k}
      /\ \A n \in Cells(v.cache) : v.cache[n] = t.cache[n]
  <2>1. {k} \subseteq Cells(t.cache) /\ Root \notin {k}
    OBVIOUS
  <2>2. \A m \in Cells(t.cache) : t.cache[m].parent \in {k} => m \in {k}
    BY DEF Kids
  <2> QED BY <1>1, <2>1, <2>2, ReleaseFacts
<1>3. v.camera = t.camera /\ v.bad = t.bad /\ v \in Progress
  BY <1>1, <1>2 DEF Records, Heap
<1> HIDE DEF v
<1>4. q \in Seq(Name) /\ q # << >>
  BY <1>1, CellFacts, ParentFacts
<1>5. IsCamera(cam) /\ Dirs(cam) = Dirs(t.camera) \ D
      /\ \A p \in Dirs(cam) : cam[p] = t.camera[p]
  <2>1. Dirs(cam) = Dirs(t.camera) \ D /\ \A p \in Dirs(cam) : cam[p] = t.camera[p]
    BY DEF Restrict, Dirs
  <2>2. cam = [p \in Dirs(cam) |-> cam[p]]
    BY DEF Restrict, Dirs
  <2>3. << >> \notin D
    BY <1>4, PrefixFacts DEF Tree
  <2>4. IsFiniteSet(Dirs(t.camera) \ D)
    BY <1>1, FS_Subset DEF IsCamera
  <2> HIDE DEF cam
  <2>5. IsCamera(cam)
    BY <1>1, <2>1, <2>2, <2>3, <2>4 DEF IsCamera
  <2> QED BY <2>1, <2>5
<1>6. cam \in Cameras
  BY <1>5, CamerasAreCameras
<1>7. u = [v EXCEPT !.camera = cam]
  BY <1>3 DEF Pruned, v, Dirs, Progress
<1> HIDE DEF cam, u
<1>8. /\ u.camera = cam /\ u.cache = v.cache /\ u.calls = v.calls /\ u.bad = v.bad
      /\ u.freed = v.freed /\ u.stale = v.stale /\ u \in Progress
  BY <1>3, <1>6, <1>7 DEF Progress
<1>9. \A n \in Cells(u.cache) : u.cache[n].path \in Dirs(u.camera)
  <2>1. ASSUME NEW n \in Cells(u.cache), u.cache[n].path \in D
        PROVE  FALSE
    <3>1. n \in Cells(t.cache) /\ n # k /\ u.cache[n] = t.cache[n]
      BY <1>2, <1>8
    <3>2. t.cache[n].path \in Seq(Name)
      BY <1>1, <3>1, CellFacts
    <3>3. t.cache[n].path = q \/ Deeper(q, t.cache[n].path)
      BY <1>4, <2>1, <3>1, <3>2, PrefixFacts DEF Tree
    <3>4. t.cache[n].path # q
      BY <1>1, <3>1 DEF IsTree
    <3> QED BY <1>1, <3>1, <3>3, <3>4, Barren
  <2> QED BY <1>2, <1>3, <1>5, <1>8, <2>1 DEF Heap
<1>10. Heap(u)
  BY <1>2, <1>8, <1>9 DEF Heap
<1>11. ASSUME Complete(t, e.dirs)
       PROVE  Complete(u, e.dirs)
  <2>1. ASSUME NEW m \in Cells(u.cache), NEW x \in Name, ~ u.cache[m].folders_dirty,
               Append(u.cache[m].path, x) \in Dirs(u.camera)
        PROVE  Has(u.cache, Append(u.cache[m].path, x)) \/ Append(u.cache[m].path, x) \in e.dirs
    <3> DEFINE y == Append(t.cache[m].path, x)
    <3>1. m \in Cells(t.cache) /\ u.cache[m] = t.cache[m]
      BY <1>2, <1>8, <2>1
    <3>2. y \in Dirs(t.camera) /\ y \notin D
      BY <1>5, <1>8, <2>1, <3>1
    <3>3. Has(t.cache, y) \/ y \in e.dirs
      BY <1>11, <2>1, <3>1, <3>2 DEF Complete
    <3>4. q \in D
      BY <1>1, <1>4, PrefixFacts DEF Tree, Heap
    <3> HIDE DEF y
    <3>5. Has(t.cache, y) => Has(u.cache, y)
      <4>1. ASSUME NEW j \in Cells(t.cache), t.cache[j].path = y
            PROVE  j \in Cells(u.cache) /\ u.cache[j].path = y
        BY <1>2, <1>8, <3>2, <3>4, <4>1
      <4> QED BY <4>1 DEF Has
    <3> QED BY <3>1, <3>3, <3>5 DEF y
  <2> QED BY <2>1 DEF Complete
<1>12. ASSUME e.files, NEW m \in Cells(u.cache), ~ u.cache[m].files_dirty
       PROVE  FileFits(u.camera, u.cache[m].path, u.cache[m].files, e)
  <2>1. m \in Cells(t.cache) /\ u.cache[m] = t.cache[m]
    BY <1>2, <1>8
  <2>2. FileFits(t.camera, t.cache[m].path, t.cache[m].files, e)
    BY <1>12, <2>1 DEF Fine
  <2>3. Files(u.camera, t.cache[m].path) = Files(t.camera, t.cache[m].path)
    BY <1>5, <1>8, <1>9, <2>1 DEF Files
  <2> QED BY <2>1, <2>2, <2>3 DEF FileFits
<1>13. \A m \in Cells(u.cache) : IsFiniteSet(u.cache[m].files)
  BY <1>2, <1>8 DEF Fine
<1>14. u.bad = t.bad /\ u.stale = t.stale
  BY <1>2, <1>3, <1>8
<1>15. Fine(u, e)
  BY <1>10, <1>11, <1>12, <1>13, <1>14 DEF Fine
<1> QED BY <1>2, <1>8, <1>14, <1>15 DEF u, cam

\* gp_filesystem_remove_dir.
RemoveFrom(t, n, nm, q) ==
  LET k == Child(t, n, nm)
      tree  == Tree(t.camera, q)
      empty == tree = {q} /\ t.camera[q] = {}
  IN IF t.stale \/ n \in t.freed THEN Ret(Stale(t), FALSE, NULL)
     ELSE IF k = NULL \/ Kids(t, k) # {} \/ t.cache[k].files # {}
          THEN Ret(t, FALSE, NULL)
     ELSE IF CallFails(t) \/ tree = {} \/ ~(empty \/ RemovesTrees)
          THEN Ret(t, FALSE, NULL)
     ELSE Ret(Pruned(t, k, tree), TRUE, NULL)

\* gp_filesystem_remove_dir, once the parent folder has been listed.
LEMMA RemoveFromFine ==
  ASSUME NEW t, NEW e, Fine(t, e), NEW n, NEW p \in Path, NEW nm \in Name,
         n \in t.freed \/ (n \in Cells(t.cache) /\ t.cache[n].path = p),
         SteadyBad(t.bad) => n \notin t.freed
  PROVE  LET r == RemoveFrom(t, n, nm, Append(p, nm))
         IN Fine(r.s, e) /\ r.s.bad = t.bad
<1> DEFINE k == Child(t, n, nm)
           q == Append(p, nm)
           u == Pruned(t, k, Tree(t.camera, q))
           r == RemoveFrom(t, n, nm, q)
<1>1. r.s = Stale(t) \/ r.s = t \/ r.s = u
  BY DEF RemoveFrom, Ret
<1>2. r.s = Stale(t) => (t.stale \/ n \in t.freed) \/ r.s = t \/ r.s = u
  BY DEF RemoveFrom, Ret
<1>3. t.stale \/ n \in t.freed => r.s = Stale(t)
  BY DEF RemoveFrom, Ret
<1>4. ~ (t.stale \/ n \in t.freed) =>
        r.s = t \/ (r.s = u /\ k # NULL /\ Kids(t, k) = {})
  BY DEF RemoveFrom, Ret
<1> HIDE DEF r, u
<1>5. CASE t.stale \/ n \in t.freed
  <2>1. ~ SteadyBad(t.bad)
    BY <1>5 DEF Fine
  <2>2. Fine(Ret(Stale(t), FALSE, NULL).s, e) /\ Onward(t, Ret(Stale(t), FALSE, NULL).s)
    BY <2>1, StaleFine DEF Goes
  <2>3. Fine(Stale(t), e) /\ Onward(t, Stale(t))
    BY <2>2, RetFacts, ZenonT(30)
  <2> QED BY <1>3, <1>5, <2>3 DEF r, Onward
<1>6. CASE ~ (t.stale \/ n \in t.freed) /\ r.s = t
  BY <1>6 DEF r
<1>7. CASE ~ (t.stale \/ n \in t.freed) /\ r.s = u /\ k # NULL /\ Kids(t, k) = {}
  <2>1. n \in Cells(t.cache) /\ t.cache[n].path = p /\ IsTree(t.cache)
    BY <1>7 DEF Fine, Heap
  <2>2. k \in Cells(t.cache) /\ t.cache[k].path = q
    BY <1>7, <2>1, ChildFacts
  <2>3. k # Root
    <3>1. p \in Seq(Name)
      BY PathsAreSequences
    <3>2. q # << >>
      BY <3>1, AppendPath
    <3> QED BY <2>1, <2>2, <3>2 DEF IsTree
  <2> DEFINE o == Pruned(t, k, Tree(t.camera, t.cache[k].path))
  <2>4. Fine(o, e) /\ o.bad = t.bad
    <3> HIDE DEF k
    <3> QED BY <1>7, <2>2, <2>3, PrunedFine
  <2> QED BY <1>7, <2>2, <2>4 DEF r, u
<1> QED BY <1>4, <1>5, <1>6, <1>7

\* gp_filesystem_remove_dir.
LEMMA RemoveFolderFine ==
  ASSUME NEW s, NEW e, Fine(s, e), NEW p \in Path, NEW nm \in Name
  PROVE  LET r == RemoveFolder(s, p, nm)
         IN Fine(r.s, e) /\ r.s.bad = s.bad
<1> DEFINE l == Lookup(s, p)
           t == IF l.s.cache[l.n].folders_dirty THEN ListFolders(l.s, p).s ELSE l.s
           q == Append(p, nm)
           r == RemoveFolder(s, p, nm)
<1>1. Yields(s, l, p, e)
  BY LookupFine
<1>2. r = IF l.ok THEN RemoveFrom(t, l.n, nm, q) ELSE l
  BY DEF RemoveFolder, IfOk, RemoveFrom, Tree, Pruned
<1>3. l.ok => Yields(l.s, ListFolders(l.s, p), p, e)
  BY <1>1, LookupFine DEF Yields
<1> HIDE DEF l, r
<1>4. CASE ~ l.ok
  BY <1>1, <1>2, <1>4 DEF r, Yields, Onward
<1>5. CASE l.ok
  <2>1. /\ Fine(l.s, e) /\ l.n \in Cells(l.s.cache) /\ l.s.cache[l.n].path = p
        /\ l.s.bad = s.bad
        /\ SteadyBad(s.bad) => Clear(l.s, p)
    BY <1>1, <1>5 DEF Yields, Onward
  <2>2. Fine(t, e) /\ Onward(l.s, t)
    BY <1>3, <1>5, <2>1, OnwardSelf DEF Yields
  <2> HIDE DEF t
  <2>3. l.n \in t.freed \/ (l.n \in Cells(t.cache) /\ t.cache[l.n].path = p)
    BY <2>1, <2>2 DEF Onward
  <2>4. SteadyBad(t.bad) => l.n \notin t.freed
    <3>1. t.bad = s.bad
      BY <2>1, <2>2 DEF Onward
    <3>2. SteadyBad(s.bad) => l.n \in Cells(t.cache)
      BY <2>1, <2>2 DEF Onward, Firm
    <3> QED BY <2>2, <3>1, <3>2 DEF Fine, Heap
  <2> DEFINE o == RemoveFrom(t, l.n, nm, Append(p, nm))
  <2>5. Fine(o.s, e) /\ o.s.bad = t.bad
    BY <2>2, <2>3, <2>4, RemoveFromFine
  <2>6. t.bad = s.bad
    BY <2>1, <2>2 DEF Onward
  <2> QED BY <1>2, <1>5, <2>5, <2>6 DEF r
<1> QED BY <1>4, <1>5

-----------------------------------------------------------------------------
(***************************************************************************)
(* gp_filesystem_scan.                                                     *)
(***************************************************************************)

\* Records with one camera are alike.
LEMMA SameRecords ==
  ASSUME NEW s, NEW t, Heap(t), t.camera = s.camera, t.bad = s.bad
  PROVE  t \in Records(s)
<1>1. /\ t \in Progress /\ t.cache \in Seq(Folder) /\ t.calls \in 0 .. MaxCalls
      /\ t.freed \in SUBSET Nat /\ t.stale \in BOOLEAN
  BY ProgressFacts DEF Heap
<1>2. t = [camera |-> t.camera, cache |-> t.cache, calls |-> t.calls, bad |-> t.bad,
           freed |-> t.freed, stale |-> t.stale]
  BY <1>1 DEF Progress
<1> QED BY <1>1, <1>2 DEF Records

\* The function deep scans the folder of a path, from any record like s.
ScansFine(deep, s, e) ==
  \A t \in Records(s), q \in Path :
    Fine(t, e) => Goes(t, deep[t][q], e) /\ deep[t][q].s.camera = t.camera

DescendStep(deep, d, p, names, f, k) ==
  IF k = 0 THEN d
  ELSE IF f[k - 1].ok THEN deep[f[k - 1].s][Append(p, names[k])] ELSE f[k - 1]

\* The function that scans one subfolder after the other exists.
LEMMA DescendsExist ==
  ASSUME NEW deep, NEW d, NEW p, NEW names, NEW L \in Nat
  PROVE  \E f : f = [k \in 0 .. L |-> DescendStep(deep, d, p, names, f, k)]
<1> DEFINE Upto(j, f) == f = [k \in 0 .. j |-> DescendStep(deep, d, p, names, f, k)]
           T == {j \in 0 .. L : ~ \E f : Upto(j, f)}
<1>1. ASSUME NEW j \in T, \A k \in T : j <= k
      PROVE  FALSE
  <2>1. j \in Nat /\ j \in 0 .. L /\ ~ \E f : Upto(j, f)
    OBVIOUS
  <2>2. CASE j = 0
    <3> DEFINE f == [k \in 0 .. 0 |-> d]
    <3>1. f = [k \in 0 .. 0 |-> DescendStep(deep, d, p, names, f, k)]
      BY DEF DescendStep
    <3> QED BY <2>1, <2>2, <3>1
  <2>3. CASE j # 0
    <3>1. j - 1 \in 0 .. L /\ j - 1 \notin T
      BY <1>1, <2>1, <2>3
    <3>2. PICK f : Upto(j - 1, f)
      BY <3>1
    <3> DEFINE g == [k \in 0 .. j |-> IF k < j THEN f[k] ELSE DescendStep(deep, d, p, names, f, j)]
    <3>3. ASSUME NEW k \in 0 .. j
          PROVE  g[k] = DescendStep(deep, d, p, names, g, k)
      <4>1. k = 0 \/ g[k - 1] = f[k - 1]
        BY <2>1
      <4>2. DescendStep(deep, d, p, names, g, k) = DescendStep(deep, d, p, names, f, k)
        <5> HIDE DEF g
        <5>1. CASE k = 0
          BY <5>1 DEF DescendStep
        <5>2. CASE g[k - 1] = f[k - 1]
          BY <5>2 DEF DescendStep
        <5> QED BY <4>1, <5>1, <5>2
      <4>3. CASE k < j
        <5>1. k \in 0 .. (j - 1)
          BY <2>1, <4>3
        <5>2. f[k] = DescendStep(deep, d, p, names, f, k)
          <6> HIDE DEF g
          <6> QED BY <3>2, <5>1
        <5> QED BY <4>2, <4>3, <5>2
      <4>4. CASE k = j
        BY <4>2, <4>4, <2>1
      <4> QED BY <4>3, <4>4, <2>1
    <3>4. g = [k \in 0 .. j |-> DescendStep(deep, d, p, names, g, k)]
      <4>1. g = [k \in 0 .. j |-> g[k]]
        OBVIOUS
      <4> HIDE DEF g
      <4> QED BY <3>3, <4>1
    <3> QED BY <2>1, <3>4
  <2> QED BY <2>2, <2>3
<1>2. T = {}
  <2>1. T \subseteq Nat
    OBVIOUS
  <2> HIDE DEF T
  <2> QED BY <1>1, <2>1, LeastNat
<1>3. L \in 0 .. L /\ L \notin T
  BY <1>2
<1> QED BY <1>3

\* The scan of the subfolders of the folder that d has found.
KidNames(d) == {NameOf(d.s, k) : k \in Kids(d.s, d.n)}
DescendFunction(deep, d, p, names) ==
  CHOOSE f : f = [k \in 0 .. Len(names) |-> DescendStep(deep, d, p, names, f, k)]
Descent(deep, d, p) ==
  DescendFunction(deep, d, p, SetToSeq(KidNames(d)))[Len(SetToSeq(KidNames(d)))]

\* The scan of the subfolders goes from one to the next.
LEMMA DescendFunctionFacts ==
  ASSUME NEW deep, NEW d, NEW p, NEW names, Len(names) \in Nat
  PROVE  DescendFunction(deep, d, p, names) =
           [k \in 0 .. Len(names) |->
              DescendStep(deep, d, p, names, DescendFunction(deep, d, p, names), k)]
<1> DEFINE L == Len(names)
<1>1. \E f : f = [k \in 0 .. L |-> DescendStep(deep, d, p, names, f, k)]
  <2> HIDE DEF L
  <2> QED BY DescendsExist
<1> QED BY <1>1 DEF DescendFunction

\* gp_filesystem_scan lists the files, then the folders, then descends.
LEMMA ScanFolderIs ==
  ASSUME NEW deep, NEW s, NEW p, NEW x
  PROVE  LET a == ListFiles(s, p)
             b == ListFolders(a.s, p)
         IN ScanFolder(deep, s, p, x) =
              IF a.ok
              THEN IF x \in a.s.cache[a.n].files THEN a
                   ELSE IF b.ok THEN Descent(deep, b, p) ELSE b
              ELSE a
BY DEF ScanFolder, IfOk, Descent, DescendFunction, DescendStep, KidNames

\* The scan of the subfolders goes through their names with the function f.
DescentBy(deep, d, p, names, f) ==
  /\ Len(names) \in Nat /\ Descent(deep, d, p) = f[Len(names)]
  /\ \A k \in 0 .. Len(names) : f[k] = DescendStep(deep, d, p, names, f, k)
  /\ \A k \in 1 .. Len(names) : names[k] \in KidNames(d) /\ Append(p, names[k]) \in Path
  /\ \A nm \in KidNames(d) : \E k \in 1 .. Len(names) : names[k] = nm

\* The scan of the subfolders is one of each name.
LEMMA DescentSteps ==
  ASSUME NEW deep, NEW d, IsTree(d.s.cache), NEW p \in Path, d.n \in Cells(d.s.cache),
         d.s.cache[d.n].path = p
  PROVE  \E names, f : DescentBy(deep, d, p, names, f)
<1> DEFINE S == KidNames(d)
           names == SetToSeq(S)
           L == Len(names)
           f == DescendFunction(deep, d, p, names)
<1>1. IsTree(d.s.cache)
  OBVIOUS
<1>2. \A nm \in S : nm \in Name /\ Append(p, nm) \in Path
  <2>1. SUFFICES ASSUME NEW k \in Kids(d.s, d.n)
                 PROVE  NameOf(d.s, k) \in Name /\ Append(p, NameOf(d.s, k)) \in Path
    BY DEF KidNames
  <2>2. /\ k \in Cells(d.s.cache) /\ d.s.cache[k].parent = d.n
    BY <2>1 DEF Kids
  <2>3. k # Root
    BY <1>1, <2>2, CellFacts DEF IsTree
  <2>4. /\ Last(d.s.cache[k].path) \in Name
        /\ d.s.cache[k].path = Append(p, Last(d.s.cache[k].path))
    BY <1>1, <2>2, <2>3, ParentFacts
  <2>5. d.s.cache[k].path \in Path
    BY <1>1, <2>2, CellFacts
  <2> QED BY <2>4, <2>5 DEF NameOf
<1>3. IsFiniteSet(S)
  <2>1. Kids(d.s, d.n) \subseteq 1 .. Len(d.s.cache)
    BY DEF Kids, Cells
  <2>2. Len(d.s.cache) \in Nat
    BY <1>1, CellFacts
  <2> DEFINE K == Kids(d.s, d.n)
             h == [k \in K |-> NameOf(d.s, k)]
  <2>3. IsFiniteSet(1 .. Len(d.s.cache))
    BY <2>2, FS_Interval
  <2>4. IsFiniteSet(K)
    BY <2>1, <2>3, FS_Subset
  <2>5. h \in Surjection(K, S)
    BY DEF Surjection, KidNames
  <2> HIDE DEF K, h, S
  <2> QED BY <2>4, <2>5, FS_Surjection
<1>4. names \in Seq(S) /\ L \in Nat
  BY <1>3, ListOfSet
<1>5. f = [k \in 0 .. L |-> DescendStep(deep, d, p, names, f, k)]
  <2> HIDE DEF names
  <2> QED BY <1>4, DescendFunctionFacts
<1>6. Descent(deep, d, p) = f[L]
  BY DEF Descent
<1>7. \A k \in 1 .. L : names[k] \in S /\ Append(p, names[k]) \in Path
  BY <1>2, <1>4
<1>8. \A nm \in S : \E k \in 1 .. L : names[k] = nm
  BY <1>3, ListOfSet
<1> HIDE DEF f, names
<1>9. \A k \in 0 .. L : f[k] = DescendStep(deep, d, p, names, f, k)
  BY <1>5
<1>10. DescentBy(deep, d, p, names, f)
  BY <1>4, <1>6, <1>7, <1>8, <1>9 DEF DescentBy
<1> QED BY <1>10

\* The scan of the subfolders, by induction over their number.
LEMMA DescentFine ==
  ASSUME NEW deep, NEW s, NEW e, ScansFine(deep, s, e), NEW d, d.s \in Records(s), Fine(d.s, e),
         d.ok \in BOOLEAN, NEW p \in Path, d.n \in Cells(d.s.cache), d.s.cache[d.n].path = p
  PROVE  LET r == Descent(deep, d, p)
         IN Goes(d.s, r, e) /\ r.s.camera = d.s.camera
<1>1. IsTree(d.s.cache)
  BY DEF Fine, Heap
<1>2. PICK names, f : DescentBy(deep, d, p, names, f)
  BY <1>1, DescentSteps
<1> DEFINE L == Len(names)
<1>3. /\ L \in Nat /\ \A k \in 0 .. L : f[k] = DescendStep(deep, d, p, names, f, k)
      /\ Descent(deep, d, p) = f[L] /\ \A k \in 1 .. L : Append(p, names[k]) \in Path
  BY <1>2 DEF DescentBy
<1> HIDE DEF L
<1> DEFINE Good(r) == Goes(d.s, r, e) /\ r.s.camera = d.s.camera
           T == {k \in 0 .. L : ~ Good(f[k])}
<1>4. ASSUME NEW j \in T, \A k \in T : j <= k
      PROVE  FALSE
  <2>1. j \in 0 .. L /\ ~ Good(f[j]) /\ f[j] = DescendStep(deep, d, p, names, f, j)
    BY <1>3
  <2>2. CASE j = 0
    <3>1. f[j] = d
      BY <2>1, <2>2 DEF DescendStep
    <3> QED BY <2>1, <3>1, OnwardSelf DEF Goes
  <2>3. CASE j # 0
    <3>1. j - 1 \in 0 .. L /\ j - 1 \notin T /\ j \in 1 .. L
      BY <1>3, <1>4, <2>1, <2>3
    <3>2. Good(f[j - 1])
      BY <3>1
    <3> DEFINE v == f[j - 1].s
               q == Append(p, names[j])
    <3>3. f[j] = IF f[j - 1].ok THEN deep[v][q] ELSE f[j - 1]
      BY <2>1, <2>3 DEF DescendStep
    <3>4. Fine(v, e) /\ Onward(d.s, v) /\ v.camera = d.s.camera /\ v.bad = d.s.bad
      BY <3>2 DEF Goes, Onward
    <3>5. q \in Path
      BY <1>3, <3>1
    <3> HIDE DEF v, q
    <3>6. v \in Records(s)
      <4>1. v.camera = s.camera /\ v.bad = s.bad /\ Heap(v)
        BY <3>4 DEF Records, Fine
      <4> QED BY <4>1, SameRecords
    <3>7. Goes(v, deep[v][q], e) /\ deep[v][q].s.camera = v.camera
      BY <3>4, <3>5, <3>6 DEF ScansFine
    <3>8. Good(deep[v][q])
      BY <3>4, <3>7, GoesOn
    <3> QED BY <2>1, <3>2, <3>3, <3>8
  <2> QED BY <2>2, <2>3
<1>5. T = {}
  <2>1. T \subseteq Nat
    BY <1>3
  <2> HIDE DEF T
  <2> QED BY <1>4, <2>1, LeastNat
<1>6. L \in 0 .. L /\ L \notin T
  BY <1>3, <1>5
<1> QED BY <1>3, <1>6

\* gp_filesystem_scan of one folder, if the scan of the deeper ones is fine.
LEMMA ScanFolderFine ==
  ASSUME NEW deep, NEW s, NEW e, ScansFine(deep, s, e), NEW t \in Records(s), Fine(t, e),
         NEW p \in Path, NEW x
  PROVE  LET r == ScanFolder(deep, t, p, x)
         IN Goes(t, r, e) /\ r.s.camera = t.camera
<1> DEFINE a == ListFiles(t, p)
           b == ListFolders(a.s, p)
           c == Descent(deep, b, p)
           r == ScanFolder(deep, t, p, x)
<1>1. Yields(t, a, p, e) /\ a.s.camera = t.camera
  BY ListFilesFine DEF ListsFiles
<1>2. r = IF a.ok
          THEN IF x \in a.s.cache[a.n].files THEN a ELSE IF b.ok THEN c ELSE b
          ELSE a
  BY ScanFolderIs
<1>3. Yields(a.s, b, p, e) /\ Looked(a.s, b.s, Len(p) + 1)
  BY <1>1, LookupFine DEF Yields
<1> HIDE DEF a, b, r
<1>4. b.s.camera = a.s.camera
  BY <1>3 DEF Looked, Moved, Records
<1>5. Goes(t, a, e) /\ Goes(t, b, e) /\ b.s.camera = t.camera
  BY <1>1, <1>3, <1>4, YieldsGoes, GoesOn DEF Yields
<1>6. b.ok => Goes(t, c, e) /\ c.s.camera = t.camera
  <2>1. SUFFICES ASSUME b.ok
                 PROVE  Goes(t, c, e) /\ c.s.camera = t.camera
    OBVIOUS
  <2>2. /\ Fine(b.s, e) /\ b.ok \in BOOLEAN /\ b.n \in Cells(b.s.cache)
        /\ b.s.cache[b.n].path = p /\ Onward(t, b.s) /\ b.s.bad = t.bad
    BY <1>3, <1>5, <2>1 DEF Yields, Goes, Onward
  <2>3. b.s \in Records(s)
    <3>1. b.s.camera = s.camera /\ b.s.bad = s.bad /\ Heap(b.s)
      BY <1>5, <2>2 DEF Records, Fine
    <3> QED BY <3>1, SameRecords
  <2>4. Goes(b.s, c, e) /\ c.s.camera = b.s.camera
    BY <2>2, <2>3, DescentFine
  <2> HIDE DEF c
  <2> QED BY <1>5, <2>2, <2>4, GoesOn
<1> HIDE DEF c
<1> QED BY <1>1, <1>2, <1>5, <1>6 DEF r

ScanStep(s, x, f, d) ==
  [t \in Records(s) |-> [q \in Path |->
     IF d = 0 THEN Ret(t, TRUE, NULL) ELSE ScanFolder(f[d - 1], t, q, x)]]

\* The function from a depth to the scan of that depth exists.
LEMMA ScansExist ==
  ASSUME NEW s, NEW x, NEW L \in Nat
  PROVE  \E f : f = [k \in 0 .. L |-> ScanStep(s, x, f, k)]
<1> DEFINE Upto(j, f) == f = [k \in 0 .. j |-> ScanStep(s, x, f, k)]
           T == {j \in 0 .. L : ~ \E f : Upto(j, f)}
<1>1. ASSUME NEW j \in T, \A k \in T : j <= k
      PROVE  FALSE
  <2>1. j \in Nat /\ j \in 0 .. L /\ ~ \E f : Upto(j, f)
    OBVIOUS
  <2>2. CASE j = 0
    <3> DEFINE f == [k \in 0 .. 0 |-> [t \in Records(s) |-> [q \in Path |-> Ret(t, TRUE, NULL)]]]
    <3>1. f = [k \in 0 .. 0 |-> ScanStep(s, x, f, k)]
      BY DEF ScanStep
    <3> QED BY <2>1, <2>2, <3>1
  <2>3. CASE j # 0
    <3>1. j - 1 \in 0 .. L /\ j - 1 \notin T
      BY <1>1, <2>1, <2>3
    <3>2. PICK f : Upto(j - 1, f)
      BY <3>1
    <3> DEFINE g == [k \in 0 .. j |-> IF k < j THEN f[k] ELSE ScanStep(s, x, f, j)]
    <3>3. ASSUME NEW k \in 0 .. j
          PROVE  g[k] = ScanStep(s, x, g, k)
      <4>1. k = 0 \/ g[k - 1] = f[k - 1]
        BY <2>1
      <4>2. ScanStep(s, x, g, k) = ScanStep(s, x, f, k)
        <5> HIDE DEF g
        <5>1. CASE k = 0
          BY <5>1 DEF ScanStep
        <5>2. CASE g[k - 1] = f[k - 1]
          BY <5>2 DEF ScanStep
        <5> QED BY <4>1, <5>1, <5>2
      <4>3. CASE k < j
        <5>1. k \in 0 .. (j - 1)
          BY <2>1, <4>3
        <5>2. f[k] = ScanStep(s, x, f, k)
          <6> HIDE DEF g
          <6> QED BY <3>2, <5>1
        <5> QED BY <4>2, <4>3, <5>2
      <4>4. CASE k = j
        BY <4>2, <4>4, <2>1
      <4> QED BY <4>3, <4>4, <2>1
    <3>4. g = [k \in 0 .. j |-> ScanStep(s, x, g, k)]
      <4>1. g = [k \in 0 .. j |-> g[k]]
        OBVIOUS
      <4> HIDE DEF g
      <4> QED BY <3>3, <4>1
    <3> QED BY <2>1, <3>4
  <2> QED BY <2>2, <2>3
<1>2. T = {}
  <2>1. T \subseteq Nat
    OBVIOUS
  <2> HIDE DEF T
  <2> QED BY <1>1, <2>1, LeastNat
<1>3. L \in 0 .. L /\ L \notin T
  BY <1>2
<1> QED BY <1>3

\* gp_filesystem_scan is done with the function f of the depth, up to L.
ScanBy(s, x, L, f) ==
  /\ \A p : Scan(s, p, x) = f[L][s][p]
  /\ \A d \in 0 .. L, t \in Records(s), q \in Path :
       f[d][t][q] = IF d = 0 THEN Ret(t, TRUE, NULL) ELSE ScanFolder(f[d - 1], t, q, x)

\* gp_filesystem_scan has such a function.
LEMMA ScanSteps ==
  ASSUME NEW s, NEW x
  PROVE  \E f : ScanBy(s, x, MaxDepth + 1, f)
<1> DEFINE L == MaxDepth + 1
           f == CHOOSE f : f = [d \in 0 .. L |-> ScanStep(s, x, f, d)]
<1>1. L \in Nat
  BY BoundAssumption
<1>2. \A p : Scan(s, p, x) = f[L][s][p]
  BY DEF Scan, ScanStep
<1> HIDE DEF L
<1>3. f = [d \in 0 .. L |-> ScanStep(s, x, f, d)]
  BY <1>1, ScansExist
<1> HIDE DEF f
<1>4. \A d \in 0 .. L : f[d] = ScanStep(s, x, f, d)
  BY <1>3
<1>5. ASSUME NEW d \in 0 .. L, NEW t \in Records(s), NEW q \in Path
      PROVE  f[d][t][q] = IF d = 0 THEN Ret(t, TRUE, NULL)
                          ELSE ScanFolder(f[d - 1], t, q, x)
  <2>1. f[d] = ScanStep(s, x, f, d)
    BY <1>4
  <2> QED BY <2>1 DEF ScanStep
<1>6. ScanBy(s, x, L, f)
  BY <1>2, <1>5 DEF ScanBy
<1>7. \E g : ScanBy(s, x, L, g)
  BY <1>6
<1> QED BY <1>7 DEF L

\* gp_filesystem_scan, by induction over the depth.
LEMMA ScanFine ==
  ASSUME NEW s, NEW e, Fine(s, e), NEW p \in Path, NEW x
  PROVE  Goes(s, Scan(s, p, x), e)
<1> DEFINE L == MaxDepth + 1
<1>1. L \in Nat
  BY BoundAssumption
<1> HIDE DEF L
<1>2. PICK f : ScanBy(s, x, L, f)
  BY ScanSteps DEF L
<1> DEFINE T == {d \in 0 .. L : ~ ScansFine(f[d], s, e)}
<1>5. ASSUME NEW j \in T, \A k \in T : j <= k
      PROVE  FALSE
  <2>1. j \in 0 .. L /\ ~ ScansFine(f[j], s, e)
    OBVIOUS
  <2>2. \A t \in Records(s), q \in Path :
          f[j][t][q] = IF j = 0 THEN Ret(t, TRUE, NULL) ELSE ScanFolder(f[j - 1], t, q, x)
    BY <1>2, <2>1 DEF ScanBy
  <2>3. CASE j = 0
    <3>1. ASSUME NEW t \in Records(s), NEW q \in Path, Fine(t, e)
          PROVE  Goes(t, f[j][t][q], e) /\ f[j][t][q].s.camera = t.camera
      <4>0. f[j][t][q] = Ret(t, TRUE, NULL)
        BY <2>2, <2>3
      <4>1. f[j][t][q].s = t /\ f[j][t][q].ok = TRUE
        BY <4>0 DEF Ret
      <4> QED BY <3>1, <4>1, OnwardSelf DEF Goes
    <3> QED BY <2>1, <3>1 DEF ScansFine
  <2>4. CASE j # 0
    <3>1. j - 1 \in 0 .. L /\ j - 1 \notin T
      BY <1>1, <1>5, <2>1, <2>4
    <3>2. ScansFine(f[j - 1], s, e)
      BY <3>1
    <3>3. ASSUME NEW t \in Records(s), NEW q \in Path, Fine(t, e)
          PROVE  Goes(t, f[j][t][q], e) /\ f[j][t][q].s.camera = t.camera
      <4>1. f[j][t][q] = ScanFolder(f[j - 1], t, q, x)
        BY <2>2, <2>4
      <4>2. /\ Goes(t, ScanFolder(f[j - 1], t, q, x), e)
            /\ ScanFolder(f[j - 1], t, q, x).s.camera = t.camera
        BY <3>2, <3>3, ScanFolderFine
      <4> QED BY <4>1, <4>2
    <3> QED BY <2>1, <3>3 DEF ScansFine
  <2> QED BY <2>3, <2>4
<1>6. T = {}
  <2>1. T \subseteq Nat
    BY <1>1
  <2> HIDE DEF T
  <2> QED BY <1>5, <2>1, LeastNat
<1>7. ScansFine(f[L], s, e)
  BY <1>1, <1>6
<1>8. s \in Records(s)
  BY SameRecords DEF Fine
<1>9. Scan(s, p, x) = f[L][s][p]
  BY <1>2 DEF ScanBy
<1> QED BY <1>7, <1>8, <1>9 DEF ScansFine

-----------------------------------------------------------------------------
(***************************************************************************)
(* gp_filesystem_append: the folders.                                      *)
(***************************************************************************)

\* The folders on the way to a path.
LEMMA PrefixesFacts ==
  ASSUME NEW p \in Seq(Name), NEW i \in 0 .. Len(p)
  PROVE  /\ SubSeq(p, 1, i) \in Prefixes(p)
         /\ \A j \in 0 .. Len(p) : i < j => Deeper(SubSeq(p, 1, i), SubSeq(p, 1, j))
         /\ p \in Prefixes(p)
<1>1. Len(p) \in Nat
  BY LenProperties
<1>2. SubSeq(p, 1, i) \in Prefixes(p)
  BY DEF Prefixes
<1>3. ASSUME NEW j \in 0 .. Len(p), i < j
      PROVE  Deeper(SubSeq(p, 1, i), SubSeq(p, 1, j))
  <2> DEFINE a == SubSeq(p, 1, i)
             b == SubSeq(p, 1, j)
  <2>1. Len(a) = i /\ \A k \in 1 .. i : a[k] = p[k]
    BY PathPrefix
  <2>2. Len(b) = j /\ \A k \in 1 .. j : b[k] = p[k]
    BY PathPrefix
  <2> HIDE DEF a, b
  <2>3. \A k \in 1 .. i : b[k] = a[k]
    BY <1>3, <2>1, <2>2
  <2>4. Deeper(a, b)
    BY <1>3, <2>1, <2>2, <2>3 DEF Deeper
  <2> QED BY <2>4 DEF a, b
<1>4. p \in Prefixes(p)
  <2>1. Len(p) \in 0 .. Len(p) /\ SubSeq(p, 1, Len(p)) = p
    BY <1>1, WholePath
  <2> QED BY <2>1, Zenon DEF Prefixes
<1> QED BY <1>2, <1>3, <1>4

\* There is a folder on the path p, the last one or a dirty one with nothing
\* below: nothing of the path is missing below a clean folder.
LEMMA CompleteOnPath ==
  ASSUME NEW t, Heap(t), NEW p \in Path, Complete(t, Prefixes(p)),
         NEW n \in Cells(t.cache), NEW j \in 0 .. Len(p),
         t.cache[n].path = SubSeq(p, 1, j),
         \/ j = Len(p)
         \/ /\ t.cache[n].folders_dirty
            /\ \A m \in Cells(t.cache) : ~ Deeper(t.cache[n].path, t.cache[m].path)
  PROVE  \A X : Complete(t, X)
<1> DEFINE q == t.cache[n].path
<1>1. p \in Seq(Name) /\ Len(p) \in Nat /\ IsTree(t.cache)
  BY PathsAreSequences DEF Heap
<1>2. SUFFICES ASSUME NEW m \in Cells(t.cache), NEW nm \in Name,
                      ~ t.cache[m].folders_dirty, Append(t.cache[m].path, nm) \in Dirs(t.camera),
                      ~ Has(t.cache, Append(t.cache[m].path, nm))
               PROVE  FALSE
  BY DEF Complete
<1> DEFINE y == Append(t.cache[m].path, nm)
<1>3. t.cache[m].path \in Seq(Name) /\ q \in Seq(Name) /\ y \in Seq(Name)
  BY <1>1, CellFacts, AppendPath
<1>4. PICK i \in 0 .. Len(p) : y = SubSeq(p, 1, i)
  <2>1. y \in Prefixes(p)
    BY <1>2 DEF Complete
  <2> QED BY <2>1 DEF Prefixes
<1>5. Len(y) = i /\ Len(y) = Len(t.cache[m].path) + 1 /\ Len(t.cache[m].path) \in Nat
      /\ Len(q) = j
  <2>1. Len(SubSeq(p, 1, i)) = i /\ Len(SubSeq(p, 1, j)) = j
    BY <1>1, PathPrefix
  <2> QED BY <1>3, <1>4, <2>1, AppendPath, LenProperties
<1>6. i # 0
  BY <1>5
<1>7. t.cache[m].path = SubSeq(p, 1, i - 1)
  <2>1. p[i] \in Name /\ SubSeq(p, 1, i) = Append(SubSeq(p, 1, i - 1), p[i])
    BY <1>1, <1>6, PathPrefix
  <2>2. i - 1 \in 0 .. Len(p)
    BY <1>1, <1>6
  <2>3. SubSeq(p, 1, i - 1) \in Seq(Name)
    BY <1>1, <2>2, PathPrefix
  <2> QED BY <1>3, <1>4, <2>1, <2>3, SameAppend
<1> HIDE DEF q, y
<1>8. CASE i = j
  <2>1. y = t.cache[n].path
    BY <1>4, <1>8
  <2> QED BY <1>2, <2>1 DEF Has, y
<1>9. CASE i < j
  <2>1. Deeper(y, t.cache[n].path)
    BY <1>1, <1>4, <1>9, PrefixesFacts
  <2> QED BY <1>1, <1>2, <1>3, <2>1, AncestorFacts DEF y
<1>10. CASE i > j
  <2>1. /\ t.cache[n].folders_dirty
        /\ \A k \in Cells(t.cache) : ~ Deeper(t.cache[n].path, t.cache[k].path)
    BY <1>10
  <2>2. CASE i - 1 = j
    <3>1. t.cache[m].path = t.cache[n].path
      BY <1>7, <2>2
    <3>2. m = n
      BY <1>1, <3>1 DEF IsTree
    <3> QED BY <1>2, <2>1, <3>2
  <2>3. CASE i - 1 > j
    <3>1. i - 1 \in 0 .. Len(p) /\ j < i - 1
      BY <1>1, <1>6, <2>3
    <3>2. Deeper(SubSeq(p, 1, j), SubSeq(p, 1, i - 1))
      BY <1>1, <3>1, PrefixesFacts
    <3> QED BY <1>7, <2>1, <3>2
  <2> QED BY <1>10, <2>2, <2>3
<1> QED BY <1>1, <1>8, <1>9, <1>10

\* What is excused can be excused no more.
LEMMA ExcusedNoMore ==
  ASSUME NEW t, NEW d, Fine(t, d), NEW e, e.files = d.files,
         ~ t.stale => Complete(t, e.dirs),
         e.files => \A n \in Cells(t.cache) :
           ~ t.cache[n].files_dirty => FileFits(t.camera, t.cache[n].path, t.cache[n].files, e)
  PROVE  Fine(t, e)
BY DEF Fine

\* Once something freed is used, no completeness is claimed.
LEMMA StaleIsExcused ==
  ASSUME NEW t, NEW d, Fine(t, d), t.stale, NEW e, e.files = d.files
  PROVE  Fine(t, e)
<1>1. ~ e.files
  BY NoFailureIsSteady DEF Fine
<1> QED BY <1>1, ExcusedNoMore

ToStep(s, p, f, i) ==
  IF i = 0 THEN Ret(s, TRUE, Root)
  ELSE LET g == f[i - 1]
           k == Child(s, g.n, p[i])
           t == AppendFolderOne(s, g.n, p[i])
       IN IF ~g.ok THEN g
          ELSE IF k # NULL THEN Ret(s, TRUE, k)
          ELSE Ret(t, FALSE, Child(t, g.n, p[i]))

\* The function that goes down append_to_folder's path exists.
LEMMA TosExist ==
  ASSUME NEW s, NEW p, NEW L \in Nat
  PROVE  \E f : f = [k \in 0 .. L |-> ToStep(s, p, f, k)]
<1> DEFINE Upto(j, f) == f = [k \in 0 .. j |-> ToStep(s, p, f, k)]
           T == {j \in 0 .. L : ~ \E f : Upto(j, f)}
<1>1. ASSUME NEW j \in T, \A k \in T : j <= k
      PROVE  FALSE
  <2>1. j \in Nat /\ j \in 0 .. L /\ ~ \E f : Upto(j, f)
    OBVIOUS
  <2>2. CASE j = 0
    <3> DEFINE f == [k \in 0 .. 0 |-> Ret(s, TRUE, Root)]
    <3>1. f = [k \in 0 .. 0 |-> ToStep(s, p, f, k)]
      BY DEF ToStep
    <3> QED BY <2>1, <2>2, <3>1
  <2>3. CASE j # 0
    <3>1. j - 1 \in 0 .. L /\ j - 1 \notin T
      BY <1>1, <2>1, <2>3
    <3>2. PICK f : Upto(j - 1, f)
      BY <3>1
    <3> DEFINE g == [k \in 0 .. j |-> IF k < j THEN f[k] ELSE ToStep(s, p, f, j)]
    <3>3. ASSUME NEW k \in 0 .. j
          PROVE  g[k] = ToStep(s, p, g, k)
      <4>1. k = 0 \/ g[k - 1] = f[k - 1]
        BY <2>1
      <4>2. ToStep(s, p, g, k) = ToStep(s, p, f, k)
        <5> HIDE DEF g
        <5>1. CASE k = 0
          BY <5>1 DEF ToStep
        <5>2. CASE g[k - 1] = f[k - 1]
          BY <5>2 DEF ToStep
        <5> QED BY <4>1, <5>1, <5>2
      <4>3. CASE k < j
        <5>1. k \in 0 .. (j - 1)
          BY <2>1, <4>3
        <5>2. f[k] = ToStep(s, p, f, k)
          <6> HIDE DEF g
          <6> QED BY <3>2, <5>1
        <5> QED BY <4>2, <4>3, <5>2
      <4>4. CASE k = j
        BY <4>2, <4>4, <2>1
      <4> QED BY <4>3, <4>4, <2>1
    <3>4. g = [k \in 0 .. j |-> ToStep(s, p, g, k)]
      <4>1. g = [k \in 0 .. j |-> g[k]]
        OBVIOUS
      <4> HIDE DEF g
      <4> QED BY <3>3, <4>1
    <3> QED BY <2>1, <3>4
  <2> QED BY <2>2, <2>3
<1>2. T = {}
  <2>1. T \subseteq Nat
    OBVIOUS
  <2> HIDE DEF T
  <2> QED BY <1>1, <2>1, LeastNat
<1>3. L \in 0 .. L /\ L \notin T
  BY <1>2
<1> QED BY <1>3

ToFunction(s, p) == CHOOSE f : f = [i \in 0 .. Len(p) |-> ToStep(s, p, f, i)]

\* append_to_folder goes down its path, name by name.
LEMMA ToFunctionFacts ==
  ASSUME NEW s, NEW p \in Seq(Name)
  PROVE  /\ AppendFolder(s, p) = [ToFunction(s, p)[Len(p)] EXCEPT !.ok = TRUE]
         /\ \A i \in 0 .. Len(p) : ToFunction(s, p)[i] = ToStep(s, p, ToFunction(s, p), i)
<1> DEFINE f == ToFunction(s, p)
<1>1. Len(p) \in Nat
  BY LenProperties
<1>2. f = [i \in 0 .. Len(p) |-> ToStep(s, p, f, i)]
  BY <1>1, TosExist DEF ToFunction
<1>3. AppendFolder(s, p) = [f[Len(p)] EXCEPT !.ok = TRUE]
  BY DEF AppendFolder, ToFunction, ToStep
<1> HIDE DEF f
<1>4. \A i \in 0 .. Len(p) : f[i] = ToStep(s, p, f, i)
  BY <1>2
<1> QED BY <1>3, <1>4 DEF f

\* The folder of the first i names of p, or the first that was missing.
Reached(s, p, i, r) ==
  r.s = s /\ r.n \in Cells(s.cache) /\ s.cache[r.n].path = SubSeq(p, 1, i)
Created(s, p, r) ==
  \E j \in 1 .. Len(p), m \in Cells(s.cache) :
    /\ s.cache[m].path = SubSeq(p, 1, j - 1)
    /\ ~ Has(s.cache, SubSeq(p, 1, j))
    /\ r.s = AppendFolderOne(s, m, p[j])
    /\ r.n \in Cells(r.s.cache) /\ r.s.cache[r.n].path = SubSeq(p, 1, j)

\* A folder is created where none is found.
LEMMA CreateFacts ==
  ASSUME NEW s, Heap(s), NEW m \in Cells(s.cache), NEW nm \in Name,
         Append(s.cache[m].path, nm) \in Dirs(s.camera), Child(s, m, nm) = NULL
  PROVE  LET q == Append(s.cache[m].path, nm)
             t == AppendFolderOne(s, m, nm)
             k == Child(t, m, nm)
         IN ~ Has(s.cache, q) /\ k \in Cells(t.cache) /\ t.cache[k].path = q
<1> DEFINE q == Append(s.cache[m].path, nm)
           t == AppendFolderOne(s, m, nm)
           k == Child(t, m, nm)
<1>1. IsTree(s.cache)
  BY DEF Heap
<1>2. ~ Has(s.cache, q)
  BY <1>1, ChildFacts
<1>3. /\ Heap(t)
      /\ \E j \in Nat :
           /\ j \notin Cells(s.cache) /\ Cells(t.cache) = Cells(s.cache) \union {j}
           /\ t.cache[j] = NewFolder(m, q)
      /\ \A j \in Cells(s.cache) : t.cache[j] = s.cache[j]
  BY <1>2, AppendOneFacts
<1> HIDE DEF t
<1>4. /\ IsTree(t.cache) /\ m \in Cells(t.cache) /\ t.cache[m].path = s.cache[m].path
      /\ Has(t.cache, q)
  BY <1>3 DEF Heap, Has, NewFolder
<1>5. Append(t.cache[m].path, nm) = q
  BY <1>4
<1>6. /\ k # NULL => k \in Cells(t.cache) /\ t.cache[k].path = Append(t.cache[m].path, nm)
      /\ Has(t.cache, Append(t.cache[m].path, nm)) => k # NULL
  BY <1>4, ChildFacts
<1> QED BY <1>2, <1>4, <1>5, <1>6 DEF t

\* append_to_folder reaches the end of the path, or creates the first folder
\* that is missing.
LEMMA ToFacts ==
  ASSUME NEW s, Heap(s), NEW p \in Path, \A q \in Prefixes(p) : q \in Dirs(s.camera)
  PROVE  LET r == AppendFolder(s, p)
         IN r.ok = TRUE /\ (Reached(s, p, Len(p), r) \/ Created(s, p, r))
<1> DEFINE f == ToFunction(s, p)
           Good(i) == /\ f[i] = Ret(f[i].s, f[i].ok, f[i].n)
                      /\ \/ f[i].ok = TRUE /\ Reached(s, p, i, f[i])
                         \/ f[i].ok = FALSE /\ Created(s, p, f[i])
           T == {i \in 0 .. Len(p) : ~ Good(i)}
<1>1. p \in Seq(Name) /\ Len(p) \in Nat /\ IsTree(s.cache)
  BY PathsAreSequences DEF Heap
<1>2. /\ AppendFolder(s, p) = [f[Len(p)] EXCEPT !.ok = TRUE]
      /\ \A i \in 0 .. Len(p) : f[i] = ToStep(s, p, f, i)
  BY <1>1, ToFunctionFacts
<1> HIDE DEF f
<1>3. ASSUME NEW i \in T, \A k \in T : i <= k
      PROVE  FALSE
  <2>1. i \in 0 .. Len(p) /\ ~ Good(i) /\ f[i] = ToStep(s, p, f, i)
    BY <1>2
  <2>2. CASE i = 0
    <3>1. f[i] = Ret(s, TRUE, Root)
      BY <2>1, <2>2 DEF ToStep
    <3>2. Root \in Cells(s.cache) /\ s.cache[Root].path = SubSeq(p, 1, 0)
      BY <1>1, CellFacts, WholePath DEF IsTree
    <3>3. f[i].s = s /\ f[i].ok = TRUE /\ f[i].n = Root
      BY <3>1 DEF Ret
    <3>4. Reached(s, p, i, f[i])
      BY <2>2, <3>2, <3>3 DEF Reached
    <3>5. f[i] = Ret(f[i].s, f[i].ok, f[i].n)
      BY <3>1, <3>3
    <3> QED BY <2>1, <3>3, <3>4, <3>5
  <2>3. CASE i # 0
    <3> DEFINE g == f[i - 1]
               nm == p[i]
               k == Child(s, g.n, nm)
               t == AppendFolderOne(s, g.n, nm)
               h == Child(t, g.n, nm)
               q == SubSeq(p, 1, i)
    <3>1. i - 1 \in 0 .. Len(p) /\ i - 1 \notin T /\ i \in 1 .. Len(p)
      BY <1>1, <1>3, <2>1, <2>3
    <3>2. Good(i - 1)
      BY <3>1
    <3>3. f[i] = IF ~g.ok THEN g ELSE IF k # NULL THEN Ret(s, TRUE, k) ELSE Ret(t, FALSE, h)
      BY <2>1, <2>3 DEF ToStep
    <3>4. nm \in Name /\ q = Append(SubSeq(p, 1, i - 1), nm) /\ q \in Dirs(s.camera)
      BY <1>1, <2>1, <2>3, PathPrefix, PrefixesFacts
    <3>5. CASE g.ok = FALSE
      <4>1. f[i] = g
        BY <3>3, <3>5
      <4>2. g = Ret(g.s, g.ok, g.n) /\ Created(s, p, g)
        BY <3>2, <3>5
      <4> HIDE DEF g
      <4> QED BY <2>1, <3>5, <4>1, <4>2
    <3>6. CASE g.ok = TRUE
      <4>1. g.n \in Cells(s.cache) /\ s.cache[g.n].path = SubSeq(p, 1, i - 1)
        BY <3>2, <3>6 DEF Reached
      <4>2. Append(s.cache[g.n].path, nm) = q
        BY <3>4, <4>1
      <4> HIDE DEF g, nm, q
      <4>3. CASE k # NULL
        <5>1. f[i] = Ret(s, TRUE, k)
          BY <3>3, <3>6, <4>3
        <5>2. k \in Cells(s.cache) /\ s.cache[k].path = Append(s.cache[g.n].path, nm)
          BY <1>1, <3>4, <4>1, <4>3, ChildFacts
        <5> HIDE DEF k
        <5>3. f[i].s = s /\ f[i].ok = TRUE /\ f[i].n = k
          BY <5>1 DEF Ret
        <5>4. Reached(s, p, i, f[i])
          BY <4>2, <5>2, <5>3 DEF Reached, q
        <5>5. f[i] = Ret(f[i].s, f[i].ok, f[i].n)
          BY <5>1, <5>3
        <5> QED BY <2>1, <5>3, <5>4, <5>5
      <4>4. CASE k = NULL
        <5>1. f[i] = Ret(t, FALSE, h)
          BY <3>3, <3>6, <4>4
        <5>2. Append(s.cache[g.n].path, nm) \in Dirs(s.camera)
          BY <3>4, <4>2
        <5>3. /\ ~ Has(s.cache, Append(s.cache[g.n].path, nm))
              /\ h \in Cells(t.cache) /\ t.cache[h].path = Append(s.cache[g.n].path, nm)
          BY <3>4, <4>1, <4>4, <5>2, CreateFacts
        <5>4. ~ Has(s.cache, q) /\ h \in Cells(t.cache) /\ t.cache[h].path = q
          BY <4>2, <5>3
        <5>5. t = AppendFolderOne(s, g.n, p[i])
          BY DEF nm
        <5> HIDE DEF t, h
        <5>6. f[i].s = t /\ f[i].ok = FALSE /\ f[i].n = h
          BY <5>1 DEF Ret
        <5>7. Created(s, p, f[i])
          BY <3>1, <4>1, <5>4, <5>5, <5>6, Zenon DEF Created, q
        <5>8. f[i] = Ret(f[i].s, f[i].ok, f[i].n)
          BY <5>1, <5>6
        <5> QED BY <2>1, <5>6, <5>7, <5>8
      <4> QED BY <4>3, <4>4
    <3> QED BY <3>2, <3>5, <3>6
  <2> QED BY <2>2, <2>3
<1>4. T = {}
  <2>1. T \subseteq Nat
    BY <1>1
  <2> HIDE DEF T
  <2> QED BY <1>3, <2>1, LeastNat
<1>5. Good(Len(p))
  <2>1. Len(p) \in 0 .. Len(p) /\ Len(p) \notin T
    BY <1>1, <1>4
  <2> QED BY <2>1
<1> DEFINE g == f[Len(p)]
           r == AppendFolder(s, p)
<1>6. g = Ret(g.s, g.ok, g.n)
  BY <1>5
<1>7. Reached(s, p, Len(p), g) \/ Created(s, p, g)
  BY <1>5
<1> HIDE DEF g
<1>8. r = [g EXCEPT !.ok = TRUE]
  BY <1>2 DEF g
<1>9. r.ok = TRUE /\ r.s = g.s /\ r.n = g.n
  BY <1>6, <1>8 DEF Ret
<1> HIDE DEF r
<1>10. Reached(s, p, Len(p), r) \/ Created(s, p, r)
  BY <1>7, <1>9 DEF Reached, Created
<1> QED BY <1>9, <1>10 DEF r

\* append_to_folder: what it returns is the folder of the path, or a new one above.
LEMMA AppendFolderFine ==
  ASSUME NEW s, NEW d, Fine(s, d), NEW p \in Path,
         \A q \in Prefixes(p) : q \in Dirs(s.camera), d.dirs = Prefixes(p),
         NEW e, e.files = d.files, e.loose = d.loose
  PROVE  LET r == AppendFolder(s, p)
             q == r.s.cache[r.n].path
         IN /\ r.ok = TRUE /\ Fine(r.s, e) /\ Onward(s, r.s) /\ r.s.camera = s.camera
            /\ r.n \in Cells(r.s.cache) /\ q \in Path
            /\ q = p \/ r.s.cache[r.n].files_dirty
            /\ SteadyBad(s.bad) /\ Clear(s, p) => Clear(r.s, q)
<1> DEFINE r == AppendFolder(s, p)
           q == r.s.cache[r.n].path
<1>1. Heap(s) /\ IsTree(s.cache) /\ p \in Seq(Name) /\ Len(p) \in Nat
  BY PathsAreSequences DEF Fine, Heap
<1>2. r.ok = TRUE /\ (Reached(s, p, Len(p), r) \/ Created(s, p, r))
  BY <1>1, ToFacts
<1> HIDE DEF r
<1>3. CASE Reached(s, p, Len(p), r)
  <2>1. r.s = s /\ r.n \in Cells(s.cache) /\ q = SubSeq(p, 1, Len(p)) /\ q = p
    BY <1>1, <1>3, WholePath DEF Reached
  <2>2. ~ s.stale => Complete(s, e.dirs)
    <3>1. Len(p) \in 0 .. Len(p)
      BY <1>1
    <3>2. s.cache[r.n].path = SubSeq(p, 1, Len(p))
      BY <2>1
    <3>3. ~ s.stale => Complete(s, Prefixes(p))
      BY DEF Fine
    <3> QED BY <1>1, <2>1, <3>1, <3>2, <3>3, CompleteOnPath
  <2>3. Fine(s, e)
    <3>1. e.files => \A n \in Cells(s.cache) :
            ~ s.cache[n].files_dirty => FileFits(s.camera, s.cache[n].path, s.cache[n].files, e)
      BY DEF Fine, FileFits
    <3> QED BY <2>2, <3>1, ExcusedNoMore
  <2> QED BY <1>2, <2>1, <2>3, OnwardSelf DEF r
<1>4. CASE Created(s, p, r)
  <2>1. PICK j \in 1 .. Len(p), m \in Cells(s.cache) :
          /\ s.cache[m].path = SubSeq(p, 1, j - 1)
          /\ ~ Has(s.cache, SubSeq(p, 1, j))
          /\ r.s = AppendFolderOne(s, m, p[j])
          /\ r.n \in Cells(r.s.cache) /\ r.s.cache[r.n].path = SubSeq(p, 1, j)
    BY <1>4 DEF Created
  <2> DEFINE nm == p[j]
             t == AppendFolderOne(s, m, nm)
             y == Append(s.cache[m].path, nm)
  <2>2. j \in 0 .. Len(p) /\ nm \in Name /\ SubSeq(p, 1, j) = y
    <3>1. j \in 0 .. Len(p) /\ j # 0
      BY <1>1
    <3>2. p[j] \in Name /\ SubSeq(p, 1, j) = Append(SubSeq(p, 1, j - 1), p[j])
      BY <1>1, <3>1, PathPrefix
    <3> QED BY <2>1, <3>1, <3>2
  <2>3. y \in Dirs(s.camera) /\ ~ Has(s.cache, y)
    BY <1>1, <2>1, <2>2, PrefixesFacts
  <2>4. Excuses(d, d, y)
    BY DEF Excuses
  <2> HIDE DEF nm
  <2>5. /\ Fine(t, d) /\ Onward(s, t) /\ t.stale = s.stale
        /\ t.camera = s.camera /\ t.bad = s.bad
        /\ \A k \in Cells(t.cache) : t.cache[k].path = y =>
             /\ t.cache[k].files_dirty /\ t.cache[k].folders_dirty
             /\ k \notin Cells(s.cache)
        /\ \A k \in Cells(t.cache) : ~ Deeper(y, t.cache[k].path)
        /\ \A z : Clear(s, z) /\ ~ Deeper(y, z) => Clear(t, z)
    BY <2>2, <2>3, <2>4, AppendOneFine
  <2>6. r.s = t
    BY <2>1 DEF nm
  <2> HIDE DEF t, y
  <2>7. /\ r.n \in Cells(t.cache) /\ t.cache[r.n].path = y /\ q = y
        /\ t.cache[r.n].path = SubSeq(p, 1, j)
        /\ t.cache[r.n].files_dirty /\ t.cache[r.n].folders_dirty
    BY <2>1, <2>2, <2>5, <2>6
  <2>8. Heap(t) /\ (~ t.stale => Complete(t, Prefixes(p))) /\ y \in Path
    <3>1. Heap(t) /\ (~ t.stale => Complete(t, Prefixes(p)))
      BY <2>5 DEF Fine
    <3>2. IsTree(t.cache)
      BY <3>1 DEF Heap
    <3> QED BY <2>7, <3>1, <3>2, CellFacts
  <2>9. ~ t.stale => Complete(t, e.dirs)
    BY <2>2, <2>5, <2>7, <2>8, CompleteOnPath
  <2>10. Fine(t, e)
    <3>1. e.files => \A n \in Cells(t.cache) :
            ~ t.cache[n].files_dirty => FileFits(t.camera, t.cache[n].path, t.cache[n].files, e)
      BY <2>5 DEF Fine, FileFits
    <3> QED BY <2>5, <2>9, <3>1, ExcusedNoMore
  <2>11. Clear(s, p) => Clear(t, y)
    <3>1. SUFFICES ASSUME Clear(s, p)
                   PROVE  Clear(t, y)
      OBVIOUS
    <3>2. y \in Seq(Name) /\ ~ Deeper(y, y)
      <4>1. y \in Seq(Name) /\ Len(y) \in Nat
        BY <2>8, PathsAreSequences
      <4> QED BY <4>1 DEF Deeper
    <3>3. y = p \/ Deeper(y, p)
      <4>1. CASE j = Len(p)
        BY <1>1, <2>2, <4>1, WholePath DEF y
      <4>2. CASE j < Len(p)
        <5>1. Deeper(SubSeq(p, 1, j), p)
          BY <1>1, <2>2, <4>2, PathPrefix
        <5> QED BY <2>2, <5>1 DEF y
      <4> QED BY <1>1, <2>2, <4>1, <4>2
    <3>4. \A k \in Cells(s.cache) : Deeper(s.cache[k].path, y) => Deeper(s.cache[k].path, p)
      <4>1. \A k \in Cells(s.cache) : s.cache[k].path \in Seq(Name)
        BY <1>1, CellFacts
      <4> QED BY <1>1, <3>2, <3>3, <4>1, DeeperIsAnOrder
    <3>5. Clear(s, y)
      BY <3>1, <3>4 DEF Clear
    <3> QED BY <2>5, <3>2, <3>5
  <2> QED BY <1>2, <2>5, <2>6, <2>7, <2>8, <2>10, <2>11 DEF r
<1> QED BY <1>2, <1>3, <1>4

\* The folder n has no files that its folder on the camera has not, or it is dirty:
\* a file of the camera is appended to it.
AddedTo(c, x) == Ret(FilesWritten(c.s, c.n, c.s.cache[c.n].files \union {x}), TRUE, c.n)
AppendTo(f, p, x) ==
  LET c == CleanFiles(f.s, f.n, p) IN IF c.ok THEN AddedTo(c, x) ELSE c

\* gp_filesystem_append is a lookup, the folders, the file list, and the file.
LEMMA AppendFileIs ==
  ASSUME NEW s, NEW p, NEW x
  PROVE  LET l == Lookup(s, p)
             f == IF l.s.stale \/ l.ok THEN l ELSE AppendFolder(l.s, p)
         IN AppendFile(s, p, x) = IF f.ok THEN AppendTo(f, p, x) ELSE f
BY DEF AppendFile, IfOk, AppendTo, AddedTo, FilesWritten

\* The file x, that the camera has, goes into the folder n of the path p, or of
\* the beginning of p that it was appended to: the folder may have had it or not.
LEMMA AppendToFine ==
  ASSUME NEW f, NEW d, Fine(f.s, d), NEW p \in Path, NEW x \in FileName,
         x \in Files(f.s.camera, p), f.n \in Cells(f.s.cache),
         SteadyBad(f.s.bad) => Clear(f.s, f.s.cache[f.n].path),
         f.s.cache[f.n].path = p \/ (f.s.cache[f.n].files_dirty /\ d.loose = {}),
         d.loose \subseteq {<<p, x>>}, d.dirs = {},
         NEW e, e.files = d.files, e.loose = {}, e.dirs = {}
  PROVE  Fine(AppendTo(f, p, x).s, e) /\ AppendTo(f, p, x).s.bad = f.s.bad
<1> DEFINE n == f.n
           q == f.s.cache[n].path
           c == CleanFiles(f.s, n, p)
           r == AppendTo(f, p, x)
<1>1. /\ Goes(f.s, c, d) /\ c.s.camera = f.s.camera
      /\ ~ c.s.stale \/ c.ok => n \in Cells(c.s.cache) /\ c.s.cache[n].path = q
      /\ c.ok => c.n = n
      /\ q # p /\ f.s.cache[n].files_dirty /\ n \in Cells(c.s.cache) => c.s.cache[n].files_dirty
      /\ q = p /\ c.ok => ~ c.s.cache[n].files_dirty
      /\ q = p /\ d.files => c.ok
  BY CleanFilesFine
<1>2. r = IF c.ok THEN AddedTo(c, x) ELSE c
  BY DEF AppendTo
<1> HIDE DEF c, r
<1>3. Fine(c.s, d) /\ c.ok \in BOOLEAN /\ c.s.bad = f.s.bad
  BY <1>1 DEF Goes, Onward
<1>4. CASE ~ c.ok
  <2>1. ~ c.s.stale => Complete(c.s, e.dirs)
    BY <1>3 DEF Fine
  <2>2. ASSUME e.files, NEW m \in Cells(c.s.cache), ~ c.s.cache[m].files_dirty
        PROVE  FileFits(c.s.camera, c.s.cache[m].path, c.s.cache[m].files, e)
    <3>1. d.loose = {}
      BY <1>1, <1>4, <2>2
    <3> QED BY <1>3, <2>2, <3>1 DEF Fine, FileFits
  <2>3. Fine(c.s, e)
    BY <1>3, <2>1, <2>2, ExcusedNoMore
  <2> QED BY <1>2, <1>3, <1>4, <2>3 DEF r
<1>5. CASE c.ok
  <2> DEFINE A == c.s.cache[n].files \union {x}
             g == c.s.cache[n].files_dirty
             B == c.s.camera[c.s.cache[n].path]
             u == FilesWritten(c.s, n, A)
  <2>1. n \in Cells(c.s.cache) /\ c.s.cache[n].path = q /\ c.n = n
    BY <1>1, <1>5
  <2>2. /\ Heap(c.s) /\ g \in BOOLEAN /\ FileSet(c.s.cache[n].files) /\ FileSet(B)
        /\ Files(c.s.camera, c.s.cache[n].path) = B
        /\ Agrees(c.s, n, c.s.cache[n].files, g, B, d)
    BY <1>3, <2>1, HereFacts
  <2>3. FileSet(A) /\ A \in SUBSET FileName
    BY <2>2, FS_AddElement, Zenon DEF FileSet
  <2>4. q = p => x \in B
    BY <1>1, <2>1, <2>2
  <2>5. q = p \/ ~ d.files \/ (g = TRUE /\ d.loose = {})
    BY <1>1, <2>1, <2>2, Zenon
  <2>6. Agrees(c.s, n, A, g, B, d)
    <3>1. CASE ~ d.files
      BY <3>1 DEF Agrees
    <3>2. CASE d.files /\ g = TRUE
      BY <3>2 DEF Agrees
    <3>3. CASE d.files /\ g = FALSE
      <4>1. \A y \in FileName : <<c.s.cache[n].path, y>> \in d.loose
                                 \/ (y \in c.s.cache[n].files <=> y \in B)
        BY <2>2, <3>3, Zenon DEF Agrees
      <4>2. \A y \in FileName : <<c.s.cache[n].path, y>> \in d.loose \/ (y \in A <=> y \in B)
        BY <2>4, <2>5, <3>3, <4>1
      <4> QED BY <4>2 DEF Agrees
    <3> QED BY <2>2, <3>1, <3>2, <3>3, Zenon
  <2>7. x \in A
    OBVIOUS
  <2>8. r.s = u
    BY <1>2, <1>5, <2>1 DEF AddedTo, Ret
  <2>9. u = Written(c.s, n, A, g, B)
    BY <2>1, <2>2, <2>3, FilesWrittenIs, Zenon
  <2> HIDE DEF A, g, B, u
  <2>10. /\ Fine(u, d) /\ Onward(c.s, u) /\ Cells(u.cache) = Cells(c.s.cache) /\ u.cache[n].files = A
         /\ u.cache[n].path = c.s.cache[n].path /\ u.cache[n].files_dirty = g
         /\ u.camera = InFolder(c.s.camera, c.s.cache[n].path, B)
    BY <1>3, <2>1, <2>2, <2>3, <2>6, <2>9, WrittenFine
  <2>11. ~ u.stale => Complete(u, e.dirs)
    BY <2>10 DEF Fine
  <2>12. ASSUME e.files, NEW m \in Cells(u.cache), ~ u.cache[m].files_dirty
         PROVE  FileFits(u.camera, u.cache[m].path, u.cache[m].files, e)
    <3>1. FileFits(u.camera, u.cache[m].path, u.cache[m].files, d)
      BY <2>10, <2>12 DEF Fine
    <3>2. CASE d.loose = {}
      BY <3>1, <3>2 DEF FileFits
    <3>3. CASE d.loose # {} /\ u.cache[m].path # p
      BY <3>1, <3>3 DEF FileFits
    <3>4. CASE d.loose # {} /\ u.cache[m].path = p
      <4>1. q = p
        BY <3>4
      <4>2. n \in Cells(u.cache) /\ u.cache[n].path = p /\ IsTree(u.cache)
        BY <2>1, <2>10, <4>1 DEF Fine, Heap
      <4>3. m = n
        BY <3>4, <4>2 DEF IsTree
      <4>4. x \in u.cache[m].files
        BY <2>7, <2>10, <4>3
      <4>5. x \in Files(u.camera, p)
        <5>1. p \in DOMAIN c.s.camera
          BY <2>1, <2>2, <4>1 DEF Heap, Dirs
        <5>2. u.camera[p] = B /\ p \in DOMAIN u.camera
          BY <2>1, <2>10, <4>1, <5>1 DEF InFolder
        <5> QED BY <2>4, <4>1, <5>2 DEF Files, Dirs
      <4>6. \A y \in FileName : <<p, y>> \in d.loose \/ (y \in u.cache[m].files <=> y \in Files(u.camera, p))
        BY <3>1, <3>4 DEF FileFits
      <4>7. \A y \in FileName : y \in u.cache[m].files <=> y \in Files(u.camera, p)
        <5>1. \A y : <<p, y>> \in d.loose => y = x
          OBVIOUS
        <5> QED BY <4>4, <4>5, <4>6, <5>1
      <4> QED BY <3>4, <4>7 DEF FileFits
    <3> QED BY <3>2, <3>3, <3>4
  <2>13. Fine(u, e)
    BY <2>10, <2>11, <2>12, ExcusedNoMore
  <2>14. u.bad = f.s.bad
    BY <1>3, <2>10 DEF Onward
  <2> QED BY <2>8, <2>13, <2>14 DEF r
<1> QED BY <1>3, <1>4, <1>5

Excuse(files, dirs, loose) == [files |-> files, dirs |-> dirs, loose |-> loose]

\* gp_filesystem_append, for a file that the camera has.
LEMMA AppendFileFine ==
  ASSUME NEW s, NEW p \in Path, NEW x \in FileName, NEW d, Fine(s, d),
         d.dirs = Prefixes(p), d.loose = {<<p, x>>},
         \A q \in Prefixes(p) : q \in Dirs(s.camera), x \in Files(s.camera, p),
         NEW e, e.files = d.files, e.loose = {}, e.dirs = {}
  PROVE  Fine(AppendFile(s, p, x).s, e) /\ AppendFile(s, p, x).s.bad = s.bad
<1> DEFINE l == Lookup(s, p)
           a == AppendFolder(l.s, p)
           f == IF l.s.stale \/ l.ok THEN l ELSE a
           r == AppendFile(s, p, x)
<1>1. /\ Yields(s, l, p, d) /\ Looked(s, l.s, Len(p))
      /\ SteadyBad(s.bad) => (l.ok <=> Has(l.s.cache, p))
  BY LookupFine
<1>2. r = IF f.ok THEN AppendTo(f, p, x) ELSE f
  BY AppendFileIs
<1> HIDE DEF l, r
<1>3. /\ Fine(l.s, d) /\ l.ok \in BOOLEAN /\ l.s.camera = s.camera /\ l.s.bad = s.bad
      /\ SteadyBad(s.bad) => Clear(l.s, p)
  BY <1>1 DEF Yields, Looked, Moved, Records
<1>4. p \in Seq(Name) /\ Len(p) \in Nat /\ SubSeq(p, 1, Len(p)) = p
  BY PathsAreSequences, WholePath
<1>5. CASE l.ok
  <2> DEFINE b == Excuse(d.files, {}, {<<p, x>>})
  <2>1. b.files = d.files /\ b.dirs = {} /\ b.loose = {<<p, x>>}
    BY DEF Excuse
  <2> HIDE DEF b
  <2>2. l.n \in Cells(l.s.cache) /\ l.s.cache[l.n].path = p
    BY <1>1, <1>5 DEF Yields
  <2>3. ~ l.s.stale => Complete(l.s, b.dirs)
    <3>1. Heap(l.s) /\ (~ l.s.stale => Complete(l.s, Prefixes(p)))
      BY <1>3 DEF Fine
    <3>2. Len(p) \in 0 .. Len(p) /\ l.s.cache[l.n].path = SubSeq(p, 1, Len(p))
      BY <1>4, <2>2
    <3> QED BY <2>2, <3>1, <3>2, CompleteOnPath
  <2>4. Fine(l.s, b)
    <3>1. b.files => \A n \in Cells(l.s.cache) :
            ~ l.s.cache[n].files_dirty => FileFits(l.s.camera, l.s.cache[n].path, l.s.cache[n].files, b)
      BY <1>3, <2>1 DEF Fine, FileFits
    <3> QED BY <1>3, <2>1, <2>3, <3>1, ExcusedNoMore
  <2>5. /\ x \in Files(l.s.camera, p) /\ b.loose \subseteq {<<p, x>>}
        /\ SteadyBad(l.s.bad) => Clear(l.s, l.s.cache[l.n].path)
    BY <1>3, <2>1, <2>2
  <2>6. Fine(AppendTo(l, p, x).s, e) /\ AppendTo(l, p, x).s.bad = l.s.bad
    BY <2>1, <2>2, <2>4, <2>5, AppendToFine
  <2> QED BY <1>2, <1>3, <1>5, <2>6 DEF r
<1>6. CASE ~ l.ok /\ l.s.stale
  <2>1. Fine(l.s, e)
    BY <1>3, <1>6, StaleIsExcused
  <2> QED BY <1>2, <1>3, <1>6, <2>1 DEF r
<1>7. CASE ~ l.ok /\ ~ l.s.stale
  <2> DEFINE b == Excuse(d.files, Prefixes(p), {})
  <2>1. b.files = d.files /\ b.dirs = Prefixes(p) /\ b.loose = {}
    BY DEF Excuse
  <2> HIDE DEF b
  <2>2. Fine(l.s, b)
    <3>1. ASSUME b.files, NEW n \in Cells(l.s.cache), ~ l.s.cache[n].files_dirty
          PROVE  FileFits(l.s.camera, l.s.cache[n].path, l.s.cache[n].files, b)
      <4>1. FileFits(l.s.camera, l.s.cache[n].path, l.s.cache[n].files, d)
        BY <1>3, <2>1, <3>1 DEF Fine
      <4>2. SteadyBad(s.bad)
        BY <1>3, <2>1, <3>1, NoFailureIsSteady DEF Fine
      <4>3. l.s.cache[n].path # p
        BY <1>1, <1>7, <4>2 DEF Has
      <4> QED BY <4>1, <4>3 DEF FileFits
    <3>2. ~ l.s.stale => Complete(l.s, b.dirs)
      BY <1>3, <2>1 DEF Fine
    <3> QED BY <1>3, <2>1, <3>1, <3>2, ExcusedNoMore
  <2>3. /\ a.ok = TRUE /\ Fine(a.s, e) /\ Onward(l.s, a.s) /\ a.s.camera = l.s.camera
        /\ a.n \in Cells(a.s.cache) /\ a.s.cache[a.n].path \in Path
        /\ a.s.cache[a.n].path = p \/ a.s.cache[a.n].files_dirty
        /\ SteadyBad(l.s.bad) /\ Clear(l.s, p) => Clear(a.s, a.s.cache[a.n].path)
    <3>1. \A q \in Prefixes(p) : q \in Dirs(l.s.camera)
      BY <1>3
    <3>2. e.files = b.files /\ e.loose = b.loose
      BY <2>1
    <3> QED BY <2>1, <2>2, <3>1, <3>2, AppendFolderFine
  <2> HIDE DEF a
  <2>4. a.s.bad = l.s.bad
    BY <2>3 DEF Onward
  <2>5. /\ x \in Files(a.s.camera, p) /\ e.loose \subseteq {<<p, x>>}
        /\ a.s.cache[a.n].path = p \/ (a.s.cache[a.n].files_dirty /\ e.loose = {})
        /\ SteadyBad(a.s.bad) => Clear(a.s, a.s.cache[a.n].path)
    BY <1>3, <2>3, <2>4
  <2>6. Fine(AppendTo(a, p, x).s, e) /\ AppendTo(a, p, x).s.bad = a.s.bad
    BY <2>3, <2>5, AppendToFine
  <2> QED BY <1>2, <1>3, <1>7, <2>3, <2>4, <2>6 DEF r
<1> QED BY <1>3, <1>5, <1>6, <1>7

\* A clean cell that fits but for the file x of the folder p, and agrees with the
\* camera about that file, fits.
LEMMA NoMoreLoose ==
  ASSUME NEW t, NEW d, Fine(t, d), NEW p, NEW x, d.loose = {<<p, x>>},
         NEW e, e.files = d.files, e.dirs = d.dirs, e.loose = {},
         e.files => \A m \in Cells(t.cache) :
           t.cache[m].path = p => (x \in t.cache[m].files <=> x \in Files(t.camera, p))
  PROVE  Fine(t, e)
<1>1. ASSUME e.files, NEW m \in Cells(t.cache), ~ t.cache[m].files_dirty
      PROVE  FileFits(t.camera, t.cache[m].path, t.cache[m].files, e)
  <2>1. \A y \in FileName : <<t.cache[m].path, y>> \in d.loose \/
                            (y \in t.cache[m].files <=> y \in Files(t.camera, t.cache[m].path))
    BY <1>1 DEF Fine, FileFits
  <2>2. ASSUME NEW y \in FileName, <<t.cache[m].path, y>> \in d.loose
        PROVE  y \in t.cache[m].files <=> y \in Files(t.camera, t.cache[m].path)
    <3>1. t.cache[m].path = p /\ y = x
      BY <2>2
    <3> QED BY <1>1, <3>1
  <2> QED BY <2>1, <2>2 DEF FileFits
<1>2. ~ t.stale => Complete(t, e.dirs)
  BY DEF Fine
<1> QED BY <1>1, <1>2, ExcusedNoMore

\* The files B are the files C, but for x.
ButFor(x, B, C) == \A y : y # x => (y \in B <=> y \in C)

\* The record s has become t, in which the folder p of the camera has the files B.
Touched(s, t, p, B, d) ==
  /\ Fine(t, d) /\ t.camera = InFolder(s.camera, p, B)
  /\ t.cache = s.cache /\ t.bad = s.bad /\ t.stale = s.stale
  /\ Files(t.camera, p) = B

\* A file goes from the camera, or comes to it.
LEMMA TouchedFine ==
  ASSUME NEW s, NEW e, Fine(s, e), NEW p, p \in Dirs(s.camera), NEW x,
         NEW B, FileSet(B), ButFor(x, B, s.camera[p]), e.loose = {}
  PROVE  Touched(s, CameraWritten(s, p, B), p, B, Excuse(e.files, e.dirs, {<<p, x>>}))
<1> DEFINE t == CameraWritten(s, p, B)
           cam == InFolder(s.camera, p, B)
           d == Excuse(e.files, e.dirs, {<<p, x>>})
<1>0. d.files = e.files /\ d.dirs = e.dirs /\ d.loose = {<<p, x>>}
  BY DEF Excuse
<1> HIDE DEF d
<1>1. Heap(s) /\ s \in Progress /\ IsCamera(s.camera)
  BY ProgressFacts DEF Fine, Heap
<1>2. /\ Dirs(cam) = Dirs(s.camera) /\ cam[p] = B
      /\ \A q \in Dirs(cam) : q # p => cam[q] = s.camera[q]
      /\ cam = [q \in Dirs(cam) |-> cam[q]]
  BY DEF InFolder, Dirs
<1>3. B \subseteq FileName /\ IsFiniteSet(B)
  BY DEF FileSet
<1>4. t = [s EXCEPT !.camera = cam]
  BY <1>1 DEF CameraWritten, InFolder, Progress
<1> HIDE DEF cam, t
<1>5. IsCamera(cam)
  BY <1>1, <1>2, <1>3 DEF IsCamera
<1>6. cam \in Cameras
  BY <1>5, CamerasAreCameras
<1>7. /\ t.camera = cam /\ t.cache = s.cache /\ t.calls = s.calls /\ t.bad = s.bad
      /\ t.freed = s.freed /\ t.stale = s.stale /\ t \in Progress
  BY <1>1, <1>4, <1>6 DEF Progress
<1>8. Heap(t)
  BY <1>1, <1>2, <1>7 DEF Heap
<1>9. Complete(s, e.dirs) => Complete(t, d.dirs)
  BY <1>0, <1>2, <1>7 DEF Complete
<1>10. ASSUME NEW q, NEW y, y # x \/ q # p
       PROVE  y \in Files(cam, q) <=> y \in Files(s.camera, q)
  BY <1>2, <1>10 DEF Files, ButFor
<1>11. ASSUME e.files, NEW m \in Cells(t.cache), ~ t.cache[m].files_dirty
       PROVE  FileFits(t.camera, t.cache[m].path, t.cache[m].files, d)
  <2>1. FileFits(s.camera, s.cache[m].path, s.cache[m].files, e)
    BY <1>7, <1>11 DEF Fine
  <2>2. \A y \in FileName : y \in s.cache[m].files <=> y \in Files(s.camera, s.cache[m].path)
    BY <2>1 DEF FileFits
  <2>3. ASSUME NEW y \in FileName, <<s.cache[m].path, y>> \notin d.loose
        PROVE  y \in s.cache[m].files <=> y \in Files(cam, s.cache[m].path)
    <3>1. y # x \/ s.cache[m].path # p
      BY <1>0, <2>3
    <3> QED BY <1>10, <2>2, <3>1
  <2> QED BY <1>7, <2>3 DEF FileFits
<1>12. Fine(t, d)
  BY <1>0, <1>7, <1>8, <1>9, <1>11 DEF Fine
<1>13. Files(t.camera, p) = B
  BY <1>2, <1>7 DEF Files
<1> QED BY <1>7, <1>12, <1>13 DEF t, cam, d, Touched

Shrunk(s, p, x) == [s EXCEPT !.camera[p] = @ \ {x}]

\* gp_filesystem_delete_file_noop, after the file has gone.
Unlinked(l, x) == Ret(FilesWritten(l.s, l.n, l.s.cache[l.n].files \ {x}), TRUE, l.n)
RemovedFrom(s, p, x) ==
  LET l == LookupFile(Shrunk(s, p, x), p, x)
  IN IF l.ok THEN Unlinked(l, x) ELSE l

\* gp_filesystem_delete_file_noop, for a file that has gone from the camera.
LEMMA RemovedFine ==
  ASSUME NEW s, NEW e, Fine(s, e), NEW p \in Path, NEW x, x \in Files(s.camera, p),
         e.loose = {}
  PROVE  Fine(RemovedFrom(s, p, x).s, e) /\ RemovedFrom(s, p, x).s.bad = s.bad
<1> DEFINE v == Shrunk(s, p, x)
           l == LookupFile(v, p, x)
           n == l.n
           d == Excuse(e.files, e.dirs, {<<p, x>>})
           r == RemovedFrom(s, p, x)
<1>1. d.files = e.files /\ d.dirs = e.dirs /\ d.loose = {<<p, x>>}
  BY DEF Excuse
<1>2. p \in Dirs(s.camera)
  BY DEF Files
<1>3. Fine(v, d) /\ x \notin Files(v.camera, p) /\ v.bad = s.bad
  <2> DEFINE C == s.camera[p] \ {x}
  <2>1. s \in Progress /\ IsCamera(s.camera)
    BY ProgressFacts DEF Fine, Heap
  <2>2. v = CameraWritten(s, p, C)
    BY <1>2, <2>1 DEF Shrunk, CameraWritten, Dirs, Progress
  <2>3. FileSet(C) /\ x \notin C /\ ButFor(x, C, s.camera[p])
    BY <1>2, <2>1, FS_Subset DEF FileSet, IsCamera, ButFor
  <2> HIDE DEF C, v
  <2> DEFINE w == CameraWritten(s, p, C)
  <2>4. Touched(s, w, p, C, d)
    BY <1>2, <2>3, TouchedFine, Zenon
  <2>5. Fine(w, d) /\ Files(w.camera, p) = C /\ w.bad = s.bad
    BY <2>4 DEF Touched
  <2> QED BY <2>2, <2>3, <2>5
<1> HIDE DEF d
<1>4. r = IF l.ok THEN Unlinked(l, x) ELSE l
  BY DEF RemovedFrom
<1> HIDE DEF v
<1>5. /\ Yields(v, l, p, d) /\ l.s.camera = v.camera
      /\ l.ok => x \in l.s.cache[l.n].files
      /\ d.files /\ ~ l.ok => \A m \in Cells(l.s.cache) :
                                l.s.cache[m].path = p => x \notin l.s.cache[m].files
  BY <1>3, LookupFileFine
<1> HIDE DEF l, r
<1>6. Fine(l.s, d) /\ x \notin Files(l.s.camera, p) /\ l.s.bad = s.bad
  BY <1>3, <1>5 DEF Yields, Onward
<1>7. CASE ~ l.ok
  <2>1. Fine(l.s, e)
    BY <1>1, <1>5, <1>6, <1>7, NoMoreLoose
  <2> QED BY <1>4, <1>6, <1>7, <2>1 DEF r
<1>8. CASE l.ok
  <2> DEFINE A == l.s.cache[n].files \ {x}
             g == l.s.cache[n].files_dirty
             B == l.s.camera[l.s.cache[n].path]
             u == FilesWritten(l.s, n, A)
  <2>1. n \in Cells(l.s.cache) /\ l.s.cache[n].path = p
    BY <1>5, <1>8 DEF Yields
  <2>2. /\ Heap(l.s) /\ g \in BOOLEAN /\ FileSet(l.s.cache[n].files) /\ FileSet(B)
        /\ Files(l.s.camera, l.s.cache[n].path) = B
        /\ Agrees(l.s, n, l.s.cache[n].files, g, B, d)
    BY <1>6, <2>1, HereFacts
  <2>3. FileSet(A) /\ A \in SUBSET FileName /\ x \notin A
    BY <2>2, FS_Subset, Zenon DEF FileSet
  <2>4. Agrees(l.s, n, A, g, B, d)
    BY <1>1, <2>1, <2>2 DEF Agrees
  <2>5. r.s = u
    BY <1>4, <1>8 DEF Unlinked, Ret
  <2>6. u = Written(l.s, n, A, g, B)
    BY <2>1, <2>2, <2>3, FilesWrittenIs
  <2>7. x \notin B
    BY <1>6, <2>1, <2>2
  <2> HIDE DEF A, g, B, u
  <2>8. /\ Fine(u, d) /\ Onward(l.s, u) /\ Cells(u.cache) = Cells(l.s.cache) /\ u.cache[n].files = A
        /\ u.cache[n].path = l.s.cache[n].path
        /\ u.camera = InFolder(l.s.camera, l.s.cache[n].path, B)
    BY <1>6, <2>1, <2>2, <2>3, <2>4, <2>6, WrittenFine
  <2>9. x \notin Files(u.camera, p)
    BY <2>1, <2>7, <2>8 DEF Files, InFolder, Dirs
  <2>10. ASSUME NEW m \in Cells(u.cache), u.cache[m].path = p
         PROVE  x \notin u.cache[m].files
    <3>1. IsTree(u.cache) /\ n \in Cells(u.cache) /\ u.cache[n].path = p
      BY <2>1, <2>8 DEF Fine, Heap
    <3>2. m = n
      BY <2>10, <3>1 DEF IsTree
    <3> QED BY <2>3, <2>8, <3>2
  <2>11. \A m \in Cells(u.cache) :
           u.cache[m].path = p => (x \in u.cache[m].files <=> x \in Files(u.camera, p))
    BY <2>9, <2>10
  <2>12. Fine(u, d) /\ e.files = d.files /\ e.dirs = d.dirs
    BY <1>1, <2>8
  <2>13. Fine(u, e)
    BY <1>1, <2>11, <2>12, NoMoreLoose
  <2>14. u.bad = s.bad
    BY <1>6, <2>8 DEF Onward
  <2> QED BY <2>5, <2>13, <2>14 DEF r
<1> QED BY <1>5, <1>7, <1>8 DEF Yields

-----------------------------------------------------------------------------
(***************************************************************************)
(* The inductive invariant.  Between two operations the cache is a tree of *)
(* folders that the camera has; unless something freed has been used, what *)
(* is clean is true, but for the file that is about to be appended.        *)
(***************************************************************************)

\* No driver call fails.
Reliable == MayFail \subseteq {{}}

\* A driver that has failed fails until the operation ends.
Steady == \A bad \in MayFail : SteadyBad(bad)

\* The record with which an operation begins.
At(cam, c, bad) == [camera |-> cam, cache |-> c, calls |-> 0, bad |-> bad,
                    freed |-> {}, stale |-> FALSE]

\* What the cache need not know of a captured file.
NewsDirs(nw)   == IF nw = NoNews THEN {} ELSE Prefixes(nw.path)
NewsFiles(nw)  == IF nw = NoNews THEN {} ELSE {<<nw.path, nw.file>>}
NewsExcuse(nw) == Excuse(Reliable, NewsDirs(nw), NewsFiles(nw))

\* A captured file that is not appended yet is on the camera.
NewsIsThere(cam, nw) ==
  \/ nw = NoNews
  \/ /\ nw.path \in Path /\ nw.file \in FileName /\ nw.file \in Files(cam, nw.path)
     /\ \A q \in Prefixes(nw.path) : q \in Dirs(cam)

Sound(cam, c, nw, ans) ==
  /\ Heap(At(cam, c, {})) /\ NewsIsThere(cam, nw)
  /\ Steady => ans # Undefined
  /\ ans # Undefined => Fine(At(cam, c, {}), NewsExcuse(nw))

IInv == Sound(camera, cache, news, answer)

\* The cells of an operation that ends are those of the next one.
LEMMA AtHeap ==
  ASSUME NEW u, Heap(u), NEW bad, bad \subseteq 1 .. MaxCalls
  PROVE  Heap(At(u.camera, u.cache, bad))
<1> DEFINE v == At(u.camera, u.cache, bad)
<1>1. /\ v.camera = u.camera /\ v.cache = u.cache /\ v.freed = {}
  BY DEF At
<1>2. v \in Progress
  BY BoundAssumption DEF At, Progress, Heap
<1> HIDE DEF v
<1> QED BY <1>1, <1>2 DEF Heap, v

\* The next operation begins where the last one has ended.
LEMMA AtFine ==
  ASSUME NEW u, NEW e, Fine(u, e), ~ u.stale, NEW bad, bad \subseteq 1 .. MaxCalls,
         e.files => bad = {}
  PROVE  Fine(At(u.camera, u.cache, bad), e)
<1> DEFINE v == At(u.camera, u.cache, bad)
<1>1. /\ v.camera = u.camera /\ v.cache = u.cache /\ v.bad = bad /\ ~ v.stale
  BY DEF At
<1>2. Heap(v)
  BY AtHeap DEF Fine
<1> HIDE DEF v
<1>3. Complete(v, e.dirs)
  BY <1>1 DEF Fine, Complete
<1>4. e.files => \A n \in Cells(v.cache) :
        ~ v.cache[n].files_dirty => FileFits(v.camera, v.cache[n].path, v.cache[n].files, e)
  BY <1>1 DEF Fine
<1>5. \A n \in Cells(v.cache) : IsFiniteSet(v.cache[n].files)
  BY <1>1 DEF Fine
<1> QED BY <1>1, <1>2, <1>3, <1>4, <1>5 DEF Fine, v

\* What holds at the end of an operation holds between operations.
LEMMA EndSound ==
  ASSUME NEW u, NEW nw, Fine(u, NewsExcuse(nw)), Steady => SteadyBad(u.bad),
         NewsIsThere(u.camera, nw), NEW ans, u.stale <=> ans = Undefined
  PROVE  Sound(u.camera, u.cache, nw, ans)
<1>1. {} \subseteq 1 .. MaxCalls
  OBVIOUS
<1>2. Heap(At(u.camera, u.cache, {}))
  BY <1>1, AtHeap DEF Fine
<1>3. ans # Undefined => Fine(At(u.camera, u.cache, {}), NewsExcuse(nw))
  BY <1>1, AtFine
<1>4. Steady => ans # Undefined
  BY DEF Fine
<1> QED BY <1>2, <1>3, <1>4 DEF Sound

\* Without news only the failures excuse anything.
LEMMA NoNewsExcuse ==
  /\ NewsExcuse(NoNews).files = Reliable /\ NewsExcuse(NoNews).dirs = {}
  /\ NewsExcuse(NoNews).loose = {}
BY DEF NewsExcuse, Excuse, NewsDirs, NewsFiles

\* An operation begins with what the last one has left, and news to come.
LEMMA BeginFine ==
  ASSUME IInv, answer # Undefined, NEW bad \in MayFail \union {{}}
  PROVE  /\ Fine(Begin(bad), NewsExcuse(news)) /\ Begin(bad).bad = bad
         /\ Steady => SteadyBad(bad)
         /\ Begin(bad).camera = camera /\ Begin(bad).cache = cache
<1>1. Fine(At(camera, cache, {}), NewsExcuse(news))
  BY DEF IInv, Sound
<1>2. NewsExcuse(news).files => bad = {}
  BY DEF NewsExcuse, Excuse, Reliable
<1>3. bad \subseteq 1 .. MaxCalls
  BY BoundAssumption
<1> DEFINE u == At(camera, cache, {})
<1>4. u.camera = camera /\ u.cache = cache /\ ~ u.stale
  BY DEF At
<1>5. Fine(u, NewsExcuse(news))
  BY <1>1
<1> HIDE DEF u
<1>6. Fine(At(u.camera, u.cache, bad), NewsExcuse(news))
  BY <1>2, <1>3, <1>4, <1>5, AtFine
<1>7. Begin(bad) = At(camera, cache, bad)
  BY DEF Begin, At
<1>8. At(camera, cache, bad).bad = bad /\ At(camera, cache, bad).camera = camera
      /\ At(camera, cache, bad).cache = cache
  BY DEF At
<1>9. Steady => SteadyBad(bad)
  BY NoFailureIsSteady DEF Steady
<1> QED BY <1>4, <1>6, <1>7, <1>8, <1>9

\* An operation that does not touch the news.
LEMMA OperateSound ==
  ASSUME IInv, Ready, news' = news, NEW r, NEW a, Return(r, a), a # Undefined,
         Fine(r.s, NewsExcuse(NoNews)), Steady => SteadyBad(r.s.bad)
  PROVE  IInv'
<1>1. /\ news' = NoNews /\ camera' = r.s.camera /\ cache' = r.s.cache
      /\ answer' = IF r.s.stale THEN Undefined ELSE a
  BY DEF Ready, Return
<1>2. NewsIsThere(r.s.camera, NoNews)
  BY DEF NewsIsThere
<1>3. r.s.stale <=> answer' = Undefined
  BY <1>1
<1>4. Sound(r.s.camera, r.s.cache, NoNews, answer')
  BY <1>2, <1>3, EndSound
<1> QED BY <1>1, <1>4 DEF IInv

\* What is answered is defined, unless something freed has been used.
LEMMA AnswersAreDefined ==
  /\ Done # Undefined /\ Failed # Undefined
  /\ \A p, S : Listed("files", p, S) # Undefined /\ Listed("folders", p, S) # Undefined
  /\ \A p, n : Counted(p, n) # Undefined
  /\ \A p, x, f : Sought(p, x, f) # Undefined
  /\ \A x, f : Found(x, f) # Undefined
<1>1. Undefined.of = "undefined" /\ Done.of = "done" /\ Failed.of = "failed"
  BY DEF Undefined, Done, Failed
<1>2. /\ \A p, S : Listed("files", p, S).of = "files" /\ Listed("folders", p, S).of = "folders"
      /\ \A p, n : Counted(p, n).of = "count"
      /\ \A p, x, f : Sought(p, x, f).of = "sought"
      /\ \A x, f : Found(x, f).of = "found"
  BY DEF Listed, Counted, Sought, Found
<1> QED BY <1>1, <1>2

\* gp_filesystem_new.
LEMMA InitSound ==
  ASSUME Init
  PROVE  IInv
<1> DEFINE c == <<NewFolder(NULL, << >>)>>
           u == At(camera, c, {})
<1>1. IsCamera(camera) /\ cache = c /\ news = NoNews /\ answer = Done
  BY CameraAssumption DEF Init
<1>2. NewFolder(NULL, << >>) \in Folder
  BY PathsAreSequences DEF NewFolder, Folder, NULL
<1>3. c \in Seq(Folder) /\ Len(c) = 1 /\ c[1] = NewFolder(NULL, << >>)
  BY <1>2
<1>4. c[1].path = << >> /\ c[1].parent = NULL /\ c[1].files = {}
      /\ c[1].files_dirty = TRUE /\ c[1].folders_dirty = TRUE
  BY <1>3 DEF NewFolder
<1> HIDE DEF c
<1>5. Cells(c) = {1} /\ Root = 1
  BY <1>3 DEF Cells, Root
<1>6. IsTree(c)
  BY <1>3, <1>4, <1>5 DEF IsTree
<1>7. /\ u.camera = camera /\ u.cache = c /\ u.calls = 0 /\ u.bad = {}
      /\ u.freed = {} /\ u.stale = FALSE
  BY DEF At
<1>8. u \in Progress
  BY <1>1, <1>3, CamerasAreCameras, BoundAssumption DEF At, Progress
<1> HIDE DEF u
<1>9. Heap(u)
  BY <1>1, <1>4, <1>5, <1>6, <1>7, <1>8 DEF Heap, IsCamera
<1>10. Complete(u, NewsExcuse(NoNews).dirs)
  BY <1>4, <1>5, <1>7 DEF Complete
<1>11. IsFiniteSet({})
  BY FS_EmptySet
<1>12. Fine(u, NewsExcuse(NoNews))
  BY <1>4, <1>5, <1>7, <1>9, <1>10, <1>11 DEF Fine
<1>13. Done # Undefined /\ NewsIsThere(camera, NoNews)
  BY AnswersAreDefined DEF NewsIsThere
<1> QED BY <1>1, <1>9, <1>12, <1>13 DEF IInv, Sound, u

\* An application's operation begins with a sound cache.
LEMMA ReadyFine ==
  ASSUME IInv, Ready, NEW bad \in MayFail \union {{}}
  PROVE  /\ Fine(Begin(bad), NewsExcuse(NoNews)) /\ Begin(bad).bad = bad
         /\ Steady => SteadyBad(bad)
         /\ Begin(bad).camera = camera /\ Begin(bad).cache = cache
BY BeginFine DEF Ready

\* An operation whose steps preserve what it began with.
LEMMA GoesSound ==
  ASSUME IInv, Ready, news' = news, NEW bad \in MayFail \union {{}}, NEW r,
         Goes(Begin(bad), r, NewsExcuse(NoNews)), NEW a, Return(r, a), a # Undefined
  PROVE  IInv'
<1>1. Fine(r.s, NewsExcuse(NoNews)) /\ r.s.bad = Begin(bad).bad
  BY DEF Goes, Onward
<1>2. Steady => SteadyBad(r.s.bad)
  BY <1>1, ReadyFine
<1> QED BY <1>1, <1>2, OperateSound

\* gp_filesystem_list_files leaves a sound cache.
LEMMA ListSound ==
  ASSUME IInv, NEW p \in Path, NEW bad \in MayFail, List(p, bad)
  PROVE  IInv'
<1> DEFINE r == ListFiles(Begin(bad), p)
           a == IF r.ok THEN Listed("files", p, r.s.cache[r.n].files) ELSE Failed
<1>1. Ready /\ Return(r, a) /\ news' = news
  BY DEF List, Operate
<1>2. a # Undefined
  BY AnswersAreDefined
<1>3. Goes(Begin(bad), r, NewsExcuse(NoNews))
  BY <1>1, ReadyFine, ListFilesFine, YieldsGoes DEF ListsFiles
<1> HIDE DEF r, a
<1> QED BY <1>1, <1>2, <1>3, GoesSound

\* gp_filesystem_list_folders leaves a sound cache.
LEMMA ListSubSound ==
  ASSUME IInv, NEW p \in Path, NEW bad \in MayFail, ListSub(p, bad)
  PROVE  IInv'
<1> DEFINE r == ListFolders(Begin(bad), p)
           a == IF r.ok THEN Listed("folders", p, {NameOf(r.s, k) : k \in Kids(r.s, r.n)})
                ELSE Failed
<1>1. Ready /\ Return(r, a) /\ news' = news
  BY DEF ListSub, Operate
<1>2. a # Undefined
  BY AnswersAreDefined
<1>3. Goes(Begin(bad), r, NewsExcuse(NoNews))
  BY <1>1, ReadyFine, LookupFine, YieldsGoes
<1> HIDE DEF r, a
<1> QED BY <1>1, <1>2, <1>3, GoesSound

\* gp_filesystem_count leaves a sound cache.
LEMMA CountSound ==
  ASSUME IInv, NEW p \in Path, NEW bad \in MayFail, Count(p, bad)
  PROVE  IInv'
<1> DEFINE r == Lookup(Begin(bad), p)
           a == IF r.ok THEN Counted(p, Cardinality(r.s.cache[r.n].files)) ELSE Failed
<1>1. Ready /\ Return(r, a) /\ news' = news
  BY DEF Count, Operate
<1>2. a # Undefined
  BY AnswersAreDefined
<1>3. Goes(Begin(bad), r, NewsExcuse(NoNews))
  BY <1>1, ReadyFine, LookupFine, YieldsGoes
<1> HIDE DEF r, a
<1> QED BY <1>1, <1>2, <1>3, GoesSound

\* gp_filesystem_delete_file leaves a sound cache.
LEMMA DeleteSound ==
  ASSUME IInv, NEW p \in Path, NEW x, NEW bad \in MayFail, Delete(p, x, bad)
  PROVE  IInv'
<1> DEFINE r == DeleteOne(Begin(bad), p, x)
           a == IF r.ok THEN Done ELSE Failed
<1>1. Ready /\ Return(r, a) /\ news' = news
  BY DEF Delete, Operate, OnlyDone
<1>2. a # Undefined
  BY AnswersAreDefined
<1>3. Goes(Begin(bad), r, NewsExcuse(NoNews))
  BY <1>1, ReadyFine, DeleteOneFine, YieldsGoes
<1> HIDE DEF r, a
<1> QED BY <1>1, <1>2, <1>3, GoesSound

\* gp_filesystem_delete_all leaves a sound cache.
LEMMA DeleteAllSound ==
  ASSUME IInv, NEW p \in Path, NEW bad \in MayFail, NEW has, NEW left,
         DeleteAll(p, bad, has, left)
  PROVE  IInv'
<1> DEFINE r == DeleteFiles(Begin(bad), p, has, left)
           a == IF r.ok THEN Done ELSE Failed
<1>1. Ready /\ Return(r, a) /\ news' = news
  BY DEF DeleteAll, Operate, OnlyDone
<1>2. a # Undefined
  BY AnswersAreDefined
<1>3. Goes(Begin(bad), r, NewsExcuse(NoNews))
  BY <1>1, ReadyFine, DeleteFilesFine
<1> HIDE DEF r, a
<1> QED BY <1>1, <1>2, <1>3, GoesSound

\* gp_filesystem_make_dir leaves a sound cache.
LEMMA MakeDirSound ==
  ASSUME IInv, NEW p \in Path, NEW nm \in Name, NEW bad \in MayFail, MakeDir(p, nm, bad)
  PROVE  IInv'
<1> DEFINE r == MakeFolder(Begin(bad), p, nm)
           a == IF r.ok THEN Done ELSE Failed
<1>1. Ready /\ Return(r, a) /\ news' = news /\ Len(p) < MaxDepth
  BY DEF MakeDir, Operate, OnlyDone
<1>2. a # Undefined
  BY AnswersAreDefined
<1>3. Goes(Begin(bad), r, NewsExcuse(NoNews))
  BY <1>1, ReadyFine, MakeFolderFine
<1> HIDE DEF r, a
<1> QED BY <1>1, <1>2, <1>3, GoesSound

\* gp_filesystem_remove_dir leaves a sound cache.
LEMMA RemoveDirSound ==
  ASSUME IInv, NEW p \in Path, NEW nm \in Name, NEW bad \in MayFail, RemoveDir(p, nm, bad)
  PROVE  IInv'
<1> DEFINE r == RemoveFolder(Begin(bad), p, nm)
           a == IF r.ok THEN Done ELSE Failed
<1>1. Ready /\ Return(r, a) /\ news' = news
  BY DEF RemoveDir, Operate, OnlyDone
<1>2. a # Undefined
  BY AnswersAreDefined
<1>3. Fine(r.s, NewsExcuse(NoNews)) /\ r.s.bad = Begin(bad).bad
  BY <1>1, ReadyFine, RemoveFolderFine
<1> HIDE DEF r, a
<1>4. Steady => SteadyBad(r.s.bad)
  BY <1>1, <1>3, ReadyFine
<1> QED BY <1>1, <1>2, <1>3, <1>4, OperateSound

\* gp_filesystem_put_file leaves a sound cache.
LEMMA PutSound ==
  ASSUME IInv, NEW p \in Path, NEW x \in FileName, NEW bad \in MayFail, Put(p, x, bad)
  PROVE  IInv'
<1> DEFINE r == PutFile(Begin(bad), p, x)
           a == IF r.ok THEN Done ELSE Failed
<1>1. Ready /\ Return(r, a) /\ news' = news
  BY DEF Put, Operate, OnlyDone
<1>2. a # Undefined
  BY AnswersAreDefined
<1>3. Goes(Begin(bad), r, NewsExcuse(NoNews))
  BY <1>1, ReadyFine, PutFileFine, YieldsGoes
<1> HIDE DEF r, a
<1> QED BY <1>1, <1>2, <1>3, GoesSound

\* gp_filesystem_number leaves a sound cache.
LEMMA NumberSound ==
  ASSUME IInv, NEW p \in Path, NEW x, NEW bad \in MayFail, Number(p, x, bad)
  PROVE  IInv'
<1> DEFINE r == SeekFile(Begin(bad), p, x)
           a == IF r.ok THEN Sought(p, x, x \in r.s.cache[r.n].files) ELSE Failed
<1>1. Ready /\ Return(r, a) /\ news' = news
  BY DEF Number, Operate
<1>2. a # Undefined
  BY AnswersAreDefined
<1>3. Goes(Begin(bad), r, NewsExcuse(NoNews))
  BY <1>1, ReadyFine, SeekFileFine
<1> HIDE DEF r, a
<1> QED BY <1>1, <1>2, <1>3, GoesSound

\* gp_filesystem_get_folder leaves a sound cache.
LEMMA GetFolderSound ==
  ASSUME IInv, NEW x, NEW bad \in MayFail, GetFolder(x, bad)
  PROVE  IInv'
<1> DEFINE r == Scan(Begin(bad), << >>, x)
           a == IF r.ok
                THEN Found(x, \E n \in Cells(r.s.cache) : x \in r.s.cache[n].files)
                ELSE Failed
<1>1. Ready /\ Return(r, a) /\ news' = news
  BY DEF GetFolder, Operate
<1>2. a # Undefined
  BY AnswersAreDefined
<1>3. Goes(Begin(bad), r, NewsExcuse(NoNews))
  BY <1>1, ReadyFine, ScanFine, PathsAreSequences
<1> HIDE DEF r, a
<1> QED BY <1>1, <1>2, <1>3, GoesSound

\* gp_filesystem_reset leaves a sound cache.
LEMMA ResetSound ==
  ASSUME IInv, Reset
  PROVE  IInv'
<1> DEFINE r == Ret(ResetCache(Begin({})), TRUE, Root)
<1>0. r.s = ResetCache(Begin({})) /\ r.ok = TRUE
  BY DEF Ret
<1>1. Ready /\ Return(r, Done) /\ news' = news
  BY <1>0 DEF Reset, Operate, OnlyDone
<1>2. Done # Undefined
  BY AnswersAreDefined
<1>3. Fine(r.s, NewsExcuse(NoNews)) /\ r.s.bad = Begin({}).bad
  BY <1>0, <1>1, ReadyFine, ResetFine
<1> HIDE DEF r
<1>4. SteadyBad(r.s.bad)
  BY <1>1, <1>3, ReadyFine, NoFailureIsSteady
<1> QED BY <1>1, <1>2, <1>3, <1>4, OperateSound

\* A file goes, and gp_filesystem_delete_file_noop is told.
LEMMA RemovedSound ==
  ASSUME IInv, NEW p \in Path, NEW x, NEW bad \in MayFail, Removed(p, x, bad)
  PROVE  IInv'
<1> DEFINE s == Begin(bad)
           q == RemovedFrom(s, p, x)
           r == Ret(q.s, TRUE, q.n)
<1>1. Ready /\ Return(r, Done) /\ news' = news /\ x \in Files(camera, p)
  BY Zenon
     DEF Removed, Operate, OnlyDone, Ret, RemovedFrom, Shrunk, Unlinked, FilesWritten, IfOk
<1>2. /\ Fine(s, NewsExcuse(NoNews)) /\ s.bad = bad /\ s.camera = camera
      /\ Steady => SteadyBad(bad)
  BY <1>1, ReadyFine
<1> HIDE DEF s
<1>3. NewsExcuse(NoNews).loose = {}
  BY NoNewsExcuse
<1>4. Fine(q.s, NewsExcuse(NoNews)) /\ q.s.bad = bad
  BY <1>1, <1>2, <1>3, RemovedFine
<1> HIDE DEF q
<1>5. r.s = q.s
  BY DEF Ret
<1> HIDE DEF r
<1>6. Done # Undefined
  BY AnswersAreDefined
<1> QED BY <1>1, <1>2, <1>4, <1>5, <1>6, OperateSound

\* The driver appends the captured file.
LEMMA AppendedSound ==
  ASSUME IInv, NEW bad \in MayFail, Appended(bad)
  PROVE  IInv'
<1> DEFINE s == Begin(bad)
           p == news.path
           x == news.file
           d == NewsExcuse(news)
           e == NewsExcuse(NoNews)
           r == AppendFile(s, p, x)
<1>1. /\ news # NoNews /\ answer # Undefined /\ Return(r, answer) /\ news' = NoNews
  BY DEF Appended
<1>2. /\ Fine(s, d) /\ s.bad = bad /\ s.camera = camera /\ (Steady => SteadyBad(bad))
  BY <1>1, BeginFine
<1>3. /\ p \in Path /\ x \in FileName /\ x \in Files(camera, p)
      /\ \A q \in Prefixes(p) : q \in Dirs(camera)
  BY <1>1 DEF IInv, Sound, NewsIsThere
<1>4. d.dirs = Prefixes(p) /\ d.loose = {<<p, x>>} /\ d.files = Reliable
  BY <1>1 DEF NewsExcuse, Excuse, NewsDirs, NewsFiles
<1>5. e.files = d.files /\ e.loose = {} /\ e.dirs = {}
  BY <1>4, NoNewsExcuse
<1> HIDE DEF s, p, x, d, e
<1>6. Fine(r.s, e) /\ r.s.bad = bad
  BY <1>2, <1>3, <1>4, <1>5, AppendFileFine
<1> HIDE DEF r
<1>7. /\ camera' = r.s.camera /\ cache' = r.s.cache
      /\ answer' = IF r.s.stale THEN Undefined ELSE answer
  BY <1>1 DEF Return
<1>8. NewsIsThere(r.s.camera, NoNews) /\ (r.s.stale <=> answer' = Undefined)
      /\ (Steady => SteadyBad(r.s.bad))
  BY <1>1, <1>2, <1>6, <1>7 DEF NewsIsThere
<1>9. Fine(r.s, NewsExcuse(NoNews))
  BY <1>6 DEF e
<1>10. Sound(r.s.camera, r.s.cache, NoNews, answer')
  BY <1>8, <1>9, EndSound
<1> QED BY <1>1, <1>7, <1>10 DEF IInv

\* The folders on the way to a path are finitely many.
LEMMA PrefixesFinite ==
  ASSUME NEW p \in Path
  PROVE  IsFiniteSet(Prefixes(p)) /\ Prefixes(p) \subseteq Path
<1> DEFINE K == 0 .. Len(p)
           S == Prefixes(p)
           h == [i \in K |-> SubSeq(p, 1, i)]
<1>1. p \in Seq(Name) /\ Len(p) \in Nat /\ Len(p) <= MaxDepth /\ MaxDepth \in Nat
  BY PathsAreSequences
<1>2. IsFiniteSet(K)
  BY <1>1, FS_Interval
<1>3. h \in Surjection(K, S)
  BY DEF Surjection, Prefixes
<1>4. S \subseteq Path
  <2>1. ASSUME NEW i \in K
        PROVE  SubSeq(p, 1, i) \in Path
    <3>1. SubSeq(p, 1, i) \in Seq(Name) /\ Len(SubSeq(p, 1, i)) <= MaxDepth
      BY <1>1
    <3> QED BY <3>1, PathsAreSequences
  <2> QED BY <2>1 DEF Prefixes
<1> HIDE DEF K, h, S
<1>5. IsFiniteSet(S)
  BY <1>2, <1>3, FS_Surjection
<1> QED BY <1>4, <1>5 DEF S

\* A capture creates a file, and the folders that it takes.
LEMMA CaptureSound ==
  ASSUME IInv, NEW p \in Path, NEW x \in FileName, Capture(p, x)
  PROVE  IInv'
<1> DEFINE s == Begin({})
           e == NewsExcuse(NoNews)
           N == Prefixes(p) \ Dirs(camera)
           g == Grown(s, N)
           B == g.camera[p] \union {x}
           t == CameraWritten(g, p, B)
           c == Excusing(e, N)
           d == Excuse(c.files, c.dirs, {<<p, x>>})
           nw == [path |-> p, file |-> x]
<1>1. /\ Ready /\ news' = nw /\ cache' = cache /\ answer' = answer
      /\ camera' = InFolder(With(camera, N), p, With(camera, N)[p] \union {x})
  BY DEF Capture, InFolder
<1>2. /\ Fine(s, e) /\ s.bad = {} /\ s.camera = camera /\ s.cache = cache
  BY <1>1, ReadyFine
<1>3. s.stale = FALSE
  BY DEF Begin
<1>4. N \subseteq Path /\ IsFiniteSet(N)
  BY PrefixesFinite, FS_Subset
<1>5. /\ Fine(g, c) /\ g.cache = cache /\ g.stale = FALSE /\ g.bad = {}
      /\ g.camera = With(camera, N)
  <2> HIDE DEF s, e, N
  <2> QED BY <1>2, <1>3, <1>4, GrownFine
<1>6. c.loose = {} /\ c.dirs = N /\ c.files = Reliable
  BY NoNewsExcuse DEF Excusing
<1>7. d.files = c.files /\ d.dirs = c.dirs /\ d.loose = {<<p, x>>}
  BY DEF Excuse
<1>8. IsCamera(camera)
  BY <1>2, ProgressFacts DEF Fine, Heap
<1>9. /\ IsCamera(g.camera) /\ Dirs(g.camera) = Dirs(camera) \union N
  <2>1. IsCamera(With(camera, N)) /\ Dirs(With(camera, N)) = Dirs(camera) \union N
    <3> HIDE DEF N
    <3> QED BY <1>4, <1>8, WithFacts
  <2> HIDE DEF g
  <2> QED BY <1>5, <2>1
<1>10. p \in Prefixes(p) /\ Prefixes(p) \subseteq Dirs(camera) \union N
  BY PathsAreSequences, PrefixesFacts
<1> HIDE DEF s, e, N, g, c
<1>11. p \in Dirs(g.camera) /\ \A q \in Prefixes(p) : q \in Dirs(g.camera)
  BY <1>9, <1>10
<1>12. FileSet(B) /\ ButFor(x, B, g.camera[p]) /\ x \in B
  <2>1. g.camera[p] \subseteq FileName /\ IsFiniteSet(g.camera[p])
    BY <1>9, <1>11 DEF IsCamera
  <2>2. IsFiniteSet(B)
    BY <2>1, FS_AddElement
  <2> QED BY <2>1, <2>2 DEF FileSet, ButFor
<1>13. camera' = InFolder(g.camera, p, B)
  BY <1>1, <1>5
<1> HIDE DEF B
<1>14. Touched(g, t, p, B, d)
  BY <1>5, <1>6, <1>11, <1>12, TouchedFine, Zenon
<1> HIDE DEF t, d
<1>15. /\ Fine(t, d) /\ t.camera = camera' /\ t.cache = cache /\ t.bad = {}
       /\ t.stale = FALSE /\ Files(t.camera, p) = B
  BY <1>5, <1>13, <1>14 DEF Touched
<1>16. Dirs(t.camera) = Dirs(g.camera)
  BY <1>13, <1>15 DEF InFolder, Dirs
<1>17. nw.path = p /\ nw.file = x /\ nw # NoNews
  BY NewsAssumption
<1> HIDE DEF nw
<1>18. /\ NewsExcuse(nw).files = Reliable /\ NewsExcuse(nw).dirs = Prefixes(p)
       /\ NewsExcuse(nw).loose = {<<p, x>>}
  BY <1>17 DEF NewsExcuse, Excuse, NewsDirs, NewsFiles
<1>19. Fine(t, NewsExcuse(nw))
  <2>1. Complete(t, Prefixes(p))
    <3>1. Complete(t, N) /\ N \subseteq Prefixes(p)
      BY <1>6, <1>7, <1>15 DEF Fine, N
    <3> QED BY <3>1 DEF Complete
  <2>2. Reliable => \A n \in Cells(t.cache) :
          ~ t.cache[n].files_dirty =>
            FileFits(t.camera, t.cache[n].path, t.cache[n].files, NewsExcuse(nw))
    BY <1>6, <1>7, <1>15, <1>18 DEF Fine, FileFits
  <2> QED BY <1>6, <1>7, <1>15, <1>18, <2>1, <2>2, ExcusedNoMore
<1>20. NewsIsThere(t.camera, nw)
  BY <1>11, <1>12, <1>15, <1>16, <1>17 DEF NewsIsThere
<1>21. (t.stale <=> answer' = Undefined) /\ (Steady => SteadyBad(t.bad))
  BY <1>1, <1>15, NoFailureIsSteady DEF Ready
<1>22. Sound(t.camera, t.cache, nw, answer')
  BY <1>19, <1>20, <1>21, EndSound
<1> QED BY <1>1, <1>15, <1>22 DEF IInv

\* Every operation leaves a sound cache.
LEMMA NextSound ==
  ASSUME IInv, [Next]_vars
  PROVE  IInv'
<1>1. CASE UNCHANGED vars
  BY <1>1 DEF vars, IInv
<1>2. ASSUME NEW bad \in MayFail, NEW p \in Path,
             \/ List(p, bad) \/ ListSub(p, bad) \/ Count(p, bad)
             \/ \E has \in HasDeleteAll, left \in SUBSET Files(camera, p) :
                  DeleteAll(p, bad, has, left)
             \/ \E nm \in Name : MakeDir(p, nm, bad) \/ RemoveDir(p, nm, bad)
      PROVE  IInv'
  BY <1>2, ListSound, ListSubSound, CountSound, DeleteAllSound, MakeDirSound, RemoveDirSound
<1>3. ASSUME NEW bad \in MayFail, NEW p \in Path, NEW x \in FileName,
             \/ Delete(p, x, bad) \/ Put(p, x, bad) \/ Number(p, x, bad)
             \/ Removed(p, x, bad) \/ Capture(p, x)
      PROVE  IInv'
  BY <1>3, DeleteSound, PutSound, NumberSound, RemovedSound, CaptureSound
<1>4. ASSUME NEW bad \in MayFail,
             (\E x \in FileName : GetFolder(x, bad)) \/ Appended(bad) \/ Reset
      PROVE  IInv'
  BY <1>4, GetFolderSound, AppendedSound, ResetSound
<1> QED BY <1>1, <1>2, <1>3, <1>4 DEF Next

\* gp_filesystem_new makes a sound cache, and every operation leaves one, whichever
\* of the driver calls fail.
THEOREM CacheStaysSound == Spec => []IInv
<1>1. Init => IInv
  BY InitSound
<1>2. IInv /\ [Next]_vars => IInv'
  BY NextSound
<1> QED BY <1>1, <1>2, PTL DEF Spec

\* What the inductive invariant says of the tree.
LEMMA SoundFacts ==
  ASSUME IInv
  PROVE  /\ IsCamera(camera) /\ IsTree(cache)
         /\ \A n \in Cells(cache) : cache[n].path \in Dirs(camera)
         /\ news = NoNews \/ (news.path \in Path /\ news.file \in FileName)
<1> DEFINE u == At(camera, cache, {})
<1>1. u.camera = camera /\ u.cache = cache
  BY DEF At
<1>2. Heap(u)
  BY DEF IInv, Sound
<1> HIDE DEF u
<1>3. IsCamera(u.camera) /\ IsTree(u.cache)
      /\ \A n \in Cells(u.cache) : u.cache[n].path \in Dirs(u.camera)
  BY <1>2, ProgressFacts DEF Heap
<1> QED BY <1>1, <1>3 DEF IInv, Sound, NewsIsThere

\* The folder cells are a tree with one folder of each path, through every listing,
\* gp_filesystem_append, gp_filesystem_make_dir and gp_filesystem_reset, whichever
\* driver calls fail: no cell is left without an owner, and none is there twice.
THEOREM TreeStaysSound == Spec => []TreeIsSound
<1>1. IInv => TreeIsSound
  BY SoundFacts DEF TreeIsSound, TypeOK, IsTree
<1> QED BY <1>1, CacheStaysSound, PTL

\* While failures are steady, no operation goes on in a folder that it has freed
\* (lookup_folder keeps its pointer while it lists the folder's parent).
THEOREM NothingGoesStale ==
  ASSUME Steady
  PROVE  Spec => []NothingStale
<1>1. IInv => NothingStale
  BY DEF IInv, Sound, NothingStale
<1> QED BY <1>1, CacheStaysSound, PTL

\* A cell for the path of a subfolder hangs in the folder, under its name.
KidCalled(c, n, k, nm) == k # Root /\ c[k].parent = n /\ Last(c[k].path) = nm

\* A folder has a child for the path of a subfolder.
LEMMA HasKid ==
  ASSUME NEW c, IsTree(c), NEW n \in Cells(c), NEW nm \in Name,
         Has(c, Append(c[n].path, nm))
  PROVE  \E k \in Cells(c) : KidCalled(c, n, k, nm)
<1>1. PICK k \in Cells(c) : c[k].path = Append(c[n].path, nm)
  BY DEF Has
<1>2. c[k].parent = n
  BY <1>1, KidFacts
<1>3. Last(c[k].path) = nm
  <2>1. c[n].path \in Seq(Name)
    BY CellFacts
  <2> QED BY <1>1, <2>1, AppendPath
<1>4. k # Root
  <2>1. n # NULL /\ c[Root].parent = NULL
    BY CellFacts DEF IsTree
  <2> QED BY <1>2, <2>1
<1> QED BY <1>2, <1>3, <1>4 DEF KidCalled

\* A sound cache has the subfolders of a clean folder right.
LEMMA TrueFolders ==
  ASSUME IInv, answer # Undefined
  PROVE  CleanFoldersAreTrue
<1> SUFFICES ASSUME news = NoNews, NEW n \in Cells(cache)
             PROVE  LET K == {Last(cache[k].path) :
                                k \in {k \in Cells(cache) : cache[k].parent = n}}
                        real == SubDirs(camera, cache[n].path)
                    IN K \subseteq real /\ (~cache[n].folders_dirty => K = real)
  BY DEF CleanFoldersAreTrue
<1> DEFINE K == {Last(cache[k].path) : k \in {k \in Cells(cache) : cache[k].parent = n}}
           real == SubDirs(camera, cache[n].path)
           u == At(camera, cache, {})
<1>1. IsTree(cache) /\ \A m \in Cells(cache) : cache[m].path \in Dirs(camera)
  BY SoundFacts
<1>2. u.camera = camera /\ u.cache = cache /\ ~ u.stale
  BY DEF At
<1>3. Complete(u, NewsExcuse(NoNews).dirs)
  BY <1>2 DEF IInv, Sound, Fine
<1> HIDE DEF u, K, real
<1>4. \A nm \in Name :
        LET q == Append(cache[n].path, nm)
        IN ~ cache[n].folders_dirty /\ q \in Dirs(camera) => Has(cache, q)
  BY <1>2, <1>3, NoNewsExcuse DEF Complete
<1>5. ASSUME NEW k \in Cells(cache), cache[k].parent = n
      PROVE  Last(cache[k].path) \in real
  <2>1. n # NULL /\ cache[Root].parent = NULL
    BY <1>1, CellFacts DEF IsTree
  <2>2. k # Root
    BY <1>5, <2>1
  <2>3. Last(cache[k].path) \in Name /\ cache[k].path = Append(cache[n].path, Last(cache[k].path))
    BY <1>1, <1>5, <2>2, ParentFacts
  <2>4. cache[k].path \in Dirs(camera)
    BY <1>1
  <2> QED BY <2>3, <2>4 DEF SubDirs, real
<1>6. ASSUME ~ cache[n].folders_dirty, NEW nm \in real
      PROVE  nm \in K
  <2>1. nm \in Name /\ Append(cache[n].path, nm) \in Dirs(camera)
    BY <1>6 DEF SubDirs, real
  <2>2. PICK k \in Cells(cache) : KidCalled(cache, n, k, nm)
    BY <1>1, <1>4, <1>6, <2>1, HasKid, Zenon
  <2> QED BY <2>2 DEF K, KidCalled
<1>7. K \subseteq real
  BY <1>5 DEF K
<1>8. ~ cache[n].folders_dirty => real \subseteq K
  BY <1>6
<1> QED BY <1>7, <1>8 DEF K, real

\* A folder that is marked clean has the subfolders that the camera has, and a dirty
\* one has none that the camera has not - as long as nothing freed is used.
THEOREM FoldersStayTrueUnlessStale ==
  Spec => [](NothingStale => CleanFoldersAreTrue)
<1>1. IInv => (NothingStale => CleanFoldersAreTrue)
  BY TrueFolders DEF NothingStale
<1> QED BY <1>1, CacheStaysSound, PTL

\* While failures are steady, a folder that is marked clean has the subfolders that
\* the camera has, and a dirty one has none that the camera has not.
THEOREM FoldersStayTrue ==
  ASSUME Steady
  PROVE  Spec => []CleanFoldersAreTrue
<1>1. IInv => CleanFoldersAreTrue
  BY TrueFolders DEF IInv, Sound
<1> QED BY <1>1, CacheStaysSound, PTL

\* A reliable driver is a steady one.
LEMMA ReliableIsSteady ==
  ASSUME Reliable
  PROVE  Steady
BY NoFailureIsSteady DEF Reliable, Steady

\* A sound cache has the files of a clean folder right.
LEMMA TrueFiles ==
  ASSUME IInv, Reliable
  PROVE  CleanFilesAreTrue
<1> SUFFICES ASSUME NEW n \in Cells(cache), ~ cache[n].files_dirty
             PROVE  LET f == cache[n].files
                        real == Files(camera, cache[n].path)
                    IN f = real \/ (news.path = cache[n].path /\ f = real \ {news.file})
  BY DEF CleanFilesAreTrue
<1> DEFINE u == At(camera, cache, {})
           f == cache[n].files
           q == cache[n].path
           real == Files(camera, q)
<1>1. u.camera = camera /\ u.cache = cache
  BY DEF At
<1>2. answer # Undefined
  BY ReliableIsSteady DEF IInv, Sound
<1>3. Fine(u, NewsExcuse(news))
  BY <1>2 DEF IInv, Sound
<1> HIDE DEF u
<1>4. FileFits(camera, q, f, NewsExcuse(news))
  BY <1>1, <1>3 DEF Fine, NewsExcuse, Excuse
<1>5. \A x \in FileName : <<q, x>> \in NewsFiles(news) \/ (x \in f <=> x \in real)
  BY <1>4 DEF FileFits, NewsExcuse, Excuse
<1>6. f \subseteq FileName /\ real \subseteq FileName
  <2>1. cache[n] \in Folder /\ IsCamera(camera)
    BY SoundFacts, CellFacts
  <2> QED BY <2>1 DEF Folder, Files, IsCamera
<1>7. CASE \A x \in FileName : x \in f <=> x \in real
  BY <1>6, <1>7
<1>8. CASE \E x \in FileName : ~ (x \in f <=> x \in real)
  <2>1. PICK x \in FileName : ~ (x \in f <=> x \in real)
    BY <1>8
  <2>2. <<q, x>> \in NewsFiles(news)
    BY <1>5, <2>1
  <2>3. news # NoNews /\ news.path = q /\ news.file = x
    BY <2>2 DEF NewsFiles
  <2>4. \A y \in FileName : y # x => (y \in f <=> y \in real)
    BY <1>5, <2>3 DEF NewsFiles
  <2>5. x \in real
    BY <2>3 DEF IInv, Sound, NewsIsThere
  <2>6. f = real \ {x}
    BY <1>6, <2>1, <2>4, <2>5
  <2> QED BY <2>3, <2>6
<1> QED BY <1>7, <1>8

\* When no driver call fails, a folder whose files_dirty is 0 has the files that the
\* camera has, but for a captured one that is still to be appended.
THEOREM FilesStayTrue ==
  ASSUME Reliable
  PROVE  Spec => []CleanFilesAreTrue
<1>1. IInv => CleanFilesAreTrue
  BY TrueFiles
<1> QED BY <1>1, CacheStaysSound, PTL

\* What gp_filesystem_list_files has listed, if no driver call fails.
LEMMA ListedIsTrue ==
  ASSUME NEW s, Fine(s, NewsExcuse(NoNews)), Reliable, NEW p \in Path
  PROVE  LET r == ListFiles(s, p)
         IN r.ok => r.s.cache[r.n].files = Files(r.s.camera, p)
<1> DEFINE r == ListFiles(s, p)
           e == NewsExcuse(NoNews)
<1>1. e.files /\ e.loose = {}
  BY NoNewsExcuse
<1>2. ListsFiles(s, r, p, e)
  BY ListFilesFine
<1> HIDE DEF r, e
<1> SUFFICES ASSUME r.ok
             PROVE  r.s.cache[r.n].files = Files(r.s.camera, p)
  BY DEF r
<1> DEFINE n == r.n
           f == r.s.cache[n].files
           real == Files(r.s.camera, p)
<1>3. /\ Fine(r.s, e) /\ n \in Cells(r.s.cache) /\ r.s.cache[n].path = p
      /\ ~ r.s.cache[n].files_dirty
  BY <1>2 DEF ListsFiles, Yields
<1>4. FileFits(r.s.camera, p, f, e)
  BY <1>1, <1>3 DEF Fine
<1>5. \A x \in FileName : x \in f <=> x \in real
  BY <1>1, <1>4 DEF FileFits
<1>6. f \subseteq FileName /\ real \subseteq FileName
  BY <1>3, HereFacts DEF FileSet
<1> QED BY <1>5, <1>6

\* An operation that answers other than with a list of files, or does not answer.
LEMMA NotListed ==
  /\ Done.of # "files" /\ Failed.of # "files" /\ Undefined.of # "files"
  /\ \A p, S : Listed("folders", p, S).of # "files"
  /\ \A p, n : Counted(p, n).of # "files"
  /\ \A p, x, f : Sought(p, x, f).of # "files"
  /\ \A x, f : Found(x, f).of # "files"
BY DEF Done, Failed, Undefined, Listed, Counted, Sought, Found

\* gp_filesystem_list_files answers with what the camera has.
LEMMA ListTells ==
  ASSUME IInv, Reliable, NEW p \in Path, NEW bad \in MayFail, List(p, bad),
         answer'.of = "files"
  PROVE  answer'.names = Files(camera', answer'.path)
<1> DEFINE s == Begin(bad)
           r == ListFiles(s, p)
           f == r.s.cache[r.n].files
<1>1. Ready /\ Return(r, IF r.ok THEN Listed("files", p, f) ELSE Failed)
  BY DEF List, Operate
<1>2. Fine(s, NewsExcuse(NoNews))
  BY <1>1, ReadyFine
<1>3. r.ok => f = Files(r.s.camera, p)
  <2> HIDE DEF s
  <2> QED BY <1>2, ListedIsTrue
<1> HIDE DEF s, r, f
<1>4. /\ camera' = r.s.camera
      /\ answer' = IF r.s.stale THEN Undefined
                   ELSE IF r.ok THEN Listed("files", p, f) ELSE Failed
  BY <1>1 DEF Return
<1>5. r.ok /\ answer' = Listed("files", p, f)
  BY <1>4, NotListed
<1>6. answer'.names = f /\ answer'.path = p
  BY <1>5 DEF Listed
<1> QED BY <1>3, <1>4, <1>5, <1>6

\* Only gp_filesystem_list_files answers with a list of files.
LEMMA OnlyListTells ==
  ASSUME Next, answer' # answer, answer'.of = "files"
  PROVE  \E p \in Path, bad \in MayFail : List(p, bad)
<1>1. ASSUME NEW r, Return(r, Done) \/ Return(r, Failed) \/ Return(r, answer)
      PROVE  FALSE
  BY <1>1, NotListed DEF Return
<1>2. ASSUME NEW r, NEW p, NEW S, NEW n, NEW x, NEW f,
             \/ Return(r, Listed("folders", p, S)) \/ Return(r, Counted(p, n))
             \/ Return(r, Sought(p, x, f)) \/ Return(r, Found(x, f))
      PROVE  FALSE
  BY <1>2, NotListed DEF Return
<1>3. ASSUME NEW bad \in MayFail, NEW p \in Path
      PROVE  /\ ~ ListSub(p, bad) /\ ~ Count(p, bad)
             /\ \A has, left : ~ DeleteAll(p, bad, has, left)
             /\ \A nm : ~ MakeDir(p, nm, bad) /\ ~ RemoveDir(p, nm, bad)
             /\ \A x : /\ ~ Delete(p, x, bad) /\ ~ Put(p, x, bad) /\ ~ Number(p, x, bad)
                       /\ ~ Removed(p, x, bad) /\ ~ Capture(p, x)
  <2>1. ~ ListSub(p, bad)
    BY <1>1, <1>2 DEF ListSub, Operate
  <2>2. ~ Count(p, bad)
    BY <1>1, <1>2 DEF Count, Operate
  <2>3. \A has, left : ~ DeleteAll(p, bad, has, left)
    BY <1>1 DEF DeleteAll, Operate, OnlyDone
  <2>4. \A nm : ~ MakeDir(p, nm, bad)
    BY <1>1 DEF MakeDir, Operate, OnlyDone
  <2>5. \A nm : ~ RemoveDir(p, nm, bad)
    BY <1>1 DEF RemoveDir, Operate, OnlyDone
  <2>6. \A x : ~ Delete(p, x, bad)
    BY <1>1 DEF Delete, Operate, OnlyDone
  <2>7. \A x : ~ Put(p, x, bad)
    BY <1>1 DEF Put, Operate, OnlyDone
  <2>8. \A x : ~ Number(p, x, bad)
    BY <1>1, <1>2 DEF Number, Operate
  <2>9. \A x : ~ Removed(p, x, bad)
    BY <1>1 DEF Removed, Operate, OnlyDone
  <2>10. \A x : ~ Capture(p, x)
    BY DEF Capture
  <2> QED BY <2>1, <2>2, <2>3, <2>4, <2>5, <2>6, <2>7, <2>8, <2>9, <2>10
<1>4. ASSUME NEW bad \in MayFail
      PROVE  (\A x : ~ GetFolder(x, bad)) /\ ~ Appended(bad) /\ ~ Reset
  <2>1. \A x : ~ GetFolder(x, bad)
    BY <1>1, <1>2 DEF GetFolder, Operate
  <2>2. ~ Appended(bad)
    BY <1>1 DEF Appended
  <2>3. ~ Reset
    BY <1>1 DEF Reset, Operate, OnlyDone
  <2> QED BY <2>1, <2>2, <2>3
<1> QED BY <1>3, <1>4 DEF Next

\* When no driver call fails, what gp_filesystem_list_files answers is what the
\* camera has then - cached or not.
THEOREM ListingsAreTrue ==
  ASSUME Reliable
  PROVE  Spec => ListingIsTrue
<1>1. IInv /\ [Next]_vars =>
        [answer' # answer /\ answer'.of = "files"
           => answer'.names = Files(camera', answer'.path)]_vars
  BY ListTells, OnlyListTells DEF vars
<1> QED BY <1>1, CacheStaysSound, PTL DEF Spec, ListingIsTrue

-----------------------------------------------------------------------------
(***************************************************************************)
(* The refinement: without failures, on a camera whose folders have their  *)
(* parents, every operation does and answers what the directory does.      *)
(***************************************************************************)

\* The camera has the parent of each of its folders.
Closed(cam) == \A q \in Seq(Name), nm \in Name : Append(q, nm) \in Dirs(cam) => q \in Dirs(cam)

\* The cells, dirty ones too, have files that the camera has, or that are in L.
Real(s, L) ==
  \A n \in Cells(s.cache) : \A x \in s.cache[n].files :
    x \in Files(s.camera, s.cache[n].path) \/ <<s.cache[n].path, x>> \in L

\* Nothing is excused.
Plain == Excuse(TRUE, {}, {})

\* The cache knows nothing that the camera has not, and what is clean is complete.
Faithful(s) == Fine(s, Plain) /\ Real(s, {}) /\ Closed(s.camera)

\* The beginnings of the path of a folder of the camera are folders of the camera.
LEMMA ClosedFacts ==
  ASSUME NEW cam, Closed(cam), NEW p \in Seq(Name), p \in Dirs(cam)
  PROVE  \A i \in 0 .. Len(p) : SubSeq(p, 1, i) \in Dirs(cam)
<1> DEFINE T == {k \in 0 .. Len(p) : SubSeq(p, 1, Len(p) - k) \notin Dirs(cam)}
<1>1. Len(p) \in Nat /\ SubSeq(p, 1, Len(p)) = p
  BY WholePath
<1>2. ASSUME NEW k \in T, \A j \in T : k <= j
      PROVE  FALSE
  <2>0. k # 0
    <3>1. k \in 0 .. Len(p) /\ SubSeq(p, 1, Len(p) - k) \notin Dirs(cam)
      BY <1>2
    <3>2. Len(p) - 0 = Len(p)
      BY <1>1
    <3> QED BY <1>1, <3>1, <3>2
  <2>1. k # 0 /\ k \in 1 .. Len(p)
    BY <1>1, <1>2, <2>0
  <2>2. k - 1 \notin T
    BY <1>2, <2>1
  <2>3. SubSeq(p, 1, Len(p) - (k - 1)) \in Dirs(cam)
    BY <1>1, <2>1, <2>2
  <2> DEFINE i == Len(p) - (k - 1)
  <2>4. i \in 0 .. Len(p) /\ i # 0 /\ i - 1 = Len(p) - k
    BY <1>1, <2>1
  <2>5. p[i] \in Name /\ SubSeq(p, 1, i) = Append(SubSeq(p, 1, i - 1), p[i])
        /\ i - 1 \in 0 .. Len(p)
    BY <1>1, <2>4, PathPrefix
  <2>6. SubSeq(p, 1, i - 1) \in Seq(Name)
    BY <2>5, PathPrefix
  <2>7. SubSeq(p, 1, i - 1) \in Dirs(cam)
    <3>1. Append(SubSeq(p, 1, i - 1), p[i]) \in Dirs(cam) /\ p[i] \in Name
      BY <2>3, <2>5
    <3> HIDE DEF i
    <3> QED BY <2>6, <3>1 DEF Closed
  <2> QED BY <1>2, <2>4, <2>7
<1>3. T = {}
  <2> HIDE DEF T
  <2>1. T \subseteq Nat
    BY <1>1 DEF T
  <2> QED BY <1>2, <2>1, LeastNat
<1>4. ASSUME NEW i \in 0 .. Len(p)
      PROVE  SubSeq(p, 1, i) \in Dirs(cam)
  <2>1. Len(p) - i \in 0 .. Len(p) /\ Len(p) - (Len(p) - i) = i
    BY <1>1
  <2>2. Len(p) - i \notin T
    BY <1>3
  <2> QED BY <2>1, <2>2
<1> QED BY <1>4

\* What is below a folder of the camera is in one of its subfolders.
LEMMA ClosedStep ==
  ASSUME NEW cam, Closed(cam), NEW p \in Seq(Name), NEW q \in Seq(Name), Deeper(p, q),
         q \in Dirs(cam)
  PROVE  \E nm \in SubDirs(cam, p) : q = Append(p, nm) \/ Deeper(Append(p, nm), q)
<1>1. PICK nm \in Name : q = Append(p, nm) \/ Deeper(Append(p, nm), q)
  BY DeeperStep
<1> DEFINE r == Append(p, nm)
<1>2. r \in Seq(Name) /\ Len(r) \in Nat /\ Len(q) \in Nat /\ Len(p) \in Nat
  BY AppendPath, LenProperties
<1> HIDE DEF r
<1>3. CASE Deeper(r, q)
  <2>1. Len(r) \in 0 .. Len(q)
    BY <1>2, <1>3 DEF Deeper
  <2>2. /\ SubSeq(q, 1, Len(r)) \in Seq(Name) /\ Len(SubSeq(q, 1, Len(r))) = Len(r)
        /\ \A k \in 1 .. Len(r) : SubSeq(q, 1, Len(r))[k] = q[k]
    BY <2>1, PathPrefix
  <2>3. SubSeq(q, 1, Len(r)) = r
    BY <1>2, <1>3, <2>2, SamePath DEF Deeper
  <2>4. r \in Dirs(cam)
    BY <2>1, <2>3, ClosedFacts
  <2> QED BY <1>3, <2>4 DEF SubDirs, r
<1>4. CASE q = r
  BY <1>4 DEF SubDirs, r
<1> QED BY <1>1, <1>3, <1>4 DEF r

\* What is not excused and not below a dirty folder is in the cache.
LEMMA CompleteFinds ==
  ASSUME NEW s, Heap(s), NEW X, Complete(s, X), NEW p \in Seq(Name),
         \A n \in Cells(s.cache) : Deeper(s.cache[n].path, p) => ~ s.cache[n].folders_dirty,
         \A i \in 0 .. Len(p) : SubSeq(p, 1, i) \in Dirs(s.camera),
         NEW j \in 0 .. Len(p), \A i \in 1 .. j : SubSeq(p, 1, i) \notin X
  PROVE  Has(s.cache, SubSeq(p, 1, j))
<1> DEFINE T == {k \in 0 .. j : ~ Has(s.cache, SubSeq(p, 1, k))}
<1>1. Len(p) \in Nat /\ SubSeq(p, 1, 0) = << >> /\ j \in Nat /\ j <= Len(p)
  BY WholePath
<1>2. Has(s.cache, << >>)
  BY CellFacts DEF Has, Heap, IsTree
<1>3. ASSUME NEW k \in T, \A i \in T : k <= i
      PROVE  FALSE
  <2>0. k \in 0 .. j /\ ~ Has(s.cache, SubSeq(p, 1, k))
    BY <1>3
  <2>1. k # 0 /\ k \in 1 .. j /\ k - 1 \in 0 .. j
    <3>1. k # 0
      BY <1>1, <1>2, <2>0
    <3> QED BY <1>1, <2>0, <3>1
  <2>2. k - 1 \notin T
    BY <1>3, <2>1
  <2>3. Has(s.cache, SubSeq(p, 1, k - 1))
    BY <2>1, <2>2
  <2>4. PICK n \in Cells(s.cache) : s.cache[n].path = SubSeq(p, 1, k - 1)
    BY <2>3 DEF Has
  <2>5. /\ p[k] \in Name /\ SubSeq(p, 1, k) = Append(SubSeq(p, 1, k - 1), p[k])
        /\ Deeper(SubSeq(p, 1, k - 1), p)
    BY <1>1, <2>1, PathPrefix
  <2>6. ~ s.cache[n].folders_dirty
    BY <2>4, <2>5
  <2>7. SubSeq(p, 1, k) \in Dirs(s.camera) /\ SubSeq(p, 1, k) \notin X
    BY <1>1, <2>1
  <2>8. Has(s.cache, SubSeq(p, 1, k))
    BY <2>4, <2>5, <2>6, <2>7 DEF Complete
  <2> QED BY <1>3, <2>8
<1>4. T = {}
  <2> HIDE DEF T
  <2>1. T \subseteq Nat
    BY <1>1 DEF T
  <2> QED BY <1>3, <2>1, LeastNat
<1>5. j \notin T /\ j \in 0 .. j
  BY <1>1, <1>4
<1> QED BY <1>5

\* What is known of the cache and the camera between two calls.
LEMMA FaithfulFacts ==
  ASSUME NEW s, Faithful(s)
  PROVE  /\ Heap(s) /\ s.bad = {} /\ SteadyBad(s.bad) /\ ~ s.stale /\ Complete(s, {})
         /\ IsTree(s.cache) /\ IsCamera(s.camera)
         /\ \A n \in Cells(s.cache) :
              /\ s.cache[n].path \in Path /\ s.cache[n].path \in Dirs(s.camera)
              /\ s.cache[n].files \subseteq Files(s.camera, s.cache[n].path)
              /\ ~ s.cache[n].files_dirty =>
                   s.cache[n].files = Files(s.camera, s.cache[n].path)
<1>1. /\ Fine(s, Plain) /\ Heap(s) /\ IsTree(s.cache) /\ IsCamera(s.camera)
      /\ Plain.files /\ Plain.dirs = {} /\ Plain.loose = {}
  BY ProgressFacts DEF Faithful, Fine, Heap, Plain, Excuse
<1>2. s.bad = {} /\ SteadyBad(s.bad) /\ ~ s.stale /\ Complete(s, {})
  <2>1. s.bad = {}
    BY <1>1 DEF Fine
  <2>2. SteadyBad(s.bad)
    BY <2>1, NoFailureIsSteady
  <2> QED BY <1>1, <2>1, <2>2 DEF Fine
<1>3. ASSUME NEW n \in Cells(s.cache)
      PROVE  /\ s.cache[n].path \in Path /\ s.cache[n].path \in Dirs(s.camera)
             /\ s.cache[n].files \subseteq Files(s.camera, s.cache[n].path)
             /\ ~ s.cache[n].files_dirty =>
                  s.cache[n].files = Files(s.camera, s.cache[n].path)
  <2> DEFINE A == s.cache[n].files
             B == Files(s.camera, s.cache[n].path)
  <2>1. s.cache[n].path \in Path /\ s.cache[n].path \in Dirs(s.camera) /\ s.cache[n] \in Folder
    BY <1>1, CellFacts DEF Heap
  <2>2. A \subseteq B
    BY DEF Faithful, Real
  <2>3. B \subseteq FileName
    BY <1>1, <2>1 DEF Files, IsCamera
  <2>4. ASSUME ~ s.cache[n].files_dirty
        PROVE  B \subseteq A
    <3>1. FileFits(s.camera, s.cache[n].path, A, Plain)
      BY <1>1, <2>4 DEF Fine
    <3> QED BY <1>1, <2>3, <3>1 DEF FileFits
  <2> QED BY <2>1, <2>2, <2>4
<1> QED BY <1>1, <1>2, <1>3

\* Cells that a lookup keeps or makes have no file of their own.
LEMMA RealLooked ==
  ASSUME NEW s, Heap(s), NEW L, Real(s, L), NEW t, NEW i, Looked(s, t, i)
  PROVE  Real(t, L)
<1>1. Heap(t) /\ t.camera = s.camera
  BY LookedRecord
<1>2. ASSUME NEW n \in Cells(t.cache), NEW x \in t.cache[n].files
      PROVE  x \in Files(t.camera, t.cache[n].path) \/ <<t.cache[n].path, x>> \in L
  <2>1. n \in Cells(s.cache)
    BY <1>2 DEF Looked, Moved
  <2>2. n \notin t.freed
    BY <1>1, <1>2 DEF Heap
  <2>3. Kept(s.cache[n], t.cache[n])
    BY <2>1, <2>2 DEF Looked, Moved
  <2> QED BY <1>1, <1>2, <2>1, <2>3 DEF Kept, Real
<1> QED BY <1>2 DEF Real

\* A folder that is written to gets files that the camera has then.
LEMMA RealWritten ==
  ASSUME NEW s, Heap(s), NEW L, Real(s, L), NEW n \in Cells(s.cache),
         NEW u, Cells(u.cache) = Cells(s.cache), u.cache[n].path = s.cache[n].path,
         \A m \in Cells(s.cache) : m # n => u.cache[m] = s.cache[m],
         \A q : q # s.cache[n].path => Files(u.camera, q) = Files(s.camera, q),
         \A x \in u.cache[n].files :
           x \in Files(u.camera, s.cache[n].path) \/ <<s.cache[n].path, x>> \in L
  PROVE  Real(u, L)
<1>1. ASSUME NEW m \in Cells(u.cache), NEW x \in u.cache[m].files
      PROVE  x \in Files(u.camera, u.cache[m].path) \/ <<u.cache[m].path, x>> \in L
  <2>1. CASE m = n
    BY <1>1, <2>1
  <2>2. CASE m # n
    <3>1. u.cache[m] = s.cache[m] /\ m \in Cells(s.cache)
      BY <1>1, <2>2
    <3>2. s.cache[m].path # s.cache[n].path
      BY <2>2, <3>1 DEF Heap, IsTree
    <3> QED BY <1>1, <3>1, <3>2 DEF Real
  <2> QED BY <2>1, <2>2
<1> QED BY <1>1 DEF Real

\* What is clean stays clean.
StillClean(s, t) ==
  \A n \in Cells(s.cache) \intersect Cells(t.cache) :
    ~ s.cache[n].files_dirty => ~ t.cache[n].files_dirty

\* The camera is as before, and what the cache says is still true.
Reads(s, t) ==
  Faithful(t) /\ t.camera = s.camera /\ Onward(s, t) /\ StillClean(s, t)

\* The folder of the path p is found, if there is one.
Finds(s, r, p) ==
  /\ Reads(s, r.s) /\ Clear(r.s, p) /\ r.ok \in BOOLEAN /\ (r.ok <=> p \in Dirs(s.camera))
  /\ r.ok => r.n \in Cells(r.s.cache) /\ r.s.cache[r.n].path = p

\* Two such steps, together.
LEMMA ReadsOn ==
  ASSUME NEW s, NEW t, NEW u, Reads(s, t), Reads(t, u)
  PROVE  Reads(s, u)
<1>1. Onward(s, u) /\ Faithful(u) /\ u.camera = s.camera
  BY OnwardOn DEF Reads
<1>2. Heap(u)
  BY <1>1, FaithfulFacts
<1>3. ASSUME NEW n \in Cells(s.cache) \intersect Cells(u.cache), ~ s.cache[n].files_dirty
      PROVE  ~ u.cache[n].files_dirty
  <2>1. n \in Cells(t.cache)
    BY <1>2, <1>3, NeverReused DEF Reads
  <2> QED BY <1>3, <2>1 DEF Reads, StillClean
<1> QED BY <1>1, <1>3 DEF Reads, StillClean

\* Nothing done is reading.
LEMMA ReadsSelf ==
  ASSUME NEW s, Faithful(s)
  PROVE  Reads(s, s)
BY OnwardSelf DEF Reads, StillClean

\* What is found after such a step is found by both together.
LEMMA FindsOn ==
  ASSUME NEW s, NEW t, NEW r, NEW p, Reads(s, t), Finds(t, r, p)
  PROVE  Finds(s, r, p)
<1>1. Reads(s, r.s) /\ t.camera = s.camera
  BY ReadsOn DEF Finds, Reads
<1> QED BY <1>1 DEF Finds

\* A folder that the camera has is in the cache when no folder above it is dirty.
LEMMA ClearIsThere ==
  ASSUME NEW s, Faithful(s), NEW p \in Path, Clear(s, p)
  PROVE  Has(s.cache, p) <=> p \in Dirs(s.camera)
<1>1. /\ Heap(s) /\ s.bad = {} /\ Complete(s, {})
      /\ \A n \in Cells(s.cache) : s.cache[n].path \in Dirs(s.camera)
  BY FaithfulFacts
<1>2. \A n \in Cells(s.cache) : Deeper(s.cache[n].path, p) => ~ s.cache[n].folders_dirty
  BY <1>1 DEF Clear, Gone, CallFails
<1>3. ASSUME p \in Dirs(s.camera)
      PROVE  Has(s.cache, p)
  <2>1. p \in Seq(Name) /\ Len(p) \in Nat /\ SubSeq(p, 1, Len(p)) = p /\ Len(p) \in 0 .. Len(p)
    BY PathsAreSequences, WholePath
  <2>2. \A i \in 0 .. Len(p) : SubSeq(p, 1, i) \in Dirs(s.camera)
    BY <1>3, <2>1, ClosedFacts DEF Faithful
  <2>3. \A i \in 1 .. Len(p) : SubSeq(p, 1, i) \notin {}
    OBVIOUS
  <2>4. Has(s.cache, SubSeq(p, 1, Len(p)))
    BY <1>1, <1>2, <2>1, <2>2, <2>3, CompleteFinds
  <2> QED BY <2>1, <2>4
<1>4. ASSUME Has(s.cache, p)
      PROVE  p \in Dirs(s.camera)
  BY <1>1, <1>4 DEF Has
<1> QED BY <1>3, <1>4

\* A lookup reads.
LEMMA LookedReads ==
  ASSUME NEW s, Faithful(s), NEW t, NEW i, Looked(s, t, i), Fine(t, Plain), Onward(s, t)
  PROVE  Reads(s, t)
<1>1. Heap(s)
  BY FaithfulFacts
<1>2. Heap(t) /\ t.camera = s.camera
  BY <1>1, LookedRecord
<1>3. Real(t, {})
  BY <1>1, RealLooked DEF Faithful
<1>4. ASSUME NEW n \in Cells(s.cache) \intersect Cells(t.cache)
      PROVE  t.cache[n].files_dirty = s.cache[n].files_dirty
  <2>1. n \notin t.freed
    BY <1>2, <1>4 DEF Heap
  <2> QED BY <1>4, <2>1 DEF Looked, Moved, Kept
<1> QED BY <1>2, <1>3, <1>4 DEF Reads, StillClean, Faithful

\* lookup_folder finds the folders that the camera has.
LEMMA LookupFinds ==
  ASSUME NEW s, Faithful(s), NEW p \in Path
  PROVE  Finds(s, Lookup(s, p), p) /\ Looked(s, Lookup(s, p).s, Len(p))
<1> DEFINE l == Lookup(s, p)
<1>1. Fine(s, Plain) /\ SteadyBad(s.bad)
  BY FaithfulFacts DEF Faithful
<1>2. /\ Yields(s, l, p, Plain) /\ Looked(s, l.s, Len(p))
      /\ l.ok <=> Has(l.s.cache, p)
  BY <1>1, LookupFine
<1> HIDE DEF l
<1>3. Reads(s, l.s)
  BY <1>2, LookedReads DEF Yields
<1>4. Clear(l.s, p)
  BY <1>1, <1>2 DEF Yields
<1>5. l.ok <=> p \in Dirs(s.camera)
  BY <1>2, <1>3, <1>4, ClearIsThere DEF Reads
<1>6. Finds(s, l, p)
  BY <1>2, <1>3, <1>4, <1>5 DEF Finds, Yields
<1> QED BY <1>2, <1>6 DEF l

\* gp_filesystem_list_folders, too, and leaves the folder clean.
LEMMA ListFoldersFinds ==
  ASSUME NEW s, Faithful(s), NEW p \in Path
  PROVE  LET r == ListFolders(s, p)
         IN Finds(s, r, p) /\ (r.ok => ~ r.s.cache[r.n].folders_dirty)
<1> DEFINE l == Lookup(s, p)
           r == ListFolders(s, p)
           c == Called(l.s)
           look == LookupOf(s, p)
<1>1. Fine(s, Plain) /\ SteadyBad(s.bad) /\ Heap(s) /\ s.bad = {} /\ ~ s.stale
  BY FaithfulFacts DEF Faithful
<1>2. Yields(s, r, p, Plain) /\ Looked(s, r.s, Len(p) + 1)
  BY <1>1, LookupFine
<1>3. Finds(s, l, p)
  BY LookupFinds
<1>4. r = IF ~ l.ok \/ ~ l.s.cache[l.n].folders_dirty THEN l
          ELSE IF CallFails(l.s) \/ p \notin Dirs(l.s.camera) THEN Ret(c, FALSE, l.n)
          ELSE RefillFolders(look, c, l.n, p)
  BY DEF ListFolders, Relist, Lookup
<1>5. AtRest(r.s, p)
  <2>1. s \in Progress /\ s \in Records(s)
    BY <1>1, RecordsAreProgress DEF Heap
  <2>2. Looks(look, s, p) /\ LooksQuietly(look, s, p) /\ LooksFirmly(look, s, p)
    BY <1>1, LookupLooks, LookupLooksQuietly, LookupLooksFirmly
  <2>3. r = Relist(look, s, p)
    BY DEF ListFolders
  <2> HIDE DEF look, r
  <2> QED BY <1>1, <2>1, <2>2, <2>3, RelistFirmly
<1> HIDE DEF l, r
<1>6. Reads(s, r.s) /\ Clear(r.s, p)
  BY <1>1, <1>2, LookedReads DEF Yields
<1>7. r.ok <=> p \in Dirs(s.camera)
  <2>1. CASE ~ l.ok \/ ~ l.s.cache[l.n].folders_dirty
    BY <1>3, <1>4, <2>1 DEF Finds
  <2>2. CASE l.ok /\ l.s.cache[l.n].folders_dirty
    <3>1. p \in Dirs(l.s.camera) /\ p \in Dirs(s.camera) /\ ~ CallFails(l.s)
      <4>1. l.s.camera = s.camera /\ l.s.bad = {}
        BY <1>3, FaithfulFacts DEF Finds, Reads
      <4> QED BY <1>3, <2>2, <4>1 DEF Finds, CallFails
    <3>2. r = RefillFolders(look, c, l.n, p)
      BY <1>4, <2>2, <3>1
    <3> DEFINE e == DeleteAllFolders(look, c)
               f == [AppendFolders(e, l.n, SubDirs(c.camera, p))
                       EXCEPT !.cache[l.n].folders_dirty = FALSE]
    <3>3. r = IF e.stale \/ l.n \in e.freed THEN Ret(Stale(e), FALSE, NULL)
              ELSE Ret(f, TRUE, l.n)
      BY <3>2 DEF RefillFolders
    <3> HIDE DEF e, f
    <3>4. ~ r.s.stale
      BY <1>6, FaithfulFacts DEF Reads
    <3>5. r = Ret(f, TRUE, l.n)
      <4>1. ASSUME r = Ret(Stale(e), FALSE, NULL)
            PROVE  FALSE
        <5>1. r.s = Stale(e)
          BY <4>1 DEF Ret
        <5> QED BY <3>4, <5>1 DEF Stale
      <4> QED BY <3>3, <4>1
    <3>6. r.ok = TRUE
      BY <3>5 DEF Ret
    <3> QED BY <3>1, <3>6
  <2>3. l.ok \in BOOLEAN
    BY <1>3 DEF Finds
  <2> QED BY <2>1, <2>2, <2>3
<1>8. ASSUME r.ok
      PROVE  ~ r.s.cache[r.n].folders_dirty
  <2>1. r.n \in Cells(r.s.cache) /\ r.s.cache[r.n].path = p /\ r.s.bad = {}
    BY <1>2, <1>6, <1>8, FaithfulFacts DEF Yields, Reads
  <2> QED BY <1>5, <2>1 DEF AtRest, Gone, CallFails
<1>9. Finds(s, r, p)
  BY <1>2, <1>6, <1>7 DEF Finds, Yields
<1> QED BY <1>8, <1>9 DEF r

\* Where gp_filesystem_list_files has been, the folder is clean.
LEMMA ListedIsClean ==
  ASSUME NEW s, NEW r, NEW p, NEW e, ListsFiles(s, r, p, e), e.files
  PROVE  \A n \in Cells(r.s.cache) : r.s.cache[n].path = p => ~ r.s.cache[n].files_dirty
<1>1. ASSUME NEW n \in Cells(r.s.cache), r.s.cache[n].path = p
      PROVE  ~ r.s.cache[n].files_dirty
  <2>1. Has(r.s.cache, p)
    BY <1>1 DEF Has
  <2>2. r.ok
    BY <2>1 DEF ListsFiles
  <2>3. r.n \in Cells(r.s.cache) /\ r.s.cache[r.n].path = p /\ IsTree(r.s.cache)
    BY <2>2 DEF ListsFiles, Yields, Fine, Heap
  <2>4. r.n = n
    BY <1>1, <2>3 DEF IsTree
  <2> QED BY <2>2, <2>4 DEF ListsFiles
<1> QED BY <1>1

\* The files that gp_filesystem_list_files leaves in the cells.
LEMMA RealListed ==
  ASSUME NEW s, NEW L, Real(s, L), NEW e, e.files, e.loose \subseteq L, NEW p \in Path,
         NEW r, ListsFiles(s, r, p, e)
  PROVE  Real(r.s, L)
<1> DEFINE t == r.s
<1>1. Fine(t, e) /\ Heap(t) /\ Onward(s, t) /\ t.camera = s.camera /\ OthersKept(s, t, p)
  BY DEF ListsFiles, Yields, Fine
<1>2. \A n \in Cells(t.cache) : t.cache[n].path = p => ~ t.cache[n].files_dirty
  BY ListedIsClean
<1> HIDE DEF t
<1>3. ASSUME NEW n \in Cells(t.cache), NEW x \in t.cache[n].files
      PROVE  x \in Files(t.camera, t.cache[n].path) \/ <<t.cache[n].path, x>> \in L
  <2>1. CASE t.cache[n].path = p
    <3>1. FileFits(t.camera, p, t.cache[n].files, e)
      BY <1>1, <1>2, <2>1 DEF Fine
    <3>2. x \in FileName
      <4>1. t.cache[n] \in Folder
        BY <1>1, CellFacts DEF Heap
      <4> QED BY <1>3, <4>1 DEF Folder
    <3> QED BY <1>3, <2>1, <3>1, <3>2 DEF FileFits
  <2>2. CASE t.cache[n].path # p
    <3>1. n \in Cells(s.cache)
      BY <1>1, <1>3, <2>2 DEF OthersKept
    <3>2. n \notin t.freed
      BY <1>1, <1>3 DEF Heap
    <3>3. t.cache[n].path = s.cache[n].path
      BY <1>1, <3>1, <3>2 DEF Onward
    <3>4. t.cache[n].files = s.cache[n].files
      BY <1>1, <1>3, <2>2, <3>1, <3>3 DEF OthersKept
    <3> QED BY <1>1, <1>3, <3>1, <3>3, <3>4 DEF Real
  <2> QED BY <2>1, <2>2
<1> QED BY <1>3 DEF Real, t

\* gp_filesystem_list_files finds the folders that the camera has, and has their files.
LEMMA ListFilesFinds ==
  ASSUME NEW s, Faithful(s), NEW p \in Path
  PROVE  LET r == ListFiles(s, p)
         IN /\ Finds(s, r, p)
            /\ r.ok => /\ ~ r.s.cache[r.n].files_dirty
                       /\ r.s.cache[r.n].files = s.camera[p]
<1> DEFINE r == ListFiles(s, p)
<1>1. Fine(s, Plain) /\ SteadyBad(s.bad) /\ Heap(s) /\ Plain.files /\ Plain.loose = {}
  BY FaithfulFacts DEF Faithful, Plain, Excuse
<1>2. ListsFiles(s, r, p, Plain)
  BY <1>1, ListFilesFine
<1> HIDE DEF r
<1>3. /\ Fine(r.s, Plain) /\ Heap(r.s) /\ Onward(s, r.s) /\ r.s.camera = s.camera
      /\ OthersKept(s, r.s, p) /\ Clear(r.s, p) /\ r.ok \in BOOLEAN
      /\ r.ok => r.n \in Cells(r.s.cache) /\ r.s.cache[r.n].path = p
      /\ r.ok <=> Has(r.s.cache, p)
      /\ r.ok => ~ r.s.cache[r.n].files_dirty
  BY <1>1, <1>2 DEF ListsFiles, Yields, Fine
<1>4. Real(r.s, {})
  BY <1>1, <1>2, RealListed DEF Faithful
<1>5. Faithful(r.s)
  BY <1>3, <1>4 DEF Faithful
<1>6. ASSUME NEW n \in Cells(s.cache) \intersect Cells(r.s.cache), ~ s.cache[n].files_dirty
      PROVE  ~ r.s.cache[n].files_dirty
  <2>1. n \notin r.s.freed
    BY <1>3, <1>6 DEF Heap
  <2>2. r.s.cache[n].path = s.cache[n].path
    BY <1>3, <1>6, <2>1 DEF Onward
  <2>3. CASE s.cache[n].path = p
    BY <1>1, <1>2, <1>6, <2>2, <2>3, ListedIsClean
  <2>4. CASE s.cache[n].path # p
    BY <1>3, <1>6, <2>4 DEF OthersKept
  <2> QED BY <2>3, <2>4
<1>7. Reads(s, r.s)
  BY <1>3, <1>5, <1>6 DEF Reads, StillClean
<1>8. r.ok <=> p \in Dirs(s.camera)
  BY <1>3, <1>5, ClearIsThere
<1>9. ASSUME r.ok
      PROVE  r.s.cache[r.n].files = s.camera[p]
  <2>1. r.s.cache[r.n].files = Files(r.s.camera, p)
    BY <1>3, <1>5, <1>9, FaithfulFacts
  <2> QED BY <1>3, <1>8, <1>9, <2>1 DEF Files
<1>10. Finds(s, r, p)
  BY <1>3, <1>7, <1>8 DEF Finds
<1> QED BY <1>3, <1>9, <1>10 DEF r

\* The files that are left in the cells when a file list is made clean.
LEMMA RealCleaned ==
  ASSUME NEW s, NEW L, Real(s, L), NEW e, Fine(s, e), e.files, e.loose \subseteq L,
         NEW p \in Path, NEW n
  PROVE  Real(CleanFiles(s, n, p).s, L)
<1> DEFINE a == ListFiles(s, p)
           r == CleanFiles(s, n, p)
<1>1. r = IF s.cache[n].files_dirty
          THEN IF n \in a.s.freed THEN Ret(Stale(a.s), FALSE, NULL) ELSE Ret(a.s, a.ok, n)
          ELSE Ret(s, TRUE, n)
  BY DEF CleanFiles
<1>2. ListsFiles(s, a, p, e)
  BY ListFilesFine
<1>3. Real(a.s, L) /\ Heap(a.s)
  BY <1>2, RealListed DEF ListsFiles, Yields, Fine
<1> HIDE DEF a, r
<1>4. Stale(a.s).cache = a.s.cache /\ Stale(a.s).camera = a.s.camera
  <2>1. Looked(a.s, Stale(a.s), 0) /\ Stale(a.s).cache = a.s.cache
    BY <1>3, StaleAndCalled
  <2> QED BY <1>3, <2>1, LookedRecord
<1>5. Real(Stale(a.s), L)
  BY <1>3, <1>4 DEF Real
<1>6. r.s = s \/ r.s = a.s \/ r.s = Stale(a.s)
  BY <1>1 DEF Ret
<1>7. Real(r.s, L)
  BY <1>3, <1>5, <1>6
<1> QED BY <1>7 DEF r

\* ... and when a file is looked up.
LEMMA RealLookupFile ==
  ASSUME NEW s, NEW L, Real(s, L), NEW e, Fine(s, e), e.files, e.loose \subseteq L,
         NEW p \in Path, NEW x
  PROVE  Real(LookupFile(s, p, x).s, L)
<1> DEFINE l == Lookup(s, p)
           t == CleanFiles(l.s, l.n, p).s
           r == LookupFile(s, p, x)
<1>1. Yields(s, l, p, e) /\ Looked(s, l.s, Len(p)) /\ Heap(s)
  BY LookupFine DEF Fine
<1>2. r = IF l.ok THEN Ret(t, ~ t.stale /\ x \in t.cache[l.n].files, l.n) ELSE l
  BY DEF LookupFile, IfOk
<1>3. Real(l.s, L) /\ Fine(l.s, e)
  BY <1>1, RealLooked DEF Yields
<1>4. Real(t, L)
  BY <1>3, RealCleaned
<1>5. r.s = l.s \/ r.s = t
  <2> HIDE DEF l, t, r
  <2> QED BY <1>2 DEF Ret
<1>6. Real(r.s, L)
  BY <1>3, <1>4, <1>5
<1> QED BY <1>6 DEF r

\* The files of a folder, made clean.
LEMMA CleanFilesReads ==
  ASSUME NEW s, Faithful(s), NEW p \in Path, NEW n \in Cells(s.cache), s.cache[n].path = p,
         Clear(s, p)
  PROVE  LET r == CleanFiles(s, n, p)
         IN /\ Reads(s, r.s) /\ r.ok /\ r.n = n /\ Clear(r.s, p)
            /\ n \in Cells(r.s.cache) /\ r.s.cache[n].path = p
            /\ ~ r.s.cache[n].files_dirty /\ r.s.cache[n].files = s.camera[p]
<1> DEFINE r == CleanFiles(s, n, p)
           a == ListFiles(s, p)
<1>1. Fine(s, Plain) /\ SteadyBad(s.bad) /\ Heap(s) /\ Plain.files /\ Plain.loose = {}
  BY FaithfulFacts DEF Faithful, Plain, Excuse
<1>2. /\ Goes(s, r, Plain) /\ r.s.camera = s.camera /\ r.ok /\ r.n = n
      /\ n \in Cells(r.s.cache) /\ r.s.cache[n].path = p
      /\ ~ r.s.cache[n].files_dirty /\ Clear(r.s, p)
  BY <1>1, CleanFilesFine
<1>3. Real(r.s, {})
  BY <1>1, RealCleaned DEF Faithful
<1>4. r = IF s.cache[n].files_dirty
          THEN IF n \in a.s.freed THEN Ret(Stale(a.s), FALSE, NULL) ELSE Ret(a.s, a.ok, n)
          ELSE Ret(s, TRUE, n)
  BY DEF CleanFiles
<1>5. Reads(s, a.s)
  BY ListFilesFinds DEF Finds
<1> HIDE DEF r, a
<1>6. r.s = s \/ r.s = a.s
  <2>1. r = Ret(Stale(a.s), FALSE, NULL) => r.ok = FALSE
    BY DEF Ret
  <2>2. r = Ret(a.s, a.ok, n) \/ r = Ret(s, TRUE, n)
    BY <1>2, <1>4, <2>1
  <2> QED BY <2>2 DEF Ret
<1>7. Reads(s, r.s)
  BY <1>5, <1>6, ReadsSelf
<1>8. r.s.cache[n].files = s.camera[p]
  <2>1. Faithful(r.s)
    BY <1>7 DEF Reads
  <2>2. r.s.cache[n].files = Files(r.s.camera, p) /\ p \in Dirs(r.s.camera)
    BY <1>2, <2>1, FaithfulFacts
  <2> QED BY <1>2, <2>2 DEF Files
<1> QED BY <1>2, <1>7, <1>8 DEF r

\* The file is found in the folder of its path, if it is there.
FindsFile(s, r, p, x) ==
  /\ Reads(s, r.s) /\ Clear(r.s, p) /\ r.ok \in BOOLEAN
  /\ r.ok <=> x \in Files(s.camera, p)
  /\ r.ok => r.n \in Cells(r.s.cache) /\ r.s.cache[r.n].path = p

\* lookup_folder_file finds the files that the camera has.
LEMMA LookupFileFinds ==
  ASSUME NEW s, Faithful(s), NEW p \in Path, NEW x
  PROVE  FindsFile(s, LookupFile(s, p, x), p, x)
<1> DEFINE l == Lookup(s, p)
           a == CleanFiles(l.s, l.n, p)
           r == LookupFile(s, p, x)
<1>1. Finds(s, l, p)
  BY LookupFinds
<1>2. r = IF l.ok THEN Ret(a.s, ~ a.s.stale /\ x \in a.s.cache[l.n].files, l.n) ELSE l
  BY DEF LookupFile, IfOk
<1>3. CASE ~ l.ok
  <2>1. x \notin Files(s.camera, p)
    BY <1>1, <1>3 DEF Finds, Files
  <2> HIDE DEF l, r
  <2>2. r = l
    BY <1>2, <1>3
  <2>3. FindsFile(s, r, p, x)
    BY <1>1, <1>3, <2>1, <2>2 DEF FindsFile, Finds
  <2> QED BY <2>3 DEF r
<1>4. CASE l.ok
  <2>1. /\ Faithful(l.s) /\ Reads(s, l.s) /\ l.n \in Cells(l.s.cache)
        /\ l.s.cache[l.n].path = p /\ Clear(l.s, p) /\ l.s.camera = s.camera
        /\ p \in Dirs(s.camera)
    BY <1>1, <1>4 DEF Finds, Reads
  <2>2. /\ Reads(l.s, a.s) /\ Clear(a.s, p) /\ l.n \in Cells(a.s.cache)
        /\ a.s.cache[l.n].path = p /\ a.s.cache[l.n].files = l.s.camera[p]
    BY <2>1, CleanFilesReads
  <2> HIDE DEF l, r, a
  <2>3. Reads(s, a.s) /\ ~ a.s.stale
    <3>1. Faithful(a.s)
      BY <2>2 DEF Reads
    <3> QED BY <2>1, <2>2, <3>1, ReadsOn, FaithfulFacts
  <2>4. r.s = a.s /\ r.ok = (~ a.s.stale /\ x \in a.s.cache[l.n].files) /\ r.n = l.n
    BY <1>2, <1>4 DEF Ret
  <2>5. r.ok = (x \in Files(s.camera, p))
    BY <2>1, <2>2, <2>3, <2>4 DEF Files
  <2>6. FindsFile(s, r, p, x)
    BY <2>2, <2>3, <2>4, <2>5 DEF FindsFile
  <2> QED BY <2>6 DEF r
<1> QED BY <1>3, <1>4

\* A folder is written to, with what the camera has then.
LEMMA WrittenFaithful ==
  ASSUME NEW s, Faithful(s), NEW n \in Cells(s.cache), NEW d \in BOOLEAN,
         NEW A, FileSet(A), NEW B, FileSet(B), A \subseteq B, d \/ A = B
  PROVE  LET u == Written(s, n, A, d, B)
             p == s.cache[n].path
         IN /\ Faithful(u) /\ Onward(s, u) /\ Cells(u.cache) = Cells(s.cache)
            /\ u.cache[n].path = p /\ u.cache[n].files = A /\ u.cache[n].files_dirty = d
            /\ \A q : Clear(s, q) => Clear(u, q)
            /\ u.camera = InFolder(s.camera, p, B)
            /\ \A m \in Cells(s.cache) : m # n => u.cache[m] = s.cache[m]
<1> DEFINE u == Written(s, n, A, d, B)
           p == s.cache[n].path
<1>1. Fine(s, Plain) /\ SteadyBad(s.bad) /\ Heap(s) /\ p \in Dirs(s.camera)
  BY FaithfulFacts DEF Faithful
<1>2. Agrees(s, n, A, d, B, Plain)
  BY DEF Agrees
<1>3. /\ Fine(u, Plain) /\ Onward(s, u) /\ Cells(u.cache) = Cells(s.cache)
      /\ u.cache[n].path = p /\ u.cache[n].files = A /\ u.cache[n].files_dirty = d
      /\ \A m \in Cells(s.cache) : m # n => u.cache[m] = s.cache[m]
      /\ \A q : SteadyBad(s.bad) /\ Clear(s, q) => Clear(u, q)
      /\ u.camera = InFolder(s.camera, p, B)
  BY <1>1, <1>2, WrittenFine
<1> HIDE DEF u, p
<1>4. /\ Dirs(u.camera) = Dirs(s.camera) /\ u.camera[p] = B
      /\ \A q \in Dirs(s.camera) : q # p => u.camera[q] = s.camera[q]
  BY <1>1, <1>3 DEF InFolder, Dirs
<1>5. Files(u.camera, p) = B /\ \A q : q # p => Files(u.camera, q) = Files(s.camera, q)
  BY <1>1, <1>4 DEF Files
<1>6. Real(u, {})
  <2>1. \A x \in u.cache[n].files : x \in Files(u.camera, p) \/ <<p, x>> \in {}
    BY <1>3, <1>5
  <2> QED BY <1>1, <1>3, <1>5, <2>1, RealWritten DEF Faithful, p
<1>7. Closed(u.camera)
  BY <1>4 DEF Faithful, Closed
<1> QED BY <1>1, <1>3, <1>6, <1>7 DEF Faithful, u, p

-----------------------------------------------------------------------------
(***************************************************************************)
(* Without failures every operation does on the camera what it is asked to *)
(* do, and finds what the camera has.  First the calls that write.         *)
(***************************************************************************)

\* The driver is asked once more.
LEMMA CalledReads ==
  ASSUME NEW s, Faithful(s)
  PROVE  /\ Reads(s, Called(s)) /\ Called(s).cache = s.cache /\ ~ CallFails(s)
         /\ \A q : Clear(s, q) => Clear(Called(s), q)
<1> DEFINE c == Called(s)
<1>1. Fine(s, Plain) /\ SteadyBad(s.bad) /\ s.bad = {}
  BY FaithfulFacts DEF Faithful
<1>2. /\ Fine(c, Plain) /\ Onward(s, c) /\ c.cache = s.cache /\ c.camera = s.camera
      /\ \A q : Clear(s, q) => Clear(c, q)
  BY <1>1, CalledFine
<1> HIDE DEF c
<1>3. Real(c, {})
  BY <1>2 DEF Faithful, Real
<1>4. Faithful(c) /\ StillClean(s, c)
  BY <1>2, <1>3 DEF Faithful, StillClean
<1> QED BY <1>1, <1>2, <1>4 DEF Reads, c, CallFails

\* What a cell of a faithful cache has.
LEMMA HereFaithful ==
  ASSUME NEW s, Faithful(s), NEW n \in Cells(s.cache)
  PROVE  LET A == s.cache[n].files
             B == s.camera[s.cache[n].path]
         IN /\ Heap(s) /\ FileSet(A) /\ FileSet(B) /\ A \in SUBSET FileName /\ A \subseteq B
            /\ s.cache[n].files_dirty \in BOOLEAN /\ (s.cache[n].files_dirty \/ A = B)
            /\ s.cache[n].path \in Path /\ s.cache[n].path \in Dirs(s.camera)
<1>1. Fine(s, Plain)
  BY DEF Faithful
<1>2. /\ Heap(s) /\ FileSet(s.cache[n].files) /\ FileSet(s.camera[s.cache[n].path])
      /\ s.cache[n].files_dirty \in BOOLEAN
      /\ s.cache[n].path \in Path /\ s.cache[n].path \in Dirs(s.camera)
      /\ Files(s.camera, s.cache[n].path) = s.camera[s.cache[n].path]
  BY <1>1, HereFacts
<1>3. /\ s.cache[n].files \subseteq Files(s.camera, s.cache[n].path)
      /\ ~ s.cache[n].files_dirty => s.cache[n].files = Files(s.camera, s.cache[n].path)
  BY FaithfulFacts
<1> QED BY <1>2, <1>3 DEF FileSet

\* From the camera cam the files X of the folder p are deleted.
Without(cam, p, X) == InFolder(cam, p, cam[p] \ X)

\* gp_filesystem_delete_file deletes the file, if the camera has it.
LEMMA DeleteOneDoes ==
  ASSUME NEW s, Faithful(s), NEW p \in Path, NEW x
  PROVE  LET r == DeleteOne(s, p, x)
         IN /\ Faithful(r.s) /\ r.ok \in BOOLEAN /\ (r.ok <=> x \in Files(s.camera, p))
            /\ r.s.camera = IF r.ok THEN Without(s.camera, p, {x}) ELSE s.camera
<1> DEFINE l == LookupFile(s, p, x)
           n == l.n
           c == Called(l.s)
           A == c.cache[n].files \ {x}
           B == c.camera[p] \ {x}
           u == BothWritten(c, n, A, p, B)
           r == DeleteOne(s, p, x)
<1>1. FindsFile(s, l, p, x)
  BY LookupFileFinds
<1>2. r = IF l.ok
          THEN IF CallFails(l.s) \/ x \notin Files(c.camera, p) THEN Ret(c, FALSE, n)
               ELSE Ret(u, TRUE, n)
          ELSE l
  BY DEF DeleteOne, IfOk, BothWritten
<1> HIDE DEF l, r
<1>3. CASE ~ l.ok
  BY <1>1, <1>2, <1>3 DEF r, FindsFile, Reads
<1>4. CASE l.ok
  <2>1. /\ Faithful(l.s) /\ n \in Cells(l.s.cache) /\ l.s.cache[n].path = p
        /\ l.s.camera = s.camera /\ x \in Files(s.camera, p)
    BY <1>1, <1>4 DEF FindsFile, Reads
  <2>2. /\ Faithful(c) /\ c.camera = s.camera /\ c.cache = l.s.cache /\ ~ CallFails(l.s)
    BY <2>1, CalledReads DEF Reads
  <2> HIDE DEF c
  <2>3. n \in Cells(c.cache) /\ c.cache[n].path = p
    BY <2>1, <2>2
  <2>4. r.s = u /\ r.ok = TRUE
    BY <1>2, <1>4, <2>1, <2>2 DEF Ret
  <2>5. /\ Heap(c) /\ FileSet(c.cache[n].files) /\ FileSet(c.camera[p])
        /\ c.cache[n].files \subseteq c.camera[p]
        /\ c.cache[n].files_dirty \in BOOLEAN
        /\ c.cache[n].files_dirty \/ c.cache[n].files = c.camera[p]
    BY <2>2, <2>3, HereFaithful
  <2> DEFINE d == c.cache[n].files_dirty
  <2>6. /\ FileSet(A) /\ FileSet(B) /\ A \subseteq B /\ d \in BOOLEAN /\ (d \/ A = B)
        /\ A \in SUBSET FileName
    BY <2>5, FS_Subset DEF FileSet
  <2>7. u = Written(c, n, A, d, B)
    <3> HIDE DEF A, B
    <3>1. Heap(c) /\ n \in Cells(c.cache) /\ A \in SUBSET FileName /\ p = c.cache[n].path
      BY <2>3, <2>5, <2>6
    <3> QED BY <3>1, BothWrittenIs
  <2>8. B = s.camera[p] \ {x}
    BY <2>2
  <2> HIDE DEF A, B, u, d
  <2>9. Faithful(u) /\ u.camera = InFolder(c.camera, p, B)
    BY <2>2, <2>3, <2>6, <2>7, WrittenFaithful
  <2> QED BY <2>1, <2>2, <2>4, <2>8, <2>9 DEF r, Without
<1> QED BY <1>3, <1>4

\* Files that go from a folder one after the other.
LEMMA WithoutFacts ==
  ASSUME NEW cam, NEW p, p \in Dirs(cam), NEW X
  PROVE  /\ \A Y : Without(Without(cam, p, X), p, Y) = Without(cam, p, X \union Y)
         /\ Dirs(Without(cam, p, X)) = Dirs(cam)
         /\ Files(Without(cam, p, X), p) = cam[p] \ X
<1>1. Dirs(Without(cam, p, X)) = Dirs(cam) /\ Without(cam, p, X)[p] = cam[p] \ X
  BY DEF Without, InFolder, Dirs
<1>2. \A Y : (cam[p] \ X) \ Y = cam[p] \ (X \union Y)
  OBVIOUS
<1>3. \A B, C : InFolder(InFolder(cam, p, B), p, C) = InFolder(cam, p, C)
  BY DEF InFolder
<1>4. \A Y : Without(Without(cam, p, X), p, Y) = Without(cam, p, X \union Y)
  BY <1>1, <1>2, <1>3 DEF Without
<1> QED BY <1>1, <1>4 DEF Files

\* The first k of the files have been deleted.
DeletedSome(s, r, p, files, k) ==
  /\ Faithful(r.s) /\ r.ok
  /\ r.s.camera = Without(s.camera, p, {files[j] : j \in 1 .. k})

\* gp_filesystem_delete_file, for files of the folder, deletes all of them.
LEMMA DeleteEachDoes ==
  ASSUME NEW s, Faithful(s), NEW p \in Path, p \in Dirs(s.camera), NEW X, IsFiniteSet(X),
         X \subseteq s.camera[p]
  PROVE  LET r == DeleteEach(s, p, X)
         IN Faithful(r.s) /\ r.ok /\ r.s.camera = Without(s.camera, p, X)
<1> DEFINE files == SetToSeq(X)
           L == Len(files)
<1>1. /\ L \in Nat /\ files \in Seq(X)
      /\ \A i, j \in 1 .. L : files[i] = files[j] => i = j
      /\ \A x \in X : \E i \in 1 .. L : files[i] = x
  BY ListOfSet
<1>2. PICK f : /\ DeleteEach(s, p, X) = f[L]
               /\ \A k \in 0 .. L : f[k] = DeleteStep(s, p, files, f, k)
  BY DeleteEachIs
<1>3. \A i \in 1 .. L : files[i] \in X
  BY <1>1
<1> HIDE DEF files, L
<1> DEFINE T == {k \in 0 .. L : ~ DeletedSome(s, f[k], p, files, k)}
<1>4. ASSUME NEW i \in T, \A k \in T : i <= k
      PROVE  FALSE
  <2>1. i \in 0 .. L /\ ~ DeletedSome(s, f[i], p, files, i)
        /\ f[i] = DeleteStep(s, p, files, f, i)
    BY <1>2
  <2>2. CASE i = 0
    <3>1. f[i].s = s /\ f[i].ok = TRUE
      BY <2>1, <2>2 DEF DeleteStep, Ret
    <3>2. {files[j] : j \in 1 .. i} = {}
      BY <2>2
    <3>3. Without(s.camera, p, {}) = s.camera
      <4>1. IsCamera(s.camera)
        BY FaithfulFacts
      <4> QED BY <4>1 DEF Without, InFolder, IsCamera, Dirs
    <3> QED BY <2>1, <3>1, <3>2, <3>3 DEF DeletedSome
  <2>3. CASE i # 0
    <3> DEFINE g == f[i - 1]
               S == {files[j] : j \in 1 .. i - 1}
               a == DeleteOne(g.s, p, files[i])
    <3>1. i - 1 \in 0 .. L /\ i - 1 \notin T /\ i \in 1 .. L
      BY <1>1, <1>4, <2>1, <2>3
    <3>2. Faithful(g.s) /\ g.ok /\ g.s.camera = Without(s.camera, p, S)
      BY <3>1 DEF DeletedSome
    <3>3. f[i] = a
      BY <2>1, <2>3, <3>2 DEF DeleteStep
    <3>4. files[i] \in X /\ files[i] \notin S
      BY <1>1, <1>3, <3>1
    <3>5. S \union {files[i]} = {files[j] : j \in 1 .. i}
      BY <1>1, <3>1
    <3> HIDE DEF g, S
    <3>6. files[i] \in Files(g.s.camera, p)
      <4>1. Files(Without(s.camera, p, S), p) = s.camera[p] \ S
        BY WithoutFacts
      <4>2. files[i] \in s.camera[p]
        BY <3>4
      <4> QED BY <3>2, <3>4, <4>1, <4>2
    <3>7. Faithful(a.s) /\ a.ok /\ a.s.camera = Without(g.s.camera, p, {files[i]})
      BY <3>2, <3>6, DeleteOneDoes
    <3>8. a.s.camera = Without(s.camera, p, S \union {files[i]})
      BY <3>2, <3>7, WithoutFacts
    <3> QED BY <2>1, <3>3, <3>5, <3>7, <3>8 DEF DeletedSome
  <2> QED BY <2>2, <2>3
<1>5. T = {}
  <2>1. T \subseteq Nat
    BY <1>1
  <2> HIDE DEF T
  <2> QED BY <1>4, <2>1, LeastNat
<1>6. L \in 0 .. L /\ L \notin T
  BY <1>1, <1>5
<1>7. {files[j] : j \in 1 .. L} = X
  BY <1>1, <1>3
<1> QED BY <1>2, <1>6, <1>7 DEF DeletedSome

\* The folder p is emptied, if the camera has it.
Empties(s, r, p) ==
  /\ Faithful(r.s) /\ r.ok \in BOOLEAN /\ (r.ok <=> p \in Dirs(s.camera))
  /\ r.s.camera = IF r.ok THEN InFolder(s.camera, p, {}) ELSE s.camera

\* gp_filesystem_delete_all_one_by_one.
LEMMA DeleteOneByOneDoes ==
  ASSUME NEW s, Faithful(s), NEW p \in Path
  PROVE  Empties(s, DeleteOneByOne(s, p), p)
<1> DEFINE a == ListFiles(s, p)
           X == a.s.cache[a.n].files
           r == DeleteOneByOne(s, p)
<1>1. Finds(s, a, p) /\ (a.ok => X = s.camera[p])
  BY ListFilesFinds
<1>2. r = IF a.ok THEN DeleteEach(a.s, p, X) ELSE a
  BY DEF DeleteOneByOne, IfOk
<1> HIDE DEF a, r
<1>3. CASE ~ a.ok
  BY <1>1, <1>2, <1>3 DEF r, Empties, Finds, Reads
<1>4. CASE a.ok
  <2>1. /\ Faithful(a.s) /\ a.s.camera = s.camera /\ p \in Dirs(s.camera)
        /\ a.n \in Cells(a.s.cache)
    BY <1>1, <1>4 DEF Finds, Reads
  <2>2. IsFiniteSet(X) /\ X \subseteq a.s.camera[p]
    BY <1>1, <1>4, <2>1 DEF Faithful, Fine
  <2>3. Faithful(r.s) /\ r.ok /\ r.s.camera = Without(a.s.camera, p, X)
    BY <1>2, <1>4, <2>1, <2>2, DeleteEachDoes
  <2>4. a.s.camera[p] \ X = {}
    BY <1>1, <1>4, <2>1
  <2>5. r.ok \in BOOLEAN
    <3>1. Fine(s, Plain)
      BY DEF Faithful
    <3>2. Goes(s, DeleteOneByOne(s, p), Plain)
      BY <3>1, DeleteOneByOneFine
    <3> QED BY <3>2 DEF Goes, r
  <2> QED BY <2>1, <2>3, <2>4, <2>5 DEF r, Empties, Without
<1> QED BY <1>3, <1>4

\* gp_filesystem_delete_all empties the folder, with delete_all_func or without.
LEMMA DeleteFilesDoes ==
  ASSUME NEW s, Faithful(s), NEW p \in Path, NEW has, NEW left
  PROVE  Empties(s, DeleteFiles(s, p, has, left), p)
<1> DEFINE l == Lookup(s, p)
           n == l.n
           v == Called(l.s)
           c == FlagWritten(v, n, TRUE)
           a == DeleteOneByOne(CameraWritten(c, p, c.camera[p] \intersect left), p)
           z == AllWritten(c, n, {}, FALSE, p, {})
           r == DeleteFiles(s, p, has, left)
<1>1. Finds(s, l, p)
  BY LookupFinds
<1>2. r = IF l.ok THEN DeleteFilesOf(l, p, has, left) ELSE l
  BY DeleteFilesIs
<1>3. DeleteFilesOf(l, p, has, left) =
        IF ~has THEN DeleteOneByOne(l.s, p)
        ELSE IF p \notin Dirs(c.camera) THEN DeleteOneByOne(c, p)
        ELSE IF CallFails(l.s)
             THEN IF a.ok
                  THEN IF n \in a.s.freed THEN Ret(Stale(a.s), FALSE, NULL)
                       ELSE Ret(FlagWritten(a.s, n, FALSE), TRUE, n)
                  ELSE a
        ELSE Ret(z, TRUE, n)
  BY DEF DeleteFilesOf
<1> HIDE DEF l, r, a
<1>4. CASE ~ l.ok
  BY <1>1, <1>2, <1>4 DEF r, Empties, Finds, Reads
<1>5. CASE l.ok
  <2>1. /\ Faithful(l.s) /\ n \in Cells(l.s.cache) /\ l.s.cache[n].path = p
        /\ l.s.camera = s.camera /\ p \in Dirs(s.camera)
    BY <1>1, <1>5 DEF Finds, Reads
  <2>2. /\ Faithful(v) /\ v.cache = l.s.cache /\ v.camera = s.camera /\ ~ CallFails(l.s)
    BY <2>1, CalledReads DEF Reads
  <2> HIDE DEF v
  <2>3. n \in Cells(v.cache) /\ v.cache[n].path = p
    BY <2>1, <2>2
  <2>4. /\ Heap(v) /\ FileSet(v.cache[n].files) /\ FileSet(v.camera[p])
        /\ v.cache[n].files \subseteq v.camera[p]
    BY <2>2, <2>3, HereFaithful
  <2>5. Faithful(c) /\ Cells(c.cache) = Cells(v.cache) /\ c.cache[n].path = p
        /\ Dirs(c.camera) = Dirs(v.camera) /\ \A B : InFolder(c.camera, p, B) = InFolder(s.camera, p, B)
    <3> DEFINE A == v.cache[n].files
               C == v.camera[v.cache[n].path]
               d == TRUE
    <3>1. d \in BOOLEAN /\ (d \/ A = C) /\ FileSet(A) /\ FileSet(C) /\ A \subseteq C
      BY <2>3, <2>4
    <3>2. c = Written(v, n, A, d, C)
      BY <2>3, <2>4, FlagWrittenIs DEF FileSet
    <3> HIDE DEF A, C, d, c
    <3>3. /\ Faithful(c) /\ Cells(c.cache) = Cells(v.cache) /\ c.cache[n].path = p
          /\ c.camera = InFolder(v.camera, p, C)
      <4>1. /\ Faithful(c) /\ Cells(c.cache) = Cells(v.cache)
            /\ c.cache[n].path = v.cache[n].path
            /\ c.camera = InFolder(v.camera, v.cache[n].path, C)
        BY <2>2, <2>3, <3>1, <3>2, WrittenFaithful
      <4> QED BY <2>3, <4>1
    <3>4. Dirs(c.camera) = Dirs(v.camera)
          /\ \A B : InFolder(c.camera, p, B) = InFolder(v.camera, p, B)
      BY <3>3 DEF InFolder, Dirs
    <3> QED BY <2>2, <3>3, <3>4
  <2> HIDE DEF c
  <2>6. CASE ~ has
    <3>1. r = DeleteOneByOne(l.s, p)
      BY <1>2, <1>3, <1>5, <2>6
    <3>2. Empties(l.s, r, p)
      BY <2>1, <3>1, DeleteOneByOneDoes
    <3> QED BY <2>1, <3>2 DEF Empties, r
  <2>7. CASE has
    <3> DEFINE E == {}
               g == FALSE
    <3>1. r = Ret(z, TRUE, n)
      BY <1>2, <1>3, <1>5, <2>1, <2>2, <2>5, <2>7
    <3>2. /\ FileSet(E) /\ E \in SUBSET FileName /\ g \in BOOLEAN /\ E = {}
          /\ n \in Cells(c.cache) /\ p = c.cache[n].path /\ Heap(c) /\ E \subseteq E
      BY <2>2, <2>3, <2>5, FS_EmptySet, FaithfulFacts DEF FileSet
    <3>3. z = Written(c, n, E, g, E)
      BY <3>2, AllWrittenIs
    <3>4. r.s = z /\ r.ok = TRUE
      BY <3>1 DEF Ret
    <3> HIDE DEF z, E, g
    <3>5. Faithful(z) /\ z.camera = InFolder(c.camera, p, E)
      BY <2>5, <3>2, <3>3, WrittenFaithful
    <3>6. z.camera = InFolder(s.camera, p, {})
      BY <2>5, <3>2, <3>5
    <3> QED BY <2>1, <3>4, <3>5, <3>6 DEF Empties, r
  <2> QED BY <2>6, <2>7
<1> QED BY <1>4, <1>5

\* gp_filesystem_put_file uploads a file that the camera has not.
LEMMA PutFileDoes ==
  ASSUME NEW s, Faithful(s), NEW p \in Path, NEW x \in FileName
  PROVE  LET r == PutFile(s, p, x)
         IN /\ Faithful(r.s) /\ r.ok \in BOOLEAN
            /\ r.ok <=> p \in Dirs(s.camera) /\ x \notin s.camera[p]
            /\ r.s.camera = IF r.ok THEN InFolder(s.camera, p, s.camera[p] \union {x})
                            ELSE s.camera
<1> DEFINE l == Lookup(s, p)
           n == l.n
           A == l.s.cache[n].files \union {x}
           B == l.s.camera[p] \union {x}
           u == BothWrittenToo(l.s, n, A, p, B)
           fails == CallFails(l.s) \/ p \notin Dirs(l.s.camera) \/ x \in l.s.camera[p]
           r == PutFile(s, p, x)
<1>1. Finds(s, l, p)
  BY LookupFinds
<1>2. r = IF l.ok
          THEN IF fails THEN Ret(l.s, FALSE, n)
               ELSE Ret(u, x \notin l.s.cache[n].files, n)
          ELSE l
  BY DEF PutFile, IfOk, BothWrittenToo
<1> HIDE DEF l, r
<1>3. CASE ~ l.ok
  BY <1>1, <1>2, <1>3 DEF r, Finds, Reads
<1>4. CASE l.ok
  <2>1. /\ Faithful(l.s) /\ n \in Cells(l.s.cache) /\ l.s.cache[n].path = p
        /\ l.s.camera = s.camera /\ p \in Dirs(s.camera) /\ ~ CallFails(l.s)
    BY <1>1, <1>4, CalledReads DEF Finds, Reads
  <2>2. CASE x \in s.camera[p]
    <3>1. r.s = l.s /\ r.ok = FALSE
      BY <1>2, <1>4, <2>1, <2>2 DEF Ret
    <3> QED BY <2>1, <2>2, <3>1 DEF r
  <2>3. CASE x \notin s.camera[p]
    <3>1. r = Ret(u, x \notin l.s.cache[n].files, n)
      BY <1>2, <1>4, <2>1, <2>3
    <3>2. /\ Heap(l.s) /\ FileSet(l.s.cache[n].files) /\ FileSet(l.s.camera[p])
          /\ l.s.cache[n].files \subseteq l.s.camera[p]
          /\ l.s.cache[n].files_dirty \in BOOLEAN
          /\ l.s.cache[n].files_dirty \/ l.s.cache[n].files = l.s.camera[p]
      BY <2>1, HereFaithful
    <3>3. r.s = u /\ r.ok = TRUE
      BY <2>1, <2>3, <3>1, <3>2 DEF Ret
    <3> DEFINE d == l.s.cache[n].files_dirty
               t == l.s
    <3>4. /\ FileSet(A) /\ FileSet(B) /\ A \in SUBSET FileName /\ A \subseteq B
          /\ d \in BOOLEAN /\ (d \/ A = B)
      BY <3>2, FS_AddElement DEF FileSet
    <3>5. B = s.camera[p] \union {x}
      BY <2>1
    <3> HIDE DEF A, B
    <3>6. u = Written(t, n, A, d, B)
      <4>1. Heap(t) /\ n \in Cells(t.cache) /\ A \in SUBSET FileName /\ p = t.cache[n].path
        BY <2>1, <3>2, <3>4
      <4> QED BY <4>1, BothWrittenIs
    <3>7. Faithful(t) /\ n \in Cells(t.cache) /\ t.cache[n].path = p /\ t.camera = s.camera
      BY <2>1
    <3> HIDE DEF u, d, t
    <3>8. Faithful(u) /\ u.camera = InFolder(t.camera, p, B)
      BY <3>4, <3>6, <3>7, WrittenFaithful
    <3> QED BY <2>1, <2>3, <3>3, <3>5, <3>7, <3>8 DEF r
  <2> QED BY <2>2, <2>3
<1> QED BY <1>3, <1>4

\* A folder that has been found and is clean is found again, and is clean.
LEMMA FoundAgain ==
  ASSUME NEW s, NEW p, Clear(s, p), NEW n \in Cells(s.cache), s.cache[n].path = p,
         ~ s.cache[n].files_dirty, NEW t, Reads(s, t), SteadyBad(s.bad)
  PROVE  /\ Clear(t, p) /\ n \in Cells(t.cache) /\ t.cache[n].path = p
         /\ ~ t.cache[n].files_dirty
<1>1. Clear(t, p) /\ n \in Cells(t.cache) /\ t.cache[n].path = p
  BY DEF Reads, Onward, Firm
<1> QED BY <1>1 DEF Reads, StillClean

\* gp_filesystem_number knows whether the camera has the file.
LEMMA SeekFileDoes ==
  ASSUME NEW s, Faithful(s), NEW p \in Path, NEW x
  PROVE  LET r == SeekFile(s, p, x)
         IN /\ Finds(s, r, p)
            /\ r.ok => (x \in r.s.cache[r.n].files <=> x \in s.camera[p])
<1> DEFINE l == Lookup(s, p)
           a == ListFiles(l.s, p)
           b == Lookup(a.s, p)
           r == SeekFile(s, p, x)
<1>1. Finds(s, l, p)
  BY LookupFinds
<1>2. r = IF l.ok
          THEN IF x \in l.s.cache[l.n].files \/ ~l.s.cache[l.n].files_dirty THEN l
               ELSE IF a.ok THEN b ELSE a
          ELSE l
  BY DEF SeekFile, IfOk
<1>3. Finds(l.s, a, p) /\ (a.ok => ~ a.s.cache[a.n].files_dirty)
  BY <1>1, ListFilesFinds DEF Finds, Reads
<1>4. Finds(a.s, b, p)
  BY <1>3, LookupFinds DEF Finds, Reads
<1> HIDE DEF l, r, a, b
<1>5. CASE ~ l.ok
  BY <1>1, <1>2, <1>5 DEF r
<1>6. CASE l.ok
  <2> DEFINE n == l.n
             A == l.s.cache[n].files
  <2>1. /\ Faithful(l.s) /\ n \in Cells(l.s.cache) /\ l.s.cache[n].path = p
        /\ l.s.camera = s.camera /\ p \in Dirs(s.camera) /\ Reads(s, l.s)
    BY <1>1, <1>6 DEF Finds, Reads
  <2>2. A \subseteq s.camera[p] /\ (l.s.cache[n].files_dirty \/ A = s.camera[p])
    BY <2>1, HereFaithful
  <2>3. CASE x \in A \/ ~ l.s.cache[n].files_dirty
    <3>1. r = l
      BY <1>2, <1>6, <2>3
    <3> QED BY <1>1, <2>2, <2>3, <3>1 DEF r
  <2>4. CASE ~ (x \in A \/ ~ l.s.cache[n].files_dirty)
    <3>1. a.ok /\ Reads(l.s, a.s) /\ Clear(a.s, p) /\ a.n \in Cells(a.s.cache)
          /\ a.s.cache[a.n].path = p /\ Faithful(a.s) /\ a.s.camera = s.camera
      BY <1>3, <2>1 DEF Finds, Reads
    <3>2. r = b
      BY <1>2, <1>6, <2>4, <3>1
    <3>3. Finds(s, b, p)
      BY <1>4, <2>1, <3>1, ReadsOn, FindsOn
    <3>4. /\ a.n \in Cells(b.s.cache) /\ b.s.cache[a.n].path = p
          /\ ~ b.s.cache[a.n].files_dirty
      BY <1>3, <1>4, <3>1, FaithfulFacts, FoundAgain DEF Finds
    <3>5. b.ok /\ b.n \in Cells(b.s.cache) /\ b.s.cache[b.n].path = p /\ Faithful(b.s)
          /\ b.s.camera = s.camera
      BY <2>1, <3>3 DEF Finds, Reads
    <3>6. b.n = a.n
      BY <3>4, <3>5, FaithfulFacts DEF IsTree
    <3>7. b.s.cache[b.n].files = s.camera[p]
      BY <3>4, <3>5, <3>6, HereFaithful
    <3> QED BY <3>2, <3>3, <3>7 DEF r
  <2> QED BY <2>3, <2>4
<1> QED BY <1>5, <1>6

\* gp_filesystem_reset leaves the camera alone.
LEMMA ResetDoes ==
  ASSUME NEW s, Faithful(s)
  PROVE  Faithful(ResetCache(s)) /\ ResetCache(s).camera = s.camera
<1> DEFINE u == ResetCache(s)
<1>1. Fine(s, Plain) /\ IsTree(s.cache)
  BY FaithfulFacts DEF Faithful
<1>2. /\ Fine(u, Plain) /\ u.camera = s.camera
      /\ Cells(u.cache) = {Root} /\ u.cache[Root].files = s.cache[Root].files
  BY <1>1, ResetFine
<1> HIDE DEF u
<1>3. /\ s.cache[Root].path = << >> /\ u.cache[Root].path = << >> /\ Root \in Cells(s.cache)
  BY <1>1, <1>2, CellFacts DEF Fine, Heap, IsTree
<1>4. Real(u, {})
  BY <1>2, <1>3 DEF Faithful, Real
<1> QED BY <1>2, <1>4 DEF Faithful, u

-----------------------------------------------------------------------------
(***************************************************************************)
(* Calls that make and remove folders.                                     *)
(***************************************************************************)

\* The subfolders of a clean folder are those that the camera has.
LEMMA CleanFoldersAre ==
  ASSUME NEW s, Faithful(s), NEW n \in Cells(s.cache), ~ s.cache[n].folders_dirty
  PROVE  {NameOf(s, k) : k \in Kids(s, n)} = SubDirs(s.camera, s.cache[n].path)
<1> DEFINE c == s.cache
           K == {NameOf(s, k) : k \in Kids(s, n)}
           real == SubDirs(s.camera, c[n].path)
<1>1. /\ IsTree(c) /\ Complete(s, {}) /\ \A m \in Cells(c) : c[m].path \in Dirs(s.camera)
  BY FaithfulFacts
<1>2. ASSUME NEW k \in Kids(s, n)
      PROVE  NameOf(s, k) \in real
  <2>1. k \in Cells(c) /\ c[k].parent = n
    BY DEF Kids
  <2>2. k # Root
    <3>1. n # NULL /\ c[Root].parent = NULL
      BY <1>1, CellFacts DEF IsTree
    <3> QED BY <2>1, <3>1
  <2>3. Last(c[k].path) \in Name /\ c[k].path = Append(c[n].path, Last(c[k].path))
    BY <1>1, <2>1, <2>2, ParentFacts
  <2>4. c[k].path \in Dirs(s.camera)
    BY <1>1, <2>1
  <2> QED BY <2>3, <2>4 DEF SubDirs, NameOf
<1>3. ASSUME NEW nm \in real
      PROVE  nm \in K
  <2>1. nm \in Name /\ Append(c[n].path, nm) \in Dirs(s.camera)
    BY DEF SubDirs
  <2>2. Has(c, Append(c[n].path, nm))
    BY <1>1, <2>1 DEF Complete
  <2>3. PICK k \in Cells(c) : KidCalled(c, n, k, nm)
    BY <1>1, <2>1, <2>2, HasKid
  <2>4. k \in Kids(s, n) /\ NameOf(s, k) = nm
    BY <2>3 DEF KidCalled, Kids, NameOf
  <2> QED BY <2>4
<1> HIDE DEF real
<1>4. K \subseteq real /\ real \subseteq K
  BY <1>2, <1>3
<1> QED BY <1>4 DEF real

\* The camera has one more directory, and its parent.
LEMMA ClosedGrown ==
  ASSUME NEW cam, Closed(cam), NEW p \in Seq(Name), p \in Dirs(cam), NEW nm \in Name
  PROVE  Closed(With(cam, {Append(p, nm)}))
<1> DEFINE w == With(cam, {Append(p, nm)})
<1>1. Dirs(w) = Dirs(cam) \union {Append(p, nm)}
  BY DEF With, Dirs
<1> HIDE DEF w
<1>2. ASSUME NEW q \in Seq(Name), NEW x \in Name, Append(q, x) \in Dirs(w)
      PROVE  q \in Dirs(w)
  <2>1. CASE Append(q, x) \in Dirs(cam)
    BY <1>1, <2>1 DEF Closed
  <2>2. CASE Append(q, x) = Append(p, nm)
    <3>1. q = p
      BY <2>2, SameAppend
    <3> QED BY <1>1, <3>1
  <2> QED BY <1>1, <1>2, <2>1, <2>2
<1> QED BY <1>2 DEF Closed, w

\* gp_filesystem_make_dir makes a directory that the camera has not.
LEMMA MakeFolderDoes ==
  ASSUME NEW s, Faithful(s), NEW p \in Path, Len(p) < MaxDepth, NEW nm \in Name
  PROVE  LET r == MakeFolder(s, p, nm)
             q == Append(p, nm)
         IN /\ Faithful(r.s) /\ r.ok \in BOOLEAN
            /\ r.ok <=> p \in Dirs(s.camera) /\ q \notin Dirs(s.camera)
            /\ r.s.camera = IF r.ok THEN With(s.camera, {q}) ELSE s.camera
<1> DEFINE l == Lookup(s, p)
           q == Append(p, nm)
           v == Grown(l.s, {q})
           u == AppendFolderOne(v, l.n, nm)
           fails == CallFails(l.s) \/ p \notin Dirs(l.s.camera) \/ q \in Dirs(l.s.camera)
           r == MakeFolder(s, p, nm)
<1>1. Finds(s, l, p)
  BY LookupFinds
<1>2. r = IF l.ok THEN IF fails THEN Ret(l.s, FALSE, l.n) ELSE Ret(u, TRUE, l.n) ELSE l
  BY DEF MakeFolder, IfOk, Grown
<1> HIDE DEF r, l
<1>3. CASE ~ l.ok
  BY <1>1, <1>2, <1>3 DEF r, Finds, Reads
<1>4. CASE l.ok
  <2>1. /\ Faithful(l.s) /\ l.n \in Cells(l.s.cache) /\ l.s.cache[l.n].path = p
        /\ l.s.camera = s.camera /\ p \in Dirs(s.camera) /\ ~ CallFails(l.s)
        /\ Fine(l.s, Plain) /\ Heap(l.s)
    BY <1>1, <1>4, CalledReads, FaithfulFacts DEF Finds, Reads, Faithful
  <2>2. CASE q \in Dirs(s.camera)
    <3>1. r.s = l.s /\ r.ok = FALSE
      BY <1>2, <1>4, <2>1, <2>2 DEF Ret
    <3> QED BY <2>1, <2>2, <3>1 DEF r
  <2>3. CASE q \notin Dirs(s.camera)
    <3> DEFINE d == Excusing(Plain, {q})
    <3>1. p \in Seq(Name) /\ q \in Seq(Name) /\ q \in Path
      <4>1. p \in Seq(Name) /\ Len(p) \in Nat /\ MaxDepth \in Nat
        BY PathsAreSequences
      <4>2. q \in Seq(Name) /\ Len(q) = Len(p) + 1
        BY <4>1, AppendPath
      <4>3. Len(q) <= MaxDepth
        BY <4>1, <4>2
      <4> QED BY <4>1, <4>2, <4>3, PathsAreSequences
    <3>2. ~ Has(l.s.cache, q)
      BY <2>1, <2>3 DEF Has, Heap
    <3>3. {q} \subseteq Path /\ IsFiniteSet({q})
      BY <3>1, FS_Singleton
    <3>4. /\ Fine(v, d) /\ v.cache = l.s.cache /\ v.camera = With(s.camera, {q})
      <4> HIDE DEF q
      <4> QED BY <2>1, <3>3, GrownFine
    <3>5. /\ Dirs(v.camera) = Dirs(s.camera) \union {q}
          /\ \A y : Files(v.camera, y) = Files(s.camera, y)
      <4>1. IsCamera(s.camera)
        BY FaithfulFacts
      <4> DEFINE w == With(s.camera, {q})
      <4>2. Dirs(w) = Dirs(s.camera) \union {q} /\ \A y : Files(w, y) = Files(s.camera, y)
        <5> HIDE DEF q
        <5> QED BY <3>3, <4>1, WithFacts
      <4>3. v.camera = w
        BY <3>4
      <4> HIDE DEF v, w
      <4> QED BY <4>2, <4>3
    <3>6. q \in Dirs(v.camera) /\ l.n \in Cells(v.cache) /\ v.cache[l.n].path = p
          /\ ~ Has(v.cache, q)
      BY <2>1, <3>2, <3>4, <3>5
    <3>7. Excuses(Plain, d, q)
      BY DEF Excuses, Excusing, Plain, Excuse
    <3>8. /\ Append(v.cache[l.n].path, nm) \in Dirs(v.camera)
          /\ ~ Has(v.cache, Append(v.cache[l.n].path, nm))
          /\ Excuses(Plain, d, Append(v.cache[l.n].path, nm))
      BY <3>6, <3>7
    <3>9. Closed(v.camera)
      BY <2>1, <3>1, <3>4, ClosedGrown DEF Faithful
    <3> HIDE DEF v, d, q
    <3>10. /\ Fine(u, Plain) /\ u.camera = v.camera
           /\ \A k \in Cells(v.cache) : k \in Cells(u.cache) /\ u.cache[k] = v.cache[k]
           /\ \A k \in Cells(u.cache) \ Cells(v.cache) : u.cache[k].files = {}
      <4> DEFINE n == l.n
      <4>1. Fine(v, d) /\ n \in Cells(v.cache)
        BY <3>4, <3>6
      <4> HIDE DEF n
      <4> QED BY <3>8, <4>1, AppendOneFine DEF n
    <3> HIDE DEF u
    <3>11. Real(u, {})
      BY <2>1, <3>4, <3>5, <3>10 DEF Faithful, Real
    <3>12. r.s = u /\ r.ok = TRUE
      BY <1>2, <1>4, <2>1, <2>3 DEF Ret
    <3>13. Faithful(u)
      BY <3>9, <3>10, <3>11 DEF Faithful
    <3> QED BY <2>1, <2>3, <3>4, <3>10, <3>12, <3>13 DEF r, q
  <2> QED BY <2>2, <2>3
<1> QED BY <1>3, <1>4

\* A directory begins with its own path, and its subfolders' paths begin with it.
LEMMA BeginsWith ==
  ASSUME NEW q \in Seq(Name), NEW nm \in Name
  PROVE  IsPrefix(q, q) /\ IsPrefix(q, Append(q, nm))
<1> DEFINE r == Append(q, nm)
<1>1. r \in Seq(Name) /\ Len(r) = Len(q) + 1 /\ \A i \in 1 .. Len(q) : r[i] = q[i]
  BY AppendPath
<1>2. Len(q) \in Nat
  BY LenProperties
<1> HIDE DEF r
<1>3. /\ SubSeq(r, 1, Len(q)) \in Seq(Name) /\ Len(SubSeq(r, 1, Len(q))) = Len(q)
      /\ \A k \in 1 .. Len(q) : SubSeq(r, 1, Len(q))[k] = r[k]
  BY <1>1, <1>2, PathPrefix
<1>4. SubSeq(r, 1, Len(q)) = q
  BY <1>1, <1>2, <1>3, SamePath
<1>5. SubSeq(q, 1, Len(q)) = q
  BY WholePath
<1>6. IsPrefix(q, r)
  BY <1>1, <1>2, <1>4, <1>5 DEF IsPrefix
<1> QED BY <1>6, PrefixFacts DEF r

\* With a directory without subfolders nothing else goes.
LEMMA TreeOfOne ==
  ASSUME NEW cam, Closed(cam), Dirs(cam) \subseteq Path, NEW q \in Path, q \in Dirs(cam)
  PROVE  Tree(cam, q) = {q} <=> SubDirs(cam, q) = {}
<1> DEFINE D == Tree(cam, q)
<1>1. q \in Seq(Name)
  BY PathsAreSequences
<1>2. q \in D
  BY <1>1, PrefixFacts DEF Tree
<1>3. ASSUME D = {q}, NEW nm \in SubDirs(cam, q)
      PROVE  FALSE
  <2>1. nm \in Name /\ Append(q, nm) \in Dirs(cam)
    BY DEF SubDirs
  <2>2. IsPrefix(q, Append(q, nm)) /\ Deeper(q, Append(q, nm)) /\ Append(q, nm) \in Seq(Name)
    BY <1>1, <2>1, BeginsWith, AppendPath
  <2>3. Append(q, nm) # q
    BY <1>1, <2>2, DeeperIsAnOrder
  <2>4. Append(q, nm) \in D
    BY <2>1, <2>2 DEF Tree
  <2> QED BY <1>3, <2>3, <2>4
<1>4. ASSUME SubDirs(cam, q) = {}, NEW d \in D
      PROVE  d = q
  <2>1. d \in Dirs(cam) /\ IsPrefix(q, d) /\ d \in Seq(Name)
    BY PathsAreSequences DEF Tree
  <2>2. d = q \/ Deeper(q, d)
    BY <1>1, <2>1, PrefixFacts
  <2>3. ~ Deeper(q, d)
    BY <1>1, <1>4, <2>1, ClosedStep
  <2> QED BY <2>2, <2>3
<1> HIDE DEF D
<1>5. (SubDirs(cam, q) = {} => D = {q}) /\ (D = {q} => SubDirs(cam, q) = {})
  BY <1>2, <1>3, <1>4
<1> QED BY <1>5 DEF D

\* A directory without files and subfolders.
Bare(cam, q) == q \in Dirs(cam) /\ cam[q] = {} /\ SubDirs(cam, q) = {}

\* A directory of the camera that is bare goes, and its cell.
LEMMA PrunedFaithful ==
  ASSUME NEW t, Faithful(t), NEW k \in Cells(t.cache), k # Root, Kids(t, k) = {},
         Bare(t.camera, t.cache[k].path)
  PROVE  LET q == t.cache[k].path
             u == Pruned(t, k, Tree(t.camera, q))
         IN Faithful(u) /\ u.camera = Restrict(t.camera, Dirs(t.camera) \ {q})
<1> DEFINE q == t.cache[k].path
           D == Tree(t.camera, q)
           u == Pruned(t, k, D)
<1>1. /\ Fine(t, Plain) /\ Heap(t) /\ IsTree(t.cache) /\ IsCamera(t.camera) /\ q \in Path
      /\ q \in Dirs(t.camera)
  BY FaithfulFacts DEF Faithful
<1>2. D = {q}
  BY <1>1, TreeOfOne DEF Bare, Faithful, IsCamera
<1>3. /\ Fine(u, Plain) /\ u.camera = Restrict(t.camera, Dirs(t.camera) \ D)
      /\ Cells(u.cache) = Cells(t.cache) \ {k}
      /\ \A n \in Cells(u.cache) : u.cache[n] = t.cache[n]
  BY <1>1, PrunedFine
<1> HIDE DEF u, D
<1>4. /\ Dirs(u.camera) = Dirs(t.camera) \ {q}
      /\ \A p \in Dirs(u.camera) : u.camera[p] = t.camera[p]
  BY <1>2, <1>3 DEF Restrict, Dirs
<1>5. ASSUME NEW n \in Cells(u.cache), NEW x \in u.cache[n].files
      PROVE  x \in Files(u.camera, u.cache[n].path)
  <2>1. n \in Cells(t.cache) /\ n # k /\ u.cache[n] = t.cache[n]
    BY <1>3
  <2>2. u.cache[n].path # q
    BY <1>1, <2>1 DEF IsTree
  <2>3. x \in Files(t.camera, u.cache[n].path)
    BY <1>5, <2>1 DEF Faithful, Real
  <2> QED BY <1>4, <2>2, <2>3 DEF Files
<1>6. ASSUME NEW p \in Seq(Name), NEW nm \in Name, Append(p, nm) \in Dirs(u.camera)
      PROVE  p \in Dirs(u.camera)
  <2>1. Append(p, nm) \in Dirs(t.camera) /\ p \in Dirs(t.camera)
    BY <1>4, <1>6 DEF Faithful, Closed
  <2>2. p # q
    BY <2>1 DEF Bare, SubDirs
  <2> QED BY <1>4, <2>1, <2>2
<1>7. Real(u, {}) /\ Closed(u.camera)
  BY <1>5, <1>6 DEF Real, Closed
<1>8. Faithful(u)
  BY <1>3, <1>7 DEF Faithful
<1> QED BY <1>2, <1>3, <1>8 DEF u, D

\* gp_filesystem_remove_dir, once the parent folder is clean.
LEMMA RemoveFromDoes ==
  ASSUME ~ RemovesTrees, NEW t, Faithful(t), NEW n \in Cells(t.cache), NEW p \in Path,
         t.cache[n].path = p, ~ t.cache[n].folders_dirty, NEW nm \in Name
  PROVE  LET q == Append(p, nm)
             r == RemoveFrom(t, n, nm, q)
         IN /\ Faithful(r.s) /\ r.ok \in BOOLEAN /\ (r.ok <=> Bare(t.camera, q))
            /\ r.s.camera = IF r.ok THEN Restrict(t.camera, Dirs(t.camera) \ {q}) ELSE t.camera
<1> DEFINE k == Child(t, n, nm)
           q == Append(p, nm)
           tree == Tree(t.camera, q)
           empty == tree = {q} /\ t.camera[q] = {}
           u == Pruned(t, k, tree)
           r == RemoveFrom(t, n, nm, q)
<1>1. /\ Heap(t) /\ IsTree(t.cache) /\ IsCamera(t.camera) /\ ~ t.stale /\ n \notin t.freed
      /\ ~ CallFails(t) /\ Complete(t, {})
      /\ \A m \in Cells(t.cache) : /\ t.cache[m].path \in Path /\ t.cache[m].path \in Dirs(t.camera)
                                   /\ t.cache[m].files \subseteq Files(t.camera, t.cache[m].path)
  BY FaithfulFacts, CalledReads DEF Heap
<1>2. r = IF k = NULL \/ Kids(t, k) # {} \/ t.cache[k].files # {} THEN Ret(t, FALSE, NULL)
          ELSE IF tree = {} \/ ~ empty THEN Ret(t, FALSE, NULL)
          ELSE Ret(u, TRUE, NULL)
  BY <1>1 DEF RemoveFrom
<1>3. /\ k # NULL => k \in Cells(t.cache) /\ t.cache[k].path = q
      /\ Has(t.cache, q) => k # NULL
  BY <1>1, ChildFacts
<1>4. p \in Seq(Name) /\ q \in Seq(Name) /\ q # << >>
  BY PathsAreSequences, AppendPath
<1>5. q \in Dirs(t.camera) => k # NULL
  BY <1>1, <1>3 DEF Complete
<1> HIDE DEF r, u, k
<1>6. CASE k = NULL
  <2>1. r.s = t /\ r.ok = FALSE
    BY <1>2, <1>6 DEF Ret
  <2> QED BY <1>5, <1>6, <2>1 DEF r, Bare
<1>7. CASE k # NULL
  <2>1. /\ k \in Cells(t.cache) /\ t.cache[k].path = q /\ q \in Path /\ q \in Dirs(t.camera)
        /\ t.cache[k].files \subseteq t.camera[q]
    BY <1>1, <1>3, <1>7 DEF Files
  <2>2. tree = {q} <=> SubDirs(t.camera, q) = {}
    BY <1>1, <2>1, TreeOfOne DEF Faithful, IsCamera
  <2>3. empty <=> Bare(t.camera, q)
    BY <2>1, <2>2 DEF Bare
  <2>4. Bare(t.camera, q) => Kids(t, k) = {} /\ t.cache[k].files = {}
    <3>1. ASSUME NEW m \in Kids(t, k)
          PROVE  NameOf(t, m) \in SubDirs(t.camera, q)
      <4>1. m \in Cells(t.cache) /\ t.cache[m].parent = k
        BY DEF Kids
      <4>2. m # Root
        BY <1>1, <1>7, <4>1 DEF IsTree
      <4>3. Last(t.cache[m].path) \in Name /\ t.cache[m].path = Append(q, Last(t.cache[m].path))
        BY <1>1, <2>1, <4>1, <4>2, ParentFacts
      <4> QED BY <1>1, <4>1, <4>3 DEF SubDirs, NameOf
    <3> QED BY <2>1, <3>1 DEF Bare
  <2>5. CASE ~ Bare(t.camera, q)
    <3>1. r = Ret(t, FALSE, NULL)
      BY <1>2, <2>3, <2>5
    <3>2. r.s = t /\ r.ok = FALSE
      BY <3>1 DEF Ret
    <3> QED BY <2>5, <3>2 DEF r
  <2>6. CASE Bare(t.camera, q)
    <3>1. tree # {} /\ empty
      BY <2>3, <2>6
    <3>2. r = Ret(u, TRUE, NULL)
      BY <1>2, <1>7, <2>4, <2>6, <3>1
    <3>3. r.s = u /\ r.ok = TRUE
      BY <3>2 DEF Ret
    <3>4. k # Root
      BY <1>1, <1>4, <2>1 DEF IsTree
    <3> DEFINE o == Pruned(t, k, Tree(t.camera, t.cache[k].path))
    <3>5. Faithful(o) /\ o.camera = Restrict(t.camera, Dirs(t.camera) \ {t.cache[k].path})
      BY <2>1, <2>4, <2>6, <3>4, PrunedFaithful
    <3>6. o = u
      BY <2>1 DEF u
    <3> HIDE DEF o
    <3> QED BY <2>1, <2>6, <3>3, <3>5, <3>6 DEF r
  <2> QED BY <2>5, <2>6
<1> QED BY <1>6, <1>7

\* gp_filesystem_remove_dir removes a directory that is bare.
LEMMA RemoveFolderDoes ==
  ASSUME ~ RemovesTrees, NEW s, Faithful(s), NEW p \in Path, NEW nm \in Name
  PROVE  LET q == Append(p, nm)
             r == RemoveFolder(s, p, nm)
         IN /\ Faithful(r.s) /\ r.ok \in BOOLEAN /\ (r.ok <=> Bare(s.camera, q))
            /\ r.s.camera = IF r.ok THEN Restrict(s.camera, Dirs(s.camera) \ {q}) ELSE s.camera
<1> DEFINE l == Lookup(s, p)
           n == l.n
           b == ListFolders(l.s, p)
           t == IF l.s.cache[n].folders_dirty THEN b.s ELSE l.s
           q == Append(p, nm)
           r == RemoveFolder(s, p, nm)
<1>1. Finds(s, l, p)
  BY LookupFinds
<1>2. r = IF l.ok THEN RemoveFrom(t, n, nm, q) ELSE l
  BY DEF RemoveFolder, IfOk, RemoveFrom, Tree, Pruned
<1>3. Finds(l.s, b, p) /\ (b.ok => ~ b.s.cache[b.n].folders_dirty)
  BY <1>1, ListFoldersFinds DEF Finds, Reads
<1>4. p \in Seq(Name)
  BY PathsAreSequences
<1> HIDE DEF l, r, b
<1>5. CASE ~ l.ok
  <2>1. q \notin Dirs(s.camera)
    BY <1>1, <1>4, <1>5 DEF Finds, Faithful, Closed
  <2> QED BY <1>1, <1>2, <1>5, <2>1 DEF r, Bare, Finds, Reads
<1>6. CASE l.ok
  <2>1. /\ Faithful(l.s) /\ n \in Cells(l.s.cache) /\ l.s.cache[n].path = p
        /\ l.s.camera = s.camera /\ p \in Dirs(s.camera) /\ Clear(l.s, p)
        /\ SteadyBad(l.s.bad)
    BY <1>1, <1>6, FaithfulFacts DEF Finds, Reads
  <2>2. /\ Faithful(t) /\ t.camera = s.camera /\ n \in Cells(t.cache)
        /\ t.cache[n].path = p /\ ~ t.cache[n].folders_dirty
    <3>1. CASE ~ l.s.cache[n].folders_dirty
      BY <2>1, <3>1
    <3>2. CASE l.s.cache[n].folders_dirty
      <4>1. /\ b.ok /\ ~ b.s.cache[b.n].folders_dirty /\ Faithful(b.s) /\ b.s.camera = s.camera
            /\ b.n \in Cells(b.s.cache) /\ b.s.cache[b.n].path = p /\ Onward(l.s, b.s)
        BY <1>3, <2>1 DEF Finds, Reads
      <4>2. n \in Cells(b.s.cache) /\ b.s.cache[n].path = p
        BY <2>1, <4>1 DEF Onward, Firm
      <4>3. b.n = n
        BY <4>1, <4>2, FaithfulFacts DEF IsTree
      <4> QED BY <3>2, <4>1, <4>3
    <3> QED BY <3>1, <3>2
  <2> HIDE DEF t
  <2> DEFINE o == RemoveFrom(t, n, nm, Append(p, nm))
  <2>3. /\ Faithful(o.s) /\ o.ok \in BOOLEAN /\ (o.ok <=> Bare(t.camera, q))
        /\ o.s.camera = IF o.ok THEN Restrict(t.camera, Dirs(t.camera) \ {q}) ELSE t.camera
    BY <2>2, RemoveFromDoes
  <2> QED BY <1>2, <1>6, <2>2, <2>3 DEF r
<1> QED BY <1>5, <1>6

-----------------------------------------------------------------------------
(***************************************************************************)
(* gp_filesystem_scan goes through all the folders that the camera has: by *)
(* induction over the depth, and over the subfolders of a folder.          *)
(***************************************************************************)

\* A folder that has been listed has the file x.
Seen(s, x) ==
  \E n \in Cells(s.cache) :
    /\ Clear(s, s.cache[n].path) /\ ~ s.cache[n].files_dirty /\ x \in s.cache[n].files

\* What has been seen is still there after more has been read.
LEMMA SeenStays ==
  ASSUME NEW s, Faithful(s), NEW t, Reads(s, t), NEW x, Seen(s, x)
  PROVE  Seen(t, x)
<1>1. PICK n \in Cells(s.cache) :
        Clear(s, s.cache[n].path) /\ ~ s.cache[n].files_dirty /\ x \in s.cache[n].files
  BY DEF Seen
<1>2. SteadyBad(s.bad) /\ Faithful(t) /\ t.camera = s.camera
  BY FaithfulFacts DEF Reads
<1> DEFINE p == s.cache[n].path
<1>3. s.cache[n].files = s.camera[p]
  BY <1>1, HereFaithful
<1>4. /\ Clear(t, p) /\ n \in Cells(t.cache) /\ t.cache[n].path = p
      /\ ~ t.cache[n].files_dirty
  <2> HIDE DEF p
  <2>1. p = s.cache[n].path
    BY DEF p
  <2> QED BY <1>1, <1>2, <2>1, FoundAgain
<1>5. t.cache[n].files = t.camera[p]
  <2> HIDE DEF p
  <2> QED BY <1>2, <1>4, HereFaithful
<1> QED BY <1>1, <1>2, <1>3, <1>4, <1>5 DEF Seen

\* The path p is q, or below it.
Under(q, p) == p = q \/ Deeper(q, p)

\* The file x has been seen if it is in the folder q, or in one of those below it
\* that are less than d levels deeper.
Scanned(t, r, q, d, x) ==
  /\ Reads(t, r.s) /\ r.ok = TRUE
  /\ \A p \in Dirs(t.camera) :
       Under(q, p) /\ Len(p) < Len(q) + d /\ x \in t.camera[p] => Seen(r.s, x)

\* The function deep scans d levels of the folders that the camera has.
ScansFor(deep, s, d, x) ==
  \A t \in Records(s), q \in Path :
    Faithful(t) /\ q \in Dirs(t.camera) => Scanned(t, deep[t][q], q, d, x)

\* The scan of the subfolders, by induction over their number.
LEMMA DescentScans ==
  ASSUME NEW deep, NEW s, NEW e \in Nat, NEW x, ScansFor(deep, s, e, x),
         NEW d, d.s \in Records(s), Faithful(d.s), d.ok = TRUE, NEW p \in Path,
         d.n \in Cells(d.s.cache), d.s.cache[d.n].path = p, ~ d.s.cache[d.n].folders_dirty
  PROVE  LET r == Descent(deep, d, p)
         IN /\ Reads(d.s, r.s) /\ r.ok = TRUE
            /\ \A q \in Dirs(d.s.camera) :
                 Deeper(p, q) /\ Len(q) < Len(p) + 1 + e /\ x \in d.s.camera[q] => Seen(r.s, x)
<1> DEFINE cam == d.s.camera
<1>1. IsTree(d.s.cache) /\ IsCamera(cam) /\ Closed(cam) /\ p \in Seq(Name)
  BY FaithfulFacts, PathsAreSequences DEF Faithful
<1>2. PICK names, f : DescentBy(deep, d, p, names, f)
  BY <1>1, DescentSteps
<1> DEFINE L == Len(names)
<1>3. /\ L \in Nat /\ \A k \in 0 .. L : f[k] = DescendStep(deep, d, p, names, f, k)
      /\ Descent(deep, d, p) = f[L]
      /\ \A k \in 1 .. L : names[k] \in KidNames(d) /\ Append(p, names[k]) \in Path
      /\ \A nm \in KidNames(d) : \E k \in 1 .. L : names[k] = nm
  BY <1>2 DEF DescentBy
<1>4. KidNames(d) = SubDirs(cam, p)
  BY CleanFoldersAre DEF KidNames
<1> HIDE DEF L
<1> DEFINE Wanted(i, q) ==
             /\ Under(Append(p, names[i]), q) /\ Len(q) < Len(p) + 1 + e /\ x \in cam[q]
           Good(k) == /\ Reads(d.s, f[k].s) /\ f[k].ok = TRUE
                      /\ \A i \in 1 .. k, q \in Dirs(cam) : Wanted(i, q) => Seen(f[k].s, x)
           T == {k \in 0 .. L : ~ Good(k)}
<1>5. ASSUME NEW j \in T, \A k \in T : j <= k
      PROVE  FALSE
  <2>1. j \in 0 .. L /\ ~ Good(j) /\ f[j] = DescendStep(deep, d, p, names, f, j)
    BY <1>3
  <2>2. CASE j = 0
    <3>1. f[j] = d
      BY <2>1, <2>2 DEF DescendStep
    <3>2. 1 .. j = {}
      BY <2>2
    <3>3. Good(j)
      <4> HIDE DEF Wanted
      <4> QED BY <3>1, <3>2, ReadsSelf
    <3> QED BY <2>1, <3>3
  <2>3. CASE j # 0
    <3>1. j - 1 \in 0 .. L /\ j - 1 \notin T /\ j \in 1 .. L
      BY <1>3, <1>5, <2>1, <2>3
    <3>2. Good(j - 1)
      BY <3>1
    <3> DEFINE v == f[j - 1].s
               w == Append(p, names[j])
               r == deep[v][w]
    <3>3. f[j] = r
      BY <2>1, <2>3, <3>2 DEF DescendStep
    <3>4. Reads(d.s, v) /\ Faithful(v) /\ v.camera = cam /\ v.bad = {} /\ d.s.bad = {}
      BY <3>2, FaithfulFacts DEF Reads
    <3>5. w \in Path /\ w \in Dirs(cam) /\ Len(w) = Len(p) + 1
      <4>1. names[j] \in SubDirs(cam, p)
        BY <1>3, <1>4, <3>1
      <4> QED BY <1>1, <1>3, <3>1, <4>1, AppendPath DEF SubDirs
    <3> HIDE DEF v, r
    <3>6. v \in Records(s)
      <4>1. v.camera = s.camera /\ v.bad = s.bad /\ Heap(v)
        BY <3>4, FaithfulFacts DEF Records
      <4> QED BY <4>1, SameRecords
    <3>7. Scanned(v, r, w, e, x)
      <4> HIDE DEF w
      <4> QED BY <3>4, <3>5, <3>6 DEF ScansFor, r
    <3>8. Reads(v, r.s) /\ Reads(d.s, r.s) /\ r.ok = TRUE
      BY <3>4, <3>7, ReadsOn DEF Scanned
    <3>9. ASSUME NEW i \in 1 .. j, NEW q \in Dirs(cam), Wanted(i, q)
          PROVE  Seen(r.s, x)
      <4>1. CASE i = j
        <5>1. Under(w, q) /\ Len(q) < Len(w) + e /\ q \in Dirs(v.camera) /\ x \in v.camera[q]
          BY <3>4, <3>5, <3>9, <4>1
        <5> HIDE DEF w
        <5> QED BY <3>7, <5>1 DEF Scanned
      <4>2. CASE i # j
        <5>1. i \in 1 .. (j - 1)
          BY <3>1, <3>9, <4>2
        <5>2. Seen(v, x)
          <6> HIDE DEF Wanted
          <6> QED BY <3>2, <3>9, <5>1 DEF v
        <5> QED BY <3>4, <3>8, <5>2, SeenStays
      <4> QED BY <4>1, <4>2
    <3>10. Good(j)
      <4> HIDE DEF Wanted
      <4> QED BY <3>3, <3>8, <3>9
    <3> QED BY <2>1, <3>10
  <2> QED BY <2>2, <2>3
<1>6. T = {}
  <2>1. T \subseteq Nat
    BY <1>3
  <2> HIDE DEF T
  <2> QED BY <1>5, <2>1, LeastNat
<1>7. L \in 0 .. L /\ L \notin T
  BY <1>3, <1>6
<1>8. Good(L)
  <2> HIDE DEF Good
  <2> QED BY <1>7
<1>9. ASSUME NEW q \in Dirs(cam), Deeper(p, q), Len(q) < Len(p) + 1 + e, x \in cam[q]
      PROVE  Seen(f[L].s, x)
  <2>1. q \in Seq(Name)
    BY <1>1, PathsAreSequences DEF IsCamera
  <2>2. PICK nm \in SubDirs(cam, p) : q = Append(p, nm) \/ Deeper(Append(p, nm), q)
    BY <1>1, <1>9, <2>1, ClosedStep
  <2>3. PICK i \in 1 .. L : names[i] = nm
    BY <1>3, <1>4, <2>2
  <2>4. Wanted(i, q)
    BY <1>9, <2>2, <2>3 DEF Under
  <2> HIDE DEF Wanted
  <2> QED BY <1>8, <2>4
<1> QED BY <1>3, <1>8, <1>9

\* gp_filesystem_scan of one folder, if it goes on below it.
LEMMA ScanFolderScans ==
  ASSUME NEW deep, NEW s, NEW e \in Nat, NEW x, ScansFor(deep, s, e, x),
         NEW t \in Records(s), Faithful(t), NEW p \in Path, p \in Dirs(t.camera)
  PROVE  Scanned(t, ScanFolder(deep, t, p, x), p, e + 1, x)
<1> DEFINE a == ListFiles(t, p)
           b == ListFolders(a.s, p)
           c == Descent(deep, b, p)
           r == ScanFolder(deep, t, p, x)
<1>1. /\ Finds(t, a, p)
      /\ a.ok => ~ a.s.cache[a.n].files_dirty /\ a.s.cache[a.n].files = t.camera[p]
  BY ListFilesFinds
<1>2. r = IF a.ok
          THEN IF x \in a.s.cache[a.n].files THEN a ELSE IF b.ok THEN c ELSE b
          ELSE a
  BY ScanFolderIs
<1>3. Finds(a.s, b, p) /\ (b.ok => ~ b.s.cache[b.n].folders_dirty)
  BY <1>1, ListFoldersFinds DEF Finds, Reads
<1> HIDE DEF a, b, r
<1>4. /\ a.ok = TRUE /\ Reads(t, a.s) /\ a.s.camera = t.camera /\ Clear(a.s, p)
      /\ a.n \in Cells(a.s.cache) /\ a.s.cache[a.n].path = p
  BY <1>1 DEF Finds, Reads
<1>5. CASE x \in t.camera[p]
  <2>1. r = a
    BY <1>1, <1>2, <1>4, <1>5
  <2>2. Seen(a.s, x)
    BY <1>1, <1>4, <1>5 DEF Seen
  <2> QED BY <1>4, <2>1, <2>2 DEF Scanned, r
<1>6. CASE x \notin t.camera[p]
  <2>1. /\ b.ok = TRUE /\ Reads(t, b.s) /\ b.s.camera = t.camera /\ Faithful(b.s)
        /\ b.n \in Cells(b.s.cache) /\ b.s.cache[b.n].path = p
        /\ ~ b.s.cache[b.n].folders_dirty
    <3>1. Finds(t, b, p)
      BY <1>3, <1>4, FindsOn
    <3> QED BY <1>3, <3>1 DEF Finds, Reads
  <2>2. r = c
    BY <1>1, <1>2, <1>4, <1>6, <2>1
  <2>3. b.s \in Records(s)
    <3>1. b.s.camera = s.camera /\ b.s.bad = s.bad /\ Heap(b.s)
      BY <2>1, FaithfulFacts DEF Records
    <3> QED BY <3>1, SameRecords
  <2>4. /\ Reads(b.s, c.s) /\ c.ok = TRUE
        /\ \A q \in Dirs(t.camera) :
             Deeper(p, q) /\ Len(q) < Len(p) + 1 + e /\ x \in t.camera[q] => Seen(c.s, x)
    <3> HIDE DEF b
    <3>1. /\ Reads(b.s, c.s) /\ c.ok = TRUE
          /\ \A q \in Dirs(b.s.camera) :
               Deeper(p, q) /\ Len(q) < Len(p) + 1 + e /\ x \in b.s.camera[q] => Seen(c.s, x)
      BY <2>1, <2>3, DescentScans
    <3> HIDE DEF c
    <3> QED BY <2>1, <3>1
  <2> HIDE DEF c
  <2>5. ASSUME NEW q \in Dirs(t.camera), Under(p, q), Len(q) < Len(p) + (e + 1),
               x \in t.camera[q]
        PROVE  Seen(c.s, x)
    <3>1. Deeper(p, q)
      BY <1>6, <2>5 DEF Under
    <3>2. Len(p) \in Nat /\ Len(q) \in Nat
      <4>1. IsCamera(t.camera)
        BY FaithfulFacts
      <4> QED BY <4>1, PathsAreSequences DEF IsCamera
    <3>3. Len(q) < Len(p) + 1 + e
      BY <2>5, <3>2
    <3> QED BY <2>4, <2>5, <3>1, <3>3
  <2>6. Reads(t, c.s)
    BY <2>1, <2>4, ReadsOn
  <2> QED BY <2>2, <2>4, <2>5, <2>6 DEF Scanned, r
<1> QED BY <1>5, <1>6

\* gp_filesystem_scan, by induction over the depth, from the folder "/".
LEMMA ScanScans ==
  ASSUME NEW s, Faithful(s), NEW x
  PROVE  LET r == Scan(s, << >>, x)
         IN /\ Reads(s, r.s) /\ r.ok = TRUE
            /\ \A p \in Dirs(s.camera) : x \in s.camera[p] => Seen(r.s, x)
<1> DEFINE L == MaxDepth + 1
<1>1. L \in Nat
  BY BoundAssumption
<1> HIDE DEF L
<1>2. PICK f : ScanBy(s, x, L, f)
  BY ScanSteps DEF L
<1> DEFINE T == {d \in 0 .. L : ~ ScansFor(f[d], s, d, x)}
<1>3. ASSUME NEW j \in T, \A k \in T : j <= k
      PROVE  FALSE
  <2>1. j \in 0 .. L /\ ~ ScansFor(f[j], s, j, x)
    OBVIOUS
  <2>2. PICK t \in Records(s), q \in Path :
          Faithful(t) /\ q \in Dirs(t.camera) /\ ~ Scanned(t, f[j][t][q], q, j, x)
    BY <2>1 DEF ScansFor
  <2>3. f[j][t][q] = IF j = 0 THEN Ret(t, TRUE, NULL) ELSE ScanFolder(f[j - 1], t, q, x)
    BY <1>2, <2>1 DEF ScanBy
  <2>4. CASE j = 0
    <3>1. f[j][t][q].s = t /\ f[j][t][q].ok = TRUE
      BY <2>3, <2>4 DEF Ret
    <3>2. ASSUME NEW p \in Dirs(t.camera), Under(q, p), Len(p) < Len(q) + 0
          PROVE  FALSE
      <4>1. Len(q) \in Nat /\ Len(p) \in Nat /\ Len(q) <= Len(p)
        <5>1. IsCamera(t.camera)
          BY <2>2, FaithfulFacts
        <5>2. Len(q) \in Nat /\ Len(p) \in Nat
          BY <5>1, PathsAreSequences DEF IsCamera
        <5> QED BY <3>2, <5>2 DEF Under, Deeper
      <4> QED BY <3>2, <4>1
    <3>3. Scanned(t, f[j][t][q], q, j, x)
      BY <2>2, <2>4, <3>1, <3>2, ReadsSelf DEF Scanned
    <3> QED BY <2>2, <3>3
  <2>5. CASE j # 0
    <3>1. j - 1 \in 0 .. L /\ j - 1 \notin T /\ j - 1 \in Nat /\ (j - 1) + 1 = j
      BY <1>1, <1>3, <2>1, <2>5
    <3>2. ScansFor(f[j - 1], s, j - 1, x)
      BY <3>1
    <3>3. Scanned(t, ScanFolder(f[j - 1], t, q, x), q, (j - 1) + 1, x)
      BY <2>2, <3>1, <3>2, ScanFolderScans
    <3> QED BY <2>2, <2>3, <2>5, <3>1, <3>3
  <2> QED BY <2>4, <2>5
<1>4. T = {}
  <2>1. T \subseteq Nat
    BY <1>1
  <2> HIDE DEF T
  <2> QED BY <1>3, <2>1, LeastNat
<1>5. ScansFor(f[L], s, L, x)
  BY <1>1, <1>4
<1>6. s \in Records(s) /\ IsCamera(s.camera) /\ << >> \in Path
  BY FaithfulFacts, SameRecords, PathsAreSequences
<1>7. Scanned(s, f[L][s][<< >>], << >>, L, x)
  BY <1>5, <1>6 DEF ScansFor, IsCamera
<1>8. Scan(s, << >>, x) = f[L][s][<< >>]
  BY <1>2 DEF ScanBy
<1>9. ASSUME NEW p \in Dirs(s.camera)
      PROVE  Under(<< >>, p) /\ Len(p) < Len(<< >>) + L
  <2>1. p \in Seq(Name) /\ Len(p) \in 0 .. MaxDepth /\ MaxDepth \in Nat /\ Len(<< >>) = 0
    BY <1>6, PathsAreSequences DEF IsCamera
  <2>2. p = << >> \/ Len(p) > 0
    BY <2>1, EmptySeq
  <2> QED BY <2>1, <2>2 DEF Under, Deeper, L
<1> QED BY <1>7, <1>8, <1>9 DEF Scanned

\* gp_filesystem_get_folder finds a file if the camera has it in any of its folders.
LEMMA GetFolderDoes ==
  ASSUME NEW s, Faithful(s), NEW x
  PROVE  LET r == Scan(s, << >>, x)
         IN /\ Faithful(r.s) /\ r.ok = TRUE /\ r.s.camera = s.camera
            /\ (\E n \in Cells(r.s.cache) : x \in r.s.cache[n].files)
               <=> \E p \in Dirs(s.camera) : x \in s.camera[p]
<1> DEFINE r == Scan(s, << >>, x)
<1>1. /\ Faithful(r.s) /\ r.ok = TRUE /\ r.s.camera = s.camera
      /\ \A p \in Dirs(s.camera) : x \in s.camera[p] => Seen(r.s, x)
  BY ScanScans DEF Reads
<1> HIDE DEF r
<1>2. ASSUME NEW n \in Cells(r.s.cache), x \in r.s.cache[n].files
      PROVE  \E p \in Dirs(s.camera) : x \in s.camera[p]
  BY <1>1, <1>2, HereFaithful
<1>3. ASSUME NEW p \in Dirs(s.camera), x \in s.camera[p]
      PROVE  \E n \in Cells(r.s.cache) : x \in r.s.cache[n].files
  BY <1>1, <1>3 DEF Seen
<1> QED BY <1>1, <1>2, <1>3 DEF r

-----------------------------------------------------------------------------
(***************************************************************************)
(* What the driver tells of: a captured file, and one that has gone.       *)
(***************************************************************************)

\* A cell's files are written; nothing else is.
LEMMA WrittenThere ==
  ASSUME NEW s, Heap(s), NEW n \in Cells(s.cache), NEW A \in SUBSET FileName
  PROVE  LET u == FilesWritten(s, n, A)
         IN /\ Cells(u.cache) = Cells(s.cache) /\ u.camera = s.camera
            /\ u.cache[n].files = A /\ u.cache[n].path = s.cache[n].path
            /\ \A m \in Cells(s.cache) : m # n => u.cache[m] = s.cache[m]
            /\ \A m \in Cells(u.cache) : u.cache[m].path = s.cache[n].path => m = n
<1> DEFINE u == FilesWritten(s, n, A)
           f == Refilled(s.cache[n], A, s.cache[n].files_dirty)
           c == [s.cache EXCEPT ![n] = f]
<1>1. /\ s \in Progress /\ n \in 1 .. Len(s.cache) /\ s.cache[n] \in Folder
      /\ s.cache[n].files_dirty \in BOOLEAN /\ IsTree(s.cache)
  BY CellParts DEF Heap
<1>2. u = Edited(s, n, f, s.camera)
  BY <1>1, CellEdits
<1>3. f \in Folder /\ f.path = s.cache[n].path /\ f.parent = s.cache[n].parent /\ f.files = A
  BY <1>1, RefilledFacts
<1>4. s.cache \in Seq(Folder)
  BY <1>1 DEF IsTree
<1> HIDE DEF u, f
<1>5. /\ c \in Seq(Folder) /\ Len(c) = Len(s.cache) /\ c[n] = f
      /\ \A m \in 1 .. Len(s.cache) : m # n => c[m] = s.cache[m]
  BY <1>1, <1>3, <1>4, ExceptSeq
<1> HIDE DEF c
<1>6. u.cache = c /\ u.camera = s.camera
  BY <1>2 DEF Edited, c
<1>7. Cells(c) = Cells(s.cache) /\ \A m \in Cells(s.cache) : m \in 1 .. Len(s.cache)
  BY <1>1, <1>3, <1>5 DEF Cells
<1>8. \A m \in Cells(s.cache) : m # n => c[m] = s.cache[m]
  BY <1>5, <1>7
<1>9. \A m \in Cells(s.cache) : s.cache[m].path = s.cache[n].path => m = n
  BY <1>1 DEF IsTree
<1> QED BY <1>3, <1>5, <1>6, <1>7, <1>8, <1>9 DEF u

\* The files A of a cell, written there, are real.
LEMMA RealFiles ==
  ASSUME NEW s, Heap(s), NEW L, Real(s, L), NEW n \in Cells(s.cache),
         NEW A \in SUBSET FileName,
         \A x \in A : x \in Files(s.camera, s.cache[n].path) \/ <<s.cache[n].path, x>> \in L
  PROVE  Real(FilesWritten(s, n, A), L) /\ FilesWritten(s, n, A).camera = s.camera
<1> DEFINE u == FilesWritten(s, n, A)
<1>1. /\ Cells(u.cache) = Cells(s.cache) /\ u.camera = s.camera
      /\ u.cache[n].files = A /\ u.cache[n].path = s.cache[n].path
      /\ \A m \in Cells(s.cache) : m # n => u.cache[m] = s.cache[m]
  BY WrittenThere
<1> HIDE DEF u
<1>2. \A x \in u.cache[n].files :
        x \in Files(u.camera, s.cache[n].path) \/ <<s.cache[n].path, x>> \in L
  BY <1>1
<1>3. Real(u, L)
  BY <1>1, <1>2, RealWritten
<1> QED BY <1>1, <1>3 DEF u

\* A file that is still to be appended is on the camera.
LEMMA RealAnyway ==
  ASSUME NEW s, NEW p, NEW x, x \in Files(s.camera, p)
  PROVE  Real(s, {<<p, x>>}) <=> Real(s, {})
BY DEF Real

\* Where a clean folder misses at most the last folder of p, nothing but that one is
\* created.
LEMMA CreatesTheLast ==
  ASSUME NEW s, NEW d, Fine(s, d), NEW p \in Path, s.bad = {}, Clear(s, p), Complete(s, {p}),
         \A q \in Prefixes(p) : q \in Dirs(s.camera), NEW r, Created(s, p, r)
  PROVE  /\ r.n \in Cells(r.s.cache) /\ r.s.cache[r.n].path = p /\ r.s.camera = s.camera
         /\ Real(s, {}) => Real(r.s, {})
<1>1. PICK j \in 1 .. Len(p), m \in Cells(s.cache) :
        /\ s.cache[m].path = SubSeq(p, 1, j - 1)
        /\ ~ Has(s.cache, SubSeq(p, 1, j))
        /\ r.s = AppendFolderOne(s, m, p[j])
        /\ r.n \in Cells(r.s.cache) /\ r.s.cache[r.n].path = SubSeq(p, 1, j)
  BY DEF Created
<1>2. p \in Seq(Name) /\ Len(p) \in Nat /\ j \in 0 .. Len(p) /\ j - 1 \in 0 .. Len(p)
      /\ j - 1 < Len(p) /\ j # 0
  BY PathsAreSequences
<1> DEFINE q == SubSeq(p, 1, j)
<1>3. p[j] \in Name /\ q = Append(s.cache[m].path, p[j]) /\ Deeper(s.cache[m].path, p)
  <2>1. p[j] \in Name /\ q = Append(SubSeq(p, 1, j - 1), p[j])
    BY <1>2, PathPrefix
  <2>2. Deeper(SubSeq(p, 1, j - 1), p)
    BY <1>2, PathPrefix
  <2> QED BY <1>1, <2>1, <2>2
<1>4. q \in Dirs(s.camera)
  BY <1>2, PrefixesFacts
<1>5. ~ s.cache[m].folders_dirty
  BY <1>3 DEF Clear, Gone, CallFails
<1> HIDE DEF q
<1>6. ~ Has(s.cache, q) /\ r.s.cache[r.n].path = q
  BY <1>1 DEF q
<1>7. q = p
  BY <1>3, <1>4, <1>5, <1>6 DEF Complete
<1>8. /\ r.s.camera = s.camera
      /\ \A k \in Cells(s.cache) : k \in Cells(r.s.cache) /\ r.s.cache[k] = s.cache[k]
      /\ \A k \in Cells(r.s.cache) \ Cells(s.cache) : r.s.cache[k].files = {}
  <2> DEFINE t == AppendFolderOne(s, m, p[j])
  <2>1. Excuses(d, d, Append(s.cache[m].path, p[j]))
    BY DEF Excuses
  <2>2. /\ p[j] \in Name /\ Append(s.cache[m].path, p[j]) \in Dirs(s.camera)
        /\ ~ Has(s.cache, Append(s.cache[m].path, p[j]))
    BY <1>3, <1>4, <1>6
  <2>3. /\ t.camera = s.camera
        /\ \A k \in Cells(s.cache) : k \in Cells(t.cache) /\ t.cache[k] = s.cache[k]
        /\ \A k \in Cells(t.cache) \ Cells(s.cache) : t.cache[k].files = {}
    BY <2>1, <2>2, AppendOneFine
  <2>4. r.s = t
    BY <1>1
  <2> HIDE DEF t
  <2> QED BY <2>3, <2>4
<1>9. ASSUME Real(s, {}), NEW k \in Cells(r.s.cache), NEW x \in r.s.cache[k].files
      PROVE  x \in Files(r.s.camera, r.s.cache[k].path)
  <2>1. k \in Cells(s.cache) /\ r.s.cache[k] = s.cache[k]
    BY <1>8, <1>9
  <2> QED BY <1>8, <1>9, <2>1 DEF Real
<1> QED BY <1>1, <1>6, <1>7, <1>8, <1>9 DEF Real

\* The file x, that the camera has, goes into the cell of its folder.
LEMMA AppendToReal ==
  ASSUME NEW f, NEW d, Fine(f.s, d), d.files, NEW p \in Path, NEW x \in FileName,
         d.loose \subseteq {<<p, x>>}, x \in Files(f.s.camera, p), f.n \in Cells(f.s.cache),
         f.s.cache[f.n].path = p, SteadyBad(f.s.bad) => Clear(f.s, p), Real(f.s, {})
  PROVE  Real(AppendTo(f, p, x).s, {}) /\ AppendTo(f, p, x).s.camera = f.s.camera
<1> DEFINE n == f.n
           c == CleanFiles(f.s, n, p)
           r == AppendTo(f, p, x)
<1>1. /\ Goes(f.s, c, d) /\ c.s.camera = f.s.camera /\ c.ok
      /\ n \in Cells(c.s.cache) /\ c.s.cache[n].path = p /\ c.n = n
  BY CleanFilesFine
<1>2. Real(c.s, {<<p, x>>})
  <2>1. Real(f.s, {<<p, x>>})
    BY RealAnyway
  <2> QED BY <2>1, RealCleaned
<1>3. r = IF c.ok THEN AddedTo(c, x) ELSE c
  BY DEF AppendTo
<1> HIDE DEF c, r
<1> DEFINE A == c.s.cache[n].files \union {x}
<1>4. r.s = FilesWritten(c.s, n, A)
  BY <1>1, <1>3 DEF AddedTo, Ret
<1>5. Heap(c.s) /\ c.s.cache[n].files \in SUBSET FileName
  BY <1>1, CellParts DEF Goes, Fine
<1>6. Real(c.s, {}) /\ x \in Files(c.s.camera, p)
  BY <1>1, <1>2, RealAnyway
<1>7. /\ A \in SUBSET FileName
      /\ \A y \in A : y \in Files(c.s.camera, c.s.cache[n].path)
  BY <1>1, <1>5, <1>6 DEF Real
<1> HIDE DEF A
<1>8. Real(FilesWritten(c.s, n, A), {}) /\ FilesWritten(c.s, n, A).camera = c.s.camera
  BY <1>1, <1>5, <1>6, <1>7, RealFiles
<1> QED BY <1>1, <1>4, <1>8 DEF r

\* gp_filesystem_append, for a file of the camera, of a folder of which no more than
\* the last name is new: the cells still have files that the camera has.
LEMMA AppendFileReal ==
  ASSUME NEW s, NEW p \in Path, NEW x \in FileName, NEW d, Fine(s, d), d.files = TRUE,
         d.dirs = Prefixes(p), d.loose = {<<p, x>>}, Complete(s, {p}), Real(s, {}),
         \A q \in Prefixes(p) : q \in Dirs(s.camera), x \in Files(s.camera, p)
  PROVE  Real(AppendFile(s, p, x).s, {}) /\ AppendFile(s, p, x).s.camera = s.camera
<1> DEFINE l == Lookup(s, p)
           a == AppendFolder(l.s, p)
           f == IF l.s.stale \/ l.ok THEN l ELSE a
           r == AppendFile(s, p, x)
<1>1. s.bad = {} /\ SteadyBad(s.bad) /\ Heap(s)
  BY NoFailureIsSteady DEF Fine
<1>2. /\ Yields(s, l, p, d) /\ Looked(s, l.s, Len(p)) /\ (l.ok <=> Has(l.s.cache, p))
  BY <1>1, LookupFine
<1>3. r = IF f.ok THEN AppendTo(f, p, x) ELSE f
  BY AppendFileIs
<1> HIDE DEF l, r
<1>4. /\ Fine(l.s, d) /\ l.s.camera = s.camera /\ l.s.bad = {} /\ Clear(l.s, p) /\ ~ l.s.stale
      /\ Complete(l.s, {p}) /\ Real(l.s, {})
  <2>1. Fine(l.s, d) /\ Clear(l.s, p) /\ l.s.camera = s.camera /\ l.s.bad = {}
    BY <1>1, <1>2, LookedRecord DEF Yields
  <2>2. ~ l.s.stale
    BY <1>1, <2>1 DEF Fine
  <2>3. Complete(l.s, {p})
    BY <1>2 DEF Looked
  <2>4. Real(l.s, {})
    BY <1>1, <1>2, RealLooked
  <2> QED BY <2>1, <2>2, <2>3, <2>4
<1>5. CASE l.ok
  <2>1. l.n \in Cells(l.s.cache) /\ l.s.cache[l.n].path = p /\ x \in Files(l.s.camera, p)
    BY <1>2, <1>4, <1>5 DEF Yields
  <2>2. Real(AppendTo(l, p, x).s, {}) /\ AppendTo(l, p, x).s.camera = l.s.camera
    BY <1>4, <2>1, AppendToReal
  <2> QED BY <1>3, <1>4, <1>5, <2>2 DEF r
<1>6. CASE ~ l.ok
  <2>1. \A q \in Prefixes(p) : q \in Dirs(l.s.camera)
    BY <1>4
  <2>2. a.ok = TRUE /\ (Reached(l.s, p, Len(p), a) \/ Created(l.s, p, a))
    BY <1>4, <2>1, ToFacts DEF Fine
  <2>3. ~ Reached(l.s, p, Len(p), a)
    <3>1. SubSeq(p, 1, Len(p)) = p
      BY PathsAreSequences, WholePath
    <3> QED BY <1>2, <1>6, <3>1 DEF Reached, Has
  <2>4. /\ a.n \in Cells(a.s.cache) /\ a.s.cache[a.n].path = p /\ a.s.camera = l.s.camera
        /\ Real(a.s, {})
    <3> HIDE DEF a
    <3> QED BY <1>4, <2>1, <2>2, <2>3, CreatesTheLast
  <2> DEFINE e == Excuse(TRUE, {}, {<<p, x>>})
  <2>5. e.files = TRUE /\ e.loose = {<<p, x>>}
    BY DEF Excuse
  <2> HIDE DEF e
  <2>6. Fine(a.s, e) /\ Onward(l.s, a.s) /\ (SteadyBad(l.s.bad) => Clear(a.s, p))
    <3> DEFINE g == AppendFolder(l.s, p)
    <3>1. /\ Fine(l.s, d) /\ \A q \in Prefixes(p) : q \in Dirs(l.s.camera)
          /\ d.dirs = Prefixes(p) /\ e.files = d.files /\ e.loose = d.loose
      BY <1>4, <2>1, <2>5
    <3>2. /\ Fine(g.s, e) /\ Onward(l.s, g.s)
          /\ SteadyBad(l.s.bad) /\ Clear(l.s, p) => Clear(g.s, g.s.cache[g.n].path)
      BY <3>1, AppendFolderFine
    <3>3. a = g
      OBVIOUS
    <3> HIDE DEF a, g
    <3> QED BY <1>4, <2>4, <3>2, <3>3
  <2> HIDE DEF a
  <2>7. x \in Files(a.s.camera, p) /\ (SteadyBad(a.s.bad) => Clear(a.s, p))
    BY <1>1, <1>4, <2>4, <2>6 DEF Onward
  <2>8. Real(AppendTo(a, p, x).s, {}) /\ AppendTo(a, p, x).s.camera = a.s.camera
    BY <2>4, <2>5, <2>6, <2>7, AppendToReal
  <2> QED BY <1>3, <1>4, <1>6, <2>2, <2>4, <2>8 DEF r
<1> QED BY <1>5, <1>6

\* gp_filesystem_delete_file_noop, for a file that has gone from the camera: no cell
\* has it any more.
LEMMA RemovedDoes ==
  ASSUME NEW s, Faithful(s), NEW p \in Path, NEW x, x \in Files(s.camera, p)
  PROVE  LET r == RemovedFrom(s, p, x)
         IN Faithful(r.s) /\ r.s.camera = Without(s.camera, p, {x})
<1> DEFINE v == Shrunk(s, p, x)
           l == LookupFile(v, p, x)
           r == RemovedFrom(s, p, x)
           d == Excuse(TRUE, {}, {<<p, x>>})
           C == s.camera[p] \ {x}
<1>1. /\ Fine(s, Plain) /\ p \in Dirs(s.camera) /\ IsCamera(s.camera) /\ s \in Progress
      /\ Plain.files = TRUE /\ Plain.dirs = {} /\ Plain.loose = {}
  BY FaithfulFacts DEF Faithful, Plain, Excuse, Files, Heap
<1>2. Fine(r.s, Plain)
  <2> HIDE DEF r
  <2> QED BY <1>1, RemovedFine DEF r
<1>3. d.files = TRUE /\ d.dirs = {} /\ d.loose = {<<p, x>>}
  BY DEF Excuse
<1>4. /\ Fine(v, d) /\ v.camera = Without(s.camera, p, {x}) /\ v.cache = s.cache
      /\ Files(v.camera, p) = C
  <2>1. v = CameraWritten(s, p, C)
    BY <1>1 DEF Shrunk, CameraWritten, Dirs, Progress
  <2>2. FileSet(C) /\ ButFor(x, C, s.camera[p])
    BY <1>1, FS_Subset DEF FileSet, IsCamera, ButFor
  <2>3. InFolder(s.camera, p, C) = Without(s.camera, p, {x})
    BY DEF Without
  <2> HIDE DEF C, v, d
  <2> DEFINE w == CameraWritten(s, p, C)
             b == Excuse(Plain.files, Plain.dirs, {<<p, x>>})
  <2>4. Touched(s, w, p, C, b)
    BY <1>1, <2>2, TouchedFine, Zenon
  <2>5. b = d
    BY <1>1 DEF d
  <2>6. Fine(w, d) /\ w.camera = InFolder(s.camera, p, C) /\ w.cache = s.cache
        /\ Files(w.camera, p) = C
    <3> HIDE DEF w, b
    <3> QED BY <2>4, <2>5 DEF Touched
  <2> QED BY <2>1, <2>3, <2>6
<1>5. r = IF l.ok THEN Unlinked(l, x) ELSE l
  BY DEF RemovedFrom
<1>6. Dirs(v.camera) = Dirs(s.camera)
  BY <1>1, <1>4, WithoutFacts
<1> HIDE DEF v, d, C
<1>7. Real(v, {<<p, x>>})
  <2>1. \A q : q # p => Files(v.camera, q) = Files(s.camera, q)
    BY <1>1, <1>4, <1>6 DEF Without, InFolder, Files, Dirs
  <2>2. \A y : y \in Files(s.camera, p) => y \in Files(v.camera, p) \/ y = x
    BY <1>1, <1>4 DEF C, Files
  <2>3. ASSUME NEW n \in Cells(v.cache), NEW y \in v.cache[n].files
        PROVE  y \in Files(v.camera, v.cache[n].path) \/ <<v.cache[n].path, y>> \in {<<p, x>>}
    <3>1. y \in Files(s.camera, s.cache[n].path) /\ n \in Cells(s.cache)
      BY <1>4, <2>3 DEF Faithful, Real
    <3> QED BY <1>4, <2>1, <2>2, <3>1
  <2> QED BY <2>3 DEF Real
<1>8. /\ Yields(v, l, p, d) /\ l.s.camera = v.camera
      /\ ~ l.ok => \A m \in Cells(l.s.cache) : l.s.cache[m].path = p => x \notin l.s.cache[m].files
      /\ Real(l.s, {<<p, x>>})
  BY <1>3, <1>4, <1>7, LookupFileFine, RealLookupFile
<1> HIDE DEF l, r
<1>9. Heap(l.s) /\ l.ok \in BOOLEAN
  BY <1>8 DEF Yields, Fine
<1>10. Real(r.s, {}) /\ r.s.camera = v.camera
  <2>1. CASE ~ l.ok
    <3>1. r = l
      BY <1>5, <2>1
    <3> QED BY <1>8, <2>1, <3>1 DEF Real
  <2>2. CASE l.ok
    <3> DEFINE A == l.s.cache[l.n].files \ {x}
               u == FilesWritten(l.s, l.n, A)
    <3>1. l.n \in Cells(l.s.cache) /\ l.s.cache[l.n].path = p
      BY <1>8, <2>2 DEF Yields
    <3>2. A \in SUBSET FileName
      BY <1>9, <3>1, CellParts
    <3>3. \A y \in A : y \in Files(l.s.camera, p)
      BY <1>8, <3>1 DEF Real
    <3>4. r.s = u
      BY <1>5, <2>2 DEF Unlinked, Ret
    <3>5. x \notin A
      OBVIOUS
    <3> HIDE DEF A
    <3>6. Real(u, {<<p, x>>}) /\ u.camera = l.s.camera
      BY <1>8, <1>9, <3>1, <3>2, <3>3, RealFiles
    <3>7. Cells(u.cache) = Cells(l.s.cache) /\ u.cache[l.n].files = A
          /\ \A m \in Cells(u.cache) : u.cache[m].path = p => m = l.n
      BY <1>9, <3>1, <3>2, WrittenThere
    <3> HIDE DEF u
    <3>8. ASSUME NEW m \in Cells(u.cache), NEW y \in u.cache[m].files
          PROVE  y \in Files(u.camera, u.cache[m].path)
      <4>1. y \in Files(u.camera, u.cache[m].path) \/ (u.cache[m].path = p /\ y = x)
        BY <3>6, <3>8 DEF Real
      <4> QED BY <3>5, <3>7, <3>8, <4>1
    <3> QED BY <1>8, <3>4, <3>6, <3>8 DEF Real
  <2> QED BY <1>9, <2>1, <2>2
<1>11. Closed(r.s.camera)
  BY <1>6, <1>10 DEF Faithful, Closed
<1> QED BY <1>2, <1>4, <1>10, <1>11 DEF Faithful, r

-----------------------------------------------------------------------------
(***************************************************************************)
(* Every operation as one of the directory (CameraDirectory).              *)
(***************************************************************************)

\* No driver call fails; the camera refuses to remove a folder that is not empty, has
\* the parents of its folders, and a capture creates at most the folder of its file.
Orderly ==
  /\ Reliable /\ ~ RemovesTrees /\ NewLevels \in {0, 1}
  /\ \A cam \in InitCameras : Closed(cam)

\* The inductive invariant of the refinement: also a dirty cell has only files that the
\* camera has, and of the folders on the way to a captured file, clean cells miss at
\* most the last one.
TInv ==
  /\ IInv /\ Real(At(camera, cache, {}), {}) /\ Closed(camera)
  /\ news = NoNews \/ Complete(At(camera, cache, {}), {news.path})

\* An operation of the application begins with a faithful cache.
LEMMA ReadyFaithful ==
  ASSUME Orderly, TInv, Ready, NEW bad \in MayFail \union {{}}
  PROVE  /\ Faithful(Begin(bad)) /\ Begin(bad).bad = {}
         /\ Begin(bad).camera = camera /\ Begin(bad).cache = cache
<1> DEFINE s == Begin(bad)
           u == At(camera, cache, {})
<1>1. /\ Fine(s, NewsExcuse(NoNews)) /\ s.bad = bad /\ s.camera = camera /\ s.cache = cache
  BY ReadyFine DEF TInv
<1>2. bad = {} /\ Reliable = TRUE
  BY DEF Orderly, Reliable
<1>3. NewsExcuse(NoNews) = Plain
  BY <1>2 DEF NewsExcuse, NewsDirs, NewsFiles, Plain
<1>4. u.camera = camera /\ u.cache = cache
  BY DEF At
<1> HIDE DEF s, u
<1>5. Real(s, {})
  BY <1>1, <1>4 DEF TInv, Real, u
<1> QED BY <1>1, <1>2, <1>3, <1>5 DEF Faithful, TInv, s

\* An operation ends with a faithful cache.
LEMMA OperateFaithful ==
  ASSUME IInv', Ready, news' = news, NEW r, NEW a, Return(r, a), Faithful(r.s)
  PROVE  TInv' /\ camera' = r.s.camera /\ answer' = a
<1> DEFINE u == At(camera', cache', {})
<1>1. ~ r.s.stale
  BY FaithfulFacts
<1>2. camera' = r.s.camera /\ cache' = r.s.cache /\ answer' = a
  BY <1>1 DEF Return
<1>3. u.camera = camera' /\ u.cache = cache'
  BY DEF At
<1> HIDE DEF u
<1>4. Real(u, {}) /\ Closed(camera')
  BY <1>2, <1>3 DEF Faithful, Real
<1>5. news' = NoNews
  BY DEF Ready
<1> QED BY <1>2, <1>4, <1>5 DEF TInv, u

\* gp_filesystem_list_files answers what the directory answers.
LEMMA ListTransparent ==
  ASSUME Orderly, TInv, IInv', NEW p \in Path, NEW bad \in MayFail, List(p, bad)
  PROVE  TInv' /\ Directory!List(p)
<1> DEFINE s == Begin(bad)
           r == ListFiles(s, p)
           a == IF r.ok THEN Listed("files", p, r.s.cache[r.n].files) ELSE Failed
<1>1. Ready /\ Return(r, a) /\ news' = news
  BY DEF List, Operate
<1>2. Faithful(s) /\ s.camera = camera
  BY <1>1, ReadyFaithful
<1> HIDE DEF s
<1>3. /\ Finds(s, r, p)
      /\ r.ok => r.s.cache[r.n].files = camera[p]
  BY <1>2, ListFilesFinds
<1> HIDE DEF r
<1>4. Faithful(r.s) /\ r.s.camera = camera /\ (r.ok <=> p \in DOMAIN camera)
  BY <1>2, <1>3 DEF Finds, Reads, Dirs
<1> HIDE DEF a
<1>5. TInv' /\ camera' = camera /\ answer' = a
  BY <1>1, <1>4, OperateFaithful
<1>6. p \in DOMAIN camera => a = [of |-> "files", path |-> p, names |-> camera[p]]
  BY <1>3, <1>4 DEF a, Listed
<1>7. p \notin DOMAIN camera => a = [of |-> "failed"]
  BY <1>4 DEF a, Failed
<1> QED BY <1>5, <1>6, <1>7 DEF Directory!List, Directory!Tell, Directory!Refuse, Directory!Failed

\* gp_filesystem_list_folders answers what the directory answers.
LEMMA ListSubTransparent ==
  ASSUME Orderly, TInv, IInv', NEW p \in Path, NEW bad \in MayFail, ListSub(p, bad)
  PROVE  TInv' /\ Directory!ListSub(p)
<1> DEFINE s == Begin(bad)
           r == ListFolders(s, p)
           K == {NameOf(r.s, k) : k \in Kids(r.s, r.n)}
           a == IF r.ok THEN Listed("folders", p, K) ELSE Failed
<1>1. Ready /\ Return(r, a) /\ news' = news
  BY DEF ListSub, Operate
<1>2. Faithful(s) /\ s.camera = camera
  BY <1>1, ReadyFaithful
<1> HIDE DEF s
<1>3. Finds(s, r, p) /\ (r.ok => ~ r.s.cache[r.n].folders_dirty)
  BY <1>2, ListFoldersFinds
<1> HIDE DEF r
<1>4. /\ Faithful(r.s) /\ r.s.camera = camera /\ (r.ok <=> p \in DOMAIN camera)
      /\ r.ok => r.n \in Cells(r.s.cache) /\ r.s.cache[r.n].path = p
  BY <1>2, <1>3 DEF Finds, Reads, Dirs
<1>5. r.ok => K = SubDirs(camera, p)
  BY <1>3, <1>4, CleanFoldersAre
<1> HIDE DEF a, K
<1>6. TInv' /\ camera' = camera /\ answer' = a
  BY <1>1, <1>4, OperateFaithful
<1>7. p \in DOMAIN camera => a = [of |-> "folders", path |-> p, names |-> Directory!SubDirs(p)]
  BY <1>4, <1>5 DEF a, Listed, SubDirs, Directory!SubDirs, Dirs
<1>8. p \notin DOMAIN camera => a = [of |-> "failed"]
  BY <1>4 DEF a, Failed
<1> QED BY <1>6, <1>7, <1>8
        DEF Directory!ListSub, Directory!Tell, Directory!Refuse, Directory!Failed

\* gp_filesystem_count answers a count, or fails.
LEMMA CountTransparent ==
  ASSUME Orderly, TInv, IInv', NEW p \in Path, NEW bad \in MayFail, Count(p, bad)
  PROVE  TInv' /\ Directory!Count
<1> DEFINE s == Begin(bad)
           r == Lookup(s, p)
           a == IF r.ok THEN Counted(p, Cardinality(r.s.cache[r.n].files)) ELSE Failed
<1>1. Ready /\ Return(r, a) /\ news' = news
  BY DEF Count, Operate
<1>2. Faithful(s) /\ s.camera = camera
  BY <1>1, ReadyFaithful
<1>3. a.of \in {"count", "failed"}
  BY DEF Counted, Failed
<1> HIDE DEF s
<1>4. Finds(s, r, p)
  BY <1>2, LookupFinds
<1> HIDE DEF r, a
<1>5. Faithful(r.s) /\ r.s.camera = camera
  BY <1>2, <1>4 DEF Finds, Reads
<1>6. TInv' /\ camera' = camera /\ answer' = a
  BY <1>1, <1>5, OperateFaithful
<1> QED BY <1>3, <1>6 DEF Directory!Count

\* gp_filesystem_delete_file deletes what the directory deletes.
LEMMA DeleteTransparent ==
  ASSUME Orderly, TInv, IInv', NEW p \in Path, NEW x, NEW bad \in MayFail, Delete(p, x, bad)
  PROVE  TInv' /\ Directory!Delete(p, x)
<1> DEFINE s == Begin(bad)
           r == DeleteOne(s, p, x)
           a == IF r.ok THEN Done ELSE Failed
<1>1. Ready /\ Return(r, a) /\ news' = news
  BY DEF Delete, Operate, OnlyDone
<1>2. Faithful(s) /\ s.camera = camera
  BY <1>1, ReadyFaithful
<1> HIDE DEF s
<1>3. /\ Faithful(r.s) /\ (r.ok <=> x \in Files(camera, p))
      /\ r.s.camera = IF r.ok THEN Without(camera, p, {x}) ELSE camera
  BY <1>2, DeleteOneDoes
<1> HIDE DEF r, a
<1>4. TInv' /\ camera' = r.s.camera /\ answer' = a
  BY <1>1, <1>3, OperateFaithful
<1>5. Files(camera, p) = Directory!Files(p)
  BY DEF Files, Dirs, Directory!Files
<1>6. CASE r.ok
  <2>1. answer' = [of |-> "done"]
    BY <1>4, <1>6 DEF a, Done
  <2>2. camera' = [camera EXCEPT ![p] = @ \ {x}]
    BY <1>3, <1>4, <1>6 DEF Without, InFolder
  <2> QED BY <1>3, <1>4, <1>5, <1>6, <2>1, <2>2 DEF Directory!Delete, Directory!Done
<1>7. CASE ~ r.ok
  <2>1. answer' = [of |-> "failed"] /\ camera' = camera
    BY <1>3, <1>4, <1>7 DEF a, Failed
  <2> QED BY <1>3, <1>4, <1>5, <1>7, <2>1
          DEF Directory!Delete, Directory!Refuse, Directory!Tell, Directory!Failed
<1> QED BY <1>6, <1>7

\* gp_filesystem_delete_all empties the folder that the directory empties.
LEMMA DeleteAllTransparent ==
  ASSUME Orderly, TInv, IInv', NEW p \in Path, NEW bad \in MayFail, NEW has, NEW left,
         DeleteAll(p, bad, has, left)
  PROVE  TInv' /\ Directory!DeleteAll(p)
<1> DEFINE s == Begin(bad)
           r == DeleteFiles(s, p, has, left)
           a == IF r.ok THEN Done ELSE Failed
<1>1. Ready /\ Return(r, a) /\ news' = news
  BY DEF DeleteAll, Operate, OnlyDone
<1>2. Faithful(s) /\ s.camera = camera
  BY <1>1, ReadyFaithful
<1> HIDE DEF s
<1>3. Empties(s, r, p)
  BY <1>2, DeleteFilesDoes
<1> HIDE DEF r, a
<1>4. /\ Faithful(r.s) /\ (r.ok <=> p \in DOMAIN camera)
      /\ r.s.camera = IF r.ok THEN [camera EXCEPT ![p] = {}] ELSE camera
  BY <1>2, <1>3 DEF Empties, Dirs, InFolder
<1>5. TInv' /\ camera' = r.s.camera /\ answer' = a
  BY <1>1, <1>4, OperateFaithful
<1>6. a = IF r.ok THEN [of |-> "done"] ELSE [of |-> "failed"]
  BY DEF a, Done, Failed
<1> QED BY <1>4, <1>5, <1>6 DEF Directory!DeleteAll, Directory!Done, Directory!Refuse,
                               Directory!Tell, Directory!Failed

\* gp_filesystem_put_file uploads what the directory takes.
LEMMA PutTransparent ==
  ASSUME Orderly, TInv, IInv', NEW p \in Path, NEW x \in FileName, NEW bad \in MayFail,
         Put(p, x, bad)
  PROVE  TInv' /\ Directory!Put(p, x)
<1> DEFINE s == Begin(bad)
           r == PutFile(s, p, x)
           a == IF r.ok THEN Done ELSE Failed
<1>1. Ready /\ Return(r, a) /\ news' = news
  BY DEF Put, Operate, OnlyDone
<1>2. Faithful(s) /\ s.camera = camera
  BY <1>1, ReadyFaithful
<1> HIDE DEF s
<1>3. /\ Faithful(r.s) /\ (r.ok <=> p \in Dirs(camera) /\ x \notin camera[p])
      /\ r.s.camera = IF r.ok THEN InFolder(camera, p, camera[p] \union {x}) ELSE camera
  BY <1>2, PutFileDoes
<1> HIDE DEF r, a
<1>4. r.ok <=> p \in DOMAIN camera /\ x \notin Directory!Files(p)
  BY <1>3 DEF Dirs, Directory!Files
<1>5. TInv' /\ camera' = r.s.camera /\ answer' = a
  BY <1>1, <1>3, OperateFaithful
<1>6. a = IF r.ok THEN [of |-> "done"] ELSE [of |-> "failed"]
  BY DEF a, Done, Failed
<1>7. r.s.camera = IF r.ok THEN [camera EXCEPT ![p] = @ \union {x}] ELSE camera
  BY <1>3 DEF InFolder
<1> QED BY <1>4, <1>5, <1>6, <1>7 DEF Directory!Put, Directory!Done, Directory!Refuse,
                                     Directory!Tell, Directory!Failed

\* gp_filesystem_number answers what the directory answers.
LEMMA NumberTransparent ==
  ASSUME Orderly, TInv, IInv', NEW p \in Path, NEW x, NEW bad \in MayFail, Number(p, x, bad)
  PROVE  TInv' /\ Directory!Number(p, x)
<1> DEFINE s == Begin(bad)
           r == SeekFile(s, p, x)
           a == IF r.ok THEN Sought(p, x, x \in r.s.cache[r.n].files) ELSE Failed
<1>1. Ready /\ Return(r, a) /\ news' = news
  BY DEF Number, Operate
<1>2. Faithful(s) /\ s.camera = camera
  BY <1>1, ReadyFaithful
<1> HIDE DEF s
<1>3. Finds(s, r, p) /\ (r.ok => (x \in r.s.cache[r.n].files <=> x \in camera[p]))
  BY <1>2, SeekFileDoes
<1> HIDE DEF r
<1>4. Faithful(r.s) /\ r.s.camera = camera /\ (r.ok <=> p \in DOMAIN camera)
  BY <1>2, <1>3 DEF Finds, Reads, Dirs
<1>5. p \in DOMAIN camera =>
        a = [of |-> "sought", path |-> p, file |-> x, found |-> x \in camera[p]]
  <2>1. r.ok => (x \in r.s.cache[r.n].files) = (x \in camera[p])
    BY <1>3
  <2> QED BY <1>4, <2>1 DEF Sought
<1>6. p \notin DOMAIN camera => a = [of |-> "failed"]
  BY <1>4 DEF Failed
<1> HIDE DEF a
<1>7. TInv' /\ camera' = camera /\ answer' = a
  BY <1>1, <1>4, OperateFaithful
<1> QED BY <1>5, <1>6, <1>7
        DEF Directory!Number, Directory!Tell, Directory!Refuse, Directory!Failed

\* gp_filesystem_get_folder answers what the directory answers.
LEMMA GetFolderTransparent ==
  ASSUME Orderly, TInv, IInv', NEW x, NEW bad \in MayFail, GetFolder(x, bad)
  PROVE  TInv' /\ Directory!GetFolder(x)
<1> DEFINE s == Begin(bad)
           r == Scan(s, << >>, x)
           f == \E n \in Cells(r.s.cache) : x \in r.s.cache[n].files
           a == IF r.ok THEN Found(x, f) ELSE Failed
<1>1. Ready /\ Return(r, a) /\ news' = news
  BY DEF GetFolder, Operate
<1>2. Faithful(s) /\ s.camera = camera
  BY <1>1, ReadyFaithful
<1> HIDE DEF s
<1>3. /\ Faithful(r.s) /\ r.ok = TRUE /\ r.s.camera = camera
      /\ f <=> \E p \in DOMAIN camera : x \in camera[p]
  BY <1>2, GetFolderDoes DEF Dirs
<1> HIDE DEF r
<1>4. f = \E p \in DOMAIN camera : x \in camera[p]
  BY <1>3
<1>5. a = [of |-> "found", file |-> x, found |-> \E p \in DOMAIN camera : x \in camera[p]]
  <2> HIDE DEF f
  <2> QED BY <1>3, <1>4 DEF Found
<1> HIDE DEF a, f
<1>6. TInv' /\ camera' = camera /\ answer' = a
  BY <1>1, <1>3, OperateFaithful
<1> QED BY <1>5, <1>6 DEF Directory!GetFolder, Directory!Tell

\* gp_filesystem_reset is done, and leaves the camera alone.
LEMMA ResetTransparent ==
  ASSUME Orderly, TInv, IInv', Reset
  PROVE  TInv' /\ Directory!Reset
<1> DEFINE s == Begin({})
           r == Ret(ResetCache(s), TRUE, Root)
<1>1. r.s = ResetCache(s) /\ r.ok = TRUE
  BY DEF Ret
<1>2. Ready /\ Return(r, Done) /\ news' = news
  BY <1>1 DEF Reset, Operate, OnlyDone
<1>3. Faithful(s) /\ s.camera = camera
  BY <1>2, ReadyFaithful
<1> HIDE DEF s, r
<1>4. Faithful(r.s) /\ r.s.camera = camera
  BY <1>1, <1>3, ResetDoes
<1>5. TInv' /\ camera' = camera /\ answer' = Done
  BY <1>2, <1>4, OperateFaithful
<1> QED BY <1>5 DEF Done, Directory!Reset, Directory!Tell, Directory!Done

\* gp_filesystem_make_dir makes what the directory makes.
LEMMA MakeDirTransparent ==
  ASSUME Orderly, TInv, IInv', NEW p \in Path, NEW nm \in Name, NEW bad \in MayFail,
         MakeDir(p, nm, bad)
  PROVE  TInv' /\ Directory!MakeDir(p, nm)
<1> DEFINE s == Begin(bad)
           q == Append(p, nm)
           r == MakeFolder(s, p, nm)
           a == IF r.ok THEN Done ELSE Failed
<1>1. Ready /\ Return(r, a) /\ news' = news /\ Len(p) < MaxDepth
  BY DEF MakeDir, Operate, OnlyDone
<1>2. Faithful(s) /\ s.camera = camera
  BY <1>1, ReadyFaithful
<1> HIDE DEF s
<1>3. /\ Faithful(r.s) /\ (r.ok <=> p \in Dirs(camera) /\ q \notin Dirs(camera))
      /\ r.s.camera = IF r.ok THEN With(camera, {q}) ELSE camera
  BY <1>1, <1>2, MakeFolderDoes
<1> HIDE DEF r, a, q
<1>4. TInv' /\ camera' = r.s.camera /\ answer' = a
  BY <1>1, <1>3, OperateFaithful
<1>5. r.ok <=> p \in DOMAIN camera /\ nm \notin Directory!SubDirs(p)
  BY <1>3 DEF Dirs, Directory!SubDirs, q
<1>6. CASE r.ok
  <2>1. answer' = [of |-> "done"]
    BY <1>4, <1>6 DEF a, Done
  <2>2. camera' = [d \in DOMAIN camera \union {q} |-> Directory!Files(d)]
    BY <1>3, <1>4, <1>6 DEF With, Dirs, Files, Directory!Files
  <2> QED BY <1>4, <1>5, <1>6, <2>1, <2>2 DEF Directory!MakeDir, Directory!Done, q
<1>7. CASE ~ r.ok
  <2>1. answer' = [of |-> "failed"] /\ camera' = camera
    BY <1>3, <1>4, <1>7 DEF a, Failed
  <2> QED BY <1>4, <1>5, <1>7, <2>1
          DEF Directory!MakeDir, Directory!Refuse, Directory!Tell, Directory!Failed
<1> QED BY <1>6, <1>7

\* gp_filesystem_remove_dir removes what the directory removes.
LEMMA RemoveDirTransparent ==
  ASSUME Orderly, TInv, IInv', NEW p \in Path, NEW nm \in Name, NEW bad \in MayFail,
         RemoveDir(p, nm, bad)
  PROVE  TInv' /\ Directory!RemoveDir(p, nm)
<1> DEFINE s == Begin(bad)
           q == Append(p, nm)
           r == RemoveFolder(s, p, nm)
           a == IF r.ok THEN Done ELSE Failed
<1>1. Ready /\ Return(r, a) /\ news' = news
  BY DEF RemoveDir, Operate, OnlyDone
<1>2. Faithful(s) /\ s.camera = camera /\ ~ RemovesTrees
  BY <1>1, ReadyFaithful DEF Orderly
<1> HIDE DEF s
<1>3. /\ Faithful(r.s) /\ (r.ok <=> Bare(camera, q))
      /\ r.s.camera = IF r.ok THEN Restrict(camera, Dirs(camera) \ {q}) ELSE camera
  BY <1>2, RemoveFolderDoes
<1> HIDE DEF r, a, q
<1>4. TInv' /\ camera' = r.s.camera /\ answer' = a
  BY <1>1, <1>3, OperateFaithful
<1>5. r.ok <=> q \in DOMAIN camera /\ camera[q] = {} /\ Directory!SubDirs(q) = {}
  BY <1>3 DEF Bare, Dirs, SubDirs, Directory!SubDirs
<1>6. CASE r.ok
  <2>1. answer' = [of |-> "done"]
    BY <1>4, <1>6 DEF a, Done
  <2>2. camera' = Directory!Restrict(camera, DOMAIN camera \ {q})
    BY <1>3, <1>4, <1>6 DEF Restrict, Directory!Restrict, Dirs
  <2> QED BY <1>4, <1>5, <1>6, <2>1, <2>2 DEF Directory!RemoveDir, Directory!Done, q
<1>7. CASE ~ r.ok
  <2>1. answer' = [of |-> "failed"] /\ camera' = camera
    BY <1>3, <1>4, <1>7 DEF a, Failed
  <2> QED BY <1>4, <1>5, <1>7, <2>1
          DEF Directory!RemoveDir, Directory!Refuse, Directory!Tell, Directory!Failed, q
<1> QED BY <1>6, <1>7

\* A file goes from the camera, and from the cache.
LEMMA RemovedTransparent ==
  ASSUME Orderly, TInv, IInv', NEW p \in Path, NEW x, NEW bad \in MayFail, Removed(p, x, bad)
  PROVE  TInv' /\ Directory!Lose(p, x)
<1> DEFINE s == Begin(bad)
           q == RemovedFrom(s, p, x)
           r == Ret(q.s, TRUE, q.n)
<1>1. Ready /\ Return(r, Done) /\ news' = news /\ x \in Files(camera, p)
  BY Zenon
     DEF Removed, Operate, OnlyDone, Ret, RemovedFrom, Shrunk, Unlinked, FilesWritten, IfOk
<1>2. Faithful(s) /\ s.camera = camera
  BY <1>1, ReadyFaithful
<1> HIDE DEF s
<1>3. Faithful(q.s) /\ q.s.camera = Without(camera, p, {x})
  BY <1>1, <1>2, RemovedDoes
<1> HIDE DEF q
<1>4. r.s = q.s
  BY DEF Ret
<1> HIDE DEF r
<1>5. TInv' /\ camera' = Without(camera, p, {x}) /\ answer' = Done
  BY <1>1, <1>3, <1>4, OperateFaithful
<1>6. camera' = [camera EXCEPT ![p] = @ \ {x}]
  BY <1>5 DEF Without, InFolder
<1>7. x \in Directory!Files(p)
  BY <1>1 DEF Files, Dirs, Directory!Files
<1> QED BY <1>5, <1>6, <1>7, Zenon DEF Directory!Lose, Directory!Delete, Done, Directory!Done

\* A capture that creates no more than one folder creates no folder but that of its
\* file.
LEMMA CapturesCreateOne ==
  ASSUME NEW cam, Closed(cam), NEW p \in Path,
         LET N == Prefixes(p) \ Dirs(cam)
         IN Cardinality(N) <= 1
  PROVE  Prefixes(p) \ Dirs(cam) \subseteq {p}
<1> DEFINE N == Prefixes(p) \ Dirs(cam)
<1> SUFFICES ASSUME NEW q \in N, q # p
             PROVE  FALSE
  OBVIOUS
<1>1. p \in Seq(Name) /\ Len(p) \in Nat
  BY PathsAreSequences
<1>2. p \notin Dirs(cam)
  <2>1. ASSUME p \in Dirs(cam)
        PROVE  q \in Dirs(cam)
    BY <1>1, <2>1, ClosedFacts DEF Prefixes
  <2> QED BY <2>1
<1>3. p \in Prefixes(p)
  BY <1>1, PrefixesFacts
<1>4. {p, q} \subseteq N
  BY <1>2, <1>3
<1>5. IsFiniteSet(N) /\ Cardinality(N) <= 1
  BY PrefixesFinite, FS_Subset
<1> HIDE DEF N
<1>6. Cardinality({p, q}) <= 1
  <2>1. Cardinality({p, q}) <= Cardinality(N)
    BY <1>4, <1>5, FS_Subset
  <2>2. IsFiniteSet({p, q})
    BY <1>4, <1>5, FS_Subset
  <2>3. Cardinality({p, q}) \in Nat /\ Cardinality(N) \in Nat
    BY <1>5, <2>2, FS_CardinalityType
  <2> QED BY <1>5, <2>1, <2>3
<1>7. Cardinality({p, q}) = 2
  <2>1. IsFiniteSet({p}) /\ Cardinality({p}) = 1
    BY FS_Singleton
  <2>2. Cardinality({p} \union {q}) = Cardinality({p}) + 1
    BY <2>1, FS_AddElement
  <2>3. {p} \union {q} = {p, q}
    OBVIOUS
  <2> QED BY <2>1, <2>2, <2>3
<1> QED BY <1>6, <1>7

\* A capture is one of the directory; the cache may miss the folder of its file.
LEMMA CaptureTransparent ==
  ASSUME Orderly, TInv, IInv', NEW p \in Path, NEW x \in FileName, Capture(p, x)
  PROVE  TInv' /\ Directory!Capture(p, x)
<1> DEFINE N == Prefixes(p) \ Dirs(camera)
           s == Begin({})
           u == At(camera', cache', {})
<1>1. /\ Ready /\ cache' = cache /\ answer' = answer
      /\ news' = [path |-> p, file |-> x] /\ Cardinality(N) <= NewLevels
      /\ camera' = [With(camera, N) EXCEPT ![p] = @ \union {x}]
  BY DEF Capture
<1>2. Faithful(s) /\ s.camera = camera /\ s.cache = cache
  BY <1>1, ReadyFaithful
<1>3. N \subseteq {p}
  <2>1. Cardinality(N) <= 1
    <3>1. IsFiniteSet(N)
      BY PrefixesFinite, FS_Subset
    <3>2. Cardinality(N) \in Nat
      BY <3>1, FS_CardinalityType
    <3> HIDE DEF N
    <3> QED BY <1>1, <3>2 DEF Orderly
  <2> QED BY <2>1, CapturesCreateOne DEF TInv
<1>4. p \in Prefixes(p) /\ p \in Seq(Name)
  BY PathsAreSequences, PrefixesFacts
<1>5. Dirs(camera') = Dirs(camera) \union Prefixes(p)
  BY <1>1, <1>4 DEF With, Dirs
<1>6. \A q \in Dirs(camera') : camera'[q] = Files(camera, q) \union IF q = p THEN {x} ELSE {}
  BY <1>1, <1>4, <1>5 DEF With, Dirs
<1>7. Directory!Capture(p, x)
  <2>1. Directory!Prefixes(p) = Prefixes(p)
    BY DEF Directory!Prefixes, Prefixes
  <2>2. \A q : Directory!Files(q) = Files(camera, q)
    BY DEF Files, Dirs, Directory!Files
  <2> QED BY <1>1, <1>5, <1>6, <2>1, <2>2 DEF Directory!Capture, Dirs
<1>8. u.camera = camera' /\ u.cache = cache
  BY <1>1 DEF At
<1> HIDE DEF s, u
<1>9. Complete(u, {p})
  <2>1. Complete(s, {})
    BY <1>2, FaithfulFacts
  <2>2. ASSUME NEW n \in Cells(u.cache), NEW nm \in Name, ~ u.cache[n].folders_dirty,
               Append(u.cache[n].path, nm) \in Dirs(u.camera)
        PROVE  Has(u.cache, Append(u.cache[n].path, nm)) \/ Append(u.cache[n].path, nm) \in {p}
    <3> DEFINE q == Append(u.cache[n].path, nm)
    <3>1. q \in Dirs(camera) \/ q \in N
      BY <1>5, <1>8, <2>2
    <3>2. q \in Dirs(camera) => Has(u.cache, q)
      BY <1>2, <1>8, <2>1, <2>2 DEF Complete
    <3> QED BY <1>3, <3>1, <3>2
  <2> QED BY <2>2 DEF Complete
<1>10. Real(u, {})
  <2>1. Real(s, {})
    BY <1>2 DEF Faithful
  <2>2. \A q : Files(camera, q) \subseteq Files(camera', q)
    BY <1>5, <1>6 DEF Files
  <2> QED BY <1>2, <1>8, <2>1, <2>2 DEF Real
<1>11. Closed(camera')
  <2>1. ASSUME NEW q \in Seq(Name), NEW nm \in Name, Append(q, nm) \in Dirs(camera')
        PROVE  q \in Dirs(camera')
    <3>1. CASE Append(q, nm) \in Dirs(camera)
      BY <1>5, <2>1, <3>1 DEF TInv, Closed
    <3>2. CASE Append(q, nm) = p
      <4>1. q = SubSeq(p, 1, Len(q)) /\ Len(q) \in 0 .. Len(p)
        BY <3>2
      <4>2. q \in Prefixes(p)
        BY <4>1, Zenon DEF Prefixes
      <4> QED BY <1>5, <4>2
    <3> QED BY <1>3, <1>5, <2>1, <3>1, <3>2
  <2> QED BY <2>1 DEF Closed
<1>12. news'.path = p
  BY <1>1
<1> QED BY <1>7, <1>9, <1>10, <1>11, <1>12 DEF TInv, u

\* The driver appends the captured file: nothing that an application sees.
LEMMA AppendedTransparent ==
  ASSUME Orderly, TInv, IInv', NEW bad \in MayFail, Appended(bad)
  PROVE  TInv' /\ UNCHANGED <<camera, answer>>
<1> DEFINE s == Begin(bad)
           p == news.path
           x == news.file
           d == NewsExcuse(news)
           e == NewsExcuse(NoNews)
           r == AppendFile(s, p, x)
           o == At(camera, cache, {})
           u == At(camera', cache', {})
<1>1. /\ news # NoNews /\ answer # Undefined /\ Return(r, answer) /\ news' = NoNews
  BY DEF Appended
<1>2. Reliable = TRUE
  BY DEF Orderly, Reliable
<1>3. /\ Fine(s, d) /\ s.bad = bad /\ s.camera = camera /\ s.cache = cache
  BY <1>1, BeginFine DEF TInv
<1>4. /\ p \in Path /\ x \in FileName /\ x \in Files(camera, p)
      /\ \A q \in Prefixes(p) : q \in Dirs(camera)
  BY <1>1 DEF TInv, IInv, Sound, NewsIsThere
<1>5. d.dirs = Prefixes(p) /\ d.loose = {<<p, x>>} /\ d.files = TRUE
  BY <1>1, <1>2 DEF NewsExcuse, Excuse, NewsDirs, NewsFiles
<1>6. e.files = TRUE /\ e.loose = {} /\ e.dirs = {}
  BY <1>2, NoNewsExcuse
<1>7. o.camera = camera /\ o.cache = cache /\ u.camera = camera' /\ u.cache = cache'
  BY DEF At
<1>8. Real(o, {}) /\ Complete(o, {p})
  BY <1>1 DEF TInv
<1> HIDE DEF s, p, x, d, e, o, u
<1>9. Real(s, {}) /\ Complete(s, {p})
  BY <1>3, <1>7, <1>8 DEF Real, Complete
<1>10. Real(r.s, {}) /\ r.s.camera = camera
  BY <1>3, <1>4, <1>5, <1>9, AppendFileReal
<1>11. Fine(r.s, e)
  <2>1. SteadyBad(bad)
    BY <1>3, <1>5, NoFailureIsSteady DEF Fine
  <2> QED BY <1>3, <1>4, <1>5, <1>6, <2>1, AppendFileFine
<1> HIDE DEF r
<1>12. ~ r.s.stale
  BY <1>6, <1>11, NoFailureIsSteady DEF Fine
<1>13. camera' = camera /\ cache' = r.s.cache /\ answer' = answer
  BY <1>1, <1>10, <1>12 DEF Return
<1>14. Real(u, {})
  BY <1>7, <1>10, <1>13 DEF Real
<1> QED BY <1>1, <1>13, <1>14 DEF TInv, u

\* gp_filesystem_new makes an empty cache, and the directory is that of the camera.
LEMMA InitTransparent ==
  ASSUME Orderly, Init
  PROVE  TInv /\ Directory!Init
<1> DEFINE c == <<NewFolder(NULL, << >>)>>
           u == At(camera, c, {})
<1>1. camera \in InitCameras /\ cache = c /\ news = NoNews /\ answer = Done
  BY DEF Init
<1>2. Len(c) = 1 /\ c[1].files = {}
  BY DEF NewFolder
<1> HIDE DEF c
<1>3. Cells(c) = {1}
  BY <1>2 DEF Cells, Root
<1>4. u.camera = camera /\ u.cache = c
  BY DEF At
<1> HIDE DEF u
<1>5. Real(u, {})
  BY <1>2, <1>3, <1>4 DEF Real
<1>6. IInv /\ Closed(camera)
  BY <1>1, InitSound DEF Orderly
<1>7. Directory!Init
  BY <1>1 DEF Directory!Init, Directory!Done, Done
<1> QED BY <1>1, <1>5, <1>6, <1>7 DEF TInv, u

\* Every operation does, and answers, what one of the directory does; the driver's
\* gp_filesystem_append does nothing that an application sees.
LEMMA NextTransparent ==
  ASSUME Orderly, TInv, [Next]_vars
  PROVE  TInv' /\ [Directory!Next]_<<camera, answer>>
<1>1. IInv'
  BY NextSound DEF TInv
<1>2. CASE UNCHANGED vars
  BY <1>1, <1>2 DEF vars, TInv, At
<1>3. ASSUME NEW bad \in MayFail, NEW p \in Path,
             \/ List(p, bad) \/ ListSub(p, bad) \/ Count(p, bad)
             \/ \E has \in HasDeleteAll, left \in SUBSET Files(camera, p) :
                  DeleteAll(p, bad, has, left)
             \/ \E nm \in Name : MakeDir(p, nm, bad) \/ RemoveDir(p, nm, bad)
      PROVE  TInv' /\ Directory!Next
  <2>1. CASE List(p, bad) \/ ListSub(p, bad) \/ Count(p, bad)
    BY <1>1, <2>1, ListTransparent, ListSubTransparent, CountTransparent DEF Directory!Next
  <2>2. CASE \E has \in HasDeleteAll, left \in SUBSET Files(camera, p) :
               DeleteAll(p, bad, has, left)
    BY <1>1, <2>2, DeleteAllTransparent DEF Directory!Next
  <2>3. CASE \E nm \in Name : MakeDir(p, nm, bad) \/ RemoveDir(p, nm, bad)
    BY <1>1, <2>3, MakeDirTransparent, RemoveDirTransparent DEF Directory!Next
  <2> QED BY <1>3, <2>1, <2>2, <2>3
<1>4. ASSUME NEW bad \in MayFail, NEW p \in Path, NEW x \in FileName,
             \/ Delete(p, x, bad) \/ Put(p, x, bad) \/ Number(p, x, bad)
             \/ Removed(p, x, bad) \/ Capture(p, x)
      PROVE  TInv' /\ Directory!Next
  <2>1. CASE Delete(p, x, bad) \/ Put(p, x, bad) \/ Number(p, x, bad)
    BY <1>1, <2>1, DeleteTransparent, PutTransparent, NumberTransparent DEF Directory!Next
  <2>2. CASE Removed(p, x, bad) \/ Capture(p, x)
    BY <1>1, <2>2, RemovedTransparent, CaptureTransparent DEF Directory!Next
  <2> QED BY <1>4, <2>1, <2>2
<1>5. ASSUME NEW bad \in MayFail, (\E x \in FileName : GetFolder(x, bad)) \/ Reset
      PROVE  TInv' /\ Directory!Next
  BY <1>1, <1>5, GetFolderTransparent, ResetTransparent DEF Directory!Next
<1>6. ASSUME NEW bad \in MayFail, Appended(bad)
      PROVE  TInv' /\ UNCHANGED <<camera, answer>>
  BY <1>1, <1>6, AppendedTransparent
<1> QED BY <1>2, <1>3, <1>4, <1>5, <1>6 DEF Next, vars

\* When no driver call fails, the cache cannot be told from the camera: what an
\* application asks of the virtual filesystem is done on the camera and answered as if
\* there were no cache - for any names, depth and camera whose folders have parents.
THEOREM CacheIsTransparent ==
  ASSUME Orderly
  PROVE  Spec => IsTransparent
<1>1. Init => TInv /\ Directory!Init
  BY InitTransparent
<1>2. TInv /\ [Next]_vars => TInv' /\ [Directory!Next]_<<camera, answer>>
  BY NextTransparent
<1> QED BY <1>1, <1>2, PTL DEF Spec, IsTransparent, Directory!Spec
=============================================================================

-------------------------- MODULE PtpObjects_proofs --------------------------
(***************************************************************************)
(* Proofs about the object handles of camlibs/ptp2, for any cameras,       *)
(* folders, names and bounds: the types; that the parents which library.c  *)
(* remembers are the camera's, unless a camera answers the root with all   *)
(* its objects; that an object is deleted only under the name it was asked *)
(* for; and, while no command is refused and no object is lost, that       *)
(* listings are complete, that an object is the one that was named, and    *)
(* that no name is uploaded twice.                                         *)
(***************************************************************************)
EXTENDS PtpObjects, SequenceTheorems, WellFoundedInduction, TLAPS

-----------------------------------------------------------------------------
(***************************************************************************)
(* The inductive invariant, one part for every group of variables.         *)
(***************************************************************************)

CameraInv ==
  /\ objs \in Seq(Fact) /\ Len(objs) <= MaxObjects /\ live \subseteq 1 .. Len(objs)
  /\ kind \in Kinds /\ events \in Seq(1 .. Len(objs))

\* Only objects that there are, or were, are cached.
CacheInv(c, o) ==
  /\ DOMAIN c \subseteq 1 .. Len(o) /\ c \in [DOMAIN c -> Cell]
  /\ \A h \in DOMAIN c : "parent" \in c[h].flags => c[h].parent = o[h].parent

\* On the way to a folder there is a name to look for; the object whose data
\* are sent, or that an event names, is or was there.
Looks(c) == c.at \in {"list", "handles", "scan"}
CallInv(c, o) ==
  /\ c \in CallState
  /\ Looks(c) /\ c.goal = "walk" => c.rest # << >>
  /\ c.at \in {"data", "want", "climb"} => c.target \in 1 .. Len(o)

HistoryInv == history \in [calls : 0 .. MaxCalls, refused : 0 .. MaxRefused,
                           byHand : 0 .. MaxByHand, lost : BOOLEAN]

Inv == /\ CameraInv /\ CacheInv(cache, objs) /\ CallInv(call, objs)
       /\ result \in Outcome /\ HistoryInv

-----------------------------------------------------------------------------
(***************************************************************************)
(* Lemmas about the records.                                               *)
(***************************************************************************)

LEMMA NumberOfObjects ==
  ASSUME CameraInv
  PROVE  /\ MaxObjects \in Nat /\ Len(objs) \in 0 .. MaxObjects
         /\ 1 .. Len(objs) \subseteq Handle
         /\ \A h \in 1 .. Len(objs) : objs[h] \in Fact
<1>1. Len(objs) \in Nat /\ \A h \in 1 .. Len(objs) : objs[h] \in Fact
  BY LenProperties, ElementOfSeq DEF CameraInv
<1> QED BY <1>1, PtpAssumption DEF CameraInv, Handle

LEMMA EmptyRecords ==
  /\ NoResult \in Outcome
  /\ \A o : CallInv(NoCall, o)
<1>1. << >> \in Seq(Name)
  OBVIOUS
<1>2. OwnName \in Name /\ Special \in Special .. MaxObjects /\ Root \in Special .. MaxObjects
      /\ 0 \in 0 .. MaxObjects
  BY PtpAssumption DEF Name, Special, Root
<1>3. NoResult \in Outcome
  BY <1>1, <1>2 DEF NoResult, Outcome, Op
<1>4. NoCall \in CallState
  BY <1>1, <1>2 DEF NoCall, CallState, Op
<1> QED BY <1>3, <1>4 DEF CallInv, NoCall, Looks

\* A call that has returned.
LEMMA Returned ==
  ASSUME Inv, NEW ok \in BOOLEAN, NEW r \in Outcome, Return(ok, r)
  PROVE  /\ \A o : CallInv(call', o)
         /\ result' \in Outcome
<1>1. call.op \in Op
  BY DEF Inv, CallInv, CallState
<1>2. [r EXCEPT !.op = call.op, !.ok = TRUE] \in Outcome
  BY <1>1 DEF Outcome
<1>3. [NoResult EXCEPT !.op = call.op, !.ok = FALSE] \in Outcome
  BY <1>1, EmptyRecords DEF Outcome
<1> QED BY <1>2, <1>3, EmptyRecords DEF Return

\* find_folder_handle is done, or goes on.
LEMMA WalkIsACall ==
  ASSUME NEW c \in CallState
  PROVE  /\ Walk(c) \in CallState
         /\ Walk(c).at = "list"
         /\ Walk(c).goal = "walk" => Walk(c).rest # << >>
<1>1. 0 \in 0 .. MaxObjects /\ Special \in Special .. MaxObjects
  BY PtpAssumption DEF Special
<1>2. CASE c.rest = << >>
  <2>1. Walk(c) = Arrive(c)
    BY <1>2 DEF Walk
  <2>2. Arrive(c) \in CallState
    BY <1>1 DEF Arrive, CallState
  <2>3. Arrive(c).at = "list" /\ Arrive(c).goal # "walk"
    BY DEF Arrive, CallState
  <2> QED BY <2>1, <2>2, <2>3
<1>3. CASE c.rest # << >>
  <2>1. Walk(c) = [c EXCEPT !.at = "list", !.goal = "walk", !.cursor = 0]
    BY <1>3 DEF Walk
  <2>2. Walk(c) \in CallState
    BY <1>1, <2>1 DEF CallState
  <2> QED BY <1>3, <2>1, <2>2 DEF CallState
<1> QED BY <1>2, <1>3

LEMMA FoundKeeps ==
  ASSUME Inv, Looks(call), NEW h \in Special .. MaxObjects, Found(h)
  PROVE  /\ \A o : CallInv(call', o)
         /\ result' \in Outcome
<1>1. call \in CallState /\ result' \in Outcome
  BY DEF Inv, CallInv, Found, Goes
<1>2. CASE call.goal = "walk"
  <2> DEFINE c == [call EXCEPT !.here = h, !.rest = Tail(@)]
  <2>1. Tail(call.rest) \in Seq(Name)
    BY <1>1, <1>2, HeadTailProperties DEF Inv, CallInv, CallState
  <2>2. c \in CallState
    BY <1>1, <2>1 DEF CallState
  <2>3. call' = Walk(c)
    BY <1>2 DEF Found, Goes
  <2> QED BY <1>1, <2>2, <2>3, WalkIsACall DEF CallInv
<1>3. CASE call.goal # "walk"
  <2>1. call' = [call EXCEPT !.at = "act", !.target = h]
    BY <1>3 DEF Found, Goes
  <2>2. call' \in CallState /\ call'.at = "act"
    BY <1>1, <2>1 DEF CallState
  <2> QED BY <1>1, <2>2 DEF CallInv, Looks
<1> QED BY <1>2, <1>3

LEMMA FailsKeeps ==
  ASSUME Inv, Looks(call), Fails
  PROVE  /\ \A o : CallInv(call', o)
         /\ result' \in Outcome
<1>1. CASE call.goal = "gather"
  <2>1. Return(FALSE, NoResult)
    BY <1>1 DEF Fails
  <2> QED BY <2>1, Returned, EmptyRecords
<1>2. CASE call.goal # "gather"
  <2>1. Found(Special) /\ Special \in Special .. MaxObjects
    BY <1>2, PtpAssumption DEF Fails, Special
  <2> QED BY <2>1, FoundKeeps
<1> QED BY <1>1, <1>2

-----------------------------------------------------------------------------
(***************************************************************************)
(* Lemmas about the cache.                                                 *)
(***************************************************************************)

LEMMA RefusesKeeps ==
  ASSUME Inv, Refuses
  PROVE  HistoryInv'
BY PtpAssumption DEF Inv, HistoryInv, Refuses

LEMMA AcceptsKeeps ==
  ASSUME Inv, Accepts
  PROVE  HistoryInv'
BY DEF Inv, HistoryInv, Accepts

LEMMA WithKeeps ==
  ASSUME NEW o, NEW c, CacheInv(c, o), NEW h \in 1 .. Len(o), NEW cell \in Cell, NEW d,
         "parent" \in cell.flags => cell.parent = o[h].parent,
         DOMAIN d = DOMAIN c \union {h}, d \in [DOMAIN d -> Cell], d[h] = cell,
         \A k \in DOMAIN c \ {h} : d[k] = c[k]
  PROVE  CacheInv(d, o) /\ h \in DOMAIN d
BY DEF CacheInv

LEMMA KnownCell ==
  ASSUME Inv, NEW h
  PROVE  /\ Known(h) \in Cell
         /\ "parent" \in Known(h).flags => Known(h).parent = objs[h].parent
<1>1. NewCell \in Cell /\ NewCell.flags = {}
  BY PtpAssumption DEF NewCell, Cell, Root, Special
<1> QED BY <1>1 DEF Known, Inv, CacheInv

LEMMA WantGetsKeeps ==
  ASSUME Inv, NEW h, WantGets(h)
  PROVE  /\ CacheInv(cache', objs) /\ h \in DOMAIN cache'
         /\ HistoryInv'
<1>1. h \in 1 .. Len(objs)
  BY DEF Inv, CameraInv, WantGets
<1>2. objs[h].parent \in Special .. MaxObjects
  BY <1>1, NumberOfObjects DEF Inv, Fact, Special
<1>3. Loaded(h) \in Cell
  BY <1>2, KnownCell DEF Loaded, Cell, X, Flag
<1>4. Loaded(h).parent = objs[h].parent
  BY KnownCell DEF Loaded
<1>5. cache' = [k \in DOMAIN cache \union {h} |-> IF k = h THEN Loaded(h) ELSE cache[k]]
  BY DEF WantGets, With
<1> HIDE DEF Loaded
<1>6. CacheInv(cache, objs)
  BY DEF Inv
<1>7. CacheInv(cache', objs) /\ h \in DOMAIN cache'
  <2>1. /\ DOMAIN cache' = DOMAIN cache \union {h} /\ cache' \in [DOMAIN cache' -> Cell]
        /\ cache'[h] = Loaded(h)
        /\ \A k \in DOMAIN cache \ {h} : cache'[k] = cache[k]
    BY <1>3, <1>5, <1>6 DEF CacheInv
  <2> QED BY <1>1, <1>3, <1>4, <1>6, <2>1, WithKeeps
<1>8. Accepts
  BY DEF WantGets
<1> QED BY <1>7, <1>8, AcceptsKeeps

LEMMA WithoutKeeps ==
  ASSUME Inv, NEW h, cache' = Without(h)
  PROVE  CacheInv(cache', objs)
BY DEF Inv, CacheInv, Without

LEMMA WantFailsKeeps ==
  ASSUME Inv, NEW h, WantFails(h)
  PROVE  CacheInv(cache', objs) /\ HistoryInv'
BY WithoutKeeps, RefusesKeeps, AcceptsKeeps DEF WantFails

LEMMA AddedKeeps ==
  ASSUME Inv, NEW h \in 1 .. Len(objs), Added(h)
  PROVE  CacheInv(cache', objs)
<1> DEFINE cell == Known(h)
<1>1. cell \in Cell /\ ("parent" \in cell.flags => cell.parent = objs[h].parent)
  BY KnownCell
<1>2. cache' = [k \in DOMAIN cache \union {h} |-> IF k = h THEN cell ELSE cache[k]]
  BY DEF Added, With
<1> HIDE DEF cell
<1>3. CacheInv(cache, objs)
  BY DEF Inv
<1>4. /\ DOMAIN cache' = DOMAIN cache \union {h} /\ cache' \in [DOMAIN cache' -> Cell]
      /\ cache'[h] = cell
      /\ \A k \in DOMAIN cache \ {h} : cache'[k] = cache[k]
  BY <1>1, <1>2, <1>3 DEF CacheInv
<1> QED BY <1>1, <1>3, <1>4, WithKeeps

\* An object more leaves what is known of the others.
LEMMA MoreObjects ==
  ASSUME Inv, NEW x \in Fact
  PROVE  /\ Append(objs, x) \in Seq(Fact) /\ Len(Append(objs, x)) = Len(objs) + 1
         /\ CacheInv(cache, Append(objs, x))
         /\ \A c : CallInv(c, objs) => CallInv(c, Append(objs, x))
         /\ live \subseteq 1 .. (Len(objs) + 1)
<1>1. /\ Append(objs, x) \in Seq(Fact) /\ Len(Append(objs, x)) = Len(objs) + 1
      /\ \A h \in 1 .. Len(objs) : Append(objs, x)[h] = objs[h]
      /\ Len(objs) \in Nat
  BY AppendProperties, LenProperties DEF Inv, CameraInv
<1>2. 1 .. Len(objs) \subseteq 1 .. (Len(objs) + 1)
  BY <1>1
<1>3. CacheInv(cache, Append(objs, x))
  <2> DEFINE o == Append(objs, x)
  <2>1. Len(o) = Len(objs) + 1 /\ \A h \in 1 .. Len(objs) : o[h] = objs[h]
    BY <1>1
  <2> HIDE DEF o
  <2> QED BY <1>2, <2>1 DEF Inv, CacheInv
<1>4. \A c : CallInv(c, objs) => CallInv(c, Append(objs, x))
  BY <1>1, <1>2 DEF CallInv
<1> QED BY <1>1, <1>2, <1>3, <1>4 DEF Inv, CameraInv

\* The handles of a listing: tagged with the folder only if it is theirs.
LEMMA MergedKeeps ==
  ASSUME Inv, RootIsRoot, cache' = Merged(Handles)
  PROVE  CacheInv(cache', objs)
<1>1. Handles \subseteq live /\ live \subseteq 1 .. Len(objs)
  BY DEF Handles, Children, Inv, CameraInv
<1>2. \A h \in Handles : Tag = Special \/ Tag = objs[h].parent
  BY DEF Handles, Children, Tag, Inv, CameraInv, RootIsRoot
<1>3. \A h \in Handles : objs[h].parent \in 0 .. MaxObjects
  BY <1>1, NumberOfObjects DEF Fact, Inv
<1>4. StorageFlag \subseteq Flag /\ "parent" \notin StorageFlag
  BY DEF StorageFlag, Flag
<1>5. ASSUME NEW h \in Handles
      PROVE  /\ Tagged(h) \in Cell
             /\ "parent" \in Tagged(h).flags => Tagged(h).parent = objs[h].parent
  <2>1. CASE h \notin DOMAIN cache
    <3>1. CASE Tag > 0
      <4>1. Tag = objs[h].parent
        BY <1>2, <3>1 DEF Special
      <4>2. Tagged(h) = [flags |-> StorageFlag \union {"parent"}, parent |-> Tag]
        BY <2>1, <3>1 DEF Tagged
      <4> QED BY <1>3, <1>4, <4>1, <4>2 DEF Cell, Flag, Special
    <3>2. CASE ~(Tag > 0)
      <4>1. Tagged(h) = [flags |-> StorageFlag, parent |-> Root]
        BY <2>1, <3>2 DEF Tagged
      <4> QED BY <1>4, <4>1, PtpAssumption DEF Cell, Root, Special
    <3> QED BY <3>1, <3>2
  <2>2. CASE h \in DOMAIN cache
    <3>1. cache[h] \in Cell /\ ("parent" \in cache[h].flags => cache[h].parent = objs[h].parent)
      BY <2>2 DEF Inv, CacheInv
    <3>2. CASE Tag # Special
      <4>1. Tag = objs[h].parent
        BY <1>2, <3>2
      <4>2. Tagged(h) = [flags |-> cache[h].flags \union StorageFlag \union {"parent"},
                         parent |-> Tag]
        BY <2>2, <3>2 DEF Tagged
      <4>3. cache[h].flags \union StorageFlag \union {"parent"} \in SUBSET Flag
        BY <1>4, <3>1 DEF Cell, Flag
      <4>4. Tag \in Special .. MaxObjects
        BY <1>3, <4>1, PtpAssumption DEF Special
      <4> QED BY <4>1, <4>2, <4>3, <4>4 DEF Cell
    <3>3. CASE Tag = Special
      <4>1. Tagged(h) = [flags |-> cache[h].flags \union StorageFlag, parent |-> cache[h].parent]
        BY <2>2, <3>3 DEF Tagged
      <4> QED BY <1>4, <3>1, <4>1 DEF Cell
    <3> QED BY <3>2, <3>3
  <2> QED BY <2>1, <2>2
<1>6. DOMAIN cache \subseteq 1 .. Len(objs) /\ cache \in [DOMAIN cache -> Cell]
  BY DEF Inv, CacheInv
<1>7. cache' = [h \in DOMAIN cache \union Handles |-> IF h \in Handles THEN Tagged(h) ELSE cache[h]]
  BY DEF Merged
<1>8. \A h \in DOMAIN cache : "parent" \in cache[h].flags => cache[h].parent = objs[h].parent
  BY DEF Inv, CacheInv
<1> HIDE DEF Tagged, Handles
<1> QED BY <1>1, <1>5, <1>6, <1>7, <1>8 DEF CacheInv

-----------------------------------------------------------------------------
(***************************************************************************)
(* The initial states, and every action.                                   *)
(***************************************************************************)

LEMMA InitInv ==
  ASSUME Init
  PROVE  Inv
<1>1. CameraInv
  <2>1. /\ objs \in Seq(Fact) /\ Len(objs) <= MaxObjects /\ live = 1 .. Len(objs)
        /\ kind \in Kinds
    BY PtpAssumption DEF Init
  <2>2. << >> \in Seq(1 .. Len(objs))
    OBVIOUS
  <2> QED BY <2>1, <2>2 DEF Init, CameraInv
<1>2. CacheInv(cache, objs)
  BY DEF Init, CacheInv
<1>3. CallInv(call, objs)
  <2>1. NoCall \in CallState /\ Special \in Special .. MaxObjects
    BY EmptyRecords, PtpAssumption DEF CallInv, Special
  <2>2. call = [NoCall EXCEPT !.op = "init", !.at = "handles", !.here = Special, !.goal = "roots"]
    BY DEF Init
  <2>3. call \in CallState
    BY <2>1, <2>2 DEF CallState, Op
  <2>4. call.at = "handles" /\ call.goal = "roots"
    BY <2>2 DEF NoCall
  <2> QED BY <2>3, <2>4 DEF CallInv
<1>4. result \in Outcome
  BY EmptyRecords DEF Init
<1>5. HistoryInv
  BY PtpAssumption DEF Init, HistoryInv
<1> QED BY <1>1, <1>2, <1>3, <1>4, <1>5 DEF Inv

\* The invariant from its parts, for a step that leaves the camera alone.
LEMMA SameCamera ==
  ASSUME Inv, UNCHANGED Camera, CacheInv(cache', objs), CallInv(call', objs),
         result' \in Outcome, HistoryInv'
  PROVE  Inv'
<1>1. CameraInv'
  BY DEF Inv, CameraInv, Camera
<1>2. objs' = objs
  BY DEF Camera
<1> QED BY <1>1, <1>2 DEF Inv, CacheInv, CallInv

\* One that changes only the call, and nothing that is known.
LEMMA OnlyTheCall ==
  ASSUME Inv, UNCHANGED Camera, UNCHANGED cache, UNCHANGED history,
         CallInv(call', objs), result' \in Outcome
  PROVE  Inv'
<1>1. HistoryInv'
  BY DEF Inv, HistoryInv
<1>2. CacheInv(cache', objs)
  BY DEF Inv
<1> QED BY <1>1, <1>2, SameCamera

LEMMA CallKeeps ==
  ASSUME Inv, NEW op \in Op, NEW folder \in Folders, NEW name \in Name, Call(op, folder, name)
  PROVE  Inv'
<1> DEFINE c == [NoCall EXCEPT !.op = op, !.folder = folder, !.name = name, !.rest = folder]
<1>1. folder \in Seq(Name)
  BY PtpAssumption, ElementOfSeq DEF Name
<1>2. c \in CallState
  BY <1>1, EmptyRecords DEF CallInv, CallState
<1>3. call' = Walk(c)
  BY DEF Call
<1> HIDE DEF c
<1>4. CallInv(call', objs)
  BY <1>2, <1>3, WalkIsACall DEF CallInv
<1>5. HistoryInv'
  BY PtpAssumption DEF Inv, HistoryInv, Call
<1>6. CacheInv(cache', objs) /\ result' \in Outcome
  BY EmptyRecords DEF Call, Inv
<1> QED BY <1>4, <1>5, <1>6, SameCamera DEF Call

LEMMA CallsKeeps ==
  ASSUME Inv, Calls
  PROVE  Inv'
<1>1. PICK folder \in Folders :
        \/ \E op \in {"files", "folders"} : Call(op, folder, OwnName)
        \/ \E f \in FileName : Call("info", folder, f) \/ Call("put", folder, f)
        \/ \E f \in FileName : Exists(folder, f) /\ Call("delete", folder, f)
        \/ \E d \in DirName : Call("mkdir", folder, d)
        \/ \E d \in DirName : Exists(folder, d) /\ Call("rmdir", folder, d)
  BY DEF Calls
<1>2. OwnName \in Name /\ FileName \subseteq Name /\ DirName \subseteq Name
  BY DEF Name
<1>3. {"files", "folders", "info", "put", "delete", "mkdir", "rmdir"} \subseteq Op
  BY DEF Op
<1>4. \E op \in Op, name \in Name : Call(op, folder, name)
  BY <1>1, <1>2, <1>3
<1> QED BY <1>4, CallKeeps

\* The cursor, an edited call.
LEMMA NearestIsCached ==
  ASSUME Inv, NEW h \in Nearest
  PROVE  h \in DOMAIN cache /\ h \in 1 .. Len(objs) /\ h \in 0 .. MaxObjects
         /\ h \in Special .. MaxObjects
<1>1. h \in DOMAIN cache /\ DOMAIN cache \subseteq 1 .. Len(objs)
  BY DEF Nearest, Ahead, Inv, CacheInv
<1>2. Len(objs) \in 0 .. MaxObjects /\ MaxObjects \in Nat
  BY NumberOfObjects DEF Inv
<1> QED BY <1>1, <1>2 DEF Special

LEMMA EditedCalls ==
  ASSUME Inv
  PROVE  /\ \A a \in {"act", "climb", "data", "handles", "idle", "list", "scan", "want"} :
              [call EXCEPT !.at = a] \in CallState
         /\ \A h \in 0 .. MaxObjects : [call EXCEPT !.cursor = h] \in CallState
         /\ \A h \in 0 .. MaxObjects, n \in Name :
              [call EXCEPT !.cursor = h, !.names = @ \union {n}] \in CallState
<1>1. call \in CallState
  BY DEF Inv, CallInv
<1> QED BY <1>1 DEF CallState

LEMMA ListingKeeps ==
  ASSUME Inv, ListKnown \/ ListAsks
  PROVE  Inv'
<1>1. UNCHANGED Camera /\ UNCHANGED history /\ result' \in Outcome
  BY DEF ListKnown, ListAsks, Goes, Inv
<1>2. CacheInv(cache', objs)
  <2>1. CASE UNCHANGED cache
    BY <2>1 DEF Inv
  <2>2. CASE cache' = [cache EXCEPT ![call.here].flags = @ \union {"listed"}]
    <3>1. CASE call.here \in DOMAIN cache
      <4> DEFINE cell == [cache[call.here] EXCEPT !.flags = @ \union {"listed"}]
      <4>1. cache[call.here] \in Cell
        BY <3>1 DEF Inv, CacheInv
      <4>2. cell \in Cell
        BY <4>1 DEF Cell, Flag
      <4>3. cell.parent = cache[call.here].parent
            /\ ("parent" \in cell.flags => "parent" \in cache[call.here].flags)
        BY <4>1 DEF Cell
      <4>4. cache' = [cache EXCEPT ![call.here] = cell]
        BY <2>2
      <4> HIDE DEF cell
      <4> QED BY <3>1, <4>2, <4>3, <4>4 DEF Inv, CacheInv
    <3>2. CASE call.here \notin DOMAIN cache
      <4>1. cache' = cache
        BY <2>2, <3>2 DEF Inv, CacheInv
      <4> QED BY <4>1 DEF Inv
    <3> QED BY <3>1, <3>2
  <2> QED BY <2>1, <2>2 DEF ListKnown, ListAsks
<1>3. CallInv(call', objs)
  <2>1. \E a \in {"scan", "handles"} : call' = [call EXCEPT !.at = a]
    BY DEF ListKnown, ListAsks, Goes
  <2>2. call \in CallState /\ (call.goal = "walk" => call.rest # << >>)
    BY DEF Inv, CallInv, Looks, ListKnown, ListAsks
  <2>3. call' \in CallState
    BY <2>1, EditedCalls
  <2>4. call'.at \in {"scan", "handles"} /\ call'.goal = call.goal /\ call'.rest = call.rest
    BY <2>1, <2>2 DEF CallState
  <2> QED BY <2>2, <2>3, <2>4 DEF CallInv
<1>4. HistoryInv'
  BY <1>1 DEF Inv, HistoryInv
<1> QED BY <1>1, <1>2, <1>3, <1>4, SameCamera

LEMMA ListedKeeps ==
  ASSUME Inv, call.at = "handles", Listed
  PROVE  (\A o : CallInv(call', o)) /\ result' \in Outcome
<1>1. call \in CallState /\ (call.goal = "walk" => call.rest # << >>) /\ result \in Outcome
  BY DEF Inv, CallInv, Looks
<1>2. CASE call.goal = "roots"
  <2>1. call' = [call EXCEPT !.goal = "root"] /\ result' = result
    BY <1>2 DEF Listed, Goes
  <2>2. call' \in CallState /\ call'.at = "handles" /\ call'.goal = "root"
    BY <1>1, <2>1 DEF CallState
  <2> QED BY <1>1, <2>1, <2>2 DEF CallInv
<1>3. CASE call.goal = "root"
  BY <1>3, Returned, EmptyRecords DEF Listed
<1>4. CASE call.goal \notin {"roots", "root"}
  <2>1. call' = [call EXCEPT !.at = "scan"] /\ result' = result
    BY <1>4 DEF Listed, Goes
  <2>2. call' \in CallState /\ call'.at = "scan" /\ call'.goal = call.goal
        /\ call'.rest = call.rest
    BY <1>1, <2>1 DEF CallState
  <2> QED BY <1>1, <2>1, <2>2 DEF CallInv
<1> QED BY <1>2, <1>3, <1>4

LEMMA HandlesKeep ==
  ASSUME Inv, RootIsRoot, GetHandles \/ GetNoHandles
  PROVE  Inv'
<1>1. UNCHANGED Camera /\ HistoryInv'
  BY AcceptsKeeps, RefusesKeeps DEF GetHandles, GetNoHandles
<1>2. CacheInv(cache', objs)
  BY MergedKeeps DEF GetHandles, GetNoHandles, Inv
<1>3. CallInv(call', objs) /\ result' \in Outcome
  <2>1. call.at = "handles" /\ (Listed \/ Fails)
    BY DEF GetHandles, GetNoHandles
  <2> QED BY <2>1, ListedKeeps, FailsKeeps DEF Looks
<1> QED BY <1>1, <1>2, <1>3, SameCamera

LEMMA ScanEndsKeeps ==
  ASSUME Inv, ScanEnds
  PROVE  Inv'
<1>1. CASE call.goal = "gather"
  <2>1. Return(TRUE, [NoResult EXCEPT !.folder = call.folder, !.names = call.names])
    BY <1>1 DEF ScanEnds
  <2>2. [NoResult EXCEPT !.folder = call.folder, !.names = call.names] \in Outcome
    BY EmptyRecords DEF Outcome, Inv, CallInv, CallState
  <2> QED BY <2>1, <2>2, Returned, OnlyTheCall DEF ScanEnds
<1>2. CASE call.goal # "gather"
  <2>1. Found(Special) /\ Special \in Special .. MaxObjects /\ Looks(call)
    BY <1>2, PtpAssumption DEF ScanEnds, Special, Looks
  <2> QED BY <2>1, FoundKeeps, OnlyTheCall DEF ScanEnds
<1> QED BY <1>1, <1>2

LEMMA ScanWantsKeeps ==
  ASSUME Inv, ScanWants
  PROVE  Inv'
<1>1. PICK h \in Nearest : (WantGets(h) /\ Goes(call)) \/ (WantFails(h) /\ Fails)
  BY DEF ScanWants
<1>2. CASE WantGets(h) /\ Goes(call)
  BY <1>2, WantGetsKeeps, SameCamera DEF ScanWants, Goes, Inv
<1>3. CASE WantFails(h) /\ Fails
  BY <1>3, WantFailsKeeps, FailsKeeps, SameCamera DEF ScanWants, Looks
<1> QED BY <1>1, <1>2, <1>3

\* The loop goes on with the next object.
LEMMA CursorMoves ==
  ASSUME Inv, call.at = "scan", NEW h \in Nearest, NEW n \in SUBSET Name,
         call' = [call EXCEPT !.cursor = h, !.names = n]
  PROVE  CallInv(call', objs)
<1>1. call \in CallState /\ h \in 0 .. MaxObjects
  BY NearestIsCached DEF Inv, CallInv
<1>2. call' \in CallState
  BY <1>1 DEF CallState
<1>3. call'.at = call.at /\ call'.goal = call.goal /\ call'.rest = call.rest
  BY <1>1 DEF CallState
<1> QED BY <1>2, <1>3 DEF Inv, CallInv, Looks

LEMMA ScanPassesKeeps ==
  ASSUME Inv, ScanPasses
  PROVE  Inv'
<1>1. PICK h \in Nearest : Goes([call EXCEPT !.cursor = h])
  BY DEF ScanPasses
<1>2. call \in CallState
  BY DEF Inv, CallInv
<1>3. call' = [call EXCEPT !.cursor = h, !.names = call.names] /\ call.names \in SUBSET Name
  BY <1>1, <1>2 DEF Goes, CallState
<1>4. CallInv(call', objs)
  BY <1>3, CursorMoves DEF ScanPasses
<1> QED BY <1>1, <1>4, OnlyTheCall DEF ScanPasses, Goes, Inv

LEMMA ScanMeetsKeeps ==
  ASSUME Inv, ScanMeets
  PROVE  Inv'
<1>1. PICK h \in Nearest :
        \/ Listable(h) /\ Goes([call EXCEPT !.cursor = h, !.names = @ \union {objs[h].name}])
        \/ IsIt(h) /\ Found(h)
        \/ ~Listable(h) /\ ~IsIt(h) /\ Goes([call EXCEPT !.cursor = h])
  BY DEF ScanMeets
<1>2. call \in CallState /\ h \in 1 .. Len(objs) /\ h \in Special .. MaxObjects
  BY NearestIsCached DEF Inv, CallInv
<1>3. CASE Found(h)
  BY <1>2, <1>3, FoundKeeps, OnlyTheCall DEF ScanMeets, Looks
<1>4. CASE Goes([call EXCEPT !.cursor = h])
  <2>1. call' = [call EXCEPT !.cursor = h, !.names = call.names] /\ call.names \in SUBSET Name
    BY <1>2, <1>4 DEF Goes, CallState
  <2>2. CallInv(call', objs)
    BY <2>1, CursorMoves DEF ScanMeets
  <2> QED BY <1>4, <2>2, OnlyTheCall DEF ScanMeets, Goes, Inv
<1>5. CASE Goes([call EXCEPT !.cursor = h, !.names = @ \union {objs[h].name}])
  <2>1. objs[h].name \in Name
    BY <1>2, NumberOfObjects DEF Inv, Fact
  <2>2. call.names \union {objs[h].name} \in SUBSET Name
    BY <1>2, <2>1 DEF CallState
  <2>3. call' = [call EXCEPT !.cursor = h, !.names = call.names \union {objs[h].name}]
    BY <1>2, <1>5 DEF Goes, CallState
  <2>4. CallInv(call', objs)
    BY <2>2, <2>3, CursorMoves DEF ScanMeets
  <2> QED BY <1>5, <2>4, OnlyTheCall DEF ScanMeets, Goes, Inv
<1> QED BY <1>1, <1>3, <1>4, <1>5

LEMMA ActsKeep ==
  ASSUME Inv, GetInfo \/ NotFound \/ AlreadyThere
  PROVE  Inv'
<1>1. UNCHANGED <<cache, history>> /\ UNCHANGED Camera
  BY DEF GetInfo, NotFound, AlreadyThere
<1> DEFINE r == [NoResult EXCEPT !.folder = call.folder, !.name = call.name,
                                 !.object = call.target]
<1>2. r \in Outcome
  BY EmptyRecords DEF Outcome, Inv, CallInv, CallState
<1>3. Return(FALSE, NoResult) \/ Return(TRUE, r)
  BY DEF GetInfo, NotFound, AlreadyThere, Done
<1> HIDE DEF r
<1> QED BY <1>1, <1>2, <1>3, EmptyRecords, Returned, OnlyTheCall

LEMMA DeletesKeeps ==
  ASSUME Inv, Deletes
  PROVE  Inv'
<1>1. UNCHANGED <<objs, kind, events>> /\ live' \subseteq live /\ HistoryInv'
  BY AcceptsKeeps, RefusesKeeps DEF Deletes, Lost
<1>2. CameraInv'
  BY <1>1 DEF Inv, CameraInv
<1>3. CacheInv(cache', objs)
  BY WithoutKeeps DEF Deletes, Inv
<1>4. (\A o : CallInv(call', o)) /\ result' \in Outcome
  BY Returned, EmptyRecords DEF Deletes, Done
<1> QED BY <1>1, <1>2, <1>3, <1>4 DEF Inv

LEMMA SendInfoKeeps ==
  ASSUME Inv, SendInfo
  PROVE  Inv'
<1> DEFINE h == Len(objs) + 1
           x == [parent |-> Parent, name |-> call.name, dir |-> call.op = "mkdir"]
<1>1. /\ Sends /\ Takes /\ Accepts /\ h <= MaxObjects /\ New(h)
      /\ \/ call.op = "mkdir" /\ Added(h) /\ Done(Made(h))
         \/ /\ call.op = "put" /\ UNCHANGED cache
            /\ Goes([call EXCEPT !.at = "data", !.target = h])
  BY DEF SendInfo
<1>2. call \in CallState /\ Len(objs) \in 0 .. MaxObjects /\ MaxObjects \in Nat
  BY NumberOfObjects DEF Inv, CallInv
<1>3. x \in Fact
  <2>1. Parent \in 0 .. MaxObjects
    BY <1>1, <1>2, PtpAssumption DEF Takes, Inv, CameraInv, Root
  <2>2. call.name \in Name
    BY <1>2 DEF CallState
  <2> QED BY <2>1, <2>2 DEF Fact
<1>4. objs' = Append(objs, x) /\ live' = live \union {h} /\ UNCHANGED <<kind, events>>
  BY <1>1 DEF New
<1> HIDE DEF x
<1>5. objs' \in Seq(Fact) /\ Len(objs') = h /\ CacheInv(cache, objs')
      /\ live \subseteq 1 .. h
  BY <1>3, <1>4, MoreObjects
<1>6. h \in 1 .. h /\ h \in Special .. MaxObjects
  BY <1>1, <1>2 DEF Special
<1>7. CameraInv'
  <2> HIDE DEF h
  <2> QED BY <1>1, <1>4, <1>5, <1>6 DEF Inv, CameraInv
<1>8. CacheInv(cache', objs')
  <2>1. CASE UNCHANGED cache
    BY <1>5, <2>1
  <2>2. CASE Added(h)
    <3> DEFINE cell == Known(h)
    <3>1. h \notin DOMAIN cache
      BY <1>2 DEF Inv, CacheInv
    <3>2. cell = NewCell
      BY <3>1 DEF Known
    <3>3. cell \in Cell /\ "parent" \notin cell.flags
      BY <3>2, KnownCell, PtpAssumption DEF NewCell
    <3>4. cache' = [k \in DOMAIN cache \union {h} |-> IF k = h THEN cell ELSE cache[k]]
      BY <2>2 DEF Added, With
    <3>5. h \in 1 .. Len(objs')
      BY <1>5, <1>6
    <3> HIDE DEF cell, h
    <3>6. CacheInv(cache, objs')
      BY <1>5
    <3>7. /\ DOMAIN cache' = DOMAIN cache \union {h} /\ cache' \in [DOMAIN cache' -> Cell]
          /\ cache'[h] = cell
          /\ \A k \in DOMAIN cache \ {h} : cache'[k] = cache[k]
      BY <3>3, <3>4, <3>6 DEF CacheInv
    <3> QED BY <3>3, <3>5, <3>6, <3>7, WithKeeps
  <2> QED BY <1>1, <2>1, <2>2
<1>9. CallInv(call', objs') /\ result' \in Outcome
  <2> HIDE DEF h
  <2>1. CASE Done(Made(h))
    <3>1. Made(h) \in Outcome
      BY <1>2, <1>6, EmptyRecords DEF Made, Outcome, CallState
    <3> QED BY <2>1, <3>1, Returned DEF Done
  <2>2. CASE Goes([call EXCEPT !.at = "data", !.target = h])
    <3>1. call' = [call EXCEPT !.at = "data", !.target = h] /\ result' = result
      BY <2>2 DEF Goes
    <3>2. call' \in CallState
      BY <1>2, <1>6, <3>1 DEF CallState
    <3>3. call'.at = "data" /\ call'.target = h
      BY <1>2, <3>1 DEF CallState
    <3>4. call'.target \in 1 .. Len(objs')
      BY <1>5, <1>6, <3>3
    <3> QED BY <3>1, <3>2, <3>3, <3>4 DEF CallInv, Looks, Inv
  <2> QED BY <1>1, <2>1, <2>2
<1>10. HistoryInv'
  BY <1>1, AcceptsKeeps
<1> QED BY <1>7, <1>8, <1>9, <1>10 DEF Inv

LEMMA SendInfoFailsKeeps ==
  ASSUME Inv, SendInfoFails
  PROVE  Inv'
<1>1. HistoryInv' /\ CacheInv(cache', objs)
  BY AcceptsKeeps, RefusesKeeps DEF SendInfoFails, Inv
<1> QED BY <1>1, Returned, EmptyRecords, SameCamera DEF SendInfoFails

LEMMA CheckFailsKeeps ==
  ASSUME Inv, CheckFails
  PROVE  Inv'
<1>1. HistoryInv' /\ CacheInv(cache', objs)
  BY RefusesKeeps DEF CheckFails, Inv
<1> QED BY <1>1, Returned, EmptyRecords, SameCamera DEF CheckFails

LEMMA SendDataKeeps ==
  ASSUME Inv, SendData
  PROVE  Inv'
<1>1. call \in CallState /\ call.target \in 1 .. Len(objs)
  BY DEF Inv, CallInv, SendData
<1>2. UNCHANGED <<objs, kind, events>> /\ live' \subseteq live /\ HistoryInv'
  BY AcceptsKeeps, RefusesKeeps DEF SendData, Lost
<1>3. CameraInv'
  BY <1>2 DEF Inv, CameraInv
<1>4. CacheInv(cache', objs)
  BY <1>1, AddedKeeps DEF SendData, Inv
<1>5. Made(call.target) \in Outcome
  BY <1>1, EmptyRecords DEF Made, Outcome, CallState
<1>6. (\A o : CallInv(call', o)) /\ result' \in Outcome
  BY <1>5, Returned, EmptyRecords DEF SendData, Done
<1> QED BY <1>2, <1>3, <1>4, <1>6 DEF Inv

LEMMA EventKeeps ==
  ASSUME Inv, Event
  PROVE  Inv'
<1>1. Head(events) \in 1 .. Len(objs) /\ Tail(events) \in Seq(1 .. Len(objs))
  BY HeadTailProperties DEF Event, Inv, CameraInv
<1>2. CameraInv'
  BY <1>1 DEF Event, Inv, CameraInv
<1>3. Head(events) \in Special .. MaxObjects
  BY <1>1, NumberOfObjects DEF Inv, Special
<1>4. NoCall \in CallState
  BY EmptyRecords DEF CallInv
<1>5. call' = [NoCall EXCEPT !.op = "event", !.at = "want", !.target = Head(events)]
  BY DEF Event
<1>6. call' \in CallState /\ call'.at = "want" /\ call'.target = Head(events)
  BY <1>3, <1>4, <1>5 DEF CallState, Op
<1>7. CallInv(call', objs')
  BY <1>1, <1>6 DEF CallInv, Looks, Event
<1>8. HistoryInv'
  BY PtpAssumption DEF Event, Inv, HistoryInv
<1>9. CacheInv(cache', objs') /\ result' \in Outcome
  BY EmptyRecords DEF Event, Inv
<1> QED BY <1>2, <1>7, <1>8, <1>9 DEF Inv

LEMMA EventWantsKeeps ==
  ASSUME Inv, EventWants
  PROVE  Inv'
<1>1. CacheInv(cache', objs) /\ HistoryInv'
  BY WantGetsKeeps, WantFailsKeeps, AcceptsKeeps DEF EventWants, Inv, Accepts
<1>2. CASE WantFails(call.target) /\ Return(FALSE, NoResult)
  BY <1>1, <1>2, Returned, EmptyRecords, SameCamera DEF EventWants
<1>3. CASE ~(WantFails(call.target) /\ Return(FALSE, NoResult))
  <2>1. call' = [call EXCEPT !.at = "climb", !.here = cache'[call.target].parent]
        /\ result' = result
    BY <1>3 DEF EventWants, Goes
  <2>2. call.target \in DOMAIN cache'
    BY <1>3, WantGetsKeeps DEF EventWants, Has
  <2>3. cache'[call.target].parent \in Special .. MaxObjects
    BY <1>1, <2>2 DEF CacheInv, Cell
  <2>4. call \in CallState
    BY DEF Inv, CallInv
  <2>5. call' \in CallState /\ call'.at = "climb" /\ call'.target = call.target
    BY <2>1, <2>3, <2>4 DEF CallState
  <2>6. CallInv(call', objs) /\ result' \in Outcome
    BY <2>1, <2>5 DEF CallInv, Looks, Inv, EventWants
  <2> QED BY <1>1, <2>6, SameCamera DEF EventWants
<1> QED BY <1>2, <1>3

\* An event is told.
LEMMA ToldKeeps ==
  ASSUME Inv, call.at = "climb", NEW path \in Seq(Name), Told(path)
  PROVE  (\A o : CallInv(call', o)) /\ result' \in Outcome
<1> DEFINE r == [NoResult EXCEPT !.folder = path, !.name = objs[call.target].name,
                                 !.object = call.target]
<1>1. objs[call.target].name \in Name
  BY NumberOfObjects DEF Inv, CallInv, Fact
<1>2. r \in Outcome
  BY <1>1, EmptyRecords DEF Outcome, Inv, CallInv, CallState
<1>3. Return(TRUE, r)
  BY DEF Told, Done
<1> HIDE DEF r
<1> QED BY <1>2, <1>3, Returned

LEMMA ClimbsKeeps ==
  ASSUME Inv, Climbs
  PROVE  Inv'
<1>1. call \in CallState /\ call.at = "climb" /\ call.target \in 1 .. Len(objs)
      /\ UNCHANGED Camera
  BY DEF Inv, CallInv, Climbs
<1>2. CASE Has(call.here, {"info"})
  <2> DEFINE path == <<objs[call.here].name>> \o call.rest
  <2>1. call.here \in DOMAIN cache /\ call.here \in 1 .. Len(objs)
    BY <1>2 DEF Has, Inv, CacheInv
  <2>2. cache[call.here].parent \in Special .. MaxObjects
    BY <2>1 DEF Inv, CacheInv, Cell
  <2>3. objs[call.here].name \in Name
    BY <2>1, NumberOfObjects DEF Inv, Fact
  <2>4. <<objs[call.here].name>> \in Seq(Name)
    BY <2>3
  <2>5. path \in Seq(Name)
    BY <1>1, <2>4, ConcatProperties DEF CallState
  <2>6. call' = [call EXCEPT !.here = cache[call.here].parent, !.rest = path]
        /\ result' = result /\ UNCHANGED <<cache, history>>
    BY <1>1, <1>2 DEF Climbs, Goes, CallState
  <2> HIDE DEF path
  <2>7. call' \in CallState /\ call'.at = "climb" /\ call'.target = call.target
    BY <1>1, <2>2, <2>5, <2>6 DEF CallState
  <2>8. CallInv(call', objs) /\ result' \in Outcome
    BY <1>1, <2>6, <2>7 DEF CallInv, Looks, Inv
  <2> QED BY <1>1, <2>6, <2>8, OnlyTheCall
<1>3. CASE WantGets(call.here) /\ Goes(call)
  BY <1>1, <1>3, WantGetsKeeps, SameCamera DEF Goes, Inv
<1>4. CASE WantFails(call.here) /\ Told(<< >>)
  <2>1. << >> \in Seq(Name)
    OBVIOUS
  <2> QED BY <1>1, <1>4, <2>1, ToldKeeps, WantFailsKeeps, SameCamera
<1> QED BY <1>2, <1>3, <1>4 DEF Climbs

LEMMA ClimbedKeeps ==
  ASSUME Inv, Climbed
  PROVE  Inv'
<1>1. call.rest \in Seq(Name)
  BY DEF Inv, CallInv, CallState
<1> QED BY <1>1, ToldKeeps, OnlyTheCall DEF Climbed

LEMMA TakeKeeps ==
  ASSUME Inv, Take
  PROVE  Inv'
<1> DEFINE n == Len(objs) + 1
<1>1. PICK p \in {Root} \union {h \in live : objs[h].dir} :
        objs' = Append(objs, [parent |-> p, name |-> OwnName, dir |-> FALSE])
  BY DEF Take
<1> DEFINE x == [parent |-> p, name |-> OwnName, dir |-> FALSE]
<1>2. Len(objs) \in 0 .. MaxObjects /\ MaxObjects \in Nat /\ Len(objs) < MaxObjects
  BY NumberOfObjects DEF Inv, Take
<1>3. p \in 0 .. MaxObjects /\ OwnName \in Name
  BY <1>1, <1>2 DEF Inv, CameraInv, Root, Name
<1>4. x \in Fact
  BY <1>3 DEF Fact
<1>5. /\ kind' = kind /\ cache' = cache /\ call' = call /\ result' = result
      /\ live' = live \union {n}
      /\ events' = Append(events, n)
  BY DEF Take, ByHand
<1>6. objs' = Append(objs, x)
  BY <1>1
<1> HIDE DEF x
<1>7. /\ objs' \in Seq(Fact) /\ Len(objs') = n /\ live \subseteq 1 .. n
      /\ CacheInv(cache, objs') /\ CallInv(call, objs')
  BY <1>4, <1>6, MoreObjects DEF Inv
<1>8. n \in 1 .. n /\ n <= MaxObjects /\ 1 .. Len(objs) \subseteq 1 .. n
  BY <1>2
<1> HIDE DEF n
<1>9. events' \in Seq(1 .. n)
  <2>1. events \in Seq(1 .. n)
    BY <1>8, SeqMonotonic DEF Inv, CameraInv
  <2> QED BY <1>5, <1>8, <2>1, AppendProperties
<1>10. CameraInv'
  BY <1>5, <1>7, <1>8, <1>9 DEF Inv, CameraInv
<1>11. HistoryInv'
  <2>1. /\ history' = [history EXCEPT !.byHand = history.byHand + 1]
        /\ history.byHand < MaxByHand
    BY DEF Take, ByHand
  <2>2. HistoryInv /\ MaxByHand \in Nat
    BY PtpAssumption DEF Inv
  <2>3. history.byHand + 1 \in 0 .. MaxByHand
    BY <2>1, <2>2 DEF HistoryInv
  <2> QED BY <2>1, <2>2, <2>3 DEF HistoryInv
<1>12. CacheInv(cache', objs') /\ CallInv(call', objs') /\ result' \in Outcome
  <2>1. CacheInv(cache, objs') /\ CallInv(call, objs') /\ result \in Outcome
    BY <1>7 DEF Inv
  <2> QED BY <1>5, <2>1
<1> QED BY <1>10, <1>11, <1>12 DEF Inv

LEMMA RemoveKeeps ==
  ASSUME Inv, Remove
  PROVE  Inv'
<1>1. UNCHANGED <<objs, kind, cache, call, result, events>> /\ live' \subseteq live
  BY DEF Remove, ByHand, Lost
<1>2. CameraInv'
  BY <1>1 DEF Inv, CameraInv
<1>3. HistoryInv'
  <2> DEFINE n == history.byHand + 1
  <2>1. n \in 0 .. MaxByHand
    BY PtpAssumption DEF Remove, ByHand, Inv, HistoryInv
  <2>2. history' = [history EXCEPT !.byHand = n, !.lost = TRUE]
    BY DEF Remove
  <2> HIDE DEF n
  <2> QED BY <2>1, <2>2 DEF Inv, HistoryInv
<1> QED BY <1>1, <1>2, <1>3 DEF Inv

-----------------------------------------------------------------------------
(***************************************************************************)
(* The invariant is one, and implies the properties.                       *)
(***************************************************************************)

LEMMA NextInv ==
  ASSUME RootIsRoot, Inv, [Next]_vars
  PROVE  Inv'
<1>1. CASE Next
  <2>1. CASE Driver
    BY <2>1, ListingKeeps, HandlesKeep, ScanEndsKeeps, ScanWantsKeeps, ScanPassesKeeps,
       ScanMeetsKeeps, ActsKeep, DeletesKeeps, SendInfoKeeps, SendInfoFailsKeeps, CheckFailsKeeps,
       SendDataKeeps, EventWantsKeeps, ClimbsKeeps, ClimbedKeeps DEF Driver
  <2> QED BY <1>1, <2>1, CallsKeeps, EventKeeps, TakeKeeps, RemoveKeeps DEF Next
<1>2. CASE UNCHANGED vars
  BY <1>2 DEF vars, Inv, CameraInv, CacheInv, CallInv, Looks, HistoryInv
<1> QED BY <1>1, <1>2

LEMMA InvAlways == RootIsRoot => (Spec => []Inv)
<1> SUFFICES ASSUME RootIsRoot PROVE Spec => []Inv
  OBVIOUS
<1>1. Init => Inv
  BY InitInv
<1>2. Inv /\ [Next]_vars => Inv'
  BY NextInv
<1> QED BY <1>1, <1>2, PTL DEF Spec

(* The types.                                                              *)
THEOREM TypeCorrect == RootIsRoot => (Spec => []TypeOK)
<1>1. Inv => TypeOK
  <2> SUFFICES ASSUME Inv PROVE TypeOK
    OBVIOUS
  <2>1. 1 .. Len(objs) \subseteq Handle /\ Len(objs) \in 0 .. MaxObjects
    BY NumberOfObjects DEF Inv
  <2>2. events \in Seq(Handle)
    BY <2>1, SeqMonotonic DEF Inv, CameraInv
  <2> QED BY <2>1, <2>2 DEF Inv, TypeOK, CameraInv, CacheInv, CallInv, HistoryInv
<1> QED BY <1>1, InvAlways, PTL

(* The parents that library.c remembers, set by GetObjectInfo or by itself *)
(* when it lists a folder, are the camera's, whatever the camera refuses   *)
(* and whatever is lost: if no camera lists all its objects for the root.  *)
THEOREM ParentsAreTrue == RootIsRoot => (Spec => []CacheIsTrue)
<1>1. Inv => CacheIsTrue
  BY DEF Inv, CacheInv, CacheIsTrue
<1> QED BY <1>1, InvAlways, PTL

-----------------------------------------------------------------------------
(***************************************************************************)
(* Paths.  A parent is there before its children, hence PathOf is defined, *)
(* and what holds of paths is shown for the object that was first.         *)
(***************************************************************************)

\* A set of natural numbers has a least: induction, for what depends on data.
LEMMA LeastNat ==
  ASSUME NEW T, T \subseteq Nat, T # {}
  PROVE  \E m \in T : \A k \in T : m <= k
<1> DEFINE R == OpToRel(<, Nat)
<1>1. IsWellFoundedOn(R, Nat)
  BY NatLessThanWellFounded
<1>2. \A x, y \in Nat : <<x, y>> \in R <=> x < y
  BY DEF OpToRel
<1> HIDE DEF R
<1>3. PICK m \in T : \A y \in T : ~ (<<y, m>> \in R)
  BY <1>1, WFMin
<1>4. ASSUME NEW k \in T
      PROVE  m <= k
  <2>1. k \in Nat /\ m \in Nat /\ ~(k < m)
    BY <1>2, <1>3
  <2> QED BY <2>1
<1> QED BY <1>4

ParentsFirst(o) == \A h \in 1 .. Len(o) : o[h].parent \in 0 .. (h - 1)

\* PathOf for any objects o.
Step(o, f, k) == IF k = Root THEN << >> ELSE Append(f[o[k].parent], o[k].name)
PathIn(o, h) ==
  LET path[k \in 0 .. Len(o)] ==
        IF k = Root THEN << >> ELSE Append(path[o[k].parent], o[k].name)
  IN path[h]

LEMMA PathsAreIn ==
  /\ \A h : PathOf(h) = PathIn(objs, h)
  /\ \A h : PathOf(h)' = PathIn(objs', h)
BY DEF PathOf, PathIn

LEMMA PathsExist ==
  ASSUME NEW o \in Seq(Fact), ParentsFirst(o)
  PROVE  \E f : f = [k \in 0 .. Len(o) |-> Step(o, f, k)]
<1>1. Len(o) \in Nat
  BY LenProperties
<1> DEFINE Upto(n, f) == f = [k \in 0 .. n |-> Step(o, f, k)]
           T == {n \in 0 .. Len(o) : ~ \E f : Upto(n, f)}
<1>2. ASSUME NEW m \in T, \A k \in T : m <= k
      PROVE  FALSE
  <2>1. m \in Nat /\ m \in 0 .. Len(o) /\ ~ \E f : Upto(m, f)
    BY <1>1
  <2>2. CASE m = 0
    <3> DEFINE f == [k \in 0 .. 0 |-> << >>]
    <3>1. f = [k \in 0 .. 0 |-> Step(o, f, k)]
      BY DEF Step, Root
    <3> QED BY <2>1, <2>2, <3>1
  <2>3. CASE m # 0
    <3>1. m - 1 \in 0 .. Len(o) /\ m - 1 \notin T
      BY <1>2, <2>1, <2>3, <1>1
    <3>2. PICK f : Upto(m - 1, f)
      BY <3>1
    <3> DEFINE g == [k \in 0 .. m |-> IF k < m THEN f[k] ELSE Step(o, f, m)]
    <3>3. ASSUME NEW k \in 0 .. m
          PROVE  g[k] = Step(o, g, k)
      <4>1. k = Root \/ o[k].parent \in 0 .. (k - 1)
        BY <2>1, <1>1 DEF ParentsFirst, Root
      <4>2. k = Root \/ g[o[k].parent] = f[o[k].parent]
        BY <4>1, <2>1
      <4>3. Step(o, g, k) = Step(o, f, k)
        BY <4>2 DEF Step
      <4>4. CASE k < m
        <5>1. k \in 0 .. (m - 1)
          BY <2>1, <4>4
        <5>2. f[k] = Step(o, f, k)
          <6> HIDE DEF g
          <6> QED BY <3>2, <5>1
        <5> QED BY <4>3, <4>4, <5>2
      <4>5. CASE k = m
        BY <4>3, <4>5, <2>1
      <4> QED BY <4>4, <4>5, <2>1
    <3>4. g = [k \in 0 .. m |-> Step(o, g, k)]
      <4>1. g = [k \in 0 .. m |-> g[k]]
        OBVIOUS
      <4> HIDE DEF g
      <4> QED BY <3>3, <4>1
    <3> QED BY <2>1, <3>4
  <2> QED BY <2>2, <2>3
<1>3. T \subseteq Nat
  BY <1>1
<1>4. T = {}
  <2> HIDE DEF T
  <2> QED BY <1>2, <1>3, LeastNat
<1>5. Len(o) \in 0 .. Len(o) /\ Len(o) \notin T
  BY <1>1, <1>4
<1> QED BY <1>5

\* The path of an object is that of its parent and its name.
LEMMA PathStep ==
  ASSUME NEW o \in Seq(Fact), ParentsFirst(o)
  PROVE  /\ PathIn(o, Root) = << >>
         /\ \A h \in 1 .. Len(o) :
              /\ o[h].parent \in 0 .. Len(o) /\ o[h].parent < h
              /\ PathIn(o, h) = Append(PathIn(o, o[h].parent), o[h].name)
<1> DEFINE f == CHOOSE f : f = [k \in 0 .. Len(o) |-> Step(o, f, k)]
<1>1. f = [k \in 0 .. Len(o) |-> Step(o, f, k)]
  BY PathsExist
<1>2. ASSUME NEW h \in 0 .. Len(o)
      PROVE  PathIn(o, h) = f[h]
  BY DEF PathIn, Step
<1> HIDE DEF f
<1>3. Len(o) \in Nat
  BY LenProperties
<1>4. ASSUME NEW h \in 1 .. Len(o)
      PROVE  /\ o[h].parent \in 0 .. Len(o) /\ o[h].parent < h
             /\ PathIn(o, h) = Append(PathIn(o, o[h].parent), o[h].name)
  <2>1. h \in 0 .. Len(o) /\ h # 0 /\ o[h].parent \in 0 .. Len(o) /\ o[h].parent < h
    BY <1>3 DEF ParentsFirst
  <2> QED BY <1>1, <1>2, <2>1 DEF Step, Root
<1>5. PathIn(o, Root) = << >>
  <2>1. 0 \in 0 .. Len(o)
    BY <1>3
  <2> QED BY <1>1, <1>2, <2>1 DEF Step, Root
<1> QED BY <1>4, <1>5

LEMMA PathType ==
  ASSUME NEW o \in Seq(Fact), ParentsFirst(o)
  PROVE  \A h \in 0 .. Len(o) : PathIn(o, h) \in Seq(Name)
<1> DEFINE T == {h \in 0 .. Len(o) : PathIn(o, h) \notin Seq(Name)}
<1>1. Len(o) \in Nat /\ T \subseteq Nat
  BY LenProperties
<1>2. ASSUME NEW m \in T, \A k \in T : m <= k
      PROVE  FALSE
  <2>1. m \in 0 .. Len(o) /\ PathIn(o, m) \notin Seq(Name)
    OBVIOUS
  <2>2. CASE m = 0
    <3>1. PathIn(o, m) = << >>
      BY <2>2, PathStep DEF Root
    <3> QED BY <2>1, <3>1
  <2>3. CASE m # 0
    <3>1. m \in 1 .. Len(o)
      BY <1>1, <2>1, <2>3
    <3>2. /\ o[m].parent \in 0 .. Len(o) /\ o[m].parent < m
          /\ PathIn(o, m) = Append(PathIn(o, o[m].parent), o[m].name)
      BY <3>1, PathStep
    <3>3. PathIn(o, o[m].parent) \in Seq(Name)
      <4>1. o[m].parent \notin T
        BY <1>1, <1>2, <2>1, <3>2
      <4> QED BY <3>2, <4>1
    <3>4. o[m].name \in Name
      <4>1. o[m] \in Fact
        BY <3>1, ElementOfSeq
      <4> QED BY <4>1 DEF Fact
    <3>5. PathIn(o, m) \in Seq(Name)
      BY <3>2, <3>3, <3>4, AppendProperties
    <3> QED BY <2>1, <3>5
  <2> QED BY <2>2, <2>3
<1>3. T = {}
  <2> HIDE DEF T
  <2> QED BY <1>1, <1>2, LeastNat
<1> QED BY <1>3

\* Objects that come later leave the paths of the earlier ones.
LEMMA PathsStay ==
  ASSUME NEW o \in Seq(Fact), ParentsFirst(o), NEW p \in Seq(Fact), ParentsFirst(p),
         Len(o) <= Len(p), \A h \in 1 .. Len(o) : p[h] = o[h]
  PROVE  \A h \in 0 .. Len(o) : PathIn(p, h) = PathIn(o, h)
<1> DEFINE T == {h \in 0 .. Len(o) : PathIn(p, h) # PathIn(o, h)}
<1>1. Len(o) \in Nat /\ Len(p) \in Nat /\ T \subseteq Nat
  BY LenProperties
<1>2. ASSUME NEW m \in T, \A k \in T : m <= k
      PROVE  FALSE
  <2>1. m \in 0 .. Len(o) /\ PathIn(p, m) # PathIn(o, m)
    OBVIOUS
  <2>2. CASE m = 0
    BY <2>1, <2>2, PathStep DEF Root
  <2>3. CASE m # 0
    <3>1. m \in 1 .. Len(o) /\ m \in 1 .. Len(p)
      BY <1>1, <2>1, <2>3
    <3>2. /\ o[m].parent \in 0 .. Len(o) /\ o[m].parent < m
          /\ PathIn(o, m) = Append(PathIn(o, o[m].parent), o[m].name)
      BY <3>1, PathStep
    <3>3. PathIn(p, m) = Append(PathIn(p, p[m].parent), p[m].name)
      BY <3>1, PathStep
    <3>4. o[m].parent \notin T
      BY <1>1, <1>2, <2>1, <3>2
    <3>5. PathIn(p, o[m].parent) = PathIn(o, o[m].parent)
      BY <3>2, <3>4
    <3>6. p[m] = o[m]
      BY <3>1
    <3> QED BY <2>1, <3>2, <3>3, <3>5, <3>6
  <2> QED BY <2>2, <2>3
<1>3. T = {}
  <2> HIDE DEF T
  <2> QED BY <1>1, <1>2, LeastNat
<1> QED BY <1>3

-----------------------------------------------------------------------------
(***************************************************************************)
(* The way to the folder, which holds whatever fails: the driver is where  *)
(* the part of the path that it has walked leads, or it has found nothing. *)
(***************************************************************************)

\* The functions that begin with a folder.
FolderOp == {"files", "folders", "info", "delete", "rmdir", "put", "mkdir"}

\* Where c is, and what is left of its path, are the folder.
IsThere(c, o) ==
  c.here # Special => /\ c.here \in 0 .. Len(o)
                      /\ PathIn(o, c.here) \o c.rest = c.folder

WayOf(c, o) ==
  c.op \in FolderOp =>
    /\ c.at \in {"list", "handles", "scan", "act", "data"}
    /\ c.goal \in {"walk", "seek", "gather"}
    /\ c.goal = "walk" => Looks(c)
    /\ c.goal # "walk" => c.rest = << >>
    /\ IsThere(c, o)
    /\ c.at = "act" /\ c.target # Special =>
         /\ c.here # Special /\ c.target \in 1 .. Len(o)
         /\ o[c.target].parent = c.here /\ o[c.target].name = c.name

\* An object whose information is loaded has a parent that is known.
FlagsInv == \A h \in DOMAIN cache : "info" \in cache[h].flags => "parent" \in cache[h].flags

WayInv == ParentsFirst(objs) /\ WayOf(call, objs) /\ FlagsInv

\* Objects are only added, each with a parent that is there.
LEMMA ObjectsGrow ==
  ASSUME Inv, ParentsFirst(objs), [Next]_vars
  PROVE  \/ objs' = objs
         \/ \E x \in Fact : x.parent \in live \union {Root} /\ objs' = Append(objs, x)
<1>1. CASE SendInfo
  <2>1. /\ Takes
        /\ objs' = Append(objs, [parent |-> Parent, name |-> call.name,
                                 dir |-> call.op = "mkdir"])
    BY <1>1 DEF SendInfo, New
  <2>2. Parent \in live \union {Root} /\ Parent \in 0 .. MaxObjects /\ call.name \in Name
    BY <2>1, PtpAssumption DEF Takes, Inv, CameraInv, CallInv, CallState, Root
  <2> DEFINE x == [parent |-> Parent, name |-> call.name, dir |-> call.op = "mkdir"]
  <2>3. x \in Fact /\ x.parent = Parent
    BY <2>2 DEF Fact
  <2> QED BY <2>1, <2>2, <2>3
<1>2. CASE Take
  <2>1. PICK p \in {Root} \union {h \in live : objs[h].dir} :
          objs' = Append(objs, [parent |-> p, name |-> OwnName, dir |-> FALSE])
    BY <1>2 DEF Take
  <2>2. p \in live \union {Root} /\ p \in 0 .. MaxObjects /\ OwnName \in Name
    BY <2>1, PtpAssumption DEF Inv, CameraInv, Root, Name
  <2> DEFINE x == [parent |-> p, name |-> OwnName, dir |-> FALSE]
  <2>3. x \in Fact /\ x.parent = p
    BY <2>2 DEF Fact
  <2> QED BY <2>1, <2>2, <2>3
<1>3. CASE Calls \/ Event \/ Remove \/ ListKnown \/ ListAsks \/ GetHandles \/ GetNoHandles
  BY <1>3 DEF Calls, Call, Event, Remove, ListKnown, ListAsks, GetHandles, GetNoHandles, Camera
<1>4. CASE \/ ScanEnds \/ ScanWants \/ ScanPasses \/ ScanMeets
           \/ GetInfo \/ NotFound \/ AlreadyThere \/ Deletes
  BY <1>4 DEF ScanEnds, ScanWants, ScanPasses, ScanMeets, GetInfo, NotFound,
              AlreadyThere, Deletes, Camera
<1>5. CASE SendInfoFails \/ CheckFails \/ SendData \/ EventWants \/ Climbs \/ Climbed \/ UNCHANGED vars
  BY <1>5 DEF SendInfoFails, CheckFails, SendData, EventWants, Climbs, Climbed, Camera, vars
<1> QED BY <1>1, <1>2, <1>3, <1>4, <1>5 DEF Next, Driver

LEMMA GrownObjects ==
  ASSUME Inv, ParentsFirst(objs), [Next]_vars
  PROVE  /\ objs \in Seq(Fact) /\ objs' \in Seq(Fact) /\ ParentsFirst(objs')
         /\ Len(objs) \in Nat /\ Len(objs') \in Nat /\ Len(objs) <= Len(objs')
         /\ \A h \in 1 .. Len(objs) : objs'[h] = objs[h] /\ h \in 1 .. Len(objs')
<1>1. objs \in Seq(Fact) /\ Len(objs) \in Nat /\ live \subseteq 1 .. Len(objs)
  BY LenProperties DEF Inv, CameraInv
<1>2. CASE objs' = objs
  BY <1>1, <1>2
<1>3. ASSUME NEW x \in Fact, x.parent \in live \union {Root}, objs' = Append(objs, x)
      PROVE  /\ objs' \in Seq(Fact) /\ ParentsFirst(objs')
             /\ Len(objs') \in Nat /\ Len(objs) <= Len(objs')
             /\ \A h \in 1 .. Len(objs) : objs'[h] = objs[h] /\ h \in 1 .. Len(objs')
  <2>1. /\ objs' \in Seq(Fact) /\ Len(objs') = Len(objs) + 1
        /\ \A h \in 1 .. Len(objs) : objs'[h] = objs[h]
        /\ objs'[Len(objs) + 1] = x
    BY <1>1, <1>3, AppendProperties
  <2>2. ASSUME NEW h \in 1 .. Len(objs')
        PROVE  objs'[h].parent \in 0 .. (h - 1)
    <3>1. CASE h \in 1 .. Len(objs)
      BY <2>1, <3>1 DEF ParentsFirst
    <3>2. CASE h = Len(objs) + 1
      <4>1. x.parent \in 0 .. Len(objs)
        <5>1. \A k \in live \union {Root} : k \in 0 .. Len(objs)
          BY <1>1 DEF Root
        <5> QED BY <1>3, <5>1
      <4>2. objs'[h] = x /\ h - 1 = Len(objs)
        BY <1>1, <2>1, <3>2
      <4> QED BY <4>1, <4>2
    <3> QED BY <1>1, <2>1, <3>1, <3>2
  <2>3. ParentsFirst(objs')
    BY <2>2 DEF ParentsFirst
  <2> QED BY <1>1, <2>1, <2>3
<1> QED BY <1>1, <1>2, <1>3, ObjectsGrow

\* The path of what there is does not change.
LEMMA SamePaths ==
  ASSUME Inv, ParentsFirst(objs), [Next]_vars
  PROVE  \A h \in 0 .. Len(objs) : PathIn(objs', h) = PathIn(objs, h)
BY GrownObjects, PathsStay

\* Nor does the way of a call.
LEMMA WayStays ==
  ASSUME Inv, ParentsFirst(objs), [Next]_vars, NEW c, WayOf(c, objs)
  PROVE  WayOf(c, objs')
<1>1. /\ \A h \in 0 .. Len(objs) : PathIn(objs', h) = PathIn(objs, h)
      /\ Len(objs) \in Nat /\ Len(objs') \in Nat /\ Len(objs) <= Len(objs')
      /\ \A h \in 1 .. Len(objs) : objs'[h] = objs[h] /\ h \in 1 .. Len(objs')
  BY SamePaths, GrownObjects
<1>2. \A h \in 0 .. Len(objs) : h \in 0 .. Len(objs')
  BY <1>1
<1>3. IsThere(c, objs) => IsThere(c, objs')
  BY <1>1, <1>2 DEF IsThere
<1> QED BY <1>1, <1>3 DEF WayOf

\* A call walks on, or has arrived.
LEMMA WalkWay ==
  ASSUME NEW c \in CallState, NEW o \in Seq(Fact), ParentsFirst(o),
         c.op \in FolderOp, IsThere(c, o), c.folder \in Seq(Name)
  PROVE  /\ WayOf(Walk(c), o)
         /\ Walk(c).op = c.op /\ Walk(c).folder = c.folder /\ Walk(c).name = c.name
         /\ Walk(c).rest = c.rest
         /\ Walk(c).at = "list" /\ Walk(c).cursor = 0 /\ Walk(c).names = c.names
<1>1. CASE c.rest = << >>
  <2> DEFINE d == [c EXCEPT !.at = "list", !.cursor = 0,
                      !.goal = IF c.op \in {"files", "folders"} THEN "gather" ELSE "seek",
                      !.here = IF c.op \in {"put", "mkdir"} /\ c.here = Root
                               THEN Special ELSE c.here]
  <2>1. Walk(c) = d
    BY <1>1 DEF Walk, Arrive
  <2>2. /\ d.op = c.op /\ d.at = "list" /\ d.folder = c.folder /\ d.name = c.name
        /\ d.goal \in {"seek", "gather"} /\ d.rest = << >>
        /\ d.here \in {Special, c.here} /\ d.cursor = 0 /\ d.names = c.names
    BY <1>1 DEF CallState
  <2> HIDE DEF d
  <2>3. IsThere(d, o)
    BY <1>1, <2>2 DEF IsThere
  <2> QED BY <1>1, <2>1, <2>2, <2>3 DEF WayOf
<1>2. CASE c.rest # << >>
  <2> DEFINE d == [c EXCEPT !.at = "list", !.goal = "walk", !.cursor = 0]
  <2>1. Walk(c) = d
    BY <1>2 DEF Walk
  <2>2. /\ d.op = c.op /\ d.at = "list" /\ d.folder = c.folder /\ d.name = c.name
        /\ d.goal = "walk" /\ d.rest = c.rest /\ d.here = c.here
        /\ d.cursor = 0 /\ d.names = c.names
    BY DEF CallState
  <2> HIDE DEF d
  <2>3. IsThere(d, o)
    BY <2>2 DEF IsThere
  <2> QED BY <2>1, <2>2, <2>3 DEF WayOf, Looks
<1> QED BY <1>1, <1>2

\* What the scan takes for an object of the folder is one.
LEMMA MetIsThere ==
  ASSUME Inv, FlagsInv, NEW h \in DOMAIN cache, Has(h, X), cache[h].parent = call.here
  PROVE  /\ h \in 1 .. Len(objs) /\ objs[h].parent = call.here
         /\ call.here \in 0 .. MaxObjects /\ call.here # Special
<1>1. h \in 1 .. Len(objs) /\ cache[h].parent = objs[h].parent
  BY DEF Inv, CacheInv, Has, X
<1>2. objs[h].parent \in 0 .. MaxObjects
  BY <1>1, NumberOfObjects DEF Inv, Fact
<1> QED BY <1>1, <1>2, PtpAssumption DEF Special

\* find_child has found the next folder of the path, or the object, or nothing.
LEMMA FoundWay ==
  ASSUME Inv, WayInv, Looks(call), NEW h \in Special .. MaxObjects, Found(h),
         \/ h = Special
         \/ /\ call.here # Special /\ h \in 1 .. Len(objs) /\ objs[h].parent = call.here
            /\ objs[h].name = Sought
  PROVE  WayOf(call', objs)
<1>1. /\ call \in CallState /\ objs \in Seq(Fact) /\ ParentsFirst(objs)
      /\ call.rest \in Seq(Name) /\ call.folder \in Seq(Name)
      /\ (call.goal = "walk" => call.rest # << >>)
  BY DEF Inv, CallInv, CameraInv, WayInv, CallState
<1>2. CASE call.op \in FolderOp /\ call.goal = "walk"
  <2> DEFINE c == [call EXCEPT !.here = h, !.rest = Tail(@)]
  <2>1. Tail(call.rest) \in Seq(Name) /\ Head(call.rest) \in Name
        /\ call.rest = <<Head(call.rest)>> \o Tail(call.rest)
    BY <1>1, <1>2, HeadTailProperties
  <2>2. c \in CallState /\ c.op = call.op /\ c.here = h /\ c.rest = Tail(call.rest)
        /\ c.folder = call.folder
    BY <1>1, <2>1 DEF CallState
  <2>3. call' = Walk(c)
    BY <1>2 DEF Found, Goes
  <2> HIDE DEF c
  <2>4. ASSUME h # Special
        PROVE  h \in 0 .. Len(objs) /\ PathIn(objs, h) \o Tail(call.rest) = call.folder
    <3> DEFINE p == PathIn(objs, call.here)
               x == Head(call.rest)
               t == Tail(call.rest)
    <3>1. h \in 1 .. Len(objs) /\ objs[h].parent = call.here /\ objs[h].name = x
          /\ call.here # Special
      BY <1>2, <2>4 DEF Sought
    <3>2. call.here \in 0 .. Len(objs) /\ p \o call.rest = call.folder
      BY <1>2, <3>1 DEF WayInv, WayOf, IsThere
    <3>3. PathIn(objs, h) = Append(p, x)
      BY <1>1, <3>1, PathStep
    <3>4. p \in Seq(Name) /\ x \in Name /\ t \in Seq(Name)
      BY <1>1, <2>1, <3>2, PathType
    <3> HIDE DEF p, x, t
    <3>5. Append(p, x) = p \o <<x>> /\ <<x>> \in Seq(Name)
      BY <3>4, AppendIsConcat
    <3>6. (p \o <<x>>) \o t = p \o (<<x>> \o t)
      BY <3>4, <3>5, ConcatAssociative
    <3>7. <<x>> \o t = call.rest
      BY <2>1 DEF x, t
    <3>8. h \in 0 .. Len(objs)
      BY <3>1
    <3> QED BY <3>2, <3>3, <3>5, <3>6, <3>7, <3>8 DEF t
  <2>5. IsThere(c, objs)
    BY <2>2, <2>4 DEF IsThere
  <2> QED BY <1>1, <1>2, <2>2, <2>3, <2>5, WalkWay
<1>3. CASE call.op \in FolderOp /\ call.goal # "walk"
  <2>1. call' = [call EXCEPT !.at = "act", !.target = h]
    BY <1>3 DEF Found, Goes
  <2>2. /\ call'.op = call.op /\ call'.at = "act" /\ call'.target = h
        /\ call'.here = call.here /\ call'.rest = call.rest /\ call'.goal = call.goal
        /\ call'.folder = call.folder /\ call'.name = call.name
    BY <1>1, <2>1 DEF CallState
  <2>3. WayOf(call, objs) /\ Sought = call.name
    BY <1>3 DEF WayInv, Sought
  <2>4. IsThere(call', objs)
    BY <1>3, <2>2, <2>3 DEF WayOf, IsThere
  <2> QED BY <1>3, <2>2, <2>3, <2>4 DEF WayOf
<1>4. CASE call.op \notin FolderOp
  <2>1. call'.op = call.op
    <3>1. CASE call.goal = "walk"
      <4> DEFINE c == [call EXCEPT !.here = h, !.rest = Tail(@)]
      <4>1. call' = Walk(c) /\ c.op = call.op
        BY <1>1, <3>1 DEF Found, Goes, CallState
      <4> HIDE DEF c
      <4>2. call' = Arrive(c) \/ call' = [c EXCEPT !.at = "list", !.goal = "walk", !.cursor = 0]
        BY <4>1 DEF Walk
      <4>3. c = [call EXCEPT !.here = h, !.rest = Tail(@)]
        BY DEF c
      <4> QED BY <1>1, <4>1, <4>2, <4>3 DEF Arrive, CallState
    <3>2. CASE call.goal # "walk"
      BY <1>1, <3>2 DEF Found, Goes, CallState
    <3> QED BY <3>1, <3>2
  <2> QED BY <1>4, <2>1 DEF WayOf
<1> QED BY <1>2, <1>3, <1>4

\* The steps that change the call.
LEMMA CallMoves ==
  ASSUME Inv, WayInv, Next
  PROVE  \/ call' = call
         \/ call' = NoCall
         \/ \E op, folder, name : folder \in Folders /\ op \in FolderOp /\ name \in Name
                                  /\ Call(op, folder, name)
         \/ Event \/ EventWants \/ Climbs
         \/ Looks(call) /\ Found(Special)
         \/ \E h \in Nearest : /\ Looks(call) /\ Found(h)
                               /\ Has(h, X) /\ cache[h].parent = call.here /\ IsIt(h)
         \/ Looks(call) /\ \E a \in {"handles", "scan"} : call' = [call EXCEPT !.at = a]
         \/ \E g : call.op \notin FolderOp /\ call' = [call EXCEPT !.goal = g]
         \/ \E n, s : call' = [call EXCEPT !.cursor = n, !.names = s]
         \/ \E h : call.at = "act" /\ call' = [call EXCEPT !.at = "data", !.target = h]
<1> USE DEF Looks
<1>1. call \in CallState
  BY DEF Inv, CallInv
<1>2. CASE Calls
  <2>1. PICK folder \in Folders :
          \/ \E op \in {"files", "folders"} : Call(op, folder, OwnName)
          \/ \E f \in FileName : Call("info", folder, f) \/ Call("put", folder, f)
          \/ \E f \in FileName : Exists(folder, f) /\ Call("delete", folder, f)
          \/ \E d \in DirName : Call("mkdir", folder, d)
          \/ \E d \in DirName : Exists(folder, d) /\ Call("rmdir", folder, d)
    BY <1>2 DEF Calls
  <2>2. OwnName \in Name /\ FileName \subseteq Name /\ DirName \subseteq Name
    BY DEF Name
  <2>3. \E op \in FolderOp, name \in Name : Call(op, folder, name)
    BY <2>1, <2>2 DEF FolderOp
  <2> QED BY <2>3
<1>3. CASE Take \/ Remove
  BY <1>3 DEF Take, Remove, ByHand
<1>4. CASE ListKnown \/ ListAsks
  BY <1>4 DEF ListKnown, ListAsks, Goes
<1>5. ASSUME call.at = "handles", Listed
      PROVE  \/ call' = NoCall
             \/ call' = [call EXCEPT !.at = "scan"]
             \/ \E g : call.op \notin FolderOp /\ call' = [call EXCEPT !.goal = g]
  <2>1. call.goal = "roots" => call.op \notin FolderOp
    BY DEF WayInv, WayOf
  <2> QED BY <1>5, <2>1 DEF Listed, Goes, Return
<1>6. ASSUME Looks(call), Fails
      PROVE  call' = NoCall \/ Found(Special)
  BY <1>6 DEF Fails, Return
<1>7. CASE GetHandles \/ GetNoHandles
  BY <1>5, <1>6, <1>7 DEF GetHandles, GetNoHandles
<1>8. CASE ScanEnds
  BY <1>8 DEF ScanEnds, Return
<1>9. CASE ScanWants
  BY <1>6, <1>9 DEF ScanWants, Goes
<1>10. CASE ScanPasses
  <2>1. PICK h \in Nearest : call' = [call EXCEPT !.cursor = h]
    BY <1>10 DEF ScanPasses, Goes
  <2>2. call' = [call EXCEPT !.cursor = h, !.names = call.names]
    BY <1>1, <2>1 DEF CallState
  <2> QED BY <2>2
<1>11. CASE ScanMeets
  <2>1. PICK h \in Nearest :
          /\ Has(h, X) /\ cache[h].parent = call.here
          /\ \/ Listable(h) /\ Goes([call EXCEPT !.cursor = h, !.names = @ \union {objs[h].name}])
             \/ IsIt(h) /\ Found(h)
             \/ ~Listable(h) /\ ~IsIt(h) /\ Goes([call EXCEPT !.cursor = h])
    BY <1>11 DEF ScanMeets
  <2>2. CASE IsIt(h) /\ Found(h)
    BY <1>11, <2>1, <2>2 DEF ScanMeets
  <2>3. CASE Goes([call EXCEPT !.cursor = h, !.names = @ \union {objs[h].name}])
    BY <1>1, <2>3 DEF Goes, CallState
  <2>4. CASE Goes([call EXCEPT !.cursor = h])
    <3>1. call' = [call EXCEPT !.cursor = h, !.names = call.names]
      BY <1>1, <2>4 DEF Goes, CallState
    <3> QED BY <3>1
  <2> QED BY <2>1, <2>2, <2>3, <2>4
<1>12. CASE GetInfo \/ NotFound \/ AlreadyThere \/ Deletes \/ SendInfoFails \/ CheckFails \/ SendData \/ Climbed
  BY <1>12 DEF GetInfo, NotFound, AlreadyThere, Deletes, SendInfoFails, CheckFails, SendData, Climbed,
               Done, Told, Return
<1>13. CASE SendInfo
  BY <1>13 DEF SendInfo, Sends, Done, Return, Goes
<1> QED BY <1>2, <1>3, <1>4, <1>7, <1>8, <1>9, <1>10, <1>11, <1>12, <1>13 DEF Next, Driver

LEMMA FlagsKeep ==
  ASSUME Inv, FlagsInv, [Next]_vars
  PROVE  FlagsInv'
<1>1. \A h \in DOMAIN cache : cache[h] \in Cell
  BY DEF Inv, CacheInv
<1>2. ASSUME NEW h, WantGets(h)
      PROVE  FlagsInv'
  <2>1. cache' = [k \in DOMAIN cache \union {h} |-> IF k = h THEN Loaded(h) ELSE cache[k]]
    BY <1>2 DEF WantGets, With
  <2>2. "parent" \in Loaded(h).flags
    BY DEF Loaded, X
  <2> HIDE DEF Loaded
  <2> QED BY <2>1, <2>2 DEF FlagsInv
<1>3. ASSUME NEW h, cache' = Without(h)
      PROVE  FlagsInv'
  BY <1>3 DEF Without, FlagsInv
<1>4. ASSUME NEW h, Added(h)
      PROVE  FlagsInv'
  <2>1. cache' = [k \in DOMAIN cache \union {h} |-> IF k = h THEN Known(h) ELSE cache[k]]
    BY <1>4 DEF Added, With
  <2>2. "info" \in Known(h).flags => "parent" \in Known(h).flags
    BY DEF Known, NewCell, FlagsInv
  <2> HIDE DEF Known
  <2> QED BY <2>1, <2>2 DEF FlagsInv
<1>5. CASE UNCHANGED cache
  BY <1>5 DEF FlagsInv
<1>6. CASE ListAsks
  <2>1. CASE cache' = [cache EXCEPT ![call.here].flags = @ \union {"listed"}]
    <3>1. DOMAIN cache' = DOMAIN cache
      BY <2>1, <1>1
    <3>2. ASSUME NEW h \in DOMAIN cache
          PROVE  /\ "info" \in cache'[h].flags => "info" \in cache[h].flags
                 /\ "parent" \in cache[h].flags => "parent" \in cache'[h].flags
      BY <1>1, <2>1 DEF Cell
    <3> QED BY <3>1, <3>2 DEF FlagsInv
  <2> QED BY <1>5, <1>6, <2>1 DEF ListAsks
<1>7. CASE GetHandles
  <2>1. ASSUME NEW h \in Handles
        PROVE  "info" \in Tagged(h).flags => "parent" \in Tagged(h).flags
    <3>1. CASE h \notin DOMAIN cache
      <4>1. Tagged(h).flags = StorageFlag \union (IF Tag > 0 THEN {"parent"} ELSE {})
        BY <3>1 DEF Tagged
      <4> QED BY <4>1 DEF StorageFlag
    <3>2. CASE h \in DOMAIN cache
      <4>1. Tagged(h).flags = cache[h].flags \union StorageFlag
                              \union (IF Tag # Special THEN {"parent"} ELSE {})
        BY <3>2 DEF Tagged
      <4> QED BY <3>2, <4>1 DEF StorageFlag, FlagsInv
    <3> QED BY <3>1, <3>2
  <2>2. cache' = [h \in DOMAIN cache \union Handles |->
                    IF h \in Handles THEN Tagged(h) ELSE cache[h]]
    BY <1>7 DEF GetHandles, Merged
  <2> HIDE DEF Tagged, Handles
  <2> QED BY <2>1, <2>2 DEF FlagsInv
<1>8. CASE Calls \/ Event \/ Take \/ Remove \/ ListKnown \/ GetNoHandles
  BY <1>5, <1>8 DEF Calls, Call, Event, Take, Remove, ByHand, ListKnown, GetNoHandles
<1>9. CASE ScanEnds \/ ScanPasses \/ ScanMeets \/ GetInfo \/ NotFound \/ AlreadyThere
           \/ SendInfoFails \/ CheckFails \/ Climbed \/ UNCHANGED vars
  BY <1>5, <1>9 DEF ScanEnds, ScanPasses, ScanMeets, GetInfo, NotFound, AlreadyThere,
                    SendInfoFails, CheckFails, Climbed, vars
<1>10. CASE ScanWants \/ EventWants \/ Climbs
  BY <1>2, <1>3, <1>5, <1>10 DEF ScanWants, EventWants, Climbs, WantFails
<1>11. CASE Deletes
  BY <1>3, <1>5, <1>11 DEF Deletes
<1>12. CASE SendInfo \/ SendData
  BY <1>4, <1>5, <1>12 DEF SendInfo, SendData
<1> QED BY <1>6, <1>7, <1>8, <1>9, <1>10, <1>11, <1>12 DEF Next, Driver

LEMMA NextWay ==
  ASSUME Inv, WayInv, [Next]_vars
  PROVE  WayInv'
<1>1. /\ call \in CallState /\ objs \in Seq(Fact) /\ ParentsFirst(objs) /\ WayOf(call, objs)
      /\ FlagsInv
  BY DEF Inv, CallInv, CameraInv, WayInv
<1>2. WayOf(call', objs)
  <2>1. CASE call' = call
    BY <1>1, <2>1
  <2>2. CASE call' = NoCall
    BY <2>2 DEF NoCall, WayOf, FolderOp
  <2>3. ASSUME NEW op \in FolderOp, NEW folder \in Folders, NEW name \in Name,
               Call(op, folder, name)
        PROVE  WayOf(call', objs)
    <3> DEFINE c == [NoCall EXCEPT !.op = op, !.folder = folder, !.name = name, !.rest = folder]
    <3>1. folder \in Seq(Name)
      BY PtpAssumption, ElementOfSeq DEF Name
    <3>2. c \in CallState
      BY <3>1, EmptyRecords DEF CallInv, CallState, FolderOp, Op
    <3>3. c.op = op /\ c.folder = folder /\ c.rest = folder /\ c.here = Root
      BY DEF NoCall
    <3>4. call' = Walk(c)
      BY <2>3 DEF Call
    <3> HIDE DEF c
    <3>5. PathIn(objs, Root) = << >> /\ Len(objs) \in Nat
      BY <1>1, PathStep, LenProperties
    <3>6. << >> \o folder = folder
      BY <3>1, ConcatEmptySeq
    <3>7. IsThere(c, objs)
      <4>1. Root \in 0 .. Len(objs)
        BY <3>5 DEF Root
      <4> QED BY <3>3, <3>5, <3>6, <4>1 DEF IsThere
    <3> QED BY <1>1, <3>1, <3>2, <3>3, <3>4, <3>7, WalkWay
  <2>4. CASE Event \/ EventWants \/ Climbs
    <3>1. CASE Event
      BY <3>1 DEF Event, NoCall, WayOf, FolderOp
    <3>2. CASE EventWants \/ Climbs
      <4>1. call.op \notin FolderOp
        BY <1>1, <3>2 DEF WayOf, EventWants, Climbs
      <4>2. call'.op \in {call.op, "none"}
        <5>1. \A h, s : [call EXCEPT !.here = h, !.rest = s \o @].op = call.op
          BY <1>1 DEF CallState
        <5>2. \A h : [call EXCEPT !.at = "climb", !.here = h].op = call.op
          BY <1>1 DEF CallState
        <5>3. NoCall.op = "none"
          BY DEF NoCall
        <5>4. \A p : Told(p) => call' = NoCall
          BY DEF Told, Done, Return
        <5>5. CASE EventWants
          <6>1. \/ call' = [call EXCEPT !.at = "climb", !.here = cache'[call.target].parent]
                \/ call' = NoCall
            BY <5>5 DEF EventWants, Goes, Return
          <6> QED BY <5>2, <5>3, <6>1
        <5>6. CASE Climbs
          <6>1. \/ call' = [call EXCEPT !.here = cache[call.here].parent,
                                        !.rest = <<objs[call.here].name>> \o @]
                \/ call' = call \/ call' = NoCall
            BY <5>4, <5>6 DEF Climbs, Goes
          <6> QED BY <5>1, <5>3, <6>1
        <5> QED BY <3>2, <5>5, <5>6
      <4> QED BY <4>1, <4>2 DEF WayOf, FolderOp
    <3> QED BY <2>4, <3>1, <3>2
  <2>5. CASE Looks(call) /\ Found(Special)
    <3>1. Special \in Special .. MaxObjects
      BY PtpAssumption DEF Special
    <3> QED BY <2>5, <3>1, FoundWay
  <2>6. ASSUME NEW h \in Nearest, Looks(call), Found(h), Has(h, X),
               cache[h].parent = call.here, IsIt(h)
        PROVE  WayOf(call', objs)
    <3>1. h \in DOMAIN cache /\ h \in Special .. MaxObjects
      BY <2>6, NearestIsCached
    <3>2. objs[h].name = Sought
      BY <2>6 DEF IsIt
    <3> QED BY <1>1, <2>6, <3>1, <3>2, MetIsThere, FoundWay
  <2>7. ASSUME NEW a \in {"handles", "scan"}, Looks(call), call' = [call EXCEPT !.at = a]
        PROVE  WayOf(call', objs)
    <3>1. /\ call'.op = call.op /\ call'.at = a /\ call'.goal = call.goal
          /\ call'.rest = call.rest /\ call'.here = call.here /\ call'.folder = call.folder
      BY <1>1, <2>7 DEF CallState
    <3> QED BY <1>1, <2>7, <3>1 DEF WayOf, IsThere, Looks
  <2>8. ASSUME NEW g, call.op \notin FolderOp, call' = [call EXCEPT !.goal = g]
        PROVE  WayOf(call', objs)
    BY <1>1, <2>8 DEF WayOf, CallState
  <2>9. ASSUME NEW n, NEW s, call' = [call EXCEPT !.cursor = n, !.names = s]
        PROVE  WayOf(call', objs)
    <3>1. /\ call'.op = call.op /\ call'.at = call.at /\ call'.goal = call.goal
          /\ call'.rest = call.rest /\ call'.here = call.here /\ call'.folder = call.folder
          /\ call'.target = call.target /\ call'.name = call.name
      BY <1>1, <2>9 DEF CallState
    <3> QED BY <1>1, <3>1 DEF WayOf, IsThere, Looks
  <2>10. ASSUME NEW h, call.at = "act", call' = [call EXCEPT !.at = "data", !.target = h]
         PROVE  WayOf(call', objs)
    <3>1. /\ call'.op = call.op /\ call'.at = "data" /\ call'.goal = call.goal
          /\ call'.rest = call.rest /\ call'.here = call.here /\ call'.folder = call.folder
      BY <1>1, <2>10 DEF CallState
    <3> QED BY <1>1, <2>10, <3>1 DEF WayOf, IsThere, Looks
  <2>11. CASE UNCHANGED vars
    BY <2>1, <2>11 DEF vars
  <2> QED BY <2>1, <2>2, <2>3, <2>4, <2>5, <2>6, <2>7, <2>8, <2>9, <2>10, <2>11, CallMoves
<1>3. WayOf(call', objs')
  BY <1>1, <1>2, WayStays
<1> QED BY <1>1, <1>3, GrownObjects, FlagsKeep DEF WayInv

LEMMA InitWay ==
  ASSUME Init
  PROVE  WayInv
<1>1. ParentsFirst(objs)
  <2>1. objs \in Seq(Fact) /\ \A h \in 1 .. Len(objs) : objs[h].parent < h
    BY PtpAssumption DEF Init
  <2>2. \A h \in 1 .. Len(objs) : objs[h] \in Fact /\ h \in Nat
    BY <2>1, ElementOfSeq, LenProperties
  <2>3. MaxObjects \in Nat
    BY PtpAssumption
  <2>4. \A h \in 1 .. Len(objs) : objs[h].parent \in Nat
    BY <2>2, <2>3 DEF Fact
  <2> QED BY <2>1, <2>2, <2>4 DEF ParentsFirst
<1>2. WayOf(call, objs)
  BY DEF Init, NoCall, WayOf, FolderOp
<1>3. FlagsInv
  BY DEF Init, FlagsInv
<1> QED BY <1>1, <1>2, <1>3 DEF WayInv

LEMMA WayAlways == RootIsRoot => (Spec => [](Inv /\ WayInv))
<1> SUFFICES ASSUME RootIsRoot PROVE Spec => [](Inv /\ WayInv)
  OBVIOUS
<1>1. Init => WayInv
  BY InitWay
<1>2. Inv /\ WayInv /\ [Next]_vars => WayInv'
  BY NextWay
<1> QED BY <1>1, <1>2, InvAlways, PTL DEF Spec

(* delete_file_func and remove_dir_func delete what they were asked to     *)
(* delete, if they have found anything: the object of that name in the     *)
(* folder that the path leads to.  (If not, the handle is 0xffffffff: see  *)
(* MCPtpObjects_delete.)  What the camera refuses on the way, and what is  *)
(* taken from it by hand, does not matter, nor do paths that have changed. *)
THEOREM DeletesTheNamed == RootIsRoot => (Spec => NamedIsDeleted)
<1> SUFFICES ASSUME RootIsRoot PROVE Spec => NamedIsDeleted
  OBVIOUS
<1> DEFINE A == Deletes /\ call.target # Special => \A h \in Gone : Named(h)
<1>1. ASSUME Inv, WayInv, [Next]_vars
      PROVE  A
  <2> SUFFICES ASSUME Deletes, call.target # Special, NEW h \in Gone PROVE Named(h)
    OBVIOUS
  <2>1. h = call.target
    BY DEF Deletes, Lost, Gone
  <2>2. /\ call.op \in FolderOp /\ call.at = "act" /\ call \in CallState
        /\ objs \in Seq(Fact) /\ ParentsFirst(objs)
    BY <1>1 DEF Deletes, FolderOp, Inv, CallInv, CameraInv, WayInv
  <2>3. /\ call.here # Special /\ h \in 1 .. Len(objs) /\ call.rest = << >>
        /\ objs[h].parent = call.here /\ objs[h].name = call.name
        /\ IsThere(call, objs)
    BY <1>1, <2>1, <2>2 DEF WayInv, WayOf, Looks
  <2>4. PathIn(objs, h) = Append(PathIn(objs, call.here), call.name)
    BY <2>2, <2>3, PathStep
  <2>5. /\ PathIn(objs, call.here) \in Seq(Name)
        /\ PathIn(objs, call.here) \o << >> = call.folder
    BY <2>2, <2>3, PathType DEF IsThere
  <2>6. PathIn(objs, call.here) = call.folder
    BY <2>5, ConcatEmptySeq
  <2> QED BY <2>4, <2>6, PathsAreIn DEF Named
<1>2. Inv /\ WayInv /\ [Next]_vars => [A]_vars
  BY <1>1
<1> QED BY <1>2, WayAlways, PTL DEF NamedIsDeleted, Spec

-----------------------------------------------------------------------------
(***************************************************************************)
(* Untroubled: no command has been refused, no object lost.  Then the      *)
(* cache holds what there is, but for what an event or the call in         *)
(* progress is about to enter, and a scan meets every object of its folder. *)
(***************************************************************************)

\* The names of files, of folders and of the camera's pictures are apart, and so
\* are the objects of a folder, at first.
TidyNames == OwnName \notin FileName \union DirName /\ FileName \cap DirName = {}
TidyCameras ==
  \A c \in Cameras : \A h \in 1 .. Len(c) :
    /\ c[h].dir <=> c[h].name \in DirName
    /\ c[h].parent # Root => c[c[h].parent].dir
    /\ \A k \in 1 .. Len(c) : c[h].parent = c[k].parent /\ c[h].name = c[k].name => h = k
Tidy == RootIsRoot /\ TidyNames /\ TidyCameras

\* Folders have names of folders, files of files; so have those that calls name.
NamesInv ==
  /\ \A h \in 1 .. Len(objs) : objs[h].dir <=> objs[h].name \in DirName
  /\ call.op \in {"info", "put", "delete"} => call.name \in FileName
  /\ call.op \in {"rmdir", "mkdir"} => call.name \in DirName

\* The folders that are there.
Dirs == {Root} \union {h \in live : objs[h].dir}

Alive == DOMAIN cache \subseteq live /\ \A h \in live : objs[h].parent \in Dirs

Unique ==
  \A h, k \in live : /\ objs[h].parent = objs[k].parent /\ objs[h].name = objs[k].name
                     /\ objs[h].parent # Root \/ objs[h].dir
                     => h = k

\* What is not cached, and is not about to be.
Pending == {events[i] : i \in DOMAIN events}
           \union (IF call.at \in {"want", "data"} THEN {call.target} ELSE {})
Unknown == live \ (DOMAIN cache \union Pending)
Covered(p) == \A h \in Unknown : objs[h].parent # p

\* A folder that is listed is covered, unless its handles are just being asked for;
\* the root since the first answer to camera_init.
CoverInv ==
  /\ \A p \in live : Has(p, {"listed"}) /\ ~(call.at = "handles" /\ call.here = p) => Covered(p)
  /\ ~(call.op = "init" /\ call.goal = "roots") => Covered(Root)
  /\ call.at = "scan" /\ call.here # Special => Covered(call.here)

EventsInv == \A i \in DOMAIN events : events[i] \in live /\ objs[events[i]].name = OwnName

OtherCalls ==
  /\ call.op = "none" => call.at = "idle"
  /\ call.op = "init" => call.at = "handles" /\ call.here = Special
                         /\ call.goal \in {"roots", "root"}
  /\ call.op = "event" =>
       /\ call.at \in {"want", "climb"}
       /\ call.target \in live /\ objs[call.target].name = OwnName
       /\ call.at = "want" => call.rest = << >>
       /\ call.at = "climb" =>
            /\ call.here \in Dirs
            /\ PathIn(objs, call.here) \o call.rest = PathIn(objs, objs[call.target].parent)

\* The folder is there, and so is the file that is to be deleted.
Place ==
  call.op \in FolderOp =>
    /\ call.here = Special =>
         call.op \in {"put", "mkdir"} /\ call.folder = << >> /\ call.goal # "walk"
    /\ call.here # Special => call.here \in Dirs
    /\ call.op \in {"put", "mkdir"} /\ call.goal # "walk" => call.here # Root
    /\ call.goal = "gather" <=> call.op \in {"files", "folders"} /\ call.goal # "walk"
    /\ \E f \in Dirs : PathIn(objs, f) = call.folder
    /\ call.op = "delete" =>
         \E k \in live : objs[k].name = call.name /\ PathIn(objs, objs[k].parent) = call.folder

\* What the scan has met.
Seen == {h \in DOMAIN cache : h <= call.cursor /\ objs[h].parent = call.here}
Kept == {h \in Seen : objs[h].dir = (call.op = "folders")}
Progress ==
  call.op \in FolderOp =>
    /\ call.at \in {"list", "handles"} => call.cursor = 0 /\ call.names = {}
    /\ call.at = "scan" /\ call.goal = "gather" => call.names = {objs[h].name : h \in Kept}
    /\ call.at = "scan" /\ call.goal # "gather" =>
         call.names = {} /\ \A h \in Seen : objs[h].name # Sought

Acting ==
  /\ call.at = "act" /\ call.op \in FolderOp =>
       /\ call.target # Special => call.target \in live
       /\ call.op = "delete" => call.target # Special
       /\ call.op = "put" /\ call.target = Special /\ call.here # Special =>
            \A h \in Children(call.here) : objs[h].name # call.name
  /\ call.at = "data" =>
       /\ call.op = "put" /\ call.target \in live /\ objs[call.target].name = call.name
       /\ objs[call.target].parent = Parent

Listing(f, op) == {objs[h].name : h \in {k \in Inside(f) : objs[k].dir = (op = "folders")}}
ResultInv ==
  call.at = "idle" /\ result.ok =>
    /\ result.op \in {"files", "folders"} /\ events = << >> =>
         result.names = Listing(result.folder, result.op)
    /\ result.object # Special =>
         result.object \in Inside(result.folder) /\ objs[result.object].name = result.name

Base == Inv /\ WayInv /\ NamesInv
Calm == /\ Alive /\ Unique /\ CoverInv /\ EventsInv
        /\ OtherCalls /\ Place /\ Progress /\ Acting /\ ResultInv

\* What Base says, in a form that proofs use.
LEMMA BaseFacts ==
  ASSUME Base
  PROVE  /\ objs \in Seq(Fact) /\ Len(objs) \in Nat /\ ParentsFirst(objs)
         /\ live \subseteq 1 .. Len(objs) /\ events \in Seq(1 .. Len(objs))
         /\ call \in CallState /\ result \in Outcome
         /\ DOMAIN cache \subseteq 1 .. Len(objs) /\ cache \in [DOMAIN cache -> Cell]
         /\ FlagsInv /\ WayOf(call, objs)
         /\ \A h \in 1 .. Len(objs) : objs[h] \in Fact /\ h \in Nat /\ h # Root /\ h # Special
BY NumberOfObjects, LenProperties DEF Base, Inv, CameraInv, CacheInv, CallInv, WayInv, Root, Special

\* There was no trouble before.
LEMMA CalmBefore ==
  ASSUME Base, [Next]_vars, Untroubled'
  PROVE  Untroubled /\ ~Remove /\ ~Refuses
<1>1. /\ history \in [calls : 0 .. MaxCalls, refused : 0 .. MaxRefused,
                        byHand : 0 .. MaxByHand, lost : BOOLEAN]
      /\ history.refused \in Nat /\ history'.refused = 0 /\ history'.lost = FALSE
  BY PtpAssumption DEF Base, Inv, HistoryInv, Untroubled
<1>2. ~Remove
  BY <1>1 DEF Remove
<1>3. ~Refuses
  <2>1. Refuses => history'.refused = history.refused + 1
    BY <1>1 DEF Refuses
  <2> QED BY <1>1, <2>1
<1> SUFFICES Untroubled
  BY <1>2, <1>3
<1>4. Accepts => Untroubled
  BY <1>1 DEF Accepts, Untroubled
<1>5. ASSUME NEW n, \/ history' = [history EXCEPT !.calls = n]
                    \/ history' = [history EXCEPT !.byHand = n]
      PROVE  Untroubled
  BY <1>1, <1>5 DEF Untroubled
<1>6. CASE Calls \/ Event
  BY <1>5, <1>6 DEF Calls, Call, Event
<1>7. CASE Take
  BY <1>5, <1>7 DEF Take
<1>8. CASE UNCHANGED history
  BY <1>1, <1>8 DEF Untroubled
<1>9. CASE \/ ListKnown \/ ListAsks \/ ScanEnds \/ ScanPasses \/ ScanMeets
           \/ GetInfo \/ NotFound \/ AlreadyThere \/ Climbed \/ UNCHANGED vars
  BY <1>8, <1>9 DEF ListKnown, ListAsks, ScanEnds, ScanPasses, ScanMeets, GetInfo, NotFound,
                    AlreadyThere, Climbed, vars
<1>10. CASE GetHandles \/ GetNoHandles \/ Deletes \/ SendInfo \/ SendInfoFails \/ CheckFails \/ SendData
  BY <1>3, <1>4, <1>10 DEF GetHandles, GetNoHandles, Deletes, SendInfo, SendInfoFails, CheckFails, SendData
<1>11. CASE ScanWants \/ EventWants \/ Climbs
  BY <1>3, <1>4, <1>8, <1>11 DEF ScanWants, EventWants, Climbs, WantGets, WantFails
<1> QED BY <1>2, <1>6, <1>7, <1>9, <1>10, <1>11 DEF Next, Driver

-----------------------------------------------------------------------------
(***************************************************************************)
(* Folders and their paths.                                                *)
(***************************************************************************)

LEMMA DirsFacts ==
  ASSUME Base
  PROVE  /\ Dirs \subseteq 0 .. Len(objs) /\ Dirs \subseteq Nat /\ Root \in Dirs
         /\ Special \notin Dirs
         /\ \A f \in Dirs : PathIn(objs, f) \in Seq(Name)
         /\ \A f \in Dirs : f # Root => f \in live /\ objs[f].dir /\ f \in 1 .. Len(objs)
<1>1. Dirs \subseteq 0 .. Len(objs) /\ Root \in Dirs /\ Len(objs) \in Nat
  BY BaseFacts DEF Dirs, Root
<1>2. \A f \in Dirs : f # Root => f \in live /\ objs[f].dir /\ f \in 1 .. Len(objs)
  BY BaseFacts DEF Dirs
<1>3. Special \notin Dirs /\ Dirs \subseteq Nat
  BY <1>1 DEF Special
<1> QED BY <1>1, <1>2, <1>3, BaseFacts, PathType

\* No two folders have one path.
LEMMA OneFolder ==
  ASSUME Base, Alive, Unique
  PROVE  \A f, g \in Dirs : PathIn(objs, f) = PathIn(objs, g) => f = g
<1> DEFINE T == {f \in Dirs : \E g \in Dirs : g # f /\ PathIn(objs, f) = PathIn(objs, g)}
<1>1. T \subseteq Nat
  BY DirsFacts
<1>2. ASSUME NEW f \in T, \A k \in T : f <= k
      PROVE  FALSE
  <2>1. PICK g \in Dirs : g # f /\ PathIn(objs, f) = PathIn(objs, g)
    OBVIOUS
  <2>2. f \in Dirs
    OBVIOUS
  <2> HIDE DEF T
  <2>3. ASSUME NEW h \in Dirs, h # Root
        PROVE  /\ h \in live /\ objs[h].dir /\ objs[h].parent \in Dirs
               /\ objs[h].parent \in Nat /\ objs[h].parent < h /\ h \in Nat
               /\ objs[h].name \in Name /\ PathIn(objs, objs[h].parent) \in Seq(Name)
               /\ PathIn(objs, h) = Append(PathIn(objs, objs[h].parent), objs[h].name)
               /\ PathIn(objs, h) # << >>
    <3>1. h \in live /\ objs[h].dir /\ h \in 1 .. Len(objs)
      BY <2>3, DirsFacts
    <3>2. objs[h].parent \in Dirs
      BY <3>1 DEF Alive
    <3>3. /\ objs[h].parent < h
          /\ PathIn(objs, h) = Append(PathIn(objs, objs[h].parent), objs[h].name)
      BY <3>1, BaseFacts, PathStep
    <3>4. objs[h].name \in Name
      BY <3>1, BaseFacts DEF Fact
    <3>5. PathIn(objs, objs[h].parent) \in Seq(Name) /\ objs[h].parent \in Nat /\ h \in Nat
      BY <2>3, <3>2, DirsFacts
    <3>6. PathIn(objs, h) # << >>
      BY <3>3, <3>4, <3>5, AppendProperties
    <3> QED BY <3>1, <3>2, <3>3, <3>4, <3>5, <3>6
  <2>4. PathIn(objs, Root) = << >>
    BY BaseFacts, PathStep
  <2>5. f # Root /\ g # Root
    BY <2>1, <2>2, <2>3, <2>4
  <2>6. PathIn(objs, objs[f].parent) = PathIn(objs, objs[g].parent) /\ objs[f].name = objs[g].name
    <3> DEFINE a == PathIn(objs, objs[f].parent)
               b == PathIn(objs, objs[g].parent)
               y == objs[f].name
               z == objs[g].name
    <3>1. Append(a, y) = Append(b, z)
      BY <2>1, <2>2, <2>3, <2>5
    <3>2. a \in Seq(Name) /\ b \in Seq(Name) /\ y \in Name /\ z \in Name
      BY <2>2, <2>3, <2>5
    <3> HIDE DEF a, b, y, z
    <3>3. a = b /\ y = z
      BY <3>1, <3>2, AppendInjective
    <3> QED BY <3>3 DEF a, b, y, z
  <2>7. objs[f].parent \notin T
    BY <1>2, <2>2, <2>3, <2>5
  <2>8. objs[f].parent = objs[g].parent
    BY <2>1, <2>2, <2>3, <2>5, <2>6, <2>7 DEF T
  <2> QED BY <2>1, <2>2, <2>3, <2>5, <2>6, <2>8 DEF Unique
<1>3. T = {}
  <2> HIDE DEF T
  <2> QED BY <1>1, <1>2, LeastNat
<1> QED BY <1>3

\* From the beginning of a path there is a next folder on it.
LEMMA NextFolder ==
  ASSUME Base, Alive, Unique, NEW g \in Dirs
  PROVE  \A f \in Dirs, r \in Seq(Name) :
           r # << >> /\ PathIn(objs, g) \o r = PathIn(objs, f)
             => \E c \in live : objs[c].dir /\ objs[c].parent = g /\ objs[c].name = Head(r)
<1> DEFINE Leads(r, f) == r # << >> /\ PathIn(objs, g) \o r = PathIn(objs, f)
           Next1(r) == \E c \in live : objs[c].dir /\ objs[c].parent = g /\ objs[c].name = Head(r)
           T == {f \in Dirs : \E r \in Seq(Name) : Leads(r, f) /\ ~Next1(r)}
<1>1. T \subseteq Nat
  BY DirsFacts
<1>2. ASSUME NEW f \in T, \A k \in T : f <= k
      PROVE  FALSE
  <2>1. PICK r \in Seq(Name) : Leads(r, f) /\ ~Next1(r)
    OBVIOUS
  <2>2. f \in Dirs
    OBVIOUS
  <2> DEFINE p == PathIn(objs, g)
  <2>3. p \in Seq(Name)
    BY DirsFacts
  <2>4. PICK s \in Seq(Name), x \in Name : r = Append(s, x)
    BY <2>1, SequenceEmptyOrAppend
  <2>5. p \o r = Append(p \o s, x) /\ p \o s \in Seq(Name)
    <3>1. Append(s, x) = s \o <<x>> /\ <<x>> \in Seq(Name)
      BY <2>4, AppendIsConcat
    <3>2. p \o s \in Seq(Name) /\ p \o (s \o <<x>>) = (p \o s) \o <<x>>
      BY <2>3, <3>1, ConcatProperties, ConcatAssociative
    <3> HIDE DEF p
    <3>3. Append(p \o s, x) = (p \o s) \o <<x>>
      BY <3>2, AppendIsConcat
    <3> QED BY <2>4, <3>1, <3>2, <3>3
  <2>6. f # Root
    <3>1. PathIn(objs, Root) = << >>
      BY BaseFacts, PathStep
    <3>2. Append(p \o s, x) # << >>
      BY <2>5, AppendProperties
    <3> QED BY <2>1, <2>5, <3>1, <3>2
  <2> DEFINE q == objs[f].parent
  <2>7. /\ f \in live /\ objs[f].dir /\ f \in 1 .. Len(objs) /\ q \in Dirs /\ q < f
        /\ f \in Nat /\ q \in Nat
        /\ PathIn(objs, f) = Append(PathIn(objs, q), objs[f].name)
        /\ PathIn(objs, q) \in Seq(Name) /\ objs[f].name \in Name
    <3>1. f \in live /\ objs[f].dir /\ f \in 1 .. Len(objs)
      BY <2>2, <2>6, DirsFacts
    <3>2. q \in Dirs
      BY <3>1 DEF Alive
    <3>3. q < f /\ PathIn(objs, f) = Append(PathIn(objs, q), objs[f].name)
      BY <3>1, BaseFacts, PathStep
    <3>4. objs[f].name \in Name
      BY <3>1, BaseFacts DEF Fact
    <3>5. PathIn(objs, q) \in Seq(Name) /\ q \in Nat /\ f \in Nat
      BY <2>2, <3>2, DirsFacts
    <3> QED BY <3>1, <3>2, <3>3, <3>4, <3>5
  <2> HIDE DEF T, q
  <2>8. p \o s = PathIn(objs, q) /\ x = objs[f].name
    <3> DEFINE a == p \o s
               b == PathIn(objs, q)
               y == objs[f].name
    <3>1. Append(a, x) = Append(b, y)
      BY <2>1, <2>5, <2>7
    <3>2. a \in Seq(Name) /\ b \in Seq(Name) /\ x \in Name /\ y \in Name
      BY <2>4, <2>5, <2>7
    <3> HIDE DEF a, b, y
    <3>3. a = b /\ x = y
      BY <3>1, <3>2, AppendInjective
    <3> QED BY <3>3 DEF a, b, y
  <2>9. CASE s = << >>
    <3>1. p = PathIn(objs, q)
      BY <2>3, <2>8, <2>9, ConcatEmptySeq
    <3>2. q = g
      BY <2>7, <3>1, OneFolder
    <3>3. Head(r) = x
      BY <2>4, <2>9, HeadTailAppend
    <3> QED BY <2>1, <2>7, <2>8, <3>2, <3>3 DEF q
  <2>10. CASE s # << >>
    <3>1. q \notin T
      BY <1>2, <2>7
    <3>2. Leads(s, q)
      BY <2>8, <2>10
    <3>3. Next1(s)
      BY <2>4, <2>7, <3>1, <3>2 DEF T
    <3>4. Head(r) = Head(s)
      BY <2>4, <2>10, HeadTailAppend
    <3> QED BY <2>1, <3>3, <3>4
  <2> QED BY <2>9, <2>10
<1>3. T = {}
  <2> HIDE DEF T
  <2> QED BY <1>1, <1>2, LeastNat
<1> QED BY <1>3

\* A scan that is through has met what has no name of the camera's, and all if
\* no event waits.
LEMMA ScanMeetsAll ==
  ASSUME Base, Calm, call.at = "scan", call.here # Special, Ahead = {},
         NEW h \in Children(call.here), objs[h].name # OwnName \/ events = << >>
  PROVE  h \in Seen
<1>1. h \in live /\ objs[h].parent = call.here /\ Covered(call.here)
  BY DEF Children, Calm, CoverInv
<1>2. h \notin Pending
  BY DEF Pending, Calm, EventsInv
<1>3. h \in DOMAIN cache
  BY <1>1, <1>2 DEF Covered, Unknown
<1>4. ~(h > call.cursor)
  BY <1>3 DEF Ahead
<1>5. h \in Nat /\ call.cursor \in Nat
  BY <1>3, BaseFacts, PtpAssumption DEF CallState
<1> QED BY <1>1, <1>3, <1>4, <1>5 DEF Seen

-----------------------------------------------------------------------------
(***************************************************************************)
(* What names a call has, and the steps of a calm camera.                  *)
(***************************************************************************)

LEMMA FoundCalled ==
  ASSUME call \in CallState, NEW h, Found(h)
  PROVE  call'.op = call.op /\ call'.name = call.name /\ call'.folder = call.folder
<1>1. CASE call.goal = "walk"
  <2> DEFINE c == [call EXCEPT !.here = h, !.rest = Tail(@)]
  <2>1. call' = Walk(c)
    BY <1>1 DEF Found, Goes
  <2>2. Walk(c) = Arrive(c) \/ Walk(c) = [c EXCEPT !.at = "list", !.goal = "walk", !.cursor = 0]
    BY DEF Walk
  <2> QED BY <2>1, <2>2 DEF Arrive, CallState
<1>2. CASE call.goal # "walk"
  BY <1>2 DEF Found, Goes, CallState
<1> QED BY <1>1, <1>2

\* A call keeps its name and its folder.
LEMMA CallIsNamed ==
  ASSUME Base, [Next]_vars
  PROVE  \/ Calls \/ Event \/ call' = NoCall
         \/ call'.op = call.op /\ call'.name = call.name /\ call'.folder = call.folder
<1> DEFINE Same == call'.op = call.op /\ call'.name = call.name /\ call'.folder = call.folder
<1>1. call \in CallState
  BY BaseFacts
<1>2. ASSUME NEW h, Found(h)
      PROVE  Same
  BY <1>1, <1>2, FoundCalled
<1>3. ASSUME NEW f, NEW g, call' = [call EXCEPT !.at = f]
                           \/ call' = [call EXCEPT !.goal = f]
                           \/ call' = [call EXCEPT !.cursor = f, !.names = g]
                           \/ call' = [call EXCEPT !.at = f, !.target = g]
                           \/ call' = [call EXCEPT !.at = f, !.here = g]
                           \/ call' = [call EXCEPT !.here = f, !.rest = g]
      PROVE  Same
  BY <1>1, <1>3 DEF CallState
<1>4. CASE EventWants
  BY <1>3, <1>4 DEF EventWants, Goes, Return
<1>5. CASE Climbs
  <2>1. CASE call' = [call EXCEPT !.here = cache[call.here].parent,
                                  !.rest = <<objs[call.here].name>> \o @]
    <3>1. call' = [call EXCEPT !.here = cache[call.here].parent,
                               !.rest = <<objs[call.here].name>> \o call.rest]
      BY <1>1, <2>1 DEF CallState
    <3> QED BY <1>3, <3>1
  <2> QED BY <1>5, <2>1 DEF Climbs, Goes, Told, Done, Return
<1>6. CASE UNCHANGED vars
  BY <1>6 DEF vars
<1>7. CASE \E op, folder, name : Call(op, folder, name)
  <2>1. CASE Calls
    BY <2>1
  <2>2. CASE Event \/ Take \/ Remove
    BY <2>2 DEF Take, Remove, ByHand
  <2>3. call.at = "idle"
    BY <1>7 DEF Call
  <2>4. ~Driver
    BY <2>3 DEF Driver, ListKnown, ListAsks, GetHandles, GetNoHandles, ScanEnds, ScanWants,
                ScanPasses, ScanMeets, GetInfo, NotFound, AlreadyThere, Deletes, SendInfo,
                Sends, SendInfoFails, CheckFails, SendData, EventWants, Climbs, Climbed
  <2> QED BY <1>6, <2>1, <2>2, <2>4 DEF Next
<1>8. CASE Next
  <2> HIDE DEF Same
  <2>1. Inv /\ WayInv
    BY DEF Base
  <2>2. call' = call => Same
    BY DEF Same
  <2> QED BY <1>2, <1>3, <1>4, <1>5, <1>7, <1>8, <2>1, <2>2, CallMoves DEF Same
<1> QED BY <1>6, <1>8

LEMMA NamesKeep ==
  ASSUME TidyNames, Base, [Next]_vars
  PROVE  NamesInv'
<1>1. \A h \in 1 .. Len(objs') : objs'[h].dir <=> objs'[h].name \in DirName
  <2>1. /\ Len(objs) \in Nat /\ objs \in Seq(Fact)
        /\ \A h \in 1 .. Len(objs) : objs[h].dir <=> objs[h].name \in DirName
    BY BaseFacts DEF Base, NamesInv
  <2>2. ASSUME NEW x \in Fact, objs' = Append(objs, x), x.dir <=> x.name \in DirName
        PROVE  \A h \in 1 .. Len(objs') : objs'[h].dir <=> objs'[h].name \in DirName
    <3>1. /\ Len(objs') = Len(objs) + 1 /\ \A h \in 1 .. Len(objs) : objs'[h] = objs[h]
          /\ objs'[Len(objs) + 1] = x
      BY <2>1, <2>2, AppendProperties
    <3>2. \A h \in 1 .. Len(objs') : h \in 1 .. Len(objs) \/ h = Len(objs) + 1
      BY <2>1, <3>1
    <3> QED BY <2>1, <2>2, <3>1, <3>2
  <2>3. CASE SendInfo
    <3> DEFINE x == [parent |-> Parent, name |-> call.name, dir |-> call.op = "mkdir"]
    <3>1. objs' = Append(objs, x) /\ call.op \in {"put", "mkdir"} /\ Takes
      BY <2>3 DEF SendInfo, New, Sends
    <3>2. x \in Fact
      <4>1. /\ Parent \in live \union {Root} /\ live \subseteq 0 .. MaxObjects
            /\ Root \in 0 .. MaxObjects
        BY <3>1, PtpAssumption DEF Takes, Base, Inv, CameraInv, Root
      <4>2. call.name \in Name
        BY BaseFacts DEF CallState
      <4> QED BY <4>1, <4>2 DEF Fact
    <3>3. x.dir <=> x.name \in DirName
      BY <3>1 DEF Base, NamesInv, TidyNames
    <3> QED BY <2>2, <3>1, <3>2, <3>3
  <2>4. CASE Take
    <3>1. PICK p \in {Root} \union {h \in live : objs[h].dir} :
            objs' = Append(objs, [parent |-> p, name |-> OwnName, dir |-> FALSE])
      BY <2>4 DEF Take
    <3> DEFINE x == [parent |-> p, name |-> OwnName, dir |-> FALSE]
    <3>2. x \in Fact
      <4>1. p \in 0 .. MaxObjects
        BY <3>1, PtpAssumption DEF Base, Inv, CameraInv, Root
      <4> QED BY <4>1 DEF Fact, Name
    <3>3. x.dir <=> x.name \in DirName
      BY DEF TidyNames
    <3> QED BY <2>2, <3>1, <3>2, <3>3
  <2>5. CASE objs' = objs
    BY <2>1, <2>5
  <2>6. CASE Calls \/ Event \/ Remove \/ ListKnown \/ ListAsks \/ GetHandles \/ GetNoHandles
    BY <2>5, <2>6 DEF Calls, Call, Event, Remove, ListKnown, ListAsks, GetHandles, GetNoHandles,
                      Camera
  <2>7. CASE \/ ScanEnds \/ ScanWants \/ ScanPasses \/ ScanMeets
             \/ GetInfo \/ NotFound \/ AlreadyThere \/ Deletes
    BY <2>5, <2>7 DEF ScanEnds, ScanWants, ScanPasses, ScanMeets, GetInfo, NotFound,
                      AlreadyThere, Deletes, Camera
  <2>8. CASE SendInfoFails \/ CheckFails \/ SendData \/ EventWants \/ Climbs \/ Climbed \/ UNCHANGED vars
    BY <2>5, <2>8 DEF SendInfoFails, CheckFails, SendData, EventWants, Climbs, Climbed, Camera, vars
  <2> QED BY <2>3, <2>4, <2>6, <2>7, <2>8 DEF Next, Driver
<1> DEFINE Apt(op, name) == /\ op \in {"info", "put", "delete"} => name \in FileName
                            /\ op \in {"rmdir", "mkdir"} => name \in DirName
<1>2. Apt(call'.op, call'.name)
  <2>1. Apt(call.op, call.name)
    BY DEF Base, NamesInv
  <2>2. CASE Calls
    <3>1. ASSUME NEW op \in FolderOp, NEW folder \in Folders, NEW name, Call(op, folder, name),
                 Apt(op, name)
          PROVE  Apt(call'.op, call'.name)
      <4>1. call'.op = op /\ call'.name = name
        BY <3>1 DEF Call, NoCall, Walk, Arrive
      <4> QED BY <3>1, <4>1
    <3>2. PICK folder \in Folders :
            \/ \E op \in {"files", "folders"} : Call(op, folder, OwnName)
            \/ \E f \in FileName : Call("info", folder, f) \/ Call("put", folder, f)
            \/ \E f \in FileName : Exists(folder, f) /\ Call("delete", folder, f)
            \/ \E d \in DirName : Call("mkdir", folder, d)
            \/ \E d \in DirName : Exists(folder, d) /\ Call("rmdir", folder, d)
      BY <2>2 DEF Calls
    <3>3. \E op, name : op \in FolderOp /\ Call(op, folder, name) /\ Apt(op, name)
      <4> HIDE DEF FolderOp
      <4>1. \A op \in {"files", "folders"} : op \in FolderOp /\ Apt(op, OwnName)
        BY DEF FolderOp
      <4>2. \A f \in FileName, op \in {"info", "put", "delete"} : op \in FolderOp /\ Apt(op, f)
        BY DEF FolderOp
      <4>3. \A d \in DirName, op \in {"mkdir", "rmdir"} : op \in FolderOp /\ Apt(op, d)
        BY DEF FolderOp
      <4> HIDE DEF Apt
      <4> QED BY <3>2, <4>1, <4>2, <4>3
    <3>4. PICK op, name : op \in FolderOp /\ Call(op, folder, name) /\ Apt(op, name)
      BY <3>3
    <3> HIDE DEF Apt
    <3> QED BY <3>1, <3>4
  <2>3. CASE Event \/ call' = NoCall
    <3>1. call'.op \in {"event", "none"}
      <4>1. NoCall.op = "none"
        BY DEF NoCall
      <4>2. \A h : [NoCall EXCEPT !.op = "event", !.at = "want", !.target = h].op = "event"
        BY DEF NoCall
      <4> HIDE DEF Apt
      <4> QED BY <2>3, <4>1, <4>2 DEF Event
    <3> QED BY <3>1
  <2> QED BY <2>1, <2>2, <2>3, CallIsNamed
<1> QED BY <1>1, <1>2 DEF NamesInv

-----------------------------------------------------------------------------
(***************************************************************************)
(* A calm step: what fails does not happen.                                *)
(***************************************************************************)
CalmStep == Base /\ Base' /\ Calm /\ [Next]_vars /\ Untroubled'

LEMMA StepFacts ==
  ASSUME CalmStep
  PROVE  /\ objs' \in Seq(Fact) /\ Len(objs') \in Nat /\ Len(objs) <= Len(objs')
         /\ ParentsFirst(objs')
         /\ \A h \in live : objs'[h] = objs[h] /\ h \in 1 .. Len(objs) /\ h \in 1 .. Len(objs')
         /\ \A f \in 0 .. Len(objs) : PathIn(objs', f) = PathIn(objs, f)
         /\ DOMAIN cache \subseteq live /\ live' \subseteq 1 .. Len(objs')
         /\ call \in CallState /\ call' \in CallState /\ ~Remove /\ ~Refuses
<1>1. Inv /\ ParentsFirst(objs) /\ [Next]_vars
  BY DEF CalmStep, Base, WayInv
<1>2. live \subseteq 1 .. Len(objs) /\ DOMAIN cache \subseteq live /\ call \in CallState
  BY BaseFacts DEF CalmStep, Calm, Alive
<1>3. live' \subseteq 1 .. Len(objs') /\ call' \in CallState
  BY DEF CalmStep, Base, Inv, CameraInv, CallInv
<1> QED BY <1>1, <1>2, <1>3, GrownObjects, SamePaths, CalmBefore DEF CalmStep

\* What is asked for is there.
LEMMA WantIsThere ==
  ASSUME CalmStep, NEW h \in live
  PROVE  ~WantFails(h)
BY StepFacts DEF WantFails

LEMMA TargetIsThere ==
  ASSUME CalmStep
  PROVE  /\ call.at \in {"want", "data"} => call.target \in live
         /\ call.at = "climb" => call.here \in Dirs
         /\ call.at = "want" \/ call.at = "climb" => call.op = "event"
         /\ call.at \in {"list", "handles", "scan"} => call.op \in FolderOp \/ call.op = "init"
         /\ call.at \in {"list", "handles"} => Top \in live \union {Root}
<1>1. /\ OtherCalls /\ Place /\ Acting /\ WayOf(call, objs) /\ call \in CallState
  BY BaseFacts DEF CalmStep, Calm
<1>2. call.op \in FolderOp \union {"none", "init", "event"}
  BY <1>1 DEF CallState, Op, FolderOp
<1>3. call.op \in FolderOp => call.at \in {"list", "handles", "scan", "act", "data"}
  BY <1>1 DEF WayOf
<1>4. call.at = "want" \/ call.at = "climb" => call.op = "event"
  BY <1>1, <1>2, <1>3 DEF OtherCalls
<1>5. call.at \in {"want", "data"} => call.target \in live
  BY <1>1, <1>4 DEF OtherCalls, Acting
<1>6. call.at = "climb" => call.here \in Dirs
  BY <1>1, <1>4 DEF OtherCalls
<1>7. call.at \in {"list", "handles", "scan"} => call.op \in FolderOp \/ call.op = "init"
  BY <1>1, <1>2 DEF OtherCalls
<1>8. call.at \in {"list", "handles"} => Top \in live \union {Root}
  <2>1. Dirs \subseteq live \union {Root}
    BY DEF Dirs
  <2>2. call.op = "init" => call.here = Special
    BY <1>1 DEF OtherCalls
  <2>3. call.op \in FolderOp /\ call.here # Special => call.here \in Dirs
    BY <1>1 DEF Place
  <2> QED BY <1>7, <2>1, <2>2, <2>3 DEF Top
<1> QED BY <1>4, <1>5, <1>6, <1>7, <1>8

LEMMA NothingFails ==
  ASSUME CalmStep
  PROVE  /\ ~GetNoHandles
         /\ ScanWants => \E h \in Nearest : WantGets(h) /\ Goes(call)
         /\ EventWants =>
              /\ \/ Has(call.target, {"info"}) /\ UNCHANGED <<cache, history>>
                 \/ WantGets(call.target)
              /\ Goes([call EXCEPT !.at = "climb", !.here = cache'[call.target].parent])
         /\ Climbs =>
              \/ /\ Has(call.here, {"info"}) /\ UNCHANGED <<cache, history>>
                 /\ Goes([call EXCEPT !.here = cache[call.here].parent,
                                      !.rest = <<objs[call.here].name>> \o @])
              \/ WantGets(call.here) /\ Goes(call)
         /\ SendData => Added(call.target) /\ Done(Made(call.target)) /\ UNCHANGED <<live, history>>
         /\ Deletes =>
              \/ UNCHANGED <<live, cache>> /\ Return(FALSE, NoResult)
              \/ /\ call.target \in live /\ Children(call.target) = {}
                 /\ Lost({call.target}) /\ cache' = Without(call.target) /\ Done(NoResult)
<1>1. ~Refuses /\ DOMAIN cache \subseteq live
  BY StepFacts
<1>2. ~GetNoHandles
  BY <1>1, TargetIsThere DEF GetNoHandles
<1>3. ScanWants => \E h \in Nearest : WantGets(h) /\ Goes(call)
  <2>1. \A h \in Nearest : h \in live
    BY <1>1 DEF Nearest, Ahead
  <2> QED BY <2>1, WantIsThere DEF ScanWants
<1>4. EventWants =>
              /\ \/ Has(call.target, {"info"}) /\ UNCHANGED <<cache, history>>
                 \/ WantGets(call.target)
              /\ Goes([call EXCEPT !.at = "climb", !.here = cache'[call.target].parent])
  <2>1. EventWants => ~WantFails(call.target)
    BY TargetIsThere, WantIsThere DEF EventWants
  <2> QED BY <2>1 DEF EventWants
<1>5. Climbs =>
              \/ /\ Has(call.here, {"info"}) /\ UNCHANGED <<cache, history>>
                 /\ Goes([call EXCEPT !.here = cache[call.here].parent,
                                      !.rest = <<objs[call.here].name>> \o @])
              \/ WantGets(call.here) /\ Goes(call)
  <2>1. Climbs => call.here \in live
    BY TargetIsThere DEF Climbs, Dirs
  <2>2. Climbs => ~WantFails(call.here)
    BY <2>1, WantIsThere
  <2> QED BY <2>2 DEF Climbs
<1>6. SendData => Added(call.target) /\ Done(Made(call.target)) /\ UNCHANGED <<live, history>>
  BY <1>1 DEF SendData, Accepts
<1>7. Deletes => call.target # Special
  <2>1. call.at = "act" /\ call.op = "delete" => call.target # Special
    BY DEF CalmStep, Calm, Acting, FolderOp
  <2> QED BY <2>1 DEF Deletes
<1>8. Deletes =>
              \/ UNCHANGED <<live, cache>> /\ Return(FALSE, NoResult)
              \/ /\ call.target \in live /\ Children(call.target) = {}
                 /\ Lost({call.target}) /\ cache' = Without(call.target) /\ Done(NoResult)
  BY <1>1, <1>7 DEF Deletes
<1> QED BY <1>2, <1>3, <1>4, <1>5, <1>6, <1>8

-----------------------------------------------------------------------------
(***************************************************************************)
(* What happens to the objects in a calm step.                             *)
(***************************************************************************)

\* Nothing but that more of them is known.
Learns == /\ UNCHANGED <<objs, live, events>>
          /\ DOMAIN cache \subseteq DOMAIN cache' /\ DOMAIN cache' \subseteq live

\* The object h is deleted.
DeletesOne(h) ==
  /\ h \in live /\ Children(h) = {} /\ live' = live \ {h} /\ cache' = Without(h)
  /\ UNCHANGED <<objs, events>> /\ call' = NoCall
  /\ call.op \in {"delete", "rmdir"} /\ call.at = "act" /\ h = call.target

LEMMA CalmWorld ==
  ASSUME CalmStep
  PROVE  Learns \/ SendInfo \/ Take \/ Event \/ \E h : DeletesOne(h)
<1>1. DOMAIN cache \subseteq live
  BY StepFacts
<1>2. ASSUME UNCHANGED <<objs, live, events>>, UNCHANGED cache
      PROVE  Learns
  BY <1>1, <1>2 DEF Learns
<1>3. ASSUME UNCHANGED <<objs, live, events>>, NEW h \in live, NEW c, cache' = With(h, c)
      PROVE  Learns
  BY <1>1, <1>3 DEF Learns, With
<1>4. CASE Calls \/ ListKnown
  BY <1>2, <1>4 DEF Calls, Call, ListKnown, Camera
<1>5. CASE ScanEnds \/ ScanPasses \/ ScanMeets \/ GetInfo \/ NotFound \/ AlreadyThere
           \/ SendInfoFails \/ CheckFails \/ Climbed \/ UNCHANGED vars
  BY <1>2, <1>5 DEF ScanEnds, ScanPasses, ScanMeets, GetInfo, NotFound, AlreadyThere,
                    SendInfoFails, CheckFails, Climbed, vars, Camera
<1>6. CASE ListAsks
  <2>1. UNCHANGED <<objs, live, events>> /\ DOMAIN cache' = DOMAIN cache
    BY <1>6 DEF ListAsks, Camera
  <2> QED BY <1>1, <2>1 DEF Learns
<1>7. CASE GetHandles
  <2>1. Handles \subseteq live
    BY DEF Handles, Children
  <2>2. DOMAIN cache' = DOMAIN cache \union Handles /\ UNCHANGED <<objs, live, events>>
    BY <1>7 DEF GetHandles, Merged, Camera
  <2> HIDE DEF Handles
  <2> QED BY <1>1, <2>1, <2>2 DEF Learns
<1>8. CASE ScanWants
  BY <1>3, <1>8, NothingFails DEF ScanWants, WantGets, Camera
<1>9. CASE EventWants
  BY <1>2, <1>3, <1>9, NothingFails DEF EventWants, WantGets, Camera
<1>10. CASE Climbs
  BY <1>2, <1>3, <1>10, NothingFails DEF Climbs, WantGets, Camera
<1>11. CASE SendData
  <2>1. call.target \in live
    BY <1>11, TargetIsThere DEF SendData
  <2> QED BY <1>3, <1>11, <2>1, NothingFails DEF SendData, Added
<1>12. CASE Deletes
  <2>1. UNCHANGED <<objs, events>> /\ call.at = "act" /\ call.op \in {"delete", "rmdir"}
    BY <1>12 DEF Deletes
  <2>2. CASE UNCHANGED <<live, cache>>
    BY <1>2, <2>1, <2>2
  <2>3. CASE /\ call.target \in live /\ Children(call.target) = {}
             /\ Lost({call.target}) /\ cache' = Without(call.target) /\ Done(NoResult)
    <3>1. DeletesOne(call.target)
      BY <2>1, <2>3 DEF DeletesOne, Lost, Done, Return
    <3> QED BY <3>1
  <2> QED BY <1>12, <2>2, <2>3, NothingFails
<1>13. ~Remove /\ ~GetNoHandles
  BY StepFacts, NothingFails
<1> QED BY <1>4, <1>5, <1>6, <1>7, <1>8, <1>9, <1>10, <1>11, <1>12, <1>13
        DEF CalmStep, Next, Driver

\* The object n that SendInfo or Take makes, in the folder p.
Makes(n, p) ==
  /\ n = Len(objs) + 1 /\ live' = live \union {n} /\ p \in Dirs
  /\ Len(objs') = n /\ objs'[n].parent = p /\ n \notin live /\ n \in 1 .. Len(objs')

LEMMA SendInfoMakes ==
  ASSUME CalmStep, SendInfo
  PROVE  /\ Makes(Len(objs) + 1, Parent) /\ objs'[Len(objs) + 1].name = call.name
         /\ objs'[Len(objs) + 1].dir = (call.op = "mkdir")
         /\ call.op \in {"put", "mkdir"} /\ call.at = "act" /\ UNCHANGED events
         /\ call.goal # "walk" /\ call.rest = << >> /\ Takes
<1> DEFINE x == [parent |-> Parent, name |-> call.name, dir |-> call.op = "mkdir"]
           n == Len(objs) + 1
<1>1. /\ objs' = Append(objs, x) /\ live' = live \union {n} /\ Takes /\ UNCHANGED events
      /\ call.op \in {"put", "mkdir"} /\ call.at = "act"
  BY DEF SendInfo, New, Sends
<1>2. call.goal # "walk" /\ call.rest = << >> /\ Place /\ call.op \in FolderOp
  BY <1>1, BaseFacts DEF WayOf, Looks, FolderOp, CalmStep, Calm
<1>3. Parent \in Dirs
  BY <1>2 DEF Place, Parent, Dirs
<1>4. /\ objs \in Seq(Fact) /\ objs' \in Seq(Fact) /\ Len(objs) \in Nat
      /\ live \subseteq 1 .. Len(objs)
  BY BaseFacts, StepFacts DEF CalmStep
<1>5. x \in Fact
  <2>1. Parent \in 0 .. MaxObjects
    BY <1>1, PtpAssumption DEF Takes, CalmStep, Base, Inv, CameraInv, Root
  <2>2. call.name \in Name
    BY BaseFacts DEF CallState, CalmStep
  <2> QED BY <2>1, <2>2 DEF Fact
<1>6. Len(objs') = n /\ objs'[n] = x
  <2> HIDE DEF x
  <2> QED BY <1>1, <1>4, <1>5, AppendProperties
<1> QED BY <1>1, <1>2, <1>3, <1>4, <1>6 DEF Makes

LEMMA TakeMakes ==
  ASSUME CalmStep, Take
  PROVE  \E p : /\ Makes(Len(objs) + 1, p) /\ objs'[Len(objs) + 1].name = OwnName
                /\ objs'[Len(objs) + 1].dir = FALSE
                /\ \A h \in Children(p) : objs[h].name # OwnName
                /\ events' = Append(events, Len(objs) + 1)
                /\ UNCHANGED <<cache, call, result>>
<1>1. PICK p \in {Root} \union {h \in live : objs[h].dir} :
        /\ \A h \in Children(p) : objs[h].name # OwnName
        /\ objs' = Append(objs, [parent |-> p, name |-> OwnName, dir |-> FALSE])
  BY DEF Take
<1> DEFINE x == [parent |-> p, name |-> OwnName, dir |-> FALSE]
           n == Len(objs) + 1
<1>2. /\ live' = live \union {n} /\ events' = Append(events, n) /\ UNCHANGED <<cache, call, result>>
      /\ objs' = Append(objs, x)
  BY <1>1 DEF Take, ByHand
<1>3. /\ objs \in Seq(Fact) /\ objs' \in Seq(Fact) /\ Len(objs) \in Nat
      /\ live \subseteq 1 .. Len(objs)
  BY BaseFacts, StepFacts DEF CalmStep
<1>4. x \in Fact
  <2>1. p \in 0 .. MaxObjects
    BY <1>1, PtpAssumption DEF CalmStep, Base, Inv, CameraInv, Root
  <2> QED BY <2>1 DEF Fact, Name
<1>5. Len(objs') = n /\ objs'[n] = x
  <2> HIDE DEF x
  <2> QED BY <1>2, <1>3, <1>4, AppendProperties
<1>6. Makes(n, p)
  BY <1>1, <1>2, <1>3, <1>5 DEF Makes, Dirs
<1> QED BY <1>1, <1>2, <1>5, <1>6

\* The kinds of calm steps, for what is said of objects.
LEMMA CalmKinds ==
  ASSUME CalmStep
  PROVE  \/ UNCHANGED <<objs, live>>
         \/ \E n, p : Makes(n, p)
         \/ \E h : DeletesOne(h)
BY CalmWorld, SendInfoMakes, TakeMakes DEF Learns, Event

LEMMA DirsStay ==
  ASSUME CalmStep
  PROVE  /\ call' # NoCall => live \subseteq live'
         /\ ~(\E h : DeletesOne(h)) => live \subseteq live' /\ Dirs \subseteq Dirs'
<1>1. \A h \in live : objs'[h] = objs[h]
  BY StepFacts
<1>2. CASE UNCHANGED <<objs, live>>
  BY <1>2 DEF Dirs
<1>3. ASSUME NEW n, NEW p, Makes(n, p)
      PROVE  live \subseteq live' /\ Dirs \subseteq Dirs'
  BY <1>1, <1>3 DEF Dirs, Makes
<1> QED BY <1>2, <1>3, CalmKinds DEF DeletesOne

LEMMA AliveStays ==
  ASSUME CalmStep
  PROVE  Alive'
<1>1. /\ \A h \in live : objs'[h] = objs[h] /\ objs[h].parent \in Dirs
      /\ DOMAIN cache \subseteq live
  BY StepFacts DEF CalmStep, Calm, Alive
<1>2. DOMAIN cache' \subseteq live'
  <2>1. CASE Learns
    BY <2>1 DEF Learns
  <2>2. CASE SendInfo
    <3>1. live' = live \union {Len(objs) + 1}
      BY <2>2, SendInfoMakes DEF Makes
    <3> QED BY <1>1, <2>2, <3>1 DEF SendInfo, Added, With
  <2>3. CASE Take \/ Event
    <3>1. UNCHANGED cache /\ live \subseteq live'
      BY <2>3, TakeMakes DEF Makes, Event
    <3> QED BY <1>1, <3>1
  <2>4. CASE \E h : DeletesOne(h)
    BY <1>1, <2>4 DEF DeletesOne, Without
  <2> QED BY <2>1, <2>2, <2>3, <2>4, CalmWorld
<1>3. \A h \in live' : objs'[h].parent \in Dirs'
  <2>1. CASE UNCHANGED <<objs, live>>
    BY <1>1, <2>1 DEF Dirs
  <2>2. ASSUME NEW n, NEW p, Makes(n, p)
        PROVE  \A h \in live' : objs'[h].parent \in Dirs'
    <3>1. Dirs \subseteq Dirs'
      BY <1>1, <2>2 DEF Dirs, Makes
    <3> QED BY <1>1, <2>2, <3>1 DEF Makes
  <2>3. ASSUME NEW t, DeletesOne(t)
        PROVE  \A h \in live' : objs'[h].parent \in Dirs'
    <3> SUFFICES ASSUME NEW h \in live' PROVE objs'[h].parent \in Dirs'
      OBVIOUS
    <3>1. h \in live /\ objs' = objs /\ live' = live \ {t} /\ Children(t) = {}
      BY <2>3 DEF DeletesOne
    <3>2. objs[h].parent # t /\ objs[h].parent \in Dirs
      BY <1>1, <3>1 DEF Children
    <3> QED BY <3>1, <3>2 DEF Dirs
  <2> QED BY <2>1, <2>2, <2>3, CalmKinds
<1> QED BY <1>2, <1>3 DEF Alive

LEMMA UniqueStays ==
  ASSUME TidyNames, CalmStep
  PROVE  Unique'
<1>1. Unique /\ \A h \in live : objs'[h] = objs[h]
  BY StepFacts DEF CalmStep, Calm
<1>2. CASE live' \subseteq live
  BY <1>1, <1>2 DEF Unique
<1>3. ASSUME NEW n, NEW p, Makes(n, p),
             \A k \in live : /\ objs[k].parent = p /\ objs[k].name = objs'[n].name
                             /\ p # Root \/ objs[k].dir \/ objs'[n].dir
                             => FALSE
      PROVE  Unique'
  <2>1. live' = live \union {n} /\ objs'[n].parent = p
    BY <1>3 DEF Makes
  <2> QED BY <1>1, <1>3, <2>1 DEF Unique
<1>4. CASE SendInfo
  <2> DEFINE n == Len(objs) + 1
  <2>1. /\ Makes(n, Parent) /\ objs'[n].name = call.name /\ objs'[n].dir = (call.op = "mkdir")
        /\ call.op \in {"put", "mkdir"} /\ call.at = "act" /\ call.goal # "walk" /\ Takes
    BY <1>4, SendInfoMakes
  <2> HIDE DEF n
  <2>2. CASE call.op = "mkdir"
    <3>1. \A h \in live : objs[h].parent = Parent => objs[h].name # call.name
      BY <2>1, <2>2 DEF Takes, Children
    <3> QED BY <1>3, <2>1, <3>1
  <2>3. CASE call.op = "put"
    <3>1. Acting /\ Place /\ call.target = Special
      BY <1>4 DEF CalmStep, Calm, SendInfo, Sends
    <3>2. Parent # Root => \A h \in live : objs[h].parent = Parent => objs[h].name # call.name
      BY <2>1, <2>3, <3>1 DEF Acting, Parent, Children, FolderOp
    <3>3. \A h \in live : objs[h].dir => objs[h].name # call.name
      BY <2>3, StepFacts DEF CalmStep, Base, NamesInv, TidyNames
    <3>4. \A k \in live : /\ objs[k].parent = Parent /\ objs[k].name = objs'[n].name
                          /\ Parent # Root \/ objs[k].dir \/ objs'[n].dir
                          => FALSE
      BY <2>1, <2>3, <3>2, <3>3
    <3> QED BY <1>3, <2>1, <3>4
  <2> QED BY <2>1, <2>2, <2>3
<1>5. CASE Take
  <2>1. PICK p : /\ Makes(Len(objs) + 1, p) /\ objs'[Len(objs) + 1].name = OwnName
                 /\ \A h \in Children(p) : objs[h].name # OwnName
    BY <1>5, TakeMakes
  <2>2. \A h \in live : objs[h].parent = p => objs[h].name # OwnName
    BY <2>1 DEF Children
  <2> QED BY <1>3, <2>1, <2>2
<1>6. CASE Learns \/ Event \/ \E h : DeletesOne(h)
  <2>1. live' \subseteq live
    BY <1>6 DEF Learns, Event, DeletesOne
  <2> QED BY <1>2, <2>1
<1> QED BY <1>4, <1>5, <1>6, CalmWorld

\* What is deleted is no picture that the camera has taken.
LEMMA DeletedName ==
  ASSUME TidyNames, CalmStep, NEW h, DeletesOne(h)
  PROVE  objs[h].name # OwnName
<1>1. WayOf(call, objs) /\ call.op \in FolderOp /\ call.at = "act" /\ h = call.target
      /\ call.op \in {"delete", "rmdir"} /\ h \in live
  BY BaseFacts DEF CalmStep, DeletesOne, FolderOp
<1>2. h # Special
  BY <1>1, BaseFacts DEF CalmStep
<1>3. objs[h].name = call.name
  BY <1>1, <1>2 DEF WayOf
<1> QED BY <1>1, <1>3 DEF CalmStep, Base, NamesInv, TidyNames

LEMMA EventsStay ==
  ASSUME TidyNames, CalmStep
  PROVE  EventsInv'
<1>1. /\ \A i \in DOMAIN events : events[i] \in live /\ objs[events[i]].name = OwnName
      /\ \A h \in live : objs'[h] = objs[h]
      /\ events \in Seq(1 .. Len(objs))
  BY StepFacts, BaseFacts DEF CalmStep, Calm, EventsInv
<1>2. CASE UNCHANGED events /\ live \subseteq live'
  BY <1>1, <1>2 DEF EventsInv
<1>3. CASE Take
  <2>1. PICK p : /\ Makes(Len(objs) + 1, p) /\ objs'[Len(objs) + 1].name = OwnName
                 /\ events' = Append(events, Len(objs) + 1)
    BY <1>3, TakeMakes
  <2>2. /\ DOMAIN events' = 1 .. Len(events) + 1 /\ Len(events) \in Nat
        /\ DOMAIN events = 1 .. Len(events)
        /\ \A i \in 1 .. Len(events) : events'[i] = events[i]
        /\ events'[Len(events) + 1] = Len(objs) + 1
    <3>1. events \in Seq(Nat) /\ Len(objs) + 1 \in Nat
      BY <1>1, BaseFacts, ElementOfSeq, SeqDef DEF CalmStep
    <3> QED BY <2>1, <3>1, AppendProperties
  <2>3. ASSUME NEW i \in DOMAIN events'
        PROVE  events'[i] \in live' /\ objs'[events'[i]].name = OwnName
    <3>1. CASE i \in 1 .. Len(events)
      BY <1>1, <2>1, <2>2, <3>1 DEF Makes
    <3>2. CASE i = Len(events) + 1
      BY <2>1, <2>2, <3>2 DEF Makes
    <3> QED BY <2>2, <3>1, <3>2
  <2> QED BY <2>3 DEF EventsInv
<1>4. CASE Event
  <2>1. /\ DOMAIN events' = 1 .. Len(events) - 1 /\ DOMAIN events = 1 .. Len(events)
        /\ \A i \in 1 .. Len(events) - 1 : events'[i] = events[i + 1]
        /\ Len(events) \in Nat /\ UNCHANGED <<objs, live>>
    BY <1>1, <1>4 DEF Event
  <2>2. ASSUME NEW i \in DOMAIN events'
        PROVE  events'[i] \in live' /\ objs'[events'[i]].name = OwnName
    <3>1. i + 1 \in DOMAIN events /\ events'[i] = events[i + 1]
      BY <2>1
    <3> QED BY <1>1, <2>1, <3>1
  <2> QED BY <2>2 DEF EventsInv
<1>5. ASSUME NEW h, DeletesOne(h)
      PROVE  EventsInv'
  <2>1. \A i \in DOMAIN events : events[i] # h
    BY <1>1, <1>5, DeletedName
  <2> QED BY <1>1, <1>5, <2>1 DEF EventsInv, DeletesOne
<1>6. CASE Learns \/ SendInfo
  <2>1. UNCHANGED events /\ live \subseteq live'
    BY <1>6, SendInfoMakes DEF Learns, Makes
  <2> QED BY <1>2, <2>1
<1> QED BY <1>3, <1>4, <1>5, <1>6, CalmWorld

\* A handle that is about to be cached is cached, or is still about to be.
LEMMA PendingStays ==
  ASSUME CalmStep, NEW h \in Pending
  PROVE  h \in Pending' \/ h \in DOMAIN cache'
<1>1. CASE h \in {events[i] : i \in DOMAIN events}
  <2>1. CASE UNCHANGED events
    BY <1>1, <2>1 DEF Pending
  <2>2. CASE Event
    <3>1. PICK i \in DOMAIN events : h = events[i]
      BY <1>1
    <3>2. /\ events \in Seq(1 .. Len(objs)) /\ events # << >>
          /\ call' = [NoCall EXCEPT !.op = "event", !.at = "want", !.target = Head(events)]
          /\ events' = Tail(events)
      BY <2>2, BaseFacts DEF Event, CalmStep
    <3>3. /\ DOMAIN events' = 1 .. Len(events) - 1 /\ DOMAIN events = 1 .. Len(events)
          /\ \A k \in 1 .. Len(events) - 1 : events'[k] = events[k + 1]
          /\ Len(events) \in Nat
      BY <3>2
    <3>4. CASE i = 1
      <4>1. call'.at = "want" /\ call'.target = Head(events)
        BY <3>2 DEF NoCall
      <4>2. Head(events) = events[1]
        BY <3>2
      <4> QED BY <3>1, <3>4, <4>1, <4>2 DEF Pending
    <3>5. CASE i # 1
      <4>1. i - 1 \in DOMAIN events' /\ events'[i - 1] = h
        BY <3>1, <3>3, <3>5
      <4> QED BY <4>1 DEF Pending
    <3> QED BY <3>4, <3>5
  <2>3. CASE Take
    <3>1. events' = Append(events, Len(objs) + 1)
      BY <2>3, TakeMakes
    <3>2. events \in Seq(Nat) /\ Len(objs) + 1 \in Nat
      BY BaseFacts, ElementOfSeq, SeqDef DEF CalmStep
    <3>3. \A i \in DOMAIN events : i \in DOMAIN events' /\ events'[i] = events[i]
      BY <3>1, <3>2, AppendProperties
    <3> QED BY <1>1, <3>3 DEF Pending
  <2>4. UNCHANGED events \/ Event \/ Take
    BY CalmWorld, SendInfoMakes DEF Learns, DeletesOne
  <2> QED BY <2>1, <2>2, <2>3, <2>4
<1>2. CASE call.at \in {"want", "data"} /\ h = call.target
  <2>1. CASE call' = call
    BY <1>2, <2>1 DEF Pending
  <2>2. CASE EventWants
    <3>1. (Has(call.target, {"info"}) /\ UNCHANGED cache) \/ WantGets(call.target)
      BY <2>2, NothingFails
    <3> QED BY <1>2, <3>1 DEF Has, WantGets, With
  <2>3. CASE SendData
    BY <1>2, <2>3, NothingFails DEF Added, With
  <2>4. call' = call \/ EventWants \/ SendData
    <3>1. ~Calls /\ ~Event
      BY <1>2 DEF Calls, Call, Event
    <3>2. CASE Driver
      BY <1>2, <3>2 DEF Driver, ListKnown, ListAsks, GetHandles, GetNoHandles, ScanEnds, ScanWants,
                  ScanPasses, ScanMeets, GetInfo, NotFound, AlreadyThere, Deletes, SendInfo,
                  Sends, SendInfoFails, CheckFails, Climbs, Climbed
    <3>3. CASE Take \/ Remove \/ UNCHANGED vars
      BY <3>3 DEF Take, Remove, ByHand, vars
    <3> QED BY <3>1, <3>2, <3>3 DEF CalmStep, Next
  <2> QED BY <2>1, <2>2, <2>3, <2>4
<1> QED BY <1>1, <1>2 DEF Pending

LEMMA UnknownShrinks ==
  ASSUME CalmStep
  PROVE  Unknown' \subseteq Unknown
<1> SUFFICES ASSUME NEW h \in Unknown' PROVE h \in Unknown
  OBVIOUS
<1>1. h \in live' /\ h \notin DOMAIN cache' /\ h \notin Pending' /\ h \notin Pending
  BY PendingStays DEF Unknown
<1>2. h \in live
  <2>1. CASE SendInfo
    <3>1. live' = live \union {Len(objs) + 1}
      BY <2>1, SendInfoMakes DEF Makes
    <3>2. Len(objs) + 1 \in DOMAIN cache' \union Pending'
      <4>1. \/ Added(Len(objs) + 1)
            \/ call' = [call EXCEPT !.at = "data", !.target = Len(objs) + 1]
        BY <2>1 DEF SendInfo, Goes
      <4>2. CASE Added(Len(objs) + 1)
        BY <4>2 DEF Added, With
      <4>3. CASE call' = [call EXCEPT !.at = "data", !.target = Len(objs) + 1]
        <5>1. call'.at = "data" /\ call'.target = Len(objs) + 1
          BY <4>3, StepFacts DEF CallState
        <5> QED BY <5>1 DEF Pending
      <4> QED BY <4>1, <4>2, <4>3
    <3> QED BY <1>1, <3>1, <3>2
  <2>2. CASE Take
    <3>1. /\ live' = live \union {Len(objs) + 1} /\ events' = Append(events, Len(objs) + 1)
      BY <2>2, TakeMakes DEF Makes
    <3>2. events \in Seq(Nat) /\ Len(objs) + 1 \in Nat
      BY BaseFacts, ElementOfSeq, SeqDef DEF CalmStep
    <3>3. Len(events) + 1 \in DOMAIN events' /\ events'[Len(events) + 1] = Len(objs) + 1
      BY <3>1, <3>2, AppendProperties
    <3> QED BY <1>1, <3>1, <3>3 DEF Pending
  <2>3. CASE Learns \/ Event \/ \E t : DeletesOne(t)
    BY <1>1, <2>3 DEF Learns, Event, DeletesOne
  <2> QED BY <2>1, <2>2, <2>3, CalmWorld
<1>3. h \notin DOMAIN cache
  <2>1. CASE SendInfo
    BY <1>1, <2>1 DEF SendInfo, Added, With
  <2>2. CASE Learns
    BY <1>1, <2>2 DEF Learns
  <2>3. CASE Take \/ Event
    BY <1>1, <2>3 DEF Take, ByHand, Event
  <2>4. CASE \E t : DeletesOne(t)
    BY <1>1, <2>4 DEF DeletesOne, Without
  <2> QED BY <2>1, <2>2, <2>3, <2>4, CalmWorld
<1> QED BY <1>1, <1>2, <1>3 DEF Unknown

LEMMA CoveredStays ==
  ASSUME CalmStep, NEW p, Covered(p)
  PROVE  Covered(p)'
<1>1. \A h \in Unknown' : h \in Unknown /\ objs'[h] = objs[h]
  BY UnknownShrinks, StepFacts DEF Unknown
<1> QED BY <1>1 DEF Covered

\* What has been asked for its handles is covered.
LEMMA HandlesCover ==
  ASSUME CalmStep, GetHandles, NEW p, p = Top
  PROVE  Covered(p)'
<1>1. Children(Top) \subseteq Handles /\ DOMAIN cache' = DOMAIN cache \union Handles
      /\ UNCHANGED <<objs, live>>
  <2>1. Children(Top) \subseteq Handles
    BY DEF Handles, Children
  <2> HIDE DEF Handles
  <2> QED BY <2>1 DEF GetHandles, Merged, Camera
<1>2. \A h \in live : objs[h].parent = p => h \in DOMAIN cache'
  BY <1>1 DEF Children
<1> QED BY <1>1, <1>2 DEF Covered, Unknown

\* Only ListAsks notes that a folder is listed.
LEMMA ListedStays ==
  ASSUME CalmStep, NEW p, Has(p, {"listed"})'
  PROVE  Has(p, {"listed"}) \/ (call.at = "list" /\ call' = [call EXCEPT !.at = "handles"]
                                /\ p = call.here)
<1>1. p \in DOMAIN cache' /\ "listed" \in cache'[p].flags
  BY DEF Has
<1>2. CASE UNCHANGED cache
  BY <1>1, <1>2 DEF Has
<1>3. ASSUME NEW h, WantGets(h)
      PROVE  Has(p, {"listed"})
  <2>1. cache' = [k \in DOMAIN cache \union {h} |-> IF k = h THEN Loaded(h) ELSE cache[k]]
    BY <1>3 DEF WantGets, With
  <2>2. "listed" \in Loaded(h).flags => Has(h, {"listed"})
    BY DEF Loaded, X, Known, NewCell, Has
  <2> HIDE DEF Loaded
  <2> QED BY <1>1, <2>1, <2>2 DEF Has
<1>4. ASSUME NEW h, Added(h)
      PROVE  Has(p, {"listed"})
  <2>1. cache' = [k \in DOMAIN cache \union {h} |-> IF k = h THEN Known(h) ELSE cache[k]]
    BY <1>4 DEF Added, With
  <2>2. "listed" \in Known(h).flags => Has(h, {"listed"})
    BY DEF Known, NewCell, Has
  <2> HIDE DEF Known
  <2> QED BY <1>1, <2>1, <2>2 DEF Has
<1>5. CASE ListAsks
  <2>1. CASE UNCHANGED cache
    BY <1>2, <2>1
  <2>2. CASE cache' = [cache EXCEPT ![call.here].flags = @ \union {"listed"}]
    <3>1. p \in DOMAIN cache /\ (p # call.here => cache'[p] = cache[p])
      BY <1>1, <2>2
    <3> QED BY <1>1, <1>5, <3>1 DEF ListAsks, Goes, Has
  <2> QED BY <1>5, <2>1, <2>2 DEF ListAsks
<1>6. CASE GetHandles
  <2>1. cache' = [h \in DOMAIN cache \union Handles |->
                    IF h \in Handles THEN Tagged(h) ELSE cache[h]]
    BY <1>6 DEF GetHandles, Merged
  <2>2. "listed" \in Tagged(p).flags => p \in DOMAIN cache /\ "listed" \in cache[p].flags
    <3>1. CASE p \notin DOMAIN cache
      <4>1. Tagged(p).flags = StorageFlag \union (IF Tag > 0 THEN {"parent"} ELSE {})
        BY <3>1 DEF Tagged
      <4> QED BY <4>1 DEF StorageFlag
    <3>2. CASE p \in DOMAIN cache
      <4>1. Tagged(p).flags = cache[p].flags \union StorageFlag
                              \union (IF Tag # Special THEN {"parent"} ELSE {})
        BY <3>2 DEF Tagged
      <4> QED BY <3>2, <4>1 DEF StorageFlag
    <3> QED BY <3>1, <3>2
  <2> HIDE DEF Tagged, Handles
  <2> QED BY <1>1, <2>1, <2>2 DEF Has
<1>7. CASE \E h : DeletesOne(h)
  BY <1>1, <1>7 DEF DeletesOne, Without, Has
<1>8. CASE Calls \/ Event \/ Take \/ ListKnown
  BY <1>2, <1>8 DEF Calls, Call, Event, Take, ByHand, ListKnown
<1>9. CASE ScanEnds \/ ScanPasses \/ ScanMeets \/ GetInfo \/ NotFound \/ AlreadyThere
           \/ SendInfoFails \/ CheckFails \/ Climbed \/ UNCHANGED vars
  BY <1>2, <1>9 DEF ScanEnds, ScanPasses, ScanMeets, GetInfo, NotFound, AlreadyThere,
                    SendInfoFails, CheckFails, Climbed, vars
<1>10. CASE ScanWants \/ EventWants \/ Climbs
  BY <1>2, <1>3, <1>10, NothingFails
<1>11. CASE SendInfo \/ SendData
  BY <1>2, <1>4, <1>11, NothingFails DEF SendInfo
<1>12. CASE Deletes
  <2>1. CASE /\ call.target \in live /\ Children(call.target) = {}
             /\ Lost({call.target}) /\ cache' = Without(call.target) /\ Done(NoResult)
    BY <1>1, <2>1 DEF Without, Has
  <2> QED BY <1>2, <1>12, <2>1, NothingFails
<1>13. ~Remove /\ ~GetNoHandles
  BY StepFacts, NothingFails
<1> QED BY <1>5, <1>6, <1>8, <1>9, <1>10, <1>11, <1>12, <1>13 DEF CalmStep, Next, Driver

\* How a call comes to ask for handles, or to scan.
LEMMA HandlesStep ==
  ASSUME CalmStep, call.at = "handles"
  PROVE  call' = call \/ (GetHandles /\ Listed)
<1>1. ~Calls /\ ~Event
  BY DEF Calls, Call, Event
<1>2. CASE Driver
  BY <1>2, NothingFails DEF Driver, ListKnown, ListAsks, GetHandles, GetNoHandles, ScanEnds,
              ScanWants, ScanPasses, ScanMeets, GetInfo, NotFound, AlreadyThere, Deletes,
              SendInfo, Sends, SendInfoFails, CheckFails, SendData, EventWants, Climbs, Climbed
<1>3. CASE Take \/ Remove \/ UNCHANGED vars
  BY <1>3 DEF Take, Remove, ByHand, vars
<1> QED BY <1>1, <1>2, <1>3 DEF CalmStep, Next

-----------------------------------------------------------------------------
(***************************************************************************)
(* What happens to the call in a calm step.                                *)
(***************************************************************************)
Rests ==
  /\ call' = call /\ (call.at = "idle" => UNCHANGED result)
  /\ (call.op \in FolderOp => DOMAIN cache' = DOMAIN cache)
Ascends ==
  /\ call.at = "climb" /\ call.here # Root /\ Has(call.here, {"info"})
  /\ call' = [call EXCEPT !.here = cache[call.here].parent,
                          !.rest = <<objs[call.here].name>> \o @]
Asks == ListAsks /\ call' = [call EXCEPT !.at = "handles"]
Answered == /\ GetHandles /\ call.goal \notin {"roots", "root"}
            /\ call' = [call EXCEPT !.at = "scan"]
Roots == /\ call.at = "handles" /\ call.goal = "roots"
         /\ call' = [call EXCEPT !.goal = "root"]
Finds(h) == /\ call.at = "scan" /\ h \in Nearest /\ Has(h, X) /\ cache[h].parent = call.here
            /\ IsIt(h) /\ Found(h) /\ UNCHANGED Camera
Misses == /\ call.at = "scan" /\ Ahead = {} /\ call.goal # "gather" /\ Found(Special)
          /\ UNCHANGED Camera
Meets(h) ==
  /\ call.at = "scan" /\ h \in Nearest /\ Has(h, X) /\ cache[h].parent = call.here
  /\ UNCHANGED cache
  /\ \/ Listable(h) /\ call' = [call EXCEPT !.cursor = h, !.names = @ \union {objs[h].name}]
     \/ ~Listable(h) /\ ~IsIt(h) /\ call' = [call EXCEPT !.cursor = h]
Sent == /\ SendInfo /\ call.op = "put"
        /\ call' = [call EXCEPT !.at = "data", !.target = Len(objs) + 1]

LEMMA CalmMoves ==
  ASSUME CalmStep
  PROVE  \/ Rests \/ call' = NoCall \/ Calls \/ Event \/ EventWants \/ Ascends
         \/ ListKnown \/ Asks \/ Answered \/ Roots
         \/ (\E h : Finds(h)) \/ Misses \/ ScanPasses \/ (\E h : Meets(h)) \/ Sent
<1>1. call.op \in FolderOp => call.at \in {"list", "handles", "scan", "act", "data"}
  BY BaseFacts DEF CalmStep, WayOf
<1>2. CASE ScanWants
  <2>1. PICK h \in Nearest : WantGets(h) /\ call' = call
    BY <1>2, NothingFails DEF Goes
  <2>2. DOMAIN cache' = DOMAIN cache
    BY <2>1 DEF Nearest, Ahead, WantGets, With
  <2> QED BY <1>2, <2>1, <2>2 DEF Rests, ScanWants
<1>3. CASE Climbs
  <2>1. call.op \notin FolderOp /\ call.at = "climb" /\ call.here # Root
    BY <1>1, <1>3 DEF Climbs
  <2> QED BY <1>3, <2>1, NothingFails DEF Rests, Ascends, Goes
<1>4. CASE Take \/ UNCHANGED vars
  BY <1>4 DEF Take, ByHand, Rests, vars
<1>5. CASE ListAsks
  BY <1>5 DEF ListAsks, Goes, Asks
<1>6. CASE GetHandles
  BY <1>6 DEF GetHandles, Listed, Goes, Return, Answered, Roots
<1>7. CASE ScanEnds
  BY <1>7 DEF ScanEnds, Misses, Return
<1>8. CASE ScanMeets
  BY <1>8 DEF ScanMeets, Finds, Meets, Goes
<1>9. CASE GetInfo \/ NotFound \/ AlreadyThere \/ Deletes \/ SendInfoFails \/ CheckFails \/ SendData \/ Climbed
  BY <1>9, NothingFails DEF GetInfo, NotFound, AlreadyThere, Deletes, SendInfoFails, CheckFails, SendData,
                            Climbed, Done, Told, Return
<1>10. CASE SendInfo
  BY <1>10 DEF SendInfo, Sends, Done, Return, Goes, Sent
<1>11. ~Remove /\ ~GetNoHandles
  BY StepFacts, NothingFails
<1> QED BY <1>2, <1>3, <1>4, <1>5, <1>6, <1>7, <1>8, <1>9, <1>10, <1>11
        DEF CalmStep, Next, Driver

\* The calls before and after.
LEMMA Moved ==
  ASSUME CalmStep
  PROVE  /\ Asks => call' = [call EXCEPT !.at = "handles"] /\ call'.at = "handles"
         /\ ListKnown => call'.at = "scan" /\ call.at = "list"
         /\ Answered => call'.at = "scan" /\ call.at = "handles"
         /\ Asks \/ ListKnown \/ Answered =>
              /\ call'.op = call.op /\ call'.here = call.here /\ call'.goal = call.goal
              /\ call'.rest = call.rest /\ call'.cursor = call.cursor /\ call'.names = call.names
              /\ call'.name = call.name /\ call'.folder = call.folder
         /\ Roots => /\ call'.op = call.op /\ call'.here = call.here /\ call'.goal = "root"
                     /\ call'.at = "handles"
         /\ ScanPasses \/ (\E h : Meets(h)) =>
              /\ call'.at = "scan" /\ call.at = "scan"
              /\ call'.op = call.op /\ call'.here = call.here /\ call'.goal = call.goal
              /\ call'.rest = call.rest /\ call'.name = call.name /\ call'.folder = call.folder
         /\ Sent => /\ call'.op = call.op /\ call'.here = call.here /\ call'.goal = call.goal
                    /\ call'.rest = call.rest /\ call'.name = call.name
                    /\ call'.folder = call.folder /\ call'.at = "data"
                    /\ call'.target = Len(objs) + 1
         /\ EventWants => /\ call'.at = "climb" /\ call'.op = call.op /\ call'.target = call.target
                          /\ call'.here = cache'[call.target].parent /\ call'.rest = call.rest
         /\ Ascends => /\ call'.at = "climb" /\ call'.op = call.op /\ call'.target = call.target
                       /\ call'.here = cache[call.here].parent
                       /\ call'.rest = <<objs[call.here].name>> \o call.rest
<1>1. call \in CallState
  BY StepFacts
<1> DEFINE Same(d) == /\ d.op = call.op /\ d.here = call.here /\ d.goal = call.goal
                      /\ d.rest = call.rest /\ d.name = call.name /\ d.folder = call.folder
<1>2. \A a : LET d == [call EXCEPT !.at = a]
             IN Same(d) /\ d.at = a /\ d.cursor = call.cursor /\ d.names = call.names
  BY <1>1 DEF CallState
<1>3. \A a, b : LET d == [call EXCEPT !.cursor = a, !.names = b] IN Same(d) /\ d.at = call.at
  BY <1>1 DEF CallState
<1>4. \A a : LET d == [call EXCEPT !.cursor = a] IN Same(d) /\ d.at = call.at
  BY <1>1 DEF CallState
<1>5. \A a, b : LET d == [call EXCEPT !.at = a, !.target = b]
                IN Same(d) /\ d.at = a /\ d.target = b
  BY <1>1 DEF CallState
<1>6. \A a : LET d == [call EXCEPT !.goal = a]
             IN d.op = call.op /\ d.here = call.here /\ d.goal = a /\ d.at = call.at
  BY <1>1 DEF CallState
<1>8. \A a, b : LET d == [call EXCEPT !.here = a, !.rest = b \o @]
                IN /\ d.op = call.op /\ d.target = call.target /\ d.rest = b \o call.rest
                   /\ d.at = call.at /\ d.here = a
  BY <1>1 DEF CallState
<1>9. \A b : LET d == [call EXCEPT !.cursor = b, !.names = @ \union {objs[b].name}]
             IN Same(d) /\ d.at = call.at
  BY <1>1 DEF CallState
<1>10. Asks \/ ListKnown \/ Answered => Same(call') /\ call'.cursor = call.cursor
                                        /\ call'.names = call.names
  <2>1. Asks \/ ListKnown \/ Answered => \E a : call' = [call EXCEPT !.at = a]
    BY DEF Asks, ListKnown, Answered, Goes
  <2> HIDE DEF Same
  <2> QED BY <1>2, <2>1
<1>11. /\ Asks => call'.at = "handles"
       /\ ListKnown => call'.at = "scan" /\ call.at = "list"
       /\ Answered => call'.at = "scan" /\ call.at = "handles"
  BY <1>2 DEF Asks, ListKnown, Answered, GetHandles, Goes
<1>12. Roots => /\ call'.op = call.op /\ call'.here = call.here /\ call'.goal = "root"
                /\ call'.at = "handles"
  BY <1>6 DEF Roots
<1>13. ScanPasses \/ (\E h : Meets(h)) => call'.at = "scan" /\ call.at = "scan" /\ Same(call')
  <2>1. ScanPasses \/ (\E h : Meets(h)) =>
          /\ call.at = "scan"
          /\ \/ \E a : call' = [call EXCEPT !.cursor = a]
             \/ \E a : call' = [call EXCEPT !.cursor = a, !.names = @ \union {objs[a].name}]
    BY DEF ScanPasses, Meets, Goes
  <2> HIDE DEF Same
  <2> QED BY <1>4, <1>9, <2>1
<1>14. Sent => Same(call') /\ call'.at = "data" /\ call'.target = Len(objs) + 1
  BY <1>5 DEF Sent
<1>15. EventWants => /\ call'.at = "climb" /\ call'.op = call.op /\ call'.target = call.target
                     /\ call'.here = cache'[call.target].parent /\ call'.rest = call.rest
  <2> SUFFICES ASSUME EventWants
               PROVE  /\ call'.at = "climb" /\ call'.op = call.op /\ call'.target = call.target
                      /\ call'.here = cache'[call.target].parent /\ call'.rest = call.rest
    OBVIOUS
  <2>1. call' = [call EXCEPT !.at = "climb", !.here = cache'[call.target].parent]
    BY NothingFails DEF Goes
  <2> DEFINE b == cache'[call.target].parent
  <2>2. call' = [call EXCEPT !.at = "climb", !.here = b]
    BY <2>1
  <2> HIDE DEF b
  <2>3. /\ call'.at = "climb" /\ call'.op = call.op /\ call'.target = call.target
        /\ call'.here = b /\ call'.rest = call.rest
    BY <1>1, <2>2 DEF CallState
  <2> QED BY <2>3 DEF b
<1>16. Ascends => /\ call'.at = "climb" /\ call'.op = call.op /\ call'.target = call.target
                  /\ call'.here = cache[call.here].parent
                  /\ call'.rest = <<objs[call.here].name>> \o call.rest
  BY <1>8 DEF Ascends
<1> QED BY <1>10, <1>11, <1>12, <1>13, <1>14, <1>15, <1>16 DEF Asks

LEMMA FoundAt ==
  ASSUME call \in CallState, NEW h, Found(h)
  PROVE  call'.at \in {"list", "act"} /\ (call'.at = "act" <=> call.goal # "walk")
<1>1. CASE call.goal = "walk"
  <2> DEFINE c == [call EXCEPT !.here = h, !.rest = Tail(@)]
  <2>1. call' = Walk(c)
    BY <1>1 DEF Found, Goes
  <2>2. Walk(c) = Arrive(c) \/ Walk(c) = [c EXCEPT !.at = "list", !.goal = "walk", !.cursor = 0]
    BY DEF Walk
  <2> QED BY <1>1, <2>1, <2>2 DEF Arrive, CallState
<1>2. CASE call.goal # "walk"
  BY <1>2 DEF Found, Goes, CallState
<1> QED BY <1>1, <1>2

LEMMA BegunAt ==
  /\ Calls => call'.at = "list" /\ call.at = "idle"
  /\ Event => call'.at = "want" /\ call'.op = "event" /\ call'.rest = << >>
              /\ call'.target = Head(events) /\ call.at = "idle"
<1>1. \A h : LET d == [NoCall EXCEPT !.op = "event", !.at = "want", !.target = h]
             IN d.at = "want" /\ d.op = "event" /\ d.rest = << >> /\ d.target = h
  BY DEF NoCall
<1>2. ASSUME Event
      PROVE  /\ call'.at = "want" /\ call'.op = "event" /\ call'.rest = << >>
             /\ call'.target = Head(events) /\ call.at = "idle"
  <2> DEFINE h == Head(events)
  <2>1. call' = [NoCall EXCEPT !.op = "event", !.at = "want", !.target = h] /\ call.at = "idle"
    BY <1>2 DEF Event
  <2> HIDE DEF h
  <2>2. /\ call'.at = "want" /\ call'.op = "event" /\ call'.rest = << >> /\ call'.target = h
    BY <1>1, <2>1
  <2> QED BY <2>1, <2>2 DEF h
<1>3. ASSUME NEW op, NEW folder, NEW name, Call(op, folder, name)
      PROVE  call'.at = "list" /\ call.at = "idle"
  BY <1>3 DEF Call, Walk, Arrive, NoCall
<1>4. Calls => \E op, folder, name : Call(op, folder, name)
  BY DEF Calls
<1> QED BY <1>2, <1>3, <1>4

\* A scan is of a folder that was read, or is read.
LEMMA ScanStep ==
  ASSUME CalmStep, call'.at = "scan"
  PROVE  /\ call'.here = call.here
         /\ call.at = "scan" \/ ListKnown \/ GetHandles
<1>1. call \in CallState
  BY StepFacts
<1>2. ~Calls /\ ~Event /\ ~EventWants /\ ~Ascends /\ ~Asks /\ ~Roots /\ ~Sent
  BY BegunAt, Moved
<1>3. \A h : ~Found(h)
  BY <1>1, FoundAt
<1>4. call' # NoCall
  BY DEF NoCall
<1> QED BY <1>2, <1>3, <1>4, CalmMoves, Moved DEF Rests, Finds, Misses, Answered

LEMMA CoverStays ==
  ASSUME CalmStep
  PROVE  CoverInv'
<1>1. /\ CoverInv /\ OtherCalls /\ Place /\ call \in CallState /\ DOMAIN cache \subseteq live
      /\ WayOf(call, objs)
  BY StepFacts, BaseFacts DEF CalmStep, Calm
<1>2. ASSUME NEW p \in live', Has(p, {"listed"})', ~(call'.at = "handles" /\ call'.here = p)
      PROVE  Covered(p)'
  <2>1. Has(p, {"listed"})
    <3>1. call' = [call EXCEPT !.at = "handles"] => call'.at = "handles" /\ call'.here = call.here
      BY <1>1 DEF CallState
    <3> QED BY <1>2, <3>1, ListedStays
  <2>2. p \in live
    BY <1>1, <2>1 DEF Has
  <2>3. CASE ~(call.at = "handles" /\ call.here = p)
    BY <1>1, <2>1, <2>2, <2>3, CoveredStays DEF CoverInv
  <2>4. CASE call.at = "handles" /\ call.here = p
    <3>1. GetHandles
      BY <1>2, <2>4, HandlesStep
    <3>2. Top = p
      BY <2>2, <2>4, StepFacts, BaseFacts DEF Top, CalmStep
    <3> QED BY <3>1, <3>2, HandlesCover
  <2> QED BY <2>3, <2>4
<1>3. ASSUME ~(call'.op = "init" /\ call'.goal = "roots")
      PROVE  Covered(Root)'
  <2>1. CASE ~(call.op = "init" /\ call.goal = "roots")
    <3>1. Covered(Root)
      BY <1>1, <2>1 DEF CoverInv
    <3> QED BY <3>1, CoveredStays
  <2>2. CASE call.op = "init" /\ call.goal = "roots"
    <3>1. call.at = "handles" /\ call.here = Special
      BY <1>1, <2>2 DEF OtherCalls
    <3>2. GetHandles /\ Root = Top
      BY <1>3, <2>2, <3>1, HandlesStep DEF Top
    <3> QED BY <3>2, HandlesCover
  <2> QED BY <2>1, <2>2
<1>4. ASSUME call'.at = "scan", NEW p, p = call'.here, p # Special
      PROVE  Covered(p)'
  <2>1. p = call.here /\ (call.at = "scan" \/ ListKnown \/ GetHandles)
    BY <1>4, ScanStep
  <2>2. CASE call.at = "scan"
    BY <1>1, <1>4, <2>1, <2>2, CoveredStays DEF CoverInv
  <2>3. CASE ListKnown
    <3>1. call.at = "list" /\ (p = Root \/ Has(p, {"listed"}))
      BY <2>1, <2>3 DEF ListKnown
    <3>2. call.op # "init"
      BY <1>1, <3>1 DEF OtherCalls
    <3>3. Covered(p)
      BY <1>1, <3>1, <3>2 DEF CoverInv, Has
    <3> QED BY <3>3, CoveredStays
  <2>4. CASE GetHandles
    BY <1>4, <2>1, <2>4, HandlesCover DEF Top
  <2> QED BY <2>1, <2>2, <2>3, <2>4
<1>5. call'.at = "scan" /\ call'.here # Special => Covered(call.here)'
  BY <1>4 DEF Covered
<1>6. \A p \in live' : Has(p, {"listed"})' /\ ~(call'.at = "handles" /\ call'.here = p)
                       => Covered(p)'
  BY <1>2
<1> QED BY <1>3, <1>5, <1>6 DEF CoverInv

-----------------------------------------------------------------------------
(***************************************************************************)
(* The call after a calm step.                                             *)
(***************************************************************************)

\* The steps of the functions that begin with a folder.
LEMMA FolderMoves ==
  ASSUME CalmStep
  PROVE  /\ Calls => call'.op \in FolderOp
         /\ ListKnown \/ Asks \/ Answered \/ (\E h : Finds(h)) \/ Misses \/ ScanPasses
            \/ (\E h : Meets(h)) \/ Sent => call.op \in FolderOp /\ call'.op = call.op
         /\ Roots => call.op = "init"
         /\ EventWants \/ Ascends => call.op = "event" /\ call'.op = "event"
<1>1. OtherCalls /\ WayOf(call, objs) /\ call \in CallState
  BY BaseFacts DEF CalmStep, Calm
<1>2. call.at \in {"list", "scan"} => call.op \in FolderOp
  BY <1>1, TargetIsThere DEF OtherCalls
<1>3. call.at = "handles" /\ call.goal \notin {"roots", "root"} => call.op \in FolderOp
  BY <1>1, TargetIsThere DEF OtherCalls
<1>4. Calls => call'.op \in FolderOp
  <2>1. Calls => \E op, folder, name : op \in FolderOp /\ Call(op, folder, name)
    BY DEF Calls, FolderOp
  <2>2. ASSUME NEW op, NEW folder, NEW name, Call(op, folder, name)
        PROVE  call'.op = op
    BY <2>2 DEF Call, Walk, Arrive, NoCall
  <2> QED BY <2>1, <2>2
<1>5. Finds(Special) \/ (\E h : Finds(h)) \/ Misses => call'.op = call.op /\ call.at = "scan"
  BY <1>1, FoundCalled DEF Finds, Misses
<1>6. Roots => call.op = "init"
  BY <1>1, TargetIsThere DEF Roots, WayOf
<1>7. EventWants \/ Ascends => call.op = "event" /\ call'.op = "event"
  BY TargetIsThere, Moved DEF EventWants, Ascends
<1>8. ListKnown \/ Asks \/ Answered \/ ScanPasses \/ (\E h : Meets(h)) \/ Sent =>
        call.op \in FolderOp /\ call'.op = call.op
  <2>1. ListKnown \/ Asks \/ ScanPasses \/ (\E h : Meets(h)) => call.at \in {"list", "scan"}
    BY DEF ListKnown, Asks, ListAsks, ScanPasses, Meets
  <2>2. Answered => call.at = "handles" /\ call.goal \notin {"roots", "root"}
    BY DEF Answered, GetHandles
  <2>3. Sent => call.op \in FolderOp
    BY DEF Sent, FolderOp
  <2> QED BY <1>2, <1>3, <2>1, <2>2, <2>3, Moved
<1> QED BY <1>2, <1>4, <1>5, <1>6, <1>7, <1>8

\* What the paths and the objects of a call are, afterwards.
LEMMA SameFacts ==
  ASSUME CalmStep, call' # NoCall
  PROVE  /\ live \subseteq live' /\ Dirs \subseteq Dirs'
         /\ \A h \in live : objs'[h] = objs[h]
         /\ \A f \in Dirs : PathIn(objs', f) = PathIn(objs, f) /\ f # Special
         /\ \A h \in live : objs[h].parent \in Dirs
<1>1. ~ \E h : DeletesOne(h)
  BY DEF DeletesOne
<1>2. Dirs \subseteq 0 .. Len(objs) /\ Special \notin Dirs
  BY DirsFacts DEF CalmStep
<1> QED BY <1>1, <1>2, DirsStay, StepFacts DEF CalmStep, Calm, Alive

\* A loaded object's parent is what the camera said.
LEMMA LoadedParent ==
  ASSUME Base, NEW h, Has(h, {"info"})
  PROVE  cache[h].parent = objs[h].parent
BY DEF Has, Base, WayInv, FlagsInv, Inv, CacheInv

LEMMA OtherCallsStay ==
  ASSUME CalmStep
  PROVE  OtherCalls'
<1>1. OtherCalls /\ call \in CallState
  BY StepFacts DEF CalmStep, Calm
<1>2. CASE call' = NoCall
  BY <1>2 DEF NoCall, OtherCalls
<1> DEFINE Climbing(c, o, L, D) ==
             /\ c.at \in {"want", "climb"}
             /\ c.target \in L /\ o[c.target].name = OwnName
             /\ c.at = "want" => c.rest = << >>
             /\ c.at = "climb" =>
                  c.here \in D /\ PathIn(o, c.here) \o c.rest = PathIn(o, o[c.target].parent)
<1>3. ASSUME call'.op = "event", Climbing(call', objs', live', Dirs')
      PROVE  OtherCalls'
  BY <1>3 DEF OtherCalls
<1>4. CASE Rests /\ call' # NoCall
  <2>1. call' = call
    BY <1>4 DEF Rests
  <2>2. CASE call.op = "event"
    <3>1. Climbing(call, objs, live, Dirs)
      BY <1>1, <2>2 DEF OtherCalls
    <3>2. Climbing(call, objs', live', Dirs')
      BY <1>4, <3>1, SameFacts
    <3> QED BY <1>3, <2>1, <2>2, <3>2
  <2>3. CASE call.op # "event"
    BY <1>1, <2>1, <2>3 DEF OtherCalls
  <2> QED BY <2>2, <2>3
<1>5. ASSUME call'.op \in FolderOp
      PROVE  OtherCalls'
  BY <1>5 DEF OtherCalls, FolderOp
<1>6. CASE Event
  <2>1. /\ call'.at = "want" /\ call'.op = "event" /\ call'.rest = << >>
        /\ call'.target = Head(events) /\ events # << >> /\ UNCHANGED <<objs, live>>
    BY <1>6, BegunAt DEF Event
  <2>2. Head(events) \in live /\ objs[Head(events)].name = OwnName
    <3>1. events \in Seq(1 .. Len(objs)) /\ EventsInv
      BY BaseFacts DEF CalmStep, Calm
    <3>2. 1 \in DOMAIN events /\ Head(events) = events[1]
      BY <2>1, <3>1
    <3> QED BY <3>1, <3>2 DEF EventsInv
  <2> QED BY <1>3, <2>1, <2>2
<1>7. CASE Roots
  <2>1. /\ call'.op = "init" /\ call'.at = "handles" /\ call'.here = Special
        /\ call'.goal = "root"
    BY <1>1, <1>7, FolderMoves, Moved DEF OtherCalls
  <2> QED BY <2>1 DEF OtherCalls
<1>8. ASSUME EventWants \/ Ascends
      PROVE  /\ Climbing(call, objs, live, Dirs) /\ call'.op = "event" /\ call' # NoCall
             /\ UNCHANGED <<objs, live>> /\ Dirs' = Dirs
  <2>1. call.op = "event" /\ call'.op = "event"
    BY <1>8, FolderMoves
  <2>2. call' # NoCall
    BY <2>1 DEF NoCall
  <2>3. Climbing(call, objs, live, Dirs)
    BY <1>1, <2>1 DEF OtherCalls
  <2>4. CASE EventWants
    BY <2>1, <2>2, <2>3, <2>4 DEF EventWants, Camera, Dirs
  <2>5. CASE Ascends
    <3>1. ~Event /\ ~SendInfo /\ ~(\E h : DeletesOne(h))
      BY <2>5, <2>2 DEF Ascends, Event, SendInfo, Sends, DeletesOne
    <3>2. ~Take
      <4>1. /\ call'.here = objs[call.here].parent /\ call.here \in live
            /\ objs[call.here].parent < call.here
        BY <2>3, <2>5, Moved, LoadedParent, BaseFacts, PathStep DEF CalmStep, Ascends, Dirs
      <4>2. call.here \in Nat /\ objs[call.here].parent # call.here
        BY <4>1, BaseFacts, PathStep DEF CalmStep
      <4> QED BY <4>1, <4>2 DEF Take, ByHand
    <3>3. UNCHANGED <<objs, live>>
      BY <3>1, <3>2, CalmWorld DEF Learns
    <3> QED BY <2>1, <2>2, <2>3, <3>3 DEF Dirs
  <2> QED BY <1>8, <2>4, <2>5
<1>9. CASE EventWants
  <2>1. /\ call'.at = "climb" /\ call'.target = call.target
        /\ call'.here = cache'[call.target].parent /\ call'.rest = << >>
        /\ call.target \in live
    BY <1>8, <1>9, Moved DEF EventWants
  <2>2. Has(call.target, {"info"})'
    <3>1. (Has(call.target, {"info"}) /\ UNCHANGED cache) \/ WantGets(call.target)
      BY <1>9, NothingFails
    <3>2. \A h : h = call.target => (h \in DOMAIN cache' /\ "info" \in cache'[h].flags)
      BY <3>1 DEF Has, WantGets, With, Loaded, X
    <3> QED BY <2>1, <3>2 DEF Has
  <2>3. call'.here = objs[call.target].parent
    <3>1. \A h : h \in DOMAIN cache' /\ "info" \in cache'[h].flags
                 => cache'[h].parent = objs'[h].parent
      BY DEF CalmStep, Base, WayInv, FlagsInv, Inv, CacheInv
    <3> QED BY <1>8, <1>9, <2>1, <2>2, <3>1 DEF Has
  <2>4. call'.here \in Dirs
    BY <1>8, <1>9, <2>1, <2>3, SameFacts
  <2>5. PathIn(objs, call'.here) \o << >> = PathIn(objs, call'.here)
    BY <2>4, DirsFacts, ConcatEmptySeq DEF CalmStep
  <2> QED BY <1>3, <1>8, <1>9, <2>1, <2>3, <2>4, <2>5
<1>10. CASE Ascends
  <2> DEFINE h == call.here
             p == objs[h].parent
             x == objs[h].name
             t == call.target
  <2>1. /\ call'.at = "climb" /\ call'.target = t /\ call'.here = cache[h].parent
        /\ call'.rest = <<x>> \o call.rest /\ call.rest \in Seq(Name)
        /\ h \in live /\ t \in live /\ h # Root /\ h \in 1 .. Len(objs)
        /\ Has(h, {"info"})
        /\ PathIn(objs, h) \o call.rest = PathIn(objs, objs[t].parent)
    BY <1>1, <1>8, <1>10, Moved, BaseFacts DEF Ascends, Dirs, CallState, CalmStep
  <2>2. call'.here = p /\ p \in Dirs
    BY <1>8, <1>10, <2>1, LoadedParent, SameFacts DEF CalmStep
  <2>3. PathIn(objs, h) = Append(PathIn(objs, p), x) /\ x \in Name
    BY <2>1, BaseFacts, PathStep DEF CalmStep, Fact
  <2>4. PathIn(objs, p) \o (<<x>> \o call.rest) = PathIn(objs, objs[t].parent)
    <3> DEFINE q == PathIn(objs, p)
               r == call.rest
    <3>1. q \in Seq(Name) /\ x \in Name /\ r \in Seq(Name)
      BY <2>1, <2>2, <2>3, DirsFacts DEF CalmStep
    <3>2. Append(q, x) \o r = PathIn(objs, objs[t].parent)
      BY <2>1, <2>3
    <3> HIDE DEF q, r, x
    <3>3. Append(q, x) = q \o <<x>> /\ <<x>> \in Seq(Name)
      BY <3>1, AppendIsConcat
    <3>4. (q \o <<x>>) \o r = q \o (<<x>> \o r)
      BY <3>1, <3>3, ConcatAssociative
    <3> QED BY <3>2, <3>3, <3>4 DEF q, r
  <2>5. /\ call'.target \in live /\ objs[call'.target].name = OwnName
        /\ call'.here \in Dirs
        /\ PathIn(objs, call'.here) \o call'.rest = PathIn(objs, objs[call'.target].parent)
    <3>1. objs[t].name = OwnName
      BY <1>8, <1>10
    <3> HIDE DEF x, p, t, h
    <3> QED BY <2>1, <2>2, <2>4, <3>1
  <2>6. Climbing(call', objs', live', Dirs')
    BY <1>8, <1>10, <2>1, <2>5
  <2> QED BY <1>3, <1>8, <1>10, <2>6
<1> QED BY <1>2, <1>4, <1>5, <1>6, <1>7, <1>9, <1>10, CalmMoves, FolderMoves

LEMMA WalkPlace ==
  ASSUME NEW c \in CallState, c.op \in FolderOp, c.here # Special
  PROVE  /\ Walk(c).here = Special => /\ c.op \in {"put", "mkdir"} /\ c.here = Root
                                      /\ c.rest = << >> /\ Walk(c).goal # "walk"
         /\ Walk(c).here # Special => Walk(c).here = c.here
         /\ c.op \in {"put", "mkdir"} /\ Walk(c).goal # "walk" => Walk(c).here # Root
         /\ Walk(c).goal = "gather" <=> c.op \in {"files", "folders"} /\ Walk(c).goal # "walk"
<1>1. CASE c.rest = << >>
  <2> DEFINE h == IF c.op \in {"put", "mkdir"} /\ c.here = Root THEN Special ELSE c.here
             g == IF c.op \in {"files", "folders"} THEN "gather" ELSE "seek"
  <2>1. Walk(c).here = h /\ Walk(c).goal = g
    BY <1>1 DEF Walk, Arrive, CallState
  <2> QED BY <1>1, <2>1 DEF Root, Special
<1>2. CASE c.rest # << >>
  BY <1>2 DEF Walk, CallState
<1> QED BY <1>1, <1>2

\* A call where it was.
LEMMA PlaceFrom ==
  ASSUME CalmStep, call.op \in FolderOp, call'.op = call.op, call'.here = call.here,
         call'.goal = call.goal, call'.name = call.name, call'.folder = call.folder
  PROVE  Place'
<1>1. call' # NoCall
  BY DEF NoCall, FolderOp
<1>2. Place
  BY DEF CalmStep, Calm
<1>3. call.op = "delete" =>
        \E k \in live' : objs'[k].name = call.name
                         /\ PathIn(objs', objs'[k].parent) = call.folder
  BY <1>1, <1>2, SameFacts DEF Place
<1>4. \E f \in Dirs' : PathIn(objs', f) = call.folder
  BY <1>1, <1>2, SameFacts DEF Place
<1>5. call.here # Special => call.here \in Dirs'
  BY <1>1, <1>2, SameFacts DEF Place
<1> QED BY <1>2, <1>3, <1>4, <1>5 DEF Place

LEMMA RestOfWalk ==
  ASSUME CalmStep, call.at = "scan", call.goal = "walk"
  PROVE  call.rest # << >> /\ call.rest \in Seq(Name)
<1>1. CallInv(call, objs)
  BY DEF CalmStep, Base, Inv
<1> QED BY <1>1 DEF CallInv, Looks, CallState

LEMMA NextOfPath ==
  ASSUME CalmStep
  PROVE  \A f \in Dirs : \A a \in Dirs, b \in Seq(Name) :
           b # << >> /\ PathIn(objs, a) \o b = PathIn(objs, f) =>
             \E c \in live : objs[c].dir /\ objs[c].parent = a /\ objs[c].name = Head(b)
<1>1. Base /\ Alive /\ Unique
  BY DEF CalmStep, Calm
<1>2. SUFFICES ASSUME NEW f \in Dirs, NEW a \in Dirs, NEW b \in Seq(Name), b # << >>,
                      PathIn(objs, a) \o b = PathIn(objs, f)
               PROVE  \E c \in live : objs[c].dir /\ objs[c].parent = a /\ objs[c].name = Head(b)
  OBVIOUS
<1> QED BY <1>1, <1>2, NextFolder, ZenonT(60)

LEMMA NextOnWay ==
  ASSUME CalmStep, call.at = "scan", call.goal = "walk", call.op \in FolderOp
  PROVE  /\ call.here \in Dirs /\ call.here # Special
         /\ \E c \in live : /\ objs[c].dir /\ objs[c].parent = call.here
                            /\ objs[c].name = Head(call.rest)
<1>1. WayOf(call, objs) /\ Place
  BY BaseFacts DEF CalmStep, Calm
<1>2. call.rest \in Seq(Name) /\ call.rest # << >>
  BY RestOfWalk
<1>3. call.here \in Dirs /\ call.here # Special
  BY <1>1, DirsFacts DEF Place, CalmStep
<1>4. PathIn(objs, call.here) \o call.rest = call.folder
  BY <1>1, <1>3 DEF WayOf, IsThere
<1>5. \E f \in Dirs : PathIn(objs, f) = call.folder
  BY <1>1 DEF Place
<1>6. \E c \in live : /\ objs[c].dir /\ objs[c].parent = call.here
                      /\ objs[c].name = Head(call.rest)
  <2>1. PICK f \in Dirs : PathIn(objs, f) = call.folder
    BY <1>5
  <2> DEFINE Leads(a, b) == PathIn(objs, a) \o b = PathIn(objs, f)
             Has1(a, b) == \E c \in live : /\ objs[c].dir /\ objs[c].parent = a
                                           /\ objs[c].name = Head(b)
  <2>2. Leads(call.here, call.rest)
    BY <1>4, <2>1
  <2>3. \A a \in Dirs, b \in Seq(Name) : b # << >> /\ Leads(a, b) => Has1(a, b)
    BY NextOfPath
  <2>4. ASSUME NEW a, NEW b, a \in Dirs, b \in Seq(Name), b # << >>, Leads(a, b)
        PROVE  Has1(a, b)
    <3> HIDE DEF Leads, Has1
    <3> QED BY <2>3, <2>4
  <2> HIDE DEF Leads
  <2> QED BY <1>2, <1>3, <2>2, <2>4
<1> QED BY <1>3, <1>6

\* The walk goes from folder to folder.
LEMMA FoundFolder ==
  ASSUME CalmStep, NEW h, Finds(h), call.goal = "walk"
  PROVE  h \in Dirs /\ h # Root /\ h # Special
<1>1. /\ call.here \in Dirs
      /\ \E c \in live : /\ objs[c].dir /\ objs[c].parent = call.here
                         /\ objs[c].name = Head(call.rest)
  BY NextOnWay, FolderMoves DEF Finds
<1>3. h \in live /\ objs[h].parent = call.here /\ objs[h].name = Head(call.rest)
      /\ h \in 1 .. Len(objs)
  <2>1. h \in DOMAIN cache /\ Has(h, X) /\ cache[h].parent = call.here
    BY DEF Finds, Nearest, Ahead
  <2>2. h \in live /\ h \in 1 .. Len(objs)
    BY <2>1, StepFacts
  <2>3. objs[h].parent = call.here
    BY <2>1, LoadedParent DEF CalmStep, Has, X
  <2>4. objs[h].name = Head(call.rest)
    BY DEF Finds, IsIt, Sought
  <2> QED BY <2>2, <2>3, <2>4
<1>7. objs[h].dir
  <2>1. \A k \in live : objs[k].dir <=> objs[k].name \in DirName
    BY StepFacts DEF CalmStep, Base, NamesInv
  <2> QED BY <1>1, <1>3, <2>1
<1>8. h # Root /\ h # Special
  BY <1>3, BaseFacts DEF CalmStep
<1> QED BY <1>3, <1>7, <1>8 DEF Dirs

LEMMA WalksOn ==
  ASSUME TidyNames, CalmStep, Misses
  PROVE  call.goal # "walk"
<1> SUFFICES ASSUME call.goal = "walk" PROVE FALSE
  OBVIOUS
<1>1. call.op \in FolderOp /\ call.at = "scan" /\ Ahead = {} /\ Progress
  BY FolderMoves DEF CalmStep, Calm, Misses
<1>2. call.here # Special
  BY <1>1, NextOnWay
<1>5. PICK c \in live : /\ objs[c].dir /\ objs[c].parent = call.here
                        /\ objs[c].name = Head(call.rest)
  BY <1>1, NextOnWay
<1>6. c \in Children(call.here)
  BY <1>5 DEF Children
<1>7. objs[c].name # OwnName
  <2>1. objs[c].name \in DirName
    BY <1>5, StepFacts DEF CalmStep, Base, NamesInv
  <2> QED BY <2>1 DEF TidyNames
<1>8. c \in Seen
  BY <1>1, <1>2, <1>6, <1>7, ScanMeetsAll DEF CalmStep
<1> QED BY <1>1, <1>5, <1>8 DEF Progress, Sought

LEMMA PlaceStays ==
  ASSUME TidyNames, CalmStep
  PROVE  Place'
<1>1. Place /\ WayOf(call, objs) /\ call \in CallState /\ objs \in Seq(Fact)
  BY BaseFacts DEF CalmStep, Calm
<1>2. ASSUME call'.op \notin FolderOp
      PROVE  Place'
  BY <1>2 DEF Place
<1>3. CASE call' = NoCall
  BY <1>2, <1>3 DEF NoCall, FolderOp
<1>4. CASE Rests
  BY <1>2, <1>4, PlaceFrom DEF Rests
<1>5. CASE Event \/ EventWants \/ Ascends \/ Roots
  <2>1. call'.op \in {"event", "init"}
    BY <1>5, FolderMoves, BegunAt, Moved
  <2> QED BY <1>2, <2>1 DEF FolderOp
<1>6. CASE ListKnown \/ Asks \/ Answered \/ ScanPasses \/ (\E h : Meets(h)) \/ Sent
  BY <1>6, FolderMoves, Moved, PlaceFrom
<1>7. ASSUME NEW h, Found(h), call.goal # "walk", call.op \in FolderOp
      PROVE  Place'
  <2>1. call' = [call EXCEPT !.at = "act", !.target = h]
    BY <1>7 DEF Found, Goes
  <2>2. /\ call'.op = call.op /\ call'.here = call.here /\ call'.goal = call.goal
        /\ call'.name = call.name /\ call'.folder = call.folder
    BY <1>1, <2>1 DEF CallState
  <2> QED BY <1>7, <2>2, PlaceFrom
<1>8. CASE Misses
  BY <1>7, <1>8, WalksOn, FolderMoves DEF Misses
<1>9. ASSUME NEW h, Finds(h)
      PROVE  Place'
  <2>1. CASE call.goal # "walk"
    <3>1. Found(h) /\ call.op \in FolderOp
      BY <1>9, FolderMoves DEF Finds
    <3> QED BY <1>7, <2>1, <3>1
  <2>2. CASE call.goal = "walk"
    <3> DEFINE c == [call EXCEPT !.here = h, !.rest = Tail(@)]
    <3>1. h \in Dirs /\ h # Root /\ h # Special /\ call.op \in FolderOp
      BY <1>9, <2>2, FoundFolder, FolderMoves
    <3>2. call.rest # << >> /\ call.rest \in Seq(Name)
      BY <1>9, <2>2, RestOfWalk DEF Finds
    <3>3. c \in CallState /\ c.op = call.op /\ c.here = h /\ c.name = call.name
          /\ c.folder = call.folder
      <4>1. Tail(call.rest) \in Seq(Name)
        BY <3>2, HeadTailProperties
      <4>2. h \in Special .. MaxObjects
        BY <1>9, NearestIsCached DEF Finds, CalmStep, Base
      <4> QED BY <1>1, <4>1, <4>2 DEF CallState
    <3>4. call' = Walk(c)
      BY <1>9, <2>2 DEF Finds, Found, Goes
    <3>5. call'.op = call.op /\ call'.name = call.name /\ call'.folder = call.folder
      BY <1>1, <1>9, FoundCalled DEF Finds
    <3> HIDE DEF c
    <3>6. /\ call'.here = h
          /\ call'.goal = "gather" <=> call.op \in {"files", "folders"} /\ call'.goal # "walk"
      BY <3>1, <3>3, <3>4, WalkPlace
    <3>7. call' # NoCall
      BY <3>1, <3>5 DEF NoCall, FolderOp
    <3>8. \E f \in Dirs' : PathIn(objs', f) = call'.folder
      BY <1>1, <3>1, <3>5, <3>7, SameFacts DEF Place
    <3>9. call'.op = "delete" =>
            \E k \in live' : objs'[k].name = call'.name
                             /\ PathIn(objs', objs'[k].parent) = call'.folder
      BY <1>1, <3>1, <3>5, <3>7, SameFacts DEF Place
    <3>10. h \in Dirs'
      BY <3>1, <3>7, SameFacts
    <3> QED BY <3>1, <3>5, <3>6, <3>8, <3>9, <3>10 DEF Place
  <2> QED BY <2>1, <2>2
<1>10. CASE Calls
  <2>1. PICK op, folder, name :
           /\ op \in FolderOp /\ folder \in Folders /\ name \in Name /\ Call(op, folder, name)
           /\ IsFolder(folder) /\ (op = "delete" => Exists(folder, name))
    <3>1. PICK folder \in Folders :
            /\ IsFolder(folder)
            /\ \/ \E op \in {"files", "folders"} : Call(op, folder, OwnName)
               \/ \E f \in FileName : Call("info", folder, f) \/ Call("put", folder, f)
               \/ \E f \in FileName : Exists(folder, f) /\ Call("delete", folder, f)
               \/ \E d \in DirName : Call("mkdir", folder, d)
               \/ \E d \in DirName : Exists(folder, d) /\ Call("rmdir", folder, d)
      BY <1>10 DEF Calls
    <3>2. OwnName \in Name /\ FileName \subseteq Name /\ DirName \subseteq Name
      BY DEF Name
    <3>3. \E op, name : /\ op \in FolderOp /\ name \in Name /\ Call(op, folder, name)
                        /\ (op = "delete" => Exists(folder, name))
      BY <3>1, <3>2 DEF FolderOp
    <3> QED BY <3>1, <3>3
  <2> DEFINE c == [NoCall EXCEPT !.op = op, !.folder = folder, !.name = name, !.rest = folder]
  <2>2. folder \in Seq(Name)
    BY <2>1, PtpAssumption, ElementOfSeq DEF Name
  <2>3. c \in CallState
    BY <2>1, <2>2, EmptyRecords DEF CallInv, CallState, FolderOp, Op
  <2>4. c.op = op /\ c.folder = folder /\ c.rest = folder /\ c.here = Root /\ c.name = name
    BY DEF NoCall
  <2>5. call' = Walk(c) /\ UNCHANGED <<objs, live>>
    BY <2>1 DEF Call, Camera
  <2>6. call'.op = op /\ call'.folder = folder /\ call'.name = name
    BY <2>1 DEF Call, NoCall, Walk, Arrive
  <2> HIDE DEF c
  <2>7. /\ call'.here = Special => /\ op \in {"put", "mkdir"} /\ folder = << >>
                                   /\ call'.goal # "walk"
        /\ call'.here # Special => call'.here = Root
        /\ op \in {"put", "mkdir"} /\ call'.goal # "walk" => call'.here # Root
        /\ call'.goal = "gather" <=> op \in {"files", "folders"} /\ call'.goal # "walk"
    BY <2>1, <2>3, <2>4, <2>5, WalkPlace DEF Root, Special
  <2>8. \E f \in Dirs : PathIn(objs, f) = folder
    <3>1. CASE folder = << >>
      BY <3>1, <1>1, BaseFacts, PathStep DEF Dirs, CalmStep
    <3>2. CASE folder # << >>
      BY <2>1, <3>2, PathsAreIn DEF IsFolder, Dirs
    <3> QED BY <3>1, <3>2
  <2>9. op = "delete" =>
          \E k \in live : objs[k].name = name /\ PathIn(objs, objs[k].parent) = folder
    BY <2>1, PathsAreIn DEF Exists, Inside
  <2>10. Dirs' = Dirs /\ Root \in Dirs
    BY <2>5 DEF Dirs
  <2> QED BY <2>5, <2>6, <2>7, <2>8, <2>9, <2>10 DEF Place
<1> QED BY <1>3, <1>4, <1>5, <1>6, <1>8, <1>9, <1>10, CalmMoves

LEMMA SeenGrows ==
  ASSUME CalmStep, NEW h \in Nearest, call'.cursor = h, call'.here = call.here,
         UNCHANGED <<objs, cache>>
  PROVE  /\ objs[h].parent = call.here => Seen' = Seen \union {h}
         /\ objs[h].parent # call.here => Seen' = Seen
<1>1. /\ h \in DOMAIN cache /\ h > call.cursor /\ \A k \in DOMAIN cache : k > call.cursor => h <= k
      /\ \A k \in DOMAIN cache : k \in Nat
      /\ call.cursor \in Nat
  BY BaseFacts, PtpAssumption DEF Nearest, Ahead, CalmStep, CallState
<1>2. \A k \in DOMAIN cache : k <= h <=> k <= call.cursor \/ k = h
  BY <1>1
<1> QED BY <1>1, <1>2 DEF Seen

LEMMA FoundProgress ==
  ASSUME CalmStep, NEW h, Found(h), call.goal # "gather", call.at = "scan", call.op \in FolderOp
  PROVE  Progress'
<1>1. call \in CallState /\ call.names = {}
  BY StepFacts DEF CalmStep, Calm, Progress
<1>2. call'.at \in {"list", "act"} /\ (call'.at = "act" <=> call.goal # "walk")
  BY <1>1, FoundAt
<1>3. CASE call.goal = "walk"
  <2> DEFINE c == [call EXCEPT !.here = h, !.rest = Tail(@)]
  <2>1. call' = Walk(c)
    BY <1>3 DEF Found, Goes
  <2>2. Walk(c) = Arrive(c) \/ Walk(c) = [c EXCEPT !.at = "list", !.goal = "walk", !.cursor = 0]
    BY DEF Walk
  <2>3. call'.cursor = 0 /\ call'.names = {}
    BY <1>1, <2>1, <2>2 DEF Arrive, CallState
  <2> QED BY <1>2, <2>3 DEF Progress
<1>4. CASE call.goal # "walk"
  BY <1>2, <1>4 DEF Progress
<1> QED BY <1>3, <1>4

LEMMA ProgressStays ==
  ASSUME TidyNames, CalmStep
  PROVE  Progress'
<1>1. /\ Progress /\ call \in CallState
      /\ DOMAIN cache \subseteq live /\ \A h \in live : objs'[h] = objs[h]
      /\ \A h \in DOMAIN cache' : h \in Nat /\ h # 0
  BY StepFacts, BaseFacts DEF CalmStep, Calm, Base, Inv, CacheInv
<1>2. ASSUME call'.op \notin FolderOp
      PROVE  Progress'
  BY <1>2 DEF Progress
<1>3. CASE call' = NoCall
  BY <1>2, <1>3 DEF NoCall, FolderOp
<1>4. CASE Event \/ EventWants \/ Ascends \/ Roots
  <2>1. call'.op \in {"event", "init"}
    BY <1>4, FolderMoves, BegunAt, Moved
  <2> QED BY <1>2, <2>1 DEF FolderOp
<1>5. CASE Rests /\ call.op \in FolderOp
  <2>1. call' = call /\ DOMAIN cache' = DOMAIN cache
    BY <1>5 DEF Rests
  <2>2. Seen' = Seen /\ \A h \in Seen : objs'[h] = objs[h]
    BY <1>1, <2>1 DEF Seen
  <2>3. Kept' = Kept /\ \A h \in Kept : objs'[h] = objs[h]
    BY <2>1, <2>2 DEF Kept
  <2>4. {objs'[h].name : h \in Kept} = {objs[h].name : h \in Kept}
    BY <2>3
  <2>5. Sought' = Sought
    BY <2>1 DEF Sought
  <2> QED BY <1>1, <2>1, <2>2, <2>3, <2>4, <2>5 DEF Progress
<1>6. CASE Rests /\ call.op \notin FolderOp
  BY <1>2, <1>6 DEF Rests
<1>7. CASE Calls
  <2>1. call'.at = "list"
    BY <1>7, BegunAt
  <2>2. ASSUME NEW op, NEW folder, NEW name, Call(op, folder, name)
        PROVE  call'.cursor = 0 /\ call'.names = {}
    BY <2>2 DEF Call, Walk, Arrive, NoCall
  <2>3. call'.cursor = 0 /\ call'.names = {}
    BY <1>7, <2>2 DEF Calls
  <2> QED BY <2>1, <2>3 DEF Progress
<1>8. ASSUME NEW h, Finds(h)
      PROVE  Progress'
  <2>1. Found(h) /\ call.goal # "gather" /\ call.at = "scan" /\ call.op \in FolderOp
    BY <1>8, FolderMoves DEF Finds, IsIt
  <2> QED BY <2>1, FoundProgress
<1>9. CASE Misses
  <2>1. Found(Special) /\ call.goal # "gather" /\ call.at = "scan" /\ call.op \in FolderOp
    BY <1>9, FolderMoves DEF Misses
  <2> QED BY <2>1, FoundProgress
<1>10. CASE Asks \/ ListKnown \/ Answered
  <2>1. /\ call'.at \in {"handles", "scan"} /\ call.at \in {"list", "handles"}
        /\ call'.cursor = call.cursor /\ call'.names = call.names
        /\ call.op \in FolderOp
    BY <1>10, Moved, FolderMoves DEF Asks, ListAsks
  <2>2. call'.cursor = 0 /\ call'.names = {}
    BY <1>1, <2>1 DEF Progress
  <2>3. Seen' = {}
    BY <1>1, <2>2 DEF Seen
  <2>4. Kept' = {}
    BY <2>3 DEF Kept
  <2>5. call'.names = {objs'[h].name : h \in Kept'}
    BY <2>2, <2>4
  <2> QED BY <2>2, <2>3, <2>5 DEF Progress
<1>11. CASE Sent
  BY <1>11, Moved DEF Progress
<1>12. CASE ScanPasses
  <2>1. PICK h \in Nearest : /\ Has(h, {"parent", "storage"}) /\ cache[h].parent # call.here
                             /\ call' = [call EXCEPT !.cursor = h]
    BY <1>12 DEF ScanPasses, Goes
  <2>2. UNCHANGED <<objs, cache>>
    BY <1>12 DEF ScanPasses, Camera
  <2>3. /\ call'.at = "scan" /\ call.at = "scan" /\ call'.op = call.op /\ call'.here = call.here
        /\ call'.goal = call.goal /\ call'.rest = call.rest /\ call'.name = call.name
        /\ call.op \in FolderOp
    BY <1>12, Moved, FolderMoves
  <2>4. call'.cursor = h /\ call'.names = call.names
    BY <1>1, <2>1 DEF CallState
  <2>5. objs[h].parent # call.here
    BY <2>1 DEF Has, CalmStep, Base, Inv, CacheInv
  <2>6. Seen' = Seen
    BY <2>2, <2>3, <2>4, <2>5, SeenGrows
  <2>7. Kept' = Kept
    BY <2>2, <2>3, <2>6 DEF Kept
  <2>8. Sought' = Sought
    BY <2>3 DEF Sought
  <2>9. {objs'[k].name : k \in Kept'} = {objs[k].name : k \in Kept}
    BY <2>2, <2>7
  <2> QED BY <1>1, <2>2, <2>3, <2>4, <2>6, <2>8, <2>9 DEF Progress
<1>13. ASSUME NEW h, Meets(h)
       PROVE  Progress'
  <2>1. /\ h \in Nearest /\ Has(h, X) /\ cache[h].parent = call.here /\ UNCHANGED cache
        /\ \/ /\ Listable(h)
              /\ call' = [call EXCEPT !.cursor = h, !.names = @ \union {objs[h].name}]
           \/ ~Listable(h) /\ ~IsIt(h) /\ call' = [call EXCEPT !.cursor = h]
    BY <1>13 DEF Meets
  <2>2. /\ call'.at = "scan" /\ call.at = "scan" /\ call'.op = call.op /\ call'.here = call.here
        /\ call'.goal = call.goal /\ call'.rest = call.rest /\ call'.name = call.name
        /\ call.op \in FolderOp
    <3>1. \E k : Meets(k)
      BY <1>13
    <3> QED BY <3>1, Moved, FolderMoves
  <2>3. objs[h].parent = call.here
    BY <2>1, LoadedParent DEF CalmStep, Has, X
  <2>4. /\ call'.cursor = h
        /\ Listable(h) => call'.names = call.names \union {objs[h].name}
        /\ ~Listable(h) => call'.names = call.names
    BY <1>1, <2>1 DEF CallState
  <2>5. UNCHANGED objs
    <3>1. call' # call /\ call' # NoCall
      <4>1. call.cursor # h
        BY <2>1, BaseFacts DEF Nearest, Ahead, CalmStep
      <4> QED BY <2>2, <2>4, <4>1 DEF NoCall
    <3> QED BY <2>2, <3>1, CalmWorld DEF Learns, SendInfo, Sends, Take, ByHand, Event, DeletesOne
  <2>6. Seen' = Seen \union {h}
    BY <2>1, <2>2, <2>3, <2>4, <2>5, SeenGrows
  <2>7. CASE call.goal = "gather" /\ Listable(h)
    <3>1. Kept' = Kept \union {h}
      BY <2>2, <2>5, <2>6, <2>7 DEF Kept, Listable
    <3>2. {objs'[k].name : k \in Kept'} = {objs[k].name : k \in Kept} \union {objs[h].name}
      BY <2>5, <3>1
    <3> QED BY <1>1, <2>2, <2>4, <2>7, <3>2 DEF Progress
  <2>8. CASE call.goal = "gather" /\ ~Listable(h)
    <3>1. Kept' = Kept
      BY <2>2, <2>5, <2>6, <2>8 DEF Kept, Listable
    <3>2. {objs'[k].name : k \in Kept'} = {objs[k].name : k \in Kept}
      BY <2>5, <3>1
    <3> QED BY <1>1, <2>2, <2>4, <2>8, <3>2 DEF Progress
  <2>9. CASE call.goal # "gather"
    <3>1. ~Listable(h) /\ ~IsIt(h)
      BY <2>1, <2>9 DEF Listable
    <3>2. objs[h].name # Sought
      BY <2>9, <3>1 DEF IsIt
    <3>3. Sought' = Sought
      BY <2>2 DEF Sought
    <3> QED BY <1>1, <2>2, <2>4, <2>5, <2>6, <2>9, <3>1, <3>2, <3>3 DEF Progress
  <2> QED BY <2>7, <2>8, <2>9
<1> QED BY <1>3, <1>4, <1>5, <1>6, <1>7, <1>8, <1>9, <1>10, <1>11, <1>12, <1>13, CalmMoves

\* A scan that misses an object is right: it is not there.
LEMMA MissesNone ==
  ASSUME TidyNames, CalmStep, Misses, call.here # Special, call.op \in {"delete", "put"},
         NEW k \in live, objs[k].parent = call.here
  PROVE  objs[k].name # call.name
<1>1. /\ call.op \in FolderOp /\ call.at = "scan" /\ Ahead = {} /\ Progress
      /\ call.goal \notin {"walk", "gather"}
  BY FolderMoves, WalksOn DEF CalmStep, Calm, Misses
<1>2. SUFFICES ASSUME objs[k].name = call.name PROVE FALSE
  OBVIOUS
<1>3. call.name \in FileName /\ call.name # OwnName
  BY DEF CalmStep, Base, NamesInv, TidyNames
<1>4. k \in Children(call.here)
  BY DEF Children
<1>5. k \in Seen
  BY <1>1, <1>2, <1>3, <1>4, ScanMeetsAll DEF CalmStep
<1> QED BY <1>1, <1>2, <1>5 DEF Progress, Sought

LEMMA ActingStays ==
  ASSUME TidyNames, CalmStep
  PROVE  Acting'
<1>1. Acting /\ Place /\ WayOf(call, objs) /\ call \in CallState
  BY BaseFacts DEF CalmStep, Calm
<1>2. ASSUME call'.at \notin {"act", "data"}
      PROVE  Acting'
  BY <1>2 DEF Acting
<1>3. CASE call' = NoCall
  BY <1>2, <1>3 DEF NoCall
<1>4. CASE Calls \/ Event \/ EventWants \/ Ascends \/ Roots
           \/ ListKnown \/ Asks \/ Answered \/ ScanPasses \/ (\E h : Meets(h))
  BY <1>2, <1>4, BegunAt, Moved
<1>5. CASE Rests /\ call' # NoCall /\ call.at \in {"act", "data"}
  <2>1. call' = call
    BY <1>5 DEF Rests
  <2>2. Learns \/ Take
    <3>1. ~Event /\ ~(\E h : DeletesOne(h))
      BY <1>5 DEF Event, DeletesOne
    <3>2. ~SendInfo
      <4>1. SendInfo => call'.at = "data" \/ call' = NoCall
        BY <1>1 DEF SendInfo, Done, Return, Goes, CallState
      <4> QED BY <1>5, <2>1, <4>1 DEF SendInfo, Sends
    <3> QED BY <3>1, <3>2, CalmWorld
  <2>3. live \subseteq live' /\ \A h \in live : objs'[h] = objs[h]
    BY <1>5, SameFacts
  <2>4. call.at = "data" => /\ call.target \in live' /\ objs'[call.target].name = call.name
                            /\ objs'[call.target].parent = Parent
    BY <1>1, <2>3 DEF Acting
  <2>5. Parent' = Parent
    BY <2>1 DEF Parent
  <2>6. ASSUME call.op = "put", NEW f,
               \A h \in live : objs[h].parent = f => objs[h].name # call.name
        PROVE  \A h \in live' : objs'[h].parent = f => objs'[h].name # call.name
    <3>1. CASE Learns
      BY <2>6, <3>1 DEF Learns
    <3>2. CASE Take
      <4>1. PICK p : Makes(Len(objs) + 1, p) /\ objs'[Len(objs) + 1].name = OwnName
        BY <3>2, TakeMakes
      <4>2. call.name # OwnName
        BY <2>6 DEF CalmStep, Base, NamesInv, TidyNames
      <4>3. live' = live \union {Len(objs) + 1}
        BY <4>1 DEF Makes
      <4> QED BY <2>3, <2>6, <4>1, <4>2, <4>3
    <3> QED BY <2>2, <3>1, <3>2
  <2>7. call.at = "act" /\ call.op = "put" /\ call.target = Special /\ call.here # Special
          => \A h \in live' : objs'[h].parent = call.here => objs'[h].name # call.name
    <3>1. call.at = "act" /\ call.op = "put" /\ call.target = Special /\ call.here # Special
            => \A h \in live : objs[h].parent = call.here => objs[h].name # call.name
      BY <1>1 DEF Acting, FolderOp, Children
    <3> QED BY <2>6, <3>1
  <2> QED BY <1>1, <1>5, <2>1, <2>3, <2>4, <2>5, <2>7 DEF Acting, Children
<1>6. CASE Sent
  <2> DEFINE n == Len(objs) + 1
  <2>1. /\ call'.op = "put" /\ call'.at = "data" /\ call'.target = n
        /\ call'.name = call.name /\ call'.here = call.here
    BY <1>6, Moved DEF Sent
  <2>2. n \in live' /\ objs'[n].name = call.name /\ objs'[n].parent = Parent
    BY <1>6, SendInfoMakes DEF Sent, Makes
  <2>3. Parent' = Parent
    BY <2>1 DEF Parent
  <2> QED BY <2>1, <2>2, <2>3 DEF Acting
<1>7. ASSUME NEW h, Found(h), call.goal # "walk"
      PROVE  /\ call'.op = call.op /\ call'.at = "act" /\ call'.target = h
             /\ call'.here = call.here /\ call'.name = call.name
  <2>1. call' = [call EXCEPT !.at = "act", !.target = h]
    BY <1>7 DEF Found, Goes
  <2> QED BY <1>1, <2>1 DEF CallState
<1>8. ASSUME NEW h, Finds(h)
      PROVE  Acting'
  <2>1. Found(h) /\ h \in DOMAIN cache /\ live' = live
    BY <1>8 DEF Finds, Nearest, Ahead, Camera
  <2>2. h \in live /\ h # Special
    BY <2>1, StepFacts, BaseFacts DEF CalmStep
  <2>3. CASE call.goal = "walk"
    BY <1>1, <1>2, <2>1, <2>3, FoundAt
  <2>4. CASE call.goal # "walk"
    BY <1>7, <2>1, <2>2, <2>4 DEF Acting
  <2> QED BY <2>3, <2>4
<1>9. CASE Misses
  <2>1. /\ call.op \in FolderOp /\ call.goal # "walk" /\ call.at = "scan"
        /\ UNCHANGED <<objs, live>>
    BY <1>9, FolderMoves, WalksOn DEF Misses, Camera
  <2>2. /\ call'.op = call.op /\ call'.at = "act" /\ call'.target = Special
        /\ call'.here = call.here /\ call'.name = call.name
    BY <1>7, <1>9, <2>1 DEF Misses
  <2>3. call.op # "delete"
    <3> SUFFICES ASSUME call.op = "delete" PROVE FALSE
      OBVIOUS
    <3>1. PICK k \in live : objs[k].name = call.name
                            /\ PathIn(objs, objs[k].parent) = call.folder
      BY <1>1, <2>1 DEF Place
    <3>2. call.here \in Dirs /\ call.here # Special /\ call.rest = << >>
      BY <1>1, <2>1, DirsFacts DEF Place, WayOf, CalmStep
    <3>3. PathIn(objs, call.here) \o << >> = call.folder /\ PathIn(objs, call.here) \in Seq(Name)
      BY <1>1, <2>1, <3>2, DirsFacts DEF WayOf, IsThere, CalmStep
    <3>4. PathIn(objs, call.here) = PathIn(objs, objs[k].parent)
      BY <3>1, <3>3, ConcatEmptySeq
    <3>5. objs[k].parent \in Dirs
      BY DEF CalmStep, Calm, Alive
    <3>6. objs[k].parent = call.here
      BY <3>2, <3>4, <3>5, OneFolder DEF CalmStep, Calm
    <3> QED BY <1>9, <3>1, <3>2, <3>6, MissesNone
  <2>4. call.op = "put" /\ call.here # Special =>
          \A h \in live : objs[h].parent = call.here => objs[h].name # call.name
    BY <1>9, MissesNone
  <2> QED BY <2>1, <2>2, <2>3, <2>4 DEF Acting, Children
<1>10. Rests /\ call.at \notin {"act", "data"} => Acting'
  BY <1>2 DEF Rests
<1> QED BY <1>3, <1>4, <1>5, <1>6, <1>8, <1>9, <1>10, CalmMoves

-----------------------------------------------------------------------------
(***************************************************************************)
(* What calls return.                                                      *)
(***************************************************************************)

LEMMA InsideIn ==
  /\ \A f : Inside(f) = {h \in live : PathIn(objs, objs[h].parent) = f}
  /\ \A f : Inside(f)' = {h \in live' : PathIn(objs', objs'[h].parent) = f}
BY PathsAreIn DEF Inside, PathOf, PathIn

\* The folder of a call that has arrived is the one that was asked for.
LEMMA FolderOfCall ==
  ASSUME CalmStep, call.op \in FolderOp, call.goal # "walk"
  PROVE  Parent \in Dirs /\ PathIn(objs, Parent) = call.folder
<1>1. WayOf(call, objs) /\ Place
  BY BaseFacts DEF CalmStep, Calm
<1>2. CASE call.here = Special
  <2>1. Parent = Root /\ call.folder = << >>
    BY <1>1, <1>2 DEF Parent, Place
  <2>2. PathIn(objs, Root) = << >>
    BY BaseFacts, PathStep DEF CalmStep
  <2> QED BY <2>1, <2>2 DEF Dirs
<1>3. CASE call.here # Special
  <2>1. Parent = call.here /\ call.here \in Dirs /\ call.rest = << >>
    BY <1>1, <1>3 DEF Parent, Place, WayOf
  <2>2. PathIn(objs, call.here) \o << >> = call.folder /\ PathIn(objs, call.here) \in Seq(Name)
    BY <1>1, <1>3, <2>1, DirsFacts DEF WayOf, IsThere, CalmStep
  <2>3. PathIn(objs, call.here) = call.folder
    BY <2>2, ConcatEmptySeq
  <2> QED BY <2>1, <2>3
<1> QED BY <1>2, <1>3

\* An object that is returned.
LEMMA ObjectReturned ==
  ASSUME NEW f, NEW n, NEW o,
         Done([NoResult EXCEPT !.folder = f, !.name = n, !.object = o]),
         call.op \notin {"files", "folders"},
         o \in live', PathIn(objs', objs'[o].parent) = f, objs'[o].name = n
  PROVE  ResultInv'
<1>1. result' = [[NoResult EXCEPT !.folder = f, !.name = n, !.object = o]
                 EXCEPT !.op = call.op, !.ok = TRUE]
  BY DEF Done, Return
<1>2. /\ result'.op = call.op /\ result'.folder = f /\ result'.name = n /\ result'.object = o
  BY <1>1 DEF NoResult
<1> QED BY <1>2, InsideIn DEF ResultInv

\* Nothing is.
LEMMA NothingReturned ==
  ASSUME \/ Return(FALSE, NoResult)
         \/ Return(TRUE, NoResult) /\ call.op \notin {"files", "folders"}
  PROVE  ResultInv'
<1>1. CASE Return(FALSE, NoResult)
  BY <1>1 DEF Return, NoResult, ResultInv
<1>2. CASE Return(TRUE, NoResult) /\ call.op \notin {"files", "folders"}
  <2>1. result'.op = call.op /\ result'.object = Special
    BY <1>2 DEF Return, NoResult
  <2> QED BY <1>2, <2>1 DEF ResultInv
<1> QED BY <1>1, <1>2

\* A listing is complete, if no event waits.
LEMMA ListingIsComplete ==
  ASSUME TidyNames, CalmStep, ScanEnds, call.goal = "gather"
  PROVE  ResultInv'
<1>1. /\ call.at = "scan" /\ Ahead = {} /\ UNCHANGED <<objs, live, events>>
      /\ result' = [[NoResult EXCEPT !.folder = call.folder, !.names = call.names]
                    EXCEPT !.op = call.op, !.ok = TRUE]
  BY DEF ScanEnds, Return, Camera
<1>2. /\ result'.op = call.op /\ result'.folder = call.folder /\ result'.names = call.names
      /\ result'.object = Special
  BY <1>1 DEF NoResult
<1>3. /\ call.op \in FolderOp /\ Place /\ Progress /\ OtherCalls /\ Alive
      /\ DOMAIN cache \subseteq live
  BY <1>1, TargetIsThere, StepFacts DEF CalmStep, Calm, OtherCalls
<1>4. call.op \in {"files", "folders"} /\ call.here # Special
  BY <1>3 DEF Place
<1>5. call.here \in Dirs /\ PathIn(objs, call.here) = call.folder
  BY <1>3, <1>4, FolderOfCall DEF Parent
<1>6. Inside(call.folder) = {h \in live : objs[h].parent = call.here}
  <2>1. \A h \in live : PathIn(objs, objs[h].parent) = call.folder => objs[h].parent = call.here
    BY <1>3, <1>5, OneFolder DEF CalmStep, Calm, Alive
  <2> QED BY <1>5, <2>1, InsideIn
<1>7. events = << >> => Seen = {h \in live : objs[h].parent = call.here}
  <2>1. events = << >> => \A h \in Children(call.here) : h \in Seen
    BY <1>1, <1>4, ScanMeetsAll DEF CalmStep
  <2> QED BY <1>3, <2>1 DEF Seen, Children
<1>8. events = << >> => call.names = Listing(call.folder, call.op)
  <2>1. events = << >> => Kept = {k \in Inside(call.folder) : objs[k].dir = (call.op = "folders")}
    BY <1>6, <1>7 DEF Kept
  <2>2. call.names = {objs[h].name : h \in Kept}
    BY <1>1, <1>3 DEF Progress
  <2> QED BY <2>1, <2>2 DEF Listing
<1>9. \A f, op : f = call.folder /\ op = call.op => Listing(f, op)' = Listing(f, op)
  BY <1>1, InsideIn DEF Listing
<1> QED BY <1>1, <1>2, <1>4, <1>8, <1>9 DEF ResultInv, Listing

LEMMA ResultStays ==
  ASSUME TidyNames, CalmStep
  PROVE  ResultInv'
<1>1. /\ ResultInv /\ Acting /\ Place /\ OtherCalls /\ WayOf(call, objs) /\ call \in CallState
      /\ Alive /\ \A h \in live : objs'[h] = objs[h]
  BY BaseFacts, StepFacts DEF CalmStep, Calm
<1>2. ASSUME call'.at # "idle"
      PROVE  ResultInv'
  BY <1>2 DEF ResultInv
<1>3. CASE Rests /\ call.at = "idle"
  <2>1. call' = call /\ result' = result
    BY <1>3 DEF Rests
  <2>2. ~Event /\ ~SendInfo /\ ~(\E h : DeletesOne(h))
    BY <1>3, <2>1, BegunAt DEF SendInfo, Sends, DeletesOne
  <2>3. CASE Learns
    <3>1. UNCHANGED <<objs, live, events>>
      BY <2>3 DEF Learns
    <3>2. \A f, op : Inside(f)' = Inside(f) /\ Listing(f, op)' = Listing(f, op)
      BY <3>1, InsideIn DEF Listing
    <3> QED BY <1>1, <1>3, <2>1, <3>1, <3>2 DEF ResultInv, Listing
  <2>4. CASE Take
    <3>1. PICK p : Makes(Len(objs) + 1, p) /\ events' = Append(events, Len(objs) + 1)
      BY <2>4, TakeMakes
    <3>2. events' # << >>
      <4>1. events \in Seq(Nat) /\ Len(objs) + 1 \in Nat
        BY BaseFacts, ElementOfSeq, SeqDef DEF CalmStep
      <4> QED BY <3>1, <4>1, AppendProperties
    <3>3. \A f : Inside(f) \subseteq Inside(f)'
      <4>1. live \subseteq live'
        BY <3>1 DEF Makes
      <4>2. \A h \in live : PathIn(objs', objs'[h].parent) = PathIn(objs, objs[h].parent)
        BY <1>1, DirsFacts, StepFacts DEF Alive, CalmStep
      <4> QED BY <4>1, <4>2, InsideIn
    <3>4. \A h, f : h \in Inside(f) => h \in live
      BY InsideIn
    <3> QED BY <1>1, <1>3, <2>1, <3>2, <3>3, <3>4 DEF ResultInv
  <2> QED BY <2>2, <2>3, <2>4, CalmWorld
<1>4. CASE call' = call /\ call.at # "idle"
  BY <1>2, <1>4
<1>5. CASE GetHandles
  <2>1. CASE Return(TRUE, NoResult) /\ call.goal = "root"
    <3>1. call.op = "init"
      BY <1>1, <1>5, <2>1, TargetIsThere DEF GetHandles, WayOf
    <3> QED BY <2>1, <3>1, NothingReturned
  <2>2. CASE Answered \/ Roots
    BY <1>2, <2>2, Moved
  <2> QED BY <1>5, <2>1, <2>2 DEF GetHandles, Listed, Answered, Roots, Goes
<1>6. CASE ScanEnds
  <2>1. CASE call.goal = "gather"
    BY <1>6, <2>1, ListingIsComplete
  <2>2. CASE call.goal # "gather"
    BY <1>1, <1>2, <1>6, <2>2, FoundAt DEF ScanEnds
  <2> QED BY <2>1, <2>2
<1>7. CASE ScanMeets
  <2>1. (\E h : Finds(h)) \/ (\E h : Meets(h))
    BY <1>7 DEF ScanMeets, Finds, Meets, Goes
  <2>2. CASE \E h : Finds(h)
    BY <1>1, <1>2, <2>2, FoundAt DEF Finds
  <2>3. CASE \E h : Meets(h)
    BY <1>2, <2>3, Moved
  <2> QED BY <2>1, <2>2, <2>3
<1>8. CASE ListKnown \/ ListAsks \/ ScanPasses \/ EventWants
  <2>1. ListAsks => Asks
    BY DEF ListAsks, Asks, Goes
  <2> QED BY <1>2, <1>8, <2>1, Moved
<1>9. CASE ScanWants
  <2>1. call' = call /\ call.at # "idle"
    BY <1>9, NothingFails DEF ScanWants, Goes
  <2> QED BY <1>4, <2>1
<1>10. CASE Climbs
  <2>1. CASE call' = call
    BY <1>4, <1>10, <2>1 DEF Climbs
  <2>2. CASE Ascends
    BY <1>2, <2>2, Moved
  <2> QED BY <1>10, <2>1, <2>2, NothingFails DEF Climbs, Ascends, Goes
<1>11. CASE GetInfo
  <2>1. CASE call.target = Special
    BY <1>11, <2>1, NothingReturned DEF GetInfo
  <2>2. CASE call.target # Special
    <3>1. /\ call.op = "info" /\ call.op \in FolderOp /\ call.at = "act"
          /\ UNCHANGED <<objs, live>>
          /\ Done([NoResult EXCEPT !.folder = call.folder, !.name = call.name,
                                   !.object = call.target])
      BY <1>11, <2>2 DEF GetInfo, FolderOp, Camera
    <3>2. /\ call.target \in live /\ objs[call.target].parent = call.here
          /\ objs[call.target].name = call.name /\ call.here # Special /\ call.goal # "walk"
      BY <1>1, <2>2, <3>1 DEF Acting, WayOf, Looks
    <3>3. PathIn(objs, call.here) = call.folder
      BY <3>1, <3>2, FolderOfCall DEF Parent
    <3> DEFINE t == call.target
               f == call.folder
               n == call.name
    <3>4. t \in live' /\ PathIn(objs', objs'[t].parent) = f /\ objs'[t].name = n
      BY <3>1, <3>2, <3>3
    <3>5. Done([NoResult EXCEPT !.folder = f, !.name = n, !.object = t])
      BY <3>1
    <3>6. call.op \notin {"files", "folders"}
      BY <3>1
    <3> HIDE DEF t, f, n
    <3> QED BY <3>4, <3>5, <3>6, ObjectReturned
  <2> QED BY <2>1, <2>2
<1>12. CASE NotFound \/ AlreadyThere \/ SendInfoFails \/ CheckFails
  BY <1>12, NothingReturned DEF NotFound, AlreadyThere, SendInfoFails, CheckFails
<1>13. CASE Deletes
  <2>1. call.op \notin {"files", "folders"}
    BY <1>13 DEF Deletes
  <2> QED BY <1>13, <2>1, NothingFails, NothingReturned DEF Done
<1>14. CASE SendInfo
  <2>1. CASE Sent
    BY <1>2, <2>1, Moved
  <2>2. CASE call.op = "mkdir" /\ Done(Made(Len(objs) + 1))
    <3> DEFINE n == Len(objs) + 1
    <3>1. /\ Makes(n, Parent) /\ objs'[n].name = call.name /\ call.goal # "walk"
      BY <1>14, SendInfoMakes
    <3>2. n \in live' /\ objs'[n].parent = Parent
      BY <3>1 DEF Makes
    <3>3. PathIn(objs, Parent) = call.folder /\ Parent \in Dirs
      BY <2>2, <3>1, FolderOfCall DEF FolderOp
    <3>4. PathIn(objs', Parent) = call.folder
      BY <3>3, DirsFacts, StepFacts DEF CalmStep
    <3>5. Done([NoResult EXCEPT !.folder = call.folder, !.name = call.name, !.object = n])
      BY <2>2 DEF Made
    <3> HIDE DEF n
    <3> QED BY <2>2, <3>1, <3>2, <3>4, <3>5, ObjectReturned
  <2> QED BY <1>14, <2>1, <2>2 DEF SendInfo, Sent, Goes
<1>15. CASE SendData
  <2> DEFINE t == call.target
  <2>1. /\ call.at = "data" /\ call.op = "put" /\ t \in live /\ objs[t].name = call.name
        /\ objs[t].parent = Parent /\ call.goal # "walk" /\ UNCHANGED <<objs, live>>
    BY <1>1, <1>15, NothingFails DEF SendData, Acting, WayOf, Looks, FolderOp
  <2>2. PathIn(objs, Parent) = call.folder
    BY <2>1, FolderOfCall DEF FolderOp
  <2>3. Done([NoResult EXCEPT !.folder = call.folder, !.name = call.name, !.object = t])
    BY <1>15, NothingFails DEF Made
  <2> HIDE DEF t
  <2> QED BY <2>1, <2>2, <2>3, ObjectReturned
<1>16. CASE Climbed
  <2> DEFINE t == call.target
             q == call.rest
  <2>1. call.at = "climb" /\ call.op = "event" /\ call.here = Root /\ UNCHANGED <<objs, live>>
    BY <1>16, TargetIsThere DEF Climbed, Camera
  <2>2. t \in live /\ PathIn(objs, Root) \o q = PathIn(objs, objs[t].parent)
    BY <1>1, <2>1 DEF OtherCalls
  <2>3. PathIn(objs, Root) = << >> /\ q \in Seq(Name)
    BY <1>1, BaseFacts, PathStep DEF CalmStep, CallState
  <2>4. << >> \o q = q
    BY <2>3, ConcatEmptySeq
  <2>5. PathIn(objs, objs[t].parent) = q
    BY <2>2, <2>3, <2>4
  <2>6. Done([NoResult EXCEPT !.folder = q, !.name = objs[t].name, !.object = t])
    BY <1>16 DEF Climbed, Told
  <2> HIDE DEF t, q
  <2> QED BY <2>1, <2>2, <2>5, <2>6, ObjectReturned
<1>17. CASE Calls \/ Event
  BY <1>2, <1>17, BegunAt
<1>18. CASE Take \/ UNCHANGED vars
  <2>1. Rests
    BY <1>18 DEF Take, ByHand, Rests, vars
  <2> QED BY <1>3, <1>4, <2>1 DEF Rests
<1>19. ~Remove /\ ~GetNoHandles
  BY StepFacts, NothingFails
<1> QED BY <1>5, <1>6, <1>7, <1>8, <1>9, <1>10, <1>11, <1>12, <1>13, <1>14, <1>15, <1>16, <1>17,
           <1>18, <1>19 DEF CalmStep, Next, Driver

-----------------------------------------------------------------------------
\* Calm as long as there has been no trouble.
CalmInv == Base /\ (Untroubled => Calm)

LEMMA InitCalm ==
  ASSUME Tidy, Init
  PROVE  CalmInv
<1>1. Inv /\ WayInv
  BY InitInv, InitWay
<1>2. /\ objs \in Cameras /\ live = 1 .. Len(objs) /\ DOMAIN cache = {} /\ events = << >>
      /\ call.op = "init" /\ call.at = "handles" /\ call.here = Special /\ call.goal = "roots"
  BY DEF Init, NoCall
<1>3. NamesInv
  BY <1>2 DEF NamesInv, Tidy, TidyCameras
<1>4. Base
  BY <1>1, <1>3 DEF Base
<1>5. Alive
  <2>1. ASSUME NEW h \in live
        PROVE  objs[h].parent \in Dirs
    <3>1. CASE objs[h].parent = Root
      BY <3>1 DEF Dirs
    <3>2. CASE objs[h].parent # Root
      <4>1. objs[objs[h].parent].dir
        BY <1>2, <3>2 DEF Tidy, TidyCameras
      <4>2. objs[h].parent \in 1 .. Len(objs)
        BY <1>2, <1>4, <3>2, BaseFacts, PathStep DEF Root
      <4> QED BY <1>2, <4>1, <4>2 DEF Dirs
    <3> QED BY <3>1, <3>2
  <2> QED BY <1>2, <2>1 DEF Alive
<1>6. Unique
  BY <1>2 DEF Unique, Tidy, TidyCameras
<1>7. CoverInv
  BY <1>2 DEF CoverInv, Has
<1>8. EventsInv
  BY <1>2 DEF EventsInv
<1>9. OtherCalls /\ Place /\ Progress /\ Acting /\ ResultInv
  BY <1>2 DEF OtherCalls, Place, Progress, Acting, ResultInv, FolderOp
<1> QED BY <1>4, <1>5, <1>6, <1>7, <1>8, <1>9 DEF CalmInv, Calm

LEMMA NextCalm ==
  ASSUME Tidy, CalmInv, Inv', WayInv', [Next]_vars
  PROVE  CalmInv'
<1>1. Base'
  BY NamesKeep DEF CalmInv, Base, Tidy
<1>2. ASSUME Untroubled'
      PROVE  Calm'
  <2>1. CalmStep
    BY <1>1, <1>2, CalmBefore DEF CalmInv, CalmStep
  <2>2. TidyNames
    BY DEF Tidy
  <2> QED BY <2>1, <2>2, AliveStays, UniqueStays, CoverStays, EventsStay, OtherCallsStay,
             PlaceStays, ProgressStays, ActingStays, ResultStays DEF Calm
<1> QED BY <1>1, <1>2 DEF CalmInv

LEMMA CalmAlways == Tidy => (Spec => []CalmInv)
<1> SUFFICES ASSUME Tidy PROVE Spec => []CalmInv
  OBVIOUS
<1>1. Init => CalmInv
  BY InitCalm
<1>2. CalmInv /\ (Inv /\ WayInv)' /\ [Next]_vars => CalmInv'
  BY NextCalm
<1>3. RootIsRoot
  BY DEF Tidy
<1> QED BY <1>1, <1>2, <1>3, WayAlways, PTL DEF Spec

(* put_file_func looks for the file (find_child) before SendObjectInfo:    *)
(* below the root no name is uploaded twice, for any number of pictures    *)
(* that the camera takes meanwhile, on any camera whose folders are tidy   *)
(* at first, unless it has refused a command or lost an object.            *)
THEOREM UploadsOnceThere == Tidy => (Spec => []UploadsOnce)
<1> SUFFICES ASSUME Tidy PROVE Spec => []UploadsOnce
  OBVIOUS
<1>1. CalmInv => UploadsOnce
  BY DEF CalmInv, Calm, Unique, UploadsOnce
<1> QED BY <1>1, CalmAlways, PTL

(* file_list_func and folder_list_func list what there is, get_info_func   *)
(* describes the object that was named, put_file_func and make_dir_func    *)
(* have made it, and camera_wait_for_event tells the folder it is in: for  *)
(* any number of calls, in whatever order objects come to be cached.       *)
THEOREM ResultsTrue == Tidy => (Spec => []ResultsAreTrue)
<1> SUFFICES ASSUME Tidy PROVE Spec => []ResultsAreTrue
  OBVIOUS
<1>1. CalmInv => ResultsAreTrue
  BY DEF CalmInv, Calm, ResultInv, ResultsAreTrue, Listing
<1> QED BY <1>1, CalmAlways, PTL
=============================================================================

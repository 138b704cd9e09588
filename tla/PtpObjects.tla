----------------------------- MODULE PtpObjects -----------------------------
(***************************************************************************)
(* The object handles of camlibs/ptp2: how library.c finds its way from    *)
(* folders and names to the camera's objects, what it remembers of them    *)
(* (params->objects), and what it asks the camera to do with them.  One    *)
(* step is at most one command to the camera; between two commands the     *)
(* camera may refuse, take a picture, or lose an object by hand.           *)
(*                                                                         *)
(* What GetObjectInfo says of an object never changes, so that the cache   *)
(* holds only which of it is loaded, and the parent, which library.c also  *)
(* sets by itself.  There is one storage; the array and its search are in  *)
(* PtpObjectSearch.                                                        *)
(***************************************************************************)
EXTENDS Integers, Sequences, FiniteSets

CONSTANTS
  FileName, DirName,
  OwnName,      \* of the pictures that the camera takes
  Folders,      \* the folders that are asked for: sequences of DirName
  Cameras,      \* what may be on the camera at first
  Kinds,        \* how cameras answer GetObjectHandles, see Handles
  MaxObjects,   \* bound: objects that there ever are
  MaxCalls,     \* bound: calls of the driver
  MaxRefused,   \* bound: commands that the camera refuses
  MaxByHand     \* bound: pictures taken, objects removed

Root    == 0   \* PTP_HANDLER_ROOT
Special == -1  \* PTP_HANDLER_SPECIAL, 0xffffffff

Handle == 1 .. MaxObjects
Name   == FileName \union DirName \union {OwnName}
Fact   == [parent : 0 .. MaxObjects, name : Name, dir : BOOLEAN]

ASSUME PtpAssumption ==
  /\ {MaxObjects, MaxCalls, MaxRefused, MaxByHand} \subseteq Nat
  /\ Folders \subseteq Seq(DirName)
  /\ \A c \in Cameras : /\ c \in Seq(Fact) /\ Len(c) <= MaxObjects
                        /\ \A h \in 1 .. Len(c) : c[h].parent < h
  /\ Kinds \subseteq {"folder", "all", "rootful"}

\* No camera answers the question for the root with all objects.
RootIsRoot == "rootful" \notin Kinds

VARIABLES
  objs,     \* the camera's objects by their handles, gone or not
  live,     \* the handles of those that are there
  kind,     \* of the camera
  cache,    \* params->objects: handle -> what is loaded, and the parent
  call,     \* the driver's function, and its local variables
  result,   \* of the last call
  events,   \* the handles of ObjectAdded events
  history   \* calls, commands refused, changes by hand, objects lost

vars == <<objs, live, kind, cache, call, result, events, history>>

-----------------------------------------------------------------------------
(* What the flags of an object can be: PTPOBJECT_..._LOADED.               *)
Flag == {"parent", "storage", "info", "listed"}
X    == {"parent", "storage", "info"}
Cell == [flags : SUBSET Flag, parent : Special .. MaxObjects]

Op == {"none", "init", "files", "folders", "info", "delete", "rmdir", "put", "mkdir", "event"}

NoCall == [op |-> "none", folder |-> << >>, name |-> OwnName, at |-> "idle",
           rest |-> << >>, here |-> Root, goal |-> "walk", cursor |-> 0,
           target |-> Special, names |-> {}]
NoResult == [op |-> "none", ok |-> TRUE, folder |-> << >>, name |-> OwnName,
             names |-> {}, object |-> Special]

CallState ==
  [op : Op, folder : Seq(Name), name : Name,
   at : {"idle", "list", "handles", "scan", "act", "data", "want", "climb"},
   rest : Seq(Name), here : Special .. MaxObjects,
   goal : {"walk", "seek", "gather", "roots", "root"}, cursor : 0 .. MaxObjects,
   target : Special .. MaxObjects, names : SUBSET Name]

Outcome == [op : Op, ok : BOOLEAN, folder : Seq(Name), name : Name,
            names : SUBSET Name, object : Special .. MaxObjects]

TypeOK ==
  /\ objs \in Seq(Fact) /\ Len(objs) <= MaxObjects /\ live \subseteq 1 .. Len(objs)
  /\ kind \in Kinds /\ events \in Seq(Handle)
  /\ DOMAIN cache \subseteq Handle /\ cache \in [DOMAIN cache -> Cell]
  /\ call \in CallState /\ result \in Outcome
  /\ history \in [calls : 0 .. MaxCalls, refused : 0 .. MaxRefused,
                  byHand : 0 .. MaxByHand, lost : BOOLEAN]

Init ==
  /\ objs \in Cameras /\ live = 1 .. Len(objs) /\ kind \in Kinds
  /\ cache = [h \in {} |-> [flags |-> {}, parent |-> Root]]
  /\ call = [NoCall EXCEPT !.op = "init", !.at = "handles", !.here = Special, !.goal = "roots"]
  /\ result = NoResult /\ events = << >>
  /\ history = [calls |-> 0, refused |-> 0, byHand |-> 0, lost |-> FALSE]

-----------------------------------------------------------------------------
(* The camera's truth *)

\* A parent is there before its children.
PathOf(h) ==
  LET path[k \in 0 .. Len(objs)] ==
        IF k = Root THEN << >> ELSE Append(path[objs[k].parent], objs[k].name)
  IN path[h]

Inside(folder) == {h \in live : PathOf(objs[h].parent) = folder}
IsFolder(folder) == folder = << >> \/ \E h \in live : objs[h].dir /\ PathOf(h) = folder
Children(p) == {h \in live : objs[h].parent = p}

Untroubled == history.refused = 0 /\ ~history.lost

-----------------------------------------------------------------------------
(* Commands *)

Camera  == <<objs, live, kind, events>>
Refuses == history.refused < MaxRefused
           /\ history' = [history EXCEPT !.refused = @ + 1]
Accepts == UNCHANGED history

\* ptp_object_find_or_insert, ptp_remove_object_from_cache
With(h, cell) == [k \in DOMAIN cache \union {h} |-> IF k = h THEN cell ELSE cache[k]]
Without(h)    == [k \in DOMAIN cache \ {h} |-> cache[k]]
NewCell       == [flags |-> {}, parent |-> Root]
Known(h)      == IF h \in DOMAIN cache THEN cache[h] ELSE NewCell

Has(h, flags) == h \in DOMAIN cache /\ flags \subseteq cache[h].flags

\* ptp_object_want when the information is not loaded: GetObjectInfo.  A
\* parent that is known is kept.  An object without information is forgotten.
Loaded(h) ==
  [flags |-> Known(h).flags \union X,
   parent |-> IF "parent" \in Known(h).flags THEN Known(h).parent ELSE objs[h].parent]

WantGets(h)  == h \in live /\ Accepts /\ cache' = With(h, Loaded(h))
WantFails(h) == ((h \notin live /\ Accepts) \/ Refuses) /\ cache' = Without(h)

Return(ok, r) ==
  /\ call' = NoCall
  /\ result' = IF ok THEN [r EXCEPT !.op = call.op, !.ok = TRUE]
               ELSE [NoResult EXCEPT !.op = call.op, !.ok = FALSE]
Goes(c) == call' = c /\ UNCHANGED result

-----------------------------------------------------------------------------
(* folder_to_handle, find_child *)

\* find_folder_handle is done: what the functions do next.  "if you desire to
\* put file to root folder, you have to use 0xffffffff".
Arrive(c) ==
  [c EXCEPT !.at = "list", !.cursor = 0,
            !.goal = IF c.op \in {"files", "folders"} THEN "gather" ELSE "seek",
            !.here = IF c.op \in {"put", "mkdir"} /\ c.here = Root THEN Special ELSE c.here]

\* Mutant: the last folder of the path is not looked for.
WalkShort(c) == IF Len(c.rest) < 2 THEN Arrive(c)
                ELSE [c EXCEPT !.at = "list", !.goal = "walk", !.cursor = 0]
Walk(c) == IF c.rest = << >> THEN Arrive(c)
           ELSE [c EXCEPT !.at = "list", !.goal = "walk", !.cursor = 0]

\* find_child has found h, or nothing (Special).
Found(h) ==
  Goes(IF call.goal = "walk" THEN Walk([call EXCEPT !.here = h, !.rest = Tail(@)])
       ELSE [call EXCEPT !.at = "act", !.target = h])

\* ptp_list_folder or ptp_object_want fails.
Fails ==
  IF call.goal = "gather" THEN Return(FALSE, NoResult) ELSE Found(Special)

Call(op, folder, name) ==
  /\ call.at = "idle" /\ history.calls < MaxCalls
  /\ history' = [history EXCEPT !.calls = @ + 1]
  /\ call' = Walk([NoCall EXCEPT !.op = op, !.folder = folder, !.name = name, !.rest = folder])
  /\ result' = NoResult /\ UNCHANGED cache /\ UNCHANGED Camera

\* gphoto2-filesys.c has looked up the folder, and the file to be deleted.
Exists(folder, name) == \E h \in Inside(folder) : objs[h].name = name

Calls ==
  \E folder \in Folders :
    /\ IsFolder(folder)
    /\ \/ \E op \in {"files", "folders"} : Call(op, folder, OwnName)
       \/ \E f \in FileName : Call("info", folder, f) \/ Call("put", folder, f)
       \/ \E f \in FileName : Exists(folder, f) /\ Call("delete", folder, f)
       \/ \E d \in DirName : Call("mkdir", folder, d)
       \/ \E d \in DirName : Exists(folder, d) /\ Call("rmdir", folder, d)

\* delete_file_func begins with ptp_check_event, which has to succeed.
CheckFails ==
  /\ call.at = "list" /\ call.op = "delete" /\ call.here = Root /\ call.rest = call.folder
  /\ Refuses /\ Return(FALSE, NoResult)
  /\ UNCHANGED cache /\ UNCHANGED Camera

-----------------------------------------------------------------------------
(* ptp_list_folder *)

\* Nothing is asked: the root was read initially, the folder was listed.
\* (find_child has loaded what it finds: the first call to ptp_object_want
\* asks for nothing, and names of folders are no names of files.)
ListKnown ==
  /\ call.at = "list"
  /\ \/ call.here = Root /\ DOMAIN cache # {}
     \/ call.here > 0 /\ Has(call.here, {"listed"})
  /\ Goes([call EXCEPT !.at = "scan"])
  /\ UNCHANGED <<cache, history>> /\ UNCHANGED Camera

\* It is noted that the folder is listed; then its handles are asked for.
ListAsks ==
  /\ call.at = "list" /\ Goes([call EXCEPT !.at = "handles"])
  /\ \/ /\ call.here = Special \/ (call.here = Root /\ DOMAIN cache = {})
        /\ UNCHANGED cache
     \/ /\ call.here > 0 /\ ~Has(call.here, {"listed"})
        /\ cache' = [cache EXCEPT ![call.here].flags = @ \union {"listed"}]
  /\ UNCHANGED history /\ UNCHANGED Camera

\* What GetObjectHandles answers.  "folder": the objects in the folder.
\* "rootful": all objects, for the root.  "all": only the question for all
\* objects on all storages is answered, the third that is tried.
Top == IF call.here = Special THEN Root ELSE call.here
Handles == IF kind = "all" \/ (kind = "rootful" /\ Top = Root) THEN live ELSE Children(Top)

\* The folder and the storage with which handles are tagged, if any: "root
\* directory list files might return all files, so avoid tagging it".
\* Mutant: handles are tagged whatever has been asked.
TagAlways == Top
Tag == IF kind = "all" THEN Special ELSE Top

Storage == kind # "all" /\ call.goal # "roots"

StorageFlag == IF Storage THEN {"storage"} ELSE {}
Tagged(h) ==
  IF h \notin DOMAIN cache
  THEN [flags |-> StorageFlag \union (IF Tag > 0 THEN {"parent"} ELSE {}),
        parent |-> IF Tag > 0 THEN Tag ELSE Root]
  ELSE [flags |-> cache[h].flags \union StorageFlag
                  \union (IF Tag # Special THEN {"parent"} ELSE {}),
        parent |-> IF Tag # Special THEN Tag ELSE cache[h].parent]
Merged(hs) ==
  [h \in DOMAIN cache \union hs |-> IF h \in hs THEN Tagged(h) ELSE cache[h]]

\* camera_init lists the root of all storages, then that of each storage.
Listed ==
  \/ call.goal = "roots" /\ Goes([call EXCEPT !.goal = "root"])
  \/ call.goal = "root"  /\ Return(TRUE, NoResult)
  \/ call.goal \notin {"roots", "root"} /\ Goes([call EXCEPT !.at = "scan"])

GetHandles ==
  /\ call.at = "handles" /\ Accepts /\ UNCHANGED Camera
  /\ Top \in live \union {Root} \/ kind = "all"
  /\ cache' = Merged(Handles) /\ Listed

\* When the question for all objects is refused, ptp_getobjecthandles makes
\* "0 handles" of it.  camera_init does not look.
GetNoHandles ==
  /\ call.at = "handles" /\ UNCHANGED cache /\ UNCHANGED Camera
  /\ \/ Refuses
     \/ Accepts /\ kind # "all" /\ Top \notin live \union {Root}
  /\ \/ (kind = "all" \/ call.goal \in {"roots", "root"}) /\ Listed
     \/ call.goal \notin {"roots", "root"} /\ Fails

-----------------------------------------------------------------------------
(* The loop over params->objects, in the order of the handles *)

Ahead == {h \in DOMAIN cache : h > call.cursor}
Nearest == {h \in Ahead : \A k \in Ahead : h <= k}

Sought == IF call.goal = "walk" THEN Head(call.rest) ELSE call.name

ScanEnds ==
  /\ call.at = "scan" /\ Ahead = {}
  /\ IF call.goal = "gather"
     THEN Return(TRUE, [NoResult EXCEPT !.folder = call.folder, !.names = call.names])
     ELSE Found(Special)
  /\ UNCHANGED <<cache, history>> /\ UNCHANGED Camera

ScanWants ==
  /\ call.at = "scan" /\ UNCHANGED Camera
  /\ \E h \in Nearest :
       /\ \/ ~Has(h, {"parent", "storage"})
          \/ cache[h].parent = call.here /\ ~Has(h, {"info"})
       /\ \/ WantGets(h) /\ Goes(call)
          \/ WantFails(h) /\ Fails

\* An object of another folder.
ScanPasses ==
  /\ call.at = "scan" /\ UNCHANGED <<cache, history>> /\ UNCHANGED Camera
  /\ \E h \in Nearest :
       /\ Has(h, {"parent", "storage"}) /\ cache[h].parent # call.here
       /\ Goes([call EXCEPT !.cursor = h])

\* One of the folder: listed, found, or neither.  (The second of two folders
\* with the same name is renamed in the cache; see SendInfo.)
Listable(h) == call.goal = "gather" /\ objs[h].dir = (call.op = "folders")
IsIt(h)     == call.goal # "gather" /\ objs[h].name = Sought

ScanMeets ==
  /\ call.at = "scan" /\ UNCHANGED <<cache, history>> /\ UNCHANGED Camera
  /\ \E h \in Nearest :
       /\ Has(h, X) /\ cache[h].parent = call.here
       /\ \/ Listable(h) /\ Goes([call EXCEPT !.cursor = h, !.names = @ \union {objs[h].name}])
          \/ IsIt(h) /\ Found(h)
          \/ ~Listable(h) /\ ~IsIt(h) /\ Goes([call EXCEPT !.cursor = h])

-----------------------------------------------------------------------------
(* What is done with the object *)

Lost(hs) == live' = live \ hs
Done(r) == Return(TRUE, r)

GetInfo ==
  /\ call.at = "act" /\ call.op = "info"
  /\ IF call.target = Special THEN Return(FALSE, NoResult)
     ELSE Done([NoResult EXCEPT !.folder = call.folder, !.name = call.name,
                                !.object = call.target])
  /\ UNCHANGED <<cache, history>> /\ UNCHANGED Camera

NotFound ==
  /\ call.at = "act" /\ call.op = "rmdir" /\ call.target = Special
  /\ Return(FALSE, NoResult)
  /\ UNCHANGED <<cache, history>> /\ UNCHANGED Camera

\* Mutant: the file is noticed, and uploaded.
UploadedAgain ==
  /\ call.at = "act" /\ call.op \in {"put", "mkdir"} /\ call.target # Special
  /\ Goes([call EXCEPT !.target = Special])
  /\ UNCHANGED <<cache, history>> /\ UNCHANGED Camera
AlreadyThere ==
  /\ call.at = "act" /\ call.op \in {"put", "mkdir"} /\ call.target # Special
  /\ Return(FALSE, NoResult)
  /\ UNCHANGED <<cache, history>> /\ UNCHANGED Camera

\* DeleteObject.  A folder must be empty.  The handle 0xffffffff stands for
\* all objects; remove_dir_func asks whether it has found one (NotFound).
\* (For the firmwares that answer with an ObjectRemoved event,
\* delete_file_func also enters the objects of the events before it.)
Deletes ==
  /\ call.at = "act" /\ call.op \in {"delete", "rmdir"}
  /\ call.op = "rmdir" => call.target # Special
  /\ \/ /\ Accepts /\ call.target = Special
        /\ Lost(live) /\ UNCHANGED cache /\ Done(NoResult)
     \/ /\ Accepts /\ call.target \in live /\ Children(call.target) = {}
        /\ Lost({call.target}) /\ cache' = Without(call.target) /\ Done(NoResult)
     \/ /\ \/ Refuses
           \/ /\ Accepts /\ call.target # Special
              /\ call.target \notin live \/ Children(call.target) # {}
        /\ UNCHANGED <<live, cache>> /\ Return(FALSE, NoResult)
  /\ UNCHANGED <<objs, kind, events>>

\* SendObjectInfo: a file without data, or a folder, with the next handle.
\* The camera takes it if the folder is there, and does not make a second
\* folder of one name.  add_object only enters the handle.
Parent == IF call.here = Special THEN Root ELSE call.here
Takes  == /\ Parent \in live \union {Root}
          /\ call.op = "mkdir" => \A h \in Children(Parent) : objs[h].name # call.name

New(h) == /\ objs' = Append(objs, [parent |-> Parent, name |-> call.name, dir |-> call.op = "mkdir"])
          /\ live' = live \union {h} /\ UNCHANGED <<kind, events>>

\* Mutant: the new object is not entered.
NotAdded(h) == UNCHANGED cache
Added(h) == cache' = With(h, Known(h))

Made(h) == [NoResult EXCEPT !.folder = call.folder, !.name = call.name, !.object = h]

Sends == call.at = "act" /\ call.op \in {"put", "mkdir"} /\ call.target = Special

SendInfo ==
  LET h == Len(objs) + 1 IN
  /\ Sends /\ Takes /\ Accepts /\ h <= MaxObjects /\ New(h)
  /\ \/ call.op = "mkdir" /\ Added(h) /\ Done(Made(h))
     \/ /\ call.op = "put" /\ UNCHANGED cache
        /\ Goes([call EXCEPT !.at = "data", !.target = h])

SendInfoFails ==
  /\ Sends /\ (Refuses \/ (Accepts /\ ~Takes))
  /\ Return(FALSE, NoResult) /\ UNCHANGED cache /\ UNCHANGED Camera

\* SendObject.  Refused, the file may stay as it is, and is not entered.
SendData ==
  /\ call.at = "data" /\ UNCHANGED <<objs, kind, events>>
  /\ \/ Accepts /\ Added(call.target) /\ Done(Made(call.target)) /\ UNCHANGED live
     \/ /\ Refuses /\ UNCHANGED cache /\ Return(FALSE, NoResult)
        /\ UNCHANGED live \/ Lost({call.target})

-----------------------------------------------------------------------------
(* camera_wait_for_event: ObjectAdded *)

Event ==
  /\ call.at = "idle" /\ history.calls < MaxCalls /\ events # << >>
  /\ history' = [history EXCEPT !.calls = @ + 1] /\ result' = NoResult
  /\ call' = [NoCall EXCEPT !.op = "event", !.at = "want", !.target = Head(events)]
  /\ events' = Tail(events) /\ UNCHANGED <<objs, live, kind, cache>>

\* The object, and then its parents, get_folder_from_handle, whose failure
\* is not looked at.  call.rest is the path.
EventWants ==
  /\ call.at = "want" /\ UNCHANGED Camera
  /\ \/ /\ \/ Has(call.target, {"info"}) /\ UNCHANGED <<cache, history>>
           \/ ~Has(call.target, {"info"}) /\ WantGets(call.target)
        /\ Goes([call EXCEPT !.at = "climb", !.here = cache'[call.target].parent])
     \/ /\ ~Has(call.target, {"info"})
        /\ WantFails(call.target) /\ Return(FALSE, NoResult)

Told(path) ==
  Done([NoResult EXCEPT !.folder = path, !.name = objs[call.target].name, !.object = call.target])

Climbs ==
  /\ call.at = "climb" /\ call.here # Root /\ UNCHANGED Camera
  /\ \/ /\ Has(call.here, {"info"}) /\ UNCHANGED <<cache, history>>
        /\ Goes([call EXCEPT !.here = cache[call.here].parent,
                             !.rest = <<objs[call.here].name>> \o @])
     \/ /\ ~Has(call.here, {"info"})
        /\ \/ WantGets(call.here) /\ Goes(call)
           \/ WantFails(call.here) /\ Told(<< >>)

Climbed ==
  /\ call.at = "climb" /\ call.here = Root /\ Told(call.rest)
  /\ UNCHANGED <<cache, history>> /\ UNCHANGED Camera

-----------------------------------------------------------------------------
(* The camera by itself (external) *)

ByHand == history.byHand < MaxByHand /\ UNCHANGED <<kind, cache, call, result>>

\* A picture is taken.
Take ==
  /\ ByHand /\ Len(objs) < MaxObjects
  /\ \E p \in {Root} \union {h \in live : objs[h].dir} :
       /\ \A h \in Children(p) : objs[h].name # OwnName
       /\ objs' = Append(objs, [parent |-> p, name |-> OwnName, dir |-> FALSE])
  /\ live' = live \union {Len(objs) + 1} /\ events' = Append(events, Len(objs) + 1)
  /\ history' = [history EXCEPT !.byHand = @ + 1]

\* The ObjectRemoved event is ignored.
Remove ==
  /\ ByHand /\ \E h \in live : Children(h) = {} /\ Lost({h})
  /\ history' = [history EXCEPT !.byHand = @ + 1, !.lost = TRUE]
  /\ UNCHANGED <<objs, events>>

-----------------------------------------------------------------------------
Driver ==
  \/ CheckFails
  \/ ListKnown \/ ListAsks \/ GetHandles \/ GetNoHandles
  \/ ScanEnds \/ ScanWants \/ ScanPasses \/ ScanMeets
  \/ GetInfo \/ NotFound \/ AlreadyThere \/ Deletes
  \/ SendInfo \/ SendInfoFails \/ SendData
  \/ EventWants \/ Climbs \/ Climbed

Next == Calls \/ Event \/ Driver \/ Take \/ Remove

Spec == Init /\ [][Next]_vars

-----------------------------------------------------------------------------
(* The parents in the cache are the camera's, whether GetObjectInfo or the *)
(* listing of a folder has set them.                                       *)
CacheIsTrue ==
  \A h \in DOMAIN cache :
    "parent" \in cache[h].flags => cache[h].parent = objs[h].parent

(* What a successful call has returned is so: the listing of a folder is   *)
(* complete, an object is the one that was named, and the folder of a new  *)
(* object is the one that it is in.  Unless the camera has refused a       *)
(* command or lost an object: the driver takes both for an empty folder.   *)
ResultsAreTrue ==
  call.at = "idle" /\ result.ok /\ Untroubled =>
    /\ result.op \in {"files", "folders"} /\ events = << >> =>
         result.names = {objs[h].name : h \in {k \in Inside(result.folder) :
                                                 objs[k].dir = (result.op = "folders")}}
    /\ result.object # Special =>
         /\ result.object \in Inside(result.folder)
         /\ objs[result.object].name = result.name

(* "We don't really want a file to exist with the same name twice": below  *)
(* the root of a storage none does, unless the camera refuses commands or  *)
(* objects are lost.  (In the root the file is looked for with the parent  *)
(* 0xffffffff, which no object has.)                                       *)
UploadsOnce ==
  Untroubled =>
    \A h, k \in live : objs[h].parent = objs[k].parent /\ objs[h].name = objs[k].name
                       /\ objs[h].parent # Root => h = k

(* The driver deletes what it was asked to delete: if it has found it.     *)
Gone == live \ live'
Named(h) == PathOf(h) = Append(call.folder, call.name)

NamedIsDeleted ==
  [][Deletes /\ call.target # Special => \A h \in Gone : Named(h)]_vars

(* "Deletes the file from \c folder.": nothing else (gphoto2-camera.c:1459). *)
OnlyNamedIsDeleted == [][Deletes => \A h \in Gone : Named(h)]_vars
=============================================================================

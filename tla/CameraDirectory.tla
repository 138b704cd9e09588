--------------------------- MODULE CameraDirectory ---------------------------
(***************************************************************************)
(* What the virtual filesystem of gphoto2-filesys.c promises an            *)
(* application: the answers are those of the camera itself, as if there    *)
(* were no cache.  An operation either fails and changes nothing, or does  *)
(* on the camera exactly what it is asked to do.                           *)
(***************************************************************************)
EXTENDS Sequences, FiniteSets, SequencesExt

CONSTANTS Path, Name, FileName, InitCameras

VARIABLES camera, answer

Done   == [of |-> "done"]
Failed == [of |-> "failed"]

Files(p)   == IF p \in DOMAIN camera THEN camera[p] ELSE {}
SubDirs(p) == {nm \in Name : Append(p, nm) \in DOMAIN camera}

Init == camera \in InitCameras /\ answer = Done

Tell(a) == answer' = a /\ UNCHANGED camera
Refuse  == Tell(Failed)

List(p) ==
  IF p \in DOMAIN camera
  THEN Tell([of |-> "files", path |-> p, names |-> camera[p]]) ELSE Refuse

ListSub(p) ==
  IF p \in DOMAIN camera
  THEN Tell([of |-> "folders", path |-> p, names |-> SubDirs(p)]) ELSE Refuse

Number(p, x) ==
  IF p \in DOMAIN camera
  THEN Tell([of |-> "sought", path |-> p, file |-> x, found |-> x \in camera[p]])
  ELSE Refuse

GetFolder(x) ==
  Tell([of |-> "found", file |-> x,
        found |-> \E p \in DOMAIN camera : x \in camera[p]])

\* The count is that of the cache; nothing is promised.
Count == UNCHANGED camera /\ answer'.of \in {"count", "failed"}

Delete(p, x) ==
  IF x \in Files(p)
  THEN camera' = [camera EXCEPT ![p] = @ \ {x}] /\ answer' = Done ELSE Refuse

DeleteAll(p) ==
  IF p \in DOMAIN camera
  THEN camera' = [camera EXCEPT ![p] = {}] /\ answer' = Done ELSE Refuse

Put(p, x) ==
  IF p \in DOMAIN camera /\ x \notin Files(p)
  THEN camera' = [camera EXCEPT ![p] = @ \union {x}] /\ answer' = Done ELSE Refuse

MakeDir(p, nm) ==
  IF p \in DOMAIN camera /\ nm \notin SubDirs(p)
  THEN /\ DOMAIN camera' = DOMAIN camera \union {Append(p, nm)}
       /\ \A q \in DOMAIN camera' : camera'[q] = Files(q)
       /\ answer' = Done
  ELSE Refuse

RemoveDir(p, nm) ==
  LET q == Append(p, nm)
  IN IF q \in DOMAIN camera /\ camera[q] = {} /\ SubDirs(q) = {}
     THEN camera' = Restrict(camera, DOMAIN camera \ {q}) /\ answer' = Done
     ELSE Refuse

Reset == Tell(Done)

\* The camera takes a picture, in a folder that is there or new.
Capture(p, x) ==
  /\ DOMAIN camera' = DOMAIN camera \union Prefixes(p)
  /\ \A q \in DOMAIN camera' :
       camera'[q] = Files(q) \union IF q = p THEN {x} ELSE {}
  /\ UNCHANGED answer

\* It loses one.
Lose(p, x) == x \in Files(p) /\ Delete(p, x)

Next ==
  \/ \E p \in Path : List(p) \/ ListSub(p) \/ DeleteAll(p)
  \/ \E p \in Path, x \in FileName :
       Number(p, x) \/ Delete(p, x) \/ Put(p, x) \/ Capture(p, x) \/ Lose(p, x)
  \/ \E p \in Path, nm \in Name : MakeDir(p, nm) \/ RemoveDir(p, nm)
  \/ \E x \in FileName : GetFolder(x)
  \/ Count \/ Reset

Spec == Init /\ [][Next]_<<camera, answer>>
=============================================================================

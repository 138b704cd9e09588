------------------------------ MODULE FileInfo ------------------------------
(***************************************************************************)
(* What the virtual filesystem (libgphoto2/gphoto2-filesys.c) remembers of *)
(* one file: its information and the files that were handed over with it.  *)
(*                                                                         *)
(* The functions that ask for the information, look for the time of the    *)
(* picture in its EXIF data, get a file and take one over call each other  *)
(* and the driver, which calls them back.  A call is a frame of a stack; a *)
(* step is what one function does between two calls.  The driver and       *)
(* libexif are external.  Kinds of files other than the three below (raw,  *)
(* audio, metadata) are treated like them.                                 *)
(***************************************************************************)
EXTENDS Integers, Sequences, FiniteSets

CONSTANTS
  Driver,      \* drivers, see DriverType
  Photo,       \* pictures, see PhotoType
  Time,        \* times of modification
  File,        \* CameraFile objects
  StackDepth,  \* bound: calls that fit on the stack
  Reuses       \* the application downloads into an object that it has used

None   == 0    \* no time
NoFile == 0
Kind   == {"normal", "preview", "exif"}

DriverType ==
  [info  : {"no", "plain", "hands"},  \* get_info_func; "hands" gives a preview too
   hands : Seq(Kind \union {"info"}), \* what file_list_func hands over, in order
   files : SUBSET Kind,               \* what get_file_func supports
   time  : BOOLEAN,                   \* the camera tells the time of modification
   asks  : BOOLEAN,                   \* get_file_func asks for the size of a picture
   jpeg  : BOOLEAN,                   \* the names of the files contain "jpeg" or "jpg"
   sets  : SUBSET {"perm", "time"},   \* what set_info_func changes
   fails : SUBSET {"list", "info", "file", "set"}]

PhotoType ==
  [date     : Time \union {None},   \* the time in the EXIF data
   thumb    : BOOLEAN,              \* they contain a thumbnail
   exifHere : BOOLEAN]              \* the thumbnail contains them

ASSUME FileInfoAssumption ==
  /\ Driver \subseteq DriverType /\ Photo \subseteq PhotoType
  /\ Time \subseteq Nat \ {None} /\ Time # {}
  /\ File \subseteq Nat \ {NoFile} /\ IsFiniteSet(File) /\ File # {}
  /\ StackDepth \in Nat

VARIABLES
  driver,   \* the driver that is loaded
  photo,    \* the picture in the camera
  cam,      \* its permission to be deleted, and its time of modification
  listed,   \* files_dirty of the folder, negated
  entry,    \* the file's entry: whether there is one, whether info_dirty, info
  slot,     \* the entry's preview, normal and exif
  obj,      \* the CameraFile objects
  app,      \* the application's object
  stack,    \* the calls in progress, the innermost first
  ret,      \* what the last function returned
  op,       \* the application's last call
  faulty    \* history: the driver has failed in this call

vars == <<driver, photo, cam, listed, entry, slot, obj, app, stack, ret, op, faulty>>

-----------------------------------------------------------------------------
(* Data *)

\* Contents of a CameraFile: what it is, the EXIF time in it, its own mtime.
Content == [holds : Kind \union {"nothing"}, date : Time \union {None}, mtime : Time \union {None}]
InfoType == [perm : BOOLEAN, time : Time \union {None}]
Blank   == [holds |-> "nothing", date |-> None, mtime |-> None]

Told(time) == IF driver.time THEN time ELSE None

\* A file as the camera sends it.
Sent(k) ==
  [holds |-> k,
   date  |-> IF k # "preview" \/ photo.exifHere THEN photo.date ELSE None,
   mtime |-> Told(cam.time)]

\* The information as the camera sends it.
SentInfo == [perm |-> cam.perm, time |-> Told(cam.time)]
NoInfo   == [perm |-> FALSE, time |-> None]
NoEntry  == [known |-> FALSE, dirty |-> TRUE, info |-> NoInfo]
NoSlot   == [k \in Kind |-> NoFile]
NoAnswer == [code |-> "none", info |-> NoInfo]

-----------------------------------------------------------------------------
(* Calls *)

Labels == {"info", "asked", "timed", "exif time", "exif read", "get", "got", "second", "cached",
           "impl", "take", "stamped", "searched", "set",
           "driver list", "driver info", "handed", "driver file", "sized"}

FrameType ==
  [at : Labels, kind : Kind, file : File \union {NoFile}, spare : File \union {NoFile},
   rest : Seq(Kind \union {"info"})]

Frame(at, kind, file) ==
  [at |-> at, kind |-> kind, file |-> file, spare |-> NoFile, rest |-> << >>]

Top   == Head(stack)
Idle  == stack = << >>

\* The function on top goes on, calls another or is replaced by another.
Goes(frame)       == stack' = << frame >> \o Tail(stack)
Calls(frame, f)   == stack' = << f, frame >> \o Tail(stack)
Continue(label)   == [Top EXCEPT !.at = label]

Returns(code, info) ==
  /\ stack' = Tail(stack)
  /\ ret' = [code |-> code, info |-> info]

Fails(code)  == Returns(code, NoInfo)
Succeeds     == Returns("ok", NoInfo)
Finds(time)  == Returns("ok", [perm |-> FALSE, time |-> time])

\* Objects without a reference are freed: gp_file_new gives one of them.
Referenced ==
  {app} \union {slot[k] : k \in Kind} \union
  UNION {{stack[i].file, stack[i].spare} : i \in 1 .. Len(stack)}
Free      == File \ Referenced
NewFile   == CHOOSE f \in Free : TRUE
Put(f, c) == obj' = [obj EXCEPT ![f] = c]

\* gp_file_copy takes the mtime too, gp_file_clean leaves it.
Copy(to, from) == Put(to, obj[from])
Cleaned(f)     == [Blank EXCEPT !.mtime = obj[f].mtime]

\* A stack or a memory that is full is the end of the program.
At(label) ==
  /\ stack # << >> /\ Top.at = label
  /\ Len(stack) <= StackDepth /\ Free # {}

Memory == <<obj, app>>
Cache  == <<listed, entry, slot>>
Fixed  == <<driver, photo, op>>

-----------------------------------------------------------------------------
(* lookup_folder_file: a folder that is dirty is listed first, and marked   *)
(* as clean before the driver is asked.                                    *)

Seeks == {"impl", "take", "set"} \union (IF driver.info = "no" THEN {} ELSE {"info"})

ListFolder ==
  /\ \E label \in Seeks : At(label)
  /\ ~listed
  /\ listed' = TRUE
  /\ Calls(Top, Frame("driver list", "normal", NoFile))
  /\ UNCHANGED <<Fixed, cam, entry, slot, Memory, ret, faulty>>

NotFound ==
  /\ \E label \in Seeks : At(label)
  /\ listed /\ ~entry.known
  /\ Fails("not found")
  /\ UNCHANGED <<Fixed, cam, Cache, Memory, faulty>>

Found(label) == At(label) /\ listed /\ entry.known

-----------------------------------------------------------------------------
(* gp_filesystem_get_info *)

InfoUnsupported ==
  /\ At("info") /\ driver.info = "no"
  /\ Fails("unsupported")
  /\ UNCHANGED <<Fixed, cam, Cache, Memory, faulty>>

\* Without a time of modification, the EXIF data may have one.
LookForTime ==
  IF entry.info.time # None THEN Returns("ok", entry.info)
  ELSE /\ Calls(Continue("timed"), Frame("exif time", "exif", NoFile))
       /\ UNCHANGED ret

InfoClean ==
  /\ Found("info") /\ driver.info # "no" /\ ~entry.dirty
  /\ LookForTime
  /\ UNCHANGED <<Fixed, cam, Cache, Memory, faulty>>

InfoDirty ==
  /\ Found("info") /\ driver.info # "no" /\ entry.dirty
  /\ Calls(Continue("asked"), Frame("driver info", "normal", NoFile))
  /\ UNCHANGED <<Fixed, cam, Cache, Memory, ret, faulty>>

InfoAsked ==
  /\ At("asked")
  /\ IF ret.code = "ok"
     THEN entry' = [entry EXCEPT !.dirty = FALSE] /\ LookForTime
     ELSE UNCHANGED entry /\ Fails(ret.code)
  /\ UNCHANGED <<Fixed, cam, listed, slot, Memory, faulty>>

InfoTimed ==
  /\ At("timed")
  /\ LET info == IF ret.info.time = None THEN entry.info
                 ELSE [entry.info EXCEPT !.time = ret.info.time]
     IN entry' = [entry EXCEPT !.info = info] /\ Returns("ok", info)
  /\ UNCHANGED <<Fixed, cam, listed, slot, Memory, faulty>>

-----------------------------------------------------------------------------
(* gp_filesystem_get_exif_mtime *)

ExifTime ==
  /\ At("exif time")
  /\ IF driver.jpeg
     THEN /\ Calls([Continue("exif read") EXCEPT !.file = NewFile], Frame("get", "exif", NewFile))
          /\ Put(NewFile, Blank)
          /\ UNCHANGED ret
     ELSE Finds(None) /\ UNCHANGED obj
  /\ UNCHANGED <<Fixed, cam, Cache, app, faulty>>

ExifRead ==
  /\ At("exif read")
  /\ Finds(IF ret.code = "ok" THEN obj[Top.file].date ELSE None)
  /\ UNCHANGED <<Fixed, cam, Cache, Memory, faulty>>

-----------------------------------------------------------------------------
(* gp_filesystem_get_file, and gp_filesystem_get_file_impl *)

GetFile ==
  /\ At("get")
  /\ Calls(Continue("got"), [Top EXCEPT !.at = "impl"])
  /\ UNCHANGED <<Fixed, cam, Cache, Memory, ret, faulty>>

\* A preview may be in the EXIF data, and the EXIF data in the preview.
Elsewhere(k) == CASE k = "preview" -> "exif" [] k = "exif" -> "preview"

\* Mutant: the detour asks for the other file with gp_filesystem_get_file,
\* which has a detour of its own.
GotFileAgain ==
  /\ At("got")
  /\ IF ret.code = "unsupported" /\ Top.kind \in {"preview", "exif"}
     THEN /\ Calls([Continue("second") EXCEPT !.spare = NewFile],
                   Frame("get", Elsewhere(Top.kind), NewFile))
          /\ Put(NewFile, Blank)
          /\ UNCHANGED ret
     ELSE Fails(ret.code) /\ UNCHANGED obj
  /\ UNCHANGED <<Fixed, cam, Cache, app, faulty>>

GotFile ==
  /\ At("got")
  /\ IF ret.code = "unsupported" /\ Top.kind \in {"preview", "exif"}
     THEN /\ Calls([Continue("second") EXCEPT !.spare = NewFile],
                   Frame("impl", Elsewhere(Top.kind), NewFile))
          /\ Put(NewFile, Blank)
          /\ UNCHANGED ret
     ELSE Fails(ret.code) /\ UNCHANGED obj
  /\ UNCHANGED <<Fixed, cam, Cache, app, faulty>>

\* Mutant: the file is given as it was found.
FoundThere(k, from) == [from EXCEPT !.mtime = obj[Top.file].mtime]

\* The EXIF data of an empty file are empty.
Extracted(k, from) ==
  [holds |-> IF from.holds = "nothing" THEN "nothing" ELSE k,
   date  |-> IF k = "exif" THEN from.date ELSE None,
   mtime |-> obj[Top.file].mtime]

HasThumb(content) == content.holds = "exif" /\ photo.thumb

\* (GP_ERROR_CORRUPTED_DATA is for when libexif has no memory: it makes an empty
\* structure of data that it cannot read.)
GotSecond ==
  /\ At("second")
  /\ LET from == obj[Top.spare]
     IN IF ret.code = "ok" /\ (Top.kind = "exif" \/ HasThumb(from))
        THEN /\ Put(Top.file, Extracted(Top.kind, from))
             /\ Calls([Continue("cached") EXCEPT !.spare = NoFile],
                      Frame("take", Top.kind, Top.file))
             /\ UNCHANGED ret
        ELSE /\ Fails(IF ret.code = "ok" THEN "unsupported" ELSE ret.code)
             /\ UNCHANGED obj
  /\ UNCHANGED <<Fixed, cam, Cache, app, faulty>>

Cached ==
  /\ At("cached")
  /\ Fails(ret.code)
  /\ UNCHANGED <<Fixed, cam, Cache, Memory, faulty>>

\* An object that is copied to itself has been cleaned before.
CopyCached ==
  /\ Found("impl") /\ slot[Top.kind] # NoFile
  /\ Copy(Top.file, slot[Top.kind])
  /\ Succeeds
  /\ UNCHANGED <<Fixed, cam, Cache, app, faulty>>

Download ==
  /\ Found("impl") /\ slot[Top.kind] = NoFile
  /\ Goes(Continue("driver file"))
  /\ UNCHANGED <<Fixed, cam, Cache, Memory, ret, faulty>>

-----------------------------------------------------------------------------
(* gp_filesystem_set_file_noop.  The list of cached pictures is the subject *)
(* of FscacheLru.                                                          *)

Stamp(time) == Put(Top.file, [obj[Top.file] EXCEPT !.mtime = time])

TakeFile ==
  /\ Found("take")
  /\ slot' = [slot EXCEPT ![Top.kind] = Top.file]
  /\ IF obj[Top.file].mtime # None THEN Succeeds
     ELSE Calls(Continue("stamped"), Frame("info", "normal", NoFile)) /\ UNCHANGED ret
  /\ UNCHANGED <<Fixed, cam, listed, entry, Memory, faulty>>

Stamped ==
  /\ At("stamped")
  /\ LET known == ret.code = "ok" /\ ret.info.time # None
         time  == IF known THEN ret.info.time
                  ELSE IF Top.kind = "normal" THEN obj[Top.file].date ELSE None
     IN IF time # None THEN Stamp(time) /\ Succeeds
        ELSE /\ Calls(Continue("searched"), Frame("exif time", "exif", NoFile))
             /\ UNCHANGED <<obj, ret>>
  /\ UNCHANGED <<Fixed, cam, Cache, app, faulty>>

Searched ==
  /\ At("searched")
  /\ Stamp(ret.info.time)
  /\ Succeeds
  /\ UNCHANGED <<Fixed, cam, Cache, app, faulty>>

-----------------------------------------------------------------------------
(* gp_filesystem_set_info.  The camera may have changed a part of what was  *)
(* asked for when the driver fails.                                        *)

Changed(fields, perm, time) ==
  [perm |-> IF "perm" \in fields THEN perm ELSE cam.perm,
   time |-> IF "time" \in fields THEN time ELSE cam.time]

\* Attributes such as the size are not the caller's to change.
SetsReadOnly == Fails("error") /\ UNCHANGED <<cam, entry>>

\* Drivers say nothing of a time that they do not set, and refuse permissions
\* that they do not (SetInfoFails).
Sets ==
  \E asked \in SUBSET {"perm", "time"}, perm \in BOOLEAN, time \in Time :
    /\ "perm" \in asked => "perm" \in driver.sets
    /\ cam' = Changed(asked \intersect driver.sets, perm, time)
    /\ entry' = [entry EXCEPT !.info.perm = IF "perm" \in asked THEN perm ELSE @]
    /\ Succeeds

SetInfo ==
  /\ Found("set")
  /\ IF driver.sets = {}
     THEN Fails("unsupported") /\ UNCHANGED <<cam, entry>>
     ELSE SetsReadOnly \/ Sets
  /\ UNCHANGED <<Fixed, listed, slot, Memory, faulty>>

\* Mutant: the information stays clean, as after a success.
SetInfoFailsClean ==
  /\ Found("set") /\ driver.sets # {} /\ "set" \in driver.fails
  /\ \E done \in SUBSET driver.sets, perm \in BOOLEAN, time \in Time :
       cam' = Changed(done, perm, time)
  /\ faulty' = TRUE
  /\ Fails("error")
  /\ UNCHANGED <<Fixed, Cache, Memory>>

SetInfoFails ==
  /\ Found("set") /\ driver.sets # {} /\ "set" \in driver.fails
  /\ \E done \in SUBSET driver.sets, perm \in BOOLEAN, time \in Time :
       cam' = Changed(done, perm, time)
  /\ entry' = [entry EXCEPT !.dirty = TRUE]
  /\ faulty' = TRUE
  /\ Fails("error")
  /\ UNCHANGED <<Fixed, listed, slot, Memory>>

-----------------------------------------------------------------------------
(* The driver *)

DriverFails ==
  /\ \/ "list" \in driver.fails /\ At("driver list")
     \/ "info" \in driver.fails /\ At("driver info")
     \/ "file" \in driver.fails /\ (At("driver file") \/ At("sized"))
  /\ faulty' = TRUE
  /\ Fails("error")
  /\ UNCHANGED <<Fixed, cam, Cache, Memory>>

\* A listing gives the name, or appends it and hands over what it has got.
DriverList ==
  /\ At("driver list")
  /\ entry' = [NoEntry EXCEPT !.known = TRUE]
  /\ Goes([Continue("handed") EXCEPT !.rest = driver.hands])
  /\ UNCHANGED <<Fixed, cam, listed, slot, Memory, ret, faulty>>

HandInfo ==      \* gp_filesystem_set_info_noop
  /\ At("handed") /\ Top.rest # << >> /\ Head(Top.rest) = "info"
  /\ entry' = [entry EXCEPT !.info = SentInfo, !.dirty = FALSE]
  /\ Goes([Top EXCEPT !.rest = Tail(@)])
  /\ UNCHANGED <<Fixed, cam, listed, slot, Memory, ret, faulty>>

HandFile ==
  /\ At("handed") /\ Top.rest # << >> /\ Head(Top.rest) # "info"
  /\ Put(NewFile, Sent(Head(Top.rest)))
  /\ Calls([Top EXCEPT !.rest = Tail(@)], Frame("take", Head(Top.rest), NewFile))
  /\ UNCHANGED <<Fixed, cam, Cache, app, ret, faulty>>

HandedAll ==
  /\ At("handed") /\ Top.rest = << >>
  /\ Succeeds
  /\ UNCHANGED <<Fixed, cam, Cache, Memory, faulty>>

\* The driver writes to the entry's info, which stays dirty until it returns.
DriverInfo ==
  /\ At("driver info")
  /\ entry' = [entry EXCEPT !.info = SentInfo]
  /\ Goes([Continue("handed") EXCEPT !.rest = IF driver.info = "hands" THEN << "preview" >>
                                              ELSE << >>])
  /\ UNCHANGED <<Fixed, cam, listed, slot, Memory, ret, faulty>>

DriverFile ==
  /\ At("driver file") /\ ~(driver.asks /\ Top.kind = "normal")
  /\ IF Top.kind \in driver.files
     THEN Put(Top.file, Sent(Top.kind)) /\ Succeeds
     ELSE Fails("unsupported") /\ UNCHANGED obj
  /\ UNCHANGED <<Fixed, cam, Cache, app, faulty>>

DriverAsks ==
  /\ At("driver file") /\ driver.asks /\ Top.kind = "normal"
  /\ Calls(Continue("sized"), Frame("info", "normal", NoFile))
  /\ UNCHANGED <<Fixed, cam, Cache, Memory, ret, faulty>>

DriverSized ==
  /\ At("sized")
  /\ IF ret.code = "ok" THEN Put(Top.file, Sent("normal")) /\ Succeeds
     ELSE Fails(ret.code) /\ UNCHANGED obj
  /\ UNCHANGED <<Fixed, cam, Cache, app, faulty>>

-----------------------------------------------------------------------------
(* The application's calls, and what happens to the file between them *)

\* Objects without a reference are gone; o is the application's object.
Kept(o, content) ==
  [f \in File |-> IF f = o THEN content
                  ELSE IF f \in {slot[k] : k \in Kind} THEN obj[f] ELSE Blank]

Begins(name, at, kind, o, content) ==
  /\ Idle
  /\ stack' = << Frame(at, kind, IF at = "get" THEN o ELSE NoFile) >>
  /\ app' = o /\ obj' = Kept(o, content)
  /\ op' = name /\ ret' = NoAnswer /\ faulty' = FALSE
  /\ UNCHANGED <<driver, photo, cam, Cache>>

CameraFileGetInfo == Begins("info", "info", "normal", app, obj[app])
CameraFileSetInfo == Begins("set", "set", "normal", app, obj[app])

CameraFileGet ==
  \E k \in Kind :
    IF Reuses THEN Begins(k, "get", k, app, Cleaned(app))
    ELSE Free # {} /\ Begins(k, "get", k, NewFile, Blank)

\* gp_filesystem_reset, which drivers call.
Reset ==
  /\ Idle
  /\ listed' = FALSE /\ entry' = NoEntry /\ slot' = NoSlot
  /\ UNCHANGED <<Fixed, cam, Memory, stack, ret, faulty>>

\* gp_filesystem_lru_free, for another picture.
Evict ==
  /\ Idle /\ slot["normal"] # NoFile
  /\ slot' = [slot EXCEPT !["normal"] = NoFile]
  /\ UNCHANGED <<Fixed, cam, listed, entry, Memory, stack, ret, faulty>>

-----------------------------------------------------------------------------

Init ==
  /\ driver \in Driver /\ photo \in Photo
  /\ cam \in [perm : BOOLEAN, time : Time]
  /\ listed = FALSE /\ entry = NoEntry /\ slot = NoSlot
  /\ obj = [f \in File |-> Blank]
  /\ app = CHOOSE f \in File : TRUE
  /\ stack = << >> /\ ret = NoAnswer
  /\ op = "none" /\ faulty = FALSE

Library ==
  \/ ListFolder \/ NotFound
  \/ InfoUnsupported \/ InfoClean \/ InfoDirty \/ InfoAsked \/ InfoTimed
  \/ ExifTime \/ ExifRead
  \/ GetFile \/ GotFile \/ GotSecond \/ Cached \/ CopyCached \/ Download
  \/ TakeFile \/ Stamped \/ Searched
  \/ SetInfo \/ SetInfoFails

DriverStep ==
  \/ DriverFails \/ DriverList \/ HandInfo \/ HandFile \/ HandedAll
  \/ DriverInfo \/ DriverFile \/ DriverAsks \/ DriverSized

Application ==
  CameraFileGetInfo \/ CameraFileSetInfo \/ CameraFileGet \/ Reset \/ Evict

Next == Library \/ DriverStep \/ Application

Spec == Init /\ [][Next]_vars

\* A function that runs goes on.
FairSpec == Spec /\ WF_vars(Library \/ DriverStep)

-----------------------------------------------------------------------------

TypeOK ==
  /\ driver \in Driver /\ photo \in Photo
  /\ cam \in [perm : BOOLEAN, time : Time]
  /\ listed \in BOOLEAN
  /\ entry \in [known : BOOLEAN, dirty : BOOLEAN, info : InfoType]
  /\ slot \in [Kind -> File \union {NoFile}]
  /\ obj \in [File -> Content]
  /\ app \in File
  /\ stack \in Seq(FrameType)
  /\ ret \in [code : {"none", "ok", "error", "unsupported", "not found"}, info : InfoType]
  /\ op \in Kind \union {"none", "info", "set"}
  /\ faulty \in BOOLEAN

Answered(name) == Idle /\ op = name /\ ret.code = "ok"

\* A download that succeeds leaves the kind of file that was asked for in the
\* application's object, whether it came from the camera, from the cache, or
\* out of another file (gp_filesystem_get_file and its two detours).
DownloadIsTrue == \A k \in Kind : Answered(k) => obj[app].holds = k

\* The time that the search in the EXIF data comes to.
Findable ==
  CASE ~driver.jpeg -> None
    [] driver.jpeg /\ "exif" \in driver.files -> photo.date
    [] driver.jpeg /\ "exif" \notin driver.files /\ photo.exifHere
         /\ ("preview" \in driver.files \/ driver.info = "hands") -> photo.date
    [] OTHER -> None

\* What gp_filesystem_get_info tells of a file is what the camera says now,
\* whatever was cached, handed over or changed before, and after changes that
\* failed half-way; a time that the camera does not tell is found in the EXIF
\* data if the driver can get at them and did not fail.
InfoIsTrue ==
  Answered("info") =>
    /\ ret.info.perm = cam.perm
    /\ IF driver.time THEN ret.info.time = cam.time
       ELSE \/ ret.info.time = Findable
            \/ faulty /\ ret.info.time = None

\* The functions call each other, and end: every call comes back to the
\* application (gp_filesystem_get_info, gp_filesystem_get_exif_mtime,
\* gp_filesystem_get_file, gp_filesystem_set_file_noop and the driver).
CallReturns == ~Idle ~> Idle
=============================================================================

-------------------------- MODULE CameraFilesystem --------------------------
(***************************************************************************)
(* The virtual filesystem of libgphoto2/gphoto2-filesys.c: a tree of       *)
(* folders that caches what the camera's driver lists.  Every folder has   *)
(* two flags, files_dirty and folders_dirty; what they guard is asked of   *)
(* the driver on demand, at any depth, from within any operation.          *)
(*                                                                         *)
(* The camera is external: the directories and files it really has, and    *)
(* driver functions that may fail.  A path is a sequence of names.         *)
(* Contents of files are left out (FscacheLru is about them).              *)
(***************************************************************************)
EXTENDS Naturals, Sequences, FiniteSets, SequencesExt

CONSTANTS
  Name, FileName,
  MaxDepth, MaxDirs, MaxFiles, \* bounds on what the camera has, "/" not counted
  InitCameras,   \* what the camera may have at first
  MaxCalls,      \* driver calls of one operation that are told apart
  MayFail,       \* which of them may fail: sets of their numbers, in the order
                 \* they are made; the last number stands for all that follow
  HasDeleteAll,  \* whether the driver has a delete_all_func: a subset of BOOLEAN
  RemovesTrees,  \* the camera removes a folder with all that is in it
  NewLevels      \* how many levels of folders a capture may create

Path == BoundedSeq(Name, MaxDepth)
Root == 1
NULL == 0

\* The folders of a camera, which has "/" and finitely many others.
Dirs(cam)       == DOMAIN cam
Files(cam, p)   == IF p \in Dirs(cam) THEN cam[p] ELSE {}
SubDirs(cam, p) == {nm \in Name : Append(p, nm) \in Dirs(cam)}
IsCamera(cam) ==
  /\ IsFiniteSet(Dirs(cam)) /\ << >> \in Dirs(cam) /\ Dirs(cam) \subseteq Path
  /\ cam = [p \in Dirs(cam) |-> cam[p]]
  /\ \A p \in Dirs(cam) : cam[p] \subseteq FileName /\ IsFiniteSet(cam[p])

ASSUME CameraAssumption == \A cam \in InitCameras : IsCamera(cam)
ASSUME BoundAssumption  == /\ MaxDepth \in Nat /\ MaxCalls \in Nat \ {0}
                           /\ MayFail \subseteq SUBSET (1..MaxCalls)

VARIABLES
  camera, \* [directory -> its files], on the camera
  cache,  \* the folder cells of the heap; Free when not allocated
  news,   \* a captured file that the driver is about to append, or NoNews
  answer  \* what the last operation returned

vars == <<camera, cache, news, answer>>

\* A cell points to its parent here; the code chains the children of a cell.  It
\* keeps the last name of its path, the others being those of its ancestors.
Folder == [path : Path, parent : Nat, files : SUBSET FileName,
           files_dirty : BOOLEAN, folders_dirty : BOOLEAN]
NewFolder(n, p) == [path |-> p, parent |-> n, files |-> {},
                    files_dirty |-> TRUE, folders_dirty |-> TRUE]
Free == [path |-> << >>, parent |-> NULL, files |-> {},
         files_dirty |-> FALSE, folders_dirty |-> FALSE]

\* The cells that are allocated: all but the root folder have a parent.
Cells(c) == {n \in 1..Len(c) : n = Root \/ c[n].parent # NULL}

NoNews == [path |-> << >>, file |-> "none"]
ASSUME NewsAssumption == NoNews.file \notin FileName

\* What an operation returns.
Done         == [of |-> "done"]
Failed       == [of |-> "failed"]
Undefined    == [of |-> "undefined"]  \* it has used a folder that is freed
Listed(w, p, S)  == [of |-> w, path |-> p, names |-> S]
Counted(p, n)    == [of |-> "count", path |-> p, n |-> n]
Sought(p, x, found) == [of |-> "sought", path |-> p, file |-> x, found |-> found]
Found(x, found)  == [of |-> "found", file |-> x, found |-> found]

TypeOK ==
  /\ IsCamera(camera)
  /\ cache \in Seq(Folder) /\ Len(cache) >= Root
  /\ news = NoNews \/ (news.path \in Path /\ news.file \in FileName)

\* gp_filesystem_new.
Init ==
  /\ camera \in InitCameras
  /\ cache = <<NewFolder(NULL, << >>)>>
  /\ news = NoNews
  /\ answer = Done

-----------------------------------------------------------------------------
(***************************************************************************)
(* The internal functions.  They pass a record s through an operation:     *)
(* camera and cache; calls, the driver calls made so far; bad, those of    *)
(* them that fail; freed, the cells the operation has freed; and stale, it *)
(* has used one of those.                                                  *)
(***************************************************************************)

Begin(bad) == [camera |-> camera, cache |-> cache, calls |-> 0, bad |-> bad,
               freed |-> {}, stale |-> FALSE]

\* The records that an internal function may pass on which, like the lookups,
\* changes nothing on the camera.
Records(s) == [camera : {s.camera}, cache : Seq(Folder), calls : 0..MaxCalls,
               bad : {s.bad}, freed : SUBSET Nat, stale : BOOLEAN]

NextCall(s)  == IF s.calls < MaxCalls THEN s.calls + 1 ELSE MaxCalls
Called(s)    == [s EXCEPT !.calls = NextCall(s)]
CallFails(s) == NextCall(s) \in s.bad
Stale(s)     == [s EXCEPT !.stale = TRUE]

Kids(s, n) == {m \in Cells(s.cache) : s.cache[m].parent = n}
NameOf(s, n) == Last(s.cache[n].path)

\* The child of that name.
Child(s, n, nm) ==
  LET K == {m \in Kids(s, n) : NameOf(s, m) = nm}
  IN IF K = {} THEN NULL ELSE CHOOSE m \in K : TRUE

\* delete_folder.
Release(s, M) ==
  [s EXCEPT !.cache = [n \in 1..Len(@) |-> IF n \in M THEN Free ELSE @[n]],
            !.freed = @ \union M]

\* append_folder_one.  The cell is one that the operation has not freed.
AppendFolderOne(s, n, nm) ==
  LET c == s.cache
      m == CHOOSE m \in 1..Len(c) + 1 : m \notin Cells(c) \union s.freed
      f == NewFolder(n, Append(c[n].path, nm))
  IN [s EXCEPT !.cache = IF m \in 1..Len(c) THEN [c EXCEPT ![m] = f]
                                            ELSE Append(c, f)]

\* append_folder_one for each of the names S.
AppendFolders(s, n, S) ==
  LET names == SetToSeq(S)
      first[k \in 0..Len(names)] ==
        IF k = 0 THEN s ELSE AppendFolderOne(first[k - 1], n, names[k])
  IN first[Len(names)]

\* What recurse_delete_folder finds below a folder: the least set that has its
\* subfolders, and theirs.
Below(s, n) ==
  {m \in Cells(s.cache) :
     \A M \in SUBSET Cells(s.cache) :
       Kids(s, n) \subseteq M /\ (\A x \in M : Kids(s, x) \subseteq M) => m \in M}

\* What an internal function returns: the record, whether it is GP_OK, and the
\* folder it has found.
Ret(s, ok, n) == [s |-> s, ok |-> ok, n |-> n]

(***************************************************************************)
(* Looking up a folder lists folders, and listing one looks up its path.   *)
(* The path of what is listed is shorter: below, look is the function that *)
(* looks up the path p in question, from a record to what is returned.     *)
(***************************************************************************)

\* delete_all_folders of a path (there is no check that it is found).
DeleteAllFolders(look, s) ==
  LET l == look[s]
  IN IF ~l.ok THEN Stale(l.s) ELSE Release(l.s, Below(l.s, l.n))

\* Mutant: the old subfolders are not deleted first.
RefillFoldersAgain(look, s, n, p) ==
  LET filled == AppendFolders(s, n, SubDirs(s.camera, p))
  IN Ret([filled EXCEPT !.cache[n].folders_dirty = FALSE], TRUE, n)

\* Mutant: the folder stays dirty.
RefillFoldersDirty(look, s, n, p) ==
  LET emptied == DeleteAllFolders(look, s)
      filled  == AppendFolders(emptied, n, SubDirs(s.camera, p))
  IN IF emptied.stale \/ n \in emptied.freed THEN Ret(Stale(emptied), FALSE, NULL)
     ELSE Ret(filled, TRUE, n)

\* gp_filesystem_list_folders, once the folder n is found and the driver has
\* answered: the old subfolders go, the listed ones come.
RefillFolders(look, s, n, p) ==
  LET emptied == DeleteAllFolders(look, s)
      filled  == AppendFolders(emptied, n, SubDirs(s.camera, p))
  IN IF emptied.stale \/ n \in emptied.freed THEN Ret(Stale(emptied), FALSE, NULL)
     ELSE Ret([filled EXCEPT !.cache[n].folders_dirty = FALSE], TRUE, n)

\* Mutant: the folder is marked clean before the driver is asked.
RelistEarly(look, s, p) ==
  LET l == look[s]
  IN IF ~l.ok \/ ~l.s.cache[l.n].folders_dirty THEN l
     ELSE IF CallFails(l.s) \/ p \notin Dirs(l.s.camera)
          THEN Ret([Called(l.s) EXCEPT !.cache[l.n].folders_dirty = FALSE],
                   FALSE, l.n)
     ELSE RefillFolders(look, Called(l.s), l.n, p)

\* gp_filesystem_list_folders.
Relist(look, s, p) ==
  LET l == look[s]
  IN IF ~l.ok \/ ~l.s.cache[l.n].folders_dirty THEN l
     ELSE IF CallFails(l.s) \/ p \notin Dirs(l.s.camera)
          THEN Ret(Called(l.s), FALSE, l.n)
     ELSE RefillFolders(look, Called(l.s), l.n, p)

\* One turn of the loop of lookup_folder: in the folder of the path p, for the
\* next name.  A dirty folder is listed, by its path and whatever comes of it;
\* then the loop goes on in the folder that it held before.
Enter(look, s, p, nm) ==
  LET l == look[s]
      t == IF l.s.cache[l.n].folders_dirty THEN Relist(look, l.s, p).s ELSE l.s
      k == Child(t, l.n, nm)
  IN IF ~l.ok THEN l
     ELSE IF t.stale \/ l.n \in t.freed THEN Ret(Stale(t), FALSE, NULL)
     ELSE Ret(t, k # NULL, k)

\* lookup_folder for the path p, from any record like s.
LookupOf(s, p) ==
  LET look[i \in 0..Len(p)] ==
        [t \in Records(s) |->
           IF i = 0 THEN Ret(t, TRUE, Root)
           ELSE Enter(look[i - 1], t, SubSeq(p, 1, i - 1), p[i])]
  IN look[Len(p)]

Lookup(s, p)      == LookupOf(s, p)[s]
ListFolders(s, p) == Relist(LookupOf(s, p), s, p)

\* Goes on with what an internal function has returned, or returns its error.
IfOk(r, GoOn(_)) == IF r.ok THEN GoOn(r) ELSE r

\* gp_filesystem_list_files: the folder is emptied and marked clean before the
\* driver is asked.
ListFiles(s, p) ==
  IfOk(Lookup(s, p), LAMBDA l :
    LET c == [Called(l.s) EXCEPT !.cache[l.n].files = {},
                                 !.cache[l.n].files_dirty = FALSE]
    IN IF ~l.s.cache[l.n].files_dirty THEN l
       ELSE IF CallFails(l.s) \/ p \notin Dirs(c.camera) THEN Ret(c, FALSE, l.n)
       ELSE Ret([c EXCEPT !.cache[l.n].files = c.camera[p]], TRUE, l.n))

\* The file list of the folder n, found by its path p, is made clean.
CleanFiles(s, n, p) ==
  LET Made(r) == IF n \in r.s.freed THEN Ret(Stale(r.s), FALSE, NULL)
                                    ELSE Ret(r.s, r.ok, n)
  IN IF s.cache[n].files_dirty THEN Made(ListFiles(s, p)) ELSE Ret(s, TRUE, n)

\* lookup_folder_file: the folder, if the file is in it.
LookupFile(s, p, x) ==
  LET Search(t, n) == Ret(t, ~t.stale /\ x \in t.cache[n].files, n)
  IN IfOk(Lookup(s, p), LAMBDA l : Search(CleanFiles(l.s, l.n, p).s, l.n))

\* gp_filesystem_delete_file; delete_file unlinks the cell.
DeleteOne(s, p, x) ==
  IfOk(LookupFile(s, p, x), LAMBDA l :
    LET c == Called(l.s)
    IN IF CallFails(l.s) \/ x \notin Files(c.camera, p) THEN Ret(c, FALSE, l.n)
       ELSE Ret([c EXCEPT !.cache[l.n].files = @ \ {x},
                          !.camera[p] = @ \ {x}], TRUE, l.n))

\* gp_filesystem_delete_file for each of the files X, up to an error.
DeleteEach(s, p, X) ==
  LET files == SetToSeq(X)
      first[k \in 0..Len(files)] ==
        IF k = 0 THEN Ret(s, TRUE, NULL)
        ELSE IfOk(first[k - 1], LAMBDA r : DeleteOne(r.s, p, files[k]))
  IN first[Len(files)]

\* gp_filesystem_delete_all_one_by_one.
DeleteOneByOne(s, p) ==
  IfOk(ListFiles(s, p), LAMBDA r : DeleteEach(r.s, p, r.s.cache[r.n].files))

\* gp_filesystem_delete_all.  A delete_all_func that fails has left some files.
DeleteFiles(s, p, has, left) ==
  IfOk(Lookup(s, p), LAMBDA l :
    LET c == [Called(l.s) EXCEPT !.cache[l.n].files_dirty = TRUE]
        Cleaned(r) == IF l.n \in r.s.freed THEN Ret(Stale(r.s), FALSE, NULL)
                      ELSE Ret([r.s EXCEPT !.cache[l.n].files_dirty = FALSE],
                               TRUE, l.n)
    IN IF ~has THEN DeleteOneByOne(l.s, p)
       ELSE IF p \notin Dirs(c.camera) THEN DeleteOneByOne(c, p)
       ELSE IF CallFails(l.s)
            THEN IfOk(DeleteOneByOne([c EXCEPT !.camera[p] = @ \intersect left], p),
                      Cleaned)
       ELSE Ret([c EXCEPT !.cache[l.n].files = {},
                          !.cache[l.n].files_dirty = FALSE,
                          !.camera[p] = {}], TRUE, l.n))

\* append_to_folder: like a lookup, but nothing is listed, and the first folder
\* that is missing is created - and returned, even if more names follow.  (ok says
\* that none was missing yet.)
AppendFolder(s, p) ==
  LET to[i \in 0..Len(p)] ==
        IF i = 0 THEN Ret(s, TRUE, Root)
        ELSE LET f == to[i - 1]
                 k == Child(s, f.n, p[i])
                 t == AppendFolderOne(s, f.n, p[i])
             IN IF ~f.ok THEN f
                ELSE IF k # NULL THEN Ret(s, TRUE, k)
                ELSE Ret(t, FALSE, Child(t, f.n, p[i]))
  IN [to[Len(p)] EXCEPT !.ok = TRUE]

\* gp_filesystem_append.
AppendFile(s, p, x) ==
  LET Folders(l) == IF l.s.stale \/ l.ok THEN l ELSE AppendFolder(l.s, p)
      Add(r) == Ret([r.s EXCEPT !.cache[r.n].files = @ \union {x}], TRUE, r.n)
  IN IfOk(Folders(Lookup(s, p)), LAMBDA f : IfOk(CleanFiles(f.s, f.n, p), Add))

\* The camera with the directories N, too.
With(cam, N) == [d \in Dirs(cam) \union N |-> Files(cam, d)]

\* gp_filesystem_make_dir.
MakeFolder(s, p, nm) ==
  IfOk(Lookup(s, p), LAMBDA l :
    LET q == Append(p, nm)
        cam == l.s.camera
    IN IF CallFails(l.s) \/ p \notin Dirs(cam) \/ q \in Dirs(cam)
       THEN Ret(l.s, FALSE, l.n)
       ELSE Ret(AppendFolderOne([l.s EXCEPT !.camera = With(cam, {q})], l.n, nm),
                TRUE, l.n))

\* gp_filesystem_remove_dir: refused when the folder's cell has children or
\* files; whether they have been listed is not looked at.
RemoveFolder(s, p, nm) ==
  LET q == Append(p, nm)
      RemoveFrom(t, n) ==
        LET k == Child(t, n, nm)
            tree  == {d \in Dirs(t.camera) : IsPrefix(q, d)}
            empty == tree = {q} /\ t.camera[q] = {}
        IN IF t.stale \/ n \in t.freed THEN Ret(Stale(t), FALSE, NULL)
           ELSE IF k = NULL \/ Kids(t, k) # {} \/ t.cache[k].files # {}
                THEN Ret(t, FALSE, NULL)
           ELSE IF CallFails(t) \/ tree = {} \/ ~(empty \/ RemovesTrees)
                THEN Ret(t, FALSE, NULL)
           ELSE Ret([Release(t, {k}) EXCEPT
                       !.camera = Restrict(@, DOMAIN @ \ tree)], TRUE, NULL)
  IN IfOk(Lookup(s, p), LAMBDA l :
       RemoveFrom(IF l.s.cache[l.n].folders_dirty THEN ListFolders(l.s, p).s
                                                  ELSE l.s, l.n))

\* Mutant: the file is uploaded, but not appended.
PutFileForgets(s, p, x) ==
  IfOk(Lookup(s, p), LAMBDA l :
    IF CallFails(l.s) \/ p \notin Dirs(l.s.camera) \/ x \in l.s.camera[p]
    THEN Ret(l.s, FALSE, l.n)
    ELSE Ret([l.s EXCEPT !.camera[p] = @ \union {x}], TRUE, l.n))

\* gp_filesystem_put_file: the upload, then append_file, which refuses a name
\* that the folder has.
PutFile(s, p, x) ==
  IfOk(Lookup(s, p), LAMBDA l :
    IF CallFails(l.s) \/ p \notin Dirs(l.s.camera) \/ x \in l.s.camera[p]
    THEN Ret(l.s, FALSE, l.n)
    ELSE Ret([l.s EXCEPT !.camera[p] = @ \union {x},
                         !.cache[l.n].files = @ \union {x}],
             x \notin l.s.cache[l.n].files, l.n))

\* gp_filesystem_scan of the folder p: list it, and unless the file is in it, scan
\* its subfolders with deeper; an error ends the whole scan.
ScanFolder(deeper, s, p, x) ==
  LET Descend(d) ==
        LET names == SetToSeq({NameOf(d.s, k) : k \in Kids(d.s, d.n)})
            first[k \in 0..Len(names)] ==
              IF k = 0 THEN d
              ELSE IfOk(first[k - 1], LAMBDA r : deeper[r.s][Append(p, names[k])])
        IN first[Len(names)]
  IN IfOk(ListFiles(s, p), LAMBDA r :
       IF x \in r.s.cache[r.n].files THEN r
       ELSE IfOk(ListFolders(r.s, p), Descend))

\* gp_filesystem_scan.  At the depth d there are d levels of folders to scan.
Scan(s, p, x) ==
  LET scan[d \in 0..MaxDepth + 1] ==
        [t \in Records(s) |-> [q \in Path |->
           IF d = 0 THEN Ret(t, TRUE, NULL) ELSE ScanFolder(scan[d - 1], t, q, x)]]
  IN scan[MaxDepth + 1][s][p]

\* Mutant: a dirty folder is not listed.
SeekFileCached(s, p, x) == Lookup(s, p)

\* gp_filesystem_number: a dirty folder is listed if the file is not found, and
\* then searched again.
SeekFile(s, p, x) ==
  IfOk(Lookup(s, p), LAMBDA l :
    IF x \in l.s.cache[l.n].files \/ ~l.s.cache[l.n].files_dirty THEN l
    ELSE IfOk(ListFiles(l.s, p), LAMBDA r : Lookup(r.s, p)))

\* gp_filesystem_reset: everything below the root folder goes; the root folder
\* is marked dirty, and its files stay.
ResetCache(s) ==
  [Release(s, Below(s, Root)) EXCEPT !.cache[Root].files_dirty = TRUE,
                                     !.cache[Root].folders_dirty = TRUE]

-----------------------------------------------------------------------------
(***************************************************************************)
(* The operations.  bad says which of the driver calls fail.               *)
(***************************************************************************)

\* Nothing is undefined yet, and the driver is not about to append a file.
Ready == answer # Undefined /\ news = NoNews

\* The operation ends with the record r.s, and returns a.
Return(r, a) ==
  /\ camera' = r.s.camera
  /\ cache' = r.s.cache
  /\ answer' = IF r.s.stale THEN Undefined ELSE a

\* A whole operation: what it has done, and the answer if all went well.
Operate(r, Answer(_)) ==
  /\ Ready
  /\ Return(r, IF r.ok THEN Answer(r) ELSE Failed)
  /\ UNCHANGED news

OnlyDone(r) == Done

List(p, bad) ==
  Operate(ListFiles(Begin(bad), p), LAMBDA r :
            Listed("files", p, r.s.cache[r.n].files))

ListSub(p, bad) ==
  Operate(ListFolders(Begin(bad), p), LAMBDA r :
            Listed("folders", p, {NameOf(r.s, k) : k \in Kids(r.s, r.n)}))

Delete(p, x, bad) == Operate(DeleteOne(Begin(bad), p, x), OnlyDone)

DeleteAll(p, bad, has, left) ==
  Operate(DeleteFiles(Begin(bad), p, has, left), OnlyDone)

MakeDir(p, nm, bad) ==
  /\ Len(p) < MaxDepth /\ Cardinality(Dirs(camera)) <= MaxDirs
  /\ Operate(MakeFolder(Begin(bad), p, nm), OnlyDone)

RemoveDir(p, nm, bad) ==
  /\ Len(p) < MaxDepth
  /\ Operate(RemoveFolder(Begin(bad), p, nm), OnlyDone)

FileCount == MapThenSumSet(LAMBDA p : Cardinality(camera[p]), Dirs(camera))

Put(p, x, bad) ==
  /\ FileCount < MaxFiles
  /\ Operate(PutFile(Begin(bad), p, x), OnlyDone)

\* gp_filesystem_count looks at the cell as it is.
Count(p, bad) ==
  Operate(Lookup(Begin(bad), p), LAMBDA r :
            Counted(p, Cardinality(r.s.cache[r.n].files)))

Number(p, x, bad) ==
  Operate(SeekFile(Begin(bad), p, x), LAMBDA r :
            Sought(p, x, x \in r.s.cache[r.n].files))

\* gp_filesystem_get_folder: the scan, then a search of the whole cache.
GetFolder(x, bad) ==
  Operate(Scan(Begin(bad), << >>, x), LAMBDA r :
            Found(x, \E n \in Cells(r.s.cache) : x \in r.s.cache[n].files))

Reset == Operate(Ret(ResetCache(Begin({})), TRUE, Root), OnlyDone)

\* A capture creates a file on the camera, and the folders that it takes; the
\* driver comes to know of it ...
Capture(p, x) ==
  LET new == Prefixes(p) \ Dirs(camera)
  IN /\ Ready
     /\ x \notin Files(camera, p) /\ FileCount < MaxFiles
     /\ Cardinality(new) <= NewLevels
     /\ Cardinality(Dirs(camera) \union new) <= MaxDirs + 1
     /\ camera' = [With(camera, new) EXCEPT ![p] = @ \union {x}]
     /\ news' = [path |-> p, file |-> x]
     /\ UNCHANGED <<cache, answer>>

\* ... and calls gp_filesystem_append.
Appended(bad) ==
  /\ news # NoNews /\ answer # Undefined
  /\ Return(AppendFile(Begin(bad), news.path, news.file), answer)
  /\ news' = NoNews

\* A file goes from the camera; the driver is told, and calls
\* gp_filesystem_delete_file_noop, whose error it passes over.
Removed(p, x, bad) ==
  LET gone == [Begin(bad) EXCEPT !.camera[p] = @ \ {x}]
      Unlink(l) == Ret([l.s EXCEPT !.cache[l.n].files = @ \ {x}], TRUE, l.n)
      Told(r) == Ret(r.s, TRUE, r.n)
  IN /\ x \in Files(camera, p)
     /\ Operate(Told(IfOk(LookupFile(gone, p, x), Unlink)), OnlyDone)

Next ==
  \E bad \in MayFail :
    \/ \E p \in Path :
         \/ List(p, bad) \/ ListSub(p, bad) \/ Count(p, bad)
         \/ \E has \in HasDeleteAll, left \in SUBSET Files(camera, p) :
              DeleteAll(p, bad, has, left)
         \/ \E nm \in Name : MakeDir(p, nm, bad) \/ RemoveDir(p, nm, bad)
         \/ \E x \in FileName :
              \/ Delete(p, x, bad) \/ Put(p, x, bad) \/ Number(p, x, bad)
              \/ Removed(p, x, bad) \/ Capture(p, x)
    \/ \E x \in FileName : GetFolder(x, bad)
    \/ Appended(bad)
    \/ Reset

Spec == Init /\ [][Next]_vars

-----------------------------------------------------------------------------
(***************************************************************************)
(* Properties.                                                             *)
(***************************************************************************)

\* The root folder stays, and every other cell hangs in the tree: when a folder is
\* freed (delete_folder), no subfolder is left allocated without an owner.  No
\* folder has two subfolders of one name, through listings, gp_filesystem_append
\* and gp_filesystem_make_dir, which append without looking: lookup_folder would
\* find only one of them.
TreeIsSound ==
  /\ TypeOK
  /\ cache[Root].path = << >> /\ cache[Root].parent = NULL
  /\ \A n \in Cells(cache) \ {Root} :
       LET m == cache[n].parent
       IN /\ m \in Cells(cache)
          /\ \E nm \in Name : cache[n].path = Append(cache[m].path, nm)
  /\ \A m, n \in Cells(cache) : cache[m].path = cache[n].path => m = n

\* A folder whose files_dirty is 0 has the files that the camera has, through
\* uploads, captures, deletions and folders that come and go around it.  (A
\* captured file may be still to be appended.)
CleanFilesAreTrue ==
  \A n \in Cells(cache) :
    ~cache[n].files_dirty =>
      LET f == cache[n].files
          real == Files(camera, cache[n].path)
      IN f = real \/ (news.path = cache[n].path /\ f = real \ {news.file})

\* A folder whose folders_dirty is 0 has the subfolders that the camera has,
\* whatever listings have failed; a dirty one has none that the camera has not.
CleanFoldersAreTrue ==
  news = NoNews =>
    \A n \in Cells(cache) :
      LET K == {Last(cache[k].path) : k \in {k \in Cells(cache) : cache[k].parent = n}}
          real == SubDirs(camera, cache[n].path)
      IN K \subseteq real /\ (~cache[n].folders_dirty => K = real)

\* No operation goes on in a folder that it has freed itself: lookup_folder lists
\* "the folders in the parent folder to make it clean" and keeps its pointer.
NothingStale == answer # Undefined

\* gp_filesystem_list_files: "Lists the files in folder using either cached values
\* or (if there aren't any) the file_list_func" - a listing that succeeds is
\* what the camera has.
ListingIsTrue ==
  [][answer' # answer /\ answer'.of = "files"
       => answer'.names = Files(camera', answer'.path)]_vars

Directory == INSTANCE CameraDirectory

\* The cache cannot be told from the camera (gphoto2-filesys.c asks the driver
\* whenever what it knows is dirty).
IsTransparent == Directory!Spec
=============================================================================

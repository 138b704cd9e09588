----------------------------- MODULE FscacheLru -----------------------------
(***************************************************************************)
(* The LRU list of downloaded pictures that libgphoto2/gphoto2-filesys.c   *)
(* threads through the CameraFilesystemFile cells of the virtual           *)
(* filesystem: lru_prev and lru_next in every cell, lru_first, lru_last    *)
(* and lru_size in the CameraFilesystem.  The list is intrusive and linked *)
(* by hand; its first cell points back to itself, because "lru_prev is not *)
(* NULL" is how the code tells that a cell is in the list at all.          *)
(*                                                                         *)
(* A cell's cached CameraFiles are abstracted to their sizes; NoFile is    *)
(* the NULL pointer.  Only the three kinds the LRU looks at are modelled.  *)
(***************************************************************************)
EXTENDS Integers, Sequences, FiniteSets, FiniteSetsExt

CONSTANTS
  Entry,          \* the CameraFilesystemFile cells the heap can hold
  RootEntry,      \* those that belong to the root folder, which reset keeps
  NULL,           \* the null cell pointer
  PicturesToKeep, \* pictures_to_keep, from the setting "cached-images"
  MaxSize,        \* bound: a CameraFile has 1..MaxSize bytes
  SizeMod         \* lru_size is an unsigned long: arithmetic modulo SizeMod

ASSUME EntryAssumption == /\ IsFiniteSet(Entry)
                          /\ NULL \notin Entry
                          /\ RootEntry \subseteq Entry
ASSUME BoundAssumption == /\ PicturesToKeep \in Nat
                          /\ MaxSize \in Nat \ {0}
                          /\ SizeMod \in Nat \ {0}

VARIABLES
  entries,    \* cells linked into the file chain of some folder
  content,    \* content[e][k]: size of the CameraFile of kind k, or NoFile
  lru,        \* the four pointers: [first, last, prev, next]
  lru_size,
  op          \* the gp_filesystem_set_file_noop in progress, or NoOp

vars == <<entries, content, lru, lru_size, op>>

Kind   == {"normal", "raw", "audio"}
NoFile == 0
Size   == 1..MaxSize
Ptr    == Entry \union {NULL}
Links  == [first : Ptr, last : Ptr, prev : [Entry -> Ptr], next : [Entry -> Ptr]]
Op     == [entry : Entry, kind : Kind, size : Size]
NoOp   == [entry |-> NULL, kind |-> "normal", size |-> 1]

NoContent    == [k \in Kind |-> NoFile]
HasContent(e) == \E k \in Kind : content[e][k] # NoFile

EmptyLinks == [first |-> NULL, last |-> NULL,
               prev |-> [e \in Entry |-> NULL],
               next |-> [e \in Entry |-> NULL]]

TypeOK ==
  /\ entries \subseteq Entry
  /\ content \in [Entry -> [Kind -> Size \union {NoFile}]]
  /\ lru \in Links
  /\ lru_size \in 0..SizeMod - 1
  /\ op \in Op \union {NoOp}

Init ==
  /\ entries = {}
  /\ content = [e \in Entry |-> NoContent]
  /\ lru = EmptyLinks
  /\ lru_size = 0
  /\ op = NoOp

-----------------------------------------------------------------------------
(***************************************************************************)
(* The list operations, as functions of the four pointers.                 *)
(***************************************************************************)

\* The code's own test for "this cell is in the list".
InList(l, e) == l.prev[e] # NULL
Listed(l) == {e \in Entry : InList(l, e)}

\* What a loop "ptr = lru_first; while (ptr) ptr = ptr->lru_next" visits: the
\* least set that holds lru_first and is closed under lru_next.
Closed(l, S) == /\ l.first \in S \union {NULL}
                /\ \A x \in S : l.next[x] \in S \union {NULL}
Walked(l) == {e \in Entry : \A S \in SUBSET Entry : Closed(l, S) => e \in S}

\* gp_filesystem_lru_count: only cells with a picture count.
LruCount == Cardinality({e \in Walked(lru) : HasContent(e)})

\* Writing p->lru_next or n->lru_prev, when there is such a neighbour.
Link(f, e, v) == IF e = NULL THEN f ELSE [f EXCEPT ![e] = v]

\* Mutant: the new first cell is not made to point to itself.
RemoveOneNoSelfLink(l, e) ==
  LET p == l.prev[e]
      n == l.next[e]
      only == l.last = e /\ l.first = e
  IN IF p = NULL THEN l
     ELSE [first |-> IF only THEN NULL ELSE IF l.first = e THEN n ELSE l.first,
           last  |-> IF only THEN NULL ELSE IF l.last = e THEN p ELSE l.last,
           prev  |-> [Link(l.prev, n, p) EXCEPT ![e] = NULL],
           next  |-> [Link(l.next, p, n) EXCEPT ![e] = NULL]]

\* gp_filesystem_lru_remove_one: nothing to do for a cell outside the list;
\* otherwise the neighbours close the gap, and when the first cell of several
\* goes its successor becomes the one that points to itself.
RemoveOne(l, e) ==
  LET p == l.prev[e]
      n == l.next[e]
      only   == l.last = e /\ l.first = e
      behead == l.first = e /\ l.last # e
      next == Link(l.next, p, n)
      prev == Link(l.prev, n, IF behead THEN n ELSE p)
  IN IF p = NULL THEN l
     ELSE [first |-> IF only THEN NULL ELSE IF behead THEN n ELSE l.first,
           last  |-> IF only THEN NULL ELSE IF l.last = e THEN p ELSE l.last,
           prev  |-> [prev EXCEPT ![e] = NULL],
           next  |-> [next EXCEPT ![e] = NULL]]

\* Mutant: the old last cell is not made to point to the new one.
InsertLastNoNext(l, e) ==
  IF l.first = NULL
  THEN [l EXCEPT !.first = e, !.last = e, !.prev = [@ EXCEPT ![e] = e]]
  ELSE [l EXCEPT !.last = e, !.prev = [@ EXCEPT ![e] = l.last]]

\* The end of gp_filesystem_lru_update: a cell that is not in the list is put
\* at the end of it.
InsertLast(l, e) ==
  IF l.first = NULL
  THEN [l EXCEPT !.first = e, !.last = e, !.prev = [@ EXCEPT ![e] = e]]
  ELSE [l EXCEPT !.last = e,
                 !.prev = [@ EXCEPT ![e] = l.last],
                 !.next = [@ EXCEPT ![e] = NULL, ![l.last] = e]]

\* Mutant: the files are freed but the cell is left in the list.
FreeFirstStays(l) == l

\* The pointer part of gp_filesystem_lru_free: the first cell leaves the list.
\* (Its error returns, between the cells and their contents, are for files held
\* by a descriptor or a handler: those of the cache are in memory.)
FreeFirst(l) ==
  LET e == l.first
      n == l.next[e]
  IN [first |-> n,
      last  |-> IF n = NULL THEN NULL ELSE l.last,
      prev  |-> [Link(l.prev, n, n) EXCEPT ![e] = NULL],
      next  |-> [l.next EXCEPT ![e] = NULL]]

\* The pointer part of gp_filesystem_lru_clear: every cell of the walk is
\* unlinked.  (Its exit for a "corrupted" list needs a cell of the walk whose
\* lru_prev is not the cell before it, which ListIntact rules out.)
ClearAll(l) ==
  [first |-> NULL, last |-> NULL,
   prev  |-> [e \in Entry |-> IF e \in Walked(l) THEN NULL ELSE l.prev[e]],
   next  |-> [e \in Entry |-> IF e \in Walked(l) THEN NULL ELSE l.next[e]]]

-----------------------------------------------------------------------------
(***************************************************************************)
(* Cells come and go with the files of the folders.                        *)
(***************************************************************************)

\* internal_append: a listed or captured file gets a fresh, zeroed cell.
InternalAppend(e) ==
  /\ op = NoOp
  /\ e \notin entries
  /\ entries' = entries \union {e}
  /\ UNCHANGED <<content, lru, lru_size, op>>

\* append_file, after a successful upload: the cell holds the uploaded file,
\* but it is not entered in the list.
AppendFile(e, s) ==
  /\ op = NoOp
  /\ e \notin entries
  /\ entries' = entries \union {e}
  /\ content' = [content EXCEPT ![e] = [NoContent EXCEPT !["normal"] = s]]
  /\ UNCHANGED <<lru, lru_size, op>>

\* delete_file, and the body of the loop of delete_all_files: unlink the cell,
\* drop its files, free it.  lru_size is left as it is.
DeleteFile(e) ==
  /\ op = NoOp
  /\ e \in entries
  /\ lru' = RemoveOne(lru, e)
  /\ entries' = entries \ {e}
  /\ content' = [content EXCEPT ![e] = NoContent]
  /\ UNCHANGED <<lru_size, op>>

\* gp_filesystem_reset: clear the list, then free the cells of every folder
\* below the root.  The cells of the root folder stay, with their contents.
Reset ==
  /\ op = NoOp
  /\ lru' = ClearAll(lru)
  /\ lru_size' = IF lru.first = NULL THEN lru_size ELSE 0
  /\ entries' = entries \intersect RootEntry
  /\ content' = [e \in Entry |-> IF e \in RootEntry THEN content[e]
                                                    ELSE NoContent]
  /\ UNCHANGED op

-----------------------------------------------------------------------------
(***************************************************************************)
(* gp_filesystem_set_file_noop: a driver hands over a picture.  One step    *)
(* per turn of the pruning loop of gp_filesystem_lru_update.               *)
(***************************************************************************)

StartSetFile(e, k, s) ==
  /\ op = NoOp
  /\ e \in entries
  /\ op' = [entry |-> e, kind |-> k, size |-> s]
  /\ UNCHANGED <<entries, content, lru, lru_size>>

\* Bytes that gp_filesystem_lru_free takes off lru_size for a cell.
Bytes(e) == content[e]["normal"] + content[e]["raw"] + content[e]["audio"]

\* Mutant: the first cell is sent to the end of the list, with its files.
PruneRequeues ==
  /\ op # NoOp
  /\ LruCount > PicturesToKeep
  /\ lru' = InsertLast(RemoveOne(lru, lru.first), lru.first)
  /\ UNCHANGED <<entries, content, lru_size, op>>

\* One turn of the loop: gp_filesystem_lru_free.  A positive count means that
\* lru_first is not NULL.
Prune ==
  /\ op # NoOp
  /\ LruCount > PicturesToKeep
  /\ lru' = FreeFirst(lru)
  /\ lru_size' = (lru_size - Bytes(lru.first)) % SizeMod
  /\ content' = [content EXCEPT ![lru.first] = NoContent]
  /\ UNCHANGED <<entries, op>>

\* The bytes of a file that is replaced come off lru_size only when its cell was
\* in the list.
Replaced == IF InList(lru, op.entry) THEN content[op.entry][op.kind] ELSE NoFile

\* Mutant: a cell that is in the list already keeps its place.
FinishSetFileInPlace ==
  /\ op # NoOp
  /\ LruCount <= PicturesToKeep
  /\ lru_size' = (lru_size - Replaced + op.size) % SizeMod
  /\ lru' = IF InList(lru, op.entry) THEN lru ELSE InsertLast(lru, op.entry)
  /\ content' = [content EXCEPT ![op.entry][op.kind] = op.size]
  /\ op' = NoOp
  /\ UNCHANGED entries

\* The rest of gp_filesystem_lru_update, and the store of set_file_noop.
FinishSetFile ==
  /\ op # NoOp
  /\ LruCount <= PicturesToKeep
  /\ lru_size' = (lru_size - Replaced + op.size) % SizeMod
  /\ lru' = InsertLast(RemoveOne(lru, op.entry), op.entry)
  /\ content' = [content EXCEPT ![op.entry][op.kind] = op.size]
  /\ op' = NoOp
  /\ UNCHANGED entries

Next ==
  \/ \E e \in Entry : InternalAppend(e)
  \/ \E e \in Entry, s \in Size : AppendFile(e, s)
  \/ \E e \in Entry : DeleteFile(e)
  \/ Reset
  \/ \E e \in Entry, k \in Kind, s \in Size : StartSetFile(e, k, s)
  \/ Prune
  \/ FinishSetFile

Spec == Init /\ [][Next]_vars

\* The library is one thread of straight-line code: a call that has begun runs
\* on until it returns.  Nothing forces the application to make another call.
FairSpec == Spec /\ WF_vars(Prune) /\ WF_vars(FinishSetFile)

-----------------------------------------------------------------------------
(***************************************************************************)
(* Properties.                                                             *)
(***************************************************************************)

\* Every link of the list agrees with its neighbours: the first cell points back
\* to itself, the last one ends the chain, the two pointers between any two
\* neighbours mirror each other, and a cell outside the list has neither
\* pointer.  This is what gp_filesystem_lru_check asserts, plus the facts the
\* unlinking code relies on without checking them.
WellFormed(l) ==
  /\ l.first = NULL <=> l.last = NULL
  /\ l.first # NULL => /\ l.prev[l.first] = l.first
                       /\ InList(l, l.last)
                       /\ l.next[l.last] = NULL
  /\ \A e \in Entry :
       /\ ~InList(l, e) => l.next[e] = NULL
       /\ InList(l, e) => l.first # NULL
       /\ InList(l, e) /\ e # l.first =>
            /\ InList(l, l.prev[e])
            /\ l.next[l.prev[e]] = e
       /\ InList(l, e) /\ e # l.last =>
            /\ l.next[e] # NULL
            /\ l.next[e] # l.first
            /\ l.prev[l.next[e]] = e

\* The links of gphoto2-filesys.c stay well formed and reach no freed cell
\* through uploads, listings, deletions, resets and pruning (delete_file and
\* delete_all_files free the cells); nor is the cell of the call in progress
\* freed.
ListIntact == /\ WellFormed(lru)
              /\ Listed(lru) \subseteq entries
              /\ op # NoOp => op.entry \in entries

\* Walking from lru_first along lru_next meets every cell that believes it is in
\* the list, the cell lru_last included: no part of the list is cut off, so
\* gp_filesystem_lru_count and gp_filesystem_lru_clear miss none.
WalkMeetsAll == Walked(lru) = Listed(lru)

\* A cell in the list caches a picture: pruning (gp_filesystem_lru_free) always
\* frees something, and the loop of gp_filesystem_lru_update cannot spin on
\* cells without content.
ListedCache == \A e \in Listed(lru) : HasContent(e)

\* The list never holds more than one picture beyond the limit of
\* gp_filesystem_lru_update, whatever uploads, deletions and resets happened.
AtMostOneExtra == Cardinality(Listed(lru)) <= PicturesToKeep + 1

\* The cells in the order in which a walk of the list l meets them.
WalkOf(l) ==
  LET cell[n \in 1..Cardinality(Walked(l))] ==
        IF n = 1 THEN l.first ELSE l.next[cell[n - 1]]
  IN cell

Queue == INSTANCE FscacheQueue WITH Keep <- PicturesToKeep, queue <- WalkOf(lru),
                                    handed <- op.entry

\* The hand-linked list behaves as a queue: a handed-over picture is the last
\* one to be evicted, and deleting a cell (gp_filesystem_lru_remove_one) keeps
\* the order of the rest.
IsQueue == Queue!Spec

\* Every gp_filesystem_set_file_noop returns: the pruning loop ends.
SetFileReturns == (op # NoOp) ~> (op = NoOp)
=============================================================================

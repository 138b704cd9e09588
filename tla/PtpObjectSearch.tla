--------------------------- MODULE PtpObjectSearch ---------------------------
(***************************************************************************)
(* The list of cached objects of camlibs/ptp2/ptp.c: the array             *)
(* params->objects, of which only the object handles are modelled, the     *)
(* binary search that inserts what it does not find, one step per          *)
(* iteration, the lookup and the removal that use bsearch(), and the       *)
(* listing of a folder, which appends what is new and sorts with qsort().  *)
(*                                                                         *)
(* Two orders are in use: ptp_object_find_or_insert compares the handles   *)
(* as unsigned numbers, bsearch() and qsort() by the sign of their         *)
(* difference, which is an int.  Indices count from 0, as in the code.     *)
(***************************************************************************)
EXTENDS Integers, Sequences, Functions

CONSTANTS
  Half,   \* half the number of handles: 2^31 for the uint32_t of the code
  Handle  \* the handles that the camera uses

ASSUME HandleAssumption ==
  /\ Half \in Nat \ {0}
  /\ Handle \subseteq 1 .. (2 * Half - 1)

VARIABLES
  objects,  \* the handles in the array
  pc,       \* "idle", or where find_or_insert or the listing is
  of,       \* what was called last, or "none",
  handle,   \* and with which handle
  begin, end,
  at,       \* the index of the object returned, or None
  changed   \* the listing has appended something

vars == <<objects, pc, of, handle, begin, end, at, changed>>

None == -1

\* The object at an index, and all of them.
Oid(i)  == objects[i + 1]
Indices == 0 .. (Len(objects) - 1)
Known   == {objects[k] : k \in 1 .. Len(objects)}

TypeOK ==
  /\ objects \in Seq(Handle)
  /\ pc \in {"idle", "probe", "settle", "list"}
  /\ of \in {"none", "find_or_insert", "find", "remove", "list"}
  /\ handle \in Handle \union {0}
  /\ begin \in Nat /\ end \in Nat
  /\ at \in Nat \union {None}
  /\ changed \in BOOLEAN

Init ==
  /\ objects = << >> /\ pc = "idle" /\ of = "none" /\ handle = 0
  /\ begin = 0 /\ end = 0 /\ at = None /\ changed = FALSE

\* memmove() and the new object; memmove() over the one that goes.
Inserted(s, i, h) ==
  [k \in 1 .. (Len(s) + 1) |-> IF k <= i THEN s[k]
                               ELSE IF k = i + 1 THEN h ELSE s[k - 1]]
\* Mutant: the rest is not moved.
WithoutLast(s, i) == [k \in 1 .. (Len(s) - 1) |-> s[k]]

Without(s, i) ==
  [k \in 1 .. (Len(s) - 1) |-> IF k <= i THEN s[k] ELSE s[k + 1]]

-----------------------------------------------------------------------------
(* ptp_object_find_or_insert *)

Called(name, h) == of' = name /\ handle' = h

\* begin and end are 0 between the calls.
Return(i) == pc' = "idle" /\ at' = i /\ begin' = 0 /\ end' = 0 /\ UNCHANGED changed

FindOrInsert(h) ==
  /\ pc = "idle" /\ Called("find_or_insert", h)
  /\ \/ /\ objects = << >>
        /\ objects' = <<h>>
        /\ Return(0)
     \/ /\ objects # << >>
        /\ pc' = "probe" /\ at' = None
        /\ begin' = 0 /\ end' = Len(objects) - 1
        /\ UNCHANGED <<objects, changed>>

Cursor == (end - begin) \div 2 + begin

\* Mutant: the loop goes on until one object is left.
ProbeGoesOn ==
  /\ pc = "probe" /\ UNCHANGED <<objects, of, handle>>
  /\ \/ Oid(Cursor) = handle /\ Return(Cursor)
     \/ /\ Oid(Cursor) # handle
        /\ begin' = IF Oid(Cursor) < handle THEN Cursor ELSE begin
        /\ end'   = IF Oid(Cursor) < handle THEN end ELSE Cursor
        /\ pc' = IF end' = begin' THEN "settle" ELSE "probe"
        /\ UNCHANGED <<at, changed>>

Probe ==
  /\ pc = "probe" /\ UNCHANGED <<objects, of, handle>>
  /\ \/ /\ Oid(Cursor) = handle
        /\ Return(Cursor)
     \/ /\ Oid(Cursor) # handle
        /\ begin' = IF Oid(Cursor) < handle THEN Cursor ELSE begin
        /\ end'   = IF Oid(Cursor) < handle THEN end ELSE Cursor
        /\ pc' = IF end' - begin' <= 1 THEN "settle" ELSE "probe"
        /\ UNCHANGED <<at, changed>>

\* Mutant: an object in the middle goes in front of the one at begin.
InsertAtBegin ==
  IF begin = 0 /\ handle < Oid(0) THEN begin
  ELSE IF end = Len(objects) - 1 /\ handle > Oid(end) THEN end + 1
  ELSE begin

InsertAt ==
  IF begin = 0 /\ handle < Oid(0) THEN begin
  ELSE IF end = Len(objects) - 1 /\ handle > Oid(end) THEN end + 1
  ELSE begin + 1

Settle ==
  /\ pc = "settle" /\ UNCHANGED <<of, handle>>
  /\ \/ Oid(begin) = handle /\ Return(begin) /\ UNCHANGED objects
     \/ Oid(begin) # handle /\ Oid(end) = handle /\ Return(end) /\ UNCHANGED objects
     \/ /\ handle \notin {Oid(begin), Oid(end)}
        /\ objects' = Inserted(objects, InsertAt, handle)
        /\ Return(InsertAt)

-----------------------------------------------------------------------------
(* ptp_object_find, ptp_remove_object_from_cache *)

\* _cmp_ob: a - b modulo 2^32, as an int.
Compare(a, b) ==
  LET diff == IF a >= b THEN a - b ELSE a - b + 2 * Half
  IN IF diff < Half THEN diff ELSE diff - 2 * Half

Ordered(s) == \A j, k \in 1 .. Len(s) : j < k => Compare(s[j], s[k]) <= 0

\* What bsearch() may return: in an array that is not ordered, it may miss.
Hits(h) ==
  LET equal == {i \in Indices : Compare(h, Oid(i)) = 0}
  IN IF Ordered(objects) /\ equal # {} THEN equal ELSE equal \union {None}

Find(h) ==
  /\ pc = "idle" /\ Called("find", h)
  /\ at' \in Hits(h)
  /\ UNCHANGED <<objects, pc, begin, end, changed>>

RemoveFromCache(h) ==
  /\ pc = "idle" /\ Called("remove", h) /\ at' = None
  /\ \E i \in Hits(h) : objects' = IF i = None THEN objects ELSE Without(objects, i)
  /\ UNCHANGED <<pc, begin, end, changed>>

-----------------------------------------------------------------------------
(* The objects' part of ptp_list_folder *)

BeginListing ==
  /\ pc = "idle" /\ Called("list", 0)
  /\ pc' = "list" /\ changed' = FALSE /\ at' = None
  /\ UNCHANGED <<objects, begin, end>>

ListHandle(h) ==
  /\ pc = "list" /\ Called("list", h)
  /\ IF h \in Known
     THEN UNCHANGED <<objects, changed>>
     ELSE objects' = Append(objects, h) /\ changed' = TRUE
  /\ UNCHANGED <<pc, begin, end, at>>

\* qsort(): a permutation, ordered if the handles can be.
Shuffles == Bijection(1 .. Len(objects), 1 .. Len(objects))
Shuffled(p) == [k \in 1 .. Len(objects) |-> objects[p[k]]]
Sortable == \A a, b, c \in Known :
              Compare(a, b) <= 0 /\ Compare(b, c) <= 0 => Compare(a, c) <= 0

EndListing ==
  /\ pc = "list" /\ pc' = "idle" /\ changed' = FALSE
  /\ \/ ~changed /\ UNCHANGED objects
     \/ changed /\ \E p \in Shuffles : /\ objects' = Shuffled(p)
                                       /\ Sortable => Ordered(Shuffled(p))
  /\ UNCHANGED <<of, handle, begin, end, at>>

-----------------------------------------------------------------------------
Next ==
  \/ \E h \in Handle : \/ FindOrInsert(h) \/ Find(h)
                       \/ RemoveFromCache(h) \/ ListHandle(h)
  \/ Probe \/ Settle
  \/ BeginListing \/ EndListing

Spec == Init /\ [][Next]_vars

FairSpec == Spec /\ WF_vars(Probe) /\ WF_vars(Settle)

-----------------------------------------------------------------------------
(* The handles lie in one half of the numbers, so that both orders agree. *)
Near == \A a, b \in Handle : a - b < Half

(* The array is sorted, and has no object twice, whenever no listing is    *)
(* going on: ptp_object_find_or_insert "Needs objects to be a sorted by    *)
(* objectid list", and a second entry of an object would keep stale data.  *)
Increasing(s) == \A j, k \in 1 .. Len(s) : j < k => s[j] < s[k]
Sorted == pc # "list" => Increasing(objects)

(* During a listing, too, no object is in the array twice.                 *)
Distinct ==
  \A j, k \in 1 .. Len(objects) : objects[j] = objects[k] => j = k

(* The search stays in the array, with the place of the handle between     *)
(* begin and end; a bound that has been moved is off on its side.          *)
Bracketed ==
  pc \in {"probe", "settle"} =>
    /\ begin <= end /\ end < Len(objects)
    /\ begin = 0 \/ Oid(begin) < handle
    /\ end = Len(objects) - 1 \/ handle < Oid(end)

(* The search comes to an end.                                             *)
SearchEnds == pc = "probe" ~> pc = "idle"

-----------------------------------------------------------------------------
(* The array as a set of handles.                                          *)
Set == INSTANCE PtpHandleSet
  WITH NoHandle <- 0, known <- Known,
       state  <- IF pc \in {"probe", "settle"} THEN "asked" ELSE "idle",
       answer <- IF at = None THEN 0 ELSE Oid(at)

(* With handles in one half of the numbers, the driver sees a set.         *)
IsHandleSet == Set!Spec
=============================================================================

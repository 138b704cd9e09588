---------------------------- MODULE PtpHandleSet ----------------------------
(***************************************************************************)
(* What the list of cached objects of camlibs/ptp2/ptp.c promises to the   *)
(* driver: a set of object handles.  A handle that is asked for is added   *)
(* if it is not there, a lookup tells whether it is there, a removal takes *)
(* that handle and no other, and a listing adds handles.  The order of the *)
(* objects and the search for one are nobody's business.                   *)
(***************************************************************************)
EXTENDS Integers

CONSTANTS Handle, NoHandle

VARIABLES
  known,   \* the handles of the cached objects
  of,      \* what was called last, or "none",
  handle,  \* and with which handle, or NoHandle
  state,   \* "asked" until it returns, or "idle"
  answer   \* the handle of the object that it has returned, or NoHandle

vars == <<known, of, handle, state, answer>>

Init ==
  /\ known = {} /\ of = "none" /\ handle = NoHandle
  /\ state = "idle" /\ answer = NoHandle

Called(name, h) == of' = name /\ handle' = h

\* find_or_insert may take its time, during which nothing changes.
Ask(h) ==
  /\ state = "idle" /\ Called("find_or_insert", h)
  /\ state' = "asked" /\ answer' = NoHandle
  /\ UNCHANGED known

Insert(h) ==
  /\ state = "asked" => handle = h
  /\ Called("find_or_insert", h)
  /\ known' = known \union {h}
  /\ state' = "idle" /\ answer' = h

Lookup(h) ==
  /\ state = "idle" /\ Called("find", h)
  /\ answer' = IF h \in known THEN h ELSE NoHandle
  /\ UNCHANGED <<known, state>>

Remove(h) ==
  /\ state = "idle" /\ Called("remove", h)
  /\ known' = known \ {h} /\ answer' = NoHandle
  /\ UNCHANGED state

\* A listing adds its handles one by one.
List(h) ==
  /\ state = "idle" /\ Called("list", h)
  /\ known' = known \union ({h} \ {NoHandle}) /\ answer' = NoHandle
  /\ UNCHANGED state

Next ==
  \/ \E h \in Handle : Ask(h) \/ Insert(h) \/ Lookup(h) \/ Remove(h) \/ List(h)
  \/ List(NoHandle)

Spec == Init /\ [][Next]_vars
=============================================================================

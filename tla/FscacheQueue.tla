---------------------------- MODULE FscacheQueue ----------------------------
(***************************************************************************)
(* What the LRU list of gphoto2-filesys.c promises: a queue of distinct    *)
(* cells.  A cell that is handed over goes to the back, room is made from  *)
(* the front before it does, a deleted cell leaves without disturbing the  *)
(* order of the others, and a reset empties the queue.                     *)
(***************************************************************************)
EXTENDS Naturals, Sequences

CONSTANTS Entry, Keep, NULL

VARIABLES
  queue,
  handed  \* the cell that is being handed over, or NULL

vars == <<queue, handed>>

\* The queue without the cell e: those behind it move up.
Without(q, e) ==
  IF \A i \in 1..Len(q) : q[i] # e THEN q
  ELSE LET place == CHOOSE i \in 1..Len(q) : q[i] = e
       IN [i \in 1..Len(q) - 1 |-> IF i < place THEN q[i] ELSE q[i + 1]]

Init == queue = << >> /\ handed = NULL

Ask(e)   == /\ handed = NULL /\ handed' = e
            /\ UNCHANGED queue
Evict    == /\ handed # NULL /\ Len(queue) > Keep
            /\ queue' = Tail(queue)
            /\ UNCHANGED handed
Hand     == /\ handed # NULL /\ Len(queue) <= Keep
            /\ queue' = Append(Without(queue, handed), handed)
            /\ handed' = NULL
Leave(e) == /\ handed = NULL
            /\ queue' = Without(queue, e)
            /\ UNCHANGED handed
Clear    == /\ handed = NULL
            /\ queue' = << >>
            /\ UNCHANGED handed

Next ==
  \/ \E e \in Entry : Ask(e) \/ Leave(e)
  \/ Evict \/ Hand \/ Clear

Spec == Init /\ [][Next]_vars
=============================================================================

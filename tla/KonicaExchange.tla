--------------------------- MODULE KonicaExchange ---------------------------
(***************************************************************************)
(* What the protocol of camlibs/konica/lowlevel.c promises to the driver:  *)
(* a command is carried out at most once, commands are carried out in the  *)
(* order in which they are given, and a call that succeeds has the whole   *)
(* answer to its own command.                                              *)
(***************************************************************************)
EXTENDS Integers, Sequences

CONSTANTS Commands, Answer(_, _)

VARIABLES
  asked,    \* the commands given so far
  carried,  \* the numbers of those that the camera has carried out
  given     \* the answer to the last call

vars == <<asked, carried, given>>

NoAnswer == [n |-> 0, got |-> << >>]

Init == asked = << >> /\ carried = << >> /\ given = NoAnswer

Ask(op) == asked' = Append(asked, op) /\ UNCHANGED <<carried, given>>

CarryOut(n) ==
  /\ \A k \in 1 .. Len(carried) : carried[k] < n
  /\ carried' = Append(carried, n)
  /\ UNCHANGED <<asked, given>>

Give(n) ==
  /\ n = Len(asked) /\ \E k \in 1 .. Len(carried) : carried[k] = n
  /\ given' = [n |-> n, got |-> Answer(n, asked[n])]
  /\ UNCHANGED <<asked, carried>>

Fail == given' = NoAnswer /\ UNCHANGED <<asked, carried>>

Next ==
  \/ \E op \in Commands : Ask(op)
  \/ \E n \in 1 .. Len(asked) : CarryOut(n) \/ Give(n)
  \/ Fail

Spec == Init /\ [][Next]_vars
=============================================================================

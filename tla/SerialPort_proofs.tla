-------------------------- MODULE SerialPort_proofs --------------------------
(***************************************************************************)
(* Proofs about the serial port (serial/unix.c), for any settings,         *)
(* messages, numbers of tries and bounds.                                  *)
(*                                                                         *)
(* The device is open only under its lock whatever fails, and reads        *)
(* deliver what was sent until one of them fails, as long as the line was  *)
(* at the settings when the bytes came.                                    *)
(***************************************************************************)
EXTENDS SerialPort, SequenceTheorems, TLAPS

-----------------------------------------------------------------------------
(***************************************************************************)
(* Types.                                                                  *)
(***************************************************************************)

\* The beginning of a sequence, and the rest.
LEMMA Parts ==
  ASSUME NEW S, NEW s \in Seq(S), NEW n \in 0..Len(s)
  PROVE  /\ SubSeq(s, 1, n) \in Seq(S) /\ Len(SubSeq(s, 1, n)) = n
         /\ SubSeq(s, n + 1, Len(s)) \in Seq(S)
BY SubSeqProperties, LenProperties

\* Of a message no more is left than it has.
LeftOfMessage == call.of = "write" => call.left <= Len(call.data)

\* No operation, and an empty queue.
LEMMA Empty == Idle \in Call /\ NoRx \in Rx
BY ConstAssumption DEF Idle, NoRx, Call, Rx

\* Opening and closing keep the types.
LEMMA OpenType ==
  ASSUME TypeOK,
         \/ CallOpen \/ Opened \/ OpenFails \/ Locked \/ Close \/ CloseFails
         \/ OthersLock \/ OthersUnlock \/ HangUp
  PROVE  TypeOK'
<1> USE Empty DEF TypeOK
<1>1. CASE CallOpen
  BY <1>1 DEF CallOpen, Call
<1>2. CASE Opened
  BY <1>2 DEF Opened, Goto, Return, Port, Holder, Call
<1>3. CASE OpenFails
  BY <1>3 DEF OpenFails, Return, Port, Holder
<1>4. CASE Locked
  <2>1. MaxTries \in Nat /\ call.tries \in 0..MaxTries
    BY ConstAssumption DEF Call
  <2>2. call.tries < MaxTries => call.tries + 1 \in 0..MaxTries
    BY <2>1
  <2> QED BY <1>4, <2>2 DEF Locked, Return, Call
<1>5. CASE Close \/ CloseFails
  BY <1>5 DEF Close, CloseFails, Port, Holder, vars
<1>6. CASE OthersLock \/ OthersUnlock
  BY <1>6 DEF OthersLock, OthersUnlock, Holder
<1>7. CASE HangUp
  BY <1>7 DEF HangUp, Rx
<1> QED BY <1>1, <1>2, <1>3, <1>4, <1>5, <1>6, <1>7

\* So do changes of the settings.
LEMMA LineType ==
  ASSUME TypeOK,
         (\E s \in Settings : SetSettings(s)) \/ SpeedChecked \/ SpeedFails
  PROVE  TypeOK'
<1>1. ASSUME NEW d \in Port, SetLine(d) \/ SetLineFails(d)
      PROVE  dev' \in Port /\ line' \in Settings
  BY <1>1 DEF TypeOK, SetLine, SetLineFails, Port, Speeds
<1>2. ASSUME NEW s \in Settings, SetSettings(s)
      PROVE  TypeOK'
  <2>1. [dev EXCEPT !.settings = s] \in Port
    BY DEF TypeOK, Port
  <2> QED BY <1>1, <1>2, <2>1 DEF TypeOK, SetSettings
<1>3. CASE SpeedChecked
  BY <1>1, <1>3 DEF TypeOK, SpeedChecked, Goto, Call
<1>4. CASE SpeedFails
  BY <1>1, <1>4, Empty DEF TypeOK, SpeedFails, Return
<1> QED BY <1>2, <1>3, <1>4

\* So does writing.
LEMMA WriteType ==
  ASSUME TypeOK, LeftOfMessage,
         \/ \E m \in Message : CallWrite(m)
         \/ \E n \in 1..call.left : Write(n)
         \/ WriteFails \/ Finish
  PROVE  TypeOK'
<1>1. ASSUME NEW m \in Message, CallWrite(m)
      PROVE  TypeOK'
  <2>1. m \in Seq(Byte) /\ Len(m) \in Nat
    BY ConstAssumption, LenProperties
  <2> QED BY <1>1, <2>1, Empty DEF TypeOK, Call, CallWrite
<1>2. ASSUME NEW n \in 1..call.left, Write(n)
      PROVE  TypeOK'
  <2>1. call.data \in Seq(Byte) /\ call.out \in Seq(Byte) /\ call.left \in Nat
    BY DEF TypeOK, Call
  <2>2. n \in 0..Len(call.data)
    <3>1. call.of = "write"
      BY <1>2 DEF Write
    <3>2. call.left <= Len(call.data) /\ Len(call.data) \in Nat
      BY <2>1, <3>1, LenProperties DEF LeftOfMessage
    <3> QED BY <1>2, <2>1, <3>2
  <2>3. SubSeq(call.data, 1, n) \in Seq(Byte)
    BY <2>1, <2>2, Parts
  <2>4. call.out \o SubSeq(call.data, 1, n) \in Seq(Byte)
    BY <2>1, <2>3, ConcatProperties
  <2>5. call.left - n \in Nat
    BY <1>2, <2>1
  <2> QED BY <1>2, <2>4, <2>5 DEF TypeOK, Call, Write
<1>3. CASE WriteFails \/ Finish
  BY <1>3, Empty DEF TypeOK, WriteFails, Finish, Return
<1> QED BY <1>1, <1>2, <1>3

\* So does reading: what leaves the queue and what is delivered are received bytes.
LEMMA ReadType ==
  ASSUME TypeOK,
         \/ \E n \in 1..MaxRead : CallRead(n)
         \/ ReadTimeout \/ ReadNothing \/ ReadPlain \/ ReadParity \/ ReadMarked
         \/ ReadAlone \/ Interrupted
  PROVE  TypeOK'
<1>1. /\ rx.input \in Seq(Received) /\ Len(rx.input) \in Nat
      /\ rx.delivered \in Seq(Received) /\ call.left \in Nat
  BY LenProperties DEF TypeOK, Rx, Call
<1>2. ASSUME NEW n \in 0..Len(rx.input), ReadError(n)
      PROVE  TypeOK'
  <2>1. SubSeq(rx.input, n + 1, Len(rx.input)) \in Seq(Received)
    BY <1>1, Parts
  <2> QED BY <1>2, <2>1, Empty DEF TypeOK, ReadError, Return, Rx
<1>3. ASSUME NEW n \in 0..Len(rx.input), NEW S \in Seq(Received),
             Len(S) \in 0..call.left, Deliver(n, S)
      PROVE  TypeOK'
  <2>1. SubSeq(rx.input, n + 1, Len(rx.input)) \in Seq(Received)
    BY <1>1, Parts
  <2>2. rx.delivered \o S \in Seq(Received)
    BY <1>1, ConcatProperties
  <2>3. call.left - Len(S) \in Nat
    BY <1>1, <1>3
  <2> QED BY <1>3, <2>1, <2>2, <2>3 DEF TypeOK, Deliver, Rx, Call
<1>4. ASSUME NEW n \in 1..MaxRead, CallRead(n)
      PROVE  TypeOK'
  <2>1. n \in Nat
    BY ConstAssumption
  <2> QED BY <1>4, <2>1, Empty DEF TypeOK, CallRead, Call
<1>5. CASE ReadTimeout \/ ReadNothing \/ Interrupted \/ ReadAlone
  <2>1. ASSUME NEW p \in {"io", "unguarded"}, Goto(p), UNCHANGED <<dev, line, lock, rx>>
        PROVE  TypeOK'
    BY <2>1 DEF Goto, TypeOK, Call
  <2>2. CASE ReadTimeout \/ ReadNothing
    BY <1>1, <1>2, <2>1, <2>2 DEF ReadTimeout, ReadNothing
  <2>3. CASE Interrupted \/ ReadAlone
    BY <1>1, <1>2, <2>1, <2>3 DEF Interrupted, ReadAlone, ReadsAlone
  <2> QED BY <1>5, <2>2, <2>3
<1>6. CASE ReadPlain
  <2> DEFINE n == IF call.left < Len(rx.input) THEN call.left ELSE Len(rx.input)
  <2>1. n \in 0..Len(rx.input) /\ n \in 0..call.left
    BY <1>1
  <2>2. SubSeq(rx.input, 1, n) \in Seq(Received) /\ Len(SubSeq(rx.input, 1, n)) = n
    BY <1>1, <2>1, Parts
  <2>3. Deliver(n, SubSeq(rx.input, 1, n))
    BY <1>6 DEF ReadPlain
  <2> HIDE DEF n
  <2> QED BY <1>3, <2>1, <2>2, <2>3
<1>7. ASSUME NEW n \in 1..2, NEW b \in Received, n <= Len(rx.input),
             Deliver(n, <<b>>), call.left > 0
      PROVE  TypeOK'
  <2>1. <<b>> \in Seq(Received) /\ Len(<<b>>) = 1
    BY <1>7
  <2>2. Len(<<b>>) \in 0..call.left /\ n \in 0..Len(rx.input)
    BY <1>1, <1>7, <2>1
  <2> QED BY <1>3, <1>7, <2>1, <2>2
<1>8. CASE ReadParity
  <2>1. rx.input # << >> => Head(rx.input) \in Received /\ Len(rx.input) >= 1
    BY <1>1, HeadTailProperties, EmptySeq
  <2> QED BY <1>7, <1>8, <2>1 DEF ReadParity, Reading
<1>9. CASE ReadMarked
  <2>1. Len(rx.input) > 1 => rx.input[2] \in Received
    BY <1>1, ElementOfSeq
  <2>2. ReadError(2) \/ Deliver(2, <<rx.input[2]>>)
    BY <1>9 DEF ReadMarked
  <2>3. Len(rx.input) > 1 /\ call.left > 0
    BY <1>9 DEF ReadMarked, Reading
  <2> QED BY <1>1, <1>2, <1>7, <2>1, <2>2, <2>3
<1> QED BY <1>4, <1>5, <1>6, <1>8, <1>9

\* So does a byte that arrives, with its marks.
LEMMA ArriveType ==
  ASSUME TypeOK, NEW b \in Byte, Arrive(b)
  PROVE  TypeOK'
<1>1. PICK bad \in {FALSE, line.parity} :
        LET r == [byte |-> b, bad |-> bad]
        IN rx' = [rx EXCEPT !.input = @ \o Cooked(r), !.arrived = Append(@, r),
                            !.spoilt = @ \/ line # dev.settings]
  BY DEF Arrive
<1> DEFINE r == [byte |-> b, bad |-> bad]
<1>2. r \in Received /\ Good(FF) \in Received /\ Good(NUL) \in Received
  BY ConstAssumption DEF Received, Good, TypeOK
<1> HIDE DEF r
<1>3. <<r>> \in Seq(Received) /\ <<r, r>> \in Seq(Received)
      /\ <<Good(FF), Good(NUL), r>> \in Seq(Received)
  BY <1>2
<1>4. Cooked(r) \in Seq(Received)
  BY <1>3 DEF Cooked
<1>5. /\ rx.input \o Cooked(r) \in Seq(Received)
      /\ Append(rx.arrived, r) \in Seq(Received)
  BY <1>2, <1>4, ConcatProperties, AppendProperties DEF TypeOK, Rx
<1>6. rx' = [rx EXCEPT !.input = @ \o Cooked(r), !.arrived = Append(@, r),
                       !.spoilt = @ \/ line # dev.settings]
  BY <1>1 DEF r
<1> QED BY <1>5, <1>6 DEF TypeOK, Arrive, Rx

\* The lemmas on types together, one for all steps.
LEMMA StepTypes ==
  ASSUME TypeOK, LeftOfMessage, [Next]_vars
  PROVE  TypeOK'
<1>1. CASE Next
  BY <1>1, OpenType, LineType, WriteType, ReadType, ArriveType
     DEF Next, Proceed, Application
<1>2. CASE UNCHANGED vars
  BY <1>2 DEF TypeOK, vars
<1> QED BY <1>1, <1>2

-----------------------------------------------------------------------------
(***************************************************************************)
(* What every step does with the call and with the device.                 *)
(***************************************************************************)

\* The steps that change the port, the line or the lock.
LEMMA PortSteps ==
  ASSUME [Next]_vars
  PROVE  \/ UNCHANGED <<dev, line, lock>>
         \/ Opened \/ OpenFails \/ Close \/ SpeedChecked \/ SpeedFails
         \/ OthersLock \/ OthersUnlock
         \/ \E s \in Settings : SetSettings(s)
<1> USE DEF Next, Proceed, Application, vars
<1>1. CASE Locked \/ WriteFails \/ Finish \/ \E n \in 1..call.left : Write(n)
  BY <1>1 DEF Locked, WriteFails, Finish, Write
<1>2. CASE ReadTimeout \/ ReadNothing \/ ReadPlain
  BY <1>2 DEF ReadTimeout, ReadNothing, ReadPlain, ReadError, Deliver
<1>3. CASE ReadParity \/ ReadMarked \/ ReadAlone \/ Interrupted
  BY <1>3 DEF ReadParity, ReadMarked, ReadAlone, Interrupted, ReadError, Deliver
<1>4. CASE CallOpen \/ CloseFails \/ HangUp
  BY <1>4 DEF CallOpen, CloseFails, HangUp
<1>5. CASE \/ \E m \in Message : CallWrite(m)
           \/ \E n \in 1..MaxRead : CallRead(n)
           \/ \E b \in Byte : Arrive(b)
  BY <1>5 DEF CallWrite, CallRead, Arrive
<1> QED BY <1>1, <1>2, <1>3, <1>4, <1>5

\* The steps that change the call, but for ending it.
LEMMA CallSteps ==
  ASSUME TypeOK, [Next]_vars
  PROVE  \/ call' = call \/ call' = Idle
         \/ CallOpen \/ Opened \/ Locked \/ SpeedChecked
         \/ \E m \in Message : CallWrite(m)
         \/ \E n \in 1..MaxRead : CallRead(n)
         \/ \E n \in 1..call.left : Write(n)
         \/ Reading /\ \E k, p : call' = [call EXCEPT !.left = k, !.at = p]
<1> USE DEF Next, Proceed, Application, vars
<1>1. CASE OpenFails \/ SpeedFails \/ WriteFails \/ Finish
  BY <1>1 DEF OpenFails, SpeedFails, WriteFails, Finish, Return
<1>2. ASSUME NEW p, Goto(p)
      PROVE  \E k : call' = [call EXCEPT !.left = k, !.at = p]
  <2>1. call' = [call EXCEPT !.left = call.left, !.at = p]
    BY <1>2 DEF Goto, TypeOK, Call
  <2> QED BY <2>1
<1>3. CASE \/ ReadTimeout \/ ReadNothing \/ ReadAlone \/ Interrupted
           \/ ReadPlain \/ ReadParity \/ ReadMarked
  <2>1. ASSUME NEW n, ReadError(n)
        PROVE  call' = Idle
    BY <2>1 DEF ReadError, Return
  <2>2. ASSUME NEW n, NEW S, Deliver(n, S)
        PROVE  \E k, p : call' = [call EXCEPT !.left = k, !.at = p]
    BY <2>2 DEF Deliver
  <2>3. CASE ReadTimeout \/ ReadNothing
    BY <1>2, <2>1, <2>3 DEF ReadTimeout, ReadNothing, Nothing
  <2>4. CASE ReadAlone \/ Interrupted
    BY <1>2, <2>1, <2>4 DEF ReadAlone, Interrupted, Nothing
  <2>5. CASE ReadPlain
    BY <2>2, <2>5 DEF ReadPlain
  <2>6. CASE ReadParity
    BY <2>2, <2>6 DEF ReadParity
  <2>7. CASE ReadMarked
    BY <2>1, <2>2, <2>7 DEF ReadMarked
  <2> QED BY <1>3, <2>3, <2>4, <2>5, <2>6, <2>7
<1>4. CASE Close \/ CloseFails \/ HangUp \/ OthersLock \/ OthersUnlock
  BY <1>4 DEF Close, CloseFails, HangUp, OthersLock, OthersUnlock
<1>5. CASE \/ \E s \in Settings : SetSettings(s)
           \/ \E b \in Byte : Arrive(b)
  BY <1>5 DEF SetSettings, Arrive
<1> QED BY <1>1, <1>2, <1>3, <1>4, <1>5

\* Those that set the line keep the device as it is, under its lock.
LEMMA LineSteps ==
  ASSUME TypeOK,
         SpeedChecked \/ SpeedFails \/ \E s \in Settings : SetSettings(s)
  PROVE  dev'.fd = dev.fd /\ dev'.lost = dev.lost /\ lock' = lock
<1>1. ASSUME NEW d \in Port, SetLine(d) \/ SetLineFails(d)
      PROVE  dev'.fd = d.fd /\ dev'.lost = d.lost
  BY <1>1 DEF SetLine, SetLineFails, Port
<1>2. CASE SpeedChecked \/ SpeedFails
  BY <1>1, <1>2 DEF SpeedChecked, SpeedFails, TypeOK
<1>3. ASSUME NEW s \in Settings, SetSettings(s)
      PROVE  dev'.fd = dev.fd /\ dev'.lost = dev.lost /\ lock' = lock
  <2>1. /\ [dev EXCEPT !.settings = s] \in Port
        /\ [dev EXCEPT !.settings = s].fd = dev.fd
        /\ [dev EXCEPT !.settings = s].lost = dev.lost
    BY DEF TypeOK, Port
  <2> QED BY <1>1, <1>3, <2>1 DEF SetSettings
<1> QED BY <1>2, <1>3

-----------------------------------------------------------------------------
(***************************************************************************)
(* The receive queue.                                                      *)
(***************************************************************************)

\* Among the first n bytes of the queue q there is no mark (p: the line has parity).
Unmarked(p, q, n) == \A j \in 1..n : ~(p /\ q[j].byte = FF)

\* The queue follows d bytes of what was sent, a: up to the first mark it has what
\* came next, undamaged, and without a mark it has all that came.  After a mark is
\* a second one or a NUL.
Follows(p, q, a, d) ==
  /\ \A i \in 1..Len(q) :
       Unmarked(p, q, i) => d + i <= Len(a) /\ q[i] = a[d + i] /\ ~q[i].bad
  /\ Unmarked(p, q, Len(q)) => Len(a) = d + Len(q)
  /\ \A i \in 1..Len(q) :
       Unmarked(p, q, i - 1) /\ ~Unmarked(p, q, i)
         => i < Len(q) /\ q[i + 1].byte \in {FF, NUL}

\* What has been read is what was sent first, undamaged.
Begins(s, a) ==
  /\ Len(s) <= Len(a)
  /\ \A i \in 1..Len(s) : s[i] = a[i] /\ ~s[i].bad

\* No read has failed, every byte came at the settings, and the port has not been
\* opened twice.
Sound == ~rx.spoilt /\ ~dev.lost

\* The invariant of the queue.
Intact ==
  Sound => /\ Begins(rx.delivered, rx.arrived)
           /\ Follows(line.parity, rx.input, rx.arrived, Len(rx.delivered))

\* While there is something in the queue, the line has the parity that reads go by.
Settled == Sound /\ rx.input # << >> => line.parity = dev.settings.parity

\* A closed port has nothing in the queue.
ClosedIsEmpty == ~dev.fd /\ ~dev.lost => rx.input = << >>

\* The beginning of a queue without a mark goes: what is left follows.
LEMMA LeftFollows ==
  ASSUME NEW p \in BOOLEAN, NEW q \in Seq(Received), NEW a \in Seq(Received),
         NEW d \in Nat, NEW n \in 0..Len(q),
         Unmarked(p, q, n), Follows(p, q, a, d)
  PROVE  Follows(p, SubSeq(q, n + 1, Len(q)), a, d + n)
<1> DEFINE t == SubSeq(q, n + 1, Len(q))
<1>1. /\ Len(q) \in Nat /\ Len(a) \in Nat
      /\ t \in Seq(Received) /\ Len(t) = Len(q) - n
      /\ \A i \in 1..Len(t) : t[i] = q[n + i]
  BY SubSeqProperties, LenProperties
<1> HIDE DEF t
<1>2. ASSUME NEW i \in 0..Len(t)
      PROVE  Unmarked(p, t, i) <=> Unmarked(p, q, n + i)
  <2>1. ASSUME Unmarked(p, t, i), NEW j \in 1..(n + i)
        PROVE  ~(p /\ q[j].byte = FF)
    <3>1. CASE j <= n
      BY <3>1 DEF Unmarked
    <3>2. CASE j > n
      <4>1. j - n \in 1..i /\ j - n \in 1..Len(t) /\ n + (j - n) = j
        BY <3>2, <1>1
      <4>2. t[j - n] = q[j]
        BY <1>1, <4>1
      <4> QED BY <2>1, <4>1, <4>2 DEF Unmarked
    <3> QED BY <3>1, <3>2
  <2>2. ASSUME Unmarked(p, q, n + i), NEW j \in 1..i
        PROVE  ~(p /\ t[j].byte = FF)
    <3>1. n + j \in 1..(n + i) /\ j \in 1..Len(t)
      BY <1>1
    <3>2. t[j] = q[n + j]
      BY <1>1, <3>1
    <3> QED BY <2>2, <3>1, <3>2 DEF Unmarked
  <2> QED BY <2>1, <2>2 DEF Unmarked
<1>3. ASSUME NEW i \in 1..Len(t), Unmarked(p, t, i)
      PROVE  d + n + i <= Len(a) /\ t[i] = a[d + n + i] /\ ~t[i].bad
  <2>1. n + i \in 1..Len(q) /\ i \in 0..Len(t) /\ d + (n + i) = d + n + i
    BY <1>1
  <2>2. Unmarked(p, q, n + i) /\ t[i] = q[n + i]
    BY <1>1, <1>2, <1>3, <2>1
  <2>3. d + (n + i) <= Len(a) /\ q[n + i] = a[d + (n + i)] /\ ~q[n + i].bad
    BY <2>1, <2>2 DEF Follows
  <2> QED BY <2>1, <2>2, <2>3
<1>4. ASSUME Unmarked(p, t, Len(t))
      PROVE  Len(a) = d + n + Len(t)
  <2>1. Len(t) \in 0..Len(t) /\ n + Len(t) = Len(q)
    BY <1>1
  <2>2. Unmarked(p, q, Len(q))
    BY <1>2, <1>4, <2>1
  <2> QED BY <1>1, <2>2 DEF Follows
<1>5. ASSUME NEW i \in 1..Len(t), Unmarked(p, t, i - 1), ~Unmarked(p, t, i)
      PROVE  i < Len(t) /\ t[i + 1].byte \in {FF, NUL}
  <2>1. /\ n + i \in 1..Len(q) /\ i \in 0..Len(t) /\ i - 1 \in 0..Len(t)
        /\ n + (i - 1) = (n + i) - 1
    BY <1>1
  <2>2. Unmarked(p, q, (n + i) - 1) /\ ~Unmarked(p, q, n + i)
    BY <1>2, <1>5, <2>1
  <2>3. n + i < Len(q) /\ q[(n + i) + 1].byte \in {FF, NUL}
    BY <2>1, <2>2 DEF Follows
  <2>4. i + 1 \in 1..Len(t) /\ n + (i + 1) = (n + i) + 1
    <3>1. n + i < Len(q) /\ Len(t) = Len(q) - n /\ Len(q) \in Nat
      BY <1>1, <2>3
    <3> QED BY <3>1
  <2>5. t[i + 1] = q[(n + i) + 1]
    BY <1>1, <2>4
  <2> QED BY <1>1, <2>3, <2>4, <2>5
<1> QED BY <1>3, <1>4, <1>5 DEF Follows, t

\* A byte comes: with its marks, the longer queue follows.
LEMMA LongerFollows ==
  ASSUME line.parity \in BOOLEAN, NEW q \in Seq(Received), NEW a \in Seq(Received),
         NEW d \in Nat, NEW r \in Received, r.bad => line.parity,
         Follows(line.parity, q, a, d)
  PROVE  Follows(line.parity, q \o Cooked(r), Append(a, r), d)
<1> DEFINE p == line.parity
           c == Cooked(r)
           t == q \o c
           b == Append(a, r)
           k == Len(q)
<1>1. /\ c \in Seq(Received) /\ Len(c) \in Nat /\ Len(c) > 0
      /\ \/ c = <<r>> /\ ~(p /\ r.byte = FF) /\ ~r.bad
         \/ p /\ Len(c) > 1 /\ c[1].byte = FF /\ c[2].byte \in {FF, NUL}
  <2>1. Good(FF) \in Received /\ Good(NUL) \in Received
    BY ConstAssumption DEF Received, Good
  <2>2. CASE ~p
    <3>1. c = <<r>>
      BY <2>2 DEF Cooked
    <3> QED BY <2>2, <3>1
  <2>3. CASE p /\ r.bad
    <3>1. c = <<Good(FF), Good(NUL), r>>
      BY <2>3 DEF Cooked
    <3>2. c \in Seq(Received) /\ Len(c) = 3 /\ c[1] = Good(FF) /\ c[2] = Good(NUL)
      BY <2>1, <3>1
    <3> QED BY <2>3, <3>2 DEF Good
  <2>4. CASE p /\ ~r.bad /\ r.byte = FF
    <3>1. c = <<r, r>>
      BY <2>4 DEF Cooked
    <3>2. c \in Seq(Received) /\ Len(c) = 2 /\ c[1] = r /\ c[2] = r
      BY <3>1
    <3> QED BY <2>4, <3>2
  <2>5. CASE p /\ ~r.bad /\ r.byte # FF
    <3>1. c = <<r>>
      BY <2>5 DEF Cooked
    <3> QED BY <2>5, <3>1
  <2> QED BY <2>2, <2>3, <2>4, <2>5
<1> HIDE DEF c
<1>2. /\ k \in Nat /\ Len(a) \in Nat /\ Len(t) = k + Len(c)
      /\ \A i \in 1..k : t[i] = q[i]
      /\ \A i \in 1..Len(c) : t[k + i] = c[i]
  BY <1>1, ConcatProperties, LenProperties
<1>3. /\ Len(b) = Len(a) + 1 /\ b[Len(a) + 1] = r
      /\ \A i \in 1..Len(a) : b[i] = a[i]
  BY AppendProperties
<1> HIDE DEF t, b, k, p
<1>4. ASSUME NEW i \in 0..k
      PROVE  Unmarked(p, t, i) <=> Unmarked(p, q, i)
  <2>1. \A j \in 1..i : j \in 1..k
    BY <1>2
  <2> QED BY <1>2, <2>1 DEF Unmarked
<1>5. ASSUME NEW i \in Nat, i > k, Unmarked(p, t, i)
      PROVE  c = <<r>> /\ ~r.bad /\ Len(a) = d + k
  <2>1. k + 1 \in 1..i /\ 1 \in 1..Len(c) /\ \A j \in 1..k : j \in 1..i
    <3>1. Len(c) \in Nat /\ Len(c) > 0 /\ k \in Nat
      BY <1>1, <1>2
    <3>2. k + 1 \in 1..i /\ 1 \in 1..Len(c)
      BY <1>5, <3>1
    <3>3. \A j \in 1..k : j \in 1..i
      BY <1>5, <3>1
    <3> QED BY <3>2, <3>3
  <2>2. ~(p /\ c[1].byte = FF)
    BY <1>2, <1>5, <2>1 DEF Unmarked
  <2>3. Unmarked(p, t, k) /\ k \in 0..k
    BY <1>2, <1>5, <2>1 DEF Unmarked
  <2>4. Unmarked(p, q, k)
    BY <1>4, <2>3
  <2> QED BY <1>1, <2>2, <2>4 DEF Follows, p, k
<1>6. ASSUME NEW i \in 1..Len(t), Unmarked(p, t, i)
      PROVE  d + i <= Len(b) /\ t[i] = b[d + i] /\ ~t[i].bad
  <2>1. CASE i <= k
    <3>1. i \in 1..k /\ i \in 0..k
      BY <1>2, <2>1
    <3>2. d + i <= Len(a) /\ q[i] = a[d + i] /\ ~q[i].bad
      BY <1>4, <1>6, <3>1 DEF Follows, p, k
    <3>3. d + i \in 1..Len(a)
      BY <1>2, <3>1, <3>2
    <3> QED BY <1>2, <1>3, <3>1, <3>2, <3>3
  <2>2. CASE i > k
    <3>1. c = <<r>> /\ ~r.bad /\ Len(a) = d + k
      BY <1>2, <1>5, <1>6, <2>2
    <3>2. Len(c) = 1 /\ c[1] = r
      BY <3>1
    <3>3. i = k + 1 /\ 1 \in 1..Len(c)
      BY <1>2, <2>2, <3>2
    <3>4. t[i] = r /\ d + i = Len(a) + 1
      BY <1>2, <3>1, <3>2, <3>3
    <3> QED BY <1>2, <1>3, <3>1, <3>4
  <2> QED BY <1>2, <2>1, <2>2
<1>7. ASSUME Unmarked(p, t, Len(t))
      PROVE  Len(b) = d + Len(t)
  <2>1. Len(t) \in Nat /\ Len(t) > k
    <3>1. Len(c) \in Nat /\ Len(c) > 0 /\ k \in Nat /\ Len(t) = k + Len(c)
      BY <1>1, <1>2
    <3> QED BY <3>1
  <2>2. c = <<r>> /\ Len(a) = d + k
    BY <1>5, <1>7, <2>1
  <2>3. Len(c) = 1
    BY <2>2
  <2> QED BY <1>2, <1>3, <2>2, <2>3
<1>8. ASSUME NEW i \in 1..Len(t), Unmarked(p, t, i - 1), ~Unmarked(p, t, i)
      PROVE  i < Len(t) /\ t[i + 1].byte \in {FF, NUL}
  <2>1. CASE i <= k
    <3>1. i \in 1..k /\ i \in 0..k /\ i - 1 \in 0..k
      BY <1>2, <2>1
    <3>2. Unmarked(p, q, i - 1) /\ ~Unmarked(p, q, i)
      BY <1>4, <1>8, <3>1
    <3>3. i < k /\ q[i + 1].byte \in {FF, NUL}
      BY <3>1, <3>2 DEF Follows, p, k
    <3>4. i + 1 \in 1..k /\ i < Len(t)
      BY <1>1, <1>2, <3>1, <3>3
    <3> QED BY <1>2, <3>3, <3>4
  <2>2. CASE i = k + 1
    <3>1. p /\ t[i].byte = FF
      <4>1. \A j \in 1..i : j = i \/ j \in 1..(i - 1)
        BY <1>2, <2>2
      <4> QED BY <1>8, <4>1 DEF Unmarked
    <3>2. t[i] = c[1]
      BY <1>1, <1>2, <2>2
    <3>3. ~(c = <<r>> /\ ~(p /\ r.byte = FF))
      BY <3>1, <3>2
    <3>4. Len(c) > 1 /\ c[2].byte \in {FF, NUL}
      BY <1>1, <3>3 DEF p
    <3>5. 2 \in 1..Len(c) /\ i + 1 = k + 2 /\ i < Len(t)
      BY <1>1, <1>2, <2>2, <3>4
    <3> QED BY <1>2, <3>4, <3>5
  <2>3. CASE i > k + 1
    <3>1. i - 1 \in Nat /\ i - 1 > k
      BY <1>2, <2>3
    <3>2. c = <<r>>
      BY <1>5, <1>8, <3>1
    <3>3. Len(c) = 1
      BY <3>2
    <3> QED BY <1>2, <2>3, <3>3
  <2> QED BY <1>2, <2>1, <2>2, <2>3
<1> QED BY <1>6, <1>7, <1>8 DEF Follows, p, t, b, c

\* The queue starts, and starts again when the port is closed, with nothing.
LEMMA NothingFollows ==
  ASSUME NEW p
  PROVE  Begins(<< >>, << >>) /\ Follows(p, << >>, << >>, 0)
BY DEF Begins, Follows

\* The parity of the line changes only when the queue is empty: another program sets
\* the line while the port is closed.
LEMMA LineStays ==
  ASSUME TypeOK, OpenUnderLock, ClosedIsEmpty, Settled, Sound, [Next]_vars,
         rx.input # << >>
  PROVE  line'.parity = line.parity
<1>1. CASE UNCHANGED <<dev, line, lock>>
  BY <1>1
<1>2. CASE Opened \/ OpenFails \/ Close \/ OthersLock
  BY <1>2 DEF Opened, OpenFails, Close, OthersLock
<1>3. CASE OthersUnlock
  BY <1>3 DEF OthersUnlock, OpenUnderLock, ClosedIsEmpty, Sound
<1>4. CASE SpeedChecked \/ SpeedFails
  BY <1>4 DEF SpeedChecked, SpeedFails, SetLine, SetLineFails, Settled
<1>5. CASE \E s \in Settings : SetSettings(s)
  BY <1>5 DEF SetSettings
<1> QED BY <1>1, <1>2, <1>3, <1>4, <1>5, PortSteps

\* The steps that change what has come from the camera.
LEMMA RxSteps ==
  ASSUME [Next]_vars
  PROVE  \/ UNCHANGED rx
         \/ Close \/ HangUp \/ (\E b \in Byte : Arrive(b))
         \/ ReadTimeout \/ ReadNothing \/ ReadAlone \/ Interrupted
         \/ ReadPlain \/ ReadParity \/ ReadMarked
<1> USE DEF Next, Proceed, Application, vars
<1>1. CASE CallOpen \/ Opened \/ OpenFails \/ Locked \/ CloseFails
  BY <1>1 DEF CallOpen, Opened, OpenFails, Locked, CloseFails
<1>2. CASE SpeedChecked \/ SpeedFails \/ \E s \in Settings : SetSettings(s)
  BY <1>2 DEF SpeedChecked, SpeedFails, SetSettings
<1>3. CASE \/ WriteFails \/ Finish
           \/ \E n \in 1..call.left : Write(n)
           \/ \E m \in Message : CallWrite(m)
           \/ \E n \in 1..MaxRead : CallRead(n)
  BY <1>3 DEF WriteFails, Finish, Write, CallWrite, CallRead
<1>4. CASE OthersLock \/ OthersUnlock
  BY <1>4 DEF OthersLock, OthersUnlock
<1> QED BY <1>1, <1>2, <1>3, <1>4

\* Of the queue the first bytes go, and nothing is added to it but by the camera.
LEMMA QueueSteps ==
  ASSUME TypeOK, [Next]_vars
  PROVE  \/ rx'.input = << >>
         \/ rx.input # << >> /\ (~rx'.spoilt => ~rx.spoilt)
            /\ (UNCHANGED rx \/ UNCHANGED <<dev, line, lock>>)
         \/ \E b \in Byte : Arrive(b)
<1>1. rx \in Rx /\ rx.input \in Seq(Received) /\ rx.spoilt \in BOOLEAN
      /\ call.left \in Nat
  BY DEF TypeOK, Rx, Call
<1>2. CASE Close
  BY <1>2 DEF Close, NoRx
<1>3. CASE UNCHANGED rx
  BY <1>3
<1>4. CASE HangUp
  BY <1>1, <1>4 DEF HangUp, Rx
<1>5. ASSUME NEW n, ReadError(n), rx.input = << >> => n = 0
      PROVE  \/ rx'.input = << >>
             \/ rx.input # << >> /\ rx'.spoilt = TRUE /\ UNCHANGED <<dev, line, lock>>
  <2>1. rx'.input = SubSeq(rx.input, n + 1, Len(rx.input)) /\ rx'.spoilt = TRUE
        /\ UNCHANGED <<dev, line, lock>>
    BY <1>1, <1>5 DEF ReadError, Rx
  <2>2. SubSeq(<< >>, 1, 0) = << >> /\ Len(<< >>) = 0
    BY SubSeqEmpty
  <2> QED BY <1>5, <2>1, <2>2
<1>6. ASSUME NEW n, NEW S, Deliver(n, S)
      PROVE  rx'.spoilt = rx.spoilt /\ UNCHANGED <<dev, line, lock>>
  BY <1>1, <1>6 DEF Deliver, Rx
<1>7. CASE ReadTimeout \/ ReadNothing \/ Interrupted
  <2>1. Len(<< >>) = 0
    OBVIOUS
  <2>2. ReadsAlone => rx.input # << >>
    BY <2>1 DEF ReadsAlone
  <2>3. CASE ReadTimeout \/ ReadNothing
    BY <1>3, <1>5, <2>3 DEF ReadTimeout, ReadNothing, Nothing
  <2>4. CASE Interrupted
    BY <1>3, <1>5, <2>2, <2>4 DEF Interrupted, Nothing
  <2> QED BY <1>7, <2>3, <2>4
<1>8. CASE ReadPlain
  <2>1. Len(<< >>) = 0
    OBVIOUS
  <2>2. rx.input # << >>
    BY <1>1, <1>8, <2>1 DEF ReadPlain
  <2> QED BY <1>6, <1>8, <2>2 DEF ReadPlain
<1>9. CASE ReadParity
  BY <1>6, <1>9 DEF ReadParity
<1>10. CASE ReadMarked \/ ReadAlone
  <2>1. rx.input # << >>
    BY <1>10 DEF ReadMarked, ReadAlone, ReadsAlone
  <2> QED BY <1>5, <1>6, <1>10, <2>1 DEF ReadMarked, ReadAlone
<1> QED BY <1>2, <1>3, <1>4, <1>7, <1>8, <1>9, <1>10, RxSteps

\* Opening twice loses a descriptor for good.
LEMMA LostStays ==
  ASSUME TypeOK, [Next]_vars, ~dev'.lost
  PROVE  ~dev.lost
<1>1. CASE Opened \/ OpenFails \/ Close \/ OthersLock \/ OthersUnlock
  BY <1>1 DEF Opened, OpenFails, Close, OthersLock, OthersUnlock, TypeOK, Port
<1> QED BY <1>1, LineSteps, PortSteps

LEMMA StepEmpty ==
  ASSUME TypeOK, ClosedIsEmpty, [Next]_vars
  PROVE  ClosedIsEmpty'
<1>1. CASE rx'.input = << >>
  BY <1>1 DEF ClosedIsEmpty
<1>2. CASE rx.input # << >> /\ UNCHANGED <<dev, line, lock>>
  BY <1>2 DEF ClosedIsEmpty
<1>3. CASE \E b \in Byte : Arrive(b)
  BY <1>3 DEF Arrive, ClosedIsEmpty
<1>4. CASE rx.input # << >> /\ UNCHANGED rx
  <2>1. CASE Close
    BY <1>1, <2>1 DEF Close, NoRx
  <2>2. CASE Opened \/ OpenFails \/ OthersLock \/ OthersUnlock
    BY <1>4, <2>2 DEF Opened, OpenFails, OthersLock, OthersUnlock, ClosedIsEmpty,
                      TypeOK, Port
  <2>3. CASE SpeedChecked \/ SpeedFails \/ \E s \in Settings : SetSettings(s)
    BY <1>4, <2>3, LineSteps DEF ClosedIsEmpty
  <2> QED BY <1>2, <1>4, <2>1, <2>2, <2>3, PortSteps
<1> QED BY <1>1, <1>2, <1>3, <1>4, QueueSteps

LEMMA StepSettled ==
  ASSUME TypeOK, OpenUnderLock, ClosedIsEmpty, Settled, [Next]_vars
  PROVE  Settled'
<1>1. CASE rx'.input = << >>
  BY <1>1 DEF Settled
<1>2. CASE /\ rx.input # << >> /\ (~rx'.spoilt => ~rx.spoilt)
           /\ UNCHANGED <<dev, line, lock>>
  <2>1. Sound' => Sound
    BY <1>2 DEF Sound
  <2>2. line' = line /\ dev' = dev
    BY <1>2
  <2>3. Sound => line.parity = dev.settings.parity
    BY <1>2 DEF Settled
  <2> QED BY <2>1, <2>2, <2>3 DEF Settled
<1>3. ASSUME NEW b \in Byte, Arrive(b)
      PROVE  Settled'
  <2>1. rx'.spoilt = (rx.spoilt \/ line # dev.settings) /\ UNCHANGED <<dev, line>>
    BY <1>3 DEF Arrive, TypeOK, Rx
  <2> QED BY <2>1 DEF Settled, Sound
<1>4. CASE rx.input # << >> /\ UNCHANGED rx
  <2> SUFFICES ASSUME Sound' PROVE line'.parity = dev'.settings.parity
    BY DEF Settled
  <2>1. Sound
    BY <1>4, LostStays DEF Sound
  <2>2. line.parity = dev.settings.parity
    BY <1>4, <2>1 DEF Settled
  <2>3. CASE Opened \/ OpenFails \/ Close \/ OthersLock \/ OthersUnlock
    <3>1. dev'.settings = dev.settings
      BY <2>3 DEF Opened, OpenFails, Close, OthersLock, OthersUnlock, TypeOK, Port
    <3> QED BY <1>4, <2>1, <2>2, <3>1, LineStays
  <2>4. CASE SpeedChecked \/ SpeedFails
    BY <2>2, <2>4 DEF SpeedChecked, SpeedFails, SetLine, SetLineFails, TypeOK, Port
  <2>5. CASE \E s \in Settings : SetSettings(s)
    BY <1>4, <2>5 DEF SetSettings
  <2> QED BY <2>2, <2>3, <2>4, <2>5, PortSteps
<1> QED BY <1>1, <1>2, <1>3, <1>4, QueueSteps

\* What is delivered from the beginning of the queue, where there is no mark, is
\* what was sent next.
LEMMA DeliverKeeps ==
  ASSUME TypeOK, Intact, NEW n \in 1..Len(rx.input), NEW S \in Seq(Received),
         Len(S) = n, \A i \in 1..n : S[i] = rx.input[i],
         Unmarked(line.parity, rx.input, n), Deliver(n, S)
  PROVE  Intact'
<1> DEFINE d == Len(rx.delivered)
<1>1. /\ rx.input \in Seq(Received) /\ rx.arrived \in Seq(Received)
      /\ rx.delivered \in Seq(Received) /\ line.parity \in BOOLEAN
      /\ d \in Nat /\ Len(rx.input) \in Nat /\ Len(rx.arrived) \in Nat
  BY ConstAssumption, LenProperties DEF TypeOK, Rx
<1>2. /\ rx'.input = SubSeq(rx.input, n + 1, Len(rx.input))
      /\ rx'.delivered = rx.delivered \o S
      /\ rx'.arrived = rx.arrived /\ Sound' = Sound /\ line' = line
  BY DEF Deliver, TypeOK, Rx, Sound
<1>3. /\ Len(rx'.delivered) = d + n
      /\ \A i \in 1..d : rx'.delivered[i] = rx.delivered[i]
      /\ \A i \in 1..n : rx'.delivered[d + i] = rx.input[i]
  <2>1. /\ Len(rx.delivered \o S) = d + Len(S)
        /\ \A i \in 1..(d + Len(S)) :
             (rx.delivered \o S)[i] = IF i <= d THEN rx.delivered[i] ELSE S[i - d]
    BY <1>1, ConcatProperties
  <2>2. ASSUME NEW i \in 1..d
        PROVE  (rx.delivered \o S)[i] = rx.delivered[i]
    BY <1>1, <2>1
  <2>3. ASSUME NEW i \in 1..n
        PROVE  (rx.delivered \o S)[d + i] = S[i]
    <3>1. d + i \in 1..(d + Len(S)) /\ ~(d + i <= d) /\ (d + i) - d = i
      BY <1>1
    <3> QED BY <2>1, <3>1
  <2> QED BY <1>2, <2>1, <2>2, <2>3
<1> SUFFICES ASSUME Sound PROVE Begins(rx.delivered, rx.arrived)'
                                /\ Follows(line.parity, rx.input, rx.arrived, d)'
  BY <1>2 DEF Intact
<1>4. Begins(rx.delivered, rx.arrived) /\ Follows(line.parity, rx.input, rx.arrived, d)
  BY DEF Intact
<1> HIDE DEF d
<1>5. ASSUME NEW i \in 1..n
      PROVE  /\ d + i <= Len(rx.arrived) /\ rx.input[i] = rx.arrived[d + i]
             /\ ~rx.input[i].bad
  <2>1. \A j \in 1..i : j \in 1..n
    BY <1>1
  <2>2. Unmarked(line.parity, rx.input, i)
    BY <2>1 DEF Unmarked
  <2>3. i \in 1..Len(rx.input)
    BY <1>1
  <2> QED BY <1>4, <2>2, <2>3 DEF Follows
<1>6. Begins(rx'.delivered, rx.arrived)
  <2>1. n \in 1..n
    BY <1>1
  <2>2. d + n <= Len(rx.arrived)
    BY <1>5, <2>1
  <2>3. ASSUME NEW i \in 1..(d + n)
        PROVE  rx'.delivered[i] = rx.arrived[i] /\ ~rx'.delivered[i].bad
    <3>1. CASE i <= d
      <4>1. i \in 1..d
        BY <1>1, <3>1
      <4> QED BY <1>3, <1>4, <4>1 DEF Begins, d
    <3>2. CASE i > d
      <4>1. i - d \in 1..n /\ d + (i - d) = i
        BY <1>1, <3>2
      <4> QED BY <1>3, <1>5, <4>1
    <3> QED BY <1>1, <3>1, <3>2
  <2> QED BY <1>3, <2>2, <2>3 DEF Begins
<1>7. Follows(line.parity, rx'.input, rx.arrived, d + n)
  <2>1. n \in 0..Len(rx.input)
    BY <1>1
  <2> QED BY <1>1, <1>2, <1>4, <2>1, LeftFollows
<1>8. d' = Len(rx'.delivered)
  BY DEF d
<1> QED BY <1>2, <1>3, <1>6, <1>7, <1>8

-----------------------------------------------------------------------------
(***************************************************************************)
(* The theorems.                                                           *)
(***************************************************************************)

\* What is left is never more than the message, through partial writes.
LEMMA StepLeft ==
  ASSUME TypeOK, LeftOfMessage, [Next]_vars
  PROVE  LeftOfMessage'
<1>1. CASE call' = call \/ call' = Idle
  BY <1>1 DEF LeftOfMessage, Idle
<1>2. CASE CallOpen \/ \E n \in 1..MaxRead : CallRead(n)
  BY <1>2 DEF CallOpen, CallRead, Idle, LeftOfMessage
<1>3. ASSUME NEW m \in Message, CallWrite(m)
      PROVE  LeftOfMessage'
  <2>1. Len(m) \in Nat
    BY ConstAssumption, LenProperties
  <2> QED BY <1>3, <2>1 DEF CallWrite, Idle, LeftOfMessage
<1>4. CASE Opened \/ Locked \/ SpeedChecked
  BY <1>4 DEF Opened, Locked, SpeedChecked, Goto, Return, Idle, LeftOfMessage,
              TypeOK, Call
<1>5. ASSUME NEW n \in 1..call.left, Write(n)
      PROVE  LeftOfMessage'
  <2>1. Len(call.data) \in Nat /\ call.left \in Nat
    BY LenProperties DEF TypeOK, Call
  <2> QED BY <1>5, <2>1 DEF Write, LeftOfMessage, TypeOK, Call
<1>6. CASE Reading /\ \E k, p : call' = [call EXCEPT !.left = k, !.at = p]
  BY <1>6 DEF Reading, LeftOfMessage, TypeOK, Call
<1> QED BY <1>1, <1>2, <1>3, <1>4, <1>5, <1>6, CallSteps

LEMMA InitTypes ==
  ASSUME Init
  PROVE  TypeOK /\ LeftOfMessage
BY Empty DEF Init, TypeOK, LeftOfMessage, Idle, Port, Speeds, Holder

\* The port, the line, the lock, the call and what comes from the camera keep
\* their types, whatever fails.  (A write could take bytes off the end of its
\* message if more of it were left than it has, hence LeftOfMessage.)
THEOREM TypeCorrect == Spec => []TypeOK
<1>1. Init => TypeOK /\ LeftOfMessage
  BY InitTypes
<1>2. TypeOK /\ LeftOfMessage /\ [Next]_vars => (TypeOK /\ LeftOfMessage)'
  BY StepTypes, StepLeft
<1> QED BY <1>1, <1>2, PTL DEF Spec

\* The device is open only under its lock (gp_port_serial_open and _close), for
\* any other program that takes and gives back the lock, however often the port is
\* opened, and whatever fails.
THEOREM OpenIsLocked == Spec => []OpenUnderLock
<1> USE DEF OpenUnderLock
<1>1. Init => OpenUnderLock
  BY DEF Init
<1>2. ASSUME TypeOK, OpenUnderLock, [Next]_vars
      PROVE  OpenUnderLock'
  <2>1. CASE UNCHANGED <<dev, line, lock>>
    BY <1>2, <2>1
  <2>2. CASE Opened \/ OpenFails
    BY <1>2, <2>2 DEF Opened, OpenFails
  <2>3. CASE Close
    BY <1>2, <2>3 DEF Close, TypeOK, Port
  <2>4. CASE OthersLock \/ OthersUnlock
    BY <1>2, <2>4 DEF OthersLock, OthersUnlock
  <2>5. CASE SpeedChecked \/ SpeedFails \/ \E s \in Settings : SetSettings(s)
    BY <1>2, <2>5, LineSteps
  <2> QED BY <1>2, <2>1, <2>2, <2>3, <2>4, <2>5, PortSteps
<1> QED BY <1>1, <1>2, TypeCorrect, PTL DEF Spec

\* gp_port_serial_read delivers what the camera has sent, in order and undamaged, of
\* bytes that came while the line was at the settings, until a read fails: it takes
\* no mark of the line discipline for a byte (PARMRK: an 0xff is doubled, and a byte
\* with a parity error follows an 0xff and a NUL), and no byte for a mark, however
\* reads, signals, arrivals, changes of the settings that fail or not, reopening and
\* other programs follow each other.
THEOREM ReadsAreTrue == Spec => []DeliversWhatIsSent
<1>1. Init => Settled /\ ClosedIsEmpty /\ Intact
  BY NothingFollows DEF Init, NoRx, Settled, ClosedIsEmpty, Intact
<1>2. ASSUME TypeOK, OpenUnderLock, ClosedIsEmpty, Settled, Intact, [Next]_vars
      PROVE  Intact'
  <2>1. /\ rx \in Rx /\ rx.input \in Seq(Received) /\ rx.arrived \in Seq(Received)
        /\ rx.delivered \in Seq(Received) /\ line.parity \in BOOLEAN
        /\ Len(rx.delivered) \in Nat /\ Len(rx.input) \in Nat
    BY <1>2, ConstAssumption, LenProperties DEF TypeOK, Rx
  <2>2. Sound /\ rx.input # << >> => line.parity = dev.settings.parity
    BY <1>2 DEF Settled
  <2>3. CASE UNCHANGED rx \/ HangUp
    <3>1. /\ rx'.input = rx.input /\ rx'.arrived = rx.arrived
          /\ rx'.delivered = rx.delivered /\ rx'.spoilt = rx.spoilt
      BY <2>1, <2>3 DEF HangUp, Rx
    <3> SUFFICES ASSUME Sound' PROVE Begins(rx.delivered, rx.arrived)
                                     /\ Follows(line'.parity, rx.input, rx.arrived,
                                                Len(rx.delivered))
      BY <3>1 DEF Intact
    <3>2. Sound
      BY <1>2, <3>1, LostStays DEF Sound
    <3>3. CASE rx.input # << >>
      BY <1>2, <3>2, <3>3, LineStays DEF Intact
    <3>4. CASE rx.input = << >>
      <4>1. ASSUME NEW p, NEW q, NEW a, NEW d, Follows(p, << >>, a, d)
            PROVE  Follows(q, << >>, a, d)
        BY <4>1 DEF Follows, Unmarked
      <4> QED BY <1>2, <3>2, <3>4, <4>1 DEF Intact
    <3> QED BY <3>3, <3>4
  <2>4. CASE Close
    BY <2>4, NothingFollows DEF Close, NoRx, Intact
  <2>5. ASSUME NEW b \in Byte, Arrive(b)
        PROVE  Intact'
    <3>1. PICK bad \in {FALSE, line.parity} :
            LET r == [byte |-> b, bad |-> bad]
            IN rx' = [rx EXCEPT !.input = @ \o Cooked(r), !.arrived = Append(@, r),
                                !.spoilt = @ \/ line # dev.settings]
      BY <2>5 DEF Arrive
    <3> DEFINE r == [byte |-> b, bad |-> bad]
    <3>2. r \in Received /\ (r.bad => line.parity)
      BY <2>1, ConstAssumption DEF Received
    <3> HIDE DEF r
    <3>3. /\ rx'.input = rx.input \o Cooked(r) /\ rx'.arrived = Append(rx.arrived, r)
          /\ rx'.delivered = rx.delivered /\ (Sound' => Sound) /\ line' = line
      BY <2>1, <2>5, <3>1 DEF Arrive, Rx, r, Sound
    <3> SUFFICES ASSUME Sound
                 PROVE  /\ Begins(rx.delivered, Append(rx.arrived, r))
                        /\ Follows(line.parity, rx.input \o Cooked(r),
                                   Append(rx.arrived, r), Len(rx.delivered))
      BY <3>3 DEF Intact
    <3>4. Begins(rx.delivered, rx.arrived)
          /\ Follows(line.parity, rx.input, rx.arrived, Len(rx.delivered))
      BY <1>2 DEF Intact
    <3>5. /\ Len(Append(rx.arrived, r)) = Len(rx.arrived) + 1
          /\ \A i \in 1..Len(rx.arrived) : Append(rx.arrived, r)[i] = rx.arrived[i]
          /\ Len(rx.arrived) \in Nat
      BY <2>1, <3>2, AppendProperties, LenProperties
    <3>6. Begins(rx.delivered, Append(rx.arrived, r))
      <4>1. \A i \in 1..Len(rx.delivered) : i \in 1..Len(rx.arrived)
        BY <2>1, <3>4, <3>5 DEF Begins
      <4> QED BY <2>1, <3>4, <3>5, <4>1 DEF Begins
    <3>7. Follows(line.parity, rx.input \o Cooked(r), Append(rx.arrived, r),
                  Len(rx.delivered))
      BY <2>1, <3>2, <3>4, LongerFollows
    <3> QED BY <3>6, <3>7
  <2>6. ASSUME NEW n, ReadError(n)
        PROVE  Intact'
    BY <2>1, <2>6 DEF ReadError, Intact, Rx, Sound
  <2>7. CASE ReadTimeout \/ ReadNothing \/ ReadAlone \/ Interrupted
    BY <2>3, <2>6, <2>7 DEF ReadTimeout, ReadNothing, ReadAlone, Interrupted
  <2>8. CASE ReadPlain
    <3> DEFINE n == IF call.left < Len(rx.input) THEN call.left ELSE Len(rx.input)
    <3>1. n > 0 /\ Deliver(n, SubSeq(rx.input, 1, n)) /\ ~dev.settings.parity
      BY <2>8 DEF ReadPlain
    <3>2. n \in 1..Len(rx.input) /\ n \in 0..Len(rx.input)
      BY <1>2, <2>1, <3>1 DEF TypeOK, Call
    <3> HIDE DEF n
    <3> SUFFICES ASSUME Sound PROVE Intact'
      BY <2>1, <3>1 DEF Deliver, Intact, Sound, Rx
    <3>3. /\ SubSeq(rx.input, 1, n) \in Seq(Received)
          /\ Len(SubSeq(rx.input, 1, n)) = n
          /\ \A i \in 1..n : SubSeq(rx.input, 1, n)[i] = rx.input[i]
      BY <2>1, <3>2, SubSeqProperties
    <3>4. rx.input # << >>
      <4>1. Len(<< >>) = 0
        OBVIOUS
      <4> QED BY <2>1, <3>2, <4>1
    <3>5. Unmarked(line.parity, rx.input, n)
      BY <2>2, <3>1, <3>4 DEF Unmarked
    <3> QED BY <1>2, <3>1, <3>2, <3>3, <3>5, DeliverKeeps
  <2>9. CASE ReadParity
    <3>1. /\ Deliver(1, <<Head(rx.input)>>) /\ rx.input # << >>
          /\ Head(rx.input).byte # FF
      BY <2>9 DEF ReadParity
    <3>2. Len(rx.input) > 0 /\ Head(rx.input) = rx.input[1] /\ rx.input[1] \in Received
      BY <2>1, <3>1, EmptySeq, ElementOfSeq
    <3>3. 1 \in 1..Len(rx.input)
      BY <2>1, <3>2
    <3>4. /\ <<Head(rx.input)>> \in Seq(Received) /\ Len(<<Head(rx.input)>>) = 1
          /\ \A i \in 1..1 : <<Head(rx.input)>>[i] = rx.input[i]
      BY <3>2
    <3>5. Unmarked(line.parity, rx.input, 1)
      BY <3>1, <3>2 DEF Unmarked
    <3> QED BY <1>2, <3>1, <3>3, <3>4, <3>5, DeliverKeeps
  <2>10. CASE ReadMarked
    <3>1. /\ Len(rx.input) > 1 /\ rx.input[1].byte = FF /\ dev.settings.parity
          /\ \/ rx.input[2].byte \notin {FF, NUL}
             \/ ReadError(2)
      BY <2>10 DEF ReadMarked
    <3>2. ASSUME Sound
          PROVE  rx.input[2].byte \in {FF, NUL}
      <4>0. line.parity
        <5>1. rx.input # << >>
          BY <2>1, <3>1, EmptySeq
        <5> QED BY <2>2, <3>1, <3>2, <5>1
      <4>1. Follows(line.parity, rx.input, rx.arrived, Len(rx.delivered))
        BY <1>2, <3>2 DEF Intact
      <4>2. 1 \in 1..Len(rx.input) /\ 1 \in 1..1 /\ 1 - 1 = 0 /\ 1 + 1 = 2
        BY <2>1, <3>1
      <4>3. Unmarked(line.parity, rx.input, 1 - 1)
        BY DEF Unmarked
      <4>4. ~Unmarked(line.parity, rx.input, 1)
        BY <3>1, <4>0, <4>2 DEF Unmarked
      <4> QED BY <4>1, <4>2, <4>3, <4>4 DEF Follows
    <3>3. CASE ~Sound
      <4>1. ~Sound'
        BY <2>1, <2>10, <3>3 DEF ReadMarked, ReadError, Deliver, Rx, Sound
      <4> QED BY <4>1 DEF Intact
    <3> QED BY <2>6, <3>1, <3>2, <3>3
  <2> QED BY <1>2, <2>3, <2>4, <2>5, <2>7, <2>8, <2>9, <2>10, RxSteps
<1>3. TypeOK /\ Intact => DeliversWhatIsSent
  <2> SUFFICES ASSUME TypeOK, Intact, Sound
               PROVE  /\ IsPrefix(rx.delivered, rx.arrived)
                      /\ \A i \in DOMAIN rx.delivered : ~rx.delivered[i].bad
    BY DEF DeliversWhatIsSent, Sound
  <2> DEFINE d == Len(rx.delivered)
  <2>1. /\ rx.delivered \in Seq(Received) /\ rx.arrived \in Seq(Received)
        /\ d \in Nat /\ Len(rx.arrived) \in Nat /\ DOMAIN rx.delivered = 1..d
    BY LenProperties DEF TypeOK, Rx
  <2>2. /\ d <= Len(rx.arrived)
        /\ \A i \in 1..d : rx.delivered[i] = rx.arrived[i] /\ ~rx.delivered[i].bad
    BY DEF Intact, Begins
  <2> HIDE DEF d
  <2>3. d \in 0..d /\ d \in 0..Len(rx.arrived)
    BY <2>1, <2>2
  <2>4. /\ SubSeq(rx.delivered, 1, d) \in Seq(Received)
        /\ Len(SubSeq(rx.delivered, 1, d)) = d
        /\ SubSeq(rx.arrived, 1, d) \in Seq(Received)
        /\ Len(SubSeq(rx.arrived, 1, d)) = d
    BY <2>1, <2>3, Parts DEF d
  <2>5. ASSUME NEW i \in 1..d
        PROVE  SubSeq(rx.delivered, 1, d)[i] = SubSeq(rx.arrived, 1, d)[i]
    BY <2>1, <2>2, <2>3, SubSeqProperties
  <2>6. SubSeq(rx.delivered, 1, d) = SubSeq(rx.arrived, 1, d)
    BY <2>4, <2>5, SeqEqual
  <2> QED BY <2>1, <2>2, <2>6 DEF IsPrefix, d
<1> QED BY <1>1, <1>2, <1>3, StepSettled, StepEmpty, TypeCorrect, OpenIsLocked, PTL
        DEF Spec
=============================================================================

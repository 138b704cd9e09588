-------------------------- MODULE KonicaLink_proofs --------------------------
(***************************************************************************)
(* Proofs about KonicaLink: its type invariant, and that the keepalive     *)
(* timer runs between the calls and never during a transfer of a picture.  *)
(***************************************************************************)
EXTENDS KonicaLink, SequenceTheorems, TLAPS

(***************************************************************************)
(* Type correctness.  What is read has its type only because of where the  *)
(* driver and the camera are.                                              *)
(***************************************************************************)
Held(c) ==
  /\ c.at \in {"end", "sum"} /\ c.good => c.held \in Packet
  /\ c.at \in {"swallow", "spoilt"} => ~c.good
  /\ c.cmd # "none" => c.n \in 1 .. MaxCalls
  /\ c.at \notin {"idle", "ping", "reject"} \/ c.back # "none" => c.cmd # "none"

Answers(c) ==
  /\ c.at # "idle" => c.n \in 1 .. MaxCalls
  /\ c.at \in {"work", "enq", "sent"} => c.left # << >>

TInv == TypeOK /\ Held(call) /\ Answers(cam)

LEMMA BytesType ==
  /\ \A k \in Controls : Byte(k) \in HostByte
  /\ \A p \in Packet : Data(p) \in HostByte
  /\ \A k \in {"ENQ", "ACK", "NACK", "EOT", "junk"} : Signal(k) \in CameraByte
  /\ \A n \in 1 .. MaxCalls, op \in Commands : CommandOf(n, op) \in CameraByte
BY DEF HostByte, CameraByte

LEMMA PacketBytesType == \A p \in Packet : Bytes(p) \in Seq(HostByte)
<1> SUFFICES ASSUME NEW p \in Packet PROVE Bytes(p) \in Seq(HostByte)
  OBVIOUS
<1>1. /\ Byte("STX") \in HostByte /\ Byte("size") \in HostByte
      /\ Data(p) \in HostByte /\ Byte("sum") \in HostByte
      /\ Byte(IF IsLast(p) THEN "ETX" ELSE "ETB") \in HostByte
  BY BytesType DEF Controls
<1> QED
  BY <1>1 DEF Bytes

LEMMA AnswerType ==
  \A n \in 1 .. MaxCalls, op \in Commands :
    Answer(n, op) \in Seq(Packet) /\ Answer(n, op) # << >>
<1> SUFFICES ASSUME NEW n \in 1 .. MaxCalls, NEW op \in Commands
             PROVE  Answer(n, op) \in Seq(Packet) /\ Answer(n, op) # << >>
  OBVIOUS
<1> DEFINE P(w, k) == [n |-> n, op |-> op, what |-> w, part |-> k]
<1>1. \A w \in {"picture", "control"}, k \in 1 .. Parts : P(w, k) \in Packet
  BY DEF Packet
<1>2. Parts \in Nat /\ 1 \in 1 .. Parts
  BY KonicaAssumption
<1>3. Picture(n, op) \in Seq(Packet)
  BY <1>1, <1>2 DEF Picture
<1>4. Control(n, op) \in Seq(Packet) /\ Len(Control(n, op)) = 1
  BY <1>1, <1>2 DEF Control
<1>5. /\ Picture(n, op) \o Control(n, op) \in Seq(Packet)
      /\ Picture(n, op) \o Control(n, op) # << >>
  <2>1. /\ Picture(n, op) \o Control(n, op) \in Seq(Packet)
        /\ Len(Picture(n, op) \o Control(n, op)) =
             Len(Picture(n, op)) + Len(Control(n, op))
    BY <1>3, <1>4, ConcatProperties
  <2>2. Len(Picture(n, op)) \in Nat
    BY <1>3, LenProperties
  <2> QED
    BY <1>4, <2>1, <2>2
<1>8. Control(n, op) # << >>
  BY <1>4
<1>9. CASE op \in Pictured
  BY <1>5, <1>9 DEF Answer
<1>10. CASE op \notin Pictured
  BY <1>4, <1>8, <1>10 DEF Answer
<1> QED
  BY <1>9, <1>10

LEMMA WriteType ==
  ASSUME TypeOK, NEW b \in CameraByte, Write(b)
  PROVE  toCamera' \in Seq(CameraByte)
BY DEF TypeOK, Write

LEMMA TakenType ==
  ASSUME TypeOK, Taken
  PROVE  toHost' \in Seq(HostByte) /\ Head(toHost) \in HostByte
BY DEF TypeOK, Taken

LEMMA FlushType ==
  ASSUME TypeOK, Flush
  PROVE  toHost' \in Seq(HostByte)
<1>1. toHost \in Seq(HostByte) /\ Len(toHost) \in Nat
  BY LenProperties DEF TypeOK
<1>2. PICK k \in 1 .. Len(toHost) : toHost' = SubSeq(toHost, k + 1, Len(toHost))
  BY DEF Flush
<1>3. \A i \in k + 1 .. Len(toHost) : toHost[i] \in HostByte
  BY <1>1, ElementOfSeq
<1> QED
  BY <1>1, <1>2, <1>3, SubSeqProperties

\* Only a byte of data holds a packet.
LEMMA DataType ==
  ASSUME TypeOK, Got("data")
  PROVE  Head(toHost).packet \in Packet
<1>1. Head(toHost) \in HostByte /\ Head(toHost).kind = "data"
  BY DEF TypeOK, Got
<1>2. ASSUME NEW k \in Controls PROVE Byte(k).kind # "data"
  BY <1>2 DEF Byte, Controls
<1>3. \A p \in Packet : Data(p).packet = p
  BY DEF Data
<1>4. PICK p \in Packet : Head(toHost) = Data(p)
  BY <1>1, <1>2 DEF HostByte
<1> QED
  BY <1>3, <1>4

-----------------------------------------------------------------------------
(* The driver's side of the state, and the two ways in which a step of the *)
(* driver changes it.                                                      *)
DriverOK ==
  /\ call \in CallState /\ Held(call)
  /\ result \in Result
  /\ pl \in [open : BOOLEAN, timeout : Timer \union {NoTimer}, missed : BOOLEAN]
  /\ ticking \subseteq Timer
  /\ line \in LineState /\ Len(line.asked) <= MaxCalls

LEMMA StayType ==
  ASSUME TInv, NEW c \in CallState, Held(c), Stay(c)
  PROVE  DriverOK'
BY DEF TInv, TypeOK, Stay, DriverOK, Held

LEMMA NoCallType == NoCall \in CallState /\ Held(NoCall)
<1>1. << >> \in Seq(Packet)
  OBVIOUS
<1>2. MaxCalls \in Nat
  BY KonicaAssumption
<1>3. NoPacket \in Packet \union {NoPacket}
  OBVIOUS
<1> QED
  BY <1>1, <1>2, <1>3 DEF NoCall, CallState, Held, Places

LEMMA ReturnType ==
  ASSUME TInv, NEW r \in {"ok", "error", "cancelled"}, Return(r)
  PROVE  DriverOK'
<1>1. call' \in CallState /\ Held(call)'
  BY NoCallType DEF Return, Held
<1>2. result' \in Result
  <2>1. << >> \in Seq(Packet) /\ 0 \in 0 .. MaxCalls
    BY KonicaAssumption
  <2>2. call.picture \in Seq(Packet) /\ call.data \in Seq(Packet) /\ call.n \in 0 .. MaxCalls
    BY DEF TInv, TypeOK, CallState
  <2>3. call.picture \o call.data \in Seq(Packet)
    BY <2>2, ConcatProperties
  <2>4. [status |-> "error", n |-> 0, got |-> << >>] \in Result
    BY <2>1 DEF Result
  <2>5. [status |-> r, n |-> call.n, got |-> call.picture \o call.data] \in Result
    BY <2>2, <2>3 DEF Result
  <2>6. [NoResult EXCEPT !.status = "error"] = [status |-> "error", n |-> 0, got |-> << >>]
    BY DEF NoResult
  <2> QED
    BY <2>4, <2>5, <2>6 DEF Return
<1>3. pl' \in [open : BOOLEAN, timeout : Timer \union {NoTimer}, missed : BOOLEAN]
  <2>1. \/ \E t \in Timer : pl' = [open |-> TRUE, timeout |-> t, missed |-> FALSE]
        \/ pl' = [pl EXCEPT !.missed = TRUE]
        \/ pl' = pl
    BY DEF Return, StartTimeout
  <2>2. pl \in [open : BOOLEAN, timeout : Timer \union {NoTimer}, missed : BOOLEAN]
    BY DEF TInv, TypeOK
  <2>3. ASSUME NEW t \in Timer, pl' = [open |-> TRUE, timeout |-> t, missed |-> FALSE]
        PROVE  pl' \in [open : BOOLEAN, timeout : Timer \union {NoTimer}, missed : BOOLEAN]
    BY <2>3
  <2>4. CASE pl' = [pl EXCEPT !.missed = TRUE]
    BY <2>2, <2>4
  <2>5. CASE pl' = pl
    BY <2>2, <2>5
  <2> QED
    BY <2>1, <2>3, <2>4, <2>5
<1>4. ticking' \subseteq Timer
  BY DEF TInv, TypeOK, Return, StartTimeout
<1>5. line' \in LineState /\ Len(line'.asked) <= MaxCalls
  BY DEF TInv, TypeOK, Return
<1> QED
  BY <1>1, <1>2, <1>3, <1>4, <1>5 DEF DriverOK

LEMMA DoneType ==
  ASSUME TInv, NEW r \in {"ok", "error"}, Done(r)
  PROVE  DriverOK'
BY ReturnType DEF Done

LEMMA PingType ==
  ASSUME TInv, NEW c \in CallState, c.cmd # "none" => c.n \in 1 .. MaxCalls,
         c.back # "none" => c.cmd # "none", Ping(c)
  PROVE  call' \in CallState /\ Held(call)' /\ toCamera' \in Seq(CameraByte)
<1>1. call' \in CallState /\ Held(call')
  BY DEF Ping, CallState, Held, Places
<1>2. toCamera' \in Seq(CameraByte)
  BY BytesType, WriteType DEF Ping, TInv
<1> QED
  BY <1>1, <1>2 DEF Held

LEMMA DriverStep ==
  ASSUME TInv, DriverOK', toHost' \in Seq(HostByte), toCamera' \in Seq(CameraByte),
         UNCHANGED cam
  PROVE  TInv'
BY DEF TInv, TypeOK, DriverOK, Answers

LEMMA CallFields ==
  ASSUME TInv
  PROVE  /\ call \in CallState /\ Held(call)
         /\ call.cmd # "none" => CommandOf(call.n, call.cmd) \in CameraByte
         /\ call.data \in Seq(Packet) /\ call.picture \in Seq(Packet)
         /\ \A b \in CameraByte : Write(b) => toCamera' \in Seq(CameraByte)
         /\ toCamera \in Seq(CameraByte) /\ toHost \in Seq(HostByte)
<1>1. call \in CallState /\ Held(call) /\ toCamera \in Seq(CameraByte) /\ toHost \in Seq(HostByte)
  BY DEF TInv, TypeOK
<1>2. call.cmd # "none" => CommandOf(call.n, call.cmd) \in CameraByte
  BY <1>1, BytesType DEF CallState, Held
<1>3. \A b \in CameraByte : Write(b) => toCamera' \in Seq(CameraByte)
  BY WriteType DEF TInv
<1> QED
  BY <1>1, <1>2, <1>3 DEF CallState

\* Steps that only move the driver or change its counters.
LEMMA CountType ==
  ASSUME TInv, Stay([call EXCEPT !.count = @ + 1])
  PROVE  DriverOK'
<1> DEFINE k == call.count + 1
<1>1. k \in Nat
  BY CallFields DEF CallState
<1> HIDE DEF k
<1> DEFINE c == [call EXCEPT !.count = k]
<1>2. call \in CallState /\ Held(call)
  BY CallFields
<1>3. c \in CallState
  BY <1>1, <1>2 DEF CallState
<1>4. /\ c.at = call.at /\ c.good = call.good /\ c.held = call.held
      /\ c.cmd = call.cmd /\ c.n = call.n /\ c.back = call.back
  BY <1>2 DEF CallState
<1>5. Stay(c)
  BY DEF k
<1> HIDE DEF c
<1>6. Held(c)
  BY <1>2, <1>4 DEF Held
<1> QED
  BY <1>3, <1>5, <1>6, StayType

LEMMA MoveType ==
  ASSUME TInv, call.cmd # "none", NEW at \in Places \ {"end", "sum", "swallow"}, NEW k \in Nat,
         at # "spoilt", Stay([call EXCEPT !.at = at, !.count = k])
  PROVE  DriverOK'
<1>1. [call EXCEPT !.at = at, !.count = k] \in CallState
  BY CallFields DEF CallState
<1>2. Held([call EXCEPT !.at = at, !.count = k])
  BY CallFields DEF Held, CallState
<1> QED
  BY <1>1, <1>2, StayType

LEMMA ReceivePacketType ==
  ASSUME TInv, call.cmd # "none", NEW data \in Seq(Packet), ReceivePacket(data)
  PROVE  DriverOK' /\ toCamera' \in Seq(CameraByte)
<1> DEFINE c == [call EXCEPT !.at = "stx", !.back = "none", !.count = 0, !.data = data]
<1>1. c \in CallState /\ Held(c)
  BY CallFields DEF CallState, Held, Places
<1>2. Stay(c) /\ Write(Signal("ACK"))
  BY DEF ReceivePacket
<1> HIDE DEF c
<1> QED
  BY <1>1, <1>2, StayType, CallFields, BytesType

LEMMA LineType ==
  ASSUME TInv
  PROVE  /\ line \in LineState
         /\ Len(line.asked) \in Nat /\ Len(line.asked) <= MaxCalls
         /\ MaxCalls \in Nat /\ MaxFaults \in Nat
<1>1. line \in LineState /\ Len(line.asked) <= MaxCalls
  BY DEF TInv, TypeOK
<1>2. line.asked \in Seq(Commands)
  BY <1>1 DEF LineState
<1> QED
  BY <1>1, <1>2, LenProperties, KonicaAssumption

\* A command is noted, and its ping is sent.
LEMMA AskType ==
  ASSUME TInv, NEW op \in Commands, Len(line.asked) < MaxCalls
  PROVE  /\ Len(line.asked) + 1 \in 1 .. MaxCalls
         /\ [line EXCEPT !.asked = Append(@, op)] \in LineState
         /\ [line EXCEPT !.asked = Append(@, op), !.disturbed = FALSE] \in LineState
         /\ Len(Append(line.asked, op)) = Len(line.asked) + 1
<1>1. line.asked \in Seq(Commands)
  BY LineType DEF LineState
<1>2. Append(line.asked, op) \in Seq(Commands) /\ Len(Append(line.asked, op)) = Len(line.asked) + 1
  BY <1>1, AppendProperties
<1> DEFINE a == Append(line.asked, op)
<1>3. a \in Seq(Commands)
  BY <1>2
<1> HIDE DEF a
<1>4. /\ [line EXCEPT !.asked = a] \in LineState
      /\ [line EXCEPT !.asked = a, !.disturbed = FALSE] \in LineState
  BY <1>3, LineType DEF LineState
<1>5. Len(line.asked) + 1 \in 1 .. MaxCalls
  BY LineType
<1> QED
  BY <1>2, <1>4, <1>5 DEF a

LEMMA CancelType ==
  ASSUME TInv, Cancel
  PROVE  DriverOK' /\ toCamera' \in Seq(CameraByte)
<1> DEFINE n == Len(line.asked) + 1
<1>1. "cancel" \in Commands
  BY DEF Commands
<1>2. n \in 1 .. MaxCalls /\ line' \in LineState /\ Len(line'.asked) = n
  BY <1>1, AskType, LineType DEF LineState, Cancel
<1> HIDE DEF n
<1> DEFINE c == [call EXCEPT !.cmd = "cancel", !.n = n, !.back = "none",
                             !.picture = << >>, !.data = << >>]
<1>3. c \in CallState /\ c.n = n /\ c.back = "none"
  <2>1. << >> \in Seq(Packet) /\ n \in 0 .. MaxCalls
    BY <1>2
  <2> QED
    BY <1>1, <2>1, CallFields DEF CallState
<1>4. Ping(c)
  BY DEF Cancel, n
<1> HIDE DEF c
<1>5. call' \in CallState /\ Held(call)' /\ toCamera' \in Seq(CameraByte)
  BY <1>2, <1>3, <1>4, PingType
<1>6. n <= MaxCalls
  BY <1>2, LineType
<1> QED
  BY <1>2, <1>5, <1>6 DEF Cancel, DriverOK, TInv, TypeOK

LEMMA ReceivedType ==
  ASSUME TInv, call.cmd # "none", Received
  PROVE  DriverOK'
<1>1. CASE Done("ok") \/ Done("error")
  BY <1>1, DoneType
<1>2. ASSUME NEW at \in {"await", "crashed"},
             Stay([call EXCEPT !.at = at, !.back = "none", !.picture = call.data, !.count = 0])
      PROVE  DriverOK'
  <2> DEFINE c == [call EXCEPT !.at = at, !.back = "none", !.picture = call.data, !.count = 0]
  <2>1. c \in CallState
    BY CallFields DEF CallState, Places
  <2>2. Held(c)
    BY CallFields DEF CallState, Held
  <2> HIDE DEF c
  <2> QED
    BY <1>2, <2>1, <2>2, StayType DEF c
<1> QED
  BY <1>1, <1>2 DEF Received

\* A ping in a callback of l_receive leaves a command behind it.
LEMMA ResumeType ==
  ASSUME TInv, Resume
  PROVE  DriverOK' /\ toCamera' \in Seq(CameraByte)
<1>1. call.cmd # "none"
  BY CallFields DEF Resume, Held
<1>2. CASE call.back = "await" /\ ReceivePacket(<< >>)
  <2>1. << >> \in Seq(Packet)
    OBVIOUS
  <2> QED
    BY <1>1, <1>2, <2>1, ReceivePacketType
<1>3. CASE ReceivePacket(call.data)
  BY <1>1, <1>3, ReceivePacketType, CallFields
<1>4. CASE Cancel
  BY <1>4, CancelType
<1>5. CASE /\ UNCHANGED toCamera
           /\ Stay([call EXCEPT !.at = "stx", !.back = "none", !.count = 0])
  <2> DEFINE c == [call EXCEPT !.at = "stx", !.back = "none", !.count = 0]
  <2>1. c \in CallState /\ Held(c)
    BY <1>1, CallFields DEF CallState, Held, Places
  <2> HIDE DEF c
  <2> QED
    BY <1>5, <2>1, StayType, CallFields DEF c
<1>6. CASE Received /\ UNCHANGED toCamera
  BY <1>1, <1>6, ReceivedType, CallFields
<1> QED
  BY <1>2, <1>3, <1>4, <1>5, <1>6 DEF Resume

LEMMA PingFailsType ==
  ASSUME TInv, PingFails
  PROVE  DriverOK' /\ toCamera' \in Seq(CameraByte)
<1>1. CASE Done("error") /\ UNCHANGED toCamera
  BY <1>1, DoneType, CallFields
<1>2. CASE Resume
  BY <1>2, ResumeType
<1> QED
  BY <1>1, <1>2 DEF PingFails

LEMMA PingAgainType ==
  ASSUME TInv, call.at \in {"ping", "reject"}, NEW most, PingAgain(most)
  PROVE  DriverOK' /\ toCamera' \in Seq(CameraByte)
<1>1. CASE Stay([call EXCEPT !.count = @ + 1]) /\ Write(Signal("ENQ"))
  BY <1>1, CountType, CallFields, BytesType
<1>2. CASE PingFails
  BY <1>2, PingFailsType
<1> QED
  BY <1>1, <1>2 DEF PingAgain

LEMMA PingedType ==
  ASSUME TInv, Pinged
  PROVE  DriverOK' /\ toCamera' \in Seq(CameraByte)
<1>1. CASE Done("ok") /\ UNCHANGED toCamera
  BY <1>1, DoneType, CallFields
<1>2. CASE call.cmd # "none" /\ Stay([call EXCEPT !.at = "sent", !.count = 0])
           /\ Write(CommandOf(call.n, call.cmd))
  BY <1>2, MoveType, CallFields DEF Places
<1>3. CASE Resume
  BY <1>3, ResumeType
<1> QED
  BY <1>1, <1>2, <1>3 DEF Pinged

LEMMA PingReplyType == TInv /\ PingReply => TInv'
<1> SUFFICES ASSUME TInv, PingReply PROVE TInv'
  OBVIOUS
<1>1. toHost' \in Seq(HostByte)
  BY TakenType, FlushType DEF PingReply, TInv
<1>2. DriverOK' /\ toCamera' \in Seq(CameraByte)
  <2>1. CASE Pinged
    BY <2>1, PingedType
  <2>2. CASE PingAgain(PingNacks) \/ PingAgain(PingTries + 1)
    BY <2>2, PingAgainType DEF PingReply
  <2>3. CASE Stay([call EXCEPT !.at = "reject"]) /\ Write(Signal("NACK"))
    <3> DEFINE c == [call EXCEPT !.at = "reject"]
    <3>1. c \in CallState /\ Held(c)
      <4>1. call \in CallState /\ "reject" \in Places
        BY CallFields DEF Places
      <4> QED
        BY <4>1, CallFields DEF CallState, Held
    <3> HIDE DEF c
    <3> QED
      BY <2>3, <3>1, StayType, CallFields, BytesType DEF c
  <2> QED
    BY <2>1, <2>2, <2>3 DEF PingReply
<1> QED
  BY <1>1, <1>2, DriverStep DEF PingReply

LEMMA RejectReplyType == TInv /\ RejectReply => TInv'
<1> SUFFICES ASSUME TInv, RejectReply PROVE TInv'
  OBVIOUS
<1>1. toHost' \in Seq(HostByte)
  BY TakenType DEF RejectReply, TInv
<1>2. DriverOK' /\ toCamera' \in Seq(CameraByte)
  <2>1. CASE Pinged
    BY <2>1, PingedType
  <2>2. CASE Stay(call) /\ UNCHANGED toCamera
    BY <2>2, StayType, CallFields
  <2>3. CASE PingFails
    BY <2>3, PingFailsType
  <2> QED
    BY <2>1, <2>2, <2>3 DEF RejectReply
<1> QED
  BY <1>1, <1>2, DriverStep DEF RejectReply

LEMMA SendReplyType == TInv /\ SendReply => TInv'
<1> SUFFICES ASSUME TInv, SendReply PROVE TInv'
  OBVIOUS
<1>1. toHost' \in Seq(HostByte)
  BY TakenType DEF SendReply, TInv
<1>2. call.cmd # "none"
  BY CallFields DEF SendReply, Held
<1>3. DriverOK' /\ toCamera' \in Seq(CameraByte)
  <2>1. CASE Stay([call EXCEPT !.at = "await", !.count = 0]) /\ Write(Signal("EOT"))
    BY <1>2, <2>1, MoveType, CallFields, BytesType DEF Places
  <2>2. CASE Stay([call EXCEPT !.count = @ + 1]) /\ Write(CommandOf(call.n, call.cmd))
    BY <1>2, <2>2, CountType, CallFields
  <2>3. CASE Done("error") /\ UNCHANGED toCamera
    BY <2>3, DoneType, CallFields
  <2> QED
    BY <2>1, <2>2, <2>3 DEF SendReply
<1> QED
  BY <1>1, <1>3, DriverStep DEF SendReply

LEMMA AwaitReplyType == TInv /\ AwaitReply => TInv'
<1> SUFFICES ASSUME TInv, AwaitReply PROVE TInv'
  OBVIOUS
<1>1. toHost' \in Seq(HostByte)
  BY TakenType DEF AwaitReply, TInv
<1>2. call.cmd # "none"
  BY CallFields DEF AwaitReply, Held
<1>3. DriverOK' /\ toCamera' \in Seq(CameraByte)
  <2>1. CASE ReceivePacket(<< >>)
    <3>1. << >> \in Seq(Packet)
      OBVIOUS
    <3> QED
      BY <1>2, <2>1, <3>1, ReceivePacketType
  <2>2. CASE Stay([call EXCEPT !.count = @ + 1]) /\ UNCHANGED toCamera
    BY <2>2, CountType, CallFields
  <2>3. CASE Done("error") /\ UNCHANGED toCamera
    BY <2>3, DoneType, CallFields
  <2>4. CASE Stay([call EXCEPT !.at = "dump"]) /\ UNCHANGED toCamera
    <3> DEFINE c == [call EXCEPT !.at = "dump"]
    <3>1. c \in CallState /\ Held(c)
      BY <1>2, CallFields DEF CallState, Held, Places
    <3> HIDE DEF c
    <3> QED
      BY <2>4, <3>1, StayType, CallFields DEF c
  <2> QED
    BY <2>1, <2>2, <2>3, <2>4 DEF AwaitReply
<1> QED
  BY <1>1, <1>3, DriverStep DEF AwaitReply

LEMMA DumpType == TInv /\ Dump => TInv'
<1> SUFFICES ASSUME TInv, Dump PROVE TInv'
  OBVIOUS
<1>1. toHost' \in Seq(HostByte)
  BY TakenType DEF Dump, TInv
<1>2. call.cmd # "none"
  BY CallFields DEF Dump, Held
<1>3. DriverOK' /\ toCamera' \in Seq(CameraByte)
  <2>1. CASE ReceivePacket(<< >>)
    <3>1. << >> \in Seq(Packet)
      OBVIOUS
    <3> QED
      BY <1>2, <2>1, <3>1, ReceivePacketType
  <2>2. CASE Stay(call) /\ UNCHANGED toCamera
    BY <2>2, StayType, CallFields
  <2> QED
    BY <2>1, <2>2 DEF Dump
<1> QED
  BY <1>1, <1>3, DriverStep DEF Dump

\* A step inside a packet: where it leads, what it makes of error_flag, and
\* the packet it has read, if it is at its end.
LEMMA InPacketType ==
  ASSUME TInv, NEW c \in CallState, Stay(c), Taken, UNCHANGED <<cam, toCamera>>,
         call.at \in {"stx", "size", "swallow", "spoilt", "data", "end", "skip"},
         c.cmd = call.cmd, c.n = call.n,
         c.at \in {"end", "sum"} /\ c.good => c.held \in Packet,
         c.at \in {"swallow", "spoilt"} => ~c.good
  PROVE  TInv'
<1>1. call.cmd # "none" /\ call.n \in 1 .. MaxCalls
  BY CallFields DEF Held
<1>2. Held(c)
  BY <1>1 DEF Held
<1>3. DriverOK'
  BY <1>2, StayType
<1>4. toCamera' \in Seq(CameraByte) /\ toHost' \in Seq(HostByte)
  BY TakenType, CallFields DEF TInv
<1> QED
  BY <1>3, <1>4, DriverStep

LEMMA FindStartType == TInv /\ FindStart => TInv'
<1> SUFFICES ASSUME TInv, FindStart PROVE TInv'
  OBVIOUS
<1>1. call \in CallState /\ NextTry \in Nat
  BY CallFields DEF CallState, NextTry
<1>2. CASE Stay([call EXCEPT !.at = "size", !.good = TRUE])
  <2> DEFINE c == [call EXCEPT !.at = "size", !.good = TRUE]
  <2>1. c \in CallState /\ c.at = "size" /\ c.cmd = call.cmd /\ c.n = call.n
    BY <1>1 DEF CallState, Places
  <2> HIDE DEF c
  <2> QED
    BY <1>2, <2>1, InPacketType DEF FindStart, c
<1>3. CASE Stay([call EXCEPT !.count = NextTry])
  <2> DEFINE k == NextTry
  <2> HIDE DEF k
  <2> DEFINE c == [call EXCEPT !.count = k]
  <2>1. c \in CallState /\ c.at = call.at /\ c.cmd = call.cmd /\ c.n = call.n
    BY <1>1 DEF CallState, k
  <2>2. Stay(c)
    BY <1>3 DEF k
  <2> HIDE DEF c
  <2> QED
    BY <2>1, <2>2, InPacketType DEF FindStart
<1> QED
  BY <1>2, <1>3 DEF FindStart

LEMMA ReadSizeType == TInv /\ ReadSize => TInv'
<1> SUFFICES ASSUME TInv, ReadSize PROVE TInv'
  OBVIOUS
<1>1. call \in CallState
  BY CallFields
<1>2. CASE Stay([call EXCEPT !.at = "data"])
  <2> DEFINE c == [call EXCEPT !.at = "data"]
  <2>1. c \in CallState /\ c.at = "data" /\ c.cmd = call.cmd /\ c.n = call.n
    BY <1>1 DEF CallState, Places
  <2> HIDE DEF c
  <2> QED
    BY <1>2, <2>1, InPacketType DEF ReadSize, c
<1>3. ASSUME NEW at \in {"swallow", "end"}, Stay([call EXCEPT !.at = at, !.good = FALSE])
      PROVE  TInv'
  <2> DEFINE c == [call EXCEPT !.at = at, !.good = FALSE]
  <2>1. c \in CallState /\ c.good = FALSE /\ c.cmd = call.cmd /\ c.n = call.n
    BY <1>1 DEF CallState, Places
  <2> HIDE DEF c
  <2>2. ~c.good
    BY <2>1
  <2> QED
    BY <1>3, <2>1, <2>2, InPacketType DEF ReadSize, c
<1> QED
  BY <1>2, <1>3 DEF ReadSize

LEMMA SwallowType == TInv /\ Swallow => TInv'
<1> SUFFICES ASSUME TInv, Swallow PROVE TInv'
  OBVIOUS
<1>1. call \in CallState /\ ~call.good
  BY CallFields DEF Swallow, Held
<1>2. PICK at \in {"swallow", "spoilt", "end", "sum"} : Stay([call EXCEPT !.at = at])
  BY DEF Swallow
<1> DEFINE c == [call EXCEPT !.at = at]
<1>3. c \in CallState /\ c.good = call.good /\ c.cmd = call.cmd /\ c.n = call.n
  BY <1>1 DEF CallState, Places
<1> HIDE DEF c
<1>4. ~c.good
  BY <1>1, <1>3
<1> QED
  BY <1>2, <1>3, <1>4, InPacketType DEF Swallow, c

LEMMA ReadDataType == TInv /\ ReadData => TInv'
<1> SUFFICES ASSUME TInv, ReadData PROVE TInv'
  OBVIOUS
<1>1. call \in CallState
  BY CallFields
<1>2. CASE Got("data") /\ Stay([call EXCEPT !.at = "end", !.held = Head(toHost).packet])
  <2> DEFINE p == Head(toHost).packet
  <2>1. p \in Packet
    BY <1>2, DataType DEF TInv
  <2> HIDE DEF p
  <2> DEFINE c == [call EXCEPT !.at = "end", !.held = p]
  <2>2. c \in CallState /\ c.held = p /\ c.at = "end" /\ c.cmd = call.cmd /\ c.n = call.n
    BY <1>1, <2>1 DEF CallState, Places
  <2>3. Stay(c)
    BY <1>2 DEF p
  <2> HIDE DEF c
  <2> QED
    BY <2>1, <2>2, <2>3, InPacketType DEF ReadData
<1>3. CASE Stay([call EXCEPT !.at = "sum", !.good = FALSE])
  <2> DEFINE c == [call EXCEPT !.at = "sum", !.good = FALSE]
  <2>1. c \in CallState /\ c.at = "sum" /\ c.good = FALSE /\ c.cmd = call.cmd /\ c.n = call.n
    BY <1>1 DEF CallState, Places
  <2> HIDE DEF c
  <2>2. ~c.good
    BY <2>1
  <2> QED
    BY <1>3, <2>1, <2>2, InPacketType DEF ReadData, c
<1>4. CASE Stay([call EXCEPT !.at = "end", !.good = FALSE])
  <2> DEFINE c == [call EXCEPT !.at = "end", !.good = FALSE]
  <2>1. c \in CallState /\ c.at = "end" /\ c.good = FALSE /\ c.cmd = call.cmd /\ c.n = call.n
    BY <1>1 DEF CallState, Places
  <2> HIDE DEF c
  <2>2. ~c.good
    BY <2>1
  <2> QED
    BY <1>4, <2>1, <2>2, InPacketType DEF ReadData, c
<1> QED
  BY <1>2, <1>3, <1>4 DEF ReadData

LEMMA ReadEndType == TInv /\ ReadEnd => TInv'
<1> SUFFICES ASSUME TInv, ReadEnd PROVE TInv'
  OBVIOUS
<1>1. call \in CallState /\ Held(call)
  BY CallFields
<1>2. CASE Stay([call EXCEPT !.at = "sum", !.last = Got("ETX"),
                             !.good = @ /\ call.at = "end"])
  <2> DEFINE l == Got("ETX")
             g == call.good /\ call.at = "end"
             c == [call EXCEPT !.at = "sum", !.last = l, !.good = g]
  <2>1. Stay(c)
    BY <1>2
  <2>2. l \in BOOLEAN /\ g \in BOOLEAN
    BY DEF Got
  <2>3. g => call.held \in Packet
    BY <1>1 DEF Held
  <2> HIDE DEF l, g
  <2>4. c \in CallState
    BY <1>1, <2>2 DEF CallState, Places
  <2>5. c.at = "sum" /\ c.good = g /\ c.held = call.held /\ c.cmd = call.cmd /\ c.n = call.n
    BY <1>1 DEF CallState
  <2> HIDE DEF c
  <2>6. c.good => c.held \in Packet
    BY <2>3, <2>5
  <2> QED
    BY <2>1, <2>4, <2>5, <2>6, InPacketType DEF ReadEnd
<1>3. CASE Stay([call EXCEPT !.at = "skip"])
  <2> DEFINE c == [call EXCEPT !.at = "skip"]
  <2>1. c \in CallState /\ c.at = "skip" /\ c.cmd = call.cmd /\ c.n = call.n
    BY <1>1 DEF CallState, Places
  <2> HIDE DEF c
  <2> QED
    BY <1>3, <2>1, InPacketType DEF ReadEnd, c
<1> QED
  BY <1>2, <1>3 DEF ReadEnd

LEMMA ReadChecksumType == TInv /\ ReadChecksum => TInv'
<1> SUFFICES ASSUME TInv, ReadChecksum PROVE TInv'
  OBVIOUS
<1>1. toHost' \in Seq(HostByte)
  BY TakenType DEF ReadChecksum, TInv
<1>2. call.cmd # "none" /\ call \in CallState /\ Held(call)
  BY CallFields DEF ReadChecksum, Held
<1>3. DriverOK' /\ toCamera' \in Seq(CameraByte)
  <2>1. CASE call.good /\ Stay([call EXCEPT !.at = "eot", !.data = Append(@, call.held)])
             /\ Write(Signal("ACK"))
    <3> DEFINE d == Append(call.data, call.held)
               c == [call EXCEPT !.at = "eot", !.data = d]
    <3>1. call.held \in Packet
      BY <1>2, <2>1 DEF Held, ReadChecksum
    <3>2. d \in Seq(Packet)
      BY <3>1, CallFields
    <3>3. Stay(c)
      BY <2>1
    <3> HIDE DEF d
    <3>4. c \in CallState
      BY <1>2, <3>2 DEF CallState, Places
    <3>5. Held(c)
      BY <1>2 DEF Held, CallState
    <3> HIDE DEF c
    <3> QED
      BY <2>1, <3>3, <3>4, <3>5, StayType, CallFields, BytesType
  <2>2. CASE Done("error") /\ UNCHANGED toCamera
    BY <2>2, DoneType, CallFields
  <2>3. CASE Stay([call EXCEPT !.at = "stx", !.count = NextTry]) /\ Write(Signal("NACK"))
    <3>1. NextTry \in Nat
      BY <1>2 DEF NextTry, CallState
    <3> QED
      BY <1>2, <2>3, <3>1, MoveType, CallFields, BytesType DEF Places
  <2> QED
    BY <2>1, <2>2, <2>3 DEF ReadChecksum
<1> QED
  BY <1>1, <1>3, DriverStep DEF ReadChecksum

LEMMA EndOfPacketType == TInv /\ EndOfPacket => TInv'
<1> SUFFICES ASSUME TInv, EndOfPacket PROVE TInv'
  OBVIOUS
<1>1. toHost' \in Seq(HostByte)
  BY TakenType DEF EndOfPacket, TInv
<1>2. call.cmd # "none" /\ call \in CallState /\ Held(call)
  BY CallFields DEF EndOfPacket, Held
<1>3. toCamera' \in Seq(CameraByte)
  BY CallFields DEF EndOfPacket
<1>4. DriverOK'
  <2>1. CASE Done("error")
    BY <2>1, DoneType
  <2>2. CASE Received
    BY <1>2, <2>2, ReceivedType
  <2>3. CASE Stay([call EXCEPT !.at = "more"])
    <3> DEFINE c == [call EXCEPT !.at = "more"]
    <3>1. c \in CallState /\ Held(c)
      BY <1>2 DEF CallState, Places, Held
    <3> HIDE DEF c
    <3> QED
      BY <2>3, <3>1, StayType DEF c
  <2> QED
    BY <2>1, <2>2, <2>3 DEF EndOfPacket
<1> QED
  BY <1>1, <1>3, <1>4, DriverStep DEF EndOfPacket

LEMMA NextPacketType == TInv /\ NextPacket => TInv'
<1> SUFFICES ASSUME TInv, NextPacket PROVE TInv'
  OBVIOUS
<1>1. toHost' \in Seq(HostByte)
  BY TakenType DEF NextPacket, TInv
<1>2. call.cmd # "none" /\ call \in CallState /\ Held(call)
  BY CallFields DEF NextPacket, Held
<1>3. DriverOK' /\ toCamera' \in Seq(CameraByte)
  <2>1. CASE ReceivePacket(call.data)
    BY <1>2, <2>1, ReceivePacketType, CallFields
  <2>2. CASE Cancel
    BY <1>2, <2>2, CancelType
  <2>3. CASE Done("error") /\ UNCHANGED toCamera
    BY <2>3, DoneType, CallFields
  <2> QED
    BY <2>1, <2>2, <2>3 DEF NextPacket
<1> QED
  BY <1>1, <1>3, DriverStep DEF NextPacket

LEMMA TimeOutType == TInv /\ TimeOut => TInv'
<1> SUFFICES ASSUME TInv, TimeOut PROVE TInv'
  OBVIOUS
<1>1. call \in CallState /\ Held(call)
  BY CallFields
<1>2. DriverOK' /\ toCamera' \in Seq(CameraByte)
  <2>1. CASE /\ Stay([call EXCEPT !.at = "ping", !.count = 0, !.nth = @ + 1])
             /\ Write(Signal("ENQ"))
    <3> DEFINE k == call.nth + 1
    <3>1. k \in Nat
      BY <1>1 DEF CallState
    <3> HIDE DEF k
    <3> DEFINE c == [call EXCEPT !.at = "ping", !.count = 0, !.nth = k]
    <3>2. c \in CallState
      BY <1>1, <3>1 DEF CallState, Places
    <3>3. c.at = "ping" /\ c.cmd = call.cmd /\ c.n = call.n /\ c.back = call.back
      BY <1>1 DEF CallState
    <3>4. Stay(c)
      BY <2>1 DEF k
    <3> HIDE DEF c
    <3>5. Held(c)
      BY <1>1, <3>3 DEF Held
    <3> QED
      BY <2>1, <3>2, <3>4, <3>5, StayType, CallFields, BytesType
  <2>2. CASE PingFails
    BY <2>2, PingFailsType
  <2> QED
    BY <2>1, <2>2 DEF TimeOut
<1> QED
  BY <1>2, CallFields, DriverStep DEF TimeOut

LEMMA TickInCallbackType == TInv /\ TickInCallback => TInv'
<1> SUFFICES ASSUME TInv, TickInCallback PROVE TInv'
  OBVIOUS
<1>1. toHost' \in Seq(HostByte)
  BY TakenType, CallFields DEF TickInCallback, TInv
<1>2. line' \in LineState /\ line'.asked = line.asked
  <2> DEFINE f == line.faults + 1
  <2>1. f \in 0 .. MaxFaults
    BY LineType DEF LineState, TickInCallback
  <2>2. line' = [line EXCEPT !.faults = f, !.disturbed = TRUE]
    BY DEF TickInCallback
  <2> HIDE DEF f
  <2> QED
    BY <2>1, <2>2, LineType DEF LineState
<1>3. PICK b \in {"await", "more", "stx", "eot"} : Ping([call EXCEPT !.back = b])
  BY DEF TickInCallback
<1> DEFINE c == [call EXCEPT !.back = b]
<1>4. c \in CallState /\ c.cmd = call.cmd /\ c.n = call.n
  BY CallFields DEF CallState
<1>5. call.cmd # "none" /\ call.n \in 1 .. MaxCalls
  BY CallFields DEF TickInCallback, Held
<1> HIDE DEF c
<1>6. call' \in CallState /\ Held(call)' /\ toCamera' \in Seq(CameraByte)
  BY <1>3, <1>4, <1>5, PingType DEF c
<1> QED
  BY <1>1, <1>2, <1>6 DEF TickInCallback, TInv, TypeOK, Answers, Held

LEMMA LateType == TInv /\ Late => TInv'
<1> SUFFICES ASSUME TInv, Late PROVE TInv'
  OBVIOUS
<1>1. line' \in LineState /\ line'.asked = line.asked
  BY LineType DEF Late, LineState
<1> QED
  BY <1>1 DEF Late, TInv, TypeOK, Answers, Held

-----------------------------------------------------------------------------
(* The calls, the camera and the line.                                     *)

LEMMA CameraInitType == TInv /\ CameraInit => TInv'
<1> SUFFICES ASSUME TInv, CameraInit PROVE TInv'
  OBVIOUS
<1> DEFINE c == [NoCall EXCEPT !.op = "init"]
<1>1. c \in CallState
  BY NoCallType DEF CallState
<1>2. c.cmd = "none" /\ c.back = "none"
  BY DEF NoCall
<1>3. Ping(c)
  BY DEF CameraInit
<1> HIDE DEF c
<1>4. call' \in CallState /\ Held(call)' /\ toCamera' \in Seq(CameraByte)
  BY <1>1, <1>2, <1>3, PingType
<1>5. line' \in LineState /\ line'.asked = line.asked
  BY LineType DEF CameraInit, Begins, LineState
<1> QED
  BY <1>4, <1>5 DEF CameraInit, TInv, TypeOK, Answers, Held

LEMMA TickType == TInv /\ Tick => TInv'
<1> SUFFICES ASSUME TInv, Tick PROVE TInv'
  OBVIOUS
<1> DEFINE c == [NoCall EXCEPT !.op = "keepalive"]
<1>1. c \in CallState
  BY NoCallType DEF CallState
<1>2. c.cmd = "none" /\ c.back = "none"
  BY DEF NoCall
<1>3. Ping(c)
  BY DEF Tick
<1> HIDE DEF c
<1>4. call' \in CallState /\ Held(call)' /\ toCamera' \in Seq(CameraByte)
  BY <1>1, <1>2, <1>3, PingType
<1>5. line' \in LineState /\ line'.asked = line.asked
  BY LineType DEF Tick, Begins, LineState
<1> QED
  BY <1>4, <1>5 DEF Tick, TInv, TypeOK, Answers, Held

LEMMA CommandType == ASSUME TInv, NEW op \in Operation, Command(op) PROVE TInv'
<1> DEFINE n == Len(line.asked) + 1
<1>1. op \in Commands
  BY KonicaAssumption DEF Commands
<1>2. n \in 1 .. MaxCalls /\ line' \in LineState /\ Len(line'.asked) = n
  BY <1>1, AskType, LineType DEF LineState, Command
<1> HIDE DEF n
<1> DEFINE c == [NoCall EXCEPT !.op = op, !.cmd = op, !.n = n]
<1>3. c \in CallState /\ c.n = n /\ c.back = "none"
  <2>1. n \in 0 .. MaxCalls
    BY <1>2
  <2> QED
    BY <1>1, <2>1, NoCallType DEF CallState, NoCall
<1>4. Ping(c)
  BY DEF Command, n
<1> HIDE DEF c
<1>5. call' \in CallState /\ Held(call)' /\ toCamera' \in Seq(CameraByte)
  BY <1>2, <1>3, <1>4, PingType
<1>6. n <= MaxCalls
  BY <1>2, LineType
<1>7. ticking' \subseteq Timer
  BY DEF Command, StopTimeout, TInv, TypeOK
<1> QED
  BY <1>2, <1>5, <1>6, <1>7 DEF Command, TInv, TypeOK, Answers, Held

LEMMA IdleType == TInv /\ (NotSupported \/ CameraExit) => TInv'
<1> SUFFICES ASSUME TInv, NotSupported \/ CameraExit PROVE TInv'
  OBVIOUS
<1>1. pl \in [open : BOOLEAN, timeout : Timer \union {NoTimer}, missed : BOOLEAN]
  BY DEF TInv, TypeOK
<1>2. ticking' \subseteq Timer
  BY DEF TInv, TypeOK, NotSupported, StopTimeout, CameraExit
<1>3. pl' \in [open : BOOLEAN, timeout : Timer \union {NoTimer}, missed : BOOLEAN]
  <2>1. CASE pl' = [pl EXCEPT !.missed = TRUE]
    BY <1>1, <2>1
  <2>2. CASE pl' = [open |-> FALSE, timeout |-> NoTimer, missed |-> FALSE]
    BY <2>2
  <2> QED
    BY <2>1, <2>2 DEF NotSupported, CameraExit
<1> QED
  BY <1>2, <1>3 DEF NotSupported, CameraExit, TInv, TypeOK, Answers, Held

LEMMA SayType ==
  ASSUME TInv, NEW b \in Seq(HostByte), Say(b)
  PROVE  toHost' \in Seq(HostByte)
BY CallFields, ConcatProperties DEF Say

\* The bytes that the camera sends by themselves.
LEMMA SignalsType ==
  /\ \A k \in Controls : << Byte(k) >> \in Seq(HostByte)
  /\ << Byte("ENQ"), Byte("ENQ"), Byte("ACK") >> \in Seq(HostByte)
<1>1. \A k \in Controls : Byte(k) \in HostByte
  BY BytesType
<1> QED
  BY <1>1 DEF Controls

LEMMA SayByteType ==
  ASSUME TInv, NEW k \in {"ENQ", "ACK", "NACK", "EOT", "junk"}, Say(<< Byte(k) >>)
  PROVE  toHost' \in Seq(HostByte)
<1>1. k \in Controls
  BY DEF Controls
<1> QED
  BY <1>1, SayType, SignalsType

LEMMA SayPacketType ==
  ASSUME TInv, cam.at \in {"enq", "sent"}, SayPacket
  PROVE  toHost' \in Seq(HostByte)
<1>1. cam.left \in Seq(Packet) /\ cam.left # << >>
  BY DEF TInv, TypeOK, Answers, CameraState
<1>2. Head(cam.left) \in Packet
  BY <1>1
<1> QED
  BY <1>2, PacketBytesType, SayType DEF SayPacket

LEMMA NoCameraType == NoCamera \in CameraState /\ Answers(NoCamera)
<1>1. << >> \in Seq(Packet) /\ MaxCalls \in Nat
  BY KonicaAssumption
<1> QED
  BY <1>1 DEF NoCamera, CameraState, Answers, Commands

LEMMA CameraStep ==
  ASSUME TInv, NEW c \in CameraState, Answers(c), CameraSteps(c), toCamera # << >>,
         line' \in LineState, line'.asked = line.asked, toHost' \in Seq(HostByte)
  PROVE  TInv'
<1>1. toCamera' \in Seq(CameraByte)
  BY DEF TInv, TypeOK, CameraSteps
<1>2. cam' \in CameraState /\ Answers(cam)'
  BY DEF CameraSteps, Answers
<1> QED
  BY <1>1, <1>2 DEF TInv, TypeOK, Held, CameraSteps

LEMMA HearPingType == TInv /\ HearPing => TInv'
<1> SUFFICES ASSUME TInv, HearPing PROVE TInv'
  OBVIOUS
<1>1. toCamera # << >> /\ cam \in CameraState /\ Answers(cam)
  BY DEF HearPing, Hears, TInv, TypeOK
<1>2. line' \in LineState /\ line'.asked = line.asked
  BY LineType DEF HearPing, LineState
<1>3. toHost' \in Seq(HostByte)
  BY SayByteType DEF HearPing
<1> QED
  BY <1>1, <1>2, <1>3, CameraStep, NoCameraType DEF HearPing

LEMMA HearCommandType == TInv /\ HearCommand => TInv'
<1> SUFFICES ASSUME TInv, HearCommand PROVE TInv'
  OBVIOUS
<1>1. toCamera # << >> /\ cam \in CameraState /\ Answers(cam)
  BY DEF HearCommand, Hears, TInv, TypeOK
<1>2. line' \in LineState /\ line'.asked = line.asked
  BY LineType DEF HearCommand
<1>3. toHost' \in Seq(HostByte)
  BY SayByteType, CallFields DEF HearCommand
<1>4. PICK n \in 1 .. MaxCalls, op \in Commands : Head(toCamera) = CommandOf(n, op)
  <2>1. Head(toCamera) \in CameraByte /\ Head(toCamera).kind = "command"
    BY <1>1, CallFields DEF HearCommand, Hears
  <2>2. \A k \in {"ENQ", "ACK", "NACK", "EOT", "junk"} : Signal(k).kind # "command"
    BY DEF Signal
  <2> QED
    BY <2>1, <2>2 DEF CameraByte
<1>5. Head(toCamera).n = n /\ Head(toCamera).op = op
  BY <1>4 DEF CommandOf
<1> DEFINE c == [NoCamera EXCEPT !.at = "eot", !.n = n, !.op = op]
<1>6. c \in CameraState /\ Answers(c)
  <2>1. n \in 0 .. MaxCalls
    BY LineType
  <2> QED
    BY <2>1, NoCameraType DEF CameraState, Answers
<1>7. CameraSteps(c) \/ CameraSteps(cam)
  BY <1>5 DEF HearCommand
<1> HIDE DEF c
<1> QED
  BY <1>1, <1>2, <1>3, <1>6, <1>7, CameraStep

LEMMA HearJunkType == TInv /\ HearJunk => TInv'
<1> SUFFICES ASSUME TInv, HearJunk PROVE TInv'
  OBVIOUS
<1>1. toCamera # << >> /\ cam \in CameraState /\ Answers(cam)
  BY DEF HearJunk, Hears, TInv, TypeOK
<1>2. line' \in LineState /\ line'.asked = line.asked
  BY LineType DEF HearJunk
<1>3. toHost' \in Seq(HostByte)
  BY SayByteType, CallFields DEF HearJunk
<1> QED
  BY <1>1, <1>2, <1>3, CameraStep DEF HearJunk

LEMMA HearEotType == TInv /\ HearEot => TInv'
<1> SUFFICES ASSUME TInv, HearEot PROVE TInv'
  OBVIOUS
<1>1. toCamera # << >> /\ cam \in CameraState /\ Answers(cam) /\ toHost' \in Seq(HostByte)
  BY CallFields DEF HearEot, Hears, TInv, TypeOK
<1>2. CASE cam.at # "eot" /\ CameraSteps(cam) /\ UNCHANGED line
  BY <1>1, <1>2, LineType, CameraStep
<1>3. CASE /\ cam.at = "eot"
           /\ CameraSteps([cam EXCEPT !.at = "work", !.left = Answer(cam.n, cam.op)])
           /\ line' = [line EXCEPT !.carried = Append(@, cam.n)]
  <2>1. cam.n \in 1 .. MaxCalls /\ cam.op \in Commands
    BY <1>1, <1>3 DEF Answers, CameraState
  <2> DEFINE a == Answer(cam.n, cam.op)
             d == Append(line.carried, cam.n)
  <2>2. a \in Seq(Packet) /\ a # << >>
    BY <2>1, AnswerType
  <2>3. d \in Seq(1 .. MaxCalls)
    BY <2>1, LineType, AppendProperties DEF LineState
  <2> HIDE DEF a, d
  <2> DEFINE c == [cam EXCEPT !.at = "work", !.left = a]
  <2>4. c \in CameraState /\ Answers(c)
    BY <1>1, <2>1, <2>2 DEF CameraState, Answers
  <2>5. CameraSteps(c) /\ line' = [line EXCEPT !.carried = d]
    BY <1>3 DEF a, d
  <2>6. line' \in LineState /\ line'.asked = line.asked
    BY <2>3, <2>5, LineType DEF LineState
  <2> HIDE DEF c
  <2> QED
    BY <1>1, <2>4, <2>5, <2>6, CameraStep
<1> QED
  BY <1>2, <1>3 DEF HearEot

LEMMA HearAckType == TInv /\ HearAck => TInv'
<1> SUFFICES ASSUME TInv, HearAck PROVE TInv'
  OBVIOUS
<1>1. toCamera # << >> /\ cam \in CameraState /\ Answers(cam)
  BY DEF HearAck, Hears, TInv, TypeOK
<1>2. line' \in LineState /\ line'.asked = line.asked
  BY LineType DEF HearAck
<1>3. toHost' \in Seq(HostByte)
  BY SayByteType, SayPacketType, CallFields DEF HearAck
<1>4. CASE cam.at = "enq" /\ CameraSteps([cam EXCEPT !.at = "sent", !.tries = 1])
  <2> DEFINE c == [cam EXCEPT !.at = "sent", !.tries = 1]
  <2>1. c \in CameraState /\ Answers(c)
    BY <1>1, <1>4 DEF CameraState, Answers
  <2> HIDE DEF c
  <2> QED
    BY <1>1, <1>2, <1>3, <1>4, <2>1, CameraStep DEF c
<1>5. CASE /\ cam.at = "sent" /\ Len(cam.left) > 1
           /\ CameraSteps([cam EXCEPT !.at = "work", !.left = Tail(@)])
  <2> DEFINE t == Tail(cam.left)
  <2>1. t \in Seq(Packet) /\ t # << >>
    <3>1. cam.left \in Seq(Packet) /\ cam.left # << >>
      BY <1>1, <1>5 DEF CameraState, Answers
    <3>2. t \in Seq(Packet) /\ Len(t) = Len(cam.left) - 1 /\ Len(cam.left) \in Nat
      BY <3>1, HeadTailProperties, LenProperties
    <3> QED
      BY <1>5, <3>2, EmptySeq
  <2> HIDE DEF t
  <2> DEFINE c == [cam EXCEPT !.at = "work", !.left = t]
  <2>2. c \in CameraState /\ Answers(c)
    BY <1>1, <1>5, <2>1 DEF CameraState, Answers
  <2>3. CameraSteps(c)
    BY <1>5 DEF t
  <2> HIDE DEF c
  <2> QED
    BY <1>1, <1>2, <1>3, <2>2, <2>3, CameraStep
<1>6. CASE CameraSteps(NoCamera) \/ CameraSteps(cam)
  BY <1>1, <1>2, <1>3, <1>6, CameraStep, NoCameraType
<1> QED
  BY <1>4, <1>5, <1>6 DEF HearAck

LEMMA HearNackType == TInv /\ HearNack => TInv'
<1> SUFFICES ASSUME TInv, HearNack PROVE TInv'
  OBVIOUS
<1>1. toCamera # << >> /\ cam \in CameraState /\ Answers(cam)
  BY DEF HearNack, Hears, TInv, TypeOK
<1>2. line' \in LineState /\ line'.asked = line.asked
  BY LineType DEF HearNack
<1>3. toHost' \in Seq(HostByte)
  BY SayType, SignalsType, SayPacketType, CallFields DEF HearNack
<1>4. CASE cam.at = "sent" /\ CameraSteps([cam EXCEPT !.tries = @ + 1])
  <2> DEFINE k == cam.tries + 1
  <2>1. k \in Nat
    BY <1>1 DEF CameraState
  <2> HIDE DEF k
  <2> DEFINE c == [cam EXCEPT !.tries = k]
  <2>2. c \in CameraState /\ c.at = cam.at /\ c.n = cam.n /\ c.left = cam.left
    BY <1>1, <2>1 DEF CameraState
  <2>3. CameraSteps(c)
    BY <1>4 DEF k
  <2> HIDE DEF c
  <2>4. Answers(c)
    BY <1>1, <2>2 DEF Answers
  <2> QED
    BY <1>1, <1>2, <1>3, <2>2, <2>3, <2>4, CameraStep
<1>5. CASE CameraSteps(NoCamera) \/ CameraSteps(cam)
  BY <1>1, <1>2, <1>3, <1>5, CameraStep, NoCameraType
<1> QED
  BY <1>4, <1>5 DEF HearNack

LEMMA WantToSendType == TInv /\ WantToSend => TInv'
<1> SUFFICES ASSUME TInv, WantToSend PROVE TInv'
  OBVIOUS
<1>1. toHost' \in Seq(HostByte)
  BY SayByteType DEF WantToSend
<1>2. cam' \in CameraState /\ Answers(cam')
  BY DEF WantToSend, TInv, TypeOK, CameraState, Answers
<1> QED
  BY <1>1, <1>2 DEF WantToSend, TInv, TypeOK, Held, Answers

LEMMA HangType == TInv /\ Hang => TInv'
<1> SUFFICES ASSUME TInv, Hang PROVE TInv'
  OBVIOUS
<1>1. toHost' \in Seq(HostByte)
  BY SayByteType DEF Hang
<1>2. line' \in LineState /\ line'.asked = line.asked
  <2> DEFINE d == line.disturbed \/ call.count >= AckTries
  <2>1. d \in BOOLEAN
    BY LineType DEF LineState
  <2>2. line' = [line EXCEPT !.disturbed = d]
    BY DEF Hang
  <2> HIDE DEF d
  <2> QED
    BY <2>1, <2>2, LineType DEF LineState
<1> QED
  BY <1>1, <1>2 DEF Hang, TInv, TypeOK, Held, Answers

LEMMA GiveUpType == TInv /\ GiveUp => TInv'
BY NoCameraType DEF GiveUp, TInv, TypeOK, Held, Answers

LEMMA FaultType ==
  ASSUME TInv, NEW h \in BOOLEAN, Fault(h),
         toHost' \in Seq(HostByte), toCamera' \in Seq(CameraByte)
  PROVE  TInv'
<1>1. line' \in LineState /\ line'.asked = line.asked
  <2> DEFINE f == line.faults + 1
             d == line.disturbed \/ ~h
  <2>1. f \in 0 .. MaxFaults /\ d \in BOOLEAN
    BY LineType DEF LineState, Fault
  <2>2. line' = [line EXCEPT !.faults = f, !.disturbed = d]
    BY DEF Fault
  <2> HIDE DEF f, d
  <2> QED
    BY <2>1, <2>2, LineType DEF LineState
<1> QED
  BY <1>1 DEF Fault, TInv, TypeOK, Held, Answers

LEMMA LoseType == TInv /\ Lose => TInv'
<1> SUFFICES ASSUME TInv, Lose PROVE TInv'
  OBVIOUS
<1>1. toHost' \in Seq(HostByte) /\ toCamera' \in Seq(CameraByte)
  BY CallFields, HeadTailProperties DEF Lose
<1> QED
  BY <1>1, FaultType DEF Lose

LEMMA DamageType == TInv /\ Damage => TInv'
<1> SUFFICES ASSUME TInv, Damage PROVE TInv'
  OBVIOUS
<1>1. toHost' \in Seq(HostByte)
  <2>1. ASSUME NEW k \in {"junk", "STX"}, toHost # << >>, toHost' = << Byte(k) >> \o Tail(toHost)
        PROVE  toHost' \in Seq(HostByte)
    <3>1. << Byte(k) >> \in Seq(HostByte)
      BY SignalsType DEF Controls
    <3>2. Tail(toHost) \in Seq(HostByte)
      BY <2>1, CallFields, HeadTailProperties
    <3> QED
      BY <2>1, <3>1, <3>2, ConcatProperties
  <2> QED
    BY <2>1, CallFields DEF Damage
<1>2. toCamera' \in Seq(CameraByte)
  <2>1. CASE toCamera # << >> /\ toCamera' = << Signal("junk") >> \o Tail(toCamera)
    <3>1. Signal("junk") \in CameraByte
      BY BytesType
    <3>2. Tail(toCamera) \in Seq(CameraByte)
      BY <2>1, CallFields, HeadTailProperties
    <3>3. << Signal("junk") >> \in Seq(CameraByte)
      BY <3>1
    <3> QED
      BY <2>1, <3>2, <3>3, ConcatProperties
  <2> QED
    BY <2>1, CallFields DEF Damage
<1>3. (Got("data") /\ line.faults = 0) \in BOOLEAN
  OBVIOUS
<1> QED
  BY <1>1, <1>2, <1>3, FaultType DEF Damage

-----------------------------------------------------------------------------
LEMMA DriverStepType == TInv /\ (Driver \/ Late \/ TickInCallback) => TInv'
BY PingReplyType, RejectReplyType, SendReplyType, AwaitReplyType, DumpType,
   FindStartType, ReadSizeType, SwallowType, ReadDataType, ReadEndType,
   ReadChecksumType, EndOfPacketType, NextPacketType, TimeOutType, LateType,
   TickInCallbackType DEF Driver

LEMMA CameraStepType == TInv /\ Camera => TInv'
BY HearPingType, HearCommandType, HearJunkType, HearEotType, HearAckType, HearNackType,
   WantToSendType, HangType, GiveUpType DEF Camera, Hear

LEMMA TInvInit == Init => TInv
<1> SUFFICES ASSUME Init PROVE TInv
  OBVIOUS
<1>1. << >> \in Seq(CameraByte) /\ << >> \in Seq(HostByte) /\ << >> \in Seq(Packet)
      /\ << >> \in Seq(Commands) /\ << >> \in Seq(1 .. MaxCalls) /\ Len(<< >>) = 0
  OBVIOUS
<1>2. MaxCalls \in Nat /\ MaxFaults \in Nat
  BY KonicaAssumption
<1>3. line \in LineState /\ Len(line.asked) <= MaxCalls
  BY <1>1, <1>2 DEF Init, LineState
<1>4. result \in Result
  BY <1>1, <1>2 DEF Init, NoResult, Result
<1> QED
  BY <1>1, <1>3, <1>4, NoCallType, NoCameraType DEF Init, TInv, TypeOK

LEMMA TInvNext == TInv /\ [Next]_vars => TInv'
<1> SUFFICES ASSUME TInv, [Next]_vars PROVE TInv'
  OBVIOUS
<1>1. CASE Driver \/ Late \/ TickInCallback
  BY <1>1, DriverStepType
<1>2. CASE Camera
  BY <1>2, CameraStepType
<1>3. CASE Lose \/ Damage
  BY <1>3, LoseType, DamageType
<1>4. CASE CameraInit \/ Tick \/ NotSupported \/ CameraExit
  BY <1>4, CameraInitType, TickType, IdleType
<1>5. CASE \E op \in Operation : Command(op)
  BY <1>5, CommandType
<1>6. CASE UNCHANGED vars
  BY <1>6 DEF vars, TInv, TypeOK, Held, Answers
<1> QED
  BY <1>1, <1>2, <1>3, <1>4, <1>5, <1>6 DEF Next

(* Every variable has its type: what the driver takes from the line for a  *)
(* packet is one, and what the camera sends next is there.                 *)
THEOREM TypeCorrect == Spec => []TypeOK
<1>1. TInv => TypeOK
  BY DEF TInv
<1> QED
  BY <1>1, TInvInit, TInvNext, PTL DEF Spec

-----------------------------------------------------------------------------
(***************************************************************************)
(* The keepalive timer.  At most the timer that the driver knows runs, and *)
(* none during an initialization, a download or an inquiry, each of which  *)
(* starts it when it returns.  Where none runs, none pings.                *)
(***************************************************************************)
Timed(c, p, t) ==
  /\ c.at = "idle" <=> c.op = "none"
  /\ t \subseteq {p.timeout}
  /\ ~p.open => t = {}
  /\ c.op \in Inquiries => t = {} /\ p.open /\ c.back = "none"
  /\ c.op = "init" => t = {} /\ ~p.open
  /\ c.op \notin Inquiries /\ p.open => p.timeout \in t \/ p.missed

KInv == TInv /\ Timed(call, pl, ticking)

\* A step that leaves the function, the timers and what is known of them.
LEMMA TimerStays ==
  ASSUME Timed(call, pl, ticking), UNCHANGED <<pl, ticking>>, call'.op = call.op,
         call.at # "idle", call'.at # "idle",
         call.op \in Inquiries /\ call.back = "none" => call'.back = "none"
  PROVE  Timed(call, pl, ticking)'
BY DEF Timed

\* The functions that start the timer find none that runs.
LEMMA ReturnTimer ==
  ASSUME KInv, call.at # "idle", NEW r, Return(r)
  PROVE  Timed(call, pl, ticking)'
<1>1. call' = NoCall /\ NoCall.at = "idle" /\ NoCall.op = "none"
  BY DEF Return, NoCall
<1>2. "none" \notin Inquiries
  BY DEF Inquiries
<1>3. CASE call.op \in Inquiries \union {"init"} /\ StartTimeout
  <2>1. ticking = {}
    BY <1>3 DEF KInv, Timed
  <2>2. PICK t \in Timer : ticking' = {t} /\ pl' = [open |-> TRUE, timeout |-> t, missed |-> FALSE]
    BY <1>3, <2>1 DEF StartTimeout
  <2>3. pl'.open /\ pl'.timeout = t
    BY <2>2
  <2> QED
    BY <1>1, <1>2, <2>2, <2>3 DEF Timed
<1>4. CASE call.op = "download" /\ pl' = [pl EXCEPT !.missed = TRUE] /\ UNCHANGED ticking
  <2>1. ticking = {}
    BY <1>4 DEF KInv, Timed, Inquiries
  <2>2. pl'.missed
    BY <1>4 DEF KInv, TInv, TypeOK
  <2> QED
    BY <1>1, <1>2, <1>4, <2>1, <2>2 DEF Timed
<1>5. CASE call.op \in {"init", "keepalive", "preview", "plain"} /\ UNCHANGED <<pl, ticking>>
  BY <1>1, <1>2, <1>5 DEF KInv, Timed, Inquiries
<1> QED
  BY <1>3, <1>4, <1>5 DEF Return, Inquiries

LEMMA DoneTimer ==
  ASSUME KInv, call.at # "idle", NEW r, Done(r)
  PROVE  Timed(call, pl, ticking)'
BY ReturnTimer DEF Done

\* What a step of the driver does: it goes on, or it returns.
GoesOn ==
  /\ call'.op = call.op /\ call'.at # "idle" /\ UNCHANGED <<pl, ticking>>
  /\ call.op \in Inquiries /\ call.back = "none" => call'.back = "none"
Returns == Done("ok") \/ Done("error")

LEMMA GoesOnOrReturns ==
  ASSUME KInv, Driver \/ Late \/ TickInCallback
  PROVE  call.at # "idle" /\ (GoesOn \/ Returns)
<1> USE DEF GoesOn, Returns
<1>1. call \in CallState
  BY DEF KInv, TInv, TypeOK
<1>0. ASSUME Resume PROVE GoesOn \/ Returns
  BY <1>0, <1>1 DEF Resume, ReceivePacket, Cancel, Ping, Received, Stay, CallState
<1>2. CASE PingReply
  <2>1. call.at = "ping"
    BY <1>2 DEF PingReply
  <2>2. CASE Resume
    BY <1>0, <2>1, <2>2
  <2>3. CASE ~Resume
    BY <1>1, <1>2, <2>1, <2>3 DEF PingReply, Pinged, PingAgain, PingFails, Stay, CallState
  <2> QED
    BY <2>2, <2>3
<1>3. CASE RejectReply
  <2>1. call.at = "reject"
    BY <1>3 DEF RejectReply
  <2>2. CASE Resume
    BY <1>0, <2>1, <2>2
  <2>3. CASE ~Resume
    BY <1>1, <1>3, <2>1, <2>3 DEF RejectReply, Pinged, PingFails, Stay, CallState
  <2> QED
    BY <2>2, <2>3
<1>4. CASE SendReply
  BY <1>1, <1>4 DEF SendReply, Stay, CallState
<1>5. CASE AwaitReply \/ Dump
  BY <1>1, <1>5 DEF AwaitReply, Dump, ReceivePacket, Stay, CallState
<1>6. CASE FindStart \/ ReadSize \/ Swallow
  BY <1>1, <1>6 DEF FindStart, ReadSize, Swallow, Stay, CallState
<1>7. CASE ReadData \/ ReadEnd
  BY <1>1, <1>7 DEF ReadData, ReadEnd, Stay, CallState
<1>8. CASE ReadChecksum
  BY <1>1, <1>8 DEF ReadChecksum, Stay, CallState
<1>9. CASE EndOfPacket
  BY <1>1, <1>9 DEF EndOfPacket, Received, Stay, CallState
<1>10. CASE NextPacket
  BY <1>1, <1>10 DEF NextPacket, ReceivePacket, Cancel, Ping, Stay, CallState
<1>11. CASE TimeOut
  <2>1. call.at # "idle"
    BY <1>11 DEF TimeOut
  <2>2. CASE Resume
    BY <1>0, <2>1, <2>2
  <2>3. CASE ~Resume
    BY <1>1, <1>11, <2>1, <2>3 DEF TimeOut, PingFails, Stay, CallState
  <2> QED
    BY <2>2, <2>3
<1>12. CASE Late
  BY <1>12 DEF Late
<1>13. CASE TickInCallback
  <2>1. call.op \notin Inquiries /\ call.at # "idle"
    BY <1>13 DEF TickInCallback, KInv, Timed
  <2> QED
    BY <1>1, <1>13, <2>1 DEF TickInCallback, Ping, CallState
<1> QED
  BY <1>2, <1>3, <1>4, <1>5, <1>6, <1>7, <1>8, <1>9, <1>10, <1>11, <1>12, <1>13 DEF Driver

LEMMA BeginTimer ==
  ASSUME KInv, CameraInit \/ Tick \/ NotSupported \/ CameraExit
  PROVE  Timed(call, pl, ticking)'
<1> USE DEF KInv, TInv, TypeOK
<1>1. CASE CameraInit
  <2>1. call'.op = "init" /\ call'.at = "ping"
    BY <1>1 DEF CameraInit, Ping, NoCall
  <2> QED
    BY <1>1, <2>1 DEF CameraInit, Timed, Inquiries
<1>2. CASE Tick
  <2>1. call'.op = "keepalive" /\ call'.at = "ping"
    BY <1>2 DEF Tick, Ping, NoCall
  <2> QED
    BY <1>2, <2>1 DEF Tick, Timed, Inquiries
<1>3. CASE NotSupported
  <2>1. /\ pl'.missed /\ pl'.open = pl.open /\ pl'.timeout = pl.timeout /\ pl.open
        /\ ticking' = {} /\ call' = call
    BY <1>3 DEF NotSupported, StopTimeout, Timed
  <2> QED
    BY <1>3, <2>1 DEF NotSupported, Timed, Inquiries
<1>4. CASE CameraExit
  <2>1. ~pl'.open /\ ticking' = {} /\ call' = call
    BY <1>4 DEF CameraExit
  <2> QED
    BY <1>4, <2>1 DEF CameraExit, Timed, Inquiries
<1> QED
  BY <1>1, <1>2, <1>3, <1>4

LEMMA CommandTimer ==
  ASSUME KInv, NEW op \in Operation, Command(op)
  PROVE  Timed(call, pl, ticking)'
<1>1. call'.op = op /\ call'.at = "ping" /\ call'.back = "none"
  BY DEF Command, Ping, NoCall
<1>2. op \in Inquiries \union {"preview", "plain"}
  BY KonicaAssumption DEF Pictured
<1>3. CASE op \in Inquiries
  <2>1. ticking' = {} /\ pl' = pl /\ pl.open
    BY <1>3 DEF Command, StopTimeout, KInv, Timed
  <2> QED
    BY <1>1, <1>3, <2>1 DEF Timed, Inquiries
<1>4. CASE op \in {"preview", "plain"}
  <2>1. ticking' = ticking /\ pl' = pl /\ call.op = "none"
    BY <1>4 DEF Command, KInv, Timed, Inquiries
  <2> QED
    BY <1>1, <1>4, <2>1 DEF KInv, Timed, Inquiries
<1> QED
  BY <1>2, <1>3, <1>4

LEMMA KInvInit == Init => KInv
BY TInvInit DEF Init, NoCall, KInv, Timed, Inquiries

LEMMA KInvNext == KInv /\ [Next]_vars => KInv'
<1> SUFFICES ASSUME KInv, [Next]_vars PROVE KInv'
  OBVIOUS
<1>1. TInv'
  BY TInvNext DEF KInv
<1>2. Timed(call, pl, ticking)'
  <2>1. CASE Driver \/ Late \/ TickInCallback
    <3>1. call.at # "idle" /\ (GoesOn \/ Returns)
      BY <2>1, GoesOnOrReturns
    <3>2. CASE GoesOn
      BY <3>1, <3>2, TimerStays DEF GoesOn, KInv, Timed
    <3>3. CASE Returns
      BY <3>1, <3>3, DoneTimer DEF Returns
    <3> QED
      BY <3>1, <3>2, <3>3
  <2>2. CASE CameraInit \/ Tick \/ NotSupported \/ CameraExit
    BY <2>2, BeginTimer
  <2>3. CASE \E op \in Operation : Command(op)
    BY <2>3, CommandTimer
  <2>4. CASE Camera \/ Lose \/ Damage \/ UNCHANGED vars
    <3>1. UNCHANGED <<call, pl, ticking>>
      BY <2>4 DEF Camera, Hear, HearPing, HearCommand, HearJunk, HearEot, HearAck, HearNack,
                  WantToSend, Hang, GiveUp, CameraSteps, Lose, Damage, Fault, vars
    <3> QED
      BY <3>1 DEF KInv, Timed
  <2> QED
    BY <2>1, <2>2, <2>3, <2>4 DEF Next
<1> QED
  BY <1>1, <1>2 DEF KInv

(* Between the calls the timer that the driver knows runs, whatever the    *)
(* line and the camera do, unless a download has gone wrong since it was   *)
(* last started.                                                           *)
THEOREM TimerKept == Spec => []KeptAlive
<1>1. KInv => KeptAlive
  <2>1. "none" \notin Inquiries
    BY DEF Inquiries
  <2> QED
    BY <2>1 DEF KInv, Timed, KeptAlive
<1> QED
  BY <1>1, KInvInit, KInvNext, PTL DEF Spec

(* No timer runs, and none has pinged between two bytes, while a download, *)
(* an inquiry or a capture is at work.                                     *)
THEOREM TransferUndisturbed == Spec => []Undisturbed
<1>1. KInv => Undisturbed
  BY DEF KInv, Timed, Undisturbed
<1> QED
  BY <1>1, KInvInit, KInvNext, PTL DEF Spec
=============================================================================

----------------------------- MODULE KonicaLink -----------------------------
(***************************************************************************)
(* The serial protocol of camlibs/konica/lowlevel.c, one step per byte that *)
(* the driver reads, and the keepalive timer of camlibs/konica/library.c    *)
(* that pings the camera between the calls.                                *)
(*                                                                         *)
(* What the driver writes with one call is one element of toCamera; what   *)
(* it reads byte by byte is in toHost byte by byte, except that the data   *)
(* of a packet, which are read at once, are one element, as are the two    *)
(* bytes of its size.  The line loses and damages bytes.  The camera is    *)
(* external: it does what the comments of lowlevel.c say of it.            *)
(***************************************************************************)
EXTENDS Integers, Sequences

CONSTANTS
  Operation,   \* the driver's functions that are called, see below
  Timer,       \* the application's timers
  NoTimer,
  Parts,       \* packets of a picture
  MaxCalls,    \* bound: commands sent
  MaxFaults,   \* bound: bytes lost or damaged, pings in the midst of an answer
  PingNacks,   \* 30: pings refused before l_ping gives up
  PingTries,   \* 50: pings answered with something else
  SendTries,   \* 3: times a command is sent
  AckTries     \* 9: acknowledgements in place of an answer

(* A download is get_file_func, which leaves the timer off when it fails;  *)
(* an inquiry is get_info or camera_capture, which always start it again;  *)
(* a preview is camera_capture_preview, which does not touch the timer;    *)
(* neither does a plain command (delete, status, preferences, ...), whose  *)
(* answer has no picture.                                                  *)
Inquiries == {"download", "inquiry"}
Pictured  == Inquiries \union {"preview"}
Commands  == Pictured \union {"plain", "cancel"}

ASSUME KonicaAssumption ==
  /\ Operation \subseteq Pictured \union {"plain"}
  /\ Parts \in Nat \ {0}
  /\ {MaxCalls, MaxFaults, PingNacks, PingTries, SendTries, AckTries} \subseteq Nat
  /\ NoTimer \notin Timer

VARIABLES
  call,      \* where the driver is, and its local variables
  result,    \* of the last call: "none", "ok", "error", "cancelled"
  pl,        \* the timer that the driver knows, and whether it is initialized
  ticking,   \* the timers that run
  cam,       \* the camera
  toCamera, toHost,
  line       \* history: the commands given and carried out, the faults, and
             \* whether one has disturbed the current or last call

vars == <<call, result, pl, ticking, cam, toCamera, toHost, line>>

-----------------------------------------------------------------------------
(* Bytes *)

\* The data of a packet: of which call, a picture or the control data, which part.
Packet == [n : 1 .. MaxCalls, op : Commands, what : {"picture", "control"}, part : 1 .. Parts]

NoPacket == [n |-> 0, op |-> "plain", what |-> "control", part |-> 0]

Byte(k) == [kind |-> k, packet |-> NoPacket]
Data(p) == [kind |-> "data", packet |-> p]

\* "junk" is any damaged byte without a meaning.
Controls == {"ENQ", "ACK", "NACK", "EOT", "STX", "ETX", "ETB", "size", "sum", "junk"}
HostByte == {Byte(k) : k \in Controls} \union {Data(p) : p \in Packet}

CommandOf(n, op) == [kind |-> "command", n |-> n, op |-> op]
Signal(k) == [kind |-> k, n |-> 0, op |-> "plain"]
CameraByte ==
  {Signal(k) : k \in {"ENQ", "ACK", "NACK", "EOT", "junk"}} \union
  {CommandOf(n, op) : n \in 1 .. MaxCalls, op \in Commands}

\* What the camera answers: a picture in parts, and the control data.
Picture(n, op) == [k \in 1 .. Parts |-> [n |-> n, op |-> op, what |-> "picture", part |-> k]]
Control(n, op) == << [n |-> n, op |-> op, what |-> "control", part |-> 1] >>
Answer(n, op)  == IF op \in Pictured THEN Picture(n, op) \o Control(n, op)
                  ELSE Control(n, op)

IsLast(p) == p.what = "control" \/ p.part = Parts
Bytes(p)  == << Byte("STX"), Byte("size"), Data(p),
                Byte(IF IsLast(p) THEN "ETX" ELSE "ETB"), Byte("sum") >>

-----------------------------------------------------------------------------
(* The driver *)

Places == {"idle", "ping", "reject", "sent", "await", "dump", "stx", "size", "data",
           "swallow", "spoilt", "end", "skip", "sum", "eot", "more", "crashed"}

NoCall == [at |-> "idle", back |-> "none",
           op |-> "none", cmd |-> "none", n |-> 0, count |-> 0, nth |-> 0,
           good |-> TRUE, last |-> TRUE, held |-> NoPacket,
           picture |-> << >>, data |-> << >>]

CallState ==
  [at      : Places,
   back    : {"none", "await", "more", "stx", "eot"},
                                        \* where the application's timer has pinged
   op      : Commands \union {"none", "init", "keepalive"},
   cmd     : Commands \union {"none"},  \* the command that is sent
   n       : 0 .. MaxCalls,             \* its number
   count   : Nat,          \* of the loop: level, i, or j
   nth     : Nat,          \* of the outer loop: pings of l_init
   good    : BOOLEAN,      \* the checksum fits and error_flag is 0
   last    : BOOLEAN,      \* d is ETX
   held    : Packet \union {NoPacket},  \* the packet just read
   picture : Seq(Packet),  \* image_buffer
   data    : Seq(Packet)]  \* receive_buffer

Result == [status : {"none", "ok", "error", "cancelled"},
           n : 0 .. MaxCalls, got : Seq(Packet)]

CameraState ==
  [at : {"idle", "eot", "work", "enq", "sent"}, n : 0 .. MaxCalls,
   op : Commands, left : Seq(Packet), tries : Nat]

LineState == [asked : Seq(Commands), carried : Seq(1 .. MaxCalls),
              faults : 0 .. MaxFaults, disturbed : BOOLEAN]

TypeOK ==
  /\ call \in CallState
  /\ result \in Result
  /\ pl \in [open : BOOLEAN, timeout : Timer \union {NoTimer}, missed : BOOLEAN]
  /\ ticking \subseteq Timer
  /\ cam \in CameraState
  /\ toCamera \in Seq(CameraByte)
  /\ toHost \in Seq(HostByte)
  /\ line \in LineState /\ Len(line.asked) <= MaxCalls

NoResult == [status |-> "none", n |-> 0, got |-> << >>]

NoCamera == [at |-> "idle", n |-> 0, op |-> "plain", left |-> << >>, tries |-> 0]

Init ==
  /\ call = NoCall /\ result = NoResult
  /\ pl = [open |-> FALSE, timeout |-> NoTimer, missed |-> FALSE]
  /\ ticking = {}
  /\ cam = NoCamera /\ toCamera = << >> /\ toHost = << >>
  /\ line = [asked |-> << >>, carried |-> << >>,
             faults |-> 0, disturbed |-> FALSE]

Write(b) == toCamera' = Append(toCamera, b)
Got(k) == toHost # << >> /\ Head(toHost).kind = k
GotOther(ks) == toHost # << >> /\ Head(toHost).kind \notin ks
Taken == toHost # << >> /\ toHost' = Tail(toHost)

\* gp_port_flush, after a byte is read: what is on its way comes later.
Flush == \E k \in 1 .. Len(toHost) : toHost' = SubSeq(toHost, k + 1, Len(toHost))

\* gp_camera_start_timeout, gp_camera_stop_timeout: a timer that is not known
\* to run is not stopped.
StartTimeout ==
  \E t \in Timer \ ticking :
    /\ ticking' = ticking \union {t}
    /\ pl' = [open |-> TRUE, timeout |-> t, missed |-> FALSE]
StopTimeout == ticking' = ticking \ {pl.timeout}

\* Mutant: get_info starts the timer again only when it has succeeded.
ReturnQuietly(r) ==
  /\ call' = NoCall
  /\ result' = IF r = "error" THEN [NoResult EXCEPT !.status = r]
               ELSE [status |-> r, n |-> call.n, got |-> call.picture \o call.data]
  /\ UNCHANGED line
  /\ \/ call.op \in Inquiries \union {"init"} /\ r = "ok" /\ StartTimeout
     \/ /\ call.op \in Inquiries /\ r # "ok"
        /\ pl' = [pl EXCEPT !.missed = @ \/ call.op = "download"] /\ UNCHANGED ticking
     \/ (call.op = "init" => r # "ok") /\ call.op \notin Inquiries /\ UNCHANGED <<pl, ticking>>

\* Mutant: a command that has not stopped the timer starts one, too.
ReturnTicking(r) ==
  /\ call' = NoCall
  /\ result' = IF r = "error" THEN [NoResult EXCEPT !.status = r]
               ELSE [status |-> r, n |-> call.n, got |-> call.picture \o call.data]
  /\ UNCHANGED line
  /\ \/ call.op # "keepalive" /\ (call.op = "init" => r = "ok") /\ StartTimeout
     \/ UNCHANGED <<pl, ticking>>

\* The driver's function returns.
Return(r) ==
  /\ call' = NoCall
  /\ result' = IF r = "error" THEN [NoResult EXCEPT !.status = r]
               ELSE [status |-> r, n |-> call.n, got |-> call.picture \o call.data]
  /\ UNCHANGED line
  /\ \/ /\ \/ call.op = "inquiry"
           \/ call.op \in {"init", "download"} /\ r = "ok"
        /\ StartTimeout
     \/ /\ call.op = "download" /\ r # "ok"
        /\ pl' = [pl EXCEPT !.missed = TRUE] /\ UNCHANGED ticking
     \/ /\ call.op = "init" /\ r # "ok" /\ UNCHANGED <<pl, ticking>>
     \/ /\ call.op \in {"keepalive", "preview", "plain"} /\ UNCHANGED <<pl, ticking>>

\* k_cancel is called in the middle of l_receive, which returns when it does.
Done(r) ==
  Return(IF call.cmd = "cancel" /\ call.op # "cancel" /\ r = "ok" THEN "cancelled" ELSE r)

Stay(c) == call' = c /\ UNCHANGED <<result, pl, ticking, line>>

-----------------------------------------------------------------------------
(* The calls of the application *)

\* l_send begins with a ping.
Ping(c) == call' = [c EXCEPT !.at = "ping", !.count = 0] /\ Write(Signal("ENQ"))

Begins == line' = [line EXCEPT !.disturbed = FALSE]

CameraInit ==
  /\ call.at = "idle" /\ ~pl.open /\ Begins
  /\ Ping([NoCall EXCEPT !.op = "init"])
  /\ UNCHANGED <<result, pl, ticking, cam, toHost>>

Command(op) ==
  /\ call.at = "idle" /\ pl.open /\ op \in Operation
  /\ Len(line.asked) < MaxCalls
  /\ line' = [line EXCEPT !.asked = Append(@, op), !.disturbed = FALSE]
  /\ Ping([NoCall EXCEPT !.op = op, !.cmd = op, !.n = Len(line.asked) + 1])
  /\ IF op \in Inquiries THEN StopTimeout ELSE UNCHANGED ticking
  /\ UNCHANGED <<result, pl, cam, toHost>>

\* get_file_func for a kind of file that it does not know.
NotSupported ==
  /\ call.at = "idle" /\ pl.open /\ "download" \in Operation
  /\ StopTimeout /\ pl' = [pl EXCEPT !.missed = TRUE]
  /\ UNCHANGED <<call, result, cam, toCamera, toHost, line>>

\* timeout_func: a ping.
Tick ==
  /\ call.at = "idle" /\ ticking # {} /\ Begins
  /\ Ping([NoCall EXCEPT !.op = "keepalive"])
  /\ UNCHANGED <<result, pl, ticking, cam, toHost>>

CameraExit ==
  /\ call.at = "idle" /\ pl.open
  /\ ticking' = {} /\ pl' = [open |-> FALSE, timeout |-> NoTimer, missed |-> FALSE]
  /\ UNCHANGED <<call, result, cam, toCamera, toHost, line>>

-----------------------------------------------------------------------------
(* How l_receive goes on                                                   *)

\* Read a packet: *rbs is 0 for the first.
ReceivePacket(data) ==
  /\ Stay([call EXCEPT !.at = "stx", !.back = "none", !.count = 0, !.data = data])
  /\ Write(Signal("ACK"))

\* The application wants to cancel: k_cancel.
Cancel ==
  /\ call.cmd # "cancel" /\ Len(line.asked) < MaxCalls
  /\ line' = [line EXCEPT !.asked = Append(@, "cancel")]
  /\ Ping([call EXCEPT !.cmd = "cancel", !.n = Len(line.asked) + 1, !.back = "none",
                       !.picture = << >>, !.data = << >>])
  /\ UNCHANGED <<result, pl, ticking>>

\* l_send_receive: is this the control data?
IsControl == Head(call.data).what = "control" /\ Head(call.data).op = call.cmd

\* The first answer may be the picture, and then the control data follow.
\* A command without a picture passes no buffer for it.
Received ==
  \/ IsControl /\ Done("ok")
  \/ /\ ~IsControl /\ call.picture # << >>
     /\ Done("error")
  \/ /\ ~IsControl /\ call.picture = << >>
     /\ Stay([call EXCEPT !.at = IF call.cmd \in Pictured THEN "await" ELSE "crashed",
                          !.back = "none", !.picture = call.data, !.count = 0])

\* Back from a callback of the application: l_receive does not learn of the
\* ping that the application's timer has made there.
Resume ==
  \/ call.back = "await" /\ ReceivePacket(<< >>)
  \/ call.back = "more" /\ (ReceivePacket(call.data) \/ Cancel)
  \/ /\ call.back = "stx" /\ UNCHANGED toCamera
     /\ Stay([call EXCEPT !.at = "stx", !.back = "none", !.count = 0])
  \/ call.back = "eot" /\ Received /\ UNCHANGED toCamera

-----------------------------------------------------------------------------
(* l_ping_rec *)

\* timeout_func returns what the ping does, which the application ignores.
PingFails ==
  \/ call.back = "none" /\ Done("error") /\ UNCHANGED toCamera
  \/ Resume

\* Mutant: refusals are not counted.
PingForever(most) == Stay(call) /\ Write(Signal("ENQ"))

PingAgain(most) ==
  IF call.count < most
  THEN Stay([call EXCEPT !.count = @ + 1]) /\ Write(Signal("ENQ"))
  ELSE PingFails

\* The camera may be spoken to: write the command.
Pinged ==
  \/ call.back = "none" /\ call.cmd = "none" /\ Done("ok") /\ UNCHANGED toCamera
  \/ /\ call.back = "none" /\ call.cmd # "none"
     /\ Stay([call EXCEPT !.at = "sent", !.count = 0])
     /\ Write(CommandOf(call.n, call.cmd))
  \/ Resume

\* Mutant: an ENQ in answer to a ping is an error.
PingUnanswered ==
  /\ call.at = "ping" /\ UNCHANGED cam
  /\ \/ Got("ACK") /\ Taken /\ Pinged
     \/ Got("NACK") /\ Taken /\ PingAgain(PingNacks)
     \/ Got("ENQ") /\ Taken /\ PingFails
     \/ /\ GotOther({"ACK", "NACK", "ENQ"})
        /\ Flush /\ PingAgain(PingTries + 1)

\* Mutant: what the camera wants to send is taken for the answer.
PingReceives ==
  /\ call.at = "ping" /\ UNCHANGED cam
  /\ \/ Got("ACK") /\ Taken /\ Pinged
     \/ Got("NACK") /\ Taken /\ PingAgain(PingNacks)
     \/ /\ Got("ENQ") /\ Taken
        /\ IF call.cmd = "none"
           THEN Stay([call EXCEPT !.at = "reject"]) /\ Write(Signal("NACK"))
           ELSE Stay([call EXCEPT !.at = "stx", !.count = 0]) /\ Write(Signal("ACK"))
     \/ /\ GotOther({"ACK", "NACK", "ENQ"})
        /\ Flush /\ PingAgain(PingTries + 1)

PingReply ==
  /\ call.at = "ping" /\ UNCHANGED cam
  /\ \/ Got("ACK") /\ Taken /\ Pinged
     \/ Got("NACK") /\ Taken /\ PingAgain(PingNacks)
     \/ /\ Got("ENQ") /\ Taken
        /\ Stay([call EXCEPT !.at = "reject"]) /\ Write(Signal("NACK"))
     \/ /\ GotOther({"ACK", "NACK", "ENQ"})
        /\ Flush /\ PingAgain(PingTries + 1)

RejectReply ==
  /\ call.at = "reject" /\ Taken /\ UNCHANGED cam
  /\ \/ Got("ENQ") /\ Stay(call) /\ UNCHANGED toCamera
     \/ Got("ACK") /\ Pinged
     \/ GotOther({"ENQ", "ACK"}) /\ PingFails

-----------------------------------------------------------------------------
(* l_send *)

SendReply ==
  /\ call.at = "sent" /\ Taken /\ UNCHANGED cam
  /\ \/ /\ Got("ACK")
        /\ Stay([call EXCEPT !.at = "await", !.count = 0])
        /\ Write(Signal("EOT"))
     \/ /\ Got("NACK") /\ call.count < SendTries - 1
        /\ Stay([call EXCEPT !.count = @ + 1])
        /\ Write(CommandOf(call.n, call.cmd))
     \/ /\ Got("NACK") /\ call.count >= SendTries - 1
        /\ Done("error") /\ UNCHANGED toCamera
     \/ GotOther({"ACK", "NACK"}) /\ Done("error") /\ UNCHANGED toCamera

-----------------------------------------------------------------------------
(* l_receive *)

AwaitReply ==
  /\ call.at = "await" /\ Taken /\ UNCHANGED cam
  /\ \/ Got("ENQ") /\ ReceivePacket(<< >>)
     \/ /\ Got("ACK") /\ UNCHANGED toCamera
        /\ IF call.count < AckTries THEN Stay([call EXCEPT !.count = @ + 1])
           ELSE Done("error")
     \/ /\ GotOther({"ENQ", "ACK"}) /\ UNCHANGED toCamera
        /\ Stay([call EXCEPT !.at = "dump"])

Dump ==
  /\ call.at = "dump" /\ Taken /\ UNCHANGED cam
  /\ \/ Got("ENQ") /\ ReceivePacket(<< >>)
     \/ GotOther({"ENQ"}) /\ Stay(call) /\ UNCHANGED toCamera

\* j is compared with 2 only: 3 stands for all that is more.
NextTry == IF call.count < 3 THEN call.count + 1 ELSE 3

FindStart ==
  /\ call.at = "stx" /\ Taken /\ UNCHANGED <<cam, toCamera>>
  /\ \/ Got("STX") /\ Stay([call EXCEPT !.at = "size", !.good = TRUE])
     \/ GotOther({"STX"}) /\ Stay([call EXCEPT !.count = NextTry])

\* A wrong size is too long or too short.
ReadSize ==
  /\ call.at = "size" /\ Taken /\ UNCHANGED <<cam, toCamera>>
  /\ \/ Got("size") /\ Stay([call EXCEPT !.at = "data"])
     \/ GotOther({"size"}) /\ \E at \in {"swallow", "end"} :
                                Stay([call EXCEPT !.at = at, !.good = FALSE])

\* An STX among the bytes spoils them: d is not read.
Swallow ==
  /\ call.at \in {"swallow", "spoilt"} /\ Taken /\ UNCHANGED <<cam, toCamera>>
  /\ \E at \in IF call.at = "spoilt" \/ Got("STX") THEN {"spoilt", "sum"}
              ELSE {"swallow", "end"} :
       Stay([call EXCEPT !.at = at])

\* With LESSER_ESCAPES, only an STX is noticed at once: then d is not read.
ReadData ==
  /\ call.at = "data" /\ Taken /\ UNCHANGED <<cam, toCamera>>
  /\ \/ /\ Got("data")
        /\ Stay([call EXCEPT !.at = "end", !.held = Head(toHost).packet])
     \/ Got("STX") /\ Stay([call EXCEPT !.at = "sum", !.good = FALSE])
     \/ GotOther({"data", "STX"}) /\ Stay([call EXCEPT !.at = "end", !.good = FALSE])

ReadEnd ==
  /\ call.at \in {"end", "skip"} /\ Taken /\ UNCHANGED <<cam, toCamera>>
  /\ \/ /\ Got("ETX") \/ Got("ETB")
        /\ Stay([call EXCEPT !.at = "sum", !.last = Got("ETX"),
                             !.good = @ /\ call.at = "end"])
     \/ GotOther({"ETX", "ETB"}) /\ Stay([call EXCEPT !.at = "skip"])

\* Mutant: error_flag is not looked at.
ReadGoodChecksum ==
  /\ call.at = "sum" /\ Taken /\ UNCHANGED cam
  /\ \/ /\ Got("sum")
        /\ Stay([call EXCEPT !.at = "eot", !.data = Append(@, call.held)])
        /\ Write(Signal("ACK"))
     \/ /\ ~Got("sum")
        /\ IF call.count = 2 THEN Done("error") /\ UNCHANGED toCamera
           ELSE /\ Stay([call EXCEPT !.at = "stx", !.count = NextTry])
                /\ Write(Signal("NACK"))

ReadChecksum ==
  /\ call.at = "sum" /\ Taken /\ UNCHANGED cam
  /\ \/ /\ call.good /\ Got("sum")
        /\ Stay([call EXCEPT !.at = "eot", !.data = Append(@, call.held)])
        /\ Write(Signal("ACK"))
     \/ /\ ~(call.good /\ Got("sum"))
        /\ IF call.count = 2 THEN Done("error") /\ UNCHANGED toCamera
           ELSE /\ Stay([call EXCEPT !.at = "stx", !.count = NextTry])
                /\ Write(Signal("NACK"))

-----------------------------------------------------------------------------
(* The end of a packet                                                     *)

EndOfPacket ==
  /\ call.at = "eot" /\ Taken /\ UNCHANGED <<cam, toCamera>>
  /\ \/ Got("EOT") /\ call.last /\ Received
     \/ Got("EOT") /\ ~call.last /\ Stay([call EXCEPT !.at = "more"])
     \/ GotOther({"EOT"}) /\ Done("error")

\* The application may cancel between two packets.
NextPacket ==
  /\ call.at = "more" /\ Taken /\ UNCHANGED cam
  /\ \/ Got("ENQ") /\ ReceivePacket(call.data)
     \/ Got("ENQ") /\ Cancel
     \/ GotOther({"ENQ"}) /\ Done("error") /\ UNCHANGED toCamera

\* l_receive reports progress when *rbs was above 1000 before it: never for
\* the first answer of a preview, which passes 0; the second finds the size
\* of the picture there, a command without a picture whatever was in rbs.
Reports == call.cmd # "preview" \/ call.picture # << >>

\* The application's timer goes off while l_receive calls the application:
\* gp_context_progress_start, gp_context_cancel, gp_context_progress_update
\* and gp_context_progress_stop.
TickInCallback ==
  /\ ticking # {} /\ line.faults < MaxFaults
  /\ line' = [line EXCEPT !.faults = @ + 1, !.disturbed = TRUE]
  /\ \/ /\ call.at \in {"await", "dump"} /\ Reports /\ Got("ENQ") /\ Taken
        /\ Ping([call EXCEPT !.back = "await"])
     \/ /\ call.at = "more" /\ Got("ENQ") /\ Taken
        /\ Ping([call EXCEPT !.back = "more"])
     \/ /\ call.at = "stx" /\ call.count = 0 /\ call.data # << >> /\ Reports
        /\ UNCHANGED toHost /\ Ping([call EXCEPT !.back = "stx"])
     \/ /\ call.at = "eot" /\ call.last /\ Reports /\ Got("EOT") /\ Taken
        /\ Ping([call EXCEPT !.back = "eot"])
  /\ UNCHANGED <<result, pl, ticking, cam>>

\* gp_port_read finds nothing: every caller returns, but l_init, which pings
\* three times.  The camera reads what it gets at once; a command may take it
\* longer than the driver waits.
TimeOut ==
  /\ call.at \notin {"idle", "crashed"} /\ toHost = << >> /\ toCamera = << >>
  /\ cam.at = "work" => line.disturbed
  /\ UNCHANGED <<cam, toHost>>
  /\ \/ /\ call.op = "init" /\ call.nth < 2
        /\ Stay([call EXCEPT !.at = "ping", !.count = 0, !.nth = @ + 1])
        /\ Write(Signal("ENQ"))
     \/ /\ ~(call.op = "init" /\ call.nth < 2)
        /\ PingFails

Late ==
  /\ call.at \notin {"idle", "crashed"} /\ cam.at = "work" /\ ~line.disturbed
  /\ line' = [line EXCEPT !.disturbed = TRUE]
  /\ UNCHANGED <<call, result, pl, ticking, cam, toCamera, toHost>>

-----------------------------------------------------------------------------
(* The camera (external) *)

Say(bytes) == toHost' = toHost \o bytes
Hears(k) == toCamera # << >> /\ Head(toCamera).kind = k
CameraSteps(c) ==
  /\ cam' = c /\ toCamera' = Tail(toCamera)
  /\ UNCHANGED <<call, result, pl, ticking>>

\* It sends the next packet, or the packet again.
SayPacket == Say(Bytes(Head(cam.left)))

\* A ping: the camera is ready, or busy with a command, or wants to send.
HearPing ==
  /\ Hears("ENQ")
  /\ \/ /\ cam.at \in {"idle", "eot", "sent"} /\ UNCHANGED line
        /\ CameraSteps(NoCamera) /\ Say(<<Byte("ACK")>>)
     \/ /\ cam.at = "work" /\ line' = [line EXCEPT !.disturbed = TRUE]
        /\ CameraSteps(cam) /\ Say(<<Byte("NACK")>>)
     \/ cam.at = "enq" /\ CameraSteps(cam) /\ Say(<<Byte("ENQ")>>) /\ UNCHANGED line

HearCommand ==
  /\ Hears("command") /\ UNCHANGED line
  /\ IF cam.at \in {"idle", "eot"}
     THEN /\ CameraSteps([NoCamera EXCEPT !.at = "eot", !.n = Head(toCamera).n,
                                          !.op = Head(toCamera).op])
          /\ Say(<<Byte("ACK")>>)
     ELSE CameraSteps(cam) /\ UNCHANGED toHost

\* A command that it cannot read.
HearJunk ==
  /\ Hears("junk") /\ UNCHANGED line /\ CameraSteps(cam)
  /\ IF cam.at \in {"idle", "eot"} THEN Say(<<Byte("NACK")>>) ELSE UNCHANGED toHost

\* It carries the command out.
HearEot ==
  /\ Hears("EOT") /\ UNCHANGED toHost
  /\ \/ /\ cam.at = "eot"
        /\ CameraSteps([cam EXCEPT !.at = "work", !.left = Answer(cam.n, cam.op)])
        /\ line' = [line EXCEPT !.carried = Append(@, cam.n)]
     \/ cam.at # "eot" /\ CameraSteps(cam) /\ UNCHANGED line

\* Send the packet; after it, the next one, when that is ready.
HearAck ==
  /\ Hears("ACK") /\ UNCHANGED line
  /\ \/ /\ cam.at = "enq"
        /\ CameraSteps([cam EXCEPT !.at = "sent", !.tries = 1]) /\ SayPacket
     \/ /\ cam.at = "sent" /\ Say(<<Byte("EOT")>>)
        /\ CameraSteps(IF Len(cam.left) > 1
                       THEN [cam EXCEPT !.at = "work", !.left = Tail(@)] ELSE NoCamera)
     \/ cam.at \notin {"enq", "sent"} /\ CameraSteps(cam) /\ UNCHANGED toHost

\* "The camera will try two more times with ENQ to get us to receive data
\* before finally giving up and sending us ACK"; "the camera will send us the
\* data at the most three times".
HearNack ==
  /\ Hears("NACK") /\ UNCHANGED line
  /\ \/ /\ cam.at = "enq" /\ CameraSteps(NoCamera)
        /\ Say(<<Byte("ENQ"), Byte("ENQ"), Byte("ACK")>>)
     \/ /\ cam.at = "sent" /\ cam.tries < 3
        /\ CameraSteps([cam EXCEPT !.tries = @ + 1]) /\ SayPacket
     \/ cam.at = "sent" /\ cam.tries = 3 /\ CameraSteps(NoCamera) /\ UNCHANGED toHost
     \/ cam.at \notin {"enq", "sent"} /\ CameraSteps(cam) /\ UNCHANGED toHost

\* The answer is ready.
WantToSend ==
  /\ cam.at = "work" /\ cam' = [cam EXCEPT !.at = "enq"] /\ Say(<<Byte("ENQ")>>)
  /\ UNCHANGED <<call, result, pl, ticking, toCamera, line>>

\* "ACK received. We'll try again at most ten times. [...] The camera hangs!"
Hang ==
  /\ cam.at = "work" /\ call.at = "await" /\ toHost = << >> /\ Say(<<Byte("ACK")>>)
  /\ line' = [line EXCEPT !.disturbed = @ \/ call.count >= AckTries]
  /\ UNCHANGED <<call, result, pl, ticking, cam, toCamera>>

\* Nothing comes, and the camera forgets about it.
GiveUp ==
  /\ cam.at \in {"eot", "enq", "sent"} /\ toCamera = << >> /\ toHost = << >>
  /\ cam' = NoCamera
  /\ UNCHANGED <<call, result, pl, ticking, toCamera, toHost, line>>

-----------------------------------------------------------------------------
(* The line *)

Fault(harmless) ==
  /\ line.faults < MaxFaults
  /\ line' = [line EXCEPT !.faults = @ + 1, !.disturbed = @ \/ ~harmless]
  /\ UNCHANGED <<call, result, pl, ticking, cam>>

Lose ==
  /\ Fault(FALSE)
  /\ \/ toHost # << >> /\ toHost' = Tail(toHost) /\ UNCHANGED toCamera
     \/ toCamera # << >> /\ toCamera' = Tail(toCamera) /\ UNCHANGED toHost

\* The first time, a packet with damaged data should be repaired.
Damage ==
  /\ Fault(Got("data") /\ line.faults = 0)
  /\ \/ /\ toHost # << >> /\ UNCHANGED toCamera
        /\ \E k \in {"junk", "STX"} : toHost' = <<Byte(k)>> \o Tail(toHost)
     \/ /\ toCamera # << >> /\ UNCHANGED toHost
        /\ toCamera' = <<Signal("junk")>> \o Tail(toCamera)

-----------------------------------------------------------------------------
Driver ==
  \/ PingReply \/ RejectReply \/ SendReply
  \/ AwaitReply \/ Dump \/ FindStart \/ ReadSize \/ Swallow \/ ReadData
  \/ ReadEnd \/ ReadChecksum \/ EndOfPacket \/ NextPacket
  \/ TimeOut

\* The camera reads what it gets.
Hear == HearPing \/ HearCommand \/ HearJunk \/ HearEot \/ HearAck \/ HearNack

Camera ==
  \/ Hear
  \/ WantToSend \/ Hang \/ GiveUp

Next ==
  \/ CameraInit \/ (\E op \in Operation : Command(op)) \/ NotSupported
  \/ Tick \/ CameraExit
  \/ Driver \/ Late \/ TickInCallback
  \/ Camera
  \/ Lose \/ Damage

Spec == Init /\ [][Next]_vars

FairSpec == Spec /\ WF_vars(Driver \/ Late) /\ WF_vars(Hear)

-----------------------------------------------------------------------------
(* A call fails only when the line, the camera, or a ping in the midst of  *)
(* its answer has disturbed that call: one damaged packet is repaired by   *)
(* l_receive, and what a call that has failed leaves on the line, an ENQ,  *)
(* half a packet, a late answer, is cleared away by the ping of the next.  *)
Recovers == call.at = "idle" /\ result.status = "error" => line.disturbed

(* An answer that is not the control data is a picture: l_send_receive     *)
(* never gets one for a command that has no buffer for it.                 *)
NeverCrashes == call.at # "crashed"

(* Between the calls the keepalive timer runs, unless a download has gone  *)
(* wrong since it was last started.                                        *)
KeptAlive == call.at = "idle" /\ pl.open => pl.timeout \in ticking \/ pl.missed

(* "Remove the timeout, get the information": while get_file_func,         *)
(* get_info or camera_capture is at work, however the calls before it have *)
(* ended, no timer runs, and none pings between two bytes of the answer    *)
(* when the application is told of the progress.  A preview and a plain    *)
(* command have no such protection.                                        *)
Undisturbed == call.op \in Inquiries => ticking = {} /\ call.back = "none"

(* Every call returns.                                                     *)
CallReturns == call.at # "idle" ~> call.at = "idle"

Exchange == INSTANCE KonicaExchange
  WITH asked   <- line.asked,
       carried <- line.carried,
       given   <- IF result.n = 0 THEN [n |-> 0, got |-> << >>]
                  ELSE [n |-> result.n, got |-> result.got]

(* Over a line that loses and damages bytes, to a camera that may be late, *)
(* commands are carried out at most once, and answers are never mixed up.  *)
IsExchange == Exchange!Spec
=============================================================================

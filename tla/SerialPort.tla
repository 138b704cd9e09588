----------------------------- MODULE SerialPort -----------------------------
(***************************************************************************)
(* The serial port: libgphoto2_port/serial/unix.c, on Linux, with lockdev. *)
(*                                                                         *)
(* Opening takes the device's lock file, which other programs take as      *)
(* well, and tries again a few times.  Reading and writing open the port   *)
(* if need be and bring the line to the settings.  Reading knows the marks *)
(* that the line discipline puts in front of a byte that came with a       *)
(* parity error.  External are the lock file, the line discipline and the  *)
(* camera at the other end.                                                *)
(*                                                                         *)
(* Every system call may fail, signals come at any time, the device may    *)
(* go, and a program that has had the device leaves the line as it likes.  *)
(***************************************************************************)
EXTENDS Integers, Sequences, SequencesExt

CONSTANTS
  Settings,    \* the [speed, parity] that drivers set
  NoSpeed,     \* pl->baudrate before the line has been set
  MaxTries,    \* how often a failed lock is tried again
  Byte, FF, NUL,
  Message,     \* what drivers write
  MaxRead,     \* bound: how much they read at a time
  MaxArrived   \* bound: what a camera sends between two openings

ASSUME ConstAssumption ==
  /\ \A s \in Settings : s.speed # NoSpeed /\ s.parity \in BOOLEAN
  /\ MaxTries \in Nat /\ MaxRead \in Nat /\ MaxArrived \in Nat
  /\ FF \in Byte /\ NUL \in Byte /\ FF # NUL
  /\ Message \subseteq Seq(Byte)

VARIABLES
  dev,   \* the GPPort: fd is a descriptor or 0, in blocking mode or not (O_NONBLOCK);
         \* baudrate; settings; a descriptor has been lost by opening twice
  line,  \* the settings that the tty is at
  lock,  \* who holds the lock file
  call,  \* the operation in progress
  rx     \* what comes from the camera

vars == <<dev, line, lock, call, rx>>

Speeds == {s.speed : s \in Settings} \union {NoSpeed}
Port   == [fd : BOOLEAN, blocking : BOOLEAN, lost : BOOLEAN,
           baudrate : Speeds, settings : Settings]
Holder == {"nobody", "we", "others"}

\* What is being done, and how far it is: data is to be written, out has been,
\* and left bytes are still to be written or read.  At "unguarded" is a read()
\* that no select() has let through.
Call == [of : {"none", "open", "write", "read"},
         at : {"lock", "speed", "io", "unguarded", "return"},
         tries : 0..MaxTries, data : Seq(Byte), out : Seq(Byte), left : Nat]
Idle == [of |-> "none", at |-> "return", tries |-> 0,
         data |-> << >>, out |-> << >>, left |-> 0]

\* A byte in the receive queue: bad if it was damaged on the way.
Received == [byte : Byte, bad : BOOLEAN]
Good(b)  == [byte |-> b, bad |-> FALSE]

\* input is the receive queue.  The rest is history, since the port was opened:
\* what the camera has sent, what has been read, whether that is spoilt, since a
\* read has failed (and dropped what it had) or a byte has come while the line was
\* not at the settings, and whether the device is gone.
Rx   == [input : Seq(Received), arrived : Seq(Received), delivered : Seq(Received),
         spoilt : BOOLEAN, gone : BOOLEAN]
NoRx == [input |-> << >>, arrived |-> << >>, delivered |-> << >>,
         spoilt |-> FALSE, gone |-> FALSE]

TypeOK == dev \in Port /\ line \in Settings /\ lock \in Holder
          /\ call \in Call /\ rx \in Rx

\* gp_port_serial_init, and the first gp_port_set_settings.
Init ==
  /\ \E s \in Settings : dev = [fd |-> FALSE, blocking |-> FALSE, lost |-> FALSE,
                               baudrate |-> NoSpeed, settings |-> s]
  /\ line \in Settings
  /\ lock \in {"nobody", "others"}
  /\ call = Idle
  /\ rx = NoRx

-----------------------------------------------------------------------------
(***************************************************************************)
(* gp_port_serial_open: lock, open.                                        *)
(***************************************************************************)

Goto(p) == call' = [call EXCEPT !.at = p]
Return  == call' = Idle

\* The port may be open already.
CallOpen ==
  /\ call = Idle
  /\ call' = [Idle EXCEPT !.of = "open", !.at = "lock"]
  /\ UNCHANGED <<dev, line, lock, rx>>

\* The descriptor does not block until the speed is set, and the one that dev had
\* is lost.
Opened ==
  /\ call.at = "lock" /\ lock # "others"
  /\ lock' = "we"
  /\ dev' = [dev EXCEPT !.fd = TRUE, !.blocking = FALSE, !.lost = @ \/ dev.fd]
  /\ IF call.of = "open" THEN Return ELSE Goto("speed")
  /\ UNCHANGED <<line, rx>>

\* The lock stays.
OpenFails ==
  /\ call.at = "lock" /\ lock # "others"
  /\ lock' = "we"
  /\ dev' = [dev EXCEPT !.fd = FALSE, !.blocking = FALSE, !.lost = @ \/ dev.fd]
  /\ Return
  /\ UNCHANGED <<line, rx>>

\* Mutant: the tries are not counted.
LockedTriesOn ==
  /\ call.at = "lock" /\ lock = "others"
  /\ UNCHANGED vars

\* Mutant: after the last try the device is opened all the same.
LockedOpensAnyway ==
  /\ call.at = "lock" /\ lock = "others"
  /\ IF call.tries < MaxTries
     THEN call' = [call EXCEPT !.tries = @ + 1] /\ UNCHANGED dev
     ELSE Return /\ dev' = [dev EXCEPT !.fd = TRUE]
  /\ UNCHANGED <<line, lock, rx>>

\* Somebody else has the lock: wait a second and try again, or give up.
Locked ==
  /\ call.at = "lock" /\ lock = "others"
  /\ IF call.tries < MaxTries THEN call' = [call EXCEPT !.tries = @ + 1]
                              ELSE Return
  /\ UNCHANGED <<dev, line, lock, rx>>

-----------------------------------------------------------------------------
\* gp_port_serial_close; a port that is closed already is unlocked again.  The lock
\* stays where settings.serial.port does not name the port: drivers leave it empty,
\* libgphoto2_port/test/test-gp-port.c fills it in.
Close ==
  /\ call = Idle
  /\ dev' = [dev EXCEPT !.fd = FALSE, !.blocking = FALSE] /\ rx' = NoRx
  /\ lock' \in {lock, IF lock = "we" THEN "nobody" ELSE lock}
  /\ UNCHANGED <<line, call>>

CloseFails ==
  /\ call = Idle /\ dev.fd
  /\ UNCHANGED vars

-----------------------------------------------------------------------------
(***************************************************************************)
(* gp_port_serial_check_speed, and gp_port_serial_update.                  *)
(***************************************************************************)

\* The line is brought to the settings of d, if the speed is another one than it
\* was last set to, and the descriptor to blocking mode.
SetLine(d) ==
  \/ d.baudrate = d.settings.speed /\ dev' = d /\ UNCHANGED line
  \/ d.baudrate # d.settings.speed
     /\ dev' = [d EXCEPT !.baudrate = d.settings.speed, !.blocking = TRUE]
     /\ line' = d.settings

\* It fails before the line has been set (tcgetattr, tcsetattr), or after that
\* (fcntl, tcgetattr, another speed than was asked for).
SetLineFails(d) ==
  /\ d.baudrate # d.settings.speed
  /\ \/ dev' = d /\ UNCHANGED line
     \/ \E b \in {d.blocking, TRUE} : dev' = [d EXCEPT !.blocking = b]
        /\ line' \in {s \in Settings : s.parity = d.settings.parity}

\* Drivers change the settings when nothing is on its way.
SetSettings(s) ==
  /\ call = Idle /\ rx.input = << >>
  /\ LET d == [dev EXCEPT !.settings = s]
     IN IF dev.fd THEN SetLine(d) \/ SetLineFails(d)
                  ELSE dev' = d /\ UNCHANGED line
  /\ UNCHANGED <<lock, call, rx>>

SpeedChecked ==
  /\ call.at = "speed"
  /\ SetLine(dev)
  /\ Goto("io")
  /\ UNCHANGED <<lock, rx>>

SpeedFails ==
  /\ call.at = "speed"
  /\ SetLineFails(dev)
  /\ Return
  /\ UNCHANGED <<lock, rx>>

-----------------------------------------------------------------------------
(***************************************************************************)
(* gp_port_serial_write.                                                   *)
(***************************************************************************)

CallWrite(m) ==
  /\ call = Idle
  /\ call' = [Idle EXCEPT !.of = "write", !.at = IF dev.fd THEN "speed" ELSE "lock",
                          !.data = m, !.left = Len(m)]
  /\ UNCHANGED <<dev, line, lock, rx>>

\* write() takes n of the bytes it is given: those at the beginning, since the
\* pointer to them is never moved.  A part is taken by a descriptor that does not
\* block, or when a signal comes.  (EAGAIN and EINTR change nothing.)
Write(n) ==
  /\ call.of = "write" /\ call.at = "io" /\ n \in 1..call.left
  /\ call' = [call EXCEPT !.left = @ - n, !.out = @ \o SubSeq(call.data, 1, n)]
  /\ UNCHANGED <<dev, line, lock, rx>>

WriteFails ==
  /\ call.of = "write" /\ call.at = "io" /\ call.left > 0
  /\ Return
  /\ UNCHANGED <<dev, line, lock, rx>>

\* All is written, or read.
Finish ==
  /\ call.at = "io" /\ call.left = 0
  /\ Return
  /\ UNCHANGED <<dev, line, lock, rx>>

-----------------------------------------------------------------------------
(***************************************************************************)
(* gp_port_serial_read.                                                    *)
(***************************************************************************)

CallRead(n) ==
  /\ call = Idle
  /\ call' = [Idle EXCEPT !.of = "read", !.at = IF dev.fd THEN "speed" ELSE "lock",
                          !.left = n]
  /\ UNCHANGED <<dev, line, lock, rx>>

Reading == call.of = "read" /\ call.at \in {"io", "unguarded"} /\ call.left > 0

\* The first n bytes of the queue go, S is what the application gets of them.
Deliver(n, S) ==
  /\ rx' = [rx EXCEPT !.input = SubSeq(@, n + 1, Len(@)), !.delivered = @ \o S]
  /\ call' = [call EXCEPT !.left = @ - Len(S), !.at = "io"]
  /\ UNCHANGED <<dev, line, lock>>

\* The call returns an error, after taking n bytes of the queue.
ReadError(n) ==
  /\ rx' = [rx EXCEPT !.input = SubSeq(@, n + 1, Len(@)), !.spoilt = TRUE]
  /\ Return
  /\ UNCHANGED <<dev, line, lock>>

Nothing == Reading /\ rx.input = << >> /\ ~rx.gone

\* An 0xff without the byte that should follow it.
ReadsAlone ==
  /\ Reading /\ dev.settings.parity
  /\ Len(rx.input) = 1 /\ rx.input[1].byte = FF

\* select() finds nothing in time; read() finds nothing without blocking.
ReadTimeout ==
  /\ Nothing /\ (call.at = "io" \/ ~dev.blocking)
  /\ ReadError(0)

\* A signal: select() returns -1, which is not looked for, and the set is as it was
\* (FD_ISSET); or it ends a read() that blocks.
Interrupted ==
  \/ Nothing /\ call.at = "io" /\ Goto("unguarded") /\ UNCHANGED <<dev, line, lock, rx>>
  \/ Nothing /\ call.at = "unguarded" /\ ReadError(0)
  \/ ReadsAlone /\ ReadError(1)

\* The device is gone: read() returns 0, and the loop goes round.  With parity, it
\* looks at a byte of the caller's buffer that nobody has written, and may take it
\* for a mark.
ReadNothing ==
  /\ Reading /\ rx.input = << >> /\ rx.gone
  /\ \/ Goto("io") /\ UNCHANGED <<dev, line, lock, rx>>
     \/ dev.settings.parity /\ ReadError(0)

\* Without parity read() gives what is there.
ReadPlain ==
  /\ Reading /\ ~dev.settings.parity
  /\ LET n == IF call.left < Len(rx.input) THEN call.left ELSE Len(rx.input)
     IN n > 0 /\ Deliver(n, SubSeq(rx.input, 1, n))

\* With parity, one byte at a time.
ReadParity ==
  /\ Reading /\ dev.settings.parity
  /\ rx.input # << >> /\ Head(rx.input).byte # FF
  /\ Deliver(1, <<Head(rx.input)>>)

\* Mutant: the mark of a parity error is taken for a byte.
ReadMarkedTakes ==
  /\ Reading /\ dev.settings.parity
  /\ Len(rx.input) > 1 /\ rx.input[1].byte = FF
  /\ IF rx.input[2].byte = FF THEN ReadError(2) ELSE Deliver(2, <<rx.input[2]>>)

\* After an 0xff comes a NUL, for a parity error, or another 0xff, which is taken
\* for an error too.
ReadMarked ==
  /\ Reading /\ dev.settings.parity
  /\ Len(rx.input) > 1 /\ rx.input[1].byte = FF
  /\ IF rx.input[2].byte \in {FF, NUL} THEN ReadError(2)
                                       ELSE Deliver(2, <<rx.input[2]>>)

\* This read() has no timeout: an 0xff that is left alone blocks it where the
\* descriptor does, until the device is gone.
ReadAlone == ReadsAlone /\ (rx.gone \/ ~dev.blocking) /\ ReadError(1)

-----------------------------------------------------------------------------
(***************************************************************************)
(* The other end, and other programs.                                      *)
(***************************************************************************)

\* What the line discipline puts in the queue for a byte (tcsetattr, PARMRK).
Cooked(r) ==
  IF ~line.parity THEN <<r>>
  ELSE IF r.bad THEN <<Good(FF), Good(NUL), r>>
  ELSE IF r.byte = FF THEN <<r, r>> ELSE <<r>>

\* A byte comes.  It may be damaged on the way: on a line without parity that is
\* not noticed.
Arrive(b) ==
  /\ dev.fd /\ ~rx.gone /\ Len(rx.arrived) < MaxArrived
  /\ \E bad \in {FALSE, line.parity} :
       LET r == [byte |-> b, bad |-> bad]
       IN rx' = [rx EXCEPT !.input = @ \o Cooked(r), !.arrived = Append(@, r),
                           !.spoilt = @ \/ line # dev.settings]
  /\ UNCHANGED <<dev, line, lock, call>>

\* The device goes: from now on, select() returns at once and read() returns 0.
HangUp ==
  /\ dev.fd /\ ~rx.gone
  /\ rx' = [rx EXCEPT !.gone = TRUE]
  /\ UNCHANGED <<dev, line, lock, call>>

\* Another program takes the device, and sets the line as it likes.
OthersLock   == lock = "nobody" /\ lock' = "others" /\ UNCHANGED <<dev, line, call, rx>>
OthersUnlock == lock = "others" /\ lock' = "nobody" /\ line' \in Settings
                /\ UNCHANGED <<dev, call, rx>>

-----------------------------------------------------------------------------
\* A call that has begun goes on.
Proceed ==
  \/ Opened \/ OpenFails \/ Locked
  \/ SpeedChecked \/ SpeedFails
  \/ (\E n \in 1..call.left : Write(n)) \/ WriteFails
  \/ ReadTimeout \/ ReadNothing \/ ReadPlain \/ ReadParity \/ ReadMarked \/ ReadAlone
  \/ Finish

Application ==
  \/ CallOpen \/ Close \/ CloseFails
  \/ \E s \in Settings : SetSettings(s)
  \/ \E m \in Message : CallWrite(m)
  \/ \E n \in 1..MaxRead : CallRead(n)

Next == Proceed \/ Application \/ Interrupted \/ HangUp \/ OthersLock \/ OthersUnlock
          \/ \E b \in Byte : Arrive(b)

Spec == Init /\ [][Next]_vars

\* The calls are straight-line code with bounded waits (sleep, select), and the
\* kernel takes what is written; the application, the camera, other programs and
\* signals are free.
FairSpec == Spec /\ WF_vars(Proceed)

-----------------------------------------------------------------------------
(***************************************************************************)
(* Properties.                                                             *)
(***************************************************************************)

\* The device is open only under its lock, whatever other programs do between two
\* tries, through opening twice, and whichever of open() and close() fails
\* (gp_port_serial_open, which reads and writes call as well).
OpenUnderLock == dev.fd => lock = "we"

\* Where the line was at the settings when the bytes came, and until a read fails,
\* gp_port_serial_read delivers what the camera has sent, in order, and nothing that
\* was damaged where the line has parity.  (A descriptor lost by opening twice keeps
\* what it had received.)
DeliversWhatIsSent ==
  ~rx.spoilt /\ ~dev.lost
    => /\ IsPrefix(rx.delivered, rx.arrived)
       /\ \A i \in DOMAIN rx.delivered : ~rx.delivered[i].bad

\* "gp_port_read will wait timeout milliseconds for data": every call returns,
\* however the lock, the line and the camera behave - unless the device goes, and
\* read() has nothing for ever, or a read() that blocks waits without a timeout:
\* after a signal, or for the byte after an 0xff.
WaitsUntimed == dev.blocking /\ (ReadsAlone \/ (Nothing /\ call.at = "unguarded"))
CallReturns  == (call # Idle) ~> (call = Idle \/ rx.gone \/ WaitsUntimed)

-----------------------------------------------------------------------------
(***************************************************************************)
(* What comments in the code say, and TLC refutes (README, section 6).     *)
(***************************************************************************)

\* "Unlock the port": a closed port holds no lock.  Not so where the settings do
\* not name the port, and where open() fails.
ClosedIsUnlocked == call = Idle /\ ~dev.fd => lock # "we"

\* "Make sure we are operating at the specified speed": bytes move only while the
\* line has the settings that gp_port_set_settings has been given.  Not so after a
\* change of the parity alone, after a change that failed late, and after another
\* program has had the device, since pl->baudrate outlives gp_port_serial_close.
LineIsSet == call.at = "io" => line = dev.settings

\* "Make sure we write all data": what has gone out is what has been taken off the
\* message, in order.  Not so where write() takes a part, as it may on a port that
\* has been opened again at the same speed.
WritesTheMessage ==
  call.of = "write" /\ call.at = "io"
    => call.out = SubSeq(call.data, 1, Len(call.data) - call.left)
=============================================================================

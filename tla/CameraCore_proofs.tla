------------------------- MODULE CameraCore_proofs -------------------------
(***************************************************************************)
(* Proofs about the life of a Camera (gphoto2-camera.c), for any number of *)
(* timers, references and any width of the used counter.  The assumption   *)
(* Balanced excludes what TLC shows to break the count of calls: the error *)
(* exits that release the camera once too often, callbacks that change the *)
(* port, callbacks during a gp_camera_init of the application's own, and a *)
(* gp_camera_init of an open camera.                                       *)
(***************************************************************************)
EXTENDS CameraCore, TLAPS

\* The scope of the theorems.
Balanced == /\ MayFail \intersect {"usb_find", "port_info", "port_speed"} = {}
            /\ Callbacks \intersect {"port_info", "port_speed"} = {}
            /\ ~InitCallbacks
            /\ ~Reinit

\* The library, the driver's functions and the port's device come and go
\* together; the timers that run are those the camera knows, and there is a
\* driver for them.
Good(c) == /\ c.libs = IF c.lh THEN 1 ELSE 0
           /\ c.lh => c.alive /\ c.functions /\ c.open /\ c.ops
           /\ c.alive /\ c.type # "none" => c.ops
           /\ c.ticking = c.timeout_ids
           /\ c.ticking # {} => c.lh

\* A call of the application's that passed CHECK_INIT is counted, once;
\* gp_camera_init by itself is not, and has the camera to itself.
Counted == cam.used = IF call.phase = "idle" \/ call.kind = "init" THEN 0 ELSE 1

\* A dead camera has no call; an unreferenced one has a counted call.
Owned == /\ call.phase = "idle" <=> call = Idle
         /\ cam.alive \/ call = Idle
         /\ cam.alive /\ cam.ref_count = 0 => cam.used = 1
         /\ call.kind = "init" => /\ call.phase \in {"connect", "camera_init"}
                                  /\ ~cam.exit_requested

\* The driver is loaded from the end of gp_camera_init to the end of the call.
Loaded == /\ call.phase = "connect" => ~cam.lh
          /\ call.phase \notin {"idle", "connect"} => cam.lh
          /\ call.phase = "camera_init" => cam.ticking = {}

\* The inductive invariant.
IInv == TypeOK /\ Good(cam) /\ Counted /\ Owned /\ Loaded

-----------------------------------------------------------------------------
(***************************************************************************)
(* The operations on the camera.                                           *)
(***************************************************************************)

\* gp_camera_exit of a used camera only notes the request; of an unused one, it
\* leaves nothing open, loaded or ticking.
LEMMA ExitEffect ==
  ASSUME NEW c \in Camera, Good(c), NEW d, d = Exit(c)
  PROVE  /\ d \in Camera /\ Good(d)
         /\ d.alive = c.alive /\ d.used = c.used /\ d.ref_count = c.ref_count
         /\ c.used # 0 => d.lh = c.lh /\ d.ticking = c.ticking
         /\ c.used = 0 => /\ ~d.lh /\ ~d.open /\ d.libs = 0
                          /\ d.exit_requested = c.exit_requested
<1>1. CASE c.used # 0
  <2>1. d = [c EXCEPT !.exit_requested = TRUE]
    BY <1>1 DEF Exit
  <2> QED BY <1>1, <2>1 DEF Camera, Good
<1>2. CASE c.used = 0
  <2>1. d = [c EXCEPT !.ticking = @ \ c.timeout_ids, !.timeout_ids = {},
                      !.functions = FALSE, !.open = FALSE,
                      !.lh = FALSE, !.libs = IF c.lh THEN @ - 1 ELSE @]
    BY <1>2 DEF Exit
  <2>2. (IF c.lh THEN c.libs - 1 ELSE c.libs) = 0
    BY DEF Good
  <2>3. c.ticking \ c.timeout_ids = {}
    BY DEF Good
  <2>4. d = [c EXCEPT !.ticking = {}, !.timeout_ids = {},
                      !.functions = FALSE, !.open = FALSE,
                      !.lh = FALSE, !.libs = 0]
    BY <2>1, <2>2, <2>3 DEF Camera
  <2>5. d \in Camera
    <3> DEFINE b == [c EXCEPT !.ticking = {}, !.timeout_ids = {}, !.libs = 0]
    <3>1. b \in Camera
      BY DEF Camera
    <3>2. d = [b EXCEPT !.functions = FALSE, !.open = FALSE, !.lh = FALSE]
      BY <2>4 DEF Camera
    <3> HIDE DEF b
    <3> QED BY <3>1, <3>2 DEF Camera
  <2>6. /\ d.ticking = {} /\ d.timeout_ids = {} /\ d.libs = 0
        /\ d.lh = FALSE /\ d.open = FALSE
        /\ d.alive = c.alive /\ d.used = c.used /\ d.ref_count = c.ref_count
        /\ d.exit_requested = c.exit_requested
        /\ d.type = c.type /\ d.ops = c.ops
    BY <2>4 DEF Camera
  <2>7. Good(d)
    BY <2>6 DEF Good
  <2> QED BY <1>2, <2>5, <2>6, <2>7
<1> QED BY <1>1, <1>2

\* gp_camera_free of an unused camera leaves nothing behind.
LEMMA FreeEffect ==
  ASSUME NEW c \in Camera, Good(c), c.used = 0, NEW d, d = Free(c)
  PROVE  /\ d \in Camera /\ Good(d)
         /\ ~d.alive /\ d.used = 0 /\ ~d.lh /\ ~d.open /\ d.libs = 0
         /\ d.exit_requested = c.exit_requested
<1> DEFINE e == IF c.lh THEN Exit(c) ELSE c
<1>1. /\ e \in Camera /\ Good(e) /\ e.used = 0 /\ ~e.lh
      /\ e.exit_requested = c.exit_requested
  BY ExitEffect
<1>2. d = [e EXCEPT !.alive = FALSE, !.ops = FALSE, !.open = FALSE,
                    !.timeout_ids = {}, !.functions = FALSE]
  BY DEF Free
<1> HIDE DEF e
<1>3. d \in Camera
  BY <1>1, <1>2 DEF Camera
<1>4. /\ ~d.alive /\ d.timeout_ids = {} /\ ~d.open
      /\ d.used = e.used /\ d.lh = e.lh /\ d.libs = e.libs
      /\ d.ticking = e.ticking /\ d.exit_requested = e.exit_requested
  BY <1>1, <1>2 DEF Camera
<1> QED BY <1>1, <1>3, <1>4 DEF Good

\* CAMERA_UNUSED of a camera that one call has taken: it lives on if it is
\* referenced, and is closed if that was requested.
LEMMA UnusedEffect ==
  ASSUME NEW c \in Camera, Good(c), c.used = 1, c.alive, NEW d, d = Unused(c)
  PROVE  /\ d \in Camera /\ Good(d)
         /\ d.used = 0
         /\ d.alive => d.ref_count # 0
         /\ c.exit_requested => ~d.lh /\ ~d.open /\ d.libs = 0
<1> DEFINE b == [c EXCEPT !.used = (@ - 1) % UsedMod]
           e == IF b.exit_requested THEN Exit(b) ELSE b
<1>1. (1 - 1) % UsedMod = 0
  BY ConstAssumption
<1>2. /\ b \in Camera /\ Good(b) /\ b.used = 0 /\ b.alive
      /\ b.exit_requested = c.exit_requested /\ b.ref_count = c.ref_count
  BY <1>1, ConstAssumption DEF Camera, Good
<1>3. d = IF b.used # 0 THEN b ELSE IF e.ref_count = 0 THEN Free(e) ELSE e
  BY DEF Unused
<1> HIDE DEF b
<1>4. /\ e \in Camera /\ Good(e) /\ e.used = 0 /\ e.alive
      /\ b.exit_requested => ~e.lh /\ ~e.open /\ e.libs = 0
  BY <1>2, ExitEffect
<1> HIDE DEF e
<1> QED BY <1>2, <1>3, <1>4, FreeEffect

\* gp_camera_unref frees the camera only when it is not used.
LEMMA UnrefEffect ==
  ASSUME NEW c \in Camera, Good(c), c.ref_count > 0, NEW d, d = Unref(c)
  PROVE  /\ d \in Camera /\ Good(d) /\ d.used = c.used
         /\ d.alive /\ d.ref_count = 0 => c.used # 0
         /\ c.used # 0 => /\ d.alive = c.alive /\ d.lh = c.lh
                          /\ d.ticking = c.ticking
         /\ d.exit_requested = c.exit_requested
<1> DEFINE b == [c EXCEPT !.ref_count = @ - 1]
<1>1. b \in Camera /\ Good(b) /\ b.used = c.used /\ b.alive = c.alive /\ b.lh = c.lh
      /\ b.ticking = c.ticking /\ b.exit_requested = c.exit_requested
  BY ConstAssumption DEF Camera, Good
<1>2. d = IF b.ref_count = 0 /\ b.used = 0 THEN Free(b) ELSE b
  BY DEF Unref
<1> HIDE DEF b
<1> QED BY <1>1, <1>2, FreeEffect

\* Setting the port of a camera that is not open, or open and not used.
LEMMA SetPortEffect ==
  ASSUME NEW c \in Camera, Good(c), c.alive, c.used = 0 \/ ~c.lh,
         NEW t \in PortType, NEW d, d = SetPortInfo(c, t)
  PROVE  /\ d \in Camera /\ Good(d) /\ ~d.lh
         /\ d.alive /\ d.used = c.used /\ d.ref_count = c.ref_count
         /\ d.exit_requested = c.exit_requested
<1> DEFINE b == Terminate(c)
<1>1. /\ b \in Camera /\ Good(b) /\ ~b.lh /\ b.alive
      /\ b.used = c.used /\ b.ref_count = c.ref_count
      /\ b.exit_requested = c.exit_requested
  BY ExitEffect DEF Terminate
<1>2. d = [b EXCEPT !.type = t, !.open = FALSE, !.ops = TRUE]
  BY DEF SetPortInfo, SetPort
<1> HIDE DEF b
<1>3. d \in Camera
  BY <1>1, <1>2 DEF Camera
<1>4. /\ d.ops /\ d.lh = b.lh /\ d.libs = b.libs /\ d.ticking = b.ticking
      /\ d.timeout_ids = b.timeout_ids /\ d.alive = b.alive /\ d.used = b.used
      /\ d.ref_count = b.ref_count /\ d.exit_requested = b.exit_requested
  BY <1>1, <1>2 DEF Camera
<1> QED BY <1>1, <1>3, <1>4 DEF Good

\* The driver starts (T = {t}, added) or stops timers: the camera and the
\* application agree on what ticks.
LEMMA TimerChange ==
  ASSUME cam \in Camera, Good(cam), cam.lh, NEW T \in SUBSET Timer,
         cam' = [cam EXCEPT !.timeout_ids = T, !.ticking = T]
  PROVE  /\ cam' \in Camera /\ Good(cam') /\ cam'.lh /\ cam'.alive = cam.alive
         /\ cam'.used = cam.used /\ cam'.ref_count = cam.ref_count
         /\ cam'.exit_requested = cam.exit_requested
<1>1. cam' \in Camera
  BY DEF Camera
<1>2. /\ cam'.ticking = T /\ cam'.timeout_ids = T /\ cam'.lh = cam.lh
      /\ cam'.libs = cam.libs /\ cam'.functions = cam.functions
      /\ cam'.open = cam.open /\ cam'.ops = cam.ops /\ cam'.type = cam.type
      /\ cam'.alive = cam.alive /\ cam'.used = cam.used
      /\ cam'.ref_count = cam.ref_count /\ cam'.exit_requested = cam.exit_requested
  BY DEF Camera
<1>3. Good(cam')
  BY <1>2 DEF Good
<1> QED BY <1>1, <1>2, <1>3

\* Both sets of timers are one set T, so adding to both is setting both.
LEMMA StartEffect ==
  ASSUME NEW c \in Camera, Good(c), NEW t \in Timer
  PROVE  Start(c, t) = [c EXCEPT !.timeout_ids = c.ticking \union {t},
                                 !.ticking = c.ticking \union {t}]
BY DEF Start, Good, Camera

-----------------------------------------------------------------------------
(***************************************************************************)
(* Every step keeps the invariant, and a call that ends closes the camera  *)
(* if that was requested.                                                  *)
(***************************************************************************)

Honour == call # Idle /\ call' = Idle /\ cam.exit_requested
            => ~cam'.lh /\ ~cam'.open /\ cam'.libs = 0

Kept == IInv' /\ Honour

\* The parts of the invariant, as seen by a call that has begun.
LEMMA InCall ==
  ASSUME IInv, call.phase # "idle"
  PROVE  /\ cam \in Camera /\ Good(cam) /\ cam.alive
         /\ call \in [phase : Phase, kind : Kind] /\ host \in BOOLEAN
         /\ cam.used = IF call.kind = "init" THEN 0 ELSE 1
         /\ call.kind = "init" => /\ call.phase \in {"connect", "camera_init"}
                                  /\ ~cam.exit_requested
                                  /\ cam.ref_count # 0
BY DEF IInv, TypeOK, Counted, Owned, Idle

\* A counted call ends with CAMERA_UNUSED, whatever it did to the camera.
LEMMA UnusedKeeps1 ==
  ASSUME IInv, host' = host, call.phase # "idle", call.kind # "init",
         NEW c \in Camera, Good(c), c.used = 1, c.alive,
         c.exit_requested = cam.exit_requested, Ends(Unused(c))
  PROVE  Kept
<1>1. /\ cam' \in Camera /\ Good(cam') /\ cam'.used = 0
      /\ cam'.alive => cam'.ref_count # 0
      /\ c.exit_requested => ~cam'.lh /\ ~cam'.open /\ cam'.libs = 0
  BY UnusedEffect DEF Ends
<1>2. call' = Idle
  BY DEF Ends
<1>3. TypeOK'
  BY <1>1, <1>2 DEF IInv, TypeOK, Idle, Phase, Kind
<1>4. Counted' /\ Owned' /\ Loaded'
  BY <1>1, <1>2 DEF Counted, Owned, Loaded, Idle
<1> QED BY <1>1, <1>3, <1>4 DEF Kept, Honour, IInv

\* gp_camera_init returns an error, with the camera as it found it but for its
\* library and port.
LEMMA InitErrorKeeps ==
  ASSUME IInv, host' = host, call.phase \in {"connect", "camera_init"},
         NEW c \in Camera, Good(c), c.alive, c.used = cam.used,
         c.ref_count = cam.ref_count,
         c.exit_requested = cam.exit_requested, InitReturnsError(c)
  PROVE  Kept
<1>1. CASE call.kind # "init"
  BY <1>1, InCall, UnusedKeeps1 DEF InitReturnsError
<1>2. CASE call.kind = "init"
  <2>1. /\ cam' = c /\ call' = Idle /\ c.used = 0
        /\ c.ref_count # 0 /\ ~cam.exit_requested
    BY <1>2, InCall DEF InitReturnsError, Ends
  <2>2. TypeOK'
    BY <2>1 DEF IInv, TypeOK, Idle, Phase, Kind
  <2>3. Counted' /\ Owned' /\ Loaded' /\ Good(cam')
    BY <2>1 DEF Counted, Owned, Loaded, Idle
  <2> QED BY <2>1, <2>2, <2>3 DEF Kept, Honour, IInv
<1> QED BY <1>1, <1>2

\* A step that stays in the call and moves it to the phase p.
LEMMA PhaseKeeps ==
  ASSUME IInv, host' = host, call.phase # "idle",
         NEW p \in Phase, p # "idle", At(p),
         cam' \in Camera, Good(cam'), cam'.alive, cam'.used = cam.used,
         cam'.ref_count = cam.ref_count,
         cam'.exit_requested = cam.exit_requested,
         p = "connect" => ~cam'.lh, p # "connect" => cam'.lh,
         p = "camera_init" => cam'.ticking = {},
         call.kind = "init" => p \in {"connect", "camera_init"}
  PROVE  Kept
<1>1. call' = [phase |-> p, kind |-> call.kind] /\ call.kind \in Kind
  BY InCall DEF At
<1>2. call' # Idle
  BY <1>1 DEF Idle
<1>3. TypeOK'
  BY <1>1 DEF IInv, TypeOK
<1>4. Counted' /\ Owned' /\ Loaded'
  BY <1>1, <1>2, InCall DEF Counted, Owned, Loaded, IInv, Idle
<1> QED BY <1>2, <1>3, <1>4 DEF Kept, Honour, IInv

\* A step that leaves the call where it is: the application or the driver
\* changes the camera.
LEMMA CameraKeeps ==
  ASSUME IInv, host' = host, call' = call,
         cam' \in Camera, Good(cam'), cam'.used = cam.used,
         cam'.alive /\ cam'.ref_count = 0 => cam.used # 0,
         call # Idle => cam'.alive,
         call # Idle => cam'.lh = cam.lh,
         call.phase = "camera_init" => cam'.ticking = {},
         call.kind = "init" => cam'.exit_requested = cam.exit_requested
  PROVE  Kept
<1>1. TypeOK'
  BY DEF IInv, TypeOK
<1>2. Counted' /\ Owned' /\ Loaded'
  BY DEF IInv, Counted, Owned, Loaded, Idle
<1> QED BY <1>1, <1>2 DEF Kept, Honour, IInv

\* gp_camera_init.
LEMMA ConnectKeeps ==
  ASSUME Balanced, IInv, host' = host,
         \/ DetectNothing \/ DetectBadPort \/ Detect \/ NoPort \/ FindFails
         \/ LoadFails \/ OpenFails \/ Connect \/ DriverInitFails
         \/ DriverInitReturns
  PROVE  Kept
<1>0. call.phase = "connect" => ~cam.lh
  BY DEF IInv, Loaded
<1>1. CASE DetectNothing \/ NoPort
  BY <1>1, InCall, InitErrorKeeps DEF DetectNothing, NoPort
<1>2. CASE DetectBadPort \/ FindFails
  BY <1>2 DEF DetectBadPort, FindFails, Balanced
<1>3. CASE Detect
  <2> DEFINE c == [cam EXCEPT !.model = TRUE]
  <2>1. call.phase = "connect" /\ cam' = SetPortInfo(c, "usb") /\ call' = call
    BY <1>3 DEF Detect
  <2>2. /\ c \in Camera /\ Good(c) /\ c.alive /\ ~c.lh /\ c.used = cam.used
        /\ c.ref_count = cam.ref_count /\ c.exit_requested = cam.exit_requested
    BY <1>0, <2>1, InCall DEF Camera, Good
  <2> HIDE DEF c
  <2>3. /\ cam' \in Camera /\ Good(cam') /\ ~cam'.lh
        /\ cam'.alive /\ cam'.used = cam.used /\ cam'.ref_count = cam.ref_count
        /\ cam'.exit_requested = cam.exit_requested
    BY <2>1, <2>2, SetPortEffect DEF PortType
  <2>4. cam.ref_count = 0 => cam.used # 0
    BY <2>1, InCall DEF IInv, Owned
  <2> QED BY <1>0, <2>1, <2>3, <2>4, InCall, CameraKeeps DEF Camera, Good
<1>4. CASE LoadFails \/ OpenFails
  <2> DEFINE c == [cam EXCEPT !.lh = FALSE]
  <2>1. call.phase = "connect" /\ InitReturnsError(c)
    BY <1>4 DEF LoadFails, OpenFails
  <2>2. c = cam
    BY <1>0, <2>1, InCall DEF Camera
  <2> QED BY <2>1, <2>2, InCall, InitErrorKeeps
<1>5. CASE Connect
  <2>1. /\ call.phase = "connect" /\ At("camera_init") /\ cam.ops
        /\ cam' = [cam EXCEPT !.lh = TRUE, !.libs = @ + 1, !.open = TRUE,
                              !.functions = TRUE]
    BY <1>5 DEF Connect
  <2>2. cam' \in Camera
    <3> DEFINE n == cam.libs + 1
    <3>1. n \in Nat
      BY <2>1, InCall DEF Camera
    <3>2. cam' = [cam EXCEPT !.lh = TRUE, !.libs = n, !.open = TRUE,
                             !.functions = TRUE]
      BY <2>1, InCall DEF Camera
    <3> HIDE DEF n
    <3> QED BY <2>1, <3>1, <3>2, InCall DEF Camera
  <2>3. /\ cam'.lh /\ cam'.libs = cam.libs + 1 /\ cam'.open /\ cam'.functions
        /\ cam'.alive = cam.alive /\ cam'.used = cam.used
        /\ cam'.ref_count = cam.ref_count /\ cam'.ops = cam.ops
        /\ cam'.exit_requested = cam.exit_requested /\ cam'.type = cam.type
        /\ cam'.ticking = cam.ticking /\ cam'.timeout_ids = cam.timeout_ids
    BY <2>1, InCall DEF Camera
  <2>4. Good(cam')
    BY <1>0, <2>1, <2>3, InCall DEF Good, Camera
  <2>5. cam'.ticking = {}
    BY <1>0, <2>1, <2>3, InCall DEF Good
  <2> QED BY <2>1, <2>2, <2>3, <2>4, <2>5, InCall, PhaseKeeps DEF Phase
<1>6. CASE DriverInitFails
  <2> DEFINE c == [cam EXCEPT !.open = FALSE, !.libs = @ - 1, !.lh = FALSE,
                              !.functions = FALSE]
  <2>1. call.phase = "camera_init" /\ InitReturnsError(c)
    BY <1>6 DEF DriverInitFails
  <2>2. cam.lh /\ cam.libs = 1 /\ cam.ticking = {}
    BY <2>1 DEF IInv, Loaded, Good
  <2>3. c = [cam EXCEPT !.open = FALSE, !.libs = 0, !.lh = FALSE,
                        !.functions = FALSE]
    BY <2>1, <2>2, InCall DEF Camera
  <2> HIDE DEF c
  <2>4. c \in Camera
    <3> DEFINE n == 0
    <3>1. n \in Nat
      OBVIOUS
    <3>2. c = [cam EXCEPT !.open = FALSE, !.libs = n, !.lh = FALSE,
                          !.functions = FALSE]
      BY <2>3
    <3> HIDE DEF n
    <3> QED BY <2>1, <3>1, <3>2, InCall DEF Camera
  <2>5. /\ ~c.lh /\ c.libs = 0 /\ c.alive = cam.alive /\ c.used = cam.used
        /\ c.ref_count = cam.ref_count /\ c.ops = cam.ops /\ c.type = cam.type
        /\ c.exit_requested = cam.exit_requested
        /\ c.ticking = cam.ticking /\ c.timeout_ids = cam.timeout_ids
    BY <2>1, <2>3, InCall DEF Camera
  <2>6. Good(c)
    BY <2>1, <2>2, <2>5, InCall DEF Good
  <2> QED BY <2>1, <2>4, <2>5, <2>6, InCall, InitErrorKeeps
<1>7. CASE DriverInitReturns
  <2>1. /\ call.phase = "camera_init" /\ cam.lh /\ cam.ticking = {}
    BY <1>7 DEF DriverInitReturns, IInv, Loaded
  <2>2. cam' = cam \/ \E t \in Timer : cam' = Start(cam, t)
    BY <1>7 DEF DriverInitReturns
  <2> DEFINE Same == /\ cam' \in Camera /\ Good(cam') /\ cam'.lh /\ cam'.alive
                     /\ cam'.used = cam.used /\ cam'.ref_count = cam.ref_count
                     /\ cam'.exit_requested = cam.exit_requested
  <2>3. Same
    <3>1. CASE cam' = cam
      BY <2>1, <3>1, InCall
    <3>2. ASSUME NEW t \in Timer, cam' = Start(cam, t)
          PROVE  Same
      <4> DEFINE T == cam.ticking \union {t}
      <4>1. cam \in Camera /\ Good(cam) /\ cam.alive /\ T \in SUBSET Timer
        BY <2>1, InCall DEF Camera
      <4>2. cam' = [cam EXCEPT !.timeout_ids = T, !.ticking = T]
        BY <3>2, <4>1, StartEffect
      <4> HIDE DEF T
      <4> QED BY <2>1, <4>1, <4>2, TimerChange
    <3> QED BY <2>2, <3>1, <3>2
  <2>4. CASE call.kind # "init"
    BY <1>7, <2>1, <2>3, <2>4, InCall, PhaseKeeps
    DEF DriverInitReturns, At, Phase
  <2>5. CASE call.kind = "init"
    <3>1. call' = Idle /\ cam'.used = 0 /\ cam'.ref_count # 0
          /\ ~cam.exit_requested
      BY <1>7, <2>1, <2>3, <2>5, InCall DEF DriverInitReturns
    <3>2. TypeOK'
      BY <2>3, <3>1 DEF IInv, TypeOK, Idle, Phase, Kind
    <3>3. Counted' /\ Owned' /\ Loaded'
      BY <2>3, <3>1 DEF Counted, Owned, Loaded, Idle
    <3> QED BY <2>3, <3>1, <3>2, <3>3 DEF Kept, Honour, IInv
  <2> QED BY <2>4, <2>5
<1> QED BY <1>1, <1>2, <1>3, <1>4, <1>5, <1>6, <1>7

\* From CHECK_INIT to CAMERA_UNUSED.
LEMMA CallKeeps ==
  ASSUME Balanced, IInv, host' = host,
         \/ CallInit \/ \E k \in {"plain", "get_info"} : Begin(k)
         \/ PreFails \/ PreReturns \/ BodyReturns \/ PostReturns \/ NotSupported
         \/ PreviewBusy
  PROVE  Kept
<1>1. CASE CallInit
  <2> DEFINE c == [cam EXCEPT !.exit_requested = FALSE]
  <2>1. call = Idle /\ cam.alive /\ ~cam.lh /\ cam' = c
        /\ call' = [phase |-> "connect", kind |-> "init"]
    BY <1>1 DEF CallInit, Balanced
  <2>0. cam \in Camera /\ Good(cam) /\ cam.used = 0 /\ cam.ref_count # 0
    BY <2>1 DEF IInv, TypeOK, Counted, Owned, Idle
  <2>2. /\ cam' \in Camera /\ Good(cam') /\ ~cam'.lh /\ cam'.used = 0
        /\ cam'.ref_count # 0 /\ ~cam'.exit_requested /\ cam'.alive
    <3>1. cam' \in Camera
      BY <2>0, <2>1 DEF Camera
    <3>2. /\ cam'.lh = cam.lh /\ cam'.used = 0 /\ cam'.ref_count = cam.ref_count
          /\ ~cam'.exit_requested /\ cam'.alive /\ cam'.libs = cam.libs
          /\ cam'.type = cam.type /\ cam'.ops = cam.ops
          /\ cam'.ticking = cam.ticking /\ cam'.timeout_ids = cam.timeout_ids
      BY <2>0, <2>1 DEF Camera
    <3>3. Good(cam')
      BY <2>0, <2>1, <3>2 DEF Good
    <3> QED BY <2>0, <2>1, <3>1, <3>2, <3>3
  <2>3. TypeOK'
    BY <2>1, <2>2 DEF IInv, TypeOK, Phase, Kind
  <2>4. Counted' /\ Owned' /\ Loaded'
    BY <2>1, <2>2 DEF Counted, Owned, Loaded, Idle
  <2> QED BY <2>1, <2>2, <2>3, <2>4 DEF Kept, Honour, IInv
<1>2. ASSUME NEW k \in {"plain", "get_info"}, Begin(k)
      PROVE  Kept
  <2> DEFINE q == IF cam.lh THEN cam.exit_requested ELSE FALSE
  <2>0. cam \in Camera /\ Good(cam) /\ q \in BOOLEAN
    BY DEF IInv, TypeOK, Camera
  <2> HIDE DEF q
  <2>1. /\ call = Idle /\ cam.alive
        /\ cam' = [cam EXCEPT !.used = 1, !.exit_requested = q]
        /\ call' = [phase |-> IF cam.lh THEN "pre" ELSE "connect", kind |-> k]
    BY <1>2 DEF Begin, IInv, TypeOK, Camera, q
  <2>2. /\ cam' \in Camera /\ cam'.used = 1 /\ cam'.alive /\ cam'.lh = cam.lh
        /\ cam'.libs = cam.libs /\ cam'.functions = cam.functions
        /\ cam'.open = cam.open /\ cam'.ops = cam.ops /\ cam'.type = cam.type
        /\ cam'.ticking = cam.ticking /\ cam'.timeout_ids = cam.timeout_ids
    <3> DEFINE n == 1
    <3>1. n \in 0..UsedMod - 1
      BY ConstAssumption
    <3>2. cam' = [cam EXCEPT !.used = n, !.exit_requested = q]
      BY <2>1
    <3>3. n = 1
      OBVIOUS
    <3> HIDE DEF n
    <3>4. cam' \in Camera
      BY <2>0, <3>1, <3>2 DEF Camera
    <3> QED BY <2>0, <2>1, <3>2, <3>3, <3>4 DEF Camera
  <2>3. Good(cam')
    BY <2>0, <2>1, <2>2 DEF Good
  <2>4. TypeOK'
    BY <2>1, <2>2 DEF IInv, TypeOK, Phase, Kind
  <2>5. Counted' /\ Owned' /\ Loaded'
    BY <2>1, <2>2 DEF Counted, Owned, Loaded, Idle
  <2> QED BY <2>1, <2>3, <2>4, <2>5 DEF Kept, Honour, IInv
<1>3. CASE PreFails \/ PostReturns \/ PreviewBusy
  <2>1. /\ call.phase \in {"pre", "post", "preview"} /\ Ends(Unused(cam))
    BY <1>3 DEF PreFails, PostReturns, PreviewBusy
  <2>2. call.phase # "idle" /\ call.kind # "init"
    BY <2>1, InCall
  <2> QED BY <2>1, <2>2, InCall, UnusedKeeps1
<1>4. CASE PreReturns \/ BodyReturns \/ NotSupported
  <2>1. PICK p \in {"body", "post", "preview"} : At(p)
    BY <1>4 DEF PreReturns, BodyReturns, NotSupported
  <2>2. call.phase \in {"pre", "body", "post"} /\ cam' = cam
    BY <1>4 DEF PreReturns, BodyReturns, NotSupported
  <2>3. call.kind # "init" /\ cam.lh
    BY <2>2, InCall DEF IInv, Loaded
  <2> QED BY <2>1, <2>2, <2>3, InCall, PhaseKeeps DEF Phase
<1> QED BY <1>1, <1>2, <1>3, <1>4

\* The application's other calls, from outside or from a callback, and the
\* driver's timers.
LEMMA OthersKeep ==
  ASSUME Balanced, IInv, host' = host,
         \/ CallExit \/ CallRef \/ CallUnref \/ CallSetAbilities
         \/ \E t \in {"serial", "usb"} : CallSetPortInfo(t)
         \/ CallSetPortSpeed
         \/ \E t \in Timer : StartTimeout(t) \/ StopTimeout(t)
  PROVE  Kept
<1>0. /\ cam \in Camera /\ Good(cam)
      /\ cam.alive /\ cam.ref_count = 0 => cam.used # 0
      /\ call = Idle => cam.used = 0
      /\ call # Idle => call.phase # "idle"
      /\ call.phase = "camera_init" => cam.ticking = {}
      /\ Idle.kind # "init"
  BY DEF IInv, TypeOK, Owned, Counted, Loaded, Idle
\* A callback comes from a counted call; it cannot set the port.
<1>a. ASSUME NEW what \in Callback, MayCall(what), call # Idle
      PROVE  /\ cam.used # 0 /\ call.kind # "init" /\ cam.alive
             /\ what \notin {"port_info", "port_speed"}
  BY <1>0, <1>a, InCall DEF MayCall, InDriver, Balanced
<1>1. CASE CallExit
  <2>1. MayCall("exit") /\ cam' = Exit(cam) /\ call' = call
    BY <1>1 DEF CallExit
  <2>2. call # Idle => cam.used # 0 /\ call.kind # "init" /\ cam.alive
    BY <2>1, <1>a DEF Callback
  <2>3. /\ cam' \in Camera /\ Good(cam')
        /\ cam'.alive = cam.alive /\ cam'.used = cam.used
        /\ cam'.ref_count = cam.ref_count
        /\ cam.used # 0 => cam'.lh = cam.lh /\ cam'.ticking = cam.ticking
    BY <1>0, <2>1, ExitEffect
  <2> QED BY <1>0, <2>1, <2>2, <2>3, CameraKeeps DEF Idle
<1>2. CASE CallRef
  <2>1. /\ call' = call /\ cam.ref_count < MaxRef /\ cam.alive
        /\ cam' = [cam EXCEPT !.ref_count = @ + 1]
    BY <1>2 DEF CallRef, MayCall
  <2>2. /\ cam' \in Camera /\ Good(cam')
        /\ cam'.alive = cam.alive /\ cam'.used = cam.used
        /\ cam'.ref_count # 0 /\ cam'.lh = cam.lh
        /\ cam'.ticking = cam.ticking
        /\ cam'.exit_requested = cam.exit_requested
    <3> DEFINE n == cam.ref_count + 1
    <3>1. n \in 0..MaxRef /\ n # 0
      BY <1>0, <2>1, ConstAssumption DEF Camera
    <3>2. cam' = [cam EXCEPT !.ref_count = n]
      BY <1>0, <2>1 DEF Camera
    <3> HIDE DEF n
    <3>3. cam' \in Camera
      BY <1>0, <3>1, <3>2 DEF Camera
    <3>4. /\ cam'.alive = cam.alive /\ cam'.used = cam.used
          /\ cam'.ref_count = n /\ cam'.lh = cam.lh /\ cam'.libs = cam.libs
          /\ cam'.functions = cam.functions /\ cam'.open = cam.open
          /\ cam'.ops = cam.ops /\ cam'.type = cam.type
          /\ cam'.ticking = cam.ticking /\ cam'.timeout_ids = cam.timeout_ids
          /\ cam'.exit_requested = cam.exit_requested
      BY <1>0, <3>2 DEF Camera
    <3>5. Good(cam')
      BY <1>0, <3>4 DEF Good
    <3> QED BY <3>1, <3>3, <3>4, <3>5
  <2> QED BY <1>0, <2>1, <2>2, CameraKeeps
<1>3. CASE CallUnref
  <2>1. /\ MayCall("unref") /\ cam' = Unref(cam) /\ call' = call
        /\ cam.ref_count > 0
    BY <1>3 DEF CallUnref
  <2>2. call # Idle => cam.used # 0 /\ call.kind # "init" /\ cam.alive
    BY <2>1, <1>a DEF Callback
  <2>3. /\ cam' \in Camera /\ Good(cam') /\ cam'.used = cam.used
        /\ cam'.alive /\ cam'.ref_count = 0 => cam.used # 0
        /\ cam.used # 0 => /\ cam'.alive = cam.alive /\ cam'.lh = cam.lh
                           /\ cam'.ticking = cam.ticking
        /\ cam'.exit_requested = cam.exit_requested
    BY <1>0, <2>1, UnrefEffect
  <2> QED BY <1>0, <2>1, <2>2, <2>3, CameraKeeps DEF Idle
<1>4. CASE CallSetAbilities
  <2> DEFINE c == Terminate(cam)
  <2>1. /\ MayCall("abilities") /\ call' = call
        /\ cam' = [c EXCEPT !.model = TRUE]
    BY <1>4 DEF CallSetAbilities
  <2>2. call # Idle => cam.used # 0 /\ call.kind # "init" /\ cam.alive
    BY <2>1, <1>a DEF Callback
  <2>3. /\ c \in Camera /\ Good(c)
        /\ c.alive = cam.alive /\ c.used = cam.used
        /\ c.ref_count = cam.ref_count
        /\ cam.used # 0 => c.lh = cam.lh /\ c.ticking = cam.ticking
    BY <1>0, ExitEffect DEF Terminate
  <2> HIDE DEF c
  <2>4. /\ cam' \in Camera /\ Good(cam')
        /\ cam'.alive = c.alive /\ cam'.used = c.used
        /\ cam'.ref_count = c.ref_count
        /\ cam'.lh = c.lh /\ cam'.ticking = c.ticking
    BY <2>1, <2>3 DEF Camera, Good
  <2> QED BY <1>0, <2>1, <2>2, <2>3, <2>4, CameraKeeps DEF Idle
<1>5. ASSUME NEW t \in {"serial", "usb"}, CallSetPortInfo(t)
      PROVE  Kept
  <2>1. MayCall("port_info") /\ cam' = SetPortInfo(cam, t) /\ call' = call
    BY <1>5 DEF CallSetPortInfo, Balanced
  <2>2. call = Idle /\ cam.alive
    BY <2>1, <1>a DEF Callback, MayCall
  <2>3. /\ cam' \in Camera /\ Good(cam')
        /\ cam'.alive /\ cam'.used = cam.used /\ cam'.ref_count = cam.ref_count
    BY <1>0, <2>1, <2>2, SetPortEffect DEF PortType
  <2> QED BY <1>0, <2>1, <2>2, <2>3, CameraKeeps DEF Idle
<1>6. CASE CallSetPortSpeed
  <2>1. MayCall("port_speed") /\ call' = call /\ cam.type = "serial"
    BY <1>6 DEF CallSetPortSpeed
  <2>2. call = Idle /\ cam.alive
    BY <2>1, <1>a DEF Callback, MayCall
  <2>3. cam' = Terminate(cam)
    BY <1>0, <1>6, <2>1, <2>2 DEF CallSetPortSpeed, Balanced, Good
  <2>4. /\ cam' \in Camera /\ Good(cam')
        /\ cam'.alive = cam.alive /\ cam'.used = cam.used
        /\ cam'.ref_count = cam.ref_count
    BY <1>0, <2>3, ExitEffect DEF Terminate
  <2> QED BY <1>0, <2>1, <2>2, <2>4, CameraKeeps DEF Idle
<1>7. ASSUME NEW t \in Timer, StartTimeout(t) \/ StopTimeout(t)
      PROVE  Kept
  <2>1. call.phase = "body" /\ call' = call
    BY <1>7 DEF StartTimeout, StopTimeout
  <2>2. cam.lh /\ cam.alive /\ call.kind # "init"
    BY <2>1, InCall DEF IInv, Loaded
  <2>3. PICK T \in SUBSET Timer :
          cam' = [cam EXCEPT !.timeout_ids = T, !.ticking = T]
    <3>1. CASE StartTimeout(t)
      <4>1. cam.ticking \union {t} \in SUBSET Timer
        BY <1>0 DEF Camera
      <4> QED BY <1>0, <3>1, <4>1, StartEffect DEF StartTimeout
    <3>2. CASE StopTimeout(t)
      <4>1. cam.ticking \ {t} \in SUBSET Timer /\ cam.ticking = cam.timeout_ids
        BY <1>0 DEF Camera, Good
      <4> QED BY <1>0, <3>2, <4>1 DEF StopTimeout, Camera
    <3> QED BY <1>7, <3>1, <3>2
  <2>4. /\ cam' \in Camera /\ Good(cam') /\ cam'.lh /\ cam'.alive = cam.alive
        /\ cam'.used = cam.used /\ cam'.ref_count = cam.ref_count
        /\ cam'.exit_requested = cam.exit_requested
    BY <1>0, <2>2, <2>3, TimerChange
  <2> QED BY <1>0, <2>1, <2>2, <2>4, CameraKeeps
<1> QED BY <1>1, <1>2, <1>3, <1>4, <1>5, <1>6, <1>7

-----------------------------------------------------------------------------
(***************************************************************************)
(* The theorems.                                                           *)
(***************************************************************************)

LEMMA InitIInv == Init => IInv
<1> SUFFICES ASSUME Init PROVE IInv
  OBVIOUS
<1> USE DEF Init
<1>1. cam \in Camera
  <2> DEFINE n == 0
             m == 1
  <2>1. n \in 0..UsedMod - 1 /\ n \in Nat /\ m \in 0..MaxRef
    BY ConstAssumption
  <2>2. cam = [alive |-> TRUE, ref_count |-> m, used |-> n,
               exit_requested |-> FALSE, model |-> FALSE,
               lh |-> FALSE, libs |-> n, functions |-> FALSE,
               type |-> "none", ops |-> FALSE, open |-> FALSE,
               timeout_ids |-> {}, ticking |-> {}]
    OBVIOUS
  <2> HIDE DEF n, m, Init
  <2> QED BY <2>1, <2>2 DEF Camera, PortType
<1>2. TypeOK
  BY <1>1 DEF TypeOK, Idle, Phase, Kind
<1>3. Good(cam) /\ Counted /\ Owned /\ Loaded
  BY DEF Good, Counted, Owned, Loaded, Idle
<1> QED BY <1>2, <1>3 DEF IInv

LEMMA NextKeeps ==
  ASSUME Balanced, IInv, Next
  PROVE  Kept
BY ConnectKeeps, CallKeeps, OthersKeep DEF Next, Proceed, Application

LEMMA StutterKeeps ==
  ASSUME IInv, UNCHANGED vars
  PROVE  Kept
BY DEF vars, Kept, Honour, IInv, TypeOK, Good, Counted, Owned, Loaded

\* The invariant that the following theorems draw on.
THEOREM Invariance ==
  ASSUME Balanced
  PROVE  Spec => []IInv
<1>1. IInv /\ [Next]_vars => IInv'
  BY NextKeeps, StutterKeeps DEF Kept
<1> QED BY <1>1, InitIInv, PTL DEF Spec

\* Every field of the camera stays in its type: the unsigned char `used` and the
\* reference count do not wrap round.
THEOREM TypeCorrect ==
  ASSUME Balanced
  PROVE  Spec => []TypeOK
<1>1. IInv => TypeOK
  BY DEF IInv
<1> QED BY <1>1, Invariance, PTL

\* Every call is released as often as it was counted (CHECK_INIT, CR,
\* CAMERA_UNUSED in gphoto2-camera.c), as long as none of the failures happens
\* that release the camera twice; with them it is false (MCCameraCore_exit).
THEOREM CallsAreBalanced ==
  ASSUME Balanced
  PROVE  Spec => []IdleNotBusy
<1>1. IInv => IdleNotBusy
  BY DEF IInv, IdleNotBusy, Counted, Idle
<1> QED BY <1>1, Invariance, PTL

\* gp_camera_exit, gp_camera_unref and gp_camera_set_abilities, called back from
\* the driver, leave it loaded and its port open.
THEOREM DriverIsNotPulledAway ==
  ASSUME Balanced
  PROVE  Spec => []DriverKeepsFooting
<1>1. IInv => DriverKeepsFooting
  BY InCall DEF DriverKeepsFooting, InDriver, IInv, Loaded, Good
<1> QED BY <1>1, Invariance, PTL

\* Without references, a camera lives only as long as a call on it.
THEOREM UnreferencedIsFreed ==
  ASSUME Balanced
  PROVE  Spec => []FreedAtZero
<1>1. IInv => FreedAtZero
  BY DEF FreedAtZero, IInv, Counted, Owned, Idle
<1> QED BY <1>1, Invariance, PTL

\* A freed camera (gp_camera_free) leaves no timer and no library.
THEOREM FreeLeavesNothing ==
  ASSUME Balanced
  PROVE  Spec => []NothingLeftBehind
<1>1. IInv => NothingLeftBehind
  BY DEF NothingLeftBehind, IInv, Good
<1> QED BY <1>1, Invariance, PTL

\* No timer of the application outlives the driver it calls (gp_camera_exit).
THEOREM TimersNeverDangle ==
  ASSUME Balanced
  PROVE  Spec => []TimersHaveDriver
<1>1. IInv => TimersHaveDriver
  BY DEF TimersHaveDriver, IInv, Good
<1> QED BY <1>1, Invariance, PTL

\* A gp_camera_exit that was put off is done when the call ends.
THEOREM PostponedExitIsDone ==
  ASSUME Balanced
  PROVE  Spec => ExitIsHonoured
<1>1. IInv /\ [Next]_vars => Honour
  BY NextKeeps, StutterKeeps DEF Kept
<1>2. Honour => [call # Idle /\ call' = Idle /\ cam.exit_requested
                   => ~cam'.lh /\ ~cam'.open /\ cam'.libs = 0]_vars
  BY DEF Honour
<1> QED BY <1>1, <1>2, Invariance, PTL DEF Spec, ExitIsHonoured

-----------------------------------------------------------------------------
(***************************************************************************)
(* Outside Balanced the count of calls goes wrong, and with it the types   *)
(* of `used` and `ref_count`.  Two things hold all the same.               *)
(***************************************************************************)

\* A camera whose counters may be any numbers.
Loose ==
  [alive : BOOLEAN, ref_count : Int, used : Int, exit_requested : BOOLEAN,
   model : BOOLEAN, lh : BOOLEAN, libs : Int, functions : BOOLEAN,
   type : PortType, ops : BOOLEAN, open : BOOLEAN,
   timeout_ids : SUBSET Timer, ticking : SUBSET Timer]

Tidy(c) == c \in Loose /\ (c.alive => c.ticking = c.timeout_ids)

\* What is loaded can be unloaded once more, and its functions are there.
Mapped(c) == c.libs \in Nat /\ (c.lh => c.libs > 0 /\ c.functions /\ c.alive)

\* An operation that keeps both.
Keeps(c, d) == Tidy(d) /\ (Mapped(c) => Mapped(d))

LEMMA ExitTidy ==
  ASSUME NEW c, Tidy(c), NEW d, d = Exit(c)
  PROVE  /\ Keeps(c, d) /\ d.alive = c.alive /\ d.used = c.used
         /\ c.used = 0 => ~d.lh
<1>1. CASE c.used # 0
  <2>1. d = [c EXCEPT !.exit_requested = TRUE]
    BY <1>1 DEF Exit
  <2> QED BY <1>1, <2>1 DEF Tidy, Loose, Keeps, Mapped
<1>2. CASE c.used = 0
  <2> DEFINE t == c.ticking \ c.timeout_ids
             n == IF c.lh THEN c.libs - 1 ELSE c.libs
  <2>1. t \in SUBSET Timer /\ (c.alive => t = {})
    BY DEF Tidy, Loose
  <2>2. n \in Int /\ (Mapped(c) => n \in Nat)
    BY DEF Tidy, Loose, Mapped
  <2>3. d = [c EXCEPT !.ticking = t, !.timeout_ids = {},
                      !.functions = FALSE, !.open = FALSE,
                      !.lh = FALSE, !.libs = n]
    BY <1>2 DEF Exit, Tidy, Loose
  <2> HIDE DEF t, n
  <2>4. d \in Loose
    BY <2>1, <2>2, <2>3 DEF Tidy, Loose
  <2>5. /\ d.ticking = t /\ d.timeout_ids = {} /\ d.lh = FALSE /\ d.libs = n
        /\ d.alive = c.alive /\ d.used = c.used
    BY <2>3 DEF Tidy, Loose
  <2> QED BY <2>1, <2>2, <2>4, <2>5 DEF Tidy, Keeps, Mapped
<1> QED BY <1>1, <1>2

LEMMA FreeTidy ==
  ASSUME NEW c, Tidy(c), c.used = 0, NEW d, d = Free(c)
  PROVE  Keeps(c, d)
<1> DEFINE e == IF c.lh THEN Exit(c) ELSE c
<1>1. Keeps(c, e) /\ e.alive = c.alive /\ ~e.lh
  BY ExitTidy DEF Keeps, Tidy, Loose
<1>2. d = [e EXCEPT !.alive = FALSE, !.ops = FALSE, !.open = FALSE,
                    !.timeout_ids = {}, !.functions = FALSE]
  BY DEF Free
<1> HIDE DEF e
<1>3. d \in Loose /\ ~d.alive /\ d.lh = e.lh /\ d.libs = e.libs
  BY <1>1, <1>2 DEF Keeps, Tidy, Loose
<1> QED BY <1>1, <1>3 DEF Keeps, Tidy, Mapped

\* A change of the counters alone.
LEMMA CountTidy ==
  ASSUME NEW c, Tidy(c), NEW n \in Int, NEW m \in Int,
         NEW d, d = [c EXCEPT !.used = n, !.ref_count = m]
  PROVE  Keeps(c, d) /\ d.alive = c.alive /\ d.used = n /\ d.lh = c.lh
BY DEF Keeps, Tidy, Loose, Mapped

LEMMA UnusedTidy ==
  ASSUME NEW c, Tidy(c), NEW d, d = Unused(c)
  PROVE  Keeps(c, d)
<1> DEFINE n == (c.used - 1) % UsedMod
           b == [c EXCEPT !.used = (@ - 1) % UsedMod]
           e == IF b.exit_requested THEN Exit(b) ELSE b
<1>1. n \in Int /\ c.ref_count \in Int
  BY ConstAssumption DEF Tidy, Loose
<1>2. b = [c EXCEPT !.used = n, !.ref_count = c.ref_count]
  BY DEF Tidy, Loose
<1> HIDE DEF n
<1>3. Keeps(c, b)
  <2> HIDE DEF b
  <2> QED BY <1>1, <1>2, CountTidy
<1>4. d = IF b.used # 0 THEN b ELSE IF e.ref_count = 0 THEN Free(e) ELSE e
  BY DEF Unused
<1> HIDE DEF b
<1>5. Keeps(b, e) /\ e.used = b.used
  BY <1>3, ExitTidy DEF Keeps
<1> HIDE DEF e
<1>6. b.used = 0 => Keeps(e, Free(e))
  BY <1>5, FreeTidy DEF Keeps
<1> QED BY <1>3, <1>4, <1>5, <1>6 DEF Keeps

LEMMA UnrefTidy ==
  ASSUME NEW c, Tidy(c), NEW d, d = Unref(c)
  PROVE  Keeps(c, d)
<1> DEFINE m == c.ref_count - 1
           b == [c EXCEPT !.ref_count = @ - 1]
<1>1. m \in Int /\ c.used \in Int
  BY DEF Tidy, Loose
<1>2. b = [c EXCEPT !.used = c.used, !.ref_count = m]
  BY DEF Tidy, Loose
<1> HIDE DEF m
<1>3. Keeps(c, b)
  <2> HIDE DEF b
  <2> QED BY <1>1, <1>2, CountTidy
<1>4. d = IF b.ref_count = 0 /\ b.used = 0 THEN Free(b) ELSE b
  BY DEF Unref
<1> HIDE DEF b
<1>5. b.used = 0 => Keeps(b, Free(b))
  BY <1>3, FreeTidy DEF Keeps
<1> QED BY <1>3, <1>4, <1>5 DEF Keeps

LEMMA TerminateTidy ==
  ASSUME NEW c, Tidy(c)
  PROVE  Keeps(c, Terminate(c)) /\ Terminate(c).alive = c.alive
BY ExitTidy DEF Terminate, Keeps

LEMMA SetPortTidy ==
  ASSUME NEW c, Tidy(c), NEW t \in PortType
  PROVE  /\ Keeps(c, SetPortInfo(c, t)) /\ SetPortInfo(c, t).alive = c.alive
         /\ Keeps(c, SetPortInfoFails(c, t))
<1> DEFINE b == Terminate(c)
<1>1. Keeps(c, b) /\ b.alive = c.alive
  BY TerminateTidy
<1> HIDE DEF b
<1>2. ASSUME NEW loaded \in BOOLEAN
      PROVE  Keeps(b, SetPort(b, t, loaded)) /\ SetPort(b, t, loaded).alive = b.alive
  BY <1>1 DEF Keeps, Tidy, Loose, Mapped, SetPort
<1>3. Keeps(c, SetPort(b, t, TRUE)) /\ SetPort(b, t, TRUE).alive = c.alive
  BY <1>1, <1>2 DEF Keeps
<1>4. Keeps(c, SetPort(b, t, FALSE))
  BY <1>1, <1>2 DEF Keeps
<1>5. Keeps(c, Unused(SetPort(b, t, FALSE)))
  BY <1>4, UnusedTidy DEF Keeps
<1> QED BY <1>3, <1>5 DEF SetPortInfo, SetPortInfoFails, b

\* An error of gp_camera_init that leaves the camera as c.
LEMMA ReturnTidy ==
  ASSUME NEW c, Tidy(c), InitReturnsError(c)
  PROVE  Keeps(c, cam') /\ call' = Idle
<1>1. cam' = c \/ cam' = Unused(c)
  BY DEF InitReturnsError, Ends
<1>2. Keeps(c, c)
  BY DEF Keeps
<1> QED BY <1>1, <1>2, UnusedTidy DEF InitReturnsError, Ends

\* A change of neither the counters nor the timers nor the library.
LEMMA ModelTidy ==
  ASSUME NEW c, Tidy(c), NEW d, d = [c EXCEPT !.model = TRUE]
  PROVE  Keeps(c, d) /\ d.alive = c.alive
BY DEF Keeps, Tidy, Loose, Mapped

\* A handle that is lost, or was not there.
LEMMA LostTidy ==
  ASSUME NEW c, Tidy(c), NEW d, d = [c EXCEPT !.lh = FALSE]
  PROVE  Keeps(c, d)
BY DEF Keeps, Tidy, Loose, Mapped

\* gp_camera_start_timeout and gp_camera_stop_timeout change both sets alike.
LEMMA TimerTidy ==
  ASSUME NEW c, Tidy(c), NEW t \in Timer
  PROVE  /\ Keeps(c, Start(c, t)) /\ Start(c, t).alive = c.alive
         /\ Start(c, t).lh = c.lh
         /\ \A d : d = [c EXCEPT !.timeout_ids = @ \ {t}, !.ticking = @ \ {t}]
                     => Keeps(c, d) /\ d.alive = c.alive /\ d.lh = c.lh
<1>1. ASSUME NEW T \in SUBSET Timer, NEW U \in SUBSET Timer, c.alive => T = U,
             NEW d, d = [c EXCEPT !.timeout_ids = T, !.ticking = U]
      PROVE  Keeps(c, d) /\ d.alive = c.alive /\ d.lh = c.lh
  <2>1. d \in Loose
    BY <1>1 DEF Tidy, Loose
  <2>2. /\ d.timeout_ids = T /\ d.ticking = U /\ d.alive = c.alive /\ d.lh = c.lh
        /\ d.libs = c.libs /\ d.functions = c.functions
    BY <1>1 DEF Tidy, Loose
  <2> QED BY <1>1, <2>1, <2>2 DEF Keeps, Tidy, Mapped
<1>2. /\ c.timeout_ids \in SUBSET Timer /\ c.ticking \in SUBSET Timer
      /\ c.alive => c.timeout_ids = c.ticking
  BY DEF Tidy, Loose
<1>3. Start(c, t) = [c EXCEPT !.timeout_ids = c.timeout_ids \union {t},
                              !.ticking = c.ticking \union {t}]
  BY DEF Start, Tidy, Loose
<1>4. /\ Keeps(c, Start(c, t)) /\ Start(c, t).alive = c.alive
      /\ Start(c, t).lh = c.lh
  <2>1. /\ c.timeout_ids \union {t} \in SUBSET Timer
        /\ c.ticking \union {t} \in SUBSET Timer
        /\ c.alive => c.timeout_ids \union {t} = c.ticking \union {t}
    BY <1>2
  <2> DEFINE T == c.timeout_ids \union {t}
             U == c.ticking \union {t}
             d == Start(c, t)
  <2>2. /\ T \in SUBSET Timer /\ U \in SUBSET Timer /\ (c.alive => T = U)
        /\ d = [c EXCEPT !.timeout_ids = T, !.ticking = U]
    BY <1>3, <2>1
  <2> HIDE DEF T, U, d
  <2>3. Keeps(c, d) /\ d.alive = c.alive /\ d.lh = c.lh
    BY <1>1, <2>2
  <2> QED BY <2>3 DEF d
<1>5. ASSUME NEW d,
             d = [c EXCEPT !.timeout_ids = @ \ {t}, !.ticking = @ \ {t}]
      PROVE  Keeps(c, d) /\ d.alive = c.alive /\ d.lh = c.lh
  <2>1. /\ c.timeout_ids \ {t} \in SUBSET Timer
        /\ c.ticking \ {t} \in SUBSET Timer
        /\ c.alive => c.timeout_ids \ {t} = c.ticking \ {t}
    BY <1>2
  <2> DEFINE T == c.timeout_ids \ {t}
             U == c.ticking \ {t}
  <2>2. /\ T \in SUBSET Timer /\ U \in SUBSET Timer /\ (c.alive => T = U)
        /\ d = [c EXCEPT !.timeout_ids = T, !.ticking = U]
    BY <1>5, <2>1 DEF Tidy, Loose
  <2> HIDE DEF T, U
  <2> QED BY <1>1, <2>2
<1> QED BY <1>4, <1>5

\* gp_camera_init, the driver loaded or not.
LEMMA InitTidy ==
  ASSUME Tidy(cam),
         \/ DetectNothing \/ DetectBadPort \/ Detect \/ NoPort \/ FindFails
         \/ LoadFails \/ OpenFails \/ DriverInitReturns
  PROVE  Keeps(cam, cam')
<1>1. CASE DetectNothing \/ NoPort
  BY <1>1, ReturnTidy DEF DetectNothing, NoPort
<1>2. CASE DetectBadPort
  <2> DEFINE b == [cam EXCEPT !.model = TRUE]
             c == SetPortInfoFails(b, "usb")
  <2>1. InitReturnsError(Unused(c))
    BY <1>2 DEF DetectBadPort, ReleasedByInit
  <2>2. Keeps(cam, b)
    BY ModelTidy
  <2> HIDE DEF b
  <2>3. Keeps(b, c)
    BY <2>2, SetPortTidy DEF Keeps, PortType
  <2> HIDE DEF c
  <2>4. Keeps(c, Unused(c))
    BY <2>3, UnusedTidy DEF Keeps
  <2>5. Keeps(Unused(c), cam')
    BY <2>1, <2>4, ReturnTidy DEF Keeps
  <2> QED BY <2>2, <2>3, <2>4, <2>5 DEF Keeps
<1>3. CASE Detect
  <2> DEFINE b == [cam EXCEPT !.model = TRUE]
  <2>1. cam' = SetPortInfo(b, "usb")
    BY <1>3 DEF Detect
  <2>2. Keeps(cam, b)
    BY ModelTidy
  <2> HIDE DEF b
  <2>3. Keeps(b, cam')
    BY <2>1, <2>2, SetPortTidy DEF Keeps, PortType
  <2> QED BY <2>2, <2>3 DEF Keeps
<1>4. CASE FindFails
  <2>1. Keeps(cam, Unused(cam)) /\ InitReturnsError(Unused(cam))
    BY <1>4, UnusedTidy DEF FindFails, ReleasedByInit
  <2>2. Keeps(Unused(cam), cam')
    BY <2>1, ReturnTidy DEF Keeps
  <2> QED BY <2>1, <2>2 DEF Keeps
<1>5. CASE LoadFails \/ OpenFails
  <2> DEFINE c == [cam EXCEPT !.lh = FALSE]
  <2>1. Keeps(cam, c) /\ InitReturnsError(c)
    BY <1>5, LostTidy DEF LoadFails, OpenFails
  <2> HIDE DEF c
  <2>2. Keeps(c, cam')
    BY <2>1, ReturnTidy DEF Keeps
  <2> QED BY <2>1, <2>2 DEF Keeps
<1>6. CASE DriverInitReturns
  <2>1. Keeps(cam, cam)
    BY DEF Keeps
  <2> QED BY <1>6, <2>1, TimerTidy DEF DriverInitReturns
<1> QED BY <1>1, <1>2, <1>3, <1>4, <1>5, <1>6

\* The driver is loaded: from here on its library is mapped once more.
LEMMA ConnectTidy ==
  ASSUME Tidy(cam), Connect
  PROVE  Tidy(cam') /\ cam'.lh /\ cam'.alive = cam.alive
         /\ (Mapped(cam) /\ cam.alive => Mapped(cam'))
<1> DEFINE n == cam.libs + 1
<1>1. n \in Int /\ (Mapped(cam) => n \in Nat /\ n > 0)
  BY DEF Tidy, Loose, Mapped
<1>2. cam' = [cam EXCEPT !.lh = TRUE, !.libs = n, !.open = TRUE,
                         !.functions = TRUE]
  BY DEF Connect, Tidy, Loose
<1> HIDE DEF n
<1>3. /\ cam' \in Loose /\ cam'.lh /\ cam'.libs = n /\ cam'.functions
      /\ cam'.alive = cam.alive /\ cam'.ticking = cam.ticking
      /\ cam'.timeout_ids = cam.timeout_ids
  BY <1>1, <1>2 DEF Tidy, Loose
<1> QED BY <1>1, <1>3 DEF Tidy, Mapped

\* The driver's camera_init fails: its library is unloaded, if it was loaded.
LEMMA DriverInitFailsTidy ==
  ASSUME Tidy(cam), DriverInitFails
  PROVE  Tidy(cam') /\ call' = Idle
         /\ (Mapped(cam) /\ cam.lh => Mapped(cam'))
<1> DEFINE n == cam.libs - 1
           c == [cam EXCEPT !.open = FALSE, !.libs = @ - 1, !.lh = FALSE,
                            !.functions = FALSE]
<1>1. n \in Int /\ (Mapped(cam) /\ cam.lh => n \in Nat)
  BY DEF Tidy, Loose, Mapped
<1>2. InitReturnsError(c)
  BY DEF DriverInitFails
<1>3. c = [cam EXCEPT !.open = FALSE, !.libs = n, !.lh = FALSE,
                      !.functions = FALSE]
  BY DEF Tidy, Loose
<1> HIDE DEF n, c
<1>4. /\ c \in Loose /\ ~c.lh /\ c.libs = n /\ c.alive = cam.alive
      /\ c.ticking = cam.ticking /\ c.timeout_ids = cam.timeout_ids
  BY <1>1, <1>3 DEF Tidy, Loose
<1>5. Tidy(c) /\ (Mapped(cam) /\ cam.lh => Mapped(c))
  BY <1>1, <1>4 DEF Tidy, Mapped
<1> QED BY <1>2, <1>5, ReturnTidy DEF Keeps

\* A call that begins, goes on or ends.
LEMMA CallTidy ==
  ASSUME Tidy(cam),
         \/ CallInit \/ \E k \in {"plain", "get_info"} : Begin(k)
         \/ PreFails \/ PreReturns \/ BodyReturns \/ PostReturns
         \/ NotSupported \/ PreviewBusy
         \/ \E t \in Timer : StartTimeout(t) \/ StopTimeout(t)
  PROVE  Keeps(cam, cam')
<1>1. CASE PreReturns \/ BodyReturns \/ NotSupported
  BY <1>1 DEF PreReturns, BodyReturns, NotSupported, Keeps
<1>2. CASE PreFails \/ PostReturns \/ PreviewBusy
  BY <1>2, UnusedTidy DEF PreFails, PostReturns, PreviewBusy, Ends
<1>3. CASE CallInit
  BY <1>3 DEF CallInit, Keeps, Tidy, Loose, Mapped
<1>4. ASSUME NEW k \in {"plain", "get_info"}, Begin(k)
      PROVE  Keeps(cam, cam')
  <2> DEFINE x == IF cam.lh THEN cam.exit_requested ELSE FALSE
             u == 1
  <2>1. x \in BOOLEAN /\ u \in Int
    <3>1. cam.exit_requested \in BOOLEAN
      BY DEF Tidy, Loose
    <3>2. x \in BOOLEAN
      BY <3>1, Zenon
    <3>3. u \in Int
      OBVIOUS
    <3> QED BY <3>2, <3>3
  <2>2. cam' = [cam EXCEPT !.used = u, !.exit_requested = x]
    BY <1>4 DEF Begin, Tidy, Loose
  <2> HIDE DEF x, u
  <2> QED BY <2>1, <2>2 DEF Keeps, Tidy, Loose, Mapped
<1>5. ASSUME NEW t \in Timer, StartTimeout(t) \/ StopTimeout(t)
      PROVE  Keeps(cam, cam')
  BY <1>5, TimerTidy DEF StartTimeout, StopTimeout
<1> QED BY <1>1, <1>2, <1>3, <1>4, <1>5

\* What the application does between two calls, or in the middle of one.
LEMMA ApplicationTidy ==
  ASSUME Tidy(cam),
         \/ CallExit \/ CallRef \/ CallUnref \/ CallSetAbilities
         \/ \E t \in {"serial", "usb"} : CallSetPortInfo(t)
         \/ CallSetPortSpeed
  PROVE  Keeps(cam, cam')
<1>1. CASE CallExit
  BY <1>1, ExitTidy DEF CallExit
<1>2. CASE CallRef
  <2> DEFINE m == cam.ref_count + 1
  <2>1. m \in Int /\ cam.used \in Int
    BY DEF Tidy, Loose
  <2>2. cam' = [cam EXCEPT !.used = cam.used, !.ref_count = m]
    BY <1>2 DEF CallRef, Tidy, Loose
  <2> HIDE DEF m
  <2> QED BY <2>1, <2>2, CountTidy
<1>3. CASE CallUnref
  BY <1>3, UnrefTidy DEF CallUnref
<1>4. CASE CallSetAbilities
  <2> DEFINE b == Terminate(cam)
  <2>1. Keeps(cam, b) /\ cam' = [b EXCEPT !.model = TRUE]
    BY <1>4, TerminateTidy DEF CallSetAbilities
  <2> HIDE DEF b
  <2>2. Keeps(b, cam')
    BY <2>1, ModelTidy DEF Keeps
  <2> QED BY <2>1, <2>2 DEF Keeps
<1>5. CASE \E t \in {"serial", "usb"} : CallSetPortInfo(t)
  BY <1>5, SetPortTidy DEF CallSetPortInfo, PortType
<1>6. CASE CallSetPortSpeed
  <2>1. Keeps(cam, Terminate(cam))
    BY TerminateTidy
  <2>2. Keeps(Terminate(cam), Unused(Terminate(cam)))
    BY <2>1, UnusedTidy DEF Keeps
  <2> QED BY <1>6, <2>1, <2>2 DEF CallSetPortSpeed, Keeps
<1> QED BY <1>1, <1>2, <1>3, <1>4, <1>5, <1>6

LEMMA InitialTidy ==
  ASSUME Init
  PROVE  Tidy(cam) /\ Mapped(cam) /\ call = Idle
BY DEF Init, Tidy, Loose, Mapped, PortType

\* A step of the camera, of whatever kind.
LEMMA StepTidy ==
  ASSUME Tidy(cam), [Next]_vars
  PROVE  /\ Tidy(cam')
         /\ Connect \/ DriverInitFails \/ (Mapped(cam) => Mapped(cam'))
<1>1. CASE Connect
  BY <1>1, ConnectTidy
<1>2. CASE DriverInitFails
  BY <1>2, DriverInitFailsTidy
<1>3. CASE Proceed /\ ~Connect /\ ~DriverInitFails
  BY <1>3, InitTidy, CallTidy DEF Proceed, Keeps
<1>4. CASE Application
  BY <1>4, CallTidy, ApplicationTidy DEF Application, Keeps
<1>5. CASE \E t \in Timer : StartTimeout(t) \/ StopTimeout(t)
  BY <1>5, CallTidy DEF Keeps
<1>6. CASE UNCHANGED vars
  BY <1>6 DEF vars
<1> QED BY <1>1, <1>2, <1>3, <1>4, <1>5, <1>6 DEF Next

\* Whatever fails, whatever the application does in its callbacks and however
\* often it initialises the camera: the timers that the application runs are
\* those that gp_camera_start_timeout has remembered and gp_camera_exit will
\* stop, even where the count of calls has gone wrong.
THEOREM TimersKnown == Spec => []TimersRemembered
<1>1. Init => Tidy(cam)
  BY InitialTidy
<1>2. Tidy(cam) /\ [Next]_vars => Tidy(cam)'
  BY StepTidy
<1>3. Tidy(cam) => TimersRemembered
  BY DEF Tidy, TimersRemembered
<1> QED BY <1>1, <1>2, <1>3, PTL DEF Spec

\* A call that has begun has a living camera, and from its driver's camera_init
\* on it has the driver's handle.
Steady == /\ call \in [phase : Phase, kind : Kind]
          /\ call.phase = "idle" => call = Idle
          /\ call # Idle => cam.alive
          /\ InDriver => cam.lh

Held == Tidy(cam) /\ Mapped(cam) /\ Steady

\* What stays true of the call when it goes on and the camera keeps its driver.
LEMMA SteadyGoesOn ==
  ASSUME Steady, call # Idle, NEW p \in Phase \ {"idle"}, At(p),
         cam'.alive, p \in {"camera_init", "pre", "body", "post"} => cam'.lh
  PROVE  Steady'
<1>1. call' = [phase |-> p, kind |-> call.kind] /\ call.kind \in Kind
  BY DEF At, Steady
<1> QED BY <1>1 DEF Steady, InDriver

LEMMA SteadyEnds ==
  ASSUME call' = Idle
  PROVE  Steady'
BY DEF Steady, Idle, InDriver, Phase, Kind

LEMMA InitiallyHeld == Init => Held
<1> SUFFICES ASSUME Init PROVE Held
  OBVIOUS
<1> QED BY InitialTidy DEF Held, Steady, Idle, InDriver, Phase, Kind

\* gp_camera_init.
LEMMA InitHolds ==
  ASSUME Held,
         \/ DetectNothing \/ DetectBadPort \/ Detect \/ NoPort \/ FindFails
         \/ LoadFails \/ OpenFails \/ Connect \/ DriverInitFails
         \/ DriverInitReturns
  PROVE  Held'
<1>1. Tidy(cam) /\ Mapped(cam) /\ Steady
  BY DEF Held
<1>2. CASE DetectNothing \/ DetectBadPort \/ NoPort \/ FindFails \/ LoadFails
           \/ OpenFails
  <2>1. call' = Idle
    BY <1>2 DEF DetectNothing, DetectBadPort, NoPort, FindFails, LoadFails,
                OpenFails, InitReturnsError, Ends
  <2> QED BY <1>1, <1>2, <2>1, InitTidy, SteadyEnds DEF Held, Keeps
<1>3. CASE Detect
  <2> DEFINE b == [cam EXCEPT !.model = TRUE]
  <2>1. Tidy(b) /\ b.alive = cam.alive
    BY <1>1, ModelTidy DEF Keeps
  <2>2. cam' = SetPortInfo(b, "usb") /\ call' = call /\ call.phase = "connect"
    BY <1>3 DEF Detect
  <2> HIDE DEF b
  <2>3. cam'.alive = cam.alive
    BY <2>1, <2>2, SetPortTidy DEF PortType
  <2>4. Steady'
    BY <1>1, <2>2, <2>3 DEF Steady, InDriver
  <2> QED BY <1>1, <1>3, <2>4, InitTidy DEF Held, Keeps
<1>4. CASE Connect
  <2>1. call # Idle /\ At("camera_init") /\ cam.alive
    BY <1>1, <1>4 DEF Connect, Idle, Steady
  <2>2. Steady'
    BY <1>1, <1>4, <2>1, ConnectTidy, SteadyGoesOn DEF Phase
  <2> QED BY <1>1, <1>4, <2>1, <2>2, ConnectTidy DEF Held
<1>5. CASE DriverInitFails
  <2>1. cam.lh
    BY <1>1, <1>5 DEF DriverInitFails, Steady, InDriver
  <2> QED BY <1>1, <1>5, <2>1, DriverInitFailsTidy, SteadyEnds DEF Held
<1>6. CASE DriverInitReturns
  <2>1. cam.lh /\ cam.alive /\ call # Idle
    BY <1>1, <1>6 DEF DriverInitReturns, Steady, InDriver, Idle
  <2>2. cam'.lh /\ cam'.alive
    <3>1. cam' = cam \/ \E t \in Timer : cam' = Start(cam, t)
      BY <1>6 DEF DriverInitReturns
    <3>2. ASSUME NEW t \in Timer
          PROVE  Start(cam, t).lh /\ Start(cam, t).alive
      BY <1>1, <2>1, TimerTidy
    <3> QED BY <2>1, <3>1, <3>2
  <2>3. call' = Idle \/ At("pre")
    BY <1>6 DEF DriverInitReturns, At
  <2>4. Steady'
    BY <1>1, <2>1, <2>2, <2>3, SteadyGoesOn, SteadyEnds DEF Phase
  <2> QED BY <1>1, <1>6, <2>4, InitTidy DEF Held, Keeps
<1> QED BY <1>2, <1>3, <1>4, <1>5, <1>6

\* A call that begins, goes on or ends.
LEMMA CallHolds ==
  ASSUME Held,
         \/ CallInit \/ \E k \in {"plain", "get_info"} : Begin(k)
         \/ PreFails \/ PreReturns \/ BodyReturns \/ PostReturns
         \/ NotSupported \/ PreviewBusy
         \/ \E t \in Timer : StartTimeout(t) \/ StopTimeout(t)
  PROVE  Held'
<1>1. Tidy(cam) /\ Mapped(cam) /\ Steady
  BY DEF Held
<1>2. Tidy(cam') /\ Mapped(cam')
  BY <1>1, CallTidy DEF Keeps
<1>3. CASE PreFails \/ PostReturns \/ PreviewBusy
  BY <1>2, <1>3, SteadyEnds DEF PreFails, PostReturns, PreviewBusy, Ends, Held
<1>4. CASE PreReturns \/ BodyReturns \/ NotSupported
  <2>1. call # Idle /\ cam' = cam /\ cam.alive /\ cam.lh
    BY <1>1, <1>4 DEF PreReturns, BodyReturns, NotSupported, Steady, InDriver, Idle
  <2>2. \E p \in Phase \ {"idle"} : At(p)
    BY <1>4 DEF PreReturns, BodyReturns, NotSupported, Phase
  <2> QED BY <1>1, <1>2, <2>1, <2>2, SteadyGoesOn DEF Held
<1>5. CASE CallInit
  <2>1. cam'.alive /\ call' = [phase |-> "connect", kind |-> "init"]
    BY <1>1, <1>5 DEF CallInit, Tidy, Loose
  <2>2. Steady'
    BY <2>1 DEF Steady, InDriver, Phase, Kind
  <2> QED BY <1>2, <2>2 DEF Held
<1>6. ASSUME NEW k \in {"plain", "get_info"}, Begin(k)
      PROVE  Held'
  <2> DEFINE x == IF cam.lh THEN cam.exit_requested ELSE FALSE
  <2>1. cam' = [cam EXCEPT !.used = 1, !.exit_requested = x] /\ cam.alive
    BY <1>1, <1>6 DEF Begin, Tidy, Loose
  <2> HIDE DEF x
  <2>2. cam'.alive /\ cam'.lh = cam.lh
    BY <1>1, <2>1 DEF Tidy, Loose
  <2>3. /\ call' = [phase |-> IF cam.lh THEN "pre" ELSE "connect", kind |-> k]
        /\ cam.lh \in BOOLEAN
    BY <1>1, <1>6 DEF Begin, Tidy, Loose
  <2>4. Steady'
    BY <2>2, <2>3 DEF Steady, InDriver, Phase, Kind
  <2> QED BY <1>2, <2>4 DEF Held
<1>7. ASSUME NEW t \in Timer, StartTimeout(t) \/ StopTimeout(t)
      PROVE  Held'
  <2>1. cam'.alive = cam.alive /\ cam'.lh = cam.lh /\ call' = call
    <3>1. CASE StartTimeout(t)
      <4>1. cam' = Start(cam, t) /\ call' = call
        BY <3>1 DEF StartTimeout
      <4> QED BY <1>1, <4>1, TimerTidy
    <3>2. CASE StopTimeout(t)
      <4>1. /\ cam' = [cam EXCEPT !.timeout_ids = @ \ {t}, !.ticking = @ \ {t}]
            /\ call' = call
        BY <3>2 DEF StopTimeout
      <4> QED BY <1>1, <4>1 DEF Tidy, Loose
    <3> QED BY <1>7, <3>1, <3>2
  <2>2. Steady'
    BY <1>1, <2>1 DEF Steady, InDriver
  <2> QED BY <1>2, <2>2 DEF Held
<1> QED BY <1>3, <1>4, <1>5, <1>6, <1>7

\* An application that does not call back has only an idle camera to act on.
LEMMA ApplicationHolds ==
  ASSUME Callbacks = {}, Held,
         \/ CallExit \/ CallRef \/ CallUnref \/ CallSetAbilities
         \/ \E t \in {"serial", "usb"} : CallSetPortInfo(t)
         \/ CallSetPortSpeed
  PROVE  Held'
<1>1. call' = Idle
  BY DEF CallExit, CallRef, CallUnref, CallSetAbilities, CallSetPortInfo,
         CallSetPortSpeed, MayCall
<1> QED BY <1>1, ApplicationTidy, SteadyEnds DEF Held, Keeps

LEMMA StepHolds ==
  ASSUME Callbacks = {}, Held, [Next]_vars
  PROVE  Held'
<1>1. CASE Proceed
  BY <1>1, InitHolds, CallHolds DEF Proceed
<1>2. CASE Application
  BY <1>2, CallHolds, ApplicationHolds DEF Application
<1>3. CASE \E t \in Timer : StartTimeout(t) \/ StopTimeout(t)
  BY <1>3, CallHolds
<1>4. CASE UNCHANGED vars
  BY <1>4 DEF vars, Held, Steady, InDriver
<1> QED BY <1>1, <1>2, <1>3, <1>4 DEF Next

\* Without callbacks, whatever fails (the errors of gp_camera_init and of
\* gp_camera_set_port_info that release the camera twice included) and however
\* often the application initialises an open camera, the driver's library stays
\* mapped, with its functions, while one of them is on the stack: lt_dlclose
\* never outnumbers lt_dlopenext.
THEOREM DriverMapped ==
  ASSUME Callbacks = {}
  PROVE  Spec => []DriverStaysMapped
<1>1. Init => Held
  BY InitiallyHeld
<1>2. Held /\ [Next]_vars => Held'
  BY StepHolds
<1>3. Held => DriverStaysMapped
  BY DEF Held, Mapped, Steady, DriverStaysMapped
<1> QED BY <1>1, <1>2, <1>3, PTL DEF Spec
=============================================================================

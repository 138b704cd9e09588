----------------------------- MODULE CameraCore -----------------------------
(***************************************************************************)
(* The life of a Camera object: libgphoto2/gphoto2-camera.c.               *)
(*                                                                         *)
(* A Camera is reference counted; "used" says that a call is on the stack  *)
(* and makes any further call return GP_ERROR_CAMERA_BUSY; closing and     *)
(* freeing are put off until it drops to zero; the driver's library is     *)
(* loaded on the first call and unloaded by gp_camera_exit.  While a call  *)
(* runs, the driver reports progress to the application, which may call    *)
(* back into the library, and starts and stops the timers that the         *)
(* application's main loop runs for it.                                    *)
(*                                                                         *)
(* The build modelled is the default one, without HAVE_MULTI.              *)
(***************************************************************************)
EXTENDS Integers, FiniteSets

CONSTANTS
  UsedMod,       \* pc->used is an unsigned char: arithmetic modulo 256
  Timer,         \* the ids that timeout_start_func can return
  MaxRef,        \* bound on ref_count
  MayFail,       \* the failures that can happen: a subset of Failure
  Callbacks,     \* what an application does inside its progress callbacks
  InitCallbacks, \* also while gp_camera_init runs, called by itself
  Reinit         \* the application calls gp_camera_init on an open camera

Failure == {"detect",     \* no camera found
            "usb_find",   \* gp_port_usb_find_device and ..._by_class
            "load",       \* no driver library, or no camera_init in it
            "open",       \* gp_port_open
            "init",       \* the driver's camera_init
            "pre", "body", "post",
            "port_info",  \* gp_port_set_info: no such port library
            "port_speed"} \* gp_port_set_settings
Callback == {"exit", "ref", "unref", "abilities", "port_info", "port_speed"}
PortType == {"none", "serial", "usb"}

ASSUME ConstAssumption ==
  /\ UsedMod \in Nat /\ UsedMod > 1
  /\ IsFiniteSet(Timer)
  /\ MaxRef \in Nat \ {0}
  /\ MayFail \subseteq Failure
  /\ Callbacks \subseteq Callback
  /\ InitCallbacks \in BOOLEAN /\ Reinit \in BOOLEAN

VARIABLES
  cam,   \* the Camera, its CameraPrivateCore and its GPPort
  call,  \* the call on the stack: where it is, and what it is
  host   \* the application has set timeout functions

vars == <<cam, call, host>>

Phase == {"idle",       \* no call
          "connect",    \* gp_camera_init, before the driver is loaded
          "camera_init", "pre", "body", "post",  \* in the driver's functions
          "preview"}    \* gp_camera_file_get_info, falling back on the preview
Kind  == {"plain",      \* one driver function between pre_func and post_func
          "get_info",   \* gp_camera_file_get_info
          "init"}       \* gp_camera_init, called by the application
Idle == [phase |-> "idle", kind |-> "plain"]

Camera ==
  [alive : BOOLEAN, ref_count : 0..MaxRef, used : 0..UsedMod - 1,
   exit_requested : BOOLEAN,
   model : BOOLEAN,      \* pc->a has a model
   lh : BOOLEAN,         \* pc->lh is not NULL
   libs : Nat,           \* calls of lt_dlopenext less calls of lt_dlclose
   functions : BOOLEAN,  \* the driver's functions are filled in
   type : PortType,      \* port->type
   ops : BOOLEAN,        \* port->pc->ops is not NULL
   open : BOOLEAN,       \* the port's device is open
   timeout_ids : SUBSET Timer,  \* remembered by the camera
   ticking : SUBSET Timer]      \* run by the application

TypeOK == /\ cam \in Camera
          /\ call \in [phase : Phase, kind : Kind]
          /\ host \in BOOLEAN

\* gp_camera_new, and gp_camera_set_timeout_funcs or not.
Init ==
  /\ cam = [alive |-> TRUE, ref_count |-> 1, used |-> 0,
            exit_requested |-> FALSE, model |-> FALSE,
            lh |-> FALSE, libs |-> 0, functions |-> FALSE,
            type |-> "none", ops |-> FALSE, open |-> FALSE,
            timeout_ids |-> {}, ticking |-> {}]
  /\ call = Idle
  /\ host \in BOOLEAN

-----------------------------------------------------------------------------
(***************************************************************************)
(* Operations on a Camera, as functions of it.                             *)
(***************************************************************************)

\* Mutant: the camera is closed even while a call is on the stack.
ExitAtOnce(c) ==
  [c EXCEPT !.ticking = @ \ c.timeout_ids, !.timeout_ids = {},
            !.functions = FALSE, !.open = FALSE,
            !.lh = FALSE, !.libs = IF c.lh THEN @ - 1 ELSE @]

\* Mutant: the pending timeouts are forgotten, but not stopped.
ExitKeepTimers(c) ==
  IF c.used # 0 THEN [c EXCEPT !.exit_requested = TRUE]
  ELSE [c EXCEPT !.timeout_ids = {}, !.functions = FALSE, !.open = FALSE,
                 !.lh = FALSE, !.libs = IF c.lh THEN @ - 1 ELSE @]

\* gp_camera_exit: put off while the camera is in use; otherwise stop the
\* pending timeouts, let the driver say goodbye, close the port, unload.  One
\* step: what the application might do in a callback of the driver's exit
\* function, which finds the camera unused, is left out.
Exit(c) ==
  IF c.used # 0 THEN [c EXCEPT !.exit_requested = TRUE]
  ELSE [c EXCEPT !.ticking = @ \ c.timeout_ids, !.timeout_ids = {},
                 !.functions = FALSE, !.open = FALSE,
                 !.lh = FALSE, !.libs = IF c.lh THEN @ - 1 ELSE @]

\* gp_camera_free: exit if a library is loaded, then drop the port, which
\* closes it, and the rest.
Free(c) ==
  LET d == IF c.lh THEN Exit(c) ELSE c
  IN [d EXCEPT !.alive = FALSE, !.ops = FALSE, !.open = FALSE,
               !.timeout_ids = {}, !.functions = FALSE]

\* Mutant: a camera whose last reference went during the call is not freed.
UnusedKeeps(c) ==
  LET d == [c EXCEPT !.used = (@ - 1) % UsedMod]
  IN IF d.used # 0 THEN d ELSE IF d.exit_requested THEN Exit(d) ELSE d

\* Mutant: the exit that was put off is forgotten.
UnusedStays(c) ==
  LET d == [c EXCEPT !.used = (@ - 1) % UsedMod]
  IN IF d.used = 0 /\ d.ref_count = 0 THEN Free(d) ELSE d

\* CAMERA_UNUSED: one call less on the stack; after the last one, what was put
\* off is done.
Unused(c) ==
  LET d == [c EXCEPT !.used = (@ - 1) % UsedMod]
      e == IF d.exit_requested THEN Exit(d) ELSE d
  IN IF d.used # 0 THEN d ELSE IF e.ref_count = 0 THEN Free(e) ELSE e

\* gp_camera_unref.
Unref(c) ==
  LET d == [c EXCEPT !.ref_count = @ - 1]
  IN IF d.ref_count = 0 /\ d.used = 0 THEN Free(d) ELSE d

\* "If the camera is currently initialized, terminate that connection."
Terminate(c) == IF c.lh THEN Exit(c) ELSE c

\* gp_port_set_info: the old port library goes, whether its device is open or
\* not, and the new one comes with a closed device.
SetPort(c, t, loaded) ==
  [c EXCEPT !.type = t, !.open = FALSE, !.ops = loaded]

\* gp_camera_set_port_info.  The error path is a CR: it releases the camera,
\* although nothing in this function has taken it.
SetPortInfo(c, t)    == SetPort(Terminate(c), t, TRUE)
SetPortInfoFails(c, t) == Unused(SetPort(Terminate(c), t, FALSE))

-----------------------------------------------------------------------------
(***************************************************************************)
(* gp_camera_init, called by the application or by CHECK_INIT.             *)
(***************************************************************************)

Ends(c) == cam' = c /\ call' = Idle
At(p)   == call' = [call EXCEPT !.phase = p]

\* gp_camera_init returns an error, with c for a camera; if CHECK_INIT called
\* it, its CR releases the camera.
InitReturnsError(c) == Ends(IF call.kind = "init" THEN c ELSE Unused(c))

\* CRS and CRSL in gp_camera_init release the camera before returning.
ReleasedByInit(c) == Unused(c)

\* The model is not set: autodetection finds nothing, ...
DetectNothing ==
  /\ call.phase = "connect" /\ ~cam.model
  /\ "detect" \in MayFail
  /\ InitReturnsError(cam)

\* ... or a camera, whose port cannot be set (gp_camera_set_port_info releases
\* the camera, and so does CRSL), ...
DetectBadPort ==
  /\ call.phase = "connect" /\ ~cam.model
  /\ "port_info" \in MayFail
  /\ InitReturnsError(ReleasedByInit(
       SetPortInfoFails([cam EXCEPT !.model = TRUE], "usb")))

\* ... or a camera at a port.
Detect ==
  /\ call.phase = "connect" /\ ~cam.model
  /\ cam' = SetPortInfo([cam EXCEPT !.model = TRUE], "usb")
  /\ UNCHANGED call

NoPort ==
  /\ call.phase = "connect" /\ cam.model
  /\ cam.type = "none"
  /\ InitReturnsError(cam)

\* The device is not on the USB.
FindFails ==
  /\ call.phase = "connect" /\ cam.model
  /\ cam.type = "usb" /\ "usb_find" \in MayFail
  /\ InitReturnsError(ReleasedByInit(cam))

\* The driver library does not load, or has no camera_init.
LoadFails ==
  /\ call.phase = "connect" /\ cam.model /\ cam.type # "none"
  /\ "load" \in MayFail
  /\ InitReturnsError([cam EXCEPT !.lh = FALSE])

\* The port does not open: the library that was just loaded is unloaded.  When
\* the camera was open already, its handle is lost with it.
OpenFails ==
  /\ call.phase = "connect" /\ cam.model /\ cam.type # "none"
  /\ "open" \in MayFail \/ ~cam.ops
  /\ InitReturnsError([cam EXCEPT !.lh = FALSE])

\* The library is loaded, the port open; the driver's camera_init begins, and
\* fills in the functions.  ("Directory Browse", which has neither a port to look
\* for nor one to open, is left out.)
Connect ==
  /\ call.phase = "connect" /\ cam.model /\ cam.type # "none"
  /\ cam.ops
  /\ cam' = [cam EXCEPT !.lh = TRUE, !.libs = @ + 1, !.open = TRUE,
                        !.functions = TRUE]
  /\ At("camera_init")

DriverInitFails ==
  /\ call.phase = "camera_init"
  /\ "init" \in MayFail
  /\ InitReturnsError([cam EXCEPT !.open = FALSE, !.libs = @ - 1, !.lh = FALSE,
                                  !.functions = FALSE])

\* Mutant: the id is not remembered.
StartForgets(c, t) == [c EXCEPT !.ticking = @ \union {t}]

\* gp_camera_start_timeout: the application starts a timer, whose id the camera
\* remembers.
Start(c, t) == [c EXCEPT !.timeout_ids = @ \union {t},
                         !.ticking = @ \union {t}]

\* A driver that wants a timer starts it as the last thing in its camera_init.
DriverInitReturns ==
  /\ call.phase = "camera_init"
  /\ \/ cam' = cam
     \/ host /\ \E t \in Timer \ cam.ticking : cam' = Start(cam, t)
  /\ call' = IF call.kind = "init" THEN Idle ELSE [call EXCEPT !.phase = "pre"]

-----------------------------------------------------------------------------
(***************************************************************************)
(* A call: CHECK_INIT, CHECK_OPEN, the driver's function, CHECK_CLOSE,      *)
(* CAMERA_UNUSED.                                                          *)
(***************************************************************************)

\* gp_camera_init by itself does not mark the camera as used.
CallInit ==
  /\ call = Idle /\ cam.alive
  /\ cam.lh => Reinit /\ cam.libs < 2
  /\ cam' = [cam EXCEPT !.exit_requested = FALSE]
  /\ call' = [phase |-> "connect", kind |-> "init"]

\* Mutant: CHECK_INIT forgets that the driver may not be loaded.
BeginNoInit(k) ==
  /\ call = Idle /\ cam.alive /\ cam.used = 0
  /\ cam' = [cam EXCEPT !.used = 1]
  /\ call' = [phase |-> "pre", kind |-> k]

\* CHECK_INIT.  (A used camera returns GP_ERROR_CAMERA_BUSY: no step.)
Begin(k) ==
  /\ call = Idle /\ cam.alive /\ cam.used = 0
  /\ cam' = [cam EXCEPT !.used = 1,
                        !.exit_requested = IF cam.lh THEN @ ELSE FALSE]
  /\ call' = [phase |-> IF cam.lh THEN "pre" ELSE "connect", kind |-> k]

PreFails ==
  /\ call.phase = "pre" /\ "pre" \in MayFail
  /\ Ends(Unused(cam))

PreReturns ==
  /\ call.phase = "pre"
  /\ At("body")
  /\ UNCHANGED cam

\* Success or failure: CHECK_CLOSE comes next either way.
BodyReturns ==
  /\ call.phase = "body"
  /\ At("post")
  /\ UNCHANGED cam

\* After post_func the call is over, well or not; but a gp_camera_file_get_info
\* that the driver does not support goes on to look at the preview.
PostReturns ==
  /\ call.phase = "post"
  /\ Ends(Unused(cam))

NotSupported ==
  /\ call.phase = "post" /\ call.kind = "get_info"
  /\ "body" \in MayFail
  /\ At("preview")
  /\ UNCHANGED cam

\* gp_camera_file_get for the preview, from inside the call: CHECK_INIT finds the
\* camera used, and the preview is not asked for.  (It could be unused here only
\* if a callback had run into the CR of gp_camera_set_port_info.)
PreviewBusy ==
  /\ call.phase = "preview" /\ cam.used # 0
  /\ Ends(Unused(cam))

-----------------------------------------------------------------------------
(***************************************************************************)
(* The driver's timers, and the application.                               *)
(***************************************************************************)

InDriver == call.phase \in {"camera_init", "pre", "body", "post"}

\* A driver restarts its timer after a transfer, ...
StartTimeout(t) ==
  /\ call.phase = "body" /\ host
  /\ t \notin cam.ticking
  /\ cam' = Start(cam, t)
  /\ UNCHANGED call

\* ... and stops it before one: gp_camera_stop_timeout.
StopTimeout(t) ==
  /\ call.phase = "body" /\ host
  /\ t \in cam.timeout_ids
  /\ cam' = [cam EXCEPT !.timeout_ids = @ \ {t}, !.ticking = @ \ {t}]
  /\ UNCHANGED call

\* The application calls the library, between two calls or from a callback.
MayCall(what) ==
  /\ cam.alive
  /\ \/ call = Idle
     \/ /\ InDriver /\ what \in Callbacks
        /\ call.kind = "init" => InitCallbacks

CallExit ==
  /\ MayCall("exit")
  /\ cam' = Exit(cam)
  /\ UNCHANGED call

CallRef ==
  /\ MayCall("ref")
  /\ cam.ref_count < MaxRef
  /\ cam' = [cam EXCEPT !.ref_count = @ + 1]
  /\ UNCHANGED call

CallUnref ==
  /\ MayCall("unref")
  /\ cam.ref_count > 0
  /\ cam' = Unref(cam)
  /\ UNCHANGED call

CallSetAbilities ==
  /\ MayCall("abilities")
  /\ cam' = [Terminate(cam) EXCEPT !.model = TRUE]
  /\ UNCHANGED call

CallSetPortInfo(t) ==
  /\ MayCall("port_info")
  /\ \/ cam' = SetPortInfo(cam, t)
     \/ "port_info" \in MayFail /\ cam' = SetPortInfoFails(cam, t)
  /\ UNCHANGED call

\* gp_camera_set_port_speed, of a serial port; its error path is a CR as well.
CallSetPortSpeed ==
  /\ MayCall("port_speed")
  /\ cam.type = "serial"
  /\ \/ cam.ops /\ cam' = Terminate(cam)
     \/ /\ "port_speed" \in MayFail \/ ~cam.ops
        /\ cam' = Unused(Terminate(cam))
  /\ UNCHANGED call

-----------------------------------------------------------------------------
\* What the library and the driver do once a call has begun.
Proceed ==
  \/ DetectNothing \/ DetectBadPort \/ Detect \/ NoPort \/ FindFails
  \/ LoadFails \/ OpenFails \/ Connect \/ DriverInitFails \/ DriverInitReturns
  \/ PreFails \/ PreReturns \/ BodyReturns \/ PostReturns \/ NotSupported
  \/ PreviewBusy

Application ==
  \/ CallInit
  \/ \E k \in {"plain", "get_info"} : Begin(k)
  \/ CallExit \/ CallRef \/ CallUnref \/ CallSetAbilities
  \/ \E t \in {"serial", "usb"} : CallSetPortInfo(t)
  \/ CallSetPortSpeed

Next ==
  /\ Proceed \/ Application \/ \E t \in Timer : StartTimeout(t) \/ StopTimeout(t)
  /\ UNCHANGED host

Spec == Init /\ [][Next]_vars

\* The calls are synchronous, and the drivers bound every transfer with a port
\* timeout: a call that has begun goes on and returns.  The application is free.
FairSpec == Spec /\ WF_vars(Proceed /\ UNCHANGED host)

-----------------------------------------------------------------------------
(***************************************************************************)
(* Properties.                                                             *)
(***************************************************************************)

\* Between calls the camera is not marked as used, so that the next call is not
\* refused with GP_ERROR_CAMERA_BUSY.  This is so only where the failures leave
\* out those that release the camera once too often: a CRS or CRSL under the CR
\* of CHECK_INIT (FindFails, DetectBadPort), and the CRs of the functions that
\* have not taken the camera (SetPortInfoFails, CallSetPortSpeed).
IdleNotBusy == call = Idle /\ cam.alive => cam.used = 0

\* "Closes a connection to the camera and therefore gives other application the
\* possibility to access the camera, too" (gp_camera_exit): between calls, with
\* nothing to wait for, it does so at once.  It does not once a failure has
\* released the camera too often: used is then 255, and the exit is put off for
\* ever.
ExitCloses == [][call = Idle /\ CallExit => ~cam'.lh /\ ~cam'.open]_vars

\* The camera is neither closed nor freed nor robbed of its port while a
\* function of its driver is on the stack: "We have to postpone this operation
\* if the camera is currently in use" (gp_camera_exit), "We cannot free a camera
\* that is currently in use" (gp_camera_unref).
DriverKeepsFooting ==
  InDriver => cam.alive /\ cam.lh /\ cam.libs > 0 /\ cam.functions /\ cam.open

\* Whatever fails and however often the camera is initialised again, as long as
\* no callback interferes: the driver's code (lt_dlopenext, lt_dlclose) stays
\* mapped while it is on the stack.
DriverStaysMapped == InDriver => cam.alive /\ cam.libs > 0 /\ cam.functions

\* "If the reference count reaches 0, the camera will be freed automatically"
\* (gp_camera_unref): at the latest when the call that was running returns.
FreedAtZero == cam.alive /\ cam.ref_count = 0 => call # Idle

\* A freed camera has left nothing behind: no timer of the application that would
\* call the driver, no mapped driver library (gp_camera_free).
NothingLeftBehind == ~cam.alive => cam.ticking = {} /\ cam.libs = 0

\* A timer of the application calls into the driver only while it is loaded.
TimersHaveDriver == cam.ticking # {} => cam.lh

\* gp_camera_start_timeout and gp_camera_stop_timeout remember exactly the timers
\* that run: "We remember the id here in order to automatically remove the
\* timeout on gp_camera_exit".
TimersRemembered == cam.alive => cam.ticking = cam.timeout_ids

\* A call that ends with an exit requested leaves the camera closed.
ExitIsHonoured ==
  [][call # Idle /\ call' = Idle /\ cam.exit_requested
       => ~cam'.lh /\ ~cam'.open /\ cam'.libs = 0]_vars

\* gp_camera_exit, put off during a call, happens.
ExitHappens == (cam.exit_requested /\ call # Idle) ~> ~cam.lh
=============================================================================

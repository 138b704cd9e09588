---------------------------- MODULE MCCameraCore ----------------------------
(* Model values and the scopes of the runs of CameraCore.                  *)
EXTENDS CameraCore

CONSTANTS t1, t2

MCTimer == {t1, t2}

\* The failures after which the library has not lost count of its calls: not a
\* device that is missing on the USB (CRS at 803, under the CR of CHECK_INIT), and
\* neither a port nor a speed that cannot be set (CR at 434, 450 and 500).
MCBenign == Failure \ {"usb_find", "port_info", "port_speed"}

\* What a callback can do without pulling the port from under the driver.
MCQuiet == {"exit", "ref", "unref", "abilities"}

\* The device is missing on the USB, now and then.
MCMissing == {"usb_find"}

MCEverythingFails == Failure
MCNoCallback     == {}
=============================================================================

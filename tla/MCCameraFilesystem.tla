------------------------- MODULE MCCameraFilesystem -------------------------
(* Model values for CameraFilesystem.                                      *)
EXTENDS CameraFilesystem

CONSTANTS a, b, pic

MCNames   == {a, b}
MCOneName   == {a}
MCOneFile == {pic}

\* A camera with a picture folder, and one without.
MCCameras ==
  { << >> :> {},
    (<< >> :> {}) @@ (<<a>> :> {pic}),
    (<< >> :> {pic}) @@ (<<a>> :> {}) @@ (<<a, a>> :> {pic}) }

\* Every driver call succeeds; or all of them may fail, as when the camera is gone.
MCNone      == { {} }
MCAllOrNone == { {}, 1..3 }

\* Free cells at the end of the heap, which an operation has left, and which the
\* next one takes as it takes new ones, are not told apart.
MCView ==
  LET last == CHOOSE m \in Cells(cache) : \A k \in Cells(cache) : k <= m
  IN <<camera, SubSeq(cache, 1, last), news, answer>>
=============================================================================

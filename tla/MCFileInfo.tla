----------------------------- MODULE MCFileInfo -----------------------------
(* Model values for FileInfo: drivers after those in camlibs.              *)
EXTENDS FileInfo

Plain == [info |-> "plain", hands |-> << >>, files |-> Kind, time |-> FALSE, asks |-> FALSE,
          jpeg |-> TRUE, sets |-> {"perm"}, fails |-> {"list", "info", "file", "set"}]

\* Tells times; its pictures may be anything (camlibs/ptp2).
Timed == [Plain EXCEPT !.time = TRUE, !.files = {"normal", "exif"}]

\* EXIF data in the thumbnails; the thumbnails in the EXIF data.
NoExif    == [Plain EXCEPT !.files = {"normal", "preview"}]
NoPreview == [Plain EXCEPT !.files = {"normal", "exif"}]

\* Appends, and hands over what it got with the name (camlibs/konica,
\* camlibs/pccam300, camlibs/jd11).
Konica  == [Plain EXCEPT !.info = "hands", !.hands = << "info", "preview" >>, !.asks = TRUE,
                         !.files = {"normal", "preview"}, !.fails = {"list", "info", "file"}]
Handing == [Plain EXCEPT !.hands = << "info", "normal" >>, !.files = {"normal"}]
Early   == [Plain EXCEPT !.info = "no", !.hands = << "preview", "info" >>, !.sets = {},
                         !.files = {"normal"}, !.jpeg = FALSE]

MCDriver == {Plain, Timed, NoExif, NoPreview, Konica, Handing, Early}
MCPhoto  == {[date |-> None, thumb |-> TRUE, exifHere |-> FALSE],
             [date |-> 1, thumb |-> FALSE, exifHere |-> FALSE],
             [date |-> 1, thumb |-> TRUE, exifHere |-> TRUE]}
=============================================================================

---------------------------- MODULE MCPtpObjects ----------------------------
(* Names and cameras for PtpObjects.                                       *)
EXTENDS PtpObjects

CONSTANTS dcim, image, picture

MCFileName == {image}
MCDirName  == {dcim}
MCFolders  == {<< >>, <<dcim>>, <<dcim, dcim>>}

In(parent, name, dir) == [parent |-> parent, name |-> name, dir |-> dir]

\* A folder with a file, beside a file; and a folder in a folder.
MCCameras ==
  { << In(0, dcim, TRUE), In(1, image, FALSE), In(0, image, FALSE) >>,
    << In(0, dcim, TRUE), In(1, dcim, TRUE), In(2, image, FALSE) >> }
=============================================================================

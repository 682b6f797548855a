---------------------------- MODULE MCFileUpload ----------------------------
(***************************************************************************)
(* Small instances of FileUpload.  The limits are 25 and 16 chunks in the    *)
(* code; a file is smaller than both, between them, or larger than both.     *)
(***************************************************************************)
EXTENDS FileUpload

MCPackage == <<"index.html", "upload.js">>

MCSizes == {0, 2, 4, 6}
=============================================================================

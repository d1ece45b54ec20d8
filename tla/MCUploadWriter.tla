--------------------------- MODULE MCUploadWriter ---------------------------
(***************************************************************************)
(* Two results that do not fit into one upload.                            *)
(***************************************************************************)
EXTENDS UploadWriter

MCTwoLines == <<2, 2>>
=============================================================================

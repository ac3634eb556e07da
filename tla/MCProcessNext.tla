--------------------------- MODULE MCProcessNext ---------------------------
(* ProcessNext on three keys.                                               *)
EXTENDS ProcessNext
=============================================================================

--------------------------- MODULE MCSaveCoalesce ---------------------------
(* Model-checking instance of SaveCoalesce. *)
EXTENDS SaveCoalesce
=============================================================================

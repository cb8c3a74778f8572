--------------------------- MODULE MCDataChannel ---------------------------
(* Two observers, so that one can replace the other. *)
EXTENDS DataChannel
=============================================================================

--------------------------- MODULE MCTransceivers ---------------------------
(* One thread, two tracks and up to two transceivers, against the remote end. *)
EXTENDS Transceivers
=============================================================================

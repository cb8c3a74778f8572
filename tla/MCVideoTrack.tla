---------------------------- MODULE MCVideoTrack ----------------------------
(* Two handles and four sinks onto one track, of a camera or remote. *)
EXTENDS CameraTrack
=============================================================================

--------------------------- MODULE MCDesktopTrack ---------------------------
(* One creation, polling twice before it gives up, and two sources to list. *)
EXTENDS DesktopCapture
=============================================================================

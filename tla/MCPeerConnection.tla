-------------------------- MODULE MCPeerConnection --------------------------
(* One connection, requests whose calls overlap, and lists of URLs. *)
EXTENDS IceServers
=============================================================================

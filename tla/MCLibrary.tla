----------------------------- MODULE MCLibrary -----------------------------
(* Two application threads and the signalling thread over the library. *)
EXTENDS Library, TLC

NoCalls == {}
GettersInCallbacks == {"count"}
Symmetry == Permutations(Clients) \cup Permutations(Factories)
=============================================================================

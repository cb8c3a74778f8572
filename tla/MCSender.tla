------------------------------ MODULE MCSender ------------------------------
(* Two threads over one sender with up to two layers. *)
EXTENDS Sender, TLC

Symmetry == Permutations(Callers)
=============================================================================

------------------------- MODULE MCProfileHandlers -------------------------
(* ProfileHandlers on a small instance. *)
EXTENDS ProfileHandlers, TLC

Symmetric == Permutations(Requests)
=============================================================================

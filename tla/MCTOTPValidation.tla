-------------------------- MODULE MCTOTPValidation --------------------------
(* TOTPValidation on a small instance. *)
EXTENDS TOTPValidation, TLC

Symmetric == Permutations(Calls)
=============================================================================

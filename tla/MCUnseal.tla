------------------------------ MODULE MCUnseal ------------------------------
(* Unseal for TLC: the constants get their values in MCUnseal.cfg. *)
EXTENDS Unseal
=============================================================================

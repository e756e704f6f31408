-------------------------- MODULE MCPasswordCache --------------------------
(* PasswordCache on a small instance. *)
EXTENDS PasswordCache, TLC

Symmetric == Permutations(Passwords) \cup Permutations(Logins)
=============================================================================

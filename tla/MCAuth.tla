------------------------------- MODULE MCAuth -------------------------------
(* Auth on a small instance. *)
EXTENDS Auth, TLC

Symmetry == Permutations(Logins) \union Permutations(Passwords)
=============================================================================

----------------------------- MODULE MCRecovery -----------------------------
(* Small instances of Recovery for TLC. *)
EXTENDS Recovery, TLC

Symmetry == Permutations(Request) \cup Permutations(Credential)
=============================================================================

--------------------------- MODULE MCSigningKeys ---------------------------
(* Small instances of SigningKeys for TLC. *)
EXTENDS SigningKeys, TLC

Symmetry == Permutations(Key) \cup Permutations(Replica)
=============================================================================

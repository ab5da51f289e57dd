-------------------------- MODULE MCResourceServer --------------------------
(* Small instances of ResourceServer, with AccessTokens, for TLC. *)
EXTENDS ResourceServer, TLC

Symmetry == Permutations(Key) \cup Permutations(Reader)
=============================================================================

--------------------------- MODULE MCUpstreamPool ---------------------------
(* UpstreamPool on small instances. *)
EXTENDS UpstreamPool, TLC

PoolSymmetry == Permutations(Callers) \union Permutations(Slots) \union Permutations(Attempts)
=============================================================================

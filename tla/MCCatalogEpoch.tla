--------------------------- MODULE MCCatalogEpoch ---------------------------
(* CatalogEpoch on small instances. *)
EXTENDS CatalogEpoch, TLC

CONSTANTS s1, s2, d1, d2

\* Publishers and readers are interchangeable, and so are the two servers.
EpochSymmetry ==
  Permutations(Publishers) \union Permutations(Readers)
    \union {(s1 :> s2) @@ (s2 :> s1) @@ (d1 :> d2) @@ (d2 :> d1)}
=============================================================================

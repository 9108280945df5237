----------------------------- MODULE MCCodeMode -----------------------------
(* CodeModeRunner on small instances. *)
EXTENDS CodeModeRunner, TLC

\* Workers, and the answers a caller may give, are interchangeable.
RunSymmetry == Permutations(Workers) \union Permutations(Inputs)
=============================================================================

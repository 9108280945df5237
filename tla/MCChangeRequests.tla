-------------------------- MODULE MCChangeRequests --------------------------
(* ChangeRequests on small instances. *)
EXTENDS ChangeRequests, TLC

\* Requests and principals are interchangeable.
CeremonySymmetry == Permutations(Handlers) \union Permutations(Approvers)
=============================================================================

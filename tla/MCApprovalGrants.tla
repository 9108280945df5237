-------------------------- MODULE MCApprovalGrants --------------------------
(* ApprovalGrants on small instances. *)
EXTENDS ApprovalGrants
=============================================================================

-------------------------- MODULE MCEvidenceOutbox --------------------------
(* EvidenceOutbox on small instances. *)
EXTENDS EvidenceOutbox, TLC
=============================================================================

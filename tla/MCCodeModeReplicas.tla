------------------------- MODULE MCCodeModeReplicas -------------------------
(* CodeModeReplicas on small instances. *)
EXTENDS CodeModeReplicas
=============================================================================

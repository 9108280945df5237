------------------------------ MODULE MCBreaker ------------------------------
(* Breaker on small instances. *)
EXTENDS Breaker, TLC
=============================================================================

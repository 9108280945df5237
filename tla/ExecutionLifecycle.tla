------------------------- MODULE ExecutionLifecycle -------------------------
(***************************************************************************)
(* What the journal promises the owner of one durable execution, without   *)
(* claims, leases or deadlines: a run is worked on by one attempt at a     *)
(* time, may be parked and continued, is stopped by the first accepted     *)
(* cancellation, and reports one outcome that never changes afterwards.    *)
(***************************************************************************)
EXTENDS Naturals

VARIABLES
  phase,     \* where the run is
  attempt,   \* how many attempts have begun
  stop,      \* a cancellation has been accepted
  outcome    \* the outcome reported, "none" until there is one

state == <<phase, attempt, stop, outcome>>

Outcomes == {"succeeded", "failed", "cancelled", "expired"}
Open     == {"queued", "working", "parked"}

Init ==
  /\ outcome = "none"
  /\ \/ phase = "none" /\ attempt = 0 /\ stop = FALSE
     \/ phase = "parked" /\ attempt = 1 /\ stop \in BOOLEAN

Submit ==
  /\ phase = "none"
  /\ phase' = "queued"
  /\ UNCHANGED <<attempt, stop, outcome>>

\* No attempt begins while another works, nor once the run is stopped.
Begin ==
  /\ phase \in {"none", "queued", "parked"} /\ ~stop
  /\ phase' = "working"
  /\ attempt' = attempt + 1
  /\ UNCHANGED <<stop, outcome>>

Park ==
  /\ phase = "working"
  /\ phase' = "parked"
  /\ UNCHANGED <<attempt, stop, outcome>>

Stop ==
  /\ phase \in Open
  /\ stop' = TRUE
  /\ \/ UNCHANGED <<phase, outcome>>
     \/ phase' = "done" /\ outcome' = "cancelled"
  /\ UNCHANGED attempt

\* A stopped run can no longer be reported as succeeded or failed.
Finish(o) ==
  /\ phase \in Open
  /\ stop => o \in {"cancelled", "expired"}
  /\ phase' = "done"
  /\ outcome' = o
  /\ UNCHANGED <<attempt, stop>>

Forget ==
  /\ phase \in Open \union {"done"}
  /\ phase' = "gone"
  /\ stop' = FALSE
  /\ outcome' = "none"
  /\ UNCHANGED attempt

Next == Submit \/ Begin \/ Park \/ Stop \/ (\E o \in Outcomes : Finish(o)) \/ Forget

Spec == Init /\ [][Next]_state
=============================================================================

------------------------------- MODULE Breaker -------------------------------
(***************************************************************************)
(* The circuit breaker in front of one upstream                            *)
(* (waygate-upstream/src/breaker.rs).  Every method holds the mutex, so it *)
(* is one step; a permit lives from acquire() to its report, and calls of  *)
(* an earlier breaker state report whenever they end.                      *)
(***************************************************************************)
EXTENDS Integers

CONSTANTS
  Callers,     \* calls in flight at once
  Threshold    \* failure_threshold

ASSUME BreakerAssumption == Threshold \in Nat \ {0}

VARIABLES
  state,           \* BreakerState
  failures,        \* consecutive failures counted
  opened_at,       \* "none", or whether open_duration has passed since: "recent", "elapsed"
  probe_running,   \* a half-open probe is in flight
  permit           \* permit[c]: what c holds

vars == <<state, failures, opened_at, probe_running, permit>>

Init ==
  /\ state = "closed" /\ failures = 0 /\ opened_at = "none" /\ probe_running = FALSE
  /\ permit = [c \in Callers |-> "none"]

Grant(c, kind) == permit' = [permit EXCEPT ![c] = kind]
WasProbe(c) == permit[c] = "probe"

\* A rejected call takes no permit and changes nothing.
acquire(c) ==
  /\ permit[c] = "none"
  /\ \/ /\ state = "closed"
        /\ Grant(c, "closed")
        /\ UNCHANGED <<state, probe_running>>
     \/ /\ \/ state = "open" /\ opened_at = "elapsed"
           \/ state = "half_open" /\ ~probe_running
        /\ Grant(c, "probe")
        /\ state' = "half_open" /\ probe_running' = TRUE
  /\ UNCHANGED <<failures, opened_at>>

\* Mutant: the count survives the success.
on_success_KeepsCount(c) ==
  /\ permit[c] # "none" /\ Grant(c, "none")
  /\ state' = "closed" /\ opened_at' = "none"
  /\ probe_running' = (probe_running /\ ~WasProbe(c))
  /\ UNCHANGED failures

\* Any success closes the breaker; only a probe's frees the probe slot.
on_success(c) ==
  /\ permit[c] # "none" /\ Grant(c, "none")
  /\ state' = "closed" /\ failures' = 0 /\ opened_at' = "none"
  /\ probe_running' = (probe_running /\ ~WasProbe(c))

\* A failure report, and the drop of an unreported permit.
on_failure(c) ==
  /\ permit[c] # "none" /\ Grant(c, "none")
  /\ failures' = IF WasProbe(c) THEN Threshold ELSE failures + 1
  /\ IF failures' >= Threshold
     THEN state' = "open" /\ opened_at' = "recent"
     ELSE UNCHANGED <<state, opened_at>>
  /\ probe_running' = (probe_running /\ ~WasProbe(c))

\* Mutant: a neutral release forgets the probe slot.
neutral_KeepsSlot(c) ==
  /\ permit[c] # "none" /\ Grant(c, "none")
  /\ UNCHANGED <<state, failures, opened_at, probe_running>>

neutral(c) ==
  /\ permit[c] # "none" /\ Grant(c, "none")
  /\ probe_running' = (probe_running /\ ~WasProbe(c))
  /\ UNCHANGED <<state, failures, opened_at>>

\* A reconnect installed a new session; calls in flight keep their permits.
reset ==
  /\ state' = "closed" /\ failures' = 0 /\ opened_at' = "none" /\ probe_running' = FALSE
  /\ UNCHANGED permit

\* open_duration passes since the last trip.
CooldownPasses ==
  /\ opened_at = "recent"
  /\ opened_at' = "elapsed"
  /\ UNCHANGED <<state, failures, probe_running, permit>>

Report(c) == on_success(c) \/ on_failure(c) \/ neutral(c)

Next ==
  \/ \E c \in Callers : acquire(c) \/ Report(c)
  \/ reset \/ CooldownPasses

Spec == Init /\ [][Next]_vars

\* A dispatch ends by its deadline and drops its permit when cancelled.
FairSpec == Spec /\ WF_vars(CooldownPasses) /\ \A c \in Callers : WF_vars(Report(c))

(***************************************************************************)
(* Properties.                                                             *)
(***************************************************************************)
\* Every field keeps its type, and every permit is one the breaker grants.
TypeOK ==
  /\ state \in {"closed", "open", "half_open"} /\ failures \in Nat
  /\ opened_at \in {"none", "recent", "elapsed"} /\ probe_running \in BOOLEAN
  /\ permit \in [Callers -> {"none", "closed", "probe"}]

\* Whatever stale permits report, the count and the trip time agree with the
\* state: a closed breaker always has failure budget left, and one that is
\* not closed knows when it was tripped.
BudgetMatchesState ==
  /\ state = "closed" <=> failures < Threshold
  /\ state = "closed" <=> opened_at = "none"

\* The half-open breaker cannot wedge: the probe slot is taken only while a
\* call that will release it is in flight.
ProbeSlotHeld ==
  probe_running => \E c \in Callers : permit[c] = "probe"

Rejecting ==
  \/ state = "open" /\ opened_at # "elapsed"
  \/ state = "half_open" /\ probe_running

\* A breaker that rejects calls comes to admit one again, even when late
\* failures keep restarting the cooldown and probes end without a verdict.
NeverRejectsForever == Rejecting ~> ~Rejecting
=============================================================================

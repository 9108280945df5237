--------------------------- MODULE EvidenceOutbox ---------------------------
(***************************************************************************)
(* One evidence_outbox row and the drains that ship it: every replica with *)
(* an exporter runs one (waygate-storage/src/outbox.rs, drain.rs).  A      *)
(* drain works from the batch it read, exports without a lock, and then    *)
(* updates the row; in between, other drains do the same.                  *)
(***************************************************************************)
EXTENDS Integers, FiniteSets

CONSTANTS
  Drains,        \* the replicas' drain workers
  Registered,    \* those whose registry has an exporter for the row's target_sink
  MAX_ATTEMPTS,  \* transient failures before the row is given up
  MaxFaults      \* bound: crashes and failed updates

ASSUME OutboxAssumption ==
  /\ IsFiniteSet(Drains) /\ Registered \subseteq Drains
  /\ MAX_ATTEMPTS \in Nat \ {0} /\ MaxFaults \in Nat

VARIABLES
  status,         \* OutboxStatus; "absent" before the audit row is recorded
  attempt_count,
  due,            \* next_attempt <= now()
  pc,             \* pc[d]: where drain d is with the row
  seen,           \* seen[d]: attempt_count in d's batch
  received,       \* the sink has the event
  attempts,       \* exports tried
  transients,     \* exports that failed transiently
  refused,        \* an exporter refused the row for good, or a drain had none for it
  faults

vars == <<status, attempt_count, due, pc, seen, received, attempts, transients, refused, faults>>

row    == <<status, attempt_count, due>>
ghosts == <<received, attempts, transients, refused, faults>>

Active   == {"pending", "failed"}
Terminal == {"delivered", "dead_letter"}

Init ==
  /\ status = "absent" /\ attempt_count = 0 /\ due = FALSE
  /\ pc = [d \in Drains |-> "idle"] /\ seen = [d \in Drains |-> 0]
  /\ received = FALSE /\ attempts = 0 /\ transients = 0 /\ refused = FALSE /\ faults = 0

Goto(d, next) == pc' = [pc EXCEPT ![d] = next]

\* In the transaction that inserts the audit row.
enqueue ==
  /\ status = "absent"
  /\ status' = "pending" /\ due' = TRUE
  /\ UNCHANGED <<attempt_count, pc, seen, ghosts>>

\* Mutant: a failed row is not picked up again.
dequeue_ready_PendingOnly(d) ==
  /\ pc[d] = "idle" /\ status = "pending" /\ due
  /\ seen' = [seen EXCEPT ![d] = attempt_count]
  /\ Goto(d, "batched")
  /\ UNCHANGED <<row, ghosts>>

\* The batch is read without a lock; d reaches the row in its own time.
dequeue_ready(d) ==
  /\ pc[d] = "idle" /\ status \in Active /\ due
  /\ seen' = [seen EXCEPT ![d] = attempt_count]
  /\ Goto(d, "batched")
  /\ UNCHANGED <<row, ghosts>>

\* Mutant: a transient failure is taken for a delivery.
dispatch_one_Optimistic(d) ==
  /\ pc[d] = "batched"
  /\ attempts' = attempts + 1
  /\ received' \in {received, TRUE}
  /\ Goto(d, "shipped")
  /\ UNCHANGED <<row, seen, transients, refused, faults>>

\* The exporter call.  A transient error may follow a delivery.
dispatch_one(d) ==
  /\ pc[d] = "batched"
  /\ \/ /\ d \notin Registered
        /\ refused' = TRUE /\ Goto(d, "refused")
        /\ UNCHANGED <<received, attempts, transients>>
     \/ /\ d \in Registered /\ attempts' = attempts + 1
        /\ \/ received' = TRUE /\ Goto(d, "shipped") /\ UNCHANGED <<transients, refused>>
           \/ /\ received' \in {received, TRUE} /\ transients' = transients + 1
              /\ Goto(d, "transient") /\ UNCHANGED refused
           \/ /\ refused' = TRUE /\ Goto(d, "refused")
              /\ UNCHANGED <<received, transients>>
  /\ UNCHANGED <<row, seen, faults>>

mark_delivered(d) ==
  /\ pc[d] = "shipped"
  /\ status' = IF status \in Active THEN "delivered" ELSE status
  /\ Goto(d, "idle")
  /\ UNCHANGED <<attempt_count, due, seen, ghosts>>

\* The status a failed dispatch asks for, from the count in the batch.
NewStatus(d) ==
  IF pc[d] = "refused" \/ seen[d] + 1 >= MAX_ATTEMPTS THEN "dead_letter" ELSE "failed"

\* Mutant: a stale drain overwrites a settled row.
mark_failed_AnyStatus(d) ==
  /\ pc[d] \in {"transient", "refused"}
  /\ status' = NewStatus(d) /\ attempt_count' = attempt_count + 1
  /\ due' = (NewStatus(d) = "dead_letter")
  /\ Goto(d, "idle")
  /\ UNCHANGED <<seen, ghosts>>

\* Mutant: the count written is the one in the batch.
mark_failed_StaleCount(d) ==
  /\ pc[d] \in {"transient", "refused"}
  /\ IF status \in Active
     THEN /\ status' = NewStatus(d) /\ attempt_count' = seen[d] + 1
          /\ due' = (NewStatus(d) = "dead_letter")
     ELSE UNCHANGED row
  /\ Goto(d, "idle")
  /\ UNCHANGED <<seen, ghosts>>

\* Mutant: one failure too few.
mark_failed_OneEarly(d) ==
  /\ pc[d] \in {"transient", "refused"}
  /\ IF status \in Active
     THEN /\ status' = (IF seen[d] + 2 >= MAX_ATTEMPTS THEN "dead_letter" ELSE "failed")
          /\ attempt_count' = attempt_count + 1 /\ due' = FALSE
     ELSE UNCHANGED row
  /\ Goto(d, "idle")
  /\ UNCHANGED <<seen, ghosts>>

mark_failed(d) ==
  /\ pc[d] \in {"transient", "refused"}
  /\ IF status \in Active
     THEN /\ status' = NewStatus(d) /\ attempt_count' = attempt_count + 1
          /\ due' = (NewStatus(d) = "dead_letter")
     ELSE UNCHANGED row
  /\ Goto(d, "idle")
  /\ UNCHANGED <<seen, ghosts>>

\* The replica stops, or the update after an export fails and is only logged.
Fault(d) ==
  /\ pc[d] # "idle" /\ faults < MaxFaults
  /\ faults' = faults + 1
  /\ Goto(d, "idle")
  /\ UNCHANGED <<row, seen, received, attempts, transients, refused>>

\* next_attempt_after: the backoff passes.
BackoffPasses ==
  /\ status = "failed" /\ ~due
  /\ due' = TRUE
  /\ UNCHANGED <<status, attempt_count, pc, seen, ghosts>>

DrainStep(d) ==
  dequeue_ready(d) \/ dispatch_one(d) \/ mark_delivered(d) \/ mark_failed(d)

Next ==
  \/ enqueue \/ BackoffPasses
  \/ \E d \in Drains : DrainStep(d) \/ Fault(d)

Spec == Init /\ [][Next]_vars

\* Every drain ticks on, an export ends by its own timeout, time passes.
FairSpec == Spec /\ WF_vars(BackoffPasses) /\ \A d \in Drains : WF_vars(DrainStep(d))

(***************************************************************************)
(* Properties.                                                             *)
(***************************************************************************)
\* The row's columns and the drains' snapshots keep their types.
TypeOK ==
  /\ status \in {"absent"} \union Active \union Terminal
  /\ attempt_count \in Nat /\ due \in BOOLEAN
  /\ pc \in [Drains -> {"idle", "batched", "shipped", "transient", "refused"}]
  /\ seen \in [Drains -> Nat]
  /\ received \in BOOLEAN /\ refused \in BOOLEAN
  /\ attempts \in Nat /\ transients \in Nat /\ faults \in Nat

\* A row that reads `delivered` reached its sink.
DeliveredWasReceived == status = "delivered" => received

\* No evidence is given up early: without a permanent refusal a dead letter
\* means the sink failed MAX_ATTEMPTS times, although every drain decides
\* from a count that may be stale.
GivesUpWithCause ==
  status = "dead_letter" => refused \/ transients >= MAX_ATTEMPTS

\* A stale drain never reopens or rewrites a settled row.
SettledStays ==
  [][(status \in Terminal) => status' = status /\ attempt_count' = attempt_count]_vars

\* Every row is delivered or given up; none is retried forever.
EventuallySettled == status \in Active ~> status \in Terminal

\* The budget is tested against the count in a drain's batch, so drains that
\* share a row may export it more often than MAX_ATTEMPTS: by two exports per
\* further drain, its stale batch and a last fresh one, and one per fault.  A
\* single drain keeps to the budget.
OverrunBounded ==
  attempts <= faults + IF Registered = {} THEN 0 ELSE MAX_ATTEMPTS + 2 * (Cardinality(Registered) - 1)
=============================================================================

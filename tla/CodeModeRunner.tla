--------------------------- MODULE CodeModeRunner ---------------------------
(***************************************************************************)
(* Gateway workers that run one durable Code Mode execution against its    *)
(* journal (waygate-server/src/mcp_codemode.rs).                           *)
(*                                                                         *)
(* A worker is one attempt's task inside some gateway replica.  Between    *)
(* any two of its awaits other workers, requesters, the reconciler and the *)
(* clock may act, its process may die, and a store call may fail, with or  *)
(* without its transaction having committed.                               *)
(***************************************************************************)
EXTENDS ExecutionJournal, FiniteSets

CONSTANTS
  CallEffects,   \* the calls programs make: whether they have side effects
  MaxArtifacts   \* limits().artifacts_per_attempt

ASSUME RunnerAssumption == CallEffects \subseteq BOOLEAN /\ MaxArtifacts \in Nat

VARIABLES
  pc,        \* pc[w]: the await w is at
  held,      \* held[w]: the epoch of w's ExecutionClaim, 0 without one
  calls,     \* calls[w]: `calls` of the broker loop
  seen,      \* seen[w]: the row a resuming caller read, with its answer
  verdict,   \* verdict[w]: what the dispatch in hand returned to w
  cause,     \* cause[w]: the cancellation reason w read back
  ended,     \* ended[w]: the broker loop has returned
  effects,   \* effects[<<epoch, call>>]: the upstream side of a dispatch
  replayed   \* every <<checkpoint, input>> a resumed attempt ran with

local == <<pc, held, calls, seen, verdict, cause, ended>>
vars  == <<row, events, pc, held, calls, seen, verdict, cause, ended, effects, replayed>>

Calls == (1 .. MaxEpoch) \X (1 .. MaxCalls)

\* At these the attempt holds, or believes it holds, a claim.
Attempting ==
  {"ready", "started", "confirmed", "inflight", "answered", "reading", "pausing",
   "finishing", "failing", "refused", "reading_cause", "cancelling"}

\* At these the worker is waiting for an answer from the store.
AtStore == {"submitted", "resuming", "started", "answered", "reading", "pausing", "finishing",
            "failing", "refused", "reading_cause", "cancelling"}

NothingSeen == [epoch |-> 0, context |-> NoContext, input |-> NoInput]

Init ==
  /\ JournalInit
  /\ pc       = [w \in Workers |-> "idle"]
  /\ held     = [w \in Workers |-> 0]
  /\ calls    = [w \in Workers |-> 0]
  /\ seen     = [w \in Workers |-> NothingSeen]
  /\ verdict  = [w \in Workers |-> "none"]
  /\ cause    = [w \in Workers |-> "none"]
  /\ ended    = [w \in Workers |-> FALSE]
  /\ effects  = [c \in Calls |-> "none"]
  /\ replayed = {}

(***************************************************************************)
(* Control flow of one worker.                                             *)
(***************************************************************************)
Goto(w, next) ==
  /\ pc' = [pc EXCEPT ![w] = next]
  /\ UNCHANGED <<held, calls, seen, verdict, cause, ended>>

\* The task ends and drops what it knew.
Leave(w) ==
  /\ pc'      = [pc EXCEPT ![w] = "idle"]
  /\ held'    = [held EXCEPT ![w] = 0]
  /\ calls'   = [calls EXCEPT ![w] = 0]
  /\ seen'    = [seen EXCEPT ![w] = NothingSeen]
  /\ verdict' = [verdict EXCEPT ![w] = "none"]
  /\ cause'   = [cause EXCEPT ![w] = "none"]
  /\ ended'   = [ended EXCEPT ![w] = FALSE]

\* An error out of the broker loop is attributed by persist_claimed_failure;
\* an error after the loop ends the task.
Fail(w) ==
  IF pc[w] \in Attempting /\ ~ended[w]
  THEN /\ pc' = [pc EXCEPT ![w] = "failing"]
       /\ ended' = [ended EXCEPT ![w] = TRUE]
       /\ UNCHANGED <<held, calls, seen, verdict, cause>>
  ELSE Leave(w)

\* A committed store call whose answer may be lost on the way back.
After(w, answered) == answered \/ Fail(w)

Begin(w) ==
  /\ pc'   = [pc EXCEPT ![w] = "ready"]
  /\ held' = [held EXCEPT ![w] = row'.epoch]
  /\ seen' = [seen EXCEPT ![w] = NothingSeen]
  /\ UNCHANGED <<calls, verdict, cause, ended>>

(***************************************************************************)
(* Starting an attempt.                                                    *)
(***************************************************************************)
submit_durable(w) ==
  /\ pc[w] = "idle"
  /\ submit
  /\ After(w, Goto(w, "submitted"))
  /\ UNCHANGED <<effects, replayed>>

\* Bindings resolved: claim the submission, or find it gone.
claim_submitted_durable(w) ==
  /\ pc[w] = "submitted"
  /\ \/ claim(w) /\ After(w, Begin(w))
     \/ row.status # "submitted" /\ Leave(w) /\ UNCHANGED journal
  /\ UNCHANGED <<effects, replayed>>

\* Bindings refused or timed out.
persist_pre_claim_failure(w) ==
  /\ pc[w] = "submitted"
  /\ fail_submission \/ (row.status # "submitted" /\ UNCHANGED journal)
  /\ Leave(w)
  /\ UNCHANGED <<effects, replayed>>

start_detached(w) ==
  /\ pc[w] = "idle"
  /\ start_or_reuse(w)
  /\ After(w, Begin(w))
  /\ UNCHANGED <<effects, replayed>>

\* Mutant: an answered checkpoint accepts another answer.
claim_resume_AnyInput(w, input) ==
  /\ pc[w] = "idle"
  /\ row.status = "waiting_for_resume" /\ row.retained /\ row.bound
  /\ pc'   = [pc EXCEPT ![w] = "resuming"]
  /\ seen' = [seen EXCEPT ![w] =
                [epoch |-> row.epoch, context |-> row.context, input |-> input]]
  /\ UNCHANGED <<held, calls, verdict, cause, ended, row, events, effects, replayed>>

\* The owner's read: an input already bound to the checkpoint is kept, and a
\* different answer is refused.
claim_resume(w, input) ==
  /\ pc[w] = "idle"
  /\ row.status = "waiting_for_resume" /\ row.retained /\ row.bound
  /\ row.context.input \in {NoInput, input}
  /\ pc'   = [pc EXCEPT ![w] = "resuming"]
  /\ seen' = [seen EXCEPT ![w] =
                [epoch |-> row.epoch, context |-> row.context, input |-> input]]
  /\ UNCHANGED <<held, calls, verdict, cause, ended, row, events, effects, replayed>>

\* The claim is conditional on the row still being the one that was read.
claim_waiting_program(w) ==
  /\ pc[w] = "resuming"
  /\ \/ /\ resume(w, seen[w], Answered(seen[w]))
        /\ After(w, Begin(w))
        /\ replayed' = replayed \union {<<seen[w].context.checkpoint, seen[w].input>>}
     \/ ~ResumeFence(seen[w]) /\ Leave(w) /\ UNCHANGED <<row, events, replayed>>
  /\ UNCHANGED effects

(***************************************************************************)
(* The broker loop.                                                        *)
(***************************************************************************)
CallOf(w) == <<held[w], calls[w]>>

\* Mutant: the start is not journaled.
call_frame_Unjournaled(w, effect) ==
  /\ pc[w] = "ready" /\ calls[w] < MaxCalls
  /\ calls' = [calls EXCEPT ![w] = @ + 1]
  /\ pc' = [pc EXCEPT ![w] = IF effect THEN "started" ELSE "reading"]
  /\ UNCHANGED <<row, events, held, seen, verdict, cause, ended, effects, replayed>>

\* A call frame: the fenced start append is the first thing it does.
call_frame(w, effect) ==
  /\ pc[w] = "ready" /\ calls[w] < MaxCalls
  /\ calls' = [calls EXCEPT ![w] = @ + 1]
  /\ \/ /\ append_event(w, held[w],
              CallEvent("connector_call_started", held[w], calls[w] + 1, effect))
        /\ \/ /\ pc' = [pc EXCEPT ![w] = IF effect THEN "started" ELSE "reading"]
              /\ UNCHANGED ended
           \/ /\ pc' = [pc EXCEPT ![w] = "failing"]
              /\ ended' = [ended EXCEPT ![w] = TRUE]
     \/ /\ ~LiveFence(w, held[w])
        /\ pc' = [pc EXCEPT ![w] = "refused"]
        /\ UNCHANGED <<row, events, ended>>
  /\ UNCHANGED <<held, seen, verdict, cause, effects, replayed>>

\* Mutant: the dispatch follows the journaled start at once.
confirm_claim_before_effect_Skipped(w) ==
  /\ pc[w] = "started" /\ Goto(w, "confirmed")
  /\ UNCHANGED <<row, events, effects, replayed>>

confirm_claim_before_effect(w) ==
  /\ pc[w] = "started"
  /\ \/ renew(w, held[w]) /\ After(w, Goto(w, "confirmed"))
     \/ ~LiveFence(w, held[w]) /\ Goto(w, "refused") /\ UNCHANGED journal
  /\ UNCHANGED <<effects, replayed>>

invoke_connector(w) ==
  /\ pc[w] = "confirmed"
  /\ effects' = [effects EXCEPT ![CallOf(w)] = "inflight"]
  /\ Goto(w, "inflight")
  /\ UNCHANGED <<row, events, replayed>>

\* The lease is kept alive while the dispatch is awaited.
renew_claim_for_effect(w) ==
  /\ pc[w] = "inflight"
  /\ renew_effect_lease(w, held[w])
  /\ UNCHANGED <<local, effects, replayed>>

\* The upstream applies a dispatched effect, or declines it.
UpstreamDecides(c) ==
  /\ effects[c] = "inflight"
  /\ \E outcome \in {"applied", "declined"} : effects' = [effects EXCEPT ![c] = outcome]
  /\ UNCHANGED <<row, events, local, replayed>>

\* The dispatch returns: the upstream's answer, or an error that says
\* nothing about what the upstream did or will do.
dispatch_returns(w) ==
  /\ pc[w] = "inflight"
  /\ \E outcome \in {"connector_call_succeeded", "connector_call_failed"} :
       /\ outcome = "connector_call_succeeded" => effects[CallOf(w)] = "applied"
       /\ verdict' = [verdict EXCEPT ![w] = outcome]
  /\ pc' = [pc EXCEPT ![w] = "answered"]
  /\ UNCHANGED <<held, calls, seen, cause, ended, row, events, effects, replayed>>

\* Mutant: a failed outcome append is ignored and the program goes on.
append_claimed_effect_outcome_BestEffort(w) ==
  /\ pc[w] = "answered"
  /\ \/ append_effect_outcome(w, held[w], CallEvent(verdict[w], held[w], calls[w], TRUE))
     \/ UNCHANGED journal
  /\ Goto(w, "ready")
  /\ UNCHANGED <<effects, replayed>>

append_claimed_effect_outcome(w) ==
  /\ pc[w] = "answered"
  /\ \/ /\ append_effect_outcome(w, held[w], CallEvent(verdict[w], held[w], calls[w], TRUE))
        /\ \/ /\ pc' = [pc EXCEPT ![w] = "ready"]
              /\ verdict' = [verdict EXCEPT ![w] = "none"]
              /\ UNCHANGED <<held, calls, seen, cause, ended>>
           \/ Fail(w)
     \/ ~EffectFence(w, held[w]) /\ Fail(w) /\ UNCHANGED journal
  /\ UNCHANGED <<effects, replayed>>

\* A read's outcome is an ordinary fenced append.
read_returns(w) ==
  /\ pc[w] = "reading"
  /\ \/ /\ \E outcome \in {"connector_call_succeeded", "connector_call_failed"} :
             append_event(w, held[w], CallEvent(outcome, held[w], calls[w], FALSE))
        /\ After(w, Goto(w, "ready"))
     \/ ~LiveFence(w, held[w]) /\ Goto(w, "refused") /\ UNCHANGED journal
  /\ UNCHANGED <<effects, replayed>>

ArtifactsOf(e) ==
  {i \in 1 .. Len(events) : events[i].kind = "artifact_emitted" /\ events[i].epoch = e}

artifact_frame(w) ==
  /\ pc[w] = "ready"
  /\ \/ /\ Cardinality(ArtifactsOf(held[w])) < MaxArtifacts
        /\ append_event(w, held[w], Event("artifact_emitted", held[w]))
        /\ After(w, UNCHANGED local)
     \/ ~LiveFence(w, held[w]) /\ Goto(w, "refused") /\ UNCHANGED journal
  /\ UNCHANGED <<effects, replayed>>

\* Complete, Pause and Failed frames; a deadline or a dead runner reads as
\* a failure too, also while a read is in flight.
last_frame(w) ==
  /\ \/ pc[w] = "ready" /\ Goto(w, "pausing")
     \/ /\ pc[w] = "ready"
        /\ pc' = [pc EXCEPT ![w] = "finishing"]
        /\ ended' = [ended EXCEPT ![w] = TRUE]
        /\ UNCHANGED <<held, calls, seen, verdict, cause>>
     \/ pc[w] \in {"ready", "reading"} /\ Fail(w)
  /\ UNCHANGED <<row, events, effects, replayed>>

\* The runner is quiet and a status read shows a cancellation request; a row
\* that is gone is an error.
wait_for_cancellation(w) ==
  /\ pc[w] = "ready"
  /\ \/ row.status # "purged" /\ row.cancel # "none" /\ Goto(w, "reading_cause")
     \/ row.status = "purged" /\ Fail(w)
  /\ UNCHANGED <<row, events, effects, replayed>>

(***************************************************************************)
(* Ending an attempt.                                                      *)
(***************************************************************************)
persist_claimed_pause(w) ==
  /\ pc[w] = "pausing"
  /\ \/ /\ transition(w, held[w], "waiting_for_resume", "none",
                      [checkpoint |-> held[w], input |-> NoInput])
        /\ After(w, Leave(w))
     \/ /\ ~TransitionFence(w, held[w], "waiting_for_resume")
        /\ Goto(w, "refused") /\ UNCHANGED journal
  /\ UNCHANGED <<effects, replayed>>

\* Mutant: the row is finished without the claim fence.
Finish_Unfenced(w, at, to, reason) ==
  /\ pc[w] = at
  /\ row' = [row EXCEPT !.status = to, !.reason = reason, !.completed = TRUE,
               !.owner = NoOwner, !.lease = "none"]
  /\ Log(<<Event(to, held[w])>>)
  /\ Leave(w)
  /\ UNCHANGED <<effects, replayed>>

\* run_claimed_durable's last transition, and persist_claimed_failure.
Finish(w, at, to, reason) ==
  /\ pc[w] = at
  /\ \/ transition(w, held[w], to, reason, NoContext) /\ Leave(w)
     \/ ~TransitionFence(w, held[w], to) /\ Goto(w, "refused") /\ UNCHANGED journal
  /\ UNCHANGED <<effects, replayed>>

run_claimed_durable(w) == Finish(w, "finishing", "succeeded", "none")

persist_claimed_failure(w) == Finish(w, "failing", "failed", "execution_failed")

\* A refused write re-reads the row to tell a cancellation from a lost claim.
finish_requested_cancellation(w) ==
  /\ pc[w] = "refused"
  /\ IF row.status # "purged" /\ row.cancel # "none" /\ ~row.completed
     THEN Goto(w, "reading_cause")
     ELSE Fail(w)
  /\ UNCHANGED <<row, events, effects, replayed>>

\* persist_claimed_cancellation: the recorded cause is read, then written in
\* a second transaction.
read_cancellation_cause(w) ==
  /\ pc[w] = "reading_cause"
  /\ pc'    = [pc EXCEPT ![w] = "cancelling"]
  /\ cause' = [cause EXCEPT ![w] =
                 IF row.cancel = "none" THEN "cancelled_by_client" ELSE Attributed(row.cancel)]
  /\ UNCHANGED <<held, calls, seen, verdict, ended, row, events, effects, replayed>>

persist_claimed_cancellation(w) ==
  /\ pc[w] = "cancelling"
  /\ \/ transition(w, held[w], "cancelled", cause[w], NoContext)
     \/ ~TransitionFence(w, held[w], "cancelled") /\ UNCHANGED journal
  /\ Fail(w)
  /\ UNCHANGED <<effects, replayed>>

(***************************************************************************)
(* Failures, and everyone who is not the worker.                           *)
(***************************************************************************)
\* A store call fails before its transaction commits.
StoreError(w) ==
  /\ pc[w] \in AtStore
  /\ Fail(w)
  /\ UNCHANGED <<row, events, effects, replayed>>

\* The worker's process dies, or its request is dropped.
Crash(w) ==
  /\ pc[w] # "idle"
  /\ Leave(w)
  /\ UNCHANGED <<row, events, effects, replayed>>

\* The drain window ended with w's claim still registered; the task itself
\* keeps running until the process exits.
interrupt_held_claim(w) ==
  /\ pc[w] \in Attempting
  /\ interrupt_claimed(w, held[w])
  /\ UNCHANGED <<local, effects, replayed>>

request_cancellation(by) ==
  /\ cancel_scoped(by)
  /\ UNCHANGED <<local, effects, replayed>>

DenyApproval ==
  /\ deny_waiting_approval
  /\ UNCHANGED <<local, effects, replayed>>

reconcile_abandoned_batch ==
  /\ reconcile_abandoned
  /\ UNCHANGED <<local, effects, replayed>>

\* Any other submission sweeps past-retention rows first.
Sweep ==
  /\ purge_expired_state
  /\ UNCHANGED <<local, effects, replayed>>

Clock ==
  /\ LeaseLapses \/ RetentionPasses \/ SubmissionGracePasses
  /\ UNCHANGED <<local, effects, replayed>>

WorkerStep(w) ==
  \/ claim_submitted_durable(w) \/ persist_pre_claim_failure(w)
  \/ claim_waiting_program(w)
  \/ confirm_claim_before_effect(w) \/ invoke_connector(w)
  \/ dispatch_returns(w) \/ append_claimed_effect_outcome(w)
  \/ read_returns(w) \/ last_frame(w) \/ wait_for_cancellation(w)
  \/ persist_claimed_pause(w) \/ run_claimed_durable(w) \/ persist_claimed_failure(w)
  \/ finish_requested_cancellation(w) \/ read_cancellation_cause(w)
  \/ persist_claimed_cancellation(w)

Next ==
  \/ \E w \in Workers :
       \/ submit_durable(w) \/ start_detached(w)
       \/ \E input \in Inputs : claim_resume(w, input)
       \/ \E effect \in CallEffects : call_frame(w, effect)
       \/ artifact_frame(w)
       \/ WorkerStep(w)
       \/ renew_claim_for_effect(w)
       \/ StoreError(w) \/ Crash(w) \/ interrupt_held_claim(w)
  \/ \E c \in Calls : UpstreamDecides(c)
  \/ \E by \in Requesters : request_cancellation(by)
  \/ DenyApproval \/ reconcile_abandoned_batch \/ Sweep \/ Clock

Spec == Init /\ [][Next]_vars

(***************************************************************************)
(* Properties.                                                             *)
(***************************************************************************)
\* Every variable keeps its type: the row is a row, the journal a sequence
\* of events, and every worker's locals are what its code can hold.
TypeOK ==
  /\ JournalTypeOK
  /\ pc \in [Workers -> Attempting \union {"idle", "submitted", "resuming"}]
  /\ held \in [Workers -> 0 .. MaxEpoch]
  /\ calls \in [Workers -> 0 .. MaxCalls]
  /\ seen \in [Workers -> [epoch : 0 .. MaxEpoch, context : Contexts,
                            input : Inputs \union {NoInput}]]
  /\ verdict \in [Workers -> {"none", "connector_call_succeeded", "connector_call_failed"}]
  /\ cause \in [Workers -> {"none"} \union Requesters]
  /\ ended \in [Workers -> BOOLEAN]
  /\ effects \in [Calls -> {"none", "inflight", "applied", "declined"}]
  /\ replayed \subseteq (Checkpoints \X Inputs)

\* No effect reaches an upstream before its start is in the journal; the
\* journal and the workers' locals keep their types.
EffectsJournaled ==
  /\ TypeOK
  /\ row.status # "purged" =>
       \A c \in Calls : effects[c] # "none" =>
         \E i \in 1 .. Len(events) :
           /\ events[i].kind = "connector_call_started" /\ events[i].effect
           /\ events[i].epoch = c[1] /\ events[i].call = c[2]

\* An expired run that does not report effect_outcome_unknown (and was not
\* dropped by retention) left no dispatched effect without a recorded
\* outcome, although the reconciliation may judge it by a snapshot that lacks
\* the last entries: the claim is confirmed again between an effect's start
\* and its dispatch. One that does report it journaled a side-effecting call.
ExpiryReportsUnknownEffects ==
  /\ (row.status = "expired" /\ row.reason \notin {"effect_outcome_unknown", "retention_expired"})
       => \A c \in Calls : effects[c] # "none" => Journaled(Outcomes, c[1], c[2])
  /\ row.reason = "effect_outcome_unknown" =>
       \E i \in 1 .. Len(events) : events[i].kind = "connector_call_started" /\ events[i].effect

\* What docs/codemode.md says of the unused `ambiguous` status: a run that
\* was interrupted during a side effect (its worker is gone and no outcome
\* was journaled) is reported as `expired` with effect_outcome_unknown.
InterruptedEffectsReported ==
  (/\ row.status \in {"cancelled", "expired"} /\ row.retained
   /\ \A w \in Workers : pc[w] = "idle"
   /\ \E c \in Calls : effects[c] # "none" /\ ~Journaled(Outcomes, c[1], c[2]))
     => row.status = "expired" /\ row.reason = "effect_outcome_unknown"

\* A run of this release that succeeded, or paused for its caller, recorded
\* the outcome of every effect it dispatched, in this and earlier attempts.
SettledRunsRecordOutcomes ==
  (row.status \in {"succeeded", "waiting_for_resume"} /\ ~row.resumable) =>
     \A c \in Calls : effects[c] # "none" => Journaled(Outcomes, c[1], c[2])

\* A cancelled run names the first requester, although the runner reads the
\* cause in one transaction and writes it in another.
CancelledNamesRequester ==
  row.status = "cancelled" => row.reason = Attributed(row.cancel)

\* Once a cancellation is journaled the only entries that may follow are
\* outcomes of effects already started and the entry that closes the run.
NothingStartsAfterCancellation ==
  \A i, j \in 1 .. Len(events) :
    (i < j /\ events[i].kind = "cancellation_requested") =>
      \/ events[j].kind \in Outcomes /\ events[j].effect
      \/ events[j].kind \in {"cancelled", "expired", "waiting_for_resume"}

\* A checkpoint is answered once: every attempt that replays it after a lost
\* worker runs with the input the first of them was given.
ReplayInputStable ==
  \A r1, r2 \in replayed : r1[1] = r2[1] => r1[2] = r2[2]

(***************************************************************************)
(* Liveness.  The runtime keeps polling every task that has not died, and  *)
(* every replica reconciles once a minute; deadlines pass; an upstream     *)
(* call is bounded by its own timeout.  Nothing obliges a caller to act.   *)
(***************************************************************************)
Fairness ==
  /\ \A w \in Workers : WF_vars(WorkerStep(w))
  /\ WF_vars(reconcile_abandoned_batch)
  /\ WF_vars(LeaseLapses /\ UNCHANGED <<local, effects, replayed>>)
  /\ WF_vars(RetentionPasses /\ UNCHANGED <<local, effects, replayed>>)
  /\ WF_vars(SubmissionGracePasses /\ UNCHANGED <<local, effects, replayed>>)

FairSpec == Spec /\ Fairness

\* A run is never projected as working forever: a submission or a running
\* attempt is finished, parked or swept, whichever worker dies and when.
NeverWorkingForever ==
  row.status \in {"submitted", "running"} ~> row.status \notin {"submitted", "running"}

\* A requested cancellation ends the run, even when the request raced the
\* runner, the lease or a reconciliation that parked the row.
CancellationSettles ==
  (row.cancel # "none") ~> (row.completed \/ row.status = "purged")
=============================================================================

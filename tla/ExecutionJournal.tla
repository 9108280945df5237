-------------------------- MODULE ExecutionJournal --------------------------
(***************************************************************************)
(* The durable record of one Code Mode execution: its row in               *)
(* codemode_executions and its append-only codemode_execution_events       *)
(* (waygate-codemode/src/store.rs).                                        *)
(*                                                                         *)
(* Every store method is one database transaction that writes the row or   *)
(* holds its lock, so every operation here is one atomic step; what a      *)
(* statement read of the events before it got the lock may be older.  A    *)
(* deadline is kept as whether the database clock has passed it; it may    *)
(* pass at any moment.                                                     *)
(***************************************************************************)
EXTENDS Integers, Sequences

CONSTANTS
  Workers,    \* the runs that may hold the execution's claim
  NoOwner,    \* claim_owner IS NULL
  Inputs,     \* what a caller may answer a checkpoint with
  NoInput,    \* a resume context no caller has answered yet
  NoContext,  \* resume_context IS NULL
  Origins,    \* which rows a run of the model starts from: "absent" or left waiting
  MaxEpoch,   \* bound: how often the row is claimed
  MaxCalls    \* bound: connector calls per attempt

ASSUME ConstantsAssumption ==
  /\ NoOwner \notin Workers
  /\ NoInput \notin Inputs
  /\ NoContext \notin [checkpoint : 0 .. MaxEpoch, input : Inputs \union {NoInput}]
  /\ Origins \subseteq {"absent", "waiting_for_approval", "waiting_for_resume"}
  /\ MaxEpoch \in Nat \ {0}
  /\ MaxCalls \in Nat

VARIABLES
  row,        \* the row of codemode_executions
  events      \* its codemode_execution_events, in id order

journal == <<row, events>>

Terminal == {"succeeded", "failed", "cancelled", "expired"}
Waiting  == {"waiting_for_approval", "waiting_for_resume"}

\* "absent" is a row not yet inserted, "purged" one the retention sweep deleted.
Statuses == {"absent", "submitted", "running", "purged"} \union Waiting \union Terminal

Requesters == {"cancelled_by_client", "cancelled_by_operator"}

\* cancellation_requested_at with its cause; "unrecorded" is a request made
\* before the cancellation_reason_code column existed.
Cancellations == {"none", "unrecorded"} \union Requesters

Reasons ==
  {"none", "execution_failed", "approval_denied", "retention_expired",
   "worker_never_claimed", "effect_outcome_unknown", "worker_lease_expired",
   "worker_interrupted"} \union Requesters

\* A checkpoint is named by the attempt that committed it; 0 is the null
\* checkpoint a lost attempt is given.
Checkpoints == 0 .. MaxEpoch

Contexts ==
  [checkpoint : Checkpoints, input : Inputs \union {NoInput}] \union {NoContext}

\* lapsedAt is no column: how many entries had been committed when the lease
\* lapsed, 0 while it has not.
Rows ==
  [status : Statuses, resumable : BOOLEAN, bound : BOOLEAN,
   owner : Workers \union {NoOwner}, epoch : 0 .. MaxEpoch,
   lease : {"none", "live", "lapsed"}, cancel : Cancellations,
   reason : Reasons, completed : BOOLEAN, context : Contexts,
   retained : BOOLEAN, graced : BOOLEAN, lapsedAt : Nat]

CallKinds  == {"connector_call_started", "connector_call_succeeded", "connector_call_failed"}
EventKinds == CallKinds \union
  {"submitted", "admitted", "claimed", "resumed", "running", "waiting_for_approval",
   "waiting_for_resume", "artifact_emitted", "cancellation_requested"} \union Terminal

Events == [kind : EventKinds, epoch : 0 .. MaxEpoch, call : 0 .. MaxCalls, effect : BOOLEAN]

Event(kind, epoch) == [kind |-> kind, epoch |-> epoch, call |-> 0, effect |-> FALSE]

CallEvent(kind, epoch, call, effect) ==
  [kind |-> kind, epoch |-> epoch, call |-> call, effect |-> effect]

(***************************************************************************)
(* Initial rows.  A release that recorded resumable profiles, or that      *)
(* parked runs for approval, may have left a waiting row behind.           *)
(***************************************************************************)
NewRow ==
  [status |-> "absent", resumable |-> FALSE, bound |-> FALSE, owner |-> NoOwner,
   epoch |-> 0, lease |-> "none", cancel |-> "none", reason |-> "none",
   completed |-> FALSE, context |-> NoContext, retained |-> TRUE, graced |-> FALSE,
   lapsedAt |-> 0]

LegacyRow(status, cancel) ==
  [NewRow EXCEPT !.status = status, !.resumable = (status = "waiting_for_resume"),
     !.bound = TRUE, !.epoch = 1, !.cancel = cancel,
     !.context = [checkpoint |-> 0, input |-> NoInput]]

LegacyRows ==
  {LegacyRow("waiting_for_approval", "none"), LegacyRow("waiting_for_resume", "none"),
   LegacyRow("waiting_for_resume", "unrecorded")}

LegacyEvents(status) ==
  <<Event("submitted", 0), Event("admitted", 1), Event("claimed", 1), Event("running", 1),
    Event(status, 1)>>

JournalInit ==
  /\ row \in {NewRow} \union LegacyRows
  /\ row.status \in Origins
  /\ events = IF row = NewRow THEN <<>> ELSE LegacyEvents(row.status)

(***************************************************************************)
(* Fences.                                                                 *)
(***************************************************************************)
HasClaim(w, e) == row.owner = w /\ row.epoch = e

\* Mutant: a pending cancellation no longer refuses the append.
LiveFence_IgnoresCancellation(w, e) == HasClaim(w, e) /\ row.lease = "live" /\ ~row.completed

\* Mutant: any worker may write while the row's lease is live.
LiveFence_AnyWorker(w, e) == row.lease = "live" /\ row.cancel = "none" /\ ~row.completed

\* append_event, renew: a live claim and no cancellation.
LiveFence(w, e) ==
  HasClaim(w, e) /\ row.lease = "live" /\ row.cancel = "none" /\ ~row.completed

\* append_effect_outcome, renew_effect_lease: the claim alone, so neither a
\* cancellation nor a lapsed lease keeps a dispatched effect's outcome out.
EffectFence(w, e) == HasClaim(w, e) /\ ~row.completed

\* Mutant: a run may succeed or fail past a cancellation request.
TransitionFence_IgnoresCancellation(w, e, to) ==
  HasClaim(w, e) /\ row.lease = "live" /\ row.status = "running" /\ ~row.completed

\* transition: a live claim on a running row, and only a cancellation may
\* finish a row whose cancellation was requested.
TransitionFence(w, e, to) ==
  /\ HasClaim(w, e) /\ row.lease = "live" /\ row.status = "running"
  /\ to = "cancelled" \/ row.cancel = "none"
  /\ ~row.completed

Log(entries) == events' = events \o entries

(***************************************************************************)
(* Creating and claiming the row.                                          *)
(***************************************************************************)
submit ==
  /\ row.status = "absent"
  /\ row' = [row EXCEPT !.status = "submitted"]
  /\ Log(<<Event("submitted", 0)>>)

Claimed(r, w) ==
  [r EXCEPT !.status = "running", !.owner = w, !.epoch = @ + 1, !.lease = "live",
            !.bound = TRUE]

\* start_or_reuse, when it inserts: the row is born claimed.
start_or_reuse(w) ==
  /\ row.status = "absent"
  /\ row' = Claimed(row, w)
  /\ Log(<<Event("submitted", 0), Event("admitted", 1), Event("claimed", 1), Event("running", 1)>>)

claim(w) ==
  /\ row.status = "submitted" /\ row.owner = NoOwner
  /\ row' = Claimed(row, w)
  /\ Log(<<Event("admitted", row.epoch + 1), Event("claimed", row.epoch + 1),
           Event("running", row.epoch + 1)>>)

fail_submission ==
  /\ row.status = "submitted" /\ row.owner = NoOwner /\ row.lease = "none" /\ ~row.completed
  /\ row' = [row EXCEPT !.status = "failed", !.reason = "execution_failed", !.completed = TRUE]
  /\ Log(<<Event("failed", row.epoch)>>)

\* The continuation a caller prepared from an earlier read of the row.
ResumeFence(seen) ==
  /\ row.status = "waiting_for_resume" /\ row.owner = NoOwner
  /\ row.cancel = "none" /\ row.bound /\ ~row.completed /\ row.retained
  /\ row.epoch = seen.epoch /\ row.context = seen.context

resume(w, seen, context) ==
  /\ ResumeFence(seen) /\ row.epoch < MaxEpoch
  /\ row' = [Claimed(row, w) EXCEPT !.context = context, !.reason = "none"]
  /\ Log(<<Event("claimed", row.epoch + 1), Event("resumed", row.epoch + 1),
           Event("running", row.epoch + 1)>>)

(***************************************************************************)
(* What the claim's holder writes.                                         *)
(***************************************************************************)
renew(w, e) ==
  /\ LiveFence(w, e)
  /\ row' = [row EXCEPT !.lease = "live"]
  /\ UNCHANGED events

renew_effect_lease(w, e) ==
  /\ EffectFence(w, e)
  /\ row' = [row EXCEPT !.lease = "live", !.lapsedAt = 0]
  /\ UNCHANGED events

\* The lease lapses now: what is committed from here on is committed later.
Lapsed == [row EXCEPT !.lease = "lapsed", !.lapsedAt = Len(events)]

\* The fence compares with now(), the transaction's start: the lease may lapse
\* before the commit.
append_event(w, e, event) ==
  /\ LiveFence(w, e)
  /\ Log(<<event>>)
  /\ row' \in {row, Lapsed}

append_effect_outcome(w, e, event) ==
  /\ EffectFence(w, e)
  /\ Log(<<event>>)
  /\ UNCHANGED row

\* Mutant: the claim survives the transition.
transition_KeepsClaim(w, e, to, reason, context) ==
  /\ TransitionFence(w, e, to)
  /\ row' = [row EXCEPT !.status = to, !.reason = reason, !.context = context,
               !.completed = (to \in Terminal)]
  /\ Log(<<Event(to, e)>>)

\* Every status a run moves to is terminal or waiting, so the claim is
\* always released; resume_context is overwritten.
transition(w, e, to, reason, context) ==
  /\ TransitionFence(w, e, to)
  /\ row' = [row EXCEPT !.status = to, !.reason = reason, !.context = context,
               !.completed = (to \in Terminal), !.owner = NoOwner, !.lease = "none"]
  /\ Log(<<Event(to, e)>>)

(***************************************************************************)
(* Cancellation, denial.                                                   *)
(***************************************************************************)
Attributed(cancel) == IF cancel = "unrecorded" THEN "cancelled_by_client" ELSE cancel

\* Mutant: a repeat request steals the cause.
Requested_Latest(by) == by

\* Only the first request records its cause.
Requested(by) == IF row.cancel = "none" THEN by ELSE row.cancel

NoLiveClaim == row.owner = NoOwner \/ row.lease = "lapsed"

\* A row no live claim holds finishes with the request; otherwise its runner
\* finishes it when it next looks.
cancel_scoped(by) ==
  /\ row.status \notin {"absent", "purged"} /\ ~row.completed
  /\ row' = IF NoLiveClaim
            THEN [row EXCEPT !.cancel = Requested(by), !.status = "cancelled",
                    !.reason = Attributed(Requested(by)), !.completed = TRUE,
                    !.owner = NoOwner, !.lease = "none", !.lapsedAt = 0]
            ELSE [row EXCEPT !.cancel = Requested(by)]
  /\ Log((IF row.cancel = "none"
          THEN <<Event("cancellation_requested", row.epoch)>> ELSE <<>>)
         \o (IF NoLiveClaim THEN <<Event("cancelled", row.epoch)>> ELSE <<>>))

deny_waiting_approval ==
  /\ row.status = "waiting_for_approval" /\ row.owner = NoOwner
  /\ row.cancel = "none" /\ ~row.completed /\ row.retained
  /\ row' = [row EXCEPT !.status = "failed", !.reason = "approval_denied", !.completed = TRUE]
  /\ Log(<<Event("failed", row.epoch)>>)

(***************************************************************************)
(* Reconciliation of abandoned work.                                       *)
(***************************************************************************)
Outcomes == {"connector_call_succeeded", "connector_call_failed"}

\* Among the first n entries.
JournaledBy(n, kinds, epoch, call) ==
  \E i \in 1 .. n :
    events[i].kind \in kinds /\ events[i].epoch = epoch /\ events[i].call = call

Journaled(kinds, epoch, call) == JournaledBy(Len(events), kinds, epoch, call)

\* A side-effecting call whose start was journaled without an outcome, in a
\* snapshot of the first n entries.
EffectOutcomeUnknown(n) ==
  \E i \in 1 .. n :
    /\ events[i].kind = "connector_call_started" /\ events[i].effect
    /\ ~JournaledBy(n, Outcomes, events[i].epoch, events[i].call)

\* Mutant: a lapsed claim is not recognised.
Abandoned_Unclaimed ==
  /\ ~row.completed /\ row.owner = NoOwner
  /\ \/ row.status = "submitted" /\ row.graced
     \/ row.status \in Waiting /\ ~row.retained

\* Mutant: a parked row is never given up.
Abandoned_NeverParked ==
  /\ ~row.completed
  /\ \/ row.status = "submitted" /\ row.owner = NoOwner /\ row.graced
     \/ row.status = "running" /\ row.owner # NoOwner /\ row.lease = "lapsed"

Abandoned ==
  /\ ~row.completed
  /\ \/ row.status = "submitted" /\ row.owner = NoOwner /\ row.graced
     \/ row.status = "running" /\ row.owner # NoOwner /\ row.lease = "lapsed"
     \/ row.status \in Waiting /\ row.owner = NoOwner /\ ~row.retained

Resumable == row.resumable /\ row.bound /\ row.retained

ExpiryReason(lapsedReason, n) ==
  IF ~row.retained THEN "retention_expired"
  ELSE IF row.status = "submitted" THEN "worker_never_claimed"
  ELSE IF EffectOutcomeUnknown(n) THEN "effect_outcome_unknown" ELSE lapsedReason

Reconciled(lapsedReason, n) ==
  IF Resumable
  THEN [row EXCEPT !.status = "waiting_for_resume", !.reason = "none", !.owner = NoOwner,
          !.lease = "none", !.lapsedAt = 0,
          !.context = IF @ = NoContext THEN [checkpoint |-> 0, input |-> NoInput] ELSE @]
  ELSE [row EXCEPT !.status = "expired", !.reason = ExpiryReason(lapsedReason, n),
          !.completed = TRUE, !.owner = NoOwner, !.lease = "none", !.lapsedAt = 0]

ReconcileTo(lapsedReason, n) ==
  /\ row' = Reconciled(lapsedReason, n)
  /\ Log(<<Event(IF Resumable THEN "waiting_for_resume" ELSE "expired", row.epoch)>>)

\* What the UPDATE's statement may see of the journal.  Its WHERE holds of the
\* row it writes, so it began, and took its snapshot, after the lease lapsed;
\* an entry committed since, while it waited for the row lock of that append,
\* is not in it.
Snapshots == IF row.lease = "lapsed" THEN row.lapsedAt .. Len(events) ELSE {Len(events)}

reconcile_abandoned ==
  /\ Abandoned
  /\ \E n \in Snapshots : ReconcileTo("worker_lease_expired", n)

\* Ends the claim and reconciles in one transaction, whatever its lease: the
\* first statement has the row lock when the second takes its snapshot.
interrupt_claimed(w, e) ==
  /\ HasClaim(w, e) /\ row.status = "running" /\ ~row.completed
  /\ ReconcileTo("worker_interrupted", Len(events))

(***************************************************************************)
(* Retention, and the database clock.                                      *)
(***************************************************************************)
purge_expired_state ==
  /\ row.status \notin {"absent", "purged"} /\ ~row.retained
  /\ row.completed \/ NoLiveClaim
  /\ row' = [NewRow EXCEPT !.status = "purged", !.epoch = row.epoch, !.retained = FALSE]
  /\ events' = <<>>

LeaseLapses ==
  /\ row.lease = "live"
  /\ row' = Lapsed
  /\ UNCHANGED events

RetentionPasses ==
  /\ row.retained /\ row.status # "absent"
  /\ row' = [row EXCEPT !.retained = FALSE]
  /\ UNCHANGED events

\* submitted_at lies a submission grace in the past: only an unclaimed submission
\* is ever asked about it.
SubmissionGracePasses ==
  /\ row.status = "submitted" /\ ~row.graced
  /\ row' = [row EXCEPT !.graced = TRUE]
  /\ UNCHANGED events

(***************************************************************************)
(* The journal on its own: any fenced write, by any worker, in any order.  *)
(***************************************************************************)
Appended(e) ==
  {CallEvent(kind, e, call, effect) :
     kind \in CallKinds, call \in 1 .. MaxCalls, effect \in BOOLEAN}
  \union {Event("artifact_emitted", e)}

ClaimedWrite(w, e) ==
  \/ renew(w, e) \/ renew_effect_lease(w, e) \/ interrupt_claimed(w, e)
  \/ \E event \in Appended(e) : append_event(w, e, event)
  \/ \E event \in Appended(e) : append_effect_outcome(w, e, event)
  \/ transition(w, e, "waiting_for_resume", "none", [checkpoint |-> e, input |-> NoInput])
  \/ transition(w, e, "succeeded", "none", NoContext)
  \/ transition(w, e, "failed", "execution_failed", NoContext)
  \/ \E by \in Requesters : transition(w, e, "cancelled", by, NoContext)

Continuations == [epoch : 0 .. MaxEpoch, context : Contexts \ {NoContext}, input : Inputs]

Answered(s) == [s.context EXCEPT !.input = s.input]

JournalNext ==
  \/ submit \/ fail_submission
  \/ \E w \in Workers : start_or_reuse(w) \/ claim(w)
  \/ \E w \in Workers, s \in Continuations : resume(w, s, Answered(s))
  \/ \E w \in Workers, e \in 0 .. MaxEpoch : ClaimedWrite(w, e)
  \/ \E by \in Requesters : cancel_scoped(by)
  \/ deny_waiting_approval \/ reconcile_abandoned \/ purge_expired_state
  \/ LeaseLapses \/ RetentionPasses \/ SubmissionGracePasses

JournalSpec == JournalInit /\ [][JournalNext]_journal

(***************************************************************************)
(* Properties.                                                             *)
(***************************************************************************)
\* The row is a row of the table and the journal a sequence of its events.
JournalTypeOK == row \in Rows /\ events \in Seq(Events)

\* The claim, the lease and completed_at agree with the status, so that the
\* conditional updates of the store, which each test some of these columns,
\* all mean the same thing by a live, a waiting and a finished row; and an
\* unclaimed submission has no pending cancellation for claim() to overlook.
ClaimMatchesStatus ==
  /\ row.status = "running" <=> row.owner # NoOwner
  /\ row.owner = NoOwner <=> row.lease = "none"
  /\ row.completed <=> row.status \in Terminal
  /\ row.status \in Waiting => row.context # NoContext
  /\ row.status \in {"absent", "submitted"} => row.cancel = "none" /\ row.epoch = 0

\* A worker whose claim was taken over never writes again: the journal's
\* entries, each carrying the epoch of the claim it was written under, are
\* in epoch order, whatever a stale worker still tries.
JournalFenced ==
  \A i, j \in 1 .. Len(events) : i < j => events[i].epoch <= events[j].epoch

\* A finished run is final: no late worker, canceller or reconciler changes
\* its status, its reason or its journal; only retention removes it.
FinalityStep ==
  row.completed =>
    \/ row'.status = "purged"
    \/ row'.status = row.status /\ row'.reason = row.reason /\ events' = events

TerminalIsFinal == [][FinalityStep]_journal

(***************************************************************************)
(* The owner's view of the journal.                                        *)
(***************************************************************************)
Phase ==
  CASE row.status = "absent"    -> "none"
    [] row.status = "submitted" -> "queued"
    [] row.status = "running"   -> "working"
    [] row.status \in Waiting   -> "parked"
    [] row.status \in Terminal  -> "done"
    [] OTHER                    -> "gone"

Lifecycle == INSTANCE ExecutionLifecycle WITH
  phase   <- Phase,
  attempt <- row.epoch,
  stop    <- row.cancel # "none",
  outcome <- IF row.status \in Terminal THEN row.status ELSE "none"

\* The journal implements the lifecycle its owner is promised: one attempt
\* at a time, none after an accepted cancellation, no success or failure
\* reported for a run that was stopped, and one final outcome.
ImplementsLifecycle == Lifecycle!Spec
=============================================================================

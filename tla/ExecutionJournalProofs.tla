----------------------- MODULE ExecutionJournalProofs -----------------------
(***************************************************************************)
(* Proofs about the Code Mode execution journal, for any workers, inputs   *)
(* and bounds, and for any order of store operations.                      *)
(***************************************************************************)
EXTENDS ExecutionJournal, TLAPS

USE DEF Terminal, Waiting

\* A row no attempt was made on has no runtime binding to resume.
NotYetBound == row.status \in {"absent", "submitted"} => ~row.bound

\* What every row satisfies: its type, and the agreement of its columns.
RowInv == row \in Rows /\ ClaimMatchesStatus /\ NotYetBound

(***************************************************************************)
(* The rows a run starts from, and the row a claim produces.               *)
(***************************************************************************)
LEMMA NullContext == [checkpoint |-> 0, input |-> NoInput] \in Contexts \ {NoContext}
  BY ConstantsAssumption DEF Contexts, Checkpoints

\* A new row is a row.
LEMMA NewRowType == NewRow \in Rows
  BY ConstantsAssumption
  DEF Rows, NewRow, Statuses, Cancellations, Reasons, Requesters, Contexts

\* So is one that an earlier release left waiting.
LEMMA LegacyRowType ==
  ASSUME NEW st \in Waiting, NEW c \in {"none", "unrecorded"}
  PROVE  /\ LegacyRow(st, c) \in Rows
         /\ LegacyRow(st, c).status = st /\ LegacyRow(st, c).owner = NoOwner
         /\ LegacyRow(st, c).lease = "none" /\ ~LegacyRow(st, c).completed
         /\ LegacyRow(st, c).context # NoContext /\ LegacyRow(st, c).epoch = 1
<1>1. 1 \in 0 .. MaxEpoch
  BY ConstantsAssumption
<1>2. LegacyRow(st, c) \in Rows
  BY <1>1, NullContext, NewRowType DEF LegacyRow, Rows, Statuses, Cancellations
<1>3. /\ LegacyRow(st, c).status = st /\ LegacyRow(st, c).owner = NoOwner
      /\ LegacyRow(st, c).lease = "none" /\ ~LegacyRow(st, c).completed
      /\ LegacyRow(st, c).context = [checkpoint |-> 0, input |-> NoInput]
      /\ LegacyRow(st, c).epoch = 1
  BY DEF LegacyRow, NewRow
<1> QED
  BY <1>2, <1>3, NullContext

\* A claimed row is typed, claimed and running.
LEMMA ClaimedRow ==
  ASSUME NEW r \in Rows, NEW w \in Workers, r.epoch < MaxEpoch
  PROVE  /\ Claimed(r, w) \in Rows
         /\ Claimed(r, w).status = "running" /\ Claimed(r, w).owner = w
         /\ Claimed(r, w).epoch = r.epoch + 1 /\ Claimed(r, w).lease = "live"
         /\ Claimed(r, w).completed = r.completed /\ Claimed(r, w).cancel = r.cancel
         /\ Claimed(r, w).context = r.context
<1>1. r.epoch + 1 \in 0 .. MaxEpoch
  BY ConstantsAssumption DEF Rows
<1> QED
  BY <1>1 DEF Claimed, Rows, Statuses

\* The row's invariant holds initially.
LEMMA RowInit == ASSUME JournalInit PROVE RowInv
<1>1. CASE row = NewRow
  BY <1>1, NewRowType DEF RowInv, NotYetBound, ClaimMatchesStatus, NewRow
<1>2. CASE row \in LegacyRows
  <2>1. PICK st \in Waiting, c \in {"none", "unrecorded"} : row = LegacyRow(st, c)
    BY <1>2 DEF LegacyRows
  <2> QED
    BY <2>1, LegacyRowType DEF RowInv, NotYetBound, ClaimMatchesStatus
<1> QED
  BY <1>1, <1>2 DEF JournalInit

(***************************************************************************)
(* Every store operation keeps the row's columns in agreement.             *)
(***************************************************************************)
LEMMA RowSubmit == ASSUME RowInv, submit PROVE RowInv'
  BY ConstantsAssumption DEF submit, RowInv, NotYetBound, Rows, ClaimMatchesStatus, Statuses

\* RowInv is preserved by each store method: starting a run,
LEMMA RowStart ==
  ASSUME RowInv, NEW w \in Workers, start_or_reuse(w) \/ claim(w) PROVE RowInv'
<1>1. row.epoch < MaxEpoch /\ row \in Rows /\ row' = Claimed(row, w) /\ ~row.completed
  BY ConstantsAssumption DEF start_or_reuse, claim, RowInv, NotYetBound, ClaimMatchesStatus
<1> QED
  BY <1>1, ClaimedRow, ConstantsAssumption DEF RowInv, NotYetBound, ClaimMatchesStatus

\* failing a submission,
LEMMA RowFailSubmission == ASSUME RowInv, fail_submission PROVE RowInv'
  BY ConstantsAssumption
  DEF fail_submission, RowInv, NotYetBound, Rows, ClaimMatchesStatus, Statuses, Reasons

\* resuming,
LEMMA RowResume ==
  ASSUME RowInv, NEW w \in Workers, NEW s \in Continuations, resume(w, s, Answered(s))
  PROVE RowInv'
<1>1. Answered(s) \in Contexts
  BY DEF Answered, Continuations, Contexts
<1>2. /\ row.epoch < MaxEpoch /\ row \in Rows /\ ~row.completed
      /\ row' = [Claimed(row, w) EXCEPT !.context = Answered(s), !.reason = "none"]
  BY DEF resume, ResumeFence, RowInv
<1> DEFINE c == Claimed(row, w)
<1>3. /\ c \in Rows /\ c.status = "running" /\ c.owner = w /\ c.lease = "live"
      /\ c.completed = row.completed
  BY <1>2, ClaimedRow
<1>4. row' = [c EXCEPT !.context = Answered(s), !.reason = "none"]
  BY <1>2
<1> HIDE DEF c
<1>5. row' \in Rows
  BY <1>1, <1>3, <1>4 DEF Rows, Reasons
<1>6. /\ row'.status = "running" /\ row'.owner = w /\ row'.lease = "live"
      /\ row'.completed = c.completed
  BY <1>3, <1>4 DEF Rows
<1> QED
  BY <1>2, <1>3, <1>5, <1>6, ConstantsAssumption DEF RowInv, NotYetBound, ClaimMatchesStatus

\* cancelling,
LEMMA RowCancel ==
  ASSUME RowInv, NEW by \in Requesters, cancel_scoped(by) PROVE RowInv'
  BY ConstantsAssumption
  DEF cancel_scoped, Requested, Attributed, NoLiveClaim, RowInv, NotYetBound, Rows, ClaimMatchesStatus,
      Statuses, Cancellations, Reasons, Requesters

\* denying an approval,
LEMMA RowDeny == ASSUME RowInv, deny_waiting_approval PROVE RowInv'
  BY DEF deny_waiting_approval, RowInv, NotYetBound, Rows, ClaimMatchesStatus, Statuses, Reasons

\* (the reasons reconciliation gives are reasons)
LEMMA ExpiryReasonType ==
  ASSUME NEW reason \in Reasons, NEW n PROVE ExpiryReason(reason, n) \in Reasons
  BY DEF ExpiryReason, Reasons

\* reconciling,
LEMMA RowReconcile ==
  ASSUME RowInv, row.status \notin {"absent", "purged"}, ~row.completed,
         NEW reason \in Reasons, NEW n, ReconcileTo(reason, n)
  PROVE  RowInv'
<1>1. CASE Resumable
  BY <1>1, NullContext
  DEF ReconcileTo, Reconciled, RowInv, NotYetBound, Rows, ClaimMatchesStatus, Statuses, Reasons
<1>2. CASE ~Resumable
  BY <1>2, ExpiryReasonType
  DEF ReconcileTo, Reconciled, RowInv, NotYetBound, Rows, ClaimMatchesStatus, Statuses
<1> QED
  BY <1>1, <1>2

\* a worker's transition,
LEMMA RowTransition ==
  ASSUME RowInv, NEW w \in Workers, NEW e \in 0 .. MaxEpoch,
         NEW to \in Statuses, NEW reason \in Reasons, NEW context \in Contexts,
         to \in Terminal \/ (to \in Waiting /\ context # NoContext),
         transition(w, e, to, reason, context)
  PROVE  RowInv'
<1>1. row' \in Rows
  <2>1. (to \in Terminal) \in BOOLEAN
    OBVIOUS
  <2> QED
    BY <2>1 DEF transition, RowInv, NotYetBound, Rows
<1>2. row'.status = to /\ row'.owner = NoOwner /\ row'.lease = "none" /\ row'.context = context
  BY DEF transition, RowInv, NotYetBound, Rows
<1>3. row'.completed <=> to \in Terminal
  BY DEF transition, RowInv, NotYetBound, Rows
<1> QED
  BY <1>1, <1>2, <1>3 DEF RowInv, NotYetBound, ClaimMatchesStatus

\* purging,
LEMMA RowPurge == ASSUME RowInv, purge_expired_state PROVE RowInv'
<1>1. row' \in Rows
  BY NewRowType DEF purge_expired_state, RowInv, NotYetBound, Rows, Statuses
<1>2. /\ row'.status = "purged" /\ row'.owner = NoOwner /\ row'.lease = "none"
      /\ row'.completed = FALSE
  BY DEF purge_expired_state, NewRow
<1> QED
  BY <1>1, <1>2 DEF RowInv, NotYetBound, ClaimMatchesStatus

\* a lease that lapses, alone or before an append commits,
LEMMA RowLapses ==
  ASSUME RowInv, Len(events) \in Nat, row.lease = "live", row' = Lapsed PROVE RowInv'
  BY DEF Lapsed, RowInv, NotYetBound, Rows, ClaimMatchesStatus

\* and deadlines that pass.
LEMMA RowClock ==
  ASSUME RowInv, Len(events) \in Nat, LeaseLapses \/ RetentionPasses \/ SubmissionGracePasses
  PROVE  RowInv'
<1>1. CASE LeaseLapses
  BY <1>1, RowLapses DEF LeaseLapses
<1>2. CASE RetentionPasses \/ SubmissionGracePasses
  BY <1>2 DEF RetentionPasses, SubmissionGracePasses, RowInv, NotYetBound, Rows, ClaimMatchesStatus
<1> QED
  BY <1>1, <1>2

\* Every write under a claim keeps the row's columns in agreement.
LEMMA RowClaimedWrite ==
  ASSUME RowInv, Len(events) \in Nat,
         NEW w \in Workers, NEW e \in 0 .. MaxEpoch, ClaimedWrite(w, e)
  PROVE  RowInv'
<1>1. CASE renew(w, e) \/ renew_effect_lease(w, e)
  <2>1. row.owner = w /\ row \in Rows
    BY <1>1 DEF renew, renew_effect_lease, LiveFence, EffectFence, HasClaim, RowInv
  <2>2. row' \in Rows
    <3>1. CASE renew(w, e)
      BY <2>1, <3>1 DEF renew, Rows
    <3>2. CASE renew_effect_lease(w, e)
      BY <2>1, <3>2 DEF renew_effect_lease, Rows
    <3> QED
      BY <1>1, <3>1, <3>2
  <2>3. /\ row'.lease = "live" /\ row'.status = row.status /\ row'.owner = w
        /\ row'.completed = row.completed /\ row'.context = row.context
        /\ row'.cancel = row.cancel /\ row'.epoch = row.epoch /\ row'.bound = row.bound
    BY <1>1, <2>1 DEF renew, renew_effect_lease, Rows
  <2> QED
    BY <2>1, <2>2, <2>3, ConstantsAssumption DEF RowInv, NotYetBound, ClaimMatchesStatus
<1>2. CASE interrupt_claimed(w, e)
  BY <1>2, RowReconcile DEF interrupt_claimed, Reasons
<1>3. CASE \E event \in Appended(e) :
             append_event(w, e, event) \/ append_effect_outcome(w, e, event)
  <2>1. UNCHANGED row \/ (row.lease = "live" /\ row' = Lapsed)
    BY <1>3 DEF append_event, append_effect_outcome, LiveFence
  <2> QED
    BY <2>1, RowLapses DEF RowInv, NotYetBound, ClaimMatchesStatus
<1>4. CASE transition(w, e, "waiting_for_resume", "none",
                      [checkpoint |-> e, input |-> NoInput])
  <2>1. [checkpoint |-> e, input |-> NoInput] \in Contexts \ {NoContext}
    BY ConstantsAssumption DEF Contexts, Checkpoints
  <2> QED
    BY <1>4, <2>1, RowTransition DEF Statuses, Reasons
<1>5. CASE \/ transition(w, e, "succeeded", "none", NoContext)
           \/ transition(w, e, "failed", "execution_failed", NoContext)
           \/ \E by \in Requesters : transition(w, e, "cancelled", by, NoContext)
  <2>1. NoContext \in Contexts
    BY DEF Contexts
  <2> QED
    BY <1>5, <2>1, RowTransition DEF Statuses, Reasons, Requesters
<1> QED
  BY <1>1, <1>2, <1>3, <1>4, <1>5 DEF ClaimedWrite

\* RowInv is preserved by every step of the journal.
LEMMA RowStep == ASSUME RowInv, Len(events) \in Nat, [JournalNext]_journal PROVE RowInv'
<1>1. CASE submit \/ fail_submission
  BY <1>1, RowSubmit, RowFailSubmission
<1>2. ASSUME NEW w \in Workers, start_or_reuse(w) \/ claim(w) PROVE RowInv'
  BY <1>2, RowStart
<1>3. ASSUME NEW w \in Workers, NEW s \in Continuations, resume(w, s, Answered(s))
      PROVE RowInv'
  BY <1>3, RowResume
<1>4. ASSUME NEW w \in Workers, NEW e \in 0 .. MaxEpoch, ClaimedWrite(w, e) PROVE RowInv'
  BY <1>4, RowClaimedWrite
<1>5. ASSUME NEW by \in Requesters, cancel_scoped(by) PROVE RowInv'
  BY <1>5, RowCancel
<1>6. CASE deny_waiting_approval \/ purge_expired_state
  BY <1>6, RowDeny, RowPurge
<1>7. CASE reconcile_abandoned
  BY <1>7, RowReconcile DEF reconcile_abandoned, Abandoned, Reasons
<1>8. CASE LeaseLapses \/ RetentionPasses \/ SubmissionGracePasses
  BY <1>8, RowClock
<1>9. CASE UNCHANGED journal
  BY <1>9 DEF journal, RowInv, NotYetBound, ClaimMatchesStatus
<1> QED
  BY <1>1, <1>2, <1>3, <1>4, <1>5, <1>6, <1>7, <1>8, <1>9 DEF JournalNext

(***************************************************************************)
(* The order of the journal.                                               *)
(***************************************************************************)
Ordered(s)       == \A i, j \in 1 .. Len(s) : i < j => s[i].epoch <= s[j].epoch
Within(s, lo, hi) == \A i \in 1 .. Len(s) : lo <= s[i].epoch /\ s[i].epoch <= hi

\* Entries no older than the newest of an ordered journal extend its order.
LEMMA OrderedExtends ==
  ASSUME NEW s \in Seq(Events), NEW t \in Seq(Events), NEW n \in Nat, NEW m \in Nat, n <= m,
         Ordered(s), Within(s, 0, n), Ordered(t), Within(t, n, m)
  PROVE  s \o t \in Seq(Events) /\ Ordered(s \o t) /\ Within(s \o t, 0, m)
<1>1. \A e \in Events : e.epoch \in Nat
  BY ConstantsAssumption DEF Events
<1>2. /\ s \o t \in Seq(Events) /\ Len(s \o t) = Len(s) + Len(t)
      /\ \A i \in 1 .. Len(s) : (s \o t)[i] = s[i]
      /\ \A i \in (Len(s) + 1) .. Len(s \o t) : (s \o t)[i] = t[i - Len(s)]
  OBVIOUS
<1>3. /\ \A i \in 1 .. Len(s) : s[i].epoch \in Nat
      /\ \A i \in 1 .. Len(t) : t[i].epoch \in Nat
  BY <1>1
<1>4. Within(s \o t, 0, m)
  <2> SUFFICES ASSUME NEW i \in 1 .. Len(s \o t)
               PROVE  0 <= (s \o t)[i].epoch /\ (s \o t)[i].epoch <= m
    BY DEF Within
  <2>1. CASE i <= Len(s)
    BY <1>2, <1>3, <2>1 DEF Within
  <2>2. CASE i > Len(s)
    <3>1. i - Len(s) \in 1 .. Len(t) /\ (s \o t)[i] = t[i - Len(s)]
      BY <1>2, <2>2
    <3> QED
      BY <1>3, <3>1 DEF Within
  <2> QED
    BY <2>1, <2>2
<1>5. Ordered(s \o t)
  <2> SUFFICES ASSUME NEW i \in 1 .. Len(s \o t), NEW j \in 1 .. Len(s \o t), i < j
               PROVE  (s \o t)[i].epoch <= (s \o t)[j].epoch
    BY DEF Ordered
  <2>1. CASE j <= Len(s)
    BY <1>2, <2>1 DEF Ordered
  <2>2. CASE i > Len(s)
    <3>1. /\ i - Len(s) \in 1 .. Len(t) /\ j - Len(s) \in 1 .. Len(t)
          /\ i - Len(s) < j - Len(s)
          /\ (s \o t)[i] = t[i - Len(s)] /\ (s \o t)[j] = t[j - Len(s)]
      BY <1>2, <2>2
    <3> QED
      BY <3>1 DEF Ordered
  <2>3. CASE i <= Len(s) /\ j > Len(s)
    <3>1. /\ i \in 1 .. Len(s) /\ j - Len(s) \in 1 .. Len(t)
          /\ (s \o t)[i] = s[i] /\ (s \o t)[j] = t[j - Len(s)]
      BY <1>2, <2>3
    <3>2. s[i].epoch <= n /\ n <= t[j - Len(s)].epoch
      BY <3>1 DEF Within
    <3> QED
      BY <1>3, <3>1, <3>2
  <2> QED
    BY <2>1, <2>2, <2>3
<1> QED
  BY <1>2, <1>4, <1>5

\* What every journal satisfies: its type, its order, and that nothing in
\* it was written under a claim later than the row's.
EventInv == events \in Seq(Events) /\ Ordered(events) /\ Within(events, 0, row.epoch)

\* An event is an event.
LEMMA EventType ==
  ASSUME NEW k \in EventKinds, NEW e \in 0 .. MaxEpoch
  PROVE  Event(k, e) \in Events /\ Event(k, e).epoch = e
  BY ConstantsAssumption DEF Event, Events

\* One entry alone is in order.
LEMMA OneEntry ==
  ASSUME NEW x \in Events, NEW n \in Nat, x.epoch = n
  PROVE  <<x>> \in Seq(Events) /\ Ordered(<<x>>) /\ Within(<<x>>, n, n)
<1>1. Len(<<x>>) = 1 /\ <<x>>[1] = x /\ <<x>> \in Seq(Events)
  OBVIOUS
<1> HIDE DEF Events
<1>2. Ordered(<<x>>)
  BY <1>1 DEF Ordered
<1>3. Within(<<x>>, n, n)
  BY <1>1 DEF Within
<1> QED
  BY <1>1, <1>2, <1>3

\* So is none.
LEMMA NoEntry ==
  ASSUME NEW n \in Nat
  PROVE  <<>> \in Seq(Events) /\ Ordered(<<>>) /\ Within(<<>>, n, n)
  BY DEF Ordered, Within

\* Entries behind the row's epoch keep the log in order.
LEMMA LogKeepsOrder ==
  ASSUME RowInv, RowInv', EventInv, NEW t \in Seq(Events), Log(t),
         row.epoch <= row'.epoch, Ordered(t), Within(t, row.epoch, row'.epoch)
  PROVE  EventInv'
<1>1. row.epoch \in Nat /\ row'.epoch \in Nat
  BY ConstantsAssumption DEF RowInv, Rows
<1>2. events' = events \o t
  BY DEF Log
<1> QED
  BY <1>1, <1>2, OrderedExtends DEF EventInv

\* The same for one entry.
LEMMA LogOne ==
  ASSUME RowInv, RowInv', EventInv, NEW k \in EventKinds, NEW e \in 0 .. MaxEpoch,
         Log(<<Event(k, e)>>), row.epoch <= e, e <= row'.epoch
  PROVE  EventInv'
<1>1. /\ <<Event(k, e)>> \in Seq(Events)
      /\ Ordered(<<Event(k, e)>>) /\ Within(<<Event(k, e)>>, row.epoch, row'.epoch)
  BY EventType DEF Ordered, Within
<1>2. row.epoch <= row'.epoch
  BY ConstantsAssumption DEF RowInv, Rows
<1> QED
  BY <1>1, <1>2, LogKeepsOrder

\* EventInv survives a step that leaves the log and the epoch alone.
LEMMA EventUnchanged ==
  ASSUME EventInv, events' = events, row'.epoch = row.epoch PROVE EventInv'
  BY DEF EventInv

\* EventInv is preserved by a submission,
LEMMA EventSubmit == ASSUME RowInv, RowInv', EventInv, submit PROVE EventInv'
<1>1. row.epoch = 0 /\ row'.epoch = 0 /\ 0 \in 0 .. MaxEpoch
  BY ConstantsAssumption DEF submit, RowInv, Rows, ClaimMatchesStatus
<1> QED
  BY <1>1, LogOne DEF submit, EventKinds

\* An operation that writes one entry under the row's own epoch.
LEMMA EventOwnEpoch ==
  ASSUME RowInv, RowInv', EventInv, NEW k \in EventKinds, row'.epoch = row.epoch,
         Log(<<Event(k, row.epoch)>>)
  PROVE  EventInv'
<1>1. row.epoch \in 0 .. MaxEpoch /\ row.epoch <= row.epoch
  BY ConstantsAssumption DEF RowInv, Rows
<1> QED
  BY <1>1, LogOne

\* by what closes a run,
LEMMA EventClose ==
  ASSUME RowInv, RowInv', EventInv, fail_submission \/ deny_waiting_approval PROVE EventInv'
<1>1. row'.epoch = row.epoch /\ Log(<<Event("failed", row.epoch)>>)
  BY DEF fail_submission, deny_waiting_approval, RowInv, Rows
<1> QED
  BY <1>1, EventOwnEpoch DEF EventKinds

\* by reconciliation,
LEMMA EventReconcile ==
  ASSUME RowInv, RowInv', EventInv, NEW reason \in Reasons, NEW n, ReconcileTo(reason, n)
  PROVE  EventInv'
<1>1. row'.epoch = row.epoch
  BY DEF ReconcileTo, Reconciled, RowInv, Rows
<1>2. CASE Resumable
  BY <1>1, <1>2, EventOwnEpoch DEF ReconcileTo, EventKinds
<1>3. CASE ~Resumable
  BY <1>1, <1>3, EventOwnEpoch DEF ReconcileTo, EventKinds
<1> QED
  BY <1>2, <1>3

\* by what begins an attempt,
LEMMA EventStart ==
  ASSUME RowInv, RowInv', EventInv, NEW w \in Workers, start_or_reuse(w) PROVE EventInv'
<1>1. row.epoch = 0 /\ row'.epoch = 1 /\ 1 \in 0 .. MaxEpoch /\ 0 \in 0 .. MaxEpoch
  BY ConstantsAssumption, ClaimedRow DEF start_or_reuse, RowInv, ClaimMatchesStatus
<1> DEFINE t == <<Event("submitted", 0), Event("admitted", 1), Event("claimed", 1),
                  Event("running", 1)>>
<1>2. t \in Seq(Events) /\ Ordered(t) /\ Within(t, 0, 1)
  BY <1>1, EventType DEF Ordered, Within, EventKinds
<1>3. Log(t)
  BY DEF start_or_reuse
<1> HIDE DEF t
<1> QED
  BY <1>1, <1>2, <1>3, LogKeepsOrder

\* Three entries under the epoch the claim moves to.
LEMMA EventClaim ==
  ASSUME RowInv, RowInv', EventInv, NEW k1 \in EventKinds, NEW k2 \in EventKinds,
         NEW k3 \in EventKinds, row'.epoch = row.epoch + 1,
         Log(<<Event(k1, row.epoch + 1), Event(k2, row.epoch + 1), Event(k3, row.epoch + 1)>>)
  PROVE  EventInv'
<1>1. row.epoch \in Nat /\ row.epoch + 1 \in 0 .. MaxEpoch
  BY ConstantsAssumption DEF RowInv, Rows
<1> DEFINE e == row.epoch + 1
           t == <<Event(k1, e), Event(k2, e), Event(k3, e)>>
<1>a. /\ Event(k1, e) \in Events /\ Event(k1, e).epoch = e
      /\ Event(k2, e) \in Events /\ Event(k2, e).epoch = e
      /\ Event(k3, e) \in Events /\ Event(k3, e).epoch = e
  BY <1>1, EventType
<1>b. t \in Seq(Events) /\ \A i \in 1 .. Len(t) : t[i].epoch = e
  BY <1>a
<1> HIDE DEF t
<1>2. t \in Seq(Events) /\ Ordered(t) /\ Within(t, row.epoch, e)
  BY <1>1, <1>b DEF Ordered, Within
<1>3. Log(t) /\ row.epoch <= row'.epoch /\ Within(t, row.epoch, row'.epoch)
  BY <1>1, <1>2 DEF t
<1> QED
  BY <1>2, <1>3, LogKeepsOrder

\* by a cancellation,
LEMMA EventCancel ==
  ASSUME RowInv, RowInv', EventInv, NEW by \in Requesters, cancel_scoped(by)
  PROVE  EventInv'
<1>1. row'.epoch = row.epoch /\ row.epoch \in 0 .. MaxEpoch /\ row.epoch \in Nat
  BY ConstantsAssumption DEF cancel_scoped, RowInv, Rows
<1> DEFINE s == IF row.cancel = "none"
                THEN <<Event("cancellation_requested", row.epoch)>> ELSE <<>>
           t == IF NoLiveClaim THEN <<Event("cancelled", row.epoch)>> ELSE <<>>
<1>a. /\ Event("cancellation_requested", row.epoch) \in Events
      /\ Event("cancellation_requested", row.epoch).epoch = row.epoch
  BY <1>1, EventType DEF EventKinds
<1>b. Event("cancelled", row.epoch) \in Events /\ Event("cancelled", row.epoch).epoch = row.epoch
  BY <1>1, EventType DEF EventKinds
<1>2. s \in Seq(Events) /\ Ordered(s) /\ Within(s, row.epoch, row.epoch)
  <2>1. CASE row.cancel = "none"
    BY <1>1, <1>a, <2>1, OneEntry
  <2>2. CASE row.cancel # "none"
    BY <1>1, <2>2, NoEntry
  <2> QED
    BY <2>1, <2>2
<1>3. t \in Seq(Events) /\ Ordered(t) /\ Within(t, row.epoch, row.epoch)
  <2>1. CASE NoLiveClaim
    BY <1>1, <1>b, <2>1, OneEntry
  <2>2. CASE ~NoLiveClaim
    BY <1>1, <2>2, NoEntry
  <2> QED
    BY <2>1, <2>2
<1>4. events' = events \o (s \o t)
  BY DEF cancel_scoped, Log
<1> HIDE DEF s, t
<1>5. events' = (events \o s) \o t
  BY <1>2, <1>3, <1>4 DEF EventInv
<1>6. events \o s \in Seq(Events) /\ Ordered(events \o s) /\ Within(events \o s, 0, row.epoch)
  BY <1>1, <1>2, OrderedExtends DEF EventInv
<1>7. LET u == (events \o s) \o t
      IN  u \in Seq(Events) /\ Ordered(u) /\ Within(u, 0, row.epoch)
  <2>1. row.epoch <= row.epoch
    BY <1>1
  <2> HIDE <1>4, <1>5
  <2> QED
    BY <1>1, <1>3, <1>6, <2>1, OrderedExtends
<1> QED
  BY <1>1, <1>5, <1>7 DEF EventInv

\* and by what is written under a claim.
LEMMA EventClaimedWrite ==
  ASSUME RowInv, RowInv', EventInv, NEW w \in Workers, NEW e \in 0 .. MaxEpoch,
         ClaimedWrite(w, e)
  PROVE  EventInv'
<1>1. CASE renew(w, e) \/ renew_effect_lease(w, e)
  BY <1>1, EventUnchanged DEF renew, renew_effect_lease, RowInv, Rows
<1>2. CASE interrupt_claimed(w, e)
  BY <1>2, EventReconcile DEF interrupt_claimed, Reasons
<1>3. ASSUME NEW event \in Appended(e),
             append_event(w, e, event) \/ append_effect_outcome(w, e, event)
      PROVE  EventInv'
  <2>1. row'.epoch = row.epoch /\ row.epoch = e /\ events' = events \o <<event>>
    BY <1>3 DEF append_event, append_effect_outcome, LiveFence, EffectFence, HasClaim, Log,
                Lapsed, RowInv, Rows
  <2>2. event \in Events /\ event.epoch = e
    <3>1. CASE event = Event("artifact_emitted", e)
      BY <3>1, EventType DEF EventKinds
    <3>2. CASE \E kind \in CallKinds, call \in 1 .. MaxCalls, effect \in BOOLEAN :
                 event = CallEvent(kind, e, call, effect)
      <4>1. PICK kind \in CallKinds, call \in 1 .. MaxCalls, effect \in BOOLEAN :
              event = CallEvent(kind, e, call, effect)
        BY <3>2
      <4>2. kind \in EventKinds /\ call \in 0 .. MaxCalls
        BY ConstantsAssumption DEF EventKinds
      <4> QED
        BY <4>1, <4>2 DEF CallEvent, Events
    <3> QED
      BY <3>1, <3>2 DEF Appended
  <2>3. e \in Nat /\ e <= e
    OBVIOUS
  <2>4. <<event>> \in Seq(Events) /\ Ordered(<<event>>) /\ Within(<<event>>, e, e)
    BY <2>2, <2>3, OneEntry
  <2>5. Log(<<event>>) /\ Within(<<event>>, row.epoch, row'.epoch) /\ row.epoch <= row'.epoch
    BY <2>1, <2>3, <2>4 DEF Log
  <2> QED
    BY <2>4, <2>5, LogKeepsOrder
<1>4. ASSUME NEW to \in Terminal \union Waiting, NEW reason \in Reasons, NEW context,
             transition(w, e, to, reason, context)
      PROVE  EventInv'
  <2>1. row.epoch = e /\ row'.epoch = row.epoch /\ Log(<<Event(to, e)>>)
    BY <1>4 DEF transition, TransitionFence, HasClaim, RowInv, Rows
  <2> QED
    BY <2>1, EventOwnEpoch DEF EventKinds
<1> QED
  BY <1>1, <1>2, <1>3, <1>4 DEF ClaimedWrite, Reasons, Requesters

\* EventInv is preserved by every step of the journal.
LEMMA EventStep ==
  ASSUME RowInv, RowInv', EventInv, [JournalNext]_journal PROVE EventInv'
<1>1. CASE submit \/ fail_submission \/ deny_waiting_approval
  BY <1>1, EventSubmit, EventClose
<1>2. ASSUME NEW w \in Workers, start_or_reuse(w) PROVE EventInv'
  BY <1>2, EventStart
<1>3. ASSUME NEW w \in Workers, claim(w) PROVE EventInv'
  <2>1. row'.epoch = row.epoch + 1
    BY <1>3, ClaimedRow, ConstantsAssumption DEF claim, RowInv, ClaimMatchesStatus
  <2> QED
    BY <1>3, <2>1, EventClaim DEF claim, EventKinds
<1>4. ASSUME NEW w \in Workers, NEW s \in Continuations, resume(w, s, Answered(s))
      PROVE EventInv'
  <2> DEFINE c == Claimed(row, w)
  <2>1. c \in Rows /\ c.epoch = row.epoch + 1
    BY <1>4, ClaimedRow DEF resume, RowInv
  <2>2. row' = [c EXCEPT !.context = Answered(s), !.reason = "none"]
    BY <1>4 DEF resume
  <2> HIDE DEF c
  <2>3. row'.epoch = row.epoch + 1
    BY <2>1, <2>2 DEF Rows
  <2> QED
    BY <1>4, <2>3, EventClaim DEF resume, EventKinds
<1>5. ASSUME NEW w \in Workers, NEW e \in 0 .. MaxEpoch, ClaimedWrite(w, e) PROVE EventInv'
  BY <1>5, EventClaimedWrite
<1>6. ASSUME NEW by \in Requesters, cancel_scoped(by) PROVE EventInv'
  BY <1>6, EventCancel
<1>7. CASE reconcile_abandoned
  BY <1>7, EventReconcile DEF reconcile_abandoned, Reasons
<1>8. CASE purge_expired_state
  BY <1>8 DEF purge_expired_state, EventInv, Ordered, Within
<1>9. CASE LeaseLapses \/ RetentionPasses \/ SubmissionGracePasses \/ UNCHANGED journal
  BY <1>9, EventUnchanged
  DEF LeaseLapses, Lapsed, RetentionPasses, SubmissionGracePasses, journal, RowInv, Rows
<1> QED
  BY <1>1, <1>2, <1>3, <1>4, <1>5, <1>6, <1>7, <1>8, <1>9 DEF JournalNext

\* It holds initially.
LEMMA EventInitially == ASSUME JournalInit PROVE EventInv
<1>1. CASE row = NewRow
  BY <1>1 DEF JournalInit, EventInv, Ordered, Within
<1>2. CASE row \in LegacyRows /\ row # NewRow
  <2>1. PICK st \in Waiting, c \in {"none", "unrecorded"} : row = LegacyRow(st, c)
    BY <1>2 DEF LegacyRows
  <2>2. row.epoch = 1 /\ row.status = st
    BY <2>1, LegacyRowType
  <2>3. 0 \in 0 .. MaxEpoch /\ 1 \in 0 .. MaxEpoch
    BY ConstantsAssumption
  <2> DEFINE t == <<Event("submitted", 0), Event("admitted", 1), Event("claimed", 1),
                    Event("running", 1), Event(st, 1)>>
  <2>4. t \in Seq(Events) /\ Ordered(t) /\ Within(t, 0, 1)
    BY <2>3, EventType DEF Ordered, Within, EventKinds
  <2>5. events = t
    BY <1>2, <2>2 DEF JournalInit, LegacyEvents
  <2> QED
    BY <2>2, <2>4, <2>5 DEF EventInv
<1> QED
  BY <1>1, <1>2 DEF JournalInit

(***************************************************************************)
(* Theorems.                                                               *)
(***************************************************************************)
LEMMA JournalInvariant == JournalSpec => [](RowInv /\ EventInv)
<1>1. JournalInit => RowInv /\ EventInv
  BY RowInit, EventInitially
<1>2. RowInv /\ EventInv /\ [JournalNext]_journal => (RowInv /\ EventInv)'
  <2>1. EventInv => Len(events) \in Nat
    BY DEF EventInv
  <2> QED
    BY <2>1, RowStep, EventStep
<1> QED
  BY <1>1, <1>2, PTL DEF JournalSpec

\* Whatever operations of store.rs run, in whatever order, the row stays a row
\* of the table and the journal a sequence of its events.
THEOREM JournalTypeCorrect == JournalSpec => []JournalTypeOK
<1>1. RowInv /\ EventInv => JournalTypeOK
  BY DEF RowInv, EventInv, JournalTypeOK
<1> QED
  BY <1>1, JournalInvariant, PTL

\* The claim, lease and completion columns agree with the status after every
\* operation of store.rs.
THEOREM ClaimsAreConsistent == JournalSpec => []ClaimMatchesStatus
<1>1. RowInv => ClaimMatchesStatus
  BY DEF RowInv
<1> QED
  BY <1>1, JournalInvariant, PTL

\* Fencing by claim_owner and claim_epoch: no worker whose claim was taken over
\* ever writes to the journal again.
THEOREM JournalIsFenced == JournalSpec => []JournalFenced
<1>1. EventInv => JournalFenced
  BY DEF EventInv, Ordered, JournalFenced
<1> QED
  BY <1>1, JournalInvariant, PTL

\* No step changes a terminal row.
LEMMA FinalityOfStep == ASSUME RowInv, [JournalNext]_journal PROVE FinalityStep
<1> SUFFICES ASSUME row.completed
             PROVE  \/ row'.status = "purged"
                    \/ row'.status = row.status /\ row'.reason = row.reason /\ events' = events
  BY DEF FinalityStep
<1>1. row \in Rows /\ row.status \in Terminal /\ row.owner = NoOwner /\ row.lease = "none"
  BY DEF RowInv, ClaimMatchesStatus
<1>2. ~submit /\ ~fail_submission /\ ~deny_waiting_approval /\ ~reconcile_abandoned
  BY <1>1 DEF submit, fail_submission, deny_waiting_approval, reconcile_abandoned, Abandoned
<1>3. ASSUME NEW w \in Workers PROVE ~start_or_reuse(w) /\ ~claim(w)
  BY <1>1 DEF start_or_reuse, claim
<1>4. ASSUME NEW w \in Workers, NEW s \in Continuations PROVE ~resume(w, s, Answered(s))
  BY <1>1 DEF resume, ResumeFence
<1>5. ASSUME NEW w \in Workers, NEW e \in 0 .. MaxEpoch PROVE ~ClaimedWrite(w, e)
  <2>1. ~HasClaim(w, e)
    BY <1>1, ConstantsAssumption DEF HasClaim
  <2> QED
    BY <2>1 DEF ClaimedWrite, renew, renew_effect_lease, interrupt_claimed, append_event,
                append_effect_outcome, transition, LiveFence, EffectFence, TransitionFence
<1>6. ASSUME NEW by \in Requesters PROVE ~cancel_scoped(by)
  BY DEF cancel_scoped
<1>7. CASE purge_expired_state
  BY <1>7 DEF purge_expired_state, NewRow
<1>8. CASE LeaseLapses \/ RetentionPasses \/ SubmissionGracePasses \/ UNCHANGED journal
  BY <1>1, <1>8 DEF LeaseLapses, Lapsed, RetentionPasses, SubmissionGracePasses, journal, Rows
<1> QED
  BY <1>2, <1>3, <1>4, <1>5, <1>6, <1>7, <1>8 DEF JournalNext

\* A terminal row is final: every conditional update of store.rs misses it.
THEOREM TerminalRowsAreFinal == JournalSpec => TerminalIsFinal
<1>1. RowInv /\ [JournalNext]_journal => [FinalityStep]_journal
  BY FinalityOfStep
<1> QED
  BY <1>1, JournalInvariant, PTL DEF JournalSpec, TerminalIsFinal

(***************************************************************************)
(* The journal implements the owner's lifecycle.                           *)
(***************************************************************************)
LEMMA LifecycleInit == ASSUME JournalInit PROVE Lifecycle!Init
<1>1. CASE row = NewRow
  BY <1>1 DEF NewRow, Phase, Lifecycle!Init
<1>2. CASE row \in LegacyRows
  <2>1. PICK st \in Waiting, c \in {"none", "unrecorded"} : row = LegacyRow(st, c)
    BY <1>2 DEF LegacyRows
  <2>2. row.epoch = 1 /\ row.status \in Waiting
    BY <2>1, LegacyRowType
  <2> QED
    BY <2>2 DEF Phase, Lifecycle!Init
<1> QED
  BY <1>1, <1>2 DEF JournalInit

\* A step that leaves the status, the epoch and the cancellation alone.
LEMMA LifecycleStutter ==
  ASSUME row'.status = row.status, row'.epoch = row.epoch, row'.cancel = row.cancel
  PROVE  UNCHANGED Lifecycle!state
  BY DEF Lifecycle!state, Phase

\* A step that closes an open row with an outcome.
LEMMA LifecycleFinish ==
  ASSUME NEW o \in Terminal, row.status \in {"submitted", "running"} \union Waiting,
         row'.status = o, row'.epoch = row.epoch, row'.cancel = row.cancel,
         row.cancel = "none" \/ o \in {"cancelled", "expired"}
  PROVE  Lifecycle!Next
<1>1. Lifecycle!Finish(o)
  BY DEF Lifecycle!Finish, Lifecycle!Open, Phase
<1> QED
  BY <1>1 DEF Lifecycle!Next, Lifecycle!Outcomes

\* Steps of the lifecycle: a run is parked,
LEMMA LifecyclePark ==
  ASSUME row.status = "running", row'.status = "waiting_for_resume",
         row'.epoch = row.epoch, row'.cancel = row.cancel
  PROVE  Lifecycle!Next
  BY DEF Lifecycle!Next, Lifecycle!Park, Phase

\* begun,
LEMMA LifecycleBegin ==
  ASSUME row.status \in {"absent", "submitted"} \union Waiting, row'.status = "running",
         row'.epoch = row.epoch + 1, row.cancel = "none", row'.cancel = "none"
  PROVE  Lifecycle!Next
  BY DEF Lifecycle!Next, Lifecycle!Begin, Phase

\* cancelled,
LEMMA LifecycleStop ==
  ASSUME RowInv, NEW by \in Requesters, cancel_scoped(by)
  PROVE  Lifecycle!Next
<1>1. row.status \in {"submitted", "running"} \union Waiting
  BY DEF cancel_scoped, RowInv, ClaimMatchesStatus, Rows, Statuses
<1>2. /\ row'.epoch = row.epoch /\ row'.cancel # "none"
      /\ row'.status = row.status \/ row'.status = "cancelled"
  BY DEF cancel_scoped, RowInv, Rows, Requested, Requesters
<1>3. Lifecycle!Stop
  BY <1>1, <1>2 DEF Lifecycle!Stop, Lifecycle!Open, Phase
<1> QED
  BY <1>3 DEF Lifecycle!Next

\* reconciled,
LEMMA LifecycleReconcile ==
  ASSUME RowInv, NEW reason \in Reasons, NEW n, ReconcileTo(reason, n),
         \/ row.status = "running"
         \/ ~Resumable /\ row.status \in {"submitted"} \union Waiting
  PROVE  Lifecycle!Next
<1>1. CASE Resumable
  BY <1>1, LifecyclePark DEF ReconcileTo, Reconciled, RowInv, Rows
<1>2. CASE ~Resumable
  <2>1. row'.status = "expired" /\ row'.epoch = row.epoch /\ row'.cancel = row.cancel
    BY <1>2 DEF ReconcileTo, Reconciled, RowInv, Rows
  <2> QED
    BY <1>2, <2>1, LifecycleFinish
<1> QED
  BY <1>1, <1>2

\* written to under its claim,
LEMMA LifecycleClaimedWrite ==
  ASSUME RowInv, NEW w \in Workers, NEW e \in 0 .. MaxEpoch, ClaimedWrite(w, e)
  PROVE  [Lifecycle!Next]_Lifecycle!state
<1>1. CASE renew(w, e) \/ renew_effect_lease(w, e)
  BY <1>1, LifecycleStutter DEF renew, renew_effect_lease, RowInv, Rows
<1>2. CASE interrupt_claimed(w, e)
  BY <1>2, LifecycleReconcile DEF interrupt_claimed, Reasons
<1>3. ASSUME NEW event \in Appended(e),
             append_event(w, e, event) \/ append_effect_outcome(w, e, event)
      PROVE  [Lifecycle!Next]_Lifecycle!state
  BY <1>3, LifecycleStutter DEF append_event, append_effect_outcome, Lapsed, RowInv, Rows
<1>4. CASE transition(w, e, "waiting_for_resume", "none", [checkpoint |-> e, input |-> NoInput])
  BY <1>4, LifecyclePark DEF transition, TransitionFence, RowInv, Rows
<1>5. ASSUME NEW to \in Terminal, NEW reason, NEW context, transition(w, e, to, reason, context)
      PROVE  [Lifecycle!Next]_Lifecycle!state
  <2>1. /\ row.status = "running" /\ row'.status = to /\ row'.epoch = row.epoch
        /\ row'.cancel = row.cancel /\ (to = "cancelled" \/ row.cancel = "none")
    BY <1>5 DEF transition, TransitionFence, RowInv, Rows
  <2> QED
    BY <2>1, LifecycleFinish
<1> QED
  BY <1>1, <1>2, <1>3, <1>4, <1>5 DEF ClaimedWrite

\* claimed,
LEMMA LifecycleClaim ==
  ASSUME RowInv, NEW w \in Workers, start_or_reuse(w) \/ claim(w)
  PROVE  Lifecycle!Next
<1>1. /\ row.status \in {"absent", "submitted"} /\ row' = Claimed(row, w)
      /\ row \in Rows /\ row.cancel = "none" /\ row.epoch < MaxEpoch
  BY ConstantsAssumption DEF start_or_reuse, claim, RowInv, ClaimMatchesStatus
<1>2. row'.status = "running" /\ row'.epoch = row.epoch + 1 /\ row'.cancel = "none"
  BY <1>1, ClaimedRow
<1> QED
  BY <1>1, <1>2, LifecycleBegin

\* resumed.
LEMMA LifecycleResume ==
  ASSUME RowInv, NEW w \in Workers, NEW s \in Continuations, resume(w, s, Answered(s))
  PROVE  Lifecycle!Next
<1> DEFINE c == Claimed(row, w)
<1>1. /\ c \in Rows /\ c.status = "running" /\ c.epoch = row.epoch + 1
      /\ c.cancel = row.cancel
  BY ClaimedRow DEF resume, RowInv
<1>2. row' = [c EXCEPT !.context = Answered(s), !.reason = "none"]
  BY DEF resume
<1> HIDE DEF c
<1>3. row'.status = "running" /\ row'.epoch = row.epoch + 1 /\ row'.cancel = row.cancel
  BY <1>1, <1>2 DEF Rows
<1>4. row.status \in Waiting /\ row.cancel = "none"
  BY DEF resume, ResumeFence
<1> QED
  BY <1>3, <1>4, LifecycleBegin

\* Every step of the journal is a step of the lifecycle, or none.
LEMMA LifecycleStep ==
  ASSUME RowInv, [JournalNext]_journal
  PROVE  [Lifecycle!Next]_Lifecycle!state
<1>1. CASE submit
  BY <1>1 DEF submit, Lifecycle!Next, Lifecycle!Submit, Phase, RowInv, Rows
<1>2. CASE fail_submission \/ deny_waiting_approval
  <2>1. /\ row.status \in {"submitted"} \union Waiting /\ row.cancel = "none"
        /\ row'.status = "failed" /\ row'.epoch = row.epoch /\ row'.cancel = row.cancel
    BY <1>2 DEF fail_submission, deny_waiting_approval, RowInv, Rows, ClaimMatchesStatus
  <2> QED
    BY <2>1, LifecycleFinish
<1>3. ASSUME NEW w \in Workers, start_or_reuse(w) \/ claim(w) PROVE Lifecycle!Next
  BY <1>3, LifecycleClaim
<1>4. ASSUME NEW w \in Workers, NEW s \in Continuations, resume(w, s, Answered(s))
      PROVE  Lifecycle!Next
  BY <1>4, LifecycleResume
<1>5. ASSUME NEW w \in Workers, NEW e \in 0 .. MaxEpoch, ClaimedWrite(w, e)
      PROVE  [Lifecycle!Next]_Lifecycle!state
  BY <1>5, LifecycleClaimedWrite
<1>6. ASSUME NEW by \in Requesters, cancel_scoped(by) PROVE Lifecycle!Next
  BY <1>6, LifecycleStop
<1>7. CASE reconcile_abandoned
  <2>1. CASE row.status = "running"
    BY <1>7, <2>1, LifecycleReconcile DEF reconcile_abandoned, Reasons
  <2>2. CASE row.status = "submitted"
    <3>1. ~Resumable
      BY <2>2 DEF Resumable, RowInv, NotYetBound
    <3> QED
      BY <1>7, <2>2, <3>1, LifecycleReconcile DEF reconcile_abandoned, Reasons
  <2>3. CASE row.status \in Waiting
    <3>1. ~Resumable
      BY <1>7, <2>3 DEF reconcile_abandoned, Abandoned, Resumable
    <3> QED
      BY <1>7, <2>3, <3>1, LifecycleReconcile DEF reconcile_abandoned, Reasons
  <2> QED
    BY <1>7, <2>1, <2>2, <2>3 DEF reconcile_abandoned, Abandoned
<1>8. CASE purge_expired_state
  BY <1>8 DEF purge_expired_state, NewRow, Lifecycle!Next, Lifecycle!Forget, Lifecycle!Open,
              Phase, RowInv, Rows, Statuses
<1>9. CASE LeaseLapses \/ RetentionPasses \/ SubmissionGracePasses \/ UNCHANGED journal
  BY <1>9, LifecycleStutter
  DEF LeaseLapses, Lapsed, RetentionPasses, SubmissionGracePasses, journal, RowInv, Rows
<1> QED
  BY <1>1, <1>2, <1>3, <1>4, <1>5, <1>6, <1>7, <1>8, <1>9 DEF JournalNext

\* Every behaviour of store.rs is one the owner was promised: one attempt at a
\* time, none after a cancellation, one outcome that never changes.
THEOREM JournalImplementsLifecycle == JournalSpec => ImplementsLifecycle
<1>1. RowInv /\ [JournalNext]_journal => [Lifecycle!Next]_Lifecycle!state
  BY LifecycleStep
<1>2. JournalInit => Lifecycle!Init
  BY LifecycleInit
<1> QED
  BY <1>1, <1>2, JournalInvariant, PTL DEF JournalSpec, ImplementsLifecycle, Lifecycle!Spec
=============================================================================

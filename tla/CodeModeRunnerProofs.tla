------------------------ MODULE CodeModeRunnerProofs ------------------------
(***************************************************************************)
(* Proofs about the Code Mode runner, for any workers, inputs and bounds:  *)
(* the workers' writes are steps of the journal, and what their awaits     *)
(* leave open is closed by the journal's fences.                           *)
(***************************************************************************)
EXTENDS CodeModeRunner, ExecutionJournalProofs

USE DEF Terminal, Waiting

(***************************************************************************)
(* The workers' locals.                                                    *)
(***************************************************************************)
Awaits   == Attempting \union {"idle", "submitted", "resuming"}
Reads    == [epoch : 0 .. MaxEpoch, context : Contexts, input : Inputs \union {NoInput}]
Verdicts == {"none", "connector_call_succeeded", "connector_call_failed"}
Causes   == {"none"} \union Requesters

LocalTypes ==
  /\ pc \in [Workers -> Awaits] /\ held \in [Workers -> 0 .. MaxEpoch]
  /\ calls \in [Workers -> 0 .. MaxCalls] /\ seen \in [Workers -> Reads]
  /\ verdict \in [Workers -> Verdicts] /\ cause \in [Workers -> Causes]
  /\ ended \in [Workers -> BOOLEAN]

UpstreamTypes ==
  /\ effects \in [Calls -> {"none", "inflight", "applied", "declined"}]
  /\ replayed \subseteq (Checkpoints \X Inputs)

\* What a worker knows at the await it is at.
Attempt(w) ==
  /\ pc[w] \in Attempting => held[w] \in 1 .. MaxEpoch
  /\ pc[w] \in {"started", "confirmed", "inflight", "answered", "reading"} =>
       calls[w] \in 1 .. MaxCalls
  /\ pc[w] = "answered" => verdict[w] \in Outcomes
  /\ pc[w] = "cancelling" => cause[w] \in Requesters
  /\ pc[w] = "resuming" => seen[w] \in Continuations

LocalInv == LocalTypes /\ UpstreamTypes /\ \A w \in Workers : Attempt(w)

\* A step of w leaves the other workers' locals alone.
Others(w) ==
  \A v \in Workers \ {w} :
    /\ pc'[v] = pc[v] /\ held'[v] = held[v] /\ calls'[v] = calls[v] /\ seen'[v] = seen[v]
    /\ verdict'[v] = verdict[v] /\ cause'[v] = cause[v] /\ ended'[v] = ended[v]

\* A worker that gives up: it ends, or goes on to record the failure.
Retreat(w) ==
  \/ pc'[w] = "idle"
  \/ pc'[w] = "failing" /\ held'[w] = held[w] /\ pc[w] \in Attempting

\* The empty read is a read.
LEMMA NothingSeenType == NothingSeen \in Reads
  BY ConstantsAssumption DEF NothingSeen, Reads, Contexts

\* A plain move changes one program counter and nothing else.
LEMMA GotoMoves ==
  ASSUME LocalTypes, NEW w \in Workers, NEW next \in Awaits, Goto(w, next)
  PROVE  /\ LocalTypes' /\ Others(w) /\ pc'[w] = next
         /\ UNCHANGED <<held, calls, seen, verdict, cause, ended>>
  BY DEF LocalTypes, Goto, Others

\* A worker that leaves touches only its own locals.
LEMMA LeaveMoves ==
  ASSUME LocalTypes, NEW w \in Workers, Leave(w)
  PROVE  LocalTypes' /\ Others(w) /\ pc'[w] = "idle"
  BY NothingSeenType, ConstantsAssumption DEF LocalTypes, Leave, Others, Awaits, Verdicts, Causes

\* A failing step ends the worker or sends it to record the failure.
LEMMA FailMoves ==
  ASSUME LocalTypes, NEW w \in Workers, Fail(w)
  PROVE  LocalTypes' /\ Others(w) /\ Retreat(w)
<1>1. CASE pc[w] \in Attempting /\ ~ended[w]
  BY <1>1 DEF LocalTypes, Fail, Others, Retreat, Awaits, Attempting
<1>2. CASE ~(pc[w] \in Attempting /\ ~ended[w])
  BY <1>2, LeaveMoves DEF Fail, Retreat
<1> QED
  BY <1>1, <1>2

\* A worker begins an attempt with the epoch its claim was just given.
LEMMA BeginMoves ==
  ASSUME LocalTypes, NEW w \in Workers, row'.epoch \in 1 .. MaxEpoch, Begin(w)
  PROVE  /\ LocalTypes' /\ Others(w) /\ pc'[w] = "ready" /\ held'[w] = row'.epoch
         /\ calls' = calls
<1>1. row'.epoch \in 0 .. MaxEpoch
  BY ConstantsAssumption
<1> QED
  BY <1>1, NothingSeenType DEF LocalTypes, Begin, Others, Awaits, Attempting

(***************************************************************************)
(* What a step of the system writes to the journal.                        *)
(***************************************************************************)
EffectOutcomes(e) == {x \in Appended(e) : x.kind \in Outcomes /\ x.effect}

\* Under its claim, at the await that the write belongs to.
WorkerWrite(w) ==
  \/ renew(w, held[w]) \/ renew_effect_lease(w, held[w]) \/ interrupt_claimed(w, held[w])
  \/ \E event \in Appended(held[w]) : append_event(w, held[w], event)
  \/ \E event \in EffectOutcomes(held[w]) : append_effect_outcome(w, held[w], event)
  \/ /\ pc[w] = "pausing" /\ pc'[w] \in {"idle", "failing"}
     /\ transition(w, held[w], "waiting_for_resume", "none",
                   [checkpoint |-> held[w], input |-> NoInput])
  \/ /\ pc[w] = "finishing" /\ pc'[w] \in {"idle", "failing"}
     /\ transition(w, held[w], "succeeded", "none", NoContext)
  \/ pc[w] = "failing" /\ transition(w, held[w], "failed", "execution_failed", NoContext)
  \/ pc[w] = "cancelling" /\ transition(w, held[w], "cancelled", cause[w], NoContext)

OtherWrite ==
  \/ submit \/ fail_submission \/ UNCHANGED journal
  \/ \E w \in Workers : start_or_reuse(w) \/ claim(w)
  \/ \E by \in Requesters : cancel_scoped(by)
  \/ deny_waiting_approval \/ reconcile_abandoned \/ purge_expired_state
  \/ LeaseLapses \/ RetentionPasses \/ SubmissionGracePasses

Resumes(w) ==
  /\ pc[w] = "resuming" /\ resume(w, seen[w], Answered(seen[w]))
  /\ replayed' = replayed \union {<<seen[w].context.checkpoint, seen[w].input>>}

Writes ==
  \/ \E w \in Workers : Resumes(w)
  \/ (OtherWrite \/ \E w \in Workers : WorkerWrite(w)) /\ UNCHANGED replayed

\* A call's entry is one a worker may append under its claim.
LEMMA CallEventAppended ==
  ASSUME NEW e, NEW kind \in CallKinds, NEW call \in 1 .. MaxCalls, NEW effect \in BOOLEAN
  PROVE  CallEvent(kind, e, call, effect) \in Appended(e)
  BY DEF Appended

\* Every step of the runner changes the journal by one store method, if at all.
LEMMA EveryStepWrites == ASSUME LocalInv, [Next]_vars PROVE Writes
<1> USE DEF Writes, OtherWrite
<1>1. ASSUME NEW w \in Workers, submit_durable(w) \/ start_detached(w) \/ claim_submitted_durable(w)
                                \/ persist_pre_claim_failure(w)
      PROVE  Writes
  BY <1>1 DEF submit_durable, start_detached, claim_submitted_durable, persist_pre_claim_failure,
              journal
<1>2. ASSUME NEW w \in Workers, NEW input \in Inputs, claim_resume(w, input) PROVE Writes
  BY <1>2 DEF claim_resume, journal
<1>3. ASSUME NEW w \in Workers, NEW effect \in CallEffects, call_frame(w, effect) PROVE Writes
  <2>1. CASE UNCHANGED <<row, events>>
    BY <1>3, <2>1 DEF call_frame, journal
  <2>2. CASE append_event(w, held[w],
               CallEvent("connector_call_started", held[w], calls[w] + 1, effect))
    <3>1. calls[w] + 1 \in 1 .. MaxCalls /\ effect \in BOOLEAN
      BY <1>3, ConstantsAssumption, RunnerAssumption DEF call_frame, LocalInv, LocalTypes
    <3>2. WorkerWrite(w)
      BY <2>2, <3>1, CallEventAppended DEF WorkerWrite, CallKinds
    <3> QED
      BY <1>3, <3>2 DEF call_frame
  <2> QED
    BY <1>3, <2>1, <2>2 DEF call_frame
<1>4. ASSUME NEW w \in Workers, artifact_frame(w) PROVE Writes
  <2>1. CASE append_event(w, held[w], Event("artifact_emitted", held[w]))
    BY <1>4, <2>1 DEF artifact_frame, WorkerWrite, Appended
  <2> QED
    BY <1>4, <2>1 DEF artifact_frame, journal
<1>5. ASSUME NEW w \in Workers, claim_waiting_program(w) PROVE Writes
  BY <1>5 DEF claim_waiting_program, Resumes, journal
<1>6. ASSUME NEW w \in Workers, confirm_claim_before_effect(w) \/ renew_claim_for_effect(w)
      PROVE  Writes
  BY <1>6 DEF confirm_claim_before_effect, renew_claim_for_effect, WorkerWrite
<1>7. ASSUME NEW w \in Workers,
             \/ invoke_connector(w) \/ dispatch_returns(w) \/ last_frame(w)
             \/ wait_for_cancellation(w) \/ finish_requested_cancellation(w)
             \/ read_cancellation_cause(w) \/ StoreError(w) \/ Crash(w)
      PROVE  Writes
  BY <1>7 DEF invoke_connector, dispatch_returns, last_frame, wait_for_cancellation,
              finish_requested_cancellation, read_cancellation_cause, StoreError, Crash, journal
<1>8. ASSUME NEW w \in Workers, append_claimed_effect_outcome(w) PROVE Writes
  <2>1. CASE append_effect_outcome(w, held[w], CallEvent(verdict[w], held[w], calls[w], TRUE))
    <3>1. verdict[w] \in Outcomes /\ calls[w] \in 1 .. MaxCalls
      BY <1>8 DEF append_claimed_effect_outcome, LocalInv, Attempt
    <3>2. CallEvent(verdict[w], held[w], calls[w], TRUE) \in EffectOutcomes(held[w])
      BY <3>1, CallEventAppended DEF EffectOutcomes, CallEvent, CallKinds, Outcomes
    <3>3. WorkerWrite(w)
      BY <2>1, <3>2 DEF WorkerWrite
    <3> QED
      BY <1>8, <3>3 DEF append_claimed_effect_outcome
  <2> QED
    BY <1>8, <2>1 DEF append_claimed_effect_outcome
<1>9. ASSUME NEW w \in Workers, read_returns(w) PROVE Writes
  <2>1. ASSUME NEW kind \in Outcomes,
               append_event(w, held[w], CallEvent(kind, held[w], calls[w], FALSE))
        PROVE  WorkerWrite(w)
    <3>1. kind \in CallKinds /\ calls[w] \in 1 .. MaxCalls
      BY <1>9 DEF read_returns, LocalInv, Attempt, CallKinds, Outcomes
    <3> QED
      BY <2>1, <3>1, CallEventAppended DEF WorkerWrite
  <2> QED
    BY <1>9, <2>1 DEF read_returns, Outcomes
<1>10. ASSUME NEW w \in Workers,
              \/ persist_claimed_pause(w) \/ run_claimed_durable(w)
              \/ persist_claimed_failure(w) \/ persist_claimed_cancellation(w)
       PROVE  Writes
  <2>1. Leave(w) \/ Fail(w) => pc'[w] \in {"idle", "failing"}
    BY LeaveMoves, FailMoves DEF LocalInv, Retreat
  <2> QED
    BY <1>10, <2>1 DEF persist_claimed_pause, run_claimed_durable, persist_claimed_failure,
                       persist_claimed_cancellation, Finish, After, WorkerWrite
<1>11. ASSUME NEW w \in Workers, interrupt_held_claim(w) PROVE Writes
  BY <1>11 DEF interrupt_held_claim, WorkerWrite
<1>12. ASSUME NEW c \in Calls, UpstreamDecides(c) PROVE Writes
  BY <1>12 DEF UpstreamDecides, journal
<1>13. ASSUME NEW by \in Requesters, request_cancellation(by) PROVE Writes
  BY <1>13 DEF request_cancellation
<1>14. CASE DenyApproval \/ reconcile_abandoned_batch \/ Sweep \/ Clock
  BY <1>14 DEF DenyApproval, reconcile_abandoned_batch, Sweep, Clock
<1>15. CASE UNCHANGED vars
  BY <1>15 DEF vars, journal
<1> QED
  BY <1>1, <1>2, <1>3, <1>4, <1>5, <1>6, <1>7, <1>8, <1>9, <1>10, <1>11, <1>12, <1>13, <1>14, <1>15
  DEF Next, WorkerStep

\* Those writes are steps of the journal's specification.
LEMMA WritesAreJournalSteps == ASSUME LocalInv, Writes PROVE [JournalNext]_journal
<1>1. ASSUME NEW w \in Workers, Resumes(w) PROVE JournalNext
  BY <1>1 DEF Resumes, LocalInv, Attempt, JournalNext
<1>2. ASSUME NEW w \in Workers, WorkerWrite(w) PROVE JournalNext
  <2>1. held[w] \in 0 .. MaxEpoch
    BY DEF LocalInv, LocalTypes
  <2>2. EffectOutcomes(held[w]) \subseteq Appended(held[w])
    BY DEF EffectOutcomes
  <2>3. pc[w] = "cancelling" => cause[w] \in Requesters
    BY DEF LocalInv, Attempt
  <2>4. ClaimedWrite(w, held[w])
    BY <1>2, <2>2, <2>3 DEF WorkerWrite, ClaimedWrite
  <2> QED
    BY <2>1, <2>4 DEF JournalNext
<1>3. CASE OtherWrite
  BY <1>3 DEF OtherWrite, JournalNext
<1> QED
  BY <1>1, <1>2, <1>3 DEF Writes

(***************************************************************************)
(* A claim opens a new epoch.                                              *)
(***************************************************************************)
LEMMA ClaimOpens ==
  ASSUME RowInv, NEW w \in Workers, start_or_reuse(w) \/ claim(w)
  PROVE  /\ row.status \in {"absent", "submitted"} /\ row.owner = NoOwner /\ row.epoch = 0
         /\ row'.status = "running" /\ row'.owner = w /\ row'.epoch = 1
         /\ row'.epoch \in 1 .. MaxEpoch /\ row'.cancel = row.cancel
         /\ row'.context = row.context /\ row'.resumable = row.resumable
         /\ row'.reason = row.reason
<1>1. /\ row \in Rows /\ row.status \in {"absent", "submitted"} /\ row.owner = NoOwner
      /\ row.epoch = 0 /\ row' = Claimed(row, w)
  BY DEF start_or_reuse, claim, RowInv, ClaimMatchesStatus
<1>2. 0 < MaxEpoch
  BY ConstantsAssumption
<1>3. row'.resumable = row.resumable /\ row'.reason = row.reason
  BY <1>1 DEF Claimed, Rows
<1> QED
  BY <1>1, <1>2, <1>3, ClaimedRow, ConstantsAssumption

\* What a successful resume found in the row and left there.
LEMMA ResumeOpens ==
  ASSUME RowInv, NEW w \in Workers, NEW s \in Continuations, resume(w, s, Answered(s))
  PROVE  /\ row.status = "waiting_for_resume" /\ row.owner = NoOwner /\ row.context = s.context
         /\ row.cancel = "none" /\ row'.cancel = "none"
         /\ row'.status = "running" /\ row'.owner = w /\ row'.epoch = row.epoch + 1
         /\ row'.epoch \in 1 .. MaxEpoch /\ row'.reason = "none"
         /\ row'.context = Answered(s) /\ row'.resumable = row.resumable
<1> DEFINE c == Claimed(row, w)
<1>1. /\ row \in Rows /\ row.status = "waiting_for_resume" /\ row.owner = NoOwner
      /\ row.context = s.context /\ row.epoch < MaxEpoch /\ row.cancel = "none"
      /\ row' = [c EXCEPT !.context = Answered(s), !.reason = "none"]
  BY DEF resume, ResumeFence, RowInv
<1>2. /\ c \in Rows /\ c.status = "running" /\ c.owner = w /\ c.epoch = row.epoch + 1
      /\ c.cancel = row.cancel
  BY <1>1, ClaimedRow
<1>3. c.resumable = row.resumable
  BY <1>1 DEF Claimed, Rows
<1> HIDE DEF c
<1>4. /\ row'.status = "running" /\ row'.owner = w /\ row'.epoch = row.epoch + 1
      /\ row'.context = Answered(s) /\ row'.resumable = row.resumable
      /\ row'.cancel = row.cancel /\ row'.reason = "none"
  BY <1>1, <1>2, <1>3 DEF Rows
<1>5. row.epoch + 1 \in 1 .. MaxEpoch
  BY <1>1, ConstantsAssumption DEF Rows
<1> QED
  BY <1>1, <1>4, <1>5

(***************************************************************************)
(* The locals keep their types, and their meaning at every await.          *)
(***************************************************************************)
LEMMA AttemptRetreats ==
  ASSUME NEW w \in Workers, Attempt(w), Retreat(w) PROVE Attempt(w)'
  BY DEF Attempt, Retreat, Attempting

\* A step of w keeps LocalInv if it keeps the types and what w knows.
LEMMA LocalMoved ==
  ASSUME LocalInv, NEW w \in Workers, LocalTypes', UpstreamTypes', Others(w), Attempt(w)'
  PROVE  LocalInv'
<1>1. ASSUME NEW v \in Workers, v # w PROVE Attempt(v)'
  BY <1>1 DEF LocalInv, Attempt, Others
<1> QED
  BY <1>1 DEF LocalInv

\* The upstream's side is typed when it does not change.
LEMMA UpstreamKept ==
  ASSUME LocalInv, UNCHANGED <<effects, replayed>> PROVE UpstreamTypes'
  BY DEF LocalInv, UpstreamTypes

\* So is everything when no local changes.
LEMMA LocalKept ==
  ASSUME LocalInv, UNCHANGED <<local, effects, replayed>> PROVE LocalInv'
  BY DEF LocalInv, LocalTypes, UpstreamTypes, Attempt, local

\* Giving up keeps LocalInv.
LEMMA LocalRetreats ==
  ASSUME LocalInv, NEW w \in Workers, Fail(w) \/ Leave(w), UNCHANGED <<effects, replayed>>
  PROVE  LocalInv'
<1>1. LocalTypes' /\ Others(w) /\ Retreat(w)
  BY FailMoves, LeaveMoves DEF LocalInv, Retreat
<1>2. Attempt(w)'
  BY <1>1, AttemptRetreats DEF LocalInv
<1> QED
  BY <1>1, <1>2, LocalMoved, UpstreamKept

\* A move to an await that asks nothing new of the locals.
LEMMA LocalGoes ==
  ASSUME LocalInv, NEW w \in Workers, NEW next \in Awaits, Goto(w, next),
         UNCHANGED replayed, UpstreamTypes',
         next \in Attempting => pc[w] \in Attempting,
         next \in {"confirmed", "inflight"} => pc[w] \in {"started", "confirmed"},
         next \notin {"started", "answered", "reading", "cancelling", "resuming"}
  PROVE  LocalInv'
<1>1. /\ LocalTypes' /\ Others(w) /\ pc'[w] = next
      /\ UNCHANGED <<held, calls, seen, verdict, cause, ended>>
  BY GotoMoves DEF LocalInv
<1>2. Attempt(w)'
  BY <1>1 DEF LocalInv, Attempt
<1> QED
  BY <1>1, <1>2, LocalMoved

\* So does beginning an attempt.
LEMMA LocalBegins ==
  ASSUME LocalInv, NEW w \in Workers, Begin(w), row'.epoch \in 1 .. MaxEpoch, UpstreamTypes'
  PROVE  LocalInv'
<1>1. /\ LocalTypes' /\ Others(w) /\ pc'[w] = "ready" /\ held'[w] = row'.epoch
  BY BeginMoves DEF LocalInv
<1>2. Attempt(w)'
  BY <1>1 DEF Attempt
<1> QED
  BY <1>1, <1>2, LocalMoved

\* LocalInv is preserved, one step per action of the runner.
LEMMA LocalStep == ASSUME RowInv, LocalInv, [Next]_vars PROVE LocalInv'
<1> USE DEF Awaits, Attempting
<1>1. ASSUME NEW w \in Workers, submit_durable(w) PROVE LocalInv'
  BY <1>1, LocalGoes, LocalRetreats, UpstreamKept DEF submit_durable, After
<1>2. ASSUME NEW w \in Workers, start_detached(w) \/ claim_submitted_durable(w) PROVE LocalInv'
  <2>1. CASE start_or_reuse(w) \/ claim(w)
    BY <1>2, <2>1, ClaimOpens, LocalBegins, LocalRetreats, UpstreamKept
    DEF start_detached, claim_submitted_durable, After
  <2> QED
    BY <1>2, <2>1, LocalRetreats DEF start_detached, claim_submitted_durable
<1>3. ASSUME NEW w \in Workers, persist_pre_claim_failure(w) PROVE LocalInv'
  BY <1>3, LocalRetreats DEF persist_pre_claim_failure
<1>4. ASSUME NEW w \in Workers, NEW input \in Inputs, claim_resume(w, input) PROVE LocalInv'
  <2> DEFINE s == [epoch |-> row.epoch, context |-> row.context, input |-> input]
  <2>1. s \in Reads /\ s \in Continuations
    <3>1. /\ row.epoch \in 0 .. MaxEpoch /\ row.context \in Contexts
          /\ row.context # NoContext
      BY <1>4 DEF claim_resume, RowInv, ClaimMatchesStatus, Rows
    <3> QED
      BY <3>1 DEF Reads, Continuations
  <2>2. /\ pc' = [pc EXCEPT ![w] = "resuming"] /\ seen' = [seen EXCEPT ![w] = s]
        /\ UNCHANGED <<held, calls, verdict, cause, ended, effects, replayed>>
    BY <1>4 DEF claim_resume
  <2> HIDE DEF s
  <2>3. LocalTypes' /\ Others(w) /\ pc'[w] = "resuming" /\ seen'[w] = s
    BY <2>1, <2>2 DEF LocalInv, LocalTypes, Others
  <2>4. Attempt(w)'
    BY <2>1, <2>3 DEF Attempt
  <2> QED
    BY <2>2, <2>3, <2>4, LocalMoved, UpstreamKept
<1>5. ASSUME NEW w \in Workers, claim_waiting_program(w) PROVE LocalInv'
  <2>1. seen[w] \in Continuations
    BY <1>5 DEF claim_waiting_program, LocalInv, Attempt
  <2>2. CASE resume(w, seen[w], Answered(seen[w]))
                /\ replayed' = replayed \union {<<seen[w].context.checkpoint, seen[w].input>>}
    <3>1. row'.epoch \in 1 .. MaxEpoch
      BY <2>1, <2>2, ResumeOpens
    <3>2. <<seen[w].context.checkpoint, seen[w].input>> \in Checkpoints \X Inputs
      BY <2>1 DEF Continuations, Contexts
    <3>3. UpstreamTypes'
      BY <1>5, <2>2, <3>2 DEF claim_waiting_program, LocalInv, UpstreamTypes
    <3>4. CASE Begin(w)
      BY <3>1, <3>3, <3>4, LocalBegins
    <3>5. CASE Fail(w)
      <4>1. LocalTypes' /\ Others(w) /\ Retreat(w)
        BY <3>5, FailMoves DEF LocalInv
      <4>2. Attempt(w)'
        BY <4>1, AttemptRetreats DEF LocalInv
      <4> QED
        BY <3>3, <4>1, <4>2, LocalMoved
    <3> QED
      BY <1>5, <2>2, <3>4, <3>5 DEF claim_waiting_program, After, resume
  <2> QED
    BY <1>5, <2>2, LocalRetreats DEF claim_waiting_program
<1>6. ASSUME NEW w \in Workers, NEW effect \in CallEffects, call_frame(w, effect) PROVE LocalInv'
  <2>1. calls[w] + 1 \in 0 .. MaxCalls /\ calls[w] + 1 \in 1 .. MaxCalls
    BY <1>6, ConstantsAssumption DEF call_frame, LocalInv, LocalTypes
  <2>2. PICK next \in {"started", "reading", "failing", "refused"} : pc' = [pc EXCEPT ![w] = next]
    BY <1>6 DEF call_frame
  <2>3. LocalTypes' /\ Others(w) /\ pc'[w] = next /\ calls'[w] = calls[w] + 1 /\ held' = held
    BY <1>6, <2>1, <2>2 DEF call_frame, LocalInv, LocalTypes, Others
  <2>4. Attempt(w)'
    BY <1>6, <2>1, <2>3 DEF call_frame, LocalInv, Attempt
  <2> QED
    BY <1>6, <2>3, <2>4, LocalMoved, UpstreamKept DEF call_frame
<1>7. ASSUME NEW w \in Workers, confirm_claim_before_effect(w) PROVE LocalInv'
  BY <1>7, LocalGoes, LocalRetreats, UpstreamKept DEF confirm_claim_before_effect, After
<1>8. ASSUME NEW w \in Workers, invoke_connector(w) PROVE LocalInv'
  <2>1. UpstreamTypes'
    BY <1>8 DEF invoke_connector, LocalInv, UpstreamTypes
  <2> QED
    BY <1>8, <2>1, LocalGoes DEF invoke_connector
<1>9. ASSUME NEW w \in Workers, dispatch_returns(w) PROVE LocalInv'
  <2>1. PICK o \in Outcomes : verdict' = [verdict EXCEPT ![w] = o]
    BY <1>9 DEF dispatch_returns, Outcomes
  <2>2. LocalTypes' /\ Others(w) /\ pc'[w] = "answered" /\ verdict'[w] = o
    BY <1>9, <2>1 DEF dispatch_returns, LocalInv, LocalTypes, Others, Verdicts, Outcomes
  <2>3. Attempt(w)'
    BY <1>9, <2>2 DEF dispatch_returns, LocalInv, Attempt
  <2> QED
    BY <1>9, <2>2, <2>3, LocalMoved, UpstreamKept DEF dispatch_returns
<1>10. ASSUME NEW w \in Workers, append_claimed_effect_outcome(w) PROVE LocalInv'
  <2>1. CASE Fail(w)
    BY <1>10, <2>1, LocalRetreats DEF append_claimed_effect_outcome
  <2>2. CASE ~Fail(w)
    <3>1. /\ pc' = [pc EXCEPT ![w] = "ready"] /\ verdict' = [verdict EXCEPT ![w] = "none"]
          /\ UNCHANGED <<held, calls, seen, cause, ended>>
      BY <1>10, <2>2 DEF append_claimed_effect_outcome
    <3>2. LocalTypes' /\ Others(w) /\ pc'[w] = "ready"
      BY <3>1 DEF LocalInv, LocalTypes, Others, Verdicts
    <3>3. Attempt(w)'
      BY <1>10, <3>1, <3>2 DEF append_claimed_effect_outcome, LocalInv, Attempt
    <3> QED
      BY <1>10, <3>2, <3>3, LocalMoved, UpstreamKept DEF append_claimed_effect_outcome
  <2> QED
    BY <2>1, <2>2
<1>11. ASSUME NEW w \in Workers, read_returns(w) \/ persist_claimed_pause(w) PROVE LocalInv'
  BY <1>11, LocalGoes, LocalRetreats, UpstreamKept DEF read_returns, persist_claimed_pause, After
<1>12. ASSUME NEW w \in Workers, artifact_frame(w) PROVE LocalInv'
  BY <1>12, LocalGoes, LocalRetreats, LocalKept, UpstreamKept DEF artifact_frame, After
<1>13. ASSUME NEW w \in Workers, last_frame(w) PROVE LocalInv'
  <2>1. CASE /\ pc[w] = "ready" /\ pc' = [pc EXCEPT ![w] = "finishing"]
             /\ ended' = [ended EXCEPT ![w] = TRUE]
             /\ UNCHANGED <<held, calls, seen, verdict, cause>>
    <3>1. LocalTypes' /\ Others(w) /\ pc'[w] = "finishing"
      BY <2>1 DEF LocalInv, LocalTypes, Others
    <3>2. Attempt(w)'
      BY <2>1, <3>1 DEF LocalInv, Attempt
    <3> QED
      BY <1>13, <3>1, <3>2, LocalMoved, UpstreamKept DEF last_frame
  <2> QED
    BY <1>13, <2>1, LocalGoes, LocalRetreats, UpstreamKept DEF last_frame
<1>14. ASSUME NEW w \in Workers,
              \/ wait_for_cancellation(w) \/ finish_requested_cancellation(w)
              \/ run_claimed_durable(w) \/ persist_claimed_failure(w)
              \/ persist_claimed_cancellation(w) \/ StoreError(w) \/ Crash(w)
       PROVE  LocalInv'
  BY <1>14, LocalGoes, LocalRetreats, UpstreamKept
  DEF wait_for_cancellation, finish_requested_cancellation, run_claimed_durable,
      persist_claimed_failure, persist_claimed_cancellation, Finish, StoreError, Crash
<1>15. ASSUME NEW w \in Workers, read_cancellation_cause(w) PROVE LocalInv'
  <2>1. PICK by \in Requesters : cause' = [cause EXCEPT ![w] = by]
    BY <1>15 DEF read_cancellation_cause, Attributed, RowInv, Rows, Cancellations, Requesters
  <2>2. LocalTypes' /\ Others(w) /\ pc'[w] = "cancelling" /\ cause'[w] = by
    BY <1>15, <2>1 DEF read_cancellation_cause, LocalInv, LocalTypes, Others, Causes
  <2>3. Attempt(w)'
    BY <1>15, <2>2 DEF read_cancellation_cause, LocalInv, Attempt
  <2> QED
    BY <1>15, <2>2, <2>3, LocalMoved, UpstreamKept DEF read_cancellation_cause
<1>16. ASSUME NEW w \in Workers, renew_claim_for_effect(w) \/ interrupt_held_claim(w)
       PROVE  LocalInv'
  BY <1>16, LocalKept DEF renew_claim_for_effect, interrupt_held_claim
<1>17. ASSUME NEW c \in Calls, UpstreamDecides(c) PROVE LocalInv'
  <2>1. UpstreamTypes'
    BY <1>17 DEF UpstreamDecides, LocalInv, UpstreamTypes
  <2> QED
    BY <1>17, <2>1 DEF UpstreamDecides, local, LocalInv, LocalTypes, Attempt
<1>18. ASSUME NEW by \in Requesters, request_cancellation(by) PROVE LocalInv'
  BY <1>18, LocalKept DEF request_cancellation
<1>19. CASE DenyApproval \/ reconcile_abandoned_batch \/ Sweep \/ Clock
  BY <1>19, LocalKept DEF DenyApproval, reconcile_abandoned_batch, Sweep, Clock
<1>20. CASE UNCHANGED vars
  BY <1>20, LocalKept DEF vars, local
<1> QED
  BY <1>1, <1>2, <1>3, <1>4, <1>5, <1>6, <1>7, <1>8, <1>9, <1>10, <1>11, <1>12, <1>13, <1>14,
     <1>15, <1>16, <1>17, <1>18, <1>19, <1>20
  DEF Next, WorkerStep

\* It holds initially.
LEMMA LocalInitially == ASSUME Init PROVE LocalInv
<1>1. LocalTypes
  BY NothingSeenType, ConstantsAssumption DEF Init, LocalTypes, Awaits, Verdicts, Causes
<1>2. UpstreamTypes
  BY DEF Init, UpstreamTypes
<1>3. ASSUME NEW w \in Workers PROVE Attempt(w)
  BY DEF Init, Attempt, Attempting
<1> QED
  BY <1>1, <1>2, <1>3 DEF LocalInv

RunnerInv == RowInv /\ EventInv /\ LocalInv

\* The runner starts in its invariant.
LEMMA RunnerInitially == Init => RunnerInv
  BY RowInit, EventInitially, LocalInitially DEF Init, RunnerInv

\* A step of the runner keeps the invariant and is a step of the journal.
LEMMA RunnerStep ==
  ASSUME RunnerInv, [Next]_vars PROVE RunnerInv' /\ Writes /\ [JournalNext]_journal
<1>1. RowInv /\ EventInv /\ LocalInv
  BY DEF RunnerInv
<1>2. Writes /\ [JournalNext]_journal
  BY <1>1, EveryStepWrites, WritesAreJournalSteps
<1>a. Len(events) \in Nat
  BY <1>1 DEF EventInv
<1>3. RowInv'
  BY <1>1, <1>2, <1>a, RowStep
<1>4. EventInv' /\ LocalInv'
  BY <1>1, <1>2, <1>3, EventStep, LocalStep
<1> QED
  BY <1>2, <1>3, <1>4 DEF RunnerInv

\* The workers of mcp_codemode.rs write to the journal only what store.rs
\* lets a claim's holder write: every step of the system is a journal step.
THEOREM RunnerImplementsJournal == Spec => JournalSpec
<1>1. Init => RunnerInv /\ JournalInit
  BY RunnerInitially DEF Init
<1>2. RunnerInv /\ [Next]_vars => RunnerInv' /\ [JournalNext]_journal
  BY RunnerStep
<1> QED
  BY <1>1, <1>2, PTL DEF Spec, JournalSpec

\* RunnerInv always holds.
LEMMA RunnerInvariant == Spec => []RunnerInv
<1>1. Init => RunnerInv
  BY RunnerInitially
<1>2. RunnerInv /\ [Next]_vars => RunnerInv'
  BY RunnerStep
<1> QED
  BY <1>1, <1>2, PTL DEF Spec

(***************************************************************************)
(* How the journal grows, before and after a cancellation.                 *)
(***************************************************************************)
\* The step appends entries of S.
Adds(S) ==
  /\ Len(events) \in Nat /\ Len(events') \in Nat /\ Len(events) <= Len(events')
  /\ \A i \in 1 .. Len(events) : events'[i] = events[i]
  /\ \A i \in (Len(events) + 1) .. Len(events') : events'[i] \in S

Entries == {x \in Events : x.kind # "cancellation_requested"}

Closing ==
  {x \in Events : \/ x.kind \in Outcomes /\ x.effect
                  \/ x.kind \in {"cancelled", "expired", "waiting_for_resume"}}

Purges == row'.status = "purged" /\ row'.cancel = "none" /\ events' = <<>>

Goes == row.cancel = "none" /\ row'.cancel = "none" /\ Adds(Entries)

Closes == row.cancel # "none" /\ row'.cancel = row.cancel /\ Adds(Closing)

\* The first cancellation request, alone or with the entry that ends the run.
Stops ==
  /\ row.cancel = "none" /\ row'.cancel # "none" /\ Adds(Events)
  /\ \A i \in (Len(events) + 2) .. Len(events') : events'[i].kind = "cancelled"

\* Log(t) appends the entries of t.
LEMMA LogEntries ==
  ASSUME EventInv, NEW t \in Seq(Events), Log(t)
  PROVE  /\ Len(events) \in Nat /\ Len(t) \in Nat /\ Len(events') = Len(events) + Len(t)
         /\ \A i \in 1 .. Len(events) : events'[i] = events[i]
         /\ \A i \in 1 .. Len(t) : events'[Len(events) + i] = t[i]
<1>1. events \in Seq(Events) /\ events' = events \o t
  BY DEF EventInv, Log
<1> QED
  BY <1>1

\* Appending entries of S adds entries of S.
LEMMA LogAdds ==
  ASSUME EventInv, NEW S \in SUBSET Events, NEW t \in Seq(S), Log(t) PROVE Adds(S)
<1>1. t \in Seq(Events) /\ \A i \in 1 .. Len(t) : t[i] \in S
  OBVIOUS
<1>2. /\ Len(events) \in Nat /\ Len(t) \in Nat /\ Len(events') = Len(events) + Len(t)
      /\ \A i \in 1 .. Len(events) : events'[i] = events[i]
      /\ \A i \in 1 .. Len(t) : events'[Len(events) + i] = t[i]
  BY <1>1, LogEntries
<1>3. ASSUME NEW i \in (Len(events) + 1) .. Len(events') PROVE events'[i] \in S
  <2>1. i - Len(events) \in 1 .. Len(t) /\ Len(events) + (i - Len(events)) = i
    BY <1>2
  <2> QED
    BY <1>1, <1>2, <2>1
<1> QED
  BY <1>2, <1>3 DEF Adds

\* The same for one entry.
LEMMA LogOneAdds ==
  ASSUME EventInv, NEW S \in SUBSET Events, NEW x \in S, Log(<<x>>) PROVE Adds(S)
<1>1. <<x>> \in Seq(S)
  OBVIOUS
<1> QED
  BY <1>1, LogAdds

\* And for none.
LEMMA NothingAdds ==
  ASSUME EventInv, NEW S \in SUBSET Events, UNCHANGED events PROVE Adds(S)
  BY DEF EventInv, Adds

\* An event of any kind but the cancellation request is an entry.
LEMMA EventEntry ==
  ASSUME NEW k \in EventKinds, k # "cancellation_requested", NEW e \in 0 .. MaxEpoch
  PROVE  Event(k, e) \in Entries
  BY EventType DEF Entries, Event

\* The entries that end or park a run may follow a cancellation.
LEMMA EventClosing ==
  ASSUME NEW k \in {"cancelled", "expired", "waiting_for_resume"}, NEW e \in 0 .. MaxEpoch
  PROVE  Event(k, e) \in Closing
  BY EventType DEF Closing, Event, EventKinds

\* Both are sets of events.
LEMMA Subsets == Entries \in SUBSET Events /\ Closing \in SUBSET Events
  BY DEF Entries, Closing

\* What a worker appends is an entry.
LEMMA AppendedEntry ==
  ASSUME NEW e \in 0 .. MaxEpoch, NEW x \in Appended(e) PROVE x \in Entries
<1>1. CASE x = Event("artifact_emitted", e)
  BY <1>1, EventEntry DEF EventKinds
<1>2. CASE \E kind \in CallKinds, call \in 1 .. MaxCalls, effect \in BOOLEAN :
             x = CallEvent(kind, e, call, effect)
  <2>1. PICK kind \in CallKinds, call \in 1 .. MaxCalls, effect \in BOOLEAN :
          x = CallEvent(kind, e, call, effect)
    BY <1>2
  <2>2. kind \in EventKinds /\ kind # "cancellation_requested" /\ call \in 0 .. MaxCalls
    BY ConstantsAssumption DEF EventKinds, CallKinds
  <2> QED
    BY <2>1, <2>2 DEF CallEvent, Events, Entries
<1> QED
  BY <1>1, <1>2 DEF Appended

\* A cancellation is the first request, or closes a run that has one.
LEMMA CancelGrows ==
  ASSUME RowInv, EventInv, NEW by \in Requesters, cancel_scoped(by)
  PROVE  Closes \/ Stops
<1>1. /\ row \in Rows /\ row.epoch \in 0 .. MaxEpoch
      /\ row'.cancel = Requested(by)
  BY DEF cancel_scoped, RowInv, Rows
<1> DEFINE a == Event("cancellation_requested", row.epoch)
           b == Event("cancelled", row.epoch)
<1>2. a \in Events /\ b \in Events /\ b.kind = "cancelled" /\ b \in Closing
  BY <1>1, EventType, EventClosing DEF EventKinds, Event
<1>3. CASE row.cancel # "none"
  <2>1. row'.cancel = row.cancel
    BY <1>1, <1>3 DEF Requested
  <2>2. CASE NoLiveClaim
    <3>1. events' = events \o (<<>> \o <<b>>)
      BY <1>3, <2>2 DEF cancel_scoped, Log
    <3> HIDE DEF b
    <3>2. <<>> \o <<b>> = <<b>>
      OBVIOUS
    <3>3. Log(<<b>>)
      BY <3>1, <3>2 DEF Log
    <3> QED
      BY <1>2, <1>3, <2>1, <3>3, LogOneAdds, Subsets DEF Closes
  <2>3. CASE ~NoLiveClaim
    <3>1. events' = events \o (<<>> \o <<>>)
      BY <1>3, <2>3 DEF cancel_scoped, Log
    <3>2. events' = events
      BY <3>1 DEF EventInv
    <3> QED
      BY <1>3, <2>1, <3>2, NothingAdds, Subsets DEF Closes
  <2> QED
    BY <2>2, <2>3
<1>4. CASE row.cancel = "none"
  <2>1. row'.cancel # "none"
    BY <1>1, <1>4 DEF Requested, Requesters
  <2>2. CASE NoLiveClaim
    <3> DEFINE t == <<a>> \o <<b>>
    <3>1. Log(t)
      BY <1>4, <2>2 DEF cancel_scoped
    <3> HIDE DEF a, b
    <3>2. t \in Seq(Events) /\ Len(t) = 2 /\ t[2] = b
      BY <1>2
    <3> HIDE DEF t
    <3>4. Adds(Events)
      BY <3>1, <3>2, LogAdds
    <3>5. /\ Len(events) \in Nat /\ Len(events') = Len(events) + 2
          /\ events'[Len(events) + 2] = b
      <4>1. /\ Len(events) \in Nat /\ Len(t) \in Nat /\ Len(events') = Len(events) + Len(t)
            /\ \A i \in 1 .. Len(t) : events'[Len(events) + i] = t[i]
        BY <3>1, <3>2, LogEntries
      <4>2. 2 \in 1 .. Len(t)
        BY <3>2
      <4> QED
        BY <3>2, <4>1, <4>2
    <3> QED
      BY <1>2, <1>4, <2>1, <3>4, <3>5 DEF Stops
  <2>3. CASE ~NoLiveClaim
    <3>1. events' = events \o (<<a>> \o <<>>)
      BY <1>4, <2>3 DEF cancel_scoped, Log
    <3> HIDE DEF a, b
    <3>2. <<a>> \o <<>> = <<a>>
      OBVIOUS
    <3>3. Log(<<a>>)
      BY <3>1, <3>2 DEF Log
    <3>4. Adds(Events)
      BY <1>2, <3>3, LogOneAdds
    <3>5. Len(events) \in Nat /\ Len(events') = Len(events) + 1
      BY <1>2, <3>3 DEF Log, EventInv
    <3> QED
      BY <1>4, <2>1, <3>4, <3>5 DEF Stops
  <2> QED
    BY <2>2, <2>3
<1> QED
  BY <1>3, <1>4

\* A write that leaves log and cancellation alone.
LEMMA QuietGrows ==
  ASSUME EventInv, UNCHANGED events, row'.cancel = row.cancel PROVE Goes \/ Closes
  BY NothingAdds, Subsets DEF Goes, Closes

\* An entry before any cancellation.
LEMMA EntryGrows ==
  ASSUME RowInv, EventInv, row.cancel = "none", row'.cancel = "none",
         NEW k \in EventKinds, k # "cancellation_requested", NEW e \in 0 .. MaxEpoch,
         Log(<<Event(k, e)>>)
  PROVE  Goes
<1> DEFINE x == Event(k, e)
<1>1. x \in Entries
  BY EventEntry
<1> HIDE DEF x
<1>2. Log(<<x>>)
  BY DEF x
<1> QED
  BY <1>1, <1>2, LogOneAdds, Subsets DEF Goes

\* An entry that ends or parks the run, at any time.
LEMMA ClosingGrows ==
  ASSUME RowInv, EventInv, row'.cancel = row.cancel, NEW e \in 0 .. MaxEpoch,
         NEW k \in {"cancelled", "expired", "waiting_for_resume"}, Log(<<Event(k, e)>>)
  PROVE  Goes \/ Closes
<1> DEFINE x == Event(k, e)
<1>1. x \in Entries /\ x \in Closing
  BY EventEntry, EventClosing DEF EventKinds
<1> HIDE DEF x
<1>2. Log(<<x>>)
  BY DEF x
<1> QED
  BY <1>1, <1>2, LogOneAdds, Subsets DEF Goes, Closes

\* Reconciliation ends or parks the run.
LEMMA ReconcileGrows ==
  ASSUME RowInv, EventInv, NEW reason, NEW n, ReconcileTo(reason, n) PROVE Goes \/ Closes
<1>1. row'.cancel = row.cancel /\ row.epoch \in 0 .. MaxEpoch
  BY DEF ReconcileTo, Reconciled, RowInv, Rows
<1>2. CASE Resumable
  BY <1>1, <1>2, ClosingGrows DEF ReconcileTo
<1>3. CASE ~Resumable
  BY <1>1, <1>3, ClosingGrows DEF ReconcileTo
<1> QED
  BY <1>2, <1>3

\* Three entries of a claim.
LEMMA ClaimGrows ==
  ASSUME EventInv, row.cancel = "none", row'.cancel = "none", NEW e \in 0 .. MaxEpoch,
         NEW k \in {"admitted", "claimed"}, NEW l \in {"claimed", "resumed"},
         Log(<<Event(k, e), Event(l, e), Event("running", e)>>)
  PROVE  Goes
<1> DEFINE x == Event(k, e)  y == Event(l, e)  z == Event("running", e)
<1>1. x \in Entries /\ y \in Entries /\ z \in Entries
  BY EventEntry DEF EventKinds
<1>2. Log(<<x, y, z>>)
  OBVIOUS
<1> HIDE DEF x, y, z
<1>3. <<x, y, z>> \in Seq(Entries)
  BY <1>1
<1> QED
  BY <1>2, <1>3, LogAdds, Subsets DEF Goes

\* A run starts before any cancellation.
LEMMA StartGrows ==
  ASSUME RowInv, EventInv, NEW w \in Workers, start_or_reuse(w) PROVE Goes
<1>1. row.cancel = "none" /\ row'.cancel = "none" /\ 0 \in 0 .. MaxEpoch /\ 1 \in 0 .. MaxEpoch
  BY ClaimOpens, ConstantsAssumption DEF start_or_reuse, RowInv, ClaimMatchesStatus
<1> DEFINE t == <<Event("submitted", 0), Event("admitted", 1), Event("claimed", 1),
                  Event("running", 1)>>
<1>2. t \in Seq(Entries)
  BY <1>1, EventEntry DEF EventKinds
<1>3. Log(t)
  BY DEF start_or_reuse
<1> HIDE DEF t
<1> QED
  BY <1>1, <1>2, <1>3, LogAdds, Subsets DEF Goes

\* What a worker writes under its claim: its fence refuses new work after a request.
LEMMA WorkerGrows ==
  ASSUME RowInv, EventInv, LocalInv, NEW w \in Workers, WorkerWrite(w) PROVE Goes \/ Closes
<1>1. held[w] \in 0 .. MaxEpoch
  BY DEF LocalInv, LocalTypes
<1>2. CASE renew(w, held[w]) \/ renew_effect_lease(w, held[w])
  BY <1>2, QuietGrows DEF renew, renew_effect_lease, RowInv, Rows
<1>3. CASE interrupt_claimed(w, held[w])
  BY <1>3, ReconcileGrows DEF interrupt_claimed
<1>4. ASSUME NEW x \in Appended(held[w]), append_event(w, held[w], x) PROVE Goes
  <2>1. row.cancel = "none" /\ row'.cancel = "none" /\ Log(<<x>>)
    BY <1>4 DEF append_event, LiveFence, Lapsed, RowInv, Rows
  <2> QED
    BY <1>1, <2>1, AppendedEntry, LogOneAdds, Subsets DEF Goes
<1>5. ASSUME NEW x \in EffectOutcomes(held[w]), append_effect_outcome(w, held[w], x)
      PROVE  Goes \/ Closes
  <2>1. row' = row /\ Log(<<x>>)
    BY <1>5 DEF append_effect_outcome
  <2>2. x \in Entries /\ x \in Closing
    BY <1>1, AppendedEntry DEF EffectOutcomes, Entries, Closing
  <2> QED
    BY <2>1, <2>2, LogOneAdds, Subsets DEF Goes, Closes
<1>6. CASE transition(w, held[w], "waiting_for_resume", "none",
                      [checkpoint |-> held[w], input |-> NoInput])
  <2>1. row'.cancel = row.cancel /\ Log(<<Event("waiting_for_resume", held[w])>>)
    BY <1>6 DEF transition, RowInv, Rows
  <2> QED
    BY <1>1, <2>1, ClosingGrows
<1>7. ASSUME NEW to \in {"succeeded", "failed"}, NEW reason, NEW context,
             transition(w, held[w], to, reason, context)
      PROVE  Goes
  <2>1. row.cancel = "none" /\ row'.cancel = row.cancel /\ Log(<<Event(to, held[w])>>)
    BY <1>7 DEF transition, TransitionFence, RowInv, Rows
  <2> QED
    BY <1>1, <2>1, EntryGrows DEF EventKinds
<1>8. CASE transition(w, held[w], "cancelled", cause[w], NoContext)
  <2>1. row'.cancel = row.cancel /\ Log(<<Event("cancelled", held[w])>>)
    BY <1>8 DEF transition, RowInv, Rows
  <2> QED
    BY <1>1, <2>1, ClosingGrows
<1> QED
  BY <1>2, <1>3, <1>4, <1>5, <1>6, <1>7, <1>8 DEF WorkerWrite

\* What everyone else writes.
LEMMA OthersGrow ==
  ASSUME RowInv, EventInv, OtherWrite PROVE Purges \/ Goes \/ Closes \/ Stops
<1>1. CASE submit
  <2>1. /\ row.cancel = "none" /\ row'.cancel = row.cancel /\ 0 \in 0 .. MaxEpoch
        /\ Log(<<Event("submitted", 0)>>)
    BY <1>1, ConstantsAssumption DEF submit, RowInv, Rows, ClaimMatchesStatus
  <2> QED
    BY <2>1, EntryGrows DEF EventKinds
<1>2. CASE fail_submission \/ deny_waiting_approval
  <2>1. /\ row.cancel = "none" /\ row'.cancel = row.cancel /\ row.epoch \in 0 .. MaxEpoch
        /\ Log(<<Event("failed", row.epoch)>>)
    BY <1>2 DEF fail_submission, deny_waiting_approval, RowInv, Rows, ClaimMatchesStatus
  <2> QED
    BY <2>1, EntryGrows DEF EventKinds
<1>3. ASSUME NEW w \in Workers, start_or_reuse(w) PROVE Goes
  BY <1>3, StartGrows
<1>4. ASSUME NEW w \in Workers, claim(w) PROVE Goes
  <2>1. /\ row.cancel = "none" /\ row'.cancel = "none" /\ row.epoch + 1 \in 0 .. MaxEpoch
    BY <1>4, ClaimOpens, ConstantsAssumption DEF claim, RowInv, ClaimMatchesStatus
  <2> QED
    BY <1>4, <2>1, ClaimGrows DEF claim
<1>5. ASSUME NEW by \in Requesters, cancel_scoped(by) PROVE Closes \/ Stops
  BY <1>5, CancelGrows
<1>6. CASE reconcile_abandoned
  BY <1>6, ReconcileGrows DEF reconcile_abandoned
<1>7. CASE purge_expired_state
  BY <1>7 DEF purge_expired_state, NewRow, Purges
<1>8. CASE LeaseLapses \/ RetentionPasses \/ SubmissionGracePasses \/ UNCHANGED journal
  BY <1>8, QuietGrows
  DEF LeaseLapses, Lapsed, RetentionPasses, SubmissionGracePasses, journal, RowInv, Rows
<1> QED
  BY <1>1, <1>2, <1>3, <1>4, <1>5, <1>6, <1>7, <1>8 DEF OtherWrite

\* Every write is one of the four.
LEMMA JournalGrows ==
  ASSUME RunnerInv, Writes PROVE Purges \/ Goes \/ Closes \/ Stops
<1>1. RowInv /\ EventInv /\ LocalInv
  BY DEF RunnerInv
<1>2. ASSUME NEW w \in Workers, Resumes(w) PROVE Goes
  <2>1. seen[w] \in Continuations /\ resume(w, seen[w], Answered(seen[w]))
    BY <1>1, <1>2 DEF Resumes, LocalInv, Attempt
  <2>2. /\ row.cancel = "none" /\ row'.cancel = "none" /\ row.epoch + 1 \in 0 .. MaxEpoch
    BY <1>1, <2>1, ResumeOpens, ConstantsAssumption
  <2> QED
    BY <1>1, <2>1, <2>2, ClaimGrows DEF resume
<1> QED
  BY <1>1, <1>2, WorkerGrows, OthersGrow DEF Writes

\* Entries stay where they are, unless retention deletes the whole run.
Grows == Adds(Events) \/ Purges

\* Adding entries of S is adding events.
LEMMA AddsMore ==
  ASSUME NEW S \in SUBSET Events, Adds(S) PROVE Adds(Events)
  BY DEF Adds

\* The log only grows and the first request stays, unless the row is deleted.
LEMMA EveryStepGrows ==
  ASSUME RunnerInv, Writes
  PROVE  /\ Grows
         /\ row'.status # "purged" /\ row.cancel # "none" => row'.cancel = row.cancel
<1>1. Purges \/ Goes \/ Closes \/ Stops
  BY JournalGrows
<1> QED
  BY <1>1, AddsMore, Subsets DEF Grows, Purges, Goes, Closes, Stops

\* A purged row stays purged.
LEMMA PurgedStays ==
  ASSUME RowInv, [JournalNext]_journal, row.status = "purged" PROVE row'.status = "purged"
<1>1. row.owner = NoOwner /\ row.lease = "none" /\ row \in Rows
  BY DEF RowInv, ClaimMatchesStatus
<1>2. ASSUME NEW w \in Workers, NEW e \in 0 .. MaxEpoch PROVE ~ClaimedWrite(w, e)
  <2>1. ~HasClaim(w, e)
    BY <1>1, ConstantsAssumption DEF HasClaim
  <2> QED
    BY <2>1 DEF ClaimedWrite, renew, renew_effect_lease, interrupt_claimed, append_event,
                append_effect_outcome, transition, LiveFence, EffectFence, TransitionFence
<1> QED
  BY <1>1, <1>2
  DEF JournalNext, journal, submit, fail_submission, start_or_reuse, claim, resume, ResumeFence,
      cancel_scoped, deny_waiting_approval, reconcile_abandoned, Abandoned, purge_expired_state,
      LeaseLapses, RetentionPasses, SubmissionGracePasses, Rows

(***************************************************************************)
(* What a step does to a worker.  Most steps are calm: whoever moves ends, *)
(* is refused, or goes on to record a failure.                             *)
(***************************************************************************)
Resting == {"idle", "submitted", "failing", "refused"}

SameEffects == \A c \in Calls : effects'[c] = "none" <=> effects[c] = "none"

Calm ==
  /\ SameEffects
  /\ \A v \in Workers :
       \/ pc'[v] \in Resting
       \/ /\ pc'[v] = pc[v] /\ held'[v] = held[v] /\ calls'[v] = calls[v]
          /\ seen'[v] = seen[v] /\ cause'[v] = cause[v]

\* It advances under its claim, with the count of its calls.
Advances(w, from, to) ==
  /\ Others(w) /\ pc[w] = from /\ pc'[w] = to /\ held'[w] = held[w]
  /\ UNCHANGED replayed

Begins(w) ==
  /\ start_or_reuse(w) \/ claim(w) \/ Resumes(w)
  /\ Others(w) /\ pc'[w] = "ready" /\ held'[w] = row'.epoch /\ UNCHANGED effects

Asks(w) ==
  /\ Others(w) /\ pc'[w] = "resuming" /\ seen'[w].context.input \in {NoInput, seen'[w].input}
  /\ UNCHANGED <<row, events, effects, replayed>>

Starts(w) ==
  /\ \/ /\ Advances(w, "ready", "started")
        /\ Log(<<CallEvent("connector_call_started", held[w], calls'[w], TRUE)>>)
     \/ Advances(w, "ready", "reading")
  /\ calls'[w] \in 1 .. MaxCalls /\ row' \in {row, Lapsed} /\ UNCHANGED effects

Confirms(w) ==
  Advances(w, "started", "confirmed") /\ renew(w, held[w]) /\ UNCHANGED <<calls, effects>>

Dispatches(w) ==
  /\ Advances(w, "confirmed", "inflight") /\ effects' = [effects EXCEPT ![CallOf(w)] = "inflight"]
  /\ UNCHANGED <<row, events, calls>>

Returns(w) ==
  Advances(w, "inflight", "answered") /\ UNCHANGED <<row, events, calls, effects>>

Records(w) ==
  /\ Advances(w, "answered", "ready") /\ UNCHANGED <<row, calls, effects>>
  /\ Log(<<CallEvent(verdict[w], held[w], calls[w], TRUE)>>)

Continues(w) ==
  /\ \/ Advances(w, "reading", "ready")
     \/ Advances(w, "ready", "pausing") \/ Advances(w, "ready", "finishing")
  /\ row' \in {row, Lapsed} /\ UNCHANGED <<calls, effects>>

Notices(w) ==
  /\ Advances(w, "ready", "reading_cause") \/ Advances(w, "refused", "reading_cause")
  /\ row.status # "purged" /\ row.cancel # "none" /\ UNCHANGED <<row, events, effects>>

Learns(w) ==
  /\ Advances(w, "reading_cause", "cancelling")
  /\ row.cancel # "none" => cause'[w] = Attributed(row.cancel)
  /\ UNCHANGED <<row, events, effects>>

Moves(w) ==
  \/ Begins(w) \/ Asks(w) \/ Starts(w) \/ Confirms(w) \/ Dispatches(w) \/ Returns(w)
  \/ Records(w) \/ Continues(w) \/ Notices(w) \/ Learns(w)

\* Giving up dispatches nothing.
LEMMA RetreatIsCalm ==
  ASSUME LocalInv, NEW w \in Workers, Fail(w) \/ Leave(w), UNCHANGED effects PROVE Calm
<1>1. Others(w) /\ Retreat(w)
  BY FailMoves, LeaveMoves DEF LocalInv, Retreat
<1> QED
  BY <1>1 DEF Others, Retreat, Calm, SameEffects, Resting

\* Neither does moving to an await without a claim's work.
LEMMA RestIsCalm ==
  ASSUME LocalInv, NEW w \in Workers, NEW next \in Resting, Goto(w, next), UNCHANGED effects
  PROVE  Calm
<1>1. next \in Awaits
  BY DEF Resting, Awaits, Attempting
<1>2. Others(w) /\ pc'[w] = next
  BY <1>1, GotoMoves DEF LocalInv
<1> QED
  BY <1>2 DEF Others, Calm, SameEffects

\* Nor a step of someone else.
LEMMA StillIsCalm ==
  ASSUME UNCHANGED <<local, effects>> PROVE Calm
  BY DEF local, Calm, SameEffects

\* A move inside the broker loop keeps the claim and the call.
LEMMA GoesOn ==
  ASSUME LocalInv, NEW w \in Workers, NEW next \in Awaits, Goto(w, next), UNCHANGED replayed
  PROVE  Advances(w, pc[w], next) /\ UNCHANGED <<calls, cause>>
  BY GotoMoves DEF LocalInv, Advances

\* Every step of the runner is calm or one of the moves, one step per action.
LEMMA EveryStepMoves ==
  ASSUME RunnerInv, [Next]_vars PROVE Calm \/ \E w \in Workers : Moves(w)
<1> USE DEF Awaits, Attempting, Resting
<1>a. LocalInv /\ RowInv
  BY DEF RunnerInv
<1>1. ASSUME NEW w \in Workers, submit_durable(w) \/ persist_pre_claim_failure(w) PROVE Calm
  BY <1>1, <1>a, RetreatIsCalm, RestIsCalm DEF submit_durable, persist_pre_claim_failure, After
<1>2. ASSUME NEW w \in Workers, start_detached(w) \/ claim_submitted_durable(w)
      PROVE  Calm \/ Begins(w)
  <2>1. CASE (start_or_reuse(w) \/ claim(w)) /\ Begin(w)
    <3>1. row'.epoch \in 1 .. MaxEpoch
      BY <1>a, <2>1, ClaimOpens
    <3>2. Others(w) /\ pc'[w] = "ready" /\ held'[w] = row'.epoch
      BY <1>a, <2>1, <3>1, BeginMoves DEF LocalInv
    <3> QED
      BY <1>2, <2>1, <3>2 DEF Begins, start_detached, claim_submitted_durable
  <2> QED
    BY <1>2, <1>a, <2>1, RetreatIsCalm DEF start_detached, claim_submitted_durable, After
<1>3. ASSUME NEW w \in Workers, NEW input \in Inputs, claim_resume(w, input) PROVE Asks(w)
  BY <1>3, <1>a DEF claim_resume, Asks, LocalInv, LocalTypes, Others
<1>4. ASSUME NEW w \in Workers, claim_waiting_program(w) PROVE Calm \/ Begins(w)
  <2>1. CASE Resumes(w) /\ Begin(w)
    <3>1. row'.epoch \in 1 .. MaxEpoch
      BY <1>a, <2>1, ResumeOpens DEF Resumes, LocalInv, Attempt
    <3>2. Others(w) /\ pc'[w] = "ready" /\ held'[w] = row'.epoch
      BY <1>a, <2>1, <3>1, BeginMoves DEF LocalInv
    <3> QED
      BY <1>4, <2>1, <3>2 DEF Begins, claim_waiting_program
  <2> QED
    BY <1>4, <1>a, <2>1, RetreatIsCalm DEF claim_waiting_program, After, Resumes
<1>5. ASSUME NEW w \in Workers, NEW effect \in CallEffects, call_frame(w, effect)
      PROVE  Calm \/ Starts(w)
  <2>1. calls[w] + 1 \in 1 .. MaxCalls /\ calls'[w] = calls[w] + 1 /\ pc[w] = "ready"
    BY <1>5, <1>a, ConstantsAssumption DEF call_frame, LocalInv, LocalTypes
  <2>2. Others(w) /\ held'[w] = held[w] /\ UNCHANGED <<effects, replayed>>
    BY <1>5, <1>a DEF call_frame, LocalInv, LocalTypes, Others
  <2>3. CASE pc' = [pc EXCEPT ![w] = IF effect THEN "started" ELSE "reading"]
    <3>1. append_event(w, held[w],
            CallEvent("connector_call_started", held[w], calls[w] + 1, effect))
      BY <1>5, <1>a, <2>3 DEF call_frame, LocalInv, LocalTypes
    <3>2. /\ Log(<<CallEvent("connector_call_started", held[w], calls'[w], effect)>>)
          /\ row' \in {row, Lapsed}
      BY <2>1, <3>1 DEF append_event
    <3>3. CASE effect = TRUE
      <4>1. pc'[w] = "started"
        BY <1>a, <2>3, <3>3 DEF LocalInv, LocalTypes
      <4>2. Log(<<CallEvent("connector_call_started", held[w], calls'[w], TRUE)>>)
        BY <3>2, <3>3
      <4> QED
        BY <2>1, <2>2, <3>2, <4>1, <4>2 DEF Starts, Advances
    <3>4. CASE effect = FALSE
      <4>1. pc'[w] = "reading"
        BY <1>a, <2>3, <3>4 DEF LocalInv, LocalTypes
      <4> QED
        BY <2>1, <2>2, <3>2, <4>1 DEF Starts, Advances
    <3> QED
      BY <3>3, <3>4, RunnerAssumption
  <2>4. CASE ~(pc' = [pc EXCEPT ![w] = IF effect THEN "started" ELSE "reading"])
    <3>1. pc'[w] \in {"failing", "refused"}
      BY <1>5, <1>a, <2>4 DEF call_frame, LocalInv, LocalTypes
    <3> QED
      BY <2>2, <3>1 DEF Calm, SameEffects, Others
  <2> QED
    BY <2>3, <2>4
<1>6. ASSUME NEW w \in Workers, confirm_claim_before_effect(w) PROVE Calm \/ Confirms(w)
  <2>1. CASE renew(w, held[w]) /\ Goto(w, "confirmed")
    BY <1>6, <1>a, <2>1, GoesOn DEF confirm_claim_before_effect, Confirms
  <2> QED
    BY <1>6, <1>a, <2>1, RetreatIsCalm, RestIsCalm DEF confirm_claim_before_effect, After
<1>7. ASSUME NEW w \in Workers, invoke_connector(w) PROVE Dispatches(w)
  BY <1>7, <1>a, GoesOn DEF invoke_connector, Dispatches
<1>8. ASSUME NEW w \in Workers, dispatch_returns(w) PROVE Returns(w)
  BY <1>8, <1>a DEF dispatch_returns, Returns, Advances, LocalInv, LocalTypes, Others
<1>9. ASSUME NEW w \in Workers, append_claimed_effect_outcome(w) PROVE Calm \/ Records(w)
  <2>1. CASE Fail(w)
    BY <1>9, <1>a, <2>1, RetreatIsCalm DEF append_claimed_effect_outcome
  <2>2. CASE ~Fail(w)
    <3>1. /\ pc' = [pc EXCEPT ![w] = "ready"] /\ verdict' = [verdict EXCEPT ![w] = "none"]
          /\ UNCHANGED <<held, calls, seen, cause, ended>>
          /\ append_effect_outcome(w, held[w], CallEvent(verdict[w], held[w], calls[w], TRUE))
      BY <1>9, <2>2 DEF append_claimed_effect_outcome
    <3>2. Advances(w, "answered", "ready")
      BY <1>9, <1>a, <3>1
      DEF append_claimed_effect_outcome, Advances, LocalInv, LocalTypes, Others
    <3> QED
      BY <1>9, <3>1, <3>2 DEF append_claimed_effect_outcome, Records, append_effect_outcome
  <2> QED
    BY <2>1, <2>2
<1>10. ASSUME NEW w \in Workers, read_returns(w) PROVE Calm \/ Continues(w)
  <2>1. CASE Goto(w, "ready")
    <3>1. Advances(w, "reading", "ready") /\ UNCHANGED <<calls, effects>>
      BY <1>10, <1>a, <2>1, GoesOn DEF read_returns
    <3>2. row' \in {row, Lapsed}
      BY <1>10 DEF read_returns, append_event, journal
    <3> QED
      BY <3>1, <3>2 DEF Continues
  <2> QED
    BY <1>10, <1>a, <2>1, RetreatIsCalm, RestIsCalm DEF read_returns, After
<1>11. ASSUME NEW w \in Workers, artifact_frame(w) PROVE Calm
  BY <1>11, <1>a, RetreatIsCalm, RestIsCalm, StillIsCalm DEF artifact_frame, After
<1>12. ASSUME NEW w \in Workers, last_frame(w) PROVE Calm \/ Continues(w)
  <2>1. CASE pc[w] = "ready" /\ Goto(w, "pausing")
    BY <1>12, <1>a, <2>1, GoesOn DEF last_frame, Continues
  <2>2. CASE /\ pc[w] = "ready" /\ pc' = [pc EXCEPT ![w] = "finishing"]
             /\ ended' = [ended EXCEPT ![w] = TRUE]
             /\ UNCHANGED <<held, calls, seen, verdict, cause>>
    <3>1. Advances(w, "ready", "finishing")
      BY <1>12, <1>a, <2>2 DEF last_frame, Advances, LocalInv, LocalTypes, Others
    <3> QED
      BY <1>12, <2>2, <3>1 DEF last_frame, Continues
  <2> QED
    BY <1>12, <1>a, <2>1, <2>2, RetreatIsCalm DEF last_frame
<1>13. ASSUME NEW w \in Workers, wait_for_cancellation(w) \/ finish_requested_cancellation(w)
       PROVE  Calm \/ Notices(w)
  <2>1. CASE Goto(w, "reading_cause") /\ row.status # "purged" /\ row.cancel # "none"
    BY <1>13, <1>a, <2>1, GoesOn
    DEF wait_for_cancellation, finish_requested_cancellation, Notices
  <2> QED
    BY <1>13, <1>a, <2>1, RetreatIsCalm
    DEF wait_for_cancellation, finish_requested_cancellation
<1>14. ASSUME NEW w \in Workers, read_cancellation_cause(w) PROVE Learns(w)
  BY <1>14, <1>a DEF read_cancellation_cause, Learns, Advances, LocalInv, LocalTypes, Others
<1>15. ASSUME NEW w \in Workers,
              \/ persist_claimed_pause(w) \/ run_claimed_durable(w)
              \/ persist_claimed_failure(w) \/ persist_claimed_cancellation(w)
              \/ StoreError(w) \/ Crash(w)
       PROVE  Calm
  BY <1>15, <1>a, RetreatIsCalm, RestIsCalm
  DEF persist_claimed_pause, run_claimed_durable, persist_claimed_failure,
      persist_claimed_cancellation, Finish, StoreError, Crash, After
<1>16. ASSUME NEW w \in Workers, renew_claim_for_effect(w) \/ interrupt_held_claim(w) PROVE Calm
  BY <1>16, StillIsCalm DEF renew_claim_for_effect, interrupt_held_claim
<1>17. ASSUME NEW c \in Calls, UpstreamDecides(c) PROVE Calm
  BY <1>17, <1>a DEF UpstreamDecides, local, Calm, SameEffects, LocalInv, UpstreamTypes
<1>18. ASSUME NEW by \in Requesters, request_cancellation(by) PROVE Calm
  BY <1>18, StillIsCalm DEF request_cancellation
<1>19. CASE DenyApproval \/ reconcile_abandoned_batch \/ Sweep \/ Clock \/ UNCHANGED vars
  BY <1>19, StillIsCalm DEF DenyApproval, reconcile_abandoned_batch, Sweep, Clock, vars, local
<1> QED
  BY <1>1, <1>2, <1>3, <1>4, <1>5, <1>6, <1>7, <1>8, <1>9, <1>10, <1>11, <1>12, <1>13, <1>14,
     <1>15, <1>16, <1>17, <1>18, <1>19
  DEF Next, WorkerStep, Moves

(***************************************************************************)
(* Nothing starts after a cancellation, and its cause is kept.             *)
(***************************************************************************)
\* A journaled request is on the row too.
RequestKnown ==
  \A i \in 1 .. Len(events) : events[i].kind = "cancellation_requested" => row.cancel # "none"

\* A worker that goes on to cancel saw a request, and read back its cause,
\* unless the row has been deleted since.
CauseKnown(w) ==
  row.status # "purged" =>
    /\ pc[w] \in {"reading_cause", "cancelling"} => row.cancel # "none"
    /\ pc[w] = "cancelling" => cause[w] = Attributed(row.cancel)

CancelInv ==
  /\ RequestKnown /\ NothingStartsAfterCancellation /\ CancelledNamesRequester
  /\ \A w \in Workers : CauseKnown(w)

\* A known request stays known and nothing starts behind it.
LEMMA StopStep ==
  ASSUME RunnerInv, RunnerInv', Writes, RequestKnown, NothingStartsAfterCancellation
  PROVE  RequestKnown' /\ NothingStartsAfterCancellation'
<1>1. Purges \/ Goes \/ Closes \/ Stops
  BY JournalGrows
<1>2. CASE Purges
  BY <1>2 DEF Purges, RequestKnown, NothingStartsAfterCancellation
<1>3. CASE Goes
  <2>1. \A i \in 1 .. Len(events') : events'[i].kind # "cancellation_requested"
    BY <1>3 DEF Goes, Adds, Entries, RequestKnown
  <2> QED
    BY <2>1 DEF RequestKnown, NothingStartsAfterCancellation
<1>4. CASE Closes
  <2>1. RequestKnown'
    BY <1>4 DEF Closes, RequestKnown
  <2>2. ASSUME NEW i \in 1 .. Len(events'), NEW j \in 1 .. Len(events'), i < j,
               events'[i].kind = "cancellation_requested"
        PROVE  \/ events'[j].kind \in Outcomes /\ events'[j].effect
               \/ events'[j].kind \in {"cancelled", "expired", "waiting_for_resume"}
    <3>1. CASE j <= Len(events)
      BY <1>4, <2>2, <3>1 DEF Closes, Adds, NothingStartsAfterCancellation
    <3>2. CASE j > Len(events)
      BY <1>4, <2>2, <3>2 DEF Closes, Adds, Closing
    <3> QED
      BY <1>4, <3>1, <3>2 DEF Closes, Adds
  <2> QED
    BY <2>1, <2>2 DEF NothingStartsAfterCancellation
<1>5. CASE Stops
  <2>1. RequestKnown'
    BY <1>5 DEF Stops, RequestKnown
  <2>2. ASSUME NEW i \in 1 .. Len(events'), NEW j \in 1 .. Len(events'), i < j,
               events'[i].kind = "cancellation_requested"
        PROVE  events'[j].kind = "cancelled"
    <3>1. i > Len(events)
      BY <1>5, <2>2 DEF Stops, Adds, RequestKnown
    <3> QED
      BY <1>5, <2>2, <3>1 DEF Stops, Adds
  <2> QED
    BY <2>1, <2>2 DEF NothingStartsAfterCancellation
<1> QED
  BY <1>1, <1>2, <1>3, <1>4, <1>5

\* The cause a worker read is still the row's: requests are never overwritten.
LEMMA CauseStep ==
  ASSUME RunnerInv, RunnerInv', [Next]_vars, \A w \in Workers : CauseKnown(w),
         NEW v \in Workers
  PROVE  CauseKnown(v)'
<1> SUFFICES ASSUME row'.status # "purged" PROVE CauseKnown(v)'
  BY DEF CauseKnown
<1>1. /\ Writes /\ RowInv /\ [JournalNext]_journal
      /\ row.cancel # "none" => row'.cancel = row.cancel
      /\ row.status # "purged"
  BY RunnerStep, EveryStepGrows, PurgedStays DEF RunnerInv
<1>2. ASSUME \/ pc'[v] \notin {"reading_cause", "cancelling"}
             \/ pc'[v] = pc[v] /\ cause'[v] = cause[v]
      PROVE  CauseKnown(v)'
  BY <1>1, <1>2 DEF CauseKnown
<1>3. CASE Calm
  BY <1>2, <1>3 DEF Calm, Resting
<1>4. ASSUME NEW w \in Workers, Moves(w) PROVE CauseKnown(v)'
  <2>1. Others(w)
    BY <1>4 DEF Moves, Begins, Asks, Starts, Confirms, Dispatches, Returns, Records, Continues,
                Notices, Learns, Advances
  <2>2. CASE v # w
    BY <1>2, <2>1, <2>2 DEF Others
  <2>3. CASE v = w /\ Notices(w)
    BY <2>3 DEF Notices, Advances, CauseKnown
  <2>4. CASE v = w /\ Learns(w)
    BY <1>1, <2>4 DEF Learns, Advances, CauseKnown
  <2>5. CASE v = w /\ ~Notices(w) /\ ~Learns(w)
    <3>1. pc'[w] \notin {"reading_cause", "cancelling"}
      BY <1>4, <2>5 DEF Moves, Begins, Asks, Starts, Confirms, Dispatches, Returns, Records,
                        Continues, Advances
    <3> QED
      BY <1>2, <2>5, <3>1
  <2> QED
    BY <2>2, <2>3, <2>4, <2>5
<1> QED
  BY <1>3, <1>4, EveryStepMoves

\* Who may write `cancelled`, and with which cause.
LEMMA CancelledBy ==
  ASSUME RunnerInv, Writes, row'.status = "cancelled"
  PROVE  \/ row.status = "cancelled" /\ row'.reason = row.reason /\ row'.cancel = row.cancel
         \/ row'.reason = Attributed(row'.cancel)
         \/ \E w \in Workers : /\ pc[w] = "cancelling" /\ row'.reason = cause[w]
                               /\ row'.cancel = row.cancel /\ row.status # "purged"
<1>1. RowInv /\ LocalInv /\ row \in Rows
  BY DEF RunnerInv, RowInv
<1>2. ASSUME NEW w \in Workers, WorkerWrite(w)
      PROVE  \/ row.status = "cancelled" /\ row'.reason = row.reason /\ row'.cancel = row.cancel
             \/ /\ pc[w] = "cancelling" /\ row'.reason = cause[w]
                /\ row'.cancel = row.cancel /\ row.status # "purged"
  <2>1. CASE pc[w] = "cancelling" /\ transition(w, held[w], "cancelled", cause[w], NoContext)
    BY <1>1, <2>1 DEF transition, TransitionFence, Rows
  <2>2. CASE interrupt_claimed(w, held[w])
    <3>1. row'.status \in {"waiting_for_resume", "expired"}
      BY <1>1, <2>2 DEF interrupt_claimed, ReconcileTo, Reconciled, Rows
    <3> QED
      BY <3>1
  <2>3. CASE renew(w, held[w]) \/ renew_effect_lease(w, held[w])
    BY <1>1, <2>3 DEF renew, renew_effect_lease, Rows
  <2>4. CASE \/ \E event \in Appended(held[w]) : append_event(w, held[w], event)
             \/ \E event \in EffectOutcomes(held[w]) : append_effect_outcome(w, held[w], event)
    BY <1>1, <2>4 DEF append_event, append_effect_outcome, Lapsed, Rows
  <2>5. ASSUME NEW to \in {"waiting_for_resume", "succeeded", "failed"}, NEW reason, NEW context,
               transition(w, held[w], to, reason, context)
        PROVE  row'.status # "cancelled"
    BY <1>1, <2>5 DEF transition, Rows
  <2> QED
    BY <1>2, <2>1, <2>2, <2>3, <2>4, <2>5 DEF WorkerWrite
<1>3. ASSUME NEW w \in Workers, Resumes(w) PROVE FALSE
  BY <1>1, <1>3, ResumeOpens DEF Resumes, LocalInv, Attempt
<1>4. ASSUME NEW w \in Workers, start_or_reuse(w) \/ claim(w) PROVE FALSE
  BY <1>1, <1>4, ClaimOpens
<1>5. ASSUME NEW by \in Requesters, cancel_scoped(by) PROVE row'.reason = Attributed(row'.cancel)
  <2>1. NoLiveClaim
    BY <1>1, <1>5 DEF cancel_scoped, RowInv, ClaimMatchesStatus, Rows
  <2> QED
    BY <1>1, <1>5, <2>1 DEF cancel_scoped, Rows
<1>6. CASE reconcile_abandoned
  <2>1. row'.status \in {"waiting_for_resume", "expired"}
    BY <1>1, <1>6 DEF reconcile_abandoned, ReconcileTo, Reconciled, Rows
  <2> QED
    BY <2>1
<1>7. CASE submit \/ fail_submission \/ deny_waiting_approval \/ purge_expired_state
  BY <1>1, <1>7 DEF submit, fail_submission, deny_waiting_approval, purge_expired_state, NewRow,
                    Rows
<1>8. CASE LeaseLapses \/ RetentionPasses \/ SubmissionGracePasses \/ UNCHANGED journal
  BY <1>1, <1>8 DEF LeaseLapses, Lapsed, RetentionPasses, SubmissionGracePasses, journal, Rows
<1> QED
  BY <1>2, <1>3, <1>4, <1>5, <1>6, <1>7, <1>8 DEF Writes, OtherWrite

\* CancelInv is preserved.
LEMMA CancelStep ==
  ASSUME RunnerInv, RunnerInv', CancelInv, [Next]_vars PROVE CancelInv'
<1>1. Writes
  BY RunnerStep
<1>2. RequestKnown' /\ NothingStartsAfterCancellation'
  BY <1>1, StopStep DEF CancelInv
<1>3. ASSUME NEW w \in Workers PROVE CauseKnown(w)'
  BY CauseStep DEF CancelInv
<1>4. ASSUME row'.status = "cancelled" PROVE row'.reason = Attributed(row'.cancel)
  BY <1>1, <1>4, CancelledBy DEF CancelInv, CancelledNamesRequester, CauseKnown
<1> QED
  BY <1>2, <1>3, <1>4 DEF CancelInv, CancelledNamesRequester

\* It holds initially.
LEMMA CancelInitially == ASSUME Init PROVE CancelInv
<1>1. \A i \in 1 .. Len(events) : events[i].kind # "cancellation_requested"
  <2>1. CASE events = <<>>
    BY <2>1
  <2>2. ASSUME NEW st \in Waiting, events = LegacyEvents(st)
        PROVE  \A i \in 1 .. Len(events) : events[i].kind # "cancellation_requested"
    BY <2>2 DEF LegacyEvents, Event
  <2>3. row \in LegacyRows => row.status \in Waiting
    BY LegacyRowType DEF LegacyRows
  <2> QED
    BY <2>1, <2>2, <2>3 DEF Init, JournalInit
<1>2. row.status \in {"absent"} \union Waiting
  BY LegacyRowType DEF Init, JournalInit, NewRow, LegacyRows
<1>3. CancelledNamesRequester
  BY <1>2 DEF CancelledNamesRequester
<1>4. ASSUME NEW w \in Workers PROVE CauseKnown(w)
  BY DEF Init, CauseKnown
<1> QED
  BY <1>1, <1>3, <1>4 DEF CancelInv, RequestKnown, NothingStartsAfterCancellation

\* CancelInv always holds.
LEMMA CancelInvariant == Spec => []CancelInv
<1>1. Init => CancelInv
  BY CancelInitially
<1>2. RunnerInv /\ RunnerInv' /\ CancelInv /\ [Next]_vars => CancelInv'
  BY CancelStep
<1> QED
  BY <1>1, <1>2, RunnerInvariant, PTL DEF Spec

\* Whichever worker, canceller or reconciler writes next, a run whose
\* cancellation is journaled only records outcomes of effects already started
\* and closes.
THEOREM NothingStartsAfterAStop == Spec => []NothingStartsAfterCancellation
<1>1. CancelInv => NothingStartsAfterCancellation
  BY DEF CancelInv
<1> QED
  BY <1>1, CancelInvariant, PTL

\* A cancelled run names the first requester, although the runner reads the
\* cause in one transaction and writes it in another.
THEOREM CancelledRunsNameRequester == Spec => []CancelledNamesRequester
<1>1. CancelInv => CancelledNamesRequester
  BY DEF CancelInv
<1> QED
  BY <1>1, CancelInvariant, PTL

(***************************************************************************)
(* Every dispatched effect has its start in the journal.                   *)
(***************************************************************************)
StartIn(s, e, c) ==
  \E i \in 1 .. Len(s) :
    /\ s[i].kind = "connector_call_started" /\ s[i].effect
    /\ s[i].epoch = e /\ s[i].call = c

OutcomeIn(s, e, c) ==
  \E i \in 1 .. Len(s) : s[i].kind \in Outcomes /\ s[i].epoch = e /\ s[i].call = c

Dispatching == {"started", "confirmed", "inflight", "answered"}

\* Until the row is deleted.
StartsKnown ==
  row.status # "purged" =>
    /\ \A w \in Workers : pc[w] \in Dispatching => StartIn(events, held[w], calls[w])
    /\ \A c \in Calls : effects[c] # "none" => StartIn(events, c[1], c[2])

\* Starts and outcomes stay in a log that grows.
LEMMA EntriesStay ==
  ASSUME Adds(Events), NEW e, NEW c
  PROVE  /\ StartIn(events, e, c) => StartIn(events', e, c)
         /\ OutcomeIn(events, e, c) => OutcomeIn(events', e, c)
<1>1. ASSUME NEW i \in 1 .. Len(events) PROVE i \in 1 .. Len(events') /\ events'[i] = events[i]
  BY DEF Adds
<1> QED
  BY <1>1 DEF StartIn, OutcomeIn

\* A start that was appended is in the log.
LEMMA StartLogged ==
  ASSUME EventInv, NEW e \in 0 .. MaxEpoch, NEW c \in 1 .. MaxCalls,
         Log(<<CallEvent("connector_call_started", e, c, TRUE)>>)
  PROVE  StartIn(events', e, c)
<1> DEFINE x == CallEvent("connector_call_started", e, c, TRUE)
<1>1. /\ x.kind = "connector_call_started" /\ x.effect /\ x.epoch = e /\ x.call = c
      /\ x \in Events
  BY ConstantsAssumption DEF CallEvent, Events, EventKinds, CallKinds
<1>l. Log(<<x>>)
  OBVIOUS
<1> HIDE DEF x
<1>2. <<x>> \in Seq(Events) /\ Len(<<x>>) = 1 /\ <<x>>[1] = x
  BY <1>1
<1>3. /\ Len(events) \in Nat /\ Len(events') = Len(events) + Len(<<x>>)
      /\ \A i \in 1 .. Len(<<x>>) : events'[Len(events) + i] = <<x>>[i]
  BY <1>l, <1>2, LogEntries
<1>4. Len(events) + 1 \in 1 .. Len(events') /\ events'[Len(events) + 1] = x
  BY <1>2, <1>3
<1> QED
  BY <1>1, <1>4 DEF StartIn

\* So is an outcome.
LEMMA OutcomeLogged ==
  ASSUME EventInv, NEW e \in 0 .. MaxEpoch, NEW c \in 1 .. MaxCalls, NEW k \in Outcomes,
         Log(<<CallEvent(k, e, c, TRUE)>>)
  PROVE  OutcomeIn(events', e, c)
<1> DEFINE x == CallEvent(k, e, c, TRUE)
<1>1. x.kind = k /\ x.epoch = e /\ x.call = c /\ x \in Events
  BY ConstantsAssumption DEF CallEvent, Events, EventKinds, CallKinds, Outcomes
<1>l. Log(<<x>>)
  OBVIOUS
<1> HIDE DEF x
<1>2. <<x>> \in Seq(Events) /\ Len(<<x>>) = 1 /\ <<x>>[1] = x
  BY <1>1
<1>3. /\ Len(events) \in Nat /\ Len(events') = Len(events) + Len(<<x>>)
      /\ \A i \in 1 .. Len(<<x>>) : events'[Len(events) + i] = <<x>>[i]
  BY <1>l, <1>2, LogEntries
<1>4. Len(events) + 1 \in 1 .. Len(events') /\ events'[Len(events) + 1] = x
  BY <1>2, <1>3
<1> QED
  BY <1>1, <1>4 DEF OutcomeIn

\* Outside a deletion, the step keeps every entry.
LEMMA StepKeepsEntries ==
  ASSUME RunnerInv, [Next]_vars, row'.status # "purged"
  PROVE  row.status # "purged" /\ Adds(Events)
<1>1. Writes /\ [JournalNext]_journal
  BY RunnerStep
<1> QED
  BY <1>1, EveryStepGrows, PurgedStays DEF RunnerInv, Grows, Purges

\* StartsKnown is preserved: only a journaled start is ever dispatched.
LEMMA StartsStep ==
  ASSUME RunnerInv, RunnerInv', StartsKnown, [Next]_vars PROVE StartsKnown'
<1> SUFFICES ASSUME row'.status # "purged" PROVE StartsKnown'
  BY DEF StartsKnown
<1>1. row.status # "purged" /\ Adds(Events)
  BY StepKeepsEntries
<1>a. LocalInv /\ EventInv
  BY DEF RunnerInv
<1>2. ASSUME NEW v \in Workers, pc'[v] \in Dispatching, pc[v] \in Dispatching,
             held'[v] = held[v], calls'[v] = calls[v]
      PROVE  StartIn(events', held'[v], calls'[v])
  BY <1>1, <1>2, EntriesStay DEF StartsKnown
<1>3. ASSUME NEW c \in Calls, effects'[c] # "none", effects[c] # "none"
      PROVE  StartIn(events', c[1], c[2])
  BY <1>1, <1>3, EntriesStay DEF StartsKnown
<1>4. CASE Calm
  <2>1. ASSUME NEW v \in Workers, pc'[v] \in Dispatching PROVE StartIn(events', held'[v], calls'[v])
    BY <1>2, <1>4, <2>1 DEF Calm, Resting, Dispatching
  <2>2. ASSUME NEW c \in Calls, effects'[c] # "none" PROVE StartIn(events', c[1], c[2])
    BY <1>3, <1>4, <2>2 DEF Calm, SameEffects
  <2> QED
    BY <2>1, <2>2 DEF StartsKnown
<1>5. ASSUME NEW w \in Workers, Moves(w) PROVE StartsKnown'
  <2>1. Others(w)
    BY <1>5 DEF Moves, Begins, Asks, Starts, Confirms, Dispatches, Returns, Records, Continues,
                Notices, Learns, Advances
  <2>2. ASSUME NEW v \in Workers, v # w, pc'[v] \in Dispatching
        PROVE  StartIn(events', held'[v], calls'[v])
    BY <1>2, <2>1, <2>2 DEF Others
  <2>3. ASSUME pc'[w] \in Dispatching PROVE StartIn(events', held'[w], calls'[w])
    <3>1. CASE Starts(w)
      <4>1. /\ Log(<<CallEvent("connector_call_started", held[w], calls'[w], TRUE)>>)
            /\ held'[w] = held[w] /\ calls'[w] \in 1 .. MaxCalls /\ held[w] \in 0 .. MaxEpoch
        BY <1>a, <2>3, <3>1 DEF Starts, Advances, Dispatching, LocalInv, LocalTypes
      <4> QED
        BY <1>a, <4>1, StartLogged
    <3>2. CASE Confirms(w) \/ Dispatches(w) \/ Returns(w)
      BY <1>2, <2>3, <3>2 DEF Confirms, Dispatches, Returns, Advances, Dispatching
    <3> QED
      BY <1>5, <2>3, <3>1, <3>2 DEF Moves, Begins, Asks, Records, Continues, Notices, Learns,
                                    Advances, Dispatching
  <2>4. ASSUME NEW c \in Calls, effects'[c] # "none" PROVE StartIn(events', c[1], c[2])
    <3>1. CASE Dispatches(w)
      <4>1. CASE c = CallOf(w)
        <5>1. c[1] = held[w] /\ c[2] = calls[w]
          BY <4>1 DEF CallOf
        <5>2. StartIn(events, held[w], calls[w]) /\ events' = events
          BY <1>1, <3>1 DEF Dispatches, Advances, StartsKnown, Dispatching
        <5> QED
          BY <5>1, <5>2
      <4>2. CASE c # CallOf(w)
        BY <1>3, <1>a, <2>4, <3>1, <4>2 DEF Dispatches, LocalInv, UpstreamTypes
      <4> QED
        BY <4>1, <4>2
    <3>2. CASE ~Dispatches(w)
      BY <1>3, <1>5, <2>4, <3>2 DEF Moves, Begins, Asks, Starts, Confirms, Returns, Records,
                                    Continues, Notices, Learns
    <3> QED
      BY <3>1, <3>2
  <2> QED
    BY <2>2, <2>3, <2>4 DEF StartsKnown
<1> QED
  BY <1>4, <1>5, EveryStepMoves

\* It holds initially.
LEMMA StartsInitially == ASSUME Init PROVE StartsKnown
  BY DEF Init, StartsKnown, Dispatching

\* StartsKnown always holds.
LEMMA StartsInvariant == Spec => []StartsKnown
<1>1. Init => StartsKnown
  BY StartsInitially
<1>2. RunnerInv /\ RunnerInv' /\ StartsKnown /\ [Next]_vars => StartsKnown'
  BY StartsStep
<1> QED
  BY <1>1, <1>2, RunnerInvariant, PTL DEF Spec

\* The runner's invariant contains its types.
LEMMA TypesHold == ASSUME RunnerInv PROVE TypeOK
  BY DEF RunnerInv, RowInv, EventInv, LocalInv, LocalTypes, UpstreamTypes, TypeOK, JournalTypeOK,
         Awaits, Reads, Verdicts, Causes

\* The row, the journal and the workers' locals keep their types, and no
\* effect reaches an upstream before its start is in the journal.
THEOREM DispatchedEffectsAreJournaled == Spec => []EffectsJournaled
<1>1. RunnerInv /\ StartsKnown => EffectsJournaled
  BY TypesHold DEF StartsKnown, StartIn, EffectsJournaled
<1> QED
  BY <1>1, RunnerInvariant, StartsInvariant, PTL

(***************************************************************************)
(* What an expired run reports.                                            *)
(***************************************************************************)
EffectIn(s) == \E i \in 1 .. Len(s) : s[i].kind = "connector_call_started" /\ s[i].effect

\* Among the first n entries.
StartBy(n, s, e, c) ==
  \E i \in 1 .. Len(s) :
    /\ i <= n /\ s[i].kind = "connector_call_started" /\ s[i].effect
    /\ s[i].epoch = e /\ s[i].call = c

\* What the journal alone shows of a run that reports an unknown effect, and
\* of one that was never claimed.
ExpiryInv ==
  /\ row.reason = "effect_outcome_unknown" => row.status = "expired" /\ EffectIn(events)
  /\ row.status \in {"absent", "submitted"} =>
       \A i \in 1 .. Len(events) : events[i].kind = "submitted"

\* A reconciliation judges the run by the whole journal, or by a snapshot
\* that begins no earlier than the lease's end.
Judges(reason, n) ==
  /\ ReconcileTo(reason, n)
  /\ n = Len(events) \/ (row.lease = "lapsed" /\ row.lapsedAt <= n)

\* Only a reconciliation expires a run.
LEMMA Expires ==
  ASSUME RowInv, EventInv, [JournalNext]_journal, ~row.completed,
         row.reason # "effect_outcome_unknown",
         row'.status = "expired" \/ row'.reason = "effect_outcome_unknown"
  PROVE  /\ ~Resumable
         /\ \E reason \in {"worker_lease_expired", "worker_interrupted"}, n \in 0 .. Len(events) :
              Judges(reason, n)
<1>1. row \in Rows /\ row.status # "expired" /\ Len(events) \in Nat
  BY DEF RowInv, ClaimMatchesStatus, EventInv
<1>2. ASSUME NEW reason \in {"worker_lease_expired", "worker_interrupted"}, NEW n,
             ReconcileTo(reason, n)
      PROVE  ~Resumable
  BY <1>1, <1>2 DEF ReconcileTo, Reconciled, Rows
<1>3. ASSUME NEW w \in Workers, NEW e \in 0 .. MaxEpoch, ClaimedWrite(w, e)
      PROVE  interrupt_claimed(w, e)
  <2>1. ASSUME renew(w, e) \/ renew_effect_lease(w, e) PROVE FALSE
    BY <1>1, <2>1 DEF renew, renew_effect_lease, Rows
  <2>2. ASSUME NEW event, append_event(w, e, event) \/ append_effect_outcome(w, e, event)
        PROVE  FALSE
    BY <1>1, <2>2 DEF append_event, append_effect_outcome, Lapsed, Rows
  <2>3. ASSUME NEW to \in {"waiting_for_resume", "succeeded", "failed", "cancelled"},
               NEW reason \in {"none", "execution_failed"} \union Requesters, NEW context,
               transition(w, e, to, reason, context)
        PROVE  FALSE
    BY <1>1, <2>3 DEF transition, Rows, Requesters
  <2> QED
    BY <1>3, <2>1, <2>2, <2>3 DEF ClaimedWrite
<1>4. ASSUME NEW w \in Workers, start_or_reuse(w) \/ claim(w) PROVE FALSE
  BY <1>1, <1>4, ClaimOpens
<1>5. ASSUME NEW w \in Workers, NEW s \in Continuations, resume(w, s, Answered(s)) PROVE FALSE
  BY <1>1, <1>5, ResumeOpens
<1>6. ASSUME NEW by \in Requesters, cancel_scoped(by) PROVE FALSE
  BY <1>1, <1>6 DEF cancel_scoped, Requested, Attributed, Rows, Cancellations, Requesters
<1>7. ASSUME submit \/ fail_submission \/ deny_waiting_approval \/ purge_expired_state
      PROVE  FALSE
  BY <1>1, <1>7 DEF submit, fail_submission, deny_waiting_approval, purge_expired_state, NewRow,
                    Rows
<1>8. ASSUME LeaseLapses \/ RetentionPasses \/ SubmissionGracePasses \/ UNCHANGED journal
      PROVE  FALSE
  BY <1>1, <1>8 DEF LeaseLapses, Lapsed, RetentionPasses, SubmissionGracePasses, journal, Rows
<1>9. ASSUME reconcile_abandoned
      PROVE  \E n \in 0 .. Len(events) : Judges("worker_lease_expired", n)
  <2>1. PICK n \in Snapshots : ReconcileTo("worker_lease_expired", n)
    BY <1>9 DEF reconcile_abandoned
  <2>2. /\ n \in 0 .. Len(events)
        /\ n = Len(events) \/ (row.lease = "lapsed" /\ row.lapsedAt <= n)
    <3>1. CASE row.lease = "lapsed"
      <4>1. n \in row.lapsedAt .. Len(events) /\ row.lapsedAt \in Nat
        BY <1>1, <2>1, <3>1 DEF Snapshots, Rows
      <4> QED
        BY <1>1, <3>1, <4>1
    <3>2. CASE row.lease # "lapsed"
      BY <1>1, <2>1, <3>2 DEF Snapshots
    <3> QED
      BY <3>1, <3>2
  <2> QED
    BY <2>1, <2>2 DEF Judges
<1>10. ASSUME NEW w \in Workers, NEW e \in 0 .. MaxEpoch, interrupt_claimed(w, e)
       PROVE  Judges("worker_interrupted", Len(events)) /\ Len(events) \in 0 .. Len(events)
  BY <1>1, <1>10 DEF interrupt_claimed, Judges
<1>11. \E reason \in {"worker_lease_expired", "worker_interrupted"}, n \in 0 .. Len(events) :
         Judges(reason, n)
  BY <1>3, <1>4, <1>5, <1>6, <1>7, <1>8, <1>9, <1>10 DEF JournalNext
<1> QED
  BY <1>2, <1>11 DEF Judges

\* Before the first claim nothing but the submission is journaled.
LEMMA EarlyStep ==
  ASSUME RowInv, [JournalNext]_journal, row'.status \in {"absent", "submitted"}
  PROVE  \/ row.status = "absent" /\ Log(<<Event("submitted", 0)>>)
         \/ row.status = row'.status /\ events' = events
<1>1. row \in Rows /\ (row.status \in {"absent", "submitted"} => row.owner = NoOwner)
  BY DEF RowInv, ClaimMatchesStatus
<1>2. ASSUME NEW w \in Workers, NEW e \in 0 .. MaxEpoch, ClaimedWrite(w, e) PROVE FALSE
  <2>1. HasClaim(w, e) /\ row.owner # NoOwner /\ row.status = "running"
    BY <1>2, ConstantsAssumption
    DEF ClaimedWrite, renew, renew_effect_lease, interrupt_claimed, append_event,
        append_effect_outcome, transition, LiveFence, EffectFence, TransitionFence, HasClaim,
        RowInv, ClaimMatchesStatus
  <2>2. ASSUME interrupt_claimed(w, e) PROVE FALSE
    BY <1>1, <2>2 DEF interrupt_claimed, ReconcileTo, Reconciled, Rows
  <2>3. ASSUME renew(w, e) \/ renew_effect_lease(w, e) PROVE FALSE
    BY <1>1, <2>1, <2>3 DEF renew, renew_effect_lease, Rows
  <2>4. ASSUME NEW event, append_event(w, e, event) \/ append_effect_outcome(w, e, event)
        PROVE  FALSE
    BY <1>1, <2>1, <2>4 DEF append_event, append_effect_outcome, Lapsed, Rows
  <2>5. ASSUME NEW to \in {"waiting_for_resume", "succeeded", "failed", "cancelled"},
               NEW reason, NEW context, transition(w, e, to, reason, context)
        PROVE  FALSE
    BY <1>1, <2>5 DEF transition, Rows
  <2> QED
    BY <1>2, <2>2, <2>3, <2>4, <2>5 DEF ClaimedWrite
<1>3. ASSUME NEW w \in Workers, start_or_reuse(w) \/ claim(w) PROVE FALSE
  BY <1>3, ClaimOpens
<1>4. ASSUME NEW w \in Workers, NEW s \in Continuations, resume(w, s, Answered(s)) PROVE FALSE
  BY <1>4, ResumeOpens
<1>5. ASSUME NEW by \in Requesters, cancel_scoped(by) PROVE FALSE
  BY <1>1, <1>5 DEF cancel_scoped, NoLiveClaim, Rows
<1>6. ASSUME reconcile_abandoned PROVE FALSE
  BY <1>1, <1>6 DEF reconcile_abandoned, ReconcileTo, Reconciled, Rows
<1>7. ASSUME fail_submission \/ deny_waiting_approval \/ purge_expired_state PROVE FALSE
  BY <1>1, <1>7 DEF fail_submission, deny_waiting_approval, purge_expired_state, NewRow, Rows
<1>8. CASE LeaseLapses \/ RetentionPasses \/ SubmissionGracePasses \/ UNCHANGED journal
  BY <1>1, <1>8 DEF LeaseLapses, Lapsed, RetentionPasses, SubmissionGracePasses, journal, Rows
<1> QED
  BY <1>2, <1>3, <1>4, <1>5, <1>6, <1>7, <1>8 DEF JournalNext, submit

\* ExpiryInv is preserved by every step of the journal.
LEMMA ExpiryStep ==
  ASSUME RowInv, RowInv', EventInv, ExpiryInv, [JournalNext]_journal PROVE ExpiryInv'
<1>1. ASSUME row'.status \in {"absent", "submitted"}, NEW i \in 1 .. Len(events')
      PROVE  events'[i].kind = "submitted"
  <2>1. CASE row.status = row'.status /\ events' = events
    BY <1>1, <2>1 DEF ExpiryInv
  <2>2. CASE row.status = "absent" /\ Log(<<Event("submitted", 0)>>)
    <3> DEFINE x == Event("submitted", 0)
    <3>1. x \in Events /\ x.kind = "submitted"
      BY ConstantsAssumption, EventType DEF EventKinds, Event
    <3>2. Log(<<x>>)
      BY <2>2
    <3> HIDE DEF x
    <3>3. <<x>> \in Seq({x}) /\ {x} \in SUBSET Events
      BY <3>1
    <3>4. Adds({x})
      BY <3>2, <3>3, LogAdds
    <3> QED
      BY <1>1, <2>2, <3>1, <3>4 DEF Adds, ExpiryInv
  <2> QED
    BY <1>1, <2>1, <2>2, EarlyStep
<1>2. CASE row.completed
  <2>1. \/ row'.status = "purged"
        \/ row'.status = row.status /\ row'.reason = row.reason /\ events' = events
    BY <1>2, FinalityOfStep DEF FinalityStep
  <2>2. row'.status = "purged" => row'.reason # "effect_outcome_unknown"
    <3> SUFFICES ASSUME row'.status = "purged" PROVE row'.reason # "effect_outcome_unknown"
      OBVIOUS
    <3>1. row.status \in Terminal /\ row.owner = NoOwner /\ row.lease = "none" /\ row \in Rows
      BY <1>2 DEF RowInv, ClaimMatchesStatus
    <3>2. ASSUME NEW w \in Workers, NEW e \in 0 .. MaxEpoch PROVE ~ClaimedWrite(w, e)
      <4>1. ~HasClaim(w, e)
        BY <3>1, ConstantsAssumption DEF HasClaim
      <4> QED
        BY <4>1 DEF ClaimedWrite, renew, renew_effect_lease, interrupt_claimed, append_event,
                    append_effect_outcome, transition, LiveFence, EffectFence, TransitionFence
    <3>3. purge_expired_state
      BY <1>2, <3>1, <3>2
      DEF JournalNext, journal, submit, fail_submission, start_or_reuse, claim, resume,
          ResumeFence, cancel_scoped, deny_waiting_approval, reconcile_abandoned, Abandoned,
          LeaseLapses, RetentionPasses, SubmissionGracePasses, Rows
    <3> QED
      BY <3>3 DEF purge_expired_state, NewRow
  <2> QED
    BY <1>1, <2>1, <2>2 DEF ExpiryInv
<1>3. CASE ~row.completed /\ ~(row'.status = "expired" \/ row'.reason = "effect_outcome_unknown")
  BY <1>1, <1>3 DEF ExpiryInv
<1>4. CASE ~row.completed /\ (row'.status = "expired" \/ row'.reason = "effect_outcome_unknown")
  <2>1. row.reason # "effect_outcome_unknown" /\ row \in Rows /\ row.epoch \in 0 .. MaxEpoch
    BY <1>4 DEF ExpiryInv, RowInv, ClaimMatchesStatus, Rows
  <2>2. PICK reason \in {"worker_lease_expired", "worker_interrupted"}, n \in 0 .. Len(events) :
          ReconcileTo(reason, n) /\ ~Resumable
    BY <1>4, <2>1, Expires DEF Judges
  <2>3. row'.status = "expired" /\ row'.reason = ExpiryReason(reason, n)
    BY <2>1, <2>2 DEF ReconcileTo, Reconciled, Rows
  <2>4. Adds(Events)
    BY <2>2, ReconcileGrows, AddsMore, Subsets DEF Goes, Closes
  <2>5. row'.reason = "effect_outcome_unknown" => EffectIn(events)
    <3>1. row'.reason = "effect_outcome_unknown" => EffectOutcomeUnknown(n)
      BY <2>3 DEF ExpiryReason
    <3>2. \A i \in 1 .. n : i \in 1 .. Len(events)
      BY <2>4 DEF Adds
    <3> QED
      BY <3>1, <3>2 DEF EffectOutcomeUnknown, EffectIn
  <2>6. EffectIn(events) => EffectIn(events')
    BY <2>4 DEF EffectIn, Adds
  <2> QED
    BY <1>1, <2>3, <2>5, <2>6 DEF ExpiryInv
<1> QED
  BY <1>2, <1>3, <1>4

\* It holds initially.
LEMMA ExpiryInitially == ASSUME JournalInit PROVE ExpiryInv
<1>1. CASE row = NewRow
  BY <1>1 DEF JournalInit, NewRow, ExpiryInv
<1>2. CASE row \in LegacyRows
  <2>1. PICK st \in Waiting, c \in {"none", "unrecorded"} : row = LegacyRow(st, c)
    BY <1>2 DEF LegacyRows
  <2>2. row.status = st
    BY <2>1, LegacyRowType
  <2>3. row.reason = "none"
    BY <2>1 DEF LegacyRow, NewRow
  <2> QED
    BY <2>2, <2>3 DEF ExpiryInv
<1> QED
  BY <1>1, <1>2 DEF JournalInit

\* ExpiryInv holds of the journal, whoever uses it.
LEMMA ExpiryInvariant == JournalSpec => []ExpiryInv
<1>1. JournalInit => ExpiryInv
  BY ExpiryInitially
<1>2. RowInv /\ EventInv /\ (RowInv /\ EventInv)' /\ ExpiryInv /\ [JournalNext]_journal => ExpiryInv'
  BY ExpiryStep
<1> QED
  BY <1>1, <1>2, JournalInvariant, PTL DEF JournalSpec

\* A call that is dispatched, or whose worker is past the last check before
\* its dispatch.
Pursued(c) ==
  \/ effects[c] # "none"
  \/ \E w \in Workers : pc[w] \in {"confirmed", "inflight", "answered"} /\ c = CallOf(w)

\* Every such call was started before the lease lapsed, so no snapshot that a
\* reconciliation takes lacks its start; and an expired run that names another
\* reason has its outcome.
SnapshotInv ==
  row.status # "purged" =>
    \A c \in Calls : Pursued(c) =>
      /\ row.lease = "lapsed" => StartBy(row.lapsedAt, events, c[1], c[2])
      /\ (row.status = "expired" /\ row.reason \notin {"effect_outcome_unknown", "retention_expired"})
           => OutcomeIn(events, c[1], c[2])

\* A call comes to be pursued by confirm_claim_before_effect only.
LEMMA PursuitBegins ==
  ASSUME RunnerInv, [Next]_vars, NEW c \in Calls, Pursued(c)'
  PROVE  Pursued(c) \/ \E w \in Workers : Confirms(w)
<1> USE DEF Resting
<1>a. LocalInv
  BY DEF RunnerInv
<1>1. CASE Calm
  BY <1>1 DEF Calm, SameEffects, Pursued, CallOf
<1>2. ASSUME NEW w \in Workers, Moves(w), ~Confirms(w) PROVE Pursued(c)
  <2>1. Others(w)
    BY <1>2 DEF Moves, Begins, Asks, Starts, Confirms, Dispatches, Returns, Records, Continues,
                Notices, Learns, Advances
  <2>2. ASSUME NEW v \in Workers, v # w, pc'[v] \in {"confirmed", "inflight", "answered"},
               c = <<held'[v], calls'[v]>>
        PROVE  Pursued(c)
    BY <2>1, <2>2 DEF Others, Pursued, CallOf
  <2>3. CASE Dispatches(w)
    <3>1. /\ pc[w] = "confirmed" /\ pc'[w] = "inflight" /\ held'[w] = held[w] /\ calls' = calls
          /\ effects' = [effects EXCEPT ![CallOf(w)] = "inflight"]
      BY <2>3 DEF Dispatches, Advances
    <3>2. CASE c = CallOf(w)
      BY <3>1, <3>2 DEF Pursued
    <3>3. CASE c # CallOf(w)
      <4>1. effects'[c] = effects[c]
        BY <1>a, <3>1, <3>3 DEF LocalInv, UpstreamTypes
      <4>2. c # <<held'[w], calls'[w]>>
        BY <3>1, <3>3 DEF CallOf
      <4> QED
        BY <2>2, <4>1, <4>2 DEF Pursued, CallOf
    <3> QED
      BY <3>2, <3>3
  <2>4. CASE ~Dispatches(w)
    <3>1. UNCHANGED effects
      BY <1>2, <2>4 DEF Moves, Begins, Asks, Starts, Returns, Records, Continues, Notices, Learns
    <3>2. CASE Returns(w)
      <4>1. pc[w] = "inflight" /\ held'[w] = held[w] /\ calls' = calls
        BY <3>2 DEF Returns, Advances
      <4> QED
        BY <2>2, <3>1, <4>1 DEF Pursued, CallOf
    <3>3. CASE ~Returns(w)
      <4>1. pc'[w] \notin {"confirmed", "inflight", "answered"}
        BY <1>2, <2>4, <3>3 DEF Moves, Begins, Asks, Starts, Records, Continues, Notices, Learns,
                                Advances
      <4> QED
        BY <2>2, <3>1, <4>1 DEF Pursued, CallOf
    <3> QED
      BY <3>2, <3>3
  <2> QED
    BY <2>3, <2>4
<1> QED
  BY <1>1, <1>2, EveryStepMoves

\* A lease lapses at the length the journal then has, and is lapsed from then on.
LEMMA LapseStep ==
  ASSUME RowInv, [JournalNext]_journal, row'.lease = "lapsed"
  PROVE  \/ row.lease = "lapsed" /\ row'.lapsedAt = row.lapsedAt
         \/ row.lease = "live" /\ row'.lapsedAt = Len(events)
<1>1. row \in Rows
  BY DEF RowInv
<1>2. ASSUME NEW w \in Workers, NEW e \in 0 .. MaxEpoch, ClaimedWrite(w, e)
      PROVE  \/ row.lease = "lapsed" /\ row'.lapsedAt = row.lapsedAt
             \/ row.lease = "live" /\ row'.lapsedAt = Len(events)
  <2>1. ASSUME renew(w, e) \/ renew_effect_lease(w, e) PROVE FALSE
    BY <1>1, <2>1 DEF renew, renew_effect_lease, Rows
  <2>2. ASSUME interrupt_claimed(w, e) PROVE FALSE
    BY <1>1, <2>2 DEF interrupt_claimed, ReconcileTo, Reconciled, Rows
  <2>3. ASSUME NEW event, append_event(w, e, event) PROVE row.lease = "live" /\ row'.lapsedAt = Len(events)
    BY <1>1, <2>3 DEF append_event, LiveFence, Lapsed, Rows
  <2>4. ASSUME NEW event, append_effect_outcome(w, e, event)
        PROVE  row.lease = "lapsed" /\ row'.lapsedAt = row.lapsedAt
    BY <2>4 DEF append_effect_outcome
  <2>5. ASSUME NEW to, NEW reason, NEW context, transition(w, e, to, reason, context) PROVE FALSE
    BY <1>1, <2>5 DEF transition, Rows
  <2> QED
    BY <1>2, <2>1, <2>2, <2>3, <2>4, <2>5 DEF ClaimedWrite
<1>3. ASSUME NEW w \in Workers, start_or_reuse(w) \/ claim(w) PROVE FALSE
  BY <1>1, <1>3 DEF start_or_reuse, claim, Claimed, Rows
<1>4. ASSUME NEW w \in Workers, NEW s \in Continuations, resume(w, s, Answered(s)) PROVE FALSE
  <2> DEFINE c == Claimed(row, w)
  <2>1. c \in Rows /\ c.lease = "live"
    BY <1>1, <1>4, ClaimedRow DEF resume
  <2>2. row' = [c EXCEPT !.context = Answered(s), !.reason = "none"]
    BY <1>4 DEF resume
  <2> HIDE DEF c
  <2> QED
    BY <2>1, <2>2 DEF Rows
<1>5. ASSUME NEW by \in Requesters, cancel_scoped(by)
      PROVE  row.lease = "lapsed" /\ row'.lapsedAt = row.lapsedAt
  BY <1>1, <1>5 DEF cancel_scoped, Rows
<1>6. ASSUME reconcile_abandoned PROVE FALSE
  BY <1>1, <1>6 DEF reconcile_abandoned, ReconcileTo, Reconciled, Rows
<1>7. ASSUME purge_expired_state PROVE FALSE
  BY <1>7 DEF purge_expired_state, NewRow
<1>8. ASSUME LeaseLapses PROVE row.lease = "live" /\ row'.lapsedAt = Len(events)
  BY <1>1, <1>8 DEF LeaseLapses, Lapsed, Rows
<1>9. ASSUME \/ submit \/ fail_submission \/ deny_waiting_approval \/ RetentionPasses
             \/ SubmissionGracePasses \/ UNCHANGED journal
      PROVE  row.lease = "lapsed" /\ row'.lapsedAt = row.lapsedAt
  BY <1>1, <1>9 DEF submit, fail_submission, deny_waiting_approval, RetentionPasses,
                    SubmissionGracePasses, journal, Rows
<1> QED
  BY <1>2, <1>3, <1>4, <1>5, <1>6, <1>7, <1>8, <1>9 DEF JournalNext

\* The start of a pursued call is in the journal.
LEMMA PursuedStarted ==
  ASSUME StartsKnown, row.status # "purged", NEW c \in Calls, Pursued(c)
  PROVE  StartIn(events, c[1], c[2])
<1>1. ASSUME NEW w \in Workers, c = CallOf(w) PROVE c[1] = held[w] /\ c[2] = calls[w]
  BY <1>1 DEF CallOf
<1> QED
  BY <1>1 DEF StartsKnown, Pursued, Dispatching

\* SnapshotInv is preserved.
LEMMA SnapshotStep ==
  ASSUME RunnerInv, RunnerInv', StartsKnown, ExpiryInv, SnapshotInv, [Next]_vars
  PROVE  SnapshotInv'
<1> SUFFICES ASSUME row'.status # "purged", NEW c \in Calls, Pursued(c)'
             PROVE  /\ row'.lease = "lapsed" => StartBy(row'.lapsedAt, events', c[1], c[2])
                    /\ (row'.status = "expired" /\ row'.reason \notin
                         {"effect_outcome_unknown", "retention_expired"})
                         => OutcomeIn(events', c[1], c[2])
  BY DEF SnapshotInv
<1>1. /\ RowInv /\ EventInv /\ LocalInv /\ [JournalNext]_journal
      /\ row.status # "purged" /\ Adds(Events) /\ row \in Rows
  BY RunnerStep, StepKeepsEntries DEF RunnerInv, RowInv
<1>2. CASE \E w \in Workers : Confirms(w)
  <2>1. PICK w \in Workers : renew(w, held[w])
    BY <1>2 DEF Confirms
  <2>2. row'.lease = "live" /\ row'.status = row.status /\ ~row.completed
    BY <1>1, <2>1 DEF renew, LiveFence, Rows
  <2>3. row'.status # "expired"
    BY <1>1, <2>2 DEF RowInv, ClaimMatchesStatus
  <2> QED
    BY <2>2, <2>3
<1>3. CASE Pursued(c)
  <2>1. StartIn(events, c[1], c[2])
    BY <1>1, <1>3, PursuedStarted
  <2>2. ASSUME row'.lease = "lapsed" PROVE StartBy(row'.lapsedAt, events', c[1], c[2])
    <3>1. CASE row.lease = "lapsed" /\ row'.lapsedAt = row.lapsedAt
      <4>1. StartBy(row.lapsedAt, events, c[1], c[2])
        BY <1>1, <1>3, <3>1 DEF SnapshotInv
      <4> QED
        BY <1>1, <3>1, <4>1 DEF StartBy, Adds
    <3>2. CASE row.lease = "live" /\ row'.lapsedAt = Len(events)
      BY <1>1, <2>1, <3>2 DEF StartIn, StartBy, Adds
    <3> QED
      BY <1>1, <2>2, <3>1, <3>2, LapseStep
  <2>3. ASSUME row'.status = "expired",
               row'.reason \notin {"effect_outcome_unknown", "retention_expired"}
        PROVE  OutcomeIn(events', c[1], c[2])
    <3>1. CASE row.completed
      <4>1. row'.status = row.status /\ row'.reason = row.reason /\ events' = events
        BY <1>1, <2>3, <3>1, FinalityOfStep DEF FinalityStep
      <4> QED
        BY <1>1, <1>3, <2>3, <4>1 DEF SnapshotInv
    <3>2. CASE ~row.completed
      <4>1. row.reason # "effect_outcome_unknown"
        BY <1>1, <3>2 DEF ExpiryInv, RowInv, ClaimMatchesStatus
      <4>2. PICK reason \in {"worker_lease_expired", "worker_interrupted"},
                 n \in 0 .. Len(events) : Judges(reason, n) /\ ~Resumable
        BY <1>1, <2>3, <3>2, <4>1, Expires
      <4>3. row'.reason = ExpiryReason(reason, n)
        BY <1>1, <4>2 DEF Judges, ReconcileTo, Reconciled, Rows
      <4>4. row.status # "submitted"
        BY <2>1 DEF ExpiryInv, StartIn
      <4>5. ~EffectOutcomeUnknown(n)
        BY <2>3, <4>3, <4>4 DEF ExpiryReason
      <4>6. StartBy(n, events, c[1], c[2])
        <5>1. CASE n = Len(events)
          BY <1>1, <2>1, <5>1 DEF StartIn, StartBy, Adds
        <5>2. CASE row.lease = "lapsed" /\ row.lapsedAt <= n
          <6>1. StartBy(row.lapsedAt, events, c[1], c[2]) /\ row.lapsedAt \in Nat
            BY <1>1, <1>3, <5>2 DEF SnapshotInv, Rows
          <6> QED
            BY <1>1, <5>2, <6>1 DEF StartBy, Adds
        <5> QED
          BY <4>2, <5>1, <5>2 DEF Judges
      <4>7. PICK i \in 1 .. Len(events) :
              /\ i <= n /\ events[i].kind = "connector_call_started" /\ events[i].effect
              /\ events[i].epoch = c[1] /\ events[i].call = c[2]
        BY <4>6 DEF StartBy
      <4>8. i \in 1 .. n
        BY <1>1, <4>7 DEF Adds
      <4>9. JournaledBy(n, Outcomes, c[1], c[2])
        BY <4>5, <4>7, <4>8 DEF EffectOutcomeUnknown
      <4>10. \A j \in 1 .. n : j \in 1 .. Len(events)
        BY <1>1 DEF Adds
      <4>11. OutcomeIn(events, c[1], c[2])
        BY <4>9, <4>10 DEF JournaledBy, OutcomeIn
      <4> QED
        BY <1>1, <4>11, EntriesStay
    <3> QED
      BY <3>1, <3>2
  <2> QED
    BY <2>2, <2>3
<1> QED
  BY <1>2, <1>3, PursuitBegins

\* It holds initially: nothing is pursued.
LEMMA SnapshotInitially == ASSUME Init PROVE SnapshotInv
  BY DEF Init, SnapshotInv, Pursued

\* SnapshotInv always holds.
LEMMA SnapshotInvariant == Spec => []SnapshotInv
<1>1. Init => SnapshotInv
  BY SnapshotInitially
<1>2. RunnerInv /\ RunnerInv' /\ StartsKnown /\ ExpiryInv /\ SnapshotInv /\ [Next]_vars
        => SnapshotInv'
  BY SnapshotStep
<1> QED
  BY <1>1, <1>2, RunnerInvariant, StartsInvariant, RunnerImplementsJournal, ExpiryInvariant, PTL
  DEF Spec

\* An expired run that does not report effect_outcome_unknown, and was not
\* dropped by retention, left no dispatched effect without its outcome,
\* although reconcile_abandoned may judge the run by a snapshot older than
\* the journal's last entries; one that does report it journaled the start of
\* a side-effecting call.
THEOREM ExpiryIsHonest == Spec => []ExpiryReportsUnknownEffects
<1>1. SnapshotInv /\ ExpiryInv => ExpiryReportsUnknownEffects
  BY DEF SnapshotInv, ExpiryInv, Pursued, EffectIn, OutcomeIn, ExpiryReportsUnknownEffects,
         Journaled, JournaledBy
<1> QED
  BY <1>1, SnapshotInvariant, RunnerImplementsJournal, ExpiryInvariant, PTL

(***************************************************************************)
(* What a step does to the claim and to the continuation of an open row.   *)
(***************************************************************************)
Open == {"absent", "submitted", "running"} \union Waiting

Opens(w) == start_or_reuse(w) \/ claim(w) \/ Resumes(w)

\* w paused or finished its run, and is done with it.
Settles(w) ==
  /\ HasClaim(w, held[w]) /\ row.status = "running"
  /\ row'.status \in {"waiting_for_resume", "succeeded"} /\ row'.resumable = row.resumable
  /\ pc[w] \in {"pausing", "finishing"} /\ pc'[w] \in {"idle", "failing"}
  /\ row'.epoch = row.epoch
  /\ row'.status = "waiting_for_resume" =>
       row'.context = [checkpoint |-> row.epoch, input |-> NoInput]

\* A resumable run lost its worker.
Parks ==
  /\ row.status = "running" /\ row.resumable /\ row'.status = "waiting_for_resume"
  /\ row'.resumable = row.resumable /\ row'.epoch = row.epoch
  /\ row'.context = IF row.context = NoContext THEN [checkpoint |-> 0, input |-> NoInput]
                    ELSE row.context

Keeps ==
  /\ row'.owner = row.owner /\ row'.epoch = row.epoch /\ row'.context = row.context
  /\ row'.resumable = row.resumable
  /\ row'.status = row.status \/ (row.status = "absent" /\ row'.status = "submitted")

Ends == row'.status \in {"failed", "cancelled", "expired", "purged"} /\ row'.epoch = row.epoch

\* Reconciliation ends an abandoned run, or parks a resumable one.
LEMMA ReconcileEnds ==
  ASSUME RowInv, NEW reason, NEW n, ReconcileTo(reason, n), row.status = "running" \/ ~Resumable
  PROVE  Parks \/ Ends
<1>1. row \in Rows
  BY DEF RowInv
<1>2. CASE Resumable
  <2>1. row.status = "running" /\ row.resumable
    BY <1>2 DEF Resumable
  <2>2. CASE row.context = NoContext
    BY <1>1, <1>2, <2>1, <2>2 DEF ReconcileTo, Reconciled, Rows, Parks
  <2>3. CASE row.context # NoContext
    BY <1>1, <1>2, <2>1, <2>3 DEF ReconcileTo, Reconciled, Rows, Parks
  <2> QED
    BY <2>2, <2>3
<1>3. CASE ~Resumable
  BY <1>1, <1>3 DEF ReconcileTo, Reconciled, Rows, Ends
<1> QED
  BY <1>2, <1>3

\* What every write does to the claim.
LEMMA EveryWriteClaims ==
  ASSUME RunnerInv, Writes
  PROVE  Keeps \/ Ends \/ Parks \/ \E w \in Workers : Opens(w) \/ Settles(w)
<1>1. RowInv /\ LocalInv /\ row \in Rows
  BY DEF RunnerInv, RowInv
<1>2. ASSUME NEW w \in Workers, WorkerWrite(w) PROVE Keeps \/ Ends \/ Parks \/ Settles(w)
  <2>1. CASE renew(w, held[w]) \/ renew_effect_lease(w, held[w])
    BY <1>1, <2>1 DEF renew, renew_effect_lease, Rows, Keeps
  <2>2. CASE interrupt_claimed(w, held[w])
    BY <1>1, <2>2, ReconcileEnds DEF interrupt_claimed
  <2>3. CASE \/ \E event \in Appended(held[w]) : append_event(w, held[w], event)
             \/ \E event \in EffectOutcomes(held[w]) : append_effect_outcome(w, held[w], event)
    BY <1>1, <2>3 DEF append_event, append_effect_outcome, Lapsed, Rows, Keeps
  <2>4. CASE /\ pc[w] = "pausing" /\ pc'[w] \in {"idle", "failing"}
             /\ transition(w, held[w], "waiting_for_resume", "none",
                           [checkpoint |-> held[w], input |-> NoInput])
    <3>1. HasClaim(w, held[w]) /\ row.status = "running" /\ row.epoch = held[w]
      BY <2>4 DEF transition, TransitionFence, HasClaim
    <3>2. /\ row'.status = "waiting_for_resume" /\ row'.resumable = row.resumable
          /\ row'.epoch = row.epoch
          /\ row'.context = [checkpoint |-> held[w], input |-> NoInput]
      BY <1>1, <2>4 DEF transition, Rows
    <3> QED
      BY <2>4, <3>1, <3>2 DEF Settles
  <2>5. CASE /\ pc[w] = "finishing" /\ pc'[w] \in {"idle", "failing"}
             /\ transition(w, held[w], "succeeded", "none", NoContext)
    BY <1>1, <2>5 DEF transition, TransitionFence, HasClaim, Rows, Settles
  <2>6. ASSUME NEW to \in {"failed", "cancelled"}, NEW reason, NEW context,
               transition(w, held[w], to, reason, context)
        PROVE  Ends
    BY <1>1, <2>6 DEF transition, Rows, Ends
  <2> QED
    BY <1>2, <2>1, <2>2, <2>3, <2>4, <2>5, <2>6 DEF WorkerWrite
<1>3. ASSUME NEW by \in Requesters, cancel_scoped(by) PROVE Keeps \/ Ends
  <2>1. CASE NoLiveClaim
    BY <1>1, <1>3, <2>1 DEF cancel_scoped, Rows, Ends
  <2>2. CASE ~NoLiveClaim
    BY <1>1, <1>3, <2>2 DEF cancel_scoped, Rows, Keeps
  <2> QED
    BY <2>1, <2>2
<1>4. CASE reconcile_abandoned
  <2>1. row.status = "running" \/ ~Resumable
    BY <1>1, <1>4 DEF reconcile_abandoned, Abandoned, Resumable, RowInv, NotYetBound
  <2> QED
    BY <1>1, <1>4, <2>1, ReconcileEnds DEF reconcile_abandoned
<1>5. CASE purge_expired_state
  BY <1>5 DEF purge_expired_state, NewRow, Ends
<1>6. CASE fail_submission \/ deny_waiting_approval
  BY <1>1, <1>6 DEF fail_submission, deny_waiting_approval, Rows, Ends
<1>7. CASE submit \/ LeaseLapses \/ RetentionPasses \/ SubmissionGracePasses \/ UNCHANGED journal
  BY <1>1, <1>7 DEF submit, LeaseLapses, Lapsed, RetentionPasses, SubmissionGracePasses, journal, Rows,
                    Keeps
<1> QED
  BY <1>2, <1>3, <1>4, <1>5, <1>6, <1>7 DEF Writes, OtherWrite, Opens

\* A claim is opened on a row nobody holds.
LEMMA OpensFrom ==
  ASSUME RunnerInv, NEW w \in Workers, Opens(w)
  PROVE  /\ row.status \in {"absent", "submitted", "waiting_for_resume"} /\ row.owner = NoOwner
         /\ row'.status = "running" /\ row'.owner = w /\ row'.epoch = row.epoch + 1
         /\ row'.resumable = row.resumable
         /\ ~Resumes(w) => row'.context = row.context
  BY ClaimOpens, ResumeOpens DEF Opens, Resumes, RunnerInv, LocalInv, Attempt

(***************************************************************************)
(* A checkpoint is answered once.                                          *)
(***************************************************************************)
\* The caller's answer is the one bound to the checkpoint, if there is one.
AnswerKnown(w) == pc[w] = "resuming" => seen[w].context.input \in {NoInput, seen[w].input}

\* Checkpoints are answered in order, and the row still has the answer to the
\* last one that was replayed.
ReplaysKnown ==
  /\ \A r \in replayed : r[1] < row.epoch
  /\ row.status \in Open =>
       /\ replayed # {} => row.context # NoContext
       /\ row.context # NoContext =>
            /\ row.context.checkpoint <= row.epoch
            /\ \A r \in replayed :
                 /\ r[1] <= row.context.checkpoint
                 /\ r[1] = row.context.checkpoint => r[2] = row.context.input

ReplayInv == ReplaysKnown /\ ReplayInputStable /\ \A w \in Workers : AnswerKnown(w)

\* A resuming worker's answer is still one the checkpoint accepts.
LEMMA AnswerStep ==
  ASSUME RunnerInv, [Next]_vars, \A w \in Workers : AnswerKnown(w), NEW v \in Workers
  PROVE  AnswerKnown(v)'
<1>1. ASSUME pc'[v] # "resuming" \/ (pc'[v] = pc[v] /\ seen'[v] = seen[v])
      PROVE  AnswerKnown(v)'
  BY <1>1 DEF AnswerKnown
<1>2. CASE Calm
  BY <1>1, <1>2 DEF Calm, Resting
<1>3. ASSUME NEW w \in Workers, Moves(w) PROVE AnswerKnown(v)'
  <2>1. Others(w)
    BY <1>3 DEF Moves, Begins, Asks, Starts, Confirms, Dispatches, Returns, Records, Continues,
                Notices, Learns, Advances
  <2>2. CASE v # w
    BY <1>1, <2>1, <2>2 DEF Others
  <2>3. CASE v = w /\ Asks(w)
    BY <2>3 DEF Asks, AnswerKnown
  <2>4. CASE v = w /\ ~Asks(w)
    <3>1. pc'[w] # "resuming"
      BY <1>3, <2>4 DEF Moves, Begins, Starts, Confirms, Dispatches, Returns, Records,
                        Continues, Notices, Learns, Advances
    <3> QED
      BY <1>1, <2>4, <3>1
  <2> QED
    BY <2>2, <2>3, <2>4
<1> QED
  BY <1>2, <1>3, EveryStepMoves

\* Attempts and checkpoints are numbers.
LEMMA ReplayedNumbers ==
  ASSUME RunnerInv
  PROVE  /\ row.epoch \in Nat
         /\ \A r \in replayed : r[1] \in Nat /\ r[2] \in Inputs
         /\ row.context # NoContext => row.context.checkpoint \in Nat
  BY ConstantsAssumption
  DEF RunnerInv, LocalInv, UpstreamTypes, RowInv, Rows, Contexts, Checkpoints

\* A resumed attempt replays the answer the row has, if it has one.
LEMMA ResumeReplays ==
  ASSUME RunnerInv, RunnerInv', ReplayInv, NEW w \in Workers, Resumes(w)
  PROVE  ReplaysKnown' /\ ReplayInputStable'
<1> DEFINE s == seen[w]
           new == <<s.context.checkpoint, s.input>>
<1>1. /\ s \in Continuations /\ resume(w, s, Answered(s)) /\ replayed' = replayed \union {new}
      /\ s.context.input \in {NoInput, s.input}
  BY DEF Resumes, RunnerInv, LocalInv, Attempt, ReplayInv, AnswerKnown
<1>2. /\ row.status = "waiting_for_resume" /\ row.context = s.context
      /\ row'.epoch = row.epoch + 1 /\ row'.context = Answered(s)
  BY <1>1, ResumeOpens DEF RunnerInv
<1>3. /\ s.context \in [checkpoint : Checkpoints, input : Inputs \union {NoInput}]
      /\ s.context # NoContext /\ s.input \in Inputs
  BY <1>1 DEF Continuations, Contexts
<1>4. Answered(s).checkpoint = s.context.checkpoint /\ Answered(s).input = s.input
  BY <1>3 DEF Answered
<1>5. /\ s.context.checkpoint <= row.epoch
      /\ \A r \in replayed :
           /\ r[1] <= s.context.checkpoint
           /\ r[1] = s.context.checkpoint => r[2] = s.context.input
  BY <1>2, <1>3 DEF ReplayInv, ReplaysKnown, Open
<1>6. \A r \in replayed : r[1] = s.context.checkpoint => r[2] = s.input
  BY <1>1, <1>5, ReplayedNumbers, ConstantsAssumption
<1>7. new[1] = s.context.checkpoint /\ new[2] = s.input
  OBVIOUS
<1>8. s.context.checkpoint \in Nat
  BY <1>3, ConstantsAssumption DEF Checkpoints
<1> HIDE DEF new, s
<1>9. ReplayInputStable'
  BY <1>1, <1>6, <1>7 DEF ReplayInv, ReplayInputStable
<1>10. ASSUME NEW r \in replayed'
       PROVE  /\ r[1] < row'.epoch /\ r[1] <= row'.context.checkpoint
              /\ r[1] = row'.context.checkpoint => r[2] = row'.context.input
  <2>1. CASE r = new
    BY <1>2, <1>4, <1>5, <1>7, <1>8, <2>1, ReplayedNumbers
  <2>2. CASE r \in replayed
    BY <1>2, <1>4, <1>5, <1>6, <1>8, <2>2, ReplayedNumbers
  <2> QED
    BY <1>1, <2>1, <2>2
<1>11. row'.context # NoContext
  <2>1. Answered(s) \in [checkpoint : 0 .. MaxEpoch, input : Inputs \union {NoInput}]
    BY <1>3 DEF Answered, Checkpoints
  <2> QED
    BY <1>2, <2>1, ConstantsAssumption
<1>12. row'.context.checkpoint <= row'.epoch
  BY <1>2, <1>4, <1>5, <1>8, ReplayedNumbers
<1> QED
  BY <1>9, <1>10, <1>11, <1>12 DEF ReplaysKnown

\* A write that keeps claim and context keeps what is known of the replays.
LEMMA ReplaysKept ==
  ASSUME ReplaysKnown, replayed' = replayed, row'.epoch = row.epoch,
         row'.status \in Open => row.status \in Open /\ row'.context = row.context
  PROVE  ReplaysKnown'
<1>1. ASSUME NEW r \in replayed' PROVE r[1] < row'.epoch
  BY <1>1 DEF ReplaysKnown
<1>2. ASSUME row'.status \in Open PROVE replayed' # {} => row'.context # NoContext
  BY <1>2 DEF ReplaysKnown
<1>3. ASSUME row'.status \in Open, row'.context # NoContext
      PROVE  /\ row'.context.checkpoint <= row'.epoch
             /\ \A r \in replayed' :
                  /\ r[1] <= row'.context.checkpoint
                  /\ r[1] = row'.context.checkpoint => r[2] = row'.context.input
  BY <1>3 DEF ReplaysKnown
<1> QED
  BY <1>1, <1>2, <1>3 DEF ReplaysKnown

\* ReplaysKnown and the property are preserved.
LEMMA ReplaysStep ==
  ASSUME RunnerInv, RunnerInv', ReplayInv, Writes
  PROVE  ReplaysKnown' /\ ReplayInputStable'
<1>1. CASE \E w \in Workers : Resumes(w)
  BY <1>1, ResumeReplays
<1>2. CASE ~\E w \in Workers : Resumes(w)
  <2>1. replayed' = replayed
    BY <1>2 DEF Writes
  <2>2. ReplayInputStable'
    BY <2>1 DEF ReplayInv, ReplayInputStable
  <2>3. CASE Keeps
    BY <2>1, <2>2, <2>3, ReplaysKept DEF Keeps, ReplayInv, Open
  <2>4. CASE Ends
    BY <2>1, <2>2, <2>4, ReplaysKept DEF Ends, ReplayInv, Open
  <2>5. CASE Parks
    <3>1. CASE row.context = NoContext
      <4>1. replayed = {}
        BY <2>5, <3>1 DEF Parks, ReplayInv, ReplaysKnown, Open
      <4>2. row'.context.checkpoint = 0 /\ row'.epoch \in Nat
        BY <2>5, <3>1, ReplayedNumbers DEF Parks
      <4>3. replayed' = {} /\ row'.context.checkpoint <= row'.epoch
        BY <2>1, <4>1, <4>2
      <4> QED
        BY <2>2, <4>3 DEF ReplaysKnown
    <3>2. CASE row.context # NoContext
      BY <2>1, <2>2, <2>5, <3>2, ReplaysKept DEF Parks, ReplayInv, Open
    <3> QED
      BY <3>1, <3>2
  <2>6. ASSUME NEW w \in Workers, Settles(w) PROVE ReplaysKnown'
    <3>1. CASE row'.status = "succeeded"
      BY <2>1, <2>6, <3>1 DEF Settles, ReplayInv, ReplaysKnown, Open
    <3>2. CASE row'.status = "waiting_for_resume"
      <4>1. /\ row'.context = [checkpoint |-> row.epoch, input |-> NoInput]
            /\ row'.epoch = row.epoch
        BY <2>6, <3>2 DEF Settles
      <4>2. row'.context # NoContext /\ row'.context.checkpoint = row.epoch
        BY <3>2, <4>1 DEF RunnerInv, RowInv, ClaimMatchesStatus
      <4>3. \A r \in replayed : r[1] < row.epoch
        BY DEF ReplayInv, ReplaysKnown
      <4> QED
        BY <2>1, <4>1, <4>2, <4>3, ReplayedNumbers DEF ReplaysKnown
    <3> QED
      BY <2>6, <3>1, <3>2 DEF Settles
  <2>7. ASSUME NEW w \in Workers, Opens(w) PROVE ReplaysKnown'
    <3>1. /\ row.status \in Open /\ row'.context = row.context /\ row'.epoch = row.epoch + 1
      BY <1>2, <2>7, OpensFrom DEF Open
    <3> QED
      BY <2>1, <3>1, ReplayedNumbers DEF ReplayInv, ReplaysKnown
  <2> QED
    BY <2>2, <2>3, <2>4, <2>5, <2>6, <2>7, EveryWriteClaims
<1> QED
  BY <1>1, <1>2

\* They hold initially.
LEMMA ReplayInitially == ASSUME Init PROVE ReplayInv
<1>1. replayed = {} /\ \A w \in Workers : AnswerKnown(w)
  BY DEF Init, AnswerKnown
<1>2. row.context # NoContext => row.context.checkpoint <= row.epoch
  <2>1. CASE row = NewRow
    BY <2>1 DEF NewRow
  <2>2. CASE row \in LegacyRows
    <3>1. PICK st \in Waiting, c \in {"none", "unrecorded"} : row = LegacyRow(st, c)
      BY <2>2 DEF LegacyRows
    <3>2. row.epoch = 1 /\ row.context.checkpoint = 0
      BY <3>1 DEF LegacyRow, NewRow
    <3> QED
      BY <3>2
  <2> QED
    BY <2>1, <2>2 DEF Init, JournalInit
<1> QED
  BY <1>1, <1>2 DEF ReplayInv, ReplaysKnown, ReplayInputStable

\* ReplayInv always holds.
LEMMA ReplayInvariant == Spec => []ReplayInv
<1>1. Init => ReplayInv
  BY ReplayInitially
<1>2. RunnerInv /\ RunnerInv' /\ ReplayInv /\ [Next]_vars => ReplayInv'
  <2> SUFFICES ASSUME RunnerInv, RunnerInv', ReplayInv, [Next]_vars PROVE ReplayInv'
    OBVIOUS
  <2>1. ASSUME NEW w \in Workers PROVE AnswerKnown(w)'
    BY AnswerStep DEF ReplayInv
  <2>2. Writes
    BY RunnerStep
  <2>3. ReplaysKnown' /\ ReplayInputStable'
    BY <2>2, ReplaysStep
  <2> QED
    BY <2>1, <2>3 DEF ReplayInv
<1> QED
  BY <1>1, <1>2, RunnerInvariant, PTL DEF Spec

\* However resumes race, and whichever workers are lost, every attempt that
\* replays a checkpoint runs with the input the first of them was given.
THEOREM CheckpointsAnsweredOnce == Spec => []ReplayInputStable
<1>1. ReplayInv => ReplayInputStable
  BY DEF ReplayInv
<1> QED
  BY <1>1, ReplayInvariant, PTL

(***************************************************************************)
(* A run that succeeded or paused recorded what it did.                    *)
(***************************************************************************)
Ongoing == {"absent", "submitted", "running", "succeeded"} \union Waiting

Working ==
  {"ready", "started", "confirmed", "inflight", "answered", "reading", "pausing", "finishing"}

Recorded(c) == effects[c] # "none" => OutcomeIn(events, c[1], c[2])

\* A worker in the broker loop holds the claim, and owes the journal at most
\* the outcome of the call it is waiting for.
Owes(w) ==
  /\ HasClaim(w, held[w])
  /\ \A c \in Calls : Recorded(c) \/ (c = CallOf(w) /\ pc[w] \in {"inflight", "answered"})

\* Unless an earlier release left the run resumable: then a lost attempt is
\* replayed while its worker may still be dispatching.
SettledInv ==
  (~row.resumable /\ row.status \in Ongoing) =>
    /\ row.status # "running" => \A c \in Calls : Recorded(c)
    /\ \A w \in Workers : pc[w] \in Working => Owes(w)

\* A recorded outcome stays recorded.
LEMMA RecordedStays ==
  ASSUME Adds(Events), SameEffects, NEW c \in Calls, Recorded(c) PROVE Recorded(c)'
  BY EntriesStay DEF SameEffects, Recorded

\* The claim stays where it is.
LEMMA SettledKept ==
  ASSUME RunnerInv, RunnerInv', ~row.resumable, row.status \in Ongoing, SettledInv,
         Adds(Events), Keeps, [Next]_vars
  PROVE  SettledInv'
<1>a. LocalInv /\ EventInv /\ RowInv /\ RowInv'
  BY DEF RunnerInv
<1>1. /\ row'.owner = row.owner /\ row'.epoch = row.epoch
      /\ row'.status # "running" => row.status # "running"
  BY DEF Keeps
<1>2. /\ row.status # "running" => \A c \in Calls : Recorded(c)
      /\ \A w \in Workers : pc[w] \in Working => Owes(w)
  BY DEF SettledInv
<1>3. ASSUME NEW v \in Workers, pc'[v] = pc[v], held'[v] = held[v], calls'[v] = calls[v],
             pc'[v] \in Working, SameEffects
      PROVE  Owes(v)'
  BY <1>1, <1>2, <1>3, RecordedStays DEF Owes, HasClaim, CallOf
<1>4. CASE Calm
  BY <1>1, <1>2, <1>3, <1>4, RecordedStays DEF Calm, Resting, Working, SettledInv
<1>5. ASSUME NEW w \in Workers, Moves(w) PROVE SettledInv'
  <2>1. Others(w)
    BY <1>5 DEF Moves, Begins, Asks, Starts, Confirms, Dispatches, Returns, Records, Continues,
                Notices, Learns, Advances
  <2>2. ~Begins(w)
    <3> SUFFICES ASSUME Begins(w) PROVE FALSE
      OBVIOUS
    <3>1. Opens(w)
      BY DEF Begins, Opens
    <3> QED
      BY <1>1, <3>1, OpensFrom, ConstantsAssumption DEF RunnerInv
  <2>3. CASE Dispatches(w)
    <3>1. /\ pc[w] = "confirmed" /\ pc'[w] = "inflight" /\ held'[w] = held[w] /\ calls' = calls
          /\ effects' = [effects EXCEPT ![CallOf(w)] = "inflight"] /\ events' = events
          /\ row' = row
      BY <2>3 DEF Dispatches, Advances
    <3>2. HasClaim(w, held[w]) /\ \A c \in Calls : Recorded(c)
      BY <1>2, <3>1 DEF Owes, Working
    <3>3. row.status = "running"
      BY <1>a, <3>2, ConstantsAssumption DEF HasClaim, RowInv, ClaimMatchesStatus
    <3>4. ASSUME NEW c \in Calls, c # CallOf(w) PROVE Recorded(c)'
      BY <1>a, <3>1, <3>2, <3>4 DEF Recorded, LocalInv, UpstreamTypes
    <3>5. Owes(w)'
      BY <3>1, <3>2, <3>4 DEF Owes, HasClaim, CallOf
    <3>6. ASSUME NEW v \in Workers, v # w PROVE pc'[v] \notin Working
      BY <1>2, <2>1, <3>2, <3>6 DEF Others, Owes, HasClaim
    <3> QED
      BY <3>1, <3>3, <3>5, <3>6 DEF SettledInv
  <2>4. CASE ~Dispatches(w)
    <3>1. SameEffects
      BY <1>5, <2>2, <2>4 DEF Moves, Asks, Starts, Confirms, Returns, Records, Continues, Notices,
                              Learns, SameEffects
    <3>2. ASSUME NEW v \in Workers, v # w, pc'[v] \in Working PROVE Owes(v)'
      BY <1>3, <2>1, <3>1, <3>2 DEF Others
    <3>3. ASSUME pc'[w] \in Working PROVE Owes(w)'
      <4>1. CASE Starts(w) \/ Confirms(w) \/ Continues(w)
        <5>1. /\ pc[w] \in Working \ {"inflight", "answered"} /\ held'[w] = held[w]
          BY <4>1 DEF Starts, Confirms, Continues, Advances, Working
        <5>2. HasClaim(w, held[w]) /\ \A c \in Calls : Recorded(c)
          BY <1>2, <5>1 DEF Owes
        <5> QED
          BY <1>1, <3>1, <5>1, <5>2, RecordedStays DEF Owes, HasClaim
      <4>2. CASE Returns(w)
        <5>1. /\ pc[w] = "inflight" /\ pc'[w] = "answered" /\ held'[w] = held[w]
              /\ calls' = calls
          BY <4>2 DEF Returns, Advances
        <5>2. Owes(w) /\ CallOf(w)' = CallOf(w)
          BY <1>2, <5>1 DEF Working, CallOf
        <5> QED
          BY <1>1, <3>1, <5>1, <5>2, RecordedStays DEF Owes, HasClaim
      <4>3. CASE Records(w)
        <5>1. /\ pc[w] = "answered" /\ held'[w] = held[w]
              /\ Log(<<CallEvent(verdict[w], held[w], calls[w], TRUE)>>)
          BY <4>3 DEF Records, Advances
        <5>2. /\ held[w] \in 0 .. MaxEpoch /\ calls[w] \in 1 .. MaxCalls
              /\ verdict[w] \in Outcomes
          BY <1>a, <5>1 DEF LocalInv, LocalTypes, Attempt
        <5>3. OutcomeIn(events', held[w], calls[w])
          BY <1>a, <5>1, <5>2, OutcomeLogged
        <5>4. Owes(w)
          BY <1>2, <5>1 DEF Working
        <5>5. ASSUME NEW c \in Calls PROVE Recorded(c)'
          <6>1. CASE c = CallOf(w)
            BY <5>3, <6>1 DEF CallOf, Recorded
          <6>2. CASE c # CallOf(w)
            BY <3>1, <5>4, <6>2, RecordedStays DEF Owes
          <6> QED
            BY <6>1, <6>2
        <5> QED
          BY <1>1, <5>1, <5>4, <5>5 DEF Owes, HasClaim
      <4> QED
        BY <1>5, <2>2, <2>4, <3>3, <4>1, <4>2, <4>3
        DEF Moves, Asks, Notices, Learns, Advances, Working
    <3>4. ASSUME row'.status # "running", NEW c \in Calls PROVE Recorded(c)'
      BY <1>1, <1>2, <3>1, <3>4, RecordedStays
    <3> QED
      BY <3>2, <3>3, <3>4 DEF SettledInv
  <2> QED
    BY <2>3, <2>4
<1> QED
  BY <1>4, <1>5, EveryStepMoves

\* A move in the broker loop leaves the row's status, and its holder, alone.
LEMMA MovesKeep ==
  ASSUME RunnerInv, NEW w \in Workers, Moves(w), ~Begins(w)
  PROVE  row'.status = row.status /\ row'.owner = row.owner
<1>1. row \in Rows
  BY DEF RunnerInv, RowInv
<1>2. CASE Confirms(w)
  BY <1>1, <1>2 DEF Confirms, renew, Rows
<1>3. Lapsed.status = row.status /\ Lapsed.owner = row.owner
  BY <1>1 DEF Lapsed, Rows
<1> QED
  BY <1>2, <1>3 DEF Moves, Asks, Starts, Dispatches, Returns, Records, Continues, Notices, Learns

\* A new claim: nobody was working, and everything was recorded.
LEMMA SettledOpens ==
  ASSUME RunnerInv, RunnerInv', ~row.resumable, row.status \in Ongoing, SettledInv,
         Adds(Events), NEW w \in Workers, Opens(w), [Next]_vars
  PROVE  SettledInv'
<1>1. /\ row.status # "running" /\ row.owner = NoOwner
      /\ row'.status = "running" /\ row'.owner = w
  BY OpensFrom
<1>2. \A c \in Calls : Recorded(c)
  BY <1>1 DEF SettledInv
<1>3. \A v \in Workers : pc[v] \notin Working
  BY <1>1, ConstantsAssumption DEF SettledInv, Owes, HasClaim
<1>4. CASE Calm
  BY <1>1, <1>3, <1>4 DEF Calm, Resting, Working, SettledInv
<1>5. ASSUME NEW v \in Workers, Moves(v) PROVE SettledInv'
  <2>1. Begins(v)
    BY <1>1, <1>5, MovesKeep
  <2>2. Opens(v) /\ Others(v) /\ held'[v] = row'.epoch /\ effects' = effects
    BY <2>1 DEF Begins, Opens
  <2>3. row'.owner = v
    BY <2>2, OpensFrom
  <2>4. SameEffects
    BY <2>2 DEF SameEffects
  <2>5. \A c \in Calls : Recorded(c)'
    BY <1>2, <2>4, RecordedStays
  <2>6. ASSUME NEW u \in Workers, pc'[u] \in Working PROVE u = v
    BY <1>3, <2>2, <2>6 DEF Others
  <2>7. Owes(v)'
    BY <2>2, <2>3, <2>5 DEF Owes, HasClaim
  <2> QED
    BY <1>1, <2>6, <2>7 DEF SettledInv
<1> QED
  BY <1>4, <1>5, EveryStepMoves

\* The run pauses or succeeds: its worker owed nothing, and leaves.
LEMMA SettledSettles ==
  ASSUME RunnerInv, RunnerInv', ~row.resumable, row.status \in Ongoing, SettledInv,
         Adds(Events), NEW w \in Workers, Settles(w), [Next]_vars
  PROVE  SettledInv'
<1>1. /\ row.status = "running" /\ row'.status # "running" /\ row.owner = w
      /\ pc[w] \in {"pausing", "finishing"} /\ pc'[w] \in {"idle", "failing"}
  BY DEF Settles, HasClaim
<1>2. \A c \in Calls : Recorded(c)
  BY <1>1 DEF SettledInv, Owes, Working
<1>3. \A v \in Workers : pc[v] \in Working => v = w
  BY <1>1 DEF SettledInv, Owes, HasClaim
<1>4. Calm
  <2>1. ASSUME NEW v \in Workers, Moves(v) PROVE FALSE
    <3>1. CASE Begins(v)
      BY <1>1, <3>1, OpensFrom DEF Begins, Opens
    <3>2. CASE ~Begins(v)
      BY <1>1, <2>1, <3>2, MovesKeep
    <3> QED
      BY <3>1, <3>2
  <2> QED
    BY <2>1, EveryStepMoves
<1>5. \A c \in Calls : Recorded(c)'
  BY <1>2, <1>4, RecordedStays DEF Calm
<1>6. ASSUME NEW v \in Workers PROVE pc'[v] \notin Working
  BY <1>1, <1>3, <1>4 DEF Calm, Resting, Working
<1> QED
  BY <1>5, <1>6 DEF SettledInv

\* SettledInv is preserved: by what the write does to the claim.
LEMMA SettledStep ==
  ASSUME RunnerInv, RunnerInv', SettledInv, [Next]_vars PROVE SettledInv'
<1> SUFFICES ASSUME ~row'.resumable, row'.status \in Ongoing PROVE SettledInv'
  BY DEF SettledInv
<1>1. Writes /\ [JournalNext]_journal
  BY RunnerStep
<1>2. Adds(Events)
  BY StepKeepsEntries DEF Ongoing
<1>3. CASE Keeps
  BY <1>2, <1>3, SettledKept DEF Keeps, Ongoing
<1>4. CASE Ends
  BY <1>4 DEF Ends, Ongoing
<1>5. CASE Parks
  BY <1>5 DEF Parks
<1>6. ASSUME NEW w \in Workers, Opens(w) PROVE SettledInv'
  BY <1>2, <1>6, OpensFrom, SettledOpens DEF Ongoing
<1>7. ASSUME NEW w \in Workers, Settles(w) PROVE SettledInv'
  BY <1>2, <1>7, SettledSettles DEF Settles, Ongoing
<1> QED
  BY <1>1, <1>3, <1>4, <1>5, <1>6, <1>7, EveryWriteClaims

\* It holds initially.
LEMMA SettledInitially == ASSUME Init PROVE SettledInv
  BY DEF Init, SettledInv, Recorded, Working

\* SettledInv always holds.
LEMMA SettledInvariant == Spec => []SettledInv
<1>1. Init => SettledInv
  BY SettledInitially
<1>2. RunnerInv /\ RunnerInv' /\ SettledInv /\ [Next]_vars => SettledInv'
  BY SettledStep
<1> QED
  BY <1>1, <1>2, RunnerInvariant, PTL DEF Spec

\* A run of this release that succeeded, or paused for its caller, recorded
\* the outcome of every effect it dispatched, in this and earlier attempts,
\* although stale workers, lost answers and crashes surround its own.
THEOREM SettledRunsAreRecorded == Spec => []SettledRunsRecordOutcomes
<1>1. SettledInv => SettledRunsRecordOutcomes
  BY DEF SettledInv, SettledRunsRecordOutcomes, Ongoing, Recorded, OutcomeIn, Journaled, JournaledBy
<1> QED
  BY <1>1, SettledInvariant, PTL

\* The system of workers keeps the journal fenced and in step with the
\* lifecycle its owner was promised.
THEOREM RunnerKeepsPromise == Spec => []JournalFenced /\ []ClaimMatchesStatus /\ ImplementsLifecycle
  BY RunnerImplementsJournal, JournalIsFenced, ClaimsAreConsistent, JournalImplementsLifecycle, PTL
=============================================================================

------------------------- MODULE UpstreamPoolProofs -------------------------
(***************************************************************************)
(* The circuit breaker on its own, and the upstream pool that uses it, for *)
(* any calls, lanes, attempts and failure threshold.                       *)
(***************************************************************************)
EXTENDS UpstreamPool, TLAPS

(***************************************************************************)
(* The breaker.                                                            *)
(***************************************************************************)
\* BudgetMatchesState and ProbeSlotHeld are inductive together with the types.
BreakerInv == TypeOK /\ BudgetMatchesState /\ ProbeSlotHeld

\* A call that ends leaves the other calls' probes alone: if its own permit was
\* not a probe, whoever held the probe slot still holds it.
LEMMA ReleaseKeepsProbe ==
  ASSUME permit \in [Callers -> {"none", "closed", "probe"}], NEW c \in Callers,
         ProbeSlotHeld, Grant(c, "none"),
         probe_running' = (probe_running /\ ~WasProbe(c))
  PROVE  ProbeSlotHeld'
<1>1. CASE WasProbe(c)
  BY <1>1 DEF ProbeSlotHeld
<1>2. CASE ~WasProbe(c) /\ ~probe_running
  BY <1>2 DEF ProbeSlotHeld
<1>3. CASE ~WasProbe(c) /\ probe_running
  <2>1. PICK d \in Callers : permit[d] = "probe"
    BY <1>3 DEF ProbeSlotHeld
  <2>2. permit'[d] = "probe"
    BY <1>3, <2>1 DEF WasProbe, Grant
  <2> QED BY <2>2 DEF ProbeSlotHeld
<1> QED BY <1>1, <1>2, <1>3

\* The breaker starts closed with its whole failure budget.
LEMMA BreakerInitially == Init => BreakerInv
<1> SUFFICES ASSUME Init PROVE BreakerInv
  OBVIOUS
<1>0. probe_running \in BOOLEAN
  BY DEF Init
<1>1. TypeOK /\ BudgetMatchesState
  <2>1. 0 < Threshold /\ 0 \in 0 .. Threshold
    BY BreakerAssumption DEF BreakerAssumption
  <2> QED BY <1>0, <2>1 DEF Init, TypeOK, BudgetMatchesState
<1>2. ProbeSlotHeld
  BY DEF Init, ProbeSlotHeld
<1> QED BY <1>1, <1>2 DEF BreakerInv

\* Every method of the breaker, and the passing of its cooldown, keeps the
\* invariant.
LEMMA BreakerInductive == BreakerInv /\ [Next]_vars => BreakerInv'
<1> SUFFICES ASSUME BreakerInv, [Next]_vars PROVE BreakerInv'
  OBVIOUS
<1> USE BreakerAssumption DEF BreakerAssumption
<1>1. ASSUME NEW c \in Callers, acquire(c) PROVE BreakerInv'
  <2>1. TypeOK' /\ BudgetMatchesState'
    BY <1>1 DEF BreakerInv, TypeOK, BudgetMatchesState, acquire, Grant
  <2>2. ProbeSlotHeld'
    <3>1. CASE state = "closed"
      <4>1. permit' = [permit EXCEPT ![c] = "closed"] /\ probe_running' = probe_running
        BY <1>1, <3>1 DEF acquire, Grant
      <4>2. permit[c] = "none"
        BY <1>1 DEF acquire
      <4> QED BY <4>1, <4>2 DEF BreakerInv, TypeOK, ProbeSlotHeld
    <3>2. CASE state # "closed"
      <4>1. permit' = [permit EXCEPT ![c] = "probe"]
        BY <1>1, <3>2 DEF acquire, Grant
      <4> QED BY <4>1 DEF BreakerInv, TypeOK, ProbeSlotHeld
    <3> QED BY <3>1, <3>2
  <2> QED BY <2>1, <2>2 DEF BreakerInv
<1>2. ASSUME NEW c \in Callers, on_success(c) PROVE BreakerInv'
  <2>1. TypeOK' /\ BudgetMatchesState'
    BY <1>2 DEF BreakerInv, TypeOK, BudgetMatchesState, on_success, Grant
  <2>2. ProbeSlotHeld'
    BY <1>2, ReleaseKeepsProbe DEF BreakerInv, TypeOK, on_success
  <2> QED BY <2>1, <2>2 DEF BreakerInv
<1>3. ASSUME NEW c \in Callers, on_failure(c) PROVE BreakerInv'
  <2>1. TypeOK' /\ BudgetMatchesState'
    BY <1>3 DEF BreakerInv, TypeOK, BudgetMatchesState, on_failure, Grant, WasProbe
  <2>2. ProbeSlotHeld'
    BY <1>3, ReleaseKeepsProbe DEF BreakerInv, TypeOK, on_failure
  <2> QED BY <2>1, <2>2 DEF BreakerInv
<1>4. ASSUME NEW c \in Callers, neutral(c) PROVE BreakerInv'
  <2>1. TypeOK' /\ BudgetMatchesState'
    BY <1>4 DEF BreakerInv, TypeOK, BudgetMatchesState, neutral, Grant
  <2>2. ProbeSlotHeld'
    BY <1>4, ReleaseKeepsProbe DEF BreakerInv, TypeOK, neutral
  <2> QED BY <2>1, <2>2 DEF BreakerInv
<1>5. CASE reset
  <2>1. TypeOK' /\ BudgetMatchesState'
    <3>1. probe_running' \in BOOLEAN
      BY <1>5 DEF reset
    <3>2. 0 < Threshold /\ 0 \in 0 .. Threshold
      OBVIOUS
    <3> QED BY <1>5, <3>1, <3>2 DEF BreakerInv, TypeOK, BudgetMatchesState, reset
  <2>2. ProbeSlotHeld'
    BY <1>5 DEF ProbeSlotHeld, reset
  <2> QED BY <2>1, <2>2 DEF BreakerInv
<1>6. CASE CooldownPasses
  BY <1>6 DEF BreakerInv, TypeOK, BudgetMatchesState, ProbeSlotHeld, CooldownPasses
<1>7. CASE UNCHANGED vars
  BY <1>7 DEF BreakerInv, TypeOK, BudgetMatchesState, ProbeSlotHeld, vars
<1> QED BY <1>1, <1>2, <1>3, <1>4, <1>5, <1>6, <1>7 DEF Next, Report

\* A closed breaker always has failure budget left and a tripped one knows when
\* it was tripped, whatever permits of earlier states report.
THEOREM BreakerBudget == Spec => []BudgetMatchesState
<1>1. BreakerInv => BudgetMatchesState
  BY DEF BreakerInv
<1> QED BY <1>1, BreakerInitially, BreakerInductive, PTL DEF Spec

\* A half-open breaker never waits for a probe that no call holds.
THEOREM BreakerNeverWedges == Spec => []ProbeSlotHeld
<1>1. BreakerInv => ProbeSlotHeld
  BY DEF BreakerInv
<1> QED BY <1>1, BreakerInitially, BreakerInductive, PTL DEF Spec

(***************************************************************************)
(* The pool uses the breaker as it is meant to be used.                    *)
(***************************************************************************)
\* A failure report is a step of the breaker.
LEMMA ReportsFailure ==
  ASSUME NEW c \in Callers, FailureReport(c) PROVE Next
  BY DEF FailureReport, Next, Report

\* Whatever calls, dropped futures, attempts and reloads do to the breaker is
\* one of its own operations.
LEMMA PoolStepsBreaker == ASSUME [PoolNext]_poolVars PROVE [Next]_vars
<1>1. ASSUME NEW c \in Callers, call_tool(c) PROVE Next
  BY <1>1 DEF call_tool, Next
<1>2. ASSUME NEW c \in Callers, CallStep(c) PROVE [Next]_vars
  <2>1. ASSUME NEW s \in Slots, checkout(c, s) PROVE [Next]_vars
    BY <2>1, ReportsFailure DEF checkout, Next, Report, breaker, vars
  <2>2. CASE finish_call_response(c)
    BY <2>2, ReportsFailure DEF finish_call_response, Next, Report
  <2>3. CASE mark_slot_down(c) \/ arm_reconnect(c) \/ settle_probe_recovery(c)
    BY <2>3 DEF mark_slot_down, arm_reconnect, settle_probe_recovery, breaker, vars
  <2> QED BY <1>2, <2>1, <2>2, <2>3 DEF CallStep
<1>3. ASSUME NEW c \in Callers, DropCall(c) PROVE [Next]_vars
  BY <1>3, ReportsFailure DEF DropCall, breaker, vars
<1>4. CASE Cooldown
  BY <1>4 DEF Cooldown, Next
<1>5. CASE DeadlinePasses \/ SchedulerStep \/ BeginReload \/ CommitReload
  BY <1>5 DEF DeadlinePasses, SchedulerStep, Register, Scan, ArmUnscheduled, Delay, Wake,
    JoinNext, claim_due, reconnect_due_task, BeginReload, CommitReload, SchedRest, ReloadRest,
    breaker, vars
<1>6. ASSUME NEW a \in Attempts, NEW kind \in Kinds, Ask(a, kind) PROVE UNCHANGED vars
  BY <1>6 DEF Ask, breaker, vars
<1>7. ASSUME NEW a \in Attempts, AttemptStep(a) \/ CancelAttempt(a) PROVE [Next]_vars
  <2>1. ASSUME NEW ok \in SUBSET Slots, Commit(a, ok) PROVE [Next]_vars
    BY <2>1 DEF Commit, Next, breaker, vars
  <2>2. ASSUME NEW ok \in SUBSET Slots, RedialCommit(a, ok) PROVE [Next]_vars
    BY <2>2 DEF RedialCommit, Next, breaker, vars
  <2>3. CASE \/ TakeSession(a) \/ Rearm(a) \/ Start(a) \/ Clear(a) \/ Outcome(a)
             \/ RedialOutcome(a) \/ DropGuard(a) \/ CancelAttempt(a)
    BY <2>3 DEF TakeSession, Rearm, Start, Clear, Outcome, RedialOutcome, DropGuard,
      CancelAttempt, breaker, vars
  <2> QED BY <1>7, <2>1, <2>2, <2>3 DEF AttemptStep
<1>8. CASE UNCHANGED poolVars
  BY <1>8 DEF poolVars, breaker, vars
<1> QED BY <1>1, <1>2, <1>3, <1>4, <1>5, <1>6, <1>7, <1>8 DEF PoolNext

\* The pool's calls, permits and resets never leave the breaker's specification.
THEOREM PoolImplementsBreaker == PoolSpec => BreakerSpec
<1>1. PoolInit => Init
  BY DEF PoolInit
<1>2. [PoolNext]_poolVars => [Next]_vars
  BY PoolStepsBreaker
<1> QED BY <1>1, <1>2, PTL DEF PoolSpec, BreakerSpec, Spec

(***************************************************************************)
(* The pool's own invariant.  Types come in three parts, because different *)
(* actions disturb them: the schedule, the attempts, and everything else.  *)
(***************************************************************************)
\* Where an attempt is while it may hold the session guard.
Working == {"rearm", "start", "clear", "dialing", "outcome", "redialing", "redialed"}
Steps == Working \union {"idle", "launch", "queued", "dropping", "deferred"}
AttemptKinds == {"none", "claimed", "operator", "fleet", "refresh", "shape"}
Attempt ==
  [pc : Steps, kind : AttemptKinds, open0 : BOOLEAN, dial : SUBSET Slots,
   healed : BOOLEAN, err : BOOLEAN, probed : BOOLEAN]

CallStates == {"idle", "admitted", "on_lane", "faulting", "arming", "settling", "settling_fenced"}
SchedStates == {"enter", "scan", "arm", "delay", "wait", "claim", "launch"}

LaneTypes ==
  /\ lane \in [Slots -> BOOLEAN] /\ call \in [Callers -> CallStates] /\ slot \in [Callers -> Slots]
  /\ entry \in {"current", "replaced", "removed"} /\ fence \in {"free", "reload"}
  /\ sched \in SchedStates /\ timer \in BOOLEAN /\ woken \in BOOLEAN /\ joined \in BOOLEAN
  /\ gauge \in {"entry", "successor"} /\ cancels \in Nat /\ same_shape \subseteq Attempts

ScheduleTypes ==
  /\ next_retry \in {"none", "later", "due"} /\ active_claim \in Attempts \union {NoOne}
  /\ sampled \subseteq Attempts

AttemptTypes ==
  att \in [Attempts -> Attempt] /\ session \in Callers \union Attempts \union {NoOne}

\* The claim and the session guard belong to an attempt that will settle them.
Owned ==
  /\ active_claim # NoOne => att[active_claim].kind = "claimed" /\ att[active_claim].pc # "idle"
  /\ session \in Attempts => att[session].pc \in Working

PoolInv ==
  BreakerInv /\ LaneTypes /\ ScheduleTypes /\ AttemptTypes /\ Owned /\ RetirementIsFinal

\* A step that moves attempt a and no other.
Moved(a) == att' \in [Attempts -> Attempt] /\ \A b \in Attempts \ {a} : att'[b] = att[b]

\* What every step but claim_due does to the schedule: the claim stays or goes.
ScheduleMoves ==
  next_retry' \in {"none", "later", "due"} /\ active_claim' \in {active_claim, NoOne}
  /\ sampled' \subseteq Attempts

\* An attempt that was just taken up.
LEMMA FreshAttempt ==
  ASSUME NEW p \in Steps, NEW k \in AttemptKinds
  PROVE  Fresh(p, k) \in Attempt /\ Fresh(p, k).pc = p /\ Fresh(p, k).kind = k
  BY DEF Fresh, Attempt

\* An unused attempt slot.
LEMMA IdleAttempt == Idle \in Attempt /\ Idle.pc = "idle" /\ Idle.kind = "none"
  BY FreshAttempt DEF Idle, Steps, AttemptKinds

\* Advance changes the program counter of one attempt.
LEMMA Advances ==
  ASSUME AttemptTypes, NEW a \in Attempts, NEW next \in Steps, Advance(a, next)
  PROVE  Moved(a) /\ att'[a].pc = next /\ att'[a].kind = att[a].kind
  BY DEF AttemptTypes, Advance, Attempt, Moved

\* Replacing one attempt's record.
LEMMA Replaces ==
  ASSUME AttemptTypes, NEW a \in Attempts, NEW v \in Attempt, att' = [att EXCEPT ![a] = v]
  PROVE  Moved(a) /\ att'[a] = v
  BY DEF AttemptTypes, Moved

\* An attempt's body ends: a claimed one goes on to drop its guard, the session
\* guard is released, and no claim loses its owner.
LEMMA Finishes ==
  ASSUME AttemptTypes, Owned, NEW a \in Attempts, Finish(a)
  PROVE  /\ Moved(a) /\ session' \in {session, NoOne} \ {a}
         /\ active_claim = a => att'[a].kind = "claimed" /\ att'[a].pc # "idle"
<1> DEFINE v == Ended(a)
<1>1. v \in Attempt /\ (att[a].kind = "claimed" => v.kind = "claimed" /\ v.pc = "dropping")
  <2>1. CASE att[a].kind = "claimed"
    <3>1. v = Fresh("dropping", "claimed")
      BY <2>1 DEF Ended
    <3>2. "dropping" \in Steps /\ "claimed" \in AttemptKinds
      BY DEF Steps, AttemptKinds
    <3> QED BY <3>1, <3>2, FreshAttempt
  <2>2. CASE att[a].kind # "claimed"
    BY <2>2, IdleAttempt DEF Ended
  <2> QED BY <2>1, <2>2
<1> HIDE DEF v
<1>2. att' = [att EXCEPT ![a] = v]
  BY DEF Finish, v
<1>3. Moved(a) /\ att'[a] = v
  BY <1>1, <1>2, Replaces
<1>4. session' \in {session, NoOne} \ {a}
  BY PoolAssumption DEF Finish, PoolAssumption
<1>5. active_claim = a => att[a].kind = "claimed"
  BY PoolAssumption DEF Owned, PoolAssumption
<1> QED BY <1>1, <1>3, <1>4, <1>5

\* Ownership survives a step that moves one attempt, if the moved attempt can
\* still settle what it has.
LEMMA OwnersKept ==
  ASSUME AttemptTypes, ScheduleTypes, Owned, NEW a \in Attempts, Moved(a),
         active_claim' \in {active_claim, NoOne}, session' \in {session, NoOne, a},
         active_claim' = a => att'[a].kind = "claimed" /\ att'[a].pc # "idle",
         session' = a => att'[a].pc \in Working
  PROVE  AttemptTypes' /\ Owned'
<1>1. AttemptTypes'
  BY DEF AttemptTypes, Moved
<1>2. active_claim' # NoOne => att'[active_claim'].kind = "claimed" /\ att'[active_claim'].pc # "idle"
  <2>1. active_claim' # NoOne => active_claim' \in Attempts
    BY DEF ScheduleTypes
  <2> QED BY <2>1 DEF Owned, Moved
<1>3. session' \in Attempts => att'[session'].pc \in Working
  BY PoolAssumption DEF Owned, Moved, AttemptTypes, PoolAssumption
<1> QED BY <1>1, <1>2, <1>3 DEF Owned

\* Ownership survives a step that moves no attempt.
LEMMA OwnersStay ==
  ASSUME AttemptTypes, ScheduleTypes, Owned, att' = att,
         active_claim' \in {active_claim, NoOne}, session' \in {session, NoOne} \union Callers
  PROVE  AttemptTypes' /\ Owned'
  BY PoolAssumption DEF AttemptTypes, Owned, ScheduleTypes, PoolAssumption

(***************************************************************************)
(* The schedule's operations.                                              *)
(***************************************************************************)
\* reset_schedule starts a new episode or ends it; no claim survives it.
LEMMA ResetMoves ==
  ASSUME NEW b, reset_schedule(b) PROVE ScheduleMoves
  BY DEF reset_schedule, ScheduleMoves

\* A runtime failure arms the schedule and leaves the claim alone.
LEMMA ObserveMoves ==
  ASSUME ScheduleTypes, observe_runtime_failure PROVE ScheduleMoves
  BY DEF observe_runtime_failure, ScheduleMoves, ScheduleTypes

\* An attempt whose sample is stale leaves the schedule to others.
LEMMA ForgetMoves ==
  ASSUME ScheduleTypes, NEW a, Forget(a) PROVE ScheduleMoves
  BY DEF Forget, ScheduleMoves, ScheduleTypes

\* A step that does not touch the schedule.
LEMMA StayMoves ==
  ASSUME ScheduleTypes, UNCHANGED schedule PROVE ScheduleMoves
  BY DEF schedule, ScheduleMoves, ScheduleTypes

\* A released claim is gone: by this attempt, or before it by somebody else.
LEMMA ReleaseMoves ==
  ASSUME ScheduleTypes, NEW a \in Attempts, NEW b, release_claim(a, b)
  PROVE  ScheduleMoves /\ active_claim' # a
<1>1. ScheduleMoves
  BY ResetMoves, ForgetMoves DEF release_claim
<1>2. active_claim' # a
  BY PoolAssumption DEF release_claim, reset_schedule, Forget, PoolAssumption
<1> QED BY <1>1, <1>2

\* An attempt on a retired entry gives its claim up.
LEMMA DiscardMoves ==
  ASSUME ScheduleTypes, NEW a \in Attempts, Discard(a) PROVE ScheduleMoves
  BY ReleaseMoves, ForgetMoves DEF Discard

\* The schedule keeps its types through all of these.
LEMMA MovesTyped == ASSUME ScheduleTypes, ScheduleMoves PROVE ScheduleTypes'
  BY DEF ScheduleTypes, ScheduleMoves

\* An attempt ends and the schedule moves: the claim and the guard keep owners.
LEMMA FinishKeepsOwners ==
  ASSUME AttemptTypes, ScheduleTypes, Owned, NEW a \in Attempts, Finish(a), ScheduleMoves
  PROVE  ScheduleTypes' /\ AttemptTypes' /\ Owned'
<1>1. /\ Moved(a) /\ session' \in {session, NoOne} \ {a}
      /\ active_claim = a => att'[a].kind = "claimed" /\ att'[a].pc # "idle"
  BY Finishes
<1>2. active_claim' \in {active_claim, NoOne} /\ a # NoOne
  BY PoolAssumption DEF ScheduleMoves, PoolAssumption
<1>3. AttemptTypes' /\ Owned'
  BY <1>1, <1>2, OwnersKept
<1> QED BY <1>3, MovesTyped

\* An attempt that works and goes on working keeps what it has.
LEMMA WorkKeepsOwners ==
  ASSUME AttemptTypes, ScheduleTypes, Owned, NEW a \in Attempts, Moved(a), ScheduleMoves,
         att'[a].pc \in Working, att'[a].kind = att[a].kind, session' \in {session, a}
  PROVE  ScheduleTypes' /\ AttemptTypes' /\ Owned'
<1>1. active_claim' \in {active_claim, NoOne} /\ a # NoOne
  BY PoolAssumption DEF ScheduleMoves, PoolAssumption
<1>2. active_claim' = a => att'[a].kind = "claimed" /\ att'[a].pc # "idle"
  BY <1>1 DEF Owned, Working
<1>3. AttemptTypes' /\ Owned'
  BY <1>1, <1>2, OwnersKept
<1> QED BY <1>3, MovesTyped

(***************************************************************************)
(* Claims and session guards, one step of the proof per action.            *)
(***************************************************************************)
\* A call moves no attempt: it may take the session guard itself, arm or clear
\* the schedule, and drop what it holds.
LEMMA CallsKeepOwners ==
  ASSUME AttemptTypes, ScheduleTypes, Owned, NEW c \in Callers, call_tool(c) \/ CallStep(c) \/ DropCall(c)
  PROVE  ScheduleTypes' /\ AttemptTypes' /\ Owned'
<1>1. ScheduleMoves
  <2>1. CASE call_tool(c) \/ DropCall(c) \/ mark_slot_down(c) \/ finish_call_response(c)
             \/ \E s \in Slots : checkout(c, s)
    BY <2>1, StayMoves DEF call_tool, DropCall, mark_slot_down, finish_call_response, checkout
  <2>2. CASE arm_reconnect(c)
    BY <2>2, StayMoves, ObserveMoves DEF arm_reconnect, ArmEntry
  <2>3. CASE settle_probe_recovery(c)
    BY <2>3, StayMoves, ResetMoves DEF settle_probe_recovery
  <2> QED BY <2>1, <2>2, <2>3 DEF CallStep
<1>2. att' = att /\ session' \in {session, NoOne} \union Callers
  BY DEF call_tool, CallStep, DropCall, mark_slot_down, finish_call_response, checkout, arm_reconnect,
    settle_probe_recovery, CallRest
<1> QED BY <1>1, <1>2, OwnersStay, MovesTyped DEF ScheduleMoves

\* The scheduler: a claim is given to the idle attempt that is launched for it,
\* and taken back when the entry is found retired.
LEMMA SchedulerKeepsOwners ==
  ASSUME AttemptTypes, ScheduleTypes, Owned, SchedulerStep
  PROVE  ScheduleTypes' /\ AttemptTypes' /\ Owned'
<1>1. CASE Register \/ Scan \/ ArmUnscheduled \/ Delay \/ Wake \/ JoinNext
  <2>1. ScheduleMoves
    BY <1>1, StayMoves, ObserveMoves DEF Register, Scan, ArmUnscheduled, ArmEntry, Delay, Wake, JoinNext
  <2>2. att' = att /\ session' = session
    BY <1>1 DEF Register, Scan, ArmUnscheduled, Delay, Wake, JoinNext, SchedRest
  <2> QED BY <2>1, <2>2, OwnersStay, MovesTyped DEF ScheduleMoves
<1>2. CASE claim_due
  <2>0. session' = session
    BY <1>2 DEF claim_due, SchedRest
  <2>1. CASE UNCHANGED <<schedule, att>>
    BY <2>0, <2>1, StayMoves, OwnersStay, MovesTyped DEF ScheduleMoves
  <2>2. CASE ~UNCHANGED <<schedule, att>>
    <3>1. PICK a \in Attempts :
            /\ att[a].pc = "idle" /\ att' = [att EXCEPT ![a] = Fresh("launch", "claimed")]
            /\ active_claim' = a /\ next_retry' = "none" /\ sampled' = {}
      BY <1>2, <2>2 DEF claim_due
    <3>2. "launch" \in Steps /\ "claimed" \in AttemptKinds
      BY DEF Steps, AttemptKinds
    <3>3. /\ Fresh("launch", "claimed") \in Attempt
          /\ Fresh("launch", "claimed").pc = "launch" /\ Fresh("launch", "claimed").kind = "claimed"
      BY <3>2, FreshAttempt
    <3>4. Moved(a) /\ att'[a].pc = "launch" /\ att'[a].kind = "claimed"
      BY <3>1, <3>3, Replaces
    <3>5. ScheduleTypes'
      BY <3>1 DEF ScheduleTypes
    <3>6. session # a
      BY <3>1 DEF Owned, Working
    <3> QED BY <2>0, <3>1, <3>4, <3>5, <3>6 DEF AttemptTypes, Owned, Moved
  <2> QED BY <2>1, <2>2
<1>3. ASSUME NEW a \in Attempts, reconnect_due_task(a) PROVE ScheduleTypes' /\ AttemptTypes' /\ Owned'
  <2>0. session' = session /\ session # a /\ a # NoOne
    BY <1>3, PoolAssumption DEF reconnect_due_task, SchedRest, Owned, Working, PoolAssumption
  <2>1. CASE entry_is_current
    <3>1. Advance(a, "queued") /\ UNCHANGED schedule
      BY <1>3, <2>1 DEF reconnect_due_task, Advance
    <3>2. "queued" \in Steps
      BY DEF Steps
    <3>3. Moved(a) /\ att'[a].pc = "queued" /\ att'[a].kind = att[a].kind
      BY <3>1, <3>2, Advances
    <3>4. ScheduleMoves
      BY <3>1, StayMoves
    <3>5. active_claim' = a => att'[a].kind = "claimed" /\ att'[a].pc # "idle"
      BY <2>0, <3>1, <3>3 DEF schedule, Owned
    <3>6. AttemptTypes' /\ Owned'
      BY <2>0, <3>3, <3>4, <3>5, OwnersKept DEF ScheduleMoves
    <3> QED BY <3>4, <3>6, MovesTyped
  <2>2. CASE ~entry_is_current
    <3>1. att' = [att EXCEPT ![a] = Idle] /\ release_claim(a, FALSE)
      BY <1>3, <2>2 DEF reconnect_due_task
    <3>2. Moved(a)
      BY <3>1, IdleAttempt, Replaces
    <3>3. ScheduleMoves /\ active_claim' # a
      BY <3>1, ReleaseMoves
    <3>4. AttemptTypes' /\ Owned'
      BY <2>0, <3>2, <3>3, OwnersKept DEF ScheduleMoves
    <3> QED BY <3>3, <3>4, MovesTyped
  <2> QED BY <2>1, <2>2
<1> QED BY <1>1, <1>2, <1>3 DEF SchedulerStep

\* An attempt is asked for, gets the session guard, rearms and starts.
LEMMA EntryStepsKeepOwners ==
  ASSUME AttemptTypes, ScheduleTypes, Owned, NEW a \in Attempts,
         \/ \E kind \in Kinds : Ask(a, kind)
         \/ TakeSession(a) \/ Rearm(a) \/ Start(a) \/ Clear(a)
  PROVE  ScheduleTypes' /\ AttemptTypes' /\ Owned'
<1> USE DEF Working, Steps
<1>1. ASSUME NEW kind \in Kinds, Ask(a, kind) PROVE ScheduleTypes' /\ AttemptTypes' /\ Owned'
  <2> DEFINE p == IF kind = "shape" THEN "redialing" ELSE "queued"
  <2>1. p \in Steps /\ p # "idle" /\ kind \in AttemptKinds
    BY PoolAssumption DEF PoolAssumption, AttemptKinds
  <2>2. att' = [att EXCEPT ![a] = Fresh(p, kind)] /\ UNCHANGED <<schedule, session>> /\ att[a].pc = "idle"
    BY <1>1 DEF Ask
  <2> HIDE DEF p
  <2>3. Moved(a)
    BY <2>1, <2>2, FreshAttempt, Replaces
  <2>4. session # a /\ active_claim # a
    BY <2>2, PoolAssumption DEF Owned, PoolAssumption
  <2>5. ScheduleMoves
    BY <2>2, StayMoves
  <2>6. active_claim' = active_claim /\ session' = session
    BY <2>2 DEF schedule
  <2>7. AttemptTypes' /\ Owned'
    BY <2>3, <2>4, <2>6, OwnersKept
  <2> QED BY <2>5, <2>7, MovesTyped
<1>2. CASE TakeSession(a)
  <2>1. ScheduleMoves
    BY <1>2, StayMoves DEF TakeSession
  <2>2. CASE Finish(a)
    BY <2>1, <2>2, FinishKeepsOwners
  <2>3. CASE ~Finish(a)
    <3>1. session' = a /\ \E next \in {"start", "clear", "rearm", "redialing"} : Advance(a, next)
      BY <1>2, <2>3 DEF TakeSession
    <3>2. PICK next \in {"start", "clear", "rearm", "redialing"} : Advance(a, next)
      BY <3>1
    <3>3. Moved(a) /\ att'[a].pc = next /\ att'[a].kind = att[a].kind
      BY <3>2, Advances
    <3>4. att'[a].pc \in Working
      BY <3>3
    <3> QED BY <2>1, <3>1, <3>3, <3>4, WorkKeepsOwners
  <2> QED BY <2>2, <2>3
<1>3. CASE Rearm(a)
  <2>1. CASE entry_is_current
    <3>1. ScheduleMoves
      BY <1>3, <2>1, ResetMoves, ObserveMoves DEF Rearm
    <3>2. Advance(a, "start") /\ session' = session
      BY <1>3, <2>1 DEF Rearm
    <3>3. Moved(a) /\ att'[a].pc = "start" /\ att'[a].kind = att[a].kind
      BY <3>2, Advances
    <3> QED BY <3>1, <3>2, <3>3, WorkKeepsOwners
  <2>2. CASE ~entry_is_current
    BY <1>3, <2>2, StayMoves, FinishKeepsOwners DEF Rearm
  <2> QED BY <2>1, <2>2
<1>4. CASE Start(a)
  <2> DEFINE dial == {s \in Slots : state = "open" \/ ~lane[s]}
             p == IF dial = {} THEN "clear" ELSE "dialing"
             o == state = "open"
  <2>1. att' = [att EXCEPT ![a] = [@ EXCEPT !.pc = p, !.open0 = o, !.dial = dial]]
    BY <1>4 DEF Start
  <2>2. p \in Working /\ o \in BOOLEAN /\ dial \in SUBSET Slots
    OBVIOUS
  <2>3. UNCHANGED <<schedule, session>>
    BY <1>4 DEF Start
  <2> HIDE DEF dial, p, o
  <2>4. PICK w \in Attempt : w = att[a]
    BY DEF AttemptTypes
  <2> DEFINE v == [w EXCEPT !.pc = p, !.open0 = o, !.dial = dial]
  <2>5. v \in Attempt /\ v.pc = p /\ v.kind = w.kind
    BY <2>2 DEF Attempt
  <2>6. att' = [att EXCEPT ![a] = v]
    BY <2>1, <2>4
  <2> HIDE DEF v
  <2>7. Moved(a) /\ att'[a] = v
    BY <2>5, <2>6, Replaces
  <2> QED BY <2>2, <2>3, <2>4, <2>5, <2>7, StayMoves, WorkKeepsOwners
<1>5. CASE Clear(a)
  <2>1. ScheduleMoves
    BY <1>5, ResetMoves, DiscardMoves DEF Clear
  <2> QED BY <1>5, <2>1, FinishKeepsOwners DEF Clear
<1> QED BY <1>1, <1>2, <1>3, <1>4, <1>5

\* An attempt commits, publishes its outcome, and its guard settles the claim.
LEMMA ExitStepsKeepOwners ==
  ASSUME AttemptTypes, ScheduleTypes, Owned, LaneTypes, NEW a \in Attempts,
         \/ \E ok \in SUBSET Slots : Commit(a, ok) \/ RedialCommit(a, ok)
         \/ Outcome(a) \/ RedialOutcome(a) \/ DropGuard(a) \/ CancelAttempt(a)
  PROVE  ScheduleTypes' /\ AttemptTypes' /\ Owned'
<1> USE DEF Working, Steps
<1>1. ASSUME NEW ok \in SUBSET Slots, Commit(a, ok) PROVE ScheduleTypes' /\ AttemptTypes' /\ Owned'
  <2>1. CASE Finish(a)
    <3>1. ScheduleMoves
      <4>1. CASE ~entry_is_current
        BY <1>1, <4>1, DiscardMoves DEF Commit
      <4>2. CASE att[a].kind = "claimed" /\ ReleaseClaim(a, TRUE)
        BY <4>2, ReleaseMoves DEF ReleaseClaim
      <4>3. CASE UNCHANGED schedule
        BY <4>3, StayMoves
      <4>4. CASE sampled' = sampled \union {a} /\ UNCHANGED <<next_retry, active_claim>>
        BY <4>4 DEF ScheduleMoves, ScheduleTypes
      <4> QED BY <1>1, <4>1, <4>2, <4>3, <4>4 DEF Commit
    <3> QED BY <2>1, <3>1, FinishKeepsOwners
  <2>2. CASE ~Finish(a)
    <3> DEFINE open == state = "open"
               install == {s \in ok : open \/ ~lane[s]}
               h == install # {}
               e == ok # att[a].dial
               p == att[a].open0 /\ ~open
               d == {s \in Slots : ~lane'[s]}
    <3>1. /\ att' = [att EXCEPT ![a] = [@ EXCEPT !.pc = "outcome", !.healed = h, !.err = e,
                                                 !.probed = p, !.open0 = FALSE, !.dial = d]]
          /\ sampled' = sampled \union {a} /\ UNCHANGED <<next_retry, active_claim, session>>
      BY <1>1, <2>2 DEF Commit
    <3>2. h \in BOOLEAN /\ e \in BOOLEAN /\ p \in BOOLEAN /\ d \in SUBSET Slots
      OBVIOUS
    <3> HIDE DEF open, install, h, e, p, d
    <3>3. PICK w \in Attempt : w = att[a]
      BY DEF AttemptTypes
    <3> DEFINE v == [w EXCEPT !.pc = "outcome", !.healed = h, !.err = e,
                              !.probed = p, !.open0 = FALSE, !.dial = d]
    <3>4. v \in Attempt /\ v.pc = "outcome" /\ v.kind = w.kind
      BY <3>2 DEF Attempt
    <3>5. att' = [att EXCEPT ![a] = v]
      BY <3>1, <3>3
    <3> HIDE DEF v
    <3>6. Moved(a) /\ att'[a] = v
      BY <3>4, <3>5, Replaces
    <3>7. ScheduleMoves
      BY <3>1 DEF ScheduleMoves, ScheduleTypes
    <3> QED BY <3>1, <3>3, <3>4, <3>6, <3>7, WorkKeepsOwners
  <2> QED BY <2>1, <2>2
<1>2. ASSUME NEW ok \in SUBSET Slots, RedialCommit(a, ok) PROVE ScheduleTypes' /\ AttemptTypes' /\ Owned'
  <2>0. ScheduleMoves
    BY <1>2 DEF RedialCommit, ScheduleMoves, ScheduleTypes
  <2>1. CASE Finish(a)
    BY <2>0, <2>1, FinishKeepsOwners
  <2>2. CASE ~Finish(a)
    <3> DEFINE d == Slots \ ok
    <3>1. att' = [att EXCEPT ![a] = [@ EXCEPT !.pc = "redialed", !.dial = d]] /\ UNCHANGED session
      BY <1>2, <2>2 DEF RedialCommit
    <3>2. d \in SUBSET Slots
      OBVIOUS
    <3> HIDE DEF d
    <3>3. PICK w \in Attempt : w = att[a]
      BY DEF AttemptTypes
    <3> DEFINE v == [w EXCEPT !.pc = "redialed", !.dial = d]
    <3>4. v \in Attempt /\ v.pc = "redialed" /\ v.kind = w.kind
      BY <3>2 DEF Attempt
    <3>5. att' = [att EXCEPT ![a] = v]
      BY <3>1, <3>3
    <3> HIDE DEF v
    <3>6. Moved(a) /\ att'[a] = v
      BY <3>4, <3>5, Replaces
    <3> QED BY <2>0, <3>1, <3>3, <3>4, <3>6, WorkKeepsOwners
  <2> QED BY <2>1, <2>2
<1>3. CASE Outcome(a)
  <2>1. ScheduleMoves
    BY <1>3, DiscardMoves, ResetMoves, ForgetMoves, ReleaseMoves DEF Outcome, ReleaseClaim
  <2> QED BY <1>3, <2>1, FinishKeepsOwners DEF Outcome
<1>4. CASE RedialOutcome(a)
  <2>1. ScheduleMoves
    BY <1>4, ResetMoves, ForgetMoves DEF RedialOutcome
  <2> QED BY <1>4, <2>1, FinishKeepsOwners DEF RedialOutcome
<1>5. CASE DropGuard(a)
  <2>0. session' = session /\ session # a /\ a # NoOne
    BY <1>5, PoolAssumption DEF DropGuard, Owned, PoolAssumption
  <2>1. CASE fence = "free"
    <3>1. att' = [att EXCEPT ![a] = Idle]
      BY <1>5, <2>1 DEF DropGuard
    <3>2. ScheduleMoves /\ active_claim' # a
      BY <1>5, <2>1, ReleaseMoves DEF DropGuard, ReleaseClaim
    <3>3. Moved(a)
      BY <3>1, IdleAttempt, Replaces
    <3>4. AttemptTypes' /\ Owned'
      BY <2>0, <3>2, <3>3, OwnersKept DEF ScheduleMoves
    <3> QED BY <3>2, <3>4, MovesTyped
  <2>2. CASE fence # "free"
    <3>1. Advance(a, "deferred") /\ UNCHANGED schedule
      BY <1>5, <2>2 DEF DropGuard
    <3>2. Moved(a) /\ att'[a].pc = "deferred" /\ att'[a].kind = att[a].kind
      BY <3>1, Advances
    <3>3. ScheduleMoves
      BY <3>1, StayMoves
    <3>4. active_claim' = a => att'[a].kind = "claimed" /\ att'[a].pc # "idle"
      BY <2>0, <3>1, <3>2 DEF schedule, Owned
    <3>5. AttemptTypes' /\ Owned'
      BY <2>0, <3>2, <3>3, <3>4, OwnersKept DEF ScheduleMoves
    <3> QED BY <3>3, <3>5, MovesTyped
  <2> QED BY <2>1, <2>2
<1>6. CASE CancelAttempt(a)
  <2>1. ScheduleMoves
    BY <1>6 DEF CancelAttempt, ScheduleMoves, ScheduleTypes
  <2> QED BY <1>6, <2>1, FinishKeepsOwners DEF CancelAttempt
<1> QED BY <1>1, <1>2, <1>3, <1>4, <1>5, <1>6

(***************************************************************************)
(* Lanes, calls and the scheduler keep their types.                        *)
(***************************************************************************)
\* notify_waiters only ever sets the flag.
LEMMA NotifyTyped ==
  ASSUME notify_waiters \/ UNCHANGED woken, woken \in BOOLEAN PROVE woken' \in BOOLEAN
  BY Zenon DEF notify_waiters

\* A call moves from one of its states to another.
LEMMA CallTyped ==
  ASSUME LaneTypes, NEW c \in Callers, NEW next \in CallStates, To(c, next)
  PROVE  call' \in [Callers -> CallStates]
  BY DEF LaneTypes, To

\* Calls: only a faulted slot changes a lane, only a checkout a slot.
LEMMA CallsKeepTypes ==
  ASSUME LaneTypes, NEW c \in Callers, call_tool(c) \/ CallStep(c) \/ DropCall(c)
  PROVE  LaneTypes'
<1> USE DEF CallStates
<1>1. call' \in [Callers -> CallStates]
  BY CallTyped DEF call_tool, CallStep, checkout, finish_call_response, mark_slot_down, arm_reconnect,
    settle_probe_recovery, DropCall
<1>2. woken' \in BOOLEAN
  <2>1. notify_waiters \/ UNCHANGED woken
    BY DEF call_tool, CallStep, checkout, finish_call_response, mark_slot_down, arm_reconnect, ArmEntry,
      settle_probe_recovery, DropCall, FailureReport
  <2> QED BY <2>1, NotifyTyped DEF LaneTypes
<1>3. /\ UNCHANGED <<entry, fence, sched, timer, joined, same_shape>>
      /\ gauge' \in {gauge, "entry"} /\ cancels' \in {cancels, cancels + 1}
  BY DEF call_tool, CallStep, checkout, finish_call_response, mark_slot_down, arm_reconnect, ArmEntry,
    settle_probe_recovery, DropCall, CallRest, waiter, publish_schedule
<1>4. lane' \in [Slots -> BOOLEAN] /\ slot' \in [Callers -> Slots]
  BY DEF LaneTypes, call_tool, CallStep, checkout, finish_call_response, mark_slot_down, arm_reconnect,
    settle_probe_recovery, DropCall
<1> QED BY <1>1, <1>2, <1>3, <1>4 DEF LaneTypes

\* The scheduler: its own position, its timer and its wake-up flag.
LEMMA SchedulerKeepsTypes ==
  ASSUME LaneTypes, SchedulerStep
  PROVE  LaneTypes'
<1> USE DEF SchedStates
<1>1. UNCHANGED <<lane, call, slot, entry, fence, cancels, same_shape>>
  BY DEF SchedulerStep, Register, Scan, ArmUnscheduled, Delay, Wake, JoinNext, claim_due,
    reconnect_due_task, SchedRest
<1>2. sched' \in SchedStates /\ gauge' \in {gauge, "entry"}
  BY DEF SchedulerStep, Register, Scan, ArmUnscheduled, ArmEntry, Delay, Wake, JoinNext, claim_due,
    reconnect_due_task, publish_schedule
<1>3. timer' \in BOOLEAN
  <2>1. CASE Delay
    BY <2>1 DEF Delay, LaneTypes
  <2>2. CASE ~Delay
    BY <2>2 DEF SchedulerStep, Register, Scan, ArmUnscheduled, Wake, JoinNext, claim_due,
      reconnect_due_task, LaneTypes
  <2> QED BY <2>1, <2>2
<1>4. woken' \in BOOLEAN
  <2>1. notify_waiters \/ UNCHANGED woken \/ woken' = FALSE
    BY DEF SchedulerStep, Register, Scan, ArmUnscheduled, ArmEntry, Delay, Wake, JoinNext, claim_due,
      reconnect_due_task
  <2> QED BY <2>1, NotifyTyped DEF LaneTypes
<1>5. joined' \in BOOLEAN
  BY DEF SchedulerStep, Register, Scan, ArmUnscheduled, Delay, Wake, JoinNext, claim_due,
    reconnect_due_task, LaneTypes
<1> QED BY <1>1, <1>2, <1>3, <1>4, <1>5 DEF LaneTypes

\* Attempts: they install lanes, sample shapes and publish the schedule.
LEMMA AttemptsKeepTypes ==
  ASSUME LaneTypes, NEW a \in Attempts,
         (\E kind \in Kinds : Ask(a, kind)) \/ AttemptStep(a) \/ CancelAttempt(a)
  PROVE  LaneTypes'
<1>1. UNCHANGED <<call, slot, entry, fence, sched, timer>> /\ cancels' \in {cancels, cancels + 1}
  BY DEF Ask, AttemptStep, TakeSession, Rearm, Start, Clear, Outcome, RedialOutcome, DropGuard, Commit,
    RedialCommit, CancelAttempt, AttRest, waiter
<1>2. same_shape' \subseteq Attempts
  BY DEF LaneTypes, Ask, AttemptStep, TakeSession, Rearm, Start, Clear, Outcome, RedialOutcome, DropGuard,
    Commit, RedialCommit, CancelAttempt, Finish
<1>3. lane' \in [Slots -> BOOLEAN]
  <2>1. ASSUME NEW ok \in SUBSET Slots, Commit(a, ok) PROVE lane' \in [Slots -> BOOLEAN]
    BY <2>1 DEF Commit, LaneTypes
  <2>2. ASSUME NEW ok \in SUBSET Slots, RedialCommit(a, ok) PROVE lane' \in [Slots -> BOOLEAN]
    <3>1. lane' = lane \/ lane' = [s \in Slots |-> s \in ok]
      BY <2>2 DEF RedialCommit
    <3>2. \A s \in Slots : (s \in ok) \in BOOLEAN
      OBVIOUS
    <3>3. [s \in Slots |-> s \in ok] \in [Slots -> BOOLEAN]
      BY <3>2, Zenon
    <3> QED BY <3>1, <3>3 DEF LaneTypes
  <2>3. CASE \/ \E kind \in Kinds : Ask(a, kind)
             \/ TakeSession(a) \/ Rearm(a) \/ Start(a) \/ Clear(a) \/ Outcome(a)
             \/ RedialOutcome(a) \/ DropGuard(a) \/ CancelAttempt(a)
    BY <2>3 DEF LaneTypes, Ask, TakeSession, Rearm, Start, Clear, Outcome, RedialOutcome, DropGuard,
      CancelAttempt
  <2> QED BY <2>1, <2>2, <2>3 DEF AttemptStep
<1>4. gauge' \in {gauge, "entry"} /\ (notify_waiters \/ UNCHANGED woken)
  BY DEF Ask, AttemptStep, TakeSession, Rearm, Start, Clear, Outcome, RedialOutcome, DropGuard, Commit,
    RedialCommit, CancelAttempt, ReleaseClaim, Announce, publish_schedule
<1>5. joined' \in BOOLEAN
  <2>1. CASE DropGuard(a)
    BY <2>1 DEF DropGuard, LaneTypes
  <2>2. CASE ~DropGuard(a)
    BY <2>2 DEF LaneTypes, Ask, AttemptStep, TakeSession, Rearm, Start, Clear, Outcome, RedialOutcome, Commit,
      RedialCommit, CancelAttempt, AttRest, waiter
  <2> QED BY <2>1, <2>2
<1>6. woken' \in BOOLEAN
  BY <1>4, NotifyTyped DEF LaneTypes
<1> QED BY <1>1, <1>2, <1>3, <1>4, <1>5, <1>6 DEF LaneTypes

(***************************************************************************)
(* Retirement.                                                             *)
(***************************************************************************)
\* What keeps a retired entry retired: only CommitReload changes the entry, and
\* whoever else publishes its schedule or rearms it looks first whether it is
\* still the published one.
Respects ==
  /\ entry' = entry
  /\ entry = "removed" => next_retry' \in {next_retry, "none"}
  /\ entry = "replaced" => gauge' = gauge

\* Such a step keeps the retirement final.
LEMMA RespectKeepsRetirement == ASSUME RetirementIsFinal, Respects PROVE RetirementIsFinal'
  BY DEF RetirementIsFinal, Respects

\* Every step but the reload's commit is such a step.
LEMMA StepsRespect ==
  ASSUME RetirementIsFinal, PoolNext, ~CommitReload PROVE Respects
<1> USE DEF Respects, schedule, entry_is_current
<1>1. ASSUME NEW c \in Callers, call_tool(c) \/ CallStep(c) \/ DropCall(c) PROVE Respects
  BY <1>1 DEF call_tool, CallStep, checkout, finish_call_response, mark_slot_down, arm_reconnect, ArmEntry,
    settle_probe_recovery, DropCall, CallRest
<1>2. CASE Cooldown \/ BeginReload
  BY <1>2 DEF Cooldown, BeginReload, CallRest
<1>3. CASE DeadlinePasses
  BY <1>3 DEF DeadlinePasses, RetirementIsFinal
<1>4. CASE SchedulerStep
  <2>1. ASSUME NEW a \in Attempts, reconnect_due_task(a) PROVE Respects
    BY <2>1 DEF reconnect_due_task, release_claim, reset_schedule, Forget, SchedRest
  <2>2. CASE ~\E a \in Attempts : reconnect_due_task(a)
    BY <1>4, <2>2 DEF SchedulerStep, Register, Scan, ArmUnscheduled, ArmEntry, Delay, Wake, JoinNext, claim_due,
      SchedRest
  <2> QED BY <2>1, <2>2
<1>5. ASSUME NEW a \in Attempts,
             (\E kind \in Kinds : Ask(a, kind)) \/ AttemptStep(a) \/ CancelAttempt(a)
      PROVE  Respects
  <2>1. CASE (\E kind \in Kinds : Ask(a, kind)) \/ TakeSession(a) \/ Start(a) \/ CancelAttempt(a)
    BY <2>1 DEF Ask, TakeSession, Start, CancelAttempt, AttRest
  <2>2. CASE Rearm(a) \/ Clear(a)
    BY <2>2 DEF Rearm, Clear, Discard, release_claim, reset_schedule, Forget, AttRest
  <2>3. CASE Outcome(a) \/ RedialOutcome(a)
    BY <2>3 DEF Outcome, RedialOutcome, Discard, release_claim, reset_schedule, Forget, AttRest
  <2>4. CASE DropGuard(a)
    BY <2>4 DEF DropGuard, release_claim, reset_schedule, Forget
  <2>5. ASSUME NEW ok \in SUBSET Slots, Commit(a, ok) \/ RedialCommit(a, ok) PROVE Respects
    BY <2>5 DEF Commit, RedialCommit, Discard, release_claim, reset_schedule, Forget, AttRest
  <2> QED BY <1>5, <2>1, <2>2, <2>3, <2>4, <2>5 DEF AttemptStep
<1> QED BY <1>1, <1>2, <1>3, <1>4, <1>5 DEF PoolNext

\* The reload retires the entry and settles its schedule and metric in one step.
LEMMA RetirementInductive ==
  ASSUME RetirementIsFinal, [PoolNext]_poolVars PROVE RetirementIsFinal'
<1>1. CASE CommitReload
  BY <1>1 DEF CommitReload, RetirementIsFinal, reset_schedule, schedule
<1>2. CASE PoolNext /\ ~CommitReload
  BY <1>2, StepsRespect, RespectKeepsRetirement
<1>3. CASE UNCHANGED poolVars
  BY <1>3 DEF poolVars, schedule, RetirementIsFinal
<1> QED BY <1>1, <1>2, <1>3

(***************************************************************************)
(* The theorems.                                                           *)
(***************************************************************************)
\* A pool starts with nobody holding anything.
LEMMA PoolInitially == PoolInit => PoolInv
<1> SUFFICES ASSUME PoolInit PROVE PoolInv
  OBVIOUS
<1>1. BreakerInv
  BY BreakerInitially DEF PoolInit
<1>2. (CHOOSE s \in Slots : TRUE) \in Slots
  BY PoolAssumption DEF PoolAssumption
<1>3. LaneTypes
  BY <1>2 DEF PoolInit, LaneTypes, CallStates, SchedStates
<1>4. ScheduleTypes /\ RetirementIsFinal
  BY DEF PoolInit, ScheduleTypes, RetirementIsFinal
<1>5. AttemptTypes /\ Owned
  BY IdleAttempt, PoolAssumption DEF PoolInit, AttemptTypes, Owned, PoolAssumption
<1> QED BY <1>1, <1>3, <1>4, <1>5 DEF PoolInv

\* Every step of the pool keeps the invariant.
LEMMA PoolInductive == PoolInv /\ [PoolNext]_poolVars => PoolInv'
<1> SUFFICES ASSUME PoolInv, [PoolNext]_poolVars PROVE PoolInv'
  OBVIOUS
<1> USE DEF PoolInv
<1>1. BreakerInv'
  BY PoolStepsBreaker, BreakerInductive
<1>2. RetirementIsFinal'
  BY RetirementInductive
<1>3. LaneTypes' /\ ScheduleTypes' /\ AttemptTypes' /\ Owned'
  <2>1. ASSUME NEW c \in Callers, call_tool(c) \/ CallStep(c) \/ DropCall(c)
        PROVE  LaneTypes' /\ ScheduleTypes' /\ AttemptTypes' /\ Owned'
    BY <2>1, CallsKeepTypes, CallsKeepOwners
  <2>2. CASE SchedulerStep
    BY <2>2, SchedulerKeepsTypes, SchedulerKeepsOwners
  <2>3. ASSUME NEW a \in Attempts,
               (\E kind \in Kinds : Ask(a, kind)) \/ AttemptStep(a) \/ CancelAttempt(a)
        PROVE  LaneTypes' /\ ScheduleTypes' /\ AttemptTypes' /\ Owned'
    <3>1. LaneTypes'
      BY <2>3, AttemptsKeepTypes
    <3>2. ScheduleTypes' /\ AttemptTypes' /\ Owned'
      BY <2>3, EntryStepsKeepOwners, ExitStepsKeepOwners DEF AttemptStep
    <3> QED BY <3>1, <3>2
  <2>4. CASE Cooldown \/ DeadlinePasses \/ BeginReload \/ CommitReload \/ UNCHANGED poolVars
    <3>1. ScheduleMoves
      <4>1. CASE DeadlinePasses
        BY <4>1 DEF DeadlinePasses, ScheduleMoves, ScheduleTypes
      <4>2. CASE ~DeadlinePasses
        BY <2>4, <4>2, StayMoves, ResetMoves DEF Cooldown, BeginReload, CommitReload, poolVars
      <4> QED BY <4>1, <4>2
    <3>2. att' = att /\ session' = session
      BY <2>4 DEF Cooldown, DeadlinePasses, BeginReload, CommitReload, CallRest, ReloadRest, poolVars
    <3>3. /\ UNCHANGED <<lane, call, slot, sched, timer, joined, cancels, same_shape>>
          /\ entry' \in {entry, "removed", "replaced"} /\ fence' \in {fence, "free", "reload"}
          /\ gauge' \in {gauge, "entry", "successor"} /\ (notify_waiters \/ UNCHANGED woken)
      BY <2>4 DEF Cooldown, DeadlinePasses, BeginReload, CommitReload, CallRest, ReloadRest, waiter, poolVars,
        Announce, publish_schedule
    <3>4. LaneTypes'
      BY <3>3, NotifyTyped DEF LaneTypes
    <3> QED BY <3>1, <3>2, <3>4, OwnersStay, MovesTyped DEF ScheduleMoves
  <2> QED BY <2>1, <2>2, <2>3, <2>4 DEF PoolNext
<1> QED BY <1>1, <1>2, <1>3

\* A claim never outlives the attempt that settles it, and the session guard
\* never outlives the attempt that queues others behind it; with them, every
\* variable of the pool keeps its type.
THEOREM PoolClaimHasOwner == PoolSpec => []ClaimHasOwner
<1>1. PoolInv => ClaimHasOwner
  <2> SUFFICES ASSUME PoolInv PROVE ClaimHasOwner
    OBVIOUS
  <2>1. \A a \in Attempts : att[a].dial \subseteq Slots
    BY DEF PoolInv, AttemptTypes, Attempt
  <2>2. PoolTypeOK
    BY <2>1 DEF PoolTypeOK, PoolInv, BreakerInv, LaneTypes, ScheduleTypes, AttemptTypes, CallStates, SchedStates
  <2>3. session \in Attempts => att[session].pc \notin {"idle", "launch", "queued", "dropping", "deferred"}
    BY DEF PoolInv, Owned, Working
  <2> QED BY <2>2, <2>3 DEF ClaimHasOwner, PoolInv, Owned
<1> QED BY <1>1, PoolInitially, PoolInductive, PTL DEF PoolSpec

\* A removed upstream is never scheduled again, and the metric of a replaced one
\* stays with its successor.
THEOREM PoolRetirementIsFinal == PoolSpec => []RetirementIsFinal
<1>1. PoolInv => RetirementIsFinal
  BY DEF PoolInv
<1> QED BY <1>1, PoolInitially, PoolInductive, PTL DEF PoolSpec

\* Nothing installs a connection on an entry that a reload has retired: the two
\* commits that install lanes check the entry under the fence.
THEOREM PoolRetiredStaysDown == PoolSpec => RetiredStaysDown
<1> DEFINE A == (entry # "current") => \A s \in Slots : lane'[s] => lane[s]
<1>1. ASSUME PoolInv, [PoolNext]_poolVars PROVE [A]_poolVars
  <2> SUFFICES ASSUME PoolNext, entry # "current", NEW s \in Slots, lane'[s] PROVE lane[s]
    BY <1>1
  <2>1. ASSUME NEW c \in Callers, mark_slot_down(c) PROVE lane[s]
    BY <1>1, <2>1 DEF mark_slot_down, PoolInv, LaneTypes
  <2>2. ASSUME NEW a \in Attempts, NEW ok \in SUBSET Slots, Commit(a, ok) \/ RedialCommit(a, ok)
        PROVE  lane' = lane
    BY <2>2 DEF Commit, RedialCommit, entry_is_current
  <2>3. ASSUME NEW c \in Callers, call_tool(c) \/ CallStep(c) \/ DropCall(c), ~mark_slot_down(c)
        PROVE  lane' = lane
    BY <2>3 DEF call_tool, CallStep, checkout, finish_call_response, arm_reconnect, settle_probe_recovery, DropCall
  <2>4. ASSUME NEW a \in Attempts,
               \/ \E kind \in Kinds : Ask(a, kind)
               \/ TakeSession(a) \/ Rearm(a) \/ Start(a) \/ Clear(a) \/ Outcome(a)
               \/ RedialOutcome(a) \/ DropGuard(a) \/ CancelAttempt(a)
        PROVE  lane' = lane
    BY <2>4 DEF Ask, TakeSession, Rearm, Start, Clear, Outcome, RedialOutcome, DropGuard, CancelAttempt
  <2>5. CASE Cooldown \/ DeadlinePasses \/ SchedulerStep \/ BeginReload \/ CommitReload
    BY <2>5 DEF Cooldown, DeadlinePasses, SchedulerStep, Register, Scan, ArmUnscheduled, Delay, Wake, JoinNext,
      claim_due, reconnect_due_task, BeginReload, CommitReload, SchedRest, ReloadRest
  <2> QED BY <2>1, <2>2, <2>3, <2>4, <2>5 DEF PoolNext, AttemptStep
<1>2. PoolInv /\ [PoolNext]_poolVars => [A]_poolVars
  BY <1>1
<1> QED BY <1>2, PoolInitially, PoolInductive, PTL DEF PoolSpec, RetiredStaysDown, A
=============================================================================

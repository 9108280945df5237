---------------------------- MODULE UpstreamPool ----------------------------
(***************************************************************************)
(* One upstream of the pool: its lanes, its circuit breaker, its recovery  *)
(* schedule, the calls that fail on it, and everything that re-dials it    *)
(* (waygate-upstream/src/pool: reconnect.rs, reload.rs, lanes.rs,          *)
(* dispatch.rs; waygate-server/src/reconnect_scheduler.rs).  A step is     *)
(* what runs between two awaits.  Two async locks order the steps: the     *)
(* entry's session_mutation guard, held over a whole attempt, and the      *)
(* pool's reload_lock, the structural fence; a section under the fence is  *)
(* one step, except that a reload keeps it while it drains the lanes.      *)
(***************************************************************************)
EXTENDS Breaker, FiniteSets

CONSTANTS
  Slots,       \* the upstream's lanes
  Attempts,    \* recovery attempts in progress at once
  Kinds,       \* who asks for a dial besides the scheduler
  NoOne,       \* nobody holds the lock, or the claim
  MaxCancels   \* bound: dropped calls, dropped handlers and panicked tasks

ASSUME PoolAssumption ==
  /\ Kinds \subseteq {"operator", "fleet", "refresh", "shape"}
  /\ Slots # {} /\ NoOne \notin Callers \union Attempts
  /\ Callers \intersect Attempts = {} /\ MaxCancels \in Nat

VARIABLES
  lane,          \* lane[s]: the slot stores a connection
  call,          \* call[c]: where c is with its call
  slot,          \* slot[c]: the slot c checked out
  entry,         \* "current", "replaced" by a same-name entry, or "removed"
  next_retry,    \* "none", "later" or "due"
  active_claim,  \* the attempt whose claim hides the schedule
  sampled,       \* attempts whose sampled revision is still the entry's
  same_shape,    \* attempts that dialed the manifest the entry still has
  sched,         \* the reconnect scheduler
  timer,         \* it sleeps with a deadline
  woken,         \* notify_waiters reached it since it registered
  joined,        \* an attempt task ended since it last looked
  fence,         \* reload_lock: "free", or kept by a "reload"
  session,       \* who holds session_mutation
  att,           \* att[a]: the attempt
  gauge,         \* whose schedule the server-labelled metric shows
  cancels

breaker  == <<state, failures, opened_at, probe_running, permit>>
schedule == <<next_retry, active_claim, sampled>>
waiter   == <<sched, timer, joined>>
poolVars ==
  <<breaker, lane, call, slot, entry, schedule, same_shape, waiter, woken, fence, session, att,
    gauge, cancels>>

\* An attempt that has decided and dialed nothing yet.
Fresh(pc, kind) ==
  [pc |-> pc, kind |-> kind, open0 |-> FALSE, dial |-> {},
   healed |-> FALSE, err |-> FALSE, probed |-> FALSE]
Idle == Fresh("idle", "none")

PoolInit ==
  /\ Init
  /\ lane \in [Slots -> BOOLEAN]
  /\ call = [c \in Callers |-> "idle"] /\ slot \in [Callers -> {CHOOSE s \in Slots : TRUE}]
  /\ entry = "current"
  /\ next_retry = (IF \A s \in Slots : lane[s] THEN "none" ELSE "later")
  /\ active_claim = NoOne /\ sampled = {} /\ same_shape = {}
  /\ sched = "enter" /\ timer = FALSE /\ woken = FALSE /\ joined = FALSE
  /\ fence = "free" /\ session = NoOne
  /\ att = [a \in Attempts |-> Idle]
  /\ gauge = "entry" /\ cancels = 0

(***************************************************************************)
(* The recovery schedule (ReconnectState).  Backoffs are data: a deadline  *)
(* is in the future or due.  Every operation advances the revision, which  *)
(* only ever is compared with a sample.                                    *)
(***************************************************************************)
is_scheduled == next_retry # "none" \/ active_claim # NoOne

reset_schedule(needs_recovery) ==
  /\ sampled' = {} /\ active_claim' = NoOne
  /\ next_retry' = IF needs_recovery THEN "later" ELSE "none"

observe_runtime_failure ==
  /\ sampled' = {}
  /\ next_retry' = IF is_scheduled THEN next_retry ELSE "later"
  /\ UNCHANGED active_claim

\* The attempt leaves the schedule to others; its sample is gone with it.
Forget(a) == sampled' = sampled \ {a} /\ UNCHANGED <<next_retry, active_claim>>

release_claim(a, needs_recovery) ==
  IF active_claim = a THEN reset_schedule(needs_recovery) ELSE Forget(a)

\* Mutant: the waiter registers at its first poll, after the scan.
notify_waiters_LateRegistration == woken' = (woken \/ sched = "wait")

notify_waiters == woken' = (woken \/ sched \in {"scan", "arm", "delay", "wait"})
publish_schedule == gauge' = "entry"

DeadlinePasses ==
  /\ next_retry = "later" /\ next_retry' = "due"
  /\ UNCHANGED <<breaker, lane, call, slot, entry, active_claim, sampled, same_shape, waiter, woken,
                 fence, session, att, gauge, cancels>>

\* Mutant: the tombstone alone decides; a replaced entry passes.
entry_is_current_FlagOnly == entry # "removed"

entry_is_current == entry = "current"

needs_reconnect ==
  entry # "removed" /\ (state = "open" \/ \E s \in Slots : ~lane[s])

(***************************************************************************)
(* Calls.  A permit is reported before the lane's read lock is dropped.    *)
(***************************************************************************)
CallRest == <<entry, same_shape, waiter, fence, att>>
To(c, next) == call' = [call EXCEPT ![c] = next]
OnLane(s) == \E c \in Callers : call[c] = "on_lane" /\ slot[c] = s
LanesFree == \A c \in Callers : call[c] # "on_lane"

\* The breaker's trip wakes the scheduler.
Trips(c) == WasProbe(c) \/ (state # "open" /\ failures + 1 >= Threshold)
FailureReport(c) ==
  /\ on_failure(c)
  /\ IF Trips(c) THEN notify_waiters ELSE UNCHANGED woken

call_tool(c) ==
  /\ call[c] = "idle" /\ entry_is_current
  /\ acquire(c) /\ To(c, "admitted")
  /\ UNCHANGED <<CallRest, lane, slot, schedule, woken, session, gauge, cancels>>

\* A free connected slot goes first; a call on a down one fails.  A call that
\* waited too long, or finds its entry removed or its contract changed, is
\* refused without a verdict on the upstream.
checkout(c, s) ==
  /\ call[c] = "admitted"
  /\ lane[s] \/ \A t \in Slots : lane[t] => OnLane(t)
  /\ \/ /\ ~lane[s] /\ FailureReport(c) /\ To(c, "idle") /\ UNCHANGED slot
     \/ /\ neutral(c) /\ To(c, "idle") /\ UNCHANGED <<slot, woken>>
     \/ /\ lane[s] /\ entry # "removed" /\ slot' = [slot EXCEPT ![c] = s] /\ To(c, "on_lane")
        /\ UNCHANGED <<breaker, woken>>
  /\ UNCHANGED <<CallRest, lane, schedule, session, gauge, cancels>>

\* A failure faults a reused lane; a per-call session is simply dropped.
finish_call_response(c) ==
  /\ call[c] = "on_lane"
  /\ \/ /\ on_success(c) /\ UNCHANGED woken
        /\ To(c, IF WasProbe(c) /\ state = "half_open" /\ probe_running THEN "settling" ELSE "idle")
     \/ /\ neutral(c) /\ UNCHANGED woken /\ To(c, "idle")
     \/ /\ FailureReport(c) /\ \E next \in {"faulting", "idle"} : To(c, next)
  /\ UNCHANGED <<CallRest, lane, slot, schedule, session, gauge, cancels>>

mark_slot_down(c) ==
  /\ call[c] = "faulting" /\ ~OnLane(slot[c])
  /\ lane' = [lane EXCEPT ![slot[c]] = FALSE] /\ To(c, "arming")
  /\ UNCHANGED <<CallRest, breaker, slot, schedule, woken, session, gauge, cancels>>

\* Mutant: arming without looking whether the entry is still published.
ArmEntry_Unchecked ==
  fence = "free" /\ observe_runtime_failure /\ publish_schedule /\ notify_waiters

ArmEntry ==
  /\ fence = "free"
  /\ IF entry_is_current
     THEN observe_runtime_failure /\ publish_schedule /\ notify_waiters
     ELSE UNCHANGED <<schedule, gauge, woken>>

arm_reconnect(c) ==
  /\ call[c] = "arming" /\ ArmEntry /\ To(c, "idle")
  /\ UNCHANGED <<CallRest, breaker, lane, slot, session, cancels>>

\* A probe that recovered the breaker clears the schedule, unless an attempt
\* owns the session.
settle_probe_recovery(c) ==
  \/ /\ call[c] = "settling"
     /\ \/ session = NoOne /\ session' = c /\ To(c, "settling_fenced")
        \/ session # NoOne /\ To(c, "idle") /\ UNCHANGED session
     /\ UNCHANGED <<CallRest, breaker, lane, slot, schedule, woken, gauge, cancels>>
  \/ /\ call[c] = "settling_fenced" /\ fence = "free"
     /\ IF entry_is_current /\ ~needs_reconnect
        THEN reset_schedule(FALSE) /\ publish_schedule /\ notify_waiters
        ELSE UNCHANGED <<schedule, gauge, woken>>
     /\ session' = NoOne /\ To(c, "idle")
     /\ UNCHANGED <<CallRest, breaker, lane, slot, cancels>>

\* Mutant: the permit is dropped without a report.
DropCall_NoReport(c) ==
  /\ call[c] # "idle" /\ cancels < MaxCancels /\ cancels' = cancels + 1
  /\ Grant(c, "none") /\ UNCHANGED <<state, failures, opened_at, probe_running, woken>>
  /\ session' = (IF session = c THEN NoOne ELSE session)
  /\ To(c, "idle")
  /\ UNCHANGED <<CallRest, lane, slot, schedule, gauge>>

\* The call's future is dropped at an await; a permit still held reports failure.
DropCall(c) ==
  /\ call[c] # "idle" /\ cancels < MaxCancels /\ cancels' = cancels + 1
  /\ IF permit[c] # "none" THEN FailureReport(c) ELSE UNCHANGED <<breaker, woken>>
  /\ session' = (IF session = c THEN NoOne ELSE session)
  /\ To(c, "idle")
  /\ UNCHANGED <<CallRest, lane, slot, schedule, gauge>>

Cooldown ==
  /\ CooldownPasses
  /\ UNCHANGED <<CallRest, lane, call, slot, schedule, woken, session, gauge, cancels>>

(***************************************************************************)
(* The scheduler: wait_for_reconnect_due and the task loop around it.      *)
(***************************************************************************)
SchedRest == <<breaker, lane, call, slot, entry, same_shape, fence, session, cancels>>

\* notified().enable(), before the scan.
Register ==
  /\ sched = "enter" /\ sched' = "scan" /\ woken' = FALSE
  /\ UNCHANGED <<SchedRest, schedule, timer, joined, att, gauge>>

\* An open breaker without a schedule is armed before the sleep is computed.
Scan ==
  /\ sched = "scan"
  /\ sched' = IF entry_is_current /\ state = "open" /\ ~is_scheduled THEN "arm" ELSE "delay"
  /\ UNCHANGED <<SchedRest, schedule, timer, woken, joined, att, gauge>>

ArmUnscheduled ==
  /\ sched = "arm" /\ ArmEntry /\ sched' = "delay"
  /\ UNCHANGED <<SchedRest, timer, joined, att>>

\* Sleep until the deadline, or for a notification alone when there is none.
Delay ==
  /\ sched = "delay"
  /\ LET visible == entry_is_current /\ active_claim = NoOne IN
     IF visible /\ next_retry = "due"
     THEN sched' = "claim" /\ woken' = FALSE /\ UNCHANGED timer
     ELSE sched' = "wait" /\ timer' = (visible /\ next_retry = "later") /\ UNCHANGED woken
  /\ UNCHANGED <<SchedRest, schedule, joined, att, gauge>>

Wake ==
  /\ sched = "wait"
  /\ \/ woken /\ sched' = "enter"
     \/ timer /\ sched' = "claim"
  /\ woken' = FALSE /\ timer' = FALSE
  /\ UNCHANGED <<SchedRest, schedule, joined, att, gauge>>

\* join_next: the wait starts over when a task has ended.
JoinNext ==
  /\ joined /\ sched \in {"enter", "scan", "arm", "delay", "wait"}
  /\ joined' = FALSE /\ sched' = "enter" /\ woken' = FALSE /\ timer' = FALSE
  /\ UNCHANGED <<SchedRest, schedule, att, gauge>>

claim_due ==
  /\ sched = "claim"
  /\ IF entry_is_current /\ next_retry = "due" /\ active_claim = NoOne
     THEN \E a \in Attempts :
            /\ att[a].pc = "idle"
            /\ att' = [att EXCEPT ![a] = Fresh("launch", "claimed")]
            /\ active_claim' = a /\ next_retry' = "none" /\ sampled' = {}
            /\ sched' = "launch"
     ELSE sched' = "enter" /\ UNCHANGED <<schedule, att>>
  /\ UNCHANGED <<SchedRest, woken, timer, joined, gauge>>

\* The identity is checked again after the claim.
reconnect_due_task(a) ==
  /\ sched = "launch" /\ att[a].pc = "launch" /\ sched' = "enter"
  /\ IF entry_is_current
     THEN /\ att' = [att EXCEPT ![a].pc = "queued"]
          /\ IF fence = "free" THEN publish_schedule ELSE UNCHANGED gauge
          /\ UNCHANGED schedule
     ELSE /\ att' = [att EXCEPT ![a] = Idle]
          /\ release_claim(a, FALSE) /\ UNCHANGED gauge
  /\ UNCHANGED <<SchedRest, woken, timer, joined>>

(***************************************************************************)
(* Attempts: claimed by the scheduler, asked for by an operator or a fleet *)
(* reload, or the re-dial of a catalog refresh or of a changed shape.      *)
(***************************************************************************)
AttRest == <<call, slot, entry, waiter, fence, cancels>>
Advance(a, next) == att' = [att EXCEPT ![a].pc = next]

Ended(a) ==
  IF att[a].kind = "claimed" THEN Fresh("dropping", "claimed") ELSE Idle

\* The body returns: the session guard goes first, the claim guard after it.
Finish(a) ==
  /\ att' = [att EXCEPT ![a] = Ended(a)]
  /\ session' = (IF session = a THEN NoOne ELSE session)
  /\ same_shape' = same_shape \ {a}

Discard(a) == IF att[a].kind = "claimed" THEN release_claim(a, FALSE) ELSE Forget(a)
Announce == publish_schedule /\ notify_waiters

\* release_reconnect_claim publishes only a claim that was still active.
ReleaseClaim(a, needs_recovery) ==
  /\ release_claim(a, needs_recovery)
  /\ IF active_claim = a THEN Announce ELSE UNCHANGED <<gauge, woken>>

\* reconnect_one, try_reconnect_disconnected, refresh_server_catalog, and the
\* shape change of reload_manifests, which takes no session guard.
Ask(a, kind) ==
  /\ att[a].pc = "idle" /\ entry_is_current
  /\ att' = [att EXCEPT ![a] = Fresh(IF kind = "shape" THEN "redialing" ELSE "queued", kind)]
  /\ same_shape' = (IF kind = "shape" THEN same_shape \union {a} ELSE same_shape)
  /\ UNCHANGED <<AttRest, breaker, lane, schedule, session, gauge, woken>>

\* The attempt gets the session guard and looks whether it is still wanted.
TakeSession(a) ==
  /\ att[a].pc = "queued" /\ session = NoOne
  /\ \/ /\ \/ att[a].kind = "claimed" /\ active_claim # a
           \/ att[a].kind \in {"operator", "fleet"} /\ ~needs_reconnect
           \/ att[a].kind = "refresh" /\ entry = "removed"
        /\ Finish(a)
     \/ /\ session' = a
        /\ \/ /\ att[a].kind = "claimed" /\ active_claim = a
              /\ Advance(a, IF needs_reconnect THEN "start" ELSE "clear")
              /\ UNCHANGED same_shape
           \/ /\ att[a].kind \in {"operator", "fleet"} /\ needs_reconnect
              /\ Advance(a, "rearm") /\ UNCHANGED same_shape
           \/ /\ att[a].kind = "refresh" /\ entry # "removed"
              /\ Advance(a, "redialing") /\ same_shape' = same_shape \union {a}
  /\ UNCHANGED <<AttRest, breaker, lane, schedule, gauge, woken>>

\* An operator starts a fresh episode, a fleet reload only on new credentials.
Rearm(a) ==
  /\ att[a].pc = "rearm" /\ fence = "free"
  /\ IF entry_is_current
     THEN /\ \/ reset_schedule(TRUE)
             \/ att[a].kind = "fleet" /\ observe_runtime_failure
          /\ Announce /\ Advance(a, "start") /\ UNCHANGED <<session, same_shape>>
     ELSE Finish(a) /\ UNCHANGED <<schedule, gauge, woken>>
  /\ UNCHANGED <<AttRest, breaker, lane>>

\* With the breaker open every lane is presumed dead.
Start(a) ==
  /\ att[a].pc = "start"
  /\ LET dial == {s \in Slots : state = "open" \/ ~lane[s]} IN
     att' = [att EXCEPT ![a] = [@ EXCEPT !.pc = IF dial = {} THEN "clear" ELSE "dialing",
                                         !.open0 = (state = "open"), !.dial = dial]]
  /\ same_shape' = same_shape \union {a}
  /\ UNCHANGED <<AttRest, breaker, lane, schedule, session, gauge, woken>>

\* Nothing was down any more: the episode ends, without a notification.
Clear(a) ==
  /\ att[a].pc = "clear" /\ fence = "free"
  /\ IF entry_is_current
     THEN reset_schedule(FALSE) /\ publish_schedule /\ UNCHANGED woken
     ELSE Discard(a) /\ UNCHANGED <<gauge, woken>>
  /\ Finish(a)
  /\ UNCHANGED <<AttRest, breaker, lane>>

\* The dials in ok succeeded.  The commit needs the fence and every lane's
\* write lock, and judges the breaker again: a probe may have recovered it.
Commit(a, ok) ==
  LET open == state = "open"
      install == {s \in ok : open \/ ~lane[s]} IN
  /\ att[a].pc = "dialing" /\ ok \subseteq att[a].dial
  /\ fence = "free" /\ LanesFree
  /\ \/ /\ ~entry_is_current /\ Discard(a) /\ Finish(a)
        /\ UNCHANGED <<breaker, lane, gauge, woken>>
     \/ \* the shape was superseded, or the review store is unavailable
        /\ entry_is_current /\ (a \notin same_shape \/ install # {})
        /\ IF att[a].kind = "claimed" THEN ReleaseClaim(a, TRUE) ELSE UNCHANGED <<schedule, gauge, woken>>
        /\ Finish(a) /\ UNCHANGED <<breaker, lane>>
     \/ /\ entry_is_current /\ a \in same_shape
        /\ lane' = [s \in Slots |-> s \in install \/ (lane[s] /\ ~(open /\ s \in att[a].dial))]
        /\ IF install # {} THEN reset ELSE UNCHANGED breaker
        /\ sampled' = sampled \union {a}
        /\ att' = [att EXCEPT ![a] = [@ EXCEPT !.pc = "outcome", !.healed = (install # {}), !.err = (ok # att[a].dial),
                                               !.probed = (att[a].open0 /\ ~open), !.open0 = FALSE,
                                               !.dial = {s \in Slots : ~lane'[s]}]]
        /\ same_shape' = same_shape \ {a}
        /\ UNCHANGED <<next_retry, active_claim, session, gauge, woken>>
  /\ UNCHANGED AttRest

\* An outcome counts only on the revision sampled at the commit; otherwise a
\* newer failure owns the schedule, and the claim guard rearms.
Outcome(a) ==
  LET partial == att[a].dial # {} IN
  /\ att[a].pc = "outcome" /\ fence = "free"
  /\ \/ ~entry_is_current /\ Discard(a) /\ UNCHANGED <<gauge, woken>>
     \/ /\ entry_is_current
        /\ \/ /\ att[a].healed \/ (att[a].probed /\ state # "open")
              /\ IF a \in sampled THEN reset_schedule(partial) /\ Announce
                 ELSE Forget(a) /\ UNCHANGED <<gauge, woken>>
           \/ /\ ~att[a].healed /\ ~(att[a].probed /\ state # "open") /\ att[a].err
              /\ IF a \in sampled THEN reset_schedule(TRUE) /\ Announce
                 ELSE Forget(a) /\ UNCHANGED <<gauge, woken>>
           \/ /\ ~att[a].healed /\ ~(att[a].probed /\ state # "open") /\ ~att[a].err
              /\ IF att[a].kind = "claimed" THEN ReleaseClaim(a, partial \/ state = "open")
                 ELSE Forget(a) /\ UNCHANGED <<gauge, woken>>
  /\ Finish(a)
  /\ UNCHANGED <<AttRest, breaker, lane>>

\* redial_entry: every lane is dialed afresh; the old ones serve until then.
RedialCommit(a, ok) ==
  /\ att[a].pc = "redialing" /\ fence = "free"
  /\ \/ /\ (ok = {} \/ ~entry_is_current \/ a \notin same_shape)
        /\ Finish(a) /\ UNCHANGED <<breaker, lane, sampled>>
     \/ /\ ok # {} /\ entry_is_current /\ a \in same_shape /\ LanesFree
        /\ lane' = [s \in Slots |-> s \in ok]
        /\ reset
        /\ same_shape' = IF att[a].kind = "shape" THEN {} ELSE same_shape \ {a}
        /\ sampled' = sampled \union {a}
        /\ att' = [att EXCEPT ![a] = [@ EXCEPT !.pc = "redialed", !.dial = Slots \ ok]]
        /\ UNCHANGED session
  /\ UNCHANGED <<AttRest, next_retry, active_claim, gauge, woken>>

RedialOutcome(a) ==
  /\ att[a].pc = "redialed" /\ fence = "free"
  /\ IF entry_is_current /\ a \in sampled
     THEN reset_schedule(att[a].dial # {}) /\ Announce
     ELSE Forget(a) /\ UNCHANGED <<gauge, woken>>
  /\ Finish(a)
  /\ UNCHANGED <<AttRest, breaker, lane>>

\* Mutant: a guard that finds the fence taken gives up.
DropGuard_GivesUp(a) ==
  /\ att[a].pc \in {"dropping", "deferred"}
  /\ IF fence = "free" /\ entry_is_current THEN ReleaseClaim(a, TRUE)
     ELSE UNCHANGED <<schedule, gauge, woken>>
  /\ att' = [att EXCEPT ![a] = Idle] /\ joined' = TRUE
  /\ UNCHANGED <<breaker, lane, call, slot, entry, same_shape, sched, timer, fence, session, cancels>>

\* A claimed task ended: its guard settles a claim that is still active, at
\* once or, when a reload has the fence, in a task of its own.
DropGuard(a) ==
  /\ att[a].pc \in {"dropping", "deferred"}
  /\ \/ /\ fence = "free"
        /\ IF entry_is_current THEN ReleaseClaim(a, TRUE)
           ELSE release_claim(a, FALSE) /\ UNCHANGED <<gauge, woken>>
        /\ att' = [att EXCEPT ![a] = Idle]
     \/ /\ fence # "free" /\ att[a].pc = "dropping"
        /\ Advance(a, "deferred") /\ UNCHANGED <<schedule, gauge, woken>>
  /\ joined' = (joined \/ att[a].pc = "dropping")
  /\ UNCHANGED <<breaker, lane, call, slot, entry, same_shape, sched, timer, fence, session, cancels>>

\* The handler is dropped or the task panics, at any await.
CancelAttempt(a) ==
  /\ att[a].pc \notin {"idle", "launch", "dropping", "deferred"}
  /\ cancels < MaxCancels /\ cancels' = cancels + 1
  /\ Finish(a) /\ sampled' = sampled \ {a}
  /\ UNCHANGED <<breaker, lane, call, slot, entry, next_retry, active_claim, waiter, woken, fence, gauge>>

(***************************************************************************)
(* A structural reload keeps the fence while it drains the lanes.          *)
(***************************************************************************)
ReloadRest == <<breaker, lane, call, slot, same_shape, waiter, session, att, cancels>>

BeginReload ==
  /\ fence = "free" /\ entry_is_current /\ fence' = "reload"
  /\ UNCHANGED <<ReloadRest, entry, schedule, woken, gauge>>

CommitReload ==
  /\ fence = "reload" /\ LanesFree /\ fence' = "free"
  /\ \/ UNCHANGED <<entry, schedule, woken, gauge>>
     \/ entry' = "removed" /\ reset_schedule(FALSE) /\ Announce
     \/ entry' = "replaced" /\ gauge' = "successor" /\ notify_waiters /\ UNCHANGED schedule
  /\ UNCHANGED ReloadRest

CallStep(c) ==
  \/ \E s \in Slots : checkout(c, s)
  \/ finish_call_response(c) \/ mark_slot_down(c) \/ arm_reconnect(c) \/ settle_probe_recovery(c)
SchedulerStep ==
  \/ Register \/ Scan \/ ArmUnscheduled \/ Delay \/ Wake \/ JoinNext \/ claim_due
  \/ \E a \in Attempts : reconnect_due_task(a)
AttemptStep(a) ==
  \/ TakeSession(a) \/ Rearm(a) \/ Start(a) \/ Clear(a) \/ Outcome(a) \/ RedialOutcome(a) \/ DropGuard(a)
  \/ \E ok \in SUBSET Slots : Commit(a, ok) \/ RedialCommit(a, ok)

PoolNext ==
  \/ \E c \in Callers : call_tool(c) \/ CallStep(c) \/ DropCall(c)
  \/ Cooldown \/ DeadlinePasses \/ SchedulerStep \/ BeginReload \/ CommitReload
  \/ \E a \in Attempts :
       \/ \E kind \in Kinds : Ask(a, kind)
       \/ AttemptStep(a) \/ CancelAttempt(a)

PoolSpec == PoolInit /\ [][PoolNext]_poolVars

\* Calls and dials have timeouts, the locks are fair queues, time passes.
PoolFairSpec ==
  /\ PoolSpec
  /\ SF_poolVars(SchedulerStep) /\ WF_poolVars(DeadlinePasses) /\ WF_poolVars(Cooldown)
  /\ SF_poolVars(CommitReload)
  /\ \A c \in Callers : SF_poolVars(CallStep(c))
  /\ \A a \in Attempts : SF_poolVars(AttemptStep(a))

(***************************************************************************)
(* Properties.                                                             *)
(***************************************************************************)
\* The schedule, the locks and the attempts keep their types.
PoolTypeOK ==
  /\ TypeOK /\ lane \in [Slots -> BOOLEAN]
  /\ call \in [Callers -> {"idle", "admitted", "on_lane", "faulting", "arming", "settling", "settling_fenced"}]
  /\ slot \in [Callers -> Slots] /\ entry \in {"current", "replaced", "removed"}
  /\ next_retry \in {"none", "later", "due"} /\ active_claim \in Attempts \union {NoOne}
  /\ sampled \subseteq Attempts /\ same_shape \subseteq Attempts
  /\ sched \in {"enter", "scan", "arm", "delay", "wait", "claim", "launch"}
  /\ timer \in BOOLEAN /\ woken \in BOOLEAN /\ joined \in BOOLEAN
  /\ fence \in {"free", "reload"} /\ session \in Callers \union Attempts \union {NoOne}
  /\ \A a \in Attempts : att[a].dial \subseteq Slots
  /\ gauge \in {"entry", "successor"} /\ cancels \in Nat

\* A claim hides the schedule from the scheduler; it never outlives the task
\* that will settle it, whatever is cancelled or replaced on the way, and
\* neither does the session guard that every other attempt queues for.
ClaimHasOwner ==
  /\ PoolTypeOK
  /\ active_claim # NoOne =>
       att[active_claim].kind = "claimed" /\ att[active_claim].pc # "idle"
  /\ session \in Attempts =>
       att[session].pc \notin {"idle", "launch", "queued", "dropping", "deferred"}

\* Once an entry is retired nothing installs a connection on it: neither an
\* attempt that dialed before, nor a rearmed claim, nor an operator.
RetiredStaysDown ==
  [][(entry # "current") => \A s \in Slots : lane'[s] => lane[s]]_poolVars

\* A removed upstream is never scheduled again, also not by the guard of a
\* claim that was in progress or by a call that fails late; and the metric keyed
\* by the server's name stays with the entry that replaced this one, whatever
\* the old entry still publishes.
RetirementIsFinal ==
  /\ entry = "removed" => next_retry = "none"
  /\ entry = "replaced" => gauge = "successor"

\* The breaker is used as its specification says, whatever the pool does.
BreakerSpec == Spec

Dialing == \E a \in Attempts : att[a].pc \in {"dialing", "redialing"}

\* A tripped breaker always brings a re-dial: neither a trip that falls between
\* the scheduler's scan and its sleep, nor a schedule that the scheduler's own
\* attempt clears after the trip, nor a cancelled task loses it.  (An operator's
\* or a fleet reload's attempt can: its Clear wakes nobody.)
OpenIsRedialed ==
  (entry = "current" /\ state = "open") ~> (entry # "current" \/ state # "open" \/ Dialing)
=============================================================================

# Waygate in TLA+

Waygate is a gateway between MCP clients or model applications and the tools,
models and files they use. It authenticates callers, decides with Cedar
policies, routes calls to upstream MCP servers, runs short programs ("Code
Mode") in an isolated runner whose every tool call comes back through the
gateway, lets humans approve configuration changes, and keeps durable evidence
of what happened. Several replicas share one PostgreSQL database.

This directory specifies the parts of it whose correctness depends on what
several actors do to the same state in an order nobody chose: replicas, tasks
at their awaits, operators, clocks, crashes. `PROJECT.json` maps every
definition to the lines it stands for and lists components, runs, hazards,
findings and theorems; this file explains them.

## 1. Inventory

### Parts that carry shared mutable state

| Part | State | Operations | Who acts concurrently |
|---|---|---|---|
| Code Mode journal (`waygate-codemode/src/store.rs`) | `codemode_executions` row: status, claim owner and epoch, lease, cancellation, resume context, deadlines; append-only events | submit, start_or_reuse, claim, resume, renew, append_event, append_effect_outcome, transition, cancel, deny, reconcile, interrupt, purge; each one transaction | workers on all replicas, owners, operators, the per-minute reconciler, the retention sweep |
| Code Mode runner (`waygate-server/src/mcp_codemode.rs`) | per worker: its await, claim, call count, cancellation cause; the drain registry | submit, detach, resume, broker frames, dispatch with renewal, cancellation watch, settle, drain | the same; upstream servers |
| Change requests (`waygate-changeset`, `waygate-admin/src/change_requests.rs`) | request row, approval ledger, one-time secret, audit rows, target etag | propose, approve, resume, execute, deny, retrieve secret | approvers on several replicas, operators who edit the target directly |
| Circuit breaker (`waygate-upstream/src/breaker.rs`) | state, failure count, trip time, probe slot, permits in flight | acquire, success, failure, neutral, drop, reset | calls in flight, reconnect |
| Evidence outbox (`waygate-storage/src/outbox.rs`, `drain.rs`) | outbox row: status, attempt count, next attempt | enqueue, dequeue, deliver, fail | the drain of every replica, the sink |
| Tool catalog epoch (`waygate-mcp/src/catalog_changes.rs`, `server.rs`, `waygate-upstream/src/pool/discovery.rs`) | publication markers, epoch, durable generation, read-error count | begin, commit, drop a publication; durable commits; poll; optimistic `tools/list`, one batch per server | reloads, discovery, other replicas' commits, readers |
| Drain registry (`mcp_codemode.rs`, `main.rs`) | per process: draining flag, live claims, the interrupted mark | begin_drain, hold_claim, interrupt_remaining, release | runs that register while the drain walks the registry |
| Approval grants, pending invocations (`waygate-catalog`, `waygate-admin/src/approval_grants.rs`, `waygate-mcp/src/invocation/approval.rs`) | grant and request rows | hold, decide, grant, claim, revoke, sweep | callers, administrators, two sweepers, catalog changes |
| Upstream pool (`waygate-upstream/src/pool`, `reconnect_scheduler.rs`) | lanes, recovery schedule and claim, session guard, structural fence | call, checkout, mark down, arm, claim, dial, commit, reload | calls, the scheduler, operators, fleet reloads, catalog refreshes |
| Call tasks (`waygate-mcp/src/call_tasks.rs`, `tasks/`) | durable task routes and results | create, poll, finish, cancel, expire | callers, upstreams, replicas |
| Transfers (`waygate-transfer`) | grants, files, redemption | mint, redeem, store, clean up | helpers, callers, the sweeper |
| Audit chain (`waygate-storage/src/hashchain.rs`) | chain tail, rows | append, verify | all replicas |
| Quota, LLM budgets (`waygate-quota`, `llm_budgets.rs`) | token buckets, counters | consume, refill | calls on all replicas |
| Session refresh (`waygate-as/src/session_refresh.rs`) | session and refresh token | refresh, rotate | requests on all replicas |
| Decision cache (`waygate-authz/src/decision_cache.rs`) | cached decisions, policy generation | look up, fill, swap | calls, policy activation |

The other parts (translation, providers, exporters, formats, identity and
cryptography, CRUD stores, dashboard pages, wiring, test tools) are sequential
or pure; `PROJECT.json` lists each with the reason it is not modelled.

### How they interact

A Code Mode program's call goes from the sandbox to the runner, which journals
its start, re-confirms the claim, dispatches through the MCP pipeline to the
upstream pool (where the breaker admits or rejects it) and journals the
outcome; a call that needs approval parks the row, and the approver's denial
terminalizes it. A change request's execution edits manifests, policies or
keys, which the catalog then publishes; its audit rows, like every call's, are
written together with outbox rows, which the drains export. `tools/list` reads
the published lanes, the policy and the durable catalog while all of this goes
on.

### What is hard, and what makes each part correct

* **Journal and runner.** A lease can lapse while its worker still runs, so a
  row can have two workers; a process can end between a side effect and its
  record; cancellation races completion; a store call can commit and lose its
  answer. Correct: stale workers are fenced; a dispatched effect is journaled
  before it goes out; an interrupted run never hides an effect whose outcome
  is unknown; one outcome, first requester named, nothing starts after
  cancellation; every run ends.
* **Change requests.** Approvals race each other, denials, expiry (judged by
  two clocks) and edits of the target; a process may end between commit and
  audit. Correct: at most one execution, of what a full audited quorum saw,
  and a one-time secret that is neither lost before retrieval nor delivered
  twice.
* **Breaker.** Permits report late and across resets. Correct: the count fits
  the state, the probe slot is not leaked, it never rejects forever.
* **Outbox.** Every replica drains the same rows from stale batches. Correct:
  delivered means received, a dead letter has a cause, settled rows stay
  settled, every row is settled.
* **Catalog epoch.** A seqlock over state read across awaits, and a second one
  around each server's batch, whose refusals are not all noticed outside.
  Correct: what is served is one catalog as of one instant, each server whole
  or left out; markers never leak.
* **Starts, drain and reconciliation.** Two replicas decide from probes that are
  stale when their transactions begin; a drain, a crash and a batch that stops
  at an error leave rows behind. Correct: one run per retry key, a finished one
  is repeated once, a drain records every run it could, the rest is settled.
* **Upstream pool.** Everything is checked, awaited, and checked again: a claim
  hides the schedule while its task dials, a reload replaces the entry in the
  meantime, calls trip and recover the breaker. Correct: no claim is stranded, a
  retired entry stays down and unscheduled, a tripped breaker is re-dialed.
* **Approvals.** A call, its decision and the repeated call are minutes apart;
  the tool may change, the grant may be revoked, expire or be claimed twice.
  Correct: each approval carries at most the one call that was reviewed.

## 2. Modules

| Module | Models | Lines of code it stands for |
|---|---|---|
| `ExecutionLifecycle` | the abstract promise to an execution's owner | - |
| `ExecutionJournal` | every write of the execution row and its events | `store.rs` |
| `CodeModeRunner` | the workers, extends the journal | `mcp_codemode.rs` |
| `MCCodeMode` | instances for TLC | |
| `ExecutionJournalProofs` | theorems about the journal | |
| `CodeModeRunnerProofs` | theorems about the runner, extends those of the journal | |
| `ChangeRequests`, `MCChangeRequests`, `ChangeRequestsProofs` | the approval ceremony | `waygate-changeset/src/lib.rs`, `waygate-admin/src/change_requests.rs`, `change_executor/` |
| `Breaker`, `MCBreaker` | the circuit breaker | `breaker.rs` |
| `EvidenceOutbox`, `MCEvidenceOutbox`, `EvidenceOutboxProofs` | one outbox row and its drains | `outbox.rs`, `drain.rs` |
| `CodeModeReplicas`, `MCCodeModeReplicas`, `CodeModeReplicasProofs` | retry-safe starts, drain registry, reconciliation batches | `store.rs`, `mcp_codemode.rs`, `main.rs` |
| `UpstreamPool`, `MCUpstreamPool`, `UpstreamPoolProofs` | one upstream; extends `Breaker`; the theorems about both | `pool/`: `reconnect.rs`, `reload.rs`, `lanes.rs`, `dispatch.rs`, `mod.rs`; `reconnect_scheduler.rs` |
| `ApprovalGrants`, `MCApprovalGrants`, `ApprovalGrantsProofs` | held calls, requests, grants | `pending_invocations.rs`, `store.rs`, `approval.rs`, `approval_grants.rs` |
| `CatalogEpoch`, `MCCatalogEpoch`, `CatalogEpochProofs` | publications and `tools/list` | `catalog_changes.rs`, `server.rs`, `pool/discovery.rs`, migration 0100 |

Actions carry the source's names. A definition whose name ends in a suffix such
as `_AnyWorker`, preceded by a comment "Mutant:", is a deliberately wrong
version of the definition after it; it is not part of the specification and is
used to show that a property would notice that mistake.

### ExecutionJournal

`row` is the row, `events` its log. Every store method is one transaction, so
one step; its WHERE clause is the guard (`LiveFence`, `EffectFence`,
`TransitionFence`, `ResumeFence` are the four fences in use). A deadline is
kept as whether the database clock has passed it (`lease`, `retained`,
`graced`), and may pass at any step. Payloads are gone; a resume context is the
checkpoint's attempt with the caller's answer.

One method is not judged on the state it writes. The UPDATE of
`reconcile_abandoned` looks for unanswered starts in the snapshot of its
statement and may then wait for the lock of a row that an append holds; the
append leaves the row as it is, so nothing is evaluated again and its entry is
not seen. `Snapshots` are the prefixes of the log it may judge by. None is
older than the lapse of the lease (`lapsedAt`): the statement's WHERE asks for
a lapsed lease, and a renewal while it waits changes the row, upon which
PostgreSQL tests the WHERE again. `append_event`'s own fence compares with the
beginning of its transaction, so the lease may lapse before it commits
(`Lapsed`); a transaction is taken to be shorter than a lease.
`interrupt_claimed` has the row lock before the second statement takes its
snapshot, and sees everything.

`Origins` lets a run start from
a row an earlier release left waiting, which today's code still resumes.

### CodeModeRunner

A worker is a task with a program counter `pc[w]` naming the await it is at;
between two awaits anything else may happen. `StoreError` fails a store call
before its commit, and `After` lets the commit succeed while its answer is
lost. `Crash` ends a task at an await, `interrupt_held_claim` is the drain.
`effects` is the upstream's side of a dispatch: it happens at
`invoke_connector`, is decided at any later time (`UpstreamDecides`), whatever
became of the worker. `replayed` records what resumed attempts ran with.

### ChangeRequests

A handler is one admin request at an await. The row, ledger, secret and audit
rows are as in the database; `expired` and `lapsed` are the two clocks that
judge the expiry, and `open[h]` is what `now()` said when the handler's
transaction began, before it waited for the row lock. `Guards` are the three
ways an executor protects its target: not at all, by the recheck before
execution, or by binding the witnessed etag into the write. `EditTarget` is an
edit outside the ceremony.

### Breaker, EvidenceOutbox, CatalogEpoch

`Breaker`: every method under the mutex is a step; `permit[c]` is the permit a
call holds until it reports. Time since the trip is `recent` or `elapsed`.
`EvidenceOutbox`: one row (rows are independent); a drain holds the
`attempt_count` of its batch in `seen` and reaches the row in its own time.
`Registered` are the replicas that have the sink's exporter.
`CatalogEpoch`: every atomic load and store is a step. A publication changes
`Serving` pieces one at a time between `begin_change` and `mark_changed`; a
durable commit changes `Durable` rows and the generation together. A reader
samples, probes, loads what is `Shared` (server list, built-ins, policy) and
takes up one server after another (`next_server`): it reads the names, opens a
batch with samples of its own (`open_batch`, `date_batch`), loads the server's
pieces, closes the batch (`close_batch`, `keep_batch`), and in the end runs the
outer checks in the code's order. A batch that is refused leaves its server out
(`Skip`); whether the refusal is `Counted` decides whether the outer check
notices.
Memory is sequentially consistent: the pieces are behind locks and the counters
use acquire and release. The catalog is the authoritative one.

### CodeModeReplicas

Rows `row[i]` of one retry-equivalence key. A request probes
(`start_detached`), its transaction begins (`begin_start`: `now()` is fixed and
expired rows are purged), and decides under the advisory lock
(`start_or_reuse`); `submitted_at` is the beginning of the transaction, not the
moment of the insert, as in the code. Each replica has a `phase`, a registry
`live_claims` with its mark, and a reconciler with the rest of its batch, which
holds up to `Batch` rows of each arm of the query. Retention ends in the order
of acceptance: `retention_until` is dated on the accepting replica's clock
(`mcp_codemode.rs:1531`), `submitted_at` on the database's, so this assumes
replica clocks that agree. What a
run journals is left to the two modules above; here it ends, pauses or loses
its claim.

### UpstreamPool

One upstream, composed with the breaker: the pool's actions call `acquire`,
`on_success`, `on_failure`, `neutral` and `reset` of `Breaker`, and
`BreakerSpec` states that they never leave its specification. `lane[s]` is the
stored connection, `call[c]` and `slot[c]` a call and the lane it reads. The
`ReconnectState` is `next_retry` and `active_claim`; its revision is kept as
the set of attempts whose sample is still current (`sampled`), and an entry's
dialed shape likewise (`same_shape`). Two async locks matter: `session`, held
over a whole attempt, and `fence` (`reload_lock`), under which a section is one
step, except that a reload keeps it while the lanes drain. `sched` walks
through `wait_for_reconnect_due` statement by statement, because a notification
reaches only a waiter that has registered. `DropCall` and `CancelAttempt` drop
a future at any await, with what its guards do. `gauge` is whose schedule the
server-labelled metric shows.

### ApprovalGrants

`call[c]` is a call in the pipeline with the snapshot it was admitted with;
`requests` and `grants` are the two tables in insertion order (a deleted row is
kept with `stored` false, so that properties can speak of it). Every store
method is a transaction and one step; a direct grant is resolved and inserted
in two (`ResolveGrant`, `create_grant`), as in the handler. Time is a small
clock with the code's lifetimes as constants. `version` is the approved version
of the tool, which changes forward and back, or is unlisted. A claim and a
revocation may commit and lose their answers (`ClaimFails`, `RevokeFails`).
`requested`, `revoked` and `carried` are history: the grants a revocation
closed, those of them whose closing was confirmed to an administrator, and how
many calls went on to their tool on a grant. `OpenGrantEndsForACause` speaks of
the first, `GrantUsedOnce`, which is about what an administrator may rely on,
of the second.

## 3. Runs

| Run | Expect | Shows |
|---|---|---|
| `codemode_safety` | pass | `ClaimMatchesStatus`, `EffectsJournaled`, `ExpiryReportsUnknownEffects`, `SettledRunsRecordOutcomes`, `CancelledNamesRequester`, `NothingStartsAfterCancellation` |
| `codemode_journal` | pass | the runner implements `JournalSpec`, the journal implements `ExecutionLifecycle`; `JournalFenced`, `ReplayInputStable` |
| `codemode_liveness` | pass | `NeverWorkingForever`, `CancellationSettles` |
| `codemode_interrupted` | violation | finding 1 |
| `changes_ceremony` | pass | `EffectAtMostOnce`, `EffectIsApproved`, `QuorumNeverStalls`, `CountedWhileOpen`, `NoStaleWrite`, `ExecutedKeepsSecret`, `SecretDeliveredOnce` |
| `breaker_calls` | pass | `BudgetMatchesState`, `NeverRejectsForever` |
| `outbox_drains` | pass | `DeliveredWasReceived`, `GivesUpWithCause`, `OverrunBounded`, `SettledStays`, `EventuallySettled` |
| `catalog_snapshot` | pass | `ServedIsOneCatalog` |
| `codemode_replicas` | pass | `OneRunPerKey`, `DrainRecordsHeldRuns`, `AbandonedSettles` |
| `pool_recovery` | pass | `ClaimHasOwner`, `RetirementIsFinal`, `RetiredStaysDown`, `BreakerSpec` |
| `pool_liveness` | pass | `OpenIsRedialed` |
| `approvals_once` | pass | `DispatchAuthorized`, `GrantUsedOnce`, `DecisionBindsGrant`, `OpenGrantEndsForACause`, `ExpiredValuesCleared` |

The types of a module's variables are proved where there is a proof module, and
are a conjunct of one invariant in the others (`EffectsJournaled`,
`OneRunPerKey`, `ClaimHasOwner`, `DecisionBindsGrant`). Three facts that the
proofs establish have no run of their own, because a property of the run
implies them or fails with them: `TerminalIsFinal` (`ImplementsLifecycle`),
`ProbeSlotHeld` (`NeverRejectsForever`), `MarkersMatchPublishers`
(`ServedIsOneCatalog` for a marker that comes down early).

### Bounds

* `codemode_safety`: two workers, two claims, one call per attempt, with and
  without effect, two answers. A lost effect, a takeover of the row by a second
  worker and a cancellation in each of their states need no more.
  `codemode_journal`: three claims, because a row of an earlier release already
  carries one and a stale worker needs two more behind it; artifacts take the
  place of calls to keep the refinement checkable. `codemode_liveness`: one
  worker and two claims; a second worker would only help progress.
* `changes_ceremony`: two requests in flight, two approvers, quorums of one and
  two, all guards, with and without secret, one outside edit, which can fall
  before, between and after every step. Versions only grow, so a second edit
  adds no kind of mismatch.
* `breaker_calls`: four calls and threshold 2: a probe, a late success and two
  late failures at once.
* `outbox_drains`: three drains, one without the exporter, three attempts, two
  faults.
* `catalog_snapshot`: one reader (readers share only the error count), two
  publishers, the server list and two servers with one piece of each kind, so
  that a list, and a server in it, can be torn, two changes, two attempts, two
  counted failures after which none begins; uncounted ones are not bounded.
* `codemode_replicas`: a finished execution and two new ones, two requests on
  two replicas, one of which drains, crashes and restarts, one store error, and
  batches of two rows: both dead rows can be in one batch, in both replicas'
  batches at once, and a failure at the first leaves the second behind. Two
  concurrent starts are what the key has to arbitrate; a third only waits for
  the same lock.
* `pool_recovery`: one call, one lane, two attempts at once (the scheduler's
  and a fleet reload's, a catalog refresh's or a changed shape's), one dropped
  future. An operator's attempt takes a subset of a fleet reload's steps.
  `pool_liveness`: two lanes, so that an attempt can heal one of them, one
  attempt (a second would only help), the scheduler's or a changed shape's.
  `Threshold` is 1: the count below the threshold is the breaker's subject.
* `approvals_once`: two tasks with the same call, one caller who is also an
  administrator and one other, three rows in the two tables, one change of the
  catalog, clock values 0 to 2 with lifetimes of 1 and 2, so that requests,
  grants and retention can each run out before, between and after the steps.
  `MaxRows` bounds the tables; at the bound a request is refused, as the code's
  capacity limit does.

Symmetry is used over workers and answers, handlers and approvers, publishers
and servers, in runs with safety properties or refinements of specifications
without fairness only; the liveness runs use none.

`CHECK_DEADLOCK FALSE` appears where the system may stop: a finished or purged
execution, a settled outbox row.

### Fairness

* Runner: weak fairness of each worker's step (the async runtime polls every
  task; a crash is a step, so nothing keeps a worker alive; an upstream call is
  bounded by its timeout), of the reconciliation every replica runs each
  minute, and of the deadlines. Nothing obliges a caller, approver or operator
  to act, and store errors may recur.
* Breaker: weak fairness of the cooldown and of each call's report: a dispatch
  ends by its deadline, and a dropped permit reports a failure.
* Outbox: weak fairness of each drain's step and of the backoff; exports are
  bounded by timeouts. Faults are bounded by `MaxFaults`: an outage that never
  ends settles nothing.
* Replicas: for the replica that stops, weak fairness of drain and restart (a
  drain has a deadline), strong fairness of the reconciler's listing and of its
  step: it ticks again after every restart and error, and is not stopped in the
  middle of every batch. The other replica reconciles too, but nothing is
  assumed of it, so that recovery rests on the one that stops. Errors are
  bounded (`MaxFaults`).
* Pool: strong fairness of the scheduler's, each call's and each attempt's
  steps and of a reload's commit, because tokio's locks are fair queues: who
  waits for the fence or a lane gets it although others take it in between.
  Weak fairness of deadlines and cooldown. Nobody is obliged to call, to reload
  or to ask for a reconnect.
* Approvals: weak fairness of the value sweeper, which runs every minute until
  shutdown. Nobody is obliged to decide.

## 4. Findings

`codemode_interrupted`: `docs/codemode.md` says a run interrupted during a side
effect is reported as `expired` with `effect_outcome_unknown`; a cancellation
that reaches the row after its lease lapsed and before reconciliation reports
it as `cancelled`. The run shows a shortest behaviour.

Smaller disagreements between a comment and the code were met while modelling
and have no run of their own:

* `breaker.rs:70`: any concurrent call during the probe window is rejected. A
  late failure of a call admitted before the trip (`breaker.rs:189`) restarts
  the cooldown under the probe, and a second probe follows. A probe that fails
  after a reset likewise trips a closed breaker at once.
* `change_requests.rs:1373`: no M-of-N change reaches `executed` without an
  audit of every counted approver. `mark_executed` commits before that audit is
  written; the comment at 1359-1367 concedes it.
* `drain.rs:49`: a row is attempted at most 8 times. Drains on several replicas
  decide from the `attempt_count` of their batches; `OverrunBounded` is the
  bound that does hold: two more attempts for every further drain that has the
  exporter, and one for every lost update.
* `reconnect.rs:371`: a sleep can never hide newly distressed work. The
  attempt that finds nothing to dial (`reload.rs:1242`, and 1142 for a claimed
  one) clears the schedule under the fence without looking at the breaker or
  the lanes again, and without a notification. `OpenIsRedialed` holds for the
  scheduler's own attempts, which the scheduler joins before it scans again;
  after an operator's or a fleet reload's attempt an open breaker can stay
  unscheduled until the next report, and a lane marked down in the gap stays
  down until the next failure arms the schedule.
* `mcp_codemode.rs:3860`: the batch gives up at its first error. Transient
  errors are harmless (`AbandonedSettles`); a row that always fails would keep
  those listed behind it waiting.
* `catalog.rs:246`: "a transient per-tool failure cannot become a valid
  incomplete page". The failures of rows and reviews are counted, and
  `ServedIsOneCatalog` shows that none of them does. But a batch that meets a
  publication as it opens, or whose generation cannot be read at its beginning
  or end (`discovery.rs:18-22`, `:227`), returns its error uncounted, and
  `server.rs:2851` goes on to the next server: when the publication is dropped,
  or the database answers again, the outer checks pass and the list is served
  without that whole server.
* A request shown as expired by a replica's clock can still be approved when
  the database's clock is behind it.

## 5. Proofs

All theorems hold for every value of the constants that satisfies the named
assumptions in the modules (finite sets of drains and publishers, placeholders
distinct from real values, a positive threshold, attempt budget and claim bound).

* **Journal** (`ExecutionJournalProofs`). `JournalTypeCorrect`,
  `ClaimsAreConsistent`, `JournalIsFenced`, `TerminalRowsAreFinal`,
  `JournalImplementsLifecycle`. The invariant is `RowInv` (types,
  `ClaimMatchesStatus`, and that an unclaimed row is not bound) with
  `EventInv`: the log is ordered and nothing in it was written under a claim
  later than the row's. The last part is what makes fencing inductive: an
  append under the row's epoch goes behind everything there is.
* **Change requests** (`ChangeRequestsProofs`). Eight theorems: the types, and
  one for each property of `changes_ceremony`. `ChangeInv` adds to them: who acts in the
  ceremony is an approver; the `executing` row belongs to exactly one handler;
  effects, secrets and audits come no earlier than the handler's position says;
  a transaction that began too late proves that the expiry passed; witness,
  claim and target are in version order; one retrieval alone can have burned
  the secret.
* **Breaker and pool** (`UpstreamPoolProofs`). `BreakerBudget` and
  `BreakerNeverWedges`: the breaker's two invariants are inductive together with
  the types, for any number of calls and any threshold. `PoolImplementsBreaker`
  shows, one step per action of the pool, that each uses one breaker method or
  none, so the two hold of the composition. `PoolClaimHasOwner`,
  `PoolRetirementIsFinal` and `PoolRetiredStaysDown` rest on `PoolInv`: the
  types, the breaker's invariant, and `Owned`: the claim's attempt is a claimed
  one under way, and the holder of the session guard is at an await that gives
  it back. A retired entry's lanes stay down because every installation looks at
  the entry in the section, under the fence, that installs.
* **Outbox** (`EvidenceOutboxProofs`). `DeliveryIsReal`,
  `DeadLettersHaveCause`, `SettledRowsStay`. The key is `FailuresCovered`:
  `attempt_count` plus the failures drains have seen and not yet recorded never
  exceeds the failures that happened, so a stale batch can only understate.
  `OutboxOverrunBounded` needs the converse, `OverrunInv`: every export is in
  the count, still to be recorded, or lost to a fault, and while the row is
  open the count leaves room for every drain that holds a stale batch. The proof corrected the property: for a
  sink whose exporter no replica has, the old form was wrong.
* **Approvals** (`ApprovalGrantsProofs`). `ApprovalDispatchAuthorized`,
  `ApprovalDecisionBindsGrant`, `ApprovalGrantUsedOnce`,
  `ApprovalGrantEndsForACause`, for any tasks, principals, lifetimes and table
  bounds. `ApprovalInv` adds to the properties: decided requests keep what they
  were decided with (`DecidedRequests`), the giver of a grant is not its user
  (`FourEyes`), a claimed call alone bears its grant, which has carried nothing
  yet and is not revoked (`Bearing`), and what carried a call, or was revoked,
  is consumed and not both (`Spending`). A claim needs an unconsumed grant, so
  it can be neither the second bearer nor a revoked grant's.
* **Runner** (`CodeModeRunnerProofs`). `RunnerImplementsJournal`: every action,
  with the answers it loses, is one journal method under the worker's own claim,
  or none (`EveryStepWrites`). What a worker knows at its await (`Attempt`)
  gives the arguments their types. Hence `RunnerKeepsPromise`: the journal's
  theorems hold of the whole runner. The other six speak of journal and workers
  together, and use three summaries of a step: how the log grows
  (`JournalGrows`: by entries while no cancellation is requested, by outcomes
  and closing entries after, or by the request), which way a worker moves
  (`EveryStepMoves`), and what becomes of the claim (`EveryWriteClaims`).
  - `NothingStartsAfterAStop`, `CancelledRunsNameRequester`: `CancelInv`. A
    journaled request is in the row, and a worker about to write a cause read
    the one the row still has, since the first request is never overwritten.
  - `DispatchedEffectsAreJournaled`: `StartsKnown`. From the append to the
    answer the worker's start is in the log, which only grows.
  - `ExpiryIsHonest`: `SnapshotInv`. A call that is dispatched, or whose worker
    is past the second confirmation of its claim, was started before the lease
    lapsed, because that confirmation renews a live lease; so no snapshot the
    reconciler may judge by lacks its start, and a snapshot that has its outcome
    is a part of the log. Without the confirmation the theorem is false, which
    is the mutant of this property. The snapshot may lack an outcome, so
    `effect_outcome_unknown` says that an effect was started, no more.
  - `CheckpointsAnsweredOnce`: `ReplayInv`. Checkpoints are replayed in order of
    their attempts, and an open row keeps the answer of the last one, which is
    what a later resume must repeat.
  - `SettledRunsAreRecorded`: `SettledInv`. While the run is not lost, a worker
    in the broker loop holds the claim, and every dispatched effect but the one
    it waits for has its outcome.
* **Catalog** (`CatalogEpochProofs`). `MarkersAreExact` and
  `ServedListsAreSnapshots`. `ReadsAgree` says, for each check a reader has
  passed, what it has ruled out: serving state that differs from the reader's
  base is being written or has advanced the epoch; rows that differ have
  advanced the generation; a missing row has been counted, unless its whole
  server is left out.
* **Replicas** (`CodeModeReplicasProofs`). `StartsAreRetrySafe` and
  `DrainsRecordHeldRuns`. A step lets the rows age or inserts one
  (`EveryStepAges`). Rows carry the time their transaction began, so one that
  began earlier may be inserted later; `KeyInv` is why that is harmless: what a
  transaction may insert is newer than every row that exists
  (`InsertedIsNewest`), because it knows the rows that had expired when it began
  and repeats one that was there before (`Begun`). So existing rows have
  distinct dates, retention ends from the oldest on, only the newest can be
  unfinished, and a repetition is newer than its original and is not deleted
  before it. `DrainInv`: a run that goes on is registered, and once the registry
  is marked one that still holds its row is on the drain's list or was refused.

The inductive invariants of the runner and of the replicas were checked by TLC
on the instances of their runs before the proofs (the replicas' with one start
more). Writing the proofs changed the models in three places: the
`OverrunBounded` of above; `ExpiryReason`, whose cases overlapped, now takes
them in the order of the code; `ApprovalAssumption` asks for one version at
least. Otherwise records are spelled out where the provers need it.

Only model-checked: the liveness properties (`NeverWorkingForever`,
`CancellationSettles`, `NeverRejectsForever`, `EventuallySettled`,
`AbandonedSettles`, `OpenIsRedialed`, `ExpiredValuesCleared`), which need
fairness, out of the prover's reach; the finding, which is a violation. Every
other property of a passing run has its theorem.

## 6. Plan

Done, in this order: journal and lifecycle; runner; change requests; breaker;
outbox; catalog epoch; retry-safe starts, drain registry and reconciliation;
the upstream pool composed with the breaker; approval grants; the proofs of
all of these. Next:

1. Call tasks: durable routes across replicas, late upstream results, expiry.
2. Transfers: redemption once, cleanup against use.
3. The audit chain, quota buckets, session refresh and the decision cache; the
   admission read cache and the session watchers of the catalog.

## 7. Not modelled

Payloads, schemas, formatting, identity, cryptography and policy evaluation are
data or external libraries. Network transports and exporters appear only as
outcomes. Row-level CRUD without a protocol is left out. Inside the modelled
parts: an execution's journal and a change request are one row each (no
operation touches two, except the retry key, which `CodeModeReplicas` has);
step-up authentication and bulk decisions of the ceremony; result spooling;
budgets of the Code Mode sandbox; grants bound to a Code Mode execution, for
which only rows of an earlier release can wait; in the pool the catalog's
contents, per-call retries, health evidence, credentials, and `close_sessions`
(`lanes.rs:116`), which retires every entry under its session guard once
nothing is served any more. Still to be
modelled, and listed under the plan: call tasks, file transfers, quota and LLM
budgets, the audit chain, session refresh, the decision cache. `PROJECT.json`
gives the reason for every component.

-------------------------- MODULE CodeModeReplicas --------------------------
(***************************************************************************)
(* Detached Code Mode runs of one retry-equivalence key on several gateway *)
(* replicas: retry-safe starts that choose between rows                    *)
(* (waygate-codemode/src/store.rs), the registry of live claims that a     *)
(* drain records as interrupted, and the reconciliation batches            *)
(* (waygate-server/src/mcp_codemode.rs, main.rs).  What a run journals     *)
(* while it works is ExecutionJournal's and CodeModeRunner's subject; here *)
(* a run ends, pauses, or loses its claim, and a paused row is not resumed *)
(* (a resumed run registers its new claim just like a started one).        *)
(***************************************************************************)
EXTENDS Integers, FiniteSets

CONSTANTS
  Replicas,
  Stoppable,    \* bound: the replicas that are drained or crash
  Workers,      \* requests, and the runs they turn into
  Ids,          \* execution ids, each used once
  NoOne,        \* no worker, no id
  Resumable,    \* the key's execution profile
  Batch,        \* RETENTION_SWEEP_BATCH_SIZE
  MaxStarts,    \* bound: transactions begun by start_or_reuse
  MaxFaults     \* bound: store errors and crashes

ASSUME ReplicasAssumption ==
  /\ Stoppable \subseteq Replicas /\ NoOne \notin Workers \union Ids \union Replicas /\ Resumable \in BOOLEAN
  /\ Batch \in Nat \ {0} /\ MaxStarts \in Nat /\ MaxFaults \in Nat

VARIABLES
  row,           \* row[i]: the execution, "absent" before and "purged" after
  work,          \* work[w]: the request or run
  phase,         \* phase[r]: "serving", "draining", "interrupting", "down"
  live_claims,   \* live_claims[r]: claims registered by runs in the process
  marked,        \* marked[r]: LiveClaims.interrupted
  todo,          \* todo[r]: claims taken for interruption, not yet recorded
  missed,        \* claims whose interruption the store refused
  sweeper,       \* sweeper[r]: the reconciler "ticking", in a "batch", or "off"
  listed,        \* listed[r]: the rest of its batch
  clock,         \* start transactions begun
  faults

vars == <<row, work, phase, live_claims, marked, todo, missed, sweeper, listed, clock, faults>>
process == <<phase, live_claims, marked, todo, missed>>
reconciler == <<sweeper, listed>>

\* A request or run on replica r, or none.
At(r, pc, id, repeat) ==
  [pc |-> pc, at |-> r, id |-> id, repeat |-> repeat, begun |-> 0, expired |-> {}]
Idle == At(NoOne, "idle", NoOne, NoOne)

\* A row from before the model begins, or none yet.
Earlier(status) ==
  [status |-> status, owner |-> NoOne, live |-> FALSE, retained |-> status = "settled",
   submitted_at |-> 0, repeat_of |-> NoOne]

\* One execution of the key has finished; when its retention passes, the key
\* is as good as new.
Init ==
  /\ row = [i \in Ids |-> Earlier(IF i = CHOOSE j \in Ids : TRUE THEN "settled" ELSE "absent")]
  /\ work = [w \in Workers |-> Idle]
  /\ phase = [r \in Replicas |-> "serving"]
  /\ live_claims = [r \in Replicas |-> {}] /\ marked = [r \in Replicas |-> FALSE]
  /\ todo = [r \in Replicas |-> {}] /\ missed = {}
  /\ sweeper = [r \in Replicas |-> "ticking"] /\ listed = [r \in Replicas |-> {}]
  /\ clock = 0 /\ faults = 0

Exists(i) == row[i].status \notin {"absent", "purged"}
Claim(w) == [id |-> work[w].id, owner |-> w]
HoldsRow(k) == row[k.id].status = "running" /\ row[k.id].owner = k.owner
Fault == faults < MaxFaults /\ faults' = faults + 1

\* The newest of a set of rows, by submitted_at: the start of the transaction
\* that inserted it.
Newest(S) == CHOOSE i \in S : \A j \in S : row[j].submitted_at <= row[i].submitted_at

(***************************************************************************)
(* Starting a run.                                                         *)
(***************************************************************************)
\* detached_start: starts of one key take turns in a process.
Starting(r) == \E w \in Workers : work[w].at = r /\ work[w].pc \in {"begin", "start"}

\* Requests are interchangeable: the next idle one.
NextWorker == CHOOSE w \in Workers : work[w].pc = "idle" \/ \A v \in Workers : work[v].pc # "idle"

\* find_retry_equivalent and acquire_execution.  A request that is answered
\* from the probe, or refused because the replica drains, changes nothing.
start_detached(w, r, repeat) ==
  LET equivalent == {i \in Ids : Exists(i) /\ row[i].retained} IN
  /\ w = NextWorker /\ work[w].pc = "idle" /\ phase[r] = "serving" /\ ~Starting(r) /\ clock < MaxStarts
  /\ \/ equivalent = {} /\ repeat = NoOne
     \/ equivalent # {} /\ repeat = Newest(equivalent) /\ row[repeat].status = "settled"
  /\ work' = [work EXCEPT ![w] = At(r, "begin", NoOne, repeat)]
  /\ UNCHANGED <<row, process, reconciler, clock, faults>>

Return(w) == work' = [work EXCEPT ![w] = Idle]

\* The transaction begins: now() is fixed, and expired rows that nobody works
\* on are deleted.
begin_start(w) ==
  /\ work[w].pc = "begin" /\ clock < MaxStarts
  /\ clock' = clock + 1
  /\ work' = [work EXCEPT ![w] =
       [@ EXCEPT !.pc = "start", !.begun = clock + 1, !.expired = {i \in Ids : Exists(i) /\ ~row[i].retained}]]
  /\ row' = [i \in Ids |-> IF Exists(i) /\ ~row[i].retained /\ ~row[i].live
                           THEN [row[i] EXCEPT !.status = "purged", !.owner = NoOne] ELSE row[i]]
  /\ UNCHANGED <<process, reconciler, faults>>

\* retention_until > now(), as of the transaction's start.
Equivalent(w) == {i \in Ids : Exists(i) /\ i \notin work[w].expired}

\* Ids are interchangeable: the next unused one.
NewId == CHOOSE i \in Ids : row[i].status = "absent" \/ \A j \in Ids : row[j].status # "absent"

InsertClaimed(w, i) ==
  row' = [row EXCEPT ![i] = [status |-> "running", owner |-> w, live |-> TRUE, retained |-> TRUE,
                             submitted_at |-> work[w].begun, repeat_of |-> work[w].repeat]]

\* Mutant: uniqueness is left to the probe before the transaction.
Creates_TrustsProbe(w) == TRUE

\* Under the key's advisory lock: a first execution, or the repetition of the
\* newest one, once it is terminal.
Creates(w) ==
  IF work[w].repeat = NoOne THEN Equivalent(w) = {}
  ELSE /\ Equivalent(w) # {} /\ work[w].repeat = Newest(Equivalent(w))
       /\ row[work[w].repeat].status = "settled"

\* Everything else answers with the existing row or refuses.  The answer to a
\* commit may be lost: then nobody runs the claimed row.
start_or_reuse(w) ==
  /\ work[w].pc = "start"
  /\ \/ /\ Creates(w)
        /\ \E i \in Ids :
             /\ i = NewId /\ row[i].status = "absent" /\ InsertClaimed(w, i)
             /\ \/ /\ work' = [work EXCEPT ![w] = At(@.at, "claimed", i, NoOne)]
                   /\ UNCHANGED faults
                \/ Return(w) /\ Fault
     \/ ~Creates(w) /\ Return(w) /\ UNCHANGED <<row, faults>>
     \/ Return(w) /\ Fault /\ UNCHANGED row
  /\ UNCHANGED <<process, reconciler, clock>>

(***************************************************************************)
(* The run, and the registry of live claims.                               *)
(***************************************************************************)
\* reconcile_abandoned_in on a row whose claim is over or whose retention is.
Reconciled(i) ==
  [row[i] EXCEPT !.status = IF Resumable /\ row[i].retained THEN "waiting" ELSE "settled",
                 !.owner = NoOne, !.live = FALSE]
Abandoned(i) ==
  \/ row[i].status = "running" /\ ~row[i].live
  \/ row[i].status = "waiting" /\ ~row[i].retained

interrupt_claimed(k) ==
  row' = IF HoldsRow(k) THEN [row EXCEPT ![k.id] = Reconciled(k.id)] ELSE row

\* Mutant: the registration does not look at the mark.
hold_claim_IgnoresMark(w) ==
  /\ work[w].pc = "claimed"
  /\ live_claims' = [live_claims EXCEPT ![work[w].at] = @ \union {Claim(w)}]
  /\ work' = [work EXCEPT ![w].pc = "running"]
  /\ UNCHANGED <<row, phase, marked, todo, missed, reconciler, clock, faults>>

hold_claim(w) ==
  /\ work[w].pc = "claimed"
  /\ live_claims' = [live_claims EXCEPT ![work[w].at] = @ \union {Claim(w)}]
  /\ work' = [work EXCEPT ![w].pc = IF marked[work[w].at] THEN "late" ELSE "running"]
  /\ UNCHANGED <<row, phase, marked, todo, missed, reconciler, clock, faults>>

\* A run registered after the pass records itself, and runs into its fences.
RecordLate(w) ==
  /\ work[w].pc = "late"
  /\ \/ interrupt_claimed(Claim(w)) /\ UNCHANGED <<missed, faults>>
     \/ missed' = missed \union {Claim(w)} /\ Fault /\ UNCHANGED row
  /\ work' = [work EXCEPT ![w].pc = "running"]
  /\ UNCHANGED <<phase, live_claims, marked, todo, reconciler, clock>>

\* run_claimed_durable ends: finished or paused if the claim still holds.
EndRun(w) ==
  LET k == Claim(w) IN
  /\ work[w].pc = "running"
  /\ \/ /\ HoldsRow(k) /\ row[k.id].live
        /\ \E next \in {"settled", "waiting"} :
             row' = [row EXCEPT ![k.id] = [@ EXCEPT !.status = next, !.owner = NoOne, !.live = FALSE]]
     \/ UNCHANGED row
  /\ live_claims' = [live_claims EXCEPT ![work[w].at] = @ \ {k}]
  /\ work' = [work EXCEPT ![w] = Idle]
  /\ UNCHANGED <<phase, marked, todo, missed, reconciler, clock, faults>>

\* The lease is not renewed in time.
LeaseLapses(i) ==
  /\ row[i].status = "running" /\ row[i].live
  /\ row' = [row EXCEPT ![i].live = FALSE]
  /\ UNCHANGED <<work, process, reconciler, clock, faults>>

\* retention_until passes, in the order the executions were accepted in. It is
\* dated on the accepting replica's clock and submitted_at on the database's, so
\* the order assumes that the replicas' clocks agree.
RetentionPasses(i) ==
  /\ row[i].retained /\ \A j \in Ids : row[j].retained => row[i].submitted_at <= row[j].submitted_at
  /\ row' = [row EXCEPT ![i].retained = FALSE]
  /\ UNCHANGED <<work, process, reconciler, clock, faults>>

(***************************************************************************)
(* Shutdown, crash and restart of a replica.                               *)
(***************************************************************************)
begin_drain(r) ==
  /\ phase[r] = "serving" /\ phase' = [phase EXCEPT ![r] = "draining"]
  /\ UNCHANGED <<row, work, live_claims, marked, todo, missed, reconciler, clock, faults>>

\* The window ends: mark the registry and take its claims, under its lock.
interrupt_remaining(r) ==
  /\ phase[r] = "draining" /\ phase' = [phase EXCEPT ![r] = "interrupting"]
  /\ marked' = [marked EXCEPT ![r] = TRUE] /\ todo' = [todo EXCEPT ![r] = live_claims[r]]
  /\ UNCHANGED <<row, work, live_claims, missed, reconciler, clock, faults>>

interrupt_held_claim(r) ==
  /\ phase[r] = "interrupting"
  /\ \E k \in todo[r] :
       /\ todo' = [todo EXCEPT ![r] = @ \ {k}]
       /\ \/ interrupt_claimed(k) /\ UNCHANGED <<missed, faults>>
          \/ missed' = missed \union {k} /\ Fault /\ UNCHANGED row
  /\ UNCHANGED <<work, phase, live_claims, marked, reconciler, clock>>

\* The process is gone with everything it held in memory.
Gone(r) ==
  /\ phase' = [phase EXCEPT ![r] = "down"]
  /\ work' = [w \in Workers |-> IF work[w].at = r THEN Idle ELSE work[w]]
  /\ live_claims' = [live_claims EXCEPT ![r] = {}] /\ todo' = [todo EXCEPT ![r] = {}]
  /\ sweeper' = [sweeper EXCEPT ![r] = "off"] /\ listed' = [listed EXCEPT ![r] = {}]
  /\ UNCHANGED <<row, marked, missed, clock>>

Exit(r) == phase[r] = "interrupting" /\ todo[r] = {} /\ Gone(r) /\ UNCHANGED faults
Crash(r) == phase[r] # "down" /\ Fault /\ Gone(r)

Restart(r) ==
  /\ phase[r] = "down" /\ phase' = [phase EXCEPT ![r] = "serving"]
  /\ marked' = [marked EXCEPT ![r] = FALSE] /\ sweeper' = [sweeper EXCEPT ![r] = "ticking"]
  /\ UNCHANGED <<row, work, live_claims, todo, missed, listed, clock, faults>>

(***************************************************************************)
(* The reconciler: spawn_abandoned_reconciler.                             *)
(***************************************************************************)
\* One arm of the query: LIMIT rows of it, or all when there are fewer.  Its
\* ORDER BY goes by times the model does not keep, so any such rows.
Limited(arm) ==
  {S \in SUBSET arm : Cardinality(S) = Batch \/ (Cardinality(S) < Batch /\ S = arm)}

list_abandoned(r) ==
  /\ sweeper[r] = "ticking"
  /\ \E dead \in Limited({i \in Ids : row[i].status = "running" /\ Abandoned(i)}),
        paused \in Limited({i \in Ids : row[i].status = "waiting" /\ Abandoned(i)}) :
       /\ dead \union paused # {}
       /\ listed' = [listed EXCEPT ![r] = dead \union paused]
       /\ sweeper' = [sweeper EXCEPT ![r] = "batch"]
  /\ UNCHANGED <<row, work, process, clock, faults>>

\* shutdown.cancelled() is looked at between two batches.
StopReconciler(r) ==
  /\ sweeper[r] = "ticking" /\ phase[r] # "serving" /\ sweeper' = [sweeper EXCEPT ![r] = "off"]
  /\ UNCHANGED <<row, work, process, listed, clock, faults>>

\* Mutant: a failed batch ends the task.
reconcile_abandoned_batch_Ends(r) ==
  /\ sweeper[r] = "batch"
  /\ \/ \E i \in listed[r] :
          /\ row' = (IF Abandoned(i) THEN [row EXCEPT ![i] = Reconciled(i)] ELSE row)
          /\ listed' = [listed EXCEPT ![r] = @ \ {i}]
          /\ sweeper' = [sweeper EXCEPT ![r] = IF listed'[r] = {} THEN "ticking" ELSE "batch"]
          /\ UNCHANGED faults
     \/ /\ Fault /\ listed' = [listed EXCEPT ![r] = {}] /\ sweeper' = [sweeper EXCEPT ![r] = "off"]
        /\ UNCHANGED row
  /\ UNCHANGED <<work, process, clock>>

\* One candidate; an error gives up the rest until the next tick.
reconcile_abandoned_batch(r) ==
  /\ sweeper[r] = "batch"
  /\ \/ \E i \in listed[r] :
          /\ row' = (IF Abandoned(i) THEN [row EXCEPT ![i] = Reconciled(i)] ELSE row)
          /\ listed' = [listed EXCEPT ![r] = @ \ {i}]
          /\ sweeper' = [sweeper EXCEPT ![r] = IF listed'[r] = {} THEN "ticking" ELSE "batch"]
          /\ UNCHANGED faults
     \/ /\ Fault /\ listed' = [listed EXCEPT ![r] = {}] /\ sweeper' = [sweeper EXCEPT ![r] = "ticking"]
        /\ UNCHANGED row
  /\ UNCHANGED <<work, process, clock>>

RunStep(w) == hold_claim(w) \/ RecordLate(w) \/ EndRun(w)
DrainStep(r) == interrupt_remaining(r) \/ interrupt_held_claim(r) \/ Exit(r)
ReconcileStep(r) == list_abandoned(r) \/ StopReconciler(r) \/ reconcile_abandoned_batch(r)

Next ==
  \/ \E w \in Workers :
       \/ \E r \in Replicas, repeat \in Ids \union {NoOne} : start_detached(w, r, repeat)
       \/ begin_start(w) \/ start_or_reuse(w) \/ RunStep(w)
  \/ \E i \in Ids : LeaseLapses(i) \/ RetentionPasses(i)
  \/ \E r \in Stoppable : begin_drain(r) \/ DrainStep(r) \/ Crash(r) \/ Restart(r)
  \/ \E r \in Replicas : ReconcileStep(r)

Spec == Init /\ [][Next]_vars

\* Shutdown has a deadline, a stopped replica is replaced, the reconciler ticks
\* and is not stopped in the middle of every batch.  Nothing is assumed of the
\* reconciler of a replica that never stops: it may take part, or not.
FairSpec ==
  /\ Spec
  /\ \A r \in Stoppable :
       /\ WF_vars(DrainStep(r) \/ Restart(r))
       /\ SF_vars(list_abandoned(r)) /\ SF_vars(reconcile_abandoned_batch(r))

(***************************************************************************)
(* Properties.                                                             *)
(***************************************************************************)
\* Rows, requests and processes keep their types, and exactly a running row
\* carries a claim.
TypeOK ==
  /\ \A i \in Ids :
       /\ row[i].status \in {"absent", "running", "waiting", "settled", "purged"}
       /\ row[i].owner \in Workers \union {NoOne}
       /\ row[i].owner # NoOne <=> row[i].status = "running"
       /\ row[i].submitted_at \in 0..MaxStarts
  /\ \A w \in Workers :
       /\ work[w].pc \in {"idle", "begin", "start", "claimed", "late", "running"}
       /\ work[w].pc # "idle" <=> work[w].at \in Replicas
  /\ \A r \in Replicas :
       /\ phase[r] \in {"serving", "draining", "interrupting", "down"}
       /\ sweeper[r] \in {"ticking", "batch", "off"} /\ listed[r] \subseteq Ids

\* However retries of one start land on the replicas, at most one retained
\* execution of the key is unfinished; and a deliberate repetition that is
\* retried, also after its answer was lost, never repeats the program twice.
OneRunPerKey ==
  /\ TypeOK
  /\ \A i, j \in Ids :
       \/ \A k \in {i, j} : row[k].status \in {"running", "waiting"} /\ row[k].retained
       \/ row[i].repeat_of # NoOne /\ row[i].repeat_of = row[j].repeat_of
       => i = j

\* When a drain's pass is over no registered run of the process still holds
\* its row: the pass recorded it, or it saw the mark and recorded itself.
DrainRecordsHeldRuns ==
  \A r \in Replicas : phase[r] = "interrupting" /\ todo[r] = {} =>
    \A w \in Workers : work[w].at = r /\ work[w].pc = "running" /\ HoldsRow(Claim(w)) => Claim(w) \in missed

\* No row stays running with a lapsed claim, although a batch gives up its
\* rest at the first error, replicas stop in the middle of one, and several
\* replicas reconcile at once. (A lapsed claim does not come back to life, so
\* the row has then left "running".)
AbandonedSettles ==
  \A i \in Ids : []<>~(row[i].status = "running" /\ ~row[i].live)
=============================================================================

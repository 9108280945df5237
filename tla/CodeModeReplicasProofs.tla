----------------------- MODULE CodeModeReplicasProofs -----------------------
(***************************************************************************)
(* Retry-safe starts, drains and reconciliation keep their promises for    *)
(* any number of replicas, requests and executions.                        *)
(***************************************************************************)
EXTENDS CodeModeReplicas, TLAPS, WellFoundedInduction

\* Types, with what relates the fields of a row and of a request.
Rows ==
  [status : {"absent", "running", "waiting", "settled", "purged"}, owner : Workers \union {NoOne},
   live : BOOLEAN, retained : BOOLEAN, submitted_at : 0..MaxStarts, repeat_of : Ids \union {NoOne}]
Works ==
  [pc : {"idle", "begin", "start", "claimed", "late", "running"}, at : Replicas \union {NoOne},
   id : Ids \union {NoOne}, repeat : Ids \union {NoOne}, begun : 0..MaxStarts, expired : SUBSET Ids]
Claims == [id : Ids, owner : Workers]

RowTypes ==
  /\ row \in [Ids -> Rows] /\ clock \in 0..MaxStarts
  /\ \A i \in Ids : row[i].owner # NoOne <=> row[i].status = "running"
WorkTypes ==
  /\ work \in [Workers -> Works]
  /\ \A w \in Workers :
       /\ work[w].pc # "idle" <=> work[w].at \in Replicas
       /\ work[w].pc \in {"claimed", "late", "running"} => work[w].id \in Ids
ProcessTypes ==
  /\ phase \in [Replicas -> {"serving", "draining", "interrupting", "down"}]
  /\ live_claims \in [Replicas -> SUBSET Claims] /\ todo \in [Replicas -> SUBSET Claims]
  /\ marked \in [Replicas -> BOOLEAN]
  /\ sweeper \in [Replicas -> {"ticking", "batch", "off"}] /\ listed \in [Replicas -> SUBSET Ids]
Types == RowTypes /\ WorkTypes /\ ProcessTypes

USE ReplicasAssumption

(***************************************************************************)
(* Types.                                                                  *)
(***************************************************************************)
\* A row that is written over, or loses its claim, is still a row.
LEMMA RowWritten ==
  ASSUME RowTypes, NEW i \in Ids, NEW x \in Rows, x.owner # NoOne <=> x.status = "running",
         row' = [row EXCEPT ![i] = x], clock' = clock
  PROVE  RowTypes'
  BY DEF RowTypes

\* What reconciliation makes of a row.
LEMMA ReconciledRow ==
  ASSUME RowTypes, NEW i \in Ids
  PROVE  /\ Reconciled(i) \in Rows /\ Reconciled(i).owner = NoOne /\ Reconciled(i).live = FALSE
         /\ Reconciled(i).status \in {"waiting", "settled"}
         /\ Reconciled(i).status = "waiting" => row[i].retained
         /\ Reconciled(i).retained = row[i].retained
         /\ Reconciled(i).submitted_at = row[i].submitted_at
         /\ Reconciled(i).repeat_of = row[i].repeat_of
<1>1. row[i] \in Rows
  BY DEF RowTypes
<1> QED
  BY <1>1 DEF Reconciled, Rows

\* A claim that is interrupted loses its row.
LEMMA InterruptTypes ==
  ASSUME RowTypes, NEW k \in Claims, interrupt_claimed(k), clock' = clock PROVE RowTypes'
<1>1. k.id \in Ids
  BY DEF Claims
<1>2. CASE HoldsRow(k)
  <2>1. Reconciled(k.id).status # "running"
    BY <1>1, ReconciledRow
  <2> QED
    BY <1>1, <1>2, <2>1, ReconciledRow, RowWritten DEF interrupt_claimed
<1> QED
  BY <1>2 DEF interrupt_claimed, RowTypes

\* A run's claim names an execution and its worker.
LEMMA ClaimType ==
  ASSUME WorkTypes, NEW w \in Workers, work[w].pc \in {"claimed", "late", "running"}
  PROVE  Claim(w) \in Claims /\ work[w].at \in Replicas
  BY DEF WorkTypes, Claim, Claims

\* Starting a run keeps the types,
LEMMA StartTypes ==
  ASSUME Types, NEW w \in Workers,
         \/ \E r \in Replicas, repeat \in Ids \union {NoOne} : start_detached(w, r, repeat)
         \/ begin_start(w) \/ start_or_reuse(w)
  PROVE  Types'
<1> USE DEF Types
<1>1. work[w] \in Works /\ work \in [Workers -> Works] /\ work[w].at \in Replicas \union {NoOne}
  BY DEF WorkTypes, Works
<1>2. ASSUME Return(w) PROVE WorkTypes'
  BY <1>1, <1>2 DEF Return, Idle, At, WorkTypes, Works
<1>3. ASSUME NEW r \in Replicas, NEW repeat \in Ids \union {NoOne}, start_detached(w, r, repeat)
      PROVE  Types'
  <2>1. WorkTypes'
    BY <1>1, <1>3 DEF start_detached, At, WorkTypes, Works
  <2> QED
    BY <2>1, <1>3 DEF start_detached, RowTypes, ProcessTypes, process, reconciler
<1>4. ASSUME begin_start(w) PROVE Types'
  <2>0. clock < MaxStarts /\ clock' = clock + 1 /\ clock \in 0..MaxStarts
    BY <1>4 DEF begin_start, RowTypes
  <2>1. clock \in 0..MaxStarts /\ clock' = clock + 1 /\ clock + 1 \in 0..MaxStarts
    BY <2>0
  <2> DEFINE now == [work[w] EXCEPT !.pc = "start", !.begun = clock + 1,
                                    !.expired = {i \in Ids : Exists(i) /\ ~row[i].retained}]
  <2>2. now \in Works /\ now.at = work[w].at /\ now.pc = "start"
    BY <1>1, <2>1 DEF Works
  <2>3. work' = [work EXCEPT ![w] = now] /\ work[w].at \in Replicas
    BY <1>1, <1>4 DEF begin_start, WorkTypes
  <2> HIDE DEF now
  <2>4. WorkTypes'
    BY <2>2, <2>3 DEF WorkTypes
  <2>5. RowTypes'
    <3>1. ASSUME NEW i \in Ids
          PROVE  /\ [row[i] EXCEPT !.status = "purged", !.owner = NoOne] \in Rows
                 /\ [row[i] EXCEPT !.status = "purged", !.owner = NoOne].status = "purged"
                 /\ [row[i] EXCEPT !.status = "purged", !.owner = NoOne].owner = NoOne
      BY <3>1 DEF RowTypes, Rows
    <3> QED
      BY <1>4, <2>1, <3>1 DEF begin_start, RowTypes
  <2> QED
    BY <1>4, <2>4, <2>5 DEF begin_start, ProcessTypes, process, reconciler
<1>5. ASSUME start_or_reuse(w) PROVE Types'
  <2>1. ProcessTypes' /\ clock' = clock /\ work[w].at \in Replicas
    BY <1>1, <1>5 DEF start_or_reuse, ProcessTypes, process, reconciler, WorkTypes
  <2>2. ASSUME NEW i \in Ids, InsertClaimed(w, i) PROVE RowTypes'
    <3> DEFINE new == [status |-> "running", owner |-> w, live |-> TRUE, retained |-> TRUE,
                       submitted_at |-> work[w].begun, repeat_of |-> work[w].repeat]
    <3>1. new \in Rows /\ new.owner # NoOne /\ new.status = "running"
      BY <1>1 DEF Rows, Works
    <3>2. row' = [row EXCEPT ![i] = new]
      BY <2>2 DEF InsertClaimed
    <3> HIDE DEF new
    <3> QED
      BY <2>1, <3>1, <3>2, RowWritten
  <2>3. ASSUME NEW i \in Ids, work' = [work EXCEPT ![w] = At(@.at, "claimed", i, NoOne)]
        PROVE  WorkTypes'
    BY <1>1, <2>1, <2>3 DEF At, WorkTypes, Works
  <2>4. RowTypes'
    BY <2>1, <2>2, <1>5 DEF start_or_reuse, RowTypes
  <2>5. WorkTypes'
    BY <2>3, <1>2, <1>5 DEF start_or_reuse
  <2> QED
    BY <2>1, <2>4, <2>5
<1> QED
  BY <1>3, <1>4, <1>5

\* and so do a run,
LEMMA RunTypes ==
  ASSUME Types, NEW w \in Workers, RunStep(w) PROVE Types'
<1> USE DEF Types
<1>1. /\ work[w] \in Works /\ work \in [Workers -> Works]
      /\ work[w].pc \in {"claimed", "late", "running"} /\ Claim(w) \in Claims /\ work[w].at \in Replicas
      /\ Claim(w).id = work[w].id /\ work[w].id \in Ids
  BY ClaimType DEF WorkTypes, RunStep, hold_claim, RecordLate, EndRun, Claim
<1>2. ASSUME NEW next \in {"late", "running"}, work' = [work EXCEPT ![w].pc = next] PROVE WorkTypes'
  BY <1>1, <1>2 DEF WorkTypes, Works
<1>3. CASE hold_claim(w)
  BY <1>1, <1>2, <1>3 DEF hold_claim, RowTypes, ProcessTypes, reconciler
<1>4. CASE RecordLate(w)
  <2>1. RowTypes'
    BY <1>1, <1>4, InterruptTypes DEF RecordLate, RowTypes
  <2> QED
    BY <1>1, <1>2, <1>4, <2>1 DEF RecordLate, ProcessTypes, reconciler
<1>5. CASE EndRun(w)
  <2>1. WorkTypes'
    BY <1>1, <1>5 DEF EndRun, Idle, At, WorkTypes, Works
  <2>2. ProcessTypes' /\ clock' = clock
    BY <1>1, <1>5 DEF EndRun, ProcessTypes, reconciler
  <2>3. ASSUME NEW next \in {"settled", "waiting"},
               row' = [row EXCEPT ![Claim(w).id] = [@ EXCEPT !.status = next, !.owner = NoOne, !.live = FALSE]]
        PROVE  RowTypes'
    <3> DEFINE new == [row[work[w].id] EXCEPT !.status = next, !.owner = NoOne, !.live = FALSE]
    <3>0. row[work[w].id] \in Rows
      BY <1>1 DEF RowTypes
    <3>1. new \in Rows /\ new.owner = NoOne /\ new.status # "running"
      BY <3>0, <2>3 DEF Rows
    <3>2. row' = [row EXCEPT ![work[w].id] = new]
      BY <1>1, <2>3
    <3> HIDE DEF new
    <3> QED
      BY <1>1, <2>2, <3>1, <3>2, RowWritten
  <2>4. RowTypes'
    BY <2>2, <2>3, <1>5 DEF EndRun, RowTypes
  <2> QED
    BY <2>1, <2>2, <2>4
<1> QED
  BY <1>3, <1>4, <1>5 DEF RunStep

\* deadlines,
LEMMA ClockTypes ==
  ASSUME Types, NEW i \in Ids, LeaseLapses(i) \/ RetentionPasses(i) PROVE Types'
<1> USE DEF Types
<1>1. row[i] \in Rows /\ clock' = clock /\ WorkTypes' /\ ProcessTypes'
  BY DEF RowTypes, LeaseLapses, RetentionPasses, WorkTypes, ProcessTypes, process, reconciler
<1>2. CASE row' = [row EXCEPT ![i].live = FALSE]
  <2>1. /\ [row[i] EXCEPT !.live = FALSE] \in Rows
        /\ [row[i] EXCEPT !.live = FALSE].owner = row[i].owner
        /\ [row[i] EXCEPT !.live = FALSE].status = row[i].status
    BY <1>1 DEF Rows
  <2> QED
    BY <1>1, <1>2, <2>1 DEF RowTypes
<1>3. CASE row' = [row EXCEPT ![i].retained = FALSE]
  <2>1. /\ [row[i] EXCEPT !.retained = FALSE] \in Rows
        /\ [row[i] EXCEPT !.retained = FALSE].owner = row[i].owner
        /\ [row[i] EXCEPT !.retained = FALSE].status = row[i].status
    BY <1>1 DEF Rows
  <2> QED
    BY <1>1, <1>3, <2>1 DEF RowTypes
<1> QED
  BY <1>1, <1>2, <1>3 DEF LeaseLapses, RetentionPasses

\* and a replica.
LEMMA ReplicaTypes ==
  ASSUME Types, NEW r \in Replicas,
         begin_drain(r) \/ DrainStep(r) \/ Crash(r) \/ Restart(r) \/ ReconcileStep(r)
  PROVE  Types'
<1> USE DEF Types
<1>1. CASE begin_drain(r) \/ interrupt_remaining(r) \/ Restart(r)
  <2>1. RowTypes' /\ WorkTypes'
    BY <1>1 DEF begin_drain, interrupt_remaining, Restart, RowTypes, WorkTypes
  <2>2. CASE begin_drain(r)
    BY <2>1, <2>2 DEF begin_drain, ProcessTypes, reconciler
  <2>3. CASE interrupt_remaining(r)
    BY <2>1, <2>3 DEF interrupt_remaining, ProcessTypes, reconciler
  <2>4. CASE Restart(r)
    BY <2>1, <2>4 DEF Restart, ProcessTypes
  <2> QED
    BY <1>1, <2>2, <2>3, <2>4
<1>2. CASE interrupt_held_claim(r)
  <2>1. ASSUME NEW k \in todo[r] PROVE k \in Claims
    BY <2>1 DEF ProcessTypes
  <2>2. RowTypes'
    BY <1>2, <2>1, InterruptTypes DEF interrupt_held_claim, RowTypes
  <2> QED
    BY <1>2, <2>2 DEF interrupt_held_claim, WorkTypes, ProcessTypes, reconciler
<1>3. CASE Gone(r)
  <2>1. Idle \in Works /\ Idle.pc = "idle" /\ Idle.at = NoOne
    BY DEF Idle, At, Works
  <2>2. WorkTypes'
    BY <1>3, <2>1 DEF Gone, WorkTypes
  <2> QED
    BY <1>3, <2>2 DEF Gone, RowTypes, ProcessTypes
<1>4. CASE list_abandoned(r) \/ StopReconciler(r)
  <2>1. CASE list_abandoned(r)
    <3>1. PICK S \in SUBSET Ids : /\ listed' = [listed EXCEPT ![r] = S]
                                 /\ sweeper' = [sweeper EXCEPT ![r] = "batch"]
      <4>1. \A arm \in SUBSET Ids : \A S \in Limited(arm) : S \subseteq Ids
        BY DEF Limited
      <4>2. PICK dead \in Limited({i \in Ids : row[i].status = "running" /\ Abandoned(i)}),
                 paused \in Limited({i \in Ids : row[i].status = "waiting" /\ Abandoned(i)}) :
              /\ listed' = [listed EXCEPT ![r] = dead \union paused]
              /\ sweeper' = [sweeper EXCEPT ![r] = "batch"]
        BY <2>1 DEF list_abandoned
      <4>3. dead \subseteq Ids /\ paused \subseteq Ids
        BY <4>1, <4>2
      <4> QED
        BY <4>2, <4>3
    <3> QED
      BY <2>1, <3>1 DEF list_abandoned, RowTypes, WorkTypes, ProcessTypes, process
  <2>2. CASE StopReconciler(r)
    BY <2>2 DEF StopReconciler, RowTypes, WorkTypes, ProcessTypes, process
  <2> QED
    BY <1>4, <2>1, <2>2
<1>5. CASE reconcile_abandoned_batch(r)
  <2>1. ASSUME NEW i \in listed[r], row' = (IF Abandoned(i) THEN [row EXCEPT ![i] = Reconciled(i)] ELSE row)
        PROVE  RowTypes'
    <3>1. i \in Ids /\ clock' = clock
      BY <1>5, <2>1 DEF ProcessTypes, reconcile_abandoned_batch
    <3>2. Reconciled(i) \in Rows /\ Reconciled(i).owner = NoOne /\ Reconciled(i).status # "running"
      BY <3>1, ReconciledRow
    <3>3. CASE Abandoned(i)
      BY <2>1, <3>1, <3>2, <3>3, RowWritten
    <3> QED
      BY <2>1, <3>1, <3>3 DEF RowTypes
  <2>2. RowTypes'
    BY <1>5, <2>1 DEF reconcile_abandoned_batch, RowTypes
  <2> QED
    BY <1>5, <2>2 DEF reconcile_abandoned_batch, WorkTypes, ProcessTypes, process
<1> QED
  BY <1>1, <1>2, <1>3, <1>4, <1>5 DEF DrainStep, Exit, Crash, ReconcileStep

\* Types are preserved by every step.
LEMMA TypesStep == ASSUME Types, [Next]_vars PROVE Types'
<1>1. CASE UNCHANGED vars
  BY <1>1 DEF vars, Types, RowTypes, WorkTypes, ProcessTypes
<1> QED
  BY <1>1, StartTypes, RunTypes, ClockTypes, ReplicaTypes DEF Next

\* Types hold initially.
LEMMA TypesInitially == ASSUME Init PROVE Types
<1>1. ASSUME NEW s \in {"settled", "absent"}
      PROVE  Earlier(s) \in Rows /\ Earlier(s).owner = NoOne /\ Earlier(s).status = s
  BY DEF Earlier, Rows
<1>2. RowTypes
  BY <1>1 DEF Init, RowTypes
<1>3. Idle \in Works /\ Idle.pc = "idle" /\ Idle.at = NoOne
  BY DEF Idle, At, Works
<1>4. WorkTypes
  BY <1>3 DEF Init, WorkTypes
<1> QED
  BY <1>2, <1>4 DEF Init, Types, ProcessTypes

(***************************************************************************)
(* What a step does to the rows: they age, or one is inserted.             *)
(***************************************************************************)
Ages(x, y) ==
  /\ y.submitted_at = x.submitted_at /\ y.repeat_of = x.repeat_of
  /\ y.retained => x.retained
  /\ y.live => x.live
  /\ \/ y.status = x.status /\ y.owner = x.owner
     \/ x.status \in {"running", "waiting"} /\ y.status \in {"waiting", "settled"} /\ ~y.live
     \/ x.status \notin {"absent", "purged"} /\ y.status = "purged" /\ ~x.retained

\* Retention passes from the oldest row on, and a purge deletes every row whose
\* retention has passed and that nobody works on.
RowsAge ==
  /\ \A i \in Ids : Ages(row[i], row'[i])
  /\ \A i, j \in Ids :
       row[i].retained /\ ~row'[i].retained /\ row[j].retained =>
         row[i].submitted_at <= row[j].submitted_at
  /\ \A i, j \in Ids :
       (/\ row[i].status # "purged" /\ row'[i].status = "purged"
        /\ Exists(j) /\ ~row[j].retained /\ ~row[j].live) => row'[j].status = "purged"

Inserts(w, i) ==
  /\ work[w].pc = "start" /\ Creates(w) /\ row[i].status = "absent" /\ InsertClaimed(w, i)
  /\ work'[w].pc \in {"idle", "claimed"} /\ clock' = clock

\* Rows that do not change age,
LEMMA SameRowsAge == ASSUME Types, UNCHANGED row PROVE RowsAge
  BY DEF RowsAge, Ages

\* and so do all rows when one of them does, not to be deleted or hidden.
LEMMA OneRowAges ==
  ASSUME Types, NEW i \in Ids, NEW y, row' = [row EXCEPT ![i] = y], Ages(row[i], y),
         y.retained = row[i].retained, y.status # "purged" \/ row[i].status = "purged"
  PROVE  RowsAge
<1>1. row'[i] = y /\ \A j \in Ids \ {i} : row'[j] = row[j]
  BY DEF Types, RowTypes
<1>2. \A j \in Ids : Ages(row[j], row'[j])
  BY <1>1 DEF Ages
<1>3. \A j \in Ids : row'[j].retained = row[j].retained
                    /\ (row'[j].status = "purged" => row[j].status = "purged")
  BY <1>1
<1> QED
  BY <1>2, <1>3 DEF RowsAge

\* A row that reconciliation or a drain takes from its worker ages.
LEMMA ReconciledAges ==
  ASSUME Types, NEW i \in Ids, row[i].status \in {"running", "waiting"},
         row' = [row EXCEPT ![i] = Reconciled(i)]
  PROVE  RowsAge
<1>1. row[i] \in Rows
  BY DEF Types, RowTypes
<1>2. Ages(row[i], Reconciled(i)) /\ Reconciled(i).retained = row[i].retained
      /\ Reconciled(i).status # "purged"
  BY <1>1, ReconciledRow DEF Types, Ages
<1> QED
  BY <1>2, OneRowAges

\* So does one whose claim is interrupted.
LEMMA InterruptAges ==
  ASSUME Types, NEW k \in Claims, interrupt_claimed(k) PROVE RowsAge
<1>1. k.id \in Ids
  BY DEF Claims
<1>2. CASE HoldsRow(k)
  BY <1>1, <1>2, ReconciledAges DEF interrupt_claimed, HoldsRow
<1> QED
  BY <1>2, SameRowsAge DEF interrupt_claimed

\* Every step lets the rows age, or inserts one.
LEMMA EveryStepAges ==
  ASSUME Types, [Next]_vars
  PROVE  RowsAge \/ \E w \in Workers, i \in Ids : Inserts(w, i)
<1>1. ASSUME NEW w \in Workers, begin_start(w) PROVE RowsAge
  <2>1. ASSUME NEW i \in Ids
        PROVE  \/ row'[i] = row[i]
               \/ /\ Exists(i) /\ ~row[i].retained /\ ~row[i].live
                  /\ row'[i] = [row[i] EXCEPT !.status = "purged", !.owner = NoOne]
    BY <1>1, <2>1 DEF begin_start
  <2>2. ASSUME NEW i \in Ids, Exists(i), ~row[i].retained, ~row[i].live
        PROVE  row'[i] = [row[i] EXCEPT !.status = "purged", !.owner = NoOne]
    BY <1>1, <2>2 DEF begin_start
  <2>3. ASSUME NEW i \in Ids
        PROVE  LET y == [row[i] EXCEPT !.status = "purged", !.owner = NoOne] IN
               /\ y.status = "purged" /\ y.retained = row[i].retained /\ y.live = row[i].live
               /\ y.submitted_at = row[i].submitted_at /\ y.repeat_of = row[i].repeat_of
    BY <2>3 DEF Types, RowTypes, Rows
  <2>4. ASSUME NEW i \in Ids PROVE Ages(row[i], row'[i]) /\ row'[i].retained = row[i].retained
    BY <2>1, <2>3 DEF Ages, Exists
  <2>5. ASSUME NEW i \in Ids, Exists(i), ~row[i].retained, ~row[i].live PROVE row'[i].status = "purged"
    BY <2>2, <2>3, <2>5
  <2> QED
    BY <2>4, <2>5 DEF RowsAge
<1>2. ASSUME NEW w \in Workers, start_or_reuse(w) PROVE UNCHANGED row \/ \E i \in Ids : Inserts(w, i)
  <2>1. work \in [Workers -> Works] /\ clock' = clock /\ work[w].pc = "start"
    BY <1>2 DEF start_or_reuse, Types, WorkTypes
  <2>2. ASSUME NEW i \in Ids, work' = [work EXCEPT ![w] = At(@.at, "claimed", i, NoOne)] \/ Return(w)
        PROVE  work'[w].pc \in {"idle", "claimed"}
    BY <2>1, <2>2 DEF Return, Idle, At
  <2> QED
    BY <1>2, <2>1, <2>2 DEF start_or_reuse, Inserts
<1>3. ASSUME NEW w \in Workers, RunStep(w) PROVE RowsAge
  <2>1. /\ work[w].pc \in {"claimed", "late", "running"} /\ Claim(w) \in Claims
        /\ Claim(w).id \in Ids
    BY <1>3, ClaimType DEF RunStep, hold_claim, RecordLate, EndRun, Types, Claims
  <2>2. CASE hold_claim(w)
    BY <2>2, SameRowsAge DEF hold_claim
  <2>3. CASE RecordLate(w)
    BY <2>1, <2>3, SameRowsAge, InterruptAges DEF RecordLate
  <2>4. CASE EndRun(w)
    <3>1. ASSUME NEW next \in {"settled", "waiting"}, HoldsRow(Claim(w)),
                 row' = [row EXCEPT ![Claim(w).id] = [@ EXCEPT !.status = next, !.owner = NoOne, !.live = FALSE]]
          PROVE  RowsAge
      <4> DEFINE i == Claim(w).id
                 y == [row[i] EXCEPT !.status = next, !.owner = NoOne, !.live = FALSE]
      <4>1. row[i] \in Rows /\ i \in Ids /\ row[i].status = "running"
        BY <2>1, <3>1 DEF Types, RowTypes, HoldsRow
      <4>2. row' = [row EXCEPT ![i] = y]
        BY <3>1
      <4> HIDE DEF i
      <4>3. Ages(row[i], y) /\ y.retained = row[i].retained /\ y.status # "purged"
        BY <4>1, <3>1 DEF Ages, Rows
      <4> HIDE DEF y
      <4> QED
        BY <4>1, <4>2, <4>3, OneRowAges
    <3> QED
      BY <2>4, <3>1, SameRowsAge DEF EndRun
  <2> QED
    BY <1>3, <2>2, <2>3, <2>4 DEF RunStep
<1>4. ASSUME NEW i \in Ids, LeaseLapses(i) PROVE RowsAge
  <2> DEFINE y == [row[i] EXCEPT !.live = FALSE]
  <2>1. row[i] \in Rows /\ row' = [row EXCEPT ![i] = y] /\ row[i].status = "running"
    BY <1>4 DEF LeaseLapses, Types, RowTypes
  <2>2. Ages(row[i], y) /\ y.retained = row[i].retained /\ y.status # "purged"
    BY <2>1 DEF Ages, Rows
  <2> HIDE DEF y
  <2> QED
    BY <2>1, <2>2, OneRowAges
<1>5. ASSUME NEW i \in Ids, RetentionPasses(i) PROVE RowsAge
  <2> DEFINE y == [row[i] EXCEPT !.retained = FALSE]
  <2>1. row[i] \in Rows /\ row' = [row EXCEPT ![i] = y] /\ row \in [Ids -> Rows]
    BY <1>5 DEF RetentionPasses, Types, RowTypes
  <2>2. Ages(row[i], y) /\ y.status = row[i].status
    BY <2>1 DEF Ages, Rows
  <2> HIDE DEF y
  <2>3. row'[i] = y /\ \A j \in Ids \ {i} : row'[j] = row[j]
    BY <2>1
  <2>4. \A j \in Ids : Ages(row[j], row'[j]) /\ row'[j].status = row[j].status
    BY <2>2, <2>3 DEF Ages
  <2>5. \A j \in Ids : row[j].retained => row[i].submitted_at <= row[j].submitted_at
    BY <1>5 DEF RetentionPasses
  <2> QED
    BY <2>3, <2>4, <2>5 DEF RowsAge
<1>6. ASSUME NEW r \in Replicas, interrupt_held_claim(r) PROVE RowsAge
  BY <1>6, SameRowsAge, InterruptAges DEF interrupt_held_claim, Types, ProcessTypes
<1>7. ASSUME NEW r \in Replicas, reconcile_abandoned_batch(r) PROVE RowsAge
  <2>1. ASSUME NEW i \in listed[r], row' = (IF Abandoned(i) THEN [row EXCEPT ![i] = Reconciled(i)] ELSE row)
        PROVE  RowsAge
    BY <2>1, SameRowsAge, ReconciledAges DEF Abandoned, Types, ProcessTypes
  <2> QED
    BY <1>7, <2>1, SameRowsAge DEF reconcile_abandoned_batch
<1>8. ASSUME NEW r \in Replicas, begin_drain(r) \/ interrupt_remaining(r) \/ Gone(r) \/ Restart(r)
                                  \/ list_abandoned(r) \/ StopReconciler(r)
      PROVE  UNCHANGED row
  BY <1>8 DEF begin_drain, interrupt_remaining, Gone, Restart, list_abandoned, StopReconciler
<1>9. ASSUME NEW w \in Workers, NEW r \in Replicas, NEW repeat \in Ids \union {NoOne},
             start_detached(w, r, repeat)
      PROVE  UNCHANGED row
  BY <1>9 DEF start_detached
<1>10. CASE UNCHANGED vars
  BY <1>10, SameRowsAge DEF vars
<1>11. ASSUME NEW r \in Replicas, begin_drain(r) \/ DrainStep(r) \/ Crash(r) \/ Restart(r) \/ ReconcileStep(r)
       PROVE  RowsAge
  BY <1>6, <1>7, <1>8, <1>11, SameRowsAge DEF DrainStep, Exit, Crash, ReconcileStep
<1> QED
  BY <1>1, <1>2, <1>3, <1>4, <1>5, <1>9, <1>10, <1>11, SameRowsAge, ReplicasAssumption DEF Next

(***************************************************************************)
(* The drain.  A run that goes on is registered; once the registry is      *)
(* marked, one that still holds its row is on the drain's list, or the     *)
(* store refused its interruption.                                         *)
(***************************************************************************)
Registered(w) == work[w].pc \in {"late", "running"} => Claim(w) \in live_claims[work[w].at]

Recorded(w) ==
  (work[w].pc = "running" /\ marked[work[w].at] /\ HoldsRow(Claim(w))) =>
    Claim(w) \in todo[work[w].at] \union missed

DrainInv ==
  /\ \A w \in Workers : Registered(w) /\ Recorded(w)
  /\ \A r \in Replicas : phase[r] = "interrupting" => marked[r]

\* No step gives a row to a run under way.
LEMMA NoRowGained ==
  ASSUME Types, [Next]_vars, NEW v \in Workers, work[v].pc = "running", work'[v] = work[v],
         HoldsRow(Claim(v))'
  PROVE  HoldsRow(Claim(v))
<1>1. Claim(v)' = Claim(v) /\ Claim(v).id = work[v].id /\ Claim(v).owner = v /\ work[v].id \in Ids
  BY DEF Claim, Types, WorkTypes
<1>2. row'[work[v].id].status = "running" /\ row'[work[v].id].owner = v
  BY <1>1 DEF HoldsRow
<1>3. CASE RowsAge
  BY <1>1, <1>2, <1>3 DEF RowsAge, Ages, HoldsRow
<1>4. ASSUME NEW w \in Workers, NEW i \in Ids, Inserts(w, i) PROVE HoldsRow(Claim(v))
  <2>1. w # v
    BY <1>4 DEF Inserts
  <2>2. row'[i].owner = w /\ \A j \in Ids \ {i} : row'[j] = row[j]
    BY <1>4 DEF Inserts, InsertClaimed, Types, RowTypes
  <2> QED
    BY <1>1, <1>2, <2>1, <2>2 DEF HoldsRow
<1> QED
  BY <1>3, <1>4, EveryStepAges

\* A claim that was interrupted holds no row.
LEMMA InterruptedHoldsNothing ==
  ASSUME Types, NEW k \in Claims, interrupt_claimed(k), k' = k PROVE ~HoldsRow(k)'
<1>1. k.id \in Ids
  BY DEF Claims
<1>2. CASE HoldsRow(k)
  <2>1. row'[k.id] = Reconciled(k.id) /\ Reconciled(k.id).status # "running"
    BY <1>1, <1>2, ReconciledRow DEF interrupt_claimed, Types, RowTypes
  <2> QED
    BY <2>1 DEF HoldsRow
<1> QED
  BY <1>2 DEF interrupt_claimed, HoldsRow

\* A run that does not move stays registered and recorded, if the registry of
\* its replica keeps what it has.
LEMMA DrainKept ==
  ASSUME Types, [Next]_vars, DrainInv, NEW v \in Workers, work'[v] = work[v],
         work[v].at \in Replicas =>
           /\ Claim(v) \in live_claims[work[v].at] => Claim(v) \in live_claims'[work[v].at]
           /\ marked'[work[v].at] => marked[work[v].at]
           /\ Claim(v) \in todo[work[v].at] => Claim(v) \in todo'[work[v].at],
         missed \subseteq missed'
  PROVE  Registered(v)' /\ Recorded(v)'
<1>1. Claim(v)' = Claim(v)
  BY DEF Claim
<1>2. work[v].pc \in {"late", "running"} => work[v].at \in Replicas
  BY DEF Types, WorkTypes
<1>3. Registered(v) /\ Recorded(v)
  BY DEF DrainInv
<1>4. Registered(v)'
  BY <1>1, <1>2, <1>3 DEF Registered
<1>5. ASSUME work[v].pc = "running", marked'[work[v].at], HoldsRow(Claim(v))'
      PROVE  Claim(v) \in todo'[work[v].at] \union missed'
  <2>1. HoldsRow(Claim(v))
    BY <1>5, NoRowGained
  <2> QED
    BY <1>2, <1>3, <1>5, <2>1 DEF Recorded
<1> QED
  BY <1>1, <1>4, <1>5 DEF Recorded

\* A request that has no registered run has nothing to record.
LEMMA DrainIdle ==
  ASSUME NEW v \in Workers, work'[v].pc \notin {"late", "running"} PROVE Registered(v)' /\ Recorded(v)'
  BY DEF Registered, Recorded

\* DrainInv is preserved.
LEMMA DrainInvStep == ASSUME Types, DrainInv, [Next]_vars PROVE DrainInv'
<1>1. CASE UNCHANGED <<phase, live_claims, marked, todo, missed>> /\ \A v \in Workers :
             work'[v] = work[v] \/ work'[v].pc \notin {"late", "running"}
  <2>1. ASSUME NEW v \in Workers PROVE Registered(v)' /\ Recorded(v)'
    BY <1>1, <2>1, DrainKept, DrainIdle
  <2> QED
    BY <1>1, <2>1 DEF DrainInv
<1>2. ASSUME NEW w \in Workers,
             \/ \E r \in Replicas, repeat \in Ids \union {NoOne} : start_detached(w, r, repeat)
             \/ begin_start(w) \/ start_or_reuse(w)
      PROVE  DrainInv'
  <2>1. UNCHANGED <<phase, live_claims, marked, todo, missed>>
    BY <1>2 DEF start_detached, begin_start, start_or_reuse, process
  <2>2. \A v \in Workers \ {w} : work'[v] = work[v]
    BY <1>2 DEF start_detached, begin_start, start_or_reuse, Return, Types, WorkTypes
  <2>3. work[w] \in Works /\ work \in [Workers -> Works]
    BY DEF Types, WorkTypes
  <2>4. CASE begin_start(w)
    <3>1. work'[w].pc = "start"
      BY <2>3, <2>4 DEF begin_start, Works
    <3> QED
      BY <1>1, <2>1, <2>2, <3>1
  <2>5. CASE ~begin_start(w)
    <3>1. \/ \E r \in Replicas, repeat \in Ids \union {NoOne} : work'[w] = At(r, "begin", NoOne, repeat)
          \/ \E r, i : work'[w] = At(r, "claimed", i, NoOne)
          \/ work'[w] = Idle
      BY <1>2, <2>3, <2>5 DEF start_detached, start_or_reuse, Return
    <3>2. \A r, p, i, q : At(r, p, i, q).pc = p
      BY DEF At
    <3>3. work'[w].pc \in {"begin", "idle", "claimed"}
      BY <3>1, <3>2 DEF Idle
    <3> QED
      BY <1>1, <2>1, <2>2, <3>3
  <2> QED
    BY <2>4, <2>5
<1>3. ASSUME NEW w \in Workers, RunStep(w) PROVE DrainInv'
  <2>1. /\ work[w].pc \in {"claimed", "late", "running"} /\ Claim(w) \in Claims
        /\ work[w].at \in Replicas /\ work \in [Workers -> Works] /\ work[w] \in Works
    BY <1>3, ClaimType DEF RunStep, hold_claim, RecordLate, EndRun, Types, WorkTypes
  <2>2. /\ UNCHANGED <<phase, marked, todo>> /\ missed \subseteq missed'
        /\ \A v \in Workers \ {w} : work'[v] = work[v]
    BY <1>3, <2>1 DEF RunStep, hold_claim, RecordLate, EndRun
  <2>3. \A v \in Workers : Claim(v).owner = v
    BY DEF Claim
  <2>4. ASSUME NEW v \in Workers \ {w}, NEW r \in Replicas, Claim(v) \in live_claims[r]
        PROVE  Claim(v) \in live_claims'[r]
    BY <1>3, <2>1, <2>3, <2>4 DEF RunStep, hold_claim, RecordLate, EndRun, Types, ProcessTypes
  <2>5. ASSUME NEW v \in Workers \ {w} PROVE Registered(v)' /\ Recorded(v)'
    BY <2>2, <2>4, <2>5, DrainKept
  <2>6. Registered(w)' /\ Recorded(w)'
    <3>1. CASE hold_claim(w)
      <4>1. work'[w] = [work[w] EXCEPT !.pc = IF marked[work[w].at] THEN "late" ELSE "running"]
        BY <2>1, <3>1 DEF hold_claim
      <4>2. /\ work'[w].at = work[w].at /\ work'[w].id = work[w].id
            /\ work'[w].pc = IF marked[work[w].at] THEN "late" ELSE "running"
        BY <2>1, <4>1 DEF Works
      <4>3. Claim(w)' = Claim(w) /\ Claim(w) \in live_claims'[work[w].at]
        BY <2>1, <3>1, <4>2 DEF hold_claim, Claim, Types, ProcessTypes
      <4> QED
        BY <2>2, <4>2, <4>3 DEF Registered, Recorded
    <3>2. CASE RecordLate(w)
      <4>1. /\ work'[w].at = work[w].at /\ work'[w].id = work[w].id
            /\ live_claims' = live_claims
        BY <2>1, <3>2 DEF RecordLate, Works
      <4>2. Claim(w)' = Claim(w) /\ Registered(w)
        BY <4>1 DEF Claim, DrainInv
      <4>3. Registered(w)'
        BY <2>1, <3>2, <4>1, <4>2 DEF Registered, RecordLate
      <4>4. ~HoldsRow(Claim(w))' \/ Claim(w) \in missed'
        BY <2>1, <3>2, <4>2, InterruptedHoldsNothing DEF RecordLate, Types
      <4> QED
        BY <4>1, <4>2, <4>3, <4>4 DEF Recorded
    <3>3. CASE EndRun(w)
      <4>1. work'[w].pc = "idle"
        BY <2>1, <3>3 DEF EndRun, Idle, At
      <4> QED
        BY <4>1, DrainIdle
    <3> QED
      BY <1>3, <3>1, <3>2, <3>3 DEF RunStep
  <2> QED
    BY <2>2, <2>5, <2>6 DEF DrainInv
<1>4. ASSUME NEW r \in Replicas, begin_drain(r) PROVE DrainInv'
  <2>1. ASSUME NEW v \in Workers PROVE Registered(v)' /\ Recorded(v)'
    BY <1>4, <2>1, DrainKept DEF begin_drain
  <2> QED
    BY <1>4, <2>1 DEF begin_drain, DrainInv, Types, ProcessTypes
<1>5. ASSUME NEW r \in Replicas, interrupt_remaining(r) PROVE DrainInv'
  <2>1. /\ marked'[r] /\ todo'[r] = live_claims[r] /\ UNCHANGED <<work, live_claims, missed>>
        /\ \A q \in Replicas \ {r} : marked'[q] = marked[q] /\ todo'[q] = todo[q] /\ phase'[q] = phase[q]
    BY <1>5 DEF interrupt_remaining, Types, ProcessTypes
  <2>2. ASSUME NEW v \in Workers, work[v].at = r PROVE Registered(v)' /\ Recorded(v)'
    BY <2>1, <2>2 DEF DrainInv, Registered, Recorded, Claim
  <2>3. ASSUME NEW v \in Workers, work[v].at # r PROVE Registered(v)' /\ Recorded(v)'
    BY <2>1, <2>3, DrainKept
  <2> QED
    BY <2>1, <2>2, <2>3 DEF DrainInv
<1>6. ASSUME NEW r \in Replicas, interrupt_held_claim(r) PROVE DrainInv'
  <2>1. PICK k \in todo[r] :
          /\ todo' = [todo EXCEPT ![r] = @ \ {k}]
          /\ interrupt_claimed(k) \/ missed' = missed \union {k}
          /\ missed \subseteq missed'
    BY <1>6 DEF interrupt_held_claim
  <2>2. k \in Claims /\ todo'[r] = todo[r] \ {k} /\ \A q \in Replicas \ {r} : todo'[q] = todo[q]
    BY <2>1 DEF Types, ProcessTypes
  <2>3. UNCHANGED <<work, phase, live_claims, marked>>
    BY <1>6 DEF interrupt_held_claim
  <2>4. ASSUME NEW v \in Workers, Claim(v) = k PROVE Registered(v)' /\ Recorded(v)'
    <3>1. Claim(v)' = k /\ Registered(v)
      BY <2>3, <2>4 DEF Claim, DrainInv
    <3>2. Registered(v)'
      BY <2>3, <2>4, <3>1 DEF Registered
    <3>3. ~HoldsRow(Claim(v))' \/ Claim(v)' \in missed'
      <4>1. CASE interrupt_claimed(k)
        <5>1. interrupt_claimed(Claim(v)) /\ Claim(v) \in Claims /\ Claim(v)' = Claim(v)
          BY <4>1, <2>2, <2>4, <3>1
        <5> QED
          BY <5>1, InterruptedHoldsNothing
      <4> QED
        BY <2>1, <3>1, <4>1
    <3> QED
      BY <3>2, <3>3 DEF Recorded
  <2>5. ASSUME NEW v \in Workers, Claim(v) # k PROVE Registered(v)' /\ Recorded(v)'
    <3>1. missed \subseteq missed'
      BY <2>1
    <3>2. \A q \in Replicas : Claim(v) \in todo[q] => Claim(v) \in todo'[q]
      BY <2>2, <2>5
    <3> QED
      BY <2>3, <3>1, <3>2, DrainKept
  <2> QED
    BY <2>3, <2>4, <2>5 DEF DrainInv
<1>7. ASSUME NEW r \in Replicas, Gone(r) PROVE DrainInv'
  <2>1. /\ UNCHANGED <<marked, missed>> /\ phase'[r] = "down"
        /\ \A q \in Replicas \ {r} :
             live_claims'[q] = live_claims[q] /\ todo'[q] = todo[q] /\ phase'[q] = phase[q]
        /\ \A v \in Workers : work'[v] = IF work[v].at = r THEN Idle ELSE work[v]
    BY <1>7 DEF Gone, Types, ProcessTypes
  <2>2. ASSUME NEW v \in Workers, work[v].at = r PROVE Registered(v)' /\ Recorded(v)'
    <3>1. work'[v].pc = "idle"
      BY <2>1, <2>2 DEF Idle, At
    <3> QED
      BY <3>1, DrainIdle
  <2>3. ASSUME NEW v \in Workers, work[v].at # r PROVE Registered(v)' /\ Recorded(v)'
    BY <2>1, <2>3, DrainKept
  <2> QED
    BY <2>1, <2>2, <2>3 DEF DrainInv
<1>8. ASSUME NEW r \in Replicas, Restart(r) PROVE DrainInv'
  <2>1. /\ UNCHANGED <<work, live_claims, todo, missed>> /\ phase'[r] = "serving" /\ ~marked'[r]
        /\ \A q \in Replicas \ {r} : marked'[q] = marked[q] /\ phase'[q] = phase[q]
    BY <1>8 DEF Restart, Types, ProcessTypes
  <2>2. ASSUME NEW v \in Workers PROVE Registered(v)' /\ Recorded(v)'
    BY <2>1, <2>2, DrainKept
  <2> QED
    BY <2>1, <2>2 DEF DrainInv
<1>9. CASE UNCHANGED <<work, phase, live_claims, marked, todo, missed>>
  BY <1>1, <1>9
<1>10. ASSUME NEW i \in Ids, LeaseLapses(i) \/ RetentionPasses(i) PROVE DrainInv'
  BY <1>9, <1>10 DEF LeaseLapses, RetentionPasses, process
<1>11. ASSUME NEW r \in Replicas, ReconcileStep(r) PROVE DrainInv'
  BY <1>9, <1>11 DEF ReconcileStep, list_abandoned, StopReconciler, reconcile_abandoned_batch, process
<1>12. CASE UNCHANGED vars
  BY <1>9, <1>12 DEF vars
<1>13. ASSUME NEW r \in Replicas, begin_drain(r) \/ DrainStep(r) \/ Crash(r) \/ Restart(r) \/ ReconcileStep(r)
       PROVE  DrainInv'
  BY <1>4, <1>5, <1>6, <1>7, <1>8, <1>11, <1>13 DEF DrainStep, Exit, Crash
<1> QED
  BY <1>2, <1>3, <1>10, <1>12, <1>13, ReplicasAssumption DEF Next

\* DrainInv holds initially.
LEMMA DrainInitially == ASSUME Init PROVE DrainInv
<1>1. ASSUME NEW w \in Workers PROVE work[w].pc = "idle"
  BY <1>1 DEF Init, Idle, At
<1> QED
  BY <1>1 DEF Init, DrainInv, Registered, Recorded

\* When a drain's pass is over, no run of the process that was registered still
\* holds its row, unless the store refused to record it: however many runs
\* register while the registry is walked (hold_claim, interrupt_remaining).
THEOREM DrainsRecordHeldRuns == Spec => []DrainRecordsHeldRuns
<1>1. Init => Types /\ DrainInv
  BY TypesInitially, DrainInitially
<1>2. Types /\ DrainInv /\ [Next]_vars => (Types /\ DrainInv)'
  BY TypesStep, DrainInvStep
<1>3. Types /\ DrainInv => DrainRecordsHeldRuns
  BY DEF DrainInv, Recorded, DrainRecordsHeldRuns, Types, WorkTypes
<1> QED
  BY <1>1, <1>2, <1>3, PTL DEF Spec

(***************************************************************************)
(* One run per key.  Rows that exist were inserted in the order of their   *)
(* submitted_at, although that is when the inserting transaction began:    *)
(* each was the newest when it was inserted.  Hence the one that may be    *)
(* unfinished is the newest, and a repetition of it is the next.           *)
(***************************************************************************)
Kept     == \A i \in Ids : row[i].retained => Exists(i)
Dated    == \A i \in Ids : row[i].submitted_at <= clock
Quiet    == \A i \in Ids : row[i].status = "settled" => ~row[i].live
Distinct == \A i, j \in Ids : Exists(i) /\ Exists(j) /\ row[i].submitted_at = row[j].submitted_at => i = j

\* Retention has passed for the oldest rows.
InOrder ==
  \A i, j \in Ids :
    (row[i].retained /\ Exists(j) /\ row[i].submitted_at <= row[j].submitted_at) => row[j].retained

Unfinished(i) == row[i].status \in {"running", "waiting"} /\ row[i].retained
LastRuns ==
  \A i, j \in Ids : Unfinished(i) /\ Exists(j) => row[j].submitted_at <= row[i].submitted_at

\* A repetition is newer than what it repeats, and is not deleted before it.
Repeats ==
  \A i, j \in Ids : row[i].repeat_of = j =>
    /\ row[j].status \in {"settled", "purged"} /\ row[j].submitted_at < row[i].submitted_at
    /\ row[i].status # "absent"
    /\ row[i].status = "purged" => row[j].status = "purged"
RepeatsOnce ==
  \A i, j \in Ids : row[i].repeat_of # NoOne /\ row[i].repeat_of = row[j].repeat_of => i = j

\* A start transaction knows what had expired when it began, and repeats a row
\* that was there before.
Begun(w) ==
  /\ (work[w].pc \in {"begin", "start"} /\ work[w].repeat # NoOne) => row[work[w].repeat].status # "absent"
  /\ work[w].pc = "start" =>
       /\ work[w].repeat # NoOne => row[work[w].repeat].submitted_at < work[w].begun
       /\ work[w].begun \in 1..clock
       /\ \A i \in work[w].expired :
            /\ row[i].status # "absent" /\ ~row[i].retained /\ row[i].submitted_at < work[w].begun
            /\ \A j \in Ids : (Exists(i) /\ Exists(j) /\ row[j].submitted_at <= row[i].submitted_at)
                              => j \in work[w].expired

RowsInv == Kept /\ Dated /\ Quiet /\ Distinct /\ InOrder /\ LastRuns /\ Repeats /\ RepeatsOnce
KeyInv == RowsInv /\ \A w \in Workers : Begun(w)

\* The newest of some rows is one of them, and none of them is newer.
LEMMA NewestIs ==
  ASSUME RowTypes, NEW S \in SUBSET Ids, S # {}
  PROVE  /\ Newest(S) \in S
         /\ \A j \in S : row[j].submitted_at <= row[Newest(S)].submitted_at
<1> DEFINE T == {MaxStarts - row[i].submitted_at : i \in S}
<1>1. \A i \in S : row[i].submitted_at \in 0..MaxStarts
  BY DEF RowTypes, Rows
<1>2. T \subseteq Nat /\ T # {}
  BY <1>1
<1>3. PICK x \in T : \A y \in T : ~(<<y, x>> \in OpToRel(<, Nat))
  BY <1>2, NatLessThanWellFounded, WFMin
<1>4. \A y \in T : ~(y < x)
  BY <1>2, <1>3 DEF OpToRel
<1>5. PICK i \in S : x = MaxStarts - row[i].submitted_at
  BY <1>3
<1>6. \A j \in S : row[j].submitted_at <= row[i].submitted_at
  <2> SUFFICES ASSUME NEW j \in S PROVE row[j].submitted_at <= row[i].submitted_at
    OBVIOUS
  <2>1. ~(MaxStarts - row[j].submitted_at < x)
    BY <1>4
  <2> QED
    BY <2>1, <1>1, <1>5
<1> QED
  BY <1>6 DEF Newest

\* Rows that age keep the order.
LEMMA AgingKeepsOrder ==
  ASSUME Types, Types', RowsInv, RowsAge, clock <= clock' PROVE RowsInv'
<1>1. ASSUME NEW i \in Ids
      PROVE  /\ row'[i].submitted_at = row[i].submitted_at /\ row'[i].repeat_of = row[i].repeat_of
             /\ row'[i].retained => row[i].retained
             /\ Exists(i)' => Exists(i)
             /\ row'[i].retained /\ Exists(i) => Exists(i)'
             /\ row[i].submitted_at \in Nat
             /\ row'[i].status = "absent" => row[i].status = "absent"
             /\ row'[i].status \in {"running", "waiting"} => row[i].status \in {"running", "waiting"}
             /\ row[i].status \in {"settled", "purged"} => row'[i].status \in {"settled", "purged"}
             /\ row[i].status = "purged" => row'[i].status = "purged"
             /\ row'[i].status = "purged" => row[i].status = "purged" \/ (Exists(i) /\ ~row[i].retained)
             /\ row'[i].status = "settled" => ~row'[i].live \/ (row[i].status = "settled" /\ row[i].live)
  <2>1. Ages(row[i], row'[i]) /\ row[i] \in Rows
    BY DEF RowsAge, Types, RowTypes
  <2> QED
    BY <2>1 DEF Ages, Exists, Rows
<1> USE DEF RowsInv
<1>2. Kept'
  BY <1>1 DEF Kept
<1>3. Dated'
  BY <1>1 DEF Dated, Types, RowTypes
<1>4. Quiet'
  BY <1>1 DEF Quiet
<1>5. Distinct'
  BY <1>1 DEF Distinct
<1>6. InOrder'
  <2> SUFFICES ASSUME NEW i \in Ids, NEW j \in Ids, row'[i].retained, Exists(j)',
                      row[i].submitted_at <= row[j].submitted_at
               PROVE  row'[j].retained
    BY <1>1 DEF InOrder
  <2>1. row[i].retained /\ Exists(i) /\ Exists(j) /\ row[j].retained
    BY <1>1 DEF InOrder, Kept
  <2>2. ASSUME ~row'[j].retained PROVE FALSE
    <3>1. row[j].submitted_at <= row[i].submitted_at
      BY <2>1, <2>2 DEF RowsAge
    <3>2. i = j
      BY <1>1, <2>1, <3>1 DEF Distinct
    <3> QED
      BY <2>2, <3>2
  <2> QED
    BY <2>2 DEF Types, RowTypes, Rows
<1>7. LastRuns'
  BY <1>1 DEF LastRuns, Unfinished
<1>8. Repeats'
  <2> SUFFICES ASSUME NEW i \in Ids, NEW j \in Ids, row[i].repeat_of = j
               PROVE  /\ row'[j].status \in {"settled", "purged"}
                      /\ row'[j].submitted_at < row'[i].submitted_at
                      /\ row'[i].status # "absent"
                      /\ row'[i].status = "purged" => row'[j].status = "purged"
    BY <1>1 DEF Repeats
  <2>1. /\ row[j].status \in {"settled", "purged"} /\ row[j].submitted_at < row[i].submitted_at
        /\ row[i].status # "absent"
        /\ row[i].status = "purged" => row[j].status = "purged"
    BY DEF Repeats
  <2>2. ASSUME row'[i].status = "purged", row[i].status # "purged", row[j].status = "settled"
        PROVE  row'[j].status = "purged"
    <3>1. Exists(i) /\ ~row[i].retained /\ Exists(j) /\ ~row[j].live
      BY <1>1, <2>2 DEF Quiet, Exists
    <3>2. ~row[j].retained
      BY <1>1, <2>1, <3>1 DEF InOrder
    <3> QED
      BY <2>2, <3>1, <3>2 DEF RowsAge
  <2>3. row'[i].status = "purged" => row'[j].status = "purged"
    <3>1. row[j].status = "purged" => row'[j].status = "purged"
      BY <1>1
    <3> QED
      BY <2>1, <2>2, <3>1
  <2>4. row'[j].status \in {"settled", "purged"} /\ row'[i].status # "absent"
    BY <1>1, <2>1
  <2>5. row'[j].submitted_at < row'[i].submitted_at
    BY <1>1, <2>1
  <2> QED
    BY <2>3, <2>4, <2>5
<1>9. RepeatsOnce'
  BY <1>1 DEF RepeatsOnce
<1> QED
  BY <1>2, <1>3, <1>4, <1>5, <1>6, <1>7, <1>8, <1>9

\* A transaction that may insert finds every existing row older than itself;
\* no retained row is unfinished, and none repeats what it is to repeat.
LEMMA InsertedIsNewest ==
  ASSUME Types, RowsInv, NEW w \in Workers, Begun(w), work[w].pc = "start", Creates(w)
  PROVE  /\ \A j \in Ids : Exists(j) => row[j].submitted_at < work[w].begun
         /\ \A j \in Ids : ~Unfinished(j)
         /\ work[w].repeat # NoOne =>
              /\ work[w].repeat \in Ids /\ row[work[w].repeat].status = "settled"
              /\ row[work[w].repeat].submitted_at < work[w].begun
              /\ \A j \in Ids : row[j].repeat_of # work[w].repeat
<1> USE DEF RowsInv
<1>1. /\ work[w].expired \subseteq Ids /\ work[w].begun \in Nat /\ work[w].repeat \in Ids \union {NoOne}
      /\ \A j \in Ids : row[j].submitted_at \in Nat
  BY DEF Types, RowTypes, Rows, WorkTypes, Works
<1>2. ASSUME NEW j \in Ids, Exists(j) PROVE j \in work[w].expired \/ j \in Equivalent(w)
  BY <1>2 DEF Equivalent
<1>3. ASSUME NEW j \in work[w].expired PROVE row[j].submitted_at < work[w].begun /\ ~row[j].retained
  BY <1>3 DEF Begun
<1>4. CASE work[w].repeat = NoOne
  <2>1. Equivalent(w) = {}
    BY <1>4 DEF Creates
  <2> QED
    BY <1>2, <1>3, <1>4, <2>1 DEF Unfinished, Kept
<1>5. CASE work[w].repeat # NoOne
  <2> DEFINE R == work[w].repeat
  <2>1. R = Newest(Equivalent(w)) /\ Equivalent(w) # {} /\ row[R].status = "settled"
    BY <1>5 DEF Creates
  <2>2. Equivalent(w) \in SUBSET Ids
    BY DEF Equivalent
  <2>3. R \in Equivalent(w) /\ \A j \in Equivalent(w) : row[j].submitted_at <= row[R].submitted_at
    BY <2>1, <2>2, NewestIs DEF Types
  <2>4. R \in Ids /\ Exists(R) /\ R \notin work[w].expired /\ row[R].submitted_at < work[w].begun
    BY <1>5, <2>3 DEF Equivalent, Begun
  <2> HIDE DEF R
  <2>5. ASSUME NEW j \in Ids, Exists(j) PROVE row[j].submitted_at < work[w].begun
    BY <1>1, <1>2, <1>3, <2>3, <2>4, <2>5
  <2>6. ASSUME NEW j \in Ids, Unfinished(j) PROVE FALSE
    <3>1. Exists(j) /\ j \in Equivalent(w)
      BY <1>2, <1>3, <2>6 DEF Unfinished, Kept
    <3>2. row[j].submitted_at <= row[R].submitted_at /\ row[R].submitted_at <= row[j].submitted_at
      BY <2>3, <2>4, <2>6, <3>1 DEF LastRuns
    <3>3. j = R
      BY <1>1, <2>4, <3>1, <3>2 DEF Distinct
    <3> QED
      BY <2>1, <2>6, <3>3 DEF Unfinished
  <2>7. ASSUME NEW j \in Ids, row[j].repeat_of = R PROVE FALSE
    <3>1. row[R].submitted_at < row[j].submitted_at /\ Exists(j)
      BY <2>1, <2>4, <2>7 DEF Repeats, Exists
    <3>2. CASE j \in Equivalent(w)
      BY <1>1, <2>3, <2>4, <3>1, <3>2
    <3>3. CASE j \in work[w].expired
      BY <1>1, <2>4, <3>1, <3>3 DEF Begun
    <3> QED
      BY <1>2, <3>1, <3>2, <3>3
  <2> QED
    BY <2>1, <2>4, <2>5, <2>6, <2>7 DEF R
<1> QED
  BY <1>4, <1>5

\* Inserting it keeps the order.
LEMMA InsertKeepsOrder ==
  ASSUME Types, Types', RowsInv, NEW w \in Workers, NEW n \in Ids, Begun(w), Inserts(w, n)
  PROVE  RowsInv'
<1> USE DEF RowsInv
<1>1. /\ row'[n].status = "running" /\ row'[n].live /\ row'[n].retained
      /\ row'[n].submitted_at = work[w].begun /\ row'[n].repeat_of = work[w].repeat
      /\ row[n].status = "absent" /\ work[w].begun \in Nat /\ work[w].begun \in 1..clock /\ clock' = clock
  BY DEF Inserts, InsertClaimed, Types, RowTypes, WorkTypes, Works, Begun
<1>2. \A i \in Ids \ {n} : row'[i] = row[i]
  BY DEF Inserts, InsertClaimed, Types, RowTypes
<1>3. \A i \in Ids : row[i].submitted_at \in Nat /\ row[i].repeat_of \in Ids \union {NoOne}
  BY DEF Types, RowTypes, Rows
<1>4. \A i \in Ids \ {n} : (Exists(i)' <=> Exists(i)) /\ (Unfinished(i)' <=> Unfinished(i))
  BY <1>2 DEF Exists, Unfinished
<1>5. /\ \A j \in Ids : Exists(j) => row[j].submitted_at < work[w].begun
      /\ \A j \in Ids : ~Unfinished(j)
      /\ work[w].repeat # NoOne =>
           /\ work[w].repeat \in Ids /\ row[work[w].repeat].status = "settled"
           /\ row[work[w].repeat].submitted_at < work[w].begun
           /\ \A j \in Ids : row[j].repeat_of # work[w].repeat
  BY InsertedIsNewest DEF Inserts
<1>6. Kept'
  BY <1>1, <1>2 DEF Kept, Exists
<1>7. Dated'
  BY <1>1, <1>2 DEF Dated
<1>8. Quiet'
  BY <1>1, <1>2 DEF Quiet
<1>9. Distinct'
  BY <1>1, <1>2, <1>3, <1>4, <1>5 DEF Distinct
<1>10. InOrder'
  <2> SUFFICES ASSUME NEW i \in Ids, NEW j \in Ids, row'[i].retained, Exists(j)',
                      row'[i].submitted_at <= row'[j].submitted_at
               PROVE  row'[j].retained
    BY DEF InOrder
  <2>1. CASE j = n
    BY <1>1, <2>1
  <2>2. CASE j # n /\ i = n
    BY <1>1, <1>2, <1>3, <1>4, <1>5, <2>2
  <2>3. CASE j # n /\ i # n
    BY <1>2, <1>4, <2>3 DEF InOrder
  <2> QED
    BY <2>1, <2>2, <2>3
<1>11. LastRuns'
  <2> SUFFICES ASSUME NEW i \in Ids, NEW j \in Ids, Unfinished(i)', Exists(j)'
               PROVE  row'[j].submitted_at <= row'[i].submitted_at
    BY DEF LastRuns
  <2>1. i = n
    BY <1>4, <1>5
  <2> QED
    BY <1>1, <1>2, <1>3, <1>4, <1>5, <2>1
<1>12. Repeats'
  <2> SUFFICES ASSUME NEW i \in Ids, NEW j \in Ids, row'[i].repeat_of = j
               PROVE  /\ row'[j].status \in {"settled", "purged"}
                      /\ row'[j].submitted_at < row'[i].submitted_at
                      /\ row'[i].status # "absent"
                      /\ row'[i].status = "purged" => row'[j].status = "purged"
    BY DEF Repeats
  <2>1. CASE i = n
    <3>1. j = work[w].repeat /\ j # NoOne /\ row[j].status = "settled" /\ j # n
      BY <1>1, <1>5, <2>1
    <3> QED
      BY <1>1, <1>2, <1>5, <2>1, <3>1
  <2>2. CASE i # n
    <3>1. /\ row[i].repeat_of = j /\ row[j].status \in {"settled", "purged"} /\ row[i].status # "absent"
          /\ row[j].submitted_at < row[i].submitted_at
          /\ row[i].status = "purged" => row[j].status = "purged"
      BY <1>2, <2>2 DEF Repeats
    <3>2. j # n
      BY <1>1, <3>1
    <3> QED
      BY <1>2, <2>2, <3>1, <3>2
  <2> QED
    BY <2>1, <2>2
<1>13. RepeatsOnce'
  BY <1>1, <1>2, <1>3, <1>5 DEF RepeatsOnce
<1> QED
  BY <1>6, <1>7, <1>8, <1>9, <1>10, <1>11, <1>12, <1>13

\* A request that does not move knows what it knew, while rows age,
LEMMA AgingKeepsBegun ==
  ASSUME Types, NEW v \in Workers, Begun(v), work'[v] = work[v], RowsAge, clock <= clock', clock' \in Nat
  PROVE  Begun(v)'
<1>1. ASSUME NEW i \in Ids
      PROVE  /\ row'[i].submitted_at = row[i].submitted_at /\ (row'[i].retained => row[i].retained)
             /\ row'[i].status = "absent" => row[i].status = "absent"
             /\ Exists(i)' => Exists(i)
  <2>1. Ages(row[i], row'[i]) /\ row[i] \in Rows
    BY DEF RowsAge, Types, RowTypes
  <2> QED
    BY <2>1 DEF Ages, Exists, Rows
<1>2. work[v].expired \subseteq Ids /\ work[v].repeat \in Ids \union {NoOne} /\ clock \in Nat
  BY DEF Types, RowTypes, WorkTypes, Works
<1> QED
  BY <1>1, <1>2 DEF Begun

\* and when another inserts.
LEMMA InsertKeepsBegun ==
  ASSUME Types, RowsInv, NEW w \in Workers, NEW n \in Ids, Begun(w), Inserts(w, n),
         NEW v \in Workers, Begun(v), work'[v] = work[v]
  PROVE  Begun(v)'
<1>1. /\ row'[n].submitted_at = work[w].begun /\ row[n].status = "absent" /\ clock' = clock
      /\ row \in [Ids -> Rows] /\ work[w].begun \in Nat
  BY DEF Inserts, InsertClaimed, Types, RowTypes, WorkTypes, Works
<1>2. \A i \in Ids \ {n} : row'[i] = row[i] /\ (Exists(i)' <=> Exists(i)) /\ row[i].submitted_at \in Nat
  BY DEF Inserts, InsertClaimed, Types, RowTypes, Exists, Rows
<1>3. \A j \in Ids : Exists(j) => row[j].submitted_at < work[w].begun
  BY InsertedIsNewest DEF Inserts
<1>4. work[v].expired \subseteq Ids /\ work[v].repeat \in Ids \union {NoOne}
  BY DEF Types, WorkTypes, Works
<1>5. ASSUME work[v].pc \in {"begin", "start"}, work[v].repeat # NoOne
      PROVE  work[v].repeat \in Ids \ {n}
  BY <1>1, <1>4, <1>5 DEF Begun
<1>6. ASSUME work[v].pc = "start", NEW i \in work[v].expired
      PROVE  /\ row'[i].status # "absent" /\ ~row'[i].retained /\ row'[i].submitted_at < work[v].begun
             /\ \A j \in Ids : (Exists(i)' /\ Exists(j)' /\ row'[j].submitted_at <= row'[i].submitted_at)
                               => j \in work[v].expired
  <2>1. i \in Ids /\ i # n
    BY <1>1, <1>4, <1>6 DEF Begun
  <2>2. /\ row[i].status # "absent" /\ ~row[i].retained /\ row[i].submitted_at < work[v].begun
        /\ \A j \in Ids : (Exists(i) /\ Exists(j) /\ row[j].submitted_at <= row[i].submitted_at)
                          => j \in work[v].expired
    BY <1>6 DEF Begun
  <2>3. ASSUME NEW j \in Ids, Exists(i)', Exists(j)', row'[j].submitted_at <= row'[i].submitted_at
        PROVE  j \in work[v].expired
    <3>1. Exists(i) /\ row[i].submitted_at < work[w].begun
      BY <1>2, <1>3, <2>1, <2>3
    <3>2. j # n
      BY <1>1, <1>2, <2>1, <2>3, <3>1
    <3> QED
      BY <1>2, <2>1, <2>2, <2>3, <3>1, <3>2
  <2> QED
    BY <1>2, <2>1, <2>2, <2>3
<1>7. ASSUME work[v].pc = "start"
      PROVE  /\ work[v].repeat # NoOne => row[work[v].repeat].submitted_at < work[v].begun
             /\ work[v].begun \in 1..clock
  BY <1>7 DEF Begun
<1>8. ASSUME work[v].pc \in {"begin", "start"}, work[v].repeat # NoOne
      PROVE  row'[work[v].repeat] = row[work[v].repeat] /\ row[work[v].repeat].status # "absent"
  BY <1>2, <1>5, <1>8 DEF Begun
<1> QED
  BY <1>1, <1>6, <1>7, <1>8 DEF Begun

\* A request outside the start of a run is of no concern.
LEMMA NotBegun ==
  ASSUME NEW v \in Workers, work'[v].pc \notin {"begin", "start"} PROVE Begun(v)'
  BY DEF Begun

\* A probe, and the beginning of the transaction.
LEMMA BeginStarts ==
  ASSUME Types, Types', RowsInv, NEW w \in Workers, Begun(w),
         \/ \E r \in Replicas, repeat \in Ids \union {NoOne} : start_detached(w, r, repeat)
         \/ begin_start(w) /\ RowsAge
  PROVE  Begun(w)'
<1>0. work[w] \in Works /\ work \in [Workers -> Works] /\ row \in [Ids -> Rows] /\ clock \in Nat
  BY DEF Types, WorkTypes, RowTypes
<1>1. ASSUME NEW r \in Replicas, NEW repeat \in Ids \union {NoOne}, start_detached(w, r, repeat)
      PROVE  Begun(w)'
  <2>1. work'[w] = At(r, "begin", NoOne, repeat) /\ row' = row
        /\ (repeat # NoOne => row[repeat].status = "settled")
    BY <1>0, <1>1 DEF start_detached
  <2>2. work'[w].pc = "begin" /\ work'[w].repeat = repeat
    BY <2>1 DEF At
  <2> QED
    BY <2>1, <2>2 DEF Begun
<1>2. ASSUME begin_start(w), RowsAge PROVE Begun(w)'
  <2> DEFINE old == {i \in Ids : Exists(i) /\ ~row[i].retained}
  <2>1. /\ work'[w] = [work[w] EXCEPT !.pc = "start", !.begun = clock + 1, !.expired = old]
        /\ clock' = clock + 1 /\ work[w].pc = "begin"
    BY <1>0, <1>2 DEF begin_start
  <2>2. /\ work'[w].pc = "start" /\ work'[w].begun = clock + 1 /\ work'[w].expired = old
        /\ work'[w].repeat = work[w].repeat /\ work[w].repeat \in Ids \union {NoOne}
    BY <1>0, <2>1 DEF Works
  <2>3. ASSUME NEW i \in Ids
        PROVE  /\ row'[i].submitted_at = row[i].submitted_at /\ (row'[i].retained => row[i].retained)
               /\ row'[i].status = "absent" => row[i].status = "absent"
               /\ Exists(i)' => Exists(i)
               /\ row[i].submitted_at \in Nat /\ row[i].submitted_at < clock + 1
    <3>1. Ages(row[i], row'[i]) /\ row[i] \in Rows /\ row[i].submitted_at <= clock
      BY <1>0, <1>2 DEF RowsAge, RowsInv, Dated
    <3> QED
      BY <1>0, <3>1 DEF Ages, Exists, Rows
  <2>4. ASSUME NEW i \in old, NEW j \in Ids, Exists(j), row[j].submitted_at <= row[i].submitted_at
        PROVE  j \in old
    BY <2>4 DEF RowsInv, InOrder
  <2>5. ASSUME NEW i \in old
        PROVE  /\ row'[i].status # "absent" /\ ~row'[i].retained /\ row'[i].submitted_at < clock + 1
               /\ \A j \in Ids : (Exists(i)' /\ Exists(j)' /\ row'[j].submitted_at <= row'[i].submitted_at)
                                 => j \in old
    BY <2>3, <2>4, <2>5 DEF Exists
  <2>6. work[w].repeat # NoOne => row[work[w].repeat].status # "absent"
    BY <2>1 DEF Begun
  <2>7. work[w].repeat # NoOne => /\ row'[work[w].repeat].status # "absent"
                                  /\ row'[work[w].repeat].submitted_at < clock + 1
    BY <2>2, <2>3, <2>6
  <2> HIDE DEF old
  <2> QED
    BY <1>0, <2>1, <2>2, <2>5, <2>7 DEF Begun
<1> QED
  BY <1>1, <1>2

\* KeyInv is preserved.
LEMMA KeyStep == ASSUME Types, Types', KeyInv, [Next]_vars PROVE KeyInv'
<1> USE DEF KeyInv
<1>0. clock \in Nat /\ clock' \in Nat /\ work \in [Workers -> Works]
  BY DEF Types, RowTypes, WorkTypes
<1>1. ASSUME NEW v \in Workers
      PROVE  \/ work'[v] = work[v] \/ work'[v].pc \notin {"begin", "start"}
             \/ \E r \in Replicas, repeat \in Ids \union {NoOne} : start_detached(v, r, repeat)
             \/ begin_start(v)
  <2>1. ASSUME NEW w \in Workers,
               \/ \E r \in Replicas, repeat \in Ids \union {NoOne} : start_detached(w, r, repeat)
               \/ begin_start(w) \/ start_or_reuse(w) \/ RunStep(w),
               v # w
        PROVE  work'[v] = work[v]
    BY <1>0, <2>1 DEF start_detached, begin_start, start_or_reuse, Return, RunStep, hold_claim, RecordLate, EndRun
  <2>2. ASSUME start_or_reuse(v) PROVE work'[v].pc \notin {"begin", "start"}
    <3>1. work'[v] = Idle \/ \E i \in Ids : work'[v] = At(work[v].at, "claimed", i, NoOne)
      BY <1>0, <2>2 DEF start_or_reuse, Return
    <3>2. \A r, p, i, q : At(r, p, i, q).pc = p
      BY DEF At
    <3> QED
      BY <3>1, <3>2 DEF Idle
  <2>3. ASSUME RunStep(v) PROVE work'[v].pc \notin {"begin", "start"}
    <3>1. work[v] \in Works
      BY <1>0
    <3>2. Idle.pc = "idle"
      BY DEF Idle, At
    <3> QED
      BY <1>0, <2>3, <3>1, <3>2 DEF RunStep, hold_claim, RecordLate, EndRun, Works
  <2>4. ASSUME NEW i \in Ids, LeaseLapses(i) \/ RetentionPasses(i) PROVE work' = work
    BY <2>4 DEF LeaseLapses, RetentionPasses
  <2>5. ASSUME NEW r \in Replicas, begin_drain(r) \/ DrainStep(r) \/ Crash(r) \/ Restart(r) \/ ReconcileStep(r)
        PROVE  work'[v] = work[v] \/ work'[v].pc \notin {"begin", "start"}
    <3>1. CASE Gone(r)
      <4>1. work'[v] = Idle \/ work'[v] = work[v]
        BY <3>1 DEF Gone
      <4> QED
        BY <4>1 DEF Idle, At
    <3>2. CASE ~Gone(r)
      BY <2>5, <3>2 DEF begin_drain, DrainStep, interrupt_remaining, interrupt_held_claim, Exit, Crash, Restart,
        ReconcileStep, list_abandoned, StopReconciler, reconcile_abandoned_batch
    <3> QED
      BY <3>1, <3>2
  <2>6. CASE UNCHANGED vars
    BY <2>6 DEF vars
  <2> QED
    BY <2>1, <2>2, <2>3, <2>4, <2>5, <2>6, ReplicasAssumption DEF Next
<1>2. clock <= clock'
  <2>1. ASSUME NEW w \in Workers,
               \/ \E r \in Replicas, repeat \in Ids \union {NoOne} : start_detached(w, r, repeat)
               \/ begin_start(w) \/ start_or_reuse(w) \/ RunStep(w)
        PROVE  clock' = clock \/ clock' = clock + 1
    BY <2>1 DEF start_detached, begin_start, start_or_reuse, RunStep, hold_claim, RecordLate, EndRun
  <2>2. ASSUME NEW i \in Ids, LeaseLapses(i) \/ RetentionPasses(i) PROVE clock' = clock
    BY <2>2 DEF LeaseLapses, RetentionPasses
  <2>3. ASSUME NEW r \in Replicas, begin_drain(r) \/ DrainStep(r) \/ Crash(r) \/ Restart(r) \/ ReconcileStep(r)
        PROVE  clock' = clock
    BY <2>3 DEF begin_drain, DrainStep, interrupt_remaining, interrupt_held_claim, Exit, Crash,
      Gone, Restart, ReconcileStep, list_abandoned, StopReconciler, reconcile_abandoned_batch
  <2>4. clock' = clock \/ clock' = clock + 1
    BY <2>1, <2>2, <2>3, ReplicasAssumption DEF Next, vars
  <2> QED
    BY <1>0, <2>4
<1>3. CASE RowsAge
  <2>1. RowsInv'
    BY <1>2, <1>3, AgingKeepsOrder
  <2>2. ASSUME NEW v \in Workers PROVE Begun(v)'
    BY <1>0, <1>1, <1>2, <1>3, <2>2, AgingKeepsBegun, NotBegun, BeginStarts
  <2> QED
    BY <2>1, <2>2
<1>4. ASSUME NEW w \in Workers, NEW n \in Ids, Inserts(w, n), ~RowsAge PROVE KeyInv'
  <2>1. RowsInv'
    BY <1>4, InsertKeepsOrder
  <2>2. ASSUME NEW v \in Workers PROVE Begun(v)'
    <3>1. ~begin_start(v)
      <4>1. ASSUME begin_start(v) PROVE clock' = clock + 1
        BY <4>1 DEF begin_start
      <4> QED
        BY <1>0, <1>4, <4>1 DEF Inserts
    <3> QED
      BY <1>1, <1>4, <2>2, <3>1, InsertKeepsBegun, NotBegun, BeginStarts
  <2> QED
    BY <2>1, <2>2
<1> QED
  BY <1>3, <1>4, EveryStepAges

\* KeyInv holds initially.
LEMMA KeyInitially == ASSUME Init PROVE KeyInv
<1> DEFINE first == CHOOSE j \in Ids : TRUE
<1>1. ASSUME NEW s PROVE /\ Earlier(s).status = s /\ Earlier(s).live = FALSE /\ Earlier(s).submitted_at = 0
                         /\ Earlier(s).repeat_of = NoOne /\ Earlier(s).retained = (s = "settled")
  BY DEF Earlier
<1>2. ASSUME NEW i \in Ids
      PROVE  /\ row[i].status \in {"settled", "absent"} /\ row[i].submitted_at = 0 /\ ~row[i].live
             /\ row[i].status = "settled" => i = first
             /\ row[i].retained <=> row[i].status = "settled"
             /\ row[i].repeat_of = NoOne
  BY <1>1, <1>2 DEF Init
<1> HIDE DEF first
<1>3. clock = 0 /\ \A i \in Ids : Exists(i) <=> row[i].status = "settled"
  BY <1>2 DEF Init, Exists
<1>4. RowsInv
  BY <1>2, <1>3 DEF RowsInv, Kept, Dated, Quiet, Distinct, InOrder, LastRuns, Unfinished, Repeats, RepeatsOnce
<1>5. \A w \in Workers : work[w].pc = "idle"
  BY DEF Init, Idle, At
<1> QED
  BY <1>4, <1>5 DEF KeyInv, Begun

\* However starts of one key interleave on any number of replicas, at most one
\* retained execution is unfinished, and no execution is repeated twice
\* (start_or_reuse decides under the key's lock from rows as of its beginning).
THEOREM StartsAreRetrySafe == Spec => []OneRunPerKey
<1>1. Init => Types /\ KeyInv
  BY TypesInitially, KeyInitially
<1>2. Types /\ KeyInv /\ [Next]_vars => (Types /\ KeyInv)'
  BY TypesStep, KeyStep
<1>3. ASSUME Types, KeyInv PROVE OneRunPerKey
  <2>1. TypeOK
    BY <1>3 DEF Types, RowTypes, WorkTypes, ProcessTypes, Rows, Works, TypeOK
  <2>2. ASSUME NEW i \in Ids, NEW j \in Ids,
               \A k \in {i, j} : row[k].status \in {"running", "waiting"} /\ row[k].retained
        PROVE  i = j
    <3>1. Unfinished(i) /\ Unfinished(j) /\ Exists(i) /\ Exists(j)
      BY <2>2 DEF Unfinished, Exists
    <3>2. row[i].submitted_at <= row[j].submitted_at /\ row[j].submitted_at <= row[i].submitted_at
      BY <1>3, <3>1 DEF KeyInv, RowsInv, LastRuns
    <3>3. row[i].submitted_at \in Nat /\ row[j].submitted_at \in Nat
      BY <1>3 DEF Types, RowTypes, Rows
    <3>4. row[i].submitted_at = row[j].submitted_at
      BY <3>2, <3>3
    <3> QED
      BY <1>3, <3>1, <3>4 DEF KeyInv, RowsInv, Distinct
  <2>3. RepeatsOnce
    BY <1>3 DEF KeyInv, RowsInv
  <2> QED
    BY <2>1, <2>2, <2>3 DEF OneRunPerKey, RepeatsOnce
<1>4. Types /\ KeyInv => OneRunPerKey
  BY <1>3
<1> QED
  BY <1>1, <1>2, <1>4, PTL DEF Spec
=============================================================================

------------------------ MODULE EvidenceOutboxProofs ------------------------
(***************************************************************************)
(* EvidenceOutbox: what a settled row means, for any number of drains and  *)
(* any retry budget.                                                       *)
(***************************************************************************)
EXTENDS EvidenceOutbox, FiniteSetTheorems, TLAPS

\* The drains that saw a transient failure and have not recorded it yet.
Unrecorded == {d \in Drains : pc[d] = "transient"}

\* A drain's verdict about the row is backed by what happened at the sink.
VerdictsBacked ==
  \A d \in Drains : (pc[d] = "shipped" => received) /\ (pc[d] = "refused" => refused)

\* A drain's snapshot is at most as far as the row.
SnapshotsBehind == \A d \in Drains : seen[d] <= attempt_count

\* attempt_count and the unrecorded failures together never overstate the
\* failures of the sink.  This is what makes a stale snapshot harmless.
FailuresCovered ==
  ~refused => attempt_count + Cardinality(Unrecorded) <= transients

OutboxInv ==
  /\ TypeOK /\ VerdictsBacked /\ SnapshotsBehind /\ FailuresCovered
  /\ DeliveredWasReceived /\ GivesUpWithCause

\* The unrecorded failures of finitely many drains can be counted.
LEMMA UnrecordedFinite ==
  IsFiniteSet(Unrecorded) /\ Cardinality(Unrecorded) \in Nat
BY OutboxAssumption, FS_Subset, FS_CardinalityType DEF OutboxAssumption, Unrecorded

\* A drain that moves to a place other than "transient" leaves the unrecorded
\* failures, if it was one of them.
LEMMA LeavesUnrecorded ==
  ASSUME pc \in [Drains -> {"idle", "batched", "shipped", "transient", "refused"}],
         NEW d \in Drains, NEW next, next # "transient", Goto(d, next)
  PROVE  /\ Cardinality(Unrecorded)' \in Nat
         /\ Cardinality(Unrecorded)' =
              IF pc[d] = "transient" THEN Cardinality(Unrecorded) - 1 ELSE Cardinality(Unrecorded)
<1>1. Unrecorded' = Unrecorded \ {d}
  BY DEF Unrecorded, Goto
<1>2. d \in Unrecorded <=> pc[d] = "transient"
  BY DEF Unrecorded
<1> QED BY <1>1, <1>2, UnrecordedFinite, FS_RemoveElement, FS_CardinalityType

\* A drain whose export fails transiently joins them.
LEMMA JoinsUnrecorded ==
  ASSUME pc \in [Drains -> {"idle", "batched", "shipped", "transient", "refused"}],
         NEW d \in Drains, pc[d] = "batched", Goto(d, "transient")
  PROVE  Cardinality(Unrecorded)' = Cardinality(Unrecorded) + 1
<1>1. Unrecorded' = Unrecorded \union {d} /\ d \notin Unrecorded
  BY DEF Unrecorded, Goto
<1> QED BY <1>1, UnrecordedFinite, FS_AddElement

\* A row that was never enqueued is no one's business.
LEMMA OutboxInitially == Init => OutboxInv
<1> SUFFICES ASSUME Init PROVE OutboxInv
  OBVIOUS
<1>1. TypeOK
  <2>1. due \in BOOLEAN /\ received \in BOOLEAN /\ refused \in BOOLEAN
    BY DEF Init
  <2> QED BY <2>1 DEF Init, TypeOK, Active, Terminal
<1>2. Unrecorded = {}
  BY DEF Init, Unrecorded
<1>3. FailuresCovered
  BY <1>2, FS_EmptySet DEF Init, FailuresCovered
<1> QED BY <1>1, <1>3
     DEF Init, OutboxInv, VerdictsBacked, SnapshotsBehind, DeliveredWasReceived, GivesUpWithCause

\* Every step of a drain, and of time, keeps the invariant.
LEMMA OutboxInductive == OutboxInv /\ [Next]_vars => OutboxInv'
<1> SUFFICES ASSUME OutboxInv, [Next]_vars PROVE OutboxInv'
  OBVIOUS
<1> USE OutboxAssumption DEF OutboxInv, Active, Terminal
<1>1. CASE enqueue
  <2>1. Unrecorded' = Unrecorded
    BY <1>1 DEF enqueue, Unrecorded
  <2> QED BY <1>1, <2>1
       DEF enqueue, ghosts, TypeOK, VerdictsBacked, SnapshotsBehind, FailuresCovered,
           DeliveredWasReceived, GivesUpWithCause
<1>2. CASE BackoffPasses
  <2>1. Unrecorded' = Unrecorded
    BY <1>2 DEF BackoffPasses, Unrecorded
  <2> QED BY <1>2, <2>1
       DEF BackoffPasses, ghosts, TypeOK, VerdictsBacked, SnapshotsBehind, FailuresCovered,
           DeliveredWasReceived, GivesUpWithCause
<1>3. ASSUME NEW d \in Drains, dequeue_ready(d) PROVE OutboxInv'
  <2>1. Cardinality(Unrecorded)' = Cardinality(Unrecorded)
    BY <1>3, LeavesUnrecorded, UnrecordedFinite DEF dequeue_ready, TypeOK
  <2> QED BY <1>3, <2>1
       DEF dequeue_ready, Goto, row, ghosts, TypeOK, VerdictsBacked, SnapshotsBehind,
           FailuresCovered, DeliveredWasReceived, GivesUpWithCause
<1>4. ASSUME NEW d \in Drains, dispatch_one(d) PROVE OutboxInv'
  <2>a. received' \in BOOLEAN /\ (received => received')
    BY <1>4 DEF dispatch_one, TypeOK
  <2>b. refused' \in BOOLEAN /\ (refused => refused')
    BY <1>4 DEF dispatch_one, TypeOK
  <2>c. transients' \in Nat /\ attempts' \in Nat /\ transients' >= transients
    <3>1. transients' = transients \/ transients' = transients + 1
      BY <1>4, Zenon DEF dispatch_one
    <3>2. attempts' = attempts \/ attempts' = attempts + 1
      BY <1>4, Zenon DEF dispatch_one
    <3> QED BY <3>1, <3>2 DEF TypeOK
  <2>d. pc' \in [Drains -> {"idle", "batched", "shipped", "transient", "refused"}]
    BY <1>4 DEF dispatch_one, Goto, TypeOK
  <2>e. /\ status' = status /\ attempt_count' = attempt_count /\ due' = due
        /\ seen' = seen /\ faults' = faults
    BY <1>4 DEF dispatch_one, row
  <2>1. SnapshotsBehind' /\ DeliveredWasReceived' /\ GivesUpWithCause'
    BY <2>a, <2>b, <2>c, <2>e
       DEF TypeOK, OutboxAssumption, SnapshotsBehind, DeliveredWasReceived, GivesUpWithCause
  <2>2. TypeOK'
    BY <2>a, <2>b, <2>c, <2>d, <2>e DEF TypeOK
  <2>3. VerdictsBacked'
    BY <1>4 DEF dispatch_one, Goto, TypeOK, VerdictsBacked
  <2>4. FailuresCovered'
    <3>1. CASE transients' = transients + 1 /\ Goto(d, "transient") /\ refused' = refused
      BY <1>4, <3>1, JoinsUnrecorded, UnrecordedFinite DEF dispatch_one, row, TypeOK, FailuresCovered
    <3>2. CASE transients' = transients /\ Goto(d, "shipped") /\ refused' = refused
      BY <1>4, <3>2, LeavesUnrecorded, UnrecordedFinite DEF dispatch_one, row, TypeOK, FailuresCovered
    <3>3. CASE refused'
      BY <3>3 DEF FailuresCovered
    <3> QED BY <1>4, <3>1, <3>2, <3>3 DEF dispatch_one
  <2> QED BY <2>1, <2>2, <2>3, <2>4
<1>5. ASSUME NEW d \in Drains, mark_delivered(d) PROVE OutboxInv'
  <2>1. Cardinality(Unrecorded)' = Cardinality(Unrecorded)
    BY <1>5, LeavesUnrecorded, UnrecordedFinite DEF mark_delivered, TypeOK
  <2> QED BY <1>5, <2>1
       DEF mark_delivered, Goto, ghosts, TypeOK, VerdictsBacked, SnapshotsBehind,
           FailuresCovered, DeliveredWasReceived, GivesUpWithCause
<1>6. ASSUME NEW d \in Drains, mark_failed(d) PROVE OutboxInv'
  <2>1. Cardinality(Unrecorded)' \in Nat /\ Cardinality(Unrecorded) \in Nat
    BY <1>6, LeavesUnrecorded, UnrecordedFinite DEF mark_failed, TypeOK
  <2>2. pc[d] = "transient" => Cardinality(Unrecorded)' = Cardinality(Unrecorded) - 1
    BY <1>6, LeavesUnrecorded, UnrecordedFinite DEF mark_failed, TypeOK
  <2>3. pc[d] = "refused" => refused
    BY DEF VerdictsBacked
  <2>4. ASSUME ~refused
        PROVE  pc[d] = "transient" /\ transients >= attempt_count + 1 /\ seen[d] <= attempt_count
    BY <1>6, <2>1, <2>2, <2>3, <2>4 DEF mark_failed, FailuresCovered, SnapshotsBehind, TypeOK
  <2>5. TypeOK'
    <3>1. due' \in BOOLEAN
      BY <1>6 DEF mark_failed, row, TypeOK
    <3> QED BY <1>6, <3>1 DEF mark_failed, NewStatus, Goto, row, ghosts, TypeOK
  <2>6. VerdictsBacked' /\ SnapshotsBehind'
    BY <1>6 DEF mark_failed, Goto, row, ghosts, TypeOK, VerdictsBacked, SnapshotsBehind
  <2>7. FailuresCovered'
    BY <1>6, <2>1, <2>2, <2>4 DEF mark_failed, row, ghosts, TypeOK, FailuresCovered
  <2>8. DeliveredWasReceived' /\ GivesUpWithCause'
    BY <1>6, <2>4 DEF mark_failed, NewStatus, row, ghosts, TypeOK, OutboxAssumption,
                      DeliveredWasReceived, GivesUpWithCause
  <2> QED BY <2>5, <2>6, <2>7, <2>8
<1>7. ASSUME NEW d \in Drains, Fault(d) PROVE OutboxInv'
  <2>1. Cardinality(Unrecorded)' \in Nat /\ Cardinality(Unrecorded)' <= Cardinality(Unrecorded)
    BY <1>7, LeavesUnrecorded, UnrecordedFinite DEF Fault, TypeOK
  <2>2. FailuresCovered'
    BY <1>7, <2>1, UnrecordedFinite DEF Fault, row, TypeOK, FailuresCovered
  <2> QED BY <1>7, <2>2
       DEF Fault, Goto, row, TypeOK, VerdictsBacked, SnapshotsBehind,
           DeliveredWasReceived, GivesUpWithCause
<1>8. CASE UNCHANGED vars
  <2>1. Unrecorded' = Unrecorded
    BY <1>8 DEF vars, Unrecorded
  <2> QED BY <1>8, <2>1
       DEF vars, TypeOK, VerdictsBacked, SnapshotsBehind, FailuresCovered,
           DeliveredWasReceived, GivesUpWithCause
<1> QED BY <1>1, <1>2, <1>3, <1>4, <1>5, <1>6, <1>7, <1>8 DEF Next, DrainStep

\* A row that reads `delivered` reached its sink, whichever drain marked it.
THEOREM DeliveryIsReal == Spec => []DeliveredWasReceived
<1>1. OutboxInv => DeliveredWasReceived
  BY DEF OutboxInv
<1> QED BY <1>1, OutboxInitially, OutboxInductive, PTL DEF Spec

\* No drain gives evidence up early, however stale the count in its batch.
THEOREM DeadLettersHaveCause == Spec => []GivesUpWithCause
<1>1. OutboxInv => GivesUpWithCause
  BY DEF OutboxInv
<1> QED BY <1>1, OutboxInitially, OutboxInductive, PTL DEF Spec

\* A settled row stays as it is, whatever a stale drain still does.
THEOREM SettledRowsStay == Spec => SettledStays
<1>1. [Next]_vars =>
        [(status \in Terminal) => status' = status /\ attempt_count' = attempt_count]_vars
  BY DEF Next, vars, row, ghosts, Active, Terminal, enqueue, BackoffPasses, DrainStep,
    dequeue_ready, dispatch_one, mark_delivered, mark_failed, Fault
<1> QED
  BY <1>1, PTL DEF Spec, SettledStays

(***************************************************************************)
(* The retry budget.  A drain tests it against the count in its batch.     *)
(* Once the count has reached MAX_ATTEMPTS - 1, whoever reads the row      *)
(* afresh settles it, so only drains that still hold an older batch take   *)
(* the count further: one each.  Exports that no count tells of yet are    *)
(* those of the drains that are busy with the row.                         *)
(***************************************************************************)
Busy    == {d \in Registered : pc[d] # "idle"}
Batched == {d \in Registered : pc[d] = "batched"}
Stale   == {d \in Registered : pc[d] # "idle" /\ seen[d] < MAX_ATTEMPTS - 1}

\* Before the row is settled, exports are counted or in progress, and stale
\* batches have room.
ExportsCounted == attempts + Cardinality(Batched) <= attempt_count + Cardinality(Busy) + faults
StaleHaveRoom == attempt_count + Cardinality(Stale) <= MAX_ATTEMPTS + Cardinality(Registered) - 2

\* Settled or not, the exports still to come are within the bound.
ExportsBounded ==
  attempts + Cardinality(Batched) <= faults + MAX_ATTEMPTS + 2 * (Cardinality(Registered) - 1)

OverrunInv ==
  /\ TypeOK
  /\ status = "absent" => \A d \in Drains : pc[d] = "idle"
  /\ \A d \in Drains : pc[d] = "transient" => d \in Registered
  /\ Registered = {} => attempts = 0
  /\ Registered # {} => ExportsBounded /\ (status \notin Terminal => ExportsCounted /\ StaleHaveRoom)

\* The drains with an exporter can be counted, and so can any of them.
LEMMA Counted ==
  /\ IsFiniteSet(Registered) /\ Cardinality(Registered) \in Nat
  /\ Registered # {} => Cardinality(Registered) >= 1
  /\ \A S \in SUBSET Registered :
       IsFiniteSet(S) /\ Cardinality(S) \in Nat /\ Cardinality(S) <= Cardinality(Registered)
<1>1. IsFiniteSet(Registered)
  BY OutboxAssumption, FS_Subset DEF OutboxAssumption
<1>2. Cardinality(Registered) \in Nat /\ (Registered # {} => Cardinality(Registered) # 0)
  BY <1>1, FS_CardinalityType, FS_EmptySet
<1>3. ASSUME NEW S \in SUBSET Registered
      PROVE  IsFiniteSet(S) /\ Cardinality(S) \in Nat /\ Cardinality(S) <= Cardinality(Registered)
  BY <1>1, FS_Subset, FS_CardinalityType
<1> QED BY <1>1, <1>2, <1>3

\* One drain more or less.
LEMMA OneOff ==
  ASSUME NEW S \in SUBSET Registered, NEW d
  PROVE  /\ Cardinality(S \ {d}) = IF d \in S THEN Cardinality(S) - 1 ELSE Cardinality(S)
         /\ d \in Registered \ S => Cardinality(S \union {d}) = Cardinality(S) + 1
<1>1. IsFiniteSet(S) /\ Cardinality(S) \in Nat
  BY Counted
<1>2. CASE d \in S
  BY <1>1, <1>2, FS_RemoveElement
<1>3. CASE d \notin S
  <2>1. S \ {d} = S
    BY <1>3
  <2> QED BY <1>1, <1>3, <2>1, FS_AddElement
<1> QED BY <1>2, <1>3

\* A drain that is done with the row leaves all three groups.
LEMMA LeavesGroups ==
  ASSUME TypeOK, NEW d \in Drains, Goto(d, "idle"), seen' = seen
  PROVE  Busy' = Busy \ {d} /\ Batched' = Batched \ {d} /\ Stale' = Stale \ {d}
  BY OutboxAssumption DEF OutboxAssumption, TypeOK, Goto, Busy, Batched, Stale

\* The budget's invariant holds before the row exists.
LEMMA OverrunInitially == Init => OverrunInv
<1> SUFFICES ASSUME Init PROVE OverrunInv
  OBVIOUS
<1>1. TypeOK
  BY OutboxInitially DEF OutboxInv
<1>2. Busy = {} /\ Batched = {} /\ Stale = {}
  BY OutboxAssumption DEF OutboxAssumption, Init, Busy, Batched, Stale
<1>3. Registered # {} => ExportsBounded /\ ExportsCounted /\ StaleHaveRoom
  BY <1>2, Counted, FS_EmptySet, OutboxAssumption
     DEF OutboxAssumption, Init, ExportsBounded, ExportsCounted, StaleHaveRoom
<1> QED BY <1>1, <1>3 DEF Init, OverrunInv

\* Every step keeps it.
LEMMA OverrunInductive == OverrunInv /\ TypeOK' /\ [Next]_vars => OverrunInv'
<1> SUFFICES ASSUME OverrunInv, TypeOK', [Next]_vars PROVE OverrunInv'
  OBVIOUS
<1> USE DEF Active, Terminal
<1>0. /\ Busy \in SUBSET Registered /\ Batched \in SUBSET Registered /\ Stale \in SUBSET Registered
      /\ Busy' \in SUBSET Registered /\ Batched' \in SUBSET Registered /\ Stale' \in SUBSET Registered
  BY DEF Busy, Batched, Stale
<1>a. /\ Cardinality(Busy) \in Nat /\ Cardinality(Batched) \in Nat /\ Cardinality(Stale) \in Nat
      /\ Cardinality(Busy') \in Nat /\ Cardinality(Batched') \in Nat /\ Cardinality(Stale') \in Nat
      /\ Cardinality(Busy') <= Cardinality(Registered) /\ Cardinality(Stale') <= Cardinality(Registered)
      /\ Cardinality(Registered) \in Nat
  BY <1>0, Counted
<1>b. /\ attempts \in Nat /\ attempt_count \in Nat /\ faults \in Nat /\ MAX_ATTEMPTS \in Nat
      /\ attempts' \in Nat /\ attempt_count' \in Nat /\ faults' \in Nat
  BY OutboxAssumption DEF OverrunInv, TypeOK, OutboxAssumption
<1>c. \A d \in Drains : pc'[d] = "transient" => d \in Registered
  <2>1. CASE \E d \in Drains : dispatch_one(d)
    BY <2>1 DEF dispatch_one, Goto, OverrunInv, TypeOK
  <2>2. ASSUME NEW d \in Drains, Goto(d, "batched") \/ Goto(d, "idle")
        PROVE  \A e \in Drains : pc'[e] = "transient" => e \in Registered
    BY <2>2 DEF Goto, OverrunInv, TypeOK
  <2>3. CASE enqueue \/ BackoffPasses \/ UNCHANGED vars
    BY <2>3 DEF enqueue, BackoffPasses, vars, OverrunInv
  <2> QED BY <2>1, <2>2, <2>3 DEF Next, DrainStep, dequeue_ready, mark_delivered, mark_failed, Fault
<1>1. CASE enqueue \/ BackoffPasses \/ UNCHANGED vars
  <2>1. UNCHANGED <<attempt_count, pc, seen, attempts, faults>>
    BY <1>1 DEF enqueue, BackoffPasses, vars, ghosts
  <2>2. Busy' = Busy /\ Batched' = Batched /\ Stale' = Stale
    BY <2>1 DEF Busy, Batched, Stale
  <2>3. (status' = "absent" => status = "absent") /\ (status' \notin Terminal => status \notin Terminal)
    BY <1>1 DEF enqueue, BackoffPasses, vars
  <2> QED BY <1>c, <2>1, <2>2, <2>3 DEF OverrunInv, ExportsBounded, ExportsCounted, StaleHaveRoom
<1>2. ASSUME NEW d \in Drains, dequeue_ready(d) PROVE OverrunInv'
  <2>1. /\ pc[d] = "idle" /\ status \in Active /\ UNCHANGED <<status, attempt_count, attempts, faults>>
        /\ pc' = [pc EXCEPT ![d] = "batched"] /\ seen' = [seen EXCEPT ![d] = attempt_count]
    BY <1>2 DEF dequeue_ready, Goto, row, ghosts
  <2>2. CASE d \notin Registered
    <3>1. Busy' = Busy /\ Batched' = Batched /\ Stale' = Stale
      BY <2>1, <2>2, OutboxAssumption DEF OutboxAssumption, OverrunInv, TypeOK, Busy, Batched, Stale
    <3> QED BY <1>c, <2>1, <3>1 DEF OverrunInv, ExportsBounded, ExportsCounted, StaleHaveRoom
  <2>3. CASE d \in Registered
    <3>1. /\ Busy' = Busy \union {d} /\ Batched' = Batched \union {d}
          /\ d \notin Busy /\ d \notin Batched
          /\ attempt_count >= MAX_ATTEMPTS - 1 => Stale' = Stale
      BY <1>b, <2>1, <2>3, OutboxAssumption DEF OutboxAssumption, OverrunInv, TypeOK, Busy, Batched, Stale
    <3>2. Cardinality(Busy') = Cardinality(Busy) + 1 /\ Cardinality(Batched') = Cardinality(Batched) + 1
      BY <1>0, <2>3, <3>1, OneOff
    <3>3. ExportsCounted /\ StaleHaveRoom
      BY <2>1, <2>3 DEF OverrunInv
    <3>4. ExportsCounted'
      BY <1>a, <1>b, <2>1, <3>2, <3>3 DEF ExportsCounted
    <3>5. StaleHaveRoom'
      BY <1>a, <1>b, <2>1, <3>1, <3>3 DEF StaleHaveRoom
    <3>6. ExportsBounded'
      BY <1>a, <1>b, <3>4, <3>5 DEF ExportsBounded, ExportsCounted, StaleHaveRoom
    <3> QED BY <1>c, <2>1, <2>3, <3>4, <3>5, <3>6 DEF OverrunInv
  <2> QED BY <2>2, <2>3
<1>3. ASSUME NEW d \in Drains, dispatch_one(d) PROVE OverrunInv'
  <2>1. pc[d] = "batched" /\ UNCHANGED <<status, attempt_count, seen, faults>> /\ status # "absent"
    BY <1>3 DEF dispatch_one, row, OverrunInv
  <2>2. PICK next \in {"shipped", "transient", "refused"} : pc' = [pc EXCEPT ![d] = next]
    BY <1>3 DEF dispatch_one, Goto
  <2>3. Busy' = Busy /\ Stale' = Stale
    BY <2>1, <2>2, OutboxAssumption DEF OutboxAssumption, OverrunInv, TypeOK, Busy, Stale
  <2>4. CASE d \notin Registered
    <3>1. Batched' = Batched
      BY <2>1, <2>2, <2>4, OutboxAssumption DEF OutboxAssumption, OverrunInv, TypeOK, Batched
    <3>2. attempts' = attempts
      BY <1>3, <2>4 DEF dispatch_one
    <3> QED BY <1>c, <2>1, <2>3, <3>1, <3>2 DEF OverrunInv, ExportsBounded, ExportsCounted, StaleHaveRoom
  <2>5. CASE d \in Registered
    <3>1. Batched' = Batched \ {d} /\ d \in Batched
      BY <2>1, <2>2, <2>5, OutboxAssumption DEF OutboxAssumption, OverrunInv, TypeOK, Batched
    <3>2. Cardinality(Batched') = Cardinality(Batched) - 1
      BY <1>0, <3>1, OneOff
    <3>3. attempts' = attempts + 1
      BY <1>3, <2>5 DEF dispatch_one
    <3>4. ExportsBounded'
      BY <1>a, <1>b, <2>1, <2>5, <3>2, <3>3 DEF OverrunInv, ExportsBounded
    <3>5. status' \notin Terminal => ExportsCounted' /\ StaleHaveRoom'
      BY <1>a, <1>b, <2>1, <2>3, <2>5, <3>2, <3>3 DEF OverrunInv, ExportsCounted, StaleHaveRoom
    <3> QED BY <1>c, <2>1, <2>5, <3>4, <3>5 DEF OverrunInv
  <2> QED BY <2>4, <2>5
<1>4. ASSUME NEW d \in Drains, mark_delivered(d) PROVE OverrunInv'
  <2>1. /\ pc[d] = "shipped" /\ Goto(d, "idle") /\ UNCHANGED <<attempt_count, seen, attempts, faults>>
        /\ status # "absent" /\ status' \in Terminal
    BY <1>4 DEF mark_delivered, ghosts, OverrunInv, TypeOK
  <2>2. Batched' = Batched
    BY <2>1, LeavesGroups DEF OverrunInv, Batched
  <2> QED BY <1>c, <2>1, <2>2 DEF OverrunInv, ExportsBounded
<1>5. ASSUME NEW d \in Drains, mark_failed(d) PROVE OverrunInv'
  <2>1. /\ pc[d] \in {"transient", "refused"} /\ Goto(d, "idle") /\ UNCHANGED <<seen, attempts, faults>>
        /\ status # "absent" /\ status' # "absent"
    BY <1>5 DEF mark_failed, NewStatus, row, ghosts, OverrunInv
  <2>2. Busy' = Busy \ {d} /\ Batched' = Batched /\ Stale' = Stale \ {d}
    BY <2>1, LeavesGroups DEF OverrunInv, Batched
  <2>3. Registered = {} => attempts' = 0
    BY <2>1 DEF OverrunInv
  <2>4. Registered # {} => ExportsBounded'
    BY <2>1, <2>2 DEF OverrunInv, ExportsBounded
  <2>5. ASSUME Registered # {}, status' \notin Terminal PROVE ExportsCounted' /\ StaleHaveRoom'
    <3>1. /\ status \notin Terminal /\ attempt_count' = attempt_count + 1
          /\ pc[d] = "transient" /\ ~(seen[d] + 1 >= MAX_ATTEMPTS)
      BY <1>5, <2>1, <2>5 DEF mark_failed, NewStatus, row, OverrunInv, TypeOK
    <3>2. d \in Registered
      BY <3>1 DEF OverrunInv
    <3>3. d \in Busy /\ d \in Stale
      BY <1>b, <3>1, <3>2, OutboxAssumption DEF OutboxAssumption, Busy, Stale, OverrunInv, TypeOK
    <3>4. Cardinality(Busy') = Cardinality(Busy) - 1 /\ Cardinality(Stale') = Cardinality(Stale) - 1
      BY <1>0, <2>2, <3>3, OneOff
    <3> QED BY <1>a, <1>b, <2>1, <2>2, <2>5, <3>1, <3>4 DEF OverrunInv, ExportsCounted, StaleHaveRoom
  <2> QED BY <1>c, <2>1, <2>3, <2>4, <2>5 DEF OverrunInv
<1>6. ASSUME NEW d \in Drains, Fault(d) PROVE OverrunInv'
  <2>1. /\ Goto(d, "idle") /\ UNCHANGED <<status, attempt_count, seen, attempts>> /\ faults' = faults + 1
        /\ pc[d] # "idle" /\ status # "absent"
    BY <1>6 DEF Fault, row, OverrunInv
  <2>2. Busy' = Busy \ {d} /\ Batched' = Batched \ {d} /\ Stale' = Stale \ {d}
    BY <2>1, LeavesGroups DEF OverrunInv
  <2>3. /\ Cardinality(Busy') = (IF d \in Busy THEN Cardinality(Busy) - 1 ELSE Cardinality(Busy))
        /\ Cardinality(Batched') = (IF d \in Batched THEN Cardinality(Batched) - 1 ELSE Cardinality(Batched))
        /\ Cardinality(Stale') = (IF d \in Stale THEN Cardinality(Stale) - 1 ELSE Cardinality(Stale))
    BY <1>0, <2>2, OneOff
  <2> QED BY <1>a, <1>b, <1>c, <2>1, <2>3 DEF OverrunInv, ExportsBounded, ExportsCounted, StaleHaveRoom
<1> QED BY <1>1, <1>2, <1>3, <1>4, <1>5, <1>6 DEF Next, DrainStep

\* Drains that share a row export it at most twice more per further drain than
\* the retry budget allows one, plus once per fault.
THEOREM OutboxOverrunBounded == Spec => []OverrunBounded
<1>1. OverrunInv => OverrunBounded
  <2> SUFFICES ASSUME OverrunInv PROVE OverrunBounded
    OBVIOUS
  <2>1. Batched \in SUBSET Registered
    BY DEF Batched
  <2>2. Cardinality(Batched) \in Nat /\ Cardinality(Registered) \in Nat /\ MAX_ATTEMPTS \in Nat
    BY <2>1, Counted, OutboxAssumption DEF OutboxAssumption
  <2> QED BY <2>2 DEF OverrunInv, ExportsBounded, OverrunBounded, TypeOK
<1>2. OutboxInv => TypeOK
  BY DEF OutboxInv
<1> QED BY <1>1, <1>2, OutboxInitially, OutboxInductive, OverrunInitially, OverrunInductive, PTL DEF Spec
=============================================================================

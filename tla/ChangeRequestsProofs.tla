------------------------ MODULE ChangeRequestsProofs ------------------------
(***************************************************************************)
(* Proofs about change requests, for any handlers, approvers, quorums and  *)
(* number of out-of-band edits.                                            *)
(***************************************************************************)
EXTENDS ChangeRequests, FiniteSetTheorems, TLAPS

\* Where a handler holds the claim on the execution.
Executing == {"claimed", "fresh", "minted", "ran", "failing"}

\* Statuses of a request whose side effect cannot have started.
Unclaimed == {"absent", "pending", "approved", "denied"}

Ceremony == Locations \ {"idle", "captured", "proposed", "opened", "burned"}

(***************************************************************************)
(* The inductive invariant, in parts.                                      *)
(***************************************************************************)
\* A handler in the ceremony acts for an approver.
ActsForApprover == \A h \in Handlers : pc[h] \in Ceremony => who[h] \in Approvers

\* The `executing` row belongs to one handler.
ClaimExclusive ==
  /\ \A h \in Handlers : pc[h] \in Executing => status = "executing"
  /\ \A h, k \in Handlers : pc[h] \in Executing /\ pc[k] \in Executing => h = k

\* Effects and secrets come no earlier than the handler's position says.
EffectsInOrder ==
  /\ status \in Unclaimed => effects = <<>> /\ secret = "none"
  /\ \A h \in Handlers :
       /\ pc[h] \in {"claimed", "fresh"} => effects = <<>>
       /\ pc[h] \in {"claimed", "fresh", "minted"} => secret = "none"
       /\ pc[h] = "ran" /\ intent.secretive => secret # "none"
  /\ EffectAtMostOnce /\ ExecutedKeepsSecret

ApproveAudited == \E row \in audit : row.event = "approve" /\ row.names # {}

\* An execution rests on a full quorum and a recorded approval.
ApprovedFirst ==
  /\ status \in {"approved", "executing", "executed", "failed"} /\ intent.required > 1
       => intent.required <= Cardinality(ledger)
  /\ status \in {"executing", "executed", "failed"} => ApproveAudited
  /\ \A h \in Handlers : pc[h] = "audited" => ApproveAudited

\* A transaction that began too late means the expiry has passed.
QuorumOpen ==
  /\ status = "absent" => ledger = {}
  /\ \A h \in Handlers : pc[h] = "approve_begun" /\ ~open[h] => expired
  /\ QuorumNeverStalls

AtMost(etag, version) == etag # NoEtag => etag <= version

\* Witness, claim and target are in version order.
VersionsInOrder ==
  /\ AtMost(intent.etag, target)
  /\ \A h \in Handlers :
       /\ AtMost(witness[h], target)
       /\ pc[h] \in Executing =>
            /\ claimedAt # NoEtag /\ claimedAt <= target
            /\ AtMost(intent.etag, claimedAt)
       /\ pc[h] = "fresh" /\ intent.etag # NoEtag => claimedAt = intent.etag
  /\ NoStaleWrite

\* One retrieval burns the secret and it alone may deliver it.
BurnedOnce ==
  /\ SecretDeliveredOnce
  /\ secret # "retrieved" => delivered = 0
  /\ \A h \in Handlers : pc[h] = "burned" => secret = "retrieved" /\ delivered = 0
  /\ \A h, k \in Handlers : pc[h] = "burned" /\ pc[k] = "burned" => h = k

ChangeInv ==
  /\ TypeOK /\ ActsForApprover /\ ClaimExclusive /\ EffectsInOrder
  /\ ApprovedFirst /\ QuorumOpen /\ VersionsInOrder /\ BurnedOnce

USE DEF ChangeInv, Goto, Return, Arrive, Elsewhere, Audited, Approve
USE DEF request, clocks, locals, ghosts

(***************************************************************************)
(* Init and each part of the invariant, one action or group of actions at  *)
(* a time.                                                                 *)
(***************************************************************************)
\* Appending keeps a sequence over its set.
LEMMA AppendType ==
  ASSUME NEW S, NEW s \in Seq(S), NEW x \in S
  PROVE  Append(s, x) \in Seq(S)
  OBVIOUS

\* A request that was not proposed yet satisfies every part.
LEMMA ChangeInit == Init => ChangeInv
<1> SUFFICES ASSUME Init PROVE ChangeInv
  OBVIOUS
<1> USE ChangeAssumption DEF Init
<1>1. TypeOK
  <2>1. effects \in Seq(0 .. MaxEdits) /\ claimedAt \in Etags /\ delivered \in Nat
    BY DEF Etags
  <2>2. expired \in BOOLEAN /\ lapsed \in BOOLEAN /\ cooled \in BOOLEAN
    OBVIOUS
  <2> QED
    BY <2>1, <2>2 DEF TypeOK, Statuses, Intents, Etags, AuditRows, Locations
<1>2. ActsForApprover /\ ClaimExclusive /\ BurnedOnce
  BY DEF ActsForApprover, Ceremony, ClaimExclusive, Executing, BurnedOnce, SecretDeliveredOnce
<1>3. EffectsInOrder /\ ApprovedFirst
  BY DEF EffectsInOrder, EffectAtMostOnce, ExecutedKeepsSecret, ApprovedFirst, Unclaimed
<1>4. QuorumOpen
  BY DEF QuorumOpen, QuorumNeverStalls
<1>5. VersionsInOrder
  BY DEF VersionsInOrder, AtMost, NoStaleWrite, Executing
<1> QED
  BY <1>1, <1>2, <1>3, <1>4, <1>5

\* What the handlers keep, and everything else.
LocalsTyped ==
  /\ pc \in [Handlers -> Locations] /\ who \in [Handlers -> Approvers \union {Nobody}]
  /\ open \in [Handlers -> BOOLEAN] /\ witness \in [Handlers -> Etags]

RowTyped ==
  /\ status \in Statuses /\ intent \in Intents
  /\ approver \in Approvers \union {Nobody} /\ ledger \subseteq Approvers
  /\ secret \in {"none", "stored", "retrieved"} /\ audit \subseteq AuditRows

RestTyped ==
  /\ expired \in BOOLEAN /\ lapsed \in BOOLEAN /\ cooled \in BOOLEAN
  /\ target \in 0 .. MaxEdits
  /\ effects \in Seq(0 .. MaxEdits) /\ claimedAt \in Etags /\ delivered \in Nat

\* A handler that moves on, returns or arrives keeps its types.
LEMMA MoveTyped ==
  ASSUME LocalsTyped, NEW h \in Handlers
  PROVE  /\ \A next \in Locations : Goto(h, next) => LocalsTyped'
         /\ Return(h) => LocalsTyped'
         /\ \A a \in Approvers, next \in Locations : Arrive(h, a, next) => LocalsTyped'
<1> USE DEF LocalsTyped
<1>1. ASSUME NEW next \in Locations, Goto(h, next) PROVE LocalsTyped'
  BY <1>1
<1>2. ASSUME Return(h) PROVE LocalsTyped'
  <2>1. "idle" \in Locations /\ NoEtag \in Etags
    BY DEF Locations, Etags
  <2> QED BY <1>2, <2>1
<1>3. ASSUME NEW a \in Approvers, NEW next \in Locations, Arrive(h, a, next) PROVE LocalsTyped'
  BY <1>3
<1> QED BY <1>1, <1>2, <1>3

\* Every step keeps the handlers' types.
LEMMA LocalsStep == ASSUME LocalsTyped, target \in 0 .. MaxEdits, Next PROVE LocalsTyped'
<1>0. /\ "idle" \in Locations /\ "captured" \in Locations /\ "proposed" \in Locations
      /\ "approving" \in Locations /\ "approve_begun" \in Locations /\ "counted" \in Locations
      /\ "approved" \in Locations /\ "audited" \in Locations /\ "claimed" \in Locations
      /\ "fresh" \in Locations /\ "minted" \in Locations /\ "ran" \in Locations
      /\ "attributing" \in Locations /\ "failing" \in Locations /\ "failed" \in Locations
      /\ "denying" \in Locations /\ "deny_begun" \in Locations /\ "denied" \in Locations
      /\ "opened" \in Locations /\ "burned" \in Locations
  BY DEF Locations
<1> HIDE DEF Goto, Return, Arrive
<1>1. ASSUME NEW h \in Handlers, capture_target_etag(h) PROVE LocalsTyped'
  <2>1. target \in Etags /\ NoEtag \in Etags
    BY DEF Etags
  <2> QED BY <1>0, <1>1, <2>1 DEF capture_target_etag, LocalsTyped
<1>2. ASSUME NEW h \in Handlers, begin(h) PROVE LocalsTyped'
  BY <1>0, <1>2 DEF begin, LocalsTyped
<1>3. ASSUME NEW h \in Handlers,
             propose(h) \/ try_approve(h) \/ record_approval(h) \/ audit_approved(h)
      PROVE  LocalsTyped'
  BY <1>0, <1>3, MoveTyped DEF propose, try_approve, record_approval, audit_approved
<1>4. ASSUME NEW h \in Handlers,
             try_begin_execution(h) \/ recheck_target(h) \/ execute_with_target_etag(h)
      PROVE  LocalsTyped'
  BY <1>0, <1>4, MoveTyped DEF try_begin_execution, recheck_target, execute_with_target_etag
<1>5. ASSUME NEW h \in Handlers,
             store_execution_secret(h) \/ mark_executed(h) \/ mark_failed(h) \/ try_deny(h)
      PROVE  LocalsTyped'
  BY <1>0, <1>5, MoveTyped DEF store_execution_secret, mark_executed, mark_failed, try_deny
<1>6. ASSUME NEW h \in Handlers, retrieve_secret_core(h) \/ try_burn_secret(h)
      PROVE  LocalsTyped'
  BY <1>0, <1>6, MoveTyped DEF retrieve_secret_core, try_burn_secret
<1>7. ASSUME NEW h \in Handlers,
             \/ propose_core(h) \/ audit_counted(h) \/ audit_executed(h) \/ Abort(h)
             \/ mark_failed_audited(h) \/ audit_denied(h) \/ deliver_secret(h)
      PROVE  LocalsTyped'
  <2>1. Return(h)
    BY <1>7 DEF propose_core, audit_counted, audit_executed, Abort, mark_failed_audited,
                audit_denied, deliver_secret
  <2> QED BY <2>1, MoveTyped
<1>8. ASSUME NEW h \in Handlers, NEW a \in Approvers,
             approve_and_execute_core(h, a) \/ deny_core(h, a)
      PROVE  LocalsTyped'
  BY <1>0, <1>8, MoveTyped DEF approve_and_execute_core, deny_core
<1>9. CASE EditTarget \/ ClocksPass
  BY <1>9 DEF EditTarget, ClocksPass, LocalsTyped
<1> QED
  BY <1>1, <1>2, <1>3, <1>4, <1>5, <1>6, <1>7, <1>8, <1>9 DEF Next, HandlerStep

\* Every step keeps the row's types; an audit names approvers only.
LEMMA RowStep == ASSUME ActsForApprover, RowTyped, LocalsTyped, Next PROVE RowTyped'
<1> HIDE DEF Goto, Return, Arrive
<1>0. \A h \in Handlers : pc[h] \in Ceremony => {who[h]} \subseteq Approvers
  BY DEF ActsForApprover
<1>1. ASSUME UNCHANGED request PROVE RowTyped'
  BY <1>1 DEF RowTyped
<1>2. ASSUME NEW event \in {"propose", "approve", "deny", "execute", "failure"},
             NEW names \in SUBSET Approvers, Audited(event, names),
             UNCHANGED <<status, intent, approver, ledger, secret>>
      PROVE  RowTyped'
  BY <1>2 DEF RowTyped, AuditRows
<1> HIDE DEF Audited
<1>3. ASSUME NEW h \in Handlers, propose(h) PROVE RowTyped'
  <2>1. intent' \in Intents
    BY <1>3 DEF propose, RowTyped, LocalsTyped, Intents
  <2> QED BY <1>3, <2>1 DEF propose, RowTyped, Statuses
<1>4. ASSUME NEW h \in Handlers, propose_core(h) PROVE RowTyped'
  <2>1. Audited("propose", {}) /\ UNCHANGED <<status, intent, approver, ledger, secret>>
    BY <1>4 DEF propose_core
  <2> QED BY <1>2, <2>1
<1>5. ASSUME NEW h \in Handlers, try_approve(h) PROVE RowTyped'
  <2>1. who[h] \in Approvers
    BY <1>0, <1>5 DEF try_approve, Ceremony, Locations
  <2> QED BY <1>5, <2>1 DEF try_approve, RowTyped, Statuses
<1>6. ASSUME NEW h \in Handlers, record_approval(h) PROVE RowTyped'
  <2>1. who[h] \in Approvers
    BY <1>0, <1>6 DEF record_approval, Ceremony, Locations
  <2>2. status' \in {status, "approved"} /\ approver' \in {approver, who[h]}
    BY <1>6 DEF record_approval
  <2>3. ledger' \subseteq ledger \union {who[h]} /\ UNCHANGED <<intent, secret, audit>>
    BY <1>6 DEF record_approval
  <2> QED BY <2>1, <2>2, <2>3 DEF RowTyped, Statuses
<1>7. ASSUME NEW h \in Handlers,
             audit_counted(h) \/ audit_approved(h) \/ mark_failed_audited(h) \/ audit_denied(h)
      PROVE  RowTyped'
  <2>1. {who[h]} \in SUBSET Approvers
    BY <1>0, <1>7 DEF audit_counted, audit_approved, mark_failed_audited, audit_denied,
                      Ceremony, Locations
  <2> QED
    BY <1>2, <1>7, <2>1 DEF audit_counted, audit_approved, mark_failed_audited, audit_denied
<1>8. ASSUME NEW h \in Handlers, audit_executed(h) PROVE RowTyped'
  <2>1. {who[h]} \subseteq Approvers /\ ledger \subseteq Approvers
    BY <1>0, <1>8 DEF audit_executed, Ceremony, Locations, RowTyped
  <2> QED BY <1>2, <1>8, <2>1 DEF audit_executed
<1>9. ASSUME NEW h \in Handlers, try_begin_execution(h) \/ mark_executed(h) \/ mark_failed(h)
      PROVE  RowTyped'
  BY <1>9 DEF try_begin_execution, mark_executed, mark_failed, RowTyped, Statuses
<1>10. ASSUME NEW h \in Handlers, store_execution_secret(h) \/ try_burn_secret(h)
       PROVE  RowTyped'
  BY <1>10 DEF store_execution_secret, try_burn_secret, RowTyped
<1>11. ASSUME NEW h \in Handlers, try_deny(h) PROVE RowTyped'
  <2>1. who[h] \in Approvers
    BY <1>0, <1>11 DEF try_deny, Ceremony, Locations
  <2> QED BY <1>11, <2>1 DEF try_deny, RowTyped, Statuses
<1>12. ASSUME NEW h \in Handlers,
              \/ capture_target_etag(h) \/ begin(h) \/ recheck_target(h) \/ Abort(h)
              \/ execute_with_target_etag(h) \/ retrieve_secret_core(h) \/ deliver_secret(h)
              \/ \E a \in Approvers : approve_and_execute_core(h, a) \/ deny_core(h, a)
       PROVE  RowTyped'
  BY <1>1, <1>12 DEF capture_target_etag, begin, recheck_target, Abort,
    execute_with_target_etag, retrieve_secret_core, deliver_secret, approve_and_execute_core,
    deny_core
<1>13. CASE EditTarget \/ ClocksPass
  BY <1>1, <1>13 DEF EditTarget, ClocksPass
<1> QED
  BY <1>3, <1>4, <1>5, <1>6, <1>7, <1>8, <1>9, <1>10, <1>11, <1>12, <1>13
  DEF Next, HandlerStep

\* Every step keeps the types of clocks, target and ghosts.
LEMMA RestStep == ASSUME RestTyped, Next PROVE RestTyped'
<1> USE ChangeAssumption
<1> HIDE DEF Goto, Return, Arrive
<1>1. ASSUME UNCHANGED <<clocks, target, effects, claimedAt, delivered>> PROVE RestTyped'
  BY <1>1 DEF RestTyped
<1>2. ASSUME NEW h \in Handlers, try_begin_execution(h) PROVE RestTyped'
  BY <1>2 DEF try_begin_execution, RestTyped, Etags
<1>3. ASSUME NEW h \in Handlers, execute_with_target_etag(h) PROVE RestTyped'
  <2>1. effects' \in {effects, Append(effects, target)}
    BY <1>3 DEF execute_with_target_etag
  <2>2. effects' \in Seq(0 .. MaxEdits)
    BY <2>1, AppendType DEF RestTyped
  <2> QED BY <1>3, <2>2 DEF execute_with_target_etag, RestTyped
<1>4. ASSUME NEW h \in Handlers, deliver_secret(h) PROVE RestTyped'
  BY <1>4 DEF deliver_secret, RestTyped
<1>5. CASE EditTarget
  BY <1>5 DEF EditTarget, RestTyped
<1>6. CASE ClocksPass
  BY <1>6 DEF ClocksPass, RestTyped
<1>7. ASSUME NEW h \in Handlers,
             \/ capture_target_etag(h) \/ propose(h) \/ propose_core(h) \/ begin(h)
             \/ try_approve(h) \/ record_approval(h) \/ audit_counted(h) \/ audit_approved(h)
             \/ recheck_target(h) \/ store_execution_secret(h) \/ mark_executed(h)
      PROVE  RestTyped'
  BY <1>1, <1>7 DEF capture_target_etag, propose, propose_core, begin, try_approve,
    record_approval, audit_counted, audit_approved, recheck_target, store_execution_secret,
    mark_executed
<1>8. ASSUME NEW h \in Handlers,
             \/ audit_executed(h) \/ mark_failed(h) \/ mark_failed_audited(h) \/ try_deny(h)
             \/ audit_denied(h) \/ retrieve_secret_core(h) \/ try_burn_secret(h) \/ Abort(h)
             \/ \E a \in Approvers : approve_and_execute_core(h, a) \/ deny_core(h, a)
      PROVE  RestTyped'
  BY <1>1, <1>8 DEF audit_executed, mark_failed, mark_failed_audited, try_deny, audit_denied,
    retrieve_secret_core, try_burn_secret, Abort, approve_and_execute_core, deny_core
<1> QED
  BY <1>2, <1>3, <1>4, <1>5, <1>6, <1>7, <1>8 DEF Next, HandlerStep

\* Every step keeps the types.
LEMMA TypeStep == ASSUME ChangeInv, Next PROVE TypeOK'
<1>1. LocalsTyped /\ RowTyped /\ RestTyped /\ target \in 0 .. MaxEdits
  BY DEF TypeOK, LocalsTyped, RowTyped, RestTyped
<1>2. LocalsTyped' /\ RowTyped' /\ RestTyped'
  BY <1>1, LocalsStep, RowStep, RestStep
<1> QED
  BY <1>2 DEF TypeOK, LocalsTyped, RowTyped, RestTyped

\* Only a principal that passed the frozen bar enters the ceremony.
LEMMA ActorStep == ASSUME ChangeInv, Next PROVE ActsForApprover'
<1>0. pc \in [Handlers -> Locations] /\ who \in [Handlers -> Approvers \union {Nobody}]
  BY DEF TypeOK
<1> USE <1>0 DEF ActsForApprover, Ceremony, Locations
<1>1. ASSUME NEW h \in Handlers,
             capture_target_etag(h) \/ propose(h) \/ propose_core(h)
      PROVE  ActsForApprover'
  BY <1>1 DEF capture_target_etag, propose, propose_core
<1>2. ASSUME NEW h \in Handlers,
             begin(h) \/ try_approve(h) \/ record_approval(h) \/ audit_counted(h) \/
             audit_approved(h)
      PROVE  ActsForApprover'
  <2>1. CASE begin(h)
    BY <2>1 DEF begin
  <2>2. CASE try_approve(h)
    BY <2>2 DEF try_approve
  <2>3. CASE record_approval(h)
    BY <2>3 DEF record_approval
  <2>4. CASE audit_counted(h)
    BY <2>4 DEF audit_counted
  <2>5. CASE audit_approved(h)
    BY <2>5 DEF audit_approved
  <2> QED
    BY <1>2, <2>1, <2>2, <2>3, <2>4, <2>5
<1>3. ASSUME NEW h \in Handlers,
             try_begin_execution(h) \/ recheck_target(h) \/ execute_with_target_etag(h) \/
             store_execution_secret(h) \/ mark_executed(h)
      PROVE  ActsForApprover'
  <2>1. CASE try_begin_execution(h)
    BY <2>1 DEF try_begin_execution
  <2>2. CASE recheck_target(h)
    BY <2>2 DEF recheck_target
  <2>3. CASE execute_with_target_etag(h)
    BY <2>3 DEF execute_with_target_etag, Witnessed
  <2>4. CASE store_execution_secret(h)
    BY <2>4 DEF store_execution_secret
  <2>5. CASE mark_executed(h)
    BY <2>5 DEF mark_executed
  <2> QED
    BY <1>3, <2>1, <2>2, <2>3, <2>4, <2>5
<1>4. ASSUME NEW h \in Handlers,
             audit_executed(h) \/ mark_failed(h) \/ mark_failed_audited(h) \/ Abort(h)
      PROVE  ActsForApprover'
  <2>1. CASE audit_executed(h)
    BY <2>1 DEF audit_executed
  <2>2. CASE mark_failed(h)
    BY <2>2 DEF mark_failed
  <2>3. CASE mark_failed_audited(h)
    BY <2>3 DEF mark_failed_audited
  <2>4. CASE Abort(h)
    BY <2>4 DEF Abort
  <2> QED
    BY <1>4, <2>1, <2>2, <2>3, <2>4
<1>5. ASSUME NEW h \in Handlers,
             try_deny(h) \/ audit_denied(h)
      PROVE  ActsForApprover'
  BY <1>5 DEF try_deny, audit_denied
<1>6. ASSUME NEW h \in Handlers,
             retrieve_secret_core(h) \/ try_burn_secret(h) \/ deliver_secret(h)
      PROVE  ActsForApprover'
  BY <1>6 DEF retrieve_secret_core, try_burn_secret, deliver_secret
<1>7. ASSUME NEW h \in Handlers, NEW a \in Approvers,
             approve_and_execute_core(h, a) \/ deny_core(h, a)
      PROVE  ActsForApprover'
  BY <1>7 DEF approve_and_execute_core, deny_core
<1>8. CASE EditTarget \/ ClocksPass
  BY <1>8 DEF EditTarget, ClocksPass
<1> QED
  BY <1>1, <1>2, <1>3, <1>4, <1>5, <1>6, <1>7, <1>8 DEF Next, HandlerStep

\* try_begin_execution moves one handler past the claim.
LEMMA ClaimStep == ASSUME ChangeInv, Next PROVE ClaimExclusive'
<1>0. pc \in [Handlers -> Locations]
  BY DEF TypeOK
<1> USE <1>0 DEF ClaimExclusive, Executing
<1>1. ASSUME NEW h \in Handlers,
             capture_target_etag(h) \/ propose(h) \/ propose_core(h)
      PROVE  ClaimExclusive'
  BY <1>1 DEF capture_target_etag, propose, propose_core
<1>2. ASSUME NEW h \in Handlers,
             begin(h) \/ try_approve(h) \/ record_approval(h) \/ audit_counted(h) \/
             audit_approved(h)
      PROVE  ClaimExclusive'
  <2>1. CASE begin(h)
    BY <2>1 DEF begin
  <2>2. CASE try_approve(h)
    BY <2>2 DEF try_approve
  <2>3. CASE record_approval(h)
    BY <2>3 DEF record_approval
  <2>4. CASE audit_counted(h)
    BY <2>4 DEF audit_counted
  <2>5. CASE audit_approved(h)
    BY <2>5 DEF audit_approved
  <2> QED
    BY <1>2, <2>1, <2>2, <2>3, <2>4, <2>5
<1>3. ASSUME NEW h \in Handlers,
             try_begin_execution(h) \/ recheck_target(h) \/ execute_with_target_etag(h) \/
             store_execution_secret(h) \/ mark_executed(h)
      PROVE  ClaimExclusive'
  <2>1. CASE try_begin_execution(h)
    BY <2>1 DEF try_begin_execution
  <2>2. CASE recheck_target(h)
    BY <2>2 DEF recheck_target
  <2>3. CASE execute_with_target_etag(h)
    BY <2>3 DEF execute_with_target_etag, Witnessed
  <2>4. CASE store_execution_secret(h)
    BY <2>4 DEF store_execution_secret
  <2>5. CASE mark_executed(h)
    BY <2>5 DEF mark_executed
  <2> QED
    BY <1>3, <2>1, <2>2, <2>3, <2>4, <2>5
<1>4. ASSUME NEW h \in Handlers,
             audit_executed(h) \/ mark_failed(h) \/ mark_failed_audited(h) \/ Abort(h)
      PROVE  ClaimExclusive'
  <2>1. CASE audit_executed(h)
    BY <2>1 DEF audit_executed
  <2>2. CASE mark_failed(h)
    BY <2>2 DEF mark_failed
  <2>3. CASE mark_failed_audited(h)
    BY <2>3 DEF mark_failed_audited
  <2>4. CASE Abort(h)
    BY <2>4 DEF Abort
  <2> QED
    BY <1>4, <2>1, <2>2, <2>3, <2>4
<1>5. ASSUME NEW h \in Handlers,
             try_deny(h) \/ audit_denied(h)
      PROVE  ClaimExclusive'
  BY <1>5 DEF try_deny, audit_denied
<1>6. ASSUME NEW h \in Handlers,
             retrieve_secret_core(h) \/ try_burn_secret(h) \/ deliver_secret(h)
      PROVE  ClaimExclusive'
  BY <1>6 DEF retrieve_secret_core, try_burn_secret, deliver_secret
<1>7. ASSUME NEW h \in Handlers, NEW a \in Approvers,
             approve_and_execute_core(h, a) \/ deny_core(h, a)
      PROVE  ClaimExclusive'
  BY <1>7 DEF approve_and_execute_core, deny_core
<1>8. CASE EditTarget \/ ClocksPass
  BY <1>8 DEF EditTarget, ClocksPass
<1> QED
  BY <1>1, <1>2, <1>3, <1>4, <1>5, <1>6, <1>7, <1>8 DEF Next, HandlerStep

\* The claim's holder performs the effect once and stores the secret before
\* the row reads executed.
LEMMA EffectStep == ASSUME ChangeInv, Next PROVE EffectsInOrder'
<1> USE ChangeAssumption DEF TypeOK, EffectsInOrder, EffectAtMostOnce, ExecutedKeepsSecret, Unclaimed,
    ClaimExclusive, Executing, Intents
<1>1. ASSUME NEW h \in Handlers,
             capture_target_etag(h) \/ propose(h) \/ propose_core(h)
      PROVE  EffectsInOrder'
  BY <1>1 DEF capture_target_etag, propose, propose_core
<1>2. ASSUME NEW h \in Handlers,
             begin(h) \/ try_approve(h) \/ record_approval(h) \/ audit_counted(h) \/
             audit_approved(h)
      PROVE  EffectsInOrder'
  <2>1. CASE begin(h)
    BY <2>1 DEF begin
  <2>2. CASE try_approve(h)
    BY <2>2 DEF try_approve
  <2>3. CASE record_approval(h)
    BY <2>3 DEF record_approval
  <2>4. CASE audit_counted(h)
    BY <2>4 DEF audit_counted
  <2>5. CASE audit_approved(h)
    BY <2>5 DEF audit_approved
  <2> QED
    BY <1>2, <2>1, <2>2, <2>3, <2>4, <2>5
<1>3. ASSUME NEW h \in Handlers,
             try_begin_execution(h) \/ recheck_target(h) \/ execute_with_target_etag(h) \/
             store_execution_secret(h) \/ mark_executed(h)
      PROVE  EffectsInOrder'
  <2>1. CASE try_begin_execution(h)
    BY <2>1 DEF try_begin_execution
  <2>2. CASE recheck_target(h)
    BY <2>2 DEF recheck_target
  <2>3. CASE execute_with_target_etag(h)
    BY <2>3 DEF execute_with_target_etag, Witnessed
  <2>4. CASE store_execution_secret(h)
    BY <2>4 DEF store_execution_secret
  <2>5. CASE mark_executed(h)
    BY <2>5 DEF mark_executed
  <2> QED
    BY <1>3, <2>1, <2>2, <2>3, <2>4, <2>5
<1>4. ASSUME NEW h \in Handlers,
             audit_executed(h) \/ mark_failed(h) \/ mark_failed_audited(h) \/ Abort(h)
      PROVE  EffectsInOrder'
  <2>1. CASE audit_executed(h)
    BY <2>1 DEF audit_executed
  <2>2. CASE mark_failed(h)
    BY <2>2 DEF mark_failed
  <2>3. CASE mark_failed_audited(h)
    BY <2>3 DEF mark_failed_audited
  <2>4. CASE Abort(h)
    BY <2>4 DEF Abort
  <2> QED
    BY <1>4, <2>1, <2>2, <2>3, <2>4
<1>5. ASSUME NEW h \in Handlers,
             try_deny(h) \/ audit_denied(h)
      PROVE  EffectsInOrder'
  BY <1>5 DEF try_deny, audit_denied
<1>6. ASSUME NEW h \in Handlers,
             retrieve_secret_core(h) \/ try_burn_secret(h) \/ deliver_secret(h)
      PROVE  EffectsInOrder'
  BY <1>6 DEF retrieve_secret_core, try_burn_secret, deliver_secret
<1>7. ASSUME NEW h \in Handlers, NEW a \in Approvers,
             approve_and_execute_core(h, a) \/ deny_core(h, a)
      PROVE  EffectsInOrder'
  BY <1>7 DEF approve_and_execute_core, deny_core
<1>8. CASE EditTarget \/ ClocksPass
  BY <1>8 DEF EditTarget, ClocksPass
<1> QED
  BY <1>1, <1>2, <1>3, <1>4, <1>5, <1>6, <1>7, <1>8 DEF Next, HandlerStep

\* The row lock makes the quorum count exact, and the audit precedes the claim.
LEMMA ApprovalStep == ASSUME ChangeInv, Next PROVE ApprovedFirst'
<1> USE ChangeAssumption DEF TypeOK, ApprovedFirst, ApproveAudited, ClaimExclusive, Executing, Intents
<1>1. ASSUME NEW h \in Handlers,
             capture_target_etag(h) \/ propose(h) \/ propose_core(h)
      PROVE  ApprovedFirst'
  BY <1>1 DEF capture_target_etag, propose, propose_core
<1>2. ASSUME NEW h \in Handlers,
             begin(h) \/ try_approve(h)
      PROVE  ApprovedFirst'
  <2>1. CASE begin(h)
    BY <2>1 DEF begin
  <2>2. CASE try_approve(h)
    BY <2>2 DEF try_approve
  <2> QED
    BY <1>2, <2>1, <2>2
<1>3. ASSUME NEW h \in Handlers, record_approval(h) PROVE ApprovedFirst'
  BY <1>3 DEF record_approval
<1>4. ASSUME NEW h \in Handlers, audit_counted(h) PROVE ApprovedFirst'
  BY <1>4 DEF audit_counted
<1>5. ASSUME NEW h \in Handlers, audit_approved(h) PROVE ApprovedFirst'
  <2>1. [event |-> "approve", names |-> {who[h]}] \in audit'
    BY <1>5 DEF audit_approved
  <2>2. ApproveAudited'
    BY <2>1 DEF ApproveAudited
  <2> QED
    BY <1>5, <2>2 DEF audit_approved
<1>6. ASSUME NEW h \in Handlers,
             try_begin_execution(h) \/ recheck_target(h) \/ execute_with_target_etag(h) \/
             store_execution_secret(h) \/ mark_executed(h)
      PROVE  ApprovedFirst'
  BY <1>6 DEF try_begin_execution, recheck_target, execute_with_target_etag,
    store_execution_secret, mark_executed, Witnessed
<1>7. ASSUME NEW h \in Handlers,
             audit_executed(h) \/ mark_failed(h) \/ mark_failed_audited(h) \/ Abort(h)
      PROVE  ApprovedFirst'
  BY <1>7 DEF audit_executed, mark_failed, mark_failed_audited, Abort
<1>8. ASSUME NEW h \in Handlers,
             try_deny(h) \/ audit_denied(h)
      PROVE  ApprovedFirst'
  BY <1>8 DEF try_deny, audit_denied
<1>9. ASSUME NEW h \in Handlers,
             retrieve_secret_core(h) \/ try_burn_secret(h) \/ deliver_secret(h)
      PROVE  ApprovedFirst'
  BY <1>9 DEF retrieve_secret_core, try_burn_secret, deliver_secret
<1>10. ASSUME NEW h \in Handlers, NEW a \in Approvers,
             approve_and_execute_core(h, a) \/ deny_core(h, a)
      PROVE  ApprovedFirst'
  BY <1>10 DEF approve_and_execute_core, deny_core
<1>11. CASE EditTarget \/ ClocksPass
  BY <1>11 DEF EditTarget, ClocksPass
<1> QED
  BY <1>1, <1>2, <1>3, <1>4, <1>5, <1>6, <1>7, <1>8, <1>9, <1>10, <1>11 DEF Next,
    HandlerStep

\* A tally completed by a transaction that began in time approves the request.
LEMMA QuorumStep == ASSUME ChangeInv, Next PROVE QuorumOpen'
<1> USE ChangeAssumption DEF TypeOK, QuorumOpen, QuorumNeverStalls, Intents
<1>1. ASSUME NEW h \in Handlers, propose(h) PROVE QuorumOpen'
  <2>1. Cardinality(ledger') = 0
    BY <1>1, FS_EmptySet DEF propose
  <2>2. intent' \in Intents /\ intent'.required = intent.required
    BY <1>1 DEF propose
  <2> QED
    BY <1>1, <2>1, <2>2 DEF propose
<1>2. ASSUME NEW h \in Handlers,
             capture_target_etag(h) \/ propose_core(h)
      PROVE  QuorumOpen'
  <2>1. CASE capture_target_etag(h)
    BY <2>1 DEF capture_target_etag
  <2>2. CASE propose_core(h)
    BY <2>2 DEF propose_core
  <2> QED
    BY <1>2, <2>1, <2>2
<1>3. ASSUME NEW h \in Handlers,
             begin(h) \/ try_approve(h) \/ record_approval(h)
      PROVE  QuorumOpen'
  <2>1. CASE begin(h)
    BY <2>1 DEF begin
  <2>2. CASE try_approve(h)
    BY <2>2 DEF try_approve
  <2>3. CASE record_approval(h)
    BY <2>3 DEF record_approval
  <2> QED
    BY <1>3, <2>1, <2>2, <2>3
<1>4. ASSUME NEW h \in Handlers,
             audit_counted(h) \/ audit_approved(h)
      PROVE  QuorumOpen'
  <2>1. CASE audit_counted(h)
    BY <2>1 DEF audit_counted
  <2>2. CASE audit_approved(h)
    BY <2>2 DEF audit_approved
  <2> QED
    BY <1>4, <2>1, <2>2
<1>5. ASSUME NEW h \in Handlers,
             try_begin_execution(h) \/ recheck_target(h) \/ execute_with_target_etag(h) \/
             store_execution_secret(h) \/ mark_executed(h)
      PROVE  QuorumOpen'
  BY <1>5 DEF try_begin_execution, recheck_target, execute_with_target_etag,
    store_execution_secret, mark_executed, Witnessed
<1>6. ASSUME NEW h \in Handlers,
             audit_executed(h) \/ mark_failed(h)
      PROVE  QuorumOpen'
  BY <1>6 DEF audit_executed, mark_failed
<1>7. ASSUME NEW h \in Handlers,
             mark_failed_audited(h) \/ Abort(h)
      PROVE  QuorumOpen'
  BY <1>7 DEF mark_failed_audited, Abort
<1>8. ASSUME NEW h \in Handlers,
             try_deny(h) \/ audit_denied(h)
      PROVE  QuorumOpen'
  BY <1>8 DEF try_deny, audit_denied
<1>9. ASSUME NEW h \in Handlers,
             retrieve_secret_core(h) \/ try_burn_secret(h) \/ deliver_secret(h)
      PROVE  QuorumOpen'
  BY <1>9 DEF retrieve_secret_core, try_burn_secret, deliver_secret
<1>10. ASSUME NEW h \in Handlers, NEW a \in Approvers,
             approve_and_execute_core(h, a) \/ deny_core(h, a)
      PROVE  QuorumOpen'
  BY <1>10 DEF approve_and_execute_core, deny_core
<1>11. CASE EditTarget \/ ClocksPass
  BY <1>11 DEF EditTarget, ClocksPass
<1> QED
  BY <1>1, <1>2, <1>3, <1>4, <1>5, <1>6, <1>7, <1>8, <1>9, <1>10, <1>11 DEF Next,
    HandlerStep

\* Versions only grow, so a recheck that succeeds fixes the claimed version.
LEMMA VersionStep == ASSUME ChangeInv, Next PROVE VersionsInOrder'
<1> USE ChangeAssumption DEF TypeOK, VersionsInOrder, AtMost, NoStaleWrite, ClaimExclusive, EffectsInOrder,
    Executing, Unclaimed, Etags, Intents
<1>1. ASSUME NEW h \in Handlers,
             capture_target_etag(h) \/ propose(h) \/ propose_core(h)
      PROVE  VersionsInOrder'
  BY <1>1 DEF capture_target_etag, propose, propose_core
<1>2. ASSUME NEW h \in Handlers,
             begin(h) \/ try_approve(h) \/ record_approval(h) \/ audit_counted(h) \/
             audit_approved(h)
      PROVE  VersionsInOrder'
  <2>1. CASE begin(h)
    BY <2>1 DEF begin
  <2>2. CASE try_approve(h)
    BY <2>2 DEF try_approve
  <2>3. CASE record_approval(h)
    BY <2>3 DEF record_approval
  <2>4. CASE audit_counted(h)
    BY <2>4 DEF audit_counted
  <2>5. CASE audit_approved(h)
    BY <2>5 DEF audit_approved
  <2> QED
    BY <1>2, <2>1, <2>2, <2>3, <2>4, <2>5
<1>3. ASSUME NEW h \in Handlers,
             try_begin_execution(h) \/ recheck_target(h) \/ execute_with_target_etag(h) \/
             store_execution_secret(h) \/ mark_executed(h)
      PROVE  VersionsInOrder'
  <2>1. CASE try_begin_execution(h)
    BY <2>1 DEF try_begin_execution
  <2>2. CASE recheck_target(h)
    BY <2>2 DEF recheck_target
  <2>3. CASE execute_with_target_etag(h)
    BY <2>3 DEF execute_with_target_etag, Witnessed
  <2>4. CASE store_execution_secret(h)
    BY <2>4 DEF store_execution_secret
  <2>5. CASE mark_executed(h)
    BY <2>5 DEF mark_executed
  <2> QED
    BY <1>3, <2>1, <2>2, <2>3, <2>4, <2>5
<1>4. ASSUME NEW h \in Handlers,
             audit_executed(h) \/ mark_failed(h) \/ mark_failed_audited(h)
      PROVE  VersionsInOrder'
  <2>1. CASE audit_executed(h)
    BY <2>1 DEF audit_executed
  <2>2. CASE mark_failed(h)
    BY <2>2 DEF mark_failed
  <2>3. CASE mark_failed_audited(h)
    BY <2>3 DEF mark_failed_audited
  <2> QED
    BY <1>4, <2>1, <2>2, <2>3
<1>5. ASSUME NEW h \in Handlers, Abort(h) PROVE VersionsInOrder'
  BY <1>5 DEF Abort
<1>6. ASSUME NEW h \in Handlers, try_deny(h) PROVE VersionsInOrder'
  BY <1>6 DEF try_deny
<1>7. ASSUME NEW h \in Handlers, audit_denied(h) PROVE VersionsInOrder'
  BY <1>7 DEF audit_denied
<1>8. ASSUME NEW h \in Handlers,
             retrieve_secret_core(h) \/ try_burn_secret(h) \/ deliver_secret(h)
      PROVE  VersionsInOrder'
  BY <1>8 DEF retrieve_secret_core, try_burn_secret, deliver_secret
<1>9. ASSUME NEW h \in Handlers, NEW a \in Approvers,
             approve_and_execute_core(h, a) \/ deny_core(h, a)
      PROVE  VersionsInOrder'
  BY <1>9 DEF approve_and_execute_core, deny_core
<1>10. CASE EditTarget \/ ClocksPass
  BY <1>10 DEF EditTarget, ClocksPass
<1> QED
  BY <1>1, <1>2, <1>3, <1>4, <1>5, <1>6, <1>7, <1>8, <1>9, <1>10 DEF Next, HandlerStep

\* The conditional update lets one retrieval burn the secret.
LEMMA SecretStep == ASSUME ChangeInv, Next PROVE BurnedOnce'
<1>0. /\ pc \in [Handlers -> Locations] /\ delivered \in Nat
      /\ \A h \in Handlers : pc[h] = "minted" => secret = "none"
  BY DEF TypeOK, EffectsInOrder
<1> USE <1>0 DEF BurnedOnce, SecretDeliveredOnce
<1>1. ASSUME NEW h \in Handlers,
             capture_target_etag(h) \/ propose(h) \/ propose_core(h)
      PROVE  BurnedOnce'
  BY <1>1 DEF capture_target_etag, propose, propose_core
<1>2. ASSUME NEW h \in Handlers,
             begin(h) \/ try_approve(h) \/ record_approval(h) \/ audit_counted(h) \/
             audit_approved(h)
      PROVE  BurnedOnce'
  <2>1. CASE begin(h)
    BY <2>1 DEF begin
  <2>2. CASE try_approve(h)
    BY <2>2 DEF try_approve
  <2>3. CASE record_approval(h)
    BY <2>3 DEF record_approval
  <2>4. CASE audit_counted(h)
    BY <2>4 DEF audit_counted
  <2>5. CASE audit_approved(h)
    BY <2>5 DEF audit_approved
  <2> QED
    BY <1>2, <2>1, <2>2, <2>3, <2>4, <2>5
<1>3. ASSUME NEW h \in Handlers,
             try_begin_execution(h) \/ recheck_target(h) \/ execute_with_target_etag(h) \/
             store_execution_secret(h) \/ mark_executed(h)
      PROVE  BurnedOnce'
  <2>1. CASE try_begin_execution(h)
    BY <2>1 DEF try_begin_execution
  <2>2. CASE recheck_target(h)
    BY <2>2 DEF recheck_target
  <2>3. CASE execute_with_target_etag(h)
    BY <2>3 DEF execute_with_target_etag, Witnessed
  <2>4. CASE store_execution_secret(h)
    BY <2>4 DEF store_execution_secret
  <2>5. CASE mark_executed(h)
    BY <2>5 DEF mark_executed
  <2> QED
    BY <1>3, <2>1, <2>2, <2>3, <2>4, <2>5
<1>4. ASSUME NEW h \in Handlers,
             audit_executed(h) \/ mark_failed(h) \/ mark_failed_audited(h) \/ Abort(h)
      PROVE  BurnedOnce'
  <2>1. CASE audit_executed(h)
    BY <2>1 DEF audit_executed
  <2>2. CASE mark_failed(h)
    BY <2>2 DEF mark_failed
  <2>3. CASE mark_failed_audited(h)
    BY <2>3 DEF mark_failed_audited
  <2>4. CASE Abort(h)
    BY <2>4 DEF Abort
  <2> QED
    BY <1>4, <2>1, <2>2, <2>3, <2>4
<1>5. ASSUME NEW h \in Handlers,
             try_deny(h) \/ audit_denied(h)
      PROVE  BurnedOnce'
  BY <1>5 DEF try_deny, audit_denied
<1>6. ASSUME NEW h \in Handlers,
             retrieve_secret_core(h) \/ try_burn_secret(h) \/ deliver_secret(h)
      PROVE  BurnedOnce'
  BY <1>6 DEF retrieve_secret_core, try_burn_secret, deliver_secret
<1>7. ASSUME NEW h \in Handlers, NEW a \in Approvers,
             approve_and_execute_core(h, a) \/ deny_core(h, a)
      PROVE  BurnedOnce'
  BY <1>7 DEF approve_and_execute_core, deny_core
<1>8. CASE EditTarget \/ ClocksPass
  BY <1>8 DEF EditTarget, ClocksPass
<1> QED
  BY <1>1, <1>2, <1>3, <1>4, <1>5, <1>6, <1>7, <1>8 DEF Next, HandlerStep

\* A stuttering step changes nothing the invariant reads.
LEMMA ChangeStuttering == ChangeInv /\ UNCHANGED vars => ChangeInv'
  BY DEF vars, TypeOK, ActsForApprover, ClaimExclusive, EffectsInOrder, EffectAtMostOnce,
    ExecutedKeepsSecret, ApprovedFirst, ApproveAudited, QuorumOpen, QuorumNeverStalls,
    VersionsInOrder, AtMost, NoStaleWrite, BurnedOnce, SecretDeliveredOnce

\* The invariant holds throughout.
LEMMA ChangeInvariance == Spec => []ChangeInv
<1>1. ChangeInv /\ [Next]_vars => ChangeInv'
  BY ChangeStuttering, TypeStep, ActorStep, ClaimStep, EffectStep, ApprovalStep, QuorumStep,
    VersionStep, SecretStep
<1> QED
  BY ChangeInit, <1>1, PTL DEF Spec

(***************************************************************************)
(* The theorems.                                                           *)
(***************************************************************************)
\* Every variable of the ceremony keeps its type, the frozen intent and the
\* status column included.
THEOREM ChangesTypeCorrect == Spec => []TypeOK
<1>1. ChangeInv => TypeOK
  OBVIOUS
<1> QED
  BY <1>1, ChangeInvariance, PTL

\* However many approvers resume it, a change takes effect at most once.
THEOREM ExecutesAtMostOnce == Spec => []EffectAtMostOnce
<1>1. ChangeInv => EffectAtMostOnce
  BY DEF EffectsInOrder
<1> QED
  BY <1>1, ChangeInvariance, PTL

\* No effect without the frozen quorum and a durable approve audit.
THEOREM ExecutesWhatWasApproved == Spec => []EffectIsApproved
<1>1. ChangeInv => EffectIsApproved
  BY DEF EffectsInOrder, ApprovedFirst, ApproveAudited, Unclaimed, EffectIsApproved, TypeOK,
    Statuses
<1> QED
  BY <1>1, ChangeInvariance, PTL

\* Concurrent approvers cannot leave a full tally pending.
THEOREM QuorumsComplete == Spec => []QuorumNeverStalls
<1>1. ChangeInv => QuorumNeverStalls
  BY DEF QuorumOpen
<1> QED
  BY <1>1, ChangeInvariance, PTL

\* No approval is counted on a decided request or after its expiry was seen.
THEOREM VotesCountWhileOpen == Spec => CountedWhileOpen
<1>1. ASSUME Next, ledger' # ledger PROVE status = "pending" /\ ~lapsed
  <2>1. PICK h \in Handlers : record_approval(h)
    BY <1>1 DEF Next, HandlerStep, capture_target_etag, retrieve_secret_core,
      approve_and_execute_core, deny_core, propose, propose_core, begin, try_approve,
      audit_counted, audit_approved, try_begin_execution, recheck_target,
      execute_with_target_etag, store_execution_secret, mark_executed, audit_executed,
      mark_failed, mark_failed_audited, try_deny, audit_denied, try_burn_secret,
      deliver_secret, Abort, EditTarget, ClocksPass
  <2> QED
    BY <1>1, <2>1 DEF record_approval
<1>2. UNCHANGED vars => ledger' = ledger
  BY DEF vars
<1>3. [Next]_vars => [ledger' # ledger => status = "pending" /\ ~lapsed]_vars
  BY <1>1, <1>2
<1> QED
  BY <1>3, PTL DEF Spec, CountedWhileOpen

\* An approved change never overwrites an edit its approvers did not see.
THEOREM StaleChangesStop == Spec => []NoStaleWrite
<1>1. ChangeInv => NoStaleWrite
  BY DEF VersionsInOrder
<1> QED
  BY <1>1, ChangeInvariance, PTL

\* A change that reads executed kept the secret it produced.
THEOREM ExecutedHasSecret == Spec => []ExecutedKeepsSecret
<1>1. ChangeInv => ExecutedKeepsSecret
  BY DEF EffectsInOrder
<1> QED
  BY <1>1, ChangeInvariance, PTL

\* The plaintext of a one-time secret is returned at most once.
THEOREM SecretsAreOneTime == Spec => []SecretDeliveredOnce
<1>1. ChangeInv => SecretDeliveredOnce
  BY DEF BurnedOnce
<1> QED
  BY <1>1, ChangeInvariance, PTL
=============================================================================

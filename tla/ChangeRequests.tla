--------------------------- MODULE ChangeRequests ---------------------------
(***************************************************************************)
(* One human-approved change to the gateway's configuration: the           *)
(* change_requests row with its approval ledger and one-time secret        *)
(* (waygate-changeset/src/lib.rs), and the admin handlers that propose,    *)
(* approve and execute, deny, and retrieve                                 *)
(* (waygate-admin/src/change_requests.rs).                                 *)
(*                                                                         *)
(* A handler is one request on some replica.  Every store call is one      *)
(* atomic step; between two of them other handlers, operators and the      *)
(* clocks may act, and the handler may die or see an error.  The database  *)
(* takes now() when a transaction or statement begins, before it waits for *)
(* the row lock, and the replicas keep time of their own.                  *)
(***************************************************************************)
EXTENDS Integers, FiniteSets, Sequences

CONSTANTS
  Handlers,    \* requests in flight
  Approvers,   \* principals that satisfy the request's frozen approval bar
  Nobody,      \* no principal
  Quorums,     \* required_approvals an executor may declare
  Guards,      \* how executors guard their target: "none", "recheck" or "bound"
  Secrets,     \* whether the executed action returns a one-time secret
  NoEtag,      \* target_etag IS NULL
  MaxEdits     \* bound: edits others make to the target

ASSUME ChangeAssumption ==
  /\ Nobody \notin Approvers
  /\ Quorums \subseteq Nat \ {0}
  /\ Guards \subseteq {"none", "recheck", "bound"}
  /\ Secrets \subseteq BOOLEAN
  /\ MaxEdits \in Nat
  /\ NoEtag \notin 0 .. MaxEdits

VARIABLES
  status,      \* the row's status, "absent" before the proposal
  intent,      \* what the proposal froze: requirement, guard, target_etag, secret
  approver,    \* approver_sub
  ledger,      \* change_request_approvals: who was counted
  secret,      \* change_request_secrets: "none", "stored" or "retrieved"
  audit,       \* the durable evidence rows about the request
  expired,     \* the database clock has passed expires_at
  lapsed,      \* the replicas' clock has passed expires_at
  cooled,      \* the replicas' clock has passed the cooldown
  target,      \* the version of what the change edits
  pc,          \* pc[h]: the await h is at
  who,         \* who[h]: the principal h acts for
  open,        \* open[h]: the request was unexpired when h's transaction began
  witness,     \* witness[h]: the target_etag h captured
  effects,     \* the side effects performed: the versions they were applied to
  claimedAt,   \* the target's version when execution was claimed
  delivered    \* how often the plaintext secret was returned

request == <<status, intent, approver, ledger, secret, audit>>
clocks  == <<expired, lapsed, cooled>>
locals  == <<pc, who, open, witness>>
ghosts  == <<effects, claimedAt, delivered>>
vars    == <<request, clocks, target, locals, ghosts>>

Statuses == {"absent", "pending", "approved", "executing", "executed", "failed", "denied"}

Etags == (0 .. MaxEdits) \union {NoEtag}

Intents == [required : Quorums, guard : Guards, etag : Etags, secretive : Secrets]

\* An evidence row and the principals it attributes the event to.
AuditRows ==
  [event : {"propose", "approve", "deny", "execute", "failure"}, names : SUBSET Approvers]

Init ==
  /\ status = "absent" /\ intent \in Intents /\ intent.etag = NoEtag
  /\ approver = Nobody /\ ledger = {} /\ secret = "none" /\ audit = {}
  /\ expired = FALSE /\ lapsed = FALSE /\ cooled = FALSE
  /\ target = 0
  /\ pc       = [h \in Handlers |-> "idle"]
  /\ who      = [h \in Handlers |-> Nobody]
  /\ open     = [h \in Handlers |-> FALSE]
  /\ witness  = [h \in Handlers |-> NoEtag]
  /\ effects = <<>> /\ claimedAt = NoEtag /\ delivered = 0

(***************************************************************************)
(* Control flow of one handler.                                            *)
(***************************************************************************)
Goto(h, next) ==
  /\ pc' = [pc EXCEPT ![h] = next]
  /\ UNCHANGED <<who, open, witness>>

Return(h) ==
  /\ pc'       = [pc EXCEPT ![h] = "idle"]
  /\ who'      = [who EXCEPT ![h] = Nobody]
  /\ open'     = [open EXCEPT ![h] = FALSE]
  /\ witness'  = [witness EXCEPT ![h] = NoEtag]

Arrive(h, a, next) ==
  /\ pc[h] = "idle"
  /\ pc'       = [pc EXCEPT ![h] = next]
  /\ who'      = [who EXCEPT ![h] = a]
  /\ UNCHANGED <<open, witness>>

Elsewhere == UNCHANGED <<clocks, target>>

\* record_mutation, the fail-closed audit; its failure is Abort(h).
Audited(event, names) == audit' = audit \union {[event |-> event, names |-> names]}

(***************************************************************************)
(* Proposing.                                                              *)
(***************************************************************************)
\* The caller reads the target's version before the insert.  An action bound
\* to its witness needs one; otherwise the read is best effort.
capture_target_etag(h) ==
  /\ status = "absent" /\ pc[h] = "idle"
  /\ \E etag \in {target, NoEtag} :
       /\ intent.guard = "bound" => etag = target
       /\ intent.guard = "none" => etag = NoEtag
       /\ witness' = [witness EXCEPT ![h] = etag]
  /\ pc' = [pc EXCEPT ![h] = "captured"]
  /\ Elsewhere /\ UNCHANGED <<request, who, open, ghosts>>

propose(h) ==
  /\ pc[h] = "captured" /\ status = "absent"
  /\ status' = "pending"
  /\ intent' = [intent EXCEPT !.etag = witness[h]]
  /\ Goto(h, "proposed")
  /\ Elsewhere /\ UNCHANGED <<approver, ledger, secret, audit, ghosts>>

propose_core(h) ==
  /\ pc[h] = "proposed"
  /\ Audited("propose", {})
  /\ Return(h)
  /\ Elsewhere /\ UNCHANGED <<status, intent, approver, ledger, secret, ghosts>>

(***************************************************************************)
(* Approving.                                                              *)
(***************************************************************************)
effective_status == IF status = "pending" /\ lapsed THEN "expired" ELSE status

\* Mutant: a resumed approval goes straight to execution.
approve_and_execute_core_Unaudited(h, a) ==
  /\ effective_status \in {"pending", "approved"} /\ cooled
  /\ Arrive(h, a, IF status = "approved" THEN "audited" ELSE "approving")
  /\ Elsewhere /\ UNCHANGED <<request, ghosts>>

\* The row is read and the frozen bar enforced: role and factors make the
\* principal an approver, the cooldown must have passed.
approve_and_execute_core(h, a) ==
  /\ effective_status \in {"pending", "approved"} /\ cooled
  /\ Arrive(h, a, IF status = "approved" THEN "approved" ELSE "approving")
  /\ Elsewhere /\ UNCHANGED <<request, ghosts>>

\* BEGIN: now() is fixed here, the row lock may come later.
begin(h) ==
  /\ pc[h] \in {"approving", "denying"}
  /\ open' = [open EXCEPT ![h] = ~expired]
  /\ pc' = [pc EXCEPT ![h] = IF pc[h] = "denying" THEN "deny_begun" ELSE "approve_begun"]
  /\ Elsewhere /\ UNCHANGED <<request, who, witness, ghosts>>

Approve(h) == status' = "approved" /\ approver' = who[h]

try_approve(h) ==
  /\ pc[h] = "approve_begun" /\ intent.required = 1
  /\ IF status = "pending" /\ open[h]
     THEN Approve(h) /\ Goto(h, "approved")
     ELSE Return(h) /\ UNCHANGED <<status, approver>>
  /\ Elsewhere /\ UNCHANGED <<intent, ledger, secret, audit, ghosts>>

\* Mutant: the count misses the approval this transaction inserts.
record_approval_StaleCount(h) ==
  /\ pc[h] = "approve_begun" /\ intent.required > 1
  /\ LET counted == status = "pending" /\ ~lapsed
         quorum  == status = "pending" /\ open[h] /\ intent.required <= Cardinality(ledger)
     IN  /\ ledger' = IF counted THEN ledger \union {who[h]} ELSE ledger
         /\ IF quorum THEN Approve(h) ELSE UNCHANGED <<status, approver>>
         /\ \/ quorum /\ Goto(h, "approved")
            \/ ~quorum /\ counted /\ Goto(h, "counted")
            \/ ~quorum /\ ~counted /\ Return(h)
  /\ Elsewhere /\ UNCHANGED <<intent, secret, audit, ghosts>>

\* Mutant: approvals are counted whatever the row's status.
record_approval_AnyStatus(h) ==
  /\ pc[h] = "approve_begun" /\ intent.required > 1
  /\ LET tally   == ledger \union {who[h]}
         quorum  == status = "pending" /\ open[h] /\ intent.required <= Cardinality(tally)
     IN  /\ ledger' = tally
         /\ IF quorum THEN Approve(h) ELSE UNCHANGED <<status, approver>>
         /\ Goto(h, IF quorum THEN "approved" ELSE "counted")
  /\ Elsewhere /\ UNCHANGED <<intent, secret, audit, ghosts>>

\* Under the row lock: count this approver once if the request is open by the
\* replica's clock, and flip on a full tally if it was open by the database's.
record_approval(h) ==
  /\ pc[h] = "approve_begun" /\ intent.required > 1
  /\ LET counted == status = "pending" /\ ~lapsed
         tally   == IF counted THEN ledger \union {who[h]} ELSE ledger
         quorum  == status = "pending" /\ open[h] /\ intent.required <= Cardinality(tally)
     IN  /\ ledger' = tally
         /\ IF quorum THEN Approve(h) ELSE UNCHANGED <<status, approver>>
         /\ \/ quorum /\ Goto(h, "approved")
            \/ ~quorum /\ counted /\ Goto(h, "counted")
            \/ ~quorum /\ ~counted /\ Return(h)
  /\ Elsewhere /\ UNCHANGED <<intent, secret, audit, ghosts>>

audit_counted(h) ==
  /\ pc[h] = "counted"
  /\ Audited("approve", {who[h]})
  /\ Return(h)
  /\ Elsewhere /\ UNCHANGED <<status, intent, approver, ledger, secret, ghosts>>

\* A completed and a resumed approval are audited before execution.
audit_approved(h) ==
  /\ pc[h] = "approved"
  /\ Audited("approve", {who[h]})
  /\ Goto(h, "audited")
  /\ Elsewhere /\ UNCHANGED <<status, intent, approver, ledger, secret, ghosts>>

(***************************************************************************)
(* Executing.                                                              *)
(***************************************************************************)
\* Mutant: the claim does not require the row to be approved.
try_begin_execution_AnyStatus(h) ==
  /\ pc[h] = "audited"
  /\ status' = "executing" /\ claimedAt' = target /\ Goto(h, "claimed")
  /\ Elsewhere
  /\ UNCHANGED <<intent, approver, ledger, secret, audit, effects, delivered>>

try_begin_execution(h) ==
  /\ pc[h] = "audited"
  /\ IF status = "approved"
     THEN status' = "executing" /\ claimedAt' = target /\ Goto(h, "claimed")
     ELSE Return(h) /\ UNCHANGED <<status, claimedAt>>
  /\ Elsewhere
  /\ UNCHANGED <<intent, approver, ledger, secret, audit, effects, delivered>>

\* Mutant: an approved change is executed without a second look.
recheck_target_Skipped(h) ==
  /\ pc[h] = "claimed"
  /\ Goto(h, "fresh")
  /\ Elsewhere /\ UNCHANGED <<request, ghosts>>

\* The freshness guard; a target that cannot be read fails it too.
recheck_target(h) ==
  /\ pc[h] = "claimed"
  /\ \/ intent.etag \in {NoEtag, target} /\ Goto(h, "fresh")
     \/ intent.etag # NoEtag /\ Goto(h, "failing")
  /\ Elsewhere /\ UNCHANGED <<request, ghosts>>

\* An executor of a bound action conditions its write on the witness.
Witnessed == intent.guard = "bound" => intent.etag = target

\* The executor succeeds, or fails before or after it took effect.
execute_with_target_etag(h) ==
  /\ pc[h] = "fresh"
  /\ \/ /\ Witnessed
        /\ effects' = Append(effects, target)
        /\ \/ Goto(h, IF intent.secretive THEN "minted" ELSE "ran")
           \/ Goto(h, "failing")
     \/ Goto(h, "failing") /\ UNCHANGED effects
  /\ Elsewhere /\ UNCHANGED <<request, claimedAt, delivered>>

\* Mutant: a failed delivery is not allowed to fail the change.
store_execution_secret_BestEffort(h) ==
  /\ pc[h] = "minted"
  /\ secret' \in {secret, "stored"}
  /\ Goto(h, "ran")
  /\ Elsewhere /\ UNCHANGED <<status, intent, approver, ledger, audit, ghosts>>

\* Encrypt and persist, before the row reads `executed`.
store_execution_secret(h) ==
  /\ pc[h] = "minted"
  /\ \/ secret' = "stored" /\ Goto(h, "ran")
     \/ secret' \in {secret, "stored"} /\ Goto(h, "failing")
  /\ Elsewhere /\ UNCHANGED <<status, intent, approver, ledger, audit, ghosts>>

mark_executed(h) ==
  /\ pc[h] = "ran" /\ status = "executing"
  /\ status' = "executed"
  /\ Goto(h, "attributing")
  /\ Elsewhere /\ UNCHANGED <<intent, approver, ledger, secret, audit, ghosts>>

\* The execute audit names the whole ledger of a multi-approver change.
audit_executed(h) ==
  /\ pc[h] = "attributing"
  /\ Audited("execute", {who[h]} \union (IF intent.required > 1 THEN ledger ELSE {}))
  /\ Return(h)
  /\ Elsewhere /\ UNCHANGED <<status, intent, approver, ledger, secret, ghosts>>

mark_failed(h) ==
  /\ pc[h] = "failing"
  /\ status' = IF status = "executing" THEN "failed" ELSE status
  /\ Goto(h, "failed")
  /\ Elsewhere /\ UNCHANGED <<intent, approver, ledger, secret, audit, ghosts>>

mark_failed_audited(h) ==
  /\ pc[h] = "failed"
  /\ Audited("failure", {who[h]})
  /\ Return(h)
  /\ Elsewhere /\ UNCHANGED <<status, intent, approver, ledger, secret, ghosts>>

(***************************************************************************)
(* Denying, and retrieving the secret.                                     *)
(***************************************************************************)
deny_core(h, a) ==
  /\ status # "absent"
  /\ Arrive(h, a, "denying")
  /\ Elsewhere /\ UNCHANGED <<request, ghosts>>

try_deny(h) ==
  /\ pc[h] = "deny_begun"
  /\ IF status = "pending" /\ open[h]
     THEN status' = "denied" /\ approver' = who[h] /\ Goto(h, "denied")
     ELSE Return(h) /\ UNCHANGED <<status, approver>>
  /\ Elsewhere /\ UNCHANGED <<intent, ledger, secret, audit, ghosts>>

audit_denied(h) ==
  /\ pc[h] = "denied"
  /\ Audited("deny", {who[h]})
  /\ Return(h)
  /\ Elsewhere /\ UNCHANGED <<status, intent, approver, ledger, secret, ghosts>>

\* The maker peeks and decrypts before anything is claimed; a key that cannot
\* open the secret ends the request here.
retrieve_secret_core(h) ==
  /\ pc[h] = "idle" /\ status = "executed"
  /\ secret # "none"
  /\ Goto(h, "opened")
  /\ Elsewhere /\ UNCHANGED <<request, ghosts>>

\* Mutant: the burn does not look at retrieved_at.
try_burn_secret_Again(h) ==
  /\ pc[h] = "opened"
  /\ secret' = "retrieved" /\ Goto(h, "burned")
  /\ Elsewhere /\ UNCHANGED <<status, intent, approver, ledger, audit, ghosts>>

try_burn_secret(h) ==
  /\ pc[h] = "opened"
  /\ IF secret = "stored"
     THEN secret' = "retrieved" /\ Goto(h, "burned")
     ELSE Return(h) /\ UNCHANGED secret
  /\ Elsewhere /\ UNCHANGED <<status, intent, approver, ledger, audit, ghosts>>

deliver_secret(h) ==
  /\ pc[h] = "burned"
  /\ delivered' = delivered + 1
  /\ Return(h)
  /\ Elsewhere /\ UNCHANGED <<request, effects, claimedAt>>

(***************************************************************************)
(* Failures, and everyone who is not a handler.                            *)
(***************************************************************************)
\* The handler's process dies, its client leaves, or an await it cannot
\* recover from returns an error.
Abort(h) ==
  /\ pc[h] # "idle"
  /\ Return(h)
  /\ Elsewhere /\ UNCHANGED <<request, ghosts>>

\* An operator edits the target outside the ceremony.
EditTarget ==
  /\ target < MaxEdits
  /\ target' = target + 1
  /\ UNCHANGED <<request, clocks, locals, ghosts>>

ClocksPass ==
  /\ status # "absent"
  /\ \/ ~expired /\ expired' = TRUE /\ UNCHANGED <<lapsed, cooled>>
     \/ ~lapsed /\ lapsed' = TRUE /\ UNCHANGED <<expired, cooled>>
     \/ ~cooled /\ cooled' = TRUE /\ UNCHANGED <<expired, lapsed>>
  /\ UNCHANGED <<request, target, locals, ghosts>>

HandlerStep(h) ==
  \/ propose(h) \/ propose_core(h)
  \/ begin(h) \/ try_approve(h) \/ record_approval(h) \/ audit_counted(h) \/ audit_approved(h)
  \/ try_begin_execution(h) \/ recheck_target(h) \/ execute_with_target_etag(h)
  \/ store_execution_secret(h) \/ mark_executed(h) \/ audit_executed(h)
  \/ mark_failed(h) \/ mark_failed_audited(h)
  \/ try_deny(h) \/ audit_denied(h) \/ try_burn_secret(h) \/ deliver_secret(h)

Next ==
  \/ \E h \in Handlers :
       \/ capture_target_etag(h) \/ retrieve_secret_core(h)
       \/ \E a \in Approvers : approve_and_execute_core(h, a) \/ deny_core(h, a)
       \/ HandlerStep(h) \/ Abort(h)
  \/ EditTarget \/ ClocksPass

Spec == Init /\ [][Next]_vars

(***************************************************************************)
(* Properties.                                                             *)
(***************************************************************************)
Locations ==
  {"idle", "captured", "proposed", "approving", "approve_begun", "counted", "approved",
   "audited", "claimed", "fresh", "minted", "ran", "attributing", "failing", "failed",
   "denying", "deny_begun", "denied", "opened", "burned"}

\* Every variable keeps its type.
TypeOK ==
  /\ status \in Statuses /\ intent \in Intents
  /\ approver \in Approvers \union {Nobody} /\ ledger \subseteq Approvers
  /\ secret \in {"none", "stored", "retrieved"} /\ audit \subseteq AuditRows
  /\ expired \in BOOLEAN /\ lapsed \in BOOLEAN /\ cooled \in BOOLEAN
  /\ target \in 0 .. MaxEdits
  /\ pc \in [Handlers -> Locations]
  /\ who \in [Handlers -> Approvers \union {Nobody}]
  /\ open \in [Handlers -> BOOLEAN]
  /\ witness \in [Handlers -> Etags]
  /\ effects \in Seq(0 .. MaxEdits) /\ claimedAt \in Etags /\ delivered \in Nat

\* The side effect is performed at most once, however many approvers resume
\* a stranded approval at the same time.
EffectAtMostOnce == Len(effects) <= 1

\* No side effect without the approvals the request froze, each counted once,
\* and a durable approve audit that precedes it; none after a denial.
EffectIsApproved ==
  effects # <<>> =>
    /\ status \notin {"absent", "pending", "approved", "denied"}
    /\ intent.required > 1 => intent.required <= Cardinality(ledger)
    /\ \E row \in audit : row.event = "approve" /\ row.names # {}

\* Two approvers who complete the quorum cannot leave the request pending:
\* a full tally waits only for an expiry that has already passed.
QuorumNeverStalls ==
  (status = "pending" /\ intent.required > 1 /\ intent.required <= Cardinality(ledger))
    => expired

\* The ledger gains no phantom approvals once the request is decided or its
\* expiry was seen.
CountedWhileOpen ==
  [][ledger' # ledger => status = "pending" /\ ~lapsed]_vars

\* A stale change never overwrites an out-of-band edit: an edit made before
\* execution was claimed always stops it, and one made later stops an
\* executor that binds its witness.
NoStaleWrite ==
  intent.etag # NoEtag =>
    \A i \in 1 .. Len(effects) :
      /\ claimedAt = intent.etag
      /\ intent.guard = "bound" => effects[i] = intent.etag

\* A maker who sees `executed` can retrieve the secret the change produced.
ExecutedKeepsSecret == status = "executed" /\ intent.secretive => secret # "none"

\* Two concurrent retrievals never both return the plaintext.
SecretDeliveredOnce == delivered <= 1
=============================================================================

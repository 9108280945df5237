--------------------------- MODULE ApprovalGrants ---------------------------
(***************************************************************************)
(* Human approval of governed tool calls: the check_approval stage of the  *)
(* invocation pipeline (waygate-mcp/src/invocation/approval.rs), the       *)
(* one-time grants it consumes (waygate-catalog/src/store.rs), the requests*)
(* that held calls leave behind and the decisions on them                  *)
(* (waygate-catalog/src/pending_invocations.rs), the administrator's own   *)
(* grants and revocations (waygate-admin/src/approval_grants.rs), and the  *)
(* two sweepers.  One tenant and one tool whose approval is required.  A   *)
(* principal is a full identity, issuer and subject; a behaviour is the    *)
(* schema hash of one approved version of the tool.  Requests and grants   *)
(* are numbered in the order they are made, and a deleted row keeps its    *)
(* number and its contents, which the properties refer to.                 *)
(***************************************************************************)
EXTENDS Integers, Sequences, FiniteSets

CONSTANTS
  Callers,          \* the principals that call the tool
  Administrators,   \* the principals that decide
  NoOne,
  Arguments,
  Tasks,            \* the pipeline's tasks; a task takes one call after another
  RequestTTL,       \* expires_at of a request: 15 minutes
  DecisionTTL,      \* longest life of a grant minted by a decision: 5 minutes
  MintTTL,          \* life of an administrator's grant, clamped by grant_lifetime
  Retention,        \* rows younger than this are never deleted
  MaxEach, MaxRows, \* bounds: requests, and grants; both together
  MaxVersion, MaxChanges, MaxClock  \* bounds

ASSUME ApprovalAssumption ==
  /\ {RequestTTL, DecisionTTL, MintTTL, MaxVersion} \subseteq Nat \ {0}
  /\ {Retention, MaxEach, MaxRows, MaxChanges, MaxClock} \subseteq Nat

VARIABLES
  clock,
  version,       \* schema hash of the tool's latest approved version, or Unlisted
  call,          \* call[c]: the call that task c takes through the pipeline
  requests,      \* pending_invocation_requests
  grants,        \* approval_grants
  minting,       \* the create_grant request between its checks and its insert
  requested,     \* grants that a revocation closed, confirmed or not
  revoked,       \* grants whose revocation was confirmed to an administrator
  carried,       \* carried[g]: calls that went on to dispatch with grant g
  changes        \* changes of the catalog

vars == <<clock, version, call, requests, grants, minting, requested, revoked, carried, changes>>

None == 0
Unlisted == 0   \* no version: the server is not live

Idle == [pc |-> "idle", who |-> NoOne, behavior |-> Unlisted, args |-> NoOne, at |-> 0, grant |-> None]

Fits(rs, gs) == Len(rs) <= MaxEach /\ Len(gs) <= MaxEach /\ Len(rs) + Len(gs) <= MaxRows

\* What approval is bound to: principal, behaviour hash and argument hash.
Identity(x) == [who |-> x.who, behavior |-> x.behavior, args |-> x.args]

Init ==
  /\ clock = 0 /\ version = 1
  /\ call = [c \in Tasks |-> Idle] /\ requests = <<>> /\ grants = <<>>
  /\ minting = {}
  /\ requested = {} /\ revoked = {} /\ carried = [g \in 1..MaxEach |-> 0] /\ changes = 0

Tick ==
  /\ clock < MaxClock /\ clock' = clock + 1
  /\ UNCHANGED <<version, call, requests, grants, minting, requested, revoked, carried, changes>>

\* The catalog: a version of the tool is approved, an earlier one again, or
\* its server leaves or enters the live state.
CatalogChange ==
  /\ changes < MaxChanges /\ changes' = changes + 1
  /\ version' \in ({Unlisted} \union 1..MaxVersion) \ {version}
  /\ UNCHANGED <<clock, call, requests, grants, minting, requested, revoked, carried>>

(***************************************************************************)
(* A call.                                                                 *)
(***************************************************************************)
\* resolve_tool admits the call with a snapshot of the tool; the stages up to
\* check_approval use that snapshot.
Invoke(c, p, args) ==
  /\ call[c] = Idle /\ version # Unlisted
  /\ call' = [call EXCEPT ![c] = [pc |-> "resolved", who |-> p, behavior |-> version, args |-> args,
                                  at |-> 0, grant |-> None]]
  /\ UNCHANGED <<clock, version, requests, grants, minting, requested, revoked, carried, changes>>

Open(g) == grants[g].stored /\ ~grants[g].consumed

\* Mutant: arguments alone, whatever version they were approved for.
Matches_AnyBehavior(c, g) ==
  Open(g) /\ grants[g].who = call[c].who /\ grants[g].args = call[c].args /\ grants[g].expires > clock

Matches(c, g) ==
  /\ Open(g) /\ Identity(grants[g]) = Identity(call[c]) /\ grants[g].expires > clock

Candidates(c) == {g \in DOMAIN grants : Matches(c, g)}

\* ORDER BY created_at DESC LIMIT 1
Chosen(c) ==
  {g \in Candidates(c) : \A h \in Candidates(c) : grants[h].created <= grants[g].created}

Consume(g) == grants' = [grants EXCEPT ![g].consumed = TRUE]

claim_grant(c) ==
  /\ call[c].pc = "resolved"
  /\ \/ /\ Candidates(c) = {}
        /\ call' = [call EXCEPT ![c].pc = "held"]
        /\ UNCHANGED grants
     \/ \E g \in Chosen(c) :
          /\ Consume(g)
          /\ call' = [call EXCEPT ![c] = [@ EXCEPT !.pc = "claimed", !.grant = g, !.at = clock]]
  /\ UNCHANGED <<clock, version, requests, minting, requested, revoked, carried, changes>>

\* The store fails, before the claim or only in the answer to its commit: the
\* call is refused either way.
ClaimFails(c) ==
  /\ call[c].pc = "resolved"
  /\ call' = [call EXCEPT ![c] = Idle]
  /\ UNCHANGED grants \/ \E g \in Chosen(c) : Consume(g)
  /\ UNCHANGED <<clock, version, requests, minting, requested, revoked, carried, changes>>

\* Pre-call evidence, the caller's admission and the file inputs follow the
\* claim; a refusal there does not give the grant back.
RefuseAfterClaim(c) ==
  /\ call[c].pc = "claimed"
  /\ call' = [call EXCEPT ![c] = Idle]
  /\ UNCHANGED <<clock, version, requests, grants, minting, requested, revoked, carried, changes>>

Dispatch(c) ==
  /\ call[c].pc = "claimed"
  /\ call' = [call EXCEPT ![c] = Idle]
  /\ carried' = [carried EXCEPT ![call[c].grant] = @ + 1]
  /\ UNCHANGED <<clock, version, requests, grants, minting, requested, revoked, changes>>

(***************************************************************************)
(* Requests of held calls.                                                 *)
(***************************************************************************)
Pending(r) == r.stored /\ r.status = "pending"

\* The deletion of old rows and the expiry of pending ones that open retain's
\* transaction.
Refreshed(r) ==
  IF ~r.stored THEN r
  ELSE IF r.created < clock - Retention THEN [r EXCEPT !.stored = FALSE, !.values = FALSE]
  ELSE IF r.status = "pending" /\ r.expires <= clock
       THEN [r EXCEPT !.status = "expired", !.values = FALSE]
  ELSE r

NewRequest(c) ==
  [stored |-> TRUE, status |-> "pending", who |-> call[c].who, behavior |-> call[c].behavior,
   args |-> call[c].args, created |-> clock, expires |-> clock + RequestTTL, values |-> TRUE,
   grant |-> None]

\* One transaction under the tenant's row lock: an open request of the same
\* identity is used again.
retain(c) ==
  LET kept == [i \in DOMAIN requests |-> Refreshed(requests[i])]
  IN IF \E i \in DOMAIN kept : Pending(kept[i]) /\ Identity(kept[i]) = Identity(call[c])
     THEN kept ELSE Append(kept, NewRequest(c))

\* The call is refused whether or not its request could be kept: the store may
\* fail, and at capacity the transaction is rolled back, its expiries included.
Hold(c) ==
  /\ call[c].pc = "held"
  /\ call' = [call EXCEPT ![c] = Idle]
  /\ \/ Fits(retain(c), grants) /\ requests' = retain(c)
     \/ UNCHANGED requests
  /\ UNCHANGED <<clock, version, grants, minting, requested, revoked, carried, changes>>

Decidable(i) == Pending(requests[i]) /\ requests[i].expires > clock

NewGrant(id, by, until) ==
  [stored |-> TRUE, who |-> id.who, behavior |-> id.behavior, args |-> id.args, approver |-> by,
   created |-> clock, expires |-> until, consumed |-> FALSE]

Earlier(a, b) == IF a <= b THEN a ELSE b

\* Mutant: the grant always lives its full five minutes.
approve_FullLifetime(a, i) ==
  LET r == requests[i] IN
  /\ Decidable(i) /\ r.who # a
  /\ version = r.behavior
  /\ Fits(requests, Append(grants, None))
  /\ grants' = Append(grants, NewGrant(Identity(r), a, clock + DecisionTTL))
  /\ requests' = [requests EXCEPT ![i] = [@ EXCEPT !.status = "approved", !.values = FALSE,
                                                   !.grant = Len(grants) + 1]]
  /\ UNCHANGED <<clock, version, call, minting, requested, revoked, carried, changes>>

\* decide: the row lock, the grant that is inserted only for the version the
\* request names, and the update of the row are one transaction.
approve(a, i) ==
  LET r == requests[i] IN
  /\ Decidable(i) /\ r.who # a
  /\ version = r.behavior
  /\ Fits(requests, Append(grants, None))
  /\ grants' = Append(grants, NewGrant(Identity(r), a, Earlier(r.expires, clock + DecisionTTL)))
  /\ requests' = [requests EXCEPT ![i] = [@ EXCEPT !.status = "approved", !.values = FALSE,
                                                   !.grant = Len(grants) + 1]]
  /\ UNCHANGED <<clock, version, call, minting, requested, revoked, carried, changes>>

deny(i) ==
  /\ Decidable(i)
  /\ requests' = [requests EXCEPT ![i] = [@ EXCEPT !.status = "denied", !.values = FALSE]]
  /\ UNCHANGED <<clock, version, call, grants, minting, requested, revoked, carried, changes>>

\* Mutant: only of rows already marked expired.
clear_expired_values_Marked ==
  /\ \E i \in DOMAIN requests : requests[i].values /\ requests[i].status = "expired"
  /\ requests' = [i \in DOMAIN requests |->
                    IF requests[i].status = "expired" THEN [requests[i] EXCEPT !.values = FALSE]
                    ELSE requests[i]]
  /\ UNCHANGED <<clock, version, call, grants, minting, requested, revoked, carried, changes>>

\* clear_expired_values: one round of run_value_sweeper.
clear_expired_values ==
  /\ \E i \in DOMAIN requests : requests[i].values /\ requests[i].expires <= clock
  /\ requests' = [i \in DOMAIN requests |->
                    IF requests[i].expires <= clock THEN [requests[i] EXCEPT !.values = FALSE]
                    ELSE requests[i]]
  /\ UNCHANGED <<clock, version, call, grants, minting, requested, revoked, carried, changes>>

(***************************************************************************)
(* An administrator's own grants.                                          *)
(***************************************************************************)
\* create_grant refuses a grant for the administrator's own calls and one for
\* another version than the one resolved; the insert comes later.  One request
\* at a time.
ResolveGrant(a, p, args) ==
  /\ minting = {} /\ p # a /\ version # Unlisted
  /\ minting' = {[who |-> p, behavior |-> version, args |-> args, approver |-> a]}
  /\ UNCHANGED <<clock, version, call, requests, grants, requested, revoked, carried, changes>>

\* An insert whose answer is lost is one, and a failed one leaves nothing.
create_grant ==
  /\ \E m \in minting :
       \/ /\ Fits(requests, Append(grants, None))
          /\ grants' = Append(grants, NewGrant(m, m.approver, clock + MintTTL))
       \/ UNCHANGED grants
  /\ minting' = {}
  /\ UNCHANGED <<clock, version, call, requests, requested, revoked, carried, changes>>

\* Mutant: it confirms the revocation of a consumed grant.
revoke_grant_Consumed(g) ==
  /\ grants[g].stored /\ Consume(g)
  /\ requested' = requested \union {g} /\ revoked' = revoked \union {g}
  /\ UNCHANGED <<clock, version, call, requests, minting, carried, changes>>

\* A grant that is not open any more is answered with 404.
revoke_grant(g) ==
  /\ Open(g) /\ Consume(g)
  /\ requested' = requested \union {g} /\ revoked' = revoked \union {g}
  /\ UNCHANGED <<clock, version, call, requests, minting, carried, changes>>

\* The update is made and its answer is lost: the administrator is told of
\* an error. (One that fails before the update changes nothing.)
RevokeFails(g) ==
  /\ Open(g) /\ Consume(g)
  /\ requested' = requested \union {g}
  /\ UNCHANGED <<clock, version, call, requests, minting, revoked, carried, changes>>

\* Mutant: age is enough.
Spent_ByAge(g) == TRUE

Spent(g) == grants[g].consumed \/ grants[g].expires < clock

\* One round of run_grant_sweeper; a failed round changes nothing.
sweep_grants ==
  LET swept == {g \in DOMAIN grants : Spent(g) /\ grants[g].created < clock - Retention}
  IN /\ \E g \in swept : grants[g].stored
     /\ grants' = [g \in DOMAIN grants |->
                     IF g \in swept THEN [grants[g] EXCEPT !.stored = FALSE] ELSE grants[g]]
     /\ UNCHANGED <<clock, version, call, requests, minting, requested, revoked, carried, changes>>

Next ==
  \/ Tick \/ CatalogChange
  \/ \E c \in Tasks :
       \/ \E p \in Callers, args \in Arguments : Invoke(c, p, args)
       \/ claim_grant(c) \/ ClaimFails(c) \/ RefuseAfterClaim(c) \/ Dispatch(c) \/ Hold(c)
  \/ \E i \in DOMAIN requests : deny(i) \/ \E a \in Administrators : approve(a, i)
  \/ \E a \in Administrators, p \in Callers, args \in Arguments : ResolveGrant(a, p, args)
  \/ create_grant
  \/ \E g \in DOMAIN grants : revoke_grant(g) \/ RevokeFails(g)
  \/ clear_expired_values \/ sweep_grants

Spec == Init /\ [][Next]_vars

\* The value sweeper keeps its rounds until shutdown and a failed round is
\* followed by another.
FairSpec == Spec /\ WF_vars(clear_expired_values)

(***************************************************************************)
(* Properties.                                                             *)
(***************************************************************************)
Times == 0..(MaxClock + RequestTTL + DecisionTTL + MintTTL)

CallType ==
  [pc : {"resolved", "claimed", "held"}, who : Callers,
   behavior : 1..MaxVersion, args : Arguments, at : Times, grant : Nat]

RequestType ==
  [stored : BOOLEAN, status : {"pending", "approved", "denied", "expired"}, who : Callers,
   behavior : 1..MaxVersion, args : Arguments, created : Times, expires : Times, values : BOOLEAN,
   grant : Nat]

GrantType ==
  [stored : BOOLEAN, who : Callers, behavior : 1..MaxVersion, args : Arguments,
   approver : Administrators, created : Times, expires : Times, consumed : BOOLEAN]

\* Every row, call and counter keeps its type, and a finished task keeps
\* nothing of its call.
TypeOK ==
  /\ clock \in 0..MaxClock /\ version \in 0..MaxVersion /\ changes \in 0..MaxChanges
  /\ call \in [Tasks -> CallType \union {Idle}] /\ requests \in Seq(RequestType) /\ grants \in Seq(GrantType)
  /\ Fits(requests, grants)
  /\ minting \subseteq [who : Callers, behavior : 1..MaxVersion, args : Arguments, approver : Administrators]
  /\ requested \subseteq DOMAIN grants /\ revoked \subseteq requested /\ carried \in [1..MaxEach -> Nat]

\* A call that goes on to its tool has spent a grant for its own principal,
\* behaviour and arguments, given by another principal, and began the claim
\* before the grant ran out: whatever was approved, revoked, swept or
\* re-versioned since the call was resolved.
DispatchAuthorized ==
  \A c \in Tasks : call[c].pc = "claimed" =>
    LET g == call[c].grant IN
    /\ g \in DOMAIN grants /\ grants[g].consumed
    /\ Identity(grants[g]) = Identity(call[c])
    /\ grants[g].approver # call[c].who
    /\ call[c].at < grants[g].expires

\* A grant carries one call at most, and none at all once its revocation has
\* been confirmed: the claims and the revocations of one grant, those whose
\* answer was lost included, exclude each other.
GrantUsedOnce ==
  \A g \in DOMAIN grants :
    LET bearers == {c \in Tasks : call[c].grant = g}
    IN carried[g] + Cardinality(bearers) <= IF g \in revoked THEN 0 ELSE 1

\* Identical held calls share one open request, which alone keeps argument
\* values.  Its decision gives at most one grant, for the identity that was
\* reviewed; the grant never outlives its request and belongs to no other.
DecisionBindsGrant ==
  /\ TypeOK
  /\ \A i \in DOMAIN requests :
       LET r == requests[i] IN
       /\ r.values => Pending(r)
       /\ Pending(r) => \A j \in DOMAIN requests :
            Pending(requests[j]) /\ Identity(requests[j]) = Identity(r) => i = j
       /\ r.status = "approved" <=> r.grant # None
       /\ r.grant # None =>
            /\ r.grant \in DOMAIN grants /\ Identity(grants[r.grant]) = Identity(r)
            /\ grants[r.grant].expires <= r.expires
            /\ \A j \in DOMAIN requests : requests[j].grant = r.grant => i = j

\* An open grant stops being one only in a claim of its identity, in a
\* revocation that an administrator asked for (and may have been told has
\* failed), or after it ran out.
OpenGrantEndsForACause ==
  [][\A g \in DOMAIN grants : Open(g) /\ ~Open(g)' =>
       \/ g \in requested'
       \/ grants[g].expires < clock
       \/ \E c \in Tasks : /\ call[c].pc = "resolved" /\ call'[c].pc \in {"claimed", "idle"}
                           /\ Identity(call[c]) = Identity(grants[g])]_vars

KeepsValues(i) == i \in DOMAIN requests /\ requests[i].values

\* The argument values of a request that ran out undecided are removed.
ExpiredValuesCleared ==
  \A i \in 1..MaxEach :
    (KeepsValues(i) /\ requests[i].expires <= clock) ~> ~KeepsValues(i)
=============================================================================

------------------------ MODULE ApprovalGrantsProofs ------------------------
(***************************************************************************)
(* ApprovalGrants: what an approval carries, for any tasks, principals,    *)
(* lifetimes and bounds.                                                   *)
(***************************************************************************)
EXTENDS ApprovalGrants, FiniteSetTheorems, TLAPS

(***************************************************************************)
(* The rows of the two tables.                                             *)
(***************************************************************************)
\* The constants, one by one.
LEMMA Constants ==
  /\ RequestTTL \in Nat /\ DecisionTTL \in Nat /\ MintTTL \in Nat /\ Retention \in Nat
  /\ MaxEach \in Nat /\ MaxRows \in Nat /\ MaxVersion \in Nat /\ MaxVersion >= 1
  /\ MaxChanges \in Nat /\ MaxClock \in Nat
  BY ApprovalAssumption DEF ApprovalAssumption

\* What is counted from the clock is a time.
LEMMA ClockTimes ==
  ASSUME clock \in 0..MaxClock
  PROVE  /\ clock \in Times /\ clock + RequestTTL \in Times
         /\ clock + DecisionTTL \in Times /\ clock + MintTTL \in Times
  BY Constants DEF Times

\* An insert adds one row behind the others.
LEMMA Inserted ==
  ASSUME NEW T, NEW s \in Seq(T), NEW e \in T
  PROVE  /\ Append(s, e) \in Seq(T) /\ Len(Append(s, e)) = Len(s) + 1
         /\ DOMAIN s = 1..Len(s) /\ DOMAIN Append(s, e) = 1..(Len(s) + 1)
         /\ \A i \in DOMAIN s : Append(s, e)[i] = s[i]
         /\ Append(s, e)[Len(s) + 1] = e
  OBVIOUS

\* An update changes rows in their places.
LEMMA Updated ==
  ASSUME NEW T, NEW s \in Seq(T), NEW t, t \in [DOMAIN s -> T]
  PROVE  t \in Seq(T) /\ DOMAIN t = DOMAIN s /\ Len(t) = Len(s)
  OBVIOUS

\* Rows refreshed by retain keep their type, identity, decision and expiry, and
\* are open only if they were.
LEMMA RefreshedRow ==
  ASSUME NEW r \in RequestType
  PROVE  /\ Refreshed(r) \in RequestType /\ Identity(Refreshed(r)) = Identity(r)
         /\ Refreshed(r).grant = r.grant /\ Refreshed(r).expires = r.expires
         /\ Refreshed(r).status = "approved" <=> r.status = "approved"
         /\ Pending(Refreshed(r)) => Pending(r)
         /\ Refreshed(r).values => r.values /\ (Pending(r) => Pending(Refreshed(r)))
<1>1. CASE Refreshed(r) = r
  BY <1>1 DEF Refreshed, Identity, Pending, RequestType
<1>2. CASE Refreshed(r) = [r EXCEPT !.stored = FALSE, !.values = FALSE]
  BY <1>2 DEF Refreshed, Identity, Pending, RequestType
<1>3. CASE r.status = "pending" /\ Refreshed(r) = [r EXCEPT !.status = "expired", !.values = FALSE]
  BY <1>3 DEF Refreshed, Identity, Pending, RequestType
<1> QED BY <1>1, <1>2, <1>3 DEF Refreshed

\* Only the number of rows counts at a bound.
LEMMA LengthOnly ==
  ASSUME NEW T, NEW s \in Seq(T), NEW e PROVE Len(Append(s, e)) = Len(s) + 1
  OBVIOUS

\* Two rows, or a row and a call, have the same identity when they agree on the
\* principal, the behaviour and the arguments.
LEMMA SameIdentity ==
  ASSUME NEW x, NEW y
  PROVE  Identity(x) = Identity(y) <=> x.who = y.who /\ x.behavior = y.behavior /\ x.args = y.args
  BY DEF Identity

(***************************************************************************)
(* The invariant.                                                          *)
(***************************************************************************)
\* Only an open request keeps values, and one identity has one open request.
OneOpenRequest(rs) ==
  \A i \in DOMAIN rs :
    /\ rs[i].values => Pending(rs[i])
    /\ Pending(rs[i]) => \A j \in DOMAIN rs :
         Pending(rs[j]) /\ Identity(rs[j]) = Identity(rs[i]) => i = j

\* An approved request has a grant of its own, for what was reviewed.
DecidedRequests(rs, gs) ==
  \A i \in DOMAIN rs :
    /\ rs[i].status = "approved" <=> rs[i].grant # None
    /\ rs[i].grant # None =>
         /\ rs[i].grant \in DOMAIN gs /\ Identity(gs[rs[i].grant]) = Identity(rs[i])
         /\ gs[rs[i].grant].expires <= rs[i].expires
         /\ \A j \in DOMAIN rs : rs[j].grant = rs[i].grant => i = j

\* Nobody approves his own calls, neither in a grant nor in one being made.
FourEyes ==
  /\ \A g \in DOMAIN grants : grants[g].approver # grants[g].who
  /\ \A m \in minting : m.approver # m.who

\* A call bears a grant exactly between its claim and its dispatch or refusal;
\* it has the grant for itself, and the grant has carried nothing yet.
Bearing ==
  \A c \in Tasks :
    /\ call[c].grant # None <=> call[c].pc = "claimed"
    /\ call[c].grant # None =>
         /\ carried[call[c].grant] = 0 /\ call[c].grant \notin revoked
         /\ \A d \in Tasks : call[d].grant = call[c].grant => c = d

\* Only a consumed grant has carried a call, and a revoked one never did.
Spending ==
  \A g \in 1..MaxEach :
    /\ carried[g] \in {0, 1}
    /\ carried[g] = 1 => g \in DOMAIN grants /\ grants[g].consumed /\ g \notin revoked
    /\ g \in revoked => g \in DOMAIN grants /\ grants[g].consumed

ApprovalInv ==
  /\ TypeOK /\ OneOpenRequest(requests) /\ DecidedRequests(requests, grants)
  /\ DispatchAuthorized /\ FourEyes /\ Bearing /\ Spending

(***************************************************************************)
(* Grants: rows are added and marked, never rewritten.                     *)
(***************************************************************************)
\* What no step changes of a grant.
RowKept(g) ==
  /\ Identity(grants'[g]) = Identity(grants[g]) /\ grants'[g].who = grants[g].who
  /\ grants'[g].approver = grants[g].approver /\ grants'[g].expires = grants[g].expires
  /\ grants[g].consumed => grants'[g].consumed

GrantsGrow ==
  /\ grants' \in Seq(GrantType) /\ Len(grants') >= Len(grants)
  /\ \A g \in DOMAIN grants : g \in DOMAIN grants' /\ RowKept(g)

\* A table that is not touched keeps its rows.
LEMMA GrantsStay ==
  ASSUME TypeOK, grants' = grants PROVE GrantsGrow
  BY DEF GrantsGrow, RowKept, TypeOK

\* A claim or a revocation marks one grant.
LEMMA Consumes ==
  ASSUME TypeOK, NEW g \in DOMAIN grants, Consume(g)
  PROVE  /\ GrantsGrow /\ DOMAIN grants' = DOMAIN grants /\ Len(grants') = Len(grants) /\ grants'[g].consumed
         /\ \A h \in DOMAIN grants : h # g => grants'[h] = grants[h]
<1>1. grants \in [DOMAIN grants -> GrantType]
  BY DEF TypeOK
<1>2. grants[g] \in GrantType
  BY <1>1
<1>3. [grants[g] EXCEPT !.consumed = TRUE] \in GrantType
  BY <1>2 DEF GrantType
<1>4. grants' \in [DOMAIN grants -> GrantType]
  BY <1>1, <1>3 DEF Consume
<1>5. grants' \in Seq(GrantType) /\ DOMAIN grants' = DOMAIN grants /\ Len(grants') = Len(grants)
  BY <1>4, Updated DEF TypeOK
<1>6. \A h \in DOMAIN grants : h # g => grants'[h] = grants[h]
  BY <1>1 DEF Consume
<1>7. RowKept(g) /\ grants'[g].consumed
  BY <1>1, <1>2 DEF Consume, RowKept, Identity, GrantType
<1>8. \A h \in DOMAIN grants : RowKept(h)
  BY <1>6, <1>7 DEF RowKept, Identity
<1>9. Len(grants) \in Nat
  BY DEF TypeOK
<1> QED BY <1>5, <1>6, <1>7, <1>8, <1>9 DEF GrantsGrow

\* A swept row is only unlisted.
LEMMA Sweeps ==
  ASSUME TypeOK, sweep_grants
  PROVE  /\ GrantsGrow /\ DOMAIN grants' = DOMAIN grants /\ Len(grants') = Len(grants)
         /\ \A g \in DOMAIN grants : grants'[g].consumed = grants[g].consumed
<1> DEFINE swept == {g \in DOMAIN grants : Spent(g) /\ grants[g].created < clock - Retention}
<1>1. grants' = [g \in DOMAIN grants |-> IF g \in swept THEN [grants[g] EXCEPT !.stored = FALSE] ELSE grants[g]]
  BY DEF sweep_grants
<1> HIDE DEF swept
<1>2. ASSUME NEW g \in DOMAIN grants
      PROVE  /\ grants'[g] \in GrantType /\ RowKept(g) /\ grants'[g].consumed = grants[g].consumed
  <2>1. grants[g] \in GrantType
    BY DEF TypeOK
  <2>2. grants'[g] = grants[g] \/ grants'[g] = [grants[g] EXCEPT !.stored = FALSE]
    BY <1>1
  <2> QED BY <2>1, <2>2 DEF GrantType, RowKept, Identity
<1>3. grants' \in [DOMAIN grants -> GrantType]
  BY <1>1, <1>2
<1>4. grants' \in Seq(GrantType) /\ DOMAIN grants' = DOMAIN grants /\ Len(grants') = Len(grants)
  BY <1>3, Updated DEF TypeOK
<1>5. Len(grants) \in Nat
  BY DEF TypeOK
<1> QED BY <1>2, <1>4, <1>5 DEF GrantsGrow

\* A new grant comes behind the others.
LEMMA Grants ==
  ASSUME TypeOK, NEW x \in GrantType, grants' = Append(grants, x)
  PROVE  /\ GrantsGrow /\ Len(grants') = Len(grants) + 1 /\ DOMAIN grants' = 1..(Len(grants) + 1)
         /\ DOMAIN grants = 1..Len(grants) /\ grants'[Len(grants) + 1] = x
         /\ \A g \in DOMAIN grants : grants'[g] = grants[g]
<1>1. grants \in Seq(GrantType) /\ Len(grants) \in Nat
  BY DEF TypeOK
<1>2. /\ grants' \in Seq(GrantType) /\ Len(grants') = Len(grants) + 1
      /\ DOMAIN grants = 1..Len(grants) /\ DOMAIN grants' = 1..(Len(grants) + 1)
      /\ \A i \in DOMAIN grants : grants'[i] = grants[i]
      /\ grants'[Len(grants) + 1] = x
  BY <1>1, Inserted
<1> QED BY <1>1, <1>2 DEF GrantsGrow, RowKept, Identity

\* What approve and create_grant insert.
LEMMA NewGrantRow ==
  ASSUME clock \in 0..MaxClock, NEW id, id.who \in Callers, id.behavior \in 1..MaxVersion,
         id.args \in Arguments, NEW by \in Administrators, NEW until \in Times
  PROVE  /\ NewGrant(id, by, until) \in GrantType /\ NewGrant(id, by, until).approver = by
         /\ NewGrant(id, by, until).who = id.who /\ NewGrant(id, by, until).expires = until
         /\ Identity(NewGrant(id, by, until)) = Identity(id) /\ ~NewGrant(id, by, until).consumed
  BY ClockTimes DEF NewGrant, GrantType, Identity

\* approve: the grant is for what was reviewed, by somebody else, and ends with
\* the request at the latest.
LEMMA Approves ==
  ASSUME TypeOK, NEW a \in Administrators, NEW i \in DOMAIN requests, approve(a, i)
  PROVE  \E x \in GrantType :
           /\ grants' = Append(grants, x) /\ Identity(x) = Identity(requests[i])
           /\ x.expires <= requests[i].expires /\ x.approver # x.who /\ ~x.consumed
<1> DEFINE r == requests[i]
           x == NewGrant(Identity(r), a, Earlier(r.expires, clock + DecisionTTL))
<1>1. r \in RequestType
  BY DEF TypeOK
<1>2. /\ Identity(r).who = r.who /\ Identity(r).behavior = r.behavior /\ Identity(r).args = r.args
      /\ Identity(Identity(r)) = Identity(r)
  BY DEF Identity
<1>3. r.who \in Callers /\ r.behavior \in 1..MaxVersion /\ r.args \in Arguments /\ r.expires \in Times
  BY <1>1 DEF RequestType
<1>4. Earlier(r.expires, clock + DecisionTTL) \in Times /\ Earlier(r.expires, clock + DecisionTTL) <= r.expires
  BY <1>3, ClockTimes, Constants DEF Earlier, TypeOK, Times
<1>5. grants' = Append(grants, x) /\ r.who # a
  BY DEF approve
<1> HIDE DEF r
<1>6. /\ x \in GrantType /\ x.approver = a /\ x.who = Identity(r).who /\ ~x.consumed
      /\ x.expires = Earlier(r.expires, clock + DecisionTTL) /\ Identity(x) = Identity(Identity(r))
  BY <1>2, <1>3, <1>4, NewGrantRow DEF TypeOK
<1>7. Identity(x) = Identity(r) /\ x.expires <= r.expires /\ x.approver # x.who
  BY <1>2, <1>4, <1>5, <1>6
<1> HIDE DEF x
<1> QED BY <1>5, <1>6, <1>7 DEF r

\* create_grant: the grant is what the administrator's request resolved.
LEMMA Mints ==
  ASSUME TypeOK, FourEyes, create_grant, grants' # grants
  PROVE  \E x \in GrantType : grants' = Append(grants, x) /\ x.approver # x.who /\ ~x.consumed
<1>1. PICK m \in minting : grants' = Append(grants, NewGrant(m, m.approver, clock + MintTTL))
  BY DEF create_grant
<1>2. m \in [who : Callers, behavior : 1..MaxVersion, args : Arguments, approver : Administrators]
  BY DEF TypeOK
<1>3. m.who \in Callers /\ m.behavior \in 1..MaxVersion /\ m.args \in Arguments /\ m.approver \in Administrators
  BY <1>2
<1>4. clock + MintTTL \in Times /\ clock \in 0..MaxClock
  BY ClockTimes DEF TypeOK
<1> DEFINE x == NewGrant(m, m.approver, clock + MintTTL)
<1>5. x \in GrantType /\ x.approver = m.approver /\ x.who = m.who /\ ~x.consumed
  BY <1>3, <1>4, NewGrantRow
<1>6. m.approver # m.who
  BY DEF FourEyes
<1> HIDE DEF x
<1>7. grants' = Append(grants, x)
  BY <1>1 DEF x
<1> QED BY <1>5, <1>6, <1>7

(***************************************************************************)
(* Requests.                                                               *)
(***************************************************************************)
\* An undecided request may lose its values or its place, nothing else.
Lapsed(r, s) ==
  /\ Identity(s) = Identity(r) /\ s.grant = r.grant /\ s.expires = r.expires
  /\ s.status = "approved" <=> r.status = "approved"
  /\ Pending(s) => Pending(r)
  /\ s.values => r.values /\ (Pending(r) => Pending(s))

\* Requests that lapse in their places, while grants are added, keep the two
\* invariants of the table.
LEMMA Lapses ==
  ASSUME TypeOK, OneOpenRequest(requests), DecidedRequests(requests, grants), GrantsGrow,
         NEW rs \in [DOMAIN requests -> RequestType], \A i \in DOMAIN requests : Lapsed(requests[i], rs[i])
  PROVE  /\ rs \in Seq(RequestType) /\ DOMAIN rs = DOMAIN requests /\ Len(rs) = Len(requests)
         /\ OneOpenRequest(rs) /\ DecidedRequests(rs, grants')
<1>1. rs \in Seq(RequestType) /\ DOMAIN rs = DOMAIN requests /\ Len(rs) = Len(requests)
  BY Updated DEF TypeOK
<1>2. OneOpenRequest(rs)
  BY <1>1 DEF OneOpenRequest, Lapsed
<1>3. DecidedRequests(rs, grants')
  <2> SUFFICES ASSUME NEW i \in DOMAIN rs
               PROVE  /\ rs[i].status = "approved" <=> rs[i].grant # None
                      /\ rs[i].grant # None =>
                           /\ rs[i].grant \in DOMAIN grants' /\ Identity(grants'[rs[i].grant]) = Identity(rs[i])
                           /\ grants'[rs[i].grant].expires <= rs[i].expires
                           /\ \A j \in DOMAIN rs : rs[j].grant = rs[i].grant => i = j
    BY DEF DecidedRequests
  <2>1. Lapsed(requests[i], rs[i]) /\ i \in DOMAIN requests
    BY <1>1
  <2>2. rs[i].status = "approved" <=> rs[i].grant # None
    BY <2>1 DEF Lapsed, DecidedRequests
  <2>3. ASSUME rs[i].grant # None
        PROVE  /\ rs[i].grant \in DOMAIN grants' /\ Identity(grants'[rs[i].grant]) = Identity(rs[i])
               /\ grants'[rs[i].grant].expires <= rs[i].expires
    <3>1. /\ rs[i].grant \in DOMAIN grants /\ Identity(grants[rs[i].grant]) = Identity(requests[i])
          /\ grants[rs[i].grant].expires <= requests[i].expires
      BY <2>1, <2>3 DEF Lapsed, DecidedRequests
    <3> QED BY <2>1, <3>1 DEF GrantsGrow, RowKept, Lapsed
  <2>4. ASSUME rs[i].grant # None, NEW j \in DOMAIN rs, rs[j].grant = rs[i].grant PROVE i = j
    BY <1>1, <2>1, <2>4 DEF Lapsed, DecidedRequests
  <2> QED BY <2>2, <2>3, <2>4
<1> QED BY <1>1, <1>2, <1>3

\* A row that stays as it is.
LEMMA Unlapsed == ASSUME NEW r PROVE Lapsed(r, r)
  BY DEF Lapsed

\* retain: the rows lapse as time has it, and the call's request is added unless
\* one of its identity is open.
LEMMA Retains ==
  ASSUME TypeOK, OneOpenRequest(requests), DecidedRequests(requests, grants), GrantsGrow,
         NEW c \in Tasks, call[c].pc = "held"
  PROVE  /\ retain(c) \in Seq(RequestType)
         /\ OneOpenRequest(retain(c)) /\ DecidedRequests(retain(c), grants')
<1> DEFINE kept == [i \in DOMAIN requests |-> Refreshed(requests[i])]
           id == Identity(call[c])
<1>1. kept \in [DOMAIN requests -> RequestType] /\ \A i \in DOMAIN requests : Lapsed(requests[i], kept[i])
  <2>1. \A i \in DOMAIN requests : requests[i] \in RequestType
    BY DEF TypeOK
  <2> QED BY <2>1, RefreshedRow DEF Lapsed
<1>2. /\ kept \in Seq(RequestType) /\ OneOpenRequest(kept) /\ DecidedRequests(kept, grants')
  <2> HIDE DEF kept
  <2> QED BY <1>1, Lapses
<1>3. CASE \E i \in DOMAIN kept : Pending(kept[i]) /\ Identity(kept[i]) = id
  BY <1>2, <1>3 DEF retain
<1>4. CASE ~\E i \in DOMAIN kept : Pending(kept[i]) /\ Identity(kept[i]) = id
  <2> DEFINE x == NewRequest(c)
  <2>1. retain(c) = Append(kept, x)
    BY <1>4 DEF retain
  <2>2. call[c] \in CallType
    BY DEF TypeOK, Idle
  <2>3. /\ x \in RequestType /\ Identity(x) = id /\ Pending(x) /\ x.grant = None
        /\ x.status = "pending"
    BY <2>2, ClockTimes, Constants DEF NewRequest, CallType, RequestType, Identity, Pending, TypeOK, None
  <2> HIDE DEF kept, x, id
  <2> DEFINE n == Len(kept) + 1
             rs == Append(kept, x)
  <2>4. /\ rs \in Seq(RequestType) /\ DOMAIN kept = 1..Len(kept) /\ DOMAIN rs = 1..n
        /\ \A i \in DOMAIN kept : rs[i] = kept[i]
        /\ rs[n] = x
    BY <1>2, <2>3, Inserted
  <2>5. n \notin DOMAIN kept /\ DOMAIN rs = DOMAIN kept \union {n}
    BY <1>2, <2>4
  <2> HIDE DEF rs, n
  <2>6. OneOpenRequest(rs)
    BY <1>2, <1>4, <2>3, <2>4, <2>5 DEF OneOpenRequest
  <2>7. DecidedRequests(rs, grants')
    BY <1>2, <2>3, <2>4, <2>5 DEF DecidedRequests
  <2> QED BY <2>1, <2>4, <2>6, <2>7 DEF rs
<1> QED BY <1>3, <1>4

\* approve: the row gets the number of the new grant, which no other row has.
LEMMA ApproveDecides ==
  ASSUME TypeOK, OneOpenRequest(requests), DecidedRequests(requests, grants),
         NEW a \in Administrators, NEW i \in DOMAIN requests, approve(a, i)
  PROVE  /\ requests' \in Seq(RequestType) /\ Len(requests') = Len(requests)
         /\ OneOpenRequest(requests') /\ DecidedRequests(requests', grants')
<1> DEFINE n == Len(grants) + 1
           v == [requests[i] EXCEPT !.status = "approved", !.values = FALSE, !.grant = n]
<1>0. PICK r \in RequestType : r = requests[i]
  BY DEF TypeOK
<1>1. requests' = [requests EXCEPT ![i] = v] /\ Pending(requests[i])
  BY DEF approve, Decidable
<1>2. PICK x \in GrantType :
        /\ grants' = Append(grants, x) /\ Identity(x) = Identity(requests[i])
        /\ x.expires <= requests[i].expires
  BY Approves
<1>3. /\ DOMAIN grants' = 1..n /\ DOMAIN grants = 1..Len(grants) /\ grants'[n] = x /\ Len(grants) \in Nat
      /\ \A g \in DOMAIN grants : grants'[g] = grants[g]
  BY <1>2, Grants DEF TypeOK
<1>4. n \in Nat /\ n # None /\ n \notin DOMAIN grants /\ n \in DOMAIN grants' /\ DOMAIN grants \subseteq DOMAIN grants'
  BY <1>3 DEF None
<1> HIDE DEF n
<1>5. /\ v \in RequestType /\ Identity(v) = Identity(requests[i]) /\ v.grant = n
      /\ v.expires = requests[i].expires /\ v.status = "approved" /\ ~v.values
  <2> DEFINE w == [r EXCEPT !.status = "approved", !.values = FALSE, !.grant = n]
  <2>1. /\ w \in RequestType /\ w.who = r.who /\ w.behavior = r.behavior /\ w.args = r.args /\ w.grant = n
        /\ w.expires = r.expires /\ w.status = "approved" /\ ~w.values
    BY <1>4 DEF RequestType
  <2>2. v = w
    BY <1>0
  <2> HIDE DEF v, w
  <2>3. Identity(w) = Identity(r)
    BY <2>1, SameIdentity
  <2> QED BY <1>0, <2>1, <2>2, <2>3
<1>6. ~Pending(v)
  BY <1>5 DEF Pending
<1> HIDE DEF v
<1>7. requests' \in [DOMAIN requests -> RequestType] /\ requests \in [DOMAIN requests -> RequestType]
  BY <1>1, <1>5 DEF TypeOK
<1>8. /\ requests' \in Seq(RequestType) /\ DOMAIN requests' = DOMAIN requests /\ Len(requests') = Len(requests)
  BY <1>7, Updated DEF TypeOK
<1>9. requests'[i] = v /\ \A j \in DOMAIN requests : j # i => requests'[j] = requests[j]
  BY <1>1, <1>7
<1>10. OneOpenRequest(requests')
  BY <1>5, <1>6, <1>8, <1>9 DEF OneOpenRequest
<1>11. DecidedRequests(requests', grants')
  <2>1. ASSUME NEW j \in DOMAIN requests
        PROVE  /\ requests'[j].status = "approved" <=> requests'[j].grant # None
               /\ requests'[j].grant # None =>
                    /\ requests'[j].grant \in DOMAIN grants' /\ Identity(grants'[requests'[j].grant]) = Identity(requests'[j])
                    /\ grants'[requests'[j].grant].expires <= requests'[j].expires
    BY <1>2, <1>3, <1>4, <1>5, <1>9 DEF DecidedRequests
  <2>2. ASSUME NEW j \in DOMAIN requests, NEW k \in DOMAIN requests,
               requests'[j].grant # None, requests'[k].grant = requests'[j].grant
        PROVE  j = k
    BY <1>4, <1>5, <1>9, <2>2 DEF DecidedRequests
  <2> QED BY <1>8, <2>1, <2>2 DEF DecidedRequests
<1> QED BY <1>8, <1>10, <1>11

\* deny closes an open row.
LEMMA DenyLapses ==
  ASSUME TypeOK, NEW i \in DOMAIN requests, deny(i)
  PROVE  requests' \in [DOMAIN requests -> RequestType] /\ \A j \in DOMAIN requests : Lapsed(requests[j], requests'[j])
<1> DEFINE v == [requests[i] EXCEPT !.status = "denied", !.values = FALSE]
<1>1. PICK r \in RequestType : r = requests[i]
  BY DEF TypeOK
<1>2. requests' = [requests EXCEPT ![i] = v] /\ Pending(requests[i])
  BY DEF deny, Decidable
<1>3. v \in RequestType /\ Lapsed(requests[i], v)
  <2> DEFINE w == [r EXCEPT !.status = "denied", !.values = FALSE]
  <2>1. w \in RequestType /\ Lapsed(r, w)
    BY <1>1, <1>2 DEF RequestType, Lapsed, Pending, Identity
  <2> QED BY <1>1, <2>1
<1> HIDE DEF v
<1>4. requests \in [DOMAIN requests -> RequestType]
  BY DEF TypeOK
<1>5. requests' \in [DOMAIN requests -> RequestType]
  BY <1>2, <1>3, <1>4
<1>6. requests'[i] = v /\ \A j \in DOMAIN requests : j # i => requests'[j] = requests[j]
  BY <1>2, <1>4
<1> QED BY <1>3, <1>5, <1>6, Unlapsed

\* The value sweeper takes the values of rows that ran out.
LEMMA ClearLapses ==
  ASSUME TypeOK, clear_expired_values
  PROVE  requests' \in [DOMAIN requests -> RequestType] /\ \A i \in DOMAIN requests : Lapsed(requests[i], requests'[i])
<1>1. requests' = [i \in DOMAIN requests |->
                     IF requests[i].expires <= clock THEN [requests[i] EXCEPT !.values = FALSE] ELSE requests[i]]
  BY DEF clear_expired_values
<1>2. ASSUME NEW i \in DOMAIN requests PROVE requests'[i] \in RequestType /\ Lapsed(requests[i], requests'[i])
  <2>1. requests[i] \in RequestType
    BY DEF TypeOK
  <2>2. requests'[i] = requests[i] \/ requests'[i] = [requests[i] EXCEPT !.values = FALSE]
    BY <1>1
  <2>3. CASE requests'[i] = requests[i]
    BY <2>1, <2>3, Unlapsed
  <2>4. CASE requests'[i] = [requests[i] EXCEPT !.values = FALSE]
    BY <2>1, <2>4 DEF RequestType, Lapsed, Pending, Identity
  <2> QED BY <2>2, <2>3, <2>4
<1> QED BY <1>1, <1>2

(***************************************************************************)
(* Calls, and what they bear.                                              *)
(***************************************************************************)
\* A step of one task leaves the other tasks' calls alone.
LEMMA CallBecomes ==
  ASSUME TypeOK, NEW c \in Tasks, NEW v \in CallType \union {Idle}, call' = [call EXCEPT ![c] = v]
  PROVE  /\ call' \in [Tasks -> CallType \union {Idle}] /\ call'[c] = v
         /\ \A d \in Tasks : d # c => call'[d] = call[d]
  BY DEF TypeOK

\* A task without a call bears nothing.
LEMMA IdleCall == Idle.pc = "idle" /\ Idle.grant = None
  BY DEF Idle

\* A call past resolve_tool.
LEMMA CallRow ==
  ASSUME TypeOK, NEW c \in Tasks, call[c].pc # "idle" PROVE call[c] \in CallType
  BY IdleCall DEF TypeOK

\* check_approval without a matching grant holds the call.
LEMMA Holds ==
  ASSUME TypeOK, NEW c \in Tasks, call[c].pc = "resolved", call' = [call EXCEPT ![c].pc = "held"]
  PROVE  /\ call' \in [Tasks -> CallType \union {Idle}]
         /\ call'[c].pc = "held" /\ call'[c].grant = call[c].grant
         /\ \A d \in Tasks : d # c => call'[d] = call[d]
<1> DEFINE v == [call[c] EXCEPT !.pc = "held"]
<1>1. call[c] \in CallType
  BY CallRow
<1>2. v \in CallType /\ v.pc = "held" /\ v.grant = call[c].grant
  BY <1>1 DEF CallType
<1>3. call' = [call EXCEPT ![c] = v]
  OBVIOUS
<1> HIDE DEF v
<1> QED BY <1>2, <1>3, CallBecomes

\* A claimed grant is written into the call with the time the claim began.
LEMMA Claims ==
  ASSUME TypeOK, NEW c \in Tasks, call[c].pc = "resolved", NEW g \in DOMAIN grants,
         call' = [call EXCEPT ![c] = [@ EXCEPT !.pc = "claimed", !.grant = g, !.at = clock]]
  PROVE  /\ call' \in [Tasks -> CallType \union {Idle}]
         /\ call'[c].pc = "claimed" /\ call'[c].grant = g /\ call'[c].at = clock
         /\ Identity(call'[c]) = Identity(call[c]) /\ call'[c].who = call[c].who
         /\ \A d \in Tasks : d # c => call'[d] = call[d]
<1>1. PICK r \in CallType : r = call[c]
  BY CallRow
<1> DEFINE v == [r EXCEPT !.pc = "claimed", !.grant = g, !.at = clock]
<1>2. g \in Nat /\ clock \in Times
  BY ClockTimes DEF TypeOK
<1>3. /\ v \in CallType /\ v.pc = "claimed" /\ v.grant = g /\ v.at = clock
      /\ v.who = r.who /\ v.behavior = r.behavior /\ v.args = r.args
  BY <1>2 DEF CallType
<1>4. call' = [call EXCEPT ![c] = v]
  BY <1>1
<1> HIDE DEF v
<1>5. Identity(v) = Identity(r)
  BY <1>3, SameIdentity
<1> QED BY <1>1, <1>3, <1>4, <1>5, CallBecomes

\* A step that gives no call a grant, revokes none and dispatches nothing.
LEMMA NothingSpent ==
  ASSUME TypeOK, DispatchAuthorized, Bearing, Spending, GrantsGrow, UNCHANGED <<carried, revoked>>,
         \A c \in Tasks : call'[c] = call[c] \/ (call'[c].grant = None /\ call'[c].pc # "claimed")
  PROVE  DispatchAuthorized' /\ Bearing' /\ Spending'
<1>1. DispatchAuthorized'
  <2> SUFFICES ASSUME NEW c \in Tasks, call'[c].pc = "claimed"
               PROVE  /\ call'[c].grant \in DOMAIN grants' /\ grants'[call'[c].grant].consumed
                      /\ Identity(grants'[call'[c].grant]) = Identity(call'[c])
                      /\ grants'[call'[c].grant].approver # call'[c].who
                      /\ call'[c].at < grants'[call'[c].grant].expires
    BY DEF DispatchAuthorized
  <2>1. call'[c] = call[c]
    OBVIOUS
  <2> QED BY <2>1 DEF DispatchAuthorized, GrantsGrow, RowKept
<1>2. Bearing'
  BY DEF Bearing
<1>3. Spending'
  BY DEF Spending, GrantsGrow, RowKept
<1> QED BY <1>1, <1>2, <1>3

\* claim_grant: an open grant has carried nothing, is not revoked, and no call
\* bears it, so the call that consumes it has it for itself.
LEMMA ClaimSpends ==
  ASSUME TypeOK, DispatchAuthorized, Bearing, Spending, FourEyes, UNCHANGED <<carried, revoked>>,
         NEW c \in Tasks, call[c].pc = "resolved", NEW g \in Chosen(c), Consume(g),
         call' = [call EXCEPT ![c] = [@ EXCEPT !.pc = "claimed", !.grant = g, !.at = clock]]
  PROVE  DispatchAuthorized' /\ Bearing' /\ Spending'
<1>1. /\ g \in DOMAIN grants /\ ~grants[g].consumed
      /\ Identity(grants[g]) = Identity(call[c]) /\ grants[g].expires > clock
  BY DEF Chosen, Candidates, Matches, Open
<1>2. /\ GrantsGrow /\ DOMAIN grants' = DOMAIN grants /\ grants'[g].consumed
      /\ \A h \in DOMAIN grants : h # g => grants'[h] = grants[h]
  BY <1>1, Consumes
<1>3. /\ call'[c].pc = "claimed" /\ call'[c].grant = g /\ call'[c].at = clock
      /\ Identity(call'[c]) = Identity(call[c]) /\ call'[c].who = call[c].who
      /\ \A d \in Tasks : d # c => call'[d] = call[d]
  BY <1>1, Claims
<1>4. g \in 1..MaxEach /\ g # None
  BY <1>1, Constants DEF TypeOK, Fits, None
<1>5. carried[g] = 0 /\ g \notin revoked
  BY <1>1, <1>4 DEF Spending
<1>6. \A d \in Tasks : call[d].grant # g
  BY <1>1, <1>4 DEF Bearing, DispatchAuthorized
<1>7. DispatchAuthorized'
  <2> SUFFICES ASSUME NEW d \in Tasks, call'[d].pc = "claimed"
               PROVE  /\ call'[d].grant \in DOMAIN grants' /\ grants'[call'[d].grant].consumed
                      /\ Identity(grants'[call'[d].grant]) = Identity(call'[d])
                      /\ grants'[call'[d].grant].approver # call'[d].who
                      /\ call'[d].at < grants'[call'[d].grant].expires
    BY DEF DispatchAuthorized
  <2>1. CASE d = c
    <3>1. RowKept(g) /\ g \in DOMAIN grants'
      BY <1>1, <1>2 DEF GrantsGrow
    <3>2. grants[g].who = call[c].who /\ grants[g].approver # grants[g].who
      BY <1>1, SameIdentity DEF FourEyes
    <3>3. grants'[g].expires > clock /\ clock \in Int /\ grants'[g].expires \in Int
      <4>1. grants[g] \in GrantType /\ clock \in Int
        BY <1>1 DEF TypeOK
      <4>2. grants[g].expires \in Int
        BY <4>1, Constants DEF GrantType, Times
      <4> QED BY <1>1, <3>1, <4>1, <4>2 DEF RowKept
    <3> QED BY <1>1, <1>2, <1>3, <2>1, <3>1, <3>2, <3>3 DEF RowKept
  <2>2. CASE d # c
    <3>1. call'[d] = call[d]
      BY <1>3, <2>2
    <3>2. PICK h : h = call[d].grant
      OBVIOUS
    <3>3. /\ h \in DOMAIN grants /\ grants[h].consumed /\ Identity(grants[h]) = Identity(call[d])
          /\ grants[h].approver # call[d].who /\ call[d].at < grants[h].expires
      BY <3>1, <3>2 DEF DispatchAuthorized
    <3>4. h \in DOMAIN grants' /\ RowKept(h)
      BY <1>2, <3>3 DEF GrantsGrow
    <3> QED BY <3>1, <3>2, <3>3, <3>4 DEF RowKept
  <2> QED BY <2>1, <2>2
<1>8. Bearing'
  BY <1>3, <1>4, <1>5, <1>6 DEF Bearing
<1>9. Spending'
  BY <1>2 DEF Spending, GrantsGrow, RowKept
<1> QED BY <1>7, <1>8, <1>9

\* dispatch: the call that bears the grant is the first it carries.
LEMMA DispatchSpends ==
  ASSUME TypeOK, DispatchAuthorized, Bearing, Spending, NEW c \in Tasks, Dispatch(c)
  PROVE  DispatchAuthorized' /\ Bearing' /\ Spending' /\ carried' \in [1..MaxEach -> Nat]
<1> DEFINE g == call[c].grant
<1>1. g \in DOMAIN grants /\ grants[g].consumed /\ g # None /\ carried[g] = 0 /\ g \notin revoked
  BY DEF Dispatch, DispatchAuthorized, Bearing
<1>2. g \in 1..MaxEach
  BY <1>1, Constants DEF TypeOK, Fits
<1>3. carried' = [carried EXCEPT ![g] = @ + 1] /\ UNCHANGED <<grants, revoked>> /\ call' = [call EXCEPT ![c] = Idle]
  BY DEF Dispatch
<1>4. call'[c] = Idle /\ \A d \in Tasks : d # c => call'[d] = call[d]
  BY <1>3, CallBecomes
<1>5. \A d \in Tasks : d # c => call[d].grant # g
  BY <1>1 DEF Bearing
<1> HIDE DEF g
<1>6. carried'[g] = 1 /\ \A h \in 1..MaxEach : h # g => carried'[h] = carried[h]
  BY <1>1, <1>2, <1>3 DEF TypeOK
<1>7. carried' \in [1..MaxEach -> Nat]
  BY <1>2, <1>3 DEF TypeOK
<1>8. DispatchAuthorized'
  BY <1>3, <1>4, IdleCall DEF DispatchAuthorized
<1>9. Bearing'
  <2>1. \A d \in Tasks : d # c /\ call[d].grant # None => call[d].grant \in 1..MaxEach
    BY Constants DEF Bearing, DispatchAuthorized, TypeOK, Fits
  <2> QED BY <1>3, <1>4, <1>5, <1>6, <2>1, IdleCall DEF Bearing
<1>10. Spending'
  BY <1>1, <1>3, <1>6 DEF Spending
<1> QED BY <1>7, <1>8, <1>9, <1>10

\* revoke_grant confirms only the revocation of an open grant.
LEMMA RevokeSpends ==
  ASSUME TypeOK, DispatchAuthorized, Bearing, Spending, NEW g \in DOMAIN grants, revoke_grant(g)
  PROVE  DispatchAuthorized' /\ Bearing' /\ Spending'
<1>1. ~grants[g].consumed /\ Consume(g) /\ revoked' = revoked \union {g} /\ UNCHANGED <<call, carried>>
  BY DEF revoke_grant, Open
<1>2. /\ GrantsGrow /\ DOMAIN grants' = DOMAIN grants /\ grants'[g].consumed
  BY <1>1, Consumes
<1>3. g \in 1..MaxEach /\ g # None
  BY Constants DEF TypeOK, Fits, None
<1>4. \A d \in Tasks : call[d].grant # g
  BY <1>1, <1>3 DEF Bearing, DispatchAuthorized
<1>5. DispatchAuthorized'
  BY <1>1, <1>2 DEF DispatchAuthorized, GrantsGrow, RowKept
<1>6. Bearing'
  BY <1>1, <1>4 DEF Bearing
<1>7. Spending'
  BY <1>1, <1>2, <1>3 DEF Spending, GrantsGrow, RowKept
<1> QED BY <1>5, <1>6, <1>7

(***************************************************************************)
(* The theorems.                                                           *)
(***************************************************************************)
\* The tables start empty.
LEMMA ApprovalInitially == Init => ApprovalInv
<1> SUFFICES ASSUME Init PROVE ApprovalInv
  OBVIOUS
<1>1. TypeOK
  <2>1. requests \in Seq(RequestType) /\ grants \in Seq(GrantType) /\ Len(requests) = 0 /\ Len(grants) = 0
    BY DEF Init
  <2>2. Fits(requests, grants)
    BY <2>1, Constants DEF Fits
  <2> QED BY <2>1, <2>2, Constants DEF Init, TypeOK
<1>2. OneOpenRequest(requests) /\ DecidedRequests(requests, grants)
  BY DEF Init, OneOpenRequest, DecidedRequests
<1>3. DispatchAuthorized /\ FourEyes /\ Bearing /\ Spending
  BY IdleCall DEF Init, DispatchAuthorized, FourEyes, Bearing, Spending
<1> QED BY <1>1, <1>2, <1>3 DEF ApprovalInv

\* Steps of a task.
LEMMA TaskSteps ==
  ASSUME ApprovalInv, NEW c \in Tasks,
         \/ \E p \in Callers, args \in Arguments : Invoke(c, p, args)
         \/ claim_grant(c) \/ ClaimFails(c) \/ RefuseAfterClaim(c) \/ Dispatch(c) \/ Hold(c)
  PROVE  ApprovalInv'
<1> USE DEF ApprovalInv
<1>1. GrantsGrow /\ Len(grants') = Len(grants) /\ FourEyes' /\ DOMAIN grants' = DOMAIN grants
  <2>1. grants' = grants \/ \E g \in DOMAIN grants : Consume(g)
    BY DEF Invoke, claim_grant, ClaimFails, RefuseAfterClaim, Dispatch, Hold, Chosen, Candidates
  <2>2. GrantsGrow /\ Len(grants') = Len(grants) /\ DOMAIN grants' = DOMAIN grants
    BY <2>1, Consumes, GrantsStay
  <2>3. minting' = minting
    BY DEF Invoke, claim_grant, ClaimFails, RefuseAfterClaim, Dispatch, Hold
  <2> QED BY <2>2, <2>3 DEF FourEyes, GrantsGrow, RowKept
<1>2. CASE Hold(c)
  <2>1. requests' = requests \/ (requests' = retain(c) /\ Fits(retain(c), grants))
    BY <1>2 DEF Hold
  <2>2. /\ requests' \in Seq(RequestType) /\ Fits(requests', grants')
        /\ OneOpenRequest(requests') /\ DecidedRequests(requests', grants')
    <3>1. CASE requests' = requests
      <4>1. grants' = grants
        BY <1>2 DEF Hold
      <4> QED BY <3>1, <4>1 DEF TypeOK
    <3>2. CASE requests' = retain(c) /\ Fits(retain(c), grants)
      <4>1. call[c].pc = "held" /\ grants' = grants
        BY <1>2 DEF Hold
      <4> QED BY <1>1, <3>2, <4>1, Retains
    <3> QED BY <2>1, <3>1, <3>2
  <2>3. call' = [call EXCEPT ![c] = Idle] /\ UNCHANGED <<clock, version, grants, minting, requested, revoked, carried, changes>>
    BY <1>2 DEF Hold
  <2>4. /\ call' \in [Tasks -> CallType \union {Idle}] /\ call'[c] = Idle
        /\ \A d \in Tasks : d # c => call'[d] = call[d]
    BY <2>3, CallBecomes
  <2>5. TypeOK'
    BY <2>2, <2>3, <2>4 DEF TypeOK
  <2>6. DispatchAuthorized' /\ Bearing' /\ Spending'
    BY <1>1, <2>3, <2>4, IdleCall, NothingSpent
  <2> QED BY <1>1, <2>2, <2>5, <2>6
<1>3. CASE ~Hold(c)
  <2>1. UNCHANGED <<clock, version, requests, minting, requested, revoked, changes>>
    BY <1>3 DEF Invoke, claim_grant, ClaimFails, RefuseAfterClaim, Dispatch
  <2>2. OneOpenRequest(requests') /\ DecidedRequests(requests', grants')
    <3>1. requests \in [DOMAIN requests -> RequestType]
      BY DEF TypeOK
    <3> QED BY <1>1, <2>1, <3>1, Lapses, Unlapsed
  <2>3. Fits(requests', grants') /\ requested' \subseteq DOMAIN grants' /\ revoked' \subseteq requested' /\ grants' \in Seq(GrantType)
    BY <1>1, <2>1 DEF Fits, TypeOK, GrantsGrow
  <2>4. call' \in [Tasks -> CallType \union {Idle}] /\ carried' \in [1..MaxEach -> Nat]
        /\ DispatchAuthorized' /\ Bearing' /\ Spending'
    <3>1. ASSUME NEW p \in Callers, NEW args \in Arguments, Invoke(c, p, args)
          PROVE  call' \in [Tasks -> CallType \union {Idle}] /\ carried' \in [1..MaxEach -> Nat]
                 /\ DispatchAuthorized' /\ Bearing' /\ Spending'
      <4> DEFINE v == [pc |-> "resolved", who |-> p, behavior |-> version, args |-> args, at |-> 0, grant |-> None]
      <4>1. call' = [call EXCEPT ![c] = v] /\ version # Unlisted /\ UNCHANGED <<carried, revoked>>
        BY <3>1 DEF Invoke
      <4>2. v \in CallType /\ v.grant = None /\ v.pc # "claimed"
        <5>1. version \in 1..MaxVersion /\ 0 \in Times /\ None \in Nat
          BY <4>1, Constants DEF TypeOK, Unlisted, Times, None
        <5> QED BY <5>1 DEF CallType
      <4> HIDE DEF v
      <4>3. /\ call' \in [Tasks -> CallType \union {Idle}] /\ call'[c] = v
            /\ \A d \in Tasks : d # c => call'[d] = call[d]
        BY <4>1, <4>2, CallBecomes
      <4>4. DispatchAuthorized' /\ Bearing' /\ Spending'
        BY <1>1, <4>1, <4>2, <4>3, NothingSpent
      <4> QED BY <4>1, <4>3, <4>4 DEF TypeOK
    <3>2. CASE claim_grant(c)
      <4>1. call[c].pc = "resolved" /\ UNCHANGED <<carried, revoked>>
        BY <3>2 DEF claim_grant
      <4>2. CASE call' = [call EXCEPT ![c].pc = "held"]
        <5>1. call[c].grant = None
          BY <4>1 DEF Bearing
        <5>2. /\ call' \in [Tasks -> CallType \union {Idle}]
              /\ call'[c].pc = "held" /\ call'[c].grant = call[c].grant
              /\ \A d \in Tasks : d # c => call'[d] = call[d]
          BY <4>1, <4>2, Holds
        <5>3. DispatchAuthorized' /\ Bearing' /\ Spending'
          BY <1>1, <4>1, <5>1, <5>2, NothingSpent
        <5> QED BY <4>1, <5>2, <5>3 DEF TypeOK
      <4>3. ASSUME NEW g \in Chosen(c), Consume(g),
                   call' = [call EXCEPT ![c] = [@ EXCEPT !.pc = "claimed", !.grant = g, !.at = clock]]
            PROVE  call' \in [Tasks -> CallType \union {Idle}] /\ carried' \in [1..MaxEach -> Nat]
                   /\ DispatchAuthorized' /\ Bearing' /\ Spending'
        <5>1. g \in DOMAIN grants
          BY DEF Chosen, Candidates
        <5>2. call' \in [Tasks -> CallType \union {Idle}]
          BY <4>1, <4>3, <5>1, Claims
        <5>3. DispatchAuthorized' /\ Bearing' /\ Spending'
          BY <4>1, <4>3, ClaimSpends
        <5> QED BY <4>1, <5>2, <5>3 DEF TypeOK
      <4> QED BY <3>2, <4>2, <4>3 DEF claim_grant
    <3>3. CASE ClaimFails(c) \/ RefuseAfterClaim(c)
      <4>1. call' = [call EXCEPT ![c] = Idle] /\ UNCHANGED <<carried, revoked>>
        BY <3>3 DEF ClaimFails, RefuseAfterClaim
      <4>2. /\ call' \in [Tasks -> CallType \union {Idle}] /\ call'[c] = Idle
            /\ \A d \in Tasks : d # c => call'[d] = call[d]
        BY <4>1, CallBecomes
      <4>3. DispatchAuthorized' /\ Bearing' /\ Spending'
        BY <1>1, <4>1, <4>2, IdleCall, NothingSpent
      <4> QED BY <4>1, <4>2, <4>3 DEF TypeOK
    <3>4. CASE Dispatch(c)
      <4>1. call' \in [Tasks -> CallType \union {Idle}]
        BY <3>4, CallBecomes DEF Dispatch
      <4> QED BY <3>4, <4>1, DispatchSpends
    <3> QED BY <1>3, <3>1, <3>2, <3>3, <3>4
  <2>5. TypeOK'
    BY <2>1, <2>3, <2>4 DEF TypeOK
  <2> QED BY <1>1, <2>2, <2>4, <2>5
<1> QED BY <1>2, <1>3

\* Decisions on requests, and the sweep of their values.
LEMMA RequestSteps ==
  ASSUME ApprovalInv,
         \/ clear_expired_values
         \/ \E i \in DOMAIN requests : deny(i) \/ \E a \in Administrators : approve(a, i)
  PROVE  ApprovalInv'
<1> USE DEF ApprovalInv
<1>0. UNCHANGED <<clock, version, call, minting, requested, revoked, carried, changes>>
  BY DEF clear_expired_values, deny, approve
<1>1. /\ GrantsGrow /\ FourEyes' /\ requests' \in Seq(RequestType) /\ Fits(requests', grants')
      /\ OneOpenRequest(requests') /\ DecidedRequests(requests', grants')
  <2>1. CASE clear_expired_values \/ \E i \in DOMAIN requests : deny(i)
    <3>1. grants' = grants
      BY <2>1 DEF clear_expired_values, deny
    <3>2. GrantsGrow
      BY <3>1, GrantsStay
    <3>3. requests' \in [DOMAIN requests -> RequestType] /\ \A i \in DOMAIN requests : Lapsed(requests[i], requests'[i])
      BY <2>1, DenyLapses, ClearLapses
    <3>4. /\ requests' \in Seq(RequestType) /\ Len(requests') = Len(requests)
          /\ OneOpenRequest(requests') /\ DecidedRequests(requests', grants')
      BY <3>2, <3>3, Lapses
    <3> QED BY <1>0, <3>1, <3>2, <3>4 DEF FourEyes, Fits, TypeOK
  <2>2. ASSUME NEW i \in DOMAIN requests, NEW a \in Administrators, approve(a, i)
        PROVE  /\ GrantsGrow /\ FourEyes' /\ requests' \in Seq(RequestType) /\ Fits(requests', grants')
               /\ OneOpenRequest(requests') /\ DecidedRequests(requests', grants')
    <3>1. PICK x \in GrantType : grants' = Append(grants, x) /\ x.approver # x.who
      BY <2>2, Approves
    <3>2. /\ GrantsGrow /\ Len(grants') = Len(grants) + 1 /\ DOMAIN grants' = 1..(Len(grants) + 1)
          /\ DOMAIN grants = 1..Len(grants) /\ grants'[Len(grants) + 1] = x
          /\ \A g \in DOMAIN grants : grants'[g] = grants[g]
      BY <3>1, Grants
    <3>3. FourEyes'
      BY <1>0, <3>1, <3>2 DEF FourEyes, TypeOK
    <3>4. /\ requests' \in Seq(RequestType) /\ Len(requests') = Len(requests)
          /\ OneOpenRequest(requests') /\ DecidedRequests(requests', grants')
      BY <2>2, ApproveDecides
    <3>5. Fits(requests', grants')
      <4>1. Len(Append(grants, None)) = Len(grants) + 1
        BY LengthOnly DEF TypeOK
      <4> QED BY <2>2, <3>2, <3>4, <4>1 DEF approve, Fits
    <3> QED BY <3>2, <3>3, <3>4, <3>5
  <2> QED BY <2>1, <2>2
<1>2. DispatchAuthorized' /\ Bearing' /\ Spending'
  BY <1>0, <1>1, NothingSpent
<1>3. TypeOK'
  BY <1>0, <1>1 DEF TypeOK, GrantsGrow
<1> QED BY <1>1, <1>2, <1>3

\* An administrator's grants and revocations, and the sweep of grants.
LEMMA GrantSteps ==
  ASSUME ApprovalInv,
         \/ \E a \in Administrators, p \in Callers, args \in Arguments : ResolveGrant(a, p, args)
         \/ create_grant \/ sweep_grants
         \/ \E g \in DOMAIN grants : revoke_grant(g) \/ RevokeFails(g)
  PROVE  ApprovalInv'
<1> USE DEF ApprovalInv
<1>0. UNCHANGED <<clock, version, call, requests, carried, changes>>
  BY DEF ResolveGrant, create_grant, sweep_grants, revoke_grant, RevokeFails
<1> DEFINE Mintings == [who : Callers, behavior : 1..MaxVersion, args : Arguments, approver : Administrators]
<1>1. /\ GrantsGrow /\ FourEyes' /\ minting' \subseteq Mintings /\ Fits(requests', grants')
      /\ requested' \subseteq DOMAIN grants' /\ revoked' \subseteq requested' /\ DispatchAuthorized' /\ Bearing' /\ Spending'
  <2>1. ASSUME NEW a \in Administrators, NEW p \in Callers, NEW args \in Arguments, ResolveGrant(a, p, args)
        PROVE  /\ GrantsGrow /\ FourEyes' /\ minting' \subseteq Mintings /\ Fits(requests', grants')
               /\ requested' \subseteq DOMAIN grants' /\ revoked' \subseteq requested' /\ DispatchAuthorized' /\ Bearing' /\ Spending'
    <3> DEFINE m == [who |-> p, behavior |-> version, args |-> args, approver |-> a]
    <3>1. minting' = {m} /\ p # a /\ version # Unlisted /\ UNCHANGED <<grants, requested, revoked>>
      BY <2>1 DEF ResolveGrant
    <3>2. m \in Mintings /\ m.approver # m.who
      <4>1. version \in 1..MaxVersion
        BY <3>1, Constants DEF TypeOK, Unlisted
      <4> QED BY <3>1, <4>1
    <3> HIDE DEF m
    <3>3. GrantsGrow
      BY <3>1, GrantsStay
    <3>4. DispatchAuthorized' /\ Bearing' /\ Spending'
      BY <1>0, <3>1, <3>3, NothingSpent
    <3> QED BY <1>0, <3>1, <3>2, <3>3, <3>4 DEF FourEyes, TypeOK
  <2>2. CASE create_grant /\ grants' # grants
    <3>1. PICK x \in GrantType : grants' = Append(grants, x) /\ x.approver # x.who
      BY <2>2, Mints
    <3>2. /\ GrantsGrow /\ Len(grants') = Len(grants) + 1 /\ DOMAIN grants' = 1..(Len(grants) + 1)
          /\ DOMAIN grants = 1..Len(grants) /\ grants'[Len(grants) + 1] = x
          /\ \A g \in DOMAIN grants : grants'[g] = grants[g]
      BY <3>1, Grants
    <3>3. minting' = {} /\ requested' = requested /\ revoked' = revoked
      BY <2>2 DEF create_grant
    <3>4. FourEyes'
      BY <3>1, <3>2, <3>3 DEF FourEyes, TypeOK
    <3>5. Fits(requests', grants')
      <4>1. Len(Append(grants, None)) = Len(grants) + 1
        BY LengthOnly DEF TypeOK
      <4> QED BY <1>0, <2>2, <3>2, <4>1 DEF create_grant, Fits
    <3>6. DispatchAuthorized' /\ Bearing' /\ Spending'
      BY <1>0, <3>2, <3>3, NothingSpent
    <3>7. requested' \subseteq DOMAIN grants' /\ revoked' \subseteq requested'
      BY <3>2, <3>3 DEF TypeOK, GrantsGrow
    <3> QED BY <3>2, <3>3, <3>4, <3>5, <3>6, <3>7
  <2>5. CASE create_grant /\ grants' = grants
    <3>1. GrantsGrow /\ minting' = {} /\ requested' = requested /\ revoked' = revoked
      BY <2>5, GrantsStay DEF create_grant
    <3>2. DispatchAuthorized' /\ Bearing' /\ Spending'
      BY <1>0, <3>1, NothingSpent
    <3> QED BY <1>0, <2>5, <3>1, <3>2 DEF FourEyes, TypeOK
  <2>3. CASE sweep_grants
    <3>1. GrantsGrow /\ DOMAIN grants' = DOMAIN grants /\ Len(grants') = Len(grants)
      BY <2>3, Sweeps
    <3>2. minting' = minting /\ requested' = requested /\ revoked' = revoked
      BY <2>3 DEF sweep_grants
    <3>3. DispatchAuthorized' /\ Bearing' /\ Spending'
      BY <1>0, <3>1, <3>2, NothingSpent
    <3> QED BY <1>0, <3>1, <3>2, <3>3 DEF FourEyes, GrantsGrow, RowKept, Fits, TypeOK
  <2>4. ASSUME NEW g \in DOMAIN grants, revoke_grant(g)
        PROVE  /\ GrantsGrow /\ FourEyes' /\ minting' \subseteq Mintings /\ Fits(requests', grants')
               /\ requested' \subseteq DOMAIN grants' /\ revoked' \subseteq requested' /\ DispatchAuthorized' /\ Bearing' /\ Spending'
    <3>1. GrantsGrow /\ DOMAIN grants' = DOMAIN grants /\ Len(grants') = Len(grants)
      BY <2>4, Consumes DEF revoke_grant
    <3>2. minting' = minting /\ requested' = requested \union {g} /\ revoked' = revoked \union {g}
      BY <2>4 DEF revoke_grant
    <3>3. DispatchAuthorized' /\ Bearing' /\ Spending'
      BY <2>4, RevokeSpends
    <3> QED BY <1>0, <3>1, <3>2, <3>3 DEF FourEyes, GrantsGrow, RowKept, Fits, TypeOK
  <2>6. ASSUME NEW g \in DOMAIN grants, RevokeFails(g)
        PROVE  /\ GrantsGrow /\ FourEyes' /\ minting' \subseteq Mintings /\ Fits(requests', grants')
               /\ requested' \subseteq DOMAIN grants' /\ revoked' \subseteq requested'
               /\ DispatchAuthorized' /\ Bearing' /\ Spending'
    <3>1. GrantsGrow /\ DOMAIN grants' = DOMAIN grants /\ Len(grants') = Len(grants)
      BY <2>6, Consumes DEF RevokeFails
    <3>2. minting' = minting /\ requested' = requested \union {g} /\ revoked' = revoked
      BY <2>6 DEF RevokeFails
    <3>3. DispatchAuthorized' /\ Bearing' /\ Spending'
      BY <1>0, <3>1, <3>2, NothingSpent
    <3> QED BY <1>0, <3>1, <3>2, <3>3 DEF FourEyes, GrantsGrow, RowKept, Fits, TypeOK
  <2> QED BY <2>1, <2>2, <2>3, <2>4, <2>5, <2>6
<1>2. OneOpenRequest(requests') /\ DecidedRequests(requests', grants')
  <2>1. requests \in [DOMAIN requests -> RequestType]
    BY DEF TypeOK
  <2> QED BY <1>0, <1>1, <2>1, Lapses, Unlapsed
<1>3. TypeOK'
  BY <1>0, <1>1 DEF TypeOK, GrantsGrow
<1> QED BY <1>1, <1>2, <1>3

\* Every step keeps the invariant.
LEMMA ApprovalInductive == ApprovalInv /\ [Next]_vars => ApprovalInv'
<1> SUFFICES ASSUME ApprovalInv, [Next]_vars PROVE ApprovalInv'
  OBVIOUS
<1>1. CASE Tick \/ CatalogChange \/ UNCHANGED vars
  <2>1. UNCHANGED <<call, requests, grants, minting, requested, revoked, carried>>
    BY <1>1 DEF Tick, CatalogChange, vars
  <2>2. clock' \in 0..MaxClock /\ version' \in 0..MaxVersion /\ changes' \in 0..MaxChanges
    BY <1>1, Constants DEF Tick, CatalogChange, vars, ApprovalInv, TypeOK, Unlisted
  <2>3. TypeOK'
    BY <2>1, <2>2 DEF ApprovalInv, TypeOK
  <2>4. OneOpenRequest(requests') /\ DecidedRequests(requests', grants')
    BY <2>1 DEF ApprovalInv
  <2>5. FourEyes' /\ DispatchAuthorized' /\ Bearing' /\ Spending'
    BY <2>1 DEF ApprovalInv, FourEyes, DispatchAuthorized, Bearing, Spending
  <2> QED BY <2>3, <2>4, <2>5 DEF ApprovalInv
<1>2. ASSUME NEW c \in Tasks,
             \/ \E p \in Callers, args \in Arguments : Invoke(c, p, args)
             \/ claim_grant(c) \/ ClaimFails(c) \/ RefuseAfterClaim(c) \/ Dispatch(c) \/ Hold(c)
      PROVE  ApprovalInv'
  BY <1>2, TaskSteps
<1>3. CASE \/ clear_expired_values
           \/ \E i \in DOMAIN requests : deny(i) \/ \E a \in Administrators : approve(a, i)
  BY <1>3, RequestSteps
<1>4. CASE \/ \E a \in Administrators, p \in Callers, args \in Arguments : ResolveGrant(a, p, args)
           \/ create_grant \/ sweep_grants
           \/ \E g \in DOMAIN grants : revoke_grant(g) \/ RevokeFails(g)
  BY <1>4, GrantSteps
<1> QED BY <1>1, <1>2, <1>3, <1>4 DEF Next

\* A call that goes on to its tool has spent a grant for its own principal,
\* behaviour and arguments that another principal gave and that had not run out.
THEOREM ApprovalDispatchAuthorized == Spec => []DispatchAuthorized
<1>1. ApprovalInv => DispatchAuthorized
  BY DEF ApprovalInv
<1> QED BY <1>1, ApprovalInitially, ApprovalInductive, PTL DEF Spec

\* Whatever is decided, swept or resent, a request's grant is for what was
\* reviewed, ends with the request at the latest and belongs to no other.
THEOREM ApprovalDecisionBindsGrant == Spec => []DecisionBindsGrant
<1>1. ApprovalInv => DecisionBindsGrant
  BY DEF ApprovalInv, DecisionBindsGrant, OneOpenRequest, DecidedRequests
<1> QED BY <1>1, ApprovalInitially, ApprovalInductive, PTL DEF Spec

\* A grant carries one call at most, and none once its revocation is confirmed,
\* however many tasks race for it.
THEOREM ApprovalGrantUsedOnce == Spec => []GrantUsedOnce
<1>1. ApprovalInv => GrantUsedOnce
  <2> SUFFICES ASSUME ApprovalInv, NEW g \in DOMAIN grants
               PROVE  carried[g] + Cardinality({c \in Tasks : call[c].grant = g}) <= IF g \in revoked THEN 0 ELSE 1
    BY DEF GrantUsedOnce
  <2> DEFINE bearers == {c \in Tasks : call[c].grant = g}
  <2>1. g \in 1..MaxEach /\ g # None
    BY Constants DEF ApprovalInv, TypeOK, Fits, None
  <2>2. carried[g] \in {0, 1} /\ (g \in revoked => carried[g] = 0)
    BY <2>1 DEF ApprovalInv, Spending
  <2>3. CASE bearers = {}
    <3>1. Cardinality(bearers) = 0
      BY <2>3, FS_EmptySet
    <3> QED BY <2>2, <3>1
  <2>4. CASE bearers # {}
    <3>1. PICK c \in Tasks : call[c].grant = g
      BY <2>4
    <3>2. carried[g] = 0 /\ g \notin revoked /\ bearers = {c}
      BY <2>1, <3>1 DEF ApprovalInv, Bearing
    <3>3. Cardinality(bearers) = 1
      BY <3>2, FS_Singleton
    <3> QED BY <3>2, <3>3
  <2> QED BY <2>3, <2>4
<1> QED BY <1>1, ApprovalInitially, ApprovalInductive, PTL DEF Spec

\* An open grant stops being one only in a claim of its identity, in a revocation
\* that was asked for, whatever the administrator was told of it, or after it
\* ran out: no sweep and no later decision takes it away.
THEOREM ApprovalGrantEndsForACause == Spec => OpenGrantEndsForACause
<1> DEFINE Cause(g) ==
             \/ g \in requested'
             \/ grants[g].expires < clock
             \/ \E c \in Tasks : /\ call[c].pc = "resolved" /\ call'[c].pc \in {"claimed", "idle"}
                                 /\ Identity(call[c]) = Identity(grants[g])
           A == \A g \in DOMAIN grants : Open(g) /\ ~Open(g)' => Cause(g)
<1>1. ASSUME ApprovalInv, [Next]_vars PROVE [A]_vars
  <2> SUFFICES ASSUME Next, NEW g \in DOMAIN grants, grants[g].stored, ~grants[g].consumed,
                      ~(grants'[g].stored /\ ~grants'[g].consumed)
               PROVE  Cause(g)
    BY <1>1 DEF Open
  <2>0. TypeOK /\ FourEyes
    BY <1>1 DEF ApprovalInv
  <2>1. grants' # grants
    OBVIOUS
  <2>2. ASSUME NEW c \in Tasks, NEW h \in Chosen(c), Consume(h), claim_grant(c) \/ ClaimFails(c)
        PROVE  Cause(g)
    <3>1. h \in DOMAIN grants /\ Identity(grants[h]) = Identity(call[c])
      BY DEF Chosen, Candidates, Matches
    <3>2. h = g
      BY <2>0, <2>2, <3>1, Consumes
    <3>3. call[c].pc = "resolved" /\ call'[c].pc \in {"claimed", "idle"}
      <4>1. call[c].pc = "resolved"
        BY <2>2 DEF claim_grant, ClaimFails
      <4>2. CASE ClaimFails(c)
        <5>1. call'[c] = Idle
          BY <2>0, <4>2, CallBecomes DEF ClaimFails
        <5> QED BY <4>1, <5>1, IdleCall
      <4>3. CASE claim_grant(c)
        <5>1. Candidates(c) # {}
          BY DEF Chosen
        <5>2. PICK k \in Chosen(c) :
                call' = [call EXCEPT ![c] = [@ EXCEPT !.pc = "claimed", !.grant = k, !.at = clock]]
          BY <4>3, <5>1 DEF claim_grant
        <5>3. k \in DOMAIN grants
          BY DEF Chosen, Candidates
        <5> QED BY <2>0, <4>1, <5>2, <5>3, Claims
      <4> QED BY <2>2, <4>2, <4>3
    <3> QED BY <3>1, <3>2, <3>3
  <2>3. ASSUME NEW h \in DOMAIN grants, revoke_grant(h) \/ RevokeFails(h) PROVE Cause(g)
    <3>1. h = g
      BY <2>0, <2>3, Consumes DEF revoke_grant, RevokeFails
    <3> QED BY <2>3, <3>1 DEF revoke_grant, RevokeFails
  <2>4. CASE sweep_grants
    <3> DEFINE swept == {k \in DOMAIN grants : Spent(k) /\ grants[k].created < clock - Retention}
    <3>1. grants' = [k \in DOMAIN grants |-> IF k \in swept THEN [grants[k] EXCEPT !.stored = FALSE] ELSE grants[k]]
      BY <2>4 DEF sweep_grants
    <3>2. g \in swept
      <4> HIDE DEF swept
      <4> QED BY <3>1
    <3> QED BY <3>2 DEF Spent
  <2>5. ASSUME NEW x \in GrantType, grants' = Append(grants, x) PROVE Cause(g)
    BY <2>0, <2>5, Grants
  <2>6. CASE create_grant
    BY <2>0, <2>1, <2>5, <2>6, Mints
  <2>7. ASSUME NEW a \in Administrators, NEW i \in DOMAIN requests, approve(a, i) PROVE Cause(g)
    BY <2>0, <2>5, <2>7, Approves
  <2>8. ASSUME NEW c \in Tasks, claim_grant(c) \/ ClaimFails(c) PROVE \E h \in Chosen(c) : Consume(h)
    BY <2>1, <2>8 DEF claim_grant, ClaimFails
  <2> QED BY <2>1, <2>2, <2>3, <2>4, <2>6, <2>7, <2>8 DEF Next, Tick, CatalogChange, Invoke, RefuseAfterClaim,
        Dispatch, Hold, deny, ResolveGrant, clear_expired_values
<1>2. ApprovalInv /\ [Next]_vars => [A]_vars
  BY <1>1
<1> QED BY <1>2, ApprovalInitially, ApprovalInductive, PTL DEF Spec, OpenGrantEndsForACause, A, Cause
=============================================================================

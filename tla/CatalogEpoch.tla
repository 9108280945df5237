---------------------------- MODULE CatalogEpoch ----------------------------
(***************************************************************************)
(* One replica's tool catalog: publications bracketed by the shared        *)
(* ToolCatalogEpoch (waygate-mcp/src/catalog_changes.rs), durable catalog  *)
(* commits that any replica makes, and optimistic tools/list readers that  *)
(* assemble the catalog piece by piece and keep it only when nothing moved *)
(* (stable_list_visible_tools_with, waygate-mcp/src/server.rs).            *)
(*                                                                         *)
(* The tools of an upstream server are resolved as one batch, with a check *)
(* of its own around it (resolve_discovery_batch, waygate-upstream/src/    *)
(* pool/discovery.rs); a server whose batch is refused is left out. Every  *)
(* load and store of the shared counters is a step of its own.             *)
(***************************************************************************)
EXTENDS Integers, FiniteSets

CONSTANTS
  Readers,      \* tools/list requests in flight
  Publishers,   \* tasks that publish serving state
  Serving,      \* pieces of in-process serving state: lanes, manifests, policy
  Durable,      \* rows of the durable catalog
  Servers,      \* the pieces of each upstream server; the rest belong to all
  Unread,       \* a piece a reader has not loaded
  Missing,      \* a piece that was left out of the list
  MaxChanges,   \* bound: publications and durable commits
  MaxErrors,    \* bound: the counted failures after which no attempt begins
  Retries       \* MAX_CATALOG_SNAPSHOT_RETRIES

Pieces == Serving \union Durable

\* The server list, the built-ins and the policy: read before any server.
Shared == Pieces \ UNION Servers

ASSUME EpochAssumption ==
  /\ IsFiniteSet(Publishers)
  /\ Serving \intersect Durable = {}
  /\ Servers \subseteq SUBSET Pieces /\ {} \notin Servers /\ Shared \subseteq Serving
  /\ \A v, w \in Servers : v = w \/ v \intersect w = {}
  /\ Unread \notin Nat /\ Missing \notin Nat /\ Unread # Missing
  /\ MaxChanges \in Nat /\ MaxErrors \in Nat /\ Retries \in Nat

VARIABLES
  content,         \* content[x]: the version of piece x
  active,          \* active_changes
  epoch,           \* the generation in the watch channel
  generation,      \* catalog_discovery_generation
  observed,        \* the generation the replica's poll last saw, -1 before the first
  errors,          \* catalog_read_error_generation
  changes,
  ppc,             \* ppc[p]: where publisher p is
  rpc,             \* rpc[r]: where reader r is
  attempt,         \* attempt[r]: attempts begun by the retry loop
  durable_before, errors_before, local_generation,   \* what r's attempt sampled
  server,          \* server[r]: the server r is listing, {} between servers
  batch_epoch, batch_durable,                        \* what r's batch sampled
  loaded,          \* loaded[r]: the pieces r has read
  base             \* base[r]: the catalog when stable_generation returned to r

published == <<content, active, epoch, generation, observed, errors, changes, ppc>>
sampled   == <<attempt, durable_before, errors_before, local_generation>>
batch     == <<server, batch_epoch, batch_durable>>
reading   == <<rpc, sampled, batch, loaded, base>>
vars      == <<published, reading>>

Nothing == [x \in Pieces |-> Unread]

Init ==
  /\ content = [x \in Pieces |-> 0]
  /\ active = 0 /\ epoch = 0 /\ generation = 0 /\ observed = -1 /\ errors = 0 /\ changes = 0
  /\ ppc = [p \in Publishers |-> "idle"]
  /\ rpc = [r \in Readers |-> "idle"] /\ attempt = [r \in Readers |-> 0]
  /\ durable_before = [r \in Readers |-> 0] /\ errors_before = [r \in Readers |-> 0]
  /\ local_generation = [r \in Readers |-> 0]
  /\ server = [r \in Readers |-> {}]
  /\ batch_epoch = [r \in Readers |-> 0] /\ batch_durable = [r \in Readers |-> 0]
  /\ loaded = [r \in Readers |-> Nothing] /\ base = [r \in Readers |-> Nothing]

(***************************************************************************)
(* Publishing.                                                             *)
(***************************************************************************)
Move(p, next) == ppc' = [ppc EXCEPT ![p] = next]

begin_change(p) ==
  /\ ppc[p] = "idle" /\ changes < MaxChanges
  /\ active' = active + 1 /\ changes' = changes + 1
  /\ Move(p, "begun")
  /\ UNCHANGED <<content, epoch, generation, observed, errors, reading>>

\* One piece of the publication becomes visible.
Publish(p, x) ==
  /\ ppc[p] \in {"begun", "writing"}
  /\ content' = [content EXCEPT ![x] = changes]
  /\ Move(p, "writing")
  /\ UNCHANGED <<active, epoch, generation, observed, errors, changes, reading>>

\* commit(): the generation advances first.
mark_changed(p) ==
  /\ ppc[p] = "writing"
  /\ epoch' = epoch + 1
  /\ Move(p, "marked")
  /\ UNCHANGED <<content, active, generation, observed, errors, changes, reading>>

\* The end of commit(), or the drop of a publication that changed nothing.
finish(p) ==
  /\ ppc[p] \in {"begun", "marked"}
  /\ active' = active - 1
  /\ Move(p, "idle")
  /\ UNCHANGED <<content, epoch, generation, observed, errors, changes, reading>>

\* Some replica commits a change of catalog rows; a trigger of the same
\* transaction advances the generation. It fires once per row: the values are
\* only compared for equality, so one advance stands for them.
advance_catalog_discovery_generation(rows) ==
  /\ changes < MaxChanges
  /\ changes' = changes + 1
  /\ content' = [x \in Pieces |-> IF x \in rows THEN changes' ELSE content[x]]
  /\ generation' = generation + 1
  /\ UNCHANGED <<active, epoch, observed, errors, ppc, reading>>

\* The poll notices the commit and wakes this replica's sessions.
observe_catalog_generation ==
  /\ observed # generation
  /\ epoch' = epoch + 1 /\ observed' = generation
  /\ UNCHANGED <<content, active, generation, errors, changes, ppc, reading>>

(***************************************************************************)
(* Reading.                                                                *)
(***************************************************************************)
Go(r, next) == rpc' = [rpc EXCEPT ![r] = next]

\* The loop's next turn, or its end.
Retry(r) == Go(r, IF attempt[r] < Retries THEN "turn" ELSE "refused")

list_tools(r) ==
  /\ rpc[r] = "idle"
  /\ Go(r, "turn") /\ attempt' = [attempt EXCEPT ![r] = 0]
  /\ UNCHANGED <<published, durable_before, errors_before, local_generation, batch, loaded, base>>

\* The durable generation and the failure count are sampled; a failed generation read ends the request.
begin_attempt(r) ==
  /\ rpc[r] = "turn"
  /\ \/ /\ errors < MaxErrors
        /\ Go(r, "probing") /\ attempt' = [attempt EXCEPT ![r] = @ + 1]
        /\ durable_before' = [durable_before EXCEPT ![r] = generation]
        /\ errors_before' = [errors_before EXCEPT ![r] = errors]
     \/ Go(r, "refused") /\ UNCHANGED <<attempt, durable_before, errors_before>>
  /\ loaded' = [loaded EXCEPT ![r] = Nothing] /\ base' = [base EXCEPT ![r] = Nothing]
  /\ UNCHANGED <<published, local_generation, batch>>

\* stable_generation(): no publication, the generation, still no publication.
stable_generation(r) ==
  /\ \/ /\ rpc[r] = "probing" /\ UNCHANGED <<local_generation, base>>
        /\ IF active = 0 THEN Go(r, "sampling") ELSE Retry(r)
     \/ /\ rpc[r] = "sampling" /\ Go(r, "confirming")
        /\ local_generation' = [local_generation EXCEPT ![r] = epoch] /\ UNCHANGED base
     \/ /\ rpc[r] = "confirming" /\ UNCHANGED local_generation
        /\ IF active = 0
           THEN Go(r, "loading") /\ base' = [base EXCEPT ![r] = content]
           ELSE Retry(r) /\ UNCHANGED base
  /\ UNCHANGED <<published, attempt, durable_before, errors_before, batch, loaded>>

\* list_visible_tools_with: a server is taken up once the server list is known.
next_server(r, v) ==
  /\ rpc[r] = "loading" /\ server[r] = {}
  /\ \A x \in Shared : loaded[r][x] # Unread
  /\ \A x \in v : loaded[r][x] = Unread
  /\ Go(r, "naming") /\ server' = [server EXCEPT ![r] = v]
  /\ UNCHANGED <<published, sampled, batch_epoch, batch_durable, loaded, base>>

\* The pieces are read one after another: what all servers share, then each
\* server's serving state (the names are read before its batch is opened)
\* and, with the batch open, its rows.
load(r, x) ==
  /\ \/ rpc[r] = "loading" /\ x \in Shared
     \/ rpc[r] = "naming" /\ x \in server[r] \intersect Serving
     \/ rpc[r] = "resolving" /\ x \in server[r]
  /\ loaded[r][x] = Unread
  /\ loaded' = [loaded EXCEPT ![r][x] = content[x]]
  /\ UNCHANGED <<published, rpc, sampled, batch, base>>

\* `let Ok(resolved) = list_discovery_tools(..) else continue`: the server
\* contributes nothing.
Skip(r) ==
  /\ loaded' = [loaded EXCEPT ![r] = [x \in Pieces |-> IF x \in server[r] THEN Missing
                                                       ELSE loaded[r][x]]]
  /\ server' = [server EXCEPT ![r] = {}]
  /\ batch_epoch' = [batch_epoch EXCEPT ![r] = 0]
  /\ batch_durable' = [batch_durable EXCEPT ![r] = 0]
  /\ Go(r, "loading")

Counted == errors' = errors + 1

\* resolve_discovery_batch samples the epoch, as stable_generation() does ...
open_batch(r) ==
  /\ \/ /\ rpc[r] = "naming" /\ active = 0 /\ Go(r, "opening")
        /\ UNCHANGED <<batch, loaded>>
     \/ /\ rpc[r] = "opening" /\ Go(r, "opened")
        /\ batch_epoch' = [batch_epoch EXCEPT ![r] = epoch]
        /\ UNCHANGED <<server, batch_durable, loaded>>
     \/ /\ rpc[r] = "opened" /\ active = 0 /\ Go(r, "dating")
        /\ UNCHANGED <<batch, loaded>>
     \/ /\ rpc[r] \in {"naming", "opened"} /\ active # 0 /\ Skip(r)
  /\ UNCHANGED <<published, sampled, base>>

\* ... and the durable generation. Refusing here, as above, is not counted.
date_batch(r) ==
  /\ rpc[r] = "dating"
  /\ \/ /\ Go(r, "resolving")
        /\ batch_durable' = [batch_durable EXCEPT ![r] = generation]
        /\ UNCHANGED <<server, batch_epoch, loaded>>
     \/ Skip(r)
  /\ UNCHANGED <<published, sampled, base>>

\* A row that cannot be read: its tool is left out and the failure is counted.
load_fails(r, x) ==
  /\ rpc[r] = "resolving" /\ x \in server[r] \intersect Durable /\ loaded[r][x] = Unread
  /\ loaded' = [loaded EXCEPT ![r][x] = Missing]
  /\ Counted
  /\ UNCHANGED <<content, active, epoch, generation, observed, changes, ppc, rpc, sampled,
                 batch, base>>

\* Reviews that cannot be read, or fewer rows than names, refuse the batch.
batch_fails(r) ==
  /\ rpc[r] = "resolving"
  /\ Skip(r) /\ Counted
  /\ UNCHANGED <<content, active, epoch, generation, observed, changes, ppc, sampled, base>>

\* The batch is kept when no publication is active, ...
close_batch(r) ==
  /\ \/ /\ rpc[r] = "resolving" /\ \A x \in server[r] : loaded[r][x] # Unread
        /\ IF active = 0 THEN Go(r, "closing") /\ UNCHANGED <<batch, loaded, errors>>
                         ELSE Skip(r) /\ Counted
     \/ /\ rpc[r] = "closing"
        /\ IF epoch = batch_epoch[r] THEN Go(r, "closed") /\ UNCHANGED <<batch, loaded, errors>>
                                     ELSE Skip(r) /\ Counted
     \/ /\ rpc[r] = "closed"
        /\ IF active = 0 THEN Go(r, "keeping") /\ UNCHANGED <<batch, loaded, errors>>
                         ELSE Skip(r) /\ Counted
  /\ UNCHANGED <<content, active, epoch, generation, observed, changes, ppc, sampled, base>>

\* ... and the durable generation is the one it began with; when that cannot
\* be read, the server is left out and nothing is counted.
keep_batch(r) ==
  /\ rpc[r] = "keeping"
  /\ \/ /\ generation = batch_durable[r] /\ Go(r, "loading")
        /\ server' = [server EXCEPT ![r] = {}]
        /\ batch_epoch' = [batch_epoch EXCEPT ![r] = 0]
        /\ batch_durable' = [batch_durable EXCEPT ![r] = 0]
        /\ UNCHANGED <<loaded, errors>>
     \/ generation # batch_durable[r] /\ Skip(r) /\ Counted
     \/ Skip(r) /\ UNCHANGED errors
  /\ UNCHANGED <<content, active, epoch, generation, observed, changes, ppc, sampled, base>>

\* Mutant: the durable generation is not compared again.
end_attempt_LocalOnly(r) ==
  /\ rpc[r] = "loading" /\ \A x \in Pieces : loaded[r][x] # Unread
  /\ \/ errors = errors_before[r] /\ Go(r, "checking")
     \/ errors # errors_before[r] /\ Retry(r)
     \/ Go(r, "refused")
  /\ UNCHANGED <<published, sampled, batch, loaded, base>>

\* The durable generation and the error count are compared ...
end_attempt(r) ==
  /\ rpc[r] = "loading" /\ \A x \in Pieces : loaded[r][x] # Unread
  /\ \/ generation = durable_before[r] /\ errors = errors_before[r] /\ Go(r, "checking")
     \/ ~(generation = durable_before[r] /\ errors = errors_before[r]) /\ Retry(r)
     \/ Go(r, "refused")
  /\ UNCHANGED <<published, sampled, batch, loaded, base>>

\* ... and is_stable(): no publication, the same generation, no publication.
is_stable(r) ==
  /\ \/ /\ rpc[r] = "checking"
        /\ IF active = 0 THEN Go(r, "comparing") ELSE Retry(r)
     \/ /\ rpc[r] = "comparing"
        /\ IF epoch = local_generation[r] THEN Go(r, "settling") ELSE Retry(r)
     \/ /\ rpc[r] = "settling"
        /\ IF active = 0 THEN Go(r, "served") ELSE Retry(r)
  /\ UNCHANGED <<published, sampled, batch, loaded, base>>

\* The answer is sent, or the caller is told to retry.
Answer(r) ==
  /\ rpc[r] \in {"served", "refused"}
  /\ Go(r, "idle")
  /\ loaded' = [loaded EXCEPT ![r] = Nothing] /\ base' = [base EXCEPT ![r] = Nothing]
  /\ UNCHANGED <<published, sampled, batch>>

PublisherStep(p) ==
  begin_change(p) \/ (\E x \in Serving : Publish(p, x)) \/ mark_changed(p) \/ finish(p)

ReaderStep(r) ==
  \/ list_tools(r) \/ begin_attempt(r) \/ stable_generation(r)
  \/ (\E v \in Servers : next_server(r, v)) \/ (\E x \in Pieces : load(r, x))
  \/ open_batch(r) \/ date_batch(r)
  \/ (\E x \in Durable : load_fails(r, x)) \/ batch_fails(r)
  \/ close_batch(r) \/ keep_batch(r)
  \/ end_attempt(r) \/ is_stable(r) \/ Answer(r)

Next ==
  \/ \E p \in Publishers : PublisherStep(p)
  \/ \E r \in Readers : ReaderStep(r)
  \/ \E rows \in SUBSET Durable \ {{}} : advance_catalog_discovery_generation(rows)
  \/ observe_catalog_generation

Spec == Init /\ [][Next]_vars

(***************************************************************************)
(* Properties.                                                             *)
(***************************************************************************)
\* Every counter, sample and piece keeps its type.
TypeOK ==
  /\ content \in [Pieces -> Nat]
  /\ active \in Int /\ epoch \in Nat /\ generation \in Nat /\ observed \in Int
  /\ errors \in Nat /\ changes \in Nat
  /\ ppc \in [Publishers -> {"idle", "begun", "writing", "marked"}]
  /\ rpc \in [Readers -> {"idle", "turn", "probing", "sampling", "confirming", "loading",
                          "naming", "opening", "opened", "dating", "resolving", "closing",
                          "closed", "keeping", "checking", "comparing", "settling", "served", "refused"}]
  /\ attempt \in [Readers -> Nat] /\ durable_before \in [Readers -> Nat]
  /\ errors_before \in [Readers -> Nat] /\ local_generation \in [Readers -> Nat]
  /\ server \in [Readers -> Servers \union {{}}]
  /\ batch_epoch \in [Readers -> Nat] /\ batch_durable \in [Readers -> Nat]
  /\ loaded \in [Readers -> [Pieces -> Nat \union {Unread, Missing}]]
  /\ base \in [Readers -> [Pieces -> Nat \union {Unread}]]

LeftOut(r, v) == \A x \in v : loaded[r][x] = Missing

\* A served tools/list shows one catalog: every piece it shows, in-process
\* and durable, is as it was at one instant of the request, and it shows a
\* server with all of its pieces or not at all. No tool of a server it shows
\* is left out because its row could not be read. (A server whose batch was
\* refused without being counted is left out of an answer that stands.)
ServedIsOneCatalog ==
  \A r \in Readers : rpc[r] = "served" =>
    \A x \in Pieces : \/ loaded[r][x] = base[r][x]
                      \/ \E v \in Servers : x \in v /\ LeftOut(r, v)

\* A publication that ends, committed or dropped, takes its marker down:
\* readers are refused only while someone is publishing.
MarkersMatchPublishers ==
  active = Cardinality({p \in Publishers : ppc[p] # "idle"})
=============================================================================

------------------------- MODULE CatalogEpochProofs -------------------------
(***************************************************************************)
(* For any number of publishers, readers, pieces and retries: a publication *)
(* marker is up exactly while someone publishes, and a tools/list that is  *)
(* answered shows one catalog, each server whole or not at all.            *)
(***************************************************************************)
EXTENDS CatalogEpoch, FiniteSetTheorems, TLAPS

Busy == {p \in Publishers : ppc[p] # "idle"}

Writing == \E p \in Publishers : ppc[p] = "writing"

\* What a reader sampled lies in the past.
SamplesArePast ==
  \A r \in Readers :
    /\ local_generation[r] <= epoch
    /\ durable_before[r] <= generation
    /\ errors_before[r] <= errors

\* Piece x belongs to a server that r left out.
Gone(r, x) == \E v \in Servers : x \in v /\ LeftOut(r, v)

LoadedAs(r, kind) == \A x \in kind : loaded[r][x] = base[r][x] \/ Gone(r, x)

LoadingAs(r, kind) == \A x \in kind : loaded[r][x] \in {Unread, base[r][x]} \/ Gone(r, x)

StillBase(r, kind) == \A x \in kind : content[x] = base[r][x]

\* Serving state that is no longer what the reader started from is being
\* written, or has advanced the epoch.
ServingReads(r) ==
  \/ StillBase(r, Serving) /\ LoadingAs(r, Serving)
  \/ local_generation[r] < epoch
  \/ Writing

\* Rows that are no longer what the reader started from have advanced the
\* durable generation, and a row that is missing from a server that is shown
\* has been counted.
DurableReads(r) ==
  /\ StillBase(r, Durable) \/ durable_before[r] < generation
  /\ LoadingAs(r, Durable) \/ durable_before[r] < generation \/ errors_before[r] < errors

\* Where a reader is between its probe and its final check.
Listing == {"loading", "naming", "opening", "opened", "dating", "resolving", "closing",
            "closed", "keeping"}

\* What the checks a reader has passed say of what it has loaded.
AgreesFor(r) ==
  /\ rpc[r] \in {"probing", "sampling", "confirming"} => loaded[r] = Nothing
  /\ rpc[r] \in Listing => ServingReads(r) /\ DurableReads(r)
  /\ rpc[r] = "checking" =>
       /\ LoadedAs(r, Serving) \/ local_generation[r] < epoch \/ Writing
       /\ LoadedAs(r, Durable)
  /\ rpc[r] = "comparing" =>
       /\ LoadedAs(r, Serving) \/ local_generation[r] < epoch
       /\ LoadedAs(r, Durable)
  /\ rpc[r] \in {"settling", "served"} => LoadedAs(r, Pieces)

ReadsAgree == \A r \in Readers : AgreesFor(r)

EpochInv == TypeOK /\ MarkersMatchPublishers /\ SamplesArePast /\ ReadsAgree

(***************************************************************************)
(* Types.                                                                  *)
(***************************************************************************)
\* The initial state is well typed.
LEMMA InitTyped == Init => TypeOK
BY DEF Init, TypeOK, Nothing

\* Every step of publishers, readers, commits and the poll keeps the types.
LEMMA NextTyped == TypeOK /\ [Next]_vars => TypeOK'
<1> SUFFICES ASSUME TypeOK, [Next]_vars PROVE TypeOK'
  OBVIOUS
<1> USE DEF TypeOK
<1>1. CASE UNCHANGED vars
  BY <1>1 DEF vars, published, reading, sampled, batch
<1>2. ASSUME NEW p \in Publishers, PublisherStep(p) PROVE TypeOK'
  <2>1. CASE begin_change(p)
    BY <2>1 DEF begin_change, Move, reading, sampled, batch
  <2>2. CASE mark_changed(p)
    BY <2>2 DEF mark_changed, Move, reading, sampled, batch
  <2>3. CASE finish(p)
    BY <2>3 DEF finish, Move, reading, sampled, batch
  <2>4. ASSUME NEW x \in Serving, Publish(p, x) PROVE TypeOK'
    BY <2>4 DEF Publish, Move, reading, sampled, batch, Pieces
  <2> QED BY <1>2, <2>1, <2>2, <2>3, <2>4 DEF PublisherStep
<1>3. ASSUME NEW r \in Readers, ReaderStep(r) PROVE TypeOK'
  <2> DEFINE Places == {"idle", "turn", "probing", "sampling", "confirming", "loading",
                        "naming", "opening", "opened", "dating", "resolving", "closing",
                        "closed", "keeping", "checking", "comparing", "settling", "served",
                        "refused"}
             Lists == [Pieces -> Nat \union {Unread, Missing}]
  <2>1. ASSUME NEW next \in Places, Go(r, next) PROVE rpc' \in [Readers -> Places]
    BY <2>1 DEF Go
  <2>0. Nothing \in Lists /\ Nothing \in [Pieces -> Nat \union {Unread}]
    BY DEF Nothing
  <2>a. ASSUME Skip(r)
        PROVE  /\ rpc' \in [Readers -> Places] /\ loaded' \in [Readers -> Lists]
               /\ server' \in [Readers -> Servers \union {{}}]
               /\ batch_epoch' \in [Readers -> Nat] /\ batch_durable' \in [Readers -> Nat]
    <3>1. [x \in Pieces |-> IF x \in server[r] THEN Missing ELSE loaded[r][x]] \in Lists
      OBVIOUS
    <3> QED BY <2>1, <2>a, <3>1 DEF Skip
  <2>b. ASSUME Counted PROVE errors' \in Nat
    BY <2>b DEF Counted
  <2>2. CASE list_tools(r)
    BY <2>1, <2>2 DEF list_tools, published, batch
  <2>3. CASE begin_attempt(r)
    <3>2. loaded' \in [Readers -> [Pieces -> Nat \union {Unread, Missing}]]
          /\ base' \in [Readers -> [Pieces -> Nat \union {Unread}]]
      BY <2>0, <2>3 DEF begin_attempt
    <3>3. /\ attempt' \in [Readers -> Nat] /\ durable_before' \in [Readers -> Nat]
          /\ errors_before' \in [Readers -> Nat]
      <4>1. CASE UNCHANGED <<attempt, durable_before, errors_before>>
        BY <4>1
      <4>2. CASE /\ attempt' = [attempt EXCEPT ![r] = @ + 1]
                 /\ durable_before' = [durable_before EXCEPT ![r] = generation]
                 /\ errors_before' = [errors_before EXCEPT ![r] = errors]
        BY <4>2
      <4> QED BY <2>3, <4>1, <4>2 DEF begin_attempt
    <3> QED BY <2>1, <2>3, <3>2, <3>3 DEF begin_attempt, published, batch
  <2>4. CASE stable_generation(r)
    <3>1. local_generation' \in [Readers -> Nat]
      BY <2>4 DEF stable_generation
    <3>2. base' \in [Readers -> [Pieces -> Nat \union {Unread}]]
      BY <2>4 DEF stable_generation
    <3> QED BY <2>1, <2>4, <3>1, <3>2 DEF stable_generation, Retry, published, batch
  <2>5. ASSUME NEW x \in Pieces, load(r, x) PROVE TypeOK'
    <3>1. content[x] \in Nat
      OBVIOUS
    <3>2. loaded' \in [Readers -> [Pieces -> Nat \union {Unread, Missing}]]
      BY <2>5, <3>1 DEF load
    <3> QED BY <2>5, <3>2 DEF load, published, sampled, batch
  <2>6. ASSUME NEW x \in Durable, load_fails(r, x) PROVE TypeOK'
    <3>1. loaded' \in [Readers -> [Pieces -> Nat \union {Unread, Missing}]]
      BY <2>6 DEF load_fails
    <3> QED BY <2>6, <2>b, <3>1 DEF load_fails, sampled, batch
  <2>7. CASE end_attempt(r)
    <3>1. \E next \in {"checking", "turn", "refused"} : Go(r, next)
      BY <2>7 DEF end_attempt, Retry
    <3> QED BY <2>1, <2>7, <3>1 DEF end_attempt, published, sampled, batch
  <2>8. CASE is_stable(r)
    <3>1. \E next \in {"comparing", "settling", "served", "turn", "refused"} : Go(r, next)
      BY <2>8 DEF is_stable, Retry
    <3> QED BY <2>1, <2>8, <3>1 DEF is_stable, published, sampled, batch
  <2>9. CASE Answer(r)
    BY <2>0, <2>1, <2>9 DEF Answer, published, sampled, batch
  <2>10. ASSUME NEW v \in Servers, next_server(r, v) PROVE TypeOK'
    BY <2>1, <2>10 DEF next_server, published, sampled
  <2>11. CASE open_batch(r)
    <3>1. CASE Skip(r)
      BY <2>a, <2>11, <3>1 DEF open_batch, published, sampled
    <3>2. CASE UNCHANGED <<batch, loaded>> /\ \E next \in {"opening", "dating"} : Go(r, next)
      BY <2>1, <2>11, <3>2 DEF open_batch, published, sampled, batch
    <3>3. CASE /\ Go(r, "opened") /\ batch_epoch' = [batch_epoch EXCEPT ![r] = epoch]
               /\ UNCHANGED <<server, batch_durable, loaded>>
      BY <2>1, <2>11, <3>3 DEF open_batch, published, sampled
    <3> QED BY <2>11, <3>1, <3>2, <3>3 DEF open_batch
  <2>12. CASE date_batch(r)
    <3>1. CASE Skip(r)
      BY <2>a, <2>12, <3>1 DEF date_batch, published, sampled
    <3>2. CASE /\ Go(r, "resolving") /\ batch_durable' = [batch_durable EXCEPT ![r] = generation]
               /\ UNCHANGED <<server, batch_epoch, loaded>>
      BY <2>1, <2>12, <3>2 DEF date_batch, published, sampled
    <3> QED BY <2>12, <3>1, <3>2 DEF date_batch
  <2>13. CASE batch_fails(r)
    BY <2>a, <2>b, <2>13 DEF batch_fails, sampled
  <2>14. CASE close_batch(r)
    <3>1. CASE Skip(r) /\ Counted
      BY <2>a, <2>b, <2>14, <3>1 DEF close_batch, sampled
    <3>2. CASE /\ UNCHANGED <<batch, loaded, errors>>
               /\ \E next \in {"closing", "closed", "keeping"} : Go(r, next)
      BY <2>1, <2>14, <3>2 DEF close_batch, sampled, batch
    <3> QED BY <2>14, <3>1, <3>2 DEF close_batch
  <2>15. CASE keep_batch(r)
    <3>1. CASE Skip(r) /\ (Counted \/ UNCHANGED errors)
      BY <2>a, <2>b, <2>15, <3>1 DEF keep_batch, sampled
    <3>2. CASE /\ Go(r, "loading") /\ server' = [server EXCEPT ![r] = {}]
               /\ batch_epoch' = [batch_epoch EXCEPT ![r] = 0]
               /\ batch_durable' = [batch_durable EXCEPT ![r] = 0]
               /\ UNCHANGED <<loaded, errors>>
      BY <2>1, <2>15, <3>2 DEF keep_batch, sampled
    <3> QED BY <2>15, <3>1, <3>2 DEF keep_batch
  <2> QED BY <1>3, <2>2, <2>3, <2>4, <2>5, <2>6, <2>7, <2>8, <2>9, <2>10, <2>11, <2>12, <2>13,
             <2>14, <2>15 DEF ReaderStep
<1>4. ASSUME NEW rows \in SUBSET Durable, advance_catalog_discovery_generation(rows)
      PROVE TypeOK'
  BY <1>4 DEF advance_catalog_discovery_generation, reading, sampled, batch
<1>5. CASE observe_catalog_generation
  BY <1>5 DEF observe_catalog_generation, reading, sampled, batch
<1> QED BY <1>1, <1>2, <1>3, <1>4, <1>5 DEF Next

(***************************************************************************)
(* Markers.                                                                *)
(***************************************************************************)
\* The publishers at work are finitely many, so their count says whether
\* there are any.
LEMMA NoMarkerNoPublisher ==
  ASSUME TypeOK, MarkersMatchPublishers, active = 0
  PROVE  \A p \in Publishers : ppc[p] = "idle"
<1>1. IsFiniteSet(Busy)
  BY EpochAssumption, FS_Subset DEF Busy
<1>2. Cardinality(Busy) = 0
  BY DEF MarkersMatchPublishers, Busy
<1>3. Busy = {}
  BY <1>1, <1>2, FS_EmptySet
<1> QED BY <1>3 DEF Busy

\* begin_change raises one marker for one publisher, finish lowers it again.
LEMMA NextMarkers == TypeOK /\ MarkersMatchPublishers /\ [Next]_vars => MarkersMatchPublishers'
<1> SUFFICES ASSUME TypeOK, MarkersMatchPublishers, [Next]_vars
             PROVE  active' = Cardinality(Busy')
  BY DEF MarkersMatchPublishers, Busy
<1>0. IsFiniteSet(Busy) /\ active = Cardinality(Busy)
  BY EpochAssumption, FS_Subset DEF Busy, MarkersMatchPublishers
<1>1. ASSUME NEW p \in Publishers, begin_change(p) PROVE active' = Cardinality(Busy')
  <2>1. Busy' = Busy \union {p} /\ p \notin Busy /\ active' = active + 1
    BY <1>1 DEF begin_change, Move, Busy, TypeOK
  <2> QED BY <1>0, <2>1, FS_AddElement
<1>2. ASSUME NEW p \in Publishers, finish(p) PROVE active' = Cardinality(Busy')
  <2>1. Busy' = Busy \ {p} /\ p \in Busy /\ active' = active - 1
    BY <1>2 DEF finish, Move, Busy, TypeOK
  <2> QED BY <1>0, <2>1, FS_RemoveElement
<1>3. ASSUME NEW p \in Publishers, mark_changed(p) \/ (\E x \in Serving : Publish(p, x))
      PROVE  active' = Cardinality(Busy')
  <2>1. Busy' = Busy /\ active' = active
    BY <1>3 DEF mark_changed, Publish, Move, Busy, TypeOK
  <2> QED BY <1>0, <2>1
<1>4. ASSUME UNCHANGED <<active, ppc>> PROVE active' = Cardinality(Busy')
  BY <1>0, <1>4 DEF Busy
<1>5. ASSUME NEW r \in Readers, ReaderStep(r) PROVE UNCHANGED <<active, ppc>>
  BY <1>5 DEF ReaderStep, list_tools, begin_attempt, stable_generation, next_server, load,
              open_batch, date_batch, load_fails, batch_fails, close_batch, keep_batch,
              end_attempt, is_stable, Answer, published
<1>6. ASSUME NEW rows \in SUBSET Durable, advance_catalog_discovery_generation(rows)
      PROVE UNCHANGED <<active, ppc>>
  BY <1>6 DEF advance_catalog_discovery_generation
<1>7. CASE observe_catalog_generation
  BY <1>4, <1>7 DEF observe_catalog_generation
<1>8. CASE UNCHANGED vars
  BY <1>4, <1>8 DEF vars, published
<1> QED BY <1>1, <1>2, <1>3, <1>4, <1>5, <1>6, <1>7, <1>8 DEF Next, PublisherStep

(***************************************************************************)
(* Samples.                                                                *)
(***************************************************************************)
\* The counters only grow, and a reader samples their present value.
LEMMA NextSamples == TypeOK /\ SamplesArePast /\ [Next]_vars => SamplesArePast'
<1> SUFFICES ASSUME TypeOK, SamplesArePast, [Next]_vars PROVE SamplesArePast'
  OBVIOUS
<1> USE DEF TypeOK, SamplesArePast
<1>1. ASSUME UNCHANGED <<epoch, generation, errors, durable_before, errors_before,
                         local_generation>>
      PROVE SamplesArePast'
  BY <1>1
<1>2. ASSUME NEW p \in Publishers, PublisherStep(p) PROVE SamplesArePast'
  BY <1>2 DEF PublisherStep, begin_change, mark_changed, finish, Publish, reading, sampled
<1>3. ASSUME NEW r \in Readers, ReaderStep(r) PROVE SamplesArePast'
  <2>1. CASE \/ list_tools(r) \/ end_attempt(r) \/ is_stable(r) \/ Answer(r)
             \/ (\E v \in Servers : next_server(r, v)) \/ (\E x \in Pieces : load(r, x))
             \/ open_batch(r) \/ date_batch(r)
    BY <1>1, <2>1 DEF list_tools, end_attempt, is_stable, Answer, next_server, load, open_batch,
                      date_batch, published, sampled
  <2>2. CASE begin_attempt(r)
    <3>1. UNCHANGED <<epoch, generation, errors, local_generation>>
      BY <2>2 DEF begin_attempt, published
    <3>2. \A s \in Readers :
             /\ durable_before'[s] \in {durable_before[s], generation}
             /\ errors_before'[s] \in {errors_before[s], errors}
      BY <2>2 DEF begin_attempt
    <3>3. epoch \in Nat /\ generation \in Nat /\ errors \in Nat
      OBVIOUS
    <3> SUFFICES ASSUME NEW s \in Readers
                 PROVE  /\ local_generation'[s] <= epoch' /\ durable_before'[s] <= generation'
                        /\ errors_before'[s] <= errors'
      OBVIOUS
    <3>4. /\ local_generation[s] <= epoch /\ durable_before[s] <= generation
          /\ errors_before[s] <= errors
      OBVIOUS
    <3> HIDE DEF TypeOK, SamplesArePast
    <3> QED BY <3>1, <3>2, <3>3, <3>4
  <2>3. CASE stable_generation(r)
    <3>1. UNCHANGED <<epoch, generation, errors, durable_before, errors_before>>
      BY <2>3 DEF stable_generation, published
    <3>2. \A s \in Readers : local_generation'[s] \in {local_generation[s], epoch}
      BY <2>3 DEF stable_generation
    <3>3. epoch \in Nat
      OBVIOUS
    <3> SUFFICES ASSUME NEW s \in Readers
                 PROVE  /\ local_generation'[s] <= epoch' /\ durable_before'[s] <= generation'
                        /\ errors_before'[s] <= errors'
      OBVIOUS
    <3>4. /\ local_generation[s] <= epoch /\ durable_before[s] <= generation
          /\ errors_before[s] <= errors
      OBVIOUS
    <3> HIDE DEF TypeOK, SamplesArePast
    <3> QED BY <3>1, <3>2, <3>3, <3>4
  <2>4. CASE \/ (\E x \in Durable : load_fails(r, x)) \/ batch_fails(r)
             \/ close_batch(r) \/ keep_batch(r)
    <3>1. /\ errors' \in {errors, errors + 1}
          /\ UNCHANGED <<epoch, generation, durable_before, errors_before, local_generation>>
      BY <2>4 DEF load_fails, batch_fails, close_batch, keep_batch, Counted, sampled
    <3> QED BY <3>1
  <2> QED BY <1>3, <2>1, <2>2, <2>3, <2>4 DEF ReaderStep
<1>4. ASSUME NEW rows \in SUBSET Durable, advance_catalog_discovery_generation(rows)
      PROVE SamplesArePast'
  BY <1>4 DEF advance_catalog_discovery_generation, reading, sampled
<1>5. CASE observe_catalog_generation
  BY <1>5 DEF observe_catalog_generation, reading, sampled
<1>6. CASE UNCHANGED vars
  BY <1>1, <1>6 DEF vars, published, reading, sampled
<1> QED BY <1>2, <1>3, <1>4, <1>5, <1>6 DEF Next

(***************************************************************************)
(* Reads.                                                                  *)
(***************************************************************************)
\* A step that leaves a reader alone keeps what its checks say, as long as
\* it only changes contents in ways the counters show.
LEMMA OthersKeepReads ==
  ASSUME TypeOK, SamplesArePast, NEW r \in Readers, AgreesFor(r),
         rpc'[r] = rpc[r], loaded'[r] = loaded[r], base'[r] = base[r],
         local_generation'[r] = local_generation[r], durable_before'[r] = durable_before[r],
         errors_before'[r] = errors_before[r],
         epoch <= epoch', generation <= generation', errors <= errors',
         epoch' \in Nat, generation' \in Nat, errors' \in Nat,
         (\A x \in Serving : content'[x] = content[x]) \/ Writing',
         (\A x \in Durable : content'[x] = content[x]) \/ generation < generation',
         Writing => Writing' \/ epoch < epoch'
  PROVE  AgreesFor(r)'
<1>0. /\ local_generation[r] \in Nat /\ durable_before[r] \in Nat /\ errors_before[r] \in Nat
      /\ epoch \in Nat /\ generation \in Nat /\ errors \in Nat
      /\ local_generation[r] <= epoch /\ durable_before[r] <= generation
      /\ errors_before[r] <= errors
  BY DEF TypeOK, SamplesArePast
<1>g. \A x : Gone(r, x)' <=> Gone(r, x)
  BY DEF Gone, LeftOut
<1>1. ASSUME rpc[r] \in Listing PROVE ServingReads(r)' /\ DurableReads(r)'
  <2>1. ServingReads(r) /\ DurableReads(r)
    BY <1>1 DEF AgreesFor
  <2>2. ServingReads(r)'
    BY <1>0, <1>g, <2>1 DEF ServingReads, StillBase, LoadingAs
  <2>3. StillBase(r, Durable)' \/ durable_before'[r] < generation'
    BY <1>0, <2>1 DEF DurableReads, StillBase
  <2>4. LoadingAs(r, Durable)' \/ durable_before'[r] < generation' \/ errors_before'[r] < errors'
    BY <1>0, <1>g, <2>1 DEF DurableReads, LoadingAs
  <2> QED BY <2>2, <2>3, <2>4 DEF DurableReads
<1>2. ASSUME rpc[r] = "checking"
      PROVE  /\ LoadedAs(r, Serving)' \/ local_generation'[r] < epoch' \/ Writing'
             /\ LoadedAs(r, Durable)'
  BY <1>0, <1>g, <1>2 DEF AgreesFor, LoadedAs
<1>3. ASSUME rpc[r] = "comparing"
      PROVE  /\ LoadedAs(r, Serving)' \/ local_generation'[r] < epoch'
             /\ LoadedAs(r, Durable)'
  BY <1>0, <1>g, <1>3 DEF AgreesFor, LoadedAs
<1>4. ASSUME rpc[r] \in {"settling", "served"} PROVE LoadedAs(r, Pieces)'
  BY <1>g, <1>4 DEF AgreesFor, LoadedAs
<1>5. ASSUME rpc[r] \in {"probing", "sampling", "confirming"} PROVE loaded'[r] = Nothing'
  BY <1>5 DEF AgreesFor, Nothing
<1> QED BY <1>1, <1>2, <1>3, <1>4, <1>5 DEF AgreesFor

\* Publications, commits and the poll keep what every reader's checks say.
LEMMA PublishedKeepsReads ==
  ASSUME TypeOK, TypeOK', SamplesArePast, ReadsAgree, UNCHANGED reading,
         \/ \E p \in Publishers : PublisherStep(p)
         \/ \E rows \in SUBSET Durable : advance_catalog_discovery_generation(rows)
         \/ observe_catalog_generation
         \/ UNCHANGED published
  PROVE  ReadsAgree'
<1> SUFFICES ASSUME NEW r \in Readers PROVE AgreesFor(r)'
  BY DEF ReadsAgree
<1>0. /\ AgreesFor(r)
      /\ rpc'[r] = rpc[r] /\ loaded'[r] = loaded[r] /\ base'[r] = base[r]
      /\ local_generation'[r] = local_generation[r]
      /\ durable_before'[r] = durable_before[r] /\ errors_before'[r] = errors_before[r]
      /\ epoch' \in Nat /\ generation' \in Nat /\ errors' \in Nat
      /\ epoch \in Nat /\ generation \in Nat /\ errors \in Nat
  BY DEF ReadsAgree, reading, sampled, TypeOK
<1>1. ASSUME NEW p \in Publishers, begin_change(p) \/ finish(p) PROVE AgreesFor(r)'
  <2>1. UNCHANGED <<content, epoch, generation, errors>>
    BY <1>1 DEF begin_change, finish
  <2>2. Writing => Writing'
    BY <1>1 DEF begin_change, finish, Move, Writing, TypeOK
  <2> QED BY <1>0, <2>1, <2>2, OthersKeepReads
<1>2. ASSUME NEW p \in Publishers, NEW y \in Serving, Publish(p, y) PROVE AgreesFor(r)'
  <2>1. UNCHANGED <<epoch, generation, errors>>
    BY <1>2 DEF Publish
  <2>2. Writing'
    BY <1>2 DEF Publish, Move, Writing, TypeOK
  <2>3. \A x \in Durable : content'[x] = content[x]
    BY <1>2, EpochAssumption DEF Publish, TypeOK, Pieces
  <2> QED BY <1>0, <2>1, <2>2, <2>3, OthersKeepReads
<1>3. ASSUME NEW p \in Publishers, mark_changed(p) PROVE AgreesFor(r)'
  <2>1. UNCHANGED <<content, generation, errors>> /\ epoch' = epoch + 1
    BY <1>3 DEF mark_changed
  <2>2. epoch < epoch'
    BY <1>0, <2>1
  <2> QED BY <1>0, <2>1, <2>2, OthersKeepReads
<1>4. ASSUME NEW rows \in SUBSET Durable, advance_catalog_discovery_generation(rows)
      PROVE AgreesFor(r)'
  <2>1. UNCHANGED <<epoch, errors>> /\ generation' = generation + 1
    BY <1>4 DEF advance_catalog_discovery_generation
  <2>2. Writing => Writing'
    BY <1>4 DEF advance_catalog_discovery_generation, Writing
  <2>3. \A x \in Serving : content'[x] = content[x]
    BY <1>4, EpochAssumption DEF advance_catalog_discovery_generation, TypeOK, Pieces
  <2>4. generation < generation'
    BY <1>0, <2>1
  <2> QED BY <1>0, <2>1, <2>2, <2>3, <2>4, OthersKeepReads
<1>5. CASE observe_catalog_generation
  <2>1. UNCHANGED <<content, generation, errors, ppc>> /\ epoch' = epoch + 1
    BY <1>5 DEF observe_catalog_generation
  <2>2. epoch < epoch'
    BY <1>0, <2>1
  <2> QED BY <1>0, <2>1, <2>2, OthersKeepReads
<1>6. CASE UNCHANGED published
  <2>1. UNCHANGED <<content, epoch, generation, errors, ppc>>
    BY <1>6 DEF published
  <2>2. Writing => Writing'
    BY <2>1 DEF Writing
  <2> QED BY <1>0, <2>1, <2>2, OthersKeepReads
<1> QED BY <1>1, <1>2, <1>3, <1>4, <1>5, <1>6 DEF PublisherStep

\* A reader's own step leaves the other readers alone.
LEMMA ReaderKeepsOthers ==
  ASSUME TypeOK, TypeOK', SamplesArePast, ReadsAgree,
         NEW r \in Readers, ReaderStep(r), NEW s \in Readers, s # r
  PROVE  AgreesFor(s)'
<1>1. /\ AgreesFor(s) /\ epoch' \in Nat /\ generation' \in Nat /\ errors' \in Nat
      /\ epoch \in Nat /\ generation \in Nat /\ errors \in Nat
  BY DEF ReadsAgree, TypeOK
<1>2. UNCHANGED <<content, epoch, generation, ppc>> /\ errors <= errors'
  <2>1. UNCHANGED <<content, epoch, generation, ppc>> /\ errors' \in {errors, errors + 1}
    BY DEF ReaderStep, list_tools, begin_attempt, stable_generation, next_server, load,
           open_batch, date_batch, load_fails, batch_fails, close_batch, keep_batch, Counted,
           end_attempt, is_stable, Answer, published
  <2> QED BY <1>1, <2>1
<1>a. ASSUME Skip(r) PROVE rpc'[s] = rpc[s] /\ loaded'[s] = loaded[s]
  BY <1>a DEF Skip, Go, TypeOK
<1>3. rpc'[s] = rpc[s]
  BY <1>a DEF ReaderStep, list_tools, begin_attempt, stable_generation, next_server, load,
         open_batch, date_batch, load_fails, batch_fails, close_batch, keep_batch,
         end_attempt, is_stable, Answer, Go, Retry, TypeOK
<1>4. loaded'[s] = loaded[s] /\ base'[s] = base[s]
  BY <1>a DEF ReaderStep, list_tools, begin_attempt, stable_generation, next_server, load,
         open_batch, date_batch, load_fails, batch_fails, close_batch, keep_batch,
         end_attempt, is_stable, Answer, TypeOK
<1>5. /\ local_generation'[s] = local_generation[s]
      /\ durable_before'[s] = durable_before[s] /\ errors_before'[s] = errors_before[s]
  BY DEF ReaderStep, list_tools, begin_attempt, stable_generation, next_server, load,
         open_batch, date_batch, load_fails, batch_fails, close_batch, keep_batch,
         end_attempt, is_stable, Answer, sampled, TypeOK
<1>6. Writing => Writing'
  BY <1>2 DEF Writing
<1> QED BY <1>1, <1>2, <1>3, <1>4, <1>5, <1>6, OthersKeepReads

\* A reader that has not begun, has been refused or starts over claims nothing.
LEMMA NothingClaimed ==
  ASSUME NEW r \in Readers, rpc'[r] \in {"idle", "turn", "refused"}
  PROVE  AgreesFor(r)'
BY DEF AgreesFor, Listing

\* The probe: what is loaded is nothing, and the base is the present content.
LEMMA ProbeAgrees ==
  ASSUME TypeOK, NEW r \in Readers, AgreesFor(r), begin_attempt(r) \/ stable_generation(r)
  PROVE  AgreesFor(r)'
<1>1. CASE begin_attempt(r)
  <2>1. rpc'[r] \in {"probing", "refused"} /\ loaded'[r] = Nothing'
    BY <1>1 DEF begin_attempt, Go, TypeOK, Nothing
  <2> QED BY <2>1 DEF AgreesFor, Listing
<1>2. ASSUME rpc'[r] \in {"sampling", "confirming"}, stable_generation(r) PROVE AgreesFor(r)'
  <2>1. rpc[r] \in {"probing", "sampling"} /\ loaded'[r] = loaded[r]
    BY <1>2 DEF stable_generation, Go, Retry, TypeOK
  <2> QED BY <1>2, <2>1 DEF AgreesFor, Nothing, Listing
<1>3. ASSUME rpc'[r] = "loading", stable_generation(r) PROVE AgreesFor(r)'
  <2>1. rpc[r] = "confirming" /\ UNCHANGED <<content, loaded>> /\ base'[r] = content
    BY <1>3 DEF stable_generation, Go, Retry, published, TypeOK
  <2>2. \A x \in Pieces : loaded'[r][x] = Unread
    BY <2>1 DEF AgreesFor, Nothing
  <2>3. ServingReads(r)' /\ DurableReads(r)'
    BY <2>1, <2>2 DEF ServingReads, DurableReads, StillBase, LoadingAs, Pieces
  <2> QED BY <1>3, <2>3 DEF AgreesFor, Listing
<1>4. ASSUME stable_generation(r)
      PROVE  rpc'[r] \in {"sampling", "confirming", "loading", "turn", "refused"}
  BY <1>4 DEF stable_generation, Go, Retry, TypeOK
<1> QED BY <1>1, <1>2, <1>3, <1>4, NothingClaimed

\* A step of the listing that loads nothing.
LEMMA StayAgrees ==
  ASSUME TypeOK, SamplesArePast, NEW r \in Readers, AgreesFor(r),
         rpc[r] \in Listing, rpc'[r] \in Listing, loaded'[r] = loaded[r],
         UNCHANGED <<content, epoch, generation, ppc, base, durable_before, errors_before,
                     local_generation, errors>>
  PROVE  AgreesFor(r)'
<1>1. Writing' = Writing /\ ServingReads(r) /\ DurableReads(r)
  BY DEF Writing, AgreesFor
<1>2. \A x : Gone(r, x)' <=> Gone(r, x)
  BY DEF Gone, LeftOut
<1>3. ServingReads(r)' /\ DurableReads(r)'
  BY <1>1, <1>2 DEF ServingReads, DurableReads, StillBase, LoadingAs
<1> QED BY <1>3 DEF AgreesFor, Listing

\* A refused batch leaves out a whole server and touches no other.
LEMMA SkipAgrees ==
  ASSUME TypeOK, SamplesArePast, NEW r \in Readers, AgreesFor(r), rpc[r] \in Listing, Skip(r),
         UNCHANGED <<content, epoch, generation, ppc, base, durable_before, errors_before,
                     local_generation>>,
         errors' \in {errors, errors + 1}
  PROVE  AgreesFor(r)'
<1>1. Writing' = Writing /\ ServingReads(r) /\ DurableReads(r) /\ rpc'[r] = "loading"
  BY DEF Writing, AgreesFor, Skip, Go, TypeOK
<1>2. \A x \in Pieces : loaded'[r][x] = IF x \in server[r] THEN Missing ELSE loaded[r][x]
  BY DEF Skip, TypeOK
<1>3. server[r] \in Servers \union {{}}
  BY DEF TypeOK
<1>4. ASSUME NEW x \in Pieces, x \in server[r] PROVE Gone(r, x)'
  <2>1. server[r] \in Servers /\ server[r] \subseteq Pieces
    BY <1>3, <1>4, EpochAssumption
  <2>2. \A y \in server[r] : loaded'[r][y] = Missing
    BY <1>2, <2>1
  <2> QED BY <1>4, <2>1, <2>2 DEF Gone, LeftOut
<1>5. ASSUME NEW x \in Pieces, Gone(r, x) PROVE Gone(r, x)'
  <2>1. PICK v \in Servers : x \in v /\ LeftOut(r, v)
    BY <1>5 DEF Gone
  <2>2. v \subseteq Pieces
    BY EpochAssumption
  <2>3. \A y \in v : loaded'[r][y] = Missing
    BY <1>2, <2>1, <2>2 DEF LeftOut
  <2> QED BY <2>1, <2>3 DEF Gone, LeftOut
<1>6. ASSUME NEW kind \in {Serving, Durable}, LoadingAs(r, kind) PROVE LoadingAs(r, kind)'
  BY <1>2, <1>4, <1>5, <1>6 DEF LoadingAs, Pieces
<1>7. ServingReads(r)'
  BY <1>1, <1>6 DEF ServingReads, StillBase
<1>8. errors \in Nat /\ errors_before[r] \in Nat /\ (errors_before[r] < errors => errors_before[r] < errors')
  BY DEF TypeOK
<1>9. DurableReads(r)'
  BY <1>1, <1>6, <1>8 DEF DurableReads, StillBase
<1> QED BY <1>1, <1>7, <1>9 DEF AgreesFor

\* Loading one piece: it is the base's, or a counter tells.
LEMMA LoadAgrees ==
  ASSUME TypeOK, SamplesArePast, NEW r \in Readers, AgreesFor(r),
         \/ \E x \in Pieces : load(r, x)
         \/ \E x \in Durable : load_fails(r, x)
  PROVE  AgreesFor(r)'
<1>0. rpc[r] \in Listing /\ rpc'[r] = rpc[r] /\ ServingReads(r) /\ DurableReads(r)
  BY DEF load, load_fails, AgreesFor, Listing
<1>1. /\ UNCHANGED <<content, epoch, generation, ppc, base, durable_before, errors_before,
                     local_generation>>
      /\ Writing' = Writing
  BY DEF load, load_fails, published, sampled, Writing
<1>g. ASSUME NEW x \in Pieces, loaded[r][x] = Unread, NEW y \in Pieces, Gone(r, y),
             \A z \in Pieces : z # x => loaded'[r][z] = loaded[r][z]
      PROVE  Gone(r, y)'
  <2>1. PICK v \in Servers : y \in v /\ LeftOut(r, v)
    BY <1>g DEF Gone
  <2>2. v \subseteq Pieces /\ x \notin v
    BY <1>g, <2>1, EpochAssumption DEF LeftOut
  <2>3. \A z \in v : loaded'[r][z] = Missing
    BY <1>g, <2>1, <2>2 DEF LeftOut
  <2> QED BY <2>1, <2>3 DEF Gone, LeftOut
<1>2. ASSUME NEW x \in Pieces, load(r, x) PROVE ServingReads(r)' /\ DurableReads(r)'
  <2>1. /\ errors' = errors /\ loaded[r][x] = Unread /\ loaded'[r][x] = content[x]
        /\ \A y \in Pieces : y # x => loaded'[r][y] = loaded[r][y]
    BY <1>2 DEF load, published, TypeOK
  <2>2. ASSUME NEW kind \in {Serving, Durable}, StillBase(r, kind), LoadingAs(r, kind)
        PROVE  LoadingAs(r, kind)'
    <3>1. \A y \in Pieces : Gone(r, y) => Gone(r, y)'
      BY <1>g, <2>1
    <3> QED BY <1>1, <2>1, <2>2, <3>1 DEF StillBase, LoadingAs, Pieces
  <2>3. ASSUME NEW kind \in {Serving, Durable}, StillBase(r, kind) PROVE StillBase(r, kind)'
    BY <1>1, <2>3 DEF StillBase
  <2>4. ServingReads(r)'
    BY <1>0, <1>1, <2>2, <2>3 DEF ServingReads
  <2>5. DurableReads(r)'
    BY <1>0, <1>1, <2>1, <2>2, <2>3 DEF DurableReads
  <2> QED BY <2>4, <2>5
<1>3. ASSUME NEW x \in Durable, load_fails(r, x) PROVE ServingReads(r)' /\ DurableReads(r)'
  <2>1. /\ errors' = errors + 1 /\ x \in Pieces /\ loaded[r][x] = Unread
        /\ \A y \in Pieces : y # x => loaded'[r][y] = loaded[r][y]
    BY <1>3 DEF load_fails, Counted, TypeOK, Pieces
  <2>2. errors_before[r] < errors'
    BY <2>1 DEF TypeOK, SamplesArePast
  <2>3. \A y \in Serving : /\ loaded'[r][y] = loaded[r][y]
                           /\ Gone(r, y) => Gone(r, y)'
    BY <1>g, <2>1, EpochAssumption DEF Pieces
  <2>4. ServingReads(r)'
    BY <1>0, <1>1, <2>3 DEF ServingReads, StillBase, LoadingAs
  <2>5. DurableReads(r)'
    BY <1>0, <1>1, <2>2 DEF DurableReads, StillBase
  <2> QED BY <2>4, <2>5
<1> QED BY <1>0, <1>2, <1>3 DEF AgreesFor, Listing

\* Opening, dating, closing and keeping a batch: on, or the server is left out.
LEMMA BatchAgrees ==
  ASSUME TypeOK, SamplesArePast, NEW r \in Readers, AgreesFor(r),
         \/ \E v \in Servers : next_server(r, v)
         \/ open_batch(r) \/ date_batch(r) \/ batch_fails(r) \/ close_batch(r) \/ keep_batch(r)
  PROVE  AgreesFor(r)'
<1>1. /\ UNCHANGED <<content, epoch, generation, ppc, base, durable_before, errors_before,
                     local_generation>>
      /\ errors' \in {errors, errors + 1} /\ rpc[r] \in Listing
  BY DEF next_server, open_batch, date_batch, batch_fails, close_batch, keep_batch, Counted,
         published, sampled, Listing
<1>2. CASE Skip(r)
  BY <1>1, <1>2, SkipAgrees
<1>3. CASE ~Skip(r)
  <2>1. loaded' = loaded /\ errors' = errors
    BY <1>3 DEF next_server, open_batch, date_batch, batch_fails, close_batch, keep_batch,
                published
  <2>2. \E next \in Listing : Go(r, next)
    BY <1>3 DEF next_server, open_batch, date_batch, batch_fails, close_batch, keep_batch,
                Listing
  <2>3. rpc'[r] \in Listing
    BY <2>2 DEF Go, TypeOK
  <2> QED BY <1>1, <2>1, <2>3, StayAgrees
<1> QED BY <1>2, <1>3

\* The checks after the read: each one rules out a way the pieces can differ.
LEMMA CheckAgrees ==
  ASSUME TypeOK, MarkersMatchPublishers, SamplesArePast, NEW r \in Readers, AgreesFor(r),
         end_attempt(r) \/ is_stable(r)
  PROVE  AgreesFor(r)'
<1>0. /\ UNCHANGED <<epoch, generation, errors, ppc, loaded, base, local_generation>>
      /\ Writing' = Writing
  BY DEF end_attempt, is_stable, published, sampled, Writing
<1>1. ASSUME NEW kind, LoadedAs(r, kind) PROVE LoadedAs(r, kind)'
  <2>1. \A x : Gone(r, x)' <=> Gone(r, x)
    BY <1>0 DEF Gone, LeftOut
  <2> QED BY <1>0, <1>1, <2>1 DEF LoadedAs
<1>2. ASSUME end_attempt(r), rpc'[r] = "checking" PROVE AgreesFor(r)'
  <2>1. /\ rpc[r] = "loading" /\ \A x \in Pieces : loaded[r][x] # Unread
        /\ generation = durable_before[r] /\ errors = errors_before[r]
    BY <1>2 DEF end_attempt, Go, Retry, TypeOK
  <2>2. ServingReads(r) /\ DurableReads(r)
    BY <2>1 DEF AgreesFor, Listing
  <2>3. generation \in Nat /\ errors \in Nat
    BY DEF TypeOK
  <2>4. LoadedAs(r, Durable)
    BY <2>1, <2>2, <2>3 DEF DurableReads, LoadingAs, LoadedAs, Pieces
  <2>5. LoadedAs(r, Serving) \/ local_generation[r] < epoch \/ Writing
    BY <2>1, <2>2 DEF ServingReads, LoadingAs, LoadedAs, Pieces
  <2> QED BY <1>0, <1>1, <1>2, <2>4, <2>5 DEF AgreesFor, Listing
<1>3. ASSUME is_stable(r), rpc'[r] = "comparing" PROVE AgreesFor(r)'
  <2>1. rpc[r] = "checking" /\ active = 0
    BY <1>3 DEF is_stable, Go, Retry, TypeOK
  <2>2. ~Writing
    BY <2>1, NoMarkerNoPublisher DEF Writing
  <2> QED BY <1>0, <1>1, <1>3, <2>1, <2>2 DEF AgreesFor, Listing
<1>4. ASSUME is_stable(r), rpc'[r] = "settling" PROVE AgreesFor(r)'
  <2>1. rpc[r] = "comparing" /\ epoch = local_generation[r] /\ epoch \in Nat
    BY <1>4 DEF is_stable, Go, Retry, TypeOK
  <2>2. LoadedAs(r, Serving) /\ LoadedAs(r, Durable)
    BY <2>1 DEF AgreesFor
  <2>3. LoadedAs(r, Pieces)
    BY <2>2 DEF LoadedAs, Pieces
  <2> QED BY <1>1, <1>4, <2>3 DEF AgreesFor, Listing
<1>5. ASSUME is_stable(r), rpc'[r] = "served" PROVE AgreesFor(r)'
  <2>1. rpc[r] = "settling"
    BY <1>5 DEF is_stable, Go, Retry, TypeOK
  <2> QED BY <1>1, <1>5, <2>1 DEF AgreesFor, Listing
<1>6. /\ end_attempt(r) => rpc'[r] \in {"checking", "turn", "refused"}
      /\ is_stable(r) => rpc'[r] \in {"comparing", "settling", "served", "turn", "refused"}
  BY DEF end_attempt, is_stable, Go, Retry, TypeOK
<1> QED BY <1>2, <1>3, <1>4, <1>5, <1>6, NothingClaimed

\* Every step keeps what the readers' checks say.
LEMMA NextReads ==
  TypeOK /\ TypeOK' /\ MarkersMatchPublishers /\ SamplesArePast /\ ReadsAgree /\ [Next]_vars
    => ReadsAgree'
<1> SUFFICES ASSUME TypeOK, TypeOK', MarkersMatchPublishers, SamplesArePast, ReadsAgree,
                    [Next]_vars
             PROVE  ReadsAgree'
  OBVIOUS
<1>1. ASSUME NEW r \in Readers, ReaderStep(r) PROVE ReadsAgree'
  <2>1. AgreesFor(r)
    BY DEF ReadsAgree
  <2>2. AgreesFor(r)'
    <3>1. CASE list_tools(r) \/ Answer(r)
      <4>1. rpc'[r] \in {"idle", "turn"}
        BY <3>1 DEF list_tools, Answer, Go, TypeOK
      <4> QED BY <4>1, NothingClaimed
    <3>2. CASE begin_attempt(r) \/ stable_generation(r)
      BY <2>1, <3>2, ProbeAgrees
    <3>3. CASE (\E x \in Pieces : load(r, x)) \/ (\E x \in Durable : load_fails(r, x))
      BY <2>1, <3>3, LoadAgrees
    <3>4. CASE end_attempt(r) \/ is_stable(r)
      BY <2>1, <3>4, CheckAgrees
    <3>5. CASE \/ (\E v \in Servers : next_server(r, v)) \/ open_batch(r) \/ date_batch(r)
               \/ batch_fails(r) \/ close_batch(r) \/ keep_batch(r)
      BY <2>1, <3>5, BatchAgrees
    <3> QED BY <1>1, <3>1, <3>2, <3>3, <3>4, <3>5 DEF ReaderStep
  <2>3. ASSUME NEW s \in Readers, s # r PROVE AgreesFor(s)'
    BY <1>1, <2>3, ReaderKeepsOthers
  <2> QED BY <2>2, <2>3 DEF ReadsAgree
<1>2. ASSUME NEW p \in Publishers, PublisherStep(p) PROVE ReadsAgree'
  <2>1. UNCHANGED reading
    BY <1>2 DEF PublisherStep, begin_change, Publish, mark_changed, finish
  <2> QED BY <1>2, <2>1, PublishedKeepsReads
<1>3. ASSUME NEW rows \in SUBSET Durable, advance_catalog_discovery_generation(rows)
      PROVE ReadsAgree'
  <2>1. UNCHANGED reading
    BY <1>3 DEF advance_catalog_discovery_generation
  <2> QED BY <1>3, <2>1, PublishedKeepsReads
<1>4. CASE observe_catalog_generation
  <2>1. UNCHANGED reading
    BY <1>4 DEF observe_catalog_generation
  <2> QED BY <1>4, <2>1, PublishedKeepsReads
<1>5. CASE UNCHANGED vars
  <2>1. UNCHANGED reading /\ UNCHANGED published
    BY <1>5 DEF vars
  <2> QED BY <2>1, PublishedKeepsReads
<1> QED BY <1>1, <1>2, <1>3, <1>4, <1>5 DEF Next

(***************************************************************************)
(* The theorems.                                                           *)
(***************************************************************************)
\* The inductive invariant holds in every reachable state.
THEOREM EpochInvariant == Spec => []EpochInv
<1>1. Init => EpochInv
  <2> SUFFICES ASSUME Init PROVE EpochInv
    OBVIOUS
  <2>1. TypeOK
    BY InitTyped
  <2>2. MarkersMatchPublishers
    <3>1. Busy = {} /\ active = 0
      BY DEF Init, Busy
    <3> QED BY <3>1, FS_EmptySet DEF MarkersMatchPublishers, Busy
  <2>3. SamplesArePast
    BY DEF Init, SamplesArePast
  <2>4. ReadsAgree
    BY DEF Init, ReadsAgree, AgreesFor, Listing
  <2> QED BY <2>1, <2>2, <2>3, <2>4 DEF EpochInv
<1>2. EpochInv /\ [Next]_vars => EpochInv'
  BY NextTyped, NextMarkers, NextSamples, NextReads DEF EpochInv
<1> QED BY <1>1, <1>2, PTL DEF Spec

\* A publication that ends, committed or dropped, takes its marker down, so
\* stable_generation refuses readers only while someone is publishing.
THEOREM MarkersAreExact == Spec => []MarkersMatchPublishers
BY EpochInvariant, PTL DEF EpochInv

\* stable_list_visible_tools_with answers with one catalog, each server whole
\* or left out, whatever is published, committed or unreadable while it runs.
THEOREM ServedListsAreSnapshots == Spec => []ServedIsOneCatalog
<1>1. EpochInv => ServedIsOneCatalog
  BY DEF EpochInv, ReadsAgree, AgreesFor, LoadedAs, Gone, ServedIsOneCatalog
<1> QED BY <1>1, EpochInvariant, PTL
=============================================================================

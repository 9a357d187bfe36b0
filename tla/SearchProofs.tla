---------------------------- MODULE SearchProofs ----------------------------
(***************************************************************************)
(* Proofs about the two halves of a search.                                *)
(*                                                                         *)
(* SemanticIndex: that the hash embed_and_replace_source skips on is never *)
(* without its vectors, that a pass without a warning leaves the vectors   *)
(* of the generation, and that a search between passes is exact: for every *)
(* vault, every cut into chunks, every line of builds and any number of    *)
(* faults.                                                                 *)
(*                                                                         *)
(* LexicalSearch: that what is found does not depend on the segments the   *)
(* index lies in, and what the bounded lanes and the window may leave out: *)
(* for every index, every query and every value of the bounds.             *)
(***************************************************************************)
EXTENDS SemanticIndex, LexicalSearch, FiniteSetTheorems, NaturalsInduction,
        WellFoundedInduction, FunctionTheorems, TLAPS

Profiles == {Profile[b] : b \in Builds}

Stores == [fingerprint : Profiles \cup {None}, table : BOOLEAN,
           state : [Sources -> Texts \cup {None}], rows : [Sources -> Rows \cup {None}]]

Passes == [at : {"idle", "planned", "embed"}, next : [Sources -> Texts \cup {None}],
           seen : [Sources -> Nat],
           offered : SUBSET Sources, deletes : SUBSET Sources, partial : BOOLEAN]

Models == {"none", "drop", "unmap", "clear", "create", "record", "ready", "failed"}

Shaped(s) == s = [at |-> s.at, pinned |-> s.pinned, admitted |-> s.admitted, hits |-> s.hits]

\* The types, as the provers need them: each record as a whole.
Typed ==
    /\ disk \in [Sources -> Contents \cup {None}]
    /\ active \in [Sources -> Texts \cup {None}]
    /\ stamp \in [Sources -> Nat] /\ seen \in [Sources -> Nat]
    /\ build \in Builds
    /\ model \in Models
    /\ store \in Stores
    /\ pass \in Passes
    /\ search.pinned \in [Sources -> Texts \cup {None}]
    /\ Shaped(search)
    /\ search.at \in {"idle", "pinned", "done"}
    /\ edits \in 0..MaxEdits /\ faults \in 0..MaxFaults
    /\ synced \in BOOLEAN /\ calm \in BOOLEAN

\* The rows are the vectors of the texts whose hashes are recorded, as build b makes them.
Vectors(b) ==
    \A k \in Sources : store.rows[k] = IF store.state[k] = None THEN None
                                       ELSE Embedding(store.state[k], b)

\* What each statement of SemanticStore::open finds, and what a crash between
\* two of them leaves to the builds that may still come.
StoreInv ==
    /\ \A b \in Builds :
         build <= b /\ Profile[b] = store.fingerprint => store.table /\ Vectors(b)
    /\ store.fingerprint = None => store.rows = NoSource /\ store.state = NoSource
    /\ store.fingerprint # None =>
         \E a \in Builds : a <= build /\ Profile[a] = store.fingerprint
    /\ model \in {"drop", "unmap", "clear", "create", "record"} =>
         store.fingerprint # Profile[build]
    /\ model \in {"unmap", "clear", "create", "record"} => store.rows = NoSource
    /\ model \in {"create", "record"} => store.state = NoSource
    /\ model = "record" => store.table
    /\ model = "ready" => store.fingerprint = Profile[build]

\* What a pass has still to embed, and that no delete of the plan takes what it embedded.
PassInv ==
    /\ pass.at = "embed" => model = "ready" /\ active = pass.next
    /\ \A k \in pass.offered : Chunked(pass.next[k])
    /\ \A k \in pass.deletes : Chunked(pass.next[k]) => k \in pass.offered
    /\ pass.at # "idle" /\ ~pass.partial =>
         /\ model = "ready"
         /\ \A k \in Sources :
              Chunked(pass.next[k]) => k \in pass.offered \/ store.state[k] = pass.next[k]

\* What a pass without a warning leaves, until the next one publishes.
SyncInv ==
    synced =>
        /\ model = "ready"
        /\ pass.at # "embed"
        /\ \A k \in Sources :
             /\ Chunked(active[k]) => store.state[k] = active[k]
             /\ active[k] = None => store.state[k] = None

\* A search that meets no pass: the generation it pinned is the active one, and its
\* hits are a page of the nearest vectors of the store.
CalmInv ==
    calm =>
        /\ synced /\ pass.at = "idle"
        /\ search.at # "idle"
        /\ search.pinned = active
        /\ search.admitted \in Filters
        /\ search.at = "done" =>
             \E near : /\ Nearest(near, Stored(store.rows))
                       /\ search.hits = Page(near, search.pinned, search.admitted)

SemanticInv == Typed /\ StoreInv /\ PassInv /\ SyncInv /\ CalmInv

-----------------------------------------------------------------------------
(* Facts about the operators. *)

\* The key the loops take next is one of the set: Min is the first in key order.
LEMMA MinIn ==
    ASSUME NEW S \in SUBSET Sources, S # {}
    PROVE  Min(S) \in S
<1>0. S \in SUBSET Nat
  BY SemanticAssumption
<1>1. \E x \in S : \A y \in S : ~ (<<y, x>> \in OpToRel(<, Nat))
  BY <1>0, NatLessThanWellFounded, WFMin, Zenon
<1>2. PICK x \in S : \A y \in S : ~(y < x)
  BY <1>0, <1>1, Zenon DEF OpToRel
<1>3. \A y \in S : x =< y
  BY <1>0, <1>2
<1> QED
  BY <1>2, <1>3 DEF Min

\* A text is embedded to a row, which is not None and which names the text.
LEMMA EmbeddingRow ==
    ASSUME NEW t \in Texts, NEW b \in Builds
    PROVE  /\ Embedding(t, b) \in Rows
           /\ Embedding(t, b) # None
           /\ Embedding(t, b).text = t
<1>1. t.content \in Contents
  BY DEF Texts
<1>2. Chunks[t.content] \in SUBSET UNION {Chunks[c] : c \in Contents}
  BY <1>1
<1>3. Embedding(t, b) \in Rows
  BY <1>2 DEF Embedding, Rows
<1> QED
  BY <1>3, NoneAssumption DEF Embedding

\* Two builds of one profile make the same vectors.
LEMMA SameProfile ==
    ASSUME NEW a \in Builds, NEW b \in Builds, Profile[a] = Profile[b], NEW t
    PROVE  Embedding(t, a) = Embedding(t, b)
  BY DEF Embedding

\* A profile that differs from the running one is not that of a later build, if it
\* was that of an earlier one.
LEMMA GivenUp ==
    ASSUME NEW a \in Builds, NEW b \in Builds, NEW c \in Builds,
           a <= b, b <= c, Profile[a] # Profile[b]
    PROVE  Profile[c] # Profile[a]
  BY ProfileAssumption

\* NoSource is a map of texts, of rows.
LEMMA NoSourceType ==
    /\ NoSource \in [Sources -> Texts \cup {None}]
    /\ NoSource \in [Sources -> Rows \cup {None}]
    /\ \A k \in Sources : NoSource[k] = None
  BY DEF NoSource

\* None has no chunks.
LEMMA NoneNotChunked == ~Chunked(None)
  BY DEF Chunked

\* The pass that does not run satisfies what is said of a pass.
LEMMA IdlePassType ==
    /\ IdlePass \in Passes
    /\ IdlePass.at = "idle" /\ IdlePass.offered = {} /\ IdlePass.deletes = {}
  BY NoSourceType DEF IdlePass, Passes

\* A store with an empty map of hashes and of rows has the vectors of every build.
LEMMA EmptyVectors ==
    ASSUME store.state = NoSource, store.rows = NoSource, NEW b \in Builds
    PROVE  Vectors(b)
  BY NoSourceType DEF Vectors

-----------------------------------------------------------------------------
(* The inductive step: the loader. *)

\* The invariant holds at the start.
LEMMA InitSemanticInv == Init => SemanticInv
<1> SUFFICES ASSUME Init PROVE SemanticInv
  OBVIOUS
<1>1. Typed
  <2>1. store \in Stores
    BY NoSourceType DEF Init, Stores
  <2>2. search.at = "idle" /\ search.pinned = NoSource /\ Shaped(search)
    BY DEF Init, IdleSearch, Shaped
  <2>3. edits \in 0..MaxEdits /\ faults \in 0..MaxFaults /\ build \in Builds
    BY SemanticAssumption DEF Init
  <2> QED
    BY <2>1, <2>2, <2>3, NoSourceType, IdlePassType DEF Init, Typed, Models
<1>2. StoreInv
  BY NoneAssumption DEF Init, StoreInv
<1>3. PassInv /\ SyncInv /\ CalmInv
  BY IdlePassType DEF Init, PassInv, SyncInv, CalmInv
<1> QED
  BY <1>1, <1>2, <1>3 DEF SemanticInv

\* A fault is counted within its bound.
LEMMA FaultCounted ==
    ASSUME Typed, Fault
    PROVE  faults' \in 0..MaxFaults
  BY SemanticAssumption DEF Typed, Fault

\* The part of the invariant that is not about the store, for a step of the loader.
LEMMA LoaderKeeps ==
    ASSUME SemanticInv, model # "ready", store' \in Stores,
           model' \in Models, faults' \in 0..MaxFaults,
           UNCHANGED <<corpus, build, pass, search, edits, synced, calm>>
    PROVE  Typed' /\ PassInv' /\ SyncInv' /\ CalmInv'
<1> USE DEF SemanticInv, corpus
<1>1. Typed'
  BY DEF Typed
<1>2. ~synced /\ ~calm
  BY DEF SyncInv, CalmInv
<1>3. pass.at # "embed" /\ (pass.at # "idle" => pass.partial)
  BY DEF PassInv, Typed, Passes
<1>4. PassInv'
  BY <1>3 DEF PassInv
<1> QED
  BY <1>1, <1>2, <1>4 DEF SyncInv, CalmInv

\* OpenStore only reads the fingerprint.
LEMMA OpenStoreKeeps == SemanticInv /\ OpenStore => SemanticInv'
<1> SUFFICES ASSUME SemanticInv, OpenStore PROVE SemanticInv'
  OBVIOUS
<1> USE DEF SemanticInv, corpus
<1>1. Typed' /\ PassInv' /\ SyncInv' /\ CalmInv'
  BY LoaderKeeps DEF OpenStore, Typed, Models
<1>2. build' = build /\ store' = store /\ \A b \in Builds : Vectors(b)' = Vectors(b)
  BY DEF OpenStore, Vectors
<1>3. StoreInv'
  BY <1>2 DEF OpenStore, StoreInv
<1> QED
  BY <1>1, <1>3

\* While the reset runs, no build that may still come has the recorded fingerprint.
LEMMA OldProfile ==
    ASSUME SemanticInv, model \in {"drop", "unmap", "clear", "create", "record"},
           NEW b \in Builds, build <= b
    PROVE  Profile[b] # store.fingerprint
<1>1. store.fingerprint # Profile[build] /\ build \in Builds
  BY DEF SemanticInv, StoreInv, Typed
<1>2. CASE store.fingerprint = None
  BY <1>2, NoneAssumption
<1>3. CASE store.fingerprint # None
  <2>1. PICK a \in Builds : a <= build /\ Profile[a] = store.fingerprint
    BY <1>3 DEF SemanticInv, StoreInv
  <2> QED
    BY <2>1, <1>1, GivenUp
<1> QED
  BY <1>2, <1>3

\* DropVectors leaves no row, under a fingerprint that no later build has.
LEMMA DropVectorsKeeps == SemanticInv /\ DropVectors => SemanticInv'
<1> SUFFICES ASSUME SemanticInv, DropVectors PROVE SemanticInv'
  OBVIOUS
<1> USE DEF SemanticInv, corpus
<1>1. store' \in Stores
  BY NoSourceType DEF DropVectors, Typed, Stores
<1>2. Typed' /\ PassInv' /\ SyncInv' /\ CalmInv'
  BY <1>1, LoaderKeeps DEF DropVectors, Typed, Models
<1>3. build' = build /\ model = "drop" /\ model' = "unmap"
  BY DEF DropVectors
<1>4. /\ store'.fingerprint = store.fingerprint /\ store'.state = store.state
      /\ store'.rows = NoSource
  BY DEF DropVectors, Typed, Stores
<1>5. \A b \in Builds : build <= b => Profile[b] # store.fingerprint
  BY <1>3, OldProfile
<1>6. StoreInv'
  BY <1>3, <1>4, <1>5 DEF StoreInv
<1> QED
  BY <1>2, <1>6

\* ClearMap and a load that fails leave what the reset has done so far.
LEMMA LoaderStops == SemanticInv /\ (ClearMap \/ LoadFails) => SemanticInv'
<1> SUFFICES ASSUME SemanticInv, ClearMap \/ LoadFails PROVE SemanticInv'
  OBVIOUS
<1> USE DEF SemanticInv, corpus
<1>1. /\ UNCHANGED <<corpus, build, store, pass, search, edits, synced, calm>>
      /\ model # "ready"
      /\ (model = "unmap" /\ model' = "clear") \/ model' = "failed"
  BY DEF ClearMap, LoadFails
<1>2. faults' \in 0..MaxFaults /\ model' \in Models /\ store' \in Stores
  <2>1. UNCHANGED faults \/ Fault
    BY DEF ClearMap, LoadFails
  <2> QED BY <1>1, <2>1, FaultCounted DEF Typed, Models
<1>3. Typed' /\ PassInv' /\ SyncInv' /\ CalmInv'
  BY <1>1, <1>2, LoaderKeeps
<1>4. \A b \in Builds : Vectors(b)' = Vectors(b)
  BY <1>1 DEF Vectors
<1>5. StoreInv'
  BY <1>1, <1>4 DEF StoreInv
<1> QED
  BY <1>3, <1>5

\* ClearState empties the hashes after the rows.
LEMMA ClearStateKeeps == SemanticInv /\ ClearState => SemanticInv'
<1> SUFFICES ASSUME SemanticInv, ClearState PROVE SemanticInv'
  OBVIOUS
<1> USE DEF SemanticInv, corpus
<1>1. store' \in Stores
  BY NoSourceType DEF ClearState, Typed, Stores
<1>2. Typed' /\ PassInv' /\ SyncInv' /\ CalmInv'
  BY <1>1, LoaderKeeps DEF ClearState, Typed, Models
<1>3. build' = build /\ model = "clear" /\ model' = "create"
  BY DEF ClearState
<1>4. /\ store'.fingerprint = store.fingerprint /\ store'.state = NoSource
      /\ store'.rows = store.rows
  BY DEF ClearState, Typed, Stores
<1>5. \A b \in Builds : build <= b => Profile[b] # store.fingerprint
  BY <1>3, OldProfile
<1>6. StoreInv'
  BY <1>3, <1>4, <1>5 DEF StoreInv
<1> QED
  BY <1>2, <1>6

\* CreateTable finds hashes and rows empty.
LEMMA CreateTableKeeps == SemanticInv /\ CreateTable => SemanticInv'
<1> SUFFICES ASSUME SemanticInv, CreateTable PROVE SemanticInv'
  OBVIOUS
<1> USE DEF SemanticInv, corpus
<1>1. store' \in Stores
  BY NoSourceType DEF CreateTable, Typed, Stores
<1>2. Typed' /\ PassInv' /\ SyncInv' /\ CalmInv'
  BY <1>1, LoaderKeeps DEF CreateTable, Typed, Models
<1>3. build' = build /\ model = "create" /\ model' = "record"
  BY DEF CreateTable
<1>4. /\ store'.fingerprint = store.fingerprint /\ store'.state = store.state
      /\ store'.rows = store.rows /\ store'.table
  BY DEF CreateTable, Typed, Stores
<1>5. \A b \in Builds : build <= b => Profile[b] # store.fingerprint
  BY <1>3, OldProfile
<1>6. StoreInv'
  BY <1>3, <1>4, <1>5 DEF StoreInv
<1> QED
  BY <1>2, <1>6

\* RecordFingerprint is the last statement: the store is empty, with its table.
LEMMA RecordFingerprintKeeps == SemanticInv /\ RecordFingerprint => SemanticInv'
<1> SUFFICES ASSUME SemanticInv, RecordFingerprint PROVE SemanticInv'
  OBVIOUS
<1> USE DEF SemanticInv, corpus
<1>1. store' \in Stores
  BY NoSourceType DEF RecordFingerprint, Typed, Stores, Profiles
<1>2. Typed' /\ PassInv' /\ SyncInv' /\ CalmInv'
  BY <1>1, LoaderKeeps DEF RecordFingerprint, Typed, Models
<1>3. build' = build /\ build \in Builds /\ model = "record" /\ model' = "ready"
  BY DEF RecordFingerprint, Typed
<1>4. /\ store'.fingerprint = Profile[build] /\ store'.state = NoSource
      /\ store'.rows = NoSource /\ store'.table
  BY <1>3 DEF RecordFingerprint, Typed, Stores, StoreInv
<1>5. \A b \in Builds : Vectors(b)'
  BY <1>4, NoSourceType DEF Vectors
<1>6. Profile[build] # None /\ build <= build
  BY <1>3, NoneAssumption, SemanticAssumption
<1>7. StoreInv'
  BY <1>3, <1>4, <1>5, <1>6 DEF StoreInv
<1> QED
  BY <1>2, <1>7

-----------------------------------------------------------------------------
(* The inductive step: the pass. *)

\* A step that leaves the store and the loader alone keeps what is said of them.
LEMMA StoreUntouched ==
    ASSUME StoreInv, UNCHANGED <<build, model, store>>
    PROVE  StoreInv'
<1>1. \A b \in Builds : Vectors(b)' = Vectors(b)
  BY DEF Vectors
<1> QED
  BY <1>1 DEF StoreInv

\* While the model is ready the store may change source by source, to no hash and
\* no rows or to a hash and its vectors.
LEMMA StoreFollows ==
    ASSUME StoreInv, build \in Builds, model = "ready", UNCHANGED <<build, model>>,
           store'.fingerprint = store.fingerprint, store'.table = store.table,
           \A k \in Sources :
               \/ store'.state[k] = store.state[k] /\ store'.rows[k] = store.rows[k]
               \/ store'.state[k] = None /\ store'.rows[k] = None
               \/ store'.state[k] # None /\ store'.rows[k] = Embedding(store'.state[k], build)
    PROVE  StoreInv'
<1>1. store.fingerprint = Profile[build] /\ store.fingerprint # None
  BY NoneAssumption DEF StoreInv
<1>2. ASSUME NEW b \in Builds, build <= b, Profile[b] = store.fingerprint
      PROVE  store'.table /\ Vectors(b)'
  <2>1. store.table /\ Vectors(b)
    BY <1>2 DEF StoreInv
  <2>2. \A t : Embedding(t, b) = Embedding(t, build)
    BY <1>1, <1>2 DEF Embedding
  <2> QED
    BY <2>1, <2>2 DEF Vectors
<1> QED
  BY <1>1, <1>2 DEF StoreInv

\* Forget takes hash and rows of the keys, together, and nothing else.
LEMMA ForgetFields ==
    ASSUME store \in Stores, NEW keys
    PROVE  /\ Forget(keys) \in Stores
           /\ Forget(keys).fingerprint = store.fingerprint
           /\ Forget(keys).table = store.table
           /\ \A k \in Sources :
                /\ Forget(keys).state[k] = IF k \in keys THEN None ELSE store.state[k]
                /\ Forget(keys).rows[k] = IF k \in keys THEN None ELSE store.rows[k]
  BY DEF Forget, Stores

\* While a pass embeds, no pass has just ended and no search is calm.
LEMMA NotCalm ==
    ASSUME SemanticInv, pass.at # "idle"
    PROVE  ~calm /\ (pass.at = "embed" => ~synced)
  BY DEF SemanticInv, SyncInv, CalmInv

\* Observe plans a read for every source whose vectors are not those of its text.
LEMMA ObserveKeeps == SemanticInv /\ Observe => SemanticInv'
<1> SUFFICES ASSUME SemanticInv, Observe PROVE SemanticInv'
  OBVIOUS
<1> USE DEF SemanticInv, corpus
<1>1. PICK more \in SUBSET {k \in Sources : disk[k] # None},
           failed \in SUBSET {k \in Sources : disk[k] # None} :
         LET read == (MustRead \cup more) \ failed
             upcoming == [k \in Sources |->
                        IF disk[k] = None THEN None
                        ELSE IF k \in read THEN Text(disk[k], build) ELSE active[k]]
         IN  /\ failed # {} => Fault
             /\ failed = {} => UNCHANGED faults
             /\ pass' = [at |-> "planned",
                         next |-> upcoming,
                         seen |-> [k \in Sources |->
                                     IF k \in read THEN stamp[k] ELSE seen[k]],
                         offered |-> {k \in read : Chunked(upcoming[k])},
                         deletes |-> {k \in Sources : upcoming[k] # active[k]},
                         partial |-> failed # {} \/ model # "ready"]
  BY DEF Observe
<1> DEFINE read == (MustRead \cup more) \ failed
           upcoming == [k \in Sources |->
                        IF disk[k] = None THEN None
                        ELSE IF k \in read THEN Text(disk[k], build) ELSE active[k]]
<1>2. /\ pass'.at = "planned" /\ pass'.next = upcoming
      /\ pass'.offered = {k \in read : Chunked(upcoming[k])}
      /\ pass'.deletes = {k \in Sources : upcoming[k] # active[k]}
      /\ pass'.partial = (failed # {} \/ model # "ready")
  BY <1>1
<1>3. read \subseteq Sources
  BY DEF MustRead
<1>4. upcoming \in [Sources -> Texts \cup {None}]
  BY DEF Typed, Text, Texts
<1>5. pass' \in Passes
  BY <1>1, <1>3, <1>4 DEF Passes, Typed
<1>6. faults' \in 0..MaxFaults
  BY <1>1, FaultCounted DEF Typed
<1>7. /\ calm' = FALSE
      /\ UNCHANGED <<corpus, build, model, store, search, edits, synced>>
      /\ pass.at = "idle"
  BY DEF Observe
<1>8. Typed'
  BY <1>5, <1>6, <1>7 DEF Typed
<1>9. \A k \in Sources : upcoming[k] # active[k] /\ Chunked(upcoming[k]) => k \in read
  BY NoneNotChunked
<1>10. ASSUME ~pass'.partial, NEW k \in Sources, Chunked(upcoming[k]), k \notin read
       PROVE  store.state[k] = upcoming[k]
  <2>1. model = "ready" /\ failed = {}
    BY <1>2, <1>10
  <2>2. upcoming[k] = active[k] /\ disk[k] # None
    BY <1>10, NoneNotChunked
  <2>3. k \notin MustRead
    BY <1>10, <2>1
  <2> QED
    BY <1>10, <2>1, <2>2, <2>3 DEF MustRead, Backfill, Identity
<1>11. PassInv'
  BY <1>2, <1>3, <1>7, <1>9, <1>10 DEF PassInv
<1>12. StoreInv'
  BY <1>7, StoreUntouched
<1>13. SyncInv' /\ CalmInv'
  BY <1>2, <1>7 DEF SyncInv, CalmInv
<1> QED
  BY <1>8, <1>11, <1>12, <1>13

\* Publish installs the plan; what was in step no longer counts.
LEMMA PublishKeeps == SemanticInv /\ Publish => SemanticInv'
<1> SUFFICES ASSUME SemanticInv, Publish PROVE SemanticInv'
  OBVIOUS
<1> USE DEF SemanticInv, corpus
<1>1. /\ pass.at = "planned" /\ active' = pass.next /\ seen' = pass.seen /\ synced' = FALSE
      /\ pass' = IF model = "ready" THEN [pass EXCEPT !.at = "embed"] ELSE IdlePass
      /\ UNCHANGED <<disk, stamp, build, model, store, search, edits, faults, calm>>
  BY DEF Publish
<1>2. ~calm
  BY <1>1, NotCalm
<1>3. pass \in Passes /\ pass' \in Passes
  BY <1>1, IdlePassType DEF Typed, Passes
<1>4. Typed'
  BY <1>1, <1>3 DEF Typed, Passes
<1>5. StoreInv'
  BY <1>1, StoreUntouched
<1>6. PassInv'
  <2>1. CASE model = "ready"
    <3>1. /\ pass'.at = "embed" /\ pass'.next = pass.next /\ pass'.offered = pass.offered
          /\ pass'.deletes = pass.deletes /\ pass'.partial = pass.partial
      BY <1>1, <1>3, <2>1 DEF Passes
    <3> QED
      BY <1>1, <2>1, <3>1 DEF PassInv
  <2>2. CASE model # "ready"
    BY <1>1, <2>2, IdlePassType DEF PassInv
  <2> QED
    BY <2>1, <2>2
<1> QED
  BY <1>1, <1>2, <1>4, <1>5, <1>6 DEF SyncInv, CalmInv

\* A publication that fails ends the pass and changes nothing.
LEMMA PublishFailsKeeps == SemanticInv /\ PublishFails => SemanticInv'
<1> SUFFICES ASSUME SemanticInv, PublishFails PROVE SemanticInv'
  OBVIOUS
<1> USE DEF SemanticInv, corpus
<1>1. /\ pass.at = "planned" /\ Fault /\ pass' = IdlePass
      /\ UNCHANGED <<corpus, build, model, store, search, edits, synced, calm>>
  BY DEF PublishFails
<1>2. Typed'
  BY <1>1, IdlePassType, FaultCounted DEF Typed
<1>3. StoreInv' /\ PassInv' /\ SyncInv' /\ CalmInv'
  BY <1>1, IdlePassType, StoreUntouched DEF PassInv, SyncInv, CalmInv
<1> QED
  BY <1>2, <1>3

\* What a step inside the embedding half has to show: its store follows, its plan shrinks.
LEMMA EmbedHalf ==
    ASSUME SemanticInv, pass.at = "embed", store' \in Stores,
           NEW k \in Sources,
           pass' = [pass EXCEPT !.offered = @ \ {k}, !.deletes = @ \ {k}]
             \/ pass' = [pass EXCEPT !.offered = @ \ {k}, !.deletes = @ \ {k},
                                     !.partial = TRUE],
           ~pass'.partial /\ Chunked(pass.next[k]) => store'.state[k] = pass.next[k],
           \A j \in Sources \ {k} : store'.state[j] = store.state[j],
           StoreInv', faults' \in 0..MaxFaults,
           UNCHANGED <<corpus, build, model, search, edits, synced, calm>>
    PROVE  SemanticInv'
<1> USE DEF SemanticInv, corpus
<1>1. pass \in Passes /\ pass' \in Passes
  BY DEF Typed, Passes
<1>2. /\ pass'.at = "embed" /\ pass'.next = pass.next
      /\ pass'.offered = pass.offered \ {k} /\ pass'.deletes = pass.deletes \ {k}
      /\ ~pass'.partial => ~pass.partial
  BY <1>1 DEF Passes
<1>3. Typed'
  BY <1>1 DEF Typed
<1>4. PassInv'
  BY <1>2 DEF PassInv
<1> QED
  BY <1>2, <1>3, <1>4, NotCalm DEF SyncInv, CalmInv

\* Embed writes hash and vectors of one source in one transaction.
LEMMA EmbedKeeps == SemanticInv /\ Embed => SemanticInv'
<1> SUFFICES ASSUME SemanticInv, Embed PROVE SemanticInv'
  OBVIOUS
<1> USE DEF SemanticInv, corpus
<1> DEFINE k == Min(pass.offered)
<1>1. /\ pass.at = "embed" /\ pass.offered # {}
      /\ store' = IF Skip(k) THEN store
                  ELSE [store EXCEPT !.state[k] = Identity(pass.next[k]),
                                     !.rows[k] = Embedding(pass.next[k], build)]
      /\ pass' = [pass EXCEPT !.offered = @ \ {k}, !.deletes = @ \ {k}]
      /\ UNCHANGED <<corpus, build, model, search, edits, faults, synced, calm>>
  BY DEF Embed
<1>2. pass \in Passes /\ store \in Stores /\ build \in Builds
  BY DEF Typed
<1>3. k \in pass.offered /\ k \in Sources
  BY <1>1, <1>2, MinIn DEF Passes
<1> HIDE DEF k
<1>4. pass.next[k] \in Texts /\ Chunked(pass.next[k]) /\ model = "ready"
  BY <1>1, <1>2, <1>3, NoneNotChunked DEF Passes, PassInv
<1>5. Embedding(pass.next[k], build) \in Rows /\ pass.next[k] # None
  BY <1>2, <1>4, EmbeddingRow, NoneAssumption
<1>6. /\ store' \in Stores
      /\ store'.fingerprint = store.fingerprint /\ store'.table = store.table
      /\ store'.state[k] = pass.next[k]
      /\ \A j \in Sources \ {k} : store'.state[j] = store.state[j] /\ store'.rows[j] = store.rows[j]
      /\ \/ store'.state[k] = store.state[k] /\ store'.rows[k] = store.rows[k]
         \/ store'.rows[k] = Embedding(store'.state[k], build)
  <2>1. CASE Skip(k)
    BY <1>1, <1>2, <2>1 DEF Skip, Identity
  <2>2. CASE ~Skip(k)
    BY <1>1, <1>2, <1>3, <1>4, <1>5, <2>2 DEF Stores, Identity
  <2> QED
    BY <2>1, <2>2
<1>7. StoreInv'
  BY <1>1, <1>2, <1>4, <1>5, <1>6, StoreFollows
<1>8. faults' \in 0..MaxFaults
  BY <1>1 DEF Typed
<1> QED
  BY <1>1, <1>3, <1>6, <1>7, <1>8, EmbedHalf

\* An embedding that fails leaves the store and marks the pass.
LEMMA EmbedFailsKeeps == SemanticInv /\ EmbedFails => SemanticInv'
<1> SUFFICES ASSUME SemanticInv, EmbedFails PROVE SemanticInv'
  OBVIOUS
<1> USE DEF SemanticInv, corpus
<1> DEFINE k == Min(pass.offered)
<1>1. /\ pass.at = "embed" /\ pass.offered # {} /\ Fault
      /\ pass' = [pass EXCEPT !.offered = @ \ {k}, !.deletes = @ \ {k}, !.partial = TRUE]
      /\ UNCHANGED <<corpus, build, model, store, search, edits, synced, calm>>
  BY DEF EmbedFails
<1>2. pass \in Passes /\ store \in Stores
  BY DEF Typed
<1>3. k \in Sources
  BY <1>1, <1>2, MinIn DEF Passes
<1> HIDE DEF k
<1>4. StoreInv' /\ faults' \in 0..MaxFaults
  BY <1>1, StoreUntouched, FaultCounted
<1>5. pass'.partial
  BY <1>1, <1>2 DEF Passes
<1> QED
  BY <1>1, <1>2, <1>3, <1>4, <1>5, EmbedHalf

\* A delete of the plan takes a source that the pass does not embed.
LEMMA DeleteKeeps == SemanticInv /\ Delete => SemanticInv'
<1> SUFFICES ASSUME SemanticInv, Delete PROVE SemanticInv'
  OBVIOUS
<1> USE DEF SemanticInv, corpus
<1> DEFINE k == Min(pass.deletes)
<1>1. /\ pass.at = "embed" /\ pass.offered = {} /\ pass.deletes # {}
      /\ \/ /\ store' = Forget({k})
            /\ pass' = [pass EXCEPT !.deletes = @ \ {k}]
            /\ UNCHANGED faults
         \/ /\ Fault
            /\ pass' = [pass EXCEPT !.deletes = @ \ {k}, !.partial = TRUE]
            /\ UNCHANGED store
      /\ UNCHANGED <<corpus, build, model, search, edits, synced, calm>>
  BY DEF Delete
<1>2. pass \in Passes /\ store \in Stores /\ build \in Builds
  BY DEF Typed
<1>3. k \in pass.deletes /\ k \in Sources
  BY <1>1, <1>2, MinIn DEF Passes
<1> HIDE DEF k
<1>4. ~Chunked(pass.next[k]) /\ model = "ready"
  BY <1>1, <1>3 DEF PassInv
<1>5. pass' = [pass EXCEPT !.offered = @ \ {k}, !.deletes = @ \ {k}]
        \/ pass' = [pass EXCEPT !.offered = @ \ {k}, !.deletes = @ \ {k}, !.partial = TRUE]
  BY <1>1, <1>2 DEF Passes
<1>6. /\ store' \in Stores /\ StoreInv'
      /\ \A j \in Sources \ {k} : store'.state[j] = store.state[j]
  <2>1. CASE store' = Forget({k})
    <3>1. /\ store' \in Stores /\ store'.fingerprint = store.fingerprint
          /\ store'.table = store.table
          /\ store'.state[k] = None /\ store'.rows[k] = None
          /\ \A j \in Sources \ {k} :
               store'.state[j] = store.state[j] /\ store'.rows[j] = store.rows[j]
      BY <1>2, <1>3, <2>1, ForgetFields
    <3> QED
      BY <1>1, <1>2, <1>4, <3>1, StoreFollows
  <2>2. CASE UNCHANGED store
    BY <1>1, <1>2, <2>2, StoreUntouched
  <2> QED
    BY <1>1, <2>1, <2>2
<1>7. faults' \in 0..MaxFaults
  BY <1>1, FaultCounted DEF Typed
<1> QED
  BY <1>1, <1>3, <1>4, <1>5, <1>6, <1>7, EmbedHalf

\* Retain takes the sources that left the generation, and the pass is over.
LEMMA RetainKeeps == SemanticInv /\ Retain => SemanticInv'
<1> SUFFICES ASSUME SemanticInv, Retain PROVE SemanticInv'
  OBVIOUS
<1> USE DEF SemanticInv, corpus
<1>1. /\ pass.at = "embed" /\ pass.offered = {} /\ pass' = IdlePass
      /\ UNCHANGED <<corpus, build, model, search, edits, calm>>
      /\ \/ store' = Forget(Stale) /\ synced' = ~pass.partial /\ UNCHANGED faults
         \/ Fault /\ (\E done \in SUBSET Stale : store' = Forget(done)) /\ synced' = FALSE
  BY DEF Retain
<1>2. pass \in Passes /\ store \in Stores /\ build \in Builds
  BY DEF Typed
<1>3. PICK done : /\ store' = Forget(done)
                  /\ synced' = TRUE => done = Stale /\ ~pass.partial
                  /\ synced' \in BOOLEAN
  BY <1>1, <1>2 DEF Passes
<1>4. /\ store' \in Stores /\ store'.fingerprint = store.fingerprint
      /\ store'.table = store.table
      /\ \A k \in Sources :
           /\ store'.state[k] = IF k \in done THEN None ELSE store.state[k]
           /\ store'.rows[k] = IF k \in done THEN None ELSE store.rows[k]
  BY <1>2, <1>3, ForgetFields
<1>5. model = "ready" /\ active = pass.next /\ ~calm
  BY <1>1, NotCalm DEF PassInv
<1>6. StoreInv'
  BY <1>1, <1>2, <1>4, <1>5, StoreFollows
<1>7. faults' \in 0..MaxFaults
  BY <1>1, FaultCounted DEF Typed
<1>8. Typed'
  BY <1>1, <1>3, <1>4, <1>7, IdlePassType DEF Typed
<1>9. PassInv' /\ CalmInv'
  BY <1>1, <1>5, IdlePassType DEF PassInv, CalmInv
<1>10. ASSUME synced' = TRUE, NEW k \in Sources
       PROVE  /\ Chunked(active[k]) => store'.state[k] = active[k]
              /\ active[k] = None => store'.state[k] = None
  <2>1. Chunked(active[k]) => store.state[k] = active[k] /\ k \notin Stale
    BY <1>1, <1>3, <1>5, <1>10, NoneNotChunked DEF PassInv, Stale
  <2>2. active[k] = None => store.state[k] = None \/ k \in Stale
    BY <1>5 DEF Stale
  <2> QED
    BY <1>3, <1>4, <1>10, <2>1, <2>2
<1>11. SyncInv'
  BY <1>1, <1>3, <1>5, <1>10, IdlePassType DEF SyncInv
<1> QED
  BY <1>6, <1>8, <1>9, <1>11

-----------------------------------------------------------------------------
(* The inductive step: searches, the vault, the process. *)

\* A step of a search changes nothing of the store, the loader or the pass.
LEMMA SearchOnly ==
    ASSUME SemanticInv,
           UNCHANGED <<corpus, build, model, store, pass, edits, faults, synced>>,
           calm' \in BOOLEAN, search'.pinned \in [Sources -> Texts \cup {None}],
           Shaped(search)',
           search'.at \in {"idle", "pinned", "done"}
    PROVE  Typed' /\ StoreInv' /\ PassInv' /\ SyncInv'
<1> USE DEF SemanticInv, corpus
<1>1. Typed'
  BY DEF Typed
<1>2. StoreInv'
  BY StoreUntouched
<1> QED
  BY <1>1, <1>2 DEF PassInv, SyncInv

\* Pin reads the generation; the search is calm if no pass runs and none is owed.
LEMMA PinKeeps == SemanticInv /\ Pin => SemanticInv'
<1> SUFFICES ASSUME SemanticInv, Pin PROVE SemanticInv'
  OBVIOUS
<1> USE DEF SemanticInv, corpus
<1>1. PICK a \in Filters :
        search' = [search EXCEPT !.at = "pinned", !.pinned = active, !.admitted = a]
  BY DEF Pin
<1>2. /\ search'.at = "pinned" /\ search'.pinned = active /\ search'.admitted \in Filters
      /\ Shaped(search)'
  BY <1>1 DEF Typed, Shaped
<1>3. Typed' /\ StoreInv' /\ PassInv' /\ SyncInv'
  BY <1>2, SearchOnly DEF Pin, Typed
<1>4. CalmInv'
  BY <1>2 DEF Pin, CalmInv
<1> QED
  BY <1>3, <1>4

\* Neighbours reads the rows, and takes its page of what the pinned generation holds.
LEMMA NeighboursKeeps == SemanticInv /\ Neighbours => SemanticInv'
<1> SUFFICES ASSUME SemanticInv, Neighbours PROVE SemanticInv'
  OBVIOUS
<1> USE DEF SemanticInv, corpus
<1>1. PICK near \in SUBSET Stored(store.rows) :
        /\ Nearest(near, Stored(store.rows))
        /\ search' = [search EXCEPT !.at = "done",
                                    !.hits = Page(near, search.pinned, search.admitted)]
  BY DEF Neighbours
<1>2. /\ search'.at = "done" /\ search'.pinned = search.pinned
      /\ search'.admitted = search.admitted
      /\ search'.hits = Page(near, search.pinned, search.admitted)
      /\ Shaped(search)'
  BY <1>1 DEF Typed, Shaped
<1>3. Typed' /\ StoreInv' /\ PassInv' /\ SyncInv'
  BY <1>2, SearchOnly DEF Neighbours, Typed
<1>4. UNCHANGED <<active, store, pass, synced, calm>>
  BY DEF Neighbours
<1>5. CalmInv'
  BY <1>1, <1>2, <1>4 DEF CalmInv
<1> QED
  BY <1>3, <1>5

\* Answer ends the search.
LEMMA AnswerKeeps == SemanticInv /\ Answer => SemanticInv'
<1> SUFFICES ASSUME SemanticInv, Answer PROVE SemanticInv'
  OBVIOUS
<1> USE DEF SemanticInv, corpus
<1>1. search'.at = "idle" /\ search'.pinned = NoSource
      /\ Shaped(search)'
  BY DEF Answer, IdleSearch, Shaped
<1>2. Typed' /\ StoreInv' /\ PassInv' /\ SyncInv'
  BY <1>1, NoSourceType, SearchOnly DEF Answer
<1>3. CalmInv'
  BY DEF Answer, CalmInv
<1> QED
  BY <1>2, <1>3

\* An edit of the vault reaches the index only through a pass.
LEMMA EditKeeps ==
    ASSUME SemanticInv, NEW k \in Sources, Edit(k)
    PROVE  SemanticInv'
<1> USE DEF SemanticInv, corpus
<1>1. /\ edits' = edits + 1 /\ edits < MaxEdits
      /\ \E c \in Contents \cup {None} : disk' = [disk EXCEPT ![k] = c]
      /\ \E m \in {stamp[k], stamp[k] + 1} : stamp' = [stamp EXCEPT ![k] = m]
      /\ UNCHANGED <<active, seen, build, model, store, pass, search, faults, synced, calm>>
  BY DEF Edit
<1>2. /\ disk' \in [Sources -> Contents \cup {None}] /\ edits' \in 0..MaxEdits
      /\ stamp' \in [Sources -> Nat]
  BY <1>1, SemanticAssumption DEF Typed
<1>3. Typed'
  BY <1>1, <1>2 DEF Typed
<1>4. StoreInv'
  BY <1>1, StoreUntouched
<1> QED
  BY <1>1, <1>3, <1>4 DEF PassInv, SyncInv, CalmInv

\* A restart, perhaps as a newer build, finds the store as any step left it.
LEMMA RestartKeeps == SemanticInv /\ Restart => SemanticInv'
<1> SUFFICES ASSUME SemanticInv, Restart PROVE SemanticInv'
  OBVIOUS
<1> USE DEF SemanticInv, corpus
<1>1. PICK b \in Builds :
        /\ b >= build /\ build' = b
        /\ active' = [k \in Sources |->
                        IF active[k] # None /\ active[k].format # Format[b] THEN None
                        ELSE active[k]]
  BY DEF Restart
<1>2. /\ Fault /\ model' = "none" /\ pass' = IdlePass /\ search' = IdleSearch
      /\ synced' = FALSE /\ calm' = FALSE /\ UNCHANGED <<disk, stamp, seen, store, edits>>
  BY DEF Restart
<1>3. build \in Nat /\ b \in Nat /\ Builds \subseteq Nat
  BY SemanticAssumption DEF Typed
<1>4. active' \in [Sources -> Texts \cup {None}]
  BY <1>1 DEF Typed
<1>5. /\ search'.at = "idle" /\ search'.pinned = NoSource
      /\ Shaped(search)'
  BY <1>2 DEF IdleSearch, Shaped
<1>6. Typed'
  BY <1>1, <1>2, <1>4, <1>5, NoSourceType, IdlePassType, FaultCounted DEF Typed, Models
<1>7. \A c \in Builds : Vectors(c)' = Vectors(c)
  BY <1>2 DEF Vectors
<1>8. StoreInv'
  <2>1. \A c \in Builds : build' <= c => build <= c
    BY <1>1, <1>3
  <2>2. \A a \in Builds : a <= build => a <= build'
    BY <1>1, <1>3
  <2> QED
    BY <1>2, <1>7, <2>1, <2>2 DEF StoreInv
<1>9. PassInv' /\ SyncInv' /\ CalmInv'
  BY <1>2, IdlePassType DEF PassInv, SyncInv, CalmInv
<1> QED
  BY <1>6, <1>8, <1>9

-----------------------------------------------------------------------------
(* The theorems. *)

\* The inductive invariant: SemanticStore::open, the pass, the searches, edits,
\* faults and restarts all keep it.
THEOREM SemanticInvariant == Spec => []SemanticInv
<1>1. Init => SemanticInv
  BY InitSemanticInv
<1>2. SemanticInv /\ [Next]_vars => SemanticInv'
  <2> SUFFICES ASSUME SemanticInv, [Next]_vars PROVE SemanticInv'
    OBVIOUS
  <2>1. CASE Loader \/ LoadFails
    BY <2>1, OpenStoreKeeps, DropVectorsKeeps, LoaderStops, ClearStateKeeps,
       CreateTableKeeps, RecordFingerprintKeeps DEF Loader
  <2>2. CASE Pass
    BY <2>2, ObserveKeeps, PublishKeeps, PublishFailsKeeps, EmbedKeeps, EmbedFailsKeeps,
       DeleteKeeps, RetainKeeps DEF Pass
  <2>3. CASE Search
    BY <2>3, PinKeeps, NeighboursKeeps, AnswerKeeps DEF Search
  <2>4. CASE \E k \in Sources : Edit(k)
    BY <2>4, EditKeeps
  <2>5. CASE Restart
    BY <2>5, RestartKeeps
  <2>6. CASE UNCHANGED vars
    <3>1. \A b \in Builds : Vectors(b)' = Vectors(b)
      BY <2>6 DEF vars, Vectors
    <3>2. Typed' /\ StoreInv'
      BY <2>6, <3>1 DEF vars, corpus, SemanticInv, Typed, StoreInv
    <3> QED
      BY <2>6, <3>2 DEF vars, corpus, SemanticInv, PassInv, SyncInv, CalmInv
  <2> QED
    BY <2>1, <2>2, <2>3, <2>4, <2>5, <2>6 DEF Next
<1> QED
  BY <1>1, <1>2, PTL DEF Spec

\* Every variable keeps its type, and the sources still to embed have chunks.
THEOREM TypeCorrect == Spec => []TypeOK
<1>1. SemanticInv => TypeOK
  BY DEF SemanticInv, PassInv, Typed, Stores, Profiles, Passes, Models, TypeOK
<1> QED
  BY <1>1, SemanticInvariant, PTL

\* The sound skip: whatever the reset of the store, a pass or an upgrade left
\* half done, a hash that embed_and_replace_source trusts has its vectors.
THEOREM HashesHaveVectors == Spec => []SkipIsSound
<1>1. SemanticInv => SkipIsSound
  <2> SUFFICES ASSUME SemanticInv, model = "ready" PROVE
        /\ store.table
        /\ store.fingerprint = Profile[build]
        /\ Vectors(build)
    BY DEF SkipIsSound, Vectors
  <2>1. build \in Builds /\ build <= build /\ store.fingerprint = Profile[build]
    BY SemanticAssumption DEF SemanticInv, Typed, StoreInv
  <2> QED
    BY <2>1 DEF SemanticInv, StoreInv
<1> QED
  BY <1>1, SemanticInvariant, PTL

\* What a pass without a warning leaves: the vectors of the texts of the generation it
\* published, and none of a source outside it.
LEMMA InStep == SemanticInv => SyncedVectors
<1> SUFFICES ASSUME SemanticInv, synced, NEW k \in Sources
    PROVE  /\ Chunked(active[k]) => store.rows[k] # None /\ store.rows[k].text = active[k]
           /\ active[k] = None => store.rows[k] = None
  BY DEF SyncedVectors
<1> USE DEF SemanticInv, corpus
<1>1. build \in Builds /\ build <= build /\ store.fingerprint = Profile[build]
  BY SemanticAssumption DEF Typed, StoreInv, SyncInv
<1>2. Vectors(build)
  BY <1>1 DEF StoreInv
<1>3. CASE Chunked(active[k])
  <2>1. store.state[k] = active[k] /\ active[k] \in Texts /\ active[k] # None
    BY <1>3, NoneNotChunked DEF SyncInv, Typed
  <2>2. store.rows[k] = Embedding(active[k], build)
    BY <1>2, <2>1 DEF Vectors
  <2> QED
    BY <1>1, <2>1, <2>2, EmbeddingRow
<1>4. CASE active[k] = None
  BY <1>2, <1>4, NoneNotChunked DEF SyncInv, Vectors
<1> QED
  BY <1>3, <1>4

\* The second half of the pass is caught up by a pass without a warning, whatever
\* failed before it: every source with chunks has the vectors of its present text,
\* and a source that left the generation has none.
THEOREM PassLeavesVectors == Spec => []SyncedVectors
  BY InStep, SemanticInvariant, PTL

-----------------------------------------------------------------------------
(* LexicalSearch                                                           *)

-----------------------------------------------------------------------------
(* The first n of a set in an order                                         *)

\* R orders D strictly and totally, with finitely many elements below each one.
Orders(R, D) ==
    /\ \A a \in D : <<a, a>> \notin R
    /\ \A a, b, c \in D : <<a, b>> \in R /\ <<b, c>> \in R => <<a, c>> \in R
    /\ \A a, b \in D : a # b => <<a, b>> \in R \/ <<b, a>> \in R
    /\ \A a \in D : IsFiniteSet({u \in D : <<u, a>> \in R})

Below(S, v, R) == {u \in S : <<u, v>> \in R}
Cut(S, n, R) == {v \in S : Cardinality(Below(S, v, R)) < n}

\* A set of numbers has a least element.
LEMMA LeastNat ==
    ASSUME NEW S \in SUBSET Nat, S # {}
    PROVE  \E x \in S : \A y \in S : x =< y
<1>1. \E x \in S : \A y \in S : ~ (<<y, x>> \in OpToRel(<, Nat))
  BY NatLessThanWellFounded, WFMin, Zenon
<1>2. PICK x \in S : \A y \in S : ~(y < x)
  BY <1>1, Zenon DEF OpToRel
<1> QED BY <1>2

\* What is below an element is finite, and grows with the set.
LEMMA BelowFinite ==
    ASSUME NEW D, NEW R, Orders(R, D), NEW S \in SUBSET D, NEW T \in SUBSET S, NEW v \in D
    PROVE  /\ IsFiniteSet(Below(S, v, R)) /\ Cardinality(Below(S, v, R)) \in Nat
           /\ IsFiniteSet(Below(T, v, R)) /\ Cardinality(Below(T, v, R)) \in Nat
           /\ Cardinality(Below(T, v, R)) =< Cardinality(Below(S, v, R))
<1>1. IsFiniteSet({u \in D : <<u, v>> \in R})
  BY DEF Orders
<1>2. Below(S, v, R) \in SUBSET {u \in D : <<u, v>> \in R}
  BY DEF Below
<1>3. IsFiniteSet(Below(S, v, R))
  BY <1>1, <1>2, FS_Subset
<1>4. Below(T, v, R) \in SUBSET Below(S, v, R)
  BY DEF Below
<1>5. IsFiniteSet(Below(T, v, R)) /\ Cardinality(Below(T, v, R)) =< Cardinality(Below(S, v, R))
  BY <1>3, <1>4, FS_Subset
<1> QED BY <1>3, <1>5, FS_CardinalityType

\* An element further up has more below it.
LEMMA BelowGrows ==
    ASSUME NEW D, NEW R, Orders(R, D), NEW S \in SUBSET D, NEW u \in S, NEW v \in S, <<u, v>> \in R
    PROVE  Cardinality(Below(S, u, R)) < Cardinality(Below(S, v, R))
<1>0. S \in SUBSET S
  OBVIOUS
<1>1. /\ IsFiniteSet(Below(S, v, R)) /\ Cardinality(Below(S, v, R)) \in Nat
      /\ Cardinality(Below(S, u, R)) \in Nat
  BY <1>0, BelowFinite
<1>2. Below(S, u, R) \in SUBSET Below(S, v, R)
  BY DEF Below, Orders
<1>3. u \in Below(S, v, R) /\ u \notin Below(S, u, R)
  BY DEF Below, Orders
<1>4. /\ Cardinality(Below(S, u, R)) =< Cardinality(Below(S, v, R))
      /\ Cardinality(Below(S, v, R)) # Cardinality(Below(S, u, R))
  BY <1>1, <1>2, <1>3, FS_Subset
<1> QED BY <1>1, <1>4

\* A set that is not empty has a first element.
LEMMA LeastIn ==
    ASSUME NEW D, NEW R, Orders(R, D), NEW S \in SUBSET D, S # {}
    PROVE  \E x \in S : Below(S, x, R) = {}
<1> DEFINE T == {Cardinality(Below(S, v, R)) : v \in S}
<1>0. S \in SUBSET S
  OBVIOUS
<1>1. \A v \in S : Cardinality(Below(S, v, R)) \in Nat
  BY <1>0, BelowFinite
<1>2. T \in SUBSET Nat /\ T # {}
  BY <1>1
<1> HIDE DEF T
<1>3. PICK t \in T : \A y \in T : t =< y
  BY <1>2, LeastNat
<1>4. PICK x \in S : t = Cardinality(Below(S, x, R))
  BY <1>3 DEF T
<1>5. \A u \in S : Cardinality(Below(S, x, R)) =< Cardinality(Below(S, u, R))
  BY <1>3, <1>4 DEF T
<1>6. ASSUME NEW u \in Below(S, x, R) PROVE FALSE
  <2>1. u \in S /\ <<u, x>> \in R
    BY DEF Below
  <2>2. Cardinality(Below(S, u, R)) < Cardinality(Below(S, x, R))
    BY <2>1, BelowGrows
  <2> QED BY <2>1, <2>2, <1>5, <1>1
<1> QED BY <1>6

\* A set between the first n of U and U has the same first n.
LEMMA CutBetween ==
    ASSUME NEW D, NEW R, Orders(R, D), NEW U \in SUBSET D, NEW K \in SUBSET U, NEW n \in Nat,
           Cut(U, n, R) \subseteq K
    PROVE  Cut(K, n, R) = Cut(U, n, R)
<1>1. \A v \in K : /\ IsFiniteSet(Below(K, v, R)) /\ Cardinality(Below(K, v, R)) \in Nat
                   /\ Cardinality(Below(U, v, R)) \in Nat
                   /\ Cardinality(Below(K, v, R)) =< Cardinality(Below(U, v, R))
  BY BelowFinite
<1>2. Cut(U, n, R) \subseteq Cut(K, n, R)
  BY <1>1 DEF Cut
<1>3. ASSUME NEW v \in Cut(K, n, R), v \notin Cut(U, n, R) PROVE FALSE
  <2> DEFINE A == Below(K, v, R)
             T == Below(U, v, R)
  <2>1. v \in K /\ v \in U /\ Cardinality(A) < n /\ ~(Cardinality(T) < n)
    BY <1>3 DEF Cut
  <2>2. T \ A # {}
    <3>1. A \subseteq T
      BY DEF Below
    <3>2. A # T
      BY <2>1
    <3> QED BY <3>1, <3>2
  <2>3. T \ A \in SUBSET D
    BY DEF Below
  <2> HIDE DEF A, T
  <2>4. PICK m \in T \ A : Below(T \ A, m, R) = {}
    BY <2>2, <2>3, LeastIn
  <2>5. m \in U /\ m \in D /\ v \in D /\ <<m, v>> \in R
    BY <2>1, <2>4 DEF T, Below
  <2>6. Below(U, m, R) \subseteq A
    <3> SUFFICES ASSUME NEW u \in Below(U, m, R) PROVE u \in A
      OBVIOUS
    <3>1. u \in U /\ u \in D /\ <<u, m>> \in R
      BY DEF Below
    <3>2. <<u, v>> \in R
      BY <3>1, <2>5, Zenon DEF Orders
    <3>3. u \in T
      BY <3>1, <3>2 DEF T, Below
    <3> QED BY <3>1, <3>3, <2>4 DEF Below
  <2>7. Cardinality(Below(U, m, R)) =< Cardinality(A)
    BY <2>1, <2>6, <1>1, FS_Subset DEF A
  <2>8. Cardinality(Below(U, m, R)) < n
    <3>1. Cardinality(Below(U, m, R)) \in Nat /\ Cardinality(A) \in Nat
      <4>1. U \in SUBSET U
        OBVIOUS
      <4> QED BY <4>1, <2>1, <2>5, <1>1, BelowFinite DEF A
    <3> QED BY <2>1, <2>7, <3>1
  <2>9. m \in K
    BY <2>5, <2>8 DEF Cut
  <2>10. m \in A
    BY <2>9, <2>5 DEF A, Below
  <2> QED BY <2>10, <2>4
<1> QED BY <1>2, <1>3

\* Cutting the parts first changes nothing: U is what the sets of F hold together,
\* K what their first n hold together.
Parts(U, K, F, D, n, R) ==
    /\ \A S \in F : S \subseteq D
    /\ \A v : v \in U <=> \E S \in F : v \in S
    /\ \A v : v \in K <=> \E S \in F : v \in Cut(S, n, R)

\* The first n of a union are the first n of the first n of each part.
LEMMA CutParts ==
    ASSUME NEW U, NEW K, NEW F, NEW D, NEW n \in Nat, NEW R, Orders(R, D), Parts(U, K, F, D, n, R)
    PROVE  /\ Cut(K, n, R) = Cut(U, n, R)
           /\ Cut(U, n, R) \subseteq K
           /\ K \subseteq U
<1> USE DEF Parts
<1>1. U \in SUBSET D
  OBVIOUS
<1>2. K \in SUBSET U
  BY DEF Cut
<1>3. Cut(U, n, R) \subseteq K
  <2> SUFFICES ASSUME NEW v \in Cut(U, n, R) PROVE v \in K
    OBVIOUS
  <2>1. v \in U /\ Cardinality(Below(U, v, R)) < n
    BY DEF Cut
  <2>2. PICK S \in F : v \in S
    BY <2>1
  <2>3. S \in SUBSET U
    OBVIOUS
  <2>4. /\ Cardinality(Below(U, v, R)) \in Nat /\ Cardinality(Below(S, v, R)) \in Nat
        /\ Cardinality(Below(S, v, R)) =< Cardinality(Below(U, v, R))
    BY <1>1, <2>1, <2>3, BelowFinite
  <2>5. v \in Cut(S, n, R)
    BY <2>1, <2>2, <2>4 DEF Cut
  <2> QED BY <2>5
<1>4. Cut(K, n, R) = Cut(U, n, R)
  BY <1>1, <1>2, <1>3, CutBetween
<1> QED BY <1>2, <1>3, <1>4

\* A cut that leaves something out has n elements.
LEMMA CutFull ==
    ASSUME NEW D, NEW R, Orders(R, D), NEW S \in SUBSET D, IsFiniteSet(S), NEW n \in Nat,
           Cut(S, n, R) # S
    PROVE  Cardinality(Cut(S, n, R)) >= n
<1> DEFINE C == Cut(S, n, R)
<1>1. C \in SUBSET S
  BY DEF Cut
<1>2. IsFiniteSet(C) /\ Cardinality(C) \in Nat
  BY <1>1, FS_Subset, FS_CardinalityType
<1> SUFFICES ASSUME Cardinality(C) < n PROVE FALSE
  BY <1>2
<1>3. S \ C # {} /\ S \ C \in SUBSET D
  BY <1>1
<1>4. PICK m \in S \ C : Below(S \ C, m, R) = {}
  <2> HIDE DEF C
  <2> QED BY <1>3, LeastIn
<1>5. Below(S, m, R) \in SUBSET C
  BY <1>4 DEF Below
<1>6. Cardinality(Below(S, m, R)) =< Cardinality(C)
  BY <1>2, <1>5, FS_Subset
<1>7. Cardinality(Below(S, m, R)) \in Nat
  <2>1. S \in SUBSET S
    OBVIOUS
  <2> QED BY <2>1, <1>4, BelowFinite
<1>8. m \in C
  BY <1>2, <1>4, <1>6, <1>7 DEF Cut
<1> QED BY <1>4, <1>8

\* Every place of a finite set is taken, by one element.
LEMMA Places ==
    ASSUME NEW D, NEW R, Orders(R, D), NEW S \in SUBSET D, IsFiniteSet(S),
           NEW k \in 0 .. (Cardinality(S) - 1)
    PROVE  \E v \in S : Cardinality(Below(S, v, R)) = k
<1> DEFINE N == Cardinality(S)
           f == [v \in S |-> Cardinality(Below(S, v, R))]
<1>0. N \in Nat /\ S \in SUBSET S
  BY FS_CardinalityType
<1>1. \A v \in S : /\ Cardinality(Below(S, v, R)) \in Nat
                   /\ Cardinality(Below(S, v, R)) < N
  <2> TAKE v \in S
  <2>1. Below(S, v, R) \in SUBSET S /\ v \notin Below(S, v, R)
    BY DEF Below, Orders
  <2>2. Cardinality(Below(S, v, R)) =< N /\ Cardinality(Below(S, v, R)) # N
    BY <2>1, FS_Subset
  <2>3. Cardinality(Below(S, v, R)) \in Nat
    BY <1>0, BelowFinite
  <2> QED BY <1>0, <2>2, <2>3
<1>2. f \in [S -> 0 .. (N - 1)]
  BY <1>0, <1>1
<1>3. \A u, v \in S : f[u] = f[v] => u = v
  <2> SUFFICES ASSUME NEW u \in S, NEW v \in S, f[u] = f[v], u # v PROVE FALSE
    OBVIOUS
  <2>1. <<u, v>> \in R \/ <<v, u>> \in R
    BY DEF Orders
  <2>2. f[u] < f[v] \/ f[v] < f[u]
    BY <2>1, BelowGrows
  <2>3. f[u] \in Nat /\ f[v] \in Nat
    BY <1>1
  <2> HIDE DEF f
  <2> QED BY <2>2, <2>3
<1>4. f \in Injection(S, 0 .. (N - 1))
  BY <1>2, <1>3 DEF Injection, IsInjective
<1>5. IsFiniteSet(0 .. (N - 1)) /\ Cardinality(0 .. (N - 1)) = N
  BY <1>0, FS_Interval
<1>6. f \in Surjection(S, 0 .. (N - 1))
  <2> HIDE DEF f
  <2> QED BY <1>4, <1>5, FS_Injection
<1>7. \E v \in S : f[v] = k
  BY <1>6 DEF Surjection
<1> QED BY <1>7

-----------------------------------------------------------------------------
(* The two orders of the search                                            *)

NatOrder == {r \in Nat \X Nat : r[1] < r[2]}
AheadOrder == {r \in Docs \X Docs : Ahead(r[1], r[2])}

\* The numbers are ordered.
LEMMA NatOrdered == Orders(NatOrder, Nat)
<1>1. \A a, b \in Nat : <<a, b>> \in NatOrder <=> a < b
  BY DEF NatOrder
<1>2. \A a \in Nat : IsFiniteSet({u \in Nat : <<u, a>> \in NatOrder})
  <2> TAKE a \in Nat
  <2> DEFINE S == {u \in Nat : <<u, a>> \in NatOrder}
  <2>1. S \in SUBSET Nat /\ \A u \in S : u <= a
    BY <1>1
  <2>2. IsFiniteSet(S)
    <3> HIDE DEF S
    <3> QED BY <2>1, FS_BoundedSetOfNaturals
  <2> QED BY <2>2
<1>3. /\ \A a \in Nat : <<a, a>> \notin NatOrder
      /\ \A a, b, c \in Nat : <<a, b>> \in NatOrder /\ <<b, c>> \in NatOrder => <<a, c>> \in NatOrder
      /\ \A a, b \in Nat : a # b => <<a, b>> \in NatOrder \/ <<b, a>> \in NatOrder
  BY <1>1
<1> QED BY <1>2, <1>3 DEF Orders

\* Ahead orders the documents: by score, then by chunk.
LEMMA AheadOrdered == Orders(AheadOrder, Docs)
<1>0. IsFiniteSet(Docs) /\ Docs \subseteq Nat /\ \A d \in Docs : Score[d] \in Nat
  <2>1. IsFiniteSet(Docs) /\ Docs = 1 .. Cardinality(Docs) /\ Cardinality(Docs) \in Nat
    BY LexicalAssumption, FS_CardinalityType
  <2>2. \A d \in Docs : Score[d] \in Nat
    BY LexicalAssumption
  <2> QED BY <2>1, <2>2
<1>1. \A a, b \in Docs : <<a, b>> \in AheadOrder <=> Ahead(a, b)
  BY DEF AheadOrder
<1>2. \A a \in Docs : IsFiniteSet({u \in Docs : <<u, a>> \in AheadOrder})
  <2> TAKE a \in Docs
  <2>1. {u \in Docs : <<u, a>> \in AheadOrder} \in SUBSET Docs
    OBVIOUS
  <2> QED BY <2>1, <1>0, FS_Subset
<1>3. \A a \in Docs : ~Ahead(a, a)
  BY <1>0 DEF Ahead
<1>4. \A a, b, c \in Docs : Ahead(a, b) /\ Ahead(b, c) => Ahead(a, c)
  BY <1>0 DEF Ahead
<1>5. \A a, b \in Docs : a # b => Ahead(a, b) \/ Ahead(b, a)
  BY <1>0 DEF Ahead
<1>6. \A a \in Docs : <<a, a>> \notin AheadOrder
  BY <1>1, <1>3
<1>7. \A a, b, c \in Docs : <<a, b>> \in AheadOrder /\ <<b, c>> \in AheadOrder => <<a, c>> \in AheadOrder
  BY <1>1, <1>4
<1>8. \A a, b \in Docs : a # b => <<a, b>> \in AheadOrder \/ <<b, a>> \in AheadOrder
  BY <1>1, <1>5
<1> QED BY <1>2, <1>6, <1>7, <1>8 DEF Orders

\* FirstOf is a cut in the order of the numbers.
LEMMA FirstOfIsCut ==
    ASSUME NEW S \in SUBSET Nat, NEW n
    PROVE  FirstOf(S, n) = Cut(S, n, NatOrder)
<1>1. \A v \in S : {u \in S : u < v} = Below(S, v, NatOrder)
  BY DEF Below, NatOrder
<1> QED BY <1>1 DEF FirstOf, Cut

\* Best is a cut in the order of the hits.
LEMMA BestIsCut ==
    ASSUME NEW S \in SUBSET Docs, NEW n
    PROVE  Best(S, n) = Cut(S, n, AheadOrder)
<1>1. \A v \in S : {u \in S : Ahead(u, v)} = Below(S, v, AheadOrder)
  BY DEF Below, AheadOrder
<1> QED BY <1>1 DEF Best, Cut

-----------------------------------------------------------------------------
(* The page of a semantic search                                           *)

\* The vectors of a store that is as the running build leaves it.
Embedded(rows) ==
    \A k \in Sources : rows[k] = None \/ \E t \in Texts, b \in Builds : rows[k] = Embedding(t, b)

\* A stored vector is a chunk of the text it was made from, and its source and place
\* tell it from every other.
LEMMA StoredAre ==
    ASSUME NEW rows, Embedded(rows)
    PROVE  /\ \A v \in Stored(rows) :
                /\ v.source \in Sources /\ v.source \in Nat /\ v.id \in Nat
                /\ rows[v.source] # None /\ v.text = rows[v.source].text
                /\ v.text \in Texts /\ v.id \in Chunks[v.text.content]
                /\ Far(v) \in Nat
                /\ v = [source |-> v.source, id |-> v.id, text |-> v.text]
           /\ \A k \in Sources : rows[k] # None =>
                \A i \in Chunks[rows[k].text.content] :
                  [source |-> k, id |-> i, text |-> rows[k].text] \in Stored(rows)
<1>1. ASSUME NEW k \in Sources, rows[k] # None
      PROVE  /\ rows[k].text \in Texts /\ rows[k].text.content \in Contents
             /\ rows[k].ids = Chunks[rows[k].text.content]
  <2>1. PICK t \in Texts, b \in Builds : rows[k] = Embedding(t, b)
    BY <1>1 DEF Embedded
  <2> QED BY <2>1 DEF Embedding, Texts
<1>2. ASSUME NEW v \in Stored(rows)
      PROVE  \E k \in Sources : /\ rows[k] # None
                                /\ \E i \in rows[k].ids :
                                     v = [source |-> k, id |-> i, text |-> rows[k].text]
  BY <1>2 DEF Stored
<1>3. ASSUME NEW v \in Stored(rows)
      PROVE  /\ v.source \in Sources /\ v.source \in Nat /\ v.id \in Nat
             /\ rows[v.source] # None /\ v.text = rows[v.source].text
             /\ v.text \in Texts /\ v.id \in Chunks[v.text.content]
             /\ Far(v) \in Nat
             /\ v = [source |-> v.source, id |-> v.id, text |-> v.text]
  <2>1. PICK k \in Sources : /\ rows[k] # None
                             /\ \E i \in rows[k].ids :
                                  v = [source |-> k, id |-> i, text |-> rows[k].text]
    BY <1>2, <1>3
  <2>2. PICK i \in rows[k].ids : v = [source |-> k, id |-> i, text |-> rows[k].text]
    BY <2>1
  <2>3. /\ v.source = k /\ v.id = i /\ v.text = rows[k].text
        /\ v.text \in Texts /\ v.text.content \in Contents
        /\ v.id \in Chunks[v.text.content]
    BY <1>1, <2>1, <2>2
  <2>4. v.id \in Nat /\ Far(v) \in Nat /\ k \in Nat
    BY <2>3, SemanticAssumption DEF Far
  <2> QED BY <2>1, <2>2, <2>3, <2>4
<1>4. ASSUME NEW k \in Sources, rows[k] # None, NEW i \in Chunks[rows[k].text.content]
      PROVE  [source |-> k, id |-> i, text |-> rows[k].text] \in Stored(rows)
  BY <1>1, <1>4 DEF Stored
<1> QED BY <1>3, <1>4

\* Finitely many vectors are stored.
LEMMA StoredFinite ==
    ASSUME NEW rows, Embedded(rows)
    PROVE  IsFiniteSet(Stored(rows))
<1> DEFINE K == {j \in Sources : rows[j] # None}
           g == [k \in K |->
                   {[source |-> k, id |-> i, text |-> rows[k].text] : i \in rows[k].ids}]
           P == {g[k] : k \in K}
<1>1. IsFiniteSet(K)
  BY SemanticAssumption, FS_Subset
<1>2. g \in Surjection(K, P)
  BY DEF Surjection
<1>3. IsFiniteSet(P)
  <2> HIDE DEF K, g, P
  <2> QED BY <1>1, <1>2, FS_Surjection
<1>4. ASSUME NEW k \in K PROVE IsFiniteSet(g[k])
  <2> DEFINE f == [i \in rows[k].ids |-> [source |-> k, id |-> i, text |-> rows[k].text]]
  <2>1. IsFiniteSet(rows[k].ids)
    <3>1. PICK t \in Texts, b \in Builds : rows[k] = Embedding(t, b)
      BY DEF Embedded
    <3>2. rows[k].ids = Chunks[t.content] /\ t.content \in Contents
      BY <3>1 DEF Embedding, Texts
    <3> QED BY <3>2, SemanticAssumption
  <2>2. f \in Surjection(rows[k].ids, g[k])
    BY DEF Surjection
  <2> HIDE DEF f, g
  <2> QED BY <2>1, <2>2, FS_Surjection
<1>5. \A T \in P : IsFiniteSet(T)
  BY <1>4
<1>6. Stored(rows) = UNION P
  BY DEF Stored
<1> HIDE DEF P
<1> QED BY <1>3, <1>5, <1>6, FS_UNION

BeforeOrder(D) == {r \in D \X D : Before(r[1], r[2])}

\* Before orders the stored vectors: by distance, then by chunk.
LEMMA BeforeOrdered ==
    ASSUME NEW rows, Embedded(rows)
    PROVE  Orders(BeforeOrder(Stored(rows)), Stored(rows))
<1> DEFINE D == Stored(rows)
           R == BeforeOrder(D)
<1>0. /\ \A a \in D : a.source \in Nat /\ a.id \in Nat /\ Far(a) \in Nat
      /\ \A a, b \in D : a # b => a.source # b.source \/ a.id # b.id
  BY StoredAre
<1>1. \A a, b \in D : <<a, b>> \in R <=> Before(a, b)
  BY DEF BeforeOrder
<1>2. \A a \in D : IsFiniteSet({u \in D : <<u, a>> \in R})
  <2> TAKE a \in D
  <2>1. {u \in D : <<u, a>> \in R} \in SUBSET D
    OBVIOUS
  <2> QED BY <2>1, StoredFinite, FS_Subset
<1> HIDE DEF D, R
<1>3. \A a \in D : ~Before(a, a)
  BY <1>0 DEF Before
<1>4. \A a, b, c \in D : Before(a, b) /\ Before(b, c) => Before(a, c)
  BY <1>0 DEF Before
<1>5. \A a, b \in D : a # b => Before(a, b) \/ Before(b, a)
  BY <1>0 DEF Before
<1>6. /\ \A a \in D : <<a, a>> \notin R
      /\ \A a, b, c \in D : <<a, b>> \in R /\ <<b, c>> \in R => <<a, c>> \in R
      /\ \A a, b \in D : a # b => <<a, b>> \in R \/ <<b, a>> \in R
  BY <1>1, <1>3, <1>4, <1>5
<1>7. Orders(R, D)
  BY <1>2, <1>6 DEF Orders
<1> QED BY <1>7 DEF R, D

\* First is a cut in that order: what it leaves out is behind what it takes, and it
\* leaves something out only when it is full.
LEMMA FirstIsCut ==
    ASSUME NEW rows, Embedded(rows), NEW S \in SUBSET Stored(rows), NEW n \in Nat
    PROVE  /\ First(S, n) \subseteq S
           /\ First(S, n) # S => Cardinality(First(S, n)) >= n
           /\ \A u \in First(S, n), v \in S \ First(S, n) : Far(u) <= Far(v)
<1> DEFINE D == Stored(rows)
           R == BeforeOrder(D)
<1>1. Orders(R, D)
  BY BeforeOrdered
<1>2. \A v \in S : {u \in S : Before(u, v)} = Below(S, v, R)
  BY DEF Below, BeforeOrder
<1>3. First(S, n) = Cut(S, n, R)
  BY <1>2 DEF First, Cut
<1>4. IsFiniteSet(S)
  BY StoredFinite, FS_Subset
<1>5. \A a \in D : a.source \in Nat /\ a.id \in Nat /\ Far(a) \in Nat
  BY StoredAre
<1>6. \A a, b \in D : <<a, b>> \in R <=> Before(a, b)
  BY DEF BeforeOrder
<1> HIDE DEF D, R
<1>7. S \in SUBSET D /\ S \in SUBSET S
  BY DEF D
<1>8. First(S, n) # S => Cardinality(First(S, n)) >= n
  BY <1>1, <1>3, <1>4, <1>7, CutFull
<1>9. ASSUME NEW u \in First(S, n), NEW v \in S \ First(S, n) PROVE Far(u) <= Far(v)
  <2>1. u \in S /\ v \in S /\ u \in D /\ v \in D
        /\ Cardinality(Below(S, u, R)) < n /\ ~(Cardinality(Below(S, v, R)) < n)
    BY <1>3, <1>7 DEF Cut
  <2>2. Cardinality(Below(S, u, R)) \in Nat /\ Cardinality(Below(S, v, R)) \in Nat
    BY <1>1, <1>7, <2>1, BelowFinite
  <2>3. CASE <<v, u>> \in R
    <3>1. Cardinality(Below(S, v, R)) < Cardinality(Below(S, u, R))
      BY <1>1, <1>7, <2>1, <2>3, BelowGrows
    <3> QED BY <2>1, <2>2, <3>1
  <2>4. CASE <<v, u>> \notin R
    <3>1. ~Before(v, u)
      BY <1>6, <2>1, <2>4
    <3> QED BY <1>5, <2>1, <3>1 DEF Before
  <2> QED BY <2>3, <2>4
<1> QED BY <1>8, <1>9 DEF First

\* Every text with chunks has the vectors of that text.
Covers(rows, generation) ==
    \A k \in Sources : Chunked(generation[k]) =>
       rows[k] # None /\ rows[k].text = generation[k]

\* What CalmSearchIsExact says of a page.
NearestPage(page, passages, rows) ==
    /\ page \subseteq passages
    /\ \A v \in passages \ page :
         /\ \A h \in page : Far(h) <= Far(v)
         /\ \/ Cardinality(page) >= PageLimit
            \/ Cardinality(Stored(rows) \ passages) > Depth - PageLimit

\* What the page of a search in step holds: of the nearest vectors, those of the
\* passages it may answer with.
LEMMA PageIs ==
    ASSUME NEW rows, Embedded(rows), NEW generation \in [Sources -> Texts \cup {None}],
           NEW admitted \in SUBSET Sources, NEW near, Nearest(near, Stored(rows)),
           Covers(rows, generation)
    PROVE  NearestPage(Page(near, generation, admitted),
                       Passages(generation, admitted), rows)
<1> DEFINE D == Stored(rows)
           passages == Passages(generation, admitted)
           S == {v \in near : Held(v, generation, admitted)}
           page == First(S, PageLimit)
<1>0. PageLimit \in Nat /\ Depth \in Nat
  BY SemanticAssumption DEF Depth
<1>1. near \subseteq D /\ S \in SUBSET D
  BY DEF Nearest
<1>2. ASSUME NEW v \in D, Held(v, generation, admitted) PROVE v \in passages
  <2>1. /\ v.source \in admitted /\ v.source \in Sources /\ generation[v.source] \in Texts
        /\ v.id \in Chunks[generation[v.source].content]
    BY <1>2, StoredAre DEF Held
  <2>2. Chunked(generation[v.source])
    BY <2>1, NoneAssumption DEF Chunked
  <2>3. v.text = generation[v.source] /\ v = [source |-> v.source, id |-> v.id, text |-> v.text]
    BY <1>2, <2>1, <2>2, StoredAre DEF Covers
  <2>4. v.text.content \in Contents
    BY <2>1, <2>3 DEF Texts
  <2>5. v.id \in UNION {Chunks[c] : c \in Contents}
    BY <2>1, <2>3, <2>4
  <2> QED BY <2>1, <2>3, <2>5 DEF Passages
<1>3. ASSUME NEW v \in passages PROVE v \in D /\ Held(v, generation, admitted)
  <2>1. /\ v.source \in admitted /\ v.text \in Texts /\ v.id \in Chunks[v.text.content]
        /\ generation[v.source] = v.text /\ v.source \in Sources
        /\ v = [source |-> v.source, id |-> v.id, text |-> v.text]
    BY <1>3 DEF Passages
  <2>2. Chunked(generation[v.source])
    BY <2>1, NoneAssumption DEF Chunked
  <2>3. rows[v.source] # None /\ rows[v.source].text = v.text
    BY <2>1, <2>2 DEF Covers
  <2>4. v \in D
    BY <2>1, <2>3, StoredAre
  <2> QED BY <2>1, <2>4, NoneAssumption DEF Held
<1>4. /\ page \subseteq S
      /\ page # S => Cardinality(page) >= PageLimit
      /\ \A u \in page, v \in S \ page : Far(u) <= Far(v)
  <2> HIDE DEF S
  <2> QED BY <1>0, <1>1, FirstIsCut
<1>5. IsFiniteSet(D)
  BY StoredFinite
<1>6. S = near \cap passages
  BY <1>1, <1>2, <1>3
<1>7. /\ Cardinality(near) <= Depth
      /\ near = D \/ Cardinality(near) = Depth
      /\ \A u \in near, v \in D \ near : Far(u) <= Far(v)
  BY DEF Nearest
<1> HIDE DEF D, passages, S, page
<1>8. page \subseteq passages
  BY <1>4, <1>6
<1>9. ASSUME NEW v \in passages \ page
      PROVE  /\ \A h \in page : Far(h) <= Far(v)
             /\ Cardinality(page) >= PageLimit \/ Cardinality(D \ passages) > Depth - PageLimit
  <2>0. v \in D
    BY <1>3
  <2>1. CASE v \in near
    BY <1>4, <1>6, <1>9, <2>1
  <2>2. CASE v \notin near
    <3>1. \A h \in page : Far(h) <= Far(v)
      BY <1>4, <1>6, <1>7, <2>0, <2>2
    <3>2. ASSUME ~(Cardinality(page) >= PageLimit)
          PROVE  Cardinality(D \ passages) > Depth - PageLimit
      <4>1. page = S
        BY <1>4, <3>2
      <4>2. Cardinality(near) = Depth /\ IsFiniteSet(near)
        BY <1>1, <1>5, <1>7, <2>0, <2>2, FS_Subset
      <4>3. /\ IsFiniteSet(near \ passages)
            /\ Cardinality(near \ passages) = Cardinality(near) - Cardinality(S)
        BY <1>6, <4>2, FS_Difference
      <4>4. near \ passages \subseteq D \ passages /\ IsFiniteSet(D \ passages)
        BY <1>1, <1>5, FS_Difference
      <4>5. Cardinality(near \ passages) <= Cardinality(D \ passages)
        BY <4>4, FS_Subset
      <4>6. Cardinality(S) \in Nat /\ Cardinality(D \ passages) \in Nat
        BY <1>6, <4>2, <4>4, FS_Intersection, FS_CardinalityType
      <4> QED BY <1>0, <3>2, <4>1, <4>2, <4>3, <4>5, <4>6
    <3> QED BY <3>1, <3>2
  <2> QED BY <2>1, <2>2
<1> QED BY <1>8, <1>9 DEF NearestPage, Page, D, passages, S, page

\* A search that meets no pass answers with the nearest chunks, each by a vector of
\* its own text, whatever was fetched and dropped on the way: for every distance,
\* every filter and every value of the two bounds.
THEOREM CalmSearches == Spec => []CalmSearchIsExact
<1>1. SemanticInv => CalmSearchIsExact
  <2> SUFFICES ASSUME SemanticInv, search.at = "done", calm
      PROVE  NearestPage(search.hits, Passages(search.pinned, search.admitted), store.rows)
    BY DEF CalmSearchIsExact, NearestPage
  <2>1. /\ synced /\ model = "ready" /\ pass.at # "embed" /\ search.pinned = active
        /\ search.admitted \in SUBSET Sources
    BY SemanticAssumption DEF SemanticInv, CalmInv, SyncInv
  <2>2. PICK near : /\ Nearest(near, Stored(store.rows))
                    /\ search.hits = Page(near, search.pinned, search.admitted)
    BY DEF SemanticInv, CalmInv
  <2>3. Covers(store.rows, search.pinned)
    BY <2>1, InStep DEF SyncedVectors, Covers
  <2>4. Embedded(store.rows)
    <3>1. build \in Builds /\ build <= build /\ store.fingerprint = Profile[build]
      BY <2>1, SemanticAssumption DEF SemanticInv, Typed, StoreInv
    <3>2. Vectors(build)
      BY <3>1 DEF SemanticInv, StoreInv
    <3>3. \A k \in Sources : store.state[k] \in Texts \cup {None}
      BY DEF SemanticInv, Typed, Stores
    <3> QED BY <3>1, <3>2, <3>3 DEF Vectors, Embedded
  <2>5. search.pinned \in [Sources -> Texts \cup {None}]
    BY DEF SemanticInv, Typed
  <2> QED BY <2>1, <2>2, <2>3, <2>4, <2>5, PageIs
<1> QED
  BY <1>1, SemanticInvariant, PTL

-----------------------------------------------------------------------------
(* What a prefix stands for                                                *)

\* The bounds are positive numbers, the texts and completions are of words.
LEMMA Bounds ==
    /\ MaxScan \in Nat /\ MaxScan >= 2
    /\ MaxCandidates \in Nat \ {0} /\ MaxTotal \in Nat \ {0} /\ MaxPartialTerms \in Nat \ {0}
    /\ MinSources \in Nat \ {0} /\ MaxPrefixTerms \in Nat \ {0}
    /\ \A w \in Words : Completions[w] \subseteq Nat
    /\ IsFiniteSet(Docs)
  BY LexicalAssumption

\* The segments of a layout are the documents, split.
LEMMA SegmentsCover ==
    ASSUME NEW lay
    PROVE  /\ UNION Segments(lay) = Docs
           /\ \A seg \in Segments(lay) : seg \subseteq Docs
           /\ \A seg \in Segments(lay) : \A d, e \in seg : Context[d] = Context[e]
<1>1. \A seg \in Segments(lay) : seg \subseteq Docs
  BY DEF Segments
<1>2. ASSUME NEW d \in Docs PROVE \E seg \in Segments(lay) : d \in seg
  <2> DEFINE seg == {x \in Docs : <<Context[x], lay[x]>> = <<Context[d], lay[d]>>}
  <2>1. d \in seg
    OBVIOUS
  <2>2. seg \in Segments(lay)
    BY DEF Segments
  <2> QED BY <2>1, <2>2
<1>3. ASSUME NEW seg \in Segments(lay), NEW d \in seg, NEW e \in seg
      PROVE  Context[d] = Context[e]
  <2>1. PICK s : seg = {x \in Docs : <<Context[x], lay[x]>> = s}
    BY DEF Segments
  <2>2. <<Context[d], lay[d]>> = <<Context[e], lay[e]>>
    BY <2>1
  <2> QED BY <2>2
<1> QED BY <1>1, <1>2, <1>3

\* The words of the index that start with w, in some of the fields.
Known(fields, w) == {v \in Completions[w] : \E d \in Docs : \E f \in fields : Has(d, f, v)}

\* Whatever the segments are, the window lies between the first words of the
\* index and its words.
LEMMA WindowBetween ==
    ASSUME NEW lay, NEW fields, NEW w \in Words
    PROVE  /\ Known(fields, w) \subseteq Nat
           /\ Window(lay, fields, w) \subseteq Known(fields, w)
           /\ FirstOf(Known(fields, w), MaxScan) \subseteq Window(lay, fields, w)
           /\ FirstOf(Window(lay, fields, w), MaxScan) = FirstOf(Known(fields, w), MaxScan)
<1> DEFINE F == {Dictionary(seg, f, w) : seg \in Segments(lay), f \in fields}
<1>1. Known(fields, w) \in SUBSET Nat
  BY Bounds DEF Known
<1>2. \A S \in F : S \in SUBSET Nat
  BY Bounds DEF Dictionary
<1>3. UNION F = Known(fields, w)
  <2>1. ASSUME NEW v \in UNION F PROVE v \in Known(fields, w)
    BY <2>1, SegmentsCover DEF Dictionary, Known
  <2>2. ASSUME NEW v \in Known(fields, w) PROVE v \in UNION F
    <3>1. PICK d \in Docs, f \in fields : v \in Completions[w] /\ Has(d, f, v)
      BY DEF Known
    <3>2. PICK seg \in Segments(lay) : d \in seg
      BY SegmentsCover
    <3>3. v \in Dictionary(seg, f, w)
      BY <3>1, <3>2 DEF Dictionary
    <3>4. Dictionary(seg, f, w) \in F
      OBVIOUS
    <3> QED BY <3>3, <3>4
  <2> QED BY <2>1, <2>2
<1>4. Window(lay, fields, w) = UNION {Cut(S, MaxScan, NatOrder) : S \in F}
  <2>1. \A seg \in Segments(lay), f \in fields :
          FirstOf(Dictionary(seg, f, w), MaxScan) = Cut(Dictionary(seg, f, w), MaxScan, NatOrder)
    BY <1>2, FirstOfIsCut
  <2>2. Window(lay, fields, w)
          = UNION {Cut(Dictionary(seg, f, w), MaxScan, NatOrder) : seg \in Segments(lay), f \in fields}
    BY <2>1 DEF Window
  <2>3. {Cut(Dictionary(seg, f, w), MaxScan, NatOrder) : seg \in Segments(lay), f \in fields}
          = {Cut(S, MaxScan, NatOrder) : S \in F}
    OBVIOUS
  <2> QED BY <2>2, <2>3
<1> HIDE DEF F
<1>5. /\ Cut(Window(lay, fields, w), MaxScan, NatOrder) = Cut(Known(fields, w), MaxScan, NatOrder)
      /\ Cut(Known(fields, w), MaxScan, NatOrder) \subseteq Window(lay, fields, w)
      /\ Window(lay, fields, w) \subseteq Known(fields, w)
  <2>1. \A S \in F : S \subseteq Nat
    BY <1>2
  <2>2. \A v : v \in Known(fields, w) <=> \E S \in F : v \in S
    BY <1>3
  <2>3. \A v : v \in Window(lay, fields, w) <=> \E S \in F : v \in Cut(S, MaxScan, NatOrder)
    BY <1>4
  <2>4. MaxScan \in Nat
    BY Bounds
  <2>5. Parts(Known(fields, w), Window(lay, fields, w), F, Nat, MaxScan, NatOrder)
    BY <2>1, <2>2, <2>3 DEF Parts
  <2> QED BY <2>4, <2>5, NatOrdered, CutParts
<1> QED BY <1>1, <1>5, FirstOfIsCut

\* The words a prefix stands for, said of the index and not of its segments.
ExpansionsOf(w) ==
    LET kept   == FirstOf(Known(Fields, w), MaxScan)
        Key(v) == <<IF v \in Known({"Title"}, w) THEN 0 ELSE 1, Length[v], v>>
    IN  IF Known(Fields, w) \subseteq {w} THEN {}
        ELSE {v \in kept : Cardinality({u \in kept : Precedes(Key(u), Key(v))}) < MaxExpansions}

\* The words a prefix stands for do not depend on the segments.
LEMMA ExpansionsAre ==
    ASSUME NEW lay, NEW w \in Words
    PROVE  Expansions(lay, w) = ExpansionsOf(w)
<1> DEFINE all    == Known(Fields, w)
           title  == Known({"Title"}, w)
           window == Window(lay, Fields, w)
           named  == Window(lay, {"Title"}, w)
           kept   == FirstOf(all, MaxScan)
<1>1. /\ all \in SUBSET Nat /\ title \in SUBSET Nat /\ title \subseteq all
      /\ window \subseteq all /\ named \subseteq title
      /\ kept \subseteq window /\ FirstOf(window, MaxScan) = kept
      /\ FirstOf(title, MaxScan) \subseteq named
  <2>1. title \subseteq all
    BY DEF Known, Fields
  <2> QED BY <2>1, WindowBetween
<1>2. ASSUME NEW v \in kept PROVE v \in named <=> v \in title
  <2> SUFFICES ASSUME v \in title PROVE v \in FirstOf(title, MaxScan)
    BY <1>1
  <2>1. v \in all /\ Cardinality(Below(all, v, NatOrder)) < MaxScan
    BY <1>1, FirstOfIsCut DEF Cut
  <2>2. /\ Cardinality(Below(all, v, NatOrder)) \in Nat
        /\ Cardinality(Below(title, v, NatOrder)) \in Nat
        /\ Cardinality(Below(title, v, NatOrder)) =< Cardinality(Below(all, v, NatOrder))
    <3> HIDE DEF all, title
    <3> QED BY <1>1, <2>1, NatOrdered, BelowFinite
  <2>3. Cardinality(Below(title, v, NatOrder)) < MaxScan
    BY <2>1, <2>2, Bounds
  <2>4. v \in Cut(title, MaxScan, NatOrder)
    BY <2>3 DEF Cut
  <2> QED BY <2>4, <1>1, FirstOfIsCut
<1>3. window \subseteq {w} <=> all \subseteq {w}
  <2> SUFFICES ASSUME window \subseteq {w}, NEW x \in all, x # w PROVE FALSE
    BY <1>1
  <2> DEFINE others == all \ {w}
  <2>1. others \in SUBSET Nat /\ others # {}
    BY <1>1
  <2>2. PICK m \in others : Below(others, m, NatOrder) = {}
    <3> HIDE DEF others
    <3> QED BY <2>1, NatOrdered, LeastIn
  <2>3. m \in all /\ m # w /\ m \in Nat
    BY <1>1
  <2>4. Below(all, m, NatOrder) \in SUBSET {w}
    BY <2>2 DEF Below
  <2>5. Cardinality(Below(all, m, NatOrder)) =< 1 /\ Cardinality(Below(all, m, NatOrder)) \in Nat
    <3>1. IsFiniteSet({w}) /\ Cardinality({w}) = 1
      BY FS_Singleton
    <3>2. IsFiniteSet(Below(all, m, NatOrder)) /\ Cardinality(Below(all, m, NatOrder)) =< 1
      BY <3>1, <2>4, FS_Subset
    <3> QED BY <3>2, FS_CardinalityType
  <2>6. Cardinality(Below(all, m, NatOrder)) < MaxScan
    BY <2>5, Bounds
  <2>7. m \in kept
    BY <2>3, <2>6, <1>1, FirstOfIsCut DEF Cut
  <2> QED BY <2>7, <2>3, <1>1
<1>4. CASE window \subseteq {w}
  BY <1>3, <1>4 DEF Expansions, ExpansionsOf
<1>5. CASE ~(window \subseteq {w})
  <2> DEFINE KeyA(v) == <<IF v \in named THEN 0 ELSE 1, Length[v], v>>
             KeyB(v) == <<IF v \in title THEN 0 ELSE 1, Length[v], v>>
  <2>1. Expansions(lay, w)
          = {v \in kept : Cardinality({u \in kept : Precedes(KeyA(u), KeyA(v))}) < MaxExpansions}
    BY <1>1, <1>5, Zenon DEF Expansions
  <2>2. ExpansionsOf(w)
          = {v \in kept : Cardinality({u \in kept : Precedes(KeyB(u), KeyB(v))}) < MaxExpansions}
    BY <1>3, <1>5, Zenon DEF ExpansionsOf
  <2>3. \A v \in kept : KeyA(v) = KeyB(v)
    BY <1>2
  <2> HIDE DEF KeyA, KeyB, kept
  <2>4. \A v \in kept : {u \in kept : Precedes(KeyA(u), KeyA(v))} = {u \in kept : Precedes(KeyB(u), KeyB(v))}
    BY <2>3
  <2> QED BY <2>1, <2>2, <2>4
<1> QED BY <1>4, <1>5

\* A word of a query of the instance.
LEMMA WordType ==
    ASSUME request \in Requests, NEW i \in Terms
    PROVE  Word(i) \in Words /\ i \in 1 .. Len(request.terms)
<1>1. request.terms \in Seq(Words)
  BY LexicalAssumption
<1> QED BY <1>1 DEF Terms, Word

\* The plan is a function of the documents and not of the segments they lie in.
LEMMA ResolvedSame ==
    ASSUME request \in Requests, NEW lay, NEW other
    PROVE  Resolved(lay) = Resolved(other)
<1>1. \A i \in Terms : Expansions(lay, Word(i)) = Expansions(other, Word(i))
  BY WordType, ExpansionsAre
<1>2. Observed(lay) = Observed(other)
  BY <1>1 DEF Observed
<1> QED BY <1>2 DEF Resolved

-----------------------------------------------------------------------------
(* What a lane finds                                                       *)

\* The documents a lane matches, in one partition and in all of them.
Matching(lane, p) == {d \in Docs : Matches(d, lane, p)}
MatchingIn(c, lane, p) == {d \in Docs : Context[d] = c /\ Matches(d, lane, p)}
MatchingUpTo(c, lane, p) == {d \in Docs : Context[d] <= c /\ Matches(d, lane, p)}

\* The bounded lists of the segments, merged, are the first of the partition.
LEMMA CollectedAre ==
    ASSUME NEW c, NEW lane, NEW p, NEW lay
    PROVE  Collected(c, lane, p, lay) = Best(MatchingIn(c, lane, p), MaxCandidates)
<1> DEFINE segs == {s \in Segments(lay) : \A d \in s : Context[d] = c}
           Part(seg) == {d \in seg : Matches(d, lane, p)}
           F == {Part(seg) : seg \in segs}
           U == MatchingIn(c, lane, p)
           K == UNION {Best(Part(seg), MaxCandidates) : seg \in segs}
<1>0. MaxCandidates \in Nat
  BY Bounds
<1>1. \A seg \in segs : Part(seg) \in SUBSET Docs
  BY SegmentsCover
<1>2. \A v : v \in U <=> \E S \in F : v \in S
  <2>1. ASSUME NEW v \in U PROVE \E S \in F : v \in S
    <3>1. v \in Docs /\ Context[v] = c /\ Matches(v, lane, p)
      BY DEF MatchingIn
    <3>2. PICK seg \in Segments(lay) : v \in seg
      BY <3>1, SegmentsCover
    <3>3. seg \in segs
      BY <3>1, <3>2, SegmentsCover
    <3>4. v \in Part(seg) /\ Part(seg) \in F
      BY <3>1, <3>2, <3>3
    <3> QED BY <3>4
  <2>2. ASSUME NEW S \in F, NEW v \in S PROVE v \in U
    BY <1>1 DEF MatchingIn
  <2> QED BY <2>1, <2>2
<1>3. \A v : v \in K <=> \E S \in F : v \in Cut(S, MaxCandidates, AheadOrder)
  <2>1. \A seg \in segs : Best(Part(seg), MaxCandidates) = Cut(Part(seg), MaxCandidates, AheadOrder)
    BY <1>1, BestIsCut
  <2> HIDE DEF segs, Part
  <2> QED BY <2>1
<1>4. Parts(U, K, F, Docs, MaxCandidates, AheadOrder)
  BY <1>1, <1>2, <1>3 DEF Parts
<1>5. U \in SUBSET Docs
  BY DEF MatchingIn
<1>6. Collected(c, lane, p, lay) = Best(K, MaxCandidates)
  BY DEF Collected
<1> HIDE DEF U, K, F
<1>7. Cut(K, MaxCandidates, AheadOrder) = Cut(U, MaxCandidates, AheadOrder) /\ K \subseteq U
  BY <1>0, <1>4, AheadOrdered, CutParts
<1>8. Best(K, MaxCandidates) = Best(U, MaxCandidates)
  BY <1>5, <1>7, BestIsCut
<1> QED BY <1>6, <1>8 DEF U

\* One turn of the merge over the partitions.
Merges(f, lane, p, lay) ==
    f = [c \in 0 .. Contexts |->
           IF c = 0 THEN {} ELSE Best(f[c - 1] \cup Collected(c, lane, p, lay), MaxCandidates)]

\* The merge of two partitions' lists.
LEMMA BestOfTwo ==
    ASSUME NEW A \in SUBSET Docs, NEW B \in SUBSET Docs
    PROVE  Best(Best(A, MaxCandidates) \cup Best(B, MaxCandidates), MaxCandidates)
             = Best(A \cup B, MaxCandidates)
<1> DEFINE n == MaxCandidates
           K == Best(A, n) \cup Best(B, n)
<1>0. n \in Nat
  BY Bounds
<1>1. Best(A, n) = Cut(A, n, AheadOrder) /\ Best(B, n) = Cut(B, n, AheadOrder)
  BY BestIsCut
<1>2. Parts(A \cup B, K, {A, B}, Docs, n, AheadOrder)
  <2> HIDE DEF n
  <2> QED BY <1>1 DEF Parts
<1> HIDE DEF n, K
<1>3. Cut(K, n, AheadOrder) = Cut(A \cup B, n, AheadOrder) /\ K \subseteq A \cup B
  BY <1>0, <1>2, AheadOrdered, CutParts
<1>4. Best(K, n) = Best(A \cup B, n)
  <2>1. K \in SUBSET Docs /\ A \cup B \in SUBSET Docs
    BY <1>3
  <2> QED BY <1>3, <2>1, BestIsCut
<1> QED BY <1>4 DEF n, K

\* The merged list of every number of partitions.
LEMMA MergedAre ==
    ASSUME NEW f, NEW lane, NEW p, NEW lay
    PROVE  Merges(f, lane, p, lay)
             <=> f = [c \in 0 .. Contexts |-> Best(MatchingUpTo(c, lane, p), MaxCandidates)]
<1> DEFINE W(c) == Best(MatchingUpTo(c, lane, p), MaxCandidates)
<1>0. Contexts \in Nat /\ \A d \in Docs : Context[d] \in 1 .. Contexts
  BY LexicalAssumption
<1>1. W(0) = {}
  <2>1. MatchingUpTo(0, lane, p) = {}
    BY <1>0 DEF MatchingUpTo
  <2> QED BY <2>1 DEF Best
<1>2. \A c \in 1 .. Contexts : W(c) = Best(W(c - 1) \cup Collected(c, lane, p, lay), MaxCandidates)
  <2> TAKE c \in 1 .. Contexts
  <2>1. MatchingUpTo(c, lane, p) = MatchingUpTo(c - 1, lane, p) \cup MatchingIn(c, lane, p)
    BY <1>0 DEF MatchingUpTo, MatchingIn
  <2>2. MatchingUpTo(c - 1, lane, p) \in SUBSET Docs /\ MatchingIn(c, lane, p) \in SUBSET Docs
    BY DEF MatchingUpTo, MatchingIn
  <2> QED BY <2>1, <2>2, CollectedAre, BestOfTwo
<1> HIDE DEF W
<1>3. ASSUME f = [c \in 0 .. Contexts |-> W(c)] PROVE Merges(f, lane, p, lay)
  <2>1. \A c \in 0 .. Contexts :
          W(c) = IF c = 0 THEN {} ELSE Best(f[c - 1] \cup Collected(c, lane, p, lay), MaxCandidates)
    <3> TAKE c \in 0 .. Contexts
    <3>1. CASE c = 0
      BY <3>1, <1>1
    <3>2. CASE c # 0
      <4>1. c \in 1 .. Contexts /\ c - 1 \in 0 .. Contexts
        BY <3>2, <1>0
      <4>2. f[c - 1] = W(c - 1)
        BY <4>1, <1>3
      <4> QED BY <4>1, <4>2, <1>2, <3>2
    <3> QED BY <3>1, <3>2
  <2> QED BY <1>3, <2>1 DEF Merges
<1>4. ASSUME Merges(f, lane, p, lay) PROVE f = [c \in 0 .. Contexts |-> W(c)]
  <2> DEFINE Bad == {c \in 0 .. Contexts : f[c] # W(c)}
  <2>0. \A c \in 0 .. Contexts :
          f[c] = IF c = 0 THEN {} ELSE Best(f[c - 1] \cup Collected(c, lane, p, lay), MaxCandidates)
    BY <1>4 DEF Merges
  <2>1. Bad = {}
    <3> SUFFICES ASSUME Bad # {} PROVE FALSE
      OBVIOUS
    <3>1. Bad \in SUBSET Nat
      OBVIOUS
    <3>2. PICK c \in Bad : \A b \in Bad : c =< b
      <4> HIDE DEF Bad
      <4> QED BY <3>1, LeastNat
    <3>3. CASE c = 0
      BY <3>2, <3>3, <2>0, <1>0, <1>1
    <3>4. CASE c # 0
      <4>1. c \in 1 .. Contexts /\ c - 1 \in 0 .. Contexts /\ c - 1 \notin Bad
        BY <3>2, <3>4, <1>0
      <4>2. f[c - 1] = W(c - 1)
        BY <4>1
      <4>3. f[c] = Best(f[c - 1] \cup Collected(c, lane, p, lay), MaxCandidates)
        BY <2>0, <4>1, <3>4
      <4> QED BY <4>1, <4>2, <4>3, <1>2
    <3> QED BY <3>3, <3>4
  <2>2. f = [c \in 0 .. Contexts |-> f[c]]
    BY <1>4 DEF Merges
  <2> QED BY <2>1, <2>2
<1> QED BY <1>3, <1>4 DEF W

\* A lane finds the first of the documents that match, wherever they lie.
LEMMA LaneHitsAre ==
    ASSUME NEW lane, NEW p, NEW lay
    PROVE  LaneHits(lane, p, lay) = Best(Matching(lane, p), MaxCandidates)
<1> DEFINE P(f) == Merges(f, lane, p, lay)
           c == CHOOSE f : P(f)
           w == [c1 \in 0 .. Contexts |-> Best(MatchingUpTo(c1, lane, p), MaxCandidates)]
<1>0. Contexts \in Nat /\ \A d \in Docs : Context[d] \in 1 .. Contexts
  BY LexicalAssumption
<1>1. \E f : P(f)
  <2>1. P(w)
    BY MergedAre
  <2> QED BY <2>1
<1>2. P(c)
  BY <1>1, Zenon
<1>3. LaneHits(lane, p, lay) = c[Contexts]
  BY Zenon DEF LaneHits, Merges
<1>4. c = w
  <2> HIDE DEF c
  <2> QED BY <1>2, MergedAre
<1>5. LaneHits(lane, p, lay) = Best(MatchingUpTo(Contexts, lane, p), MaxCandidates)
  <2> HIDE DEF c
  <2> QED BY <1>0, <1>3, <1>4
<1>6. MatchingUpTo(Contexts, lane, p) = Matching(lane, p)
  BY <1>0 DEF MatchingUpTo, Matching
<1> QED BY <1>5, <1>6

\* The turns of the loop are those of an index in any other layout.
LEMMA RunLaneSame ==
    ASSUME NEW acc, NEW n, NEW p, NEW lay, NEW other
    PROVE  RunLane(acc, n, p, lay) = RunLane(acc, n, p, other)
<1> DEFINE lane == p.lanes[n]
<1>1. LaneHits(lane, p, lay) = LaneHits(lane, p, other)
  BY LaneHitsAre
<1>2. \A d : Proof(d, n, lane, p, lay) = Proof(d, n, lane, p, other)
  <2> TAKE d
  <2>1. Collected(Context[d], lane, p, lay) = Collected(Context[d], lane, p, other)
    BY CollectedAre
  <2> QED BY <2>1 DEF Proof
<1> QED BY <1>1, <1>2 DEF RunLane

-----------------------------------------------------------------------------
(* The lanes of a plan                                                     *)

\* The elements of a concatenation.
LEMMA ConcatRange ==
    ASSUME NEW X, NEW s \in Seq(X), NEW t \in Seq(X)
    PROVE  s \o t \in Seq(X) /\ Range(s \o t) = Range(s) \cup Range(t)
<1>1. s \o t \in Seq(X) /\ Len(s \o t) = Len(s) + Len(t) /\ Len(s) \in Nat /\ Len(t) \in Nat
  OBVIOUS
<1>2. DOMAIN (s \o t) = 1 .. (Len(s) + Len(t)) /\ DOMAIN s = 1 .. Len(s) /\ DOMAIN t = 1 .. Len(t)
  BY <1>1
<1>3. \A i \in 1 .. (Len(s) + Len(t)) : (s \o t)[i] = IF i <= Len(s) THEN s[i] ELSE t[i - Len(s)]
  OBVIOUS
<1>4. ASSUME NEW x \in Range(s \o t) PROVE x \in Range(s) \cup Range(t)
  <2>1. PICK i \in 1 .. (Len(s) + Len(t)) : x = (s \o t)[i]
    BY <1>2 DEF Range
  <2>2. CASE i <= Len(s)
    <3>1. i \in DOMAIN s /\ x = s[i]
      BY <2>1, <2>2, <1>1, <1>2, <1>3
    <3> QED BY <3>1 DEF Range
  <2>3. CASE ~(i <= Len(s))
    <3>1. i - Len(s) \in DOMAIN t /\ x = t[i - Len(s)]
      BY <2>1, <2>3, <1>1, <1>2, <1>3
    <3> QED BY <3>1 DEF Range
  <2> QED BY <2>2, <2>3
<1>5. ASSUME NEW x \in Range(s) PROVE x \in Range(s \o t)
  <2>1. PICK i \in 1 .. Len(s) : x = s[i]
    BY <1>2 DEF Range
  <2>2. i \in DOMAIN (s \o t) /\ (s \o t)[i] = x
    BY <2>1, <1>1, <1>2, <1>3
  <2> QED BY <2>2 DEF Range
<1>6. ASSUME NEW x \in Range(t) PROVE x \in Range(s \o t)
  <2>1. PICK i \in 1 .. Len(t) : x = t[i]
    BY <1>2 DEF Range
  <2>2. i + Len(s) \in DOMAIN (s \o t) /\ (s \o t)[i + Len(s)] = x
    BY <2>1, <1>1, <1>2, <1>3
  <2> QED BY <2>2 DEF Range
<1> QED BY <1>1, <1>4, <1>5, <1>6

ExactStage == Stage("Exact", "Always", Fields, {}, {}, 0)
PhraseStage == Stage("Phrase", "Always", Fields, {}, {}, 0)
MetadataStage(prefix) == Stage("PrefixMetadata", "Always", {"Title"}, Relaxed \ prefix, prefix, 0)
AllStage == Stage("AllTerms", "Always", Fields, Terms, {}, 0)
PrefixStage(prefix) == Stage("Prefix", "Always", Fields, Relaxed \ prefix, prefix, 0)

\* The stages of the ladder: which there can be, and the two that matter most
\* when they apply.
LEMMA StagesAre ==
    ASSUME NEW prefix
    PROVE  /\ \E X : Stages(prefix) \in Seq(X)
           /\ Range(Stages(prefix)) \subseteq
                {ExactStage, PhraseStage, MetadataStage(prefix), AllStage, PrefixStage(prefix)}
                  \cup Range(PartialStage(prefix))
           /\ AllStage \in Range(Stages(prefix))
           /\ Range(PartialStage(prefix)) \subseteq Range(Stages(prefix))
<1> DEFINE X == {ExactStage, PhraseStage, MetadataStage(prefix), AllStage, PrefixStage(prefix)}
                  \cup Range(PartialStage(prefix))
           s1 == <<ExactStage>>
           s2 == IF Cardinality(Terms) > 1 THEN <<PhraseStage>> ELSE <<>>
           s3 == IF prefix = {} THEN <<>> ELSE <<MetadataStage(prefix)>>
           s4 == <<AllStage>>
           s5 == IF prefix = {} THEN <<>> ELSE <<PrefixStage(prefix)>>
           s6 == PartialStage(prefix)
<1>1. Stages(prefix) = s1 \o s2 \o s3 \o s4 \o s5 \o s6
  BY DEF Stages, ExactStage, PhraseStage, MetadataStage, AllStage, PrefixStage
<1>2. s6 \in Seq(X)
  <2>1. \E x : s6 = <<>> \/ s6 = <<x>>
    BY DEF PartialStage
  <2>2. PICK x : s6 = <<>> \/ s6 = <<x>>
    BY <2>1
  <2>3. CASE s6 = <<>>
    BY <2>3
  <2>4. CASE s6 = <<x>>
    <3>1. x \in Range(s6)
      <4>1. 1 \in DOMAIN s6 /\ s6[1] = x
        <5> HIDE DEF s6
        <5> QED BY <2>4
      <4> QED BY <4>1 DEF Range
    <3>2. x \in X
      BY <3>1
    <3> HIDE DEF s6, X
    <3> QED BY <2>4, <3>2
  <2> QED BY <2>2, <2>3, <2>4
<1>3. s1 \in Seq(X) /\ s2 \in Seq(X) /\ s3 \in Seq(X) /\ s4 \in Seq(X) /\ s5 \in Seq(X)
  <2>1. /\ ExactStage \in X /\ PhraseStage \in X /\ MetadataStage(prefix) \in X
        /\ AllStage \in X /\ PrefixStage(prefix) \in X
    OBVIOUS
  <2> HIDE DEF X
  <2> QED BY <2>1
<1>4. AllStage \in Range(s4)
  <2>1. 1 \in DOMAIN s4 /\ s4[1] = AllStage
    OBVIOUS
  <2> QED BY <2>1 DEF Range
<1> HIDE DEF s1, s2, s3, s4, s5, s6
<1> DEFINE t2 == s1 \o s2
           t3 == t2 \o s3
           t4 == t3 \o s4
           t5 == t4 \o s5
<1>s. Stages(prefix) = t5 \o s6
  BY <1>1
<1> HIDE DEF X
<1>5. t2 \in Seq(X) /\ Range(t2) = Range(s1) \cup Range(s2)
  BY <1>3, ConcatRange
<1> HIDE DEF t2
<1>6. t3 \in Seq(X) /\ Range(t3) = Range(t2) \cup Range(s3)
  BY <1>3, <1>5, ConcatRange
<1> HIDE DEF t3
<1>7. t4 \in Seq(X) /\ Range(t4) = Range(t3) \cup Range(s4)
  BY <1>3, <1>6, ConcatRange
<1> HIDE DEF t4
<1>8. t5 \in Seq(X) /\ Range(t5) = Range(t4) \cup Range(s5)
  BY <1>3, <1>7, ConcatRange
<1> HIDE DEF t5
<1>9. Stages(prefix) \in Seq(X) /\ Range(Stages(prefix)) = Range(t5) \cup Range(s6)
  BY <1>s, <1>2, <1>8, ConcatRange
<1>10. Range(Stages(prefix)) \subseteq X
  BY <1>9 DEF Range
<1>11. AllStage \in Range(Stages(prefix)) /\ Range(s6) \subseteq Range(Stages(prefix))
  BY <1>4, <1>7, <1>8, <1>9
<1> QED BY <1>9, <1>10, <1>11 DEF s6, X

\* The lexicographic order of tuples of four.
LEMMA Precedes4 ==
    ASSUME NEW a, NEW b, DOMAIN a = {1, 2, 3, 4}
    PROVE  Precedes(a, b) <=>
             \/ a[1] < b[1]
             \/ a[1] = b[1] /\ a[2] < b[2]
             \/ a[1] = b[1] /\ a[2] = b[2] /\ a[3] < b[3]
             \/ a[1] = b[1] /\ a[2] = b[2] /\ a[3] = b[3] /\ a[4] < b[4]
<1> DEFINE P(i) == a[i] < b[i] /\ \A j \in 1 .. (i - 1) : a[j] = b[j]
<1>0. DOMAIN a = {1, 2, 3, 4}
  OBVIOUS
<1>r. Precedes(a, b) <=> \E i \in DOMAIN a : P(i)
  BY DEF Precedes
<1>1. P(1) <=> a[1] < b[1]
  BY <1>0
<1>2. P(2) <=> a[1] = b[1] /\ a[2] < b[2]
  BY <1>0
<1>3. P(3) <=> a[1] = b[1] /\ a[2] = b[2] /\ a[3] < b[3]
  <2>1. 1 .. (3 - 1) = {1, 2}
    OBVIOUS
  <2> QED BY <1>0, <2>1
<1>4. P(4) <=> a[1] = b[1] /\ a[2] = b[2] /\ a[3] = b[3] /\ a[4] < b[4]
  <2>1. 1 .. (4 - 1) = {1, 2, 3}
    OBVIOUS
  <2> QED BY <1>0, <2>1
<1>5. Precedes(a, b) <=> P(1) \/ P(2) \/ P(3) \/ P(4)
  <2> HIDE DEF P
  <2> QED BY <1>0, <1>r
<1> HIDE DEF P
<1> QED BY <1>1, <1>2, <1>3, <1>4, <1>5

AllLanes(stages) == UNION {StageLanes(stages[i], i) : i \in DOMAIN stages}

\* A lane of a plan whose expandable terms are `prefix'.
IsLane(lane, prefix) ==
    LET stages == Stages(prefix)
        i == lane.ordinal
    IN  /\ i \in DOMAIN stages
        /\ lane.field \in {"Title", "Body", "CrossField"}
        /\ lane = Lane(stages[i], i, lane.field,
                       IF lane.field = "CrossField" THEN stages[i].group ELSE {lane.field})
        /\ lane.stage = stages[i] /\ lane.stage \in Range(stages)
        /\ lane.kind = ProofKind(stages[i].kind, lane.field = "CrossField")
        /\ lane.fields = (IF lane.field = "CrossField" THEN stages[i].group ELSE {lane.field})
        /\ lane.fields \subseteq Fields
        /\ lane.field = "CrossField" => stages[i].kind \in {"AllTerms", "Partial"}
        /\ lane.field # "CrossField" => lane.field \in stages[i].group

\* The stages are records of these kinds.
LEMMA StageFields ==
    ASSUME NEW prefix, NEW stage \in Range(Stages(prefix))
    PROVE  /\ stage.kind \in {"Exact", "Phrase", "PrefixMetadata", "AllTerms", "Prefix", "Partial"}
           /\ stage.group \in {Fields, {"Title"}}
           /\ stage.condition \in {"Always", "IfThin"}
           /\ stage.condition = "IfThin" => stage.kind = "Partial"
           /\ stage.kind = "Partial" => stage \in Range(PartialStage(prefix)) /\ stage.group = Fields
<1>1. stage \in {ExactStage, PhraseStage, MetadataStage(prefix), AllStage, PrefixStage(prefix)}
        \/ stage \in Range(PartialStage(prefix))
  BY StagesAre
<1>2. CASE stage \in {ExactStage, PhraseStage, MetadataStage(prefix), AllStage, PrefixStage(prefix)}
  BY <1>2 DEF ExactStage, PhraseStage, MetadataStage, AllStage, PrefixStage, Stage
<1>3. CASE stage \in Range(PartialStage(prefix))
  <2>1. \E cond \in {"Always", "IfThin"} : \E required, pre, min : stage = Stage("Partial", cond, Fields, required, pre, min)
    BY <1>3 DEF PartialStage, Range
  <2> QED BY <2>1, <1>3 DEF Stage
<1> QED BY <1>1, <1>2, <1>3

\* The lanes of a plan are such lanes.
LEMMA LaneFacts ==
    ASSUME NEW prefix, NEW lane \in AllLanes(Stages(prefix))
    PROVE  IsLane(lane, prefix)
<1> DEFINE stages == Stages(prefix)
<1>1. PICK i \in DOMAIN stages : lane \in StageLanes(stages[i], i)
  BY DEF AllLanes
<1>2. stages[i] \in Range(stages)
  BY DEF Range
<1> DEFINE stage == stages[i]
<1>3. stage.group \in {Fields, {"Title"}}
  BY <1>2, StageFields
<1> HIDE DEF stages
<1>4. CASE \E f \in stage.group : lane = Lane(stage, i, f, {f})
  <2>1. PICK f \in stage.group : lane = Lane(stage, i, f, {f})
    BY <1>4
  <2>2. f \in {"Title", "Body"} /\ f # "CrossField"
    BY <1>3, <2>1 DEF Fields
  <2>3. /\ lane.stage = stage /\ lane.ordinal = i /\ lane.field = f /\ lane.fields = {f}
        /\ lane.kind = ProofKind(stage.kind, f = "CrossField")
    BY <2>1 DEF Lane
  <2> QED BY <2>1, <2>2, <2>3, <1>1, <1>2 DEF IsLane, stages, Fields
<1>5. CASE lane = Lane(stage, i, "CrossField", stage.group) /\ stage.kind \in {"AllTerms", "Partial"}
  <2>3. /\ lane.stage = stage /\ lane.ordinal = i /\ lane.field = "CrossField"
        /\ lane.fields = stage.group
        /\ lane.kind = ProofKind(stage.kind, TRUE)
    BY <1>5 DEF Lane
  <2> QED BY <1>5, <2>3, <1>1, <1>2, <1>3 DEF IsLane, stages, Fields
<1>6. (\E f \in stage.group : lane = Lane(stage, i, f, {f}))
        \/ (lane = Lane(stage, i, "CrossField", stage.group) /\ stage.kind \in {"AllTerms", "Partial"})
  BY <1>1 DEF StageLanes
<1> QED BY <1>4, <1>5, <1>6

Kinds == {"Exact", "Phrase", "AllTerms", "PrefixAssisted", "CrossFieldAllTerms", "PartialCoverage"}
FieldNames == {"Title", "Body", "CrossField"}

\* Evidence is worth at most 80 points.
LEMMA PointsType ==
    ASSUME NEW kind \in Kinds, NEW field \in FieldNames
    PROVE  /\ Points(kind, field) \in 0 .. 80 /\ 100 - Points(kind, field) \in Nat
           /\ IsPartial(kind) \in {0, 1} /\ (IsPartial(kind) = 1 <=> kind = "PartialCoverage")
           /\ FieldOrder[field] \in 1 .. 3 /\ KindOrder[kind] \in 1 .. 6
<1>1. KindPoints[kind] \in 0 .. 60
  BY DEF KindPoints, Kinds
<1>2. FieldPoints[field] \in 0 .. 10
  BY DEF FieldPoints, FieldNames
<1>3. (IF request.emphasis = field THEN EmphasisPoints ELSE 0) \in 0 .. 10
  BY DEF EmphasisPoints
<1>4. Points(kind, field) \in 0 .. 80
  BY <1>1, <1>2, <1>3 DEF Points
<1>5. FieldOrder[field] \in 1 .. 3 /\ KindOrder[kind] \in 1 .. 6
  BY DEF FieldOrder, KindOrder, Kinds, FieldNames
<1> QED BY <1>4, <1>5 DEF IsPartial

\* The key of a lane is four numbers.
LEMMA LaneKeyType ==
    ASSUME NEW prefix, NEW lane, IsLane(lane, prefix)
    PROVE  /\ lane.kind \in Kinds /\ lane.field \in FieldNames
           /\ lane.ordinal \in Nat
           /\ IsPartial(lane.kind) \in Nat /\ 100 - Points(lane.kind, lane.field) \in Nat
           /\ FieldOrder[lane.field] \in Nat
           /\ lane.kind = "PartialCoverage" <=> lane.stage.kind = "Partial"
<1>1. lane.stage.kind \in {"Exact", "Phrase", "PrefixMetadata", "AllTerms", "Prefix", "Partial"}
  BY StageFields DEF IsLane
<1>2. lane.kind = ProofKind(lane.stage.kind, lane.field = "CrossField")
  BY DEF IsLane
<1>3. lane.kind \in Kinds /\ (lane.kind = "PartialCoverage" <=> lane.stage.kind = "Partial")
  BY <1>1, <1>2 DEF ProofKind, Kinds
<1>4. lane.field \in FieldNames
  BY DEF IsLane, FieldNames
<1>5. lane.ordinal \in Nat
  <2>1. PICK X : Stages(prefix) \in Seq(X)
    BY StagesAre
  <2> QED BY <2>1 DEF IsLane
<1> QED BY <1>3, <1>4, <1>5, PointsType

\* The order of the keys, spelt out.
LEMMA LaneKeyOrder ==
    ASSUME NEW prefix, NEW l, NEW m, IsLane(l, prefix), IsLane(m, prefix)
    PROVE  Precedes(LaneKey(l), LaneKey(m)) <=>
             \/ IsPartial(l.kind) < IsPartial(m.kind)
             \/ /\ IsPartial(l.kind) = IsPartial(m.kind)
                /\ 100 - Points(l.kind, l.field) < 100 - Points(m.kind, m.field)
             \/ /\ IsPartial(l.kind) = IsPartial(m.kind)
                /\ 100 - Points(l.kind, l.field) = 100 - Points(m.kind, m.field)
                /\ l.ordinal < m.ordinal
             \/ /\ IsPartial(l.kind) = IsPartial(m.kind)
                /\ 100 - Points(l.kind, l.field) = 100 - Points(m.kind, m.field)
                /\ l.ordinal = m.ordinal
                /\ FieldOrder[l.field] < FieldOrder[m.field]
<1> DEFINE a == LaneKey(l)
           b == LaneKey(m)
<1>1. /\ DOMAIN a = {1, 2, 3, 4}
      /\ a[1] = IsPartial(l.kind) /\ a[2] = 100 - Points(l.kind, l.field)
      /\ a[3] = l.ordinal /\ a[4] = FieldOrder[l.field]
      /\ b[1] = IsPartial(m.kind) /\ b[2] = 100 - Points(m.kind, m.field)
      /\ b[3] = m.ordinal /\ b[4] = FieldOrder[m.field]
  BY DEF LaneKey
<1> HIDE DEF a, b
<1>2. Precedes(a, b) <=>
         \/ a[1] < b[1]
         \/ a[1] = b[1] /\ a[2] < b[2]
         \/ a[1] = b[1] /\ a[2] = b[2] /\ a[3] < b[3]
         \/ a[1] = b[1] /\ a[2] = b[2] /\ a[3] = b[3] /\ a[4] < b[4]
  BY <1>1, Precedes4
<1> QED BY <1>1, <1>2 DEF a, b

\* Two lanes of one stage and field are one lane.
LEMMA LaneUnique ==
    ASSUME NEW prefix, NEW l, NEW m, IsLane(l, prefix), IsLane(m, prefix),
           l.ordinal = m.ordinal, l.field = m.field
    PROVE  l = m
  BY DEF IsLane

LaneOrder(all) == {r \in all \X all : Precedes(LaneKey(r[1]), LaneKey(r[2]))}

\* A plan has finitely many lanes.
LEMMA LanesFinite ==
    ASSUME NEW prefix
    PROVE  IsFiniteSet(AllLanes(Stages(prefix)))
<1> DEFINE all == AllLanes(Stages(prefix))
           T == (DOMAIN Stages(prefix)) \X FieldNames
           f == [l \in all |-> <<l.ordinal, l.field>>]
<1>1. \A l \in all : IsLane(l, prefix)
  BY LaneFacts
<1>2. IsFiniteSet(DOMAIN Stages(prefix))
  <2>1. PICK X : Stages(prefix) \in Seq(X)
    BY StagesAre
  <2>2. DOMAIN Stages(prefix) = 1 .. Len(Stages(prefix)) /\ Len(Stages(prefix)) \in Nat
    BY <2>1
  <2> QED BY <2>2, FS_Interval
<1>3. IsFiniteSet(FieldNames)
  <2>1. IsFiniteSet({"Title"}) /\ IsFiniteSet({"Title"} \cup {"Body"})
    BY FS_Singleton, FS_AddElement
  <2>2. IsFiniteSet(({"Title"} \cup {"Body"}) \cup {"CrossField"})
    BY <2>1, FS_AddElement
  <2>3. FieldNames = ({"Title"} \cup {"Body"}) \cup {"CrossField"}
    BY DEF FieldNames
  <2> QED BY <2>2, <2>3
<1>4. IsFiniteSet(T)
  BY <1>2, <1>3, FS_Product
<1>5. f \in [all -> T]
  BY <1>1 DEF IsLane, FieldNames
<1>6. \A l, m \in all : f[l] = f[m] => l = m
  BY <1>1, LaneUnique
<1>7. f \in Injection(all, T)
  BY <1>5, <1>6 DEF Injection, IsInjective
<1> HIDE DEF f, T, all
<1>8. IsFiniteSet(all)
  BY <1>4, <1>7, FS_Injection
<1> QED BY <1>8 DEF all

\* The keys order the lanes.
LEMMA LanesOrdered ==
    ASSUME NEW prefix
    PROVE  Orders(LaneOrder(AllLanes(Stages(prefix))), AllLanes(Stages(prefix)))
<1> DEFINE all == AllLanes(Stages(prefix))
           R == LaneOrder(all)
           B(l, m) == Precedes(LaneKey(l), LaneKey(m))
<1>1. \A l \in all : IsLane(l, prefix)
  BY LaneFacts
<1>2. \A l, m \in all : <<l, m>> \in R <=> B(l, m)
  BY DEF LaneOrder
<1>t. \A l \in all : /\ IsPartial(l.kind) \in Nat /\ 100 - Points(l.kind, l.field) \in Nat
                     /\ l.ordinal \in Nat /\ FieldOrder[l.field] \in Nat
  BY <1>1, LaneKeyType
<1>3. \A l \in all : ~B(l, l)
  <2> TAKE l \in all
  <2> QED BY <1>1, <1>t, LaneKeyOrder
<1>4. \A l, m, k \in all : B(l, m) /\ B(m, k) => B(l, k)
  <2> TAKE l, m, k \in all
  <2>1. /\ B(l, m) <=> Precedes(LaneKey(l), LaneKey(m))
        /\ B(m, k) <=> Precedes(LaneKey(m), LaneKey(k))
        /\ B(l, k) <=> Precedes(LaneKey(l), LaneKey(k))
    OBVIOUS
  <2> DEFINE pl == 100 - Points(l.kind, l.field)
             pm == 100 - Points(m.kind, m.field)
             pk == 100 - Points(k.kind, k.field)
  <2>2. pl \in Nat /\ pm \in Nat /\ pk \in Nat
    BY <1>t
  <2> HIDE DEF B, pl, pm, pk
  <2> QED BY <1>1, <1>t, <2>1, <2>2, LaneKeyOrder DEF pl, pm, pk
<1>5. \A l, m \in all : l # m => B(l, m) \/ B(m, l)
  <2> SUFFICES ASSUME NEW l \in all, NEW m \in all, ~B(l, m), ~B(m, l) PROVE l = m
    OBVIOUS
  <2>1. l.ordinal = m.ordinal /\ FieldOrder[l.field] = FieldOrder[m.field]
    BY <1>1, <1>t, LaneKeyOrder
  <2>2. l.field = m.field
    <3>1. l.field \in FieldNames /\ m.field \in FieldNames
      BY <1>1, LaneKeyType
    <3> QED BY <2>1, <3>1 DEF FieldNames, FieldOrder
  <2> QED BY <1>1, <2>1, <2>2, LaneUnique
<1>6. \A l \in all : IsFiniteSet({u \in all : <<u, l>> \in R})
  <2> TAKE l \in all
  <2>1. {u \in all : <<u, l>> \in R} \in SUBSET all
    OBVIOUS
  <2> QED BY <2>1, LanesFinite, FS_Subset
<1> HIDE DEF all, R, B
<1> QED BY <1>2, <1>3, <1>4, <1>5, <1>6 DEF Orders, all, R

\* Every lane of the plan has its place, and the places follow the keys.
LEMMA LanesAre ==
    ASSUME NEW prefix, NEW L, L = Lanes(Stages(prefix))
    PROVE  /\ L \in Seq(AllLanes(Stages(prefix)))
           /\ \A lane \in AllLanes(Stages(prefix)) : \E n \in 1 .. Len(L) : L[n] = lane
           /\ \A m, n \in 1 .. Len(L) : m < n => Precedes(LaneKey(L[m]), LaneKey(L[n]))
<1> DEFINE all == AllLanes(Stages(prefix))
           R == LaneOrder(all)
           N == Cardinality(all)
           At(n) == CHOOSE lane \in all : Cardinality(Below(all, lane, R)) = n - 1
<1>1. Orders(R, all) /\ IsFiniteSet(all) /\ all \in SUBSET all
  BY LanesOrdered, LanesFinite
<1>2. N \in Nat
  BY <1>1, FS_CardinalityType
<1>3. L = [n \in 1 .. N |-> At(n)]
  <2>1. \A lane \in all : {other \in all : Precedes(LaneKey(other), LaneKey(lane))} = Below(all, lane, R)
    BY DEF Below, LaneOrder
  <2>2. \A n : At(n) = CHOOSE lane \in all :
                 Cardinality({other \in all : Precedes(LaneKey(other), LaneKey(lane))}) = n - 1
    BY <2>1
  <2>3. L = [n \in 1 .. N |-> CHOOSE lane \in all :
                 Cardinality({other \in all : Precedes(LaneKey(other), LaneKey(lane))}) = n - 1]
    BY DEF Lanes, AllLanes
  <2> HIDE DEF At
  <2> QED BY <2>2, <2>3
<1>4. \A n \in 1 .. N : At(n) \in all /\ Cardinality(Below(all, At(n), R)) = n - 1
  <2> TAKE n \in 1 .. N
  <2>1. n - 1 \in 0 .. (N - 1)
    BY <1>2
  <2>2. \E v \in all : Cardinality(Below(all, v, R)) = n - 1
    <3> HIDE DEF all, R
    <3> QED BY <1>1, <2>1, Places
  <2> QED BY <2>2
<1> HIDE DEF At
<1>5. L \in Seq(all) /\ Len(L) = N
  <2> HIDE DEF all, N
  <2> QED BY <1>2, <1>3, <1>4
<1>6. \A n \in 1 .. N : L[n] = At(n)
  BY <1>3
<1>r. \A lane \in all : Cardinality(Below(all, lane, R)) \in Nat
  <2> HIDE DEF all, R
  <2> QED BY <1>1, BelowFinite
<1>7. ASSUME NEW l \in all, NEW m \in all, Cardinality(Below(all, l, R)) = Cardinality(Below(all, m, R))
      PROVE  l = m
  <2> HIDE DEF all, R
  <2> SUFFICES ASSUME l # m PROVE FALSE
    OBVIOUS
  <2>1. <<l, m>> \in R \/ <<m, l>> \in R
    BY <1>1 DEF Orders
  <2>2. Cardinality(Below(all, l, R)) < Cardinality(Below(all, m, R))
          \/ Cardinality(Below(all, m, R)) < Cardinality(Below(all, l, R))
    BY <1>1, <2>1, BelowGrows
  <2> QED BY <1>7, <1>r, <2>2
<1>8. ASSUME NEW lane \in all PROVE \E n \in 1 .. N : L[n] = lane
  <2> DEFINE k == Cardinality(Below(all, lane, R))
  <2>1. k \in Nat /\ k < N
    <3> HIDE DEF all, R
    <3>1. Below(all, lane, R) \in SUBSET all /\ lane \notin Below(all, lane, R)
      BY <1>1 DEF Below, Orders
    <3>2. k =< N /\ k # N
      BY <1>1, <3>1, FS_Subset
    <3> QED BY <1>r, <1>2, <3>2
  <2>2. k + 1 \in 1 .. N /\ (k + 1) - 1 = k
    BY <2>1, <1>2
  <2>3. At(k + 1) = lane
    <3>1. At(k + 1) \in all /\ Cardinality(Below(all, At(k + 1), R)) = k
      BY <2>2, <1>4
    <3> QED BY <3>1, <1>7
  <2> QED BY <2>2, <2>3, <1>6
<1>9. ASSUME NEW m \in 1 .. N, NEW n \in 1 .. N, m < n
      PROVE  Precedes(LaneKey(L[m]), LaneKey(L[n]))
  <2>1. /\ L[m] \in all /\ Cardinality(Below(all, L[m], R)) = m - 1
        /\ L[n] \in all /\ Cardinality(Below(all, L[n], R)) = n - 1
    BY <1>4, <1>6
  <2>2. L[m] # L[n]
    BY <2>1, <1>9
  <2> HIDE DEF all, R
  <2>3. <<L[n], L[m]>> \notin R
    <3> SUFFICES ASSUME <<L[n], L[m]>> \in R PROVE FALSE
      OBVIOUS
    <3>1. Cardinality(Below(all, L[n], R)) < Cardinality(Below(all, L[m], R))
      BY <1>1, <2>1, BelowGrows
    <3>2. n - 1 < m - 1
      BY <3>1, <2>1
    <3> QED BY <3>2, <1>9, <1>2
  <2>4. <<L[m], L[n]>> \in R
    BY <1>1, <2>1, <2>2, <2>3 DEF Orders
  <2> QED BY <2>4 DEF R, LaneOrder
<1> HIDE DEF N
<1> QED BY <1>5, <1>8, <1>9 DEF all

-----------------------------------------------------------------------------
(* The run of the lanes                                                    *)

\* The lanes of the resolved plan are a sequence.
LEMMA PlanLanes ==
    ASSUME NEW lay
    PROVE  /\ Len(Resolved(lay).lanes) \in Nat
           /\ DOMAIN Resolved(lay).lanes = 1 .. Len(Resolved(lay).lanes)
<1> DEFINE lanes == Resolved(lay).lanes
<1>1. lanes = <<>> \/ \E prefix : lanes = Lanes(Stages(prefix))
  BY DEF Resolved
<1>2. CASE lanes = <<>>
  BY <1>2
<1>3. CASE \E prefix : lanes = Lanes(Stages(prefix))
  <2>1. PICK prefix : lanes = Lanes(Stages(prefix))
    BY <1>3
  <2>2. lanes \in Seq(AllLanes(Stages(prefix)))
    BY <2>1, LanesAre
  <2> HIDE DEF lanes
  <2>3. Len(lanes) \in Nat /\ DOMAIN lanes = 1 .. Len(lanes)
    BY <2>2
  <2> QED BY <2>3 DEF lanes
<1> QED BY <1>1, <1>2, <1>3

\* One function holds what every turn of the loop leaves.
Replays(f, p, lay) ==
    f = [n \in 0 .. Len(p.lanes) |-> IF n = 0 THEN NothingYet ELSE RunLane(f[n - 1], n, p, lay)]

\* The turns of the loop can be replayed.
LEMMA ReplayExists ==
    ASSUME NEW p, NEW lay, Len(p.lanes) \in Nat
    PROVE  \E f : Replays(f, p, lay)
<1> DEFINE N == Len(p.lanes)
           Q(f, m) == f = [n \in 0 .. m |-> IF n = 0 THEN NothingYet ELSE RunLane(f[n - 1], n, p, lay)]
           Bad == {m \in 0 .. N : ~ \E f : Q(f, m)}
<1>1. Bad = {}
  <2> SUFFICES ASSUME Bad # {} PROVE FALSE
    OBVIOUS
  <2>0. Bad \in SUBSET Nat
    OBVIOUS
  <2>1. PICK k \in Bad : \A j \in Bad : k =< j
    <3> HIDE DEF Bad
    <3> QED BY <2>0, LeastNat
  <2>2. CASE k = 0
    <3> DEFINE f == [n \in 0 .. 0 |-> NothingYet]
    <3>1. Q(f, 0)
      OBVIOUS
    <3> QED BY <2>1, <2>2, <3>1
  <2>3. CASE k # 0
    <3>0. N \in Nat /\ k \in 0 .. N
      BY <2>1
    <3>1. k - 1 \in 0 .. N /\ k - 1 < k /\ k \in 1 .. N
      <4> HIDE DEF N, Bad
      <4> QED BY <3>0, <2>3
    <3>01. k - 1 \notin Bad
      <4> HIDE DEF N, Bad
      <4> QED BY <3>1, <3>0, <2>1
    <3>2. PICK v : Q(v, k - 1)
      BY <3>1, <3>01
    <3> DEFINE f == [n \in 0 .. k |-> IF n < k THEN v[n] ELSE RunLane(v[k - 1], k, p, lay)]
    <3>3. \A n \in 0 .. k : f[n] = IF n = 0 THEN NothingYet ELSE RunLane(f[n - 1], n, p, lay)
      <4> TAKE n \in 0 .. k
      <4>0. \A j \in 0 .. (k - 1) : v[j] = IF j = 0 THEN NothingYet ELSE RunLane(v[j - 1], j, p, lay)
        BY <3>2
      <4>1. CASE n = 0
        <5>1. f[n] = v[n] /\ n \in 0 .. (k - 1)
          BY <3>1, <4>1
        <5> QED BY <5>1, <4>0, <4>1
      <4>2. CASE n # 0
        <5>1. n - 1 \in 0 .. (k - 1) /\ f[n - 1] = v[n - 1]
          BY <3>1, <4>2
        <5>2. f[n] = RunLane(v[n - 1], n, p, lay)
          BY <4>0, <3>1, <4>2
        <5> QED BY <5>1, <5>2, <4>2
      <4> QED BY <4>1, <4>2
    <3>4. Q(f, k)
      <4> HIDE DEF Bad, N
      <4> QED BY <3>3, Zenon
    <3> QED BY <2>1, <3>4
  <2> QED BY <2>2, <2>3
<1>2. \E f : Q(f, N)
  BY <1>1
<1> QED BY <1>2 DEF Replays

\* A replay in one layout is one in any other.
LEMMA ReplaySame ==
    ASSUME NEW f, NEW p, NEW lay, NEW other, Len(p.lanes) \in Nat, Replays(f, p, lay)
    PROVE  Replays(f, p, other)
<1>1. \A n \in 0 .. Len(p.lanes) : RunLane(f[n - 1], n, p, lay) = RunLane(f[n - 1], n, p, other)
  BY RunLaneSame
<1>2. f = [n \in 0 .. Len(p.lanes) |-> IF n = 0 THEN NothingYet ELSE RunLane(f[n - 1], n, p, lay)]
  BY DEF Replays
<1>3. \A n \in 0 .. Len(p.lanes) : f[n] = IF n = 0 THEN NothingYet ELSE RunLane(f[n - 1], n, p, other)
  BY <1>1, <1>2
<1>4. f = [n \in 0 .. Len(p.lanes) |-> f[n]]
  BY <1>2
<1>5. f = [n \in 0 .. Len(p.lanes) |-> IF n = 0 THEN NothingYet ELSE RunLane(f[n - 1], n, p, other)]
  BY <1>3, <1>4
<1> QED BY <1>5, Zenon DEF Replays

\* A step that leaves the request and the index alone leaves the plan of the
\* search alone, operator by operator: the expansions of a prefix,
LEMMA FrozenExpansions ==
    ASSUME request' = request, text' = text, NEW lay
    PROVE  \A w : Expansions(lay, w)' = Expansions(lay, w)
  BY DEF Expansions, Window, Segments, Dictionary, Has

\* the terms, and which of them are anchors, useful or long,
LEMMA FrozenAnchors ==
    ASSUME request' = request, text' = text
    PROVE  /\ Terms' = Terms /\ Anchors' = Anchors /\ Useful' = Useful /\ Examined' = Examined
           /\ \A i : Long(i)' = Long(i) /\ Word(i)' = Word(i)
  BY DEF Terms, Word, IsIdentifier, Has, Long, Examined, FirstOf,
     Anchors, Promoted, Useful, Supported, TermIn, AnchorIn

\* the expansions observed,
LEMMA FrozenObserved ==
    ASSUME request' = request, text' = text, NEW lay
    PROVE  Observed(lay)' = Observed(lay)
  BY FrozenAnchors, FrozenExpansions DEF Observed, Expansions, Window, Segments, Dictionary, Has, Terms, Word, IsIdentifier, Has, Long, Examined, FirstOf

\* the stages,
LEMMA FrozenStages ==
    ASSUME request' = request, text' = text
    PROVE  \A prefix : Stages(prefix)' = Stages(prefix)
  BY FrozenAnchors DEF Stages, PartialStage, Stage, Relaxed

\* their lanes,
LEMMA FrozenLanes ==
    ASSUME request' = request, text' = text
    PROVE  \A s : Lanes(s)' = Lanes(s)
  BY DEF Lanes, StageLanes, Lane, LaneKey, Points
\* what a turn of the loop makes of the candidates,
LEMMA FrozenLane ==
    ASSUME request' = request, text' = text, NEW acc, NEW n, NEW p, NEW lay
    PROVE  RunLane(acc, n, p, lay)' = RunLane(acc, n, p, lay)
  BY DEF RunLane, LaneHits, Collected, Matches, Exploratory, PhraseMatch, ExactMatch, ExpandedIn, Proof, Segments, Has, Terms, Word, IsIdentifier,
     Anchors, Promoted, Useful, Supported, TermIn, AnchorIn

\* the ranking of the candidates,
LEMMA FrozenRanked ==
    ASSUME request' = request, text' = text, NEW c
    PROVE  Ranked(c)' = Ranked(c)
  BY DEF Ranked, Selected, ProofKey, Points

\* the plan,
LEMMA FrozenResolved ==
    ASSUME request' = request, text' = text, NEW lay
    PROVE  Resolved(lay)' = Resolved(lay)
<1> DEFINE Prefix(o) == FirstOf({i \in Terms \ Anchors : Long(i) /\ o[i] # {}}, MaxPrefixTerms)
           Plan(o) == [prefix |-> [i \in Prefix(o) |-> o[i]],
                       lanes |-> IF Empty(Prefix(o)) THEN <<>> ELSE Lanes(Stages(Prefix(o)))]
<1>1. \A o : Prefix(o)' = Prefix(o)
  BY FrozenAnchors DEF FirstOf
<1>2. \A pre : Empty(pre)' = Empty(pre)
  BY FrozenAnchors DEF Empty
<1>3. \A pre : Lanes(Stages(pre))' = Lanes(Stages(pre))
  <2> TAKE pre
  <2>1. PICK s : s = Stages(pre)
    OBVIOUS
  <2>2. Stages(pre)' = s
    BY <2>1, FrozenStages
  <2>3. Lanes(Stages(pre))' = Lanes(s)'
    BY <2>2
  <2> QED BY <2>1, <2>3, FrozenLanes
<1>4. \A o : Plan(o)' = Plan(o)
  <2> TAKE o
  <2>1. PICK pre : pre = Prefix(o)
    OBVIOUS
  <2>2. Prefix(o)' = pre
    BY <2>1, <1>1
  <2> HIDE DEF Prefix
  <2>3. Plan(o)' = [prefix |-> [i \in pre |-> o[i]],
                    lanes |-> IF Empty(pre)' THEN <<>> ELSE Lanes(Stages(pre))']
    BY <2>2
  <2> QED BY <2>1, <2>3, <1>2, <1>3
<1>5. PICK o : o = Observed(lay)
  OBVIOUS
<1>6. Observed(lay)' = o
  BY <1>5, FrozenObserved
<1>7. Resolved(lay)' = Plan(o)'
  BY <1>6 DEF Resolved
<1>8. Resolved(lay) = Plan(o)
  BY <1>5 DEF Resolved
<1> HIDE DEF Plan
<1> QED BY <1>4, <1>7, <1>8

\* and a replay of the turns.
LEMMA FrozenReplays ==
    ASSUME request' = request, text' = text, NEW f, NEW p, NEW lay
    PROVE  Replays(f, p, lay)' = Replays(f, p, lay)
<1>1. \A acc, n : RunLane(acc, n, p, lay)' = RunLane(acc, n, p, lay)
  BY FrozenLane
<1> QED BY <1>1 DEF Replays, NothingYet

\* The inductive invariant: what was found so far is what the turns so far leave.
ReplayInv ==
    /\ request \in Requests /\ text \in [Docs -> ChunkTexts]
    /\ phase \in {"resolve", "lanes", "done"}
    /\ phase = "resolve" => next = 1 /\ found = NothingYet
    /\ phase \in {"lanes", "done"} =>
         /\ plan = Resolved(layout)
         /\ next \in 1 .. (Len(plan.lanes) + 1)
         /\ \A f : Replays(f, plan, layout) => found = f[next - 1]
    /\ phase = "done" => next = Len(plan.lanes) + 1 /\ hits = Ranked(found.candidates)

\* The turns, once the plan is made, read nothing a step changes.
LEMMA FrozenPlan ==
    ASSUME request' = request, text' = text, layout' = layout
    PROVE  Resolved(layout)' = Resolved(layout)
<1>1. PICK lay : lay = layout
  OBVIOUS
<1>2. Resolved(layout)' = Resolved(lay)'
  BY <1>1
<1> QED BY <1>1, <1>2, FrozenResolved

\* Nor does a replay, once the plan is made.
LEMMA FrozenTurns ==
    ASSUME request' = request, text' = text, layout' = layout, plan' = plan, NEW f
    PROVE  Replays(f, plan, layout)' = Replays(f, plan, layout)
<1>1. PICK lay, p : lay = layout /\ p = plan
  OBVIOUS
<1>2. Replays(f, plan, layout)' = Replays(f, p, lay)'
  BY <1>1
<1> QED BY <1>1, <1>2, FrozenReplays

\* One step keeps it.
LEMMA ReplayStep ==
    ASSUME ReplayInv, [SearchNext]_searchVars
    PROVE  ReplayInv'
<1>1. CASE Resolve
  <2>1. /\ request' = request /\ layout' = layout /\ plan' = Resolved(layout) /\ phase' = "lanes"
        /\ next' = 1 /\ found' = NothingYet /\ request \in Requests /\ text' = text
    BY <1>1 DEF Resolve, ReplayInv
  <2>2. Resolved(layout)' = Resolved(layout)
    BY <2>1, FrozenPlan
  <2>3. Len(Resolved(layout).lanes) \in Nat
    BY PlanLanes
  <2>4. next' \in 1 .. (Len(plan'.lanes) + 1)
    BY <2>1, <2>3
  <2>5. ASSUME NEW f, Replays(f, plan, layout)' PROVE found' = f[next' - 1]
    <3>1. 0 \in 0 .. Len(plan'.lanes) /\ next' - 1 = 0
      BY <2>1, <2>3
    <3>2. f[0] = NothingYet
      BY <2>5, <3>1 DEF Replays, NothingYet
    <3> QED BY <3>1, <3>2, <2>1
  <2> QED BY <2>1, <2>2, <2>4, <2>5 DEF ReplayInv
<1>2. CASE ExecuteLane
  <2>1. /\ request' = request /\ layout' = layout /\ plan' = plan /\ phase' = "lanes" /\ phase = "lanes"
        /\ next' = next + 1 /\ found' = RunLane(found, next, plan, layout)
        /\ request \in Requests /\ text' = text /\ next =< Len(plan.lanes)
        /\ plan = Resolved(layout) /\ next \in 1 .. (Len(plan.lanes) + 1)
    BY <1>2 DEF ExecuteLane, ReplayInv
  <2>2. plan' = Resolved(layout)'
    BY <2>1, FrozenPlan
  <2>3. Len(plan.lanes) \in Nat
    BY PlanLanes, <2>1
  <2>4. next' \in 1 .. (Len(plan.lanes) + 1) /\ next' - 1 = next /\ next \in 0 .. Len(plan.lanes) /\ next # 0
    BY <2>1, <2>3
  <2>5. ASSUME NEW f, Replays(f, plan, layout)' PROVE found' = f[next]
    <3>1. Replays(f, plan, layout)
      BY <2>1, <2>5, FrozenTurns
    <3>2. found = f[next - 1]
      BY <3>1, <2>1 DEF ReplayInv
    <3>3. f[next] = RunLane(f[next - 1], next, plan, layout)
      BY <3>1, <2>4 DEF Replays
    <3> QED BY <3>2, <3>3, <2>1
  <2> QED BY <2>1, <2>2, <2>4, <2>5 DEF ReplayInv
<1>3. ASSUME Rank \/ UNCHANGED searchVars PROVE ReplayInv'
  <2>1. /\ request' = request /\ layout' = layout /\ plan' = plan /\ next' = next /\ found' = found
        /\ text' = text
    BY <1>3 DEF Rank, searchVars
  <2>2. Resolved(layout)' = Resolved(layout)
    BY <2>1, FrozenPlan
  <2>3. \A f : Replays(f, plan, layout)' = Replays(f, plan, layout)
    BY <2>1, FrozenTurns
  <2>4. Ranked(found.candidates)' = Ranked(found.candidates)
    <3>1. PICK c : c = found.candidates
      OBVIOUS
    <3>2. Ranked(found.candidates)' = Ranked(c)'
      BY <3>1, <2>1
    <3> QED BY <2>1, <3>1, <3>2, FrozenRanked
  <2>5. CASE Rank
    <3>1. /\ phase = "lanes" /\ phase' = "done" /\ hits' = Ranked(found.candidates)
          /\ next > Len(plan.lanes)
      BY <2>5 DEF Rank
    <3>2. next \in 1 .. (Len(plan.lanes) + 1) /\ plan = Resolved(layout) /\ request \in Requests
      BY <3>1 DEF ReplayInv
    <3>3. Len(plan.lanes) \in Nat
      BY PlanLanes, <3>2
    <3>4. next = Len(plan.lanes) + 1
      BY <3>1, <3>2, <3>3
    <3>5. \A f : Replays(f, plan, layout)' => found' = f[next' - 1]
      BY <2>1, <2>3, <3>1 DEF ReplayInv
    <3> QED BY <2>1, <2>2, <2>4, <3>1, <3>2, <3>4, <3>5 DEF ReplayInv
  <2>6. CASE UNCHANGED searchVars
    <3>1. phase' = phase /\ hits' = hits
      BY <2>6 DEF searchVars
    <3>2. phase \in {"lanes", "done"} => \A f : Replays(f, plan, layout)' => found' = f[next' - 1]
      BY <2>1, <2>3 DEF ReplayInv
    <3> QED BY <2>1, <2>2, <2>4, <3>1, <3>2 DEF ReplayInv
  <2> QED BY <1>3, <2>5, <2>6
<1> QED BY <1>1, <1>2, <1>3 DEF SearchNext

\* The answer of the whole run, from the invariant.
LEMMA ReplayAnswer ==
    ASSUME ReplayInv
    PROVE  RebuildRanksTheSame
<1> SUFFICES ASSUME phase = "done" PROVE hits = RankedFrom(Rebuilt)
  BY DEF RebuildRanksTheSame
<1> DEFINE p == Resolved(Rebuilt)
           c == CHOOSE f : Replays(f, p, Rebuilt)
<1>1. plan = p
  BY ResolvedSame DEF ReplayInv
<1>2. Len(p.lanes) \in Nat
  BY PlanLanes
<1>3. Replays(c, p, Rebuilt)
  <2> HIDE DEF p
  <2> QED BY <1>2, ReplayExists
<1>4. Replays(c, p, layout)
  <2> HIDE DEF p, c
  <2> QED BY <1>2, <1>3, ReplaySame
<1>5. found = c[Len(p.lanes)]
  <2> HIDE DEF p, c
  <2>1. found = c[next - 1] /\ next = Len(p.lanes) + 1
    BY <1>1, <1>4 DEF ReplayInv
  <2> QED BY <2>1, <1>2
<1>6. hits = Ranked(c[Len(p.lanes)].candidates)
  <2> HIDE DEF p, c
  <2> QED BY <1>5 DEF ReplayInv
<1>7. RankedFrom(Rebuilt) = Ranked(c[Len(p.lanes)].candidates)
  BY Zenon DEF RankedFrom, Replays
<1> QED BY <1>6, <1>7

\* The invariant holds of every search.
THEOREM ReplayHolds == SearchSpec => []ReplayInv
<1>1. SearchInit => ReplayInv
  BY DEF SearchInit, ReplayInv
<1>2. ReplayInv /\ [SearchNext]_searchVars => ReplayInv'
  BY ReplayStep
<1> QED BY <1>1, <1>2, PTL DEF SearchSpec

\* An index maintained incrementally ranks what a rebuild of it ranks, whatever
\* the segments, the partitions and the bounds of the collectors.
THEOREM RebuildSearchesTheSame == SearchSpec => []RebuildRanksTheSame
  BY ReplayHolds, ReplayAnswer, PTL

-----------------------------------------------------------------------------
(* The plan a search runs                                                  *)

\* What resolve_query_plan leaves when the prefixes it expands are `pre'.
IsPlan(p, pre) ==
    /\ pre \subseteq Terms \ Anchors
    /\ DOMAIN p.prefix = pre
    /\ Len(p.lanes) \in Nat
    /\ DOMAIN p.lanes = 1 .. Len(p.lanes)
    /\ IF Empty(pre) THEN p.lanes = <<>> ELSE p.lanes = Lanes(Stages(pre))

\* The resolved plan is one.
LEMMA ResolvedIsPlan ==
    ASSUME NEW lay
    PROVE  \E pre : IsPlan(Resolved(lay), pre)
<1> DEFINE o == Observed(lay)
           S == {i \in Terms \ Anchors : Long(i) /\ o[i] # {}}
           pre == FirstOf(S, MaxPrefixTerms)
<1>1. pre \subseteq Terms \ Anchors
  BY DEF FirstOf
<1>2. /\ Resolved(lay).prefix = [i \in pre |-> o[i]]
      /\ Resolved(lay).lanes = IF Empty(pre) THEN <<>> ELSE Lanes(Stages(pre))
  <2> HIDE DEF S
  <2> QED BY DEF Resolved, S
<1> HIDE DEF pre, o
<1>3. IsPlan(Resolved(lay), pre)
  BY <1>1, <1>2, PlanLanes DEF IsPlan
<1> QED BY <1>3

\* The lanes of a plan, and the order they run in.
LEMMA PlanRuns ==
    ASSUME NEW p, NEW pre, IsPlan(p, pre), NEW n \in 1 .. Len(p.lanes)
    PROVE  /\ ~Empty(pre) /\ IsLane(p.lanes[n], pre)
           /\ \A m \in 1 .. n :
                /\ p.lanes[m].kind = "PartialCoverage" => p.lanes[n].kind = "PartialCoverage"
                /\ p.lanes[n].kind # "PartialCoverage" =>
                     Points(p.lanes[m].kind, p.lanes[m].field) >= Points(p.lanes[n].kind, p.lanes[n].field)
<1> DEFINE L == p.lanes
<1>1. Len(p.lanes) \in Nat /\ n \in Nat
  BY DEF IsPlan
<1>2. ~Empty(pre) /\ L = Lanes(Stages(pre))
  <2>1. L # <<>>
    <3> SUFFICES ASSUME L = <<>> PROVE FALSE
      OBVIOUS
    <3>1. Len(L) = 0
      OBVIOUS
    <3> QED BY <3>1
  <2> QED BY <2>1 DEF IsPlan
<1> HIDE DEF L
<1>3. /\ L \in Seq(AllLanes(Stages(pre)))
      /\ \A a, b \in 1 .. Len(L) : a < b => Precedes(LaneKey(L[a]), LaneKey(L[b]))
  BY <1>2, LanesAre
<1>4. \A a \in 1 .. Len(L) : IsLane(L[a], pre)
  <2> TAKE a \in 1 .. Len(L)
  <2>1. L[a] \in AllLanes(Stages(pre))
    BY <1>3
  <2> QED BY <2>1, LaneFacts
<1>5. ASSUME NEW m \in 1 .. n
      PROVE  /\ L[m].kind = "PartialCoverage" => L[n].kind = "PartialCoverage"
             /\ L[n].kind # "PartialCoverage" =>
                  Points(L[m].kind, L[m].field) >= Points(L[n].kind, L[n].field)
  <2>0. m \in 1 .. Len(L) /\ n \in 1 .. Len(L)
    BY <1>1 DEF L
  <2>1. /\ L[m].kind \in Kinds /\ L[m].field \in FieldNames
        /\ L[n].kind \in Kinds /\ L[n].field \in FieldNames
    BY <2>0, <1>4, LaneKeyType
  <2>2. /\ Points(L[m].kind, L[m].field) \in 0 .. 80 /\ Points(L[n].kind, L[n].field) \in 0 .. 80
        /\ IsPartial(L[m].kind) \in {0, 1} /\ IsPartial(L[n].kind) \in {0, 1}
        /\ (IsPartial(L[m].kind) = 1 <=> L[m].kind = "PartialCoverage")
        /\ (IsPartial(L[n].kind) = 1 <=> L[n].kind = "PartialCoverage")
    BY <2>1, PointsType
  <2> DEFINE pm == Points(L[m].kind, L[m].field)
             pn == Points(L[n].kind, L[n].field)
             am == IsPartial(L[m].kind)
             an == IsPartial(L[n].kind)
  <2>6. am =< an /\ (an = 0 => pm >= pn)
    <3>0. pm \in 0 .. 80 /\ pn \in 0 .. 80 /\ am \in {0, 1} /\ an \in {0, 1}
      BY <2>2
    <3>3. CASE m = n
      <4>1. pm = pn /\ am = an
        BY <3>3
      <4> HIDE DEF pm, pn, am, an
      <4> QED BY <3>0, <4>1
    <3>4. CASE m < n
      <4>1. Precedes(LaneKey(L[m]), LaneKey(L[n])) /\ IsLane(L[m], pre) /\ IsLane(L[n], pre)
        BY <1>3, <1>4, <2>0, <3>4
      <4>2. am < an \/ (am = an /\ (100 - pm < 100 - pn \/ 100 - pm = 100 - pn))
        BY <4>1, LaneKeyOrder
      <4> HIDE DEF pm, pn, am, an
      <4> QED BY <3>0, <4>2
    <3>5. m = n \/ m < n
      BY <1>1
    <3> QED BY <3>3, <3>4, <3>5
  <2>7. (am = 1 <=> L[m].kind = "PartialCoverage") /\ (an = 1 <=> L[n].kind = "PartialCoverage")
    BY <2>2
  <2>8. pm \in 0 .. 80 /\ pn \in 0 .. 80 /\ am \in {0, 1} /\ an \in {0, 1}
    BY <2>2
  <2>9. /\ L[m].kind = "PartialCoverage" => L[n].kind = "PartialCoverage"
        /\ L[n].kind # "PartialCoverage" => pm >= pn
    <3> HIDE DEF pm, pn, am, an
    <3> QED BY <2>6, <2>7, <2>8
  <2> QED BY <2>9
<1> QED BY <1>2, <1>4, <1>5 DEF L

\* Every lane of every stage of the plan has its turn.
LEMMA LanePlaced ==
    ASSUME NEW p, NEW pre, IsPlan(p, pre), ~Empty(pre),
           NEW stage \in Range(Stages(pre)), stage.group = Fields, stage.kind \in {"AllTerms", "Partial"}
    PROVE  \E n \in 1 .. Len(p.lanes) :
             p.lanes[n].stage = stage /\ p.lanes[n].fields = Fields
<1> DEFINE stages == Stages(pre)
<1>1. PICK i \in DOMAIN stages : stages[i] = stage
  BY DEF Range
<1> DEFINE lane == Lane(stage, i, "CrossField", Fields)
<1>2. Cardinality(Fields) > 1
  <2>1. Cardinality({"Title", "Body"}) = 2
    <3>1. IsFiniteSet({"Title"}) /\ Cardinality({"Title"}) = 1
      BY FS_Singleton
    <3>2. Cardinality({"Title"} \cup {"Body"}) = Cardinality({"Title"}) + 1
      BY <3>1, FS_AddElement
    <3>3. {"Title"} \cup {"Body"} = {"Title", "Body"}
      OBVIOUS
    <3> QED BY <3>1, <3>2, <3>3
  <2> QED BY <2>1 DEF Fields
<1>3. lane \in StageLanes(stage, i)
  BY <1>2 DEF StageLanes
<1>4. lane \in AllLanes(stages)
  BY <1>1, <1>3 DEF AllLanes
<1>5. p.lanes = Lanes(stages)
  BY DEF IsPlan
<1> HIDE DEF lane, stages
<1>6. \E n \in 1 .. Len(p.lanes) : p.lanes[n] = lane
  BY <1>4, <1>5, LanesAre DEF stages
<1>7. lane.stage = stage /\ lane.fields = Fields
  BY DEF lane, Lane
<1> QED BY <1>6, <1>7

-----------------------------------------------------------------------------
(* The best evidence of a candidate                                        *)

\* The lexicographic order of tuples of six.
LEMMA Precedes6 ==
    ASSUME NEW a, NEW b, DOMAIN a = {1, 2, 3, 4, 5, 6}
    PROVE  Precedes(a, b) <=>
             \/ a[1] < b[1]
             \/ a[1] = b[1] /\ a[2] < b[2]
             \/ a[1] = b[1] /\ a[2] = b[2] /\ a[3] < b[3]
             \/ a[1] = b[1] /\ a[2] = b[2] /\ a[3] = b[3] /\ a[4] < b[4]
             \/ a[1] = b[1] /\ a[2] = b[2] /\ a[3] = b[3] /\ a[4] = b[4] /\ a[5] < b[5]
             \/ a[1] = b[1] /\ a[2] = b[2] /\ a[3] = b[3] /\ a[4] = b[4] /\ a[5] = b[5] /\ a[6] < b[6]
<1> DEFINE P(i) == a[i] < b[i] /\ \A j \in 1 .. (i - 1) : a[j] = b[j]
<1>0. DOMAIN a = {1, 2, 3, 4, 5, 6}
  OBVIOUS
<1>r. Precedes(a, b) <=> \E i \in DOMAIN a : P(i)
  BY DEF Precedes
<1>1. P(1) <=> a[1] < b[1]
  BY <1>0
<1>2. P(2) <=> a[1] = b[1] /\ a[2] < b[2]
  BY <1>0
<1>3. P(3) <=> a[1] = b[1] /\ a[2] = b[2] /\ a[3] < b[3]
  <2>1. 1 .. (3 - 1) = {1, 2}
    OBVIOUS
  <2> QED BY <1>0, <2>1
<1>4. P(4) <=> a[1] = b[1] /\ a[2] = b[2] /\ a[3] = b[3] /\ a[4] < b[4]
  <2>1. 1 .. (4 - 1) = {1, 2, 3}
    OBVIOUS
  <2> QED BY <1>0, <2>1
<1>5. P(5) <=> a[1] = b[1] /\ a[2] = b[2] /\ a[3] = b[3] /\ a[4] = b[4] /\ a[5] < b[5]
  <2>1. 1 .. (5 - 1) = {1, 2, 3, 4}
    OBVIOUS
  <2> QED BY <1>0, <2>1
<1>6. P(6) <=> a[1] = b[1] /\ a[2] = b[2] /\ a[3] = b[3] /\ a[4] = b[4] /\ a[5] = b[5] /\ a[6] < b[6]
  <2>1. 1 .. (6 - 1) = {1, 2, 3, 4, 5}
    OBVIOUS
  <2> QED BY <1>0, <2>1
<1>7. Precedes(a, b) <=> P(1) \/ P(2) \/ P(3) \/ P(4) \/ P(5) \/ P(6)
  <2> HIDE DEF P
  <2> QED BY <1>0, <1>r
<1> HIDE DEF P
<1> QED BY <1>1, <1>2, <1>3, <1>4, <1>5, <1>6, <1>7

\* The evidence kept for one candidate: one proof of a lane at most.
AreProofs(P) ==
    /\ IsFiniteSet(P)
    /\ \A pr \in P : /\ pr.kind \in Kinds /\ pr.field \in FieldNames
                     /\ pr.ordinal \in Nat /\ pr.lane \in Nat
    /\ \A pr, q \in P : pr.lane = q.lane => pr = q

ProofOrder(P) == {r \in P \X P : Precedes(ProofKey(r[1]), ProofKey(r[2]))}

\* The key of a proof is six numbers.
LEMMA ProofKeyType ==
    ASSUME NEW P, AreProofs(P), NEW pr \in P
    PROVE  LET k == ProofKey(pr)
           IN  /\ DOMAIN k = {1, 2, 3, 4, 5, 6}
               /\ k[1] = IsPartial(pr.kind) /\ k[2] = 100 - Points(pr.kind, pr.field) /\ k[6] = pr.lane
               /\ k[1] \in Nat /\ k[2] \in Nat /\ k[3] \in Nat /\ k[4] \in Nat /\ k[5] \in Nat /\ k[6] \in Nat
<1>1. /\ pr.kind \in Kinds /\ pr.field \in FieldNames /\ pr.ordinal \in Nat /\ pr.lane \in Nat
  BY DEF AreProofs
<1>2. /\ IsPartial(pr.kind) \in Nat /\ 100 - Points(pr.kind, pr.field) \in Nat
      /\ KindOrder[pr.kind] \in Nat /\ FieldOrder[pr.field] \in Nat
  BY <1>1, PointsType
<1> QED BY <1>1, <1>2 DEF ProofKey

\* The proofs of a candidate are ordered by their keys.
LEMMA ProofsOrdered ==
    ASSUME NEW P, AreProofs(P)
    PROVE  Orders(ProofOrder(P), P)
<1> DEFINE R == ProofOrder(P)
           B(l, m) == Precedes(ProofKey(l), ProofKey(m))
<1>1. \A l, m \in P : <<l, m>> \in R <=> B(l, m)
  BY DEF ProofOrder
<1>2. ASSUME NEW l \in P, NEW m \in P, NEW a, NEW b, a = ProofKey(l), b = ProofKey(m)
      PROVE  B(l, m) <=>
               \/ a[1] < b[1]
               \/ a[1] = b[1] /\ a[2] < b[2]
               \/ a[1] = b[1] /\ a[2] = b[2] /\ a[3] < b[3]
               \/ a[1] = b[1] /\ a[2] = b[2] /\ a[3] = b[3] /\ a[4] < b[4]
               \/ a[1] = b[1] /\ a[2] = b[2] /\ a[3] = b[3] /\ a[4] = b[4] /\ a[5] < b[5]
               \/ a[1] = b[1] /\ a[2] = b[2] /\ a[3] = b[3] /\ a[4] = b[4] /\ a[5] = b[5] /\ a[6] < b[6]
  BY <1>2, ProofKeyType, Precedes6
<1>3. \A l \in P : ~B(l, l)
  <2> TAKE l \in P
  <2> DEFINE a == ProofKey(l)
  <2>1. a[1] \in Nat /\ a[2] \in Nat /\ a[3] \in Nat /\ a[4] \in Nat /\ a[5] \in Nat /\ a[6] \in Nat
    BY ProofKeyType
  <2> HIDE DEF a
  <2> QED BY <1>2, <2>1 DEF a
<1>4. \A l, m, k \in P : B(l, m) /\ B(m, k) => B(l, k)
  <2> TAKE l, m, k \in P
  <2>1. PICK a, b, c : a = ProofKey(l) /\ b = ProofKey(m) /\ c = ProofKey(k)
    OBVIOUS
  <2>2. /\ a[1] \in Nat /\ a[2] \in Nat /\ a[3] \in Nat /\ a[4] \in Nat /\ a[5] \in Nat /\ a[6] \in Nat
        /\ b[1] \in Nat /\ b[2] \in Nat /\ b[3] \in Nat /\ b[4] \in Nat /\ b[5] \in Nat /\ b[6] \in Nat
        /\ c[1] \in Nat /\ c[2] \in Nat /\ c[3] \in Nat /\ c[4] \in Nat /\ c[5] \in Nat /\ c[6] \in Nat
    BY <2>1, ProofKeyType
  <2>3. B(l, m) <=>
          \/ a[1] < b[1]
          \/ a[1] = b[1] /\ a[2] < b[2]
          \/ a[1] = b[1] /\ a[2] = b[2] /\ a[3] < b[3]
          \/ a[1] = b[1] /\ a[2] = b[2] /\ a[3] = b[3] /\ a[4] < b[4]
          \/ a[1] = b[1] /\ a[2] = b[2] /\ a[3] = b[3] /\ a[4] = b[4] /\ a[5] < b[5]
          \/ a[1] = b[1] /\ a[2] = b[2] /\ a[3] = b[3] /\ a[4] = b[4] /\ a[5] = b[5] /\ a[6] < b[6]
    BY <1>2, <2>1
  <2>4. B(m, k) <=>
          \/ b[1] < c[1]
          \/ b[1] = c[1] /\ b[2] < c[2]
          \/ b[1] = c[1] /\ b[2] = c[2] /\ b[3] < c[3]
          \/ b[1] = c[1] /\ b[2] = c[2] /\ b[3] = c[3] /\ b[4] < c[4]
          \/ b[1] = c[1] /\ b[2] = c[2] /\ b[3] = c[3] /\ b[4] = c[4] /\ b[5] < c[5]
          \/ b[1] = c[1] /\ b[2] = c[2] /\ b[3] = c[3] /\ b[4] = c[4] /\ b[5] = c[5] /\ b[6] < c[6]
    BY <1>2, <2>1
  <2>5. B(l, k) <=>
          \/ a[1] < c[1]
          \/ a[1] = c[1] /\ a[2] < c[2]
          \/ a[1] = c[1] /\ a[2] = c[2] /\ a[3] < c[3]
          \/ a[1] = c[1] /\ a[2] = c[2] /\ a[3] = c[3] /\ a[4] < c[4]
          \/ a[1] = c[1] /\ a[2] = c[2] /\ a[3] = c[3] /\ a[4] = c[4] /\ a[5] < c[5]
          \/ a[1] = c[1] /\ a[2] = c[2] /\ a[3] = c[3] /\ a[4] = c[4] /\ a[5] = c[5] /\ a[6] < c[6]
    BY <1>2, <2>1
  <2> HIDE DEF B
  <2> QED BY <2>2, <2>3, <2>4, <2>5
<1>5. \A l, m \in P : l # m => B(l, m) \/ B(m, l)
  <2> SUFFICES ASSUME NEW l \in P, NEW m \in P, ~B(l, m), ~B(m, l) PROVE l = m
    OBVIOUS
  <2>1. PICK a, b : a = ProofKey(l) /\ b = ProofKey(m)
    OBVIOUS
  <2>2. /\ a[1] \in Nat /\ a[2] \in Nat /\ a[3] \in Nat /\ a[4] \in Nat /\ a[5] \in Nat /\ a[6] \in Nat
        /\ b[1] \in Nat /\ b[2] \in Nat /\ b[3] \in Nat /\ b[4] \in Nat /\ b[5] \in Nat /\ b[6] \in Nat
        /\ a[6] = l.lane /\ b[6] = m.lane
    BY <2>1, ProofKeyType
  <2>3. B(l, m) <=>
          \/ a[1] < b[1]
          \/ a[1] = b[1] /\ a[2] < b[2]
          \/ a[1] = b[1] /\ a[2] = b[2] /\ a[3] < b[3]
          \/ a[1] = b[1] /\ a[2] = b[2] /\ a[3] = b[3] /\ a[4] < b[4]
          \/ a[1] = b[1] /\ a[2] = b[2] /\ a[3] = b[3] /\ a[4] = b[4] /\ a[5] < b[5]
          \/ a[1] = b[1] /\ a[2] = b[2] /\ a[3] = b[3] /\ a[4] = b[4] /\ a[5] = b[5] /\ a[6] < b[6]
    BY <1>2, <2>1
  <2>4. B(m, l) <=>
          \/ b[1] < a[1]
          \/ b[1] = a[1] /\ b[2] < a[2]
          \/ b[1] = a[1] /\ b[2] = a[2] /\ b[3] < a[3]
          \/ b[1] = a[1] /\ b[2] = a[2] /\ b[3] = a[3] /\ b[4] < a[4]
          \/ b[1] = a[1] /\ b[2] = a[2] /\ b[3] = a[3] /\ b[4] = a[4] /\ b[5] < a[5]
          \/ b[1] = a[1] /\ b[2] = a[2] /\ b[3] = a[3] /\ b[4] = a[4] /\ b[5] = a[5] /\ b[6] < a[6]
    BY <1>2, <2>1
  <2>5. a[6] = b[6]
    <3> HIDE DEF B
    <3> QED BY <2>2, <2>3, <2>4
  <2> QED BY <2>2, <2>5 DEF AreProofs
<1>6. \A l \in P : IsFiniteSet({u \in P : <<u, l>> \in R})
  <2> TAKE l \in P
  <2>1. {u \in P : <<u, l>> \in R} \in SUBSET P /\ IsFiniteSet(P)
    BY DEF AreProofs
  <2> QED BY <2>1, FS_Subset
<1> HIDE DEF R, B
<1> QED BY <1>1, <1>3, <1>4, <1>5, <1>6 DEF Orders, R

\* The proof selected is the candidate's strongest.
LEMMA SelectedIsStrongest ==
    ASSUME NEW P, AreProofs(P), P # {}
    PROVE  /\ Selected(P) \in P
           /\ \A q \in P : q.kind # "PartialCoverage" =>
                /\ Selected(P).kind # "PartialCoverage"
                /\ Points(Selected(P).kind, Selected(P).field) >= Points(q.kind, q.field)
<1> DEFINE R == ProofOrder(P)
           s == Selected(P)
<1>1. Orders(R, P)
  BY ProofsOrdered
<1>2. PICK x \in P : Below(P, x, R) = {}
  <2> HIDE DEF R
  <2>1. P \in SUBSET P
    OBVIOUS
  <2> QED BY <1>1, <2>1, LeastIn
<1>3. \A q \in P \ {x} : <<x, q>> \in R
  BY <1>1, <1>2 DEF Orders, Below
<1>4. \A q \in P \ {x} : Precedes(ProofKey(x), ProofKey(q))
  BY <1>3 DEF ProofOrder
<1>5. s \in P /\ \A q \in P \ {s} : Precedes(ProofKey(s), ProofKey(q))
  BY <1>4 DEF Selected
<1> HIDE DEF s
<1>6. ASSUME NEW q \in P, q.kind # "PartialCoverage"
      PROVE  s.kind # "PartialCoverage" /\ Points(s.kind, s.field) >= Points(q.kind, q.field)
  <2>1. s.kind \in Kinds /\ s.field \in FieldNames /\ q.kind \in Kinds /\ q.field \in FieldNames
    BY <1>5 DEF AreProofs
  <2> DEFINE ps == Points(s.kind, s.field)
             pq == Points(q.kind, q.field)
             ks == IsPartial(s.kind)
             aq == IsPartial(q.kind)
  <2>2. /\ ps \in 0 .. 80 /\ pq \in 0 .. 80 /\ ks \in {0, 1} /\ aq = 0
        /\ (ks = 1 <=> s.kind = "PartialCoverage")
    BY <2>1, <1>6, PointsType
  <2>3. CASE s = q
    BY <2>3, <2>2, <1>6
  <2>4. CASE s # q
    <3>1. PICK a, b : a = ProofKey(s) /\ b = ProofKey(q)
      OBVIOUS
    <3>2. a[1] = ks /\ a[2] = 100 - ps /\ b[1] = aq /\ b[2] = 100 - pq /\ DOMAIN a = {1, 2, 3, 4, 5, 6}
      BY <3>1, <1>5, ProofKeyType
    <3>3. Precedes(a, b)
      BY <1>5, <2>4, <3>1
    <3>4. a[1] < b[1] \/ (a[1] = b[1] /\ (a[2] < b[2] \/ a[2] = b[2]))
      BY <3>2, <3>3, Precedes6
    <3>5. ks < aq \/ (ks = aq /\ (100 - ps < 100 - pq \/ 100 - ps = 100 - pq))
      <4> HIDE DEF ps, pq, ks, aq
      <4> QED BY <3>2, <3>4
    <3>6. ps \in 0 .. 80 /\ pq \in 0 .. 80 /\ ks \in {0, 1} /\ aq = 0
      BY <2>2
    <3>8. aq \in {0, 1}
      BY <3>6
    <3>9. ks =< aq /\ ps >= pq
      <4> HIDE DEF ps, pq, ks, aq
      <4>1. ps \in 0 .. 80 /\ pq \in 0 .. 80 /\ ks \in {0, 1}
        BY <3>6
      <4>2. ~(ks < aq)
        BY <3>6
      <4>3. ks = aq /\ (100 - ps < 100 - pq \/ 100 - ps = 100 - pq)
        BY <3>5, <4>2
      <4> QED BY <4>3, <4>1, <3>8
    <3>7. ks = 0 /\ ps >= pq
      <4> HIDE DEF ps, pq, ks, aq
      <4> QED BY <3>9, <3>6
    <3> QED BY <3>7, <2>2
  <2> QED BY <2>3, <2>4
<1> QED BY <1>5, <1>6 DEF s

-----------------------------------------------------------------------------
(* What the turns of the loop leave                                        *)

IfThin(p, m) == p.lanes[m].stage.condition = "IfThin"

\* What a turn makes of the decision on exploring.
Decision(acc, n, p) ==
    IF IfThin(p, n) /\ acc.explore = "undecided"
    THEN IF Thin(acc.candidates) THEN "yes" ELSE "no"
    ELSE acc.explore

\* The documents a lane adds to the window.
Added(acc, n, p) ==
    Best(Best(Matching(p.lanes[n], p), MaxCandidates) \ DOMAIN acc.candidates,
         MaxTotal - Cardinality(DOMAIN acc.candidates))

IsAcc(acc) == acc = [candidates |-> acc.candidates, explore |-> acc.explore]

\* The three ways a turn goes: the window is full, the lane is skipped, it runs.
TurnFull(acc, new) ==
    /\ Cardinality(DOMAIN acc.candidates) >= MaxTotal
    /\ new = acc

TurnSkips(acc, n, p, new) ==
    /\ ~(Cardinality(DOMAIN acc.candidates) >= MaxTotal)
    /\ IfThin(p, n) /\ Decision(acc, n, p) = "no"
    /\ new = [candidates |-> acc.candidates, explore |-> "no"]

TurnRuns(acc, n, p, lay, new) ==
    /\ ~(Cardinality(DOMAIN acc.candidates) >= MaxTotal)
    /\ ~(IfThin(p, n) /\ Decision(acc, n, p) = "no")
    /\ new = [candidates |-> new.candidates, explore |-> Decision(acc, n, p)]
    /\ DOMAIN new.candidates = DOMAIN acc.candidates \cup Added(acc, n, p)
    /\ \A d \in Added(acc, n, p) : new.candidates[d] = {Proof(d, n, p.lanes[n], p, lay)}
    /\ \A d \in DOMAIN acc.candidates \ Added(acc, n, p) :
          \/ new.candidates[d] = acc.candidates[d]
          \/ /\ Matches(d, p.lanes[n], p)
             /\ new.candidates[d] = acc.candidates[d] \cup {Proof(d, n, p.lanes[n], p, lay)}

\* A turn is one of the three.
LEMMA TurnCases ==
    ASSUME NEW acc, IsAcc(acc), NEW n, NEW p, NEW lay, NEW new, new = RunLane(acc, n, p, lay)
    PROVE  TurnFull(acc, new) \/ TurnSkips(acc, n, p, new) \/ TurnRuns(acc, n, p, lay, new)
<1> DEFINE lane == p.lanes[n]
           explore == Decision(acc, n, p)
           got == Best(Matching(lane, p), MaxCandidates)
           known == DOMAIN acc.candidates
           added == Best(got \ known, MaxTotal - Cardinality(known))
           cands == [d \in known \cup added |->
                    IF d \in added THEN {Proof(d, n, lane, p, lay)}
                    ELSE IF d \in got /\ Cardinality(acc.candidates[d]) < MaxProofs
                    THEN acc.candidates[d] \cup {Proof(d, n, lane, p, lay)}
                    ELSE acc.candidates[d]]
<1>1. LaneHits(lane, p, lay) = got
  BY LaneHitsAre
<1>2. new = IF Cardinality(known) >= MaxTotal THEN acc
            ELSE IF IfThin(p, n) /\ explore = "no"
            THEN [acc EXCEPT !.explore = explore]
            ELSE [explore |-> explore, candidates |-> cands]
  <2> HIDE DEF got
  <2> QED BY <1>1 DEF RunLane, Decision, IfThin
<1>3. added = Added(acc, n, p)
  BY DEF Added
<1>4. got \subseteq Matching(lane, p)
  BY DEF Best
<1>5. \A d \in got : Matches(d, lane, p)
  BY <1>4 DEF Matching
<1> HIDE DEF lane, explore, got, added
<1>6. CASE Cardinality(known) >= MaxTotal
  BY <1>2, <1>6 DEF TurnFull
<1>7. CASE ~(Cardinality(known) >= MaxTotal) /\ IfThin(p, n) /\ explore = "no"
  <2>1. new = [acc EXCEPT !.explore = "no"]
    BY <1>2, <1>7
  <2>2. [acc EXCEPT !.explore = "no"] = [candidates |-> acc.candidates, explore |-> "no"]
    BY DEF IsAcc
  <2> QED BY <2>1, <2>2, <1>7 DEF explore, TurnSkips
<1>8. CASE ~(Cardinality(known) >= MaxTotal) /\ ~(IfThin(p, n) /\ explore = "no")
  <2>1. new = [explore |-> explore, candidates |-> cands]
    BY <1>2, <1>8
  <2>2. new.candidates = cands /\ new.explore = explore /\ DOMAIN cands = known \cup added
    BY <2>1
  <2>3. new = [candidates |-> new.candidates, explore |-> explore]
    BY <2>1
  <2>4. \A d \in added : cands[d] = {Proof(d, n, lane, p, lay)}
    OBVIOUS
  <2>5. \A d \in known \ added : \/ cands[d] = acc.candidates[d]
                                 \/ /\ Matches(d, lane, p)
                                    /\ cands[d] = acc.candidates[d] \cup {Proof(d, n, lane, p, lay)}
    BY <1>5
  <2> HIDE DEF cands
  <2> QED BY <1>8, <2>2, <2>3, <2>4, <2>5, <1>3 DEF lane, explore, TurnRuns
<1> QED BY <1>6, <1>7, <1>8

\* Every candidate has evidence, and the evidence is real.
Evidence(acc, n, p) ==
    /\ IsAcc(acc)
    /\ DOMAIN acc.candidates \subseteq Docs
    /\ \A d \in DOMAIN acc.candidates :
         /\ AreProofs(acc.candidates[d]) /\ acc.candidates[d] # {}
         /\ \A pr \in acc.candidates[d] :
              /\ pr.lane \in 1 .. n
              /\ pr.kind = p.lanes[pr.lane].kind /\ pr.field = p.lanes[pr.lane].field
              /\ Matches(d, p.lanes[pr.lane], p)

\* A proof says what lane it is from.
LEMMA ProofIs ==
    ASSUME NEW d, NEW n \in Nat, NEW lane, NEW p, NEW lay
    PROVE  LET pr == Proof(d, n, lane, p, lay)
           IN  pr.kind = lane.kind /\ pr.field = lane.field /\ pr.lane = n /\ pr.ordinal \in Nat
<1> DEFINE A == {e \in Collected(Context[d], lane, p, lay) : Ahead(e, d)}
<1>1. A \in SUBSET Docs
  BY CollectedAre DEF Best, MatchingIn
<1>2. Cardinality(A) \in Nat
  <2> HIDE DEF A
  <2> QED BY <1>1, Bounds, FS_Subset, FS_CardinalityType
<1> QED BY <1>2 DEF Proof

\* A turn keeps that.
LEMMA EvidenceStep ==
    ASSUME NEW p, NEW pre, IsPlan(p, pre), NEW n \in 1 .. Len(p.lanes), NEW acc, NEW lay,
           Evidence(acc, n - 1, p), NEW new, new = RunLane(acc, n, p, lay)
    PROVE  Evidence(new, n, p)
<1> DEFINE lane == p.lanes[n]
<1>0. Len(p.lanes) \in Nat /\ n \in Nat
  BY DEF IsPlan
<1>1. lane.kind \in Kinds /\ lane.field \in FieldNames
  BY PlanRuns, LaneKeyType
<1>2. IsAcc(acc)
  BY DEF Evidence
<1>3. Evidence(acc, n, p)
  <2>1. \A k \in 1 .. (n - 1) : k \in 1 .. n
    BY <1>0
  <2> QED BY <2>1 DEF Evidence
<1>4. CASE TurnFull(acc, new)
  BY <1>3, <1>4 DEF TurnFull
<1>5. CASE TurnSkips(acc, n, p, new)
  <2>1. new.candidates = acc.candidates /\ IsAcc(new)
    BY <1>5 DEF TurnSkips, IsAcc
  <2> QED BY <1>3, <2>1 DEF Evidence
<1>6. CASE TurnRuns(acc, n, p, lay, new)
  <2>1. IsAcc(new)
    BY <1>6 DEF TurnRuns, IsAcc
  <2>2. \A d \in Added(acc, n, p) : d \in Docs /\ Matches(d, lane, p)
    BY DEF Added, Best, Matching
  <2>3. DOMAIN new.candidates \subseteq Docs
    BY <1>6, <2>2 DEF Evidence, TurnRuns
  <2>4. ASSUME NEW d \in DOMAIN new.candidates
        PROVE  /\ AreProofs(new.candidates[d]) /\ new.candidates[d] # {}
               /\ \A pr \in new.candidates[d] :
                    /\ pr.lane \in 1 .. n
                    /\ pr.kind = p.lanes[pr.lane].kind /\ pr.field = p.lanes[pr.lane].field
                    /\ Matches(d, p.lanes[pr.lane], p)
    <3> DEFINE proof == Proof(d, n, lane, p, lay)
    <3>1. proof.kind = lane.kind /\ proof.field = lane.field /\ proof.lane = n /\ proof.ordinal \in Nat
      BY <1>0, ProofIs
    <3> HIDE DEF proof
    <3>2. CASE d \in Added(acc, n, p)
      <4>1. new.candidates[d] = {proof}
        BY <3>2, <1>6 DEF proof, TurnRuns
      <4>2. IsFiniteSet({proof})
        BY FS_Singleton
      <4>3. AreProofs({proof})
        BY <3>1, <4>2, <1>1, <1>0 DEF AreProofs
      <4>4. n \in 1 .. n
        BY <1>0
      <4>5. \A pr \in {proof} : /\ pr.lane \in 1 .. n
                    /\ pr.kind = p.lanes[pr.lane].kind /\ pr.field = p.lanes[pr.lane].field
                    /\ Matches(d, p.lanes[pr.lane], p)
        BY <3>1, <3>2, <2>2, <4>4
      <4> QED BY <4>1, <4>3, <4>5
    <3>3. CASE d \notin Added(acc, n, p)
      <4>1. d \in DOMAIN acc.candidates
        BY <3>3, <1>6 DEF TurnRuns
      <4> DEFINE P == acc.candidates[d]
      <4>2. AreProofs(P) /\ P # {} /\ \A pr \in P :
                    /\ pr.lane \in 1 .. (n - 1) /\ pr.lane \in 1 .. n
                    /\ pr.kind = p.lanes[pr.lane].kind /\ pr.field = p.lanes[pr.lane].field
                    /\ Matches(d, p.lanes[pr.lane], p)
        BY <4>1, <1>3 DEF Evidence
      <4>3. new.candidates[d] = P \/ (Matches(d, lane, p) /\ new.candidates[d] = P \cup {proof})
        BY <4>1, <3>3, <1>6 DEF proof, TurnRuns
      <4> HIDE DEF P
      <4>4. CASE new.candidates[d] = P
        BY <4>2, <4>4
      <4>5. CASE Matches(d, lane, p) /\ new.candidates[d] = P \cup {proof}
        <5>1. IsFiniteSet(P \cup {proof})
          BY <4>2, FS_AddElement DEF AreProofs
        <5>2. \A pr \in P : pr.lane # n
          BY <4>2, <1>0
        <5>3. AreProofs(P \cup {proof})
          BY <5>1, <5>2, <3>1, <1>1, <1>0, <4>2 DEF AreProofs
        <5>4. n \in 1 .. n
          BY <1>0
        <5>5. \A pr \in P \cup {proof} : /\ pr.lane \in 1 .. n
                    /\ pr.kind = p.lanes[pr.lane].kind /\ pr.field = p.lanes[pr.lane].field
                    /\ Matches(d, p.lanes[pr.lane], p)
          BY <3>1, <4>5, <4>2, <5>4
        <5> QED BY <4>5, <4>2, <5>3, <5>5
      <4> QED BY <4>3, <4>4, <4>5
    <3> QED BY <3>2, <3>3
  <2> QED BY <2>1, <2>3, <2>4 DEF Evidence
<1> QED BY <1>2, <1>4, <1>5, <1>6, TurnCases

\* At least MaxCandidates documents that match the lane are ahead of this one.
Crowded(d, lane, p) ==
    Cardinality({e \in Docs : Matches(e, lane, p) /\ Ahead(e, d)}) >= MaxCandidates

\* A document that a lane of the first n offered and that is not a candidate was
\* crowded out of the lane, or met a window filled by lanes no weaker.
Missed(acc, n, p) ==
    \A m \in 1 .. n : (IfThin(p, m) => acc.explore # "no") =>
        \A d \in Matching(p.lanes[m], p) \ DOMAIN acc.candidates :
            \/ Crowded(d, p.lanes[m], p)
            \/ /\ Cardinality(DOMAIN acc.candidates) >= MaxTotal
               /\ \A e \in DOMAIN acc.candidates : \E pr \in acc.candidates[e] : pr.lane =< m

\* A lane's hits leave out only the crowded.
LEMMA LeftOut ==
    ASSUME NEW lane, NEW p, NEW d \in Matching(lane, p), d \notin Best(Matching(lane, p), MaxCandidates)
    PROVE  Crowded(d, lane, p)
<1> DEFINE A == {e \in Matching(lane, p) : Ahead(e, d)}
<1>1. ~(Cardinality(A) < MaxCandidates)
  BY DEF Best
<1>2. A = {e \in Docs : Matches(e, lane, p) /\ Ahead(e, d)}
  BY DEF Matching
<1>3. A \in SUBSET Docs
  BY <1>2
<1> HIDE DEF A
<1>4. Cardinality(A) \in Nat
  BY <1>3, Bounds, FS_Subset, FS_CardinalityType
<1>5. Cardinality(A) >= MaxCandidates
  BY <1>1, <1>4, Bounds
<1> QED BY <1>2, <1>5 DEF Crowded

\* A turn keeps it.
LEMMA MissedStep ==
    ASSUME NEW p, NEW pre, IsPlan(p, pre), NEW n \in 1 .. Len(p.lanes), NEW acc, NEW lay,
           Evidence(acc, n - 1, p), Missed(acc, n - 1, p), NEW new, new = RunLane(acc, n, p, lay)
    PROVE  Missed(new, n, p)
<1> DEFINE lane == p.lanes[n]
<1>0. Len(p.lanes) \in Nat /\ n \in Nat /\ IsAcc(acc) /\ DOMAIN acc.candidates \subseteq Docs
  BY DEF IsPlan, Evidence
<1>1. Evidence(new, n, p)
  BY EvidenceStep
<1>2. \A m \in 1 .. n : m = n \/ m \in 1 .. (n - 1)
  BY <1>0
<1> SUFFICES ASSUME NEW m \in 1 .. n, IfThin(p, m) => new.explore # "no",
                    NEW d \in Matching(p.lanes[m], p) \ DOMAIN new.candidates,
                    ~Crowded(d, p.lanes[m], p)
             PROVE  /\ Cardinality(DOMAIN new.candidates) >= MaxTotal
                    /\ \A e \in DOMAIN new.candidates : \E pr \in new.candidates[e] : pr.lane =< m
  BY Zenon DEF Missed
<1>3. \A e \in DOMAIN new.candidates : \E pr \in new.candidates[e] : pr.lane =< n
  <2> TAKE e \in DOMAIN new.candidates
  <2>1. PICK pr \in new.candidates[e] : pr.lane \in 1 .. n
    BY <1>1 DEF Evidence
  <2>2. pr.lane =< n
    BY <2>1, <1>0
  <2> QED BY <2>2
<1>4. CASE TurnFull(acc, new)
  <2>1. CASE m = n
    BY <1>3, <1>4, <2>1 DEF TurnFull
  <2>2. CASE m \in 1 .. (n - 1)
    <3>1. d \in Matching(p.lanes[m], p) \ DOMAIN acc.candidates /\ (IfThin(p, m) => acc.explore # "no")
      BY <1>4 DEF TurnFull
    <3>2. \A e \in DOMAIN acc.candidates : \E pr \in acc.candidates[e] : pr.lane =< m
      BY <3>1, <2>2 DEF Missed
    <3> QED BY <3>2, <1>4 DEF TurnFull
  <2> QED BY <1>2, <2>1, <2>2
<1>5. CASE TurnSkips(acc, n, p, new)
  <2>1. new.explore = "no" /\ new.candidates = acc.candidates /\ IfThin(p, n)
    BY <1>5 DEF TurnSkips
  <2>2. m \in 1 .. (n - 1) /\ ~IfThin(p, m)
    BY <2>1, <1>2
  <2>3. Cardinality(DOMAIN acc.candidates) >= MaxTotal
    BY <2>1, <2>2 DEF Missed
  <2> QED BY <2>3, <1>5 DEF TurnSkips
<1>6. CASE TurnRuns(acc, n, p, lay, new)
  <2> DEFINE known == DOMAIN acc.candidates
             got == Best(Matching(lane, p), MaxCandidates)
             k == MaxTotal - Cardinality(known)
             added == Added(acc, n, p)
  <2>0. /\ ~(Cardinality(known) >= MaxTotal) /\ DOMAIN new.candidates = known \cup added
        /\ new.explore = Decision(acc, n, p)
    BY <1>6 DEF TurnRuns
  <2>1. CASE m = n
    <3>1. d \in got
      BY <2>1, LeftOut
    <3>2. got \ known \in SUBSET Docs /\ IsFiniteSet(got \ known)
      <4>1. got \ known \in SUBSET Docs
        BY DEF Best, Matching
      <4> QED BY <4>1, Bounds, FS_Subset
    <3>3. IsFiniteSet(known) /\ Cardinality(known) \in Nat
      BY <1>0, Bounds, FS_Subset, FS_CardinalityType
    <3>4. k \in Nat /\ MaxTotal \in Nat /\ k + Cardinality(known) = MaxTotal
      <4> HIDE DEF known
      <4> QED BY <3>3, <2>0, Bounds
    <3>5. d \in got \ known /\ d \notin added
      BY <2>0, <3>1
    <3>6. added = Cut(got \ known, k, AheadOrder) /\ added \subseteq got \ known
      <4>1. added = Best(got \ known, k)
        BY DEF Added
      <4>2. added \subseteq got \ known
        BY <4>1 DEF Best
      <4> HIDE DEF got, known, k, added
      <4> QED BY <4>1, <4>2, <3>2, BestIsCut
    <3>7. Cardinality(added) >= k
      <4> HIDE DEF got, known, k, added
      <4>1. Cut(got \ known, k, AheadOrder) # got \ known
        BY <3>5, <3>6
      <4>2. Cardinality(Cut(got \ known, k, AheadOrder)) >= k
        BY <4>1, <3>2, <3>4, AheadOrdered, CutFull
      <4> QED BY <4>2, <3>6
    <3>8. Cardinality(known \cup added) = Cardinality(known) + Cardinality(added) /\ Cardinality(added) \in Nat
      <4> HIDE DEF got, known, k, added
      <4>1. IsFiniteSet(added) /\ known \cap added = {}
        BY <3>2, <3>6, FS_Subset
      <4>2. Cardinality(known \cup added) = Cardinality(known) + Cardinality(added) - Cardinality(known \cap added)
        BY <4>1, <3>3, FS_Union
      <4>3. Cardinality(known \cap added) = 0 /\ Cardinality(added) \in Nat
        BY <4>1, FS_EmptySet, FS_CardinalityType
      <4> QED BY <4>2, <4>3, <3>3
    <3>9. Cardinality(known \cup added) >= MaxTotal
      <4> HIDE DEF got, known, k, added
      <4> QED BY <3>3, <3>4, <3>7, <3>8
    <3> QED BY <3>9, <2>0, <1>3, <2>1
  <2>2. CASE m \in 1 .. (n - 1)
    <3>1. d \in Matching(p.lanes[m], p) \ known
      BY <2>0
    <3>2. IfThin(p, m) => acc.explore # "no"
      BY <2>0 DEF Decision
    <3>3. Cardinality(known) >= MaxTotal
      BY <3>1, <3>2, <2>2 DEF Missed
    <3> QED BY <3>3, <2>0
  <2> QED BY <1>2, <2>1, <2>2
<1> QED BY <1>0, <1>4, <1>5, <1>6, TurnCases

HasThin(p) == \E m \in 1 .. Len(p.lanes) : IfThin(p, m)

\* The stage of partial coverage is one, so its lanes all wait for a thin answer
\* or none does.
LEMMA ThinLanes ==
    ASSUME NEW p, NEW pre, IsPlan(p, pre), HasThin(p), NEW n \in 1 .. Len(p.lanes)
    PROVE  IfThin(p, n) <=> p.lanes[n].kind = "PartialCoverage"
<1>1. PICK m \in 1 .. Len(p.lanes) : IfThin(p, m)
  BY DEF HasThin
<1>2. ASSUME NEW k \in 1 .. Len(p.lanes)
      PROVE  /\ IfThin(p, k) => p.lanes[k].kind = "PartialCoverage"
             /\ p.lanes[k].kind = "PartialCoverage" => p.lanes[k].stage \in Range(PartialStage(pre))
  <2>1. IsLane(p.lanes[k], pre)
    BY PlanRuns
  <2>2. p.lanes[k].stage \in Range(Stages(pre))
    BY <2>1 DEF IsLane
  <2>3. /\ p.lanes[k].stage.condition = "IfThin" => p.lanes[k].stage.kind = "Partial"
        /\ p.lanes[k].stage.kind = "Partial" => p.lanes[k].stage \in Range(PartialStage(pre))
    BY <2>2, StageFields
  <2>4. p.lanes[k].kind = "PartialCoverage" <=> p.lanes[k].stage.kind = "Partial"
    BY <2>1, LaneKeyType
  <2> QED BY <2>3, <2>4 DEF IfThin
<1>3. \A a, b \in Range(PartialStage(pre)) : a = b
  <2>1. \E x : PartialStage(pre) = <<>> \/ PartialStage(pre) = <<x>>
    BY DEF PartialStage
  <2> QED BY <2>1 DEF Range
<1>4. p.lanes[n].kind = "PartialCoverage" => p.lanes[n].stage = p.lanes[m].stage
  BY <1>1, <1>2, <1>3
<1> QED BY <1>1, <1>2, <1>4 DEF IfThin

\* The candidates with standard evidence.
WithStandard(acc) ==
    {d \in DOMAIN acc.candidates : \E pr \in acc.candidates[d] : pr.kind # "PartialCoverage"}

\* The decision on exploring was about the standard answer, all of it.
Decided(acc, n, p) ==
    /\ acc.explore \in {"undecided", "yes", "no"}
    /\ acc.explore = "undecided" =>
         /\ \A m \in 1 .. n : IfThin(p, m) => Cardinality(DOMAIN acc.candidates) >= MaxTotal
         /\ WithStandard(acc) = DOMAIN acc.candidates
    /\ acc.explore # "undecided" => \E m \in 1 .. n : IfThin(p, m)
    /\ acc.explore = "yes" => Cardinality({Source[d] : d \in WithStandard(acc)}) < MinSources
    /\ acc.explore = "no" =>
         /\ WithStandard(acc) = DOMAIN acc.candidates
         /\ ~(Cardinality({Source[d] : d \in WithStandard(acc)}) < MinSources)

\* A turn keeps it.
LEMMA DecidedStep ==
    ASSUME NEW p, NEW pre, IsPlan(p, pre), HasThin(p), NEW n \in 1 .. Len(p.lanes), NEW acc, NEW lay,
           Evidence(acc, n - 1, p), Decided(acc, n - 1, p), NEW new, new = RunLane(acc, n, p, lay)
    PROVE  Decided(new, n, p)
<1> DEFINE lane == p.lanes[n]
<1>0. Len(p.lanes) \in Nat /\ n \in Nat /\ IsAcc(acc)
  BY DEF IsPlan, Evidence
<1>1. \A m \in 1 .. n : m = n \/ m \in 1 .. (n - 1)
  BY <1>0
<1>2. n \in 1 .. n /\ \A m \in 1 .. (n - 1) : m \in 1 .. n
  BY <1>0
<1>3. IfThin(p, n) <=> lane.kind = "PartialCoverage"
  BY ThinLanes
<1>4. CASE TurnFull(acc, new)
  <2>1. new = acc /\ Cardinality(DOMAIN acc.candidates) >= MaxTotal
    BY <1>4 DEF TurnFull
  <2> QED BY <2>1, <1>2 DEF Decided
<1>5. CASE TurnSkips(acc, n, p, new)
  <2>1. /\ new.explore = "no" /\ new.candidates = acc.candidates /\ IfThin(p, n)
        /\ Decision(acc, n, p) = "no"
    BY <1>5 DEF TurnSkips
  <2>2. WithStandard(new) = WithStandard(acc)
    BY <2>1 DEF WithStandard
  <2>3. CASE acc.explore = "undecided"
    <3>1. ~Thin(acc.candidates)
      BY <2>1, <2>3 DEF Decision
    <3>2. WithStandard(acc) = DOMAIN acc.candidates
      BY <2>3 DEF Decided
    <3> QED BY <3>1, <3>2, <2>1, <2>2, <1>2 DEF Decided, Thin
  <2>4. CASE acc.explore # "undecided"
    <3>1. acc.explore = "no"
      BY <2>1, <2>4 DEF Decision
    <3> QED BY <3>1, <2>1, <2>2, <1>2 DEF Decided
  <2> QED BY <2>3, <2>4
<1>6. CASE TurnRuns(acc, n, p, lay, new)
  <2> DEFINE added == Added(acc, n, p)
             known == DOMAIN acc.candidates
  <2>1. /\ ~(Cardinality(known) >= MaxTotal) /\ DOMAIN new.candidates = known \cup added
        /\ new.explore = Decision(acc, n, p) /\ ~(IfThin(p, n) /\ new.explore = "no")
        /\ added \cap known = {}
    BY <1>6 DEF TurnRuns, Added, Best
  <2>2. \A d \in added : \A pr \in new.candidates[d] : pr.kind = lane.kind
    BY <1>6, <1>0, ProofIs DEF TurnRuns
  <2>3. \A d \in added : new.candidates[d] # {}
    BY <1>6 DEF TurnRuns
  <2>4. \A d \in known : \A pr \in new.candidates[d] : pr \in acc.candidates[d] \/ pr.kind = lane.kind
    BY <1>6, <1>0, <2>1, ProofIs DEF TurnRuns
  <2>5. \A d \in known : acc.candidates[d] \subseteq new.candidates[d]
    BY <1>6, <2>1 DEF TurnRuns
  <2> HIDE DEF added, known
  <2>6. CASE IfThin(p, n)
    <3>1. lane.kind = "PartialCoverage"
      BY <2>6, <1>3
    <3>2. WithStandard(new) = WithStandard(acc)
      BY <2>1, <2>2, <2>4, <2>5, <3>1 DEF WithStandard, known
    <3>3. new.explore = "yes" /\ Cardinality({Source[d] : d \in WithStandard(acc)}) < MinSources
      <4>1. CASE acc.explore = "undecided"
        <5>1. WithStandard(acc) = DOMAIN acc.candidates
          BY <4>1 DEF Decided
        <5> QED BY <5>1, <4>1, <2>1, <2>6 DEF Decision, Thin
      <4>2. CASE acc.explore # "undecided"
        BY <4>2, <2>1, <2>6 DEF Decision, Decided
      <4> QED BY <4>1, <4>2
    <3> QED BY <3>2, <3>3, <2>6, <1>2 DEF Decided
  <2>7. CASE ~IfThin(p, n)
    <3>1. lane.kind # "PartialCoverage" /\ new.explore = acc.explore
      BY <2>7, <1>3, <2>1 DEF Decision
    <3>2. acc.explore = "undecided"
      <4> SUFFICES ASSUME acc.explore # "undecided" PROVE FALSE
        OBVIOUS
      <4>1. PICK m \in 1 .. (n - 1) : IfThin(p, m)
        BY DEF Decided
      <4>2. m \in 1 .. n /\ m \in 1 .. Len(p.lanes)
        BY <1>0
      <4>3. p.lanes[m].kind = "PartialCoverage"
        BY <4>1, <4>2, ThinLanes
      <4>4. lane.kind = "PartialCoverage"
        BY <4>2, <4>3, PlanRuns
      <4> QED BY <4>4, <3>1
    <3>3. \A m \in 1 .. n : ~IfThin(p, m)
      BY <3>2, <2>1, <2>7, <1>1 DEF Decided, known
    <3>4. WithStandard(acc) = known
      BY <3>2 DEF Decided, known
    <3>5. WithStandard(new) = DOMAIN new.candidates
      <4>1. \A d \in known : \E pr \in new.candidates[d] : pr.kind # "PartialCoverage"
        BY <3>4, <2>5 DEF WithStandard
      <4>2. \A d \in added : \E pr \in new.candidates[d] : pr.kind # "PartialCoverage"
        BY <2>2, <2>3, <3>1
      <4> QED BY <4>1, <4>2, <2>1 DEF WithStandard
    <3> QED BY <3>1, <3>2, <3>3, <3>5 DEF Decided
  <2> QED BY <2>6, <2>7
<1> QED BY <1>0, <1>4, <1>5, <1>6, TurnCases

\* What the first n turns leave.
Turned(acc, n, p) ==
    /\ Evidence(acc, n, p)
    /\ Missed(acc, n, p)
    /\ HasThin(p) => Decided(acc, n, p)

\* Before the first turn.
LEMMA TurnedFirst ==
    ASSUME NEW p
    PROVE  Turned(NothingYet, 0, p)
<1>1. /\ NothingYet.candidates = <<>> /\ NothingYet.explore = "undecided" /\ DOMAIN <<>> = {}
      /\ IsAcc(NothingYet)
  BY DEF NothingYet, IsAcc
<1>2. 1 .. 0 = {}
  OBVIOUS
<1>3. Evidence(NothingYet, 0, p)
  BY <1>1 DEF Evidence
<1>4. Missed(NothingYet, 0, p)
  BY <1>2 DEF Missed
<1>5. Decided(NothingYet, 0, p)
  BY <1>1, <1>2 DEF Decided, WithStandard
<1> QED BY <1>3, <1>4, <1>5 DEF Turned

\* After every turn.
LEMMA TurnedAll ==
    ASSUME NEW f, NEW p, NEW pre, NEW lay, IsPlan(p, pre), Replays(f, p, lay)
    PROVE  \A n \in 0 .. Len(p.lanes) : Turned(f[n], n, p)
<1> DEFINE N == Len(p.lanes)
           Bad == {n \in 0 .. N : ~Turned(f[n], n, p)}
<1>0. N \in Nat
  BY DEF IsPlan
<1>1. \A n \in 0 .. N : f[n] = IF n = 0 THEN NothingYet ELSE RunLane(f[n - 1], n, p, lay)
  BY DEF Replays
<1> HIDE DEF N
<1>2. Bad = {}
  <2> SUFFICES ASSUME Bad # {} PROVE FALSE
    OBVIOUS
  <2>0. Bad \in SUBSET Nat
    BY <1>0
  <2>1. PICK k \in Bad : \A j \in Bad : k =< j
    <3> HIDE DEF Bad
    <3> QED BY <2>0, LeastNat
  <2>2. k \in 0 .. N /\ ~Turned(f[k], k, p)
    BY <2>1
  <2>3. CASE k = 0
    <3>1. f[0] = NothingYet
      BY <2>2, <2>3, <1>1
    <3> QED BY <3>1, <2>2, <2>3, TurnedFirst
  <2>4. CASE k # 0
    <3>1. k - 1 \in 0 .. N /\ k - 1 < k /\ k \in 1 .. N
      BY <2>2, <2>4, <1>0
    <3>2. k - 1 \notin Bad
      <4> HIDE DEF Bad
      <4> QED BY <2>0, <2>1, <3>1
    <3>3. Turned(f[k - 1], k - 1, p)
      BY <3>1, <3>2
    <3>4. f[k] = RunLane(f[k - 1], k, p, lay) /\ k \in 1 .. Len(p.lanes)
      BY <2>2, <2>4, <3>1, <1>1 DEF N
    <3>5. Evidence(f[k], k, p)
      BY <3>3, <3>4, EvidenceStep DEF Turned
    <3>6. Missed(f[k], k, p)
      BY <3>3, <3>4, MissedStep DEF Turned
    <3>7. HasThin(p) => Decided(f[k], k, p)
      BY <3>3, <3>4, DecidedStep DEF Turned
    <3> QED BY <3>5, <3>6, <3>7, <2>2 DEF Turned
  <2> QED BY <2>3, <2>4
<1> QED BY <1>2 DEF N

\* What a finished search has found, and with which plan.
LEMMA FinishedIs ==
    ASSUME ReplayInv, phase = "done"
    PROVE  /\ \E pre : IsPlan(plan, pre)
           /\ Turned(found, Len(plan.lanes), plan)
<1>1. plan = Resolved(layout) /\ next = Len(plan.lanes) + 1 /\ request \in Requests
  BY DEF ReplayInv
<1>2. PICK pre : IsPlan(plan, pre)
  BY <1>1, ResolvedIsPlan
<1>3. Len(plan.lanes) \in Nat
  BY <1>2 DEF IsPlan
<1>4. PICK f : Replays(f, plan, layout)
  BY <1>3, ReplayExists
<1>5. found = f[Len(plan.lanes)]
  <2>1. found = f[next - 1]
    BY <1>4 DEF ReplayInv
  <2> QED BY <2>1, <1>1, <1>3
<1>6. Len(plan.lanes) \in 0 .. Len(plan.lanes)
  BY <1>3
<1> QED BY <1>2, <1>4, <1>5, <1>6, TurnedAll

\* The strongest evidence is kept.
LEMMA StrongestFromTurns ==
    ASSUME ReplayInv
    PROVE  StrongestKept
<1> SUFFICES ASSUME phase = "done",
                    NEW n \in DOMAIN plan.lanes, NEW d \in Docs \ DOMAIN found.candidates,
                    plan.lanes[n].kind # "PartialCoverage", Matches(d, plan.lanes[n], plan),
                    ~Crowded(d, plan.lanes[n], plan)
             PROVE  /\ Full
                    /\ \A e \in DOMAIN found.candidates :
                            LET best == Selected(found.candidates[e])
                            IN  /\ best.kind # "PartialCoverage"
                                /\ Points(best.kind, best.field)
                                     >= Points(plan.lanes[n].kind, plan.lanes[n].field)
  BY Zenon DEF StrongestKept, Crowded
<1> DEFINE N == Len(plan.lanes)
           lane == plan.lanes[n]
<1>1. PICK pre : IsPlan(plan, pre)
  BY FinishedIs
<1>2. N \in Nat /\ n \in 1 .. N
  BY <1>1 DEF IsPlan
<1>3. Evidence(found, N, plan) /\ Missed(found, N, plan)
  BY FinishedIs DEF Turned
<1>4. ~IfThin(plan, n)
  <2>1. IsLane(lane, pre)
    BY <1>1, <1>2, PlanRuns
  <2>2. lane.stage \in Range(Stages(pre))
    BY <2>1 DEF IsLane
  <2>3. lane.stage.condition = "IfThin" => lane.stage.kind = "Partial"
    BY <2>2, StageFields
  <2>4. lane.kind = "PartialCoverage" <=> lane.stage.kind = "Partial"
    BY <2>1, LaneKeyType
  <2> QED BY <2>3, <2>4 DEF IfThin
<1>5. /\ Cardinality(DOMAIN found.candidates) >= MaxTotal
      /\ \A e \in DOMAIN found.candidates : \E pr \in found.candidates[e] : pr.lane =< n
  <2>1. d \in Matching(lane, plan) \ DOMAIN found.candidates
    BY DEF Matching
  <2> QED BY <1>2, <1>3, <1>4, <2>1 DEF Missed
<1>6. ASSUME NEW e \in DOMAIN found.candidates
      PROVE  /\ Selected(found.candidates[e]).kind # "PartialCoverage"
             /\ Points(Selected(found.candidates[e]).kind, Selected(found.candidates[e]).field)
                  >= Points(lane.kind, lane.field)
  <2> DEFINE P == found.candidates[e]
             s == Selected(P)
  <2>1. AreProofs(P) /\ P # {}
    BY <1>3 DEF Evidence
  <2>2. PICK pr \in P : pr.lane =< n
    BY <1>5
  <2>3. /\ pr.lane \in 1 .. N /\ pr.kind = plan.lanes[pr.lane].kind
        /\ pr.field = plan.lanes[pr.lane].field
    BY <1>3, <2>2 DEF Evidence
  <2>4. pr.lane \in 1 .. n
    BY <2>2, <2>3, <1>2
  <2>5. pr.kind # "PartialCoverage" /\ Points(pr.kind, pr.field) >= Points(lane.kind, lane.field)
    BY <1>1, <1>2, <2>3, <2>4, PlanRuns
  <2> HIDE DEF P
  <2>6. s \in P /\ s.kind # "PartialCoverage" /\ Points(s.kind, s.field) >= Points(pr.kind, pr.field)
    BY <2>1, <2>2, <2>5, SelectedIsStrongest
  <2>7. /\ s.kind \in Kinds /\ s.field \in FieldNames /\ pr.kind \in Kinds /\ pr.field \in FieldNames
        /\ lane.kind \in Kinds /\ lane.field \in FieldNames
    <3>1. IsLane(lane, pre)
      BY <1>1, <1>2, PlanRuns
    <3> QED BY <2>1, <2>2, <2>6, <3>1, LaneKeyType DEF AreProofs
  <2> DEFINE x == Points(s.kind, s.field)
             y == Points(pr.kind, pr.field)
             z == Points(lane.kind, lane.field)
  <2>8. x \in 0 .. 80 /\ y \in 0 .. 80 /\ z \in 0 .. 80
    BY <2>7, PointsType
  <2>9. x >= y /\ y >= z
    BY <2>5, <2>6
  <2>10. x >= z
    <3> HIDE DEF x, y, z
    <3> QED BY <2>8, <2>9
  <2> QED BY <2>6, <2>10 DEF P
<1> QED BY <1>5, <1>6 DEF Full

-----------------------------------------------------------------------------
(* What a match says of the words                                          *)

\* The first n of a set of at most n are all of it.
LEMMA FirstOfAll ==
    ASSUME NEW S \in SUBSET Nat, IsFiniteSet(S), NEW n \in Nat, Cardinality(S) =< n
    PROVE  FirstOf(S, n) = S
<1> DEFINE C == Cut(S, n, NatOrder)
<1>1. FirstOf(S, n) = C
  BY FirstOfIsCut
<1> SUFFICES ASSUME C # S PROVE FALSE
  BY <1>1
<1>2. Cardinality(C) >= n
  BY NatOrdered, CutFull
<1>3. C \subseteq S
  BY DEF Cut
<1> HIDE DEF C
<1>4. C \in SUBSET S /\ IsFiniteSet(C) /\ Cardinality(C) \in Nat /\ Cardinality(S) \in Nat
  BY <1>3, FS_Subset, FS_CardinalityType
<1>5. Cardinality(C) =< Cardinality(S) /\ Cardinality(C) # Cardinality(S)
  BY <1>4, FS_Subset
<1> QED BY <1>2, <1>4, <1>5

\* The terms of a query are no more than a stage of partial coverage takes.
LEMMA TermsFit ==
    ASSUME request \in Requests
    PROVE  /\ Terms \in SUBSET Nat /\ IsFiniteSet(Terms) /\ Cardinality(Terms) \in Nat
           /\ Cardinality(Terms) =< MaxPartialTerms
           /\ Anchors \subseteq Terms /\ Useful \subseteq Terms
           /\ \A S \in SUBSET Terms : /\ S \in SUBSET Nat /\ IsFiniteSet(S) /\ Cardinality(S) \in Nat
                                      /\ Cardinality(S) =< MaxPartialTerms
<1>1. request.terms \in Seq(Words) /\ Len(request.terms) =< MaxPartialTerms /\ MaxPartialTerms \in Nat
  BY LexicalAssumption, Bounds
<1>2. Terms = 1 .. Len(request.terms) /\ Len(request.terms) \in Nat
  BY <1>1 DEF Terms
<1>3. IsFiniteSet(Terms) /\ Cardinality(Terms) = Len(request.terms)
  BY <1>2, FS_Interval
<1>4. ASSUME NEW S \in SUBSET Terms
      PROVE  /\ S \in SUBSET Nat /\ IsFiniteSet(S) /\ Cardinality(S) \in Nat
             /\ Cardinality(S) =< MaxPartialTerms
  <2>1. IsFiniteSet(S) /\ Cardinality(S) =< Cardinality(Terms) /\ Cardinality(S) \in Nat
    BY <1>3, FS_Subset, FS_CardinalityType
  <2> QED BY <2>1, <1>1, <1>2, <1>3
<1>5. Anchors \subseteq Terms /\ Useful \subseteq Terms
  BY DEF Anchors, Useful
<1> QED BY <1>1, <1>2, <1>3, <1>4, <1>5

\* The words the answer is held to: all anchors, and all the words the index knows.
LEMMA RelaxedIs ==
    ASSUME request \in Requests
    PROVE  Relaxed = Anchors \cup Useful
<1>1. Anchors \cup Useful \in SUBSET Terms
  BY TermsFit
<1>2. /\ Anchors \cup Useful \in SUBSET Nat /\ IsFiniteSet(Anchors \cup Useful)
      /\ Cardinality(Anchors \cup Useful) =< MaxPartialTerms /\ MaxPartialTerms \in Nat
  BY <1>1, TermsFit, Bounds
<1> QED BY <1>2, FirstOfAll DEF Relaxed

\* A term found in some fields is held by the document.
LEMMA TermHeld ==
    ASSUME NEW d, NEW i, NEW fields \in SUBSET Fields, TermIn(d, i, fields)
    PROVE  Holds(d, i)
<1>1. CASE \E f \in fields : Has(d, f, Word(i))
  BY <1>1 DEF Holds
<1>2. CASE AnchorIn(d, i, Fields, fields)
  <2>1. CASE text[d].Title = <<Word(i)>>
    <3>1. Range(text[d].Title) = {Word(i)}
      BY <2>1 DEF Range
    <3>2. Has(d, "Title", Word(i))
      BY <3>1 DEF Has
    <3> QED BY <3>2 DEF Holds, Fields
  <2>2. CASE Has(d, "Body", Word(i))
    BY <2>2 DEF Holds, Fields
  <2> QED BY <1>1, <1>2, <2>1, <2>2 DEF AnchorIn
<1> QED BY <1>1, <1>2 DEF TermIn

\* The same for an anchor that any field may hold.
LEMMA AnchorHeld ==
    ASSUME NEW d, NEW i, NEW exact, AnchorIn(d, i, exact, Fields)
    PROVE  Holds(d, i)
<1>1. CASE \E f \in Fields : Has(d, f, Word(i))
  BY <1>1 DEF Holds
<1>2. CASE text[d].Title = <<Word(i)>>
  <2>1. Range(text[d].Title) = {Word(i)}
    BY <1>2 DEF Range
  <2>2. Has(d, "Title", Word(i))
    BY <2>1 DEF Has
  <2> QED BY <2>2 DEF Holds, Fields
<1>3. CASE Has(d, "Body", Word(i))
  BY <1>3 DEF Holds, Fields
<1> QED BY <1>1, <1>2, <1>3 DEF AnchorIn

\* And a word held is found by a lane across the fields.
LEMMA HeldFound ==
    ASSUME NEW d, NEW i, Holds(d, i)
    PROVE  TermIn(d, i, Fields)
  BY DEF Holds, TermIn, AnchorIn

\* A phrase in a field is made of words of the field.
LEMMA PhraseHeld ==
    ASSUME request \in Requests, text \in [Docs -> ChunkTexts], NEW d \in Docs, NEW f \in Fields,
           Contiguous(request.terms, text[d][f]), NEW i \in Terms
    PROVE  Holds(d, i)
<1> DEFINE s == request.terms
           t == text[d][f]
<1>1. s \in Seq(Words) /\ i \in 1 .. Len(s) /\ s[i] = Word(i)
  <2>1. s \in Seq(Words)
    BY LexicalAssumption
  <2> QED BY <2>1 DEF Terms, Word
<1>2. t \in Seq(Words)
  <2>1. text[d] \in [Title : Seq(Words), Body : Seq(Words)]
    BY LexicalAssumption
  <2> QED BY <2>1 DEF Fields
<1>3. PICK k \in 0 .. (Len(t) - Len(s)) : SubSeq(t, k + 1, k + Len(s)) = s
  BY DEF Contiguous
<1> HIDE DEF s, t
<1>4. Len(s) \in Nat /\ Len(t) \in Nat /\ k + i \in 1 .. Len(t)
  BY <1>1, <1>2, <1>3
<1>5. s[i] = t[k + i]
  <2>1. SubSeq(t, k + 1, k + Len(s))[i] = t[(k + 1) + i - 1]
    BY <1>1, <1>2, <1>3, <1>4
  <2>2. (k + 1) + i - 1 = k + i
    BY <1>1, <1>3, <1>4
  <2> QED BY <1>3, <2>1, <2>2
<1>6. Word(i) \in Range(t)
  BY <1>1, <1>2, <1>4, <1>5 DEF Range
<1> QED BY <1>6 DEF Holds, Has, t

\* A document that a lane of the plan takes holds every anchor of the query.
LEMMA MatchHolds ==
    ASSUME request \in Requests, text \in [Docs -> ChunkTexts], NEW p, NEW pre, IsPlan(p, pre),
           NEW n \in 1 .. Len(p.lanes), NEW d, Matches(d, p.lanes[n], p), NEW i \in Anchors
    PROVE  d \in Docs /\ d \in request.allowed /\ Holds(d, i)
<1> DEFINE lane == p.lanes[n]
           stage == lane.stage
<1>1. IsLane(lane, pre) /\ ~Empty(pre)
  BY PlanRuns
<1>2. /\ stage \in Range(Stages(pre)) /\ lane.fields \in SUBSET Fields
  BY <1>1 DEF IsLane
<1>3. /\ pre \subseteq Terms \ Anchors /\ i \in Terms /\ i \notin pre
  BY TermsFit DEF IsPlan
<1>4. d \in request.allowed /\ d \in Docs
  BY LexicalAssumption DEF Matches
<1>5. i \in Relaxed \ pre
  BY <1>3, RelaxedIs
<1>6. stage \in {ExactStage, PhraseStage, MetadataStage(pre), AllStage, PrefixStage(pre)}
        \/ stage \in Range(PartialStage(pre))
  BY <1>2, StagesAre
<1>m. /\ stage.kind = "Exact" /\ ~(stage.minimum > 0) => ExactMatch(d, lane.fields)
      /\ stage.kind = "Phrase" /\ ~(stage.minimum > 0) => PhraseMatch(d, lane.fields)
      /\ stage.kind \notin {"Exact", "Phrase"} /\ stage.minimum > 0 => Exploratory(d, lane, p)
      /\ stage.kind \notin {"Exact", "Phrase"} /\ ~(stage.minimum > 0) =>
           \A j \in stage.required : TermIn(d, j, lane.fields)
  <2> DEFINE exact == stage.kind = "Exact"
             phrase == stage.kind = "Phrase"
             atLeast == stage.minimum > 0
  <2>1. exact => ~phrase
    OBVIOUS
  <2>2. (CASE exact -> ExactMatch(d, lane.fields)
           [] phrase -> PhraseMatch(d, lane.fields)
           [] atLeast -> Exploratory(d, lane, p)
           [] OTHER -> /\ \A j \in stage.required : TermIn(d, j, lane.fields)
                       /\ \A j \in stage.prefix : ExpandedIn(d, j, lane.fields, p))
    BY DEF Matches
  <2>3. exact <=> stage.kind = "Exact"
    OBVIOUS
  <2>4. phrase <=> stage.kind = "Phrase"
    OBVIOUS
  <2>5. atLeast <=> stage.minimum > 0
    OBVIOUS
  <2> HIDE DEF exact, phrase, atLeast
  <2>6. /\ exact /\ ~atLeast => ExactMatch(d, lane.fields)
        /\ phrase /\ ~atLeast => PhraseMatch(d, lane.fields)
        /\ ~exact /\ ~phrase /\ atLeast => Exploratory(d, lane, p)
        /\ ~exact /\ ~phrase /\ ~atLeast => \A j \in stage.required : TermIn(d, j, lane.fields)
    BY <2>1, <2>2
  <2> QED BY <2>3, <2>4, <2>5, <2>6
<1> HIDE DEF lane, stage
<1>7. CASE stage = ExactStage
  <2>1. ExactMatch(d, lane.fields)
    <3>1. stage.kind = "Exact" /\ ~(stage.minimum > 0)
      BY <1>7 DEF ExactStage, Stage
    <3> QED BY <3>1, <1>m
  <2>2. CASE text[d].Title = request.terms
    <3>1. Word(i) \in Range(text[d].Title)
      BY <2>2, <1>3 DEF Range, Word, Terms
    <3>2. Has(d, "Title", Word(i))
      BY <3>1 DEF Has
    <3> QED BY <1>4, <3>2 DEF Holds, Fields
  <2>3. CASE Len(request.terms) = 1 /\ Has(d, "Body", Word(1))
    <3>1. request.terms \in Seq(Words)
      BY LexicalAssumption
    <3>2. Terms = {1}
      BY <2>3, <3>1 DEF Terms
    <3>3. i = 1
      BY <3>2, <1>3
    <3> QED BY <1>4, <2>3, <3>3 DEF Holds, Fields
  <2> QED BY <2>1, <2>2, <2>3 DEF ExactMatch
<1>8. CASE stage = PhraseStage
  <2>1. PhraseMatch(d, lane.fields)
    <3>1. stage.kind = "Phrase" /\ ~(stage.minimum > 0)
      BY <1>8 DEF PhraseStage, Stage
    <3> QED BY <3>1, <1>m
  <2>2. PICK f \in lane.fields : Contiguous(request.terms, text[d][f])
    BY <2>1 DEF PhraseMatch
  <2> QED BY <1>2, <1>3, <1>4, <2>2, PhraseHeld
<1>9. ASSUME stage.kind \notin {"Exact", "Phrase"}, ~(stage.minimum > 0), i \in stage.required
      PROVE  Holds(d, i)
  <2>1. TermIn(d, i, lane.fields)
    BY <1>m, <1>9
  <2> QED BY <1>2, <2>1, TermHeld
<1>10. CASE stage = AllStage
  <2>1. stage.kind = "AllTerms" /\ stage.minimum = 0 /\ stage.required = Terms
    BY <1>10 DEF AllStage, Stage
  <2> QED BY <2>1, <1>9, <1>3, <1>4
<1>11. CASE stage = MetadataStage(pre) \/ stage = PrefixStage(pre)
  <2>1. stage.kind \in {"PrefixMetadata", "Prefix"} /\ stage.minimum = 0 /\ stage.required = Relaxed \ pre
    BY <1>11 DEF MetadataStage, PrefixStage, Stage
  <2> QED BY <2>1, <1>9, <1>5, <1>4
<1>12. CASE stage \in Range(PartialStage(pre))
  <2>1. \/ stage = Stage("Partial", "Always", Fields, Relaxed, {}, 0)
        \/ \E included : stage = Stage("Partial", "IfThin", Fields, Anchors \cup (included \ pre), included \cap pre, 1)
    <3>1. \/ PartialStage(pre) = <<>>
          \/ PartialStage(pre) = <<Stage("Partial", "Always", Fields, Relaxed, {}, 0)>>
          \/ \E included : PartialStage(pre) =
               <<Stage("Partial", "IfThin", Fields, Anchors \cup (included \ pre), included \cap pre, 1)>>
      BY Zenon DEF PartialStage
    <3>2. \A x : Range(<<x>>) = {x}
      BY DEF Range
    <3>3. Range(<<>>) = {}
      BY DEF Range
    <3> QED BY <1>12, <3>1, <3>2, <3>3, Zenon
  <2>2. CASE stage = Stage("Partial", "Always", Fields, Relaxed, {}, 0)
    <3>1. stage.kind = "Partial" /\ stage.minimum = 0 /\ stage.required = Relaxed
      BY <2>2 DEF Stage
    <3> QED BY <3>1, <1>9, <1>5, <1>4
  <2>3. CASE \E included : stage = Stage("Partial", "IfThin", Fields, Anchors \cup (included \ pre), included \cap pre, 1)
    <3>1. stage.kind = "Partial" /\ stage.minimum = 1 /\ Anchors \subseteq stage.required
      BY <2>3 DEF Stage
    <3>2. Exploratory(d, lane, p)
      BY <3>1, <1>m
    <3>3. TermIn(d, i, lane.fields)
      BY <3>1, <3>2 DEF Exploratory, stage
    <3> QED BY <1>2, <1>4, <3>3, TermHeld
  <2> QED BY <2>1, <2>2, <2>3
<1> QED BY <1>6, <1>7, <1>8, <1>10, <1>11, <1>12

\* A document crowded out of a lane it matches: the lane has more than it returns.
LEMMA CrowdedMany ==
    ASSUME NEW lane, NEW p, NEW d \in Docs, Matches(d, lane, p), Crowded(d, lane, p)
    PROVE  Cardinality({e \in Docs : Matches(e, lane, p)}) > MaxCandidates
<1> DEFINE A == {e \in Docs : Matches(e, lane, p) /\ Ahead(e, d)}
           M == {e \in Docs : Matches(e, lane, p)}
<1>1. A \in SUBSET M /\ d \in M /\ d \notin A
  <2>1. ~Ahead(d, d)
    BY AheadOrdered DEF Orders, AheadOrder
  <2> QED BY <2>1
<1>2. M \in SUBSET Docs /\ IsFiniteSet(Docs) /\ MaxCandidates \in Nat
  BY Bounds
<1>3. Cardinality(A) >= MaxCandidates
  BY DEF Crowded
<1> HIDE DEF A, M
<1>4. IsFiniteSet(M) /\ IsFiniteSet(A) /\ Cardinality(A) \in Nat /\ Cardinality(M) \in Nat
      /\ Cardinality(A) =< Cardinality(M) /\ Cardinality(A) # Cardinality(M)
  BY <1>1, <1>2, FS_Subset, FS_CardinalityType
<1>5. Cardinality(M) > MaxCandidates
  BY <1>2, <1>3, <1>4
<1> QED BY <1>5 DEF M

\* A finished search with room left has every document that a lane that ran takes.
LEMMA FoundOrCrowded ==
    ASSUME ReplayInv, phase = "done", ~Full, NEW n \in 1 .. Len(plan.lanes),
           IfThin(plan, n) => found.explore # "no",
           NEW d \in Docs \ DOMAIN found.candidates, Matches(d, plan.lanes[n], plan)
    PROVE  /\ n \in DOMAIN plan.lanes
           /\ Cardinality({e \in Docs : Matches(e, plan.lanes[n], plan)}) > MaxCandidates
<1>1. PICK pre : IsPlan(plan, pre)
  BY FinishedIs
<1>2. Missed(found, Len(plan.lanes), plan)
  BY FinishedIs DEF Turned
<1>3. d \in Matching(plan.lanes[n], plan) \ DOMAIN found.candidates
  BY DEF Matching
<1>4. Crowded(d, plan.lanes[n], plan)
  BY <1>2, <1>3 DEF Missed, Full
<1> QED BY <1>1, <1>4, CrowdedMany DEF IsPlan

\* The answer is about the query.
LEMMA FaithfulFromTurns ==
    ASSUME ReplayInv
    PROVE  FaithfulToQuery
<1> SUFFICES ASSUME phase = "done"
             PROVE  /\ \A d \in DOMAIN found.candidates :
                          d \in request.allowed /\ \A i \in Anchors : Holds(d, i)
                    /\ \A d \in request.allowed \ DOMAIN found.candidates :
                          \/ Full
                          \/ Useful = {} \/ ~(Anchors \subseteq Useful)
                          \/ \E i \in Useful : ~Holds(d, i)
                          \/ \E n \in DOMAIN plan.lanes :
                                Cardinality({e \in Docs : Matches(e, plan.lanes[n], plan)}) > MaxCandidates
  BY Zenon DEF FaithfulToQuery
<1>0. request \in Requests /\ text \in [Docs -> ChunkTexts]
  BY DEF ReplayInv
<1>1. PICK pre : IsPlan(plan, pre)
  BY FinishedIs
<1>2. Evidence(found, Len(plan.lanes), plan)
  BY FinishedIs DEF Turned
<1>3. ASSUME NEW d \in DOMAIN found.candidates
      PROVE  d \in request.allowed /\ \A i \in Anchors : Holds(d, i)
  <2>1. PICK pr \in found.candidates[d] : pr.lane \in 1 .. Len(plan.lanes) /\ Matches(d, plan.lanes[pr.lane], plan)
    BY <1>2 DEF Evidence
  <2>2. d \in request.allowed
    BY <2>1 DEF Matches
  <2> QED BY <1>0, <1>1, <2>1, <2>2, MatchHolds
<1>4. ASSUME NEW d \in request.allowed \ DOMAIN found.candidates, ~Full,
             Useful # {}, Anchors \subseteq Useful, \A i \in Useful : Holds(d, i)
      PROVE  \E n \in DOMAIN plan.lanes :
                Cardinality({e \in Docs : Matches(e, plan.lanes[n], plan)}) > MaxCandidates
  <2>1. ~Empty(pre) /\ d \in Docs
    BY <1>0, <1>4, LexicalAssumption DEF Empty
  <2>2. ASSUME NEW stage \in Range(Stages(pre)), stage.kind \in {"AllTerms", "Partial"}, stage.group = Fields,
               stage.minimum = 0, stage.required \subseteq Useful, stage.prefix = {}, stage.condition = "Always"
        PROVE  \E n \in DOMAIN plan.lanes :
                  Cardinality({e \in Docs : Matches(e, plan.lanes[n], plan)}) > MaxCandidates
    <3>1. PICK n \in 1 .. Len(plan.lanes) :
             plan.lanes[n].stage = stage /\ plan.lanes[n].fields = Fields
      BY <1>1, <2>1, <2>2, LanePlaced
    <3>2. \A i \in stage.required : TermIn(d, i, Fields)
      BY <1>4, <2>2, HeldFound
    <3>3. Matches(d, plan.lanes[n], plan)
      <4>1. ~(stage.minimum > 0) /\ stage.kind # "Exact" /\ stage.kind # "Phrase"
        BY <2>2
      <4>2. \A i \in stage.required : TermIn(d, i, plan.lanes[n].fields)
        BY <3>1, <3>2
      <4>3. \A i \in stage.prefix : ExpandedIn(d, i, plan.lanes[n].fields, plan)
        BY <2>2
      <4> QED BY <3>1, <4>1, <4>2, <4>3, <1>4 DEF Matches
    <3>4. ~IfThin(plan, n)
      BY <3>1, <2>2 DEF IfThin
    <3> QED BY <1>4, <2>1, <3>1, <3>3, <3>4, FoundOrCrowded
  <2>3. CASE Terms \subseteq Useful
    <3>1. /\ AllStage.kind = "AllTerms" /\ AllStage.group = Fields /\ AllStage.minimum = 0
          /\ AllStage.required = Terms /\ AllStage.prefix = {} /\ AllStage.condition = "Always"
      BY DEF AllStage, Stage
    <3>2. AllStage \in Range(Stages(pre))
      BY StagesAre
    <3> QED BY <3>1, <3>2, <2>2, <2>3
  <2>4. CASE ~(Terms \subseteq Useful)
    <3> DEFINE stage == Stage("Partial", "Always", Fields, Relaxed, {}, 0)
    <3>1. Relaxed = Useful /\ Relaxed # {} /\ Relaxed # Terms
      BY <1>0, <1>4, <2>4, RelaxedIs
    <3>2. ~((Terms \ Anchors) \subseteq Useful)
      BY <1>4, <2>4
    <3>3. PartialStage(pre) = <<stage>>
      BY <3>1, <3>2 DEF PartialStage
    <3>4. stage \in Range(PartialStage(pre))
      <4> HIDE DEF stage
      <4>1. Range(<<stage>>) = {stage}
        BY DEF Range
      <4> QED BY <3>3, <4>1
    <3>5. stage \in Range(Stages(pre))
      <4> HIDE DEF stage
      <4> QED BY <3>4, StagesAre
    <3>6. /\ stage.kind = "Partial" /\ stage.group = Fields /\ stage.minimum = 0
          /\ stage.required = Relaxed /\ stage.prefix = {} /\ stage.condition = "Always"
      BY DEF Stage
    <3> HIDE DEF stage
    <3> QED BY <3>1, <3>5, <3>6, <2>2
  <2> QED BY <2>3, <2>4
<1> QED BY <1>3, <1>4

\* What the selected proof says of a candidate.
LEMMA StandardIs ==
    ASSUME ReplayInv, phase = "done"
    PROVE  Standard = WithStandard(found)
<1>1. Evidence(found, Len(plan.lanes), plan)
  BY FinishedIs DEF Turned
<1>2. ASSUME NEW d \in DOMAIN found.candidates
      PROVE  Selected(found.candidates[d]).kind # "PartialCoverage"
               <=> \E pr \in found.candidates[d] : pr.kind # "PartialCoverage"
  <2>1. AreProofs(found.candidates[d]) /\ found.candidates[d] # {}
    BY <1>1 DEF Evidence
  <2> QED BY <2>1, SelectedIsStrongest
<1> QED BY <1>2 DEF Standard, WithStandard

\* The exploratory lanes widen a thin answer.
LEMMA WidenedFromTurns ==
    ASSUME ReplayInv
    PROVE  ThinAnswersWiden
<1> DEFINE SourceCount(S) == Cardinality({Source[d] : d \in S})
<1> SUFFICES ASSUME phase = "done", \E n \in DOMAIN plan.lanes : plan.lanes[n].stage.condition = "IfThin"
             PROVE  IF SourceCount(Standard) < MinSources
                    THEN \/ Full
                         \/ \A d \in request.allowed \ DOMAIN found.candidates :
                                \/ \E i \in Anchors : ~Holds(d, i)
                                \/ \A i \in Terms \ Anchors :
                                      IF i \in DOMAIN plan.prefix THEN ~ExpandedIn(d, i, Fields, plan) ELSE ~Holds(d, i)
                                \/ \E n \in DOMAIN plan.lanes :
                                      /\ plan.lanes[n].stage.condition = "IfThin"
                                      /\ Cardinality({e \in Docs : Matches(e, plan.lanes[n], plan)}) > MaxCandidates
                    ELSE \A d \in DOMAIN found.candidates : d \in Standard
  BY Zenon DEF ThinAnswersWiden
<1>0. request \in Requests
  BY DEF ReplayInv
<1>1. PICK pre : IsPlan(plan, pre)
  BY FinishedIs
<1>2. DOMAIN plan.lanes = 1 .. Len(plan.lanes) /\ DOMAIN plan.prefix = pre /\ pre \subseteq Terms \ Anchors
  BY <1>1 DEF IsPlan
<1>3. HasThin(plan)
  BY <1>2 DEF HasThin, IfThin
<1>4. Decided(found, Len(plan.lanes), plan)
  BY <1>3, FinishedIs DEF Turned
<1>5. Standard = WithStandard(found)
  BY StandardIs
<1>6. CASE ~(SourceCount(Standard) < MinSources)
  <2>1. found.explore \in {"undecided", "no"}
    BY <1>4, <1>5, <1>6 DEF Decided
  <2>2. Standard = DOMAIN found.candidates
    BY <2>1, <1>4, <1>5 DEF Decided
  <2> QED BY <2>2, <1>6
<1>7. CASE SourceCount(Standard) < MinSources
  <2>1. ASSUME ~Full, NEW d \in request.allowed \ DOMAIN found.candidates,
               \A i \in Anchors : Holds(d, i),
               NEW i \in Terms \ Anchors,
               IF i \in DOMAIN plan.prefix THEN ExpandedIn(d, i, Fields, plan) ELSE Holds(d, i)
        PROVE  \E n \in DOMAIN plan.lanes :
                  /\ plan.lanes[n].stage.condition = "IfThin"
                  /\ Cardinality({e \in Docs : Matches(e, plan.lanes[n], plan)}) > MaxCandidates
    <3>1. PICK m \in 1 .. Len(plan.lanes) : IfThin(plan, m)
      BY <1>3 DEF HasThin
    <3>2. found.explore = "yes"
      <4>1. found.explore # "no"
        BY <1>4, <1>5, <1>7 DEF Decided
      <4>2. found.explore # "undecided"
        BY <1>4, <3>1, <2>1 DEF Decided, Full
      <4> QED BY <4>1, <4>2, <1>4 DEF Decided
    <3>3. IsLane(plan.lanes[m], pre) /\ ~Empty(pre)
      BY <1>1, <3>1, PlanRuns
    <3> DEFINE stage == plan.lanes[m].stage
               optional == Terms \ Anchors
               room == MaxPartialTerms - Cardinality(Anchors)
               included == FirstOf(optional \cap Useful, room)
    <3>4. /\ stage \in Range(Stages(pre)) /\ stage.condition = "IfThin" /\ stage.kind = "Partial"
          /\ stage.group = Fields /\ stage \in Range(PartialStage(pre))
      <4>1. stage \in Range(Stages(pre)) /\ stage.condition = "IfThin"
        BY <3>1, <3>3 DEF IsLane, IfThin
      <4> HIDE DEF stage
      <4> QED BY <4>1, StageFields
    <3>5. /\ optional \subseteq Useful
          /\ stage = Stage("Partial", "IfThin", Fields, Anchors \cup (included \ pre), included \cap pre, 1)
      <4> DEFINE always == Stage("Partial", "Always", Fields, Relaxed, {}, 0)
                 thin == Stage("Partial", "IfThin", Fields, Anchors \cup (included \ pre), included \cap pre, 1)
      <4>1. \/ PartialStage(pre) = <<>>
            \/ PartialStage(pre) = <<always>>
            \/ optional \subseteq Useful /\ PartialStage(pre) = <<thin>>
        BY Zenon DEF PartialStage
      <4>2. always.condition = "Always"
        BY DEF Stage
      <4> HIDE DEF stage, always, thin, optional
      <4>3. (\A x : Range(<<x>>) = {x}) /\ Range(<<>>) = {}
        <5>1. \A x : Range(<<x>>) = {x}
          BY DEF Range
        <5>2. Range(<<>>) = {}
          BY DEF Range
        <5> QED BY <5>1, <5>2
      <4>4. stage = thin /\ optional \subseteq Useful
        <5>1. CASE PartialStage(pre) = <<>>
          BY <5>1, <4>3, <3>4
        <5>2. CASE PartialStage(pre) = <<always>>
          <6>1. stage = always
            BY <5>2, <4>3, <3>4
          <6> QED BY <6>1, <4>2, <3>4
        <5>3. CASE optional \subseteq Useful /\ PartialStage(pre) = <<thin>>
          BY <5>3, <4>3, <3>4
        <5> QED BY <4>1, <5>1, <5>2, <5>3
      <4> QED BY <4>4 DEF thin
    <3>6. included = optional
      <4>1. optional \cap Useful = optional
        BY <3>5
      <4>2. /\ optional \in SUBSET Nat /\ IsFiniteSet(optional) /\ Cardinality(optional) \in Nat
            /\ IsFiniteSet(Anchors) /\ Cardinality(Anchors) \in Nat
        <5>1. optional \in SUBSET Terms /\ Anchors \in SUBSET Terms
          BY <1>0, TermsFit
        <5> QED BY <5>1, <1>0, TermsFit
      <4>3. Cardinality(Terms) = Cardinality(Anchors) + Cardinality(optional)
        <5>1. Anchors \cup optional = Terms /\ Anchors \cap optional = {}
          BY <1>0, TermsFit
        <5> HIDE DEF optional
        <5>2. Cardinality(Anchors \cup optional)
                = Cardinality(Anchors) + Cardinality(optional) - Cardinality(Anchors \cap optional)
          BY <4>2, FS_Union
        <5>3. Cardinality(Anchors \cap optional) = 0
          BY <5>1, FS_EmptySet
        <5>4. Cardinality(Terms) = Cardinality(Anchors \cup optional)
          BY <5>1
        <5> QED BY <5>2, <5>3, <5>4, <4>2
      <4>4. Cardinality(Terms) =< MaxPartialTerms /\ MaxPartialTerms \in Nat
        BY <1>0, TermsFit, Bounds
      <4> HIDE DEF optional
      <4>5. room \in Nat /\ Cardinality(optional) =< room
        BY <4>2, <4>3, <4>4
      <4> HIDE DEF room
      <4> QED BY <4>1, <4>2, <4>5, FirstOfAll
    <3>7. /\ stage.required = Anchors \cup (optional \ pre) /\ stage.prefix = optional \cap pre
          /\ stage.minimum = 1
      <4> HIDE DEF included, optional
      <4> QED BY <3>5, <3>6 DEF Stage
    <3>8. PICK n \in 1 .. Len(plan.lanes) :
             plan.lanes[n].stage = stage /\ plan.lanes[n].fields = Fields
      <4> HIDE DEF stage, included, optional, room
      <4>1. stage.kind \in {"AllTerms", "Partial"}
        BY <3>4
      <4> QED BY <1>1, <3>3, <3>4, <4>1, LanePlaced
    <3>9. Exploratory(d, plan.lanes[n], plan)
      <4>1. \A j \in Anchors : TermIn(d, j, Fields)
        BY <2>1, HeldFound
      <4>2. \/ \E j \in stage.required \ Anchors : TermIn(d, j, Fields)
            \/ \E j \in stage.prefix : ExpandedIn(d, j, Fields, plan)
        <5>1. CASE i \in pre
          <6>1. ExpandedIn(d, i, Fields, plan)
            BY <5>1, <2>1, <1>2
          <6> QED BY <6>1, <5>1, <3>7
        <5>2. CASE i \notin pre
          <6>1. TermIn(d, i, Fields)
            BY <5>2, <2>1, <1>2, HeldFound
          <6> QED BY <6>1, <5>2, <3>7
        <5> QED BY <5>1, <5>2
      <4> HIDE DEF stage
      <4> QED BY <4>1, <4>2, <3>8 DEF Exploratory
    <3>10. Matches(d, plan.lanes[n], plan)
      <4>1. stage.minimum > 0 /\ stage.kind # "Exact" /\ stage.kind # "Phrase"
        BY <3>4, <3>7
      <4> HIDE DEF stage
      <4> QED BY <3>8, <3>9, <4>1, <2>1 DEF Matches
    <3>11. d \in Docs /\ plan.lanes[n].stage.condition = "IfThin"
      BY <1>0, <3>4, <3>8, LexicalAssumption
    <3> HIDE DEF stage, included, optional, room
    <3> QED BY <2>1, <3>2, <3>8, <3>10, <3>11, FoundOrCrowded
  <2> QED BY <2>1, <1>7
<1> QED BY <1>6, <1>7

\* Every candidate of every finished search passed the filters and holds the
\* identifiers of the query, and a document that holds all the known words is
\* found while there is room.
THEOREM SearchIsFaithful == SearchSpec => []FaithfulToQuery
  BY ReplayHolds, FaithfulFromTurns, PTL

\* The bounds of the lanes and of the window cost only weaker evidence.
THEOREM StrongestStays == SearchSpec => []StrongestKept
  BY ReplayHolds, StrongestFromTurns, PTL

\* The exploratory lanes run exactly for a thin standard answer.
THEOREM ThinSearchesWiden == SearchSpec => []ThinAnswersWiden
  BY ReplayHolds, WidenedFromTurns, PTL
=============================================================================

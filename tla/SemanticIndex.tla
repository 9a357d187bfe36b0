--------------------------- MODULE SemanticIndex ---------------------------
(***************************************************************************)
(* The vectors beside the lexical index of the desktop profile: the store  *)
(* that is opened (and reset when the embedding profile moved), the second *)
(* half of a reconcile pass that embeds, deletes and retains after the     *)
(* lexical generation is published, and the searches that rank by vectors  *)
(* and take their text from the generation they pinned.                    *)
(*                                                                         *)
(* The two halves of a pass are not atomic: every embedding, every delete  *)
(* and the cleanup fail on their own as a warning, the process may end     *)
(* between any two of them, and it may come back as a newer build whose    *)
(* extractor or embedding profile differs.                                 *)
(***************************************************************************)
EXTENDS Naturals, FiniteSets, FiniteSetsExt

CONSTANTS
    Sources,     \* source keys, numbered in key order
    Contents,    \* what a source can hold
    Chunks,      \* Chunks[c]: the chunk indexes content c is cut into
    Builds,      \* the builds, in order, from 1; an upgrade never goes back
    Format,      \* Format[b]: the format identity of build b
    Profile,     \* Profile[b]: the embedding fingerprint of build b
    Distance,    \* Distance[<<c, i>>]: of chunk i of content c from the query
    Filters,     \* the sources that the filters of a search may admit: sets of sources
    HYBRID_CANDIDATES,
    PageLimit,   \* the hits a search asks for
    Strict,      \* the basis is strict_hash: every source is read by every pass
    MaxEdits,    \* changes of the vault
    MaxFaults,   \* failed loads, reads, publications, embeddings, deletes, and crashes
    None

ASSUME SemanticAssumption ==
    /\ Sources \subseteq Nat /\ IsFiniteSet(Sources)
    /\ 1 \in Builds /\ Builds \subseteq Nat /\ IsFiniteSet(Builds)
    /\ \A c \in Contents : IsFiniteSet(Chunks[c]) /\ Chunks[c] \subseteq Nat
    /\ \A c \in Contents : \A i \in Chunks[c] : Distance[<<c, i>>] \in Nat
    /\ Filters \subseteq SUBSET Sources
    /\ Strict \in BOOLEAN
    /\ {HYBRID_CANDIDATES, PageLimit, MaxEdits, MaxFaults} \subseteq Nat

\* A profile that a build gave up does not come back: the reset of semantic.db is
\* not a transaction, and the fingerprint it goes by is the one it leaves behind.
ASSUME ProfileAssumption ==
    \A a, b, c \in Builds :
        a <= b /\ b <= c /\ Profile[a] = Profile[c] => Profile[a] = Profile[b]

VARIABLES
    disk,      \* the vault: the content of each source, or None
    stamp,     \* stamp[k]: the metadata of source k (size and times) on the disk
    active,    \* the published generation: the text it holds for each source, or None
    seen,      \* seen[k]: the metadata the manifest recorded when it was read
    build,     \* the build that runs
    model,     \* the loader: "none", a step of SemanticStore::open, "ready" or "failed"
    store,     \* semantic.db: fingerprint, chunk_vec exists, source_state, rows
    pass,      \* the reconcile pass that runs
    search,    \* a semantic search
    edits, faults,
    synced,    \* history: the last pass saw the model from its start and nothing in it failed
    calm       \* history: the search ran on a synced store and met no pass

corpus == <<disk, stamp, active, seen>>
vars == <<corpus, build, model, store, pass, search, edits, faults, synced, calm>>

\* What a generation stores of a source: its bytes and the extractor that cut them.
Text(c, b) == [content |-> c, format |-> Format[b]]
Texts == [content : Contents, format : {Format[b] : b \in Builds}]

\* What semantic.db stores of a source: the chunk ids and vectors of a text, under a profile.
Rows == [text : Texts, ids : SUBSET UNION {Chunks[c] : c \in Contents},
         profile : {Profile[b] : b \in Builds}]

ASSUME NoneAssumption ==
    None \notin Contents \cup Texts \cup Rows \cup {Profile[b] : b \in Builds}

\* embedding_source_identity binds the bytes and the format identity.
Identity(text) == text

Chunked(text) == text # None /\ Chunks[text.content] # {}

\* embed_passages: a vector for each chunk of the text.
Embedding(text, b) ==
    [text |-> text, ids |-> Chunks[text.content], profile |-> Profile[b]]

NoSource == [k \in Sources |-> None]
IdlePass == [at |-> "idle", next |-> NoSource, seen |-> [k \in Sources |-> 0],
             offered |-> {}, deletes |-> {}, partial |-> FALSE]
IdleSearch == [at |-> "idle", pinned |-> NoSource, admitted |-> {}, hits |-> {}]

Fault == faults < MaxFaults /\ faults' = faults + 1

-----------------------------------------------------------------------------
(* SemanticStore::open, one statement at a time: nothing here is a transaction. *)

\* Mutant: the new fingerprint is recorded before the vectors of the old one go.
OpenStoreRecordsFirst ==
    /\ model = "none"
    /\ store' = [store EXCEPT !.fingerprint = Profile[build]]
    /\ model' = IF store.fingerprint = Profile[build] THEN "ready"
                ELSE IF store.fingerprint = None THEN "create" ELSE "drop"
    /\ UNCHANGED <<corpus, build, pass, search, edits, faults, synced, calm>>

OpenStore ==
    /\ model = "none"
    /\ model' = IF store.fingerprint = Profile[build] THEN "ready"
                ELSE IF store.fingerprint = None THEN "create" ELSE "drop"
    /\ UNCHANGED <<corpus, build, store, pass, search, edits, faults, synced, calm>>

\* DROP TABLE chunk_vec: no row of chunk_map has its vector any more.
DropVectors ==
    /\ model = "drop"
    /\ store' = [store EXCEPT !.table = FALSE, !.rows = NoSource]
    /\ model' = "unmap"
    /\ UNCHANGED <<corpus, build, pass, search, edits, faults, synced, calm>>

\* DELETE FROM chunk_map: rows that have lost their vectors go.
ClearMap ==
    /\ model = "unmap"
    /\ model' = "clear"
    /\ UNCHANGED <<corpus, build, store, pass, search, edits, faults, synced, calm>>

\* DELETE FROM source_state.
ClearState ==
    /\ model = "clear"
    /\ store' = [store EXCEPT !.state = NoSource]
    /\ model' = "create"
    /\ UNCHANGED <<corpus, build, pass, search, edits, faults, synced, calm>>

CreateTable ==
    /\ model = "create"
    /\ store' = [store EXCEPT !.table = TRUE]
    /\ model' = "record"
    /\ UNCHANGED <<corpus, build, pass, search, edits, faults, synced, calm>>

RecordFingerprint ==
    /\ model = "record"
    /\ store' = [store EXCEPT !.fingerprint = Profile[build]]
    /\ model' = "ready"
    /\ UNCHANGED <<corpus, build, pass, search, edits, faults, synced, calm>>

\* The model does not load, or a statement fails: a warning, and no second attempt
\* in this process.
LoadFails ==
    /\ model \notin {"ready", "failed"}
    /\ Fault
    /\ model' = "failed"
    /\ UNCHANGED <<corpus, build, store, pass, search, edits, synced, calm>>

-----------------------------------------------------------------------------
(* A reconcile pass. *)

\* Sources whose vectors are not those of the text the generation holds.
Backfill ==
    {k \in Sources : Chunked(active[k]) /\ store.state[k] # Identity(active[k])}

\* The sources a pass has to read: under metadata_audit those that are new, whose
\* metadata is not the recorded one, or whose vectors are not those of their text.
\* The audit and the watcher may add others.
MustRead ==
    {k \in Sources : disk[k] # None /\
        \/ Strict
        \/ active[k] = None
        \/ seen[k] # stamp[k]
        \/ model = "ready" /\ k \in Backfill}

\* Observe and plan.  A source that cannot be read keeps what the generation holds.
Observe ==
    /\ pass.at = "idle"
    /\ \E more \in SUBSET {k \in Sources : disk[k] # None},
          failed \in SUBSET {k \in Sources : disk[k] # None} :
         LET read == (MustRead \cup more) \ failed
             next == [k \in Sources |->
                        IF disk[k] = None THEN None
                        ELSE IF k \in read THEN Text(disk[k], build) ELSE active[k]]
         IN  /\ Strict => more = {}
             /\ failed \subseteq MustRead \cup more
             /\ failed # {} => Cardinality(failed) = 1 /\ Fault
             /\ failed = {} => UNCHANGED faults
             /\ pass' = [at |-> "planned",
                         next |-> next,
                         seen |-> [k \in Sources |->
                                     IF k \in read THEN stamp[k] ELSE seen[k]],
                         offered |-> {k \in read : Chunked(next[k])},
                         deletes |-> {k \in Sources : next[k] # active[k]},
                         partial |-> failed # {} \/ model # "ready"]
    /\ calm' = FALSE
    /\ UNCHANGED <<corpus, build, model, store, search, edits, synced>>

\* Mutant: a pass that changes no source returns before the semantic half.
PublishOrReturn ==
    /\ pass.at = "planned"
    /\ active' = pass.next /\ seen' = pass.seen
    /\ synced' = FALSE
    /\ pass' = IF model = "ready" /\ pass.next # active THEN [pass EXCEPT !.at = "embed"]
               ELSE IdlePass
    /\ UNCHANGED <<disk, stamp, build, model, store, search, edits, faults, calm>>

\* Publish and install when anything changed, then look whether there is a model.
Publish ==
    /\ pass.at = "planned"
    /\ active' = pass.next /\ seen' = pass.seen
    /\ synced' = FALSE
    /\ pass' = IF model = "ready" THEN [pass EXCEPT !.at = "embed"] ELSE IdlePass
    /\ UNCHANGED <<disk, stamp, build, model, store, search, edits, faults, calm>>

PublishFails ==
    /\ pass.at = "planned"
    /\ pass.next # active
    /\ Fault
    /\ pass' = IdlePass
    /\ UNCHANGED <<corpus, build, model, store, search, edits, synced, calm>>

\* embed_and_replace_source short-circuits on the identity it has recorded.
Skip(k) == store.state[k] = Identity(pass.next[k])

\* Embed the next offered source, in key order.
Embed ==
    /\ pass.at = "embed" /\ pass.offered # {}
    /\ LET k == Min(pass.offered)
       IN  /\ store' = IF Skip(k) THEN store
                       ELSE [store EXCEPT !.state[k] = Identity(pass.next[k]),
                                          !.rows[k] = Embedding(pass.next[k], build)]
           /\ pass' = [pass EXCEPT !.offered = @ \ {k}, !.deletes = @ \ {k}]
    /\ UNCHANGED <<corpus, build, model, search, edits, faults, synced, calm>>

\* The embedder or the transaction fails: the source keeps the rows it had.
EmbedFails ==
    /\ pass.at = "embed" /\ pass.offered # {}
    /\ Fault
    /\ LET k == Min(pass.offered)
       IN  /\ ~Skip(k)
           /\ pass' = [pass EXCEPT !.offered = @ \ {k}, !.deletes = @ \ {k}, !.partial = TRUE]
    /\ UNCHANGED <<corpus, build, model, store, search, edits, synced, calm>>

Forget(keys) ==
    [store EXCEPT !.state = [k \in Sources |-> IF k \in keys THEN None ELSE @[k]],
                  !.rows  = [k \in Sources |-> IF k \in keys THEN None ELSE @[k]]]

Delete ==
    /\ pass.at = "embed" /\ pass.offered = {} /\ pass.deletes # {}
    /\ LET k == Min(pass.deletes)
       IN  \/ /\ store' = Forget({k})
              /\ pass' = [pass EXCEPT !.deletes = @ \ {k}]
              /\ UNCHANGED faults
           \/ /\ Fault
              /\ pass' = [pass EXCEPT !.deletes = @ \ {k}, !.partial = TRUE]
              /\ UNCHANGED store
    /\ UNCHANGED <<corpus, build, model, search, edits, synced, calm>>

Stale == {k \in Sources : store.state[k] # None /\ pass.next[k] = None}

\* Mutant: the cleanup is left to the deletes of the plan.
RetainNothing ==
    /\ pass.at = "embed" /\ pass.offered = {} /\ pass.deletes = {}
    /\ synced' = ~pass.partial
    /\ pass' = IdlePass
    /\ UNCHANGED <<corpus, build, model, store, search, edits, faults, calm>>

\* retain_sources, the last thing a pass does; a failure leaves the rest.
Retain ==
    /\ pass.at = "embed" /\ pass.offered = {} /\ pass.deletes = {}
    /\ \/ /\ store' = Forget(Stale)
          /\ synced' = ~pass.partial
          /\ UNCHANGED faults
       \/ /\ Stale # {}
          /\ Fault
          /\ \E done \in SUBSET Stale : done # Stale /\ store' = Forget(done)
          /\ synced' = FALSE
    /\ pass' = IdlePass
    /\ UNCHANGED <<corpus, build, model, search, edits, calm>>

-----------------------------------------------------------------------------
(* search_semantic_with_generation: pin, then neighbours and text. *)

Pin ==
    /\ search.at = "idle"
    /\ model = "ready"
    /\ \E admitted \in Filters :
         search' = [search EXCEPT !.at = "pinned", !.pinned = active, !.admitted = admitted]
    /\ calm' = (synced /\ pass.at = "idle")
    /\ UNCHANGED <<corpus, build, model, store, pass, edits, faults, synced>>

\* The vectors of the store: the source, the place in it and the text each was made from.
Stored(rows) ==
    UNION {{[source |-> k, id |-> i, text |-> rows[k].text] : i \in rows[k].ids} :
           k \in {j \in Sources : rows[j] # None}}

Far(v) == Distance[<<v.text.content, v.id>>]

\* ORDER BY distance, chunk_id.
Before(u, v) ==
    \/ Far(u) < Far(v)
    \/ Far(u) = Far(v) /\ u.source < v.source
    \/ Far(u) = Far(v) /\ u.source = v.source /\ u.id < v.id

Depth == IF HYBRID_CANDIDATES < PageLimit THEN PageLimit ELSE HYBRID_CANDIDATES

\* MATCH with k = Depth: of vectors at one distance the store may take any.
Nearest(near, all) ==
    /\ near \subseteq all
    /\ Cardinality(near) <= Depth
    /\ near = all \/ Cardinality(near) = Depth
    /\ \A u \in near, v \in all \ near : Far(u) <= Far(v)

\* A chunk id that the generation does not hold, or whose source the filters exclude,
\* is dropped.  The id names the source and the place in it, never the text.
Held(v, generation, admitted) ==
    /\ v.source \in admitted
    /\ generation[v.source] # None
    /\ v.id \in Chunks[generation[v.source].content]

\* truncate
First(S, n) == {v \in S : Cardinality({u \in S : Before(u, v)}) < n}

\* Mutant: the page is cut before the filters and the generation have dropped theirs.
PageCutFirst(near, generation, admitted) ==
    {v \in First(near, PageLimit) : Held(v, generation, admitted)}

Page(near, generation, admitted) ==
    First({v \in near : Held(v, generation, admitted)}, PageLimit)

\* The store is asked once; hydrate reads the generation that was pinned.
Neighbours ==
    /\ search.at = "pinned"
    /\ \E near \in SUBSET Stored(store.rows) :
         /\ Nearest(near, Stored(store.rows))
         /\ search' = [search EXCEPT !.at = "done",
                                     !.hits = Page(near, search.pinned, search.admitted)]
    /\ UNCHANGED <<corpus, build, model, store, pass, edits, faults, synced, calm>>

Answer ==
    /\ search.at = "done"
    /\ search' = IdleSearch
    /\ calm' = FALSE
    /\ UNCHANGED <<corpus, build, model, store, pass, edits, faults, synced>>

-----------------------------------------------------------------------------
(* The vault and the process. *)

\* A write may leave the metadata as it was.
Edit(k) ==
    /\ edits < MaxEdits
    /\ edits' = edits + 1
    /\ \E c \in Contents \cup {None}, m \in {stamp[k], stamp[k] + 1} :
         /\ c # disk[k]
         /\ c = None => m = stamp[k]
         /\ disk' = [disk EXCEPT ![k] = c]
         /\ stamp' = [stamp EXCEPT ![k] = m]
    /\ UNCHANGED <<active, seen, build, model, store, pass, search, faults, synced, calm>>

\* The daemon ends and starts again, perhaps as a newer build: the manager's open
\* evicts what another extractor produced, before the generation is searchable.
Restart ==
    /\ Fault
    /\ \E b \in Builds :
         /\ b >= build
         /\ build' = b
         /\ active' = [k \in Sources |->
                         IF active[k] # None /\ active[k].format # Format[b] THEN None
                         ELSE active[k]]
    /\ model' = "none"
    /\ pass' = IdlePass
    /\ search' = IdleSearch
    /\ synced' = FALSE /\ calm' = FALSE
    /\ UNCHANGED <<disk, stamp, seen, store, edits>>

-----------------------------------------------------------------------------

Init ==
    /\ disk \in [Sources -> Contents]
    /\ active = NoSource
    /\ stamp = [k \in Sources |-> 0] /\ seen = [k \in Sources |-> 0]
    /\ build = 1
    /\ model = "none"
    /\ store = [fingerprint |-> None, table |-> FALSE, state |-> NoSource, rows |-> NoSource]
    /\ pass = IdlePass
    /\ search = IdleSearch
    /\ edits = 0 /\ faults = 0
    /\ synced = FALSE /\ calm = FALSE

Loader ==
    OpenStore \/ DropVectors \/ ClearMap \/ ClearState \/ CreateTable \/ RecordFingerprint
Pass == Observe \/ Publish \/ PublishFails \/ Embed \/ EmbedFails \/ Delete \/ Retain
Search == Pin \/ Neighbours \/ Answer

Next ==
    \/ Loader \/ LoadFails \/ Pass \/ Search
    \/ \E k \in Sources : Edit(k)
    \/ Restart

\* The loader runs once per process, and goes on unless it fails; the watcher's safety interval starts a pass
\* again and again, and a pass that runs goes on.
Fairness == WF_vars(Loader) /\ WF_vars(Pass)

Spec == Init /\ [][Next]_vars /\ Fairness

-----------------------------------------------------------------------------
(* Properties. *)

\* Every variable has its type.
TypeOK ==
    /\ disk \in [Sources -> Contents \cup {None}]
    /\ active \in [Sources -> Texts \cup {None}]
    /\ stamp \in [Sources -> Nat] /\ seen \in [Sources -> Nat]
    /\ build \in Builds
    /\ model \in {"none", "drop", "unmap", "clear", "create", "record", "ready", "failed"}
    /\ store.fingerprint \in {Profile[b] : b \in Builds} \cup {None}
    /\ store.table \in BOOLEAN
    /\ store.state \in [Sources -> Texts \cup {None}]
    /\ store.rows \in [Sources -> Rows \cup {None}]
    /\ pass.at \in {"idle", "planned", "embed"}
    /\ pass.next \in [Sources -> Texts \cup {None}] /\ pass.seen \in [Sources -> Nat]
    /\ pass.offered \subseteq {k \in Sources : Chunked(pass.next[k])}
    /\ pass.deletes \subseteq Sources
    /\ search.at \in {"idle", "pinned", "done"}
    /\ edits \in 0..MaxEdits /\ faults \in 0..MaxFaults

\* Once SemanticRuntime::open has returned, the hash that
\* embed_and_replace_source skips on is the identity of the very text the stored
\* vectors were made from, under the running profile: a crash inside the reset,
\* inside a pass, or an upgrade leaves no hash without its vectors.
SkipIsSound ==
    model = "ready" =>
        /\ store.table
        /\ store.fingerprint = Profile[build]
        /\ \A k \in Sources :
             store.rows[k] = IF store.state[k] = None THEN None
                             ELSE Embedding(store.state[k], build)

\* After a pass that saw the model and had no warning every source of the generation
\* that has chunks has the vectors of its present text, and no source outside the
\* generation has any, whatever failed in earlier passes or earlier processes.  (A
\* source of the generation that has lost all its chunks may keep old vectors, when
\* the delete of that pass failed: nothing looks for them later.)
SyncedVectors ==
    synced /\ model = "ready" /\ pass.at # "embed" =>
        \A k \in Sources :
            /\ Chunked(active[k]) =>
                 store.rows[k] # None /\ store.rows[k].text = active[k]
            /\ active[k] = None => store.rows[k] = None

\* What a search of the generation could be answered with: each chunk with its text.
Passages(generation, admitted) ==
    {v \in [source : admitted, id : UNION {Chunks[c] : c \in Contents}, text : Texts] :
        /\ generation[v.source] = v.text
        /\ v.id \in Chunks[v.text.content]}

\* A search that meets no pass answers with the nearest chunks that its filters
\* admit, each ranked by a vector of the very text it is answered with: no chunk it
\* leaves out is nearer than a hit, and it leaves one out only when the page is full,
\* or when more vectors than the over-fetch has room for are of no use to it, because
\* the filters exclude them or the generation no longer holds them.
CalmSearchIsExact ==
    search.at = "done" /\ calm =>
        LET passages == Passages(search.pinned, search.admitted)
        IN  /\ search.hits \subseteq passages
            /\ \A v \in passages \ search.hits :
                 /\ \A h \in search.hits : Far(h) <= Far(v)
                 /\ \/ Cardinality(search.hits) >= PageLimit
                    \/ Cardinality(Stored(store.rows) \ passages) > Depth - PageLimit

\* A write the metadata does not show: under metadata_audit only the audit finds it.
Unnoticed(k) ==
    ~Strict /\ disk[k] # None /\ active[k] # None /\ seen[k] = stamp[k]

CaughtUp ==
    \A k \in Sources :
        /\ active[k] = (IF disk[k] = None THEN None ELSE Text(disk[k], build)) \/ Unnoticed(k)
        /\ Chunked(active[k]) => store.state[k] = Identity(active[k])

\* The vectors follow the vault: once edits and faults are over, the generation is
\* the vault as far as the metadata shows, and every source with chunks has the
\* vectors of its text, for good, unless the loader of the last process failed, which
\* nothing retries.
VectorsCatchUp == <>[](model = "failed") \/ <>[](model = "ready" /\ CaughtUp)
=============================================================================

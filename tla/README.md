# A verification project for kwiry

kwiry searches vaults of notes. A daemon (Rust, `daemon/`) keeps an index of the
registered vaults on disk and answers searches over HTTP; an Obsidian plugin
(TypeScript, `clients/obsidian/`) talks to the daemon or, without one, indexes
the open vault in a worker of its own. This directory holds TLA+ models of the
parts of that system that keep state or decide something hard, the TLC runs that
check them on small instances and TLAPS proofs of the properties that matter
most. Paths below are relative to `src/`; `core` stands for
`daemon/crates/kwiry-core/src`, `kwiry` for `daemon/crates/kwiry/src` and
`obsidian` for `clients/obsidian/src`.

## The system

| Part | State it keeps | Operations | What makes it correct |
|---|---|---|---|
| Data root (`core/generation.rs`, `core/state.rs`) | `generations/<id>`, staging directories, `current.json`, `daemon.lock` | lock, prepare (clean, recover), stage, publish, prune, read | a crash at any step leaves a complete generation behind the pointer; what was acknowledged survives; users of an old generation keep it for a while |
| Rolling audit (`core/reconcile.rs`) | a cursor | select sources within a budget | every settled source is read again |
| Desktop index manager (`core/runtime.rs`, `reconcile.rs`, `manifest.rs`, `walk.rs`, `chunk.rs`) | manifest rows, index documents, the served generation | open, full or scoped pass, shutdown | manifest and index agree; a quiet pass serves what the files hold; nothing is removed because something failed; nothing of another build is served |
| OpenClast index manager (`core/runtime.rs`, `partition.rs`) | the same, split in one partition per resource (vault and room) | the same | no document is in a partition whose registration it was not read under |
| Semantic store (`core/semantic.rs`) | vectors and a hash per source, the embedding fingerprint | open and reset, embed, delete, retain, nearest neighbours | a recorded hash has its vectors; a pass without failure leaves the vectors of the generation; the rest is caught up |
| Search, ranking, query (`core/search.rs`, `ranking.rs`, `query.rs`) | none beyond the generation they read | lexical, semantic and hybrid search | the answer depends on the notes and not on the segments; bounds cut the weakest evidence; it is about the query |
| Daemon tasks (`kwiry/watcher.rs`, `runtime.rs`, `server.rs`) | pending batch, event channel, command queue, shared status | notifications, debounce, safety tick, boot, semantic backfill, config reload | no change is lost on the way to the index; "current" is honest; the index is that of the configuration in use |
| Setup and service (`kwiry/setup`, `kwiry/service`, `core/config.rs`, `bootstrap.rs`, `auth.rs`) | `config.toml`, token, service definition, `setup.lock` | plan, execute, probe, service commands, `vault add` | an ok report is true; an interrupted setup can be run again; what is not kwiry's is left alone |
| Obsidian backend manager and search session (`obsidian/backend-manager.ts`, `search-session.ts`) | active backend, epochs, the pending and the sent query | activate, dispose, search, change of mode | backends never overlap; the last activation wins; late answers are stale; every search settles |
| Obsidian cache (`obsidian/cache/local-cache-store.ts`, `backends/in-plugin-index-controller.ts`) | images and pointers of generations and checkpoints, `writer.lock` | save, load, quarantine, discard, prune | a save that was acknowledged can be loaded; a load is not overtaken by retention |
| Extraction and formats (`core/formats/`, `extract.rs`) | none | prepare a source | (pure functions) |
| Worker session, index engine, user interface (`obsidian/worker`, `main.ts`) | requests in flight, an SQLite database | build, apply changes, search | (not modelled) |

The watcher, the boot sequence and the semantic loader send commands to one
manager actor over a bounded queue and wait for its answers; the actor runs one
pass at a time. A pass reads the vaults, plans the next manifest and index
against the generation the manager last installed, publishes them through the
data root, installs them in the search runtime and then brings the vectors up to
date. All three tasks write the shared status record, from which the freshness of
every answer is computed. `kwiry setup` writes the configuration the daemon
watches and drives the service manager that starts it. The plugin replaces one
backend by another on a change of settings; several windows of a vault share one
cache directory.

What is hard here: processes that share a directory; crashes and power losses
between the steps of a publication; files that change between being listed,
read and compared; vaults that are unavailable for a while; registrations that
change at such a time; notifications that are lost, coalesced or come while the
pass they cause is running; four tasks that overwrite one status; plans made
before the lock is taken; the second half of a pass failing after the first was
published; promises that resolve in another order than they were made; budgets,
windows and queues at their limit. `PROJECT.json` lists these hazards at their
lines.

## Modules

| Module | Models |
|---|---|
| `DataRoot` | the data root, its writers and readers, I/O errors, process death, power loss |
| `GenerationRegister` | what a data root promises: a register that moves forward while the machine is up and that no power loss takes back behind an acknowledgement |
| `DataRootProofs` | theorems about `DataRoot` |
| `AuditBudget` | the rolling audit |
| `DesktopIndex` | a full pass of the desktop manager, step by step, over files that change |
| `DesktopProofs` | theorems about `DesktopIndex` and `AuditBudget` |
| `OpenClastIndex` | passes of the OpenClast manager over partitions and registrations |
| `OpenClastIndexProofs` | theorems about `OpenClastIndex` |
| `SemanticIndex` | the vectors beside the lexical index: the store, the second half of a pass, semantic searches |
| `LexicalSearch` | one lexical search, from the words of the query to the ranked hits |
| `SearchProofs` | theorems about `SemanticIndex` and `LexicalSearch` |
| `Daemon` | the tasks of the running daemon and the way of a change to the index |
| `DaemonProofs` | theorems about `Daemon` |
| `Setup` | `kwiry setup` and `kwiry service`, both service managers and the daemon they start |
| `SetupProofs` | theorems about `Setup` |
| `PluginClient` | the plugin's backend manager and search session |
| `PluginClientProofs` | theorems about `PluginClient` |
| `CacheStore` | the windows of a vault on one cache directory |
| `CacheStoreProofs` | theorems about `CacheStore` |
| `MC*` | the instances for TLC |

The modules are layers. `DesktopIndex`, `OpenClastIndex` and `SemanticIndex`
publish in one step because `DataRoot` implements the register; `Daemon` lets a
pass bring the sources it read up to date because `DesktopIndex` converges;
`Setup` has a daemon that boots, serves and reloads because `Daemon` adopts the
configuration; `PluginClient` makes sure that one window has one backend, and
`CacheStore` has one store per window for that reason.

### DataRoot

A generation id is its position in the order of issue; `Stamp` is the clock
reading by which the code orders names. For every directory and for the pointer
there is a live value (`entry`, `tree`, `ptr`) and the set of values a power loss
may leave (`durEntry`, `durTree`, `durPtr`): an unsynced change adds to the set,
a sync reduces it to the live value, `PowerLoss` chooses from it. `sync_tree`,
`fs::rename`, `sync_directory`, the two halves of `write_json_atomic` and the
pruning of `publish_inner` are actions of their own; each may fail
(`PublishFails`), and the process may be killed between any two (`Kill`).
`acquire_writer_lock` is `AcquireLock`, `RemoveAbandonedStaging` and one of
`KeepActive`, `KeepIncompatible`, `RecoverPointer`, `ForgetPointer`. Readers
resolve the pointer and open the generation later. `ForeignPointer` is
a `current.json` that was damaged or written by another build; it ends what this
build promised about its own publications (`acked` is reset). `up` says whether the
machine has power, so that the abstract register can tell the one step that may take
it back, `PowerLoss`, from all the others.

### AuditBudget

`Select` is `AuditBudget::select` with its loop, `Visit` the vaults of a pass in
configuration order over one budget. The candidates stay the same while a round
is measured: the question is whether the rotation reaches all of them.

### DesktopIndex

Files have a content, whose size is `SizeOf`, and an mtime. `BeginPass`,
`VisitVault`, `Discover` or `DiscoverFails`, one `Ingest...` per source and
`Publish`, `Install` are the steps of `DesktopIndexManager::reconcile`; between
any two, files are written and deleted, vaults come and go, the configuration is
edited and the clock ticks. `MustRead` is `plan_observation`, `Reingest`
`plan_source`, `Retained` the three ways a row is kept without being seen. `Open`
evicts the rows another build made (`Adopted`). `quiet`, `gone` and `fresh` are
history variables for the properties.

### OpenClastIndex

One pass is one action, `Reconcile`, that chooses what its scan found. A
registration is a path and a room; a resource is a vault and a room (the tenant
never changes and is folded into the room). `ReconcileNotInstalled` publishes
without installing, as an error of the open after the publication does.

### SemanticIndex

`store` is `semantic.db`: the fingerprint, whether the vector table exists, the
hash and the vectors of each source. `SemanticStore::open` is one action per
statement (`OpenStore`, `DropVectors`, `ClearMap`, `ClearState`, `CreateTable`,
`RecordFingerprint`), since nothing there is a transaction; `LoadFails` ends the loader
at any of them, for the rest of the process. `Observe` and `Publish` are the lexical
half of a pass, `Embed`, `Delete` and `Retain` the other, each with its failure. `stamp`
is the metadata of a file and `seen` what the manifest recorded of it: under
metadata_audit a pass has to read only what is new, differs in it or wants vectors
(`MustRead`); the audit and the watcher may add others. `Pin`, `Neighbours` and `Answer`
are a search: `Neighbours` takes the `HYBRID_CANDIDATES` nearest vectors (or as many as
the page is long), of those at one distance any, drops what the filters or the pinned
generation exclude and cuts what is left to `PageLimit`. A vector is the text it was
made from and the profile that made it; how far it is from the query is the constant
`Distance`. `Restart` ends the process anywhere and brings it back as the same or a
newer build. `synced` and `calm` are history variables.

### LexicalSearch

`Resolve` probes the words of the query and makes the plan (`Promoted` anchors,
`Expansions` of prefixes, the `Stages` and their `Lanes`), `ExecuteLane` runs the
next lane (`LaneHits`, `RunLane`), `Rank` orders the candidates by their best
proof. `SearchInit` chooses the texts of the chunks, the segment each lies in, and
the query. Words are numbers in dictionary order, so that a prefix scan is over an
interval of them; scores are a constant of the chunk, since BM25 is the engine's.
Two fields stand for the eight of the schema. A query has at most `MaxPartialTerms`
words: the parser rejects longer ones (`query.rs`, where both limits are 128).

### Daemon

`stale` is the set of sources whose file the index does not hold. An edit of a
watched source puts a notification into `kernel`; `Deliver` moves it to the
bounded channel or, when that is full, sets `overflow`. `Receive`,
`AbsorbOverflow`, `RejectConfig`, `StartBatch` and `SafetyTick` are the branches
of the watcher's `select!`, `PendingPaths` is the record `pending` with its
`Insert`, `NoteRescan`, `TakeScope` and `MergeBack`. The manager reads its
sources one at a time (`VisitSource`), so that an edit can fall before or after
the read. `BootReadModel` and `BootWrite` are two actions because the code takes
the status lock twice. A daemon may come up over any offline changes, under
metadata_audit also over those that kept size and mtime (`silent`). `noticed`, `known`,
`offline` and `unread` are history variables; a source whose read failed stays in
`known` and `offline` and is in `unread` as well, and the properties name the exception.

### Setup

`Plan` takes the snapshot and makes the plan (`PlanSetup`), without the lock;
`Lock` takes `setup.lock`; `Register`, `SetSemantic`, `Bootstrap` and `Mint`,
`BuildIndex`, `Inspect` and then the three steps of installing a systemd unit
(`WriteUnit`, `ReloadManager`, `EnableUnit`) or the one of a task (`CreateTask`),
`StartService`, `RestartService` and `CheckReadiness` are the actions of the executor.
Each may fail (`StepFails`, `ReloadFails` with its restoration of the unit), and the
process may be killed (`Killed`). `ServiceInstall` to `IndexCommand` are the other
commands of the program. `service install` and `uninstall` keep what they found in `op`
from the inspection (`ServiceInspects`) over stopping (`UninstallStops`) and replacing
(`ServiceReplaces`) to the reload and its restoration (`ServiceReloads`), and may fail or
be killed at each (`ServiceFails`). `ForeignUnit` is a unit of the user's own, which
appears or takes the place of Kwiry's at any time; the history variable `exposed` says
that it came after the inspection of a command still at work. The daemon is the record
`daemon`: it bootstraps, mints a token, boots, reloads, loads its model, crashes.

### PluginClient

An action is what runs between two awaits. `Activate` is `activate` up to its
first await, `MakeBackend`, `InitializeFails`, `Initialized` and `CleanedUp` its
continuations; `Dispose`, `DisposePending`, `Disposed` are `dispose` of the manager.
`life` says of each backend whether it runs, is closing or has ended; `dispose` of an
in-plugin backend returns at its grace deadline at the latest, and its store is then
"lingering" until `StoreCloses`. `Search`, `SetMode`, `CloseWindow`, `Due` (the debounce
timer), `Answers` and `SearchFails` are the search session. `Daemons` are the
activations whose backend is the daemon: its requests may hang (`Hangs`, `hung`), since
`requestUrl` has no timeout. The others work with a Worker that may fail and be
replaced (`WorkerFails`); the request it had is then `lost` and rejected as "disposed",
which the session reports as stale. `cause` is a history variable that records why a
search lost its claim to be shown.

### CacheStore

An image file is named by its slot: the generation identifier, or for a checkpoint
its digest, which is the number of the put that made it. `ptr` and `image` are the
live files, `durPtr` and `synced` what a power loss may bring back. The lock is
`TryCreate`, `Inspect`, `Takeover`, `Recreate` and `Release`, for `acquireLock` is
five file operations that other windows can get between. A put is `BeginPut`,
`RenameImage`, `SyncImages`, `RenamePointer`, `SyncPointer`, `Prune`; a start is
`Load`, `LoadImage` or `Unlink`, then `Resume`, `ResumeImage`, with the clean-up
jobs they lead to (`Quarantine`, `Discard`, `DropCheckpoint`, `DropInvalid`).
Clean-ups remove the pointer first and are one action. Where `syncs` is FALSE, on
win32, `syncDirectory` returns without an effect and the sets of what a power loss
may leave only grow. The sync after the pointer may fail anywhere, and the put is
acknowledged all the same. A pointer may be another vault's (left alone), and the
controller may refuse an image that is sound, for its version or its source
policy. `Fresh` is `allocateFreshGeneration`: every session counts from one, past
the identifier it restored, so two windows give out the same identifiers. `acked`,
`firm` (the pointer of the acknowledged save was synced), `grace` and `intruded`
are history variables.

## Runs

| Run | Checks | Bounds |
|---|---|---|
| `data_root` | `PointerSound`, `StagingOwned`, `DurableAck`, `NoRollback`, `RetentionGrace`, `RetainsPredecessors`, refinement `ImplementsRegister` | 2 writers, 1 reader, 4 generations, 3 retained, a corrupt or incompatible pointer: the fourth publication is the first that prunes |
| `audit_budget` | `AuditBound` | all lists of up to 5 sources in one vault or 3 + 3 in two, of two lengths, limits 1 to 3, any start |
| `desktop_strict` | `Converged`, `RemovedOnlyWhenGone` | strict_hash, 2 sources in a vault, 2 contents, one of them without chunks |
| `desktop_metadata` | `Converged`, `ManifestIndexAgree`, `ServedByThisBuild` | metadata_audit, 1 source, 3 contents of 2 sizes (one without chunks, one the preparation rejects), 2 registrations, 2 builds, 3 clock values |
| `openclast` | `NoOrphanDocument`, `NoForeignDocument` | 1 vault, 1 source, 2 paths, 2 rooms, 2 builds |
| `semantic` | `SkipIsSound`, `SyncedVectors`, `CalmSearchIsExact`, `VectorsCatchUp` | 2 sources, 3 contents (one without chunks), 3 builds that change the extractor or the embedding profile, 1 edit that the metadata may not show, 2 failures or restarts, 3 candidates, a page of 2, 2 filters |
| `search` | `RebuildRanksTheSame`, `StrongestKept`, `ThinAnswersWiden`, `FaithfulToQuery` | every index of 4 chunks in 2 partitions over 6 texts, 2 segment layouts, 8 queries; windows of 3, scans of 2, so that all of them overflow |
| `daemon_steady` | `ChangeIsTracked`, `CurrentIsHonest`, `ConfigHeld`, `HintsSuffice`, `ConfigAdopted` | a booted daemon, 2 sources, 3 configurations (one needs a restart) and an invalid one, 3 changes, 1 failure, channel and batch of 1 |
| `daemon_safety` | `OfflineChangesFirst`, `Settles` | metadata_audit, first build or reopened generation over any offline changes, semantic loader, 1 source, 1 change, 1 failure, 1 backend rescan |
| `setup` | `UniqueIds`, `OkServesRequest`, `CleanStartSucceeds`, `ForeignKept` | 2 setups for one vault id and two paths, 3 runs, 2 other commands or foreign units, 2 failures or kills, both service managers |
| `plugin` | `OneBackendAtATime`, `AtRest`, `ShownIsCurrent`, `EverySearchSettles` | 3 activations, the second of a daemon, 2 searches, 1 change of mode, 2 failures or hung requests, the unloading at any point |
| `cache` | `AckedLoadable`, `ReaderGrace` | 2 windows, 2 sessions, 3 puts, 2 identifiers, 1 fault, 2 retained, with and without synced directories |

Why the bounds are enough: the retention count is the code's and one more
generation is issued than it keeps; two writers are all the lock can tell apart;
two sources let one be seen while the other is not, and fill a batch or a
channel of one; two registrations, rooms and builds let something be given back
after it was taken away; three builds let a second upgrade find what an
interrupted first one left. Three activations let one be superseded while it
waits for another that is superseded too. Three puts of two identifiers reuse an
identifier and make retention remove an image, and two sessions let a window
load what another has saved or is saving, or start again after a kill. Three
candidates of up to four vectors fill the over-fetch of a semantic search with
vectors of excluded sources. The code's capacities (1024
events, 4096 paths, the windows, scans and lanes of a search) are constants, so
that their limits are reached. `MaxEdits`, `MaxFaults`, `MaxRescans`,
`MaxCommands`, `MaxRuns`, `MaxPuts`, `MaxNames`, `MaxOpens`, `MaxActivations`,
`MaxSearches` and `MaxModes` bound the environment and the history, never what the
program does with them. Permutations of writers, readers, sources or windows are
declared symmetric in runs that check no liveness.

A larger instance was run once, and passed: `setup` with three other commands (9.5
million states). The inductive invariants of the proofs were checked by TLC, as
invariants of these instances, before they were proved.

Deadlock is checked in every run but four. In `setup`, `plugin` and `cache` the
behaviours end when the bounded numbers of runs, calls and sessions are used up
and everybody is at rest; a search of `search` ends with its answer.

All modules but `LexicalSearch` and `PluginClient` define a `TypeOK`. No cfg lists
it, since a type says little about the code; it is a theorem (`TypeCorrect`) of every
module with proofs, and TLC has checked that of `AuditBudget`. The types of
`LexicalSearch` and `PluginClient` are parts of their inductive invariants.

### Fairness

`HintFairness` in `Daemon`: the notification back end delivers, the manager
thread goes on with the pass it has begun, a task whose answer has come runs. The
watcher's `select!` polls its branches in random order, so a branch that is ready
again and again is taken: strong fairness for receiving, for the overflow flag
and for starting a batch. The safety tick has no fairness in `Spec`, so
`HintsSuffice` and `ConfigAdopted` do not lean on it; `SafetySpec` adds it, since
`tokio::time::interval` fires for ever. In `AuditBudget`, `WF` of the full pass is
the same interval, and so is that of `Pass` in `SemanticIndex`, where the loader,
which every process spawns once, goes on too unless it fails; nothing retries it, and
`VectorsCatchUp` excepts a last process whose loader failed. In `PluginClient` timers
fire, and a request ends: a Worker's by the deadline of its RPC, a daemon's only if it
does not hang, which is a fault of the environment that `EverySearchSettles` excepts.
Nothing is said of the manager, or of the user, who may never search or close the
window.

## What the passing runs show

- The order stage, sync, rename, sync, pointer, sync, prune is right: leaving out
  any sync breaks a property (the mutants of `data_root` do so).
- Recovery never adopts a generation that is not complete, and no
  interrupted publication makes it fall behind an acknowledged one.
- A pass over files that change under it never mixes old rows with new documents,
  and failures retain what was served.
- After a change of registration, nothing read under the old one is answered in
  the partition of another, whatever was unavailable at the time.
- A notified change survives overflow, escalation, failed passes and races with
  the pass that reads it, as long as the configuration is valid.
- The four statements that reset the vector store are in the right order: a crash
  between any two leaves no hash without its vectors (the mutant that records the
  fingerprint first does). Whatever failed, one pass without a failure makes lexical
  and semantic index agree on every source that has chunks or is gone.
- A semantic search that meets no pass gives the nearest admitted chunks; only vectors
  that are of no use to it can cost it a hit, when they fill the over-fetch.
- While the machine is up the active generation only moves forward, whatever fails or
  is killed; only a power loss takes it back, and not behind an acknowledgement.
- The hits of a search do not depend on how the notes are spread over segments,
  although the prefix scan is bounded per segment; a bound never costs a document
  its place in favour of weaker evidence.
- Two setups whose plans are both stale cannot register one id twice, an ok
  report is true of the vault and its path, and a run that is left alone and
  launches the service succeeds after any earlier failure. A unit of the user's own is
  lost only if it appears between the inspection and the last step of a command.
- Chains of activations that overtake each other leave one backend, and the awaits
  in them are all needed. A query is called stale only when something superseded it, its
  backend was replaced or the Worker that had it failed.
- A cache that a power loss hit in the middle of a save still restores what was
  saved before, where its directories can be synced and were; a load that saw an old
  state does not clean up a new one.

## Seen with the same models, and not kept as runs

Statements of the repository that the models do not bear out. The definitions and
the cfgs are still here for whoever wants to see the counterexample:

- `MCAuditBudgetVaults.cfg`, `AuditedAgain`. `docs/vertical-2.md:149` concludes from
  the rotating cursor that "a content change that preserves size and mtime is still
  caught without a watcher hint"; the vaults share one budget in configuration
  order (`reconcile.rs:170`), so a first vault as large as the budget leaves the
  others unaudited for ever.
- `MCOpenClastIndexWithheld.cfg`, `IndexedIsSearchable`. `generation.rs:534`: content
  "is deliberately withheld until the registration can be verified and reindexed". If
  the old registration is back before a pass could read the sources, row,
  registration and content agree again, nothing is indexed anew and the content
  stays withheld (`reconcile.rs:310`).
- `MCDaemonBootFresh.cfg`, `BootMissesNothing`. `docs/vertical-2.md:171`: "there are no
  offline changes a moments-old build could have missed"; the first build skips the
  boot pass (`server.rs:253`) and reads before any watch is armed, so a note edited
  meanwhile is served as current until the safety pass.
- `MCDaemonBackfill.cfg`, `ConfigHeld`. `docs/vertical-2.md:175`: "The daemon watches the
  config and applies registration diffs"; the backfill of the semantic loader runs
  with the configuration of the start (`server.rs:408`) and undoes one that was
  applied since, until the next pass.
- `MCSetupResume.cfg`, `RerunResumes`. `docs/setup.md:106`: "rerun the same `kwiry setup`
  command; setup recomputes the plan and resumes safely". The
  snapshot takes a service that is active for a daemon that is ready
  (`main.rs:535`): after a daemon that came up without its index, the plan of the
  rerun holds no restart, only the probe that fails again.

Under other constants, or with a property stated without its premise:

- With a `Stamp` that steps back (a clock set back between two publications),
  `RetainsPredecessors` fails: the new generation sorts first and
  `prune_generations` removes every predecessor.
- With sources so large that the byte budget ends before the source budget, the
  cursor returns to its place (`reconcile.rs:189`) and `AuditedAgain` fails for the
  skipped source.
- A vault with a file above the size limit has a defective enumeration, and no
  deletion is inferred in it while the file is there (the disjunct with
  `Oversized` in `Converged`); a test shows that this is meant.
- `BootMissesNothing` also fails for a reopened generation: `spawn_watcher` returns
  before its task has armed the watches.
- During the boot, `CurrentIsHonest` fails: serve overwrites a status the watcher
  has marked dirty (`server.rs:276`). In the same way a model identity set between
  `BootReadModel` and `BootWrite` is lost (`server.rs:380`).
- With a backend rescan, `ConfigAdopted` fails: only the overflow flag makes the
  watcher reload the configuration (`watcher.rs:279`).
- Under metadata_audit, `ChangeIsTracked` fails when a batch is escalated to a full
  pass, for the paths that forced a read are cleared (`watcher.rs:83`).
- Vectors: `SkipIsSound` fails when a profile that was given up comes back (builds
  with profiles p1, p2, p1, against `ProfileAssumption`). The reset in
  `SemanticStore::open` is not a transaction (`semantic.rs:177`): killed after it has
  dropped the vectors, it leaves the fingerprint of p1 and the hashes, and a build with
  p1 takes them for its own.
- Vectors: a source that has no chunks any more and whose delete fails keeps its
  vectors, since later passes take them for those of a known source (`SyncedVectors`
  and `CaughtUp` are about sources with chunks or without a row). `Builds` only go
  up: an older build after a crash inside the reset is not covered. A chunk id does
  not depend on the content, so a search during a pass may rank a body by the vector
  of its previous text; hence `calm` in `CalmSearchIsExact`.
- Vectors: filters apply after the over-fetch (`runtime.rs:246`), so a search for a small
  part of a large vault may find nothing although there are matching chunks; the last
  disjunct of `CalmSearchIsExact` is that case. A loader that fails is not retried
  (`server.rs:415`): the vectors stand still until the daemon is restarted.
- The boot pass cannot see an offline change that kept size and mtime under
  metadata_audit, and a failed read fails the source and not the pass: in both cases the
  daemon says current over the change. These are the exceptions of
  `OfflineChangesFirst` and `CurrentIsHonest` (`silent`, `unread`).
- Search: word support, prefix expansions and the metadata probe are computed over
  the whole index, without the filters of the request; a lane's bound counts documents
  that are candidates already; with a scan bound of 1 the answer would depend on the
  segments (the assumption `MaxScan >= 2`; the code has 256); equal scores in one
  partition are ordered by the engine's ordinal.
- Setup: a unit that was written and whose `enable` failed is never enabled by a
  rerun, and a crash between the rename of the unit and `daemon-reload` leaves the
  manager on the old definition, for only the file is compared; two setups with
  stale snapshots can both report ok with a semantic preference that is not the
  recorded one (`OkServesRequest` says nothing of "off"); a daemon that came up
  without an index is not restarted by a setup that finds the vault registered; two
  processes can mint a token at once (`auth.rs:53`) and the daemon then runs with one
  that is not in the file, which the probe notices; start and restart on Linux do not
  look whose unit it is. A unit of the user's own that appears between the inspection
  and the write, the removal or the restoration after a failed reload is lost
  (`linux.rs:193`, `206`, `276`; `windows.rs:147`, `158`, `241`): `ForeignKept` without
  `exposed` fails.
- Plugin: a second `dispose` of a backend returns at once while the first still
  waits, which the chain of awaits makes harmless; when `dispose` of the active
  backend rejects, `dispose` of the manager ends without waiting for the pending
  activation. After the failure of a Worker the query it had is shown as stale although
  it is what the user last asked (`search-session.ts:253`), and nothing asks it again. A
  daemon that does not answer keeps the session in flight for ever, and later queries
  are not sent (`daemon-backend.ts:117`). The store of a disposed in-plugin backend may
  still be closing when the next backend starts (`in-plugin-lexical-backend.ts:265`).
  The proof shows that the branches of an activation that dispose of a
  previous or a late backend never meet a live one: they are defensive.
- Cache: with two faults, a put that is killed between the rename and the sync of the
  pointer leaves a pointer that a power loss may bring back; a later put under the same
  identifier overwrites its image, and the save the pointer names is lost. Only the
  attempt at a proof showed this: `firm` now ends there too.
- Cache: on win32, and when the optional sync after the commit fails, a save is
  acknowledged that the next power loss may take back (`local-cache-store.ts:876`, `1001`).
- Cache: the windows of a vault give out the same identifiers. A put of the current
  identifier replaces the image before the pointer is renamed, so a crash in between
  costs the cached generation (length or digest say so, a stale image is never
  restored); `quarantine` compares identifiers only, the removal of a corrupt pointer
  takes no lock (`local-cache-store.ts:666`), and the `discard` that follows every miss
  is unconditional: each can remove what another window has saved in the meantime.
  `acquireLock` takes a lock that is gone for a stale one and unlinks the path
  (`local-cache-store.ts:1056`), which can by then be the lock of a third window.
  All of these cost a rebuild and are the exceptions `AckedLoadable` names. Checkpoints
  are compared by digest and have none of them. A lock held by a live writer for
  more than 15 minutes, as over a suspend, would be taken over too; the model has no
  such writer.

## Proofs

Every theorem holds for all values of the constants that meet the named ASSUMEs of its
module; TLC evaluates those in every run. Most properties are not inductive. Each proof
module states the strengthening it needs first, then one lemma per action or group of
actions, then the theorems. The type invariants are theorems of their modules
(`TypeCorrect`).

**`DataRootProofs`**: any number of writers, readers and generations, any retention
count, any foreign pointer.

- `PointerAlwaysSound`, `StagingAlwaysOwned`. `PublicationInv` adds that whoever is past
  the lock holds it (`LockInv`), that the live file system is one a power loss may leave
  (`DiskInv`), and how far the candidate of a writer is at each step (`CandidateInv`):
  flushed before it is renamed, durable before the pointer names it, the pointer synced
  before pruning.
- `AcknowledgedDurable`, `NeverRolledBack`. `DurabilityInv` says that while the pointer
  validates, its generation is durable, and that when a power loss brought back a pointer
  whose generation is gone, every generation that validates is durable and one of them is
  new enough.
- `RootIsRegister`, the refinement of `GenerationRegister`: every step but a power loss and
  a foreign write leaves the active generation or replaces it by a newer one. `PointerInv`
  says which generations an unsynced pointer may bring back: without it a power loss could
  take the register behind its floor, and a recovery could be a step backwards.
- `UsersHaveGrace`, `PruningRetains`. `GraceInv` counts the successors of a generation in
  use. That the generations retention keeps are as many as `Retained` says is shown by
  counting (ranks are an injection into an interval), since an induction over the number
  of generations is out of the provers' reach.

All but the first two assume `MonotoneClock`: names sort in the order of issue. The code
takes names from the clock and does not enforce it; without it `prune_generations` removes
the wrong directories (see above).

**`DesktopProofs`**: any vaults, sources, contents, registrations and builds.

- `ManifestAndIndexAgree`, `OnlyThisBuildServed`, from `AgreementInv`: every generation a
  later step may build on agrees with its rows, the manager serves its own base, and the
  rows of a running manager are of its build. `PlanAgrees` is the heart:
  `reconcile_source` replaces documents exactly when the row changes.
- `QuietPassConverges`, `NothingRemovedInError`. `PassInv` holds whatever happens during a
  pass: the pass knows where the outcome of every source comes from, and a source that
  looks absent was absent or lies in a vault it does not trust. `QuietInv` adds what it
  knows as long as nothing moved: what was listed and read is what is there. `FreshInv`
  carries the result from the end of the pass to the next change.
- `AuditBounded`: any number of candidates, any source limit, any starting cursor. The age
  of a candidate alone is not inductive, since the next pass may or may not reach it.
  `RotationInv` adds how far the candidate is ahead of the cursor: age times limit plus
  distance stays below the number of candidates, and a full pass that does not read a
  candidate brings the cursor closer by the whole limit (`WalkTakes`, `SelectTakes`: a
  budget whose bytes cannot bind takes the next candidates in order and stops where the
  next pass starts). With several vaults the bound is false (see above); where
  bytes bind, a candidate that does not fit is passed over and waits for another round.

**`OpenClastIndexProofs`**: `DocumentsHaveRows`, `OnlyThisRegistrationAnswers`.
`RegistrationInv` says of the disk and of the served index that every document was read
under the registration its row names (`Sound`), and that once a configuration was adopted
all documents are of that one. The eviction at open is what makes an upgrade keep it.

**`SearchProofs`**, about the vectors: any sources, contents, builds and profiles.

- `HashesHaveVectors`, `PassLeavesVectors`, `CalmSearches`. For the last, a calm store
  covers every chunk of the pinned generation (`Covers`), and counting shows that the
  nearest `Depth` vectors, less those of no use, fill the page or hold every admitted
  chunk (`NearestPage`). `StoreInv` says what each
  statement of the reset finds and what a crash between two of them leaves to every build
  that may still come; `PassInv` that what is still to be embedded is in the offer of the
  pass and that no delete takes what it embedded. `ProfileAssumption` (a profile that was
  given up does not come back) is needed: without it `SkipIsSound` is false (see above).

About the lexical search: any number of chunks, partitions and words, any segment layout,
any texts and queries, any bounds. The inductive invariant is `ReplayInv`: what was found so
far is what replaying the turns of the loop so far leaves, from the plan that the texts and
the query give. What a finished search found is then shown by an induction over its turns
(`Turned`): every candidate has evidence from a lane it matches (`Evidence`); a document
that a lane offered and that is no candidate was crowded out of that lane or met a window
that lanes no weaker had filled (`Missed`); and the decision to explore was about the whole
standard answer (`Decided`).

- `RebuildSearchesTheSame`: the bounded reading of every segment's dictionary gives the
  first words of all dictionaries (`Cut`, `CutParts`: the first n of a set are found in
  any division of it whose parts are cut at n), and the bounded collectors of the partitions
  give the best of all matching chunks (`LaneHitsAre`). So the plan and every turn are
  functions of the texts, and two layouts replay alike.
- `StrongestStays`: the lanes are sorted by what their evidence is worth (`LanesAre`), so a
  window filled early is filled with evidence no weaker; `SelectedIsStrongest` carries that
  from the proofs of a candidate to the one it is ranked by.
- `ThinSearchesWiden`, `SearchIsFaithful`: `MatchHolds` says what a match means for the words
  of a chunk, and the lanes that would have found a missing document are exhibited.

**`DaemonProofs`**: any capacity of channel and batch, any number of sources and
configurations. `Base` orders the traffic: one command per client, queued, running or
answered, and the watcher's is the one it remembers.

- `NoChangeLost` (with strict_hash; `ShownChangesTracked` says the same of metadata_audit
  for changes that size or mtime shows).
- `StaleBeforeBoot`, without a hypothesis: `OfflineInv` says that while a change from before
  the start is not indexed, was not read in vain and shows in size or mtime, no pass has
  succeeded.
- `CurrentHonest`, from a daemon that has booted and with strict_hash: during the boot it is
  false, and metadata_audit cannot see every edit.
- `ConfigurationHeld`, without backfill and boot pass, which run with the configuration of
  the start; with them it is false.

**`SetupProofs`**: any number of setups and commands. `IdsStayUnique`, `ForeignUnitsKept`,
`OkIsHonest`. `SetupInv` says that a plan ends with the probe and, as long as the vault is
not registered, begins with the registration, although both were decided before the lock
was taken; that a daemon knows registered vaults only (`KnownInv`), of which `UniqueIds`
leaves one for an id; and that one command at a time is past its inspection and keeps a
unit of Kwiry's or none to put back (`OpInv`, `UnitInv`), so that a foreign unit in its way
came after it had looked (`exposed`).
`UndisturbedStartSucceeds`: `ServedInv` says that no daemon runs where there is no unit, so
that a plan that installs and starts the service found none; `EnabledInv` that Task Scheduler has
Kwiry's task enabled or not at all; `CleanInv` says what an undisturbed run has done or has
still in its plan before the launch, the definition included, so that the launch itself
cannot fail, and that afterwards the daemon that comes up has read the configuration as it
is.

**`PluginClientProofs`**: any number of activations and searches. `BackendsNeverOverlap`,
`LastActivationWins`, `OnlyCurrentAnswersShown`. `ManagerInv`: activations settle in the
order in which they were made (`OrderInv`), only the backend of the last one is live
(`ActiveInv`), and somebody awaits every backend that is closing (`ClosingInv`).
`SessionInv`: the request in flight is current and has kept its Worker exactly when `cause`
names nothing.

**`CacheStoreProofs`**: any number of windows, saves, identifiers, sessions and faults.
`AckedStaysLoadable`, `ReadersHaveGrace`. `CacheInv` holds until a takeover removes the lock
of a live writer (`intruded`), which ends both promises: writers exclude each other, a put
that nothing has voided has its image in place, and synced where that is possible, before
the pointer names it (`PutInv`), the pointer of an acknowledged save has its image, and if
the save is firm every pointer a power loss may bring back has it too (`Promise`), and a
load without a lock has the current generation or the predecessor the pointer names
(`ReaderInv`). The second theorem needs `Retained > 1`; the code retains two.

Every safety property the runs check is a theorem. Left to TLC is liveness (`HintsSuffice`,
`ConfigAdopted`, `Settles`, `VectorsCatchUp`, `EverySearchSettles`), which needs `ENABLED` and
fairness and is out of the prover's reach. Where a proof goes by induction over data (the
turns of a search, the steps of the audit's loop, the partitions of an index), the induction
is over a set of numbers, by the least one that fails, since the library's induction theorems
take an operator as a parameter.

## Not modelled

- The parsers of the formats and of the query syntax, tokenization, snippets, typo
  repair: functions of character data, outside TLC's reach and better served by the
  repository's own fixtures. So are the entity table of the HTML parser (a quarter of
  the implementation's lines is that table alone) and the wire formats.
- The engines: tantivy behind the documents of a source and the scores, SQLite and its
  WebAssembly build, the embedding model.
- The HTTP surface, logging, prompts and reports, the plugin's user interface.
- In modelled parts: the storage probe and the network file system check of the data
  root, the shutdown of the daemon, scoped passes in `DesktopIndex`, metadata_audit in
  `OpenClastIndex`, hybrid fusion and the rerank preview, signed capabilities, the path
  checks and permissions of the cache store, and of the index controller everything
  but its use of the cache.
- The worker session of the plugin (requests, timeouts, the barrier of long
  operations).

About half of the lines under `daemon/` and `clients/` are that table, tests inside the
source files and the format parsers. `PROJECT.json` gives the reason for each part.

## Plan

1. The worker session and RPC client, and the index controller with its live changes
   and the recovery of the worker, composed with `CacheStore`.
2. Daemon: shutdown behind queued passes; the failed open after a publication
   composed with retention.
3. Proofs: what the new actions of 1 and 2 need; shorter proofs where lemmas repeat each
   other.

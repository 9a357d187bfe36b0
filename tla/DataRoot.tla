------------------------------- MODULE DataRoot -------------------------------
(***************************************************************************)
(* The data root of the kwiry daemon: the directory that holds             *)
(* `generations/`, the pointer `current.json` and the writer lock          *)
(* `daemon.lock` (generation.rs, state.rs).                                *)
(*                                                                         *)
(* Writers (the daemon's index manager, `kwiry index`) exclude each other  *)
(* with the lock and publish immutable generations: stage, validate,       *)
(* flush, rename, flush the directory, replace the pointer, flush the      *)
(* root, prune.  Readers (`kwiry search`) take no lock.  A step may fail   *)
(* with an I/O error, a process may be killed between any two steps, and   *)
(* a power loss keeps of the file system only what was flushed, or what    *)
(* the kernel happened to write back.                                      *)
(*                                                                         *)
(* A generation id is its position in the order of issue; Stamp gives the  *)
(* clock reading its name starts with, by which the code orders names.     *)
(***************************************************************************)
EXTENDS Naturals, FiniteSets

CONSTANTS Writers,   \* processes that take the writer lock
          Readers,   \* processes that only read the pointer
          MaxId,     \* bound on the number of generation ids issued
          Stamp,     \* generation_order of each id
          Retained,  \* RETAINED_GENERATIONS
          Foreign,   \* pointer contents this build did not write
          NoWriter   \* nobody holds the lock

Ids == 1 .. MaxId

None == 0            \* no generation

\* What current.json may hold besides a generation id of this build.
Corrupt == MaxId + 1       \* unreadable, or not a generation id
Incompatible == MaxId + 2  \* another layout or index format version

ASSUME DataRootAssumption ==
  /\ MaxId \in Nat \ {0}
  /\ Retained \in Nat \ {0}
  /\ NoWriter \notin Writers
  /\ Foreign \subseteq {Corrupt, Incompatible}
  /\ Stamp \in [Ids -> Nat]
  /\ \A i, j \in Ids : i # j => Stamp[i] # Stamp[j]

VARIABLES
  issued,    \* ids issued so far
  entry,     \* entry[i]: where the directory of generation i is
  durEntry,  \* durEntry[i]: where a power loss may leave it
  tree,      \* tree[i]: "whole" when the files of i pass validate()
  durTree,   \* durTree[i]: what a power loss may leave of that
  ptr,       \* what current.json names
  durPtr,    \* what a power loss may leave in current.json
  lock,      \* holder of the exclusive lock on daemon.lock
  pc,        \* pc[w]: the step writer w takes next
  base,      \* base[w]: the generation an open manager works from
  cand,      \* cand[w]: the candidate w builds or publishes
  held,      \* held[r]: the generation reader r resolved the pointer to
  up,        \* whether the machine has power
  acked      \* the last generation whose publish returned Ok, unless
             \* another build replaced the pointer since

files == <<issued, entry, durEntry, tree, durTree>>
pointer == <<ptr, durPtr>>
procs == <<lock, pc, base, cand>>
root == <<issued, entry, durEntry, tree, durTree, ptr, durPtr,
          lock, pc, base, cand, held, acked>>
vars == <<root, up>>

Places == {"absent", "staging", "final"}

Trees == {"partial", "whole"}

Pointers == {None} \cup Ids \cup {Corrupt, Incompatible}

\* Steps of a writer, in the order of the code; the first group runs inside
\* acquire_writer_lock, the last one inside publish.
Preparing == {"clean", "prepare", "syncPrepared"}
Staging   == {"filling", "filled", "flushed"}
Publishing == {"renamed", "generationsSynced", "pointed", "prunePublished"}
Steps == {"idle", "pruneOpened", "ready", "published"}
           \cup Preparing \cup Staging \cup Publishing

\* Every variable stays in its type.
TypeOK ==
  /\ issued \in 0 .. MaxId
  /\ entry \in [Ids -> Places]
  /\ durEntry \in [Ids -> SUBSET Places]
  /\ tree \in [Ids -> Trees]
  /\ durTree \in [Ids -> SUBSET Trees]
  /\ ptr \in Pointers
  /\ durPtr \in SUBSET Pointers
  /\ lock \in Writers \cup {NoWriter}
  /\ pc \in [Writers -> Steps]
  /\ base \in [Writers -> {None} \cup Ids]
  /\ cand \in [Writers -> {None} \cup Ids]
  /\ held \in [Readers -> {None} \cup Ids]
  /\ acked \in {None} \cup Ids
  /\ up \in BOOLEAN

-------------------------------------------------------------------------------
(* What a directory listing and validate() tell about generations.          *)

\* GenerationPaths::validate on generations/<id>.
Valid(i) == entry[i] = "final" /\ tree[i] = "whole"

\* The pointer names a generation that validates: DataRoot::active is Some.
PointerValid == ptr \in Ids /\ Valid(ptr)

\* Mutant of IsNewestValid: the newest directory, validated or not.
NewestDirectory(i) ==
  /\ entry[i] = "final"
  /\ \A j \in Ids : entry[j] = "final" => Stamp[j] <= Stamp[i]

\* The first of valid_generations, sorted by generation_order descending.
IsNewestValid(i) ==
  /\ Valid(i)
  /\ \A j \in Ids : Valid(j) => Stamp[j] <= Stamp[i]

\* Mutant of Predecessors: directories that do not validate take a place.
PredecessorDirectories(a) ==
  {i \in Ids : entry[i] = "final" /\ Stamp[i] < Stamp[a]}

\* The predecessors prune_generations considers for retention, and the ones
\* `take(RETAINED_GENERATIONS - 1)` picks of them.
Predecessors(a) == {i \in Ids : Valid(i) /\ Stamp[i] < Stamp[a]}

\* Mutant of Kept: one predecessor too few.
KeptOneShort(a) ==
  {a} \cup {i \in Predecessors(a) :
              Cardinality({j \in Predecessors(a) : Stamp[j] > Stamp[i]})
                < Retained - 2}

Kept(a) ==
  {a} \cup {i \in Predecessors(a) :
              Cardinality({j \in Predecessors(a) : Stamp[j] > Stamp[i]})
                < Retained - 1}

Removable(a) == {i \in Ids : entry[i] = "final"} \ Kept(a)

-------------------------------------------------------------------------------
Init ==
  /\ issued = 0
  /\ entry = [i \in Ids |-> "absent"]
  /\ durEntry = [i \in Ids |-> {"absent"}]
  /\ tree = [i \in Ids |-> "partial"]
  /\ durTree = [i \in Ids |-> {"partial"}]
  /\ ptr = None
  /\ durPtr = {None}
  /\ lock = NoWriter
  /\ pc = [w \in Writers |-> "idle"]
  /\ base = [w \in Writers |-> None]
  /\ cand = [w \in Writers |-> None]
  /\ held = [r \in Readers |-> None]
  /\ acked = None
  /\ up = TRUE

Goto(w, step) == pc' = [pc EXCEPT ![w] = step]

\* A directory that is removed, or whose removal stopped half way, may or may
\* not be back after a power loss.
Discard(gone, damaged) ==
  /\ entry' = [i \in Ids |-> IF i \in gone THEN "absent" ELSE entry[i]]
  /\ tree' = [i \in Ids |-> IF i \in gone \cup damaged THEN "partial" ELSE tree[i]]
  /\ durTree' = [i \in Ids |-> IF i \in gone \cup damaged
                                  THEN durTree[i] \cup {"partial"}
                                  ELSE durTree[i]]

EntriesUnsynced ==
  durEntry' = [i \in Ids |-> durEntry[i] \cup {entry'[i]}]

\* sync_directory(generations): every entry as it is now is on stable storage.
EntriesSynced ==
  durEntry' = [i \in Ids |-> {entry'[i]}]

\* write_json_atomic up to persist: the temporary was flushed, so a power loss
\* leaves the old pointer or the new one, never a torn one.
PersistPointer(i) ==
  /\ ptr' = i
  /\ durPtr' = durPtr \cup {i}

\* The process is gone or gives up: the lock is released by the kernel or by
\* the drop of DataRootLock.
Release(w) ==
  /\ lock' = NoWriter
  /\ Goto(w, "idle")
  /\ base' = [base EXCEPT ![w] = None]
  /\ cand' = [cand EXCEPT ![w] = None]

-------------------------------------------------------------------------------
(* acquire_writer_lock                                                       *)

\* Mutant of AcquireLock: the error of try_lock_exclusive is ignored.
AcquireAnyway(w) ==
  /\ pc[w] = "idle"
  /\ lock' = w
  /\ Goto(w, "clean")
  /\ UNCHANGED <<files, pointer, base, cand, held, acked>>

\* try_lock_exclusive; Error::LockHeld otherwise.
AcquireLock(w) ==
  /\ pc[w] = "idle"
  /\ lock = NoWriter
  /\ lock' = w
  /\ Goto(w, "clean")
  /\ UNCHANGED <<files, pointer, base, cand, held, acked>>

\* remove_abandoned_staging: the directory is flushed only when an entry was
\* removed.
RemoveAbandonedStaging(w) ==
  LET gone == {i \in Ids : entry[i] = "staging"}
  IN
  /\ pc[w] = "clean"
  /\ Discard(gone, {})
  /\ IF gone # {} THEN EntriesSynced ELSE UNCHANGED durEntry
  /\ Goto(w, "prepare")
  /\ UNCHANGED <<issued, pointer, lock, base, cand, held, acked>>

\* read_current said Valid: only prune_generations is left to do.
KeepActive(w) ==
  /\ pc[w] = "prepare"
  /\ PointerValid
  /\ Goto(w, "pruneOpened")
  /\ UNCHANGED <<files, pointer, lock, base, cand, held, acked>>

\* read_current said Incompatible: prepare_locked leaves everything alone.
KeepIncompatible(w) ==
  /\ pc[w] = "prepare"
  /\ ptr = Incompatible
  /\ Goto(w, "ready")
  /\ UNCHANGED <<files, pointer, lock, base, cand, held, acked>>

\* MissingOrInvalid with a valid generation: point at the newest one.
RecoverPointer(w) ==
  /\ pc[w] = "prepare"
  /\ ~PointerValid
  /\ ptr # Incompatible
  /\ \E i \in Ids : IsNewestValid(i) /\ PersistPointer(i)
  /\ Goto(w, "syncPrepared")
  /\ UNCHANGED <<files, lock, base, cand, held, acked>>

\* MissingOrInvalid without a valid generation: a pointer that exists is
\* removed and the root flushed.
ForgetPointer(w) ==
  /\ pc[w] = "prepare"
  /\ ~PointerValid
  /\ ptr # Incompatible
  /\ \A i \in Ids : ~Valid(i)
  /\ PersistPointer(None)
  /\ Goto(w, IF ptr = None THEN "ready" ELSE "syncPrepared")
  /\ UNCHANGED <<files, lock, base, cand, held, acked>>

\* The flush of the root after either change of the pointer.
SyncPrepared(w) ==
  /\ pc[w] = "syncPrepared"
  /\ durPtr' = {ptr}
  /\ Goto(w, IF ptr = None THEN "ready" ELSE "pruneOpened")
  /\ UNCHANGED <<files, ptr, lock, base, cand, held, acked>>

\* A `?` of remove_abandoned_staging: some entries are gone, unflushed, and
\* the lock is dropped with the error.
RemoveStagingFails(w) ==
  /\ pc[w] = "clean"
  /\ \E gone \in SUBSET {i \in Ids : entry[i] = "staging"} : Discard(gone, {})
  /\ EntriesUnsynced
  /\ Release(w)
  /\ UNCHANGED <<issued, pointer, held, acked>>

\* Any later `?` inside acquire_writer_lock.
PrepareFails(w) ==
  /\ pc[w] \in {"prepare", "syncPrepared"}
  /\ Release(w)
  /\ UNCHANGED <<files, pointer, held, acked>>

\* prune_generations(active): best effort.  Of the directories not kept, any
\* may be removed, half removed (a live reader, an I/O error) or skipped, and
\* the result of the final flush is ignored.
PruneGenerations ==
  \E gone \in SUBSET Removable(ptr) :
    \E damaged \in SUBSET (Removable(ptr) \ gone) :
      /\ Discard(gone, damaged)
      /\ IF gone = {} THEN UNCHANGED durEntry
                      ELSE EntriesSynced \/ EntriesUnsynced

PruneOpened(w) ==
  /\ pc[w] = "pruneOpened"
  /\ PruneGenerations
  /\ Goto(w, "ready")
  /\ UNCHANGED <<issued, pointer, lock, base, cand, held, acked>>

-------------------------------------------------------------------------------
(* The manager, and candidates                                               *)

\* DesktopIndexManager::open / OpenClastIndexManager::open take the active
\* generation as the one to work from.
OpenActive(w) ==
  /\ pc[w] = "ready"
  /\ base[w] = None
  /\ PointerValid
  /\ base' = [base EXCEPT ![w] = ptr]
  /\ UNCHANGED <<files, pointer, lock, pc, cand, held, acked>>

\* create_candidate (build_index, base = None) and create_candidate_from,
\* whose source.validate() refuses a base that is gone.
CreateCandidate(w) ==
  /\ pc[w] = "ready"
  /\ base[w] # None => Valid(base[w])
  /\ issued < MaxId
  /\ issued' = issued + 1
  /\ entry' = [entry EXCEPT ![issued + 1] = "staging"]
  /\ durEntry' = [durEntry EXCEPT ![issued + 1] = {"absent", "staging"}]
  /\ cand' = [cand EXCEPT ![w] = issued + 1]
  /\ Goto(w, "filling")
  /\ UNCHANGED <<tree, durTree, pointer, lock, base, held, acked>>

\* The caller writes index and manifest; every file of it is still unflushed.
FillCandidate(w) ==
  /\ pc[w] = "filling"
  /\ tree' = [tree EXCEPT ![cand[w]] = "whole"]
  /\ durTree' = [durTree EXCEPT ![cand[w]] = Trees]
  /\ Goto(w, "filled")
  /\ UNCHANGED <<issued, entry, durEntry, pointer, lock, base, cand, held, acked>>

\* The copy or the update failed: the staging directory is removed, best effort.
AbandonCandidate(w) ==
  /\ pc[w] = "filling"
  /\ \/ Discard({cand[w]}, {}) /\ EntriesUnsynced
     \/ UNCHANGED <<entry, durEntry, tree, durTree>>
  /\ cand' = [cand EXCEPT ![w] = None]
  /\ Goto(w, "ready")
  /\ UNCHANGED <<issued, pointer, lock, base, held, acked>>

-------------------------------------------------------------------------------
(* publish_inner                                                             *)

\* Mutant of SyncTree: validated but not flushed.
SkipSyncTree(w) ==
  /\ pc[w] = "filled"
  /\ tree[cand[w]] = "whole"
  /\ Goto(w, "flushed")
  /\ UNCHANGED <<files, pointer, lock, base, cand, held, acked>>

\* candidate_paths.validate()?; sync_tree(staging)?
SyncTree(w) ==
  /\ pc[w] = "filled"
  /\ tree[cand[w]] = "whole"
  /\ durTree' = [durTree EXCEPT ![cand[w]] = {"whole"}]
  /\ Goto(w, "flushed")
  /\ UNCHANGED <<issued, entry, durEntry, tree, pointer, lock, base, cand, held, acked>>

RenameCandidate(w) ==
  /\ pc[w] = "flushed"
  /\ entry' = [entry EXCEPT ![cand[w]] = "final"]
  /\ EntriesUnsynced
  /\ Goto(w, "renamed")
  /\ UNCHANGED <<issued, tree, durTree, pointer, lock, base, cand, held, acked>>

\* Mutant of SyncGenerations: the rename is not flushed.
SkipSyncGenerations(w) ==
  /\ pc[w] = "renamed"
  /\ Goto(w, "generationsSynced")
  /\ UNCHANGED <<files, pointer, lock, base, cand, held, acked>>

SyncGenerations(w) ==
  /\ pc[w] = "renamed"
  /\ UNCHANGED entry
  /\ EntriesSynced
  /\ Goto(w, "generationsSynced")
  /\ UNCHANGED <<issued, tree, durTree, pointer, lock, base, cand, held, acked>>

WritePointer(w) ==
  /\ pc[w] = "generationsSynced"
  /\ PersistPointer(cand[w])
  /\ Goto(w, "pointed")
  /\ UNCHANGED <<files, lock, base, cand, held, acked>>

\* Mutant of SyncRoot: the replaced pointer is not flushed.
SkipSyncRoot(w) ==
  /\ pc[w] = "pointed"
  /\ Goto(w, "prunePublished")
  /\ UNCHANGED <<files, pointer, lock, base, cand, held, acked>>

SyncRoot(w) ==
  /\ pc[w] = "pointed"
  /\ durPtr' = {ptr}
  /\ Goto(w, "prunePublished")
  /\ UNCHANGED <<files, ptr, lock, base, cand, held, acked>>

\* prune_generations, then Ok: the caller knows the publication is done.
PrunePublished(w) ==
  /\ pc[w] = "prunePublished"
  /\ PruneGenerations
  /\ acked' = cand[w]
  /\ Goto(w, "published")
  /\ UNCHANGED <<issued, pointer, lock, base, cand, held>>

\* Any `?` of publish_inner: what was done so far stays on disk, the candidate
\* is forgotten and a manager goes on with its base.
PublishFails(w) ==
  /\ pc[w] \in {"filled", "flushed", "renamed", "generationsSynced", "pointed"}
  /\ cand' = [cand EXCEPT ![w] = None]
  /\ Goto(w, "ready")
  /\ UNCHANGED <<files, pointer, lock, base, held, acked>>

\* The published generation is opened and becomes the manager's base.
InstallPublished(w) ==
  /\ pc[w] = "published"
  /\ base' = [base EXCEPT ![w] = cand[w]]
  /\ cand' = [cand EXCEPT ![w] = None]
  /\ Goto(w, "ready")
  /\ UNCHANGED <<files, pointer, lock, held, acked>>

\* SearchIndex::open failed after publish: base stays behind the pointer.
InstallFails(w) ==
  /\ pc[w] = "published"
  /\ cand' = [cand EXCEPT ![w] = None]
  /\ Goto(w, "ready")
  /\ UNCHANGED <<files, pointer, lock, base, held, acked>>

\* prepare(), the end of build_index, and shutdown of a manager.
Close(w) ==
  /\ pc[w] = "ready"
  /\ Release(w)
  /\ UNCHANGED <<files, pointer, held, acked>>

-------------------------------------------------------------------------------
(* Readers, failures and the environment                                     *)

\* DataRoot::active succeeds; the reader opens the index in its own time.
ReadPointer(r) ==
  /\ held[r] = None
  /\ PointerValid
  /\ held' = [held EXCEPT ![r] = ptr]
  /\ UNCHANGED <<files, pointer, procs, acked>>

FinishRead(r) ==
  /\ held[r] # None
  /\ held' = [held EXCEPT ![r] = None]
  /\ UNCHANGED <<files, pointer, procs, acked>>

\* The process dies between two steps; the file system stays.
Kill(w) ==
  /\ pc[w] # "idle"
  /\ Release(w)
  /\ UNCHANGED <<files, pointer, held, acked>>

\* Every process dies and the file system keeps only what it had flushed, or
\* happened to write back.
PowerLoss ==
  /\ up /\ up' = FALSE
  /\ entry' \in [Ids -> Places]
  /\ \A i \in Ids : entry'[i] \in durEntry[i]
  /\ tree' \in [Ids -> Trees]
  /\ \A i \in Ids : tree'[i] \in durTree[i]
  /\ durEntry' = [i \in Ids |-> {entry'[i]}]
  /\ durTree' = [i \in Ids |-> {tree'[i]}]
  /\ ptr' \in durPtr
  /\ durPtr' = {ptr'}
  /\ lock' = NoWriter
  /\ pc' = [w \in Writers |-> "idle"]
  /\ base' = [w \in Writers |-> None]
  /\ cand' = [w \in Writers |-> None]
  /\ held' = [r \in Readers |-> None]
  /\ UNCHANGED <<issued, acked>>

\* The machine boots; what runs on it starts when it likes.
Restart ==
  /\ ~up /\ up' = TRUE
  /\ UNCHANGED root

\* Another build, or an operator, replaced current.json while no writer runs:
\* what this build acknowledged before is no longer its to keep.
ForeignPointer ==
  /\ lock = NoWriter
  /\ \E p \in Foreign : ptr' = p /\ durPtr' = {p}
  /\ acked' = None
  /\ UNCHANGED <<files, procs, held>>

WriterStep(w) ==
  \/ AcquireLock(w) \/ RemoveAbandonedStaging(w)
  \/ KeepActive(w) \/ KeepIncompatible(w) \/ RecoverPointer(w)
  \/ ForgetPointer(w) \/ SyncPrepared(w)
  \/ RemoveStagingFails(w) \/ PrepareFails(w)
  \/ PruneOpened(w) \/ OpenActive(w)
  \/ CreateCandidate(w) \/ FillCandidate(w) \/ AbandonCandidate(w)
  \/ SyncTree(w) \/ RenameCandidate(w) \/ SyncGenerations(w)
  \/ WritePointer(w) \/ SyncRoot(w) \/ PrunePublished(w)
  \/ PublishFails(w) \/ InstallPublished(w) \/ InstallFails(w)
  \/ Close(w) \/ Kill(w)

ReaderStep(r) == ReadPointer(r) \/ FinishRead(r)

Running ==
  \/ \E w \in Writers : WriterStep(w)
  \/ \E r \in Readers : ReaderStep(r)
  \/ ForeignPointer

Next ==
  \/ up /\ UNCHANGED up /\ Running
  \/ PowerLoss
  \/ Restart

Spec == Init /\ [][Next]_vars

-------------------------------------------------------------------------------
(* Properties                                                                *)

\* A generation no power loss can take away any more.
Durable(i) == durEntry[i] = {"final"} /\ durTree[i] = {"whole"}

\* The staging directory a writer fills or publishes is never cleaned away as
\* abandoned by another process that starts meanwhile.
StagingOwned ==
  \A w \in Writers : pc[w] \in Staging => entry[cand[w]] = "staging"

\* Once prepare_locked is done, and through every failed or interrupted
\* publication after it, a pointer of this build names a complete generation:
\* active() never refuses what a writer left behind.
PointerSound ==
  \A w \in Writers :
    pc[w] \notin {"idle", "clean", "prepare"} /\ ptr \in Ids => Valid(ptr)

\* What publish acknowledged survives a power loss at any later moment: a
\* complete generation at least as new as it is on stable storage, whatever
\* failed publications, prunings and recoveries came in between.
DurableAck ==
  acked # None => \E i \in Ids : i >= acked /\ Durable(i)

\* No restart is taken back behind an acknowledged publication: every pointer
\* a power loss can leave is at least as new.
NoRollback ==
  acked # None => \A p \in durPtr : p \in Ids /\ p >= acked

\* A generation that somebody still uses (a reader that resolved the pointer,
\* a manager whose base is behind) disappears only when Retained complete
\* generations issued after it are there to be opened instead.
Grace(i) ==
  i # None /\ ~Valid(i) =>
    Cardinality({j \in Ids : j > i /\ Valid(j)}) >= Retained

RetentionGrace ==
  /\ \A w \in Writers : Grace(base[w])
  /\ \A r \in Readers : Grace(held[r])

\* Pruning after a publication never leaves fewer than Retained complete
\* generations behind when it removes one.
RetainsPredecessors ==
  [][\A w \in Writers :
       PrunePublished(w) /\ (\E i \in Ids : Valid(i) /\ ~Valid(i)')
         => Cardinality({i \in Ids : Valid(i)'}) >= Retained]_vars

-------------------------------------------------------------------------------
(* The inductive invariants behind the proofs of DataRootProofs.             *)

\* Mutual exclusion: whoever is past the lock is its holder.
LockInv == \A w \in Writers : pc[w] # "idle" => lock = w

\* What is there now is one of the things a power loss may leave, and an id
\* not issued yet leaves nothing.
DiskInv ==
  /\ \A i \in Ids : entry[i] \in durEntry[i] /\ tree[i] \in durTree[i]
  /\ \A i \in Ids : i > issued => durEntry[i] = {"absent"}
  /\ ptr \in durPtr

\* How far the candidate of a writer has come.
CandidateInv ==
  \A w \in Writers :
    /\ pc[w] \in Staging \cup Publishing \cup {"published"} =>
         cand[w] = issued /\ issued # 0
    /\ pc[w] \in Staging => entry[cand[w]] = "staging"
    /\ pc[w] \in {"flushed", "renamed"} => tree[cand[w]] = "whole" /\ durTree[cand[w]] = {"whole"}
    /\ pc[w] = "renamed" => entry[cand[w]] = "final"
    /\ pc[w] \in {"generationsSynced", "pointed", "prunePublished"} => Durable(cand[w])
    /\ pc[w] \in {"pointed", "prunePublished"} => ptr = cand[w]
    /\ pc[w] = "prunePublished" => durPtr = {ptr}
    /\ pc[w] = "syncPrepared" => ptr \in Ids \cup {None}
    /\ pc[w] = "pruneOpened" => ptr \in Ids

PublicationInv ==
  TypeOK /\ LockInv /\ DiskInv /\ CandidateInv /\ PointerSound

\* The clock never steps back: names sort in the order of issue.
MonotoneClock == \A i, j \in Ids : i < j => Stamp[i] < Stamp[j]

\* While the pointer validates, its generation is the durable one.  When a
\* power loss brought back a pointer whose generation is gone, everything that
\* validates is durable and something new enough does.
DurabilityInv ==
  acked # None =>
    /\ acked <= issued
    /\ \A p \in durPtr : p \in Ids /\ p >= acked
    /\ PointerValid => Durable(ptr)
    /\ ~PointerValid => /\ \A i \in Ids : Valid(i) => Durable(i)
                       /\ \E i \in Ids : i >= acked /\ Valid(i)

\* What current.json may name after a power loss was issued; a candidate is not
\* named before WritePointer; and the only generations a power loss can make
\* active again are the active one and its predecessors.
MayReturn(i) == "final" \in durEntry[i] /\ "whole" \in durTree[i]

PointerInv ==
  /\ \A p \in durPtr \cap Ids : p <= issued
  /\ \A w \in Writers :
       pc[w] \in Staging \cup {"renamed", "generationsSynced"} =>
         cand[w] \notin durPtr
  /\ \A p \in durPtr \cap Ids : MayReturn(p) => PointerValid /\ p <= ptr

\* Whoever uses i is not ahead of the active generation, and what pruning
\* counted on to remove i is still there: Retained generations issued after i,
\* up to the active one.
Successors(i) == {j \in Ids : j > i /\ Valid(j) /\ (ptr \in Ids => j <= ptr)}

Graced(i) ==
  i # None =>
    /\ ptr \in Ids => PointerValid /\ i <= ptr
    /\ ~Valid(i) => Cardinality(Successors(i)) >= Retained

GraceInv ==
  /\ \A w \in Writers : Graced(base[w])
  /\ \A r \in Readers : Graced(held[r])
  /\ \A w \in Writers : pc[w] = "published" => ptr = cand[w]

\* What active() returns, and what of current.json is not this build's.
Active ==
  IF PointerValid THEN ptr ELSE IF ptr \in {Corrupt, Incompatible} THEN Corrupt ELSE None

\* The root implements the register of GenerationRegister: `current` is the
\* generation active() returns, `floor` the last acknowledged one.
Register == INSTANCE GenerationRegister
              WITH Values <- Ids, Taken <- Corrupt, current <- Active, floor <- acked

\* Every step of writers, readers, failures and power losses is a step of the
\* abstract register.  As long as the machine has power and nobody else writes
\* current.json, a generation that was active is never followed by an older one
\* or by none, whatever fails, is killed or starts again; a power loss may take
\* the root back, but never behind the last acknowledged generation.
ImplementsRegister == Register!Spec
===============================================================================

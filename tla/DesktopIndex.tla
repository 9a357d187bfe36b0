---------------------------- MODULE DesktopIndex ----------------------------
(***************************************************************************)
(* The desktop index manager (runtime.rs, DesktopIndexManager): opening a  *)
(* data root, and the reconciliation pass that brings the published        *)
(* generation up to the registered vaults while their files are edited,    *)
(* created and deleted, vaults come and go, registrations change, the      *)
(* daemon is killed and restarted, also as another build.                  *)
(*                                                                         *)
(* A generation is what the manager publishes as one unit: the manifest    *)
(* rows and the index documents, per source.  Publishing is atomic here;   *)
(* module DataRoot shows what that rests on.                               *)
(*                                                                         *)
(* A pass visits one vault at a time: it checks the root, enumerates the   *)
(* sources (name, size and mtime of each, not atomically), decides which   *)
(* ones to read, reads them, and after the last vault plans and publishes  *)
(* the next generation.  File system changes happen between any two steps. *)
(***************************************************************************)
EXTENDS Integers, FiniteSets

CONSTANTS
    Vaults, Sources,
    VaultOf,      \* the vault each source is in
    Contents,     \* what a source can hold
    SizeOf,       \* byte length of each content
    Skipped,      \* contents that are hashed but give no chunks
    Unprepared,   \* contents the preparation rejects, which leave no hash
    Regs,         \* registration fingerprints a vault can have
    Builds,       \* format identities of the builds that may run
    Basis,        \* "strict_hash" or "metadata_audit"
    RacyWindow,   \* in ticks of the clock
    Oversized,    \* vaults that hold a file above MAX_FILE_BYTES
    MaxClock,     \* bound on the clock
    None

ASSUME DesktopAssumption ==
    /\ VaultOf \in [Sources -> Vaults]
    /\ SizeOf \in [Contents -> Nat]
    /\ Skipped \subseteq Contents /\ Unprepared \subseteq Contents
    /\ RacyWindow \in Nat /\ MaxClock \in Nat
    /\ Oversized \subseteq Vaults
    /\ None \notin Contents
    /\ {"unseen", "reused", "transient"} \cap Contents = {}
    /\ Basis \in {"strict_hash", "metadata_audit"}

VARIABLES
    disk,         \* content and mtime of each source, or None
    mounted,      \* vaults whose root is a directory
    config,       \* the configuration: vaults, and the registration of each
    clock,
    build,        \* the running build
    published,    \* the generation current.json names
    base,         \* the manager's own manifest and active generation
    served,       \* the generation the search runtime answers from, or None
    pc,           \* "down", "idle", "pass", "install"
    pass,         \* the pass under way, or None
    quiet,        \* the file system and the reads gave no trouble since it began
    gone,         \* sources that were absent at some time since it began
    fresh         \* nothing happened since a quiet pass finished

world == <<disk, mounted, config, clock>>
ghosts == <<quiet, gone, fresh>>
vars == <<world, build, published, base, served, pc, pass, ghosts>>

Files == [content : Contents, mtime : 0 .. MaxClock]
Rows == [content : Contents, mtime : 0 .. MaxClock, reg : Regs, identity : Builds]
Documents == [content : Contents, reg : Regs, identity : Builds]
Generations == [rows : [Sources -> Rows \cup {None}],
                index : [Sources -> Documents \cup {None}]]
Configs == [vaults : SUBSET Vaults, reg : [Vaults -> Regs]]

\* None stands for nothing, which is no file, row, document or generation.
ASSUME NoneAssumption == None \notin Files \cup Rows \cup Documents

-----------------------------------------------------------------------------
(* Decisions of a pass.                                                    *)

\* What the index holds for a row: its chunks, none for a skipped source.
DocumentsOf(row) ==
    IF row = None \/ row.content \in Skipped
      THEN None
      ELSE [content |-> row.content, reg |-> row.reg, identity |-> row.identity]

\* A plausible bug: the recorded mtime is not compared.
MustReadNoMtime(s) ==
    LET row == base.rows[s]
        file == pass.stat[s]
    IN  row # None =>
            \/ Basis = "strict_hash"
            \/ row.reg # pass.config.reg[VaultOf[s]]
            \/ row.identity # build
            \/ SizeOf[row.content] # SizeOf[file.content]
            \/ s \in pass.forced
            \/ pass.now - file.mtime <= RacyWindow

\* plan_observation: must the bytes of a source be read?
MustRead(s) ==
    LET row == base.rows[s]
        file == pass.stat[s]
    IN  row # None =>
            \/ Basis = "strict_hash"
            \/ row.reg # pass.config.reg[VaultOf[s]]
            \/ row.identity # build
            \/ SizeOf[row.content] # SizeOf[file.content]
            \/ row.mtime # file.mtime
            \/ s \in pass.forced
            \/ pass.now - file.mtime <= RacyWindow

\* A plausible bug: a changed registration does not count as a change.
ReingestContentOnly(row, next) ==
    row # None =>
        \/ row.identity # build
        \/ row.content # next.content

\* A plausible bug: the recorded mtime is compared instead of the hash.
ReingestByMtime(row, next) ==
    row # None =>
        \/ row.reg # next.reg
        \/ row.identity # build
        \/ row.mtime # next.mtime

\* plan_source: does the source have to be indexed again?  (The outcome is a
\* function of the content here.)
Reingest(row, next) ==
    row # None =>
        \/ row.reg # next.reg
        \/ row.identity # build
        \/ row.content # next.content

\* The sources whose row is kept as it is: the vault's root is unavailable,
\* the row is reused or the read failed, or the source was not seen by an
\* enumeration that had a warning.
Retained(s) ==
    \/ pass.phase[VaultOf[s]] = "unavailable"
    \/ pass.got[s] \in {"reused", "transient"}
    \/ pass.got[s] = "unseen" /\ VaultOf[s] \in pass.defective

\* The row of ManifestFile::from_outcome: content from the read, mtime from
\* the enumeration.
OutcomeRow(s) ==
    [content |-> pass.got[s], mtime |-> pass.stat[s].mtime,
     reg |-> pass.config.reg[VaultOf[s]], identity |-> build]

\* The row of a source in the next manifest.
NextRow(s) ==
    IF VaultOf[s] \notin pass.config.vaults
      THEN None
      ELSE IF Retained(s)
             THEN base.rows[s]
             ELSE IF pass.got[s] \in Contents THEN OutcomeRow(s) ELSE None

\* A source that is read and unchanged keeps its documents; one that is
\* indexed again loses the old ones and gets those of its new row; one whose
\* row goes loses them.
NextDocuments(s) ==
    IF NextRow(s) = None
      THEN IF base.rows[s] = None THEN base.index[s] ELSE None
      ELSE IF ~Retained(s) /\ Reingest(base.rows[s], NextRow(s))
             THEN DocumentsOf(NextRow(s))
             ELSE base.index[s]

NextGeneration ==
    [rows |-> [s \in Sources |-> NextRow(s)],
     index |-> [s \in Sources |-> NextDocuments(s)]]

-----------------------------------------------------------------------------
(* The world outside the daemon.                                           *)

Disturbed == quiet' = FALSE /\ fresh' = FALSE

Daemon == <<build, published, base, served, pc, pass>>

Write(s, c) ==
    /\ VaultOf[s] \in mounted
    /\ disk' = [disk EXCEPT ![s] = [content |-> c, mtime |-> clock]]
    /\ Disturbed
    /\ UNCHANGED <<mounted, config, clock, gone, Daemon>>

Delete(s) ==
    /\ VaultOf[s] \in mounted
    /\ disk[s] # None
    /\ disk' = [disk EXCEPT ![s] = None]
    /\ gone' = gone \cup {s}
    /\ Disturbed
    /\ UNCHANGED <<mounted, config, clock, Daemon>>

Mount(v) ==
    /\ mounted' = IF v \in mounted THEN mounted \ {v} ELSE mounted \cup {v}
    /\ Disturbed
    /\ UNCHANGED <<disk, config, clock, gone, Daemon>>

Reconfigure ==
    /\ config' \in Configs
    /\ config' # config
    /\ Disturbed
    /\ UNCHANGED <<disk, mounted, clock, gone, Daemon>>

Tick ==
    /\ clock < MaxClock
    /\ clock' = clock + 1
    /\ UNCHANGED <<disk, mounted, config, Daemon, ghosts>>

-----------------------------------------------------------------------------
(* A reconciliation pass.                                                  *)

\* Full when no path is forced; otherwise the watcher's path evidence.
BeginPass(forced) ==
    /\ pc = "idle"
    /\ pc' = "pass"
    /\ pass' = [config |-> config, now |-> clock, forced |-> forced,
                phase |-> [v \in Vaults |-> "todo"],
                walked |-> {}, stat |-> [s \in Sources |-> None],
                ingested |-> {}, got |-> [s \in Sources |-> "unseen"],
                defective |-> {}]
    /\ quiet' = TRUE
    /\ gone' = {s \in Sources : disk[s] = None}
    /\ UNCHANGED <<world, build, published, base, served, fresh>>

SourcesOf(v) == {s \in Sources : VaultOf[s] = v}

Finished(v) ==
    \/ v \notin pass.config.vaults
    \/ pass.phase[v] = "unavailable"
    \/ pass.phase[v] = "walking" /\ SourcesOf(v) \subseteq pass.ingested

\* The root is checked once; a file over the size limit is a warning of the
\* enumeration, which makes it defective.
VisitVault(v) ==
    /\ pc = "pass"
    /\ v \in pass.config.vaults
    /\ pass.phase[v] = "todo"
    /\ \A w \in Vaults : pass.phase[w] = "walking" => Finished(w)
    /\ pass' = IF v \in mounted
                 THEN [pass EXCEPT !.phase[v] = "walking",
                                   !.defective = @ \cup ({v} \cap Oversized)]
                 ELSE [pass EXCEPT !.phase[v] = "unavailable"]
    /\ UNCHANGED <<world, build, published, base, served, pc, ghosts>>

\* discover_vault: the source is there with some size and mtime, or it is not.
Discover(s) ==
    /\ pc = "pass"
    /\ pass.phase[VaultOf[s]] = "walking"
    /\ s \notin pass.walked
    /\ VaultOf[s] \in mounted
    /\ pass' = [pass EXCEPT !.walked = @ \cup {s}, !.stat[s] = disk[s]]
    /\ UNCHANGED <<world, build, published, base, served, pc, ghosts>>

\* A plausible bug: an entry that cannot be read is passed over in silence.
DiscoverSilently(s) ==
    /\ pc = "pass"
    /\ pass.phase[VaultOf[s]] = "walking"
    /\ s \notin pass.walked
    /\ pass' = [pass EXCEPT !.walked = @ \cup {s}]
    /\ quiet' = FALSE
    /\ UNCHANGED <<world, build, published, base, served, pc, gone, fresh>>

\* The walk, or the stat of the file, fails: a warning.
DiscoverFails(s) ==
    /\ pc = "pass"
    /\ pass.phase[VaultOf[s]] = "walking"
    /\ s \notin pass.walked
    /\ pass' = [pass EXCEPT !.walked = @ \cup {s},
                            !.defective = @ \cup {VaultOf[s]}]
    /\ quiet' = FALSE
    /\ UNCHANGED <<world, build, published, base, served, pc, gone, fresh>>

\* The enumeration of the vault is over and the source's turn has come.
Enumerated(s) ==
    /\ pc = "pass"
    /\ pass.phase[VaultOf[s]] = "walking"
    /\ SourcesOf(VaultOf[s]) \subseteq pass.walked
    /\ s \notin pass.ingested

Ingest(s, outcome) ==
    /\ pass' = [pass EXCEPT !.ingested = @ \cup {s}, !.got[s] = outcome]
    /\ UNCHANGED <<world, build, published, base, served, pc, gone, fresh>>

\* Nothing was enumerated under this name.
IngestUnseen(s) ==
    /\ Enumerated(s)
    /\ pass.stat[s] = None
    /\ Ingest(s, "unseen")
    /\ UNCHANGED quiet

IngestReused(s) ==
    /\ Enumerated(s)
    /\ pass.stat[s] # None
    /\ ~MustRead(s)
    /\ Ingest(s, "reused")
    /\ UNCHANGED quiet

\* A source is read when it must be, or when a full pass audits it.
Reads(s) == pass.stat[s] # None /\ (MustRead(s) \/ pass.forced = {})

\* bounded_snapshot_read succeeds: the size is still the one enumerated.
IngestRead(s) ==
    /\ Enumerated(s)
    /\ Reads(s)
    /\ VaultOf[s] \in mounted
    /\ disk[s] # None
    /\ SizeOf[disk[s].content] = SizeOf[pass.stat[s].content]
    /\ Ingest(s, IF disk[s].content \in Unprepared THEN "unseen" ELSE disk[s].content)
    /\ UNCHANGED quiet

\* The file is gone, has another size, changed while it was read, or the read
\* failed.
IngestTransient(s) ==
    /\ Enumerated(s)
    /\ Reads(s)
    /\ Ingest(s, "transient")
    /\ quiet' = FALSE

\* The candidate cannot be written or published.
PassFails ==
    /\ pc = "pass"
    /\ \A v \in Vaults : Finished(v)
    /\ pc' = "idle"
    /\ pass' = None
    /\ UNCHANGED <<world, build, published, base, served, ghosts>>

\* Nothing to publish: the pass is over.
KeepGeneration ==
    /\ pc = "pass"
    /\ \A v \in Vaults : Finished(v)
    /\ NextGeneration = base
    /\ pc' = "idle"
    /\ pass' = None
    /\ fresh' = quiet
    /\ UNCHANGED <<world, build, published, base, served, quiet, gone>>

Publish ==
    /\ pc = "pass"
    /\ \A v \in Vaults : Finished(v)
    /\ NextGeneration # base
    /\ published' = NextGeneration
    /\ pc' = "install"
    /\ UNCHANGED <<world, build, base, served, pass, ghosts>>

\* The new generation is opened, served, and becomes the manager's own.
Install ==
    /\ pc = "install"
    /\ base' = published
    /\ served' = published
    /\ pc' = "idle"
    /\ pass' = None
    /\ fresh' = quiet
    /\ UNCHANGED <<world, build, published, quiet, gone>>

\* The published generation cannot be opened: the manager keeps the old one.
InstallFails ==
    /\ pc = "install"
    /\ pc' = "idle"
    /\ pass' = None
    /\ UNCHANGED <<world, build, published, base, served, ghosts>>

-----------------------------------------------------------------------------
(* Opening the data root.                                                  *)

Kill ==
    /\ pc # "down"
    /\ pc' = "down"
    /\ served' = None
    /\ pass' = None
    /\ fresh' = FALSE
    /\ UNCHANGED <<world, build, published, base, quiet, gone>>

\* A plausible bug: what is on disk is served as it is.
AdoptedAsIs(generation, b) == generation

\* ManifestOnDisk::adopt and the deletion of the evicted documents.
Adopted(generation, b) ==
    LET evicted == {s \in Sources : /\ generation.rows[s] # None
                                    /\ generation.rows[s].identity # b}
    IN  [rows |-> [s \in Sources |-> IF s \in evicted THEN None ELSE generation.rows[s]],
         index |-> [s \in Sources |-> IF s \in evicted THEN None ELSE generation.index[s]]]

Open(b) ==
    /\ pc = "down"
    /\ build' = b
    /\ published' = Adopted(published, b)
    /\ base' = published'
    /\ served' = published'
    /\ pc' = "idle"
    /\ UNCHANGED <<world, pass, ghosts>>

\* The evicted generation is published and the open fails after that.
OpenFails(b) ==
    /\ pc = "down"
    /\ build' = b
    /\ published' = Adopted(published, b)
    /\ UNCHANGED <<world, base, served, pc, pass, ghosts>>

-----------------------------------------------------------------------------
\* `kwiry index` has built the first generation, from no source.
Init ==
    /\ disk = [s \in Sources |-> None]
    /\ mounted = Vaults
    /\ config \in {c \in Configs : c.vaults = Vaults}
    /\ clock = 0
    /\ build \in Builds
    /\ published = [rows |-> [s \in Sources |-> None],
                    index |-> [s \in Sources |-> None]]
    /\ base = published
    /\ served = None
    /\ pc = "down"
    /\ pass = None
    /\ quiet = FALSE
    /\ gone = {}
    /\ fresh = FALSE

World ==
    \/ \E s \in Sources : Delete(s) \/ \E c \in Contents : Write(s, c)
    \/ \E v \in Vaults : Mount(v)
    \/ Reconfigure
    \/ Tick

Observe ==
    \/ \E forced \in SUBSET Sources : BeginPass(forced)
    \/ \E v \in Vaults : VisitVault(v)
    \/ \E s \in Sources : \/ Discover(s) \/ DiscoverFails(s)
                          \/ IngestUnseen(s) \/ IngestReused(s)
                          \/ IngestRead(s) \/ IngestTransient(s)

Commit == PassFails \/ KeepGeneration \/ Publish \/ Install \/ InstallFails

Restart == Kill \/ \E b \in Builds : Open(b) \/ OpenFails(b)

Next == World \/ Observe \/ Commit \/ Restart

Spec == Init /\ [][Next]_vars

-----------------------------------------------------------------------------
(* Properties.                                                             *)

Passes ==
    [config : Configs, now : 0 .. MaxClock, forced : SUBSET Sources,
     phase : [Vaults -> {"todo", "walking", "unavailable"}],
     walked : SUBSET Sources, stat : [Sources -> Files \cup {None}],
     ingested : SUBSET Sources,
     got : [Sources -> Contents \cup {"unseen", "reused", "transient"}],
     defective : SUBSET Vaults]

\* The state stays in these sets.
TypeOK ==
    /\ disk \in [Sources -> Files \cup {None}]
    /\ mounted \in SUBSET Vaults
    /\ config \in Configs
    /\ clock \in 0 .. MaxClock
    /\ build \in Builds
    /\ published \in Generations
    /\ base \in Generations
    /\ served \in Generations \cup {None}
    /\ pc \in {"down", "idle", "pass", "install"}
    /\ pass \in Passes \cup {None}
    /\ quiet \in BOOLEAN /\ fresh \in BOOLEAN
    /\ gone \in SUBSET Sources

\* The documents of a generation are exactly those of its manifest rows.
Agrees(generation) ==
    \A s \in Sources : generation.index[s] = DocumentsOf(generation.rows[s])

\* Manifest and index never part: a pass deletes and adds documents by what it
\* compared in the manifest, over generations that failed passes, failed
\* installs, kills and evictions left behind; a document the manifest does not
\* name could never be found again (the comment in DesktopIndexManager::open).
ManifestIndexAgree ==
    /\ Agrees(published)
    /\ pc # "down" => Agrees(base)
    /\ served # None => Agrees(served)

\* The daemon never answers from a document another build extracted.
ServedByThisBuild ==
    served # None =>
        \A s \in Sources : served.index[s] # None => served.index[s].identity = build

\* What the index should hold for a source, by the files as they are now.
DocumentsOnDisk(s) ==
    IF disk[s] = None \/ disk[s].content \in Unprepared
      THEN None
      ELSE DocumentsOf([content |-> disk[s].content, mtime |-> disk[s].mtime,
                        reg |-> config.reg[VaultOf[s]], identity |-> build])

\* The metadata_audit basis takes a source for unchanged when size and mtime
\* are those of its row.
MetadataEqual(s) ==
    /\ Basis = "metadata_audit"
    /\ disk[s] # None /\ served.rows[s] # None
    /\ SizeOf[disk[s].content] = SizeOf[served.rows[s].content]
    /\ disk[s].mtime = served.rows[s].mtime
    /\ served.rows[s].reg = config.reg[VaultOf[s]]

\* After a pass during which nothing moved and every read succeeded, and until
\* something moves again, the daemon serves exactly what the files of the
\* available vaults hold; metadata_audit may miss an edit that keeps size and
\* mtime, and nothing is inferred deleted beside an oversized file.
Converged ==
    fresh =>
        \A s \in Sources :
            /\ VaultOf[s] \notin config.vaults => served.index[s] = None
            /\ VaultOf[s] \in config.vaults \cap mounted =>
                  \/ served.index[s] = DocumentsOnDisk(s)
                  \/ MetadataEqual(s)
                  \/ DocumentsOnDisk(s) = None /\ VaultOf[s] \in Oversized

\* A source leaves the answers of a running daemon only if it was really
\* absent at some time during the pass, or its vault is no longer registered,
\* or a read found content without chunks: never because a vault was
\* unavailable, a walk incomplete or a read failed.
RemovedOnlyWhenGone ==
    [][\A s \in Sources :
         (served # None /\ served' # None) =>
         ((served.index[s] # None /\ served'.index[s] = None) =>
            \/ s \in gone
            \/ VaultOf[s] \notin pass.config.vaults
            \/ s \in pass.ingested /\ pass.stat[s] # None
                 /\ pass.got[s] \in Skipped \cup {"unseen"})]_vars
=============================================================================

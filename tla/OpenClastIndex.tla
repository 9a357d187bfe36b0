--------------------------- MODULE OpenClastIndex ---------------------------
(***************************************************************************)
(* The OpenClast index manager (runtime.rs, OpenClastIndexManager): the    *)
(* sources of every vault live in the index partition of the vault's       *)
(* resource, and a request may read only the partitions its capability     *)
(* names.  A vault's registration is its root path and its room; the       *)
(* resource is the vault and the room.  What was read under one            *)
(* registration must not be answered under another: content is withheld    *)
(* until it has been read again.                                           *)
(*                                                                         *)
(* A pass is one step here (module DesktopIndex interleaves it with edits);*)
(* what it finds in the file system is chosen when it runs.  Every source  *)
(* that is seen is read, as on the strict_hash basis.                      *)
(***************************************************************************)
EXTENDS Integers, FiniteSets

CONSTANTS
    Vaults, Sources, VaultOf,
    Paths, Rooms,
    Contents,
    Builds,       \* format identities of the builds that may run
    None

ASSUME OpenClastAssumption == VaultOf \in [Sources -> Vaults]

Registrations == [path : Paths, room : Rooms]
Resources == [vault : Vaults, room : Rooms]
Rows == [content : Contents, reg : Registrations, identity : Builds]
Documents == [content : Contents, reg : Registrations]
Partitions == [Sources -> Documents \cup {None}]
Configs == [vaults : SUBSET Vaults, reg : [Vaults -> Registrations]]

\* The absence of a value is not a value.
ASSUME NoneAssumption == None \notin Rows \cup Documents \cup Configs \cup Contents

VARIABLES
    disk,        \* content of each source under each path, or None
    present,     \* paths that are directories
    config,      \* the configuration: vaults, and the registration of each
    build,       \* the running build
    published,   \* the generation current.json names
    base,        \* the manager's own manifest, layout and active generation
    pc,          \* "down" or "up"
    adopted      \* the configuration of the last pass that succeeded, or None

vars == <<disk, present, config, build, published, base, pc, adopted>>

Generations == [rows : [Sources -> Rows \cup {None}],
                layout : SUBSET Resources,
                parts : [Resources -> Partitions]]

Empty == [s \in Sources |-> None]

-----------------------------------------------------------------------------
(* What one pass decides.  A scan holds what it found: the vaults whose    *)
(* enumeration was defective, and per source "unseen", "transient" or      *)
(* "read".                                                                 *)

RegOf(s) == config.reg[VaultOf[s]]
ResourceOf(v) == [vault |-> v, room |-> config.reg[v].room]
Recorded(row, s) == [vault |-> VaultOf[s], room |-> row.reg.room]

FileOf(s) == disk[RegOf(s).path][s]
Available(v) == config.reg[v].path \in present

\* A source goes unseen when it is not there, or when the walk missed it.
Scans ==
    {scan \in [defective : SUBSET config.vaults,
               seen : [Sources -> {"unseen", "transient", "read"}]] :
       \A s \in Sources :
          /\ scan.seen[s] = "unseen" => FileOf(s) = None \/ VaultOf[s] \in scan.defective
          /\ scan.seen[s] # "unseen" => FileOf(s) # None}

\* The layout names at most one resource per vault.
Classified(v) == {r \in base.layout : r.vault = v}

Reclassified(v) ==
    \/ \E r \in Classified(v) : r # ResourceOf(v)
    \/ \E s \in Sources : /\ VaultOf[s] = v
                          /\ base.rows[s] # None
                          /\ base.rows[s].reg # config.reg[v]

\* The resource of a reclassified vault is dropped, that of an available
\* vault is there, and the others stay.
NextLayout ==
    {r \in base.layout : r.vault \in config.vaults /\ ~Reclassified(r.vault)}
      \cup {ResourceOf(v) : v \in {w \in config.vaults : Available(w)}}

Scanned(s) == VaultOf[s] \in config.vaults /\ Available(VaultOf[s])

\* The row is kept: an unavailable root, a failed read, a defective walk.
Retained(s, scan) ==
    /\ VaultOf[s] \in config.vaults
    /\ \/ ~Available(VaultOf[s])
       \/ scan.seen[s] = "transient"
       \/ scan.seen[s] = "unseen" /\ VaultOf[s] \in scan.defective

Read(s, scan) == Scanned(s) /\ scan.seen[s] = "read"

NextRow(s, scan) ==
    IF Retained(s, scan)
      THEN base.rows[s]
      ELSE IF Read(s, scan)
             THEN [content |-> FileOf(s), reg |-> RegOf(s), identity |-> build]
             ELSE None

\* A plausible bug: the registration is not compared.
ReingestByRoom(s, scan) ==
    /\ Read(s, scan)
    /\ base.rows[s] # None =>
          \/ Recorded(base.rows[s], s) # ResourceOf(VaultOf[s])
          \/ base.rows[s].identity # build
          \/ base.rows[s].content # FileOf(s)

\* plan_source.
Reingest(s, scan) ==
    /\ Read(s, scan)
    /\ base.rows[s] # None =>
          \/ Recorded(base.rows[s], s) # ResourceOf(VaultOf[s])
          \/ base.rows[s].reg # RegOf(s)
          \/ base.rows[s].identity # build
          \/ base.rows[s].content # FileOf(s)

\* A plausible bug: the registration the row was read under is not compared.
ExpectedByRoom(r, scan) ==
    {s \in Sources : LET row == NextRow(s, scan)
                     IN  row # None /\ Recorded(row, s) = r}

\* The keys a partition that stays may hold: rows of its resource that were
\* read under the registration their vault has now.
Expected(r, scan) ==
    {s \in Sources : LET row == NextRow(s, scan)
                     IN  /\ row # None
                         /\ Recorded(row, s) = r
                         /\ VaultOf[s] \in config.vaults
                         /\ row.reg = RegOf(s)}

\* Documents deleted from a partition: those of a source that is indexed
\* again, and those of every key the partition should not hold (a removed
\* source, one of another resource, one whose row is of another registration).
Deleted(r, scan) ==
    {s \in Sources : Reingest(s, scan) \/ s \notin Expected(r, scan)}

Added(r, scan) ==
    {s \in Sources : Reingest(s, scan) /\ ResourceOf(VaultOf[s]) = r}

NextPartition(r, scan) ==
    [s \in Sources |->
       IF s \in Added(r, scan)
         THEN [content |-> FileOf(s), reg |-> RegOf(s)]
         ELSE IF r \in base.layout /\ s \notin Deleted(r, scan)
                THEN base.parts[r][s] ELSE None]

\* Partitions outside the new layout are removed.
NextGeneration(scan) ==
    [rows |-> [s \in Sources |-> NextRow(s, scan)],
     layout |-> NextLayout,
     parts |-> [r \in Resources |->
                  IF r \in NextLayout THEN NextPartition(r, scan) ELSE Empty]]

-----------------------------------------------------------------------------
(* Actions.                                                                *)

Init ==
    /\ disk = [p \in Paths |-> Empty]
    /\ present = Paths
    /\ config \in {c \in Configs : c.vaults = Vaults}
    /\ build \in Builds
    /\ published = [rows |-> Empty, layout |-> {ResourceOf(v) : v \in Vaults},
                    parts |-> [r \in Resources |-> Empty]]
    /\ base = published
    /\ pc = "down"
    /\ adopted = None

daemon == <<build, published, base, pc, adopted>>

Write(p, s, c) ==
    /\ p \in present
    /\ disk[p][s] # c
    /\ disk' = [disk EXCEPT ![p][s] = c]
    /\ UNCHANGED <<present, config, daemon>>

\* The root of a registration goes away or comes back, files and all.
Toggle(p) ==
    /\ present' = IF p \in present THEN present \ {p} ELSE present \cup {p}
    /\ UNCHANGED <<disk, config, daemon>>

Reconfigure ==
    /\ config' \in Configs
    /\ config' # config
    /\ UNCHANGED <<disk, present, daemon>>

\* reconcile, up to and including the installation of the new generation.
Reconcile(scan) ==
    /\ pc = "up"
    /\ published' = IF NextGeneration(scan) = base THEN published
                                                   ELSE NextGeneration(scan)
    /\ base' = NextGeneration(scan)
    /\ adopted' = config
    /\ UNCHANGED <<disk, present, config, build, pc>>

\* The generation is published and cannot be opened: the manager keeps its own.
ReconcileNotInstalled(scan) ==
    /\ pc = "up"
    /\ NextGeneration(scan) # base
    /\ published' = NextGeneration(scan)
    /\ UNCHANGED <<disk, present, config, build, base, pc, adopted>>

Kill ==
    /\ pc = "up"
    /\ pc' = "down"
    /\ adopted' = None
    /\ UNCHANGED <<disk, present, config, build, published, base>>

\* Rows of another build are evicted, and their documents in the partition of
\* the resource they record, if there is one.
Evicted(b) ==
    {s \in Sources : published.rows[s] # None /\ published.rows[s].identity # b}

Adopted(b) ==
    [published EXCEPT
       !.rows = [s \in Sources |-> IF s \in Evicted(b) THEN None ELSE @[s]],
       !.parts = [r \in Resources |->
                    [s \in Sources |->
                       IF s \in Evicted(b) /\ r = Recorded(published.rows[s], s)
                         THEN None ELSE @[r][s]]]]

Open(b) ==
    /\ pc = "down"
    /\ build' = b
    /\ published' = Adopted(b)
    /\ base' = published'
    /\ pc' = "up"
    /\ UNCHANGED <<disk, present, config, adopted>>

Next ==
    \/ \E p \in Paths, s \in Sources, c \in Contents \cup {None} : Write(p, s, c)
    \/ \E p \in Paths : Toggle(p)
    \/ Reconfigure
    \/ \E scan \in Scans : Reconcile(scan) \/ ReconcileNotInstalled(scan)
    \/ Kill
    \/ \E b \in Builds : Open(b)

Spec == Init /\ [][Next]_vars

-----------------------------------------------------------------------------
(* Properties.                                                             *)

\* The state stays in these sets.
TypeOK ==
    /\ disk \in [Paths -> [Sources -> Contents \cup {None}]]
    /\ present \in SUBSET Paths
    /\ config \in Configs
    /\ build \in Builds
    /\ published \in Generations /\ base \in Generations
    /\ pc \in {"down", "up"}
    /\ adopted \in Configs \cup {None}

\* A document has the row it came from: the purge by expected keys and the
\* eviction by rows can both find it.
NoOrphanDocument ==
    \A g \in {published, base} : \A r \in Resources, s \in Sources :
        g.parts[r][s] # None =>
            /\ r \in g.layout
            /\ g.rows[s] # None
            /\ g.parts[r][s] = [content |-> g.rows[s].content, reg |-> g.rows[s].reg]
            /\ r = Recorded(g.rows[s], s)

\* Registration safety: once a pass has succeeded, every document the daemon
\* can answer with was read under the registration, path and room, its vault
\* has in the configuration of that pass, and sits in that room's partition;
\* whatever was unavailable, unreadable or missed when the registration changed.
NoForeignDocument ==
    adopted # None =>
        \A r \in Resources, s \in Sources :
            base.parts[r][s] # None =>
                /\ VaultOf[s] \in adopted.vaults
                /\ base.parts[r][s].reg = adopted.reg[VaultOf[s]]
                /\ r = [vault |-> VaultOf[s], room |-> adopted.reg[VaultOf[s]].room]

\* The comment in GenerationPaths::validate: withheld content is withheld
\* "until the registration can be verified and reindexed".  A row whose vault
\* is available under the very registration the row records has its documents
\* in the partition of its resource.
IndexedIsSearchable ==
    adopted = config /\ adopted # None =>
        \A s \in Sources :
            (/\ base.rows[s] # None
             /\ VaultOf[s] \in config.vaults
             /\ base.rows[s].reg = RegOf(s)
             /\ Recorded(base.rows[s], s) \in base.layout)
            => base.parts[Recorded(base.rows[s], s)][s] # None
=============================================================================

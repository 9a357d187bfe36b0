--------------------------- MODULE DesktopProofs ---------------------------
(***************************************************************************)
(* Proofs about the desktop index manager.                                 *)
(*                                                                         *)
(* DesktopIndex: its passes, for any number of vaults, sources, contents,  *)
(* registrations and builds.                                               *)
(*                                                                         *)
(* AuditBudget: the rolling audit of those passes in the one vault that a  *)
(* budget is stated for, for any candidates, any limits and any cursor.    *)
(***************************************************************************)
EXTENDS DesktopIndex, AuditBudget, NaturalsInduction, WellFoundedInduction, TLAPS

-----------------------------------------------------------------------------
(* Rows and documents                                                      *)

\* Every row of the generation was made by the running build.
Current(generation) ==
    \A s \in Sources :
        generation.rows[s] # None => generation.rows[s].identity = build

\* The inductive invariant: agreement of every generation a later step may
\* build on, and whose rows they are.
AgreementInv ==
    /\ Agrees(published)
    /\ Agrees(base)
    /\ IF pc = "down" THEN served = None ELSE served = base
    /\ pc # "down" => Current(base)
    /\ pc = "install" => Current(published)

\* The plan of a pass keeps rows and documents in agreement: reconcile_source
\* replaces the documents exactly when the row they come from changes.
LEMMA PlanAgrees == Agrees(base) => Agrees(NextGeneration)
<1> SUFFICES ASSUME Agrees(base), NEW s \in Sources
             PROVE  NextDocuments(s) = DocumentsOf(NextRow(s))
  BY DEF Agrees, NextGeneration
<1>0. base.index[s] = DocumentsOf(base.rows[s])
  BY DEF Agrees
<1>1. CASE NextRow(s) = None
  <2>1. CASE base.rows[s] # None
    BY <1>1, <2>1 DEF NextDocuments, DocumentsOf
  <2>2. CASE base.rows[s] = None
    BY <1>0, <1>1, <2>2 DEF NextDocuments
  <2> QED BY <2>1, <2>2
<1>2. CASE NextRow(s) # None /\ Retained(s)
  <2>1. NextRow(s) = base.rows[s]
    BY <1>2 DEF NextRow
  <2> QED BY <1>0, <1>2, <2>1 DEF NextDocuments
<1>3. CASE NextRow(s) # None /\ ~Retained(s)
  <2>1. CASE Reingest(base.rows[s], NextRow(s))
    BY <1>3, <2>1 DEF NextDocuments
  <2>2. CASE ~Reingest(base.rows[s], NextRow(s))
    <3>1. NextDocuments(s) = base.index[s]
      BY <1>3, <2>2 DEF NextDocuments
    <3>2. /\ base.rows[s] # None
          /\ base.rows[s].reg = NextRow(s).reg
          /\ base.rows[s].identity = build
          /\ base.rows[s].content = NextRow(s).content
      BY <2>2 DEF Reingest
    <3>3. NextRow(s).identity = build
      BY <1>3, <3>2 DEF NextRow, OutcomeRow
    <3> QED BY <1>0, <1>3, <3>1, <3>2, <3>3 DEF DocumentsOf
  <2> QED BY <2>1, <2>2
<1> QED BY <1>1, <1>2, <1>3

\* The rows of the plan are kept from the manager's manifest or made now.
LEMMA PlanCurrent == Current(base) => Current(NextGeneration)
<1> SUFFICES ASSUME Current(base), NEW s \in Sources, NextRow(s) # None
             PROVE  NextRow(s).identity = build
  BY DEF Current, NextGeneration
<1> QED BY DEF Current, NextRow, OutcomeRow

\* Eviction removes rows and documents together, and every foreign row.
LEMMA AdoptedAgrees ==
    ASSUME NEW b \in Builds, Agrees(published)
    PROVE  /\ Agrees(Adopted(published, b))
           /\ \A s \in Sources : Adopted(published, b).rows[s] # None =>
                  Adopted(published, b).rows[s].identity = b
BY DEF Agrees, Adopted, DocumentsOf

\* The invariant holds initially and every step keeps it.
THEOREM AgreementInvariant == Spec => []AgreementInv
<1>1. Init => AgreementInv
  BY DEF Init, AgreementInv, Agrees, DocumentsOf
<1>2. AgreementInv /\ [Next]_vars => AgreementInv'
  <2> SUFFICES ASSUME AgreementInv, [Next]_vars PROVE AgreementInv'
    OBVIOUS
  <2>1. CASE UNCHANGED <<build, published, base, served>> /\ pc' = pc
    BY <2>1 DEF AgreementInv, Agrees, Current, DocumentsOf
  <2>2. CASE World
    <3>1. UNCHANGED <<build, published, base, served>> /\ pc' = pc
      BY <2>2 DEF World, Write, Delete, Mount, Reconfigure, Tick, Daemon
    <3> QED BY <2>1, <3>1
  <2>3. CASE Observe
    <3>1. CASE \E forced \in SUBSET Sources : BeginPass(forced)
      BY <3>1 DEF BeginPass, AgreementInv, Agrees, Current, DocumentsOf
    <3>2. CASE ~(\E forced \in SUBSET Sources : BeginPass(forced))
      <4>1. UNCHANGED <<build, published, base, served>> /\ pc' = pc
        BY <2>3, <3>2 DEF Observe, VisitVault, Discover, DiscoverFails, Ingest,
              IngestUnseen, IngestReused, IngestRead, IngestTransient
      <4> QED BY <2>1, <4>1
    <3> QED BY <3>1, <3>2
  <2>4. CASE PassFails \/ KeepGeneration \/ InstallFails
    BY <2>4 DEF PassFails, KeepGeneration, InstallFails, AgreementInv, Agrees,
                Current, DocumentsOf
  <2>5. CASE Publish
    <3>1. Agrees(NextGeneration) /\ Current(NextGeneration)
      BY <2>5, PlanAgrees, PlanCurrent DEF Publish, AgreementInv
    <3> QED BY <2>5, <3>1 DEF Publish, AgreementInv, Agrees, Current, DocumentsOf
  <2>6. CASE Install
    BY <2>6 DEF Install, AgreementInv, Agrees, Current, DocumentsOf
  <2>7. CASE Kill
    BY <2>7 DEF Kill, AgreementInv, Agrees, Current, DocumentsOf
  <2>8. ASSUME NEW b \in Builds, Open(b) PROVE AgreementInv'
    <3>1. Agrees(Adopted(published, b))
      BY AdoptedAgrees DEF AgreementInv
    <3>2. \A s \in Sources : Adopted(published, b).rows[s] # None =>
                  Adopted(published, b).rows[s].identity = b
      BY AdoptedAgrees DEF AgreementInv
    <3>3. /\ published' = Adopted(published, b) /\ base' = Adopted(published, b)
          /\ served' = base' /\ build' = b /\ pc' = "idle"
      BY <2>8 DEF Open
    <3> QED BY <3>1, <3>2, <3>3 DEF AgreementInv, Agrees, Current, DocumentsOf
  <2>9. ASSUME NEW b \in Builds, OpenFails(b) PROVE AgreementInv'
    <3>1. Agrees(Adopted(published, b))
      BY AdoptedAgrees DEF AgreementInv
    <3>2. /\ published' = Adopted(published, b) /\ UNCHANGED <<base, served>>
          /\ pc = "down" /\ pc' = "down"
      BY <2>9 DEF OpenFails
    <3> QED BY <3>1, <3>2 DEF AgreementInv, Agrees, Current, DocumentsOf
  <2>10. CASE UNCHANGED vars
    BY <2>1, <2>10 DEF vars
  <2> QED BY <2>2, <2>3, <2>4, <2>5, <2>6, <2>7, <2>8, <2>9, <2>10
          DEF Next, Commit, Restart
<1> QED BY <1>1, <1>2, PTL DEF Spec

\* Manifest and index never part, whatever passes, failures, kills, builds and
\* registrations follow one another.
THEOREM ManifestAndIndexAgree == Spec => []ManifestIndexAgree
<1>1. AgreementInv => ManifestIndexAgree
  BY DEF AgreementInv, ManifestIndexAgree
<1> QED BY <1>1, AgreementInvariant, PTL

\* The daemon never answers from a document another build extracted.
THEOREM OnlyThisBuildServed == Spec => []ServedByThisBuild
<1>1. AgreementInv => ServedByThisBuild
  <2> SUFFICES ASSUME AgreementInv, served # None, NEW s \in Sources,
                      served.index[s] # None
               PROVE  served.index[s].identity = build
    BY DEF ServedByThisBuild
  <2>1. served = base /\ Agrees(base) /\ Current(base)
    BY DEF AgreementInv
  <2>2. served.index[s] = DocumentsOf(base.rows[s])
    BY <2>1 DEF Agrees
  <2>3. base.rows[s] # None /\ served.index[s].identity = base.rows[s].identity
    BY <2>2 DEF DocumentsOf
  <2> QED BY <2>1, <2>3 DEF Current
<1> QED BY <1>1, AgreementInvariant, PTL


-----------------------------------------------------------------------------
(* What a pass has seen                                                    *)

Passing == pc \in {"pass", "install"}

\* Whatever happens meanwhile, a pass knows of every source where its outcome
\* comes from, and every source that may look absent to it was absent or lies
\* in a vault it does not trust.
PassInv ==
    Passing =>
        /\ pass \in Passes
        /\ \A s \in Sources : disk[s] = None => s \in gone
        /\ \A s \in pass.walked :
               pass.stat[s] = None => s \in gone \/ VaultOf[s] \in pass.defective
        /\ \A s \in pass.ingested : s \in pass.walked
        /\ \A s \in Sources : pass.got[s] # "unseen" =>
               s \in pass.ingested /\ pass.stat[s] # None
        /\ pc = "install" => published = NextGeneration /\ \A v \in Vaults : Finished(v)

\* As long as nothing moved and no read failed, what it knows is how things are.
SeenInv(s) ==
    \/ pass.got[s] = "unseen" /\ (disk[s] = None \/ disk[s].content \in Unprepared)
    \/ pass.got[s] = "reused" /\ disk[s] # None /\ ~MustRead(s)
    \/ /\ disk[s] # None /\ pass.got[s] = disk[s].content
       /\ disk[s].content \notin Unprepared

QuietInv ==
    Passing /\ quiet =>
        /\ pass.config = config
        /\ pass.defective \subseteq Oversized
        /\ \A v \in Vaults : /\ pass.phase[v] = "walking" => v \in mounted
                             /\ pass.phase[v] = "unavailable" => v \notin mounted
        /\ \A s \in pass.walked : pass.stat[s] = disk[s]
        /\ \A s \in pass.ingested : SeenInv(s)

FreshInv == fresh => pc # "down" /\ Converged

DesktopInv == TypeOK /\ PassInv /\ QuietInv /\ FreshInv


USE DesktopAssumption, NoneAssumption

\* The plan of a pass is a generation.
LEMMA PlanType ==
    ASSUME TypeOK, PassInv, Passing
    PROVE  NextGeneration \in Generations
<1>1. ASSUME NEW s \in Sources PROVE NextRow(s) \in Rows \cup {None}
  <2>1. base.rows[s] \in Rows \cup {None}
    BY DEF TypeOK, Generations
  <2>2. CASE pass.got[s] \in Contents
    <3>1. pass.stat[s] \in Files
      BY <2>2 DEF PassInv, Passes
    <3>2. OutcomeRow(s) \in Rows
      BY <2>2, <3>1 DEF OutcomeRow, Rows, Files, PassInv, Passes, Configs, TypeOK
    <3> QED BY <2>1, <3>2 DEF NextRow
  <2>3. CASE pass.got[s] \notin Contents
    BY <2>1, <2>3 DEF NextRow
  <2> QED BY <2>2, <2>3
<1>2. ASSUME NEW row \in Rows \cup {None} PROVE DocumentsOf(row) \in Documents \cup {None}
  BY DEF DocumentsOf, Rows, Documents
<1>3. ASSUME NEW s \in Sources PROVE NextDocuments(s) \in Documents \cup {None}
  <2>1. base.index[s] \in Documents \cup {None}
    BY DEF TypeOK, Generations
  <2> QED BY <1>1, <1>2, <2>1 DEF NextDocuments
<1> QED BY <1>1, <1>3 DEF NextGeneration, Generations

\* What a build keeps of a generation is one.
LEMMA AdoptedType ==
    ASSUME NEW g \in Generations, NEW b
    PROVE  Adopted(g, b) \in Generations
BY DEF Adopted, Generations

\* The state of a pass after each of its steps is one a pass can be in.
LEMMA PassType ==
    ASSUME TypeOK, PassInv, Observe
    PROVE  pass' \in Passes
<1>1. ASSUME NEW forced \in SUBSET Sources, BeginPass(forced) PROVE pass' \in Passes
  BY <1>1 DEF BeginPass, Passes, TypeOK, Configs
<1>p. pc = "pass" => pass \in Passes
  BY DEF PassInv, Passing
<1>2. ASSUME NEW v \in Vaults, VisitVault(v) PROVE pass' \in Passes
  <2>1. pass \in Passes
    BY <1>2, <1>p DEF VisitVault
  <2> QED BY <1>2, <2>1 DEF VisitVault, Passes
<1>3. ASSUME NEW s \in Sources, Discover(s) \/ DiscoverFails(s) PROVE pass' \in Passes
  <2>1. pass \in Passes
    BY <1>3, <1>p DEF Discover, DiscoverFails
  <2>2. disk[s] \in Files \cup {None} /\ VaultOf[s] \in Vaults
    BY DEF TypeOK
  <2>3. CASE Discover(s)
    BY <2>1, <2>2, <2>3 DEF Discover, Passes
  <2>4. CASE DiscoverFails(s)
    BY <2>1, <2>2, <2>4 DEF DiscoverFails, Passes
  <2> QED BY <1>3, <2>3, <2>4
<1>4. ASSUME NEW s \in Sources, NEW o \in Contents \cup {"unseen", "reused", "transient"},
             Enumerated(s), Ingest(s, o)
      PROVE  pass' \in Passes
  <2>1. pass \in Passes
    BY <1>4, <1>p DEF Enumerated
  <2> QED BY <1>4, <2>1 DEF Ingest, Passes
<1>5. ASSUME NEW s \in Sources, IngestUnseen(s) \/ IngestReused(s) \/ IngestTransient(s)
      PROVE  pass' \in Passes
  BY <1>4, <1>5 DEF IngestUnseen, IngestReused, IngestTransient
<1>6. ASSUME NEW s \in Sources, IngestRead(s) PROVE pass' \in Passes
  <2>1. disk[s].content \in Contents
    BY <1>6 DEF IngestRead, TypeOK, Files
  <2> QED BY <1>4, <1>6, <2>1 DEF IngestRead
<1> QED BY <1>1, <1>2, <1>3, <1>5, <1>6 DEF Observe

\* Every step keeps every variable in its type.
LEMMA NextType ==
    ASSUME TypeOK, PassInv, [Next]_vars
    PROVE  TypeOK'
<1>1. CASE World
  <2>1. UNCHANGED <<build, published, base, served, pc, pass>>
    BY <1>1 DEF World, Write, Delete, Mount, Reconfigure, Tick, Daemon
  <2>2. ASSUME NEW s \in Sources, NEW c \in Contents, Write(s, c) PROVE disk' \in [Sources -> Files \cup {None}]
    BY <2>2 DEF Write, TypeOK, Files
  <2>3. /\ disk' \in [Sources -> Files \cup {None}]
        /\ mounted' \in SUBSET Vaults
        /\ config' \in Configs
    BY <1>1, <2>2 DEF World, Write, Delete, Mount, Reconfigure, Tick, TypeOK
  <2>4. clock' \in 0 .. MaxClock
    BY <1>1 DEF World, Write, Delete, Mount, Reconfigure, Tick, TypeOK
  <2>5. gone' \in SUBSET Sources
    BY <1>1 DEF World, Write, Delete, Mount, Reconfigure, Tick, TypeOK, ghosts
  <2>6. quiet' \in BOOLEAN /\ fresh' \in BOOLEAN
    BY <1>1 DEF World, Write, Delete, Mount, Reconfigure, Tick, TypeOK, ghosts, Disturbed
  <2> QED BY <2>1, <2>3, <2>4, <2>5, <2>6 DEF TypeOK
<1>2. ASSUME NEW forced \in SUBSET Sources, BeginPass(forced) PROVE TypeOK'
  <2>1. pass' \in Passes
    BY <1>2, PassType DEF Observe
  <2> QED BY <1>2, <2>1 DEF BeginPass, TypeOK, world
<1>3. CASE Observe /\ ~(\E forced \in SUBSET Sources : BeginPass(forced))
  <2>1. pc = "pass" /\ UNCHANGED <<world, build, published, base, served, pc, gone, fresh>>
    BY <1>3 DEF Observe, VisitVault, Discover, DiscoverFails, IngestUnseen, IngestReused,
       IngestRead, IngestTransient, Ingest, Enumerated, ghosts
  <2>2. pass' \in Passes
    BY <1>3, PassType
  <2>3. quiet' \in BOOLEAN
    BY <1>3 DEF Observe, VisitVault, Discover, DiscoverFails, IngestUnseen, IngestReused,
       IngestRead, IngestTransient, ghosts, TypeOK
  <2> QED BY <2>1, <2>2, <2>3 DEF TypeOK, world
<1>4. CASE PassFails \/ KeepGeneration \/ Install \/ InstallFails
  BY <1>4 DEF PassFails, KeepGeneration, Install, InstallFails, TypeOK, world, ghosts
<1>5. CASE Publish
  <2>1. NextGeneration \in Generations
    BY <1>5, PlanType DEF Publish, Passing
  <2> QED BY <1>5, <2>1 DEF Publish, TypeOK, world, ghosts
<1>6. CASE Kill
  BY <1>6 DEF Kill, TypeOK, world
<1>7. ASSUME NEW b \in Builds, Open(b) \/ OpenFails(b) PROVE TypeOK'
  <2>1. Adopted(published, b) \in Generations
    BY AdoptedType DEF TypeOK
  <2> QED BY <1>7, <2>1 DEF Open, OpenFails, TypeOK, world, ghosts
<1>8. CASE UNCHANGED vars
  BY <1>8 DEF TypeOK, vars, world, ghosts
<1> QED BY <1>1, <1>2, <1>3, <1>4, <1>5, <1>6, <1>7, <1>8 DEF Next, Observe, Commit, Restart


\* A pass that has begun knows nothing yet.
LEMMA BeginPassInv ==
    ASSUME TypeOK, TypeOK', PassInv, NEW forced \in SUBSET Sources, BeginPass(forced)
    PROVE  PassInv' /\ QuietInv'
<1>1. pass' \in Passes
  BY PassType DEF Observe
<1>2. PassInv'
  BY <1>1 DEF BeginPass, PassInv, Passing, world
<1>3. QuietInv'
  BY DEF BeginPass, QuietInv, Passing, world
<1> QED BY <1>2, <1>3

\* What a step of the world outside means to a pass.
LEMMA WorldPassInv ==
    ASSUME TypeOK, PassInv, QuietInv, World
    PROVE  PassInv' /\ QuietInv'
<1>1. UNCHANGED <<build, published, base, served, pc, pass>>
  BY DEF World, Write, Delete, Mount, Reconfigure, Tick, Daemon
<1>2. gone \subseteq gone' /\ \A s \in Sources : disk'[s] = None => disk[s] = None \/ s \in gone'
  <2>1. ASSUME NEW s \in Sources, NEW c \in Contents, Write(s, c)
        PROVE  gone' = gone /\ \A t \in Sources : disk'[t] = None => disk[t] = None
    <3>1. [content |-> c, mtime |-> clock] \in Files
      BY DEF Files, TypeOK
    <3> QED BY <2>1, <3>1 DEF Write, TypeOK
  <2>2. ASSUME NEW s \in Sources, Delete(s)
        PROVE  gone \subseteq gone' /\ \A t \in Sources : disk'[t] = None => disk[t] = None \/ t \in gone'
    BY <2>2 DEF Delete, TypeOK
  <2>3. CASE (\E v \in Vaults : Mount(v)) \/ Reconfigure \/ Tick
    BY <2>3 DEF Mount, Reconfigure, Tick, ghosts
  <2> QED BY <2>1, <2>2, <2>3 DEF World
<1>3. PassInv'
  <2> SUFFICES ASSUME Passing PROVE PassInv'
    BY <1>1 DEF PassInv, Passing
  <2>1. /\ \A s \in Sources : disk'[s] = None => s \in gone'
        /\ \A s \in pass.walked :
               pass.stat[s] = None => s \in gone' \/ VaultOf[s] \in pass.defective
    BY <1>2 DEF PassInv
  <2>2. NextGeneration' = NextGeneration
    BY <1>1 DEF NextGeneration, NextRow, NextDocuments, Retained, OutcomeRow, Reingest, DocumentsOf
  <2>3. \A v \in Vaults : Finished(v)' <=> Finished(v)
    BY <1>1 DEF Finished
  <2> QED BY <1>1, <2>1, <2>2, <2>3 DEF PassInv, Passing
<1>4. QuietInv'
  <2>1. CASE Tick
    <3>1. UNCHANGED <<disk, mounted, config, quiet>>
      BY <2>1 DEF Tick, ghosts
    <3>2. \A s \in Sources : SeenInv(s) => SeenInv(s)'
      BY <1>1, <3>1 DEF SeenInv, MustRead
    <3>3. pass.ingested \subseteq Sources \/ ~Passing
      BY DEF PassInv, Passes
    <3> QED BY <1>1, <3>1, <3>2, <3>3 DEF QuietInv, Passing
  <2>2. CASE ~Tick
    BY <2>2 DEF World, Write, Delete, Mount, Reconfigure, Disturbed, QuietInv
  <2> QED BY <2>1, <2>2
<1> QED BY <1>3, <1>4

\* Steps that observe a vault or a source.
LEMMA ObservePassInv ==
    ASSUME TypeOK, TypeOK', PassInv, QuietInv, Observe,
           ~(\E forced \in SUBSET Sources : BeginPass(forced))
    PROVE  PassInv' /\ QuietInv'
<1>0. /\ pc = "pass" /\ pc' = "pass"
      /\ UNCHANGED <<disk, mounted, config, build, published, base, gone>>
  BY DEF Observe, VisitVault, Discover, DiscoverFails, IngestUnseen, IngestReused,
     IngestRead, IngestTransient, Ingest, Enumerated, ghosts, world
<1>p. pass \in Passes /\ pass' \in Passes
  BY <1>0, PassType DEF PassInv, Passing
<1>q. quiet' = quiet \/ quiet' = FALSE
  BY DEF Observe, VisitVault, Discover, DiscoverFails, IngestUnseen, IngestReused,
     IngestRead, IngestTransient, ghosts
<1>w. pass.walked \subseteq Sources /\ pass.ingested \subseteq Sources
  BY <1>p DEF Passes
<1>1. ASSUME NEW v \in Vaults, VisitVault(v) PROVE PassInv' /\ QuietInv'
  <2>1. /\ pass'.config = pass.config /\ pass'.walked = pass.walked /\ pass'.stat = pass.stat
        /\ pass'.ingested = pass.ingested /\ pass'.got = pass.got
        /\ pass'.now = pass.now /\ pass'.forced = pass.forced
        /\ pass.defective \subseteq pass'.defective
        /\ pass'.defective \subseteq pass.defective \cup Oversized
    BY <1>1, <1>p DEF VisitVault, Passes
  <2>2. PassInv'
    BY <1>0, <1>p, <2>1 DEF PassInv, Passing
  <2>3. quiet' = quiet
    BY <1>1 DEF VisitVault, ghosts
  <2>4. \A u \in Vaults : u # v => pass'.phase[u] = pass.phase[u]
    BY <1>1, <1>p DEF VisitVault, Passes
  <2>5. pass'.phase[v] = IF v \in mounted THEN "walking" ELSE "unavailable"
    BY <1>1, <1>p DEF VisitVault, Passes
  <2>6. \A s \in Sources : SeenInv(s) => SeenInv(s)'
    BY <1>0, <2>1 DEF SeenInv, MustRead
  <2>7. QuietInv'
    <3> SUFFICES ASSUME quiet PROVE QuietInv'
      BY <2>3 DEF QuietInv
    <3>1. /\ pass'.config = config' /\ pass'.defective \subseteq Oversized
          /\ \A s \in pass'.walked : pass'.stat[s] = disk'[s]
      BY <1>0, <2>1 DEF QuietInv, Passing
    <3>2. \A s \in pass'.ingested : SeenInv(s)'
      BY <1>0, <1>w, <2>1, <2>6 DEF QuietInv, Passing
    <3>3. \A u \in Vaults : /\ pass'.phase[u] = "walking" => u \in mounted'
                            /\ pass'.phase[u] = "unavailable" => u \notin mounted'
      BY <1>0, <2>4, <2>5 DEF QuietInv, Passing
    <3> QED BY <3>1, <3>2, <3>3 DEF QuietInv
  <2> QED BY <2>2, <2>7
<1>2. ASSUME NEW s \in Sources, Discover(s) \/ DiscoverFails(s) PROVE PassInv' /\ QuietInv'
  <2> DEFINE Same ==
               /\ pass'.config = pass.config /\ pass'.phase = pass.phase
               /\ pass'.ingested = pass.ingested /\ pass'.got = pass.got
               /\ pass'.now = pass.now /\ pass'.forced = pass.forced
               /\ pass'.walked = pass.walked \cup {s} /\ s \notin pass.walked
               /\ \A t \in Sources : t # s => pass'.stat[t] = pass.stat[t]
  <2>a. ASSUME Discover(s)
        PROVE  Same /\ pass'.stat[s] = disk[s] /\ pass'.defective = pass.defective
    <3>1. /\ pass' = [pass EXCEPT !.walked = @ \cup {s}, !.stat[s] = disk[s]]
          /\ s \notin pass.walked
      BY <2>a DEF Discover
    <3> QED BY <1>p, <3>1 DEF Passes
  <2>b. ASSUME DiscoverFails(s)
        PROVE  /\ Same /\ pass'.stat[s] = pass.stat[s]
               /\ pass'.defective = pass.defective \cup {VaultOf[s]}
    <3>1. /\ pass' = [pass EXCEPT !.walked = @ \cup {s}, !.defective = @ \cup {VaultOf[s]}]
          /\ s \notin pass.walked
      BY <2>b DEF DiscoverFails
    <3> QED BY <1>p, <3>1 DEF Passes
  <2>1. Same
    BY <1>2, <2>a, <2>b
  <2>2. \/ Discover(s) /\ pass'.stat[s] = disk[s] /\ pass'.defective = pass.defective
        \/ /\ DiscoverFails(s) /\ pass'.stat[s] = pass.stat[s]
           /\ pass'.defective = pass.defective \cup {VaultOf[s]}
    BY <1>2, <2>a, <2>b
  <2>3. s \notin pass.ingested
    BY <1>0, <2>1 DEF PassInv, Passing
  <2>4. \A t \in pass.ingested : t # s /\ pass'.stat[t] = pass.stat[t]
    BY <1>w, <2>1, <2>3
  <2>5. PassInv'
    <3>1. \A t \in pass'.walked :
             pass'.stat[t] = None => t \in gone' \/ VaultOf[t] \in pass'.defective
      BY <1>0, <1>w, <2>1, <2>2 DEF PassInv, Passing
    <3>2. \A t \in Sources : pass'.got[t] # "unseen" =>
             t \in pass'.ingested /\ pass'.stat[t] # None
      BY <1>0, <2>1, <2>4 DEF PassInv, Passing
    <3>3. \A t \in pass'.ingested : t \in pass'.walked
      BY <1>0, <2>1 DEF PassInv, Passing
    <3>4. \A t \in Sources : disk'[t] = None => t \in gone'
      BY <1>0 DEF PassInv, Passing
    <3> QED BY <1>0, <1>p, <3>1, <3>2, <3>3, <3>4 DEF PassInv
  <2>6. QuietInv'
    <3>1. CASE DiscoverFails(s)
      BY <3>1 DEF DiscoverFails, QuietInv
    <3>2. CASE Discover(s) /\ ~DiscoverFails(s)
      <4> SUFFICES ASSUME quiet PROVE QuietInv'
        BY <1>q DEF QuietInv
      <4>1. pass'.stat[s] = disk[s] /\ pass'.defective = pass.defective
        BY <2>2, <3>2
      <4>2. \A t \in pass.ingested : SeenInv(t) => SeenInv(t)'
        BY <1>0, <2>1, <2>4 DEF SeenInv, MustRead
      <4>3. \A t \in pass'.walked : pass'.stat[t] = disk'[t]
        BY <1>0, <1>w, <2>1, <4>1 DEF QuietInv, Passing
      <4> QED BY <1>0, <2>1, <4>1, <4>2, <4>3 DEF QuietInv, Passing
    <3> QED BY <1>2, <3>1, <3>2
  <2> QED BY <2>5, <2>6
<1>3. ASSUME NEW s \in Sources, NEW o \in Contents \cup {"unseen", "reused", "transient"},
             Enumerated(s), Ingest(s, o), o # "unseen" => pass.stat[s] # None,
             quiet' => /\ pass.config = config /\ o # "transient"
                       /\ \/ o = "unseen" /\ (disk[s] = None \/ disk[s].content \in Unprepared)
                          \/ o = "reused" /\ disk[s] # None /\ ~MustRead(s)
                          \/ /\ disk[s] # None /\ o = disk[s].content
                             /\ disk[s].content \notin Unprepared
      PROVE  PassInv' /\ QuietInv'
  <2>1. /\ pass'.config = pass.config /\ pass'.phase = pass.phase
        /\ pass'.walked = pass.walked /\ pass'.stat = pass.stat
        /\ pass'.now = pass.now /\ pass'.forced = pass.forced
        /\ pass'.defective = pass.defective
        /\ pass'.ingested = pass.ingested \cup {s} /\ s \notin pass.ingested
        /\ \A t \in Sources : t # s => pass'.got[t] = pass.got[t]
        /\ pass'.got[s] = o
    BY <1>3, <1>p DEF Ingest, Enumerated, Passes
  <2>2. s \in pass.walked
    BY <1>3 DEF Enumerated, SourcesOf
  <2>3. PassInv'
    <3>1. \A t \in Sources : pass'.got[t] # "unseen" =>
             t \in pass'.ingested /\ pass'.stat[t] # None
      BY <1>0, <1>3, <2>1 DEF PassInv, Passing
    <3>2. \A t \in pass'.ingested : t \in pass'.walked
      BY <1>0, <2>1, <2>2 DEF PassInv, Passing
    <3>3. \A t \in pass'.walked :
             pass'.stat[t] = None => t \in gone' \/ VaultOf[t] \in pass'.defective
      BY <1>0, <2>1 DEF PassInv, Passing
    <3>4. \A t \in Sources : disk'[t] = None => t \in gone'
      BY <1>0 DEF PassInv, Passing
    <3> QED BY <1>0, <1>p, <3>1, <3>2, <3>3, <3>4 DEF PassInv
  <2>4. QuietInv'
    <3> SUFFICES ASSUME quiet' PROVE QuietInv'
      BY DEF QuietInv
    <3>0. quiet
      BY <1>q
    <3>1. MustRead(s)' <=> MustRead(s)
      BY <1>0, <2>1 DEF MustRead
    <3>2. SeenInv(s)'
      BY <1>0, <1>3, <2>1, <3>1 DEF SeenInv
    <3>3. \A t \in pass.ingested : SeenInv(t) => SeenInv(t)'
      BY <1>0, <1>w, <2>1 DEF SeenInv, MustRead
    <3>4. \A t \in pass'.ingested : SeenInv(t)'
      BY <1>0, <2>1, <3>0, <3>2, <3>3 DEF QuietInv, Passing
    <3> QED BY <1>0, <2>1, <3>0, <3>4 DEF QuietInv, Passing
  <2> QED BY <2>3, <2>4
<1>4. ASSUME NEW s \in Sources, Enumerated(s), quiet
      PROVE  pass.stat[s] = disk[s] /\ pass.config = config
  <2>1. s \in pass.walked
    BY <1>4 DEF Enumerated, SourcesOf
  <2> QED BY <1>0, <1>4, <2>1 DEF QuietInv, Passing
<1>5. ASSUME NEW s \in Sources, IngestUnseen(s) PROVE PassInv' /\ QuietInv'
  <2>1. Enumerated(s) /\ Ingest(s, "unseen") /\ pass.stat[s] = None /\ quiet' = quiet
    BY <1>5 DEF IngestUnseen
  <2> QED BY <1>3, <1>4, <2>1
<1>6. ASSUME NEW s \in Sources, IngestReused(s) PROVE PassInv' /\ QuietInv'
  <2>1. /\ Enumerated(s) /\ Ingest(s, "reused") /\ pass.stat[s] # None
        /\ ~MustRead(s) /\ quiet' = quiet
    BY <1>6 DEF IngestReused
  <2> QED BY <1>3, <1>4, <2>1
<1>7. ASSUME NEW s \in Sources, IngestTransient(s) PROVE PassInv' /\ QuietInv'
  <2>1. /\ Enumerated(s) /\ Ingest(s, "transient") /\ pass.stat[s] # None
        /\ quiet' = FALSE
    BY <1>7 DEF IngestTransient, Reads
  <2> QED BY <1>3, <2>1
<1>8. ASSUME NEW s \in Sources, IngestRead(s) PROVE PassInv' /\ QuietInv'
  <2>1. /\ Enumerated(s) /\ pass.stat[s] # None /\ disk[s] # None /\ quiet' = quiet
        /\ Ingest(s, IF disk[s].content \in Unprepared THEN "unseen" ELSE disk[s].content)
    BY <1>8 DEF IngestRead, Reads
  <2>2. disk[s].content \in Contents
    BY <2>1 DEF TypeOK, Files
  <2>3. CASE disk[s].content \in Unprepared
    BY <1>3, <1>4, <2>1, <2>3
  <2>4. CASE disk[s].content \notin Unprepared
    BY <1>3, <1>4, <2>1, <2>2, <2>4
  <2> QED BY <2>3, <2>4
<1> QED BY <1>1, <1>2, <1>5, <1>6, <1>7, <1>8 DEF Observe


\* Converged, for a generation g.
ConvergedTo(g) ==
    \A s \in Sources :
        /\ VaultOf[s] \notin config.vaults => g.index[s] = None
        /\ VaultOf[s] \in config.vaults \cap mounted =>
              \/ g.index[s] = DocumentsOnDisk(s)
              \/ /\ Basis = "metadata_audit"
                 /\ disk[s] # None /\ g.rows[s] # None
                 /\ SizeOf[disk[s].content] = SizeOf[g.rows[s].content]
                 /\ disk[s].mtime = g.rows[s].mtime
                 /\ g.rows[s].reg = config.reg[VaultOf[s]]
              \/ DocumentsOnDisk(s) = None /\ VaultOf[s] \in Oversized

\* The plan of a pass during which nothing moved is what the files hold.
LEMMA PlanConverges ==
    ASSUME TypeOK, AgreementInv, PassInv, QuietInv, Passing, quiet,
           \A v \in Vaults : Finished(v)
    PROVE  ConvergedTo(NextGeneration)
<1> SUFFICES ASSUME NEW s \in Sources
             PROVE  /\ VaultOf[s] \notin config.vaults => NextGeneration.index[s] = None
                    /\ VaultOf[s] \in config.vaults \cap mounted =>
                         \/ NextGeneration.index[s] = DocumentsOnDisk(s)
                         \/ /\ Basis = "metadata_audit"
                            /\ disk[s] # None /\ NextGeneration.rows[s] # None
                            /\ SizeOf[disk[s].content] = SizeOf[NextGeneration.rows[s].content]
                            /\ disk[s].mtime = NextGeneration.rows[s].mtime
                            /\ NextGeneration.rows[s].reg = config.reg[VaultOf[s]]
                         \/ DocumentsOnDisk(s) = None /\ VaultOf[s] \in Oversized
  BY DEF ConvergedTo
<1>1. NextGeneration.rows[s] = NextRow(s)
  BY DEF NextGeneration
<1>2. NextGeneration.index[s] = DocumentsOf(NextRow(s))
  BY <1>1, PlanAgrees DEF AgreementInv, Agrees
<1>3. pass.config = config /\ pass \in Passes
  BY DEF QuietInv, PassInv
<1>4. CASE VaultOf[s] \notin config.vaults
  BY <1>2, <1>3, <1>4 DEF NextRow, DocumentsOf
<1>5. CASE VaultOf[s] \in config.vaults \cap mounted
  <2>1. pass.phase[VaultOf[s]] = "walking" /\ s \in pass.ingested
    BY <1>3, <1>5 DEF Finished, QuietInv, SourcesOf
  <2>2. pass.stat[s] = disk[s] /\ SeenInv(s)
    BY <2>1 DEF QuietInv, PassInv
  <2>3. CASE pass.got[s] = "unseen" /\ (disk[s] = None \/ disk[s].content \in Unprepared)
    <3>1. DocumentsOnDisk(s) = None
      BY <2>3 DEF DocumentsOnDisk
    <3>2. CASE VaultOf[s] \in pass.defective
      <4>1. VaultOf[s] \in Oversized
        BY <3>2 DEF QuietInv
      <4> QED BY <1>5, <3>1, <4>1
    <3>3. CASE VaultOf[s] \notin pass.defective
      <4>1. ~Retained(s) /\ pass.got[s] \notin Contents
        BY <2>1, <2>3, <3>3 DEF Retained
      <4>2. NextRow(s) = None
        BY <4>1 DEF NextRow
      <4> QED BY <1>2, <1>5, <3>1, <4>2 DEF DocumentsOf
    <3> QED BY <3>2, <3>3
  <2>4. CASE pass.got[s] = "reused" /\ disk[s] # None /\ ~MustRead(s)
    <3>1. NextRow(s) = base.rows[s]
      BY <1>3, <1>5, <2>4 DEF NextRow, Retained
    <3>2. /\ base.rows[s] # None /\ Basis = "metadata_audit"
          /\ base.rows[s].reg = config.reg[VaultOf[s]]
          /\ SizeOf[base.rows[s].content] = SizeOf[disk[s].content]
          /\ base.rows[s].mtime = disk[s].mtime
      BY <1>3, <2>2, <2>4 DEF MustRead
    <3> QED BY <1>1, <1>5, <2>4, <3>1, <3>2
  <2>5. CASE /\ disk[s] # None /\ pass.got[s] = disk[s].content
             /\ disk[s].content \notin Unprepared
    <3>1. disk[s].content \in Contents
      BY <2>5 DEF TypeOK, Files
    <3>2. ~Retained(s)
      BY <2>1, <2>5, <3>1 DEF Retained
    <3>3. NextRow(s) = [content |-> disk[s].content, mtime |-> disk[s].mtime,
                        reg |-> config.reg[VaultOf[s]], identity |-> build]
      BY <1>3, <1>5, <2>2, <2>5, <3>1, <3>2 DEF NextRow, OutcomeRow
    <3> QED BY <1>2, <1>5, <2>5, <3>3 DEF DocumentsOnDisk
  <2> QED BY <2>2, <2>3, <2>4, <2>5 DEF SeenInv
<1> QED BY <1>4, <1>5

\* Every step keeps what is known while nothing moved.
LEMMA NextFresh ==
    ASSUME TypeOK, AgreementInv, PassInv, QuietInv, FreshInv, [Next]_vars
    PROVE  FreshInv'
<1>q. ASSUME UNCHANGED <<disk, mounted, config, build, served>>, fresh' => fresh,
             pc' # "down" \/ ~fresh'
      PROVE  FreshInv'
  BY <1>q DEF FreshInv, Converged, DocumentsOnDisk, DocumentsOf, MetadataEqual
<1>c. ASSUME UNCHANGED <<disk, mounted, config, build>>, pc' = "idle", fresh' = quiet,
             served' = NextGeneration, Passing, \A v \in Vaults : Finished(v)
      PROVE  FreshInv'
  <2> SUFFICES ASSUME quiet PROVE Converged'
    BY <1>c DEF FreshInv
  <2>1. ConvergedTo(NextGeneration)
    BY <1>c, PlanConverges
  <2>2. \A s \in Sources : DocumentsOnDisk(s)' = DocumentsOnDisk(s)
    BY <1>c DEF DocumentsOnDisk, DocumentsOf
  <2> QED BY <1>c, <2>1, <2>2 DEF Converged, ConvergedTo, MetadataEqual
<1>1. CASE World
  <2>1. CASE Tick
    BY <1>q, <2>1 DEF Tick, Daemon, ghosts, FreshInv
  <2>2. CASE ~Tick
    BY <1>1, <2>2 DEF World, Write, Delete, Mount, Reconfigure, Disturbed, FreshInv
  <2> QED BY <2>1, <2>2
<1>2. CASE Observe
  <2>1. /\ UNCHANGED <<disk, mounted, config, build, served, fresh>>
        /\ pc' = "pass"
    BY <1>2 DEF Observe, BeginPass, VisitVault, Discover, DiscoverFails, IngestUnseen,
       IngestReused, IngestRead, IngestTransient, Ingest, Enumerated, ghosts, world
  <2> QED BY <1>q, <2>1
<1>3. CASE PassFails \/ Publish \/ InstallFails
  BY <1>3, <1>q DEF PassFails, Publish, InstallFails, world, ghosts
<1>4. CASE KeepGeneration
  <2>1. served = base
    BY <1>4 DEF KeepGeneration, AgreementInv
  <2> QED BY <1>4, <1>c, <2>1 DEF KeepGeneration, world, Passing
<1>5. CASE Install
  <2>1. published = NextGeneration /\ \A v \in Vaults : Finished(v)
    BY <1>5 DEF Install, PassInv, Passing
  <2> QED BY <1>5, <1>c, <2>1 DEF Install, world, Passing
<1>6. CASE Kill
  BY <1>6 DEF Kill, FreshInv
<1>7. ASSUME NEW b \in Builds, Open(b) \/ OpenFails(b) PROVE FreshInv'
  BY <1>7 DEF Open, OpenFails, FreshInv, ghosts
<1>8. CASE UNCHANGED vars
  BY <1>8, <1>q DEF vars, world, ghosts, FreshInv
<1> QED BY <1>1, <1>2, <1>3, <1>4, <1>5, <1>6, <1>7, <1>8 DEF Next, Commit, Restart

\* The remaining steps end a pass, or leave it as it is.
LEMMA NextPassInv ==
    ASSUME TypeOK, TypeOK', PassInv, QuietInv, [Next]_vars
    PROVE  PassInv' /\ QuietInv'
<1>1. CASE World
  BY <1>1, WorldPassInv
<1>2. CASE Observe
  <2>1. CASE \E forced \in SUBSET Sources : BeginPass(forced)
    BY <2>1, BeginPassInv
  <2> QED BY <1>2, <2>1, ObservePassInv
<1>3. CASE PassFails \/ KeepGeneration \/ Install \/ InstallFails \/ Kill
  <2>1. ~Passing'
    BY <1>3 DEF PassFails, KeepGeneration, Install, InstallFails, Kill, Passing
  <2> QED BY <2>1 DEF PassInv, QuietInv
<1>4. ASSUME NEW b \in Builds, Open(b) \/ OpenFails(b) PROVE PassInv' /\ QuietInv'
  <2>1. ~Passing'
    BY <1>4 DEF Open, OpenFails, Passing
  <2> QED BY <2>1 DEF PassInv, QuietInv
<1>5. CASE Publish
  <2>1. /\ UNCHANGED <<disk, mounted, config, build, base, pass, quiet, gone>>
        /\ pc = "pass" /\ pc' = "install" /\ published' = NextGeneration
        /\ \A v \in Vaults : Finished(v)
    BY <1>5 DEF Publish, world, ghosts
  <2>2. NextGeneration' = NextGeneration
    BY <2>1 DEF NextGeneration, NextRow, NextDocuments, Retained, OutcomeRow, Reingest, DocumentsOf
  <2>3. \A v \in Vaults : Finished(v)'
    BY <2>1 DEF Finished
  <2>4. PassInv'
    BY <2>1, <2>2, <2>3 DEF PassInv, Passing
  <2>5. QuietInv'
    BY <2>1 DEF QuietInv, Passing, SeenInv, MustRead
  <2> QED BY <2>4, <2>5
<1>6. CASE UNCHANGED vars
  <2>1. UNCHANGED <<disk, mounted, config, build, published, base, pass, pc, quiet, gone>>
    BY <1>6 DEF vars, world, ghosts
  <2>2. NextGeneration' = NextGeneration
    BY <2>1 DEF NextGeneration, NextRow, NextDocuments, Retained, OutcomeRow, Reingest, DocumentsOf
  <2>3. \A v \in Vaults : Finished(v)' <=> Finished(v)
    BY <2>1 DEF Finished
  <2> QED BY <2>1, <2>2, <2>3 DEF PassInv, QuietInv, Passing, SeenInv, MustRead
<1> QED BY <1>1, <1>2, <1>3, <1>4, <1>5, <1>6 DEF Next, Commit, Restart

\* The invariant of passes holds in every state.
THEOREM PassInvariant == Spec => []DesktopInv
<1>1. Init => DesktopInv
  <2> SUFFICES ASSUME Init PROVE DesktopInv
    OBVIOUS
  <2>1. published \in Generations /\ config \in Configs
    BY DEF Init, Generations
  <2>2. clock \in 0 .. MaxClock
    BY DEF Init
  <2>3. TypeOK
    BY <2>1, <2>2 DEF Init, TypeOK
  <2> QED BY <2>3 DEF Init, DesktopInv, PassInv, QuietInv, FreshInv, Passing
<1>2. AgreementInv /\ DesktopInv /\ [Next]_vars => DesktopInv'
  BY NextType, NextPassInv, NextFresh DEF DesktopInv
<1> QED BY <1>1, <1>2, AgreementInvariant, PTL DEF Spec

\* Every variable of the manager stays in its type.
THEOREM TypeCorrect == Spec => []TypeOK
<1>1. DesktopInv => TypeOK
  BY DEF DesktopInv
<1> QED BY <1>1, PassInvariant, PTL

\* After a pass during which nothing moved and every read succeeded, the daemon
\* serves exactly what the files of the available vaults hold, for any number
\* of vaults and sources, whatever failed, changed or restarted before.
THEOREM QuietPassConverges == Spec => []Converged
<1>1. DesktopInv => Converged
  BY DEF DesktopInv, FreshInv, Converged
<1> QED BY <1>1, PassInvariant, PTL

\* A source leaves the answers only if it was absent during the pass, its vault
\* is not registered any more, or a read found nothing to index in it.
THEOREM NothingRemovedInError == Spec => RemovedOnlyWhenGone
<1> DEFINE Reason(s) == \/ s \in gone
                        \/ VaultOf[s] \notin pass.config.vaults
                        \/ s \in pass.ingested /\ pass.stat[s] # None
                             /\ pass.got[s] \in Skipped \cup {"unseen"}
<1>1. ASSUME AgreementInv, DesktopInv, Next, NEW s \in Sources,
             served # None, served' # None,
             served.index[s] # None, served'.index[s] = None
      PROVE  Reason(s)
  <2>1. pc # "down" /\ served = base
    BY <1>1 DEF AgreementInv
  <2>2. Install
    BY <1>1, <2>1 DEF Next, World, Write, Delete, Mount, Reconfigure, Tick, Daemon,
       Observe, BeginPass, VisitVault, Discover, DiscoverFails, IngestUnseen, IngestReused,
       IngestRead, IngestTransient, Ingest, Commit, PassFails, KeepGeneration, Publish,
       InstallFails, Restart, Kill, Open, OpenFails
  <2>3. served' = NextGeneration /\ pass \in Passes /\ \A v \in Vaults : Finished(v)
    BY <1>1, <2>2 DEF Install, DesktopInv, PassInv, Passing
  <2>4. DocumentsOf(NextRow(s)) = None /\ DocumentsOf(base.rows[s]) # None
    <3>1. Agrees(NextGeneration)
      BY <1>1, PlanAgrees DEF AgreementInv
    <3>2. NextGeneration.rows[s] = NextRow(s)
      BY DEF NextGeneration
    <3> QED BY <1>1, <2>1, <2>3, <3>1, <3>2 DEF AgreementInv, Agrees
  <2> SUFFICES ASSUME VaultOf[s] \in pass.config.vaults PROVE Reason(s)
    OBVIOUS
  <2>5. ~Retained(s)
    BY <2>4 DEF NextRow
  <2>6. s \in pass.ingested /\ pass.phase[VaultOf[s]] = "walking"
    BY <2>3, <2>5 DEF Finished, Retained, SourcesOf
  <2>7. CASE pass.got[s] \in Contents
    <3>1. NextRow(s) = OutcomeRow(s) /\ pass.stat[s] \in Files
      BY <1>1, <2>2, <2>3, <2>5, <2>7 DEF NextRow, DesktopInv, PassInv, Passing, Install, Passes
    <3>2. OutcomeRow(s) \in Rows
      BY <1>1, <2>3, <2>7, <3>1 DEF OutcomeRow, Rows, Files, Passes, Configs, DesktopInv, TypeOK
    <3>3. OutcomeRow(s).content \in Skipped
      <4>1. OutcomeRow(s) # None
        BY <3>2
      <4>2. CASE OutcomeRow(s).content \notin Skipped
        <5>1. DocumentsOf(NextRow(s)) \in Documents
          BY <3>1, <3>2, <4>1, <4>2 DEF DocumentsOf, Documents, Rows
        <5> QED BY <2>4, <5>1
      <4> QED BY <4>2
    <3>4. pass.got[s] \in Skipped
      BY <3>3 DEF OutcomeRow
    <3> QED BY <2>6, <3>1, <3>4
  <2>8. CASE pass.got[s] \notin Contents
    <3>1. pass.got[s] = "unseen" /\ VaultOf[s] \notin pass.defective
      BY <2>3, <2>5, <2>8 DEF Retained, Passes
    <3>2. s \in pass.walked
      BY <1>1, <2>2, <2>6 DEF DesktopInv, PassInv, Passing, Install
    <3>3. CASE pass.stat[s] = None
      BY <1>1, <2>2, <3>1, <3>2, <3>3 DEF DesktopInv, PassInv, Passing, Install
    <3>4. CASE pass.stat[s] # None
      BY <2>6, <3>1, <3>4
    <3> QED BY <3>3, <3>4
  <2> QED BY <2>7, <2>8
<1>2. AgreementInv /\ DesktopInv /\ [Next]_vars =>
        [\A s \in Sources :
           (served # None /\ served' # None) =>
           ((served.index[s] # None /\ served'.index[s] = None) => Reason(s))]_vars
  <2> HIDE DEF Reason
  <2> QED BY <1>1
<1> QED BY <1>2, AgreementInvariant, PassInvariant, PTL DEF Spec, RemovedOnlyWhenGone

-----------------------------------------------------------------------------
(* The rolling audit                                                       *)

\* One equation of the walk.
Turn(b, lengths, w, k) ==
    IF k = 0
      THEN [start |-> b.cursor % Len(lengths), examined |-> 0, selected |-> {},
            sources |-> b.sources, bytes |-> b.bytes]
      ELSE IF w[k - 1].sources = 0 THEN w[k - 1] ELSE Examine(w[k - 1], Len(lengths), lengths)

Walks(b, lengths, w, m) ==
    w = [k \in 0 .. m |-> Turn(b, lengths, w, k)]

\* A set of numbers has a least element.
LEMMA LeastNat ==
    ASSUME NEW S \in SUBSET Nat, S # {}
    PROVE  \E x \in S : \A y \in S : x =< y
<1>1. \E x \in S : \A y \in S : ~ (<<y, x>> \in OpToRel(<, Nat))
  BY NatLessThanWellFounded, WFMin, Zenon
<1>2. PICK x \in S : \A y \in S : ~(y < x)
  BY <1>1, Zenon DEF OpToRel
<1> QED BY <1>2

\* A walk of any length exists.
LEMMA WalkExists ==
    ASSUME NEW b, NEW lengths, NEW n \in Nat
    PROVE  \E w : Walks(b, lengths, w, n)
<1> DEFINE Bad == {k \in 0 .. n : ~ \E w : Walks(b, lengths, w, k)}
<1> SUFFICES ASSUME Bad # {} PROVE FALSE
  OBVIOUS
<1>0. Bad \in SUBSET Nat
  OBVIOUS
<1>1. PICK k \in Bad : \A j \in Bad : k =< j
  <2> HIDE DEF Bad
  <2> QED BY <1>0, LeastNat
<1>2. CASE k = 0
  <2> DEFINE w == [j \in 0 .. 0 |-> Turn(b, lengths, <<>>, 0)]
  <2>1. Walks(b, lengths, w, 0)
    BY DEF Walks, Turn
  <2> QED BY <1>1, <1>2, <2>1
<1>3. CASE k # 0
  <2>1. k - 1 \in 0 .. n /\ k - 1 \notin Bad /\ k \in 1 .. n
    BY <1>1, <1>3
  <2>2. PICK v : Walks(b, lengths, v, k - 1)
    BY <2>1
  <2> DEFINE w == [j \in 0 .. k |-> IF j < k THEN v[j] ELSE Turn(b, lengths, v, k)]
  <2>3. \A j \in 0 .. k : w[j] = Turn(b, lengths, w, j)
    <3> TAKE j \in 0 .. k
    <3>0. v = [i \in 0 .. (k - 1) |-> Turn(b, lengths, v, i)]
      BY <2>2 DEF Walks
    <3>1. CASE j = 0
      <4>1. w[j] = v[j]  
        BY <2>1, <3>1
      <4>2. v[j] = Turn(b, lengths, v, j)
        BY <3>0, <2>1, <3>1
      <4> QED BY <4>1, <4>2, <3>1 DEF Turn
    <3>2. CASE j # 0
      <4>1. j - 1 \in 0 .. (k - 1) /\ w[j - 1] = v[j - 1]
        BY <2>1, <3>2
      <4>2. Turn(b, lengths, w, j) = Turn(b, lengths, v, j)
        BY <4>1, <3>2 DEF Turn
      <4>3. w[j] = Turn(b, lengths, v, j)
        BY <3>0, <2>1
      <4> QED BY <4>2, <4>3
    <3> QED BY <3>1, <3>2
  <2>4. Walks(b, lengths, w, k)
    BY <2>3, Zenon DEF Walks
  <2> QED BY <1>1, <2>4
<1> QED BY <1>2, <1>3

\* The loop of select over a vault is a walk of as many turns as it has candidates.
LEMMA LoopIsWalk ==
    ASSUME NEW b, NEW lengths, Len(lengths) \in Nat
    PROVE  \E w : Walks(b, lengths, w, Len(lengths)) /\ Loop(b, lengths) = w[Len(lengths)]
<1> DEFINE P(w) == Walks(b, lengths, w, Len(lengths))
           c == CHOOSE w : P(w)
<1>1. \E w : P(w)
  BY WalkExists
<1>2. P(c)
  BY <1>1, Zenon
<1>3. Loop(b, lengths) = c[Len(lengths)]
  BY Zenon DEF Loop, Walks, Turn
<1> QED BY <1>2, <1>3

\* Facts about the remainder.
LEMMA Remainder ==
    ASSUME NEW x \in Nat, NEW n \in Nat \ {0}
    PROVE  /\ x % n \in 0 .. (n - 1)
           /\ x < n => x % n = x
           /\ n =< x /\ x < 2 * n => x % n = x - n
OBVIOUS


\* Examined after k turns: the candidates in a row from the start, all selected.
Examined(b, k) == IF k < b.sources THEN k ELSE b.sources

Walked(b, lengths, w, k) ==
    \E bytes \in Nat :
        /\ w = [start    |-> b.cursor % Len(lengths),
                examined |-> Examined(b, k),
                selected |-> {Index(b.cursor % Len(lengths), j, Len(lengths)) :
                                j \in 0 .. (Examined(b, k) - 1)},
                sources  |-> b.sources - Examined(b, k),
                bytes    |-> bytes]
        /\ \A i \in 1 .. Len(lengths) : lengths[i] * (b.sources - Examined(b, k)) =< bytes

\* A multiple is not less.
LEMMA AtLeastOnce ==
    ASSUME NEW x \in Nat, NEW y \in Nat \ {0}, NEW z \in Nat, x * y =< z
    PROVE  x =< z
<1>1. PICK p \in Nat : y = p + 1
  <2>1. y - 1 \in Nat /\ y = (y - 1) + 1
    OBVIOUS
  <2> QED BY <2>1
<1>2. x * y = x * p + x /\ x * p \in Nat
  BY <1>1
<1> QED BY <1>2

\* One source of y of them is taken, and every other one still fits that often.
LEMMA StillFits ==
    ASSUME NEW x \in Nat, NEW z \in Nat, NEW y \in Nat, NEW t \in Nat,
           x * (y + 1) =< t, z * (y + 1) =< t
    PROVE  z * y =< t - x
<1>1. x * (y + 1) = x * y + x /\ z * (y + 1) = z * y + z /\ x * y \in Nat /\ z * y \in Nat
  OBVIOUS
<1>2. CASE x =< z
  BY <1>1, <1>2
<1>3. CASE z < x
  <2>1. z * y =< x * y
    <3>1. PICK p \in Nat : x = z + p
      <4>1. x - z \in Nat /\ x = z + (x - z)
        BY <1>3
      <4> QED BY <4>1
    <3>2. x * y = z * y + p * y /\ p * y \in Nat
      BY <3>1
    <3> QED BY <3>2, <1>1
  <2> QED BY <2>1, <1>1
<1> QED BY <1>2, <1>3

\* A walk selects the candidates from the cursor on, wrapping round, as many as
\* the budget of sources lets it examine, each one the budget of bytes allows.
LEMMA WalkTakes ==
    ASSUME NEW lengths \in Seq(Nat), lengths # <<>>,
           NEW b, b.cursor \in Nat, b.sources \in Nat, b.bytes \in Nat,
           \A i \in 1 .. Len(lengths) : lengths[i] * b.sources =< b.bytes,
           NEW w, Walks(b, lengths, w, Len(lengths))
    PROVE  Walked(b, lengths, w[Len(lengths)], Len(lengths))
<1> DEFINE n == Len(lengths)
           start == b.cursor % n
           Bad == {k \in 0 .. n : ~Walked(b, lengths, w[k], k)}
<1>n. n \in Nat \ {0}
  OBVIOUS
<1>s. start \in Nat
  <2> HIDE DEF n
  <2>1. b.cursor % n \in 0 .. (n - 1)
    BY <1>n, Remainder
  <2> QED BY <1>n, <2>1
<1> SUFFICES ASSUME Bad # {} PROVE FALSE
  BY <1>n
<1>0. Bad \in SUBSET Nat
  OBVIOUS
<1>1. PICK k \in Bad : \A j \in Bad : k =< j
  <2> HIDE DEF Bad
  <2> QED BY <1>0, LeastNat
<1>w. \A j \in 0 .. n : w[j] = Turn(b, lengths, w, j)
  <2> HIDE DEF n
  <2>1. w = [j \in 0 .. n |-> Turn(b, lengths, w, j)]
    BY DEF Walks, n
  <2> QED BY <2>1
<1>2. CASE k = 0
  <2>1. w[0] = [start |-> start, examined |-> 0, selected |-> {},
                sources |-> b.sources, bytes |-> b.bytes]
    <3>1. w[0] = Turn(b, lengths, w, 0)
      BY <1>w, <1>n
    <3> QED BY <3>1 DEF Turn
  <2>2. Examined(b, 0) = 0
    BY DEF Examined
  <2>3. {Index(start, j, n) : j \in 0 .. (0 - 1)} = {}
    OBVIOUS
  <2>5. \A i \in 1 .. n : lengths[i] * (b.sources - 0) =< b.bytes
    OBVIOUS
  <2> HIDE DEF n, start
  <2>6. w[0] = [start |-> start, examined |-> 0,
                selected |-> {Index(start, j, n) : j \in 0 .. (0 - 1)},
                sources |-> b.sources - 0, bytes |-> b.bytes]
    <3>1. b.sources - 0 = b.sources
      OBVIOUS
    <3> QED BY <2>1, <2>3, <3>1
  <2>4. Walked(b, lengths, w[0], 0)
    BY <2>6, <2>2, <2>5 DEF Walked, n, start
  <2> QED BY <1>2, <1>1, <2>4
<1>3. CASE k # 0
  <2>1. k \in 1 .. n /\ k - 1 \in 0 .. n /\ k - 1 \notin Bad
    BY <1>1, <1>3
  <2> DEFINE e == Examined(b, k - 1)
             v == w[k - 1]
  <2>2. Walked(b, lengths, v, k - 1)
    BY <2>1
  <2>3. w[k] = IF v.sources = 0 THEN v ELSE Examine(v, n, lengths)
    BY <2>1, <1>w, <1>3 DEF Turn
  <2>4. PICK bytes \in Nat :
          /\ v = [start |-> start, examined |-> e,
                  selected |-> {Index(start, j, n) : j \in 0 .. (e - 1)},
                  sources |-> b.sources - e, bytes |-> bytes]
          /\ \A i \in 1 .. n : lengths[i] * (b.sources - e) =< bytes
    BY <2>2 DEF Walked
  <2> HIDE DEF v
  <2>5. CASE b.sources = e
    <3>1. Examined(b, k) = e
      BY <2>1, <2>5 DEF Examined
    <3>2. w[k] = v
      BY <2>3, <2>4, <2>5
    <3>3. Walked(b, lengths, w[k], k)
      BY <2>4, <3>1, <3>2 DEF Walked
    <3> QED BY <3>3, <1>1
  <2>6. CASE b.sources # e
    <3>1. e = k - 1 /\ Examined(b, k) = k /\ k =< b.sources
      BY <2>1, <2>6 DEF Examined
    <3> DEFINE i == Index(start, e, n)
    <3> HIDE DEF n, start, e
    <3>3. i \in 1 .. n
      <4>1. start + e \in Nat
        BY <1>s, <2>1, <3>1
      <4>2. (start + e) % n \in 0 .. (n - 1)
        BY <4>1, <1>n, Remainder
      <4> QED BY <4>2, <1>n DEF Index
    <3> HIDE DEF i
    <3>4. lengths[i] \in Nat /\ lengths[i] * (b.sources - e) =< bytes
      BY <2>4, <3>3 DEF n
    <3>5. lengths[i] =< bytes
      <4>2. b.sources - e \in Nat \ {0}
        BY <2>1, <3>1
      <4> QED BY <3>4, <4>2, AtLeastOnce
    <3>6. v.sources # 0
      BY <2>1, <2>4, <3>1
    <3>7. w[k] = [v EXCEPT !.examined = @ + 1, !.selected = @ \cup {i},
                           !.sources = @ - 1, !.bytes = @ - lengths[i]]
      BY <2>3, <3>6, <3>5, <3>4, <2>4 DEF Examine, i
    <3>8. {Index(start, j, n) : j \in 0 .. (e - 1)} \cup {i}
            = {Index(start, j, n) : j \in 0 .. (k - 1)}
      BY <3>1, <2>1 DEF i
    <3>9. w[k] = [start |-> start, examined |-> k,
                  selected |-> {Index(start, j, n) : j \in 0 .. (k - 1)},
                  sources |-> b.sources - k, bytes |-> bytes - lengths[i]]
      <4>1. w[k] = [start |-> start, examined |-> e + 1,
                  selected |-> {Index(start, j, n) : j \in 0 .. (e - 1)} \cup {i},
                  sources |-> b.sources - e - 1, bytes |-> bytes - lengths[i]]
        BY <3>7, <2>4
      <4>2. e + 1 = k /\ b.sources - e - 1 = b.sources - k
        BY <3>1, <2>1
      <4> QED BY <4>1, <3>8, <4>2
    <3>10. \A l \in 1 .. n : lengths[l] * (b.sources - k) =< bytes - lengths[i]
      <4> TAKE l \in 1 .. n
      <4>1. b.sources - k \in Nat /\ b.sources - e = (b.sources - k) + 1
        BY <2>1, <3>1
      <4>2. lengths[l] \in Nat
        BY DEF n
      <4>3. lengths[i] \in Nat /\ lengths[i] * (b.sources - e) =< bytes
        BY <3>4
      <4>4. lengths[l] * (b.sources - e) =< bytes
        BY <2>4
      <4> QED BY <4>1, <4>2, <4>3, <4>4, StillFits
    <3>11. Walked(b, lengths, w[k], k)
      <4>1. bytes - lengths[i] \in Nat
        BY <3>4, <3>5
      <4> QED BY <3>9, <3>10, <3>1, <4>1 DEF Walked, n, start
    <3> QED BY <3>11, <1>1
  <2> QED BY <2>5, <2>6
<1> QED BY <1>2, <1>3

-----------------------------------------------------------------------------
\* How far candidate i of n is ahead of the cursor.
Distance(at, i, n) ==
    IF i - 1 >= (at % n) THEN i - 1 - (at % n) ELSE i - 1 + n - (at % n)

\* The inductive invariant of AuditBound: the rotation reaches a candidate
\* before its age does.
RotationInv ==
    /\ vaults \in Shapes
    /\ sourceLimit \in SourceLimits
    /\ Len(vaults) = 1 /\ BytesNeverBind =>
         /\ cursor \in Nat
         /\ age \in [Candidates -> Nat]
         /\ \A i \in 1 .. Len(vaults[1]) :
               age[<<1, i>>] * sourceLimit + Distance(cursor, i, Len(vaults[1])) < Len(vaults[1])

\* What Select does for a budget whose bytes cannot bind.
LEMMA SelectTakes ==
    ASSUME NEW lengths \in Seq(Nat), lengths # <<>>,
           NEW b, b.cursor \in Nat, b.sources \in Nat \ {0}, b.bytes \in Nat,
           \A i \in 1 .. Len(lengths) : lengths[i] * b.sources =< b.bytes,
           NEW e \in Nat, e = Examined(b, Len(lengths))
    PROVE  /\ Select(b, lengths).selected
                = {Index(b.cursor % Len(lengths), j, Len(lengths)) : j \in 0 .. (e - 1)}
           /\ Select(b, lengths).budget.cursor
                = ((b.cursor % Len(lengths)) + e) % Len(lengths)
<1>1. PICK w : Walks(b, lengths, w, Len(lengths)) /\ Loop(b, lengths) = w[Len(lengths)]
  BY LoopIsWalk
<1>2. Walked(b, lengths, Loop(b, lengths), Len(lengths))
  BY <1>1, WalkTakes
<1>3. /\ Loop(b, lengths).selected
            = {Index(b.cursor % Len(lengths), j, Len(lengths)) : j \in 0 .. (e - 1)}
      /\ Loop(b, lengths).start = b.cursor % Len(lengths)
      /\ Loop(b, lengths).examined = e
  BY <1>2 DEF Walked
<1> QED BY <1>3 DEF Select, Budget

\* A candidate is selected when the cursor is less than e away from it, and the
\* cursor comes e nearer to the others.
LEMMA Rotation ==
    ASSUME NEW n \in Nat \ {0}, NEW at \in Nat, NEW e \in 0 .. n, NEW i \in 1 .. n
    PROVE  LET to == ((at % n) + e) % n
           IN  /\ to \in Nat
               /\ Distance(at, i, n) \in 0 .. (n - 1)
               /\ Distance(at, i, n) < e
                    => i \in {Index(at % n, j, n) : j \in 0 .. (e - 1)}
               /\ Distance(at, i, n) >= e
                    => Distance(to, i, n) = Distance(at, i, n) - e
<1> DEFINE s == at % n
           to == (s + e) % n
           d == Distance(at, i, n)
<1>1. s \in 0 .. (n - 1)
  BY Remainder
<1>2. to \in 0 .. (n - 1) /\ to = IF s + e < n THEN s + e ELSE s + e - n
  <2> HIDE DEF s
  <2>1. s + e \in Nat /\ s + e < 2 * n
    BY <1>1
  <2>2. to \in 0 .. (n - 1) /\ (s + e < n => to = s + e) /\ (n =< s + e => to = s + e - n)
    <3> DEFINE x == s + e
    <3> HIDE DEF x
    <3>1. x \in Nat /\ x < 2 * n
      BY <2>1 DEF x
    <3>2. to = x % n
      BY DEF x
    <3> HIDE DEF to
    <3>3. to \in 0 .. (n - 1) /\ (x < n => to = x) /\ (n =< x => to = x - n)
      BY <3>1, <3>2, Remainder
    <3>4. x = s + e
      BY DEF x
    <3> QED BY <1>1, <3>1, <3>3, <3>4
  <2> HIDE DEF to
  <2> QED BY <2>1, <2>2, <1>1
<1>3. to % n = to
  <2> HIDE DEF to
  <2>1. to \in Nat /\ to < n
    BY <1>2
  <2> QED BY <2>1, Remainder
<1>4. d = IF i - 1 >= s THEN i - 1 - s ELSE i - 1 + n - s
  BY DEF Distance, s, d
<1>5. Distance(to, i, n) = IF i - 1 >= to THEN i - 1 - to ELSE i - 1 + n - to
  BY <1>3 DEF Distance
<1> HIDE DEF s, to, d
<1>6. d \in 0 .. (n - 1)
  BY <1>1, <1>4
<1>7. ASSUME d < e PROVE i \in {Index(s, j, n) : j \in 0 .. (e - 1)}
  <2>1. s + d \in Nat /\ s + d < 2 * n /\ (s + d = i - 1 \/ s + d = i - 1 + n)
    BY <1>1, <1>4, <1>6
  <2>2. (s + d) % n = i - 1
    <3> DEFINE x == s + d
    <3>1. x \in Nat /\ (x < n => x % n = x) /\ (n =< x /\ x < 2 * n => x % n = x - n)
      <4> HIDE DEF x
      <4> QED BY <2>1, Remainder DEF x
    <3> HIDE DEF x
    <3>2. x < 2 * n /\ (x = i - 1 \/ x = i - 1 + n)
      BY <2>1 DEF x
    <3>3. x % n = i - 1
      BY <3>1, <3>2
    <3> QED BY <3>3 DEF x
  <2>3. Index(s, d, n) = i
    BY <2>2 DEF Index
  <2> QED BY <2>3, <1>7, <1>6
<1>8. ASSUME d >= e PROVE Distance(to, i, n) = d - e
  BY <1>8, <1>1, <1>2, <1>4, <1>5
<1> QED BY <1>2, <1>6, <1>7, <1>8 DEF s, to, d

\* Visit on one vault is Select on it.
LEMMA VisitOne ==
    ASSUME NEW b, Len(vaults) = 1
    PROVE  /\ Visit(b).audited = {<<1, i>> : i \in Select(b, vaults[1]).selected}
           /\ Visit(b).budget = Select(b, vaults[1]).budget
<1> DEFINE Step(f, v) ==
             IF v = 0 THEN [audited |-> {}, budget |-> b]
             ELSE LET s == Select(f[v - 1].budget, vaults[v])
                  IN  [audited |-> f[v - 1].audited \cup {<<v, i>> : i \in s.selected},
                       budget |-> s.budget]
           P(f) == f = [v \in 0 .. Len(vaults) |-> Step(f, v)]
           c == CHOOSE f : P(f)
<1>1. \E f : P(f)
  <2> DEFINE zero == [audited |-> {}, budget |-> b]
             g == [v \in {0} |-> zero]
             f == [v \in 0 .. 1 |-> IF v = 0 THEN zero ELSE Step(g, 1)]
  <2>1. f[0] = zero /\ f[1] = Step(g, 1)
    <3> HIDE DEF Step, zero, g
    <3> QED OBVIOUS
  <2>2. Step(f, 0) = zero
    OBVIOUS
  <2>3. Step(f, 1) = Step(g, 1)
    BY <2>1
  <2>4. \A v \in 0 .. 1 : f[v] = Step(f, v)
    <3> HIDE DEF f, Step
    <3> QED BY <2>1, <2>2, <2>3
  <2>5. P(f)
    <3> HIDE DEF Step
    <3> QED BY <2>4
  <2> QED BY <2>5
<1>2. P(c)
  BY <1>1, Zenon
<1>3. Visit(b) = c[Len(vaults)]
  BY Zenon DEF Visit
<1> HIDE DEF c
<1>4. c[0] = [audited |-> {}, budget |-> b]
  <2>1. c[0] = Step(c, 0)
    <3> HIDE DEF Step
    <3> QED BY <1>2
  <2> QED BY <2>1
<1>5. c[1] = [audited |-> c[0].audited \cup {<<1, i>> : i \in Select(c[0].budget, vaults[1]).selected},
              budget |-> Select(c[0].budget, vaults[1]).budget]
  <2>1. c[1] = Step(c, 1)
    <3> HIDE DEF Step
    <3> QED BY <1>2
  <2> QED BY <2>1
<1> QED BY <1>3, <1>4, <1>5

\* Every candidate of the only vault.
LEMMA OneVault ==
    ASSUME vaults \in Shapes, Len(vaults) = 1
    PROVE  /\ vaults[1] \in Seq(Nat)
           /\ Candidates = {<<1, i>> : i \in 1 .. Len(vaults[1])}
<1>1. vaults \in Seq(Seq(0 .. ByteLimit)) /\ ByteLimit \in Nat
  BY BudgetAssumption
<1>2. vaults[1] \in Seq(0 .. ByteLimit)
  <2> DEFINE S == Seq(0 .. ByteLimit)
  <2>1. vaults \in Seq(S)
    BY <1>1
  <2> HIDE DEF S
  <2>2. vaults[1] \in S
    BY <2>1
  <2> QED BY <2>2 DEF S
<1>3. DOMAIN vaults = {1}
  BY <1>1
<1>4. DOMAIN vaults[1] = 1 .. Len(vaults[1])
  BY <1>2
<1>5. Candidates = {<<1, i>> : i \in 1 .. Len(vaults[1])}
  <2>1. Candidates = UNION {{<<v, i>> : i \in DOMAIN vaults[v]} : v \in {1}}
    BY <1>3 DEF Candidates
  <2>2. Candidates = {<<1, i>> : i \in DOMAIN vaults[1]}
    BY <2>1
  <2> QED BY <2>2, <1>4
<1>6. vaults[1] \in Seq(Nat)
  BY <1>1, <1>2
<1> QED BY <1>5, <1>6

\* One turn more costs one limit more.
LEMMA OneMore ==
    ASSUME NEW x \in Nat, NEW y \in Nat, NEW l \in Nat, x =< y + 1
    PROVE  x * l \in Nat /\ y * l \in Nat /\ x * l =< y * l + l
<1>1. PICK p \in Nat : y + 1 = x + p
  <2>1. y + 1 - x \in Nat /\ y + 1 = x + (y + 1 - x)
    OBVIOUS
  <2> QED BY <2>1
<1>2. (y + 1) * l = x * l + p * l /\ (y + 1) * l = y * l + l /\ p * l \in Nat
  BY <1>1
<1>3. x * l \in Nat /\ y * l \in Nat
  OBVIOUS
<1> QED BY <1>2, <1>3

\* What a full pass does to one vault whose bytes never bind.
LEMMA FullPass ==
    ASSUME RotationInv, Len(vaults) = 1, BytesNeverBind, Pass("full"),
           NEW i \in 1 .. Len(vaults[1])
    PROVE  /\ cursor' \in Nat
           /\ age'[<<1, i>>] \in Nat
           /\ age'[<<1, i>>] * sourceLimit + Distance(cursor', i, Len(vaults[1])) < Len(vaults[1])
<1> DEFINE n == Len(vaults[1])
           L == sourceLimit
           b == Budget(cursor, sourceLimit, ByteLimit)
           e == Examined(b, n)
           d == Distance(cursor, i, n)
<1>1. /\ vaults[1] \in Seq(Nat) /\ <<1, i>> \in Candidates
      /\ Candidates = {<<1, j>> : j \in 1 .. n}
  BY OneVault DEF RotationInv
<1>2. n \in Nat \ {0} /\ vaults[1] # <<>>
  BY <1>1
<1>3. L \in Nat \ {0} /\ ByteLimit \in Nat
  BY BudgetAssumption DEF RotationInv
<1>4. cursor \in Nat /\ age[<<1, i>>] \in Nat /\ age[<<1, i>>] * L + d < n
  BY <1>1 DEF RotationInv
<1>5. /\ b.cursor = cursor /\ b.sources = L /\ b.bytes = ByteLimit
  BY DEF Budget
<1>6. \A j \in 1 .. n : vaults[1][j] * L =< ByteLimit
  <2> TAKE j \in 1 .. n
  <2>1. <<1, j>> \in Candidates
    BY <1>1
  <2>2. vaults[<<1, j>>[1]][<<1, j>>[2]] * L =< ByteLimit
    BY <2>1 DEF BytesNeverBind
  <2> QED BY <2>2
<1>7. e \in 0 .. n /\ (e = n \/ e = L)
  <2> HIDE DEF n, L, b
  <2> QED BY <1>2, <1>3, <1>5 DEF Examined
<1> HIDE DEF n, b, e
<1>8. /\ Select(b, vaults[1]).selected = {Index(cursor % n, j, n) : j \in 0 .. (e - 1)}
      /\ Select(b, vaults[1]).budget.cursor = ((cursor % n) + e) % n
  <2>1. e \in Nat /\ e = Examined(b, n)
    BY <1>7, <1>2 DEF e
  <2>2. /\ b.cursor \in Nat /\ b.sources \in Nat \ {0} /\ b.bytes \in Nat
        /\ \A j \in 1 .. n : vaults[1][j] * b.sources =< b.bytes
    BY <1>3, <1>4, <1>5, <1>6
  <2>3. /\ Select(b, vaults[1]).selected = {Index(b.cursor % n, j, n) : j \in 0 .. (e - 1)}
        /\ Select(b, vaults[1]).budget.cursor = ((b.cursor % n) + e) % n
    BY <2>1, <2>2, <1>1, <1>2, SelectTakes DEF n
  <2> QED BY <2>3, <1>5
<1>9. /\ Visit(b).audited = {<<1, j>> : j \in Select(b, vaults[1]).selected}
      /\ Visit(b).budget = Select(b, vaults[1]).budget
  BY VisitOne
<1>10. cursor' = ((cursor % n) + e) % n
  BY <1>8, <1>9 DEF Pass, b
<1>11. age'[<<1, i>>] = IF <<1, i>> \in Visit(b).audited THEN 0
                        ELSE IF age[<<1, i>>] < MaxAge THEN age[<<1, i>>] + 1 ELSE age[<<1, i>>]
  BY <1>1 DEF Pass, b
<1>12. /\ cursor' \in Nat
       /\ d \in 0 .. (n - 1)
       /\ d < e => <<1, i>> \in Visit(b).audited
       /\ d >= e => Distance(cursor', i, n) = d - e
       /\ Distance(cursor', i, n) \in 0 .. (n - 1)
  <2>1. i \in 1 .. n
    BY DEF n
  <2>2. /\ cursor' \in Nat
        /\ d \in 0 .. (n - 1)
        /\ d < e => i \in {Index(cursor % n, j, n) : j \in 0 .. (e - 1)}
        /\ d >= e => Distance(cursor', i, n) = d - e
    BY <2>1, <1>2, <1>4, <1>7, <1>10, Rotation
  <2>3. d < e => <<1, i>> \in Visit(b).audited
    BY <2>2, <1>8, <1>9
  <2>4. Distance(cursor', i, n) \in 0 .. (n - 1)
    BY <2>1, <2>2, <1>2, <1>7, Rotation
  <2> QED BY <2>2, <2>3, <2>4
<1> HIDE DEF d, L
<1>13. CASE d < e
  BY <1>13, <1>11, <1>12, <1>2, <1>3 DEF n, L
<1>14. CASE d >= e
  <2>1. e = L
    BY <1>14, <1>7, <1>12, <1>2
  <2>2. age'[<<1, i>>] \in Nat /\ age'[<<1, i>>] =< age[<<1, i>>] + 1
    BY <1>4, <1>11, BudgetAssumption
  <2>3. /\ age'[<<1, i>>] * L \in Nat /\ age[<<1, i>>] * L \in Nat
        /\ age'[<<1, i>>] * L =< age[<<1, i>>] * L + L
    BY <2>2, <1>3, <1>4, OneMore
  <2>4. age'[<<1, i>>] * L + (d - L) < n
    <3> DEFINE A == age'[<<1, i>>] * L
               B == age[<<1, i>>] * L
    <3>1. A \in Nat /\ B \in Nat /\ A =< B + L /\ B + d < n
      BY <2>3, <1>4
    <3> HIDE DEF A, B
    <3>2. A + (d - L) < n
      BY <3>1, <1>12, <1>2, <1>3
    <3> QED BY <3>2 DEF A
  <2>5. Distance(cursor', i, n) = d - L
    BY <2>1, <1>12, <1>14
  <2>6. age'[<<1, i>>] * L + Distance(cursor', i, n) < n
    BY <2>4, <2>5
  <2> QED BY <2>2, <2>6, <1>12 DEF n, L
<1> QED BY <1>13, <1>14, <1>12, <1>7, <1>2

\* A pass of either scope keeps the invariant.
LEMMA PassKeepsRotation ==
    ASSUME RotationInv, NEW scope \in {"full", "paths"}, Pass(scope)
    PROVE  RotationInv'
<1>1. vaults' = vaults /\ sourceLimit' = sourceLimit
  BY DEF Pass
<1>2. Candidates' = Candidates /\ BytesNeverBind' = BytesNeverBind
  BY <1>1 DEF Candidates, BytesNeverBind
<1> SUFFICES ASSUME Len(vaults) = 1, BytesNeverBind
             PROVE  /\ cursor' \in Nat
                    /\ age' \in [Candidates -> Nat]
                    /\ \A i \in 1 .. Len(vaults[1]) :
                         age'[<<1, i>>] * sourceLimit + Distance(cursor', i, Len(vaults[1]))
                            < Len(vaults[1])
  BY <1>1, <1>2 DEF RotationInv
<1>3. CASE scope = "full"
  <2>1. DOMAIN age' = Candidates /\ age' = [s \in Candidates |-> age'[s]]
    BY DEF Pass
  <2>2. Candidates = {<<1, i>> : i \in 1 .. Len(vaults[1])}
    BY OneVault DEF RotationInv
  <2>3. \A i \in 1 .. Len(vaults[1]) :
          /\ cursor' \in Nat
          /\ age'[<<1, i>>] \in Nat
          /\ age'[<<1, i>>] * sourceLimit + Distance(cursor', i, Len(vaults[1])) < Len(vaults[1])
    BY <1>3, FullPass
  <2>4. cursor' \in Nat
    <3>1. CASE vaults[1] = <<>>
      <4> DEFINE b == Budget(cursor, sourceLimit, ByteLimit)
      <4>1. Visit(b).budget = b
        BY <3>1, VisitOne DEF Select
      <4>2. cursor' = cursor
        BY <1>3, <4>1 DEF Pass, Budget
      <4> QED BY <4>2 DEF RotationInv
    <3>2. CASE vaults[1] # <<>>
      <4>1. 1 \in 1 .. Len(vaults[1])
        <5>1. vaults[1] \in Seq(Nat)
          BY OneVault DEF RotationInv
        <5> QED BY <5>1, <3>2
      <4> QED BY <4>1, <2>3
    <3> QED BY <3>1, <3>2
  <2>5. age' \in [Candidates -> Nat]
    BY <2>1, <2>2, <2>3
  <2> QED BY <2>3, <2>4, <2>5
<1>4. CASE scope = "paths"
  <2> DEFINE b == Budget(cursor, 0, 0)
  <2>1. Visit(b).audited = {}
    <3>1. Select(b, vaults[1]).selected = {}
      BY DEF Select, Budget
    <3> QED BY <3>1, VisitOne
  <2> HIDE DEF b
  <2>2. cursor' = cursor
    BY <1>4 DEF Pass
  <2>3. age' = [s \in Candidates |-> age[s]]
    BY <1>4, <2>1 DEF Pass, b
  <2>4. age \in [Candidates -> Nat]
    BY DEF RotationInv
  <2>5. age' = age
    BY <2>3, <2>4
  <2> QED BY <2>2, <2>5 DEF RotationInv
<1> QED BY <1>3, <1>4

\* With one vault and bytes to spare, no candidate waits longer for the rolling
\* audit than one rotation takes, for any number of candidates, any limit, any
\* starting cursor, and whatever targeted passes run in between.
THEOREM AuditBounded == AuditSpec => []AuditBound
<1>1. AuditInit => RotationInv
  <2> SUFFICES ASSUME AuditInit PROVE RotationInv
    OBVIOUS
  <2>1. cursor \in Nat /\ vaults \in Shapes /\ sourceLimit \in SourceLimits
    BY BudgetAssumption DEF AuditInit
  <2> SUFFICES ASSUME Len(vaults) = 1, NEW i \in 1 .. Len(vaults[1])
               PROVE  age[<<1, i>>] * sourceLimit + Distance(cursor, i, Len(vaults[1]))
                        < Len(vaults[1])
    BY <2>1 DEF AuditInit, RotationInv
  <2>2. vaults[1] \in Seq(Nat) /\ <<1, i>> \in Candidates
    BY <2>1, OneVault
  <2>3. age[<<1, i>>] * sourceLimit = 0
    BY <2>1, <2>2, BudgetAssumption DEF AuditInit
  <2>4. Len(vaults[1]) \in Nat \ {0}
    BY <2>2
  <2>5. Distance(cursor, i, Len(vaults[1])) \in 0 .. (Len(vaults[1]) - 1)
    <3> DEFINE n == Len(vaults[1])
    <3>1. n \in Nat \ {0} /\ i \in 1 .. n /\ 0 \in 0 .. n
      BY <2>1, <2>4
    <3> HIDE DEF n
    <3>2. Distance(cursor, i, n) \in 0 .. (n - 1)
      BY <3>1, <2>1, <2>4, Rotation
    <3> QED BY <3>2 DEF n
  <2> QED BY <2>3, <2>4, <2>5
<1>2. RotationInv /\ [AuditNext]_auditVars => RotationInv'
  <2>1. ASSUME RotationInv, AuditNext PROVE RotationInv'
    BY <2>1, PassKeepsRotation DEF AuditNext
  <2>2. ASSUME RotationInv, UNCHANGED auditVars PROVE RotationInv'
    BY <2>2 DEF auditVars, RotationInv, Candidates, BytesNeverBind
  <2> QED BY <2>1, <2>2
<1>3. RotationInv => AuditBound
  <2> SUFFICES ASSUME RotationInv, Len(vaults) = 1, BytesNeverBind, NEW s \in Candidates
               PROVE  age[s] * sourceLimit < Len(vaults[1])
    BY DEF AuditBound
  <2>1. PICK i \in 1 .. Len(vaults[1]) : s = <<1, i>>
    BY OneVault DEF RotationInv
  <2>2. vaults[1] \in Seq(Nat)
    BY OneVault DEF RotationInv
  <2>3. Len(vaults[1]) \in Nat \ {0} /\ cursor \in Nat
    BY <2>2 DEF RotationInv
  <2>4. Distance(cursor, i, Len(vaults[1])) \in 0 .. (Len(vaults[1]) - 1)
    <3> DEFINE n == Len(vaults[1])
    <3>1. n \in Nat \ {0} /\ i \in 1 .. n /\ 0 \in 0 .. n
      BY <2>3
    <3> HIDE DEF n
    <3>2. Distance(cursor, i, n) \in 0 .. (n - 1)
      BY <3>1, <2>3, Rotation
    <3> QED BY <3>2 DEF n
  <2>5. age[s] \in Nat /\ sourceLimit \in Nat
    BY BudgetAssumption DEF RotationInv
  <2>6. age[s] * sourceLimit \in Nat
    BY <2>5
  <2>7. age[s] * sourceLimit + Distance(cursor, i, Len(vaults[1])) < Len(vaults[1])
    BY <2>1 DEF RotationInv
  <2> QED BY <2>3, <2>4, <2>6, <2>7
<1> QED BY <1>1, <1>2, <1>3, PTL DEF AuditSpec
=============================================================================

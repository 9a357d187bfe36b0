------------------------ MODULE OpenClastIndexProofs ------------------------
(***************************************************************************)
(* Proofs about OpenClastIndex, for any number of vaults, sources, paths,  *)
(* rooms, contents and builds.                                             *)
(***************************************************************************)
EXTENDS OpenClastIndex, TLAPS

\* Every document of a generation has its row, in the partition of the
\* resource the row records.
Sound(g) ==
    \A r \in Resources, s \in Sources :
        g.parts[r][s] # None =>
            /\ r \in g.layout
            /\ g.rows[s] # None
            /\ g.parts[r][s] = [content |-> g.rows[s].content, reg |-> g.rows[s].reg]
            /\ r = Recorded(g.rows[s], s)

\* Every document of a generation was read under the registration its vault
\* has in configuration c.
Under(g, c) ==
    \A r \in Resources, s \in Sources :
        g.parts[r][s] # None =>
            /\ VaultOf[s] \in c.vaults
            /\ g.parts[r][s].reg = c.reg[VaultOf[s]]
            /\ r = [vault |-> VaultOf[s], room |-> c.reg[VaultOf[s]].room]

\* The inductive invariant of the two safety properties.  A daemon that is
\* down has adopted no configuration: what Open reads back from the disk is of
\* whatever configuration was in force when it was written.
RegistrationInv ==
    /\ Sound(published)
    /\ Sound(base)
    /\ pc = "down" => adopted = None
    /\ adopted # None => Under(base, adopted)

-----------------------------------------------------------------------------
(* Types.                                                                  *)

\* The registration and the resource a source has now.
LEMMA RegType ==
    ASSUME TypeOK, NEW s \in Sources
    PROVE  /\ VaultOf[s] \in Vaults
           /\ RegOf(s) \in Registrations
           /\ RegOf(s).path \in Paths
           /\ FileOf(s) \in Contents \cup {None}
BY OpenClastAssumption DEF TypeOK, Configs, RegOf, Registrations, FileOf

\* A row a pass keeps or makes is a row.
LEMMA NextRowType ==
    ASSUME TypeOK, NEW scan \in Scans, NEW s \in Sources
    PROVE  NextRow(s, scan) \in Rows \cup {None}
<1>1. base.rows[s] \in Rows \cup {None}
  BY DEF TypeOK, Generations
<1>2. Read(s, scan) => FileOf(s) \in Contents
  BY RegType DEF Read, Scans
<1>3. build \in Builds
  BY DEF TypeOK
<1> QED BY <1>1, <1>2, <1>3, RegType DEF NextRow, Rows

\* The partitions of the plan hold documents.
LEMMA NextPartitionType ==
    ASSUME TypeOK, NEW scan \in Scans, NEW r \in Resources
    PROVE  NextPartition(r, scan) \in Partitions
<1> SUFFICES ASSUME NEW s \in Sources
             PROVE  NextPartition(r, scan)[s] \in Documents \cup {None}
  BY DEF NextPartition, Partitions
<1>1. CASE s \in Added(r, scan)
  <2>1. FileOf(s) \in Contents
    BY <1>1, RegType DEF Added, Reingest, Read, Scans
  <2> QED BY <1>1, <2>1, RegType DEF NextPartition, Documents
<1>2. CASE s \notin Added(r, scan)
  <2>1. base.parts[r][s] \in Documents \cup {None}
    BY DEF TypeOK, Generations, Partitions
  <2> QED BY <1>2, <2>1 DEF NextPartition
<1> QED BY <1>1, <1>2

\* What a pass plans is a generation.
LEMMA NextGenerationType ==
    ASSUME TypeOK, NEW scan \in Scans
    PROVE  NextGeneration(scan) \in Generations
<1>1. [s \in Sources |-> NextRow(s, scan)] \in [Sources -> Rows \cup {None}]
  BY NextRowType
<1>2. NextLayout \in SUBSET Resources
  <2>1. \A v \in config.vaults : ResourceOf(v) \in Resources
    BY DEF TypeOK, Configs, Registrations, ResourceOf, Resources
  <2>2. base.layout \in SUBSET Resources
    BY DEF TypeOK, Generations
  <2> QED BY <2>1, <2>2 DEF NextLayout
<1>3. \A r \in Resources :
        (IF r \in NextLayout THEN NextPartition(r, scan) ELSE Empty) \in Partitions
  BY NextPartitionType DEF Empty, Partitions
<1> QED BY <1>1, <1>2, <1>3 DEF NextGeneration, Generations

\* What Open reads back is a generation.
LEMMA AdoptedType ==
    ASSUME TypeOK, NEW b \in Builds
    PROVE  Adopted(b) \in Generations
<1>1. published \in Generations
  BY DEF TypeOK
<1> DEFINE rows == [s \in Sources |->
                      IF s \in Evicted(b) THEN None ELSE published.rows[s]]
           parts == [r \in Resources |-> [s \in Sources |->
                       IF s \in Evicted(b) /\ r = Recorded(published.rows[s], s)
                         THEN None ELSE published.parts[r][s]]]
<1>2. rows \in [Sources -> Rows \cup {None}]
  BY <1>1 DEF Generations
<1>3. parts \in [Resources -> Partitions]
  BY <1>1 DEF Generations, Partitions
<1>4. Adopted(b) = [published EXCEPT !.rows = rows, !.parts = parts]
  BY DEF Adopted
<1> HIDE DEF rows, parts
<1> QED BY <1>1, <1>2, <1>3, <1>4 DEF Generations

\* The variables keep their types through every pass, kill and restart.
THEOREM TypeCorrect == Spec => []TypeOK
<1>1. Init => TypeOK
  <2> SUFFICES ASSUME Init PROVE TypeOK
    OBVIOUS
  <2>1. config \in Configs
    BY DEF Init
  <2>2. \A v \in Vaults : ResourceOf(v) \in Resources
    BY <2>1 DEF Configs, Registrations, ResourceOf, Resources
  <2>3. published \in Generations
    BY <2>2 DEF Init, Generations, Empty, Partitions
  <2> QED BY <2>1, <2>3 DEF Init, TypeOK, Empty
<1>2. TypeOK /\ [Next]_vars => TypeOK'
  <2> SUFFICES ASSUME TypeOK, [Next]_vars PROVE TypeOK'
    OBVIOUS
  <2>1. ASSUME NEW p \in Paths, NEW s \in Sources, NEW c \in Contents \cup {None},
               Write(p, s, c)
        PROVE  TypeOK'
    <3>1. disk' \in [Paths -> [Sources -> Contents \cup {None}]]
      BY <2>1 DEF Write, TypeOK
    <3> QED BY <2>1, <3>1 DEF Write, TypeOK, daemon
  <2>2. ASSUME NEW p \in Paths, Toggle(p) PROVE TypeOK'
    BY <2>2 DEF Toggle, TypeOK, daemon
  <2>3. CASE Reconfigure
    BY <2>3 DEF Reconfigure, TypeOK, daemon
  <2>4. ASSUME NEW scan \in Scans, Reconcile(scan) \/ ReconcileNotInstalled(scan)
        PROVE  TypeOK'
    <3>1. NextGeneration(scan) \in Generations
      BY NextGenerationType
    <3> QED BY <2>4, <3>1 DEF Reconcile, ReconcileNotInstalled, TypeOK
  <2>5. CASE Kill
    BY <2>5 DEF Kill, TypeOK
  <2>6. ASSUME NEW b \in Builds, Open(b) PROVE TypeOK'
    <3>1. Adopted(b) \in Generations
      BY AdoptedType
    <3> QED BY <2>6, <3>1 DEF Open, TypeOK
  <2>7. CASE UNCHANGED vars
    BY <2>7 DEF vars, TypeOK
  <2> QED BY <2>1, <2>2, <2>3, <2>4, <2>5, <2>6, <2>7 DEF Next
<1> QED BY <1>1, <1>2, PTL DEF Spec

-----------------------------------------------------------------------------
(* Registration safety.                                                    *)

\* The plan of a pass over sound documents is sound, and every document in it
\* is of the registration its vault has now: a document that is added was read
\* just now, and one that is kept has an expected row that did not change.
LEMMA PlanSound ==
    ASSUME TypeOK, Sound(base), NEW scan \in Scans
    PROVE  Sound(NextGeneration(scan)) /\ Under(NextGeneration(scan), config)
<1> DEFINE g == NextGeneration(scan)
<1> SUFFICES ASSUME NEW r \in Resources, NEW s \in Sources, g.parts[r][s] # None
             PROVE  /\ r \in g.layout
                    /\ g.rows[s] # None
                    /\ g.parts[r][s] = [content |-> g.rows[s].content,
                                        reg |-> g.rows[s].reg]
                    /\ r = Recorded(g.rows[s], s)
                    /\ VaultOf[s] \in config.vaults
                    /\ g.parts[r][s].reg = config.reg[VaultOf[s]]
                    /\ r = [vault |-> VaultOf[s],
                            room |-> config.reg[VaultOf[s]].room]
  BY DEF Sound, Under
<1>1. g.rows[s] = NextRow(s, scan) /\ g.layout = NextLayout
  BY DEF NextGeneration
<1>2. r \in NextLayout /\ g.parts[r][s] = NextPartition(r, scan)[s]
  BY DEF NextGeneration, Empty
<1>3. CASE s \in Added(r, scan)
  <2>1. /\ Read(s, scan) /\ ~Retained(s, scan)
        /\ ResourceOf(VaultOf[s]) = r
        /\ VaultOf[s] \in config.vaults
    BY <1>3 DEF Added, Reingest, Read, Retained, Scanned
  <2>2. NextRow(s, scan) = [content |-> FileOf(s), reg |-> RegOf(s),
                            identity |-> build]
    BY <2>1 DEF NextRow
  <2>3. NextRow(s, scan) # None
    <3>1. FileOf(s) \in Contents
      BY <2>1, RegType DEF Read, Scans
    <3> QED BY <2>2, <3>1, RegType, NoneAssumption DEF Rows, TypeOK
  <2>4. NextPartition(r, scan)[s] = [content |-> FileOf(s), reg |-> RegOf(s)]
    BY <1>3 DEF NextPartition
  <2>5. r = Recorded(NextRow(s, scan), s)
    BY <2>1, <2>2 DEF Recorded, ResourceOf, RegOf
  <2> QED BY <1>1, <1>2, <2>1, <2>2, <2>3, <2>4, <2>5 DEF Recorded, RegOf
<1>4. CASE s \notin Added(r, scan)
  <2>1. /\ r \in base.layout
        /\ s \in Expected(r, scan) /\ ~Reingest(s, scan)
        /\ NextPartition(r, scan)[s] = base.parts[r][s]
        /\ base.parts[r][s] # None
    BY <1>2, <1>4 DEF NextPartition, Deleted
  <2>2. /\ base.rows[s] # None
        /\ base.parts[r][s] = [content |-> base.rows[s].content,
                               reg |-> base.rows[s].reg]
    BY <2>1 DEF Sound
  <2>3. /\ NextRow(s, scan) # None
        /\ Recorded(NextRow(s, scan), s) = r
        /\ VaultOf[s] \in config.vaults
        /\ NextRow(s, scan).reg = RegOf(s)
    BY <2>1 DEF Expected
  <2>4. /\ NextRow(s, scan).content = base.rows[s].content
        /\ NextRow(s, scan).reg = base.rows[s].reg
    <3>1. CASE Retained(s, scan)
      BY <3>1 DEF NextRow
    <3>2. CASE ~Retained(s, scan)
      <4>1. /\ Read(s, scan)
            /\ NextRow(s, scan) = [content |-> FileOf(s), reg |-> RegOf(s),
                                   identity |-> build]
        BY <2>3, <3>2 DEF NextRow
      <4>2. base.rows[s].content = FileOf(s) /\ base.rows[s].reg = RegOf(s)
        BY <2>1, <2>2, <4>1 DEF Reingest
      <4> QED BY <4>1, <4>2
    <3> QED BY <3>1, <3>2
  <2> QED BY <1>1, <1>2, <2>1, <2>2, <2>3, <2>4 DEF Recorded, RegOf
<1> QED BY <1>3, <1>4

\* Eviction takes the document with its row: a sound generation has it in no
\* other partition.
LEMMA AdoptedSound ==
    ASSUME TypeOK, Sound(published), NEW b \in Builds
    PROVE  Sound(Adopted(b))
<1> DEFINE g == Adopted(b)
<1> SUFFICES ASSUME NEW r \in Resources, NEW s \in Sources, g.parts[r][s] # None
             PROVE  /\ r \in g.layout
                    /\ g.rows[s] # None
                    /\ g.parts[r][s] = [content |-> g.rows[s].content,
                                        reg |-> g.rows[s].reg]
                    /\ r = Recorded(g.rows[s], s)
  BY DEF Sound
<1>1. /\ g.layout = published.layout
      /\ g.rows[s] = IF s \in Evicted(b) THEN None ELSE published.rows[s]
      /\ g.parts[r][s] = IF s \in Evicted(b) /\ r = Recorded(published.rows[s], s)
                           THEN None ELSE published.parts[r][s]
  BY DEF Adopted, TypeOK, Generations
<1> HIDE DEF g
<1>2. g.parts[r][s] = published.parts[r][s]
  BY <1>1
<1>3. /\ r \in published.layout
      /\ published.rows[s] # None
      /\ published.parts[r][s] = [content |-> published.rows[s].content,
                                  reg |-> published.rows[s].reg]
      /\ r = Recorded(published.rows[s], s)
  BY <1>2 DEF Sound
<1>4. s \notin Evicted(b)
  BY <1>1, <1>3
<1> QED BY <1>1, <1>2, <1>3, <1>4

\* Registration safety holds initially and every step keeps it.
THEOREM RegistrationInvariant == Spec => []RegistrationInv
<1>1. Init => RegistrationInv
  BY DEF Init, RegistrationInv, Sound, Empty
<1>2. TypeOK /\ RegistrationInv /\ [Next]_vars => RegistrationInv'
  <2> SUFFICES ASSUME TypeOK, RegistrationInv, [Next]_vars PROVE RegistrationInv'
    OBVIOUS
  <2>1. CASE UNCHANGED <<published, base, pc, adopted>>
    BY <2>1 DEF RegistrationInv, Sound, Under, Recorded
  <2>2. CASE \/ \E p \in Paths, s \in Sources, c \in Contents \cup {None} :
                   Write(p, s, c)
             \/ \E p \in Paths : Toggle(p)
             \/ Reconfigure
    BY <2>1, <2>2 DEF Write, Toggle, Reconfigure, daemon
  <2>3. ASSUME NEW scan \in Scans, Reconcile(scan) PROVE RegistrationInv'
    <3>1. Sound(NextGeneration(scan)) /\ Under(NextGeneration(scan), config)
      BY PlanSound DEF RegistrationInv
    <3>2. /\ base' = NextGeneration(scan) /\ adopted' = config /\ pc' = "up"
          /\ published' = published \/ published' = NextGeneration(scan)
      BY <2>3 DEF Reconcile
    <3> QED BY <3>1, <3>2 DEF RegistrationInv, Sound, Under, Recorded
  <2>4. ASSUME NEW scan \in Scans, ReconcileNotInstalled(scan)
        PROVE  RegistrationInv'
    <3>1. Sound(NextGeneration(scan))
      BY PlanSound DEF RegistrationInv
    <3>2. published' = NextGeneration(scan) /\ UNCHANGED <<base, adopted, pc>>
      BY <2>4 DEF ReconcileNotInstalled
    <3> QED BY <3>1, <3>2 DEF RegistrationInv, Sound, Under, Recorded
  <2>5. CASE Kill
    BY <2>5 DEF Kill, RegistrationInv, Sound, Recorded
  <2>6. ASSUME NEW b \in Builds, Open(b) PROVE RegistrationInv'
    <3>1. Sound(Adopted(b))
      BY AdoptedSound DEF RegistrationInv
    <3>2. /\ published' = Adopted(b) /\ base' = Adopted(b) /\ pc' = "up"
          /\ adopted' = None
      BY <2>6 DEF Open, RegistrationInv
    <3> QED BY <3>1, <3>2 DEF RegistrationInv, Sound, Recorded
  <2>7. CASE UNCHANGED vars
    BY <2>1, <2>7 DEF vars
  <2> QED BY <2>2, <2>3, <2>4, <2>5, <2>6, <2>7 DEF Next
<1> QED BY <1>1, <1>2, TypeCorrect, PTL DEF Spec

\* No document outlives its row, in whatever order registrations, failed
\* installs, kills and upgrades come: plan_source and the eviction at open
\* delete by row, and so would never find such a document.
THEOREM DocumentsHaveRows == Spec => []NoOrphanDocument
<1>1. RegistrationInv => NoOrphanDocument
  BY DEF RegistrationInv, Sound, NoOrphanDocument
<1> QED BY <1>1, RegistrationInvariant, PTL

\* After a pass has adopted a configuration, no partition holds a document
\* that was read under another path or room.
THEOREM OnlyThisRegistrationAnswers == Spec => []NoForeignDocument
<1>1. RegistrationInv => NoForeignDocument
  BY DEF RegistrationInv, Under, NoForeignDocument
<1> QED BY <1>1, RegistrationInvariant, PTL
=============================================================================

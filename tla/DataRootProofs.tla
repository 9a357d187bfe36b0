---------------------------- MODULE DataRootProofs ----------------------------
(***************************************************************************)
(* Proofs about DataRoot, for every number of writers, readers and         *)
(* generations: type correctness, that the pointer is sound once a writer  *)
(* has prepared the root, that acknowledged publications are durable, that *)
(* the root implements the register of GenerationRegister, and how long    *)
(* retention keeps a generation that is in use.                            *)
(***************************************************************************)
EXTENDS DataRoot, FiniteSetTheorems, FunctionTheorems, TLAPS

-------------------------------------------------------------------------------
(* Type correctness                                                          *)

USE DataRootAssumption

\* None and the foreign pointers are no generation ids.
LEMMA IdFacts ==
  /\ Ids \subseteq Nat
  /\ None \notin Ids
  /\ Corrupt \notin Ids /\ Corrupt # None
  /\ Incompatible \notin Ids /\ Incompatible # None
BY DEF Ids, None, Corrupt, Incompatible

\* The initial state is well typed.
LEMMA InitType == Init => TypeOK
BY IdFacts DEF Init, TypeOK, Places, Trees, Pointers, Steps

\* Removing or damaging directories keeps the file system well typed.
LEMMA DiscardType ==
  ASSUME TypeOK, NEW gone, NEW damaged, Discard(gone, damaged)
  PROVE  /\ entry' \in [Ids -> Places]
         /\ tree' \in [Ids -> Trees]
         /\ durTree' \in [Ids -> SUBSET Trees]
<1>1. entry' \in [Ids -> Places]
  BY DEF TypeOK, Discard, Places
<1>2. tree' \in [Ids -> Trees]
  BY DEF TypeOK, Discard, Trees
<1>3. durTree' \in [Ids -> SUBSET Trees]
  BY DEF TypeOK, Discard, Trees
<1> QED BY <1>1, <1>2, <1>3

\* So does recording what a power loss may leave of the entries.
LEMMA SyncType ==
  ASSUME TypeOK, entry' \in [Ids -> Places], EntriesSynced \/ EntriesUnsynced
  PROVE  durEntry' \in [Ids -> SUBSET Places]
BY DEF TypeOK, EntriesSynced, EntriesUnsynced

\* So does pruning, whatever subset of the directories it manages to remove.
LEMMA PruneType ==
  ASSUME TypeOK, PruneGenerations
  PROVE  /\ entry' \in [Ids -> Places]
         /\ tree' \in [Ids -> Trees]
         /\ durTree' \in [Ids -> SUBSET Trees]
         /\ durEntry' \in [Ids -> SUBSET Places]
<1>1. PICK gone \in SUBSET Removable(ptr),
           damaged \in SUBSET Removable(ptr) :
        /\ Discard(gone, damaged)
        /\ IF gone = {} THEN UNCHANGED durEntry ELSE EntriesSynced \/ EntriesUnsynced
  BY DEF PruneGenerations
<1>2. /\ entry' \in [Ids -> Places]
      /\ tree' \in [Ids -> Trees]
      /\ durTree' \in [Ids -> SUBSET Trees]
  BY <1>1, DiscardType
<1>3. durEntry' \in [Ids -> SUBSET Places]
  <2>1. CASE gone = {}
    BY <1>1, <2>1 DEF TypeOK
  <2>2. CASE gone # {}
    BY <1>1, <1>2, <2>2, SyncType
  <2> QED BY <2>1, <2>2
<1> QED BY <1>2, <1>3

\* Somebody does something, the power goes, or nothing changes but the power.
LEMMA StepCases ==
  ASSUME [Next]_vars
  PROVE  \/ Running /\ up /\ up' = up
         \/ PowerLoss
         \/ UNCHANGED root /\ (up' = up \/ (~up /\ up' = TRUE))
BY DEF Next, Restart, vars

\* Every step keeps every variable in its type.
LEMMA NextType == TypeOK /\ [Next]_vars => TypeOK'
<1> SUFFICES ASSUME TypeOK, [Next]_vars PROVE TypeOK'
  OBVIOUS
<1>u. up' \in BOOLEAN
  BY DEF TypeOK, Next, PowerLoss, Restart, vars
<1> USE IdFacts, <1>u
<1>1. ASSUME NEW w \in Writers, WriterStep(w) PROVE TypeOK'
  <2>1. CASE AcquireLock(w)
    BY <2>1 DEF AcquireLock, TypeOK, files, pointer, Goto, Steps, Preparing
  <2>2. CASE RemoveAbandonedStaging(w)
    <3> DEFINE g == {i \in Ids : entry[i] = "staging"}
    <3>1. /\ Discard(g, {}) /\ (IF g # {} THEN EntriesSynced ELSE UNCHANGED durEntry)
          /\ Goto(w, "prepare")
          /\ UNCHANGED <<issued, pointer, lock, base, cand, held, acked>>
      BY <2>2 DEF RemoveAbandonedStaging
    <3> HIDE DEF g
    <3>2. /\ entry' \in [Ids -> Places]
          /\ tree' \in [Ids -> Trees]
          /\ durTree' \in [Ids -> SUBSET Trees]
      BY <3>1, DiscardType
    <3>3. durEntry' \in [Ids -> SUBSET Places]
      BY <3>1, <3>2, SyncType DEF TypeOK
    <3> QED BY <3>1, <3>2, <3>3 DEF TypeOK, pointer, Goto, Steps, Preparing
  <2>3. CASE KeepActive(w) \/ KeepIncompatible(w)
    BY <2>3 DEF KeepActive, KeepIncompatible, TypeOK, files, pointer, Goto, Steps
  <2>4. CASE RecoverPointer(w)
    BY <2>4 DEF RecoverPointer, PersistPointer, TypeOK, files, Goto, Steps, Preparing, Pointers
  <2>5. CASE ForgetPointer(w)
    BY <2>5 DEF ForgetPointer, PersistPointer, TypeOK, files, Goto, Steps, Preparing, Pointers
  <2>6. CASE SyncPrepared(w)
    BY <2>6 DEF SyncPrepared, TypeOK, files, Goto, Steps
  <2>7. CASE RemoveStagingFails(w)
    <3>1. PICK gone \in SUBSET {i \in Ids : entry[i] = "staging"} : Discard(gone, {})
      BY <2>7 DEF RemoveStagingFails
    <3>2. /\ entry' \in [Ids -> Places]
          /\ tree' \in [Ids -> Trees]
          /\ durTree' \in [Ids -> SUBSET Trees]
      BY <3>1, DiscardType
    <3>3. durEntry' \in [Ids -> SUBSET Places]
      BY <2>7, <3>2, SyncType DEF RemoveStagingFails
    <3> QED BY <2>7, <3>2, <3>3
            DEF RemoveStagingFails, Release, TypeOK, pointer, Goto, Steps
  <2>8. CASE PrepareFails(w)
    BY <2>8 DEF PrepareFails, Release, TypeOK, files, pointer, Goto, Steps
  <2>9. CASE PruneOpened(w)
    BY <2>9, PruneType DEF PruneOpened, TypeOK, pointer, Goto, Steps
  <2>10. CASE OpenActive(w)
    BY <2>10 DEF OpenActive, PointerValid, TypeOK, files, pointer
  <2>11. CASE CreateCandidate(w)
    <3>1. issued + 1 \in Ids /\ issued + 1 \in 0 .. MaxId
      BY <2>11 DEF CreateCandidate, TypeOK, Ids
    <3> QED BY <2>11, <3>1 DEF CreateCandidate, TypeOK, pointer, Goto, Steps, Staging, Places
  <2>12. CASE FillCandidate(w)
    BY <2>12 DEF FillCandidate, TypeOK, pointer, Goto, Steps, Staging, Trees
  <2>13. CASE AbandonCandidate(w)
    <3>1. /\ entry' \in [Ids -> Places]
          /\ tree' \in [Ids -> Trees]
          /\ durTree' \in [Ids -> SUBSET Trees]
      BY <2>13, DiscardType DEF AbandonCandidate, TypeOK
    <3>2. durEntry' \in [Ids -> SUBSET Places]
      BY <2>13, <3>1, SyncType DEF AbandonCandidate, TypeOK
    <3> QED BY <2>13, <3>1, <3>2 DEF AbandonCandidate, TypeOK, pointer, Goto, Steps
  <2>14. CASE SyncTree(w)
    BY <2>14 DEF SyncTree, TypeOK, Trees, pointer, Goto, Steps, Staging
  <2>15. CASE RenameCandidate(w)
    <3>1. entry' \in [Ids -> Places]
      BY <2>15 DEF RenameCandidate, TypeOK, Places
    <3>2. durEntry' \in [Ids -> SUBSET Places]
      BY <2>15, <3>1, SyncType DEF RenameCandidate
    <3> QED BY <2>15, <3>1, <3>2 DEF RenameCandidate, TypeOK, pointer, Goto, Steps, Publishing
  <2>16. CASE SyncGenerations(w)
    <3>1. entry' \in [Ids -> Places]
      BY <2>16 DEF SyncGenerations, TypeOK
    <3>2. durEntry' \in [Ids -> SUBSET Places]
      BY <2>16, <3>1, SyncType DEF SyncGenerations
    <3> QED BY <2>16, <3>1, <3>2 DEF SyncGenerations, TypeOK, pointer, Goto, Steps, Publishing
  <2>17. CASE WritePointer(w)
    BY <2>17 DEF WritePointer, PersistPointer, TypeOK, files, Goto, Steps, Publishing, Pointers
  <2>18. CASE SyncRoot(w)
    BY <2>18 DEF SyncRoot, TypeOK, files, Goto, Steps, Publishing
  <2>19. CASE PrunePublished(w)
    BY <2>19, PruneType DEF PrunePublished, TypeOK, pointer, Goto, Steps
  <2>20. CASE PublishFails(w) \/ InstallFails(w)
    BY <2>20 DEF PublishFails, InstallFails, TypeOK, files, pointer, Goto, Steps
  <2>21. CASE InstallPublished(w)
    BY <2>21 DEF InstallPublished, TypeOK, files, pointer, Goto, Steps
  <2>22. CASE Close(w) \/ Kill(w)
    BY <2>22 DEF Close, Kill, Release, TypeOK, files, pointer, Goto, Steps
  <2> QED BY <1>1, <2>1, <2>2, <2>3, <2>4, <2>5, <2>6, <2>7, <2>8, <2>9, <2>10,
             <2>11, <2>12, <2>13, <2>14, <2>15, <2>16, <2>17, <2>18, <2>19,
             <2>20, <2>21, <2>22 DEF WriterStep
<1>2. ASSUME NEW r \in Readers, ReaderStep(r) PROVE TypeOK'
  BY <1>2 DEF ReaderStep, ReadPointer, FinishRead, PointerValid, TypeOK, files, pointer, procs
<1>3. CASE PowerLoss
  BY <1>3 DEF PowerLoss, TypeOK, Steps
<1>4. CASE ForeignPointer
  BY <1>4 DEF ForeignPointer, TypeOK, files, procs, Pointers
<1>5. CASE UNCHANGED root
  BY <1>5 DEF TypeOK, root
<1> QED BY <1>1, <1>2, <1>3, <1>4, <1>5, StepCases DEF Running

\* Every variable of the data root stays in its type.
THEOREM TypeCorrect == Spec => []TypeOK
BY InitType, NextType, PTL DEF Spec

-------------------------------------------------------------------------------
(* Publication: lock, candidates and pointer                                 *)

\* While one writer works on the root every other one is outside.
LEMMA Alone ==
  ASSUME TypeOK, LockInv, NEW w \in Writers, pc[w] # "idle", NEW v \in Writers, v # w
  PROVE  pc[v] = "idle"
BY DEF LockInv

\* What Discard leaves alone, and that the live tree stays one that a power
\* loss may leave.
LEMMA DiscardEffect ==
  ASSUME TypeOK, NEW gone, NEW damaged, Discard(gone, damaged), NEW i \in Ids
  PROVE  /\ i \notin gone \cup damaged => /\ entry'[i] = entry[i]
                                         /\ tree'[i] = tree[i]
                                         /\ durTree'[i] = durTree[i]
         /\ i \notin gone => entry'[i] = entry[i]
         /\ i \in gone => entry'[i] = "absent"
         /\ tree[i] \in durTree[i] => tree'[i] \in durTree'[i]
BY DEF TypeOK, Discard

\* Pruning never touches the generation the pointer names, nor a directory
\* that is not in place, and keeps DiskInv.
LEMMA PruneEffect ==
  ASSUME TypeOK, DiskInv, PruneGenerations
  PROVE  /\ \A i \in Ids : entry'[i] \in durEntry'[i] /\ tree'[i] \in durTree'[i]
         /\ \A i \in Ids : durEntry[i] = {"absent"} => durEntry'[i] = {"absent"}
         /\ ptr \in Ids /\ Valid(ptr) => /\ entry'[ptr] = entry[ptr]
                                        /\ tree'[ptr] = tree[ptr]
         /\ ptr \in Ids /\ Durable(ptr) => /\ durEntry'[ptr] = {"final"}
                                          /\ durTree'[ptr] = {"whole"}
<1>1. PICK gone \in SUBSET Removable(ptr),
           damaged \in SUBSET Removable(ptr) :
        /\ Discard(gone, damaged)
        /\ IF gone = {} THEN UNCHANGED durEntry ELSE EntriesSynced \/ EntriesUnsynced
  BY DEF PruneGenerations
<1>2. Removable(ptr) \subseteq {i \in Ids : entry[i] = "final"} /\ ptr \notin Removable(ptr)
  BY DEF Removable, Kept
<1>3. ptr \notin gone \cup damaged
  BY <1>2
<1>4. ASSUME NEW i \in Ids
      PROVE  /\ tree'[i] \in durTree'[i]
             /\ i \notin gone => entry'[i] = entry[i]
             /\ i \notin gone \cup damaged => /\ tree'[i] = tree[i]
                                            /\ durTree'[i] = durTree[i]
  BY <1>1, DiscardEffect DEF DiskInv
<1>5. ASSUME NEW i \in Ids
      PROVE  /\ entry'[i] \in durEntry'[i]
             /\ durEntry'[i] \in {{entry'[i]}, durEntry[i] \cup {entry'[i]}}
                 \/ durEntry'[i] = durEntry[i]
  <2>1. CASE gone = {}
    BY <1>1, <1>4, <2>1 DEF DiskInv
  <2>2. CASE gone # {}
    BY <1>1, <2>2 DEF EntriesSynced, EntriesUnsynced
  <2> QED BY <2>1, <2>2
<1>6. ASSUME NEW i \in Ids, durEntry[i] = {"absent"} PROVE durEntry'[i] = {"absent"}
  <2>1. entry[i] = "absent" /\ i \notin gone
    BY <1>2, <1>6 DEF DiskInv
  <2> QED BY <1>4, <1>5, <1>6, <2>1
<1>7. ASSUME ptr \in Ids, Valid(ptr)
      PROVE  entry'[ptr] = entry[ptr] /\ tree'[ptr] = tree[ptr]
  BY <1>3, <1>4, <1>7
<1>8. ASSUME ptr \in Ids, Durable(ptr)
      PROVE  durEntry'[ptr] = {"final"} /\ durTree'[ptr] = {"whole"}
  <2>1. entry[ptr] = "final" /\ entry'[ptr] = "final"
    BY <1>3, <1>4, <1>8 DEF DiskInv, Durable
  <2> QED BY <1>3, <1>4, <1>5, <1>8, <2>1 DEF Durable
<1> QED BY <1>4, <1>5, <1>6, <1>7, <1>8
-------------------------------------------------------------------------------
(* Every step keeps PublicationInv.                                          *)

\* A step of a writer keeps each conjunct of the publication invariant.
LEMMA WriterPublication ==
  ASSUME PublicationInv, TypeOK', NEW w \in Writers, WriterStep(w)
  PROVE  LockInv' /\ DiskInv' /\ CandidateInv' /\ PointerSound'
<1> USE IdFacts DEF PublicationInv
<1>0. ASSUME pc[w] # "idle", NEW v \in Writers, v # w PROVE pc[v] = "idle"
  BY <1>0, Alone
<1>c. pc[w] \in Staging \cup Publishing \cup {"published"} => cand[w] \in Ids /\ cand[w] = issued
  BY DEF CandidateInv, TypeOK, Ids
<1>1. CASE AcquireLock(w)
  <2>1. \A v \in Writers : pc[v] = "idle"
    BY <1>1 DEF AcquireLock, LockInv, TypeOK
  <2> USE <1>1, <2>1 DEF AcquireLock, files, pointer, Goto, TypeOK
  <2>2. LockInv'
    BY DEF LockInv
  <2>3. DiskInv'
    BY DEF DiskInv
  <2>4. CandidateInv'
    BY DEF CandidateInv, Staging, Publishing
  <2>5. PointerSound'
    BY DEF PointerSound
  <2> QED BY <2>2, <2>3, <2>4, <2>5
<1>2. CASE KeepActive(w)
  <2> USE <1>2 DEF KeepActive, files, pointer, Goto, TypeOK
  <2>0. \A v \in Writers : v # w => pc[v] = "idle" /\ pc'[v] = "idle"
    BY <1>0
  <2>1. LockInv'
    BY <2>0 DEF LockInv
  <2>2. DiskInv'
    BY <1>c DEF DiskInv, CandidateInv, Staging, Publishing, Trees
  <2>3. CandidateInv'
    BY <1>c, <2>0 DEF CandidateInv, PointerSound, DiskInv, PointerValid, Durable, Staging, Publishing
  <2>4. PointerSound'
    BY <1>c, <2>0 DEF PointerSound, CandidateInv, DiskInv, PointerValid, Valid, Durable, Staging, Publishing
  <2> QED BY <2>1, <2>2, <2>3, <2>4
<1>3. CASE KeepIncompatible(w)
  <2> USE <1>3 DEF KeepIncompatible, files, pointer, Goto, TypeOK
  <2>0. \A v \in Writers : v # w => pc[v] = "idle" /\ pc'[v] = "idle"
    BY <1>0
  <2>1. LockInv'
    BY <2>0 DEF LockInv
  <2>2. DiskInv'
    BY <1>c DEF DiskInv, CandidateInv, Staging, Publishing, Trees
  <2>3. CandidateInv'
    BY <1>c, <2>0 DEF CandidateInv, PointerSound, DiskInv, PointerValid, Durable, Staging, Publishing
  <2>4. PointerSound'
    BY <1>c, <2>0 DEF PointerSound, CandidateInv, DiskInv, PointerValid, Valid, Durable, Staging, Publishing
  <2> QED BY <2>1, <2>2, <2>3, <2>4
<1>4. CASE RecoverPointer(w)
  <2> USE <1>4 DEF RecoverPointer, PersistPointer, IsNewestValid, files, pointer, Goto, TypeOK
  <2>0. \A v \in Writers : v # w => pc[v] = "idle" /\ pc'[v] = "idle"
    BY <1>0
  <2>1. LockInv'
    BY <2>0 DEF LockInv
  <2>2. DiskInv'
    BY <1>c DEF DiskInv, CandidateInv, Staging, Publishing, Trees
  <2>3. CandidateInv'
    BY <1>c, <2>0 DEF CandidateInv, PointerSound, DiskInv, PointerValid, Durable, Staging, Publishing
  <2>4. PointerSound'
    BY <1>c, <2>0 DEF PointerSound, CandidateInv, DiskInv, PointerValid, Valid, Durable, Staging, Publishing
  <2> QED BY <2>1, <2>2, <2>3, <2>4
<1>5. CASE ForgetPointer(w)
  <2> USE <1>5 DEF ForgetPointer, PersistPointer, files, pointer, Goto, TypeOK
  <2>0. \A v \in Writers : v # w => pc[v] = "idle" /\ pc'[v] = "idle"
    BY <1>0
  <2>1. LockInv'
    BY <2>0 DEF LockInv
  <2>2. DiskInv'
    BY <1>c DEF DiskInv, CandidateInv, Staging, Publishing, Trees
  <2>3. CandidateInv'
    BY <1>c, <2>0 DEF CandidateInv, PointerSound, DiskInv, PointerValid, Durable, Staging, Publishing
  <2>4. PointerSound'
    BY <1>c, <2>0 DEF PointerSound, CandidateInv, DiskInv, PointerValid, Valid, Durable, Staging, Publishing
  <2> QED BY <2>1, <2>2, <2>3, <2>4
<1>6. CASE SyncPrepared(w)
  <2> USE <1>6 DEF SyncPrepared, files, pointer, Goto, TypeOK
  <2>0. \A v \in Writers : v # w => pc[v] = "idle" /\ pc'[v] = "idle"
    BY <1>0
  <2>1. LockInv'
    BY <2>0 DEF LockInv
  <2>2. DiskInv'
    BY <1>c DEF DiskInv, CandidateInv, Staging, Publishing, Trees
  <2>3. CandidateInv'
    BY <1>c, <2>0 DEF CandidateInv, PointerSound, DiskInv, PointerValid, Durable, Staging, Publishing
  <2>4. PointerSound'
    BY <1>c, <2>0 DEF PointerSound, CandidateInv, DiskInv, PointerValid, Valid, Durable, Staging, Publishing
  <2> QED BY <2>1, <2>2, <2>3, <2>4
<1>7. CASE PrepareFails(w)
  <2> USE <1>7 DEF PrepareFails, Release, files, pointer, Goto, TypeOK
  <2>0. \A v \in Writers : v # w => pc[v] = "idle" /\ pc'[v] = "idle"
    BY <1>0
  <2>1. LockInv'
    BY <2>0 DEF LockInv
  <2>2. DiskInv'
    BY <1>c DEF DiskInv, CandidateInv, Staging, Publishing, Trees
  <2>3. CandidateInv'
    BY <1>c, <2>0 DEF CandidateInv, PointerSound, DiskInv, PointerValid, Durable, Staging, Publishing
  <2>4. PointerSound'
    BY <1>c, <2>0 DEF PointerSound, CandidateInv, DiskInv, PointerValid, Valid, Durable, Staging, Publishing
  <2> QED BY <2>1, <2>2, <2>3, <2>4
<1>8. CASE OpenActive(w)
  <2> USE <1>8 DEF OpenActive, files, pointer, Goto, TypeOK
  <2>0. \A v \in Writers : v # w => pc[v] = "idle" /\ pc'[v] = "idle"
    BY <1>0
  <2>1. LockInv'
    BY <2>0 DEF LockInv
  <2>2. DiskInv'
    BY <1>c DEF DiskInv, CandidateInv, Staging, Publishing, Trees
  <2>3. CandidateInv'
    BY <1>c, <2>0 DEF CandidateInv, PointerSound, DiskInv, PointerValid, Durable, Staging, Publishing
  <2>4. PointerSound'
    BY <1>c, <2>0 DEF PointerSound, CandidateInv, DiskInv, PointerValid, Valid, Durable, Staging, Publishing
  <2> QED BY <2>1, <2>2, <2>3, <2>4
<1>9. CASE CreateCandidate(w)
  <2> USE <1>9 DEF CreateCandidate, files, pointer, Goto, TypeOK
  <2>0. \A v \in Writers : v # w => pc[v] = "idle" /\ pc'[v] = "idle"
    BY <1>0
  <2>1. LockInv'
    BY <2>0 DEF LockInv
  <2>2. DiskInv'
    BY <1>c DEF DiskInv, CandidateInv, Staging, Publishing, Trees
  <2>3. CandidateInv'
    BY <1>c, <2>0 DEF CandidateInv, PointerSound, DiskInv, PointerValid, Durable, Staging, Publishing
  <2>4. PointerSound'
    BY <1>c, <2>0 DEF PointerSound, CandidateInv, DiskInv, PointerValid, Valid, Durable, Staging, Publishing
  <2> QED BY <2>1, <2>2, <2>3, <2>4
<1>10. CASE FillCandidate(w)
  <2> USE <1>10 DEF FillCandidate, files, pointer, Goto, TypeOK
  <2>0. \A v \in Writers : v # w => pc[v] = "idle" /\ pc'[v] = "idle"
    BY <1>0
  <2>1. LockInv'
    BY <2>0 DEF LockInv
  <2>2. DiskInv'
    BY <1>c DEF DiskInv, CandidateInv, Staging, Publishing, Trees
  <2>3. CandidateInv'
    BY <1>c, <2>0 DEF CandidateInv, PointerSound, DiskInv, PointerValid, Durable, Staging, Publishing
  <2>4. PointerSound'
    BY <1>c, <2>0 DEF PointerSound, CandidateInv, DiskInv, PointerValid, Valid, Durable, Staging, Publishing
  <2> QED BY <2>1, <2>2, <2>3, <2>4
<1>11. CASE SyncTree(w)
  <2> USE <1>11 DEF SyncTree, files, pointer, Goto, TypeOK
  <2>0. \A v \in Writers : v # w => pc[v] = "idle" /\ pc'[v] = "idle"
    BY <1>0
  <2>1. LockInv'
    BY <2>0 DEF LockInv
  <2>2. DiskInv'
    BY <1>c DEF DiskInv, CandidateInv, Staging, Publishing, Trees
  <2>3. CandidateInv'
    BY <1>c, <2>0 DEF CandidateInv, PointerSound, DiskInv, PointerValid, Durable, Staging, Publishing
  <2>4. PointerSound'
    BY <1>c, <2>0 DEF PointerSound, CandidateInv, DiskInv, PointerValid, Valid, Durable, Staging, Publishing
  <2> QED BY <2>1, <2>2, <2>3, <2>4
<1>12. CASE RenameCandidate(w)
  <2> USE <1>12 DEF RenameCandidate, EntriesUnsynced, files, pointer, Goto, TypeOK
  <2>0. \A v \in Writers : v # w => pc[v] = "idle" /\ pc'[v] = "idle"
    BY <1>0
  <2>1. LockInv'
    BY <2>0 DEF LockInv
  <2>2. DiskInv'
    <3>1. cand[w] \in Ids /\ cand[w] = issued
      BY <1>c DEF Staging
    <3>2. \A i \in Ids : i > issued => entry'[i] = entry[i]
      BY <3>1
    <3> QED BY <3>2 DEF DiskInv
  <2>3. CandidateInv'
    BY <1>c, <2>0 DEF CandidateInv, PointerSound, DiskInv, PointerValid, Durable, Staging, Publishing
  <2>4. PointerSound'
    BY <1>c, <2>0 DEF PointerSound, CandidateInv, DiskInv, PointerValid, Valid, Durable, Staging, Publishing
  <2> QED BY <2>1, <2>2, <2>3, <2>4
<1>13. CASE SyncGenerations(w)
  <2> USE <1>13 DEF SyncGenerations, EntriesSynced, files, pointer, Goto, TypeOK
  <2>0. \A v \in Writers : v # w => pc[v] = "idle" /\ pc'[v] = "idle"
    BY <1>0
  <2>1. LockInv'
    BY <2>0 DEF LockInv
  <2>2. DiskInv'
    BY <1>c DEF DiskInv, CandidateInv, Staging, Publishing, Trees
  <2>3. CandidateInv'
    BY <1>c, <2>0 DEF CandidateInv, PointerSound, DiskInv, PointerValid, Durable, Staging, Publishing
  <2>4. PointerSound'
    BY <1>c, <2>0 DEF PointerSound, CandidateInv, DiskInv, PointerValid, Valid, Durable, Staging, Publishing
  <2> QED BY <2>1, <2>2, <2>3, <2>4
<1>14. CASE WritePointer(w)
  <2> USE <1>14 DEF WritePointer, PersistPointer, files, pointer, Goto, TypeOK
  <2>0. \A v \in Writers : v # w => pc[v] = "idle" /\ pc'[v] = "idle"
    BY <1>0
  <2>1. LockInv'
    BY <2>0 DEF LockInv
  <2>2. DiskInv'
    BY <1>c DEF DiskInv, CandidateInv, Staging, Publishing, Trees
  <2>3. CandidateInv'
    BY <1>c, <2>0 DEF CandidateInv, PointerSound, DiskInv, PointerValid, Durable, Staging, Publishing
  <2>4. PointerSound'
    BY <1>c, <2>0 DEF PointerSound, CandidateInv, DiskInv, PointerValid, Valid, Durable, Staging, Publishing
  <2> QED BY <2>1, <2>2, <2>3, <2>4
<1>15. CASE SyncRoot(w)
  <2> USE <1>15 DEF SyncRoot, files, pointer, Goto, TypeOK
  <2>0. \A v \in Writers : v # w => pc[v] = "idle" /\ pc'[v] = "idle"
    BY <1>0
  <2>1. LockInv'
    BY <2>0 DEF LockInv
  <2>2. DiskInv'
    BY <1>c DEF DiskInv, CandidateInv, Staging, Publishing, Trees
  <2>3. CandidateInv'
    BY <1>c, <2>0 DEF CandidateInv, PointerSound, DiskInv, PointerValid, Durable, Staging, Publishing
  <2>4. PointerSound'
    BY <1>c, <2>0 DEF PointerSound, CandidateInv, DiskInv, PointerValid, Valid, Durable, Staging, Publishing
  <2> QED BY <2>1, <2>2, <2>3, <2>4
<1>16. CASE PublishFails(w)
  <2> USE <1>16 DEF PublishFails, files, pointer, Goto, TypeOK
  <2>0. \A v \in Writers : v # w => pc[v] = "idle" /\ pc'[v] = "idle"
    BY <1>0
  <2>1. LockInv'
    BY <2>0 DEF LockInv
  <2>2. DiskInv'
    BY <1>c DEF DiskInv, CandidateInv, Staging, Publishing, Trees
  <2>3. CandidateInv'
    BY <1>c, <2>0 DEF CandidateInv, PointerSound, DiskInv, PointerValid, Durable, Staging, Publishing
  <2>4. PointerSound'
    BY <1>c, <2>0 DEF PointerSound, CandidateInv, DiskInv, PointerValid, Valid, Durable, Staging, Publishing
  <2> QED BY <2>1, <2>2, <2>3, <2>4
<1>17. CASE InstallPublished(w)
  <2> USE <1>17 DEF InstallPublished, files, pointer, Goto, TypeOK
  <2>0. \A v \in Writers : v # w => pc[v] = "idle" /\ pc'[v] = "idle"
    BY <1>0
  <2>1. LockInv'
    BY <2>0 DEF LockInv
  <2>2. DiskInv'
    BY <1>c DEF DiskInv, CandidateInv, Staging, Publishing, Trees
  <2>3. CandidateInv'
    BY <1>c, <2>0 DEF CandidateInv, PointerSound, DiskInv, PointerValid, Durable, Staging, Publishing
  <2>4. PointerSound'
    BY <1>c, <2>0 DEF PointerSound, CandidateInv, DiskInv, PointerValid, Valid, Durable, Staging, Publishing
  <2> QED BY <2>1, <2>2, <2>3, <2>4
<1>18. CASE InstallFails(w)
  <2> USE <1>18 DEF InstallFails, files, pointer, Goto, TypeOK
  <2>0. \A v \in Writers : v # w => pc[v] = "idle" /\ pc'[v] = "idle"
    BY <1>0
  <2>1. LockInv'
    BY <2>0 DEF LockInv
  <2>2. DiskInv'
    BY <1>c DEF DiskInv, CandidateInv, Staging, Publishing, Trees
  <2>3. CandidateInv'
    BY <1>c, <2>0 DEF CandidateInv, PointerSound, DiskInv, PointerValid, Durable, Staging, Publishing
  <2>4. PointerSound'
    BY <1>c, <2>0 DEF PointerSound, CandidateInv, DiskInv, PointerValid, Valid, Durable, Staging, Publishing
  <2> QED BY <2>1, <2>2, <2>3, <2>4
<1>19. CASE Close(w)
  <2> USE <1>19 DEF Close, Release, files, pointer, Goto, TypeOK
  <2>0. \A v \in Writers : v # w => pc[v] = "idle" /\ pc'[v] = "idle"
    BY <1>0
  <2>1. LockInv'
    BY <2>0 DEF LockInv
  <2>2. DiskInv'
    BY <1>c DEF DiskInv, CandidateInv, Staging, Publishing, Trees
  <2>3. CandidateInv'
    BY <1>c, <2>0 DEF CandidateInv, PointerSound, DiskInv, PointerValid, Durable, Staging, Publishing
  <2>4. PointerSound'
    BY <1>c, <2>0 DEF PointerSound, CandidateInv, DiskInv, PointerValid, Valid, Durable, Staging, Publishing
  <2> QED BY <2>1, <2>2, <2>3, <2>4
<1>20. CASE Kill(w)
  <2> USE <1>20 DEF Kill, Release, files, pointer, Goto, TypeOK
  <2>0. \A v \in Writers : v # w => pc[v] = "idle" /\ pc'[v] = "idle"
    BY <1>0
  <2>1. LockInv'
    BY <2>0 DEF LockInv
  <2>2. DiskInv'
    BY <1>c DEF DiskInv, CandidateInv, Staging, Publishing, Trees
  <2>3. CandidateInv'
    BY <1>c, <2>0 DEF CandidateInv, PointerSound, DiskInv, PointerValid, Durable, Staging, Publishing
  <2>4. PointerSound'
    BY <1>c, <2>0 DEF PointerSound, CandidateInv, DiskInv, PointerValid, Valid, Durable, Staging, Publishing
  <2> QED BY <2>1, <2>2, <2>3, <2>4
<1>21. CASE RemoveAbandonedStaging(w)
  <2>0. \A v \in Writers : v # w => pc[v] = "idle" /\ pc'[v] = "idle"
    BY <1>0, <1>21 DEF RemoveAbandonedStaging, Goto, TypeOK
  <2> DEFINE g == {i \in Ids : entry[i] = "staging"}
  <2>1. /\ Discard(g, {}) /\ (IF g # {} THEN EntriesSynced ELSE UNCHANGED durEntry)
        /\ UNCHANGED <<issued, ptr, durPtr, lock>>
        /\ pc' = [pc EXCEPT ![w] = "prepare"]
    BY <1>21 DEF RemoveAbandonedStaging, pointer, Goto
  <2>2. ASSUME NEW i \in Ids
        PROVE  /\ i \notin g => entry'[i] = entry[i] /\ tree'[i] = tree[i]
               /\ i \in g => entry'[i] = "absent"
               /\ tree[i] \in durTree[i] => tree'[i] \in durTree'[i]
    BY <2>1, DiscardEffect
  <2>3. LockInv'
    BY <2>0, <2>1, <1>21 DEF LockInv, RemoveAbandonedStaging
  <2>4. DiskInv'
    BY <2>1, <2>2 DEF DiskInv, EntriesSynced
  <2>5. CandidateInv'
    BY <2>0, <2>1 DEF CandidateInv, TypeOK, Staging, Publishing
  <2>6. PointerSound'
    BY <2>0, <2>1 DEF PointerSound, TypeOK
  <2> QED BY <2>3, <2>4, <2>5, <2>6
<1>22. CASE RemoveStagingFails(w)
  <2>0. \A v \in Writers : v # w => pc[v] = "idle" /\ pc'[v] = "idle"
    BY <1>0, <1>22 DEF RemoveStagingFails, Release, Goto, TypeOK
  <2>1. PICK g \in SUBSET {i \in Ids : entry[i] = "staging"} : Discard(g, {})
    BY <1>22 DEF RemoveStagingFails
  <2>2. /\ EntriesUnsynced
        /\ UNCHANGED <<issued, ptr, durPtr>>
        /\ pc' = [pc EXCEPT ![w] = "idle"]
    BY <1>22 DEF RemoveStagingFails, Release, pointer, Goto
  <2>3. ASSUME NEW i \in Ids
        PROVE  /\ i \notin g => entry'[i] = entry[i]
               /\ tree[i] \in durTree[i] => tree'[i] \in durTree'[i]
    BY <2>1, DiscardEffect
  <2>4. LockInv'
    BY <2>0, <2>2 DEF LockInv, TypeOK
  <2>5. DiskInv'
    BY <2>1, <2>2, <2>3 DEF DiskInv, EntriesUnsynced
  <2>6. CandidateInv' /\ PointerSound'
    BY <2>0, <2>2 DEF CandidateInv, PointerSound, TypeOK, Staging, Publishing
  <2> QED BY <2>4, <2>5, <2>6
<1>23. CASE PruneOpened(w)
  <2>0. \A v \in Writers : v # w => pc[v] = "idle" /\ pc'[v] = "idle"
    BY <1>0, <1>23 DEF PruneOpened, Goto, TypeOK
  <2>1. /\ PruneGenerations
        /\ UNCHANGED <<issued, ptr, durPtr, lock, cand>>
        /\ pc' = [pc EXCEPT ![w] = "ready"]
        /\ pc[w] = "pruneOpened"
    BY <1>23 DEF PruneOpened, pointer, Goto
  <2>2. ptr \in Ids /\ Valid(ptr)
    BY <2>1, <1>c DEF CandidateInv, PointerSound, Publishing
  <2>3. LockInv'
    BY <2>0, <2>1 DEF LockInv
  <2>4. DiskInv'
    BY <2>1, PruneEffect DEF DiskInv
  <2>5. CandidateInv'
    BY <2>0, <2>1, <1>c DEF CandidateInv, TypeOK, Staging, Publishing
  <2>6. PointerSound'
    BY <2>0, <2>1, <2>2, PruneEffect DEF PointerSound, Valid, TypeOK
  <2> QED BY <2>3, <2>4, <2>5, <2>6
<1>24. CASE PrunePublished(w)
  <2>0. \A v \in Writers : v # w => pc[v] = "idle" /\ pc'[v] = "idle"
    BY <1>0, <1>24 DEF PrunePublished, Goto, TypeOK
  <2>1. /\ PruneGenerations
        /\ UNCHANGED <<issued, ptr, durPtr, lock, cand>>
        /\ pc' = [pc EXCEPT ![w] = "published"]
        /\ pc[w] = "prunePublished"
    BY <1>24 DEF PrunePublished, pointer, Goto
  <2>2. ptr \in Ids /\ Valid(ptr)
    BY <2>1, <1>c DEF CandidateInv, PointerSound, Publishing
  <2>3. LockInv'
    BY <2>0, <2>1 DEF LockInv
  <2>4. DiskInv'
    BY <2>1, PruneEffect DEF DiskInv
  <2>5. CandidateInv'
    BY <2>0, <2>1, <1>c DEF CandidateInv, TypeOK, Staging, Publishing
  <2>6. PointerSound'
    BY <2>0, <2>1, <2>2, PruneEffect DEF PointerSound, Valid, TypeOK
  <2> QED BY <2>3, <2>4, <2>5, <2>6
<1>25. CASE AbandonCandidate(w)
  <2>0. \A v \in Writers : v # w => pc[v] = "idle" /\ pc'[v] = "idle"
    BY <1>0, <1>25 DEF AbandonCandidate, Goto, TypeOK
  <2>1. /\ pc[w] = "filling" /\ cand[w] \in Ids /\ entry[cand[w]] = "staging"
        /\ cand[w] = issued
        /\ UNCHANGED <<issued, ptr, durPtr, lock>>
        /\ pc' = [pc EXCEPT ![w] = "ready"]
    BY <1>25, <1>c DEF AbandonCandidate, CandidateInv, Staging, pointer, Goto
  <2>2. CASE UNCHANGED <<entry, durEntry, tree, durTree>>
    <3>1. DiskInv'
      BY <2>1, <2>2 DEF DiskInv
    <3>2. LockInv' /\ CandidateInv'
      BY <2>0, <2>1, <2>2 DEF LockInv, CandidateInv, TypeOK, Staging, Publishing
    <3>3. PointerSound'
      BY <2>0, <2>1, <2>2 DEF PointerSound, Valid, TypeOK
    <3> QED BY <3>1, <3>2, <3>3
  <2>3. CASE Discard({cand[w]}, {}) /\ EntriesUnsynced
    <3>1. ASSUME NEW i \in Ids
          PROVE  /\ i # cand[w] => entry'[i] = entry[i] /\ tree'[i] = tree[i]
                 /\ tree[i] \in durTree[i] => tree'[i] \in durTree'[i]
      BY <2>3, DiscardEffect
    <3>2. DiskInv'
      BY <2>1, <2>3, <3>1 DEF DiskInv, EntriesUnsynced, Ids, TypeOK
    <3>3. LockInv' /\ CandidateInv'
      BY <2>0, <2>1 DEF LockInv, CandidateInv, TypeOK, Staging, Publishing
    <3>4. PointerSound'
      BY <2>0, <2>1, <3>1 DEF PointerSound, Valid, TypeOK
    <3> QED BY <3>2, <3>3, <3>4
  <2> QED BY <1>25, <2>2, <2>3 DEF AbandonCandidate
<1> QED
  BY <1>1, <1>2, <1>3, <1>4, <1>5, <1>6, <1>7, <1>8, <1>9, <1>10, <1>11, <1>12, <1>13, <1>14, <1>15, <1>16, <1>17, <1>18, <1>19, <1>20, <1>21, <1>22, <1>23, <1>24, <1>25 DEF WriterStep

\* Every step keeps the invariant that ties lock, candidates, disk and pointer.
LEMMA NextPublication == PublicationInv /\ [Next]_vars => PublicationInv'
<1> SUFFICES ASSUME PublicationInv, [Next]_vars PROVE PublicationInv'
  OBVIOUS
<1> USE DEF PublicationInv
<1>t. TypeOK'
  BY NextType
<1>1. ASSUME NEW w \in Writers, WriterStep(w) PROVE PublicationInv'
  BY <1>1, <1>t, WriterPublication
<1>2. ASSUME NEW r \in Readers, ReaderStep(r) PROVE PublicationInv'
  BY <1>2, <1>t DEF ReaderStep, ReadPointer, FinishRead, files, pointer, procs,
     LockInv, DiskInv, CandidateInv, PointerSound, Valid, Durable
<1>3. CASE PowerLoss
  <2>1. DiskInv'
    BY <1>3 DEF PowerLoss, DiskInv, TypeOK
  <2>2. LockInv' /\ CandidateInv' /\ PointerSound'
    BY <1>3 DEF PowerLoss, LockInv, CandidateInv, PointerSound, Staging, Publishing
  <2> QED BY <1>t, <2>1, <2>2
<1>4. CASE ForeignPointer
  <2>1. \A w \in Writers : pc[w] = "idle"
    BY <1>4 DEF ForeignPointer, LockInv
  <2>2. DiskInv'
    BY <1>4 DEF ForeignPointer, DiskInv, files
  <2>3. LockInv' /\ CandidateInv' /\ PointerSound'
    BY <1>4, <2>1 DEF ForeignPointer, LockInv, CandidateInv, PointerSound,
       Staging, Publishing, procs
  <2> QED BY <1>t, <2>2, <2>3
<1>5. CASE UNCHANGED root
  BY <1>5, <1>t DEF root, LockInv, DiskInv, CandidateInv, PointerSound, Valid, Durable
<1> QED BY <1>1, <1>2, <1>3, <1>4, <1>5, StepCases DEF Running

\* The publication invariant holds in an empty root.
LEMMA InitPublication == Init => PublicationInv
BY InitType, IdFacts DEF Init, PublicationInv, LockInv, DiskInv, CandidateInv,
   PointerSound, Staging, Publishing

\* It is an invariant of the specification.
LEMMA PublicationCorrect == Spec => []PublicationInv
BY InitPublication, NextPublication, PTL DEF Spec

\* Once a writer has prepared the root, the pointer of this build names a
\* complete generation: after any recovery, failed step or interrupted
\* publication, whatever else was in current.json.
THEOREM PointerAlwaysSound == Spec => []PointerSound
BY PublicationCorrect, PTL DEF PublicationInv

\* A writer's staging directory is never cleaned away by another process.
THEOREM StagingAlwaysOwned == Spec => []StagingOwned
<1>1. PublicationInv => StagingOwned
  BY DEF PublicationInv, CandidateInv, StagingOwned
<1> QED BY PublicationCorrect, <1>1, PTL
-------------------------------------------------------------------------------
(* Durability: what publish acknowledged survives                            *)

\* Nothing that matters to durability changed.
LEMMA QuietDurability ==
  ASSUME DurabilityInv,
         UNCHANGED <<issued, entry, durEntry, tree, durTree, ptr, durPtr, acked>>
  PROVE  DurabilityInv'
BY DEF DurabilityInv, PointerValid, Valid, Durable

\* Directories that are not in place may come, go and change, flushed or not:
\* what validates, and what is durable, stays as it is.
LEMMA StagingDurability ==
  ASSUME TypeOK, DiskInv, DurabilityInv, UNCHANGED <<ptr, durPtr, acked>>,
         issued <= issued', issued' \in Nat,
         \A i \in Ids : Valid(i)' <=> Valid(i),
         \A i \in Ids : Durable(i) => Durable(i)'
  PROVE  DurabilityInv'
<1> SUFFICES ASSUME acked # None PROVE DurabilityInv'
  BY DEF DurabilityInv
<1>1. acked <= issued'
  BY IdFacts DEF DurabilityInv, TypeOK, None
<1>2. ptr \in Ids
  BY DEF DurabilityInv, DiskInv
<1>3. PointerValid' <=> PointerValid
  BY <1>2 DEF PointerValid
<1>4. CASE PointerValid
  BY <1>1, <1>2, <1>3, <1>4 DEF DurabilityInv
<1>5. CASE ~PointerValid
  BY <1>1, <1>2, <1>3, <1>5 DEF DurabilityInv
<1> QED BY <1>4, <1>5

\* A writer past prepare_locked has a durable generation behind the pointer.
LEMMA WorkingPointer ==
  ASSUME PublicationInv, DurabilityInv, acked # None,
         NEW w \in Writers, pc[w] \notin {"idle", "clean", "prepare"}
  PROVE  ptr \in Ids /\ PointerValid /\ Durable(ptr) /\ ptr >= acked
BY DEF PublicationInv, DurabilityInv, DiskInv, PointerSound, PointerValid

\* Every step of a writer keeps the durability invariant.
LEMMA WriterDurability ==
  ASSUME MonotoneClock, PublicationInv, PublicationInv',
         DurabilityInv, NEW w \in Writers, WriterStep(w)
  PROVE  DurabilityInv'
<1> USE IdFacts DEF PublicationInv
<1>c. pc[w] \in Staging \cup Publishing \cup {"published"} => cand[w] \in Ids /\ cand[w] = issued
  BY DEF CandidateInv, TypeOK, Ids
<1>i. issued \in Nat
  BY DEF TypeOK
<1>1. CASE \/ AcquireLock(w) \/ KeepActive(w) \/ KeepIncompatible(w) \/ PrepareFails(w)
           \/ OpenActive(w) \/ PublishFails(w) \/ InstallPublished(w) \/ InstallFails(w)
           \/ Close(w) \/ Kill(w)
  BY <1>1, QuietDurability DEF AcquireLock, KeepActive, KeepIncompatible, PrepareFails,
     OpenActive, PublishFails, InstallPublished, InstallFails, Close, Kill, files, pointer
<1>2. CASE RemoveAbandonedStaging(w)
  <2> DEFINE g == {i \in Ids : entry[i] = "staging"}
  <2>1. /\ Discard(g, {}) /\ (IF g # {} THEN EntriesSynced ELSE UNCHANGED durEntry)
        /\ UNCHANGED <<issued, ptr, durPtr, acked>>
    BY <1>2 DEF RemoveAbandonedStaging, pointer
  <2>2. ASSUME NEW i \in Ids
        PROVE  /\ i \notin g => entry'[i] = entry[i] /\ tree'[i] = tree[i] /\ durTree'[i] = durTree[i]
               /\ i \in g => entry'[i] = "absent"
    BY <2>1, DiscardEffect
  <2>3. \A i \in Ids : Valid(i)' <=> Valid(i)
    BY <2>2 DEF Valid
  <2>4. \A i \in Ids : Durable(i) => i \notin g
    BY DEF Durable, DiskInv
  <2>5. \A i \in Ids : Durable(i) => Durable(i)'
    BY <2>1, <2>2, <2>4 DEF Durable, EntriesSynced, DiskInv
  <2> QED BY <1>i, <2>1, <2>3, <2>5, StagingDurability
<1>3. CASE RemoveStagingFails(w)
  <2>1. PICK g \in SUBSET {i \in Ids : entry[i] = "staging"} : Discard(g, {})
    BY <1>3 DEF RemoveStagingFails
  <2>2. EntriesUnsynced /\ UNCHANGED <<issued, ptr, durPtr, acked>>
    BY <1>3 DEF RemoveStagingFails, pointer
  <2>3. ASSUME NEW i \in Ids
        PROVE  /\ i \notin g => entry'[i] = entry[i] /\ tree'[i] = tree[i] /\ durTree'[i] = durTree[i]
               /\ i \in g => entry'[i] = "absent"
    BY <2>1 DEF Discard
  <2>4. \A i \in Ids : Valid(i)' <=> Valid(i)
    BY <2>1, <2>3 DEF Valid
  <2>5. \A i \in Ids : Durable(i) => i \notin g
    BY <2>1 DEF Durable, DiskInv
  <2>6. \A i \in Ids : Durable(i) => Durable(i)'
    BY <2>2, <2>3, <2>5 DEF Durable, EntriesUnsynced, DiskInv
  <2> QED BY <1>i, <2>2, <2>4, <2>6, StagingDurability
<1>4. CASE CreateCandidate(w)
  <2>1. issued + 1 \in Ids /\ entry[issued + 1] = "absent" /\ durEntry[issued + 1] = {"absent"}
    BY <1>4, <1>i DEF CreateCandidate, Ids, DiskInv, TypeOK
  <2>2. \A i \in Ids : Valid(i)' <=> Valid(i)
    BY <1>4, <2>1 DEF CreateCandidate, Valid, TypeOK
  <2>3. \A i \in Ids : Durable(i) => Durable(i)'
    BY <1>4, <2>1 DEF CreateCandidate, Durable, TypeOK
  <2> QED BY <1>4, <1>i, <2>2, <2>3, StagingDurability DEF CreateCandidate, pointer
<1>5. CASE FillCandidate(w) \/ SyncTree(w)
  <2>1. cand[w] \in Ids /\ entry[cand[w]] = "staging"
    BY <1>5, <1>c DEF FillCandidate, SyncTree, CandidateInv, Staging
  <2>2. \A i \in Ids : Valid(i)' <=> Valid(i)
    BY <1>5, <2>1 DEF FillCandidate, SyncTree, Valid, TypeOK
  <2>3. \A i \in Ids : Durable(i) => i # cand[w]
    BY <2>1 DEF Durable, DiskInv
  <2>4. \A i \in Ids : Durable(i) => Durable(i)'
    BY <1>5, <2>1, <2>3 DEF FillCandidate, SyncTree, Durable, TypeOK
  <2> QED BY <1>5, <1>i, <2>2, <2>4, StagingDurability DEF FillCandidate, SyncTree, pointer
<1>6. CASE AbandonCandidate(w)
  <2>1. cand[w] \in Ids /\ entry[cand[w]] = "staging"
    BY <1>6, <1>c DEF AbandonCandidate, CandidateInv, Staging
  <2>2. CASE UNCHANGED <<entry, durEntry, tree, durTree>>
    BY <1>6, <2>2, QuietDurability DEF AbandonCandidate, pointer
  <2>3. CASE Discard({cand[w]}, {}) /\ EntriesUnsynced
    <3>1. ASSUME NEW i \in Ids
          PROVE  /\ i # cand[w] => entry'[i] = entry[i] /\ tree'[i] = tree[i] /\ durTree'[i] = durTree[i]
                 /\ i = cand[w] => entry'[i] = "absent"
      BY <2>3, DiscardEffect
    <3>2. \A i \in Ids : Valid(i)' <=> Valid(i)
      BY <2>1, <3>1 DEF Valid
    <3>3. \A i \in Ids : Durable(i) => i # cand[w]
      BY <2>1 DEF Durable, DiskInv
    <3>4. \A i \in Ids : Durable(i) => Durable(i)'
      BY <2>3, <3>1, <3>3 DEF Durable, EntriesUnsynced, DiskInv
    <3> QED BY <1>6, <1>i, <3>2, <3>4, StagingDurability DEF AbandonCandidate, pointer
  <2> QED BY <1>6, <2>2, <2>3 DEF AbandonCandidate
<1>7. CASE RenameCandidate(w) \/ SyncGenerations(w)
  <2>1. UNCHANGED <<issued, ptr, durPtr, acked, tree, durTree>>
        /\ pc[w] \in {"flushed", "renamed"} /\ cand[w] \in Ids
    BY <1>7, <1>c DEF RenameCandidate, SyncGenerations, pointer, Staging, Publishing
  <2>2. \A i \in Ids : entry[i] = "final" => entry'[i] = "final"
    BY <1>7, <2>1 DEF RenameCandidate, SyncGenerations, TypeOK
  <2>3. ASSUME NEW i \in Ids, Durable(i) PROVE Valid(i)' /\ Durable(i)'
    <3>1. entry[i] = "final" /\ tree[i] = "whole" /\ entry'[i] = "final"
      BY <2>2, <2>3 DEF Durable, DiskInv
    <3>2. durEntry'[i] = {entry'[i]} \/ durEntry'[i] = durEntry[i] \cup {entry'[i]}
      BY <1>7 DEF RenameCandidate, SyncGenerations, EntriesUnsynced, EntriesSynced
    <3>3. durEntry'[i] = {"final"} /\ durTree'[i] = {"whole"} /\ tree'[i] = "whole"
      BY <2>1, <2>3, <3>1, <3>2 DEF Durable
    <3> QED BY <3>1, <3>3 DEF Valid, Durable
  <2>4. CASE acked = None
    BY <2>1, <2>4 DEF DurabilityInv
  <2>5. CASE acked # None
    <3>1. ptr \in Ids /\ Durable(ptr)
      BY <2>1, <2>5, WorkingPointer
    <3>2. PointerValid' /\ Durable(ptr)'
      BY <2>1, <2>3, <3>1 DEF PointerValid
    <3> QED BY <2>1, <2>5, <3>2 DEF DurabilityInv, Durable
  <2> QED BY <2>4, <2>5
<1>8. CASE RecoverPointer(w)
  <2> SUFFICES ASSUME acked # None PROVE DurabilityInv'
    BY <1>8 DEF RecoverPointer, DurabilityInv
  <2>1. PICK i \in Ids : IsNewestValid(i) /\ PersistPointer(i)
    BY <1>8 DEF RecoverPointer
  <2>2. ~PointerValid /\ UNCHANGED <<issued, entry, durEntry, tree, durTree, acked>>
    BY <1>8 DEF RecoverPointer, files
  <2>3. PICK j \in Ids : j >= acked /\ Valid(j)
    BY <2>2 DEF DurabilityInv
  <2>4. Stamp[j] <= Stamp[i]
    BY <2>1, <2>3 DEF IsNewestValid
  <2>5. i >= acked
    <3>1. j <= i
      BY <2>4 DEF MonotoneClock, Ids
    <3> QED BY <2>3, <3>1 DEF TypeOK, None
  <2>6. Valid(i) /\ Durable(i)
    BY <2>1, <2>2 DEF IsNewestValid, DurabilityInv
  <2> QED BY <2>1, <2>2, <2>5, <2>6
          DEF DurabilityInv, PersistPointer, PointerValid, Valid, Durable
<1>9. CASE ForgetPointer(w)
  <2>1. acked = None
    BY <1>9 DEF ForgetPointer, DurabilityInv
  <2> QED BY <1>9, <2>1 DEF ForgetPointer, DurabilityInv
<1>10. CASE SyncPrepared(w) \/ SyncRoot(w)
  <2>1. UNCHANGED <<issued, entry, durEntry, tree, durTree, ptr, acked>> /\ durPtr' = {ptr}
    BY <1>10 DEF SyncPrepared, SyncRoot, files
  <2> QED BY <2>1 DEF DurabilityInv, DiskInv, PointerValid, Valid, Durable
<1>11. CASE WritePointer(w)
  <2>1. /\ UNCHANGED <<issued, entry, durEntry, tree, durTree, acked>>
        /\ ptr' = cand[w] /\ durPtr' = durPtr \cup {cand[w]}
        /\ cand[w] \in Ids /\ cand[w] = issued /\ Durable(cand[w])
    BY <1>11, <1>c DEF WritePointer, PersistPointer, files, CandidateInv, Publishing
  <2>2. Valid(cand[w])
    BY <2>1 DEF Valid, Durable, DiskInv
  <2> QED BY <2>1, <2>2 DEF DurabilityInv, PointerValid, Valid, Durable, TypeOK
<1>12. CASE PruneOpened(w)
  <2>1. PruneGenerations /\ UNCHANGED <<issued, ptr, durPtr, acked>> /\ pc[w] = "pruneOpened"
    BY <1>12 DEF PruneOpened, pointer
  <2>2. CASE acked = None
    BY <2>1, <2>2 DEF DurabilityInv
  <2>3. CASE acked # None
    <3>1. ptr \in Ids /\ PointerValid /\ Durable(ptr)
      BY <2>1, <2>3, WorkingPointer
    <3>2. PointerValid' /\ Durable(ptr)'
      BY <2>1, <3>1, PruneEffect DEF PointerValid, Valid, Durable
    <3> QED BY <2>1, <2>3, <3>2 DEF DurabilityInv, Durable
  <2> QED BY <2>2, <2>3
<1>13. CASE PrunePublished(w)
  <2>1. /\ PruneGenerations /\ UNCHANGED <<issued, ptr, durPtr>> /\ acked' = cand[w]
        /\ cand[w] \in Ids /\ cand[w] = issued /\ Durable(cand[w])
        /\ ptr = cand[w] /\ durPtr = {ptr}
    BY <1>13, <1>c DEF PrunePublished, pointer, CandidateInv, Publishing
  <2>2. Valid(ptr)
    BY <2>1 DEF Valid, Durable, DiskInv
  <2>3. PointerValid' /\ Durable(ptr)'
    BY <2>1, <2>2, PruneEffect DEF PointerValid, Valid, Durable
  <2>4. acked' <= issued' /\ (\A p \in durPtr' : p \in Ids /\ p >= acked')
    BY <1>i, <2>1
  <2> QED BY <2>3, <2>4 DEF DurabilityInv
<1> QED
  BY <1>1, <1>2, <1>3, <1>4, <1>5, <1>6, <1>7, <1>8, <1>9, <1>10, <1>11, <1>12, <1>13 DEF WriterStep

\* So does every step of the specification, power losses included.
LEMMA NextDurability ==
  ASSUME MonotoneClock, PublicationInv, PublicationInv',
         DurabilityInv, [Next]_vars
  PROVE  DurabilityInv'
<1>1. ASSUME NEW w \in Writers, WriterStep(w) PROVE DurabilityInv'
  BY <1>1, WriterDurability
<1>2. ASSUME NEW r \in Readers, ReaderStep(r) PROVE DurabilityInv'
  BY <1>2, QuietDurability DEF ReaderStep, ReadPointer, FinishRead, files, pointer
<1>3. CASE PowerLoss
  <2> SUFFICES ASSUME acked # None PROVE DurabilityInv'
    BY <1>3 DEF PowerLoss, DurabilityInv
  <2>1. /\ \A i \in Ids : entry'[i] \in durEntry[i] /\ tree'[i] \in durTree[i]
        /\ \A i \in Ids : durEntry'[i] = {entry'[i]} /\ durTree'[i] = {tree'[i]}
        /\ ptr' \in durPtr /\ durPtr' = {ptr'} /\ UNCHANGED <<issued, acked>>
    BY <1>3 DEF PowerLoss
  <2>2. \A i \in Ids : Durable(i) => Valid(i)'
    BY <2>1 DEF Durable, Valid
  <2>3. \A i \in Ids : Valid(i)' => Durable(i)'
    BY <2>1 DEF Durable, Valid
  <2>4. \E i \in Ids : i >= acked /\ Durable(i)
    <3>1. ptr \in Ids /\ ptr >= acked
      BY DEF PublicationInv, DiskInv, DurabilityInv
    <3> QED BY <3>1 DEF DurabilityInv
  <2>5. ptr' \in Ids
    BY <2>1 DEF DurabilityInv
  <2>6. PointerValid' => Durable(ptr)'
    BY <2>1, <2>3, <2>5 DEF PointerValid, Valid, Durable
  <2>7. acked' # None => acked' <= issued' /\ (\A p \in durPtr' : p \in Ids /\ p >= acked')
    BY <2>1 DEF DurabilityInv
  <2>8. \E i \in Ids : i >= acked' /\ Valid(i)'
    BY <2>1, <2>2, <2>4
  <2> QED BY <2>3, <2>6, <2>7, <2>8 DEF DurabilityInv
<1>4. CASE ForeignPointer
  BY <1>4 DEF ForeignPointer, DurabilityInv
<1>5. CASE UNCHANGED root
  BY <1>5, QuietDurability DEF root
<1> QED BY <1>1, <1>2, <1>3, <1>4, <1>5, StepCases DEF Running

\* The two invariants give the durability properties.
LEMMA DurabilityMeaning ==
  PublicationInv /\ DurabilityInv => DurableAck /\ NoRollback
BY DEF PublicationInv, DurabilityInv, DiskInv, DurableAck, NoRollback, PointerValid

\* The durability invariant holds always, if the clock never steps back.
LEMMA DurabilityCorrect ==
  ASSUME MonotoneClock
  PROVE  Spec => []DurabilityInv
<1>1. Init => DurabilityInv
  BY DEF Init, DurabilityInv
<1>2. PublicationInv /\ PublicationInv' /\ DurabilityInv /\ [Next]_vars => DurabilityInv'
  BY NextDurability
<1> QED BY <1>1, <1>2, PublicationCorrect, PTL DEF Spec

\* Whatever crashes, I/O errors, failed publications, prunings and recoveries
\* follow, a generation at least as new as the last acknowledged one is on
\* stable storage, for every number of writers and generations and every
\* retention count, as long as the clock does not step back.
THEOREM AcknowledgedDurable ==
  ASSUME MonotoneClock
  PROVE  Spec => []DurableAck
BY DurabilityCorrect, PublicationCorrect, DurabilityMeaning, PTL

\* No power loss takes the pointer back behind an acknowledged publication.
THEOREM NeverRolledBack ==
  ASSUME MonotoneClock
  PROVE  Spec => []NoRollback
BY DurabilityCorrect, PublicationCorrect, DurabilityMeaning, PTL


-------------------------------------------------------------------------------
(* The root implements the register of GenerationRegister                    *)

\* Removing or damaging directories brings no generation back.
LEMMA DiscardReturns ==
  ASSUME TypeOK, DiskInv, NEW gone, NEW damaged, Discard(gone, damaged),
         EntriesSynced \/ EntriesUnsynced \/ UNCHANGED durEntry,
         NEW i \in Ids, MayReturn(i)'
  PROVE  MayReturn(i)
<1>1. /\ entry'[i] = entry[i] \/ entry'[i] = "absent"
      /\ durTree'[i] = durTree[i] \/ durTree'[i] = durTree[i] \cup {"partial"}
  BY DEF Discard
<1>2. durEntry'[i] \in {{entry'[i]}, durEntry[i] \cup {entry'[i]}, durEntry[i]}
  BY DEF EntriesSynced, EntriesUnsynced
<1> QED BY <1>1, <1>2 DEF MayReturn, DiskInv

\* The steps that change directories leave the pointer alone; they neither
\* complete nor damage the generation it names, and bring back none that a
\* power loss could not make active before.
LEMMA FileSteps ==
  ASSUME PublicationInv, PointerInv, NEW w \in Writers,
         \/ RemoveAbandonedStaging(w) \/ RemoveStagingFails(w) \/ CreateCandidate(w)
         \/ FillCandidate(w) \/ AbandonCandidate(w) \/ SyncTree(w)
         \/ RenameCandidate(w) \/ SyncGenerations(w)
         \/ PruneOpened(w) \/ PrunePublished(w)
  PROVE  /\ UNCHANGED <<ptr, durPtr>>
         /\ ptr \in Ids => (Valid(ptr)' <=> Valid(ptr))
         /\ \A p \in durPtr \cap Ids : MayReturn(p)' => MayReturn(p)
<1> USE IdFacts DEF PublicationInv
<1>c. pc[w] \in Staging \cup Publishing => cand[w] \in Ids /\ cand[w] = issued
  BY DEF CandidateInv, TypeOK, Ids
<1>n. pc[w] \in Staging \cup {"renamed", "generationsSynced"} => cand[w] \notin durPtr /\ ptr # cand[w]
  BY DEF PointerInv, DiskInv
<1>1. CASE RemoveAbandonedStaging(w) \/ RemoveStagingFails(w)
  <2>1. PICK gone \in SUBSET {i \in Ids : entry[i] = "staging"} :
          /\ Discard(gone, {})
          /\ EntriesSynced \/ EntriesUnsynced \/ UNCHANGED durEntry
    BY <1>1 DEF RemoveAbandonedStaging, RemoveStagingFails
  <2>2. \A i \in Ids : Valid(i)' <=> Valid(i)
    BY <2>1 DEF Discard, Valid
  <2>3. \A i \in Ids : MayReturn(i)' => MayReturn(i)
    BY <2>1, DiscardReturns
  <2>4. UNCHANGED <<ptr, durPtr>>
    BY <1>1 DEF RemoveAbandonedStaging, RemoveStagingFails, pointer
  <2> QED BY <2>2, <2>3, <2>4
<1>2. CASE CreateCandidate(w)
  <2>0. issued \in Nat /\ issued + 1 \in Ids
    BY <1>2 DEF CreateCandidate, TypeOK, Ids
  <2>1. issued + 1 \in Ids /\ issued + 1 \notin durPtr /\ ptr # issued + 1
    <3>1. issued + 1 \in durPtr => issued + 1 <= issued
      BY <2>0 DEF PointerInv
    <3> QED BY <2>0, <3>1 DEF DiskInv
  <2>2. /\ UNCHANGED <<ptr, durPtr, tree, durTree>>
        /\ \A i \in Ids : i # issued + 1 => entry'[i] = entry[i] /\ durEntry'[i] = durEntry[i]
    BY <1>2 DEF CreateCandidate, pointer, TypeOK
  <2> QED BY <2>1, <2>2 DEF Valid, MayReturn
<1>3. CASE FillCandidate(w) \/ SyncTree(w)
  <2>1. cand[w] \in Ids /\ cand[w] \notin durPtr /\ ptr # cand[w]
    BY <1>3, <1>c, <1>n DEF FillCandidate, SyncTree, Staging
  <2>2. /\ UNCHANGED <<ptr, durPtr, entry, durEntry>>
        /\ \A i \in Ids : i # cand[w] => tree'[i] = tree[i] /\ durTree'[i] = durTree[i]
    BY <1>3 DEF FillCandidate, SyncTree, pointer, TypeOK
  <2> QED BY <2>1, <2>2 DEF Valid, MayReturn
<1>4. CASE AbandonCandidate(w)
  <2>1. cand[w] \in Ids /\ ptr # cand[w] /\ UNCHANGED <<ptr, durPtr>>
    BY <1>4, <1>c, <1>n DEF AbandonCandidate, Staging, pointer
  <2>2. CASE UNCHANGED <<entry, durEntry, tree, durTree>>
    BY <2>1, <2>2 DEF Valid, MayReturn
  <2>3. CASE Discard({cand[w]}, {}) /\ EntriesUnsynced
    <3>1. \A i \in Ids : MayReturn(i)' => MayReturn(i)
      BY <2>3, DiscardReturns
    <3>2. \A i \in Ids : i # cand[w] => (Valid(i)' <=> Valid(i))
      BY <2>3 DEF Discard, Valid
    <3> QED BY <2>1, <3>1, <3>2
  <2> QED BY <1>4, <2>2, <2>3 DEF AbandonCandidate
<1>5. CASE RenameCandidate(w) \/ SyncGenerations(w)
  <2>1. /\ cand[w] \in Ids /\ cand[w] \notin durPtr /\ ptr # cand[w]
        /\ UNCHANGED <<ptr, durPtr, tree, durTree>>
    BY <1>5, <1>c, <1>n DEF RenameCandidate, SyncGenerations, Staging, Publishing, pointer
  <2>2. \A i \in Ids : i # cand[w] => entry'[i] = entry[i]
    BY <1>5 DEF RenameCandidate, SyncGenerations, TypeOK
  <2>3. \A i \in Ids : durEntry'[i] \in {{entry'[i]}, durEntry[i] \cup {entry'[i]}}
    BY <1>5 DEF RenameCandidate, SyncGenerations, EntriesSynced, EntriesUnsynced
  <2>4. \A i \in Ids : i # cand[w] => (Valid(i)' <=> Valid(i))
    BY <2>1, <2>2 DEF Valid
  <2>5. \A i \in Ids : i # cand[w] => (MayReturn(i)' => MayReturn(i))
    BY <2>1, <2>2, <2>3 DEF MayReturn, DiskInv
  <2> QED BY <2>1, <2>4, <2>5
<1>6. CASE PruneOpened(w) \/ PrunePublished(w)
  <2>1. PruneGenerations /\ UNCHANGED <<ptr, durPtr>>
    BY <1>6 DEF PruneOpened, PrunePublished, pointer
  <2>2. ptr \in Ids /\ Valid(ptr)
    BY <1>6, <1>c DEF PruneOpened, PrunePublished, CandidateInv, PointerSound, Publishing
  <2>3. Valid(ptr)'
    BY <2>1, <2>2, PruneEffect DEF Valid
  <2>4. \A i \in Ids : MayReturn(i)' => MayReturn(i)
    BY <2>1, DiscardReturns DEF PruneGenerations
  <2> QED BY <2>1, <2>2, <2>3, <2>4
<1> QED BY <1>1, <1>2, <1>3, <1>4, <1>5, <1>6


\* Every step keeps the pointer invariant.
LEMMA NextPointer ==
  ASSUME PublicationInv, PublicationInv', PointerInv, [Next]_vars
  PROVE  PointerInv'
<1> USE IdFacts DEF PublicationInv
<1> DEFINE Unnamed == Staging \cup {"renamed", "generationsSynced"}
<1>q. ASSUME UNCHANGED <<ptr, durPtr>>, issued <= issued',
             ptr \in Ids => (Valid(ptr)' <=> Valid(ptr)),
             \A p \in durPtr \cap Ids : MayReturn(p)' => MayReturn(p),
             \A v \in Writers : pc'[v] \in Unnamed => cand'[v] \notin durPtr
      PROVE  PointerInv'
  <2>1. \A p \in durPtr' \cap Ids : p <= issued'
    <3> SUFFICES ASSUME NEW p \in durPtr \cap Ids PROVE p <= issued'
      BY <1>q
    <3>1. p <= issued
      BY DEF PointerInv
    <3>2. p \in Nat
      OBVIOUS
    <3>3. issued \in Nat /\ issued' \in Nat
      BY DEF TypeOK
    <3> QED BY <1>q, <3>1, <3>2, <3>3
  <2>2. PointerValid' <=> PointerValid
    BY <1>q DEF PointerValid
  <2>3. \A p \in durPtr' \cap Ids : MayReturn(p)' => PointerValid' /\ p <= ptr'
    BY <1>q, <2>2 DEF PointerInv
  <2> QED BY <1>q, <2>1, <2>3 DEF PointerInv
<1>1. ASSUME NEW w \in Writers, WriterStep(w) PROVE PointerInv'
  <2>0. ASSUME pc[w] # "idle", NEW v \in Writers, v # w PROVE pc[v] = "idle"
    BY <2>0, Alone
  <2>c. pc[w] \in Staging \cup Publishing \cup {"published"} => cand[w] \in Ids /\ cand[w] = issued
    BY DEF CandidateInv, TypeOK, Ids
  <2>1. CASE \/ RemoveAbandonedStaging(w) \/ RemoveStagingFails(w) \/ CreateCandidate(w)
             \/ FillCandidate(w) \/ AbandonCandidate(w) \/ SyncTree(w)
             \/ RenameCandidate(w) \/ SyncGenerations(w)
             \/ PruneOpened(w) \/ PrunePublished(w)
    <3>1. /\ UNCHANGED <<ptr, durPtr>>
          /\ ptr \in Ids => (Valid(ptr)' <=> Valid(ptr))
          /\ \A p \in durPtr \cap Ids : MayReturn(p)' => MayReturn(p)
      BY <2>1, FileSteps
    <3>2. issued <= issued'
      BY <2>1 DEF RemoveAbandonedStaging, RemoveStagingFails, CreateCandidate, FillCandidate,
         AbandonCandidate, SyncTree, RenameCandidate, SyncGenerations, PruneOpened,
         PrunePublished, TypeOK
    <3>3. ASSUME NEW v \in Writers, pc'[v] \in Unnamed PROVE cand'[v] \notin durPtr
      <4>1. CASE CreateCandidate(w)
        <5>1. issued \in Nat /\ issued + 1 \in Ids /\ issued + 1 \notin durPtr
          <6>1. issued \in Nat /\ issued + 1 \in Ids
            BY <4>1 DEF CreateCandidate, TypeOK, Ids
          <6>2. issued + 1 \in durPtr => issued + 1 <= issued
            BY <6>1 DEF PointerInv
          <6> QED BY <6>1, <6>2
        <5>2. v = w => cand'[v] = issued + 1
          BY <4>1 DEF CreateCandidate, TypeOK
        <5>3. v # w => pc'[v] = pc[v] /\ cand'[v] = cand[v]
          BY <4>1 DEF CreateCandidate, Goto, TypeOK
        <5> QED BY <3>3, <5>1, <5>2, <5>3 DEF PointerInv
      <4>2. CASE ~CreateCandidate(w)
        <5>1. v # w => pc'[v] = pc[v] /\ cand'[v] = cand[v]
          BY <2>1, <4>2 DEF RemoveAbandonedStaging, RemoveStagingFails, FillCandidate,
             AbandonCandidate, SyncTree, RenameCandidate, SyncGenerations, PruneOpened,
             PrunePublished, Goto, Release, TypeOK
        <5>2. v = w => pc[v] \in Unnamed /\ cand'[v] = cand[v]
          BY <2>1, <3>3, <4>2 DEF RemoveAbandonedStaging, RemoveStagingFails, FillCandidate,
             AbandonCandidate, SyncTree, RenameCandidate, SyncGenerations, PruneOpened,
             PrunePublished, Goto, Release, TypeOK, Staging
        <5> QED BY <3>3, <5>1, <5>2 DEF PointerInv
      <4> QED BY <4>1, <4>2
    <3> HIDE DEF Unnamed
    <3> QED BY <1>q, <3>1, <3>2, <3>3
  <2>2. CASE \/ AcquireLock(w) \/ KeepActive(w) \/ KeepIncompatible(w) \/ PrepareFails(w)
             \/ OpenActive(w) \/ PublishFails(w) \/ InstallPublished(w) \/ InstallFails(w)
             \/ Close(w) \/ Kill(w)
    <3>1. UNCHANGED <<issued, entry, durEntry, tree, durTree, ptr, durPtr>>
      BY <2>2 DEF AcquireLock, KeepActive, KeepIncompatible, PrepareFails,
         OpenActive, PublishFails, InstallPublished, InstallFails, Close, Kill, files, pointer
    <3>2. ASSUME NEW v \in Writers, pc'[v] \in Unnamed PROVE cand'[v] \notin durPtr
      <4>1. pc'[v] = pc[v] /\ cand'[v] = cand[v]
        BY <2>2, <3>2 DEF AcquireLock, KeepActive, KeepIncompatible, PrepareFails,
           OpenActive, PublishFails, InstallPublished, InstallFails, Close, Kill,
           Goto, Release, TypeOK, Staging
      <4> QED BY <3>2, <4>1 DEF PointerInv
    <3>3. issued <= issued'
      BY <3>1 DEF TypeOK
    <3> HIDE DEF Unnamed
    <3> QED BY <1>q, <3>1, <3>2, <3>3 DEF Valid, MayReturn
  <2>3. CASE SyncPrepared(w) \/ SyncRoot(w)
    <3>1. UNCHANGED <<issued, entry, durEntry, tree, durTree, ptr>> /\ durPtr' = {ptr}
      BY <2>3 DEF SyncPrepared, SyncRoot, files
    <3>2. \A v \in Writers : pc'[v] \notin Unnamed
      BY <2>0, <2>3 DEF SyncPrepared, SyncRoot, Goto, TypeOK, Staging
    <3> HIDE DEF Unnamed
    <3>3. \A p \in durPtr' \cap Ids : p \in durPtr
      BY <3>1 DEF DiskInv
    <3>4. PointerValid' <=> PointerValid
      BY <3>1 DEF PointerValid, Valid
    <3>5. \A p \in durPtr' \cap Ids : MayReturn(p)' => PointerValid' /\ p <= ptr'
      BY <3>1, <3>3, <3>4 DEF PointerInv, MayReturn
    <3> QED BY <3>1, <3>2, <3>3, <3>5 DEF PointerInv, Unnamed
  <2>4. CASE RecoverPointer(w)
    <3>1. PICK i \in Ids : Valid(i) /\ PersistPointer(i)
      BY <2>4 DEF RecoverPointer, IsNewestValid
    <3>2. ~PointerValid /\ UNCHANGED <<issued, entry, durEntry, tree, durTree>>
      BY <2>4 DEF RecoverPointer, files
    <3>3. \A v \in Writers : pc'[v] \notin Unnamed
      BY <2>0, <2>4 DEF RecoverPointer, Goto, TypeOK, Staging
    <3> HIDE DEF Unnamed
    <3>4. i <= issued
      BY <3>1 DEF Valid, DiskInv, TypeOK
    <3>5. PointerValid' /\ ptr' = i
      BY <3>1, <3>2 DEF PersistPointer, PointerValid, Valid
    <3>6. \A p \in durPtr' \cap Ids : p <= issued'
      BY <3>1, <3>2, <3>4 DEF PersistPointer, PointerInv
    <3>7. \A p \in durPtr \cap Ids : ~MayReturn(p)
      BY <3>2 DEF PointerInv
    <3>8. \A p \in durPtr' \cap Ids : MayReturn(p)' => PointerValid' /\ p <= ptr'
      <4> SUFFICES ASSUME NEW p \in durPtr' \cap Ids, MayReturn(p)' PROVE p <= ptr'
        BY <3>5
      <4>1. p \notin durPtr
        BY <3>2, <3>7 DEF MayReturn
      <4>2. p = i
        BY <3>1, <4>1 DEF PersistPointer
      <4> QED BY <3>5, <4>2
    <3> QED BY <3>3, <3>6, <3>8 DEF PointerInv, Unnamed
  <2>5. CASE ForgetPointer(w)
    <3>1. /\ ~PointerValid /\ UNCHANGED <<issued, entry, durEntry, tree, durTree>>
          /\ durPtr' = durPtr \cup {None}
      BY <2>5 DEF ForgetPointer, PersistPointer, files
    <3>2. \A v \in Writers : pc'[v] \notin Unnamed
      BY <2>0, <2>5 DEF ForgetPointer, Goto, TypeOK, Staging
    <3> HIDE DEF Unnamed
    <3> QED BY <3>1, <3>2 DEF PointerInv, MayReturn, Unnamed
  <2>6. CASE WritePointer(w)
    <3>1. /\ UNCHANGED <<issued, entry, durEntry, tree, durTree>>
          /\ ptr' = cand[w] /\ durPtr' = durPtr \cup {cand[w]}
          /\ cand[w] \in Ids /\ cand[w] = issued /\ Durable(cand[w])
      BY <2>6, <2>c DEF WritePointer, PersistPointer, files, CandidateInv, Publishing
    <3>2. \A v \in Writers : pc'[v] \notin Unnamed
      BY <2>0, <2>6 DEF WritePointer, Goto, TypeOK, Staging
    <3> HIDE DEF Unnamed
    <3>3. PointerValid'
      BY <3>1 DEF PointerValid, Valid, Durable, DiskInv
    <3>4. \A p \in durPtr' \cap Ids : p <= issued'
      <4> SUFFICES ASSUME NEW p \in durPtr', p \in Ids PROVE p <= issued
        BY <3>1
      <4>1. CASE p \in durPtr
        BY <4>1 DEF PointerInv
      <4>2. CASE p = cand[w]
        BY <3>1, <4>2
      <4> QED BY <3>1, <4>1, <4>2
    <3> QED BY <3>1, <3>2, <3>3, <3>4 DEF PointerInv, Unnamed
  <2> HIDE DEF Unnamed
  <2> QED BY <1>1, <2>1, <2>2, <2>3, <2>4, <2>5, <2>6 DEF WriterStep
<1>2. ASSUME NEW r \in Readers, ReaderStep(r) PROVE PointerInv'
  BY <1>2 DEF ReaderStep, ReadPointer, FinishRead, files, pointer, procs,
     PointerInv, PointerValid, Valid, MayReturn
<1>3. CASE PowerLoss
  <2>1. /\ \A i \in Ids : entry'[i] \in durEntry[i] /\ tree'[i] \in durTree[i]
        /\ \A i \in Ids : durEntry'[i] = {entry'[i]} /\ durTree'[i] = {tree'[i]}
        /\ ptr' \in durPtr /\ durPtr' = {ptr'} /\ issued' = issued
    BY <1>3 DEF PowerLoss
  <2>2. \A v \in Writers : pc'[v] \notin Unnamed
    BY <1>3 DEF PowerLoss, Staging
  <2> HIDE DEF Unnamed
  <2>3. \A p \in durPtr' \cap Ids : p = ptr' /\ p \in durPtr
    BY <2>1
  <2>4. \A p \in durPtr' \cap Ids : MayReturn(p)' => PointerValid' /\ p <= ptr'
    <3> SUFFICES ASSUME NEW p \in durPtr' \cap Ids, MayReturn(p)'
                 PROVE  PointerValid' /\ p <= ptr'
      OBVIOUS
    <3>1. p = ptr' /\ p \in Nat
      BY <2>3
    <3>2. p \in Ids /\ "final" \in durEntry'[p] /\ "whole" \in durTree'[p]
      BY DEF MayReturn
    <3>3. entry'[p] = "final" /\ tree'[p] = "whole"
      BY <2>1, <3>2
    <3> QED BY <3>1, <3>2, <3>3 DEF PointerValid, Valid
  <2> QED BY <2>1, <2>2, <2>3, <2>4 DEF PointerInv, Unnamed
<1>4. CASE ForeignPointer
  <2>1. \A w \in Writers : pc[w] = "idle"
    BY <1>4 DEF ForeignPointer, LockInv
  <2>2. durPtr' \cap Ids = {} /\ UNCHANGED pc
    BY <1>4 DEF ForeignPointer, procs
  <2> QED BY <2>1, <2>2 DEF PointerInv, Staging
<1>5. CASE UNCHANGED root
  BY <1>5 DEF root, PointerInv, PointerValid, Valid, MayReturn
<1> HIDE DEF Unnamed
<1> QED BY <1>1, <1>2, <1>3, <1>4, <1>5, StepCases DEF Running

\* The pointer invariant holds in every state.
LEMMA PointerCorrect == Spec => []PointerInv
<1>1. Init => PointerInv
  BY IdFacts DEF Init, PointerInv, Staging
<1>2. PublicationInv /\ PublicationInv' /\ PointerInv /\ [Next]_vars => PointerInv'
  BY NextPointer
<1> QED BY <1>1, <1>2, PublicationCorrect, PTL DEF Spec


\* Every step is a step of the register, or leaves it alone.
LEMMA RegisterStep ==
  ASSUME PublicationInv, PublicationInv', PointerInv, DurabilityInv, DurabilityInv',
         [Next]_vars
  PROVE  [Register!Next]_(Register!vars)
<1> USE IdFacts DEF PublicationInv
<1>q. ASSUME Active' = Active, acked' = acked, up' = up
      PROVE  [Register!Next]_(Register!vars)
  BY <1>q DEF Register!vars
<1>r. ASSUME UNCHANGED <<entry, tree, ptr, acked>> PROVE Active' = Active /\ acked' = acked
  BY <1>r DEF Active, PointerValid, Valid
<1>1. ASSUME NEW w \in Writers, WriterStep(w), up, up' = up
      PROVE  [Register!Next]_(Register!vars)
  <2>c. pc[w] \in Staging \cup Publishing \cup {"published"} => cand[w] \in Ids /\ cand[w] = issued
    BY DEF CandidateInv, TypeOK, Ids
  <2>1. CASE \/ RemoveAbandonedStaging(w) \/ RemoveStagingFails(w) \/ CreateCandidate(w)
             \/ FillCandidate(w) \/ AbandonCandidate(w) \/ SyncTree(w)
             \/ RenameCandidate(w) \/ SyncGenerations(w) \/ PruneOpened(w)
    <3>1. acked' = acked
      BY <2>1 DEF RemoveAbandonedStaging, RemoveStagingFails, CreateCandidate, FillCandidate,
         AbandonCandidate, SyncTree, RenameCandidate, SyncGenerations, PruneOpened
    <3>2. Active' = Active
      BY <2>1, FileSteps DEF Active, PointerValid
    <3> QED BY <1>1, <1>q, <3>1, <3>2
  <2>2. CASE \/ AcquireLock(w) \/ KeepActive(w) \/ KeepIncompatible(w) \/ PrepareFails(w)
             \/ OpenActive(w) \/ PublishFails(w) \/ InstallPublished(w) \/ InstallFails(w)
             \/ Close(w) \/ Kill(w) \/ SyncPrepared(w) \/ SyncRoot(w)
    <3>1. UNCHANGED <<entry, tree, ptr, acked>>
      BY <2>2 DEF AcquireLock, KeepActive, KeepIncompatible, PrepareFails, OpenActive,
         PublishFails, InstallPublished, InstallFails, Close, Kill, SyncPrepared, SyncRoot,
         files, pointer
    <3> QED BY <1>1, <1>q, <1>r, <3>1
  <2>3. CASE ForgetPointer(w)
    <3>1. Active \in {None, Corrupt} /\ acked' = acked /\ ptr' = None
      BY <2>3 DEF ForgetPointer, PersistPointer, Active
    <3>2. Active' = None
      BY <3>1 DEF Active, PointerValid
    <3> QED BY <1>1, <1>q, <3>1, <3>2 DEF Register!Next, Register!Forget, None
  <2>4. CASE RecoverPointer(w) \/ WritePointer(w)
    <3>1. UNCHANGED <<entry, tree, acked>> /\ ptr' \in durPtr'
      BY <2>4 DEF RecoverPointer, WritePointer, files, DiskInv
    <3>2. ptr' \in Ids /\ Valid(ptr)'
      <4>1. CASE RecoverPointer(w)
        BY <4>1 DEF RecoverPointer, IsNewestValid, PersistPointer, Valid, files
      <4>2. CASE WritePointer(w)
        BY <4>2, <2>c DEF WritePointer, PersistPointer, Valid, files, CandidateInv,
           Publishing, Durable, DiskInv
      <4> QED BY <2>4, <4>1, <4>2
    <3>3. Active' = ptr'
      BY <3>2 DEF Active, PointerValid
    <3>4. Active \in Ids => ptr' > Active
      <4>1. CASE RecoverPointer(w)
        BY <4>1 DEF RecoverPointer, Active
      <4>2. CASE WritePointer(w)
        <5>1. ptr' = issued /\ issued \in Ids /\ ptr # issued
          BY <4>2, <2>c DEF WritePointer, PersistPointer, Publishing, PointerInv, DiskInv
        <5>2. ptr \in Ids => ptr <= issued
          BY DEF PointerInv, DiskInv
        <5>3. CASE PointerValid
          <6>1. ptr \in Ids /\ Active = ptr
            BY <5>3 DEF Active, PointerValid
          <6> QED BY <5>1, <5>2, <6>1
        <5>4. CASE ~PointerValid
          BY <5>4 DEF Active
        <5> QED BY <5>3, <5>4
      <4> QED BY <2>4, <4>1, <4>2
    <3>5. ptr' >= acked
      <4>1. CASE acked = None
        BY <3>2, <4>1 DEF None
      <4>2. CASE acked # None
        BY <3>1, <4>2 DEF DurabilityInv
      <4> QED BY <4>1, <4>2
    <3>6. /\ Active' \in Ids /\ (Active \in Ids => Active' > Active) /\ Active' >= acked
          /\ acked' = acked
      BY <3>1, <3>2, <3>3, <3>4, <3>5
    <3> QED BY <1>1, <3>6 DEF Register!Next, Register!Publish
  <2>5. CASE PrunePublished(w)
    <3>1. acked' = ptr /\ ptr \in Ids /\ Valid(ptr)
      BY <2>5, <2>c DEF PrunePublished, CandidateInv, PointerSound, Publishing
    <3>2. ptr' = ptr /\ Valid(ptr)'
      BY <2>5, <3>1, FileSteps
    <3>3. Active = ptr /\ Active' = ptr
      BY <3>1, <3>2 DEF Active, PointerValid
    <3>4. Active \in Ids /\ acked' = Active /\ Active' = Active
      BY <3>1, <3>3
    <3> QED BY <1>1, <3>4 DEF Register!Next, Register!Acknowledge
  <2> QED BY <1>1, <2>1, <2>2, <2>3, <2>4, <2>5 DEF WriterStep
<1>2. ASSUME NEW r \in Readers, ReaderStep(r), up' = up
      PROVE  [Register!Next]_(Register!vars)
  <2>1. UNCHANGED <<entry, tree, ptr, acked>>
    BY <1>2 DEF ReaderStep, ReadPointer, FinishRead, files, pointer
  <2> QED BY <1>2, <1>q, <1>r, <2>1
<1>3. CASE PowerLoss
  <2>1. /\ \A i \in Ids : entry'[i] \in durEntry[i] /\ tree'[i] \in durTree[i]
        /\ ptr' \in durPtr /\ acked' = acked /\ up /\ up' = FALSE
    BY <1>3 DEF PowerLoss
  <2>2. CASE ~PointerValid'
    <3>1. Active' = 0 \/ (Active' = Corrupt /\ ptr' \notin Ids)
      BY <2>2 DEF Active, None
    <3>2. ptr' \notin Ids => acked = 0
      BY <2>1 DEF DurabilityInv, None
    <3> QED BY <2>1, <3>1, <3>2 DEF Register!Next, Register!PowerLoss
  <2>3. CASE PointerValid'
    <3>1. ptr' \in Ids /\ Active' = ptr' /\ MayReturn(ptr')
      BY <2>1, <2>3 DEF Active, PointerValid, Valid, MayReturn
    <3>2. PointerValid /\ ptr' <= ptr
      BY <2>1, <3>1 DEF PointerInv
    <3>3. Active = ptr
      BY <3>2 DEF Active
    <3>4. acked <= ptr'
      <4>1. CASE acked = None
        BY <3>1, <4>1 DEF None
      <4>2. CASE acked # None
        <5>1. ptr' >= acked
          BY <2>1, <4>2 DEF DurabilityInv
        <5> QED BY <3>1, <5>1 DEF TypeOK, None
      <4> QED BY <4>1, <4>2
    <3>5. {Active, Active'} \subseteq Ids /\ acked <= Active' /\ Active' <= Active
      BY <3>1, <3>2, <3>3, <3>4 DEF PointerValid
    <3> QED BY <2>1, <3>5 DEF Register!Next, Register!PowerLoss
  <2> QED BY <2>2, <2>3
<1>4. CASE ForeignPointer /\ up /\ up' = up
  <2>1. ptr' \in {Corrupt, Incompatible} /\ ptr' \notin Ids /\ acked' = 0
    BY <1>4, DataRootAssumption DEF ForeignPointer, None
  <2>2. Active' = Corrupt
    BY <2>1 DEF Active, PointerValid
  <2> QED BY <1>4, <2>1, <2>2 DEF Register!Next, Register!Overwrite
<1>5. CASE UNCHANGED root /\ (up' = up \/ (~up /\ up' = TRUE))
  <2>1. Active' = Active /\ acked' = acked
    BY <1>5, <1>r DEF root
  <2>2. CASE up' = up
    BY <1>q, <2>1, <2>2
  <2>3. CASE ~up /\ up' = TRUE
    BY <2>1, <2>3 DEF Register!Next, Register!Restart
  <2> QED BY <1>5, <2>2, <2>3
<1> QED BY <1>1, <1>2, <1>3, <1>4, <1>5, StepCases DEF Running

\* The data root implements the register: whatever writers, readers, crashes
\* and power losses do, the generation active() returns only moves forward
\* while the machine has power and nobody else writes the pointer, and never
\* comes back behind what was acknowledged.
THEOREM RootIsRegister ==
  ASSUME MonotoneClock
  PROVE  Spec => ImplementsRegister
<1>1. Init => Register!Init
  BY IdFacts DEF Init, Register!Init, Active, PointerValid, None
<1>2. PublicationInv /\ PublicationInv' /\ PointerInv /\ DurabilityInv /\ DurabilityInv'
        /\ [Next]_vars => [Register!Next]_(Register!vars)
  BY RegisterStep
<1> QED BY <1>1, <1>2, PublicationCorrect, PointerCorrect, DurabilityCorrect, PTL
        DEF Spec, ImplementsRegister, Register!Spec


-------------------------------------------------------------------------------
(* Retention: what pruning leaves behind                                     *)

\* Sets of generations are finite, and a larger set has more elements.
LEMMA IdSets ==
  ASSUME NEW S \in SUBSET Ids
  PROVE  /\ IsFiniteSet(S)
         /\ Cardinality(S) \in Nat
         /\ \A T \in SUBSET S : Cardinality(T) <= Cardinality(S)
<1>1. IsFiniteSet(Ids)
  BY FS_Interval DEF Ids
<1>2. IsFiniteSet(S)
  BY <1>1, FS_Subset
<1> QED BY <1>2, FS_Subset, FS_CardinalityType

\* Of a set of at least n generations, at least n have fewer than n newer ones
\* in it: what `sort` and `take(n)` keep.
LEMMA TopCount ==
  ASSUME NEW P \in SUBSET Ids, NEW n \in Nat, n <= Cardinality(P)
  PROVE  Cardinality({j \in P : Cardinality({k \in P : Stamp[k] > Stamp[j]}) < n}) >= n
<1> DEFINE c == Cardinality(P)
           newer(j) == {k \in P : Stamp[k] > Stamp[j]}
           rank == [j \in P |-> Cardinality(newer(j))]
           top == {j \in P : rank[j] < n}
<1>1. c \in Nat /\ IsFiniteSet(P)
  BY IdSets
<1>2. \A j \in P : Stamp[j] \in Nat
  OBVIOUS
<1>3. ASSUME NEW j \in P PROVE newer(j) \in SUBSET (P \ {j}) /\ newer(j) \in SUBSET Ids
  BY <1>2
<1>4. ASSUME NEW j \in P PROVE Cardinality(newer(j)) \in 0 .. (c - 1)
  <2>1. IsFiniteSet(P \ {j}) /\ Cardinality(P \ {j}) = c - 1
    BY <1>1, FS_RemoveElement
  <2>2. Cardinality(newer(j)) <= c - 1
    BY <1>3, <2>1, FS_Subset
  <2>3. Cardinality(newer(j)) \in Nat
    BY <1>3, IdSets
  <2> QED BY <1>1, <2>2, <2>3
<1>5. rank \in [P -> 0 .. (c - 1)]
  BY <1>4
<1>6. ASSUME NEW j \in P, NEW k \in P, Stamp[j] < Stamp[k]
      PROVE  rank[k] < rank[j]
  <2>1. newer(k) \in SUBSET (newer(j) \ {k}) /\ k \in newer(j)
    BY <1>2, <1>6
  <2>2. IsFiniteSet(newer(j)) /\ Cardinality(newer(j)) \in Nat
    BY <1>3, IdSets
  <2>3. IsFiniteSet(newer(j) \ {k}) /\ Cardinality(newer(j) \ {k}) = Cardinality(newer(j)) - 1
    BY <2>1, <2>2, FS_RemoveElement
  <2>4. Cardinality(newer(k)) <= Cardinality(newer(j)) - 1
    BY <2>1, <2>3, FS_Subset
  <2>5. Cardinality(newer(k)) \in Nat
    BY <1>3, IdSets
  <2> QED BY <2>2, <2>4, <2>5
<1>7. \A j, k \in P : rank[j] = rank[k] => j = k
  <2> SUFFICES ASSUME NEW j \in P, NEW k \in P, rank[j] = rank[k], j # k PROVE FALSE
    OBVIOUS
  <2>1. Stamp[j] < Stamp[k] \/ Stamp[k] < Stamp[j]
    BY <1>2
  <2>2. rank[j] \in Int /\ rank[k] \in Int
    BY <1>4
  <2> HIDE DEF rank
  <2> QED BY <1>6, <2>1, <2>2
<1> HIDE DEF rank
<1>8. rank \in Injection(P, 0 .. (c - 1))
  BY <1>5, <1>7, Fun_IsInj
<1>9. IsFiniteSet(0 .. (c - 1)) /\ Cardinality(0 .. (c - 1)) = c
  <2>1. 0 \in Int /\ c - 1 \in Int
    BY <1>1
  <2> HIDE DEF c
  <2> QED BY <1>1, <2>1, FS_Interval
<1>10. rank \in Surjection(P, 0 .. (c - 1))
  BY <1>8, <1>9, FS_Injection
<1>11. \A t \in 0 .. (c - 1) : \E j \in P : rank[j] = t
  BY <1>10 DEF Surjection
<1> DEFINE low == [j \in top |-> rank[j]]
<1>12. low \in [top -> 0 .. (n - 1)]
  BY <1>5
<1>13. \A t \in 0 .. (n - 1) : \E j \in top : low[j] = t
  <2> SUFFICES ASSUME NEW t \in 0 .. (n - 1) PROVE \E j \in top : low[j] = t
    OBVIOUS
  <2>1. t \in 0 .. (c - 1)
    BY <1>1
  <2>2. PICK j \in P : rank[j] = t
    BY <1>11, <2>1
  <2> QED BY <2>2
<1>14. low \in Surjection(top, 0 .. (n - 1))
  BY <1>12, <1>13 DEF Surjection
<1>15. IsFiniteSet(top)
  BY IdSets
<1>16. Cardinality(0 .. (n - 1)) <= Cardinality(top)
  BY <1>14, <1>15, FS_Surjection
<1>17. Cardinality(0 .. (n - 1)) = n
  BY FS_Interval
<1>18. top = {j \in P : Cardinality({k \in P : Stamp[k] > Stamp[j]}) < n}
  BY DEF rank
<1>19. Cardinality(top) \in Nat
  BY IdSets
<1> QED BY <1>16, <1>17, <1>18, <1>19


\* Pruning that removes i, or finds it removed by an earlier one, leaves
\* Retained complete generations from i up to the active one.
LEMMA PruneLeaves ==
  ASSUME MonotoneClock, TypeOK, DiskInv, PruneGenerations, ptr' = ptr,
         ptr \in Ids, Valid(ptr), NEW i \in Ids, i <= ptr, ~Valid(i)',
         Valid(i) \/ Cardinality(Successors(i)) >= Retained
  PROVE  Cardinality(Successors(i)') >= Retained
<1> USE IdFacts
<1> DEFINE pred == Predecessors(ptr)
           n == Retained - 1
           after == {j \in pred : j > i}
           top == {j \in pred : Cardinality({k \in pred : Stamp[k] > Stamp[j]}) < n}
<1>n. n \in Nat /\ n + 1 = Retained
  OBVIOUS
<1>1. PICK gone \in SUBSET Removable(ptr), damaged \in SUBSET Removable(ptr) :
        Discard(gone, damaged)
  BY DEF PruneGenerations
<1>2. \A j \in Ids \ Removable(ptr) : Valid(j)' <=> Valid(j)
  BY <1>1, DiscardEffect DEF Valid
<1>3. Kept(ptr) \cap Removable(ptr) = {} /\ ptr \in Kept(ptr)
  BY DEF Removable, Kept
<1>4. Valid(ptr)' /\ i # ptr /\ i < ptr
  <2>1. Valid(ptr)'
    BY <1>2, <1>3
  <2>2. i # ptr
    BY <2>1
  <2> QED BY <2>1, <2>2
<1>5. pred \in SUBSET Ids /\ (\A j \in pred : Valid(j) /\ j < ptr)
  <2>1. \A j \in pred : j \in Ids /\ Valid(j) /\ Stamp[j] < Stamp[ptr]
    BY DEF Predecessors
  <2>2. \A j \in Ids : Stamp[j] < Stamp[ptr] => j < ptr
    <3> SUFFICES ASSUME NEW j \in Ids, Stamp[j] < Stamp[ptr], ~(j < ptr) PROVE FALSE
      OBVIOUS
    <3>1. j = ptr \/ ptr < j
      OBVIOUS
    <3>2. Stamp[j] \in Nat /\ Stamp[ptr] \in Nat
      OBVIOUS
    <3> QED BY <3>1, <3>2 DEF MonotoneClock
  <2> QED BY <2>1, <2>2
<1>6. Cardinality(after) >= n /\ Cardinality(after) \in Nat
  <2>0. after \in SUBSET Ids
    BY <1>5
  <2>1. Cardinality(after) \in Nat /\ IsFiniteSet(after)
    BY <2>0, IdSets
  <2>2. CASE Valid(i)
    <3>1. Stamp[i] < Stamp[ptr]
      BY <1>4 DEF MonotoneClock
    <3>2. i \in pred
      BY <2>2, <3>1 DEF Predecessors
    <3>3. i \in Removable(ptr)
      BY <1>2, <2>2
    <3>4. ~(Cardinality({j \in pred : Stamp[j] > Stamp[i]}) < Retained - 1)
      BY <1>3, <3>2, <3>3 DEF Kept
    <3>5. {j \in pred : Stamp[j] > Stamp[i]} = after
      <4>1. \A j \in Ids : Stamp[j] > Stamp[i] <=> j > i
        <5> SUFFICES ASSUME NEW j \in Ids PROVE Stamp[j] > Stamp[i] <=> j > i
          OBVIOUS
        <5>1. Stamp[j] \in Nat /\ Stamp[i] \in Nat
          OBVIOUS
        <5>2. CASE j > i
          BY <5>1, <5>2 DEF MonotoneClock
        <5>3. CASE j < i
          BY <5>1, <5>3 DEF MonotoneClock
        <5>4. CASE j = i
          BY <5>1, <5>4
        <5> QED BY <5>2, <5>3, <5>4
      <4> QED BY <1>5, <4>1
    <3> QED BY <1>n, <2>1, <3>4, <3>5
  <2>3. CASE Cardinality(Successors(i)) >= Retained
    <3>1. Successors(i) \subseteq after \cup {ptr}
      <4> SUFFICES ASSUME NEW j \in Successors(i), j # ptr PROVE j \in after
        OBVIOUS
      <4>1. j \in Ids /\ j > i /\ Valid(j) /\ j <= ptr
        BY DEF Successors
      <4>2. j < ptr
        BY <4>1
      <4>3. Stamp[j] < Stamp[ptr]
        BY <4>1, <4>2 DEF MonotoneClock
      <4> QED BY <4>1, <4>3 DEF Predecessors
    <3>2. ptr \notin after
      BY <1>5
    <3>3. IsFiniteSet(after \cup {ptr}) /\ Cardinality(after \cup {ptr}) = Cardinality(after) + 1
      BY <2>1, <3>2, FS_AddElement
    <3>4. Cardinality(Successors(i)) <= Cardinality(after) + 1
      BY <3>1, <3>3, FS_Subset
    <3>5. Cardinality(Successors(i)) \in Nat
      BY IdSets DEF Successors
    <3> HIDE DEF after
    <3> QED BY <1>n, <2>1, <2>3, <3>4, <3>5
  <2> QED BY <2>2, <2>3
<1>7. Cardinality(top) >= n
  <2>1. Cardinality(after) <= Cardinality(pred) /\ Cardinality(pred) \in Nat
    BY <1>5, IdSets
  <2>2. n <= Cardinality(pred)
    BY <1>n, <1>6, <2>1
  <2> HIDE DEF pred, n
  <2> QED BY <1>5, <1>n, <2>2, TopCount
<1>8. \A j \in top : j > i
  <2> SUFFICES ASSUME NEW j \in top, ~(j > i) PROVE FALSE
    OBVIOUS
  <2>0. j \in pred
    OBVIOUS
  <2>1. j \in Ids /\ j \in pred /\ j <= i
    <3> HIDE DEF pred, top
    <3>1. j \in Ids
      BY <1>5, <2>0
    <3> QED BY <2>0, <3>1
  <2>2. after \in SUBSET {k \in pred : Stamp[k] > Stamp[j]}
    <3> SUFFICES ASSUME NEW k \in after PROVE Stamp[k] > Stamp[j]
      OBVIOUS
    <3>1. k \in Ids /\ j < k
      BY <1>5, <2>1
    <3> QED BY <2>1, <3>1 DEF MonotoneClock
  <2>3. {k \in pred : Stamp[k] > Stamp[j]} \in SUBSET Ids
    BY <1>5
  <2>4. /\ Cardinality(after) <= Cardinality({k \in pred : Stamp[k] > Stamp[j]})
        /\ Cardinality({k \in pred : Stamp[k] > Stamp[j]}) \in Nat
    BY <2>2, <2>3, IdSets
  <2>5. Cardinality({k \in pred : Stamp[k] > Stamp[j]}) < n
    OBVIOUS
  <2> HIDE DEF pred, after, n
  <2> QED BY <1>n, <1>6, <2>4, <2>5
<1>9. top \cup {ptr} \in SUBSET (Successors(i)')
  <2> SUFFICES ASSUME NEW j \in top \cup {ptr} PROVE j \in Successors(i)'
    OBVIOUS
  <2>1. CASE j = ptr
    BY <1>4, <2>1 DEF Successors
  <2>2. CASE j \in top
    <3>1. j \in Ids /\ j > i /\ Valid(j) /\ j <= ptr
      <4>1. j \in pred /\ j > i
        BY <1>8, <2>2
      <4> HIDE DEF pred, top
      <4>2. j \in Ids /\ Valid(j) /\ j < ptr
        BY <1>5, <4>1
      <4> QED BY <4>1, <4>2
    <3>2. j \in Kept(ptr)
      BY <2>2 DEF Kept
    <3>3. Valid(j)'
      BY <1>2, <1>3, <3>1, <3>2
    <3> QED BY <3>1, <3>3 DEF Successors
  <2> QED BY <2>1, <2>2
<1>10. Cardinality(top \cup {ptr}) = Cardinality(top) + 1 /\ Cardinality(top) \in Nat
  <2>1. top \in SUBSET Ids /\ ptr \notin top
    BY <1>5
  <2>2. IsFiniteSet(top) /\ Cardinality(top) \in Nat
    BY <2>1, IdSets
  <2> HIDE DEF top
  <2> QED BY <2>1, <2>2, FS_AddElement
<1>11. /\ Cardinality(top \cup {ptr}) <= Cardinality(Successors(i)')
       /\ Cardinality(Successors(i)') \in Nat
  <2>1. Successors(i)' \in SUBSET Ids
    BY DEF Successors
  <2> HIDE DEF top
  <2> QED BY <1>9, <2>1, IdSets
<1> HIDE DEF top, n
<1> QED BY <1>n, <1>7, <1>10, <1>11


\* More complete generations, and a pointer that stays or is replaced by
\* another build, take no successor away.
LEMMA GrowGraced ==
  ASSUME NEW i \in Ids \cup {None}, Graced(i),
         \A j \in Ids : Valid(j) => Valid(j)',
         ptr' = ptr \/ ptr' \notin Ids
  PROVE  Graced(i)'
<1> USE IdFacts
<1> SUFFICES ASSUME i # None, i \in Ids
             PROVE  /\ ptr' \in Ids => PointerValid' /\ i <= ptr'
                    /\ ~Valid(i)' => Cardinality(Successors(i)') >= Retained
  BY DEF Graced
<1>1. ptr' \in Ids => PointerValid' /\ i <= ptr'
  BY DEF Graced, PointerValid
<1>2. ASSUME ~Valid(i)' PROVE Cardinality(Successors(i)') >= Retained
  <2>1. Cardinality(Successors(i)) >= Retained
    BY <1>2 DEF Graced
  <2>2. Successors(i) \in SUBSET (Successors(i)') /\ Successors(i)' \in SUBSET Ids
    BY DEF Successors
  <2>3. /\ Cardinality(Successors(i)) <= Cardinality(Successors(i)')
        /\ Cardinality(Successors(i)') \in Nat
    BY <2>2, IdSets
  <2>4. Cardinality(Successors(i)) \in Nat
    BY IdSets DEF Successors
  <2> QED BY <2>1, <2>3, <2>4
<1> QED BY <1>1, <1>2

\* Somebody who uses i has a complete generation at least as new.
LEMMA SomeSuccessor ==
  ASSUME NEW i \in Ids, Graced(i)
  PROVE  \E j \in Ids : j >= i /\ Valid(j)
<1> USE IdFacts
<1>1. CASE Valid(i)
  BY <1>1
<1>2. CASE ~Valid(i)
  <2>1. Cardinality(Successors(i)) >= Retained
    BY <1>2 DEF Graced
  <2>2. Successors(i) # {}
    BY <2>1, FS_EmptySet
  <2>3. PICK j \in Successors(i) : TRUE
    BY <2>2
  <2>4. j \in Ids /\ j > i /\ Valid(j)
    BY DEF Successors
  <2> QED BY <2>4
<1> QED BY <1>1, <1>2

\* Every step but a power loss keeps the grace of every generation.
LEMMA KeepGraced ==
  ASSUME MonotoneClock, PublicationInv, PointerInv, NEW i \in Ids \cup {None}, Graced(i),
         Running
  PROVE  Graced(i)'
<1> USE IdFacts DEF PublicationInv
<1> SUFFICES ASSUME i # None, i \in Ids PROVE Graced(i)'
  BY DEF Graced
<1>1. ASSUME NEW w \in Writers, WriterStep(w) PROVE Graced(i)'
  <2>c. pc[w] \in Staging \cup Publishing \cup {"published"} => cand[w] \in Ids /\ cand[w] = issued
    BY DEF CandidateInv, TypeOK, Ids
  <2>1. CASE \/ AcquireLock(w) \/ KeepActive(w) \/ KeepIncompatible(w) \/ PrepareFails(w)
             \/ OpenActive(w) \/ PublishFails(w) \/ InstallPublished(w) \/ InstallFails(w)
             \/ Close(w) \/ Kill(w) \/ SyncPrepared(w) \/ SyncRoot(w)
    <3>1. UNCHANGED <<entry, tree, ptr>>
      BY <2>1 DEF AcquireLock, KeepActive, KeepIncompatible, PrepareFails, OpenActive,
         PublishFails, InstallPublished, InstallFails, Close, Kill, SyncPrepared, SyncRoot,
         files, pointer
    <3>2. \A j \in Ids : Valid(j) => Valid(j)'
      BY <3>1 DEF Valid
    <3> QED BY <3>1, <3>2, GrowGraced
  <2>2. CASE RemoveAbandonedStaging(w) \/ RemoveStagingFails(w)
    <3>1. PICK gone \in SUBSET {j \in Ids : entry[j] = "staging"} : Discard(gone, {})
      BY <2>2 DEF RemoveAbandonedStaging, RemoveStagingFails
    <3>2. \A j \in Ids : Valid(j) => Valid(j)'
      BY <3>1 DEF Discard, Valid
    <3>3. ptr' = ptr
      BY <2>2 DEF RemoveAbandonedStaging, RemoveStagingFails, pointer
    <3> QED BY <3>2, <3>3, GrowGraced
  <2>3. CASE CreateCandidate(w)
    <3>1. issued + 1 \in Ids /\ entry[issued + 1] = "absent"
      BY <2>3 DEF CreateCandidate, Ids, DiskInv, TypeOK
    <3>2. \A j \in Ids : Valid(j) => Valid(j)'
      BY <2>3, <3>1 DEF CreateCandidate, Valid, TypeOK
    <3> QED BY <2>3, <3>2, GrowGraced DEF CreateCandidate, pointer
  <2>4. CASE FillCandidate(w) \/ SyncTree(w) \/ RenameCandidate(w) \/ SyncGenerations(w)
    <3>1. \A j \in Ids : Valid(j) => Valid(j)'
      BY <2>4 DEF FillCandidate, SyncTree, RenameCandidate, SyncGenerations, Valid, TypeOK
    <3>2. ptr' = ptr
      BY <2>4 DEF FillCandidate, SyncTree, RenameCandidate, SyncGenerations, pointer
    <3> QED BY <3>1, <3>2, GrowGraced
  <2>5. CASE AbandonCandidate(w)
    <3>1. cand[w] \in Ids /\ entry[cand[w]] = "staging" /\ ptr' = ptr
      BY <2>5, <2>c DEF AbandonCandidate, CandidateInv, Staging, pointer
    <3>2. \A j \in Ids : Valid(j) => Valid(j)'
      BY <2>5, <3>1 DEF AbandonCandidate, Discard, Valid
    <3> QED BY <3>1, <3>2, GrowGraced
  <2>6. CASE RecoverPointer(w)
    <3>1. PICK k \in Ids : IsNewestValid(k) /\ PersistPointer(k)
      BY <2>6 DEF RecoverPointer
    <3>2. ~PointerValid /\ UNCHANGED <<entry, tree>> /\ ptr' = k /\ Valid(k)
      BY <2>6, <3>1 DEF RecoverPointer, PersistPointer, IsNewestValid, files
    <3>3. ptr \notin Ids
      BY <3>2 DEF Graced
    <3>4. \A j \in Ids : Valid(j) => j <= k
      <4> SUFFICES ASSUME NEW j \in Ids, Valid(j), k < j PROVE FALSE
        OBVIOUS
      <4>1. Stamp[k] < Stamp[j] /\ Stamp[j] <= Stamp[k]
        BY <3>1 DEF MonotoneClock, IsNewestValid
      <4>2. Stamp[k] \in Nat /\ Stamp[j] \in Nat
        OBVIOUS
      <4> QED BY <4>1, <4>2
    <3>5. i <= k
      <4>1. PICK j \in Ids : j >= i /\ Valid(j)
        BY SomeSuccessor
      <4>2. j <= k
        BY <3>4, <4>1
      <4> QED BY <4>1, <4>2
    <3>6. PointerValid'
      BY <3>2 DEF PointerValid, Valid
    <3>7. Successors(i)' = Successors(i) /\ (Valid(i)' <=> Valid(i))
      BY <3>2, <3>3, <3>4 DEF Successors, Valid
    <3> QED BY <3>2, <3>5, <3>6, <3>7 DEF Graced
  <2>7. CASE ForgetPointer(w)
    BY <2>7, SomeSuccessor DEF ForgetPointer
  <2>8. CASE WritePointer(w)
    <3>1. /\ UNCHANGED <<entry, tree>> /\ ptr' = issued /\ issued \in Ids
          /\ Durable(issued)
      BY <2>8, <2>c DEF WritePointer, PersistPointer, files, CandidateInv, Publishing
    <3>2. PointerValid'
      BY <3>1 DEF PointerValid, Valid, Durable, DiskInv
    <3>3. \A j \in Ids : Valid(j) => j <= issued
      <4> SUFFICES ASSUME NEW j \in Ids, entry[j] = "final" PROVE j <= issued
        BY DEF Valid
      <4>1. ~(j > issued)
        BY DEF DiskInv
      <4> QED BY <3>1, <4>1
    <3>4. i <= issued
      <4>1. PICK j \in Ids : j >= i /\ Valid(j)
        BY SomeSuccessor
      <4>2. j <= issued
        BY <3>3, <4>1
      <4> QED BY <3>1, <4>1, <4>2
    <3>5. Successors(i) \in SUBSET (Successors(i)') /\ Successors(i)' \in SUBSET Ids
      BY <3>1, <3>3 DEF Successors, Valid
    <3>6. /\ Cardinality(Successors(i)) <= Cardinality(Successors(i)')
          /\ Cardinality(Successors(i)') \in Nat
      BY <3>5, IdSets
    <3>7. Cardinality(Successors(i)) \in Nat
      BY IdSets DEF Successors
    <3>8. ~Valid(i)' => Cardinality(Successors(i)) >= Retained
      BY <3>1 DEF Graced, Valid
    <3>9. ~Valid(i)' => Cardinality(Successors(i)') >= Retained
      BY <3>6, <3>7, <3>8
    <3> QED BY <3>1, <3>2, <3>4, <3>9 DEF Graced
  <2>9. CASE PruneOpened(w) \/ PrunePublished(w)
    <3>1. PruneGenerations /\ ptr' = ptr
      BY <2>9 DEF PruneOpened, PrunePublished, pointer
    <3>2. ptr \in Ids /\ Valid(ptr)
      BY <2>9, <2>c DEF PruneOpened, PrunePublished, CandidateInv, PointerSound, Publishing
    <3>3. PointerValid' /\ i <= ptr
      BY <3>1, <3>2, PruneEffect DEF Graced, PointerValid, Valid
    <3>4. Valid(i) \/ Cardinality(Successors(i)) >= Retained
      BY DEF Graced
    <3>5. ~Valid(i)' => Cardinality(Successors(i)') >= Retained
      BY <3>1, <3>2, <3>3, <3>4, PruneLeaves
    <3> QED BY <3>1, <3>3, <3>5 DEF Graced
  <2> QED BY <1>1, <2>1, <2>2, <2>3, <2>4, <2>5, <2>6, <2>7, <2>8, <2>9 DEF WriterStep
<1>2. ASSUME NEW r \in Readers, ReaderStep(r) PROVE Graced(i)'
  <2>1. UNCHANGED <<entry, tree, ptr>>
    BY <1>2 DEF ReaderStep, ReadPointer, FinishRead, files, pointer
  <2>2. \A j \in Ids : Valid(j) => Valid(j)'
    BY <2>1 DEF Valid
  <2> QED BY <2>1, <2>2, GrowGraced
<1>3. CASE ForeignPointer
  <2>1. UNCHANGED <<entry, tree>> /\ ptr' \notin Ids
    BY <1>3 DEF ForeignPointer, files
  <2>2. \A j \in Ids : Valid(j) => Valid(j)'
    BY <2>1 DEF Valid
  <2> QED BY <2>1, <2>2, GrowGraced
<1> QED BY <1>1, <1>2, <1>3 DEF Running


\* Every step keeps the grace invariant.
LEMMA NextGrace ==
  ASSUME MonotoneClock, PublicationInv, PublicationInv', PointerInv, GraceInv, [Next]_vars
  PROVE  GraceInv'
<1> USE IdFacts DEF PublicationInv
<1>t. /\ \A w \in Writers : base[w] \in Ids \cup {None}
      /\ \A r \in Readers : held[r] \in Ids \cup {None}
  BY DEF TypeOK
<1>n. Graced(None)'
  BY DEF Graced
<1>p. PointerValid => ptr \in Ids /\ Graced(ptr)
  BY DEF Graced, PointerValid
<1>1. CASE Running
  <2>0. ASSUME NEW i \in Ids \cup {None}, Graced(i) PROVE Graced(i)'
    BY <1>1, <2>0, KeepGraced
  <2>1. ASSUME NEW w \in Writers PROVE Graced(base[w])'
    <3>g. ASSUME NEW i \in Ids \cup {None}, base'[w] = i, Graced(i)' PROVE Graced(base[w])'
      BY <3>g DEF Graced, Successors
    <3>1. \/ base'[w] = base[w] \/ base'[w] = None
          \/ PointerValid /\ base'[w] = ptr
          \/ pc[w] = "published" /\ base'[w] = cand[w]
      <4>1. CASE \E v \in Writers : WriterStep(v)
        BY <4>1 DEF WriterStep, AcquireLock, RemoveAbandonedStaging, KeepActive,
           KeepIncompatible, RecoverPointer, ForgetPointer, SyncPrepared, RemoveStagingFails,
           PrepareFails, PruneOpened, OpenActive, CreateCandidate, FillCandidate,
           AbandonCandidate, SyncTree, RenameCandidate, SyncGenerations, WritePointer,
           SyncRoot, PrunePublished, PublishFails, InstallPublished, InstallFails, Close,
           Kill, Release, TypeOK
      <4>2. CASE (\E r \in Readers : ReaderStep(r)) \/ ForeignPointer
        BY <4>2 DEF ReaderStep, ReadPointer, FinishRead, ForeignPointer, procs
      <4> QED BY <1>1, <4>1, <4>2 DEF Running
    <3>2. CASE base'[w] = base[w]
      BY <1>t, <2>0, <3>2, <3>g DEF GraceInv
    <3>3. CASE base'[w] = None
      BY <1>n, <3>3, <3>g
    <3>4. CASE PointerValid /\ base'[w] = ptr
      BY <1>p, <2>0, <3>4, <3>g
    <3>5. CASE pc[w] = "published" /\ base'[w] = cand[w]
      <4>1. cand[w] \in Ids /\ ptr = cand[w]
        BY <3>5 DEF CandidateInv, TypeOK, Ids, GraceInv
      <4>2. PointerValid
        BY <3>5, <4>1 DEF PointerSound, PointerValid
      <4> QED BY <1>p, <2>0, <3>5, <3>g, <4>1, <4>2
    <3> QED BY <3>1, <3>2, <3>3, <3>4, <3>5
  <2>2. ASSUME NEW r \in Readers PROVE Graced(held[r])'
    <3>g. ASSUME NEW i \in Ids \cup {None}, held'[r] = i, Graced(i)' PROVE Graced(held[r])'
      BY <3>g DEF Graced, Successors
    <3>1. \/ held'[r] = held[r] \/ held'[r] = None
          \/ PointerValid /\ held'[r] = ptr
      <4>1. CASE \E v \in Writers : WriterStep(v)
        BY <4>1 DEF WriterStep, AcquireLock, RemoveAbandonedStaging, KeepActive,
           KeepIncompatible, RecoverPointer, ForgetPointer, SyncPrepared, RemoveStagingFails,
           PrepareFails, PruneOpened, OpenActive, CreateCandidate, FillCandidate,
           AbandonCandidate, SyncTree, RenameCandidate, SyncGenerations, WritePointer,
           SyncRoot, PrunePublished, PublishFails, InstallPublished, InstallFails, Close,
           Kill
      <4>2. CASE (\E q \in Readers : ReaderStep(q)) \/ ForeignPointer
        BY <4>2 DEF ReaderStep, ReadPointer, FinishRead, ForeignPointer, TypeOK
      <4> QED BY <1>1, <4>1, <4>2 DEF Running
    <3>2. CASE held'[r] = held[r]
      BY <1>t, <2>0, <3>2, <3>g DEF GraceInv
    <3>3. CASE held'[r] = None
      BY <1>n, <3>3, <3>g
    <3>4. CASE PointerValid /\ held'[r] = ptr
      BY <1>p, <2>0, <3>4, <3>g
    <3> QED BY <3>1, <3>2, <3>3, <3>4
  <2>3. ASSUME NEW w \in Writers, pc'[w] = "published" PROVE ptr' = cand'[w]
    <3>1. CASE PrunePublished(w)
      BY <3>1 DEF PrunePublished, pointer, CandidateInv
    <3>2. CASE ~PrunePublished(w)
      <4>1. CASE \E v \in Writers : WriterStep(v)
        <5>1. PICK v \in Writers : WriterStep(v)
          BY <4>1
        <5>2. v # w
          BY <2>3, <3>2, <5>1 DEF WriterStep, AcquireLock, RemoveAbandonedStaging, KeepActive,
             KeepIncompatible, RecoverPointer, ForgetPointer, SyncPrepared, RemoveStagingFails,
             PrepareFails, PruneOpened, OpenActive, CreateCandidate, FillCandidate,
             AbandonCandidate, SyncTree, RenameCandidate, SyncGenerations, WritePointer,
             SyncRoot, PublishFails, InstallPublished, InstallFails, Close,
             Kill, Goto, Release, TypeOK
        <5>3. pc[w] = "published"
          BY <2>3, <5>1, <5>2 DEF WriterStep, AcquireLock, RemoveAbandonedStaging, KeepActive,
             KeepIncompatible, RecoverPointer, ForgetPointer, SyncPrepared, RemoveStagingFails,
             PrepareFails, PruneOpened, OpenActive, CreateCandidate, FillCandidate,
             AbandonCandidate, SyncTree, RenameCandidate, SyncGenerations, WritePointer,
             SyncRoot, PrunePublished, PublishFails, InstallPublished, InstallFails, Close,
             Kill, Goto, Release, TypeOK
        <5>4. pc[v] = "idle" /\ lock = w
          BY <5>2, <5>3, Alone DEF LockInv
        <5>5. FALSE
          BY <5>1, <5>4 DEF WriterStep, AcquireLock, RemoveAbandonedStaging, KeepActive,
             KeepIncompatible, RecoverPointer, ForgetPointer, SyncPrepared, RemoveStagingFails,
             PrepareFails, PruneOpened, OpenActive, CreateCandidate, FillCandidate,
             AbandonCandidate, SyncTree, RenameCandidate, SyncGenerations, WritePointer,
             SyncRoot, PrunePublished, PublishFails, InstallPublished, InstallFails, Close,
             Kill
        <5> QED BY <5>5
      <4>2. CASE \E r \in Readers : ReaderStep(r)
        BY <2>3, <4>2 DEF ReaderStep, ReadPointer, FinishRead, pointer, procs, GraceInv
      <4>3. CASE ForeignPointer
        BY <2>3, <4>3 DEF ForeignPointer, procs, LockInv
      <4> QED BY <1>1, <4>1, <4>2, <4>3 DEF Running
    <3> QED BY <3>1, <3>2
  <2> QED BY <2>1, <2>2, <2>3 DEF GraceInv
<1>2. CASE PowerLoss
  <2>1. /\ \A w \in Writers : base'[w] = None /\ pc'[w] = "idle"
        /\ \A r \in Readers : held'[r] = None
    BY <1>2 DEF PowerLoss
  <2> QED BY <2>1 DEF GraceInv, Graced
<1>3. CASE UNCHANGED root
  BY <1>3 DEF root, GraceInv, Graced, Successors, PointerValid, Valid
<1> QED BY <1>1, <1>2, <1>3, StepCases

\* A generation that somebody still uses disappears only when Retained newer
\* complete ones are there, through any sequence of publications, prunings that
\* half fail, recoveries and pointers written by another build.
THEOREM UsersHaveGrace ==
  ASSUME MonotoneClock
  PROVE  Spec => []RetentionGrace
<1>1. Init => GraceInv
  BY DEF Init, GraceInv, Graced
<1>2. PublicationInv /\ PublicationInv' /\ PointerInv /\ GraceInv /\ [Next]_vars => GraceInv'
  BY NextGrace
<1>3. PublicationInv /\ GraceInv => RetentionGrace
  <2> SUFFICES ASSUME PublicationInv, GraceInv, NEW i \in Ids \cup {None}, Graced(i)
               PROVE  Grace(i)
    BY DEF PublicationInv, TypeOK, GraceInv, RetentionGrace
  <2> SUFFICES ASSUME i \in Ids, ~Valid(i)
               PROVE  Cardinality({j \in Ids : j > i /\ Valid(j)}) >= Retained
    BY IdFacts DEF Grace
  <2> DEFINE later == {j \in Ids : j > i /\ Valid(j)}
  <2>1. Cardinality(Successors(i)) >= Retained
    BY IdFacts DEF Graced
  <2>2. Successors(i) \in SUBSET later /\ later \in SUBSET Ids
    BY DEF Successors
  <2>3. Cardinality(Successors(i)) \in Nat
    BY IdSets DEF Successors
  <2> HIDE DEF later
  <2>4. Cardinality(Successors(i)) <= Cardinality(later) /\ Cardinality(later) \in Nat
    BY <2>2, IdSets
  <2>5. Cardinality(later) >= Retained
    BY <2>1, <2>3, <2>4
  <2> QED BY <2>5 DEF later
<1> QED BY <1>1, <1>2, <1>3, PublicationCorrect, PointerCorrect, PTL DEF Spec

\* When the pruning of a publication removes a complete generation, Retained of
\* them are left.
THEOREM PruningRetains ==
  ASSUME MonotoneClock
  PROVE  Spec => RetainsPredecessors
<1> USE IdFacts
<1>1. ASSUME PublicationInv, NEW w \in Writers, PrunePublished(w),
             NEW i \in Ids, Valid(i), ~Valid(i)'
      PROVE  Cardinality({j \in Ids : Valid(j)'}) >= Retained
  <2> USE DEF PublicationInv
  <2> DEFINE left == {j \in Ids : Valid(j)'}
  <2>0. PruneGenerations /\ ptr' = ptr /\ ptr = cand[w] /\ cand[w] = issued /\ issued # 0
    BY <1>1 DEF PrunePublished, pointer, CandidateInv, Publishing
  <2>1. PruneGenerations /\ ptr' = ptr /\ ptr = issued /\ ptr \in Ids /\ Valid(ptr)
    <3>1. issued \in 0 .. MaxId /\ issued # 0 /\ ptr = issued
      BY <1>1, <2>0 DEF TypeOK
    <3>2. ptr \in Ids
      BY <3>1 DEF Ids
    <3> QED BY <1>1, <2>0, <3>1, <3>2 DEF PrunePublished, PointerSound
  <2>2. i <= ptr
    <3>1. ~(i > issued)
      BY <1>1 DEF Valid, DiskInv
    <3> QED BY <2>1, <3>1
  <2>3. Cardinality(Successors(i)') >= Retained
    BY <1>1, <2>1, <2>2, PruneLeaves
  <2>4. Successors(i)' \in SUBSET left /\ left \in SUBSET Ids
    BY DEF Successors
  <2> HIDE DEF left
  <2>5. /\ Cardinality(Successors(i)') <= Cardinality(left)
        /\ Cardinality(left) \in Nat /\ Cardinality(Successors(i)') \in Nat
    BY <2>4, IdSets
  <2>6. Cardinality(left) >= Retained
    BY <2>3, <2>5
  <2> QED BY <2>6 DEF left
<1>2. PublicationInv /\ [Next]_vars =>
        [\A w \in Writers :
           PrunePublished(w) /\ (\E i \in Ids : Valid(i) /\ ~Valid(i)')
             => Cardinality({i \in Ids : Valid(i)'}) >= Retained]_vars
  BY <1>1
<1> QED BY <1>2, PublicationCorrect, PTL DEF Spec, RetainsPredecessors
=============================================================================

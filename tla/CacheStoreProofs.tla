-------------------------- MODULE CacheStoreProofs --------------------------
(***************************************************************************)
(* Proofs about CacheStore, for any number of windows, saves, identifiers, *)
(* sessions and faults: while no takeover removes the lock of a live       *)
(* writer, an acknowledged save stays loadable, and a load that has read   *)
(* the pointer finds its image after one further commit.                   *)
(***************************************************************************)
EXTENDS CacheStore, FiniteSetTheorems, TLAPS

-----------------------------------------------------------------------------
(* The inductive invariant                                                 *)

Writing == {"write", "renamed", "synced", "committed", "prune"}
Critical == Writing \cup {"held", "release"}
Before == {"lock", "inspect", "takeover", "recreate", "held"}
Working == {"build", "ready"}
Elsewhere == {"load", "unlink", "image", "discard", "resume", "resumeImage", "start"}
Places == Critical \cup Before \cup Working \cup Elsewhere \cup {"closed"}
After == Working \cup {"closed", "discard", "resume", "start"}

Pointers ==
    {p \in [state : {"none", "corrupt", "foreign", "valid"}, put : 0..puts, name : 0..MaxNames,
            prev : 0..MaxNames] : p.state = "valid" => p.put # 0 /\ p.name # 0}

Jobs ==
    {j \in [op : {"none", "put", "quarantine", "drop", "invalid", "discard"}, c : Kinds,
            put : 0..puts, name : 0..MaxNames, prev : 0..MaxNames, intact : BOOLEAN,
            after : After] : j.op = "put" => j.name # 0}

Sessions ==
    [next : 0..MaxNames, active : 0..MaxNames, restored : 0..MaxNames, saved : 0..MaxNames,
     token : 0..puts]

\* The types of the disk, which no two fields of it depend on.
DiskType ==
    /\ ptr \in [Kinds -> Pointers]
    /\ durPtr \in [Kinds -> SUBSET Pointers]
    /\ \A c \in Kinds : ptr[c] \in durPtr[c]
    /\ image \in [Kinds -> [Slots -> 0..Damaged]]
    /\ synced \in [Kinds -> [Slots -> 0..Damaged]]

\* The types of the windows.  A window that is building or ready, or that will be once
\* its job is done, has a generation; one that reads an image has read a pointer.
WindowType ==
    /\ at \in [Windows -> Places]
    /\ job \in [Windows -> Jobs]
    /\ seen \in [Windows -> Pointers]
    /\ session \in [Windows -> Sessions]
    /\ \A w \in Windows :
          /\ at[w] \in Working \/ job[w].after \in Working => session[w].active # 0
          /\ at[w] \in {"image", "resumeImage"} => seen[w].state = "valid"
          /\ at[w] = "closed" => job[w].after = "closed"

OtherType ==
    /\ lock \in Windows \cup {"free", "left", "stale"}
    /\ puts \in 0..MaxPuts /\ opens \in 0..MaxOpens /\ faults \in 0..MaxFaults
    /\ acked \in [Kinds -> 0..puts]
    /\ firm \in [Kinds -> BOOLEAN]
    /\ grace \in [Windows -> 0..2]
    /\ intruded \in BOOLEAN

\* Every save on its way to the lock has its number reserved.
Reserved ==
    /\ puts + Cardinality(Waiting) <= MaxPuts
    /\ \A w \in Windows :
          job[w].op = "put" => /\ at[w] \in Before => job[w].put = 0
                               /\ at[w] \in Writing => job[w].put # 0

TypeInv == DiskType /\ WindowType /\ OtherType /\ Reserved

\* Writers exclude each other.
Exclusive == \A w \in Windows : at[w] \in Critical => lock = w

\* The pointer a put commits.
Committed(w) ==
    Pointer(job[w].put, job[w].name, IF job[w].c = "complete" THEN job[w].prev ELSE 0)

\* Before the commit: the pointer is that of an earlier put, the one job.prev was read
\* from if it is still there, and the image is not the one that pointer names.
BeforeCommit(w) ==
    LET c == job[w].c
        s == File(c, job[w])
    IN  /\ ptr[c].put < job[w].put
        /\ c = "complete" /\ ptr[c].state = "valid"
              => job[w].prev = IF ptr[c].name # job[w].name THEN ptr[c].name ELSE 0
        /\ at[w] # "write" => image[c][s] >= job[w].put
        /\ at[w] # "write" /\ acked[c] # 0 => image[c][s] = job[w].put
        /\ at[w] = "synced" /\ acked[c] # 0 /\ firm[c] => synced[c][s] = job[w].put

\* A put that nothing has voided has its image in place, then on disk where directories
\* can be synced, and after the commit the pointer names it.
Sound(w) ==
    LET c == job[w].c
        s == File(c, job[w])
    IN  /\ at[w] # "write" => image[c][s] = job[w].put
        /\ syncs /\ at[w] \in {"synced", "committed", "prune"} => synced[c][s] = job[w].put
        /\ at[w] \in {"committed", "prune"} => ptr[c] = Committed(w)

PutInv ==
    \A w \in Windows :
        at[w] \in Writing /\ job[w].op = "put" =>
            /\ job[w].put = puts
            /\ at[w] \in {"write", "renamed", "synced"} => BeforeCommit(w)
            /\ at[w] \in {"committed", "prune"} /\ ptr[job[w].c].state = "valid"
                  => ptr[job[w].c].name = job[w].name
            /\ job[w].intact => Sound(w)

\* The pointers whose image an acknowledged save promises: the one that is there, and
\* if its own was synced, every one that a power loss may bring back.
Promised(c) == IF firm[c] THEN durPtr[c] ELSE {ptr[c]}

\* The image of such a pointer is there, and stays over a power loss if it must.
Durable(c, p) ==
    /\ p.state = "valid" /\ p.put >= acked[c]
    /\ image[c][File(c, p)] = p.put
    /\ firm[c] => syncs /\ synced[c][File(c, p)] = p.put

Promise == \A c \in Kinds : acked[c] # 0 => \A p \in Promised(c) : Durable(c, p)

\* A load whose pointer no commit has replaced read the one that is there; after one
\* commit it is the predecessor the pointer names, which retention keeps if it keeps
\* more than the current generation.
ReaderInv ==
    \A w \in Windows :
        Retained > 1 /\ at[w] = "image" /\ grace[w] < 2 =>
            /\ image["complete"][seen[w].name] = seen[w].put
            /\ grace[w] = 0 => seen[w] = ptr["complete"]
            /\ grace[w] = 1 => seen[w].name = ptr["complete"].prev

\* What holds between windows that respect each other's lock.
Safe == PutInv /\ Promise /\ ReaderInv

CacheInv == TypeInv /\ (~intruded => Exclusive /\ Safe)


-----------------------------------------------------------------------------
(* Type correctness                                                        *)

USE CacheAssumption

\* What a pointer, a job and a session may be only grows with the number of puts.
LEMMA TypesGrow ==
    ASSUME puts \in Nat, puts' \in Nat, puts <= puts'
    PROVE  Pointers \subseteq Pointers' /\ Jobs \subseteq Jobs' /\ Sessions \subseteq Sessions'
<1>1. 0..puts \subseteq 0..puts'
  OBVIOUS
<1>2. Pointers \subseteq Pointers'
  BY <1>1 DEF Pointers
<1>3. Jobs \subseteq Jobs'
  BY <1>1 DEF Jobs, After, Working, Kinds
<1>4. Sessions \subseteq Sessions'
  BY <1>1 DEF Sessions
<1> QED BY <1>2, <1>3, <1>4

\* The names of images, and the bytes of a damaged one.
LEMMA SlotFacts ==
    /\ Slots \subseteq Nat \ {0} /\ 1..MaxPuts \subseteq Slots /\ 1..MaxNames \subseteq Slots
    /\ Damaged \in Nat /\ 0..MaxPuts \subseteq 0..Damaged /\ Damaged \notin 0..MaxPuts
    /\ \A s \in Slots : s # 0
    /\ MaxPuts \in Nat /\ MaxNames \in Nat /\ MaxOpens \in Nat /\ MaxFaults \in Nat
BY DEF Slots, Damaged

\* The constants among pointers, jobs and sessions.
LEMMA Blank ==
    ASSUME puts \in Nat
    PROVE  NoPointer \in Pointers /\ Corrupt \in Pointers /\ Foreign \in Pointers /\ NoJob \in Jobs /\ NewSession \in Sessions
<1>1. 0 \in 0..puts /\ 0 \in 0..MaxNames
  BY SlotFacts
<1>2. NoPointer \in Pointers
  BY <1>1 DEF NoPointer, Pointers
<1>3. Corrupt \in Pointers
  BY <1>1 DEF Corrupt, NoPointer, Pointers
<1>6. Foreign \in Pointers
  BY <1>1 DEF Foreign, NoPointer, Pointers
<1>4. NoJob \in Jobs
  BY <1>1 DEF NoJob, Job, Jobs, After, Working, Kinds
<1>5. NewSession \in Sessions
  BY <1>1 DEF NewSession, Sessions
<1> QED BY <1>2, <1>3, <1>4, <1>5, <1>6

\* The file a valid pointer names is one of the image files.
LEMMA FileIsSlot ==
    ASSUME puts \in 0..MaxPuts, NEW c \in Kinds,
           NEW p, p.put \in 1..MaxPuts, p.name \in 1..MaxNames
    PROVE  File(c, p) \in Slots
BY SlotFacts DEF File

\* An empty cache is well typed.
LEMMA InitType == Init => TypeInv
<1> SUFFICES ASSUME Init PROVE TypeInv
  OBVIOUS
<1>1. puts = 0 /\ puts \in Nat
  BY DEF Init
<1>2. DiskType
  BY <1>1, Blank, SlotFacts DEF Init, DiskType
<1>3. WindowType
  BY <1>1, Blank DEF Init, WindowType, NoJob, Job, Working, Places
<1>4. OtherType
  <2>1. grace \in [Windows -> 0..2] /\ acked \in [Kinds -> 0..puts]
    BY <1>1 DEF Init, Excused
  <2>2. intruded \in BOOLEAN /\ firm \in [Kinds -> BOOLEAN] /\ lock \in Windows \cup {"free", "left", "stale"}
    BY DEF Init
  <2> QED BY <1>1, <2>1, <2>2, SlotFacts DEF Init, OtherType
<1>5. Waiting = {}
  BY DEF Init, Waiting, NoJob, Job
<1>6. Reserved
  BY <1>1, <1>5, FS_EmptySet, SlotFacts DEF Reserved, Init, NoJob, Job
<1> QED BY <1>2, <1>3, <1>4, <1>6 DEF TypeInv

\* The number of reserved saves only falls unless a save begins.
LEMMA ReservedKept ==
    ASSUME puts \in Nat, puts + Cardinality(Waiting) <= MaxPuts, puts' = puts,
           \A w \in Windows : job'[w].op = "put" /\ job'[w].put = 0
                                => job[w].op = "put" /\ job[w].put = 0
    PROVE  puts' + Cardinality(Waiting') <= MaxPuts
<1>1. Waiting' \subseteq Waiting /\ IsFiniteSet(Waiting)
  BY FS_Subset DEF Waiting
<1>2. Cardinality(Waiting') <= Cardinality(Waiting) /\ Cardinality(Waiting) \in Nat
      /\ Cardinality(Waiting') \in Nat
  BY <1>1, FS_Subset, FS_CardinalityType
<1> QED BY <1>2


\* One window moves, and takes up a job, a pointer it has read and a session.
LEMMA WindowMoves ==
    ASSUME TypeInv, puts' \in Nat, puts <= puts',
           NEW w \in Windows,
           NEW place \in Places, at' = [at EXCEPT ![w] = place],
           NEW j \in Jobs', job' = [job EXCEPT ![w] = j],
           NEW p \in Pointers', seen' = [seen EXCEPT ![w] = p],
           NEW s \in Sessions', session' = [session EXCEPT ![w] = s],
           place \in Working \/ j.after \in Working => s.active # 0,
           place \in {"image", "resumeImage"} => p.state = "valid",
           place = "closed" => j.after = "closed"
    PROVE  WindowType'
<1>1. puts \in Nat
  BY SlotFacts DEF TypeInv, OtherType
<1>2. Pointers \subseteq Pointers' /\ Jobs \subseteq Jobs' /\ Sessions \subseteq Sessions'
  BY <1>1, TypesGrow
<1>3. /\ at \in [Windows -> Places] /\ job \in [Windows -> Jobs]
      /\ seen \in [Windows -> Pointers] /\ session \in [Windows -> Sessions]
  BY DEF TypeInv, WindowType
<1>4. /\ at' \in [Windows -> Places] /\ job' \in [Windows -> Jobs']
      /\ seen' \in [Windows -> Pointers'] /\ session' \in [Windows -> Sessions']
  BY <1>2, <1>3
<1>5. ASSUME NEW v \in Windows
      PROVE  /\ at'[v] \in Working \/ job'[v].after \in Working => session'[v].active # 0
             /\ at'[v] \in {"image", "resumeImage"} => seen'[v].state = "valid"
             /\ at'[v] = "closed" => job'[v].after = "closed"
  <2>1. CASE v = w
    BY <1>3, <2>1
  <2>2. CASE v # w
    BY <1>3, <2>2 DEF TypeInv, WindowType
  <2> QED BY <2>1, <2>2
<1> QED BY <1>4, <1>5 DEF WindowType, Places, Working, Critical, Writing, Before, Elsewhere

\* What a step leaves alone, in the form WindowMoves asks for.
LEMMA Stays ==
    ASSUME WindowType, NEW w \in Windows
    PROVE  /\ at = [at EXCEPT ![w] = at[w]] /\ at[w] \in Places
           /\ job = [job EXCEPT ![w] = job[w]] /\ job[w] \in Jobs
           /\ seen = [seen EXCEPT ![w] = seen[w]] /\ seen[w] \in Pointers
           /\ session = [session EXCEPT ![w] = session[w]] /\ session[w] \in Sessions
           /\ at[w] \in Working \/ job[w].after \in Working => session[w].active # 0
           /\ at[w] \in {"image", "resumeImage"} => seen[w].state = "valid"
           /\ at[w] = "closed" => job[w].after = "closed"
BY DEF WindowType

\* While no put begins, the types are those before.
LEMMA TypesStay ==
    ASSUME puts' = puts
    PROVE  Pointers' = Pointers /\ Jobs' = Jobs /\ Sessions' = Sessions
BY DEF Pointers, Jobs, Sessions

\* A window that leaves the lock goes on where its job says.
LEMMA LeaveType ==
    ASSUME TypeInv, NEW w \in Windows, Leave(w), puts' = puts, session' = session
    PROVE  WindowType'
<1>1. puts \in Nat
  BY SlotFacts DEF TypeInv, OtherType
<1>2. job[w].after \in Places /\ (job[w].after \in Working => session[w].active # 0)
      /\ job[w].after \notin {"image", "resumeImage"}
  BY DEF TypeInv, WindowType, Jobs, After, Places, Working, Elsewhere
<1>3. NoJob \in Jobs /\ NoPointer \in Pointers /\ NoJob.after = "closed" /\ "closed" \notin Working
  BY <1>1, Blank DEF NoJob, Job, Working
<1>4. /\ at' = [at EXCEPT ![w] = job[w].after] /\ job' = [job EXCEPT ![w] = NoJob]
      /\ seen' = [seen EXCEPT ![w] = NoPointer] /\ session' = [session EXCEPT ![w] = session[w]]
  BY Stays DEF Leave, Goto, TypeInv
<1>5. NoJob \in Jobs' /\ NoPointer \in Pointers' /\ session[w] \in Sessions'
  BY <1>3, Stays, TypesStay DEF TypeInv
<1>6. puts' \in Nat /\ puts <= puts'
  BY <1>1
<1>7. job[w].after \in Working \/ NoJob.after \in Working => session[w].active # 0
  BY <1>2, <1>3
<1>8. TypeInv
  OBVIOUS
<1> QED BY ONLY <1>2, <1>3, <1>4, <1>5, <1>6, <1>7, <1>8, WindowMoves, w \in Windows

\* One window goes somewhere else, and nothing else of it changes.
LEMMA GotoType ==
    ASSUME TypeInv, puts' = puts, NEW w \in Windows, NEW place \in Places, Goto(w, place),
           UNCHANGED <<job, seen, session>>,
           place \in Working => session[w].active # 0, place # "closed",
           place \in {"image", "resumeImage"} => seen[w].state = "valid"
    PROVE  WindowType'
<1>1. puts \in Nat /\ puts' \in Nat /\ puts <= puts'
  BY SlotFacts DEF TypeInv, OtherType
<1>2. /\ at' = [at EXCEPT ![w] = place] /\ job' = [job EXCEPT ![w] = job[w]]
      /\ seen' = [seen EXCEPT ![w] = seen[w]] /\ session' = [session EXCEPT ![w] = session[w]]
  BY Stays DEF Goto, TypeInv
<1>3. job[w] \in Jobs' /\ seen[w] \in Pointers' /\ session[w] \in Sessions'
  BY Stays, TypesStay DEF TypeInv
<1>4. place \in Working \/ job[w].after \in Working => session[w].active # 0
  BY Stays DEF TypeInv
<1>5. place \in {"image", "resumeImage"} => seen[w].state = "valid"
  OBVIOUS
<1>6. TypeInv /\ place # "closed"
  OBVIOUS
<1> QED BY ONLY <1>1, <1>2, <1>3, <1>4, <1>5, <1>6, WindowMoves, w \in Windows, place \in Places

\* One window asks for the lock, with a job.
LEMMA WantType ==
    ASSUME TypeInv, puts' = puts, NEW w \in Windows, NEW j \in Jobs, Want(w, j),
           NEW p \in Pointers, seen' = [seen EXCEPT ![w] = p],
           NEW s \in Sessions, session' = [session EXCEPT ![w] = s],
           j.after \in Working => s.active # 0
    PROVE  WindowType'
<1>1. puts \in Nat /\ puts' \in Nat /\ puts <= puts'
  BY SlotFacts DEF TypeInv, OtherType
<1>2. /\ at' = [at EXCEPT ![w] = "lock"] /\ job' = [job EXCEPT ![w] = j]
      /\ "lock" \in Places /\ "lock" \notin Working
  BY DEF Want, Goto, Places, Before, Working
<1>3. j \in Jobs' /\ p \in Pointers' /\ s \in Sessions'
  BY TypesStay
<1> QED BY <1>1, <1>2, <1>3, WindowMoves

\* The same, for a window that keeps what it has read and what it knows.
LEMMA WantMoreType ==
    ASSUME TypeInv, puts' = puts, NEW w \in Windows, NEW j \in Jobs, Want(w, j),
           UNCHANGED <<seen, session>>, j.after \in Working => session[w].active # 0
    PROVE  WindowType'
<1>1. /\ seen[w] \in Pointers /\ seen' = [seen EXCEPT ![w] = seen[w]]
      /\ session[w] \in Sessions /\ session' = [session EXCEPT ![w] = session[w]]
  BY Stays DEF TypeInv
<1> QED BY <1>1, WantType

\* The same, for windows that keep where they are and what they do.
LEMMA SessionType ==
    ASSUME TypeInv, puts' = puts, NEW w \in Windows, NEW place \in Places, Goto(w, place),
           UNCHANGED <<job, seen>>,
           NEW s \in Sessions, session' = [session EXCEPT ![w] = s],
           place \in Working \/ job[w].after \in Working => s.active # 0,
           place \notin {"image", "resumeImage", "closed"}
    PROVE  WindowType'
<1>1. puts \in Nat /\ puts' \in Nat /\ puts <= puts'
  BY SlotFacts DEF TypeInv, OtherType
<1>2. /\ at' = [at EXCEPT ![w] = place] /\ job' = [job EXCEPT ![w] = job[w]]
      /\ seen' = [seen EXCEPT ![w] = seen[w]]
  BY Stays DEF Goto, TypeInv
<1>3. job[w] \in Jobs' /\ seen[w] \in Pointers' /\ s \in Sessions'
  BY Stays, TypesStay DEF TypeInv
<1> QED BY <1>1, <1>2, <1>3, WindowMoves

\* The jobs that code of another window makes.
LEMMA JobType ==
    ASSUME puts \in Nat, NEW op \in {"put", "quarantine", "drop", "invalid", "discard"},
           NEW c \in Kinds, NEW k \in 0..puts, NEW n \in 0..MaxNames, op = "put" => n # 0,
           NEW after \in After
    PROVE  Job(op, c, k, n, after) \in Jobs /\ Job(op, c, k, n, after).after = after
           /\ Job(op, c, k, n, after).op = op /\ Job(op, c, k, n, after).put = k
<1>1. 0 \in 0..MaxNames
  BY SlotFacts
<1> QED BY <1>1 DEF Job, Jobs

\* What the fields of a pointer, a job and a session are.
LEMMA Fields ==
    ASSUME puts \in 0..MaxPuts
    PROVE  /\ \A p \in Pointers : /\ p.put \in 0..puts /\ p.name \in 0..MaxNames
                                  /\ p.prev \in 0..MaxNames
                                  /\ p.state \in {"none", "corrupt", "foreign", "valid"}
                                  /\ p.state = "valid" => p.put \in 1..MaxPuts /\ p.name \in 1..MaxNames
           /\ \A j \in Jobs : /\ j.put \in 0..puts /\ j.name \in 0..MaxNames /\ j.c \in Kinds
                              /\ j.intact \in BOOLEAN /\ j.after \in After
                              /\ j.prev \in 0..MaxNames
                              /\ j.op = "put" => j.name \in 1..MaxNames
           /\ \A s \in Sessions : /\ s.active \in 0..MaxNames /\ s.restored \in 0..MaxNames
                                  /\ s.next \in 0..MaxNames /\ s.token \in 0..puts
                                  /\ s.saved \in 0..MaxNames
<1>1. puts \in Nat /\ MaxNames \in Nat /\ MaxPuts \in Nat
  BY SlotFacts
<1>2. ASSUME NEW p \in Pointers
      PROVE  /\ p.put \in 0..puts /\ p.name \in 0..MaxNames
             /\ p.prev \in 0..MaxNames
             /\ p.state \in {"none", "corrupt", "foreign", "valid"}
             /\ p.state = "valid" => p.put \in 1..MaxPuts /\ p.name \in 1..MaxNames
  BY <1>1 DEF Pointers
<1>3. ASSUME NEW j \in Jobs
      PROVE  /\ j.put \in 0..puts /\ j.name \in 0..MaxNames /\ j.c \in Kinds
             /\ j.intact \in BOOLEAN /\ j.after \in After
             /\ j.prev \in 0..MaxNames
             /\ j.op = "put" => j.name \in 1..MaxNames
  BY <1>1 DEF Jobs
<1>4. ASSUME NEW s \in Sessions
      PROVE  /\ s.active \in 0..MaxNames /\ s.restored \in 0..MaxNames
             /\ s.next \in 0..MaxNames /\ s.token \in 0..puts
             /\ s.saved \in 0..MaxNames
  BY <1>1 DEF Sessions
<1> QED BY <1>2, <1>3, <1>4


\* A generation identifier is new, and not the restored one.
LEMMA FreshType ==
    ASSUME TypeInv, NEW w \in Windows, Fresh(w) <= MaxNames
    PROVE  Fresh(w) \in 1..MaxNames
<1>1. session[w].next \in 0..MaxNames /\ MaxNames \in Nat
  BY Fields, Stays, SlotFacts DEF TypeInv, OtherType
<1> QED BY <1>1 DEF Fresh

\* What voids a put leaves every job what it is.
LEMMA VoidedJobs ==
    ASSUME WindowType, puts' = puts, NEW c \in Kinds, Voided(c)
    PROVE  /\ job' \in [Windows -> Jobs']
           /\ \A v \in Windows : /\ job'[v].op = job[v].op /\ job'[v].c = job[v].c
                                 /\ job'[v].put = job[v].put /\ job'[v].name = job[v].name
                                 /\ job'[v].prev = job[v].prev /\ job'[v].after = job[v].after
                                 /\ job'[v].intact => job[v].intact /\ ~(job[v].op = "put" /\ job[v].c = c)
<1>1. Jobs' = Jobs
  BY TypesStay
<1>2. ASSUME NEW v \in Windows
      PROVE  /\ job'[v] \in Jobs
             /\ job'[v].op = job[v].op /\ job'[v].c = job[v].c
             /\ job'[v].put = job[v].put /\ job'[v].name = job[v].name
             /\ job'[v].prev = job[v].prev /\ job'[v].after = job[v].after
             /\ job'[v].intact => job[v].intact /\ ~(job[v].op = "put" /\ job[v].c = c)
  <2>1. job[v] \in Jobs
    BY DEF WindowType
  <2>2. CASE job[v].op = "put" /\ job[v].c = c
    <3>1. job'[v] = [job[v] EXCEPT !.intact = FALSE]
      BY <2>2 DEF Voided
    <3> QED BY <2>1, <3>1 DEF Jobs
  <2>3. CASE ~(job[v].op = "put" /\ job[v].c = c)
    <3>1. job'[v] = job[v]
      BY <2>3 DEF Voided
    <3> QED BY <2>1, <2>3, <3>1
  <2> QED BY <2>2, <2>3
<1>3. DOMAIN job' = Windows /\ job' = [v \in Windows |-> job'[v]]
  BY DEF Voided
<1> QED BY <1>1, <1>2, <1>3

\* Windows that are gone know nothing.
LEMMA GoneType ==
    ASSUME TypeInv, NEW ws \in SUBSET Windows, Gone(ws), puts' = puts
    PROVE  WindowType'
<1>1. puts \in Nat
  BY SlotFacts DEF TypeInv, OtherType
<1>2. /\ NoPointer \in Pointers' /\ NoJob \in Jobs' /\ NewSession \in Sessions'
      /\ Pointers = Pointers' /\ Jobs = Jobs' /\ Sessions = Sessions'
  BY <1>1, Blank, TypesStay
<1>3. /\ at \in [Windows -> Places] /\ job \in [Windows -> Jobs]
      /\ seen \in [Windows -> Pointers] /\ session \in [Windows -> Sessions]
  BY DEF TypeInv, WindowType
<1>4. /\ at' \in [Windows -> Places] /\ job' \in [Windows -> Jobs']
      /\ seen' \in [Windows -> Pointers'] /\ session' \in [Windows -> Sessions']
  BY <1>2, <1>3 DEF Gone, Places
<1>5. ASSUME NEW v \in Windows
      PROVE  /\ at'[v] \in Working \/ job'[v].after \in Working => session'[v].active # 0
             /\ at'[v] \in {"image", "resumeImage"} => seen'[v].state = "valid"
             /\ at'[v] = "closed" => job'[v].after = "closed"
  <2>1. CASE v \in ws
    BY <2>1 DEF Gone, NoJob, Job, Working
  <2>2. CASE v \notin ws
    BY <2>2 DEF Gone, TypeInv, WindowType
  <2> QED BY <2>1, <2>2
<1> QED BY <1>4, <1>5 DEF WindowType, Places, Working, Critical, Writing, Before, Elsewhere

\* The windows stay well typed under the lock and in a put.
LEMMA LockWindows ==
    ASSUME TypeInv, NEW w \in Windows,
           \/ TryCreate(w) \/ Inspect(w) \/ Takeover(w) \/ Recreate(w) \/ Release(w)
           \/ RenameImage(w) \/ SyncImages(w) \/ RenamePointer(w) \/ SyncPointer(w)
           \/ Prune(w) \/ PutFails(w)
           \/ Quarantine(w) \/ DropCheckpoint(w) \/ DropInvalid(w) \/ Discard(w)
    PROVE  WindowType' /\ puts' = puts /\ opens' = opens
<1> USE DEF counters
<1>0. /\ {"held", "inspect", "takeover", "recreate", "renamed", "synced", "committed", "prune",
          "release"} \subseteq Places
      /\ {"held", "inspect", "takeover", "recreate", "renamed", "synced", "committed", "prune",
          "release"} \cap (Working \cup {"image", "resumeImage", "closed"}) = {}
  BY DEF Places, Critical, Writing, Before, Working
<1>t. puts \in 0..MaxPuts /\ puts \in Nat /\ WindowType
  BY SlotFacts DEF TypeInv, OtherType
<1>1. CASE TryCreate(w)
  <2>1. UNCHANGED <<job, seen, session>> /\ \E place \in {"held", "inspect"} : Goto(w, place)
    BY <1>1 DEF TryCreate
  <2> QED BY <1>0, <1>1, <2>1, GotoType DEF TryCreate
<1>2. CASE Inspect(w)
  BY <1>0, <1>2, GotoType, LeaveType DEF Inspect
<1>3. CASE Takeover(w)
  BY <1>0, <1>3, GotoType DEF Takeover
<1>4. CASE Recreate(w)
  BY <1>0, <1>4, GotoType, LeaveType DEF Recreate
<1>5. CASE Release(w)
  BY <1>0, <1>5, LeaveType DEF Release
<1>6. CASE RenameImage(w)
  BY <1>0, <1>6, GotoType DEF RenameImage
<1>7. CASE SyncImages(w)
  BY <1>0, <1>7, GotoType DEF SyncImages
<1>8. CASE RenamePointer(w)
  BY <1>0, <1>8, GotoType DEF RenamePointer
<1>9. CASE SyncPointer(w)
  BY <1>0, <1>9, GotoType DEF SyncPointer
<1>10. CASE Prune(w)
  <2>1. CASE session' = session
    BY <1>0, <1>10, <2>1, GotoType DEF Prune
  <2>2. CASE session' = [session EXCEPT ![w].token = job[w].put]
    <3>1. session' = [session EXCEPT ![w] = [session[w] EXCEPT !.token = job[w].put]]
      BY <2>2
    <3>2. /\ [session[w] EXCEPT !.token = job[w].put] \in Sessions
          /\ [session[w] EXCEPT !.token = job[w].put].active = session[w].active
      BY <1>t, Stays, Fields DEF Sessions
    <3> QED BY <1>0, <1>10, <1>t, <3>1, <3>2, SessionType, Stays DEF Prune
  <2> QED BY <1>10, <2>1, <2>2 DEF Prune
<1>11. CASE PutFails(w)
  BY <1>0, <1>11, GotoType DEF PutFails
<1>12. CASE Quarantine(w)
  BY <1>0, <1>12, GotoType DEF Quarantine
<1>13. CASE DropCheckpoint(w)
  <2>1. session' = [session EXCEPT ![w] = [session[w] EXCEPT !.token = 0]]
    BY <1>13 DEF DropCheckpoint
  <2>2. /\ [session[w] EXCEPT !.token = 0] \in Sessions
        /\ [session[w] EXCEPT !.token = 0].active = session[w].active
    BY <1>t, Stays DEF Sessions
  <2> QED BY <1>0, <1>13, <1>t, <2>1, <2>2, SessionType, Stays DEF DropCheckpoint
<1>14. CASE DropInvalid(w)
  BY <1>0, <1>14, GotoType DEF DropInvalid
<1>15. CASE Discard(w)
  BY <1>0, <1>15, GotoType DEF Discard
<1> QED BY <1>1, <1>2, <1>3, <1>4, <1>5, <1>6, <1>7, <1>8, <1>9, <1>10, <1>11, <1>12, <1>13,
           <1>14, <1>15


\* A put begins: it takes the next number, and its reservation ends.
LEMMA BeginPutType ==
    ASSUME TypeInv, NEW w \in Windows, BeginPut(w)
    PROVE  /\ WindowType' /\ puts' = puts + 1 /\ puts' \in 0..MaxPuts
           /\ puts' + Cardinality(Waiting') <= MaxPuts
           /\ job' = [job EXCEPT ![w] = [job[w] EXCEPT !.put = puts',
                                         !.prev = IF ptr[job[w].c].name # job[w].name
                                                  THEN ptr[job[w].c].name ELSE 0]]
<1> DEFINE before == IF ptr[job[w].c].name # job[w].name THEN ptr[job[w].c].name ELSE 0
           j == [job[w] EXCEPT !.put = puts', !.prev = before]
<1>1. /\ puts \in 0..MaxPuts /\ puts \in Nat /\ WindowType /\ job[w] \in Jobs
      /\ job[w].op = "put" /\ job[w].put = 0 /\ puts' = puts + 1 /\ at[w] = "held"
  BY SlotFacts, Stays DEF TypeInv, OtherType, Reserved, BeginPut, Putting, Before
<1>2. job' = [job EXCEPT ![w] = j]
  BY <1>1 DEF BeginPut
<1>3. /\ Waiting' \subseteq Waiting \ {w} /\ w \in Waiting /\ IsFiniteSet(Waiting)
  <2>1. Waiting \subseteq Windows /\ IsFiniteSet(Waiting)
    BY FS_Subset DEF Waiting
  <2>2. w \in Waiting
    BY <1>1 DEF Waiting
  <2>3. job'[w].put # 0
    <3>1. job'[w] = j
      BY <1>1, <1>2 DEF WindowType
    <3>2. j.put = puts'
      BY <1>1 DEF Jobs
    <3> QED BY <1>1, <3>1, <3>2
  <2>4. \A v \in Windows \ {w} : job'[v] = job[v]
    BY <1>1, <1>2 DEF WindowType
  <2> HIDE DEF j
  <2> QED BY <2>1, <2>2, <2>3, <2>4 DEF Waiting
<1>4. /\ Cardinality(Waiting) \in Nat /\ Cardinality(Waiting \ {w}) = Cardinality(Waiting) - 1
      /\ Cardinality(Waiting') \in Nat /\ Cardinality(Waiting') <= Cardinality(Waiting \ {w})
  <2>1. IsFiniteSet(Waiting \ {w}) /\ Cardinality(Waiting) \in Nat
        /\ Cardinality(Waiting \ {w}) = Cardinality(Waiting) - 1
    BY <1>3, FS_RemoveElement, FS_CardinalityType
  <2> QED BY <1>3, <2>1, FS_Subset, FS_CardinalityType
<1>5. puts + Cardinality(Waiting) <= MaxPuts /\ MaxPuts \in Nat
  BY SlotFacts DEF TypeInv, Reserved
<1>6. puts' \in 0..MaxPuts /\ puts' + Cardinality(Waiting') <= MaxPuts
  <2>1. Cardinality(Waiting \ {w}) >= 0 /\ Cardinality(Waiting) >= 1
    BY <1>4
  <2> QED BY <1>1, <1>4, <1>5, <2>1
<1>7. before \in 0..MaxNames
  BY <1>1, Fields, SlotFacts DEF TypeInv, DiskType
<1>8. j \in Jobs' /\ j.after = job[w].after
  <2> HIDE DEF before
  <2>1. puts' \in 0..puts' /\ puts' \in Nat
    BY <1>1, <1>6
  <2> QED BY <1>1, <1>7, <2>1 DEF Jobs
<1>9. /\ seen' = [seen EXCEPT ![w] = seen[w]] /\ session' = [session EXCEPT ![w] = session[w]]
      /\ at' = [at EXCEPT ![w] = "write"]
      /\ seen[w] \in Pointers' /\ session[w] \in Sessions'
  BY <1>1, <1>6, Stays, TypesGrow DEF BeginPut, Goto
<1>10. /\ "write" \in Places /\ "write" \notin {"image", "resumeImage", "closed"}
       /\ "write" \in Working \/ j.after \in Working => session[w].active # 0
  BY <1>1, <1>8, Stays DEF Places, Critical, Writing, Working
<1>11. WindowType'
  <2>1. puts' \in Nat /\ puts <= puts' /\ TypeInv
    BY <1>1
  <2> HIDE DEF j
  <2> QED BY ONLY <1>2, <1>8, <1>9, <1>10, <2>1, WindowMoves, w \in Windows
<1> QED BY <1>1, <1>2, <1>6, <1>11

\* The windows stay well typed when they start and work.
LEMMA OpenWindows ==
    ASSUME TypeInv, NEW w \in Windows,
           \/ Open(w) \/ Load(w) \/ Unlink(w) \/ LoadImage(w) \/ DiscardCache(w)
           \/ Resume(w) \/ ResumeImage(w) \/ StartBuild(w)
           \/ Commit(w) \/ Edit(w) \/ Close(w) \/ Kill(w) \/ SaveCheckpoint(w) \/ Save(w)
    PROVE  WindowType' /\ puts' = puts
<1> USE DEF counters
<1>0. /\ Working \cup Elsewhere \cup {"closed"} \subseteq Places
      /\ Working \subseteq After /\ {"discard", "resume", "start"} \subseteq After
      /\ Working \cap (Elsewhere \cup {"closed"}) = {}
      /\ {"load", "unlink", "image", "discard", "resume", "resumeImage", "start"} = Elsewhere
      /\ Working = {"build", "ready"}
  BY DEF Places, Working, Elsewhere, After
<1>t. puts \in 0..MaxPuts /\ puts \in Nat /\ WindowType /\ 0 \in 0..MaxNames /\ 0 \in 0..puts
  BY SlotFacts DEF TypeInv, OtherType
<1>s. /\ seen[w] \in Pointers /\ session[w] \in Sessions /\ job[w] \in Jobs
      /\ \A c \in Kinds : ptr[c] \in Pointers
  BY <1>t, Stays DEF TypeInv, DiskType
<1>k. "complete" \in Kinds /\ "checkpoint" \in Kinds
  BY DEF Kinds
<1>1. CASE Open(w)
  <2>1. NewSession \in Sessions
    BY <1>t, Blank
  <2>2. job[w].after \notin Working /\ "load" \notin Working /\ "load" \in Places /\ puts' = puts
        /\ session' = [session EXCEPT ![w] = NewSession]
    BY <1>0, <1>1, <1>t, Stays DEF Open
  <2>3. "load" \notin {"image", "resumeImage", "closed"} /\ Goto(w, "load")
        /\ UNCHANGED <<job, seen>>
    BY <1>1 DEF Open
  <2> QED BY <2>1, <2>2, <2>3, SessionType
<1>2. CASE Load(w)
  <2> DEFINE p == ptr["complete"]
             read == CASE p.state \in {"none", "foreign"} -> "resume"
                       [] p.state = "corrupt" -> "unlink"
                       [] p.state = "valid" -> "image"
  <2>1. p \in Pointers /\ p.state \in {"none", "corrupt", "foreign", "valid"}
    BY <1>t, <1>s, <1>k, Fields
  <2>2. PICK place \in {"resume", "unlink", "image", "discard", "start"} :
            at' = [at EXCEPT ![w] = place] /\ (place = "image" => p.state = "valid")
    <3>1. read \in {"resume", "unlink", "image"} /\ (read = "image" => p.state = "valid")
      BY <2>1
    <3>2. Goto(w, read) \/ Goto(w, "discard") \/ Goto(w, "start")
      BY <1>2 DEF Load
    <3> HIDE DEF read, p
    <3> QED BY <3>1, <3>2 DEF Goto
  <2>3. /\ seen' = [seen EXCEPT ![w] = p] /\ job' = [job EXCEPT ![w] = job[w]]
        /\ session' = [session EXCEPT ![w] = session[w]] /\ puts' = puts
        /\ at' = [at EXCEPT ![w] = place]
    BY <1>2, <1>t, <2>2, Stays DEF Load
  <2>4. p \in Pointers' /\ job[w] \in Jobs' /\ session[w] \in Sessions'
    BY <1>s, <2>1, <2>3, TypesStay
  <2>5. /\ place \in Places /\ (place \in {"image", "resumeImage"} => p.state = "valid")
        /\ place # "closed"
        /\ (place \in Working \/ job[w].after \in Working => session[w].active # 0)
    BY <1>0, <1>t, <2>2, Stays
  <2>6. puts' \in Nat /\ puts <= puts' /\ TypeInv
    BY <1>t, <2>3
  <2> HIDE DEF p, read
  <2>7. WindowType'
    BY ONLY <2>3, <2>4, <2>5, <2>6, WindowMoves, w \in Windows
  <2> QED BY <2>3, <2>7
<1>3. CASE Unlink(w)
  <2>1. /\ Voided("complete") /\ UNCHANGED <<seen, session>> /\ puts' = puts
        /\ at' = [at EXCEPT ![w] = "discard"]
    BY <1>3 DEF Unlink, Goto
  <2>2. /\ at' \in [Windows -> Places] /\ seen' \in [Windows -> Pointers']
        /\ session' \in [Windows -> Sessions'] /\ job' \in [Windows -> Jobs']
    BY <1>0, <1>k, <1>t, <2>1, VoidedJobs, TypesStay DEF WindowType
  <2>3. ASSUME NEW v \in Windows
        PROVE  /\ at'[v] \in Working \/ job'[v].after \in Working => session'[v].active # 0
               /\ at'[v] \in {"image", "resumeImage"} => seen'[v].state = "valid"
               /\ at'[v] = "closed" => job'[v].after = "closed"
    <3>1. job'[v].after = job[v].after
      BY <1>k, <1>t, <2>1, VoidedJobs
    <3> QED BY <1>0, <1>t, <2>1, <3>1 DEF WindowType
  <2> QED BY <2>1, <2>2, <2>3 DEF WindowType, Places, Working, Critical, Writing, Before, Elsewhere
<1>4. CASE LoadImage(w)
  <2> DEFINE p == seen[w]
             j == Job("quarantine", "complete", p.put, p.name, "discard")
             s == [session[w] EXCEPT !.active = p.name, !.restored = p.name, !.saved = p.name]
  <2>1. /\ at[w] = "image" /\ p.put \in 0..puts /\ p.name \in 1..MaxNames
        /\ p.name \in 0..MaxNames /\ puts' = puts /\ UNCHANGED seen
    BY <1>4, <1>t, <1>s, Fields, Stays, SlotFacts DEF LoadImage
  <2>2. CASE (Goto(w, "discard") \/ Goto(w, "start")) /\ UNCHANGED <<job, session>>
    BY <1>0, <2>1, <2>2, GotoType
  <2>3. CASE Want(w, j) /\ UNCHANGED session
    <3>1. j \in Jobs /\ j.after \notin Working
      BY <1>0, <1>k, <1>t, <2>1, JobType
    <3> HIDE DEF j
    <3> QED BY <2>1, <2>3, <3>1, WantMoreType
  <2>4. CASE Restored(w, p) /\ UNCHANGED job
    <3>1. s \in Sessions /\ s.active = p.name /\ s.active # 0
      BY <1>s, <2>1, SlotFacts DEF Sessions
    <3>2. session' = [session EXCEPT ![w] = s] /\ Goto(w, "ready")
      BY <2>4, <1>t DEF Restored, WindowType
    <3> HIDE DEF s
    <3> QED BY <1>0, <2>1, <2>4, <3>1, <3>2, SessionType
  <2> QED BY <1>4, <2>1, <2>2, <2>3, <2>4 DEF LoadImage
<1>5. CASE DiscardCache(w)
  <2> DEFINE j == Job("discard", "complete", 0, 0, "resume")
  <2>1. j \in Jobs /\ j.after \notin Working
    BY <1>0, <1>k, <1>t, JobType
  <2>2. Want(w, j) /\ UNCHANGED <<seen, session>> /\ puts' = puts
    BY <1>5 DEF DiscardCache
  <2> HIDE DEF j
  <2> QED BY <2>1, <2>2, WantMoreType
<1>6. CASE Resume(w)
  <2> DEFINE p == ptr["checkpoint"]
             j == Job("invalid", "checkpoint", 0, 0, "start")
  <2>1. /\ p \in Pointers /\ seen' = [seen EXCEPT ![w] = p] /\ puts' = puts
        /\ session' = [session EXCEPT ![w] = session[w]]
    BY <1>6, <1>k, <1>s, <1>t, Stays DEF Resume
  <2>2. CASE Want(w, j)
    <3>1. j \in Jobs /\ j.after \notin Working
      BY <1>0, <1>k, <1>t, JobType
    <3> HIDE DEF j, p
    <3> QED BY <1>s, <2>1, <2>2, <3>1, WantType
  <2>3. ASSUME NEW place \in {"start", "resumeImage"}, Goto(w, place), UNCHANGED job,
               place = "resumeImage" => p.state = "valid"
        PROVE  WindowType'
    <3>1. at' = [at EXCEPT ![w] = place] /\ job' = [job EXCEPT ![w] = job[w]]
      BY <1>t, <2>3, Stays DEF Goto
    <3>2. p \in Pointers' /\ job[w] \in Jobs' /\ session[w] \in Sessions'
      BY <1>s, <2>1, TypesStay
    <3>3. /\ place \in Places /\ (place \in {"image", "resumeImage"} => p.state = "valid")
          /\ (place \in Working \/ job[w].after \in Working => session[w].active # 0)
      BY <1>0, <1>t, <2>3, Stays
    <3>4. puts' \in Nat /\ puts <= puts' /\ TypeInv
      BY <1>t, <2>1
    <3> HIDE DEF p
    <3> QED BY ONLY <2>1, <3>1, <3>2, <3>3, <3>4, WindowMoves, w \in Windows
  <2> QED BY <1>6, <2>1, <2>2, <2>3 DEF Resume
<1>7. CASE ResumeImage(w)
  <2> DEFINE p == seen[w]
             d == Job("drop", "checkpoint", p.put, p.name, "start")
             q == Job("quarantine", "checkpoint", p.put, p.name, "start")
             s == [session[w] EXCEPT !.token = p.put, !.active = p.name, !.restored = p.name]
             t == [session[w] EXCEPT !.token = p.put]
  <2>1. /\ at[w] = "resumeImage" /\ p.put \in 0..puts /\ p.name \in 1..MaxNames
        /\ p.name \in 0..MaxNames /\ puts' = puts /\ UNCHANGED seen
        /\ seen' = [seen EXCEPT ![w] = p]
    BY <1>7, <1>t, <1>s, Fields, Stays, SlotFacts DEF ResumeImage
  <2>2. d \in Jobs /\ q \in Jobs /\ d.after \notin Working /\ q.after \notin Working
    BY <1>0, <1>k, <1>t, <2>1, JobType
  <2>3. CASE Want(w, d) /\ UNCHANGED session
    <3> HIDE DEF d
    <3> QED BY <2>1, <2>2, <2>3, WantMoreType
  <2>4. CASE Want(w, q) /\ UNCHANGED session
    <3> HIDE DEF q
    <3> QED BY <2>1, <2>2, <2>4, WantMoreType
  <2>5. CASE Want(w, d) /\ session' = [session EXCEPT ![w].token = p.put]
    <3>1. t \in Sessions /\ session' = [session EXCEPT ![w] = t]
      BY <1>s, <2>1, <2>5 DEF Sessions
    <3> HIDE DEF d, t, p
    <3> QED BY <1>s, <2>1, <2>2, <2>5, <3>1, WantType DEF p
  <2>7. CASE Goto(w, "start") /\ session' = [session EXCEPT ![w].token = p.put] /\ UNCHANGED job
    <3>1. /\ t \in Sessions /\ session' = [session EXCEPT ![w] = t]
          /\ t.active = session[w].active
      BY <1>s, <2>1, <2>7 DEF Sessions
    <3>2. "start" \in Places /\ "start" \notin Working \cup {"image", "resumeImage", "closed"}
          /\ (job[w].after \in Working => t.active # 0)
      BY <1>0, <1>t, <3>1, Stays
    <3> HIDE DEF t, p
    <3> QED BY <2>1, <2>7, <3>1, <3>2, SessionType
  <2>6. CASE Resumed(w, p) /\ UNCHANGED job
    <3>1. s \in Sessions /\ s.active = p.name /\ s.active # 0
      BY <1>s, <2>1, SlotFacts DEF Sessions
    <3>2. session' = [session EXCEPT ![w] = s] /\ Goto(w, "build")
      BY <2>6, <1>t DEF Resumed, WindowType
    <3> HIDE DEF s
    <3> QED BY <1>0, <2>1, <2>6, <3>1, <3>2, SessionType
  <2> QED BY <1>7, <2>1, <2>3, <2>4, <2>5, <2>6, <2>7 DEF ResumeImage
<1>8. ASSUME Allocate(w), NEW place \in Working, Goto(w, place), UNCHANGED <<job, seen>>, puts' = puts
      PROVE  WindowType'
  <2> DEFINE s == [session[w] EXCEPT !.next = Fresh(w), !.active = Fresh(w)]
  <2>1. Fresh(w) \in 1..MaxNames /\ Fresh(w) \in 0..MaxNames /\ Fresh(w) # 0
    BY <1>8, FreshType, SlotFacts DEF Allocate
  <2>2. s \in Sessions /\ s.active # 0
    BY <1>s, <2>1 DEF Sessions
  <2>3. session' = [session EXCEPT ![w] = s]
    BY <1>8, <1>t DEF Allocate, WindowType
  <2> HIDE DEF s
  <2> QED BY <1>0, <1>8, <2>2, <2>3, SessionType
<1>9. CASE StartBuild(w)
  BY <1>0, <1>8, <1>9 DEF StartBuild
<1>10. CASE Edit(w)
  <2>1. Goto(w, "ready")
    BY <1>10, <1>t, Stays DEF Edit, Goto
  <2> QED BY <1>0, <1>8, <1>10, <2>1 DEF Edit
<1>11. CASE Commit(w)
  <2> DEFINE j == Job("drop", "checkpoint", session[w].token, 0, "ready")
  <2>1. session[w].active # 0 /\ session[w].token \in 0..puts
    BY <1>0, <1>11, <1>s, <1>t, Stays, Fields DEF Commit
  <2>2. j \in Jobs
    BY <1>0, <1>k, <1>t, <2>1, JobType
  <2>3. puts' = puts /\ UNCHANGED <<seen, session>> /\ (Want(w, j) \/ (Goto(w, "ready") /\ UNCHANGED job))
    BY <1>11 DEF Commit
  <2> HIDE DEF j
  <2> QED BY <1>0, <2>1, <2>2, <2>3, WantMoreType, GotoType
<1>12. CASE SaveCheckpoint(w)
  <2> DEFINE j == Job("put", "checkpoint", 0, session[w].active, "build")
  <2>1. session[w].active # 0 /\ session[w].active \in 0..MaxNames
    BY <1>0, <1>12, <1>s, <1>t, Stays, Fields DEF SaveCheckpoint
  <2>2. j \in Jobs
    BY <1>0, <1>k, <1>t, <2>1, JobType
  <2>3. puts' = puts /\ UNCHANGED <<seen, session>> /\ Want(w, j)
    BY <1>12 DEF SaveCheckpoint
  <2> HIDE DEF j
  <2> QED BY <2>1, <2>2, <2>3, WantMoreType
<1>13. CASE Save(w)
  <2> DEFINE j == Job("put", "complete", 0, session[w].active, "ready")
             s == [session[w] EXCEPT !.saved = session[w].active]
  <2>1. session[w].active # 0 /\ session[w].active \in 0..MaxNames
    BY <1>0, <1>13, <1>s, <1>t, Stays, Fields DEF Save
  <2>2. j \in Jobs
    BY <1>0, <1>k, <1>t, <2>1, JobType
  <2>3. s \in Sessions /\ s.active # 0
    BY <1>s, <2>1 DEF Sessions
  <2>4. /\ puts' = puts /\ seen' = [seen EXCEPT ![w] = seen[w]] /\ Want(w, j)
        /\ session' = [session EXCEPT ![w] = s]
    BY <1>13, <1>t, Stays DEF Save, WindowType
  <2> HIDE DEF j, s
  <2> QED BY <1>s, <2>2, <2>3, <2>4, WantType
<1>14. CASE Close(w) \/ Kill(w)
  BY <1>14, GoneType DEF Close, Kill
<1> QED BY <1>1, <1>2, <1>3, <1>4, <1>5, <1>6, <1>7, <1>9, <1>10, <1>11, <1>12, <1>13, <1>14
        DEF StartBuild, Edit


\* Removing a pointer, or emptying a namespace, leaves the disk well typed.
LEMMA RemovedType ==
    ASSUME TypeInv, puts' = puts, NEW c \in Kinds, Removed(c),
           image' \in [Kinds -> [Slots -> 0..Damaged]], synced' = synced
    PROVE  DiskType'
<1>1. NoPointer \in Pointers /\ Pointers' = Pointers
  BY Blank, TypesStay, SlotFacts DEF TypeInv, OtherType
<1>2. /\ ptr' = [ptr EXCEPT ![c] = NoPointer]
      /\ durPtr' = [durPtr EXCEPT ![c] = durPtr[c] \cup {NoPointer}]
  BY DEF Removed
<1>3. ptr' \in [Kinds -> Pointers] /\ durPtr' \in [Kinds -> SUBSET Pointers]
  BY <1>1, <1>2 DEF TypeInv, DiskType
<1>4. \A k \in Kinds : ptr'[k] \in durPtr'[k]
  BY <1>2 DEF TypeInv, DiskType
<1> QED BY <1>1, <1>3, <1>4 DEF TypeInv, DiskType

\* The disk stays well typed.
LEMMA DiskSteps ==
    ASSUME TypeInv, NEW w \in Windows,
           \/ RenameImage(w) \/ SyncImages(w) \/ RenamePointer(w) \/ SyncPointer(w) \/ Prune(w)
           \/ Quarantine(w) \/ DropCheckpoint(w) \/ DropInvalid(w) \/ Discard(w) \/ Unlink(w)
    PROVE  DiskType'
<1> USE DEF counters
<1>0. /\ puts \in 0..MaxPuts /\ puts \in Nat /\ WindowType /\ DiskType /\ job[w] \in Jobs
      /\ 0 \in 0..Damaged /\ job[w].c \in Kinds /\ "complete" \in Kinds /\ "checkpoint" \in Kinds
  BY SlotFacts, Stays, Fields DEF TypeInv, OtherType, Kinds
<1>1. puts' = puts /\ Pointers' = Pointers
  <2>1. puts' = puts
    BY LockWindows, OpenWindows
  <2> QED BY <2>1, TypesStay
<1>2. \A k \in Kinds : [s \in Slots |-> 0] \in [Slots -> 0..Damaged]
  BY <1>0
<1>3. \A k \in Kinds, f \in [Slots -> 0..Damaged] :
          [image EXCEPT ![k] = f] \in [Kinds -> [Slots -> 0..Damaged]]
  BY <1>0 DEF DiskType
<1>4. CASE RenameImage(w)
  <2>1. job[w].put \in 0..Damaged
    BY <1>0, Fields, SlotFacts
  <2>2. image' \in [Kinds -> [Slots -> 0..Damaged]]
    BY <1>0, <1>4, <2>1 DEF RenameImage, DiskType
  <2> QED BY <1>0, <1>1, <1>4, <2>2 DEF RenameImage, DiskType
<1>5. CASE SyncImages(w)
  <2>1. synced' \in [Kinds -> [Slots -> 0..Damaged]]
    BY <1>0, <1>5 DEF SyncImages, DiskType
  <2> QED BY <1>0, <1>1, <1>5, <2>1 DEF SyncImages, DiskType
<1>6. CASE RenamePointer(w)
  <2> DEFINE c == job[w].c
             p == Committed(w)
  <2>1. /\ ptr' = [ptr EXCEPT ![c] = p]
        /\ durPtr' = [durPtr EXCEPT ![c] = durPtr[c] \cup {p}]
        /\ job[w].op = "put" /\ puts' = puts /\ UNCHANGED <<image, synced>>
    BY <1>1, <1>6 DEF RenamePointer, Committed, Putting
  <2>2. p \in Pointers
    <3>1. job[w].put \in 0..puts /\ job[w].name \in 1..MaxNames /\ job[w].prev \in 0..MaxNames
      BY <1>0, <2>1, Fields
    <3>2. job[w].put # 0
      BY <1>6 DEF RenamePointer, Putting, TypeInv, Reserved, Writing
    <3> QED BY <3>1, <3>2, SlotFacts DEF Committed, Pointer, Pointers
  <2> HIDE DEF p
  <2>3. ptr' \in [Kinds -> Pointers] /\ durPtr' \in [Kinds -> SUBSET Pointers]
    BY <1>0, <2>1, <2>2 DEF DiskType
  <2>4. \A k \in Kinds : ptr'[k] \in durPtr'[k]
    BY <1>0, <2>1 DEF DiskType
  <2> QED BY <1>0, <1>1, <2>1, <2>3, <2>4 DEF DiskType
<1>7. CASE SyncPointer(w)
  <2>1. durPtr' = durPtr \/ durPtr' = [durPtr EXCEPT ![job[w].c] = {ptr[job[w].c]}]
    BY <1>7 DEF SyncPointer
  <2>2. durPtr' \in [Kinds -> SUBSET Pointers]
    <3>1. {ptr[job[w].c]} \in SUBSET Pointers
      BY <1>0 DEF DiskType
    <3> QED BY <1>0, <2>1, <3>1 DEF DiskType
  <2>3. \A k \in Kinds : ptr[k] \in durPtr'[k]
    BY <1>0, <2>1 DEF DiskType
  <2> QED BY <1>0, <1>1, <1>7, <2>2, <2>3 DEF SyncPointer, DiskType
<1>8. CASE Prune(w)
  <2> DEFINE c == job[w].c
             f == [s \in Slots |-> IF s \in Kept(c, job[w]) THEN image[c][s] ELSE 0]
  <2>1. image' = image \/ image' = [image EXCEPT ![c] = f]
    BY <1>0, <1>8 DEF Prune, DiskType
  <2>2. f \in [Slots -> 0..Damaged]
    BY <1>0 DEF DiskType
  <2> HIDE DEF f
  <2>3. image' \in [Kinds -> [Slots -> 0..Damaged]]
    BY <1>0, <1>3, <2>1, <2>2 DEF DiskType
  <2> QED BY <1>0, <1>1, <1>8, <2>3 DEF Prune, DiskType
<1>9. CASE Quarantine(w)
  <2>1. CASE StillSeen(w)
    <3>1. Removed(job[w].c) /\ synced' = synced
          /\ image' = [image EXCEPT ![job[w].c][File(job[w].c, seen[w])] = 0]
      BY <1>9, <2>1 DEF Quarantine
    <3>2. image' \in [Kinds -> [Slots -> 0..Damaged]]
      BY <1>0, <3>1 DEF DiskType
    <3> QED BY <1>0, <1>1, <3>1, <3>2, RemovedType
  <2>2. CASE ~StillSeen(w)
    BY <1>0, <1>1, <1>9, <2>2 DEF Quarantine, DiskType
  <2> QED BY <2>1, <2>2
<1>10. ASSUME NEW k \in Kinds, Emptied(k)
       PROVE  image' \in [Kinds -> [Slots -> 0..Damaged]]
  BY <1>2, <1>3, <1>10 DEF Emptied
<1>11. CASE DropCheckpoint(w)
  <2>1. CASE Removed("checkpoint") /\ Emptied("checkpoint")
    BY <1>0, <1>1, <1>10, <1>11, <2>1, RemovedType DEF DropCheckpoint
  <2>2. CASE UNCHANGED <<ptr, durPtr, image>>
    BY <1>0, <1>1, <1>11, <2>2 DEF DropCheckpoint, DiskType
  <2> QED BY <1>11, <2>1, <2>2 DEF DropCheckpoint
<1>12. CASE DropInvalid(w)
  <2>1. CASE Removed("checkpoint") /\ Emptied("checkpoint")
    BY <1>0, <1>1, <1>10, <1>12, <2>1, RemovedType DEF DropInvalid
  <2>2. CASE UNCHANGED <<ptr, durPtr, image>>
    BY <1>0, <1>1, <1>12, <2>2 DEF DropInvalid, DiskType
  <2> QED BY <1>12, <2>1, <2>2 DEF DropInvalid
<1>13. CASE Discard(w)
  BY <1>0, <1>1, <1>10, <1>13, RemovedType DEF Discard
<1>14. CASE Unlink(w)
  BY <1>0, <1>1, <1>14, RemovedType DEF Unlink, DiskType
<1> QED BY <1>4, <1>5, <1>6, <1>7, <1>8, <1>9, <1>11, <1>12, <1>13, <1>14

\* A power loss and a damage leave the disk well typed.
LEMMA FaultDisk ==
    ASSUME TypeInv, PowerLoss \/ \E c \in Kinds : Damage(c)
    PROVE  DiskType' /\ puts' = puts
<1>0. /\ puts \in 0..MaxPuts /\ puts \in Nat /\ DiskType
      /\ Damaged \in 0..Damaged /\ "complete" \in Kinds /\ "checkpoint" \in Kinds
      /\ Kinds = {"complete", "checkpoint"} /\ Corrupt \in Pointers /\ Foreign \in Pointers
  BY SlotFacts, Blank DEF TypeInv, OtherType, Kinds
<1>1. CASE PowerLoss
  <2>1. puts' = puts /\ Pointers' = Pointers
    BY <1>1, TypesStay DEF PowerLoss
  <2>2. PICK back : image' = [c \in Kinds |-> [s \in Slots |->
                        IF <<c, s>> \in back THEN synced[c][s] ELSE image[c][s]]]
    BY <1>1 DEF PowerLoss
  <2>3. image' \in [Kinds -> [Slots -> 0..Damaged]] /\ synced' = image'
    BY <1>0, <1>1, <2>2 DEF PowerLoss, DiskType
  <2>4. PICK p \in durPtr["complete"], q \in durPtr["checkpoint"] :
          ptr' = [c \in Kinds |-> IF c = "complete" THEN p ELSE q]
    BY <1>1 DEF PowerLoss
  <2>5. p \in Pointers /\ q \in Pointers
    BY <1>0, <2>4 DEF DiskType
  <2>6. ptr' \in [Kinds -> Pointers] /\ durPtr' = [c \in Kinds |-> {ptr'[c]}]
    BY <1>1, <2>4, <2>5 DEF PowerLoss
  <2>7. durPtr' \in [Kinds -> SUBSET Pointers] /\ \A c \in Kinds : ptr'[c] \in durPtr'[c]
    BY <2>6
  <2> QED BY <2>1, <2>3, <2>6, <2>7 DEF DiskType
<1>2. ASSUME NEW c \in Kinds, Damage(c)
      PROVE  DiskType' /\ puts' = puts
  <2>1. puts' = puts /\ Pointers' = Pointers
    BY <1>2, TypesStay DEF Damage
  <2>2. ASSUME NEW p \in {Corrupt, Foreign}, UNCHANGED <<image, synced>>,
               ptr' = [ptr EXCEPT ![c] = p], durPtr' = [durPtr EXCEPT ![c] = {p}]
        PROVE  DiskType'
    <3>1. ptr' \in [Kinds -> Pointers] /\ durPtr' \in [Kinds -> SUBSET Pointers]
      BY <1>0, <2>2 DEF DiskType
    <3>2. \A k \in Kinds : ptr'[k] \in durPtr'[k]
      BY <1>0, <2>2 DEF DiskType
    <3> QED BY <1>0, <2>1, <2>2, <3>1, <3>2 DEF DiskType
  <2>3. CASE \E s \in Slots :
               /\ image' = [image EXCEPT ![c][s] = Damaged] /\ synced' = [synced EXCEPT ![c][s] = Damaged]
               /\ UNCHANGED <<ptr, durPtr>>
    BY <1>0, <2>1, <2>3 DEF DiskType
  <2> QED BY <1>2, <2>1, <2>2, <2>3 DEF Damage
<1> QED BY <1>1, <1>2


\* The reservations stay while no put begins.
LEMMA ReservedStays ==
    ASSUME TypeInv, puts' = puts,
           \A v \in Windows : job'[v].op = "put" =>
              /\ job[v].op = "put" /\ job'[v].put = job[v].put
              /\ at'[v] \in Before => at[v] \in Before
              /\ at'[v] \in Writing => at[v] \in Writing
    PROVE  Reserved'
<1>1. puts \in Nat
  BY SlotFacts DEF TypeInv, OtherType
<1>2. puts' + Cardinality(Waiting') <= MaxPuts
  BY <1>1, ReservedKept DEF TypeInv, Reserved
<1> QED BY <1>2 DEF TypeInv, Reserved

\* The reservations under the lock.
LEMMA LockReserved ==
    ASSUME TypeInv, NEW w \in Windows,
           \/ TryCreate(w) \/ Inspect(w) \/ Takeover(w) \/ Recreate(w) \/ Release(w)
           \/ RenameImage(w) \/ SyncImages(w) \/ RenamePointer(w) \/ SyncPointer(w)
           \/ Prune(w) \/ PutFails(w)
           \/ Quarantine(w) \/ DropCheckpoint(w) \/ DropInvalid(w) \/ Discard(w)
    PROVE  Reserved'
<1>0. /\ at \in [Windows -> Places] /\ job \in [Windows -> Jobs] /\ puts' = puts
      /\ NoJob.op # "put"
  BY LockWindows DEF TypeInv, WindowType, NoJob, Job
<1> SUFFICES ASSUME NEW v \in Windows, job'[v].op = "put"
             PROVE  /\ job[v].op = "put" /\ job'[v].put = job[v].put
                    /\ at'[v] \in Before => at[v] \in Before
                    /\ at'[v] \in Writing => at[v] \in Writing
  BY <1>0, ReservedStays
<1> USE DEF Goto, Leave, Putting, Before, Writing
<1>1. CASE TryCreate(w) \/ Takeover(w)
  BY <1>0, <1>1 DEF TryCreate, Takeover
<1>2. CASE Inspect(w) \/ Recreate(w)
  BY <1>0, <1>2 DEF Inspect, Recreate
<1>3. CASE Release(w)
  BY <1>0, <1>3 DEF Release
<1>4. CASE RenameImage(w) \/ SyncImages(w) \/ RenamePointer(w) \/ Prune(w) \/ PutFails(w)
  BY <1>0, <1>4 DEF RenameImage, SyncImages, RenamePointer, Prune, PutFails
<1>5. CASE SyncPointer(w)
  BY <1>0, <1>5 DEF SyncPointer
<1>6. CASE Quarantine(w) \/ DropCheckpoint(w) \/ DropInvalid(w) \/ Discard(w)
  BY <1>0, <1>6 DEF Quarantine, DropCheckpoint, DropInvalid, Discard
<1> QED BY <1>1, <1>2, <1>3, <1>4, <1>5, <1>6

\* A put begins.
LEMMA BeginReserved ==
    ASSUME TypeInv, NEW w \in Windows, BeginPut(w)
    PROVE  Reserved'
<1> DEFINE j == [job[w] EXCEPT !.put = puts', !.prev = IF ptr[job[w].c].name # job[w].name
                                                       THEN ptr[job[w].c].name ELSE 0]
<1>1. /\ at \in [Windows -> Places] /\ job \in [Windows -> Jobs] /\ at' = [at EXCEPT ![w] = "write"]
      /\ puts \in Nat /\ puts' = puts + 1 /\ puts' + Cardinality(Waiting') <= MaxPuts
      /\ job' = [job EXCEPT ![w] = j]
  <2>1. /\ at \in [Windows -> Places] /\ job \in [Windows -> Jobs]
        /\ at' = [at EXCEPT ![w] = "write"] /\ puts \in Nat
    BY SlotFacts DEF TypeInv, WindowType, OtherType, BeginPut, Goto
  <2> QED BY ONLY <2>1, BeginPutType, TypeInv, BeginPut(w), w \in Windows
<1>2. j.put = puts' /\ puts' # 0 /\ at'[w] \notin Before /\ job'[w] = j
  BY <1>1 DEF Jobs, Before
<1> HIDE DEF j
<1> QED BY <1>1, <1>2 DEF TypeInv, Reserved

\* A save asks for the lock, and reserves its number.
LEMMA SaveReserved ==
    ASSUME TypeInv, NEW w \in Windows, SaveCheckpoint(w) \/ Save(w)
    PROVE  Reserved'
<1>1. /\ at \in [Windows -> Places] /\ job \in [Windows -> Jobs] /\ puts \in Nat
  BY SlotFacts DEF TypeInv, WindowType, OtherType
<1>2. PICK j : /\ job' = [job EXCEPT ![w] = j] /\ at' = [at EXCEPT ![w] = "lock"] /\ puts' = puts
               /\ j.op = "put" /\ j.put = 0 /\ puts + Cardinality(Waiting) < MaxPuts
  <2>1. CASE SaveCheckpoint(w)
    <3> WITNESS Job("put", "checkpoint", 0, session[w].active, "build")
    <3> QED BY <2>1 DEF SaveCheckpoint, Want, Goto, Job, counters
  <2>2. CASE Save(w)
    <3> WITNESS Job("put", "complete", 0, session[w].active, "ready")
    <3> QED BY <2>2 DEF Save, Want, Goto, Job, counters
  <2> QED BY <2>1, <2>2
<1>3. Waiting' \subseteq Waiting \cup {w} /\ IsFiniteSet(Waiting)
  BY <1>1, <1>2, FS_Subset DEF Waiting
<1>4. Cardinality(Waiting') <= Cardinality(Waiting) + 1 /\ Cardinality(Waiting) \in Nat
      /\ Cardinality(Waiting') \in Nat
  <2>1. /\ IsFiniteSet(Waiting \cup {w}) /\ Cardinality(Waiting) \in Nat
        /\ Cardinality(Waiting \cup {w}) = Cardinality(Waiting) \/
           Cardinality(Waiting \cup {w}) = Cardinality(Waiting) + 1
    BY <1>3, FS_AddElement, FS_CardinalityType
  <2> QED BY <1>3, <2>1, FS_Subset, FS_CardinalityType
<1>5. puts' + Cardinality(Waiting') <= MaxPuts
  BY <1>1, <1>2, <1>4, SlotFacts
<1> QED BY <1>1, <1>2, <1>5 DEF TypeInv, Reserved, Before, Writing

\* The reservations elsewhere.
LEMMA OpenReserved ==
    ASSUME TypeInv, NEW w \in Windows,
           \/ Open(w) \/ Load(w) \/ Unlink(w) \/ LoadImage(w) \/ DiscardCache(w)
           \/ Resume(w) \/ ResumeImage(w) \/ StartBuild(w)
           \/ Commit(w) \/ Edit(w) \/ Close(w) \/ Kill(w)
    PROVE  Reserved'
<1>0. /\ at \in [Windows -> Places] /\ job \in [Windows -> Jobs] /\ puts' = puts
      /\ NoJob.op # "put"
  BY OpenWindows DEF TypeInv, WindowType, NoJob, Job
<1> SUFFICES ASSUME NEW v \in Windows, job'[v].op = "put"
             PROVE  /\ job[v].op = "put" /\ job'[v].put = job[v].put
                    /\ at'[v] \in Before => at[v] \in Before
                    /\ at'[v] \in Writing => at[v] \in Writing
  BY <1>0, ReservedStays
<1> USE DEF Goto, Want, Before, Writing
<1>1. CASE Open(w) \/ StartBuild(w) \/ Edit(w)
  BY <1>0, <1>1 DEF Open, StartBuild, Edit
<1>2. CASE Load(w)
  <2>1. ptr["complete"].state \in {"none", "corrupt", "foreign", "valid"}
    BY Fields DEF TypeInv, DiskType, OtherType, Kinds
  <2> QED BY <1>0, <1>2, <2>1 DEF Load
<1>3. CASE Unlink(w)
  <2>1. Voided("complete") /\ "complete" \in Kinds /\ WindowType
    BY <1>3 DEF Unlink, Kinds, TypeInv
  <2>2. job'[v].op = job[v].op /\ job'[v].put = job[v].put
    BY <1>0, <2>1, VoidedJobs
  <2> QED BY <1>0, <1>3, <2>2 DEF Unlink
<1>4. CASE LoadImage(w)
  BY <1>0, <1>4 DEF LoadImage, Restored, Job
<1>5. CASE DiscardCache(w) \/ Commit(w)
  BY <1>0, <1>5 DEF DiscardCache, Commit, Job
<1>6. CASE Resume(w) \/ ResumeImage(w)
  BY <1>0, <1>6 DEF Resume, ResumeImage, Resumed, Job
<1>7. CASE Close(w) \/ Kill(w)
  BY <1>0, <1>7 DEF Close, Kill, Gone
<1> QED BY <1>1, <1>2, <1>3, <1>4, <1>5, <1>6, <1>7


\* The counters and the history stay well typed.
LEMMA OtherSteps ==
    ASSUME TypeInv, Next
    PROVE  OtherType'
<1>0. /\ lock \in Windows \cup {"free", "left", "stale"}
      /\ puts \in 0..MaxPuts /\ opens \in 0..MaxOpens /\ faults \in 0..MaxFaults
      /\ acked \in [Kinds -> 0..puts] /\ firm \in [Kinds -> BOOLEAN]
      /\ grace \in [Windows -> 0..2]
      /\ intruded \in BOOLEAN /\ Excused \in [Windows -> 0..2]
      /\ "complete" \in Kinds /\ "checkpoint" \in Kinds
      /\ puts \in Nat /\ opens \in Nat /\ faults \in Nat /\ 0 \in 0..puts
  BY SlotFacts DEF TypeInv, OtherType, Excused, Kinds
<1>f. ASSUME Fault PROVE faults' \in 0..MaxFaults
  BY <1>0, <1>f, SlotFacts DEF Fault
<1>g. \A ws \in SUBSET Windows : Gone(ws) => /\ lock' \in Windows \cup {"free", "left", "stale"}
                                             /\ grace' \in [Windows -> 0..2]
  BY <1>0 DEF Gone
<1>z. \A c \in Kinds : [acked EXCEPT ![c] = 0] \in [Kinds -> 0..puts]
  BY <1>0
<1> USE DEF counters, history
<1>1. ASSUME NEW w \in Windows,
             TryCreate(w) \/ Inspect(w) \/ Takeover(w) \/ Recreate(w) \/ Release(w)
      PROVE  OtherType'
  <2>1. UNCHANGED <<puts, opens, faults, acked, firm, grace>> /\ intruded' \in BOOLEAN
    BY <1>0, <1>1 DEF TryCreate, Inspect, Takeover, Recreate, Release
  <2>2. lock' \in Windows \cup {"free", "left", "stale"}
    BY <1>0, <1>1 DEF TryCreate, Inspect, Takeover, Recreate, Release
  <2> QED BY <1>0, <2>1, <2>2 DEF OtherType
<1>2. ASSUME NEW w \in Windows, BeginPut(w) PROVE OtherType'
  <2>1. puts' = puts + 1 /\ puts' \in 0..MaxPuts /\ UNCHANGED <<lock, opens, faults, history>>
    BY <1>2, BeginPutType DEF BeginPut
  <2>2. acked' \in [Kinds -> 0..puts']
    BY <1>0, <2>1
  <2> QED BY <1>0, <2>1, <2>2 DEF OtherType
<1>3. ASSUME NEW w \in Windows, RenameImage(w) PROVE OtherType'
  <2>1. UNCHANGED <<lock, puts, opens, faults, intruded>> /\ grace' \in [Windows -> 0..2]
    BY <1>0, <1>3 DEF RenameImage
  <2>2. acked' \in [Kinds -> 0..puts]
    <3>1. job[w].c \in Kinds
      BY <1>0, Stays, Fields DEF TypeInv
    <3> QED BY <1>0, <1>3, <1>z, <3>1 DEF RenameImage
  <2>3. firm' \in [Kinds -> BOOLEAN]
    BY <1>0, <1>3 DEF RenameImage
  <2> QED BY <1>0, <2>1, <2>2, <2>3 DEF OtherType
<1>4. ASSUME NEW w \in Windows, RenamePointer(w) PROVE OtherType'
  <2>1. UNCHANGED <<lock, puts, opens, faults, acked, firm, intruded>> /\ grace' \in [Windows -> 0..2]
    BY <1>0, <1>4 DEF RenamePointer
  <2> QED BY <1>0, <2>1 DEF OtherType
<1>5. ASSUME NEW w \in Windows, SyncImages(w) \/ SyncPointer(w) \/ PutFails(w) PROVE OtherType'
  <2>1. /\ UNCHANGED <<lock, puts, opens, acked, firm, grace, intruded>>
        /\ faults' = faults \/ Fault
    BY <1>5 DEF SyncImages, SyncPointer, PutFails
  <2> QED BY <1>0, <1>f, <2>1 DEF OtherType
<1>6. ASSUME NEW w \in Windows, Prune(w) PROVE OtherType'
  <2>1. /\ UNCHANGED <<lock, puts, opens, grace, intruded>>
        /\ faults' = faults \/ Fault
    BY <1>6 DEF Prune
  <2>2. job[w].put \in 0..puts /\ job[w].c \in Kinds
    BY <1>0, Stays, Fields DEF TypeInv
  <2>3. acked' \in [Kinds -> 0..puts]
    BY <1>0, <1>6, <2>2 DEF Prune
  <2>4. firm' \in [Kinds -> BOOLEAN]
    BY <1>0, <1>6, <2>2 DEF Prune
  <2> QED BY <1>0, <1>f, <2>1, <2>3, <2>4 DEF OtherType
<1>7. ASSUME NEW w \in Windows, Quarantine(w) \/ DropCheckpoint(w) \/ DropInvalid(w) \/ Discard(w)
      PROVE  OtherType'
  <2>1. UNCHANGED <<lock, puts, opens, faults, firm, intruded>>
    BY <1>7 DEF Quarantine, DropCheckpoint, DropInvalid, Discard
  <2>2. grace' \in [Windows -> 0..2]
    BY <1>0, <1>7 DEF Quarantine, DropCheckpoint, DropInvalid, Discard, Forgotten
  <2>3. acked' \in [Kinds -> 0..puts]
    <3>1. job[w].c \in Kinds
      BY <1>0, Stays, Fields DEF TypeInv
    <3> QED BY <1>0, <1>7, <1>z, <3>1 DEF Quarantine, DropCheckpoint, DropInvalid, Discard, Forgotten
  <2> QED BY <1>0, <2>1, <2>2, <2>3 DEF OtherType
<1>8. ASSUME NEW w \in Windows,
             Load(w) \/ LoadImage(w) \/ DiscardCache(w) \/ Resume(w) \/ ResumeImage(w)
             \/ StartBuild(w) \/ SaveCheckpoint(w) \/ Commit(w) \/ Edit(w) \/ Save(w)
      PROVE  OtherType'
  <2>1. UNCHANGED <<lock, puts, opens, acked, firm, intruded>> /\ (faults' = faults \/ Fault)
    BY <1>8 DEF Load, LoadImage, DiscardCache, Resume, ResumeImage, StartBuild, SaveCheckpoint,
                Commit, Edit, Save
  <2>2. grace' \in [Windows -> 0..2]
    BY <1>0, <1>8 DEF Load, LoadImage, DiscardCache, Resume, ResumeImage, StartBuild, SaveCheckpoint,
                      Commit, Edit, Save
  <2> QED BY <1>0, <1>f, <2>1, <2>2 DEF OtherType
<1>9. ASSUME NEW w \in Windows, Open(w) PROVE OtherType'
  <2>1. UNCHANGED <<lock, puts, faults, acked, firm, grace, intruded>> /\ opens' \in 0..MaxOpens
    BY <1>0, <1>9, SlotFacts DEF Open
  <2> QED BY <1>0, <2>1 DEF OtherType
<1>10. ASSUME NEW w \in Windows, Unlink(w) PROVE OtherType'
  BY <1>0, <1>10, <1>z DEF Unlink, Voided, OtherType
<1>11. ASSUME NEW w \in Windows, Close(w) \/ Kill(w) PROVE OtherType'
  <2>1. /\ UNCHANGED <<puts, opens, acked, firm, intruded>> /\ Gone({w})
        /\ faults' = faults \/ Fault
    BY <1>11 DEF Close, Kill
  <2> QED BY <1>0, <1>f, <1>g, <2>1 DEF OtherType
<1>12. CASE Age \/ PowerLoss
  <2>1. CASE Age
    BY <1>0, <2>1 DEF Age, OtherType
  <2>2. CASE PowerLoss
    <3>1. UNCHANGED <<puts, opens, firm, intruded>> /\ Gone(Windows) /\ Fault
      BY <2>2 DEF PowerLoss
    <3>2. acked' \in [Kinds -> 0..puts]
      BY <1>0, <2>2 DEF PowerLoss
    <3> QED BY <1>0, <1>f, <1>g, <3>1, <3>2 DEF OtherType
  <2> QED BY <1>12, <2>1, <2>2
<1>13. ASSUME NEW c \in Kinds, Damage(c) PROVE OtherType'
  <2>1. /\ UNCHANGED <<lock, puts, opens, firm, intruded>> /\ Fault
        /\ acked' = [acked EXCEPT ![c] = 0]
    BY <1>13 DEF Damage, Voided
  <2>2. grace' \in [Windows -> 0..2]
    BY <1>0, <1>13 DEF Damage
  <2> QED BY <1>0, <1>f, <1>z, <2>1, <2>2 DEF OtherType
<1> QED BY <1>1, <1>2, <1>3, <1>4, <1>5, <1>6, <1>7, <1>8, <1>9, <1>10, <1>11, <1>12, <1>13 DEF Next


\* Every step keeps the types.
LEMMA NextType == TypeInv /\ [Next]_vars => TypeInv'
<1> SUFFICES ASSUME TypeInv, [Next]_vars PROVE TypeInv'
  OBVIOUS
<1>0. DiskType /\ WindowType /\ OtherType /\ Reserved
  BY DEF TypeInv
<1>1. ASSUME puts' = puts, UNCHANGED disk PROVE DiskType'
  BY <1>0, <1>1, TypesStay DEF DiskType, disk
<1>2. CASE UNCHANGED vars
  <2>1. UNCHANGED <<disk, lock, at, job, seen, session, puts, opens, faults, acked, firm, grace, intruded>>
    BY <1>2 DEF vars, windows, counters, history
  <2>2. Pointers' = Pointers /\ Jobs' = Jobs /\ Sessions' = Sessions
    BY <2>1, TypesStay
  <2>3. WindowType'
    BY <1>0, <2>1, <2>2 DEF WindowType
  <2>4. OtherType'
    BY <1>0, <2>1 DEF OtherType
  <2>5. Reserved'
    BY <2>1, ReservedStays
  <2> QED BY <1>1, <2>1, <2>3, <2>4, <2>5 DEF TypeInv
<1>3. ASSUME NEW w \in Windows, BeginPut(w) PROVE DiskType' /\ WindowType' /\ Reserved'
  <2>1. UNCHANGED disk /\ Pointers \subseteq Pointers'
    <3>1. puts \in Nat /\ puts' = puts + 1 /\ UNCHANGED disk
      BY <1>0, <1>3, SlotFacts DEF BeginPut, OtherType
    <3>2. puts' \in Nat /\ puts <= puts'
      BY <3>1
    <3> QED BY <3>1, <3>2, TypesGrow
  <2>2. DiskType'
    BY <1>0, <2>1 DEF DiskType, disk
  <2> QED BY <1>3, <2>2, BeginPutType, BeginReserved
<1>4. ASSUME NEW w \in Windows,
             \/ TryCreate(w) \/ Inspect(w) \/ Takeover(w) \/ Recreate(w) \/ Release(w)
             \/ RenameImage(w) \/ SyncImages(w) \/ RenamePointer(w) \/ SyncPointer(w)
             \/ Prune(w) \/ PutFails(w)
             \/ Quarantine(w) \/ DropCheckpoint(w) \/ DropInvalid(w) \/ Discard(w)
      PROVE  DiskType' /\ WindowType' /\ Reserved'
  <2>1. WindowType' /\ puts' = puts /\ Reserved'
    BY <1>4, LockWindows, LockReserved
  <2>2. CASE TryCreate(w) \/ Inspect(w) \/ Takeover(w) \/ Recreate(w) \/ Release(w) \/ PutFails(w)
    BY <1>1, <2>1, <2>2 DEF TryCreate, Inspect, Takeover, Recreate, Release, PutFails
  <2> QED BY <1>4, <2>1, <2>2, DiskSteps
<1>5. ASSUME NEW w \in Windows,
             \/ Open(w) \/ Load(w) \/ Unlink(w) \/ LoadImage(w) \/ DiscardCache(w)
             \/ Resume(w) \/ ResumeImage(w) \/ StartBuild(w)
             \/ Commit(w) \/ Edit(w) \/ Close(w) \/ Kill(w) \/ SaveCheckpoint(w) \/ Save(w)
      PROVE  DiskType' /\ WindowType' /\ Reserved'
  <2>1. WindowType' /\ puts' = puts /\ Reserved'
    BY <1>5, OpenWindows, OpenReserved, SaveReserved
  <2>2. CASE Unlink(w)
    BY <2>1, <2>2, DiskSteps
  <2>3. CASE ~Unlink(w)
    <3>1. UNCHANGED disk
      BY <1>5, <2>3 DEF Open, Load, LoadImage, DiscardCache, Resume, ResumeImage, StartBuild,
                        Commit, Edit, Close, Kill, SaveCheckpoint, Save
    <3> QED BY <1>1, <2>1, <3>1
  <2> QED BY <2>2, <2>3
<1>6. CASE Age
  <2>1. UNCHANGED <<disk, at, job, seen, session, puts>>
    BY <1>6 DEF Age, windows, counters
  <2>2. Pointers' = Pointers /\ Jobs' = Jobs /\ Sessions' = Sessions
    BY <2>1, TypesStay
  <2>3. WindowType'
    BY <1>0, <2>1, <2>2 DEF WindowType
  <2>4. Reserved'
    BY <2>1, ReservedStays
  <2> QED BY <1>1, <1>6, <2>1, <2>3, <2>4, OtherSteps DEF TypeInv, Next
<1>7. CASE PowerLoss
  <2>1. DiskType' /\ puts' = puts /\ Gone(Windows)
    BY <1>7, FaultDisk DEF PowerLoss
  <2>2. WindowType'
    BY <2>1, GoneType
  <2>3. \A v \in Windows : job'[v].op # "put"
    BY <2>1 DEF Gone, NoJob, Job
  <2>4. Reserved'
    BY <2>1, <2>3, ReservedStays
  <2> QED BY <1>7, <2>1, <2>2, <2>4, OtherSteps DEF TypeInv, Next
<1>8. ASSUME NEW c \in Kinds, Damage(c) PROVE TypeInv'
  <2>1. DiskType' /\ puts' = puts /\ Voided(c) /\ UNCHANGED <<at, seen, session>>
    BY <1>8, FaultDisk DEF Damage
  <2>2. Pointers' = Pointers /\ Jobs' = Jobs /\ Sessions' = Sessions
    BY <2>1, TypesStay
  <2>3. /\ job' \in [Windows -> Jobs']
        /\ \A v \in Windows : /\ job'[v].op = job[v].op /\ job'[v].put = job[v].put
                              /\ job'[v].after = job[v].after
    BY <1>0, <2>1, VoidedJobs
  <2>4. WindowType'
    BY <1>0, <2>1, <2>2, <2>3 DEF WindowType
  <2>5. Reserved'
    BY <2>1, <2>3, ReservedStays
  <2> QED BY <1>8, <2>1, <2>4, <2>5, OtherSteps DEF TypeInv, Next
<1>9. ASSUME NEW w \in Windows, Next, DiskType' /\ WindowType' /\ Reserved' PROVE TypeInv'
  BY <1>9, OtherSteps DEF TypeInv
<1> QED BY <1>2, <1>3, <1>4, <1>5, <1>6, <1>7, <1>8, <1>9 DEF Next

\* Type correctness, for every number of windows, saves, identifiers, sessions and
\* faults: what the cache's files, its lock and its windows may be.
THEOREM TypeCorrect == Spec => []TypeOK
<1>1. TypeInv => TypeOK
  <2> SUFFICES ASSUME TypeInv PROVE TypeOK
    OBVIOUS
  <2>1. /\ puts \in 0..MaxPuts /\ opens \in 0..MaxOpens /\ faults \in 0..MaxFaults
        /\ lock \in Windows \cup {"free", "left", "stale"}
    BY DEF TypeInv, OtherType
  <2>2. \A c \in Kinds : /\ ptr[c] \in durPtr[c] /\ acked[c] \in 0..puts
                         /\ \A s \in Slots : {image[c][s], synced[c][s]} \subseteq 0..Damaged
    BY DEF TypeInv, OtherType, DiskType
  <2>3. \A w \in Windows : grace[w] \in 0..2 /\ session[w].active \in 0..MaxNames
    BY <2>1, Fields, Stays DEF TypeInv, OtherType
  <2> QED BY <2>1, <2>2, <2>3, SlotFacts DEF TypeOK
<1> QED BY <1>1, InitType, NextType, PTL DEF Spec


-----------------------------------------------------------------------------
(* Mutual exclusion                                                        *)

\* A lock that is free, left behind or stale is nobody's.
LEMMA Unowned == \A v \in Windows : v # "free" /\ v # "left" /\ v # "stale"
OBVIOUS

\* While no takeover removes the lock of a live writer, there is one writer at a time.
LEMMA NextExclusive ==
    ASSUME TypeInv, ~intruded => Exclusive, [Next]_vars, ~intruded'
    PROVE  ~intruded /\ Exclusive'
<1>0. /\ at \in [Windows -> Places] /\ job \in [Windows -> Jobs]
      /\ \A v \in Windows : job[v].after \notin Critical
  <2>1. \A v \in Windows : job[v].after \in After
    BY Stays, Fields DEF TypeInv, OtherType
  <2>2. After \cap Critical = {}
    BY DEF After, Working, Critical, Writing
  <2> QED BY <2>1, <2>2 DEF TypeInv, WindowType
<1> USE DEF history
<1>1. ~intruded
  <2>1. CASE UNCHANGED vars \/ Age \/ PowerLoss \/ \E c \in Kinds : Damage(c)
    BY <2>1 DEF vars, Age, PowerLoss, Damage
  <2>2. ASSUME NEW w \in Windows, \/ TryCreate(w) \/ Inspect(w) \/ Takeover(w) \/ Recreate(w)
                                  \/ Release(w) \/ BeginPut(w) \/ RenameImage(w) \/ SyncImages(w)
        PROVE  ~intruded
    BY <2>2 DEF TryCreate, Inspect, Takeover, Recreate, Release, BeginPut, RenameImage, SyncImages
  <2>3. ASSUME NEW w \in Windows, \/ RenamePointer(w) \/ SyncPointer(w) \/ Prune(w) \/ PutFails(w)
                                  \/ Quarantine(w) \/ DropCheckpoint(w) \/ DropInvalid(w)
                                  \/ Discard(w)
        PROVE  ~intruded
    BY <2>3 DEF RenamePointer, SyncPointer, Prune, PutFails, Quarantine, DropCheckpoint,
                DropInvalid, Discard
  <2>4. ASSUME NEW w \in Windows, \/ Open(w) \/ Load(w) \/ Unlink(w) \/ LoadImage(w)
                                  \/ DiscardCache(w) \/ Resume(w) \/ ResumeImage(w)
        PROVE  ~intruded
    BY <2>4 DEF Open, Load, Unlink, LoadImage, DiscardCache, Resume, ResumeImage
  <2>5. ASSUME NEW w \in Windows, \/ StartBuild(w) \/ SaveCheckpoint(w) \/ Commit(w) \/ Edit(w)
                                  \/ Save(w) \/ Close(w) \/ Kill(w)
        PROVE  ~intruded
    BY <2>5 DEF StartBuild, SaveCheckpoint, Commit, Edit, Save, Close, Kill
  <2> QED BY <2>1, <2>2, <2>3, <2>4, <2>5 DEF Next
<1>2. Exclusive
  BY <1>1
<1>q. ASSUME UNCHANGED lock, \A v \in Windows : at'[v] \in Critical => at[v] \in Critical
      PROVE  Exclusive'
  BY <1>2, <1>q DEF Exclusive
<1> USE DEF Goto, Critical, Writing
<1>3. CASE UNCHANGED vars
  BY <1>q, <1>3 DEF vars, windows
<1>4. ASSUME NEW w \in Windows, TryCreate(w) \/ Recreate(w) PROVE Exclusive'
  <2>1. CASE lock = "free" /\ lock' = w /\ at' = [at EXCEPT ![w] = "held"]
    BY <1>0, <1>2, <2>1, Unowned DEF Exclusive
  <2>2. CASE UNCHANGED lock /\ at' = [at EXCEPT ![w] = "inspect"]
    BY <1>0, <1>q, <2>2
  <2>3. CASE UNCHANGED lock /\ Leave(w)
    BY <1>0, <1>q, <2>3 DEF Leave
  <2> QED BY <1>4, <2>1, <2>2, <2>3 DEF TryCreate, Recreate
<1>5. ASSUME NEW w \in Windows, Takeover(w) PROVE Exclusive'
  <2>1. lock \notin Windows /\ at' = [at EXCEPT ![w] = "recreate"]
    BY <1>5 DEF Takeover
  <2> QED BY <1>0, <1>2, <2>1 DEF Exclusive
<1>6. ASSUME NEW w \in Windows, Inspect(w) PROVE Exclusive'
  BY <1>0, <1>q, <1>6 DEF Inspect, Leave
<1>7. ASSUME NEW w \in Windows, Release(w) PROVE Exclusive'
  <2>1. lock = w /\ at' = [at EXCEPT ![w] = job[w].after]
    BY <1>2, <1>7 DEF Release, Leave, Exclusive
  <2> QED BY <1>0, <1>2, <2>1 DEF Exclusive
<1>8. ASSUME NEW w \in Windows,
             \/ BeginPut(w) \/ RenameImage(w) \/ SyncImages(w) \/ RenamePointer(w) \/ SyncPointer(w)
             \/ Prune(w) \/ PutFails(w)
      PROVE  Exclusive'
  <2>1. UNCHANGED lock /\ at[w] \in Critical /\ \E place \in Critical : at' = [at EXCEPT ![w] = place]
    BY <1>8 DEF BeginPut, RenameImage, SyncImages, RenamePointer, SyncPointer, Prune, PutFails, Putting
  <2> QED BY <1>0, <1>q, <2>1
<1>9. ASSUME NEW w \in Windows, Quarantine(w) \/ DropCheckpoint(w) \/ DropInvalid(w) \/ Discard(w)
      PROVE  Exclusive'
  <2>1. UNCHANGED lock /\ at[w] \in Critical /\ at' = [at EXCEPT ![w] = "release"]
    BY <1>9 DEF Quarantine, DropCheckpoint, DropInvalid, Discard
  <2> QED BY <1>0, <1>q, <2>1
<1>10. ASSUME NEW w \in Windows,
              \/ Open(w) \/ Load(w) \/ Unlink(w) \/ LoadImage(w) \/ DiscardCache(w)
              \/ Resume(w) \/ ResumeImage(w) \/ StartBuild(w)
              \/ Commit(w) \/ Edit(w) \/ SaveCheckpoint(w) \/ Save(w)
       PROVE  Exclusive'
  <2>1. UNCHANGED lock /\ (at' = at \/ \E place : at' = [at EXCEPT ![w] = place] /\ place \notin Critical)
    <3>1. ptr["complete"].state \in {"none", "corrupt", "foreign", "valid"}
      BY Fields DEF TypeInv, DiskType, OtherType, Kinds
    <3>2. CASE Load(w) \/ LoadImage(w)
      BY <3>1, <3>2 DEF Load, LoadImage, Want, Restored
    <3>3. CASE Resume(w) \/ ResumeImage(w)
      <4>1. UNCHANGED lock
        BY <3>3 DEF Resume, ResumeImage
      <4>2. PICK place \in {"lock", "start", "resumeImage", "build"} : at' = [at EXCEPT ![w] = place]
        <5>1. CASE Resume(w)
          BY <5>1 DEF Resume, Want
        <5>2. CASE ResumeImage(w)
          BY <5>2 DEF ResumeImage, Want, Resumed
        <5> QED BY <3>3, <5>1, <5>2
      <4>3. place \notin Critical
        BY <4>2
      <4> QED BY <4>1, <4>2, <4>3
    <3>4. CASE Open(w) \/ Unlink(w) \/ DiscardCache(w) \/ StartBuild(w)
      BY <3>4 DEF Open, Unlink, DiscardCache, StartBuild, Want
    <3>5. CASE Commit(w) \/ Edit(w) \/ SaveCheckpoint(w) \/ Save(w)
      BY <3>5 DEF Commit, Edit, SaveCheckpoint, Save, Want
    <3> QED BY <1>10, <3>2, <3>3, <3>4, <3>5
  <2> QED BY <1>0, <1>q, <2>1
<1>11. ASSUME NEW ws \in SUBSET Windows, Gone(ws) PROVE Exclusive'
  <2>1. \A v \in Windows : at'[v] \in Critical => v \notin ws /\ at[v] \in Critical
    BY <1>11 DEF Gone
  <2> QED BY <1>2, <1>11, <2>1 DEF Gone, Exclusive
<1>12. ASSUME NEW w \in Windows, Close(w) \/ Kill(w) PROVE Exclusive'
  BY <1>11, <1>12 DEF Close, Kill
<1>13. CASE Age
  BY <1>2, <1>13, Unowned DEF Age, windows, Exclusive
<1>14. CASE PowerLoss
  BY <1>11, <1>14 DEF PowerLoss
<1>15. ASSUME NEW c \in Kinds, Damage(c) PROVE Exclusive'
  BY <1>q, <1>15 DEF Damage
<1> QED BY <1>1, <1>3, <1>4, <1>5, <1>6, <1>7, <1>8, <1>9, <1>10, <1>12, <1>13, <1>14, <1>15 DEF Next


-----------------------------------------------------------------------------
(* What a put and a load rely on                                           *)

\* The files that pointers, puts and loads name.
LEMMA Files ==
    ASSUME TypeInv
    PROVE  /\ \A c \in Kinds, p \in Pointers : p.state = "valid" => File(c, p) \in Slots
           /\ \A w \in Windows : at[w] \in Writing /\ job[w].op = "put" =>
                 /\ File(job[w].c, job[w]) \in Slots
                 /\ job[w].put \in 1..MaxPuts /\ job[w].name \in 1..MaxNames
           /\ \A w \in Windows : at[w] = "image" => seen[w].name \in Slots
           /\ \A w \in Windows : job[w].c \in Kinds
           /\ \A c \in Kinds : /\ ptr[c] \in Pointers /\ ptr[c] \in durPtr[c]
                               /\ durPtr[c] \subseteq Pointers
                               /\ ptr[c].put \in 0..puts
           /\ puts \in Nat
<1>1. puts \in 0..MaxPuts /\ puts \in Nat
  BY SlotFacts DEF TypeInv, OtherType
<1>2. \A c \in Kinds, p \in Pointers : p.state = "valid" => File(c, p) \in Slots
  BY <1>1, Fields, FileIsSlot
<1>3. ASSUME NEW w \in Windows, at[w] \in Writing, job[w].op = "put"
      PROVE  /\ File(job[w].c, job[w]) \in Slots
             /\ job[w].put \in 1..MaxPuts /\ job[w].name \in 1..MaxNames
  <2>1. job[w].put \in 0..puts /\ job[w].name \in 1..MaxNames /\ job[w].put # 0 /\ job[w].c \in Kinds
    BY <1>1, <1>3, Stays, Fields DEF TypeInv, Reserved
  <2>2. job[w].put \in 1..MaxPuts
    BY <1>1, <2>1, SlotFacts
  <2> QED BY <1>1, <2>1, <2>2, FileIsSlot
<1>4. \A w \in Windows : at[w] = "image" => seen[w].name \in Slots
  BY <1>1, Stays, Fields, SlotFacts DEF TypeInv
<1>5. \A w \in Windows : job[w].c \in Kinds
  BY <1>1, Stays, Fields DEF TypeInv
<1>6. \A c \in Kinds : /\ ptr[c] \in Pointers /\ ptr[c] \in durPtr[c] /\ durPtr[c] \subseteq Pointers
                       /\ ptr[c].put \in 0..puts
  BY <1>1, Fields DEF TypeInv, DiskType
<1> QED BY <1>1, <1>2, <1>3, <1>4, <1>5, <1>6

\* A step that leaves the disk and the promises alone, and moves no window within a
\* put or into the reading of an image.
LEMMA QuietSafe ==
    ASSUME Safe, UNCHANGED <<disk, puts, acked, firm>>,
           \A v \in Windows : at'[v] \in Writing => at'[v] = at[v] /\ job'[v] = job[v],
           \A v \in Windows : at'[v] = "image" => /\ at[v] = "image" /\ seen'[v] = seen[v]
                                                  /\ grace'[v] = grace[v]
    PROVE  Safe'
<1>1. UNCHANGED <<syncs, ptr, durPtr, image, synced, puts, acked, firm>>
  BY DEF disk
<1>2. PutInv'
  <2> SUFFICES ASSUME NEW v \in Windows, at'[v] \in Writing, job'[v].op = "put"
               PROVE  /\ job'[v].put = puts'
                      /\ at'[v] \in {"write", "renamed", "synced"} => BeforeCommit(v)'
                      /\ at'[v] \in {"committed", "prune"} /\ ptr'[job'[v].c].state = "valid"
                            => ptr'[job'[v].c].name = job'[v].name
                      /\ job'[v].intact => Sound(v)'
    BY DEF PutInv
  <2>1. at'[v] = at[v] /\ job'[v] = job[v]
    OBVIOUS
  <2>2. (BeforeCommit(v)' <=> BeforeCommit(v)) /\ (Sound(v)' <=> Sound(v))
    BY <1>1, <2>1 DEF BeforeCommit, Sound, Committed, Pointer, File
  <2> QED BY <1>1, <2>1, <2>2 DEF Safe, PutInv
<1>3. Promise'
  BY <1>1 DEF Safe, Promise, Promised, Durable, File
<1>4. ReaderInv'
  BY <1>1 DEF Safe, ReaderInv
<1> QED BY <1>2, <1>3, <1>4 DEF Safe

\* One writer at a time.
LEMMA OneWriter ==
    ASSUME Exclusive, NEW w \in Windows, at[w] \in Critical
    PROVE  \A v \in Windows \ {w} : at[v] \notin Critical
BY DEF Exclusive

\* A put begins: its predecessor is the generation the pointer names.
LEMMA BeginPutSafe ==
    ASSUME TypeInv, Exclusive, Safe, NEW w \in Windows, BeginPut(w)
    PROVE  Safe'
<1> DEFINE c == job[w].c
           before == IF ptr[c].name # job[w].name THEN ptr[c].name ELSE 0
           j == [job[w] EXCEPT !.put = puts', !.prev = before]
<1>1. /\ at[w] = "held" /\ at' = [at EXCEPT ![w] = "write"] /\ puts' = puts + 1
      /\ UNCHANGED <<syncs, ptr, durPtr, image, synced, acked, firm, seen, grace>>
      /\ at \in [Windows -> Places] /\ job \in [Windows -> Jobs] /\ job[w] \in Jobs
  BY DEF BeginPut, Putting, Goto, disk, history, TypeInv, WindowType
<1>2. job' = [job EXCEPT ![w] = j]
  BY BeginPutType
<1>3. \A v \in Windows \ {w} : at'[v] \notin Critical
  BY <1>1, OneWriter DEF Critical
<1>4. j.put = puts' /\ j.prev = before /\ j.c = c /\ j.name = job[w].name
  BY <1>1 DEF Jobs
<1>5. job'[w] = j /\ at'[w] = "write"
  BY <1>1, <1>2
<1> HIDE DEF j
<1>6. PutInv'
  <2>1. ptr[c].put < puts'
    BY <1>1, Files
  <2>2. BeforeCommit(w)'
    BY <1>1, <1>4, <1>5, <2>1 DEF BeforeCommit
  <2>3. Sound(w)'
    BY <1>5 DEF Sound
  <2>4. job'[w].put = puts'
    BY <1>4, <1>5
  <2> HIDE DEF c, before
  <2> QED BY <1>3, <1>5, <2>2, <2>3, <2>4 DEF PutInv, Critical
<1>7. Promise'
  BY <1>1 DEF Safe, Promise, Promised, Durable, File
<1>8. ReaderInv'
  BY <1>1 DEF Safe, ReaderInv
<1> QED BY <1>6, <1>7, <1>8 DEF Safe


-----------------------------------------------------------------------------
(* The steps of a put                                                      *)

\* The image is in place.  Where the pointer names this file the promise ends, and where
\* a power loss may bring back one that does, it ends with a power loss; loads that read a pointer to it are excused.
LEMMA RenameImageSafe ==
    ASSUME TypeInv, Exclusive, Safe, NEW w \in Windows, RenameImage(w)
    PROVE  Safe'
<1> DEFINE c == job[w].c
           s == File(c, job[w])
           Names(p) == p.state = "valid" /\ File(c, p) = s
<1>1. /\ at[w] = "write" /\ job[w].op = "put" /\ at' = [at EXCEPT ![w] = "renamed"]
      /\ image' = [image EXCEPT ![c][s] = job[w].put]
      /\ UNCHANGED <<syncs, ptr, durPtr, synced, job, seen, puts>>
      /\ at \in [Windows -> Places] /\ image \in [Kinds -> [Slots -> 0..Damaged]]
      /\ acked' = [acked EXCEPT ![c] = IF Names(ptr[c]) THEN 0 ELSE acked[c]]
      /\ firm' = [firm EXCEPT ![c] = firm[c] /\ \A p \in durPtr[c] : ~Names(p)]
      /\ firm \in [Kinds -> BOOLEAN]
      /\ grace' = [v \in Windows |-> IF c = "complete" /\ seen[v].name = s THEN 2 ELSE grace[v]]
      /\ acked \in [Kinds -> 0..puts]
  BY DEF RenameImage, Putting, Goto, counters, TypeInv, WindowType, DiskType, OtherType
<1>2. s \in Slots /\ c \in Kinds /\ job[w].put \in Nat /\ at[w] \in Writing
  BY <1>1, Files DEF Writing
<1>3. \A k \in Kinds, t \in Slots : image'[k][t] = IF k = c /\ t = s THEN job[w].put ELSE image[k][t]
  BY <1>1, <1>2
<1>4. at'[w] = "renamed" /\ \A v \in Windows \ {w} : at'[v] = at[v] /\ at'[v] \notin Critical
  BY <1>1, OneWriter DEF Critical, Writing
<1>5. PutInv'
  <2>1. job[w].put = puts /\ BeforeCommit(w)
    BY <1>1, <1>2 DEF Safe, PutInv
  <2>2. BeforeCommit(w)'
    <3>1. image'[c][s] = job[w].put /\ job[w].put >= job[w].put
      BY <1>2, <1>3
    <3> QED BY <1>1, <1>4, <2>1, <3>1 DEF BeforeCommit, File
  <2>3. Sound(w)'
    BY <1>1, <1>2, <1>3, <1>4 DEF Sound, File
  <2> QED BY <1>1, <1>4, <2>1, <2>2, <2>3 DEF PutInv, Critical, Writing
<1>6. Promise'
  <2> SUFFICES ASSUME NEW k \in Kinds, acked'[k] # 0, NEW p \in Promised(k)'
               PROVE  Durable(k, p)'
    BY DEF Promise
  <2>1. acked'[k] = acked[k] /\ acked[k] # 0 /\ (k = c => ~Names(ptr[c]))
    BY <1>1, <1>2
  <2>2. (firm'[k] => firm[k]) /\ (k = c /\ firm'[c] => \A q \in durPtr[c] : ~Names(q))
    BY <1>1, <1>2
  <2>3. p \in Promised(k) /\ p \in Pointers
    BY <1>1, <2>2, Files DEF Promised
  <2>4. Durable(k, p)
    BY <2>1, <2>3 DEF Safe, Promise
  <2>5. File(k, p) \in Slots
    BY <2>3, <2>4, Files DEF Durable
  <2>6. ~(k = c /\ File(k, p) = s)
    BY <1>1, <2>1, <2>2, <2>4 DEF Durable, Promised
  <2>7. image'[k][File(k, p)] = image[k][File(k, p)]
    BY <1>3, <2>5, <2>6
  <2> QED BY <1>1, <2>1, <2>2, <2>4, <2>7 DEF Durable, File
<1>7. ReaderInv'
  <2> SUFFICES ASSUME Retained > 1, NEW v \in Windows, at'[v] = "image", grace'[v] < 2
               PROVE  /\ image'["complete"][seen[v].name] = seen[v].put
                      /\ grace'[v] = 0 => seen[v] = ptr["complete"]
                      /\ grace'[v] = 1 => seen[v].name = ptr["complete"].prev
    BY <1>1 DEF ReaderInv
  <2>1. at[v] = "image" /\ grace'[v] = grace[v] /\ ~(c = "complete" /\ seen[v].name = s)
    BY <1>1, <1>4
  <2>2. seen[v].name \in Slots
    BY <2>1, Files
  <2>3. image'["complete"][seen[v].name] = image["complete"][seen[v].name]
    BY <1>3, <2>1, <2>2 DEF Kinds
  <2> QED BY <2>1, <2>3 DEF Safe, ReaderInv
<1> QED BY <1>5, <1>6, <1>7 DEF Safe

\* The images are on disk.
LEMMA SyncImagesSafe ==
    ASSUME TypeInv, Exclusive, Safe, NEW w \in Windows, SyncImages(w)
    PROVE  Safe'
<1> DEFINE c == job[w].c
<1>1. /\ at[w] = "renamed" /\ job[w].op = "put" /\ at' = [at EXCEPT ![w] = "synced"]
      /\ synced' = IF syncs THEN [synced EXCEPT ![c] = image[c]] ELSE synced
      /\ UNCHANGED <<syncs, ptr, durPtr, image, job, seen, puts, acked, firm, grace>>
      /\ at \in [Windows -> Places] /\ synced \in [Kinds -> [Slots -> 0..Damaged]]
  BY DEF SyncImages, Putting, Goto, counters, history, TypeInv, WindowType, DiskType
<1>2. c \in Kinds /\ at[w] \in Writing
  BY <1>1, Files DEF Writing
<1>3. \A k \in Kinds : synced'[k] = IF syncs /\ k = c THEN image[k] ELSE synced[k]
  BY <1>1, <1>2
<1>4. at'[w] = "synced" /\ \A v \in Windows \ {w} : at'[v] = at[v] /\ at'[v] \notin Critical
  BY <1>1, OneWriter DEF Critical, Writing
<1>5. PutInv'
  <2>1. job[w].put = puts /\ BeforeCommit(w) /\ (job[w].intact => Sound(w))
    BY <1>1, <1>2 DEF Safe, PutInv
  <2>0. acked[c] # 0 /\ firm[c] => syncs
    BY <1>2, Files DEF Safe, Promise, Promised, Durable
  <2>2. BeforeCommit(w)'
    BY <1>1, <1>2, <1>3, <1>4, <2>0, <2>1 DEF BeforeCommit, File
  <2>3. job[w].intact => Sound(w)'
    BY <1>1, <1>2, <1>3, <1>4, <2>1 DEF Sound, File
  <2> QED BY <1>1, <1>4, <2>1, <2>2, <2>3 DEF PutInv, Critical, Writing
<1>6. Promise'
  <2> SUFFICES ASSUME NEW k \in Kinds, acked[k] # 0, NEW p \in Promised(k)
               PROVE  Durable(k, p)'
    BY <1>1 DEF Promise, Promised
  <2>1. Durable(k, p)
    BY DEF Safe, Promise
  <2> QED BY <1>1, <1>3, <2>1 DEF Durable, File
<1>7. ReaderInv'
  BY <1>1, <1>4 DEF Safe, ReaderInv
<1> QED BY <1>5, <1>6, <1>7 DEF Safe

\* The commit: loads that have read the pointer it replaces find themselves named as
\* its predecessor, unless the put took their file.
LEMMA RenamePointerSafe ==
    ASSUME TypeInv, Exclusive, Safe, NEW w \in Windows, RenamePointer(w)
    PROVE  Safe'
<1> DEFINE c == job[w].c
           s == File(c, job[w])
           p == Committed(w)
<1>1. /\ at[w] = "synced" /\ job[w].op = "put" /\ at' = [at EXCEPT ![w] = "committed"]
      /\ ptr' = [ptr EXCEPT ![c] = p] /\ durPtr' = [durPtr EXCEPT ![c] = durPtr[c] \cup {p}]
      /\ UNCHANGED <<syncs, image, synced, job, seen, puts, acked, firm>>
      /\ grace' = [v \in Windows |-> IF c = "complete" /\ grace[v] < 2 THEN grace[v] + 1
                                     ELSE grace[v]]
      /\ at \in [Windows -> Places] /\ ptr \in [Kinds -> Pointers]
      /\ durPtr \in [Kinds -> SUBSET Pointers] /\ grace \in [Windows -> 0..2]
      /\ acked \in [Kinds -> 0..puts]
  BY DEF RenamePointer, Putting, Goto, Committed, counters, TypeInv, WindowType, DiskType, OtherType
<1>2. /\ c \in Kinds /\ at[w] \in Writing /\ s \in Slots /\ job[w].put = puts /\ BeforeCommit(w)
      /\ (job[w].intact => Sound(w)) /\ job[w].put \in Nat /\ job[w].name \in 1..MaxNames
      /\ MaxNames \in Nat
  BY <1>1, Files, SlotFacts DEF Safe, PutInv, Writing
<1>3. /\ \A k \in Kinds \ {c} : ptr'[k] = ptr[k] /\ durPtr'[k] = durPtr[k]
      /\ ptr'[c] = p /\ durPtr'[c] = durPtr[c] \cup {p}
  BY <1>1, <1>2
<1>4. at'[w] = "committed" /\ \A v \in Windows \ {w} : at'[v] = at[v] /\ at'[v] \notin Critical
  BY <1>1, OneWriter DEF Critical, Writing
<1>5. /\ p.state = "valid" /\ p.put = job[w].put /\ p.name = job[w].name
      /\ p.prev = (IF c = "complete" THEN job[w].prev ELSE 0) /\ File(c, p) = s
  BY DEF Committed, Pointer, File
<1>6. PutInv'
  <2>1. Committed(w)' = p
    BY <1>1 DEF Committed
  <2>2. job[w].intact => Sound(w)'
    BY <1>1, <1>2, <1>3, <1>4, <2>1 DEF Sound, File
  <2> QED BY <1>1, <1>2, <1>3, <1>4, <1>5, <2>2 DEF PutInv, Critical, Writing
<1>7. Promise'
  <2> SUFFICES ASSUME NEW k \in Kinds, acked[k] # 0, NEW q \in Promised(k)'
               PROVE  Durable(k, q)'
    BY <1>1 DEF Promise
  <2>1. CASE q \in Promised(k)
    <3>1. Durable(k, q)
      BY <2>1 DEF Safe, Promise
    <3> QED BY <1>1, <3>1 DEF Durable, File
  <2>2. CASE q \notin Promised(k)
    <3>1. k = c /\ q = p
      BY <1>1, <1>3, <2>2 DEF Promised
    <3>2. image[c][s] = job[w].put /\ (firm[c] => syncs /\ synced[c][s] = job[w].put)
      <4>1. firm[c] => syncs
        BY <3>1, Files DEF Safe, Promise, Promised, Durable
      <4> QED BY <1>1, <1>2, <3>1, <4>1 DEF BeforeCommit
    <3>3. p.put >= acked[c]
      BY <1>1, <1>2, <1>5, Files
    <3> QED BY <1>1, <1>5, <3>1, <3>2, <3>3 DEF Durable, File
  <2> QED BY <2>1, <2>2
<1>8. ReaderInv'
  <2> SUFFICES ASSUME Retained > 1, NEW v \in Windows, at'[v] = "image", grace'[v] < 2
               PROVE  /\ image["complete"][seen[v].name] = seen[v].put
                      /\ grace'[v] = 0 => seen[v] = ptr'["complete"]
                      /\ grace'[v] = 1 => seen[v].name = ptr'["complete"].prev
    BY <1>1 DEF ReaderInv
  <2>1. at[v] = "image" /\ grace[v] \in 0..2 /\ grace'[v] = IF c = "complete" /\ grace[v] < 2 THEN grace[v] + 1
                                     ELSE grace[v]
    BY <1>1, <1>4
  <2>2. CASE c # "complete"
    BY <1>3, <2>1, <2>2 DEF Safe, ReaderInv, Kinds
  <2>3. CASE c = "complete"
    <3>1. grace[v] = 0 /\ grace'[v] = 1
      BY <2>1, <2>3
    <3>2. seen[v] = ptr[c] /\ image[c][seen[v].name] = seen[v].put
      BY <2>1, <2>3, <3>1 DEF Safe, ReaderInv
    <3>3. ptr[c].state = "valid" /\ ptr[c].put \in Nat
      BY <1>2, <2>1, <3>2, Stays, Files DEF TypeInv
    <3>4. ptr[c].put < job[w].put /\ image[c][job[w].name] >= job[w].put
      BY <1>1, <1>2, <2>3 DEF BeforeCommit, File
    <3>5. ptr[c].name # job[w].name
      BY <1>2, <3>2, <3>3, <3>4
    <3>6. job[w].prev = ptr[c].name
      BY <1>2, <2>3, <3>3, <3>5 DEF BeforeCommit
    <3> QED BY <1>3, <1>5, <2>3, <3>1, <3>2, <3>6
  <2> QED BY <2>2, <2>3
<1> QED BY <1>6, <1>7, <1>8 DEF Safe


\* The pointer is on disk, or the sync failed: a power loss may bring back fewer
\* pointers than before, or the same ones.
LEMMA SyncPointerSafe ==
    ASSUME TypeInv, Exclusive, Safe, NEW w \in Windows, SyncPointer(w)
    PROVE  Safe'
<1> DEFINE c == job[w].c
<1>1. /\ at[w] = "committed" /\ job[w].op = "put" /\ at' = [at EXCEPT ![w] = "prune"]
      /\ durPtr' = [durPtr EXCEPT ![c] = {ptr[c]}] \/ durPtr' = durPtr
      /\ UNCHANGED <<syncs, ptr, image, synced, job, seen, puts, acked, firm, grace>>
      /\ at \in [Windows -> Places] /\ durPtr \in [Kinds -> SUBSET Pointers]
  BY DEF SyncPointer, Putting, Goto, history, TypeInv, WindowType, DiskType
<1>2. /\ c \in Kinds /\ at[w] \in Writing /\ job[w].put = puts /\ (job[w].intact => Sound(w))
      /\ (ptr[c].state = "valid" => ptr[c].name = job[w].name)
  BY <1>1, Files DEF Safe, PutInv, Writing
<1>3. \A k \in Kinds : Promised(k)' \subseteq Promised(k)
  BY <1>1, <1>2, Files DEF Promised
<1>4. at'[w] = "prune" /\ \A v \in Windows \ {w} : at'[v] = at[v] /\ at'[v] \notin Critical
  BY <1>1, OneWriter DEF Critical, Writing
<1>6. PutInv'
  <2>1. ASSUME job[w].intact PROVE Sound(w)'
    BY <1>1, <1>2, <1>4, <2>1 DEF Sound, File, Committed, Pointer
  <2> QED BY <1>1, <1>2, <1>4, <2>1 DEF PutInv, Critical, Writing
<1>7. Promise'
  BY <1>1, <1>3 DEF Safe, Promise, Durable, File
<1>8. ReaderInv'
  BY <1>1, <1>4 DEF Safe, ReaderInv
<1> QED BY <1>6, <1>7, <1>8 DEF Safe

\* Retention, and the acknowledgement.
LEMMA PruneSafe ==
    ASSUME TypeInv, Exclusive, Safe, NEW w \in Windows, Prune(w)
    PROVE  Safe'
<1> DEFINE c == job[w].c
           s == File(c, job[w])
<1>1. /\ at[w] = "prune" /\ job[w].op = "put" /\ at' = [at EXCEPT ![w] = "release"]
      /\ \/ image' = [image EXCEPT ![c] = [t \in Slots |-> IF t \in Kept(c, job[w]) THEN image[c][t] ELSE 0]]
         \/ image' = image
      /\ acked' = [acked EXCEPT ![c] = IF job[w].intact THEN job[w].put ELSE 0]
      /\ firm' = [firm EXCEPT ![c] = syncs /\ job[w].intact /\ durPtr[c] = {ptr[c]}]
      /\ UNCHANGED <<syncs, ptr, durPtr, synced, job, seen, puts, grace>>
      /\ at \in [Windows -> Places] /\ acked \in [Kinds -> 0..puts] /\ firm \in [Kinds -> BOOLEAN]
      /\ image \in [Kinds -> [Slots -> 0..Damaged]]
  <2>1. \/ image' = [image EXCEPT ![c] = [t \in Slots |-> IF t \in Kept(c, job[w]) THEN image[c][t] ELSE 0]]
        \/ image' = image
    BY Files DEF Prune, TypeInv, DiskType
  <2> QED BY <2>1 DEF Prune, Putting, Goto, TypeInv, WindowType, DiskType, OtherType
<1>2. /\ c \in Kinds /\ at[w] \in Writing /\ job[w].put = puts /\ (job[w].intact => Sound(w))
      /\ (ptr[c].state = "valid" => ptr[c].name = job[w].name) /\ s \in Slots
      /\ job[w].put \in Nat
  BY <1>1, Files DEF Safe, PutInv, Writing
<1>3. \A k \in Kinds, t \in Slots : (k = c => t \in Kept(c, job[w])) => image'[k][t] = image[k][t]
  BY <1>1, <1>2
<1>4. at'[w] = "release" /\ \A v \in Windows \ {w} : at'[v] = at[v] /\ at'[v] \notin Critical
  BY <1>1, OneWriter DEF Critical, Writing
<1>5. PutInv'
  BY <1>4 DEF PutInv, Critical, Writing
<1>6. Promise'
  <2> SUFFICES ASSUME NEW k \in Kinds, acked'[k] # 0, NEW p \in Promised(k)'
               PROVE  Durable(k, p)'
    BY DEF Promise
  <2>1. CASE k # c
    <3>1. acked'[k] = acked[k] /\ image'[k] = image[k] /\ firm'[k] = firm[k]
      BY <1>1, <2>1
    <3>2. Durable(k, p)
      BY <1>1, <3>1 DEF Safe, Promise, Promised
    <3> QED BY <1>1, <3>1, <3>2 DEF Durable, File
  <2>2. CASE k = c
    <3>1. job[w].intact /\ acked'[c] = job[w].put
      BY <1>1, <1>2, <2>2
    <3>0. p = ptr[c] /\ (firm'[c] => syncs)
      BY <1>1, <1>2, <2>2 DEF Promised
    <3>2. /\ p = Committed(w) /\ ptr[c] = p /\ image[c][s] = job[w].put
          /\ firm'[c] => syncs /\ synced[c][s] = job[w].put
      BY <1>1, <1>2, <2>2, <3>0, <3>1 DEF Sound
    <3>3. /\ p.state = "valid" /\ p.put = job[w].put /\ p.name = job[w].name /\ File(c, p) = s
      BY <3>2 DEF Committed, Pointer, File
    <3>4. s \in Kept(c, job[w])
      BY <3>2, <3>3 DEF Kept, File
    <3>5. image'[c][s] = job[w].put
      BY <1>2, <1>3, <3>2, <3>4
    <3>6. p.put >= acked'[c]
      BY <1>2, <3>1, <3>3
    <3> QED BY <1>1, <2>2, <3>2, <3>3, <3>5, <3>6 DEF Durable, File
  <2> QED BY <2>1, <2>2
<1>7. ReaderInv'
  <2> SUFFICES ASSUME Retained > 1, NEW v \in Windows, at'[v] = "image", grace[v] < 2
               PROVE  /\ image'["complete"][seen[v].name] = seen[v].put
                      /\ grace[v] = 0 => seen[v] = ptr["complete"]
                      /\ grace[v] = 1 => seen[v].name = ptr["complete"].prev
    BY <1>1 DEF ReaderInv
  <2>1. /\ at[v] = "image" /\ seen[v].name \in Slots /\ seen[v].state = "valid"
    BY <1>4, Files, Stays DEF TypeInv
  <2>2. /\ image["complete"][seen[v].name] = seen[v].put
        /\ grace[v] = 0 => seen[v] = ptr["complete"]
        /\ grace[v] = 1 => seen[v].name = ptr["complete"].prev
    BY <2>1 DEF Safe, ReaderInv
  <2>3. c = "complete" => seen[v].name \in Kept(c, job[w])
    <3>1. CASE grace[v] = 0
      BY <1>2, <2>1, <2>2, <3>1 DEF Kept
    <3>2. CASE grace[v] = 1
      <4>1. seen[v].name # 0
        BY <2>1, SlotFacts
      <4> QED BY <2>2, <3>2, <4>1 DEF Kept
    <3> QED BY <3>1, <3>2 DEF TypeInv, OtherType
  <2>4. image'["complete"][seen[v].name] = image["complete"][seen[v].name]
    BY <1>3, <2>1, <2>3 DEF Kinds
  <2> QED BY <2>2, <2>4
<1> QED BY <1>5, <1>6, <1>7 DEF Safe

-----------------------------------------------------------------------------
(* Cleaning up, loading, and faults                                        *)

\* No put is under way in a window that holds the lock for something else, and so in
\* no window; what is removed is no longer promised, and loads are excused.
LEMMA CleanSafe ==
    ASSUME TypeInv, Exclusive, Safe, NEW w \in Windows,
           Quarantine(w) \/ DropCheckpoint(w) \/ DropInvalid(w) \/ Discard(w)
    PROVE  Safe'
<1>1. /\ at[w] = "held" /\ at' = [at EXCEPT ![w] = "release"] /\ UNCHANGED <<syncs, job, seen, puts, synced, firm>>
      /\ at \in [Windows -> Places] /\ acked \in [Kinds -> 0..puts] /\ job[w].c \in Kinds
      /\ ptr \in [Kinds -> Pointers] /\ durPtr \in [Kinds -> SUBSET Pointers]
      /\ image \in [Kinds -> [Slots -> 0..Damaged]]
      /\ Kinds = {"complete", "checkpoint"}
  BY Files DEF Quarantine, DropCheckpoint, DropInvalid, Discard, Goto, counters, history, TypeInv, WindowType,
               DiskType, OtherType, Kinds
<1>2. at'[w] = "release" /\ \A v \in Windows \ {w} : at'[v] = at[v] /\ at'[v] \notin Critical
  BY <1>1, OneWriter DEF Critical
<1>3. PutInv'
  BY <1>2 DEF PutInv, Critical, Writing
<1>4. \A c \in Kinds : acked[c] # 0 => ptr[c].state = "valid"
  BY Files DEF Safe, Promise, Promised, Durable
<1>5. PICK c \in Kinds :
          /\ \A k \in Kinds \ {c} : /\ ptr'[k] = ptr[k] /\ durPtr'[k] = durPtr[k]
                                    /\ image'[k] = image[k] /\ acked'[k] = acked[k]
          /\ \/ UNCHANGED <<ptr, durPtr, image, acked, grace>>
             \/ acked'[c] = 0 /\ (IF c = "complete" THEN grace' = Excused ELSE grace' = grace)
  <2>1. CASE Quarantine(w)
    <3>1. CASE StillSeen(w)
      <4>1. /\ Removed(job[w].c) /\ Forgotten(w)
            /\ image' = [image EXCEPT ![job[w].c][File(job[w].c, seen[w])] = 0]
        BY <2>1, <3>1 DEF Quarantine
      <4>2. acked'[job[w].c] = 0
        BY <1>1, <1>4, <3>1, <4>1 DEF StillSeen, Forgotten
      <4>3. \A k \in Kinds \ {job[w].c} : /\ ptr'[k] = ptr[k] /\ durPtr'[k] = durPtr[k]
                                          /\ image'[k] = image[k] /\ acked'[k] = acked[k]
        BY <1>1, <4>1 DEF Removed, Forgotten
      <4> QED BY <1>1, <4>1, <4>2, <4>3 DEF Forgotten
    <3>2. CASE ~StillSeen(w)
      BY <1>1, <2>1, <3>2 DEF Quarantine
    <3> QED BY <3>1, <3>2
  <2>2. CASE DropCheckpoint(w)
    <3>1. CASE IsCheckpoint(job[w].put)
      <4>1. /\ Removed("checkpoint") /\ Emptied("checkpoint") /\ UNCHANGED grace
            /\ acked' = [acked EXCEPT !["checkpoint"] = 0]
        BY <2>2, <3>1 DEF DropCheckpoint, IsCheckpoint
      <4>2. \A k \in Kinds \ {"checkpoint"} : /\ ptr'[k] = ptr[k] /\ durPtr'[k] = durPtr[k]
                                              /\ image'[k] = image[k] /\ acked'[k] = acked[k]
        BY <1>1, <4>1 DEF Removed, Emptied
      <4> QED BY <1>1, <4>1, <4>2
    <3>2. CASE ~IsCheckpoint(job[w].put)
      BY <1>1, <2>2, <3>2 DEF DropCheckpoint
    <3> QED BY <3>1, <3>2
  <2>3. CASE DropInvalid(w)
    <3>1. CASE ptr["checkpoint"].state = "corrupt"
      <4>1. /\ Removed("checkpoint") /\ Emptied("checkpoint") /\ UNCHANGED <<acked, grace>>
        BY <2>3, <3>1 DEF DropInvalid, history
      <4>2. acked'["checkpoint"] = 0
        BY <1>1, <1>4, <3>1, <4>1
      <4>3. \A k \in Kinds \ {"checkpoint"} : /\ ptr'[k] = ptr[k] /\ durPtr'[k] = durPtr[k]
                                              /\ image'[k] = image[k] /\ acked'[k] = acked[k]
        BY <1>1, <4>1 DEF Removed, Emptied
      <4> QED BY <1>1, <4>1, <4>2, <4>3
    <3>2. CASE ptr["checkpoint"].state # "corrupt"
      BY <1>1, <2>3, <3>2 DEF DropInvalid, history
    <3> QED BY <3>1, <3>2
  <2>4. CASE Discard(w)
    <3>1. /\ Removed("complete") /\ Emptied("complete") /\ grace' = Excused
          /\ acked' = [acked EXCEPT !["complete"] = 0]
      BY <2>4 DEF Discard
    <3>2. \A k \in Kinds \ {"complete"} : /\ ptr'[k] = ptr[k] /\ durPtr'[k] = durPtr[k]
                                          /\ image'[k] = image[k] /\ acked'[k] = acked[k]
      BY <1>1, <3>1 DEF Removed, Emptied
    <3> QED BY <1>1, <3>1, <3>2
  <2> QED BY <2>1, <2>2, <2>3, <2>4
<1>6. Promise'
  <2> SUFFICES ASSUME NEW k \in Kinds, acked'[k] # 0, NEW p \in Promised(k)'
               PROVE  Durable(k, p)'
    BY DEF Promise
  <2>1. /\ acked'[k] = acked[k] /\ durPtr'[k] = durPtr[k] /\ image'[k] = image[k]
        /\ ptr'[k] = ptr[k]
    BY <1>5
  <2>2. Durable(k, p)
    BY <1>1, <2>1 DEF Safe, Promise, Promised
  <2> QED BY <1>1, <2>1, <2>2 DEF Durable, File
<1>7. ReaderInv'
  <2> SUFFICES ASSUME Retained > 1, NEW v \in Windows, at'[v] = "image", grace'[v] < 2
               PROVE  /\ image'["complete"][seen[v].name] = seen[v].put
                      /\ grace'[v] = 0 => seen[v] = ptr'["complete"]
                      /\ grace'[v] = 1 => seen[v].name = ptr'["complete"].prev
    BY <1>1 DEF ReaderInv
  <2>1. at[v] = "image"
    BY <1>2
  <2>2. /\ grace'[v] = grace[v] /\ image'["complete"] = image["complete"]
        /\ ptr'["complete"] = ptr["complete"]
    BY <1>1, <1>5 DEF Excused
  <2> QED BY <2>1, <2>2 DEF Safe, ReaderInv
<1> QED BY <1>3, <1>6, <1>7 DEF Safe


\* A load reads the pointer; if its image is there, the load may count on it.
LEMMA LoadSafe ==
    ASSUME TypeInv, Safe, NEW w \in Windows, Load(w)
    PROVE  Safe'
<1> DEFINE p == ptr["complete"]
<1>1. /\ UNCHANGED <<syncs, ptr, durPtr, image, synced, puts, acked, firm, job>>
      /\ seen' = [seen EXCEPT ![w] = p]
      /\ grace' = [grace EXCEPT ![w] = IF Loadable("complete") THEN 0 ELSE 2]
      /\ at \in [Windows -> Places] /\ seen \in [Windows -> Pointers] /\ grace \in [Windows -> 0..2]
  BY DEF Load, disk, counters, TypeInv, WindowType, OtherType
<1>2. PICK place \in {"resume", "unlink", "image", "discard", "start"} : at' = [at EXCEPT ![w] = place]
  <2>1. p.state \in {"none", "corrupt", "foreign", "valid"}
    BY Fields DEF TypeInv, DiskType, OtherType, Kinds
  <2> QED BY <2>1 DEF Load, Goto
<1>3. \A v \in Windows : at'[v] \in Writing => at'[v] = at[v] /\ job'[v] = job[v] /\ v # w
  BY <1>1, <1>2 DEF Writing
<1>4. PutInv'
  <2> SUFFICES ASSUME NEW v \in Windows, at'[v] \in Writing, job'[v].op = "put"
               PROVE  /\ job'[v].put = puts'
                      /\ at'[v] \in {"write", "renamed", "synced"} => BeforeCommit(v)'
                      /\ at'[v] \in {"committed", "prune"} /\ ptr'[job'[v].c].state = "valid"
                            => ptr'[job'[v].c].name = job'[v].name
                      /\ job'[v].intact => Sound(v)'
    BY DEF PutInv
  <2>1. (BeforeCommit(v)' <=> BeforeCommit(v)) /\ (Sound(v)' <=> Sound(v))
    BY <1>1, <1>3 DEF BeforeCommit, Sound, Committed, Pointer, File
  <2> QED BY <1>1, <1>3, <2>1 DEF Safe, PutInv
<1>5. Promise'
  BY <1>1 DEF Safe, Promise, Promised, Durable, File
<1>6. ReaderInv'
  <2> SUFFICES ASSUME Retained > 1, NEW v \in Windows, at'[v] = "image", grace'[v] < 2
               PROVE  /\ image["complete"][seen'[v].name] = seen'[v].put
                      /\ grace'[v] = 0 => seen'[v] = ptr["complete"]
                      /\ grace'[v] = 1 => seen'[v].name = ptr["complete"].prev
    BY <1>1 DEF ReaderInv
  <2>1. CASE v = w
    <3>1. grace'[w] = 0 /\ seen'[w] = p /\ Loadable("complete")
      BY <1>1, <2>1
    <3> QED BY <2>1, <3>1 DEF Loadable, File
  <2>2. CASE v # w
    BY <1>1, <1>2, <2>2 DEF Safe, ReaderInv
  <2> QED BY <2>1, <2>2
<1> QED BY <1>4, <1>5, <1>6 DEF Safe

\* A namespace loses its promise, its puts and the claims of its loads together: what
\* happens to its pointer and images then breaks nothing, if a pointer that is not
\* removed or corrupt is as before.
LEMMA VoidedSafe ==
    ASSUME TypeInv, Safe, NEW c \in Kinds, Voided(c), UNCHANGED <<syncs, firm, puts>>,
           \A k \in Kinds \ {c} : /\ ptr'[k] = ptr[k] /\ durPtr'[k] = durPtr[k]
                                  /\ image'[k] = image[k] /\ synced'[k] = synced[k],
           ptr'[c] = ptr[c] \/ (ptr'[c].state # "valid" /\ ptr'[c].put = 0),
           \A s \in Slots : image'[c][s] = image[c][s] \/ image'[c][s] = Damaged,
           \A v \in Windows : at'[v] = at[v] \/ at'[v] = "discard", UNCHANGED seen,
           IF c = "complete" THEN grace' = Excused ELSE grace' = grace
    PROVE  Safe'
<1>1. \A v \in Windows : /\ job'[v].op = job[v].op /\ job'[v].c = job[v].c
                         /\ job'[v].put = job[v].put /\ job'[v].name = job[v].name
                         /\ job'[v].prev = job[v].prev
                         /\ job'[v].intact => job[v].intact /\ ~(job[v].op = "put" /\ job[v].c = c)
  BY VoidedJobs DEF TypeInv
<1>2. acked'[c] = 0 /\ \A k \in Kinds \ {c} : acked'[k] = acked[k]
  BY DEF Voided, TypeInv, OtherType
<1>3. PutInv'
  <2> SUFFICES ASSUME NEW v \in Windows, at'[v] \in Writing, job'[v].op = "put"
               PROVE  /\ job'[v].put = puts'
                      /\ at'[v] \in {"write", "renamed", "synced"} => BeforeCommit(v)'
                      /\ at'[v] \in {"committed", "prune"} /\ ptr'[job'[v].c].state = "valid"
                            => ptr'[job'[v].c].name = job'[v].name
                      /\ job'[v].intact => Sound(v)'
    BY DEF PutInv
  <2> DEFINE k == job[v].c
             s == File(k, job[v])
  <2>1. at'[v] = at[v] /\ job[v].op = "put"
    BY <1>1 DEF Writing
  <2>2. /\ job[v].put = puts
        /\ at[v] \in {"write", "renamed", "synced"} => BeforeCommit(v)
        /\ at[v] \in {"committed", "prune"} /\ ptr[k].state = "valid" => ptr[k].name = job[v].name
        /\ job[v].intact => Sound(v)
    BY <2>1 DEF Safe, PutInv
  <2>3. /\ k \in Kinds /\ s \in Slots /\ job[v].put \in 1..MaxPuts /\ job'[v].c = k
        /\ File(job'[v].c, job'[v]) = s /\ Damaged >= job[v].put /\ job[v].put # 0
        /\ image[k][s] \in 0..Damaged /\ Damaged \in Nat
        /\ Committed(v)' = Committed(v)
    <3>1. k \in Kinds /\ s \in Slots /\ job[v].put \in 1..MaxPuts /\ job'[v].c = k
      BY <1>1, <2>1, Files
    <3>2. File(job'[v].c, job'[v]) = s /\ Committed(v)' = Committed(v)
      BY <1>1 DEF File, Committed, Pointer
    <3>3. Damaged >= job[v].put /\ job[v].put # 0 /\ Damaged \in Nat
      BY <3>1, SlotFacts DEF Damaged
    <3> QED BY <3>1, <3>2, <3>3 DEF TypeInv, DiskType
  <2>4. CASE k # c
    <3>1. /\ ptr'[k] = ptr[k] /\ durPtr'[k] = durPtr[k] /\ image'[k] = image[k]
          /\ synced'[k] = synced[k] /\ acked'[k] = acked[k]
      BY <1>2, <2>3, <2>4
    <3>2. (BeforeCommit(v)' <=> BeforeCommit(v)) /\ (Sound(v)' <=> Sound(v))
      BY <1>1, <2>1, <2>3, <3>1 DEF BeforeCommit, Sound
    <3> QED BY <1>1, <2>1, <2>2, <2>3, <3>1, <3>2
  <2>5. CASE k = c
    <3>1. ~job'[v].intact
      BY <1>1, <2>1, <2>5
    <3>2. at[v] \in {"write", "renamed", "synced"} => BeforeCommit(v)'
      <4> SUFFICES ASSUME at[v] \in {"write", "renamed", "synced"} PROVE BeforeCommit(v)'
        OBVIOUS
      <4>1. BeforeCommit(v)
        BY <2>2
      <4>2. ptr'[k].put < job[v].put
        BY <2>3, <2>5, <4>1 DEF BeforeCommit
      <4>3. at[v] # "write" => image'[k][s] >= job[v].put
        BY <2>3, <2>5, <4>1 DEF BeforeCommit
      <4>4. k = "complete" /\ ptr'[k].state = "valid"
               => job[v].prev = IF ptr'[k].name # job[v].name THEN ptr'[k].name ELSE 0
        BY <2>5, <4>1 DEF BeforeCommit
      <4> QED BY <1>1, <1>2, <2>1, <2>3, <2>5, <4>2, <4>3, <4>4 DEF BeforeCommit
    <3>3. at[v] \in {"committed", "prune"} /\ ptr'[k].state = "valid" => ptr'[k].name = job[v].name
      BY <2>2, <2>5
    <3> QED BY <1>1, <2>1, <2>2, <2>3, <3>1, <3>2, <3>3
  <2> QED BY <2>4, <2>5
<1>4. Promise'
  <2> SUFFICES ASSUME NEW k \in Kinds, acked'[k] # 0, NEW p \in Promised(k)'
               PROVE  Durable(k, p)'
    BY DEF Promise
  <2>1. /\ k # c /\ acked'[k] = acked[k] /\ durPtr'[k] = durPtr[k] /\ image'[k] = image[k]
        /\ synced'[k] = synced[k] /\ ptr'[k] = ptr[k] /\ firm'[k] = firm[k] /\ syncs' = syncs
    BY <1>2
  <2>2. Durable(k, p)
    BY <2>1 DEF Safe, Promise, Promised
  <2> QED BY <2>1, <2>2 DEF Durable, File
<1>5. ReaderInv'
  <2> SUFFICES ASSUME Retained > 1, NEW v \in Windows, at'[v] = "image", grace'[v] < 2
               PROVE  /\ image'["complete"][seen[v].name] = seen[v].put
                      /\ grace'[v] = 0 => seen[v] = ptr'["complete"]
                      /\ grace'[v] = 1 => seen[v].name = ptr'["complete"].prev
    BY DEF ReaderInv
  <2>1. c # "complete" /\ grace'[v] = grace[v] /\ at[v] = "image"
    BY DEF Excused
  <2>2. ptr'["complete"] = ptr["complete"] /\ image'["complete"] = image["complete"]
    BY <2>1 DEF Kinds
  <2> QED BY <2>1, <2>2 DEF Safe, ReaderInv
<1> QED BY <1>3, <1>4, <1>5 DEF Safe

\* A corrupt pointer is unlinked, and damage, whatever the other windows are doing.
LEMMA UnlinkSafe ==
    ASSUME TypeInv, Safe, NEW w \in Windows, Unlink(w)
    PROVE  Safe'
<1>1. /\ Removed("complete") /\ Voided("complete") /\ grace' = Excused
      /\ UNCHANGED <<syncs, image, synced, seen, firm, puts>> /\ at' = [at EXCEPT ![w] = "discard"]
      /\ at \in [Windows -> Places] /\ ptr \in [Kinds -> Pointers]
      /\ durPtr \in [Kinds -> SUBSET Pointers] /\ "complete" \in Kinds
  BY DEF Unlink, Goto, counters, TypeInv, WindowType, DiskType, Kinds
<1>2. \A k \in Kinds \ {"complete"} : ptr'[k] = ptr[k] /\ durPtr'[k] = durPtr[k]
  BY <1>1 DEF Removed
<1>3. ptr'["complete"].state # "valid" /\ ptr'["complete"].put = 0
  BY <1>1 DEF Removed, NoPointer
<1>4. \A v \in Windows : at'[v] = at[v] \/ at'[v] = "discard"
  BY <1>1
<1> QED BY <1>1, <1>2, <1>3, <1>4, VoidedSafe

\* So is a pointer or an image damaged.
LEMMA DamageSafe ==
    ASSUME TypeInv, Safe, NEW c \in Kinds, Damage(c)
    PROVE  Safe'
<1>1. /\ Voided(c) /\ UNCHANGED <<syncs, at, seen, firm, puts>>
      /\ IF c = "complete" THEN grace' = Excused ELSE grace' = grace
      /\ ptr \in [Kinds -> Pointers] /\ durPtr \in [Kinds -> SUBSET Pointers]
      /\ image \in [Kinds -> [Slots -> 0..Damaged]] /\ synced \in [Kinds -> [Slots -> 0..Damaged]]
  BY DEF Damage, TypeInv, DiskType
<1>2. ASSUME NEW p \in {Corrupt, Foreign}, UNCHANGED <<image, synced>>,
             ptr' = [ptr EXCEPT ![c] = p], durPtr' = [durPtr EXCEPT ![c] = {p}]
      PROVE  Safe'
  <2>1. ptr'[c].state # "valid" /\ ptr'[c].put = 0
    BY <1>1, <1>2 DEF Corrupt, Foreign, NoPointer
  <2>2. \A k \in Kinds \ {c} : ptr'[k] = ptr[k] /\ durPtr'[k] = durPtr[k]
    BY <1>1, <1>2
  <2> QED BY <1>1, <1>2, <2>1, <2>2, VoidedSafe
<1>3. ASSUME NEW s \in Slots, image' = [image EXCEPT ![c][s] = Damaged],
             synced' = [synced EXCEPT ![c][s] = Damaged], UNCHANGED <<ptr, durPtr>>
      PROVE  Safe'
  <2>1. \A k \in Kinds \ {c} : image'[k] = image[k] /\ synced'[k] = synced[k]
    BY <1>1, <1>3
  <2>2. \A t \in Slots : image'[c][t] = image[c][t] \/ image'[c][t] = Damaged
    BY <1>1, <1>3
  <2> QED BY <1>1, <1>3, <2>1, <2>2, VoidedSafe
<1> QED BY <1>2, <1>3 DEF Damage

\* Every window is gone; the pointer and the images are some that were on disk.
LEMMA PowerLossSafe ==
    ASSUME TypeInv, Safe, PowerLoss
    PROVE  Safe'
<1>1. \A v \in Windows : at'[v] = "closed"
  BY DEF PowerLoss, Gone
<1>2. PutInv' /\ ReaderInv'
  BY <1>1 DEF PutInv, ReaderInv, Writing
<1>3. PICK back : image' = [c \in Kinds |-> [s \in Slots |->
                      IF <<c, s>> \in back THEN synced[c][s] ELSE image[c][s]]]
  BY DEF PowerLoss
<1>4. \A c \in Kinds : durPtr'[c] \subseteq durPtr[c]
  <2>1. PICK p \in durPtr["complete"], q \in durPtr["checkpoint"] :
          ptr' = [c \in Kinds |-> IF c = "complete" THEN p ELSE q]
    BY DEF PowerLoss
  <2>2. durPtr' = [c \in Kinds |-> {ptr'[c]}]
    BY DEF PowerLoss
  <2> QED BY <2>1, <2>2 DEF Kinds
<1>5. Promise'
  <2> SUFFICES ASSUME NEW k \in Kinds, acked'[k] # 0, NEW p \in Promised(k)'
               PROVE  Durable(k, p)'
    BY DEF Promise
  <2>1. /\ firm[k] /\ acked'[k] = acked[k] /\ synced' = image' /\ UNCHANGED <<syncs, firm>>
        /\ p \in durPtr[k]
    BY <1>4 DEF PowerLoss, Promised
  <2>2. Durable(k, p) /\ p \in Pointers
    BY <2>1, Files DEF Safe, Promise, Promised
  <2>3. File(k, p) \in Slots
    BY <2>2, Files DEF Durable
  <2>4. image'[k][File(k, p)] = p.put
    BY <1>3, <2>1, <2>2, <2>3 DEF Durable
  <2> QED BY <2>1, <2>2, <2>4 DEF Durable, File
<1> QED BY <1>2, <1>5 DEF Safe

\* The steps that leave the disk alone.
LEMMA QuietSteps ==
    ASSUME TypeInv, Safe, NEW w \in Windows,
           \/ TryCreate(w) \/ Inspect(w) \/ Takeover(w) \/ Recreate(w) \/ Release(w) \/ PutFails(w)
           \/ Open(w) \/ LoadImage(w) \/ DiscardCache(w) \/ Resume(w) \/ ResumeImage(w)
           \/ StartBuild(w) \/ Commit(w) \/ Edit(w) \/ Close(w) \/ Kill(w) \/ SaveCheckpoint(w)
           \/ Save(w)
    PROVE  Safe'
<1>0. /\ at \in [Windows -> Places] /\ job \in [Windows -> Jobs] /\ seen \in [Windows -> Pointers]
      /\ grace \in [Windows -> 0..2] /\ job[w].after \notin Writing \cup {"image"}
  <2>1. job[w].after \in After
    BY Stays, Fields DEF TypeInv, OtherType
  <2>2. After \cap (Writing \cup {"image"}) = {}
    BY DEF After, Working, Writing
  <2> QED BY <2>1, <2>2 DEF TypeInv, WindowType, OtherType
<1>1. UNCHANGED <<disk, puts, acked, firm>>
  BY DEF TryCreate, Inspect, Takeover, Recreate, Release, PutFails, Open, LoadImage, DiscardCache,
         Resume, ResumeImage, StartBuild, Commit, Edit, Close, Kill, SaveCheckpoint, Save,
         counters, history
<1>2. \A v \in Windows : v # w =>
         at'[v] = at[v] /\ job'[v] = job[v] /\ seen'[v] = seen[v] /\ grace'[v] = grace[v]
  <2> SUFFICES ASSUME NEW v \in Windows, v # w
               PROVE  at'[v] = at[v] /\ job'[v] = job[v] /\ seen'[v] = seen[v] /\ grace'[v] = grace[v]
    OBVIOUS
  <2> USE DEF Goto, Leave, Want, counters, history
  <2>1. CASE TryCreate(w) \/ Inspect(w) \/ Takeover(w) \/ Recreate(w) \/ Release(w) \/ PutFails(w)
    BY <1>0, <2>1 DEF TryCreate, Inspect, Takeover, Recreate, Release, PutFails
  <2>2. CASE Open(w) \/ LoadImage(w) \/ DiscardCache(w) \/ Resume(w) \/ ResumeImage(w)
    BY <1>0, <2>2 DEF Open, LoadImage, DiscardCache, Resume, ResumeImage, Restored, Resumed
  <2>3. CASE StartBuild(w) \/ Commit(w) \/ Edit(w) \/ SaveCheckpoint(w) \/ Save(w)
    BY <1>0, <2>3 DEF StartBuild, Commit, Edit, SaveCheckpoint, Save
  <2>4. CASE Close(w) \/ Kill(w)
    BY <1>0, <2>4 DEF Close, Kill, Gone
  <2> QED BY <2>1, <2>2, <2>3, <2>4
<1>3. at'[w] \notin Writing \cup {"image"}
  <2> USE DEF Goto, Leave, Want, Writing
  <2>1. CASE TryCreate(w) \/ Inspect(w) \/ Takeover(w) \/ Recreate(w) \/ Release(w) \/ PutFails(w)
    BY <1>0, <2>1 DEF TryCreate, Inspect, Takeover, Recreate, Release, PutFails
  <2>2. CASE Open(w) \/ LoadImage(w) \/ DiscardCache(w) \/ Resume(w) \/ ResumeImage(w)
    BY <1>0, <2>2 DEF Open, LoadImage, DiscardCache, Resume, ResumeImage, Restored, Resumed
  <2>3. CASE StartBuild(w) \/ Commit(w) \/ Edit(w) \/ SaveCheckpoint(w) \/ Save(w)
    BY <1>0, <2>3 DEF StartBuild, Commit, Edit, SaveCheckpoint, Save
  <2>4. CASE Close(w) \/ Kill(w)
    BY <1>0, <2>4 DEF Close, Kill, Gone
  <2> QED BY <2>1, <2>2, <2>3, <2>4
<1>4. \A v \in Windows : at'[v] \in Writing => at'[v] = at[v] /\ job'[v] = job[v]
  BY <1>2, <1>3
<1>5. \A v \in Windows : at'[v] = "image" => /\ at[v] = "image" /\ seen'[v] = seen[v]
                                             /\ grace'[v] = grace[v]
  BY <1>2, <1>3
<1> QED BY <1>1, <1>4, <1>5, QuietSafe

-----------------------------------------------------------------------------
(* The theorems                                                            *)

\* Every step keeps the invariant.
LEMMA NextCache == CacheInv /\ [Next]_vars => CacheInv'
<1> SUFFICES ASSUME CacheInv, [Next]_vars PROVE CacheInv'
  OBVIOUS
<1>1. TypeInv /\ TypeInv'
  BY NextType DEF CacheInv
<1> SUFFICES ASSUME ~intruded' PROVE Exclusive' /\ Safe'
  BY <1>1 DEF CacheInv
<1>2. ~intruded /\ Exclusive' /\ Exclusive /\ Safe
  <2>1. ~intruded => Exclusive
    BY DEF CacheInv
  <2>2. ~intruded /\ Exclusive'
    BY <1>1, <2>1, NextExclusive
  <2> QED BY <2>2 DEF CacheInv
<1>3. CASE UNCHANGED vars
  BY <1>2, <1>3, QuietSafe DEF vars, windows, counters, history
<1>4. CASE Age
  BY <1>2, <1>4, QuietSafe DEF Age, windows, counters, history
<1> QED BY <1>1, <1>2, <1>3, <1>4, QuietSteps, BeginPutSafe, RenameImageSafe, SyncImagesSafe,
           RenamePointerSafe, SyncPointerSafe, PruneSafe, CleanSafe, LoadSafe, UnlinkSafe,
           PowerLossSafe, DamageSafe DEF Next

\* The inductive invariant of the cache, for any number of windows, saves, identifiers,
\* sessions and faults: types, and, until a takeover removes the lock of a live writer,
\* mutual exclusion of the writers and what puts and loads rely on.
THEOREM CacheInvariant == Spec => []CacheInv
<1>1. Init => CacheInv
  <2> SUFFICES ASSUME Init PROVE CacheInv
    OBVIOUS
  <2>1. Exclusive /\ PutInv /\ ReaderInv
    BY DEF Init, Exclusive, PutInv, ReaderInv, Critical, Writing
  <2>2. Promise
    BY DEF Init, Promise
  <2> QED BY <2>1, <2>2, InitType DEF CacheInv, Safe
<1> QED BY <1>1, NextCache, PTL DEF Spec

\* AckedLoadable, for every instance: an acknowledged save can be loaded, after any
\* number of kills and power losses, until one of the events its comment names; the
\* image is synced before the pointer names it, and cleaning up looks at the pointer
\* once more under the lock.
THEOREM AckedStaysLoadable == Spec => []AckedLoadable
<1>1. CacheInv => AckedLoadable
  BY Files DEF CacheInv, Safe, Promise, Promised, Durable, AckedLoadable, Loadable
<1> QED BY <1>1, CacheInvariant, PTL

\* ReaderGrace, for every instance that retains more than the current generation, as
\* MAX_RETAINED_GENERATIONS does: a load that has read the pointer, without a lock,
\* finds its image after one further commit.
THEOREM ReadersHaveGrace ==
    ASSUME Retained > 1
    PROVE  Spec => []ReaderGrace
<1>1. CacheInv => ReaderGrace
  BY DEF CacheInv, Safe, ReaderInv, ReaderGrace
<1> QED BY <1>1, CacheInvariant, PTL
=============================================================================

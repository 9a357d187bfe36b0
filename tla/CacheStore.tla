---------------------------- MODULE CacheStore ----------------------------
(***************************************************************************)
(* The machine-local cache of the plugin's own index: the windows of one   *)
(* vault save complete generations and checkpoints of a first build into   *)
(* one directory, and load them when they start.                           *)
(*                                                                         *)
(* A generation or checkpoint is an image and a pointer that names it; the *)
(* image is renamed and synced before the pointer is.  Writers exclude     *)
(* each other with a lock file that is taken over when it is old; loads    *)
(* take no lock, and clean up what they found broken under it.  A window   *)
(* may be killed between two steps, and the machine may lose power.  Where *)
(* directories cannot be synced, on win32, a power loss may take back any  *)
(* rename or removal.                                                      *)
(*                                                                         *)
(* A put is numbered when it begins; the number stands for its bytes.  The *)
(* image of a generation is named by its generation identifier, which      *)
(* every session counts from one, and that of a checkpoint by the digest   *)
(* of its bytes as well, here the number of the put.                       *)
(***************************************************************************)
EXTENDS Naturals, FiniteSets

CONSTANTS
    Windows,     \* Obsidian windows on the vault
    MaxPuts,     \* saves that get as far as the lock
    MaxNames,    \* generation identifiers in use
    MaxOpens,    \* sessions started
    MaxFaults,   \* kills, power losses, failed steps, damaged files, new source policies
    Retained     \* MAX_RETAINED_GENERATIONS

ASSUME CacheAssumption ==
    /\ IsFiniteSet(Windows) /\ {"free", "left", "stale"} \cap Windows = {}
    /\ {MaxPuts, MaxNames, MaxOpens, MaxFaults} \subseteq Nat
    /\ Retained \in Nat \ {0}

VARIABLES
    syncs,      \* directories can be synced: the platform is not win32
    ptr,        \* ptr[c]: current.json or checkpoint.json
    durPtr,     \* durPtr[c]: what a power loss may leave of it
    image,      \* image[c][s]: the put whose bytes the image file s holds; 0: no file
    synced,     \* synced[c][s]: the same, as last synced
    lock,       \* writer.lock: "free", its writer, "left" by a dead one, or "stale"
    at,         \* where each window is
    job,        \* what each window does under the lock, and what comes after
    seen,       \* the pointer each window's load has read
    session,    \* what each window knows: identifiers, active generation, token
    puts, opens, faults,
    acked,      \* history: the put that every load must still find, or 0
    firm,       \* history: the pointer of that put was synced as well
    grace,      \* history: commits since a window's load read the pointer
    intruded    \* history: the lock of a live writer was removed by another

disk == <<syncs, ptr, durPtr, image, synced>>
windows == <<at, job, seen, session>>
counters == <<puts, opens, faults>>
history == <<acked, firm, grace, intruded>>
vars == <<disk, lock, windows, counters, history>>

Kinds == {"complete", "checkpoint"}
Slots == 1..(IF MaxPuts > MaxNames THEN MaxPuts ELSE MaxNames)
Damaged == MaxPuts + 1

NoPointer == [state |-> "none", put |-> 0, name |-> 0, prev |-> 0]
Corrupt == [NoPointer EXCEPT !.state = "corrupt"]
Foreign == [NoPointer EXCEPT !.state = "foreign"]
Pointer(k, n, before) == [state |-> "valid", put |-> k, name |-> n, prev |-> before]

\* The file name derived from a pointer.
File(c, p) == IF c = "complete" THEN p.name ELSE p.put

Loadable(c) ==
    /\ ptr[c].state = "valid"
    /\ image[c][File(c, ptr[c])] = ptr[c].put

Fault == faults < MaxFaults /\ faults' = faults + 1
Goto(w, place) == at' = [at EXCEPT ![w] = place]

\* What a window is about to do under the lock: the operation, its namespace, the
\* put and the identifier it is about, and where the window goes on.
Job(op, c, k, n, after) ==
    [op |-> op, c |-> c, put |-> k, name |-> n, prev |-> 0, intact |-> TRUE, after |-> after]
NoJob == Job("none", "complete", 0, 0, "closed")

Want(w, j) ==
    /\ Goto(w, "lock")
    /\ job' = [job EXCEPT ![w] = j]

Leave(w) ==
    /\ Goto(w, job[w].after)
    /\ job' = [job EXCEPT ![w] = NoJob]
    /\ seen' = [seen EXCEPT ![w] = NoPointer]

\* Loads that are under way lose their claim on an image that is taken away.
Excused == [w \in Windows |-> 2]
Removed(c) == durPtr' = [durPtr EXCEPT ![c] = @ \cup {NoPointer}] /\ ptr' = [ptr EXCEPT ![c] = NoPointer]
Voided(c) ==
    /\ acked' = [acked EXCEPT ![c] = 0]
    /\ job' = [w \in Windows |-> IF job[w].op = "put" /\ job[w].c = c
                                THEN [job[w] EXCEPT !.intact = FALSE] ELSE job[w]]
Emptied(c) == image' = [image EXCEPT ![c] = [s \in Slots |-> 0]]

-----------------------------------------------------------------------------
(* The writer lock *)

\* acquireLock: open with "wx" ...
TryCreate(w) ==
    /\ at[w] = "lock"
    /\ IF lock = "free" THEN lock' = w /\ Goto(w, "held")
                        ELSE UNCHANGED lock /\ Goto(w, "inspect")
    /\ UNCHANGED <<disk, job, seen, session, counters, history>>

\* ... lstat: a lock that is gone by now counts as stale ...
Inspect(w) ==
    /\ at[w] = "inspect"
    /\ IF lock \in {"free", "stale"} THEN Goto(w, "takeover") /\ UNCHANGED <<job, seen>>
                                     ELSE Leave(w)
    /\ UNCHANGED <<disk, lock, session, counters, history>>

\* ... unlink, whatever the path names by now ...
Takeover(w) ==
    /\ at[w] = "takeover"
    /\ lock' = "free"
    /\ intruded' = (intruded \/ lock \in Windows)
    /\ Goto(w, "recreate")
    /\ UNCHANGED <<disk, job, seen, session, counters, acked, firm, grace>>

\* ... and open with "wx" once more.
Recreate(w) ==
    /\ at[w] = "recreate"
    /\ IF lock = "free" THEN lock' = w /\ Goto(w, "held") /\ UNCHANGED <<job, seen>>
                        ELSE UNCHANGED lock /\ Leave(w)
    /\ UNCHANGED <<disk, session, counters, history>>

\* releaseLock, in the finally of withWriterLock.
Release(w) ==
    /\ at[w] = "release"
    /\ lock' = "free"
    /\ Leave(w)
    /\ UNCHANGED <<disk, session, counters, history>>

-----------------------------------------------------------------------------
(* put and putInitialBuildCheckpoint *)

Putting(w, place) == at[w] = place /\ job[w].op = "put"

\* The predecessor is the generation of the pointer, if that is another one.
BeginPut(w) ==
    /\ Putting(w, "held")
    /\ puts' = puts + 1
    /\ job' = [job EXCEPT ![w].put = puts + 1,
                          ![w].prev = IF ptr[job[w].c].name # job[w].name
                                      THEN ptr[job[w].c].name ELSE 0]
    /\ Goto(w, "write")
    /\ UNCHANGED <<disk, lock, seen, session, opens, faults, history>>

\* The image is written to a temporary file, synced and renamed.  A generation whose
\* identifier is that of the current one takes its image away, or that of one that a
\* power loss may bring back.
RenameImage(w) ==
    LET c == job[w].c
        s == File(c, job[w])
        Names(p) == p.state = "valid" /\ File(c, p) = s
    IN  /\ Putting(w, "write")
        /\ image' = [image EXCEPT ![c][s] = job[w].put]
        /\ acked' = [acked EXCEPT ![c] = IF Names(ptr[c]) THEN 0 ELSE @]
        /\ firm' = [firm EXCEPT ![c] = @ /\ \A p \in durPtr[c] : ~Names(p)]
        /\ grace' = [v \in Windows |-> IF c = "complete" /\ seen[v].name = s THEN 2 ELSE grace[v]]
        /\ Goto(w, "renamed")
        /\ UNCHANGED <<syncs, ptr, durPtr, synced, lock, job, seen, session, counters, intruded>>

\* syncDirectory, required: it returns without an effect where it cannot sync.
SyncImages(w) ==
    /\ Putting(w, "renamed")
    /\ synced' = IF syncs THEN [synced EXCEPT ![job[w].c] = image[job[w].c]] ELSE synced
    /\ Goto(w, "synced")
    /\ UNCHANGED <<syncs, ptr, durPtr, image, lock, job, seen, session, counters, history>>

\* The commit point.
RenamePointer(w) ==
    LET c == job[w].c
        p == Pointer(job[w].put, job[w].name, IF c = "complete" THEN job[w].prev ELSE 0)
    IN  /\ Putting(w, "synced")
        /\ ptr' = [ptr EXCEPT ![c] = p]
        /\ durPtr' = [durPtr EXCEPT ![c] = @ \cup {p}]
        /\ grace' = [v \in Windows |-> IF c = "complete" /\ grace[v] < 2 THEN grace[v] + 1
                                       ELSE grace[v]]
        /\ Goto(w, "committed")
        /\ UNCHANGED <<syncs, image, synced, lock, job, seen, session, counters, acked, firm, intruded>>

\* syncDirectory, optional: the sync that follows the commit, whose failure is passed
\* over.
SyncPointer(w) ==
    LET c == job[w].c
    IN  /\ Putting(w, "committed")
        /\ \/ syncs /\ durPtr' = [durPtr EXCEPT ![c] = {ptr[c]}] /\ UNCHANGED faults
           \/ syncs /\ Fault /\ UNCHANGED durPtr
           \/ ~syncs /\ UNCHANGED <<durPtr, faults>>
        /\ Goto(w, "prune")
        /\ UNCHANGED <<syncs, ptr, image, synced, lock, job, seen, session, puts, opens, history>>

\* Mutant: the current image is all that is kept.
KeptCurrent(c, j) == {File(c, j)}

\* pruneQuietly keeps the image just written and the pointer's predecessor, and
\* pruneInitialBuildCheckpointsQuietly the pointer's image, if it is of this build.
Kept(c, j) ==
    IF c = "complete"
    THEN {j.name} \cup (IF ptr[c].prev # 0 /\ Retained > 1 THEN {ptr[c].prev} ELSE {})
    ELSE IF ptr[c].state = "valid" /\ ptr[c].name = j.name THEN {ptr[c].put} ELSE Slots

\* Retention, and the answer: the put is acknowledged.
Prune(w) ==
    LET c == job[w].c
    IN  /\ Putting(w, "prune")
        /\ \/ image' = [image EXCEPT ![c] = [s \in Slots |-> IF s \in Kept(c, job[w]) THEN @[s] ELSE 0]]
              /\ UNCHANGED faults
           \/ Fault /\ UNCHANGED image
        /\ acked' = [acked EXCEPT ![c] = IF job[w].intact THEN job[w].put ELSE 0]
        /\ firm' = [firm EXCEPT ![c] = syncs /\ job[w].intact /\ durPtr[c] = {ptr[c]}]
        /\ session' = IF c = "checkpoint" THEN [session EXCEPT ![w].token = job[w].put] ELSE session
        /\ Goto(w, "release")
        /\ UNCHANGED <<syncs, ptr, durPtr, synced, lock, job, seen, puts, opens, grace, intruded>>

\* A step before the commit fails: the temporary files go, the error is reported.
PutFails(w) ==
    /\ \E place \in {"held", "write", "renamed", "synced"} : Putting(w, place)
    /\ Fault
    /\ Goto(w, "release")
    /\ UNCHANGED <<disk, lock, job, seen, session, puts, opens, history>>

-----------------------------------------------------------------------------
(* Cleaning up under the lock *)

Same(c, p, q) == IF c = "complete" THEN p.name = q.name ELSE p.put = q.put

\* Mutant: what the load observed without the lock is not looked at again.
AnyPointer(w) == w \in Windows

\* Under the lock the pointer is read again: if it is another one by now, the
\* observation is out of date.
StillSeen(w) ==
    LET c == job[w].c IN ptr[c].state \in {"none", "corrupt"} \/ Same(c, ptr[c], seen[w])

Forgotten(w) ==
    LET c == job[w].c
    IN  /\ acked' = IF Same(c, ptr[c], seen[w]) THEN [acked EXCEPT ![c] = 0] ELSE acked
        /\ grace' = IF c = "complete" THEN Excused ELSE grace

\* quarantine, quarantineInitialBuildCheckpoint.
Quarantine(w) ==
    LET c == job[w].c
    IN  /\ at[w] = "held" /\ job[w].op = "quarantine"
        /\ IF StillSeen(w)
           THEN /\ Removed(c) /\ Forgotten(w)
                /\ image' = [image EXCEPT ![c][File(c, seen[w])] = 0]
           ELSE UNCHANGED <<ptr, durPtr, image, acked, grace>>
        /\ Goto(w, "release")
        /\ UNCHANGED <<syncs, synced, lock, job, seen, session, counters, firm, intruded>>

IsCheckpoint(k) == ptr["checkpoint"].state = "valid" /\ ptr["checkpoint"].put = k

\* discardInitialBuildCheckpoint, discardInitialBuildCheckpointIfCurrentQuietly: the
\* checkpoint that is meant, and no later one.
DropCheckpoint(w) ==
    /\ at[w] = "held" /\ job[w].op = "drop"
    /\ IF IsCheckpoint(job[w].put)
       THEN /\ Removed("checkpoint") /\ Emptied("checkpoint")
            /\ acked' = IF ptr["checkpoint"].put = job[w].put
                        THEN [acked EXCEPT !["checkpoint"] = 0] ELSE acked
       ELSE UNCHANGED <<ptr, durPtr, image, acked>>
    /\ session' = [session EXCEPT ![w].token = 0]
    /\ Goto(w, "release")
    /\ UNCHANGED <<syncs, synced, lock, job, seen, counters, firm, grace, intruded>>

\* discardInvalidInitialBuildCheckpointQuietly.
DropInvalid(w) ==
    /\ at[w] = "held" /\ job[w].op = "invalid"
    /\ IF ptr["checkpoint"].state = "corrupt"
       THEN Removed("checkpoint") /\ Emptied("checkpoint")
       ELSE UNCHANGED <<ptr, durPtr, image>>
    /\ Goto(w, "release")
    /\ UNCHANGED <<syncs, synced, lock, job, seen, session, counters, history>>

\* discard: every complete generation, whoever wrote it.
Discard(w) ==
    /\ at[w] = "held" /\ job[w].op = "discard"
    /\ Removed("complete") /\ Emptied("complete")
    /\ acked' = [acked EXCEPT !["complete"] = 0]
    /\ grace' = Excused
    /\ Goto(w, "release")
    /\ UNCHANGED <<syncs, synced, lock, job, seen, session, counters, firm, intruded>>

-----------------------------------------------------------------------------
(* A window starts: load, restore, and what the controller does on a miss *)

NewSession == [next |-> 0, active |-> 0, restored |-> 0, saved |-> 0, token |-> 0]

Open(w) ==
    /\ at[w] = "closed" /\ opens < MaxOpens
    /\ opens' = opens + 1
    /\ session' = [session EXCEPT ![w] = NewSession]
    /\ Goto(w, "load")
    /\ UNCHANGED <<disk, lock, job, seen, puts, faults, history>>

\* load reads the pointer, without the lock.  Nothing of another vault is touched; a
\* pointer that cannot be read is a miss, and a load that throws ends the start-up.
Load(w) ==
    LET p == ptr["complete"]
    IN  /\ at[w] = "load"
        /\ seen' = [seen EXCEPT ![w] = p]
        /\ grace' = [grace EXCEPT ![w] = IF Loadable("complete") THEN 0 ELSE 2]
        /\ \/ /\ Goto(w, CASE p.state \in {"none", "foreign"} -> "resume"
                            [] p.state = "corrupt" -> "unlink"
                            [] p.state = "valid" -> "image")
              /\ UNCHANGED faults
           \/ Fault /\ p.state # "none" /\ Goto(w, "discard")
           \/ Fault /\ Goto(w, "start")
        /\ UNCHANGED <<disk, lock, job, session, puts, opens, acked, firm, intruded>>

\* A corrupt pointer is removed, without the lock and whatever it is by now.
Unlink(w) ==
    /\ at[w] = "unlink"
    /\ Removed("complete") /\ Voided("complete")
    /\ grace' = Excused
    /\ Goto(w, "discard")
    /\ UNCHANGED <<syncs, image, synced, lock, seen, session, counters, firm, intruded>>

\* decideStartup: the worker has restored the generation.
Restored(w, p) ==
    /\ session' = [session EXCEPT ![w].active = p.name, ![w].restored = p.name,
                                  ![w].saved = p.name]
    /\ Goto(w, "ready")

\* The image: absent; of another length or unreadable; refused by the worker for its
\* digest or version, or by the controller for the source policy it was made under; not
\* restored by a worker that fails, when the start-up ends; or restored.
LoadImage(w) ==
    LET p == seen[w]
        bytes == image["complete"][p.name]
        Refused == bytes # 0 /\ IF bytes = p.put THEN Fault ELSE UNCHANGED faults
    IN  /\ at[w] = "image"
        /\ \/ /\ bytes = 0
              /\ Goto(w, "discard") /\ UNCHANGED <<job, session, faults>>
           \/ /\ Refused /\ UNCHANGED session
              /\ Want(w, Job("quarantine", "complete", p.put, p.name, "discard"))
           \/ /\ Refused
              /\ Goto(w, "discard") /\ UNCHANGED <<job, session>>
           \/ /\ bytes # 0 /\ Fault
              /\ Goto(w, "start") /\ UNCHANGED <<job, session>>
           \/ /\ bytes = p.put
              /\ Restored(w, p) /\ UNCHANGED <<job, faults>>
        /\ grace' = [grace EXCEPT ![w] = 2]
        /\ UNCHANGED <<disk, lock, seen, puts, opens, acked, firm, intruded>>

\* discardCache, which a miss ends in unless the pointer is absent or of another vault.
DiscardCache(w) ==
    /\ at[w] = "discard"
    /\ Want(w, Job("discard", "complete", 0, 0, "resume"))
    /\ UNCHANGED <<disk, lock, seen, session, counters, history>>

\* loadInitialBuildCheckpoint, the same for a checkpoint.
Resume(w) ==
    LET p == ptr["checkpoint"]
    IN  /\ at[w] = "resume"
        /\ seen' = [seen EXCEPT ![w] = p]
        /\ \/ /\ p.state = "corrupt" /\ UNCHANGED faults
              /\ Want(w, Job("invalid", "checkpoint", 0, 0, "start"))
           \/ /\ p.state = "valid" /\ UNCHANGED faults
              /\ Goto(w, "resumeImage") /\ UNCHANGED job
           \/ /\ IF p.state \in {"none", "foreign"} THEN UNCHANGED faults ELSE Fault
              /\ Goto(w, "start") /\ UNCHANGED job
        /\ UNCHANGED <<disk, lock, session, puts, opens, history>>

\* tryResumeInitialBuildCheckpoint: the build goes on where the checkpoint was made.
Resumed(w, p) ==
    /\ session' = [session EXCEPT ![w].token = p.put, ![w].active = p.name,
                                  ![w].restored = p.name]
    /\ Goto(w, "build")

\* The same of the image of a checkpoint, which is quarantined or dropped by itself.
ResumeImage(w) ==
    LET p == seen[w]
        bytes == image["checkpoint"][p.put]
        token == [session EXCEPT ![w].token = p.put]
        Refused == bytes # 0 /\ IF bytes = p.put THEN Fault ELSE UNCHANGED faults
        Drop == Want(w, Job("drop", "checkpoint", p.put, p.name, "start"))
    IN  /\ at[w] = "resumeImage"
        /\ \/ bytes = 0 /\ Drop /\ UNCHANGED <<session, faults>>
           \/ /\ Refused /\ UNCHANGED session
              /\ Want(w, Job("quarantine", "checkpoint", p.put, p.name, "start"))
           \/ Refused /\ Drop /\ session' = token
           \/ /\ bytes # 0 /\ Fault
              /\ Goto(w, "start") /\ session' = token /\ UNCHANGED job
           \/ bytes = p.put /\ Resumed(w, p) /\ UNCHANGED <<job, faults>>
        /\ UNCHANGED <<disk, lock, seen, puts, opens, history>>

-----------------------------------------------------------------------------
(* A window at work *)

\* allocateFreshGeneration: the session's counter, past the restored identifier.
Fresh(w) ==
    LET n == session[w].next + 1 IN IF n = session[w].restored THEN n + 1 ELSE n

Allocate(w) ==
    /\ Fresh(w) <= MaxNames
    /\ session' = [session EXCEPT ![w].next = Fresh(w), ![w].active = Fresh(w)]

StartBuild(w) ==
    /\ at[w] = "start"
    /\ Allocate(w)
    /\ Goto(w, "build")
    /\ UNCHANGED <<disk, lock, job, seen, counters, history>>

\* Puts on their way to BeginPut, for the bound.
Waiting == {w \in Windows : job[w].op = "put" /\ job[w].put = 0}

SaveCheckpoint(w) ==
    /\ at[w] = "build" /\ puts + Cardinality(Waiting) < MaxPuts
    /\ Want(w, Job("put", "checkpoint", 0, session[w].active, "build"))
    /\ UNCHANGED <<disk, lock, seen, session, counters, history>>

\* commitBuild, and the checkpoint has done its service.
Commit(w) ==
    /\ at[w] = "build"
    /\ IF session[w].token # 0
       THEN Want(w, Job("drop", "checkpoint", session[w].token, 0, "ready"))
       ELSE Goto(w, "ready") /\ UNCHANGED job
    /\ UNCHANGED <<disk, lock, seen, session, counters, history>>

\* A batch of vault changes makes a new generation.
Edit(w) ==
    /\ at[w] = "ready"
    /\ Allocate(w)
    /\ UNCHANGED <<disk, lock, at, job, seen, counters, history>>

\* runIdleExport, once for each generation.
Save(w) ==
    /\ at[w] = "ready" /\ session[w].saved # session[w].active
    /\ puts + Cardinality(Waiting) < MaxPuts
    /\ session' = [session EXCEPT ![w].saved = session[w].active]
    /\ Want(w, Job("put", "complete", 0, session[w].active, "ready"))
    /\ UNCHANGED <<disk, lock, seen, counters, history>>

-----------------------------------------------------------------------------
(* The environment *)

Gone(ws) ==
    /\ at' = [w \in Windows |-> IF w \in ws THEN "closed" ELSE at[w]]
    /\ job' = [w \in Windows |-> IF w \in ws THEN NoJob ELSE job[w]]
    /\ seen' = [w \in Windows |-> IF w \in ws THEN NoPointer ELSE seen[w]]
    /\ session' = [w \in Windows |-> IF w \in ws THEN NewSession ELSE session[w]]
    /\ grace' = [w \in Windows |-> IF w \in ws THEN 2 ELSE grace[w]]
    /\ lock' = IF lock \in ws THEN "left" ELSE lock

Close(w) ==
    /\ at[w] \in {"build", "ready"}
    /\ Gone({w})
    /\ UNCHANGED <<disk, counters, acked, firm, intruded>>

Kill(w) ==
    /\ at[w] # "closed" /\ Fault
    /\ Gone({w})
    /\ UNCHANGED <<disk, puts, opens, acked, firm, intruded>>

\* STALE_LOCK_MS pass.
Age ==
    /\ lock = "left" /\ lock' = "stale"
    /\ UNCHANGED <<disk, windows, counters, history>>

\* What was renamed or removed and not synced may be as before; an acknowledged save
\* whose pointer was not synced is no longer promised.
PowerLoss ==
    /\ Fault
    /\ Gone(Windows)
    /\ \E back \in SUBSET {f \in Kinds \X Slots : image[f[1]][f[2]] # synced[f[1]][f[2]]} :
          image' = [c \in Kinds |->
                      [s \in Slots |-> IF <<c, s>> \in back THEN synced[c][s] ELSE image[c][s]]]
    /\ synced' = image'
    /\ \E p \in durPtr["complete"], q \in durPtr["checkpoint"] :
          ptr' = [c \in Kinds |-> IF c = "complete" THEN p ELSE q]
    /\ durPtr' = [c \in Kinds |-> {ptr'[c]}]
    /\ acked' = [c \in Kinds |-> IF firm[c] THEN acked[c] ELSE 0]
    /\ UNCHANGED <<syncs, puts, opens, firm, intruded>>

\* A pointer or an image is damaged, or written by another version; or the pointer is
\* one of another vault.
Damage(c) ==
    /\ Fault
    /\ \/ /\ ptr[c].state = "valid"
          /\ \E p \in {Corrupt, Foreign} :
                ptr' = [ptr EXCEPT ![c] = p] /\ durPtr' = [durPtr EXCEPT ![c] = {p}]
          /\ UNCHANGED <<image, synced>>
       \/ \E s \in Slots :
            /\ image[c][s] # 0
            /\ image' = [image EXCEPT ![c][s] = Damaged] /\ synced' = [synced EXCEPT ![c][s] = Damaged]
            /\ UNCHANGED <<ptr, durPtr>>
    /\ Voided(c)
    /\ grace' = IF c = "complete" THEN Excused ELSE grace
    /\ UNCHANGED <<syncs, lock, at, seen, session, puts, opens, firm, intruded>>

-----------------------------------------------------------------------------
Init ==
    /\ syncs \in BOOLEAN
    /\ ptr = [c \in Kinds |-> NoPointer]
    /\ durPtr = [c \in Kinds |-> {NoPointer}]
    /\ image = [c \in Kinds |-> [s \in Slots |-> 0]]
    /\ synced = image
    /\ lock = "free"
    /\ at = [w \in Windows |-> "closed"]
    /\ job = [w \in Windows |-> NoJob]
    /\ seen = [w \in Windows |-> NoPointer]
    /\ session = [w \in Windows |-> NewSession]
    /\ puts = 0 /\ opens = 0 /\ faults = 0
    /\ acked = [c \in Kinds |-> 0] /\ firm = [c \in Kinds |-> FALSE]
    /\ grace = Excused
    /\ intruded = FALSE

Next ==
    \/ \E w \in Windows :
         \/ TryCreate(w) \/ Inspect(w) \/ Takeover(w) \/ Recreate(w) \/ Release(w)
         \/ BeginPut(w) \/ RenameImage(w) \/ SyncImages(w) \/ RenamePointer(w)
         \/ SyncPointer(w) \/ Prune(w) \/ PutFails(w)
         \/ Quarantine(w) \/ DropCheckpoint(w) \/ DropInvalid(w) \/ Discard(w)
         \/ Open(w) \/ Load(w) \/ Unlink(w) \/ LoadImage(w) \/ DiscardCache(w)
         \/ Resume(w) \/ ResumeImage(w) \/ StartBuild(w) \/ SaveCheckpoint(w)
         \/ Commit(w) \/ Edit(w) \/ Save(w) \/ Close(w) \/ Kill(w)
    \/ Age \/ PowerLoss
    \/ \E c \in Kinds : Damage(c)

Spec == Init /\ [][Next]_vars

-----------------------------------------------------------------------------
(* Properties *)

TypeOK ==
    /\ lock \in Windows \cup {"free", "left", "stale"}
    /\ puts <= MaxPuts /\ opens <= MaxOpens /\ faults <= MaxFaults
    /\ \A c \in Kinds : /\ ptr[c] \in durPtr[c] /\ acked[c] \in 0..puts
                         /\ \A s \in Slots : {image[c][s], synced[c][s]} \subseteq 0..Damaged
    /\ \A w \in Windows : grace[w] \in 0..2 /\ session[w].active \in 0..MaxNames

\* A save that was acknowledged can be loaded, after a kill as well, until it is
\* damaged, a window that finds the cache broken, unreadable or made under another
\* source policy discards it, the build it belongs to is committed, or a put reuses its
\* identifier.  After a power loss too, if the sync after its commit took place: put
\* syncs the image before the pointer names it.  That sync is optional and cannot take
\* place on win32: a save acknowledged without it is promised until the next power loss
\* only.  A takeover that removes the lock of a live writer voids the promise.
AckedLoadable ==
    ~intruded => \A c \in Kinds : acked[c] # 0 => Loadable(c) /\ ptr[c].put >= acked[c]

\* A load that has read the pointer still finds its image after one further commit:
\* retention keeps the predecessor for readers that take no lock.
ReaderGrace ==
    ~intruded => \A w \in Windows :
        at[w] = "image" /\ grace[w] < 2 => image["complete"][seen[w].name] = seen[w].put
============================================================================

---------------------------- MODULE DaemonProofs ----------------------------
(***************************************************************************)
(* That no change is lost on its way to the index, that "current" is       *)
(* honest, and that the index is that of the configuration in use, for any *)
(* set of sources, any capacity of the channel and of the batch, and any   *)
(* number of edits, failures and rescans.                                  *)
(*                                                                         *)
(* One invariant holds of the traffic between the tasks (Base); each of    *)
(* the properties is then proved on top of it.                             *)
(***************************************************************************)
EXTENDS Daemon, FiniteSetTheorems, TLAPS

\* Configurations that need no restart, and the sets of records built on them.
Settled == Configs \ RestartConfigs
Events == Sources \cup {"config", "rescan"}
Requests == [kind : {"debounce", "safety"}, scope : Scopes, degraded : BOOLEAN]
Orders == [from : Clients, config : Settled, scope : Scopes]
Runs == [from : Clients, config : Settled, scope : Scopes,
         visited : SUBSET Sources, clean : SUBSET Sources]
Statuses == [gen : {None, "latest", "old"}, dirty : BOOLEAN, rebuilding : BOOLEAN,
             degraded : BOOLEAN, model : BOOLEAN]

\* The types, each record as a whole.
Typed ==
    /\ stale \in SUBSET Sources /\ silent \in SUBSET stale
    /\ cfgFile \in Configs \cup {"invalid"}
    /\ watching \in SUBSET {"config", "roots"}
    /\ kernel \in SUBSET (Sources \cup {"config"})
    /\ chan \in Seq(Events)
    /\ Len(chan) <= ChannelCapacity
    /\ overflow \in BOOLEAN
    /\ wpc \in {"start", "select", "await"}
    /\ pending \in Scopes
    /\ dirtySince \in BOOLEAN /\ configDirty \in BOOLEAN
    /\ configInvalid \in BOOLEAN /\ restartRequired \in BOOLEAN
    /\ config \in Settled /\ mconfig \in Settled
    /\ asked \in Requests
    /\ queue \in Seq(Orders)
    /\ running \in Runs \cup {None}
    /\ reply \in [Clients -> {None, "failed", "latest", "old"}]
    /\ bpc \in {"send", "wait", "write", "done"} /\ bmodel \in BOOLEAN
    /\ lpc \in {"load", "wait", "done", "off"}
    /\ status \in Statuses

\* The batch is bounded, and a batch that has lost its paths is a full pass.
BatchInv ==
    /\ Cardinality(pending.touched) <= PathCapacity
    /\ pending.rescan => pending.touched = {}
    /\ configDirty => pending.rescan

\* The clients that wait for an answer of the manager.
Waiting ==
    {c \in Clients : \/ c = "watcher" /\ wpc = "await"
                     \/ c = "boot" /\ bpc \in {"wait", "write"}
                     \/ c = "loader" /\ lpc = "wait"}

\* A client has one command under way: queued, running or answered; the watcher's is
\* the one it remembers.
QueueInv ==
    /\ \A i \in 1..Len(queue) :
         /\ queue[i].from \in Waiting /\ reply[queue[i].from] = None
         /\ running # None => running.from # queue[i].from
         /\ queue[i].from = "watcher" =>
              queue[i].scope = asked.scope /\ queue[i].config = config
    /\ \A i, j \in 1..Len(queue) : queue[i].from = queue[j].from => i = j
    /\ running # None =>
         /\ running.from \in Waiting /\ reply[running.from] = None
         /\ running.from = "watcher" =>
              running.scope = asked.scope /\ running.config = config
    /\ \A c \in Clients : reply[c] # None => c \in Waiting
    /\ bpc = "write" => reply["boot"] # None

\* Only metadata_audit tells sources apart by size and mtime.
SilentInv == Basis # "metadata_audit" => silent = {}

Base == Typed /\ BatchInv /\ QueueInv /\ SilentInv

-----------------------------------------------------------------------------
(* What each kind of step does to the traffic. *)

\* The clients and what they know of their commands.
traffic == <<queue, reply, wpc, bpc, lpc, asked, config>>

\* A step that neither sends, runs nor answers a command keeps the traffic.
LEMMA TrafficUntouched ==
    ASSUME QueueInv, UNCHANGED <<traffic, running>>
    PROVE  QueueInv'
  BY DEF QueueInv, Waiting, traffic

\* A pass that goes on keeps it too: it is still the pass of its command.
LEMMA TrafficRuns ==
    ASSUME QueueInv, UNCHANGED traffic, running # None, running' # None,
           running'.from = running.from, running'.scope = running.scope,
           running'.config = running.config
    PROVE  QueueInv'
  BY DEF QueueInv, Waiting, traffic

\* A pass is not None.
LEMMA PassNotNone ==
    ASSUME NEW r \in Runs
    PROVE  r # None
<1>1. r \in Passes
  BY DEF Passes, Settled, Runs
<1> QED
  BY <1>1, NoneAssumption

\* What is queued is a command, and what runs is a pass of one.
LEMMA Queued ==
    ASSUME Typed
    PROVE  /\ \A i \in 1..Len(queue) : queue[i] \in Orders /\ queue[i].from \in Clients
           /\ running # None => running \in Runs /\ running.from \in Clients
<1>1. \A i \in 1..Len(queue) : queue[i] \in Orders
  BY DEF Typed
<1> QED
  BY <1>1 DEF Typed, Orders, Runs

\* Answers are not None.
LEMMA AnswerNotNone == "failed" # None /\ "latest" # None /\ "old" # None
  BY NoneAssumption

\* The batches a step makes are batches, and cover what they are given.
LEMMA Batches ==
    /\ Empty \in Scopes /\ Full \in Scopes
    /\ ~Empty.rescan /\ Empty.touched = {} /\ Full.rescan /\ Full.touched = {}
    /\ Cardinality({}) <= PathCapacity
<1>1. Cardinality({}) = 0
  BY FS_EmptySet
<1> QED
  BY <1>1, DaemonAssumption DEF Empty, Full, Scopes

\* PendingPaths::insert keeps the bound of the batch and covers old and new paths.
LEMMA InsertBatch ==
    ASSUME NEW p \in Scopes, NEW paths \in SUBSET Sources,
           Cardinality(p.touched) <= PathCapacity, p.rescan => p.touched = {}
    PROVE  /\ Insert(p, paths) \in Scopes
           /\ Cardinality(Insert(p, paths).touched) <= PathCapacity
           /\ Insert(p, paths).rescan => Insert(p, paths).touched = {}
           /\ p.rescan => Insert(p, paths).rescan
           /\ \A s : Covers(p, s) \/ s \in paths => Covers(Insert(p, paths), s)
<1>1. CASE p.rescan
  BY <1>1 DEF Insert, Covers
<1>2. CASE ~p.rescan /\ Cardinality(p.touched \cup paths) > PathCapacity
  BY <1>2, Batches DEF Insert, NoteRescan, Covers
<1>3. CASE ~p.rescan /\ ~(Cardinality(p.touched \cup paths) > PathCapacity)
  <2>1. p.touched \cup paths \in SUBSET Sources
    BY DEF Scopes
  <2>2. IsFiniteSet(p.touched \cup paths)
    BY <2>1, DaemonAssumption, FS_Subset
  <2>3. Cardinality(p.touched \cup paths) \in Nat
    BY <2>2, FS_CardinalityType
  <2>4. Cardinality(p.touched \cup paths) <= PathCapacity
    BY <1>3, <2>3, DaemonAssumption
  <2>5. Insert(p, paths) = [p EXCEPT !.touched = p.touched \cup paths]
    BY <1>3 DEF Insert
  <2>6. /\ Insert(p, paths) \in Scopes /\ ~Insert(p, paths).rescan
        /\ Insert(p, paths).touched = p.touched \cup paths
    BY <1>3, <2>1, <2>5 DEF Scopes
  <2> QED
    BY <1>3, <2>4, <2>6 DEF Covers
<1> QED
  BY <1>1, <1>2, <1>3

\* PendingPaths::merge_back, the same for the scope of a failed pass.
LEMMA MergeBatch ==
    ASSUME NEW p \in Scopes, NEW scope \in Scopes,
           Cardinality(p.touched) <= PathCapacity, p.rescan => p.touched = {}
    PROVE  /\ MergeBack(p, scope) \in Scopes
           /\ Cardinality(MergeBack(p, scope).touched) <= PathCapacity
           /\ MergeBack(p, scope).rescan => MergeBack(p, scope).touched = {}
           /\ p.rescan \/ scope.rescan => MergeBack(p, scope).rescan
           /\ \A s : Covers(p, s) \/ Covers(scope, s) => Covers(MergeBack(p, scope), s)
<1>1. CASE scope.rescan
  BY <1>1, Batches DEF MergeBack, NoteRescan, Covers
<1>2. CASE ~scope.rescan
  <2>1. scope.touched \in SUBSET Sources
    BY DEF Scopes
  <2>2. MergeBack(p, scope) = Insert(p, scope.touched)
    BY <1>2 DEF MergeBack
  <2> QED
    BY <1>2, <2>1, <2>2, InsertBatch DEF Covers
<1> QED
  BY <1>1, <1>2

-----------------------------------------------------------------------------
(* Base is inductive: the files, the notifications and the watcher. *)

\* The groups of variables of the UNCHANGEDs are read as what they stand for.
USE DEF files, bounds, events, batch, wconfig, watcher, manager, boot, history

\* The start: nothing is sent; a daemon that has just built has its answer.
LEMMA BaseInit == Init => Base
<1> SUFFICES ASSUME Init PROVE Base
  OBVIOUS
<1>1. PICK how \in Boots :
        /\ stale \in IF how = "booted" THEN {{}} ELSE SUBSET Sources
        /\ silent \in IF Basis = "metadata_audit" THEN SUBSET stale ELSE {{}}
        /\ watching = IF how = "booted" THEN {"config", "roots"} ELSE {}
        /\ wpc = IF how = "booted" THEN "select" ELSE "start"
        /\ reply = [client \in Clients |->
                      IF how = "fresh" /\ client = "boot" THEN "latest" ELSE None]
        /\ bpc = CASE how = "fresh" -> "wait" [] how = "reopened" -> "send"
                   [] how = "booted" -> "done"
        /\ status = IF how = "booted"
                      THEN FromManifest("latest", FALSE)
                      ELSE [gen |-> None, dirty |-> TRUE, rebuilding |-> how = "reopened",
                            degraded |-> FALSE, model |-> FALSE]
  BY DEF Init
<1>2. how \in {"fresh", "reopened", "booted"}
  BY DaemonAssumption
<1>3. /\ cfgFile = StartupConfig /\ kernel = {} /\ chan = <<>>
      /\ overflow = FALSE /\ pending = Empty /\ dirtySince = FALSE /\ configDirty = FALSE
      /\ configInvalid = FALSE /\ restartRequired = FALSE /\ config = StartupConfig
      /\ asked = [kind |-> "safety", scope |-> Full, degraded |-> FALSE]
      /\ queue = <<>> /\ running = None /\ mconfig = StartupConfig /\ bmodel = FALSE
      /\ lpc = IF Semantic THEN "load" ELSE "off"
  BY DEF Init
<1>4. Typed
  <2>1. status \in Statuses
    BY <1>1, <1>2 DEF FromManifest, Statuses
  <2>2. reply \in [Clients -> {None, "failed", "latest", "old"}]
    BY <1>1, <1>2
  <2>3. bpc \in {"send", "wait", "write", "done"} /\ wpc \in {"start", "select", "await"}
    BY <1>1, <1>2
  <2>4. asked \in Requests
    BY <1>3, Batches DEF Requests
  <2>5. Len(chan) <= ChannelCapacity /\ config \in Settled /\ mconfig \in Settled
        /\ cfgFile \in Configs
    BY <1>3, DaemonAssumption DEF Settled
  <2>6. stale \in SUBSET Sources /\ silent \in SUBSET stale
        /\ watching \in SUBSET {"config", "roots"}
    BY <1>1, <1>2, <1>3
  <2>7. lpc \in {"load", "wait", "done", "off"} /\ pending \in Scopes
    BY <1>3, Batches
  <2>8. chan \in Seq(Events) /\ queue \in Seq(Orders)
    BY <1>3
  <2> QED
    BY <1>3, <2>1, <2>2, <2>3, <2>4, <2>5, <2>6, <2>7, <2>8 DEF Typed
<1>5. BatchInv
  BY <1>3, Batches DEF BatchInv
<1>6. QueueInv
  BY <1>1, <1>2, <1>3, AnswerNotNone DEF QueueInv, Waiting, Clients
<1> QED
  BY <1>1, <1>4, <1>5, <1>6 DEF Base, SilentInv

\* An edit takes its source from what the running pass has read.
LEMMA EditBase ==
    ASSUME Base, NEW s \in Sources, NEW quietly \in BOOLEAN, Edit(s, quietly)
    PROVE  Base'
<1> USE DEF Base
<1>1. Typed'
  <2>1. running' \in Runs \cup {None}
    BY DEF Edit, Typed, Runs
  <2> QED
    BY <2>1 DEF Edit, Typed, Notify
<1>2. BatchInv'
  BY DEF Edit, BatchInv
<1>3. QueueInv'
  <2>1. CASE running = None
    BY <2>1, TrafficUntouched DEF Edit, traffic
  <2>2. CASE running # None
    <3>1. running \in Runs
      BY <2>2 DEF Typed
    <3>2. running' = [running EXCEPT !.clean = @ \ {s}]
      BY <2>2 DEF Edit
    <3>3. running' \in Runs
      BY <3>1, <3>2 DEF Runs
    <3>4. running' # None /\ running'.from = running.from /\ running'.scope = running.scope
          /\ running'.config = running.config
      BY <3>1, <3>2, <3>3, PassNotNone DEF Runs
    <3> QED
      BY <2>2, <3>4, TrafficRuns DEF Edit, traffic
  <2> QED
    BY <2>1, <2>2
<1>4. SilentInv'
  BY DEF Edit, SilentInv
<1> QED
  BY <1>1, <1>2, <1>3, <1>4

\* The configuration file is nobody's command.
LEMMA WriteConfigBase ==
    ASSUME Base, NEW c \in Configs \cup {"invalid"}, WriteConfig(c)
    PROVE  Base'
<1> USE DEF Base
<1>1. Typed'
  BY DEF WriteConfig, Typed, Notify
<1>2. QueueInv'
  BY TrafficUntouched DEF WriteConfig, traffic
<1> QED
  BY <1>1, <1>2 DEF WriteConfig, BatchInv, SilentInv

\* try_send keeps the channel within its capacity.
LEMMA SendTyped ==
    ASSUME Typed, NEW e \in Events, Send(e)
    PROVE  /\ chan' \in Seq(Events)
           /\ Len(chan') <= ChannelCapacity
           /\ overflow' \in BOOLEAN
<1>1. CASE Len(chan) < ChannelCapacity
  <2>1. chan \in Seq(Events) /\ chan' = Append(chan, e) /\ overflow' = overflow
        /\ overflow \in BOOLEAN
    BY <1>1 DEF Typed, Send
  <2>2. chan' \in Seq(Events) /\ Len(chan') = Len(chan) + 1 /\ Len(chan) \in Nat
    BY <2>1
  <2> QED
    BY <1>1, <2>1, <2>2, DaemonAssumption
<1>2. CASE ~(Len(chan) < ChannelCapacity)
  BY <1>2 DEF Typed, Send
<1> QED
  BY <1>1, <1>2

\* A notification reaches the channel, or the overflow flag.
LEMMA DeliverBase ==
    ASSUME Base, NEW e \in Sources \cup {"config"}, Deliver(e)
    PROVE  Base'
<1> USE DEF Base
<1>1. Typed'
  BY SendTyped DEF Deliver, Typed, Events
<1>2. QueueInv'
  BY TrafficUntouched DEF Deliver, traffic
<1> QED
  BY <1>1, <1>2 DEF Deliver, BatchInv, SilentInv

\* The backend's rescan stands for all it drops.
LEMMA BackendRescanBase == Base /\ BackendRescan => Base'
<1> SUFFICES ASSUME Base, BackendRescan PROVE Base'
  OBVIOUS
<1> USE DEF Base
<1>1. Typed'
  BY SendTyped DEF BackendRescan, Typed, Events
<1>2. QueueInv'
  BY TrafficUntouched DEF BackendRescan, traffic
<1> QED
  BY <1>1, <1>2 DEF BackendRescan, BatchInv, SilentInv

\* mark_degraded keeps the rest of the status.
LEMMA StatusTyped ==
    ASSUME Typed
    PROVE  /\ Degraded(status) \in Statuses
           /\ Degraded(status).gen = status.gen /\ Degraded(status).dirty = TRUE
  BY DEF Typed, Degraded, Statuses

\* So do the other writes of single fields.
LEMMA FieldsTyped ==
    ASSUME Typed
    PROVE  /\ [status EXCEPT !.dirty = TRUE] \in Statuses
           /\ \A d \in BOOLEAN :
                [status EXCEPT !.rebuilding = TRUE, !.dirty = TRUE, !.degraded = d] \in Statuses
           /\ [status EXCEPT !.rebuilding = TRUE, !.dirty = TRUE] \in Statuses
           /\ [status EXCEPT !.gen = Outdated(@)] \in Statuses
           /\ [status EXCEPT !.model = TRUE] \in Statuses
  BY DEF Typed, Statuses, Outdated

\* The watcher arms its watches before its loop.
LEMMA ArmBase ==
    ASSUME Base, NEW ok \in SUBSET {"config", "roots"}, Arm(ok)
    PROVE  Base'
<1> USE DEF Base
<1>1. /\ wpc = "start" /\ wpc' = "select" /\ watching' = ok
      /\ pending' = IF "roots" \in ok THEN pending ELSE Full
      /\ status' = IF ok = {"config", "roots"} THEN status ELSE Degraded(status)
      /\ UNCHANGED <<files, rescans, events, dirtySince, configDirty, wconfig, asked,
                     manager, boot, history>>
  BY DEF Arm, NoteRescan
<1>2. Typed'
  <2>1. pending' \in Scopes /\ status' \in Statuses
    BY <1>1, Batches, StatusTyped DEF Typed
  <2> QED
    BY <1>1, <2>1 DEF Typed
<1>3. BatchInv'
  BY <1>1, Batches DEF BatchInv
<1>4. QueueInv'
  BY <1>1 DEF QueueInv, Waiting
<1> QED
  BY <1>1, <1>2, <1>3, <1>4 DEF SilentInv

\* What an event adds to the batch keeps its bound.
LEMMA ReceiveBase == Base /\ Receive => Base'
<1> SUFFICES ASSUME Base, Receive PROVE Base'
  OBVIOUS
<1> USE DEF Base
<1>1. /\ wpc = "select" /\ chan # <<>> /\ chan' = Tail(chan) /\ dirtySince' = TRUE
      /\ \/ Head(chan) = "config" /\ configDirty' = TRUE /\ pending' = Full
         \/ Head(chan) = "rescan" /\ UNCHANGED configDirty /\ pending' = Full
         \/ /\ Head(chan) \in Sources /\ UNCHANGED configDirty
            /\ pending' = Insert(pending, {Head(chan)})
      /\ status' = [status EXCEPT !.dirty = TRUE]
      /\ UNCHANGED <<files, bounds, watching, kernel, overflow, wpc, wconfig, asked,
                     manager, boot, noticed, offline, unread>>
  BY DEF Receive, NoteRescan
<1>2. /\ chan' \in Seq(Events)
      /\ Len(chan') <= ChannelCapacity
  BY <1>1, DaemonAssumption DEF Typed
<1>3. pending' \in Scopes /\ configDirty' \in BOOLEAN /\ BatchInv'
  <2>1. CASE pending' = Full /\ configDirty' \in BOOLEAN
    BY <2>1, Batches DEF BatchInv
  <2>2. CASE /\ Head(chan) \in Sources /\ UNCHANGED configDirty
             /\ pending' = Insert(pending, {Head(chan)})
    <3>1. /\ pending' \in Scopes /\ Cardinality(pending'.touched) <= PathCapacity
          /\ pending'.rescan => pending'.touched = {}
          /\ pending.rescan => pending'.rescan
      <4>1. pending \in Scopes /\ {Head(chan)} \in SUBSET Sources
        BY <2>2 DEF Typed
      <4> QED
        BY <2>2, <4>1, InsertBatch DEF BatchInv
    <3> QED
      BY <2>2, <3>1 DEF BatchInv, Typed
  <2> QED
    BY <1>1, <2>1, <2>2 DEF Typed
<1>4. Typed'
  <2>1. status' \in Statuses
    BY <1>1, FieldsTyped
  <2> QED
    BY <1>1, <1>2, <1>3, <2>1 DEF Typed
<1>5. QueueInv'
  BY <1>1, TrafficUntouched DEF traffic
<1> QED
  BY <1>1, <1>3, <1>4, <1>5 DEF SilentInv

\* An overflow makes a full batch of it.
LEMMA AbsorbOverflowBase == Base /\ AbsorbOverflow => Base'
<1> SUFFICES ASSUME Base, AbsorbOverflow PROVE Base'
  OBVIOUS
<1> USE DEF Base
<1>1. Typed'
  <2>1. status' \in Statuses /\ pending' \in Scopes
    BY FieldsTyped, Batches DEF AbsorbOverflow, NoteRescan
  <2> QED
    BY <2>1 DEF AbsorbOverflow, Typed
<1>2. BatchInv'
  BY Batches DEF AbsorbOverflow, NoteRescan, BatchInv
<1>3. QueueInv'
  BY TrafficUntouched DEF AbsorbOverflow, traffic
<1> QED
  BY <1>1, <1>2, <1>3 DEF AbsorbOverflow, SilentInv

\* An invalid configuration drops the batch.
LEMMA RejectConfigBase == Base /\ RejectConfig => Base'
<1> SUFFICES ASSUME Base, RejectConfig PROVE Base'
  OBVIOUS
<1> USE DEF Base
<1>1. Typed'
  BY Batches, StatusTyped DEF RejectConfig, ClearBatch, Typed
<1>2. BatchInv'
  BY Batches DEF RejectConfig, ClearBatch, BatchInv
<1>3. QueueInv'
  BY TrafficUntouched DEF RejectConfig, traffic
<1> QED
  BY <1>1, <1>2, <1>3 DEF RejectConfig, SilentInv


-----------------------------------------------------------------------------
(* Base is inductive: commands and answers. *)

\* A client that waits for nothing has no command under way.
LEMMA NotWaiting ==
    ASSUME QueueInv, NEW c \in Clients, c \notin Waiting
    PROVE  /\ \A i \in 1..Len(queue) : queue[i].from # c
           /\ running # None => running.from # c
           /\ reply[c] = None
  BY DEF QueueInv

\* A client that waits for nothing sends a command, and waits.
LEMMA TrafficSends ==
    ASSUME Typed, QueueInv, NEW o \in Orders, o.from \notin Waiting,
           queue' = Append(queue, o), UNCHANGED <<running, reply>>,
           o.from \in Waiting', \A c \in Clients : c \in Waiting => c \in Waiting',
           o.from = "watcher" => o.scope = asked'.scope /\ o.config = config',
           o.from # "watcher" => UNCHANGED <<asked, config>>,
           bpc' = "write" => bpc = "write"
    PROVE  QueueInv'
<1>1. o.from \in Clients /\ queue \in Seq(Orders)
  BY DEF Orders, Typed
<1>2. /\ \A i \in 1..Len(queue) : queue[i].from # o.from
      /\ running # None => running.from # o.from
      /\ reply[o.from] = None
  BY <1>1, NotWaiting
<1>3. /\ Len(queue') = Len(queue) + 1 /\ Len(queue) \in Nat
      /\ \A i \in 1..Len(queue) : queue'[i] = queue[i]
      /\ queue'[Len(queue) + 1] = o
  BY <1>1
<1>4. ASSUME NEW i \in 1..Len(queue')
      PROVE  /\ queue'[i].from \in Waiting' /\ reply'[queue'[i].from] = None
             /\ running' # None => running'.from # queue'[i].from
             /\ queue'[i].from = "watcher" =>
                  queue'[i].scope = asked'.scope /\ queue'[i].config = config'
  <2>1. CASE i = Len(queue) + 1
    BY <1>2, <1>3, <2>1
  <2>2. CASE i \in 1..Len(queue)
    BY <1>1, <1>2, <1>3, <2>2, Queued DEF QueueInv
  <2> QED
    BY <1>3, <2>1, <2>2
<1>5. ASSUME NEW i \in 1..Len(queue'), NEW j \in 1..Len(queue'), queue'[i].from = queue'[j].from
      PROVE  i = j
  <2>1. (i = Len(queue) + 1 \/ i \in 1..Len(queue)) /\ (j = Len(queue) + 1 \/ j \in 1..Len(queue))
    BY <1>1, <1>3
  <2>2. i \in 1..Len(queue) => queue'[i].from = queue[i].from /\ queue[i].from # o.from
    BY <1>2, <1>3
  <2>3. j \in 1..Len(queue) => queue'[j].from = queue[j].from /\ queue[j].from # o.from
    BY <1>2, <1>3
  <2>4. CASE i \in 1..Len(queue) /\ j \in 1..Len(queue)
    BY <1>5, <2>2, <2>3, <2>4 DEF QueueInv
  <2> QED
    BY <1>3, <1>5, <2>1, <2>2, <2>3, <2>4
<1>6. running' # None =>
         /\ running'.from \in Waiting' /\ reply'[running'.from] = None
         /\ running'.from = "watcher" =>
              running'.scope = asked'.scope /\ running'.config = config'
  BY <1>1, <1>2, Queued DEF QueueInv
<1>7. \A c \in Clients : reply'[c] # None => c \in Waiting'
  BY DEF QueueInv
<1> QED
  BY <1>4, <1>5, <1>6, <1>7 DEF QueueInv

\* A client takes its answer.
LEMMA TrafficTakes ==
    ASSUME Typed, QueueInv, NEW k \in Clients, reply[k] # None,
           reply' = [reply EXCEPT ![k] = None], UNCHANGED <<queue, running, asked, config>>,
           \A c \in Clients \ {k} : c \in Waiting => c \in Waiting',
           bpc' = "write" => bpc = "write" /\ k # "boot"
    PROVE  QueueInv'
<1>1. /\ \A i \in 1..Len(queue) : queue[i].from \in Clients /\ queue[i].from # k
      /\ running # None => running.from \in Clients /\ running.from # k
  BY Queued DEF QueueInv
<1>2. \A c \in Clients : reply'[c] = IF c = k THEN None ELSE reply[c]
  BY DEF Typed
<1> QED
  BY <1>1, <1>2 DEF QueueInv, Clients

\* The manager answers the command it ran.
LEMMA TrafficAnswers ==
    ASSUME Typed, QueueInv, running # None, running' = None,
           UNCHANGED <<queue, wpc, bpc, lpc, asked, config>>,
           \A c \in Clients : (reply'[c] = None) = (reply[c] = None /\ c # running.from)
    PROVE  QueueInv'
<1>1. \A i \in 1..Len(queue) : queue[i].from \in Clients
  BY Queued
<1>2. running.from \in Clients
  BY Queued
<1> QED
  BY <1>1, <1>2 DEF QueueInv, Waiting, Clients

\* The watcher asks for its batch.
LEMMA StartBatchBase ==
    ASSUME Base, NEW ok \in BOOLEAN, StartBatch(ok)
    PROVE  Base'
<1> USE DEF Base
<1>1. wpc = "select" /\ pending \in Scopes
  BY DEF StartBatch, Due, Typed
<1>2. /\ configInvalid' = (configInvalid /\ ~configDirty)
      /\ restartRequired' = IF configDirty THEN cfgFile \in RestartConfigs ELSE restartRequired
      /\ config' = IF configDirty /\ cfgFile \notin RestartConfigs THEN cfgFile ELSE config
      /\ configDirty => cfgFile # "invalid"
  BY DEF StartBatch, ReloadConfig
<1>3. config' \in Settled /\ configInvalid' \in BOOLEAN /\ restartRequired' \in BOOLEAN
  <2>1. config' \in Settled
    BY <1>2 DEF Typed, Settled
  <2>2. configInvalid' \in BOOLEAN
    BY <1>2
  <2>3. restartRequired' \in BOOLEAN
    <3>1. CASE configDirty
      <4>1. restartRequired' = (cfgFile \in RestartConfigs)
        BY <1>2, <3>1, Zenon
      <4> QED
        BY <4>1
    <3>2. CASE ~configDirty
      BY <1>2, <3>2 DEF Typed
    <3> QED
      BY <3>1, <3>2
  <2> QED
    BY <2>1, <2>2, <2>3
<1> DEFINE scope == IF ok THEN pending ELSE Full
           order == [from |-> "watcher", config |-> config', scope |-> scope]
<1>4. /\ wpc' = "await"
      /\ asked' = [kind |-> "debounce", scope |-> scope,
                   degraded |-> configInvalid' \/ restartRequired' \/ "roots" \notin watching']
      /\ queue' = Append(queue, order)
      /\ UNCHANGED <<running, mconfig, reply>>
  BY DEF StartBatch, Ask, NoteRescan
<1>5. scope \in Scopes
  BY <1>1, Batches
<1>6. order \in Orders /\ order.from = "watcher" /\ order.scope = scope /\ order.config = config'
  BY <1>3, <1>5 DEF Orders, Clients
<1>7. asked' \in Requests /\ asked'.scope = scope
  BY <1>4, <1>5 DEF Requests
<1> HIDE DEF scope, order
<1>8. /\ watching' \in SUBSET {"config", "roots"}
      /\ pending' = Empty /\ dirtySince' = FALSE /\ configDirty' = FALSE
      /\ UNCHANGED <<files, events, boot>>
  BY DEF StartBatch, AddRoots, ClearBatch, Typed
<1>9. status' \in Statuses
  BY DEF StartBatch, Typed, Statuses
<1>10. queue' \in Seq(Orders)
  BY <1>4, <1>6 DEF Typed
<1>11. Typed'
  BY <1>3, <1>4, <1>7, <1>8, <1>9, <1>10, Batches DEF Typed
<1>12. BatchInv'
  BY <1>8, Batches DEF BatchInv
<1>13. "watcher" \notin Waiting /\ "watcher" \in Waiting' /\ \A c \in Clients : c \in Waiting => c \in Waiting'
  BY <1>1, <1>4, <1>8 DEF Waiting, Clients
<1>14. QueueInv'
  BY <1>4, <1>6, <1>7, <1>8, <1>13, TrafficSends
<1> QED
  BY <1>8, <1>11, <1>12, <1>14 DEF SilentInv

\* The watcher asks for a full pass.
LEMMA SafetyTickBase ==
    ASSUME Base, NEW ok \in BOOLEAN, SafetyTick(ok)
    PROVE  Base'
<1> USE DEF Base
<1> DEFINE order == [from |-> "watcher", config |-> config', scope |-> Full]
<1>1. /\ wpc = "select" /\ wpc' = "await" /\ UNCHANGED wconfig
      /\ asked' = [kind |-> "safety", scope |-> Full,
                   degraded |-> configInvalid' \/ restartRequired' \/ "roots" \notin watching']
      /\ queue' = Append(queue, order)
      /\ UNCHANGED <<running, mconfig, reply>>
      /\ UNCHANGED <<files, events, batch, boot>>
  BY DEF SafetyTick, Ask
<1>2. order \in Orders /\ order.from = "watcher" /\ order.scope = Full /\ order.config = config'
  BY <1>1, Batches DEF Orders, Clients, Typed
<1>3. asked' \in Requests /\ asked'.scope = Full
  BY <1>1, Batches DEF Requests
<1> HIDE DEF order
<1>4. watching' \in SUBSET {"config", "roots"}
  BY DEF SafetyTick, AddRoots, Typed
<1>5. status' \in Statuses
  BY FieldsTyped DEF SafetyTick
<1>6. queue' \in Seq(Orders)
  BY <1>1, <1>2 DEF Typed
<1>7. Typed'
  BY <1>1, <1>3, <1>4, <1>5, <1>6 DEF Typed
<1>8. "watcher" \notin Waiting /\ "watcher" \in Waiting' /\ \A c \in Clients : c \in Waiting => c \in Waiting'
  BY <1>1 DEF Waiting, Clients
<1>9. QueueInv'
  BY <1>1, <1>2, <1>3, <1>8, TrafficSends
<1> QED
  BY <1>1, <1>7, <1>9 DEF SilentInv, BatchInv

\* The watcher's pass has succeeded.
LEMMA PassSucceededBase == Base /\ PassSucceeded => Base'
<1> SUFFICES ASSUME Base, PassSucceeded PROVE Base'
  OBVIOUS
<1> USE DEF Base
<1>1. /\ wpc = "await" /\ wpc' = "select" /\ reply["watcher"] # None
      /\ reply["watcher"] # "failed" /\ reply' = [reply EXCEPT !["watcher"] = None]
      /\ status' = [FromManifest(reply["watcher"], status.model) EXCEPT
                      !.dirty = asked.degraded, !.degraded = asked.degraded]
      /\ UNCHANGED <<files, bounds, watching, events, batch, wconfig, asked,
                     queue, running, mconfig, boot, history>>
  BY DEF PassSucceeded, Answered
<1>2. "watcher" \in Clients
  BY DEF Clients
<1>3. reply["watcher"] \in {"latest", "old"} /\ status.model \in BOOLEAN /\ asked.degraded \in BOOLEAN
  BY <1>1, <1>2 DEF Typed, Statuses, Requests
<1>4. status' \in Statuses
  BY <1>1, <1>3 DEF FromManifest, Statuses
<1>5. Typed'
  BY <1>1, <1>2, <1>4 DEF Typed
<1>6. \A c \in Clients \ {"watcher"} : c \in Waiting => c \in Waiting'
  BY <1>1 DEF Waiting
<1>7. QueueInv'
  BY <1>1, <1>2, <1>6, TrafficTakes
<1> QED
  BY <1>1, <1>5, <1>7 DEF BatchInv, SilentInv

\* It has failed: the batch comes back.
LEMMA PassFailedBase == Base /\ PassFailed => Base'
<1> SUFFICES ASSUME Base, PassFailed PROVE Base'
  OBVIOUS
<1> USE DEF Base
<1>1. /\ wpc = "await" /\ wpc' = "select" /\ reply["watcher"] = "failed"
      /\ reply' = [reply EXCEPT !["watcher"] = None] /\ status' = Degraded(status)
      /\ \/ pending' = MergeBack(pending, asked.scope) /\ dirtySince' = TRUE
         \/ UNCHANGED <<pending, dirtySince>>
      /\ UNCHANGED <<files, bounds, watching, events, configDirty, wconfig, asked,
                     queue, running, mconfig, boot, history>>
  BY DEF PassFailed
<1>2. "watcher" \in Clients
  BY DEF Clients
<1>3. pending' \in Scopes /\ BatchInv'
  <2>1. CASE UNCHANGED pending
    BY <1>1, <2>1 DEF Typed, BatchInv
  <2>2. CASE pending' = MergeBack(pending, asked.scope)
    <3>1. pending \in Scopes /\ asked.scope \in Scopes
      BY DEF Typed, Requests
    <3>2. /\ pending' \in Scopes /\ Cardinality(pending'.touched) <= PathCapacity
          /\ pending'.rescan => pending'.touched = {}
          /\ pending.rescan => pending'.rescan
      BY <2>2, <3>1, MergeBatch DEF BatchInv
    <3> QED
      BY <1>1, <3>2 DEF BatchInv
  <2> QED
    BY <1>1, <2>1, <2>2
<1>4. Typed'
  <2>1. reply' \in [Clients -> {None, "failed", "latest", "old"}] /\ dirtySince' \in BOOLEAN
    BY <1>1, <1>2 DEF Typed
  <2>2. status' \in Statuses
    BY <1>1, StatusTyped
  <2>3. wpc' = "select" /\ pending' \in Scopes
        /\ UNCHANGED <<files, watching, events, configDirty, wconfig, asked,
                       queue, running, mconfig, boot>>
    BY <1>1, <1>3
  <2> QED
    BY <2>1, <2>2, <2>3 DEF Typed
<1>5. \A c \in Clients \ {"watcher"} : c \in Waiting => c \in Waiting'
  BY <1>1 DEF Waiting
<1>6. QueueInv'
  BY <1>1, <1>2, <1>5, TrafficTakes, AnswerNotNone
<1> QED
  BY <1>1, <1>3, <1>4, <1>6 DEF SilentInv


\* The manager takes the oldest command.
LEMMA StartPassBase == Base /\ StartPass => Base'
<1> SUFFICES ASSUME Base, StartPass PROVE Base'
  OBVIOUS
<1> USE DEF Base
<1>1. /\ running = None /\ queue # <<>> /\ queue' = Tail(queue)
      /\ running' = [from |-> Head(queue).from, config |-> Head(queue).config,
                     scope |-> Head(queue).scope, visited |-> {}, clean |-> {}]
      /\ UNCHANGED <<files, bounds, watching, events, watcher, mconfig, reply, boot,
                     status, history>>
  BY DEF StartPass
<1>2. queue \in Seq(Orders)
  BY DEF Typed
<1>3. /\ Head(queue) = queue[1] /\ 1 \in 1..Len(queue) /\ Len(queue) \in Nat
      /\ queue' \in Seq(Orders) /\ Len(queue') = Len(queue) - 1
      /\ \A i \in 1..Len(queue') : queue'[i] = queue[i + 1] /\ i + 1 \in 1..Len(queue)
  BY <1>1, <1>2
<1>4. Head(queue) \in Orders
  BY <1>3, Queued
<1>5. running' \in Runs /\ running'.from = queue[1].from /\ running'.scope = queue[1].scope
      /\ running'.config = queue[1].config
  BY <1>1, <1>3, <1>4 DEF Orders, Runs
<1>6. Typed'
  BY <1>1, <1>3, <1>5 DEF Typed
<1>7. Waiting' = Waiting /\ reply' = reply /\ asked' = asked /\ config' = config /\ bpc' = bpc
  BY <1>1 DEF Waiting
<1>8. ASSUME NEW i \in 1..Len(queue')
      PROVE  /\ queue'[i].from \in Waiting' /\ reply'[queue'[i].from] = None
             /\ running'.from # queue'[i].from
             /\ queue'[i].from = "watcher" =>
                  queue'[i].scope = asked'.scope /\ queue'[i].config = config'
  <2>1. queue'[i] = queue[i + 1] /\ i + 1 \in 1..Len(queue) /\ i + 1 # 1
    BY <1>3
  <2>2. queue[i + 1].from # queue[1].from
    BY <1>3, <2>1 DEF QueueInv
  <2> QED
    BY <1>5, <1>7, <2>1, <2>2 DEF QueueInv
<1>9. ASSUME NEW i \in 1..Len(queue'), NEW j \in 1..Len(queue'), queue'[i].from = queue'[j].from
      PROVE  i = j
  <2>1. i + 1 = j + 1
    BY <1>3, <1>9 DEF QueueInv
  <2> QED
    BY <2>1
<1>10. /\ running'.from \in Waiting' /\ reply'[running'.from] = None
       /\ running'.from = "watcher" =>
            running'.scope = asked'.scope /\ running'.config = config'
  BY <1>3, <1>5, <1>7 DEF QueueInv
<1>11. QueueInv'
  BY <1>7, <1>8, <1>9, <1>10 DEF QueueInv
<1> QED
  BY <1>1, <1>6, <1>11 DEF BatchInv, SilentInv

\* A visit changes what the pass has seen, and nothing else of it.
LEMMA VisitRuns ==
    ASSUME Base, running # None, running' # None, running' \in Runs,
           running'.from = running.from, running'.scope = running.scope,
           running'.config = running.config,
           UNCHANGED <<files, rescans, watching, events, watcher, queue, mconfig, reply,
                       boot, status>>
    PROVE  Base'
<1> USE DEF Base
<1>1. Typed'
  BY DEF Typed
<1>2. QueueInv'
  BY TrafficRuns DEF traffic
<1> QED
  BY <1>1, <1>2 DEF BatchInv, SilentInv

\* A source is visited.
LEMMA VisitSourceBase ==
    ASSUME Base, NEW s \in Sources, NEW read \in BOOLEAN, VisitSource(s, read)
    PROVE  Base'
<1>1. running # None /\ running \in Runs
  BY Queued DEF VisitSource, Unvisited, Base
<1>2. running' = [running EXCEPT !.visited = @ \cup {s},
                                 !.clean = IF read THEN @ \cup {s} ELSE @]
  BY DEF VisitSource
<1>3. /\ running' \in Runs /\ running'.from = running.from
      /\ running'.scope = running.scope /\ running'.config = running.config
  BY <1>1, <1>2 DEF Runs
<1>4. running' # None
  BY <1>3, PassNotNone
<1> QED
  BY <1>1, <1>3, <1>4, VisitRuns DEF VisitSource

\* A source cannot be read.
LEMMA VisitFailsBase ==
    ASSUME Base, NEW s \in Sources, VisitFails(s)
    PROVE  Base'
<1>1. running # None /\ running \in Runs
  BY Queued DEF VisitFails, Unvisited, Base
<1>2. running' = [running EXCEPT !.visited = @ \cup {s}]
  BY DEF VisitFails
<1>3. /\ running' \in Runs /\ running'.from = running.from
      /\ running'.scope = running.scope /\ running'.config = running.config
  BY <1>1, <1>2 DEF Runs
<1>4. running' # None
  BY <1>3, PassNotNone
<1> QED
  BY <1>1, <1>3, <1>4, VisitRuns DEF VisitFails

\* The pass ends: what it read is up to date, its client has its answer, and what it
\* replaced is no longer the latest.
LEMMA FinishPassBase == Base /\ FinishPass => Base'
<1> SUFFICES ASSUME Base, FinishPass PROVE Base'
  OBVIOUS
<1> USE DEF Base
<1> DEFINE published == stale \cap running.clean # {} \/ running.config # mconfig
<1>1. /\ running # None /\ running' = None
      /\ stale' = stale \ running.clean /\ silent' = silent \ running.clean
      /\ mconfig' = running.config
      /\ reply' = [client \in Clients |->
                     IF client = running.from
                       THEN "latest"
                       ELSE IF published THEN Outdated(reply[client]) ELSE reply[client]]
      /\ status' = IF published THEN [status EXCEPT !.gen = Outdated(@)] ELSE status
      /\ UNCHANGED <<cfgFile, edits, bounds, watching, events, watcher, queue, boot>>
  BY DEF FinishPass
<1> HIDE DEF published
<1>2. running \in Runs /\ running.from \in Clients /\ mconfig' \in Settled
  BY <1>1, Queued DEF Runs
<1>3. status' \in Statuses
  BY <1>1, FieldsTyped DEF Typed
<1>4. \A c \in Clients : /\ reply'[c] \in {None, "failed", "latest", "old"}
                         /\ (reply'[c] = None) = (reply[c] = None /\ c # running.from)
  BY <1>1, AnswerNotNone DEF Typed, Outdated
<1>5. reply' \in [Clients -> {None, "failed", "latest", "old"}]
  BY <1>1, <1>4
<1>6. Typed'
  BY <1>1, <1>2, <1>3, <1>5 DEF Typed
<1>7. QueueInv'
  BY <1>1, <1>4, TrafficAnswers
<1> QED
  BY <1>1, <1>6, <1>7 DEF BatchInv, SilentInv

\* The pass fails, and its client is told.
LEMMA FailPassBase == Base /\ FailPass => Base'
<1> SUFFICES ASSUME Base, FailPass PROVE Base'
  OBVIOUS
<1> USE DEF Base
<1>1. /\ running # None /\ running' = None
      /\ reply' = [reply EXCEPT ![running.from] = "failed"]
      /\ UNCHANGED <<files, rescans, watching, events, watcher, queue, mconfig, boot,
                     status, history>>
  BY DEF FailPass
<1>2. running.from \in Clients /\ reply[running.from] = None
  BY <1>1, Queued DEF QueueInv
<1>3. /\ reply' \in [Clients -> {None, "failed", "latest", "old"}]
      /\ \A c \in Clients : (reply'[c] = None) = (reply[c] = None /\ c # running.from)
  BY <1>1, <1>2, AnswerNotNone DEF Typed
<1>4. Typed'
  BY <1>1, <1>3 DEF Typed
<1>5. QueueInv'
  BY <1>1, <1>3, TrafficAnswers
<1> QED
  BY <1>1, <1>4, <1>5 DEF BatchInv, SilentInv

\* The boot sequence asks for its pass.
LEMMA BootSendBase == Base /\ BootSend => Base'
<1> SUFFICES ASSUME Base, BootSend PROVE Base'
  OBVIOUS
<1> USE DEF Base
<1> DEFINE order == [from |-> "boot", config |-> StartupConfig, scope |-> Full]
<1>1. /\ bpc = "send" /\ bpc' = "wait" /\ queue' = Append(queue, order)
      /\ UNCHANGED <<files, bounds, watching, events, watcher, running, mconfig, reply,
                     bmodel, lpc, status, history>>
  BY DEF BootSend
<1>2. order \in Orders /\ order.from = "boot"
  BY Batches, DaemonAssumption DEF Orders, Clients, Settled
<1> HIDE DEF order
<1>3. queue' \in Seq(Orders)
  BY <1>1, <1>2 DEF Typed
<1>4. Typed'
  BY <1>1, <1>3 DEF Typed
<1>5. "boot" \notin Waiting /\ "boot" \in Waiting' /\ \A c \in Clients : c \in Waiting => c \in Waiting'
  BY <1>1 DEF Waiting, Clients
<1>6. QueueInv'
  BY <1>1, <1>2, <1>5, TrafficSends
<1> QED
  BY <1>1, <1>4, <1>6 DEF BatchInv, SilentInv

\* It reads the model state once it has its answer.
LEMMA BootReadModelBase == Base /\ BootReadModel => Base'
<1> SUFFICES ASSUME Base, BootReadModel PROVE Base'
  OBVIOUS
<1> USE DEF Base
<1>1. Typed'
  BY DEF BootReadModel, Typed, Statuses
<1>2. Waiting' = Waiting
  BY DEF BootReadModel, Waiting
<1>3. QueueInv'
  BY <1>2 DEF BootReadModel, QueueInv, Answered
<1> QED
  BY <1>1, <1>3 DEF BootReadModel, BatchInv, SilentInv

\* It replaces the status.
LEMMA BootWriteBase == Base /\ BootWrite => Base'
<1> SUFFICES ASSUME Base, BootWrite PROVE Base'
  OBVIOUS
<1> USE DEF Base
<1>1. /\ bpc = "write" /\ bpc' = "done" /\ reply' = [reply EXCEPT !["boot"] = None]
      /\ status' = IF reply["boot"] = "failed" THEN Degraded(FromManifest(None, bmodel))
                   ELSE FromManifest(reply["boot"], bmodel)
      /\ UNCHANGED <<files, bounds, watching, events, watcher, queue, running, mconfig,
                     bmodel, lpc, history>>
  BY DEF BootWrite
<1>2. "boot" \in Clients
  BY DEF Clients
<1>3. status' \in Statuses
  BY <1>1, <1>2 DEF Typed, FromManifest, Degraded, Statuses
<1>4. reply' \in [Clients -> {None, "failed", "latest", "old"}]
  BY <1>1, <1>2 DEF Typed
<1>5. Typed'
  BY <1>1, <1>3, <1>4 DEF Typed
<1>6. \A c \in Clients \ {"boot"} : c \in Waiting => c \in Waiting'
  BY <1>1 DEF Waiting
<1>7. QueueInv'
  <2>1. reply["boot"] # None
    BY <1>1 DEF QueueInv
  <2> QED
    BY <1>1, <1>2, <1>6, <2>1, TrafficTakes
<1> QED
  BY <1>1, <1>5, <1>7 DEF BatchInv, SilentInv


\* The loader asks for its backfill.
LEMMA LoaderReadyBase == Base /\ LoaderReady => Base'
<1> SUFFICES ASSUME Base, LoaderReady PROVE Base'
  OBVIOUS
<1> USE DEF Base
<1> DEFINE order == [from |-> "loader", config |-> StartupConfig, scope |-> Full]
<1>1. /\ lpc = "load" /\ lpc' = "wait" /\ queue' = Append(queue, order)
      /\ status' = [status EXCEPT !.model = TRUE]
      /\ UNCHANGED <<files, bounds, watching, events, watcher, running, mconfig, reply,
                     bpc, bmodel, history>>
  BY DEF LoaderReady
<1>2. order \in Orders /\ order.from = "loader"
  BY Batches, DaemonAssumption DEF Orders, Clients, Settled
<1> HIDE DEF order
<1>3. queue' \in Seq(Orders) /\ status' \in Statuses
  <2>1. queue' \in Seq(Orders)
    BY <1>1, <1>2 DEF Typed
  <2> QED
    BY <1>1, <2>1, FieldsTyped
<1>4. Typed'
  BY <1>1, <1>3 DEF Typed
<1>5. "loader" \notin Waiting /\ "loader" \in Waiting'
      /\ \A c \in Clients : c \in Waiting => c \in Waiting'
  BY <1>1 DEF Waiting, Clients
<1>6. QueueInv'
  BY <1>1, <1>2, <1>5, TrafficSends
<1> QED
  BY <1>1, <1>4, <1>6 DEF BatchInv, SilentInv

\* There is no model: no backfill.
LEMMA LoaderFailsBase == Base /\ LoaderFails => Base'
<1> SUFFICES ASSUME Base, LoaderFails PROVE Base'
  OBVIOUS
<1> USE DEF Base
<1>1. Typed'
  BY DEF LoaderFails, Typed
<1>2. Waiting' = Waiting
  BY DEF LoaderFails, Waiting
<1>3. QueueInv'
  BY <1>2 DEF LoaderFails, QueueInv
<1> QED
  BY <1>1, <1>3 DEF LoaderFails, BatchInv, SilentInv

\* The loader has its answer.
LEMMA LoaderDoneBase == Base /\ LoaderDone => Base'
<1> SUFFICES ASSUME Base, LoaderDone PROVE Base'
  OBVIOUS
<1> USE DEF Base
<1>1. /\ lpc = "wait" /\ lpc' = "done" /\ reply["loader"] # None
      /\ reply' = [reply EXCEPT !["loader"] = None]
      /\ UNCHANGED <<files, bounds, watching, events, watcher, queue, running, mconfig,
                     bpc, bmodel, status, history>>
  BY DEF LoaderDone, Answered
<1>2. "loader" \in Clients
  BY DEF Clients
<1>3. reply' \in [Clients -> {None, "failed", "latest", "old"}]
  BY <1>1, <1>2 DEF Typed
<1>4. Typed'
  BY <1>1, <1>3 DEF Typed
<1>5. \A c \in Clients \ {"loader"} : c \in Waiting => c \in Waiting'
  BY <1>1 DEF Waiting
<1>6. QueueInv'
  BY <1>1, <1>2, <1>5, TrafficTakes
<1> QED
  BY <1>1, <1>4, <1>6 DEF BatchInv, SilentInv

\* A step that changes nothing.
LEMMA StutterBase == Base /\ UNCHANGED vars => Base'
  BY DEF Base, vars, Typed, BatchInv, QueueInv, Waiting, SilentInv

\* The traffic of the tasks stays in order, whichever of them moves next.
THEOREM TrafficInOrder == Spec => []Base
<1>1. Init => Base
  BY BaseInit
<1>2. Base /\ [Next]_vars => Base'
  <2> SUFFICES ASSUME Base, [Next]_vars PROVE Base'
    OBVIOUS
  <2>1. CASE Change
    BY <2>1, EditBase, WriteConfigBase DEF Change
  <2>2. CASE Backend
    BY <2>2, BackendRescanBase, DeliverBase DEF Backend
  <2>3. CASE WatcherTask
    BY <2>3, ArmBase, ReceiveBase, AbsorbOverflowBase, RejectConfigBase, StartBatchBase,
       SafetyTickBase, PassSucceededBase, PassFailedBase DEF WatcherTask
  <2>4. CASE ManagerTask
    BY <2>4, StartPassBase, FinishPassBase, FailPassBase, VisitFailsBase, VisitSourceBase
       DEF ManagerTask
  <2>5. CASE BootTask
    BY <2>5, BootSendBase, BootReadModelBase, BootWriteBase DEF BootTask
  <2>6. CASE LoaderTask
    BY <2>6, LoaderReadyBase, LoaderFailsBase, LoaderDoneBase DEF LoaderTask
  <2>7. CASE UNCHANGED vars
    BY <2>7, StutterBase
  <2> QED
    BY <2>1, <2>2, <2>3, <2>4, <2>5, <2>6, <2>7 DEF Next
<1> QED
  BY <1>1, <1>2, PTL DEF Spec

\* Every variable keeps its type, the batch and the channel their bounds, and no client
\* has two commands under way.
THEOREM TypeCorrect == Spec => []TypeOK
<1>1. Base => TypeOK
  <2> SUFFICES ASSUME Base PROVE TypeOK
    OBVIOUS
  <2>1. queue \in Seq(Commands)
    <3>1. \A i \in 1..Len(queue) : queue[i] \in Commands
      BY Queued DEF Base, Orders, Commands, Settled
    <3> QED
      BY <3>1 DEF Base, Typed
  <2>2. running \in Passes \cup {None}
    BY Queued DEF Base, Runs, Passes, Settled
  <2>3. DOMAIN queue = 1..Len(queue)
    BY DEF Base, Typed
  <2>4. /\ \A i, j \in DOMAIN queue : queue[i].from = queue[j].from => i = j
        /\ running # None => \A i \in DOMAIN queue : queue[i].from # running.from
    BY <2>3 DEF Base, QueueInv
  <2> QED
    BY <2>1, <2>2, <2>4 DEF Base, Typed, BatchInv, TypeOK, Settled, Events, Requests, Statuses
<1> QED
  BY <1>1, TrafficInOrder, PTL


-----------------------------------------------------------------------------
(* No change is lost. *)

\* What is proved for either basis: a change that its size or mtime shows, and whose
\* read has not failed.
Shown == (stale \cap noticed) \ (silent \cup unread)

TrackInv == ~configInvalid => \A s \in Shown : Tracked(s)

\* The watcher's command is queued or running, or it has not asked.
LEMMA NotAsking ==
    ASSUME Base, wpc # "await"
    PROVE  /\ reply["watcher"] = None
           /\ running # None => running.from # "watcher"
  BY DEF Base, QueueInv, Waiting, Clients

\* What stands for a change outside the manager is untouched.
LEMMA TrackedKept ==
    ASSUME NEW s, Tracked(s), s \in kernel => s \in kernel',
           chan' = chan, overflow' = overflow, pending' = pending,
           UnderWay(s) => UnderWay(s)'
    PROVE  Tracked(s)'
  BY DEF Tracked, Covers, Told

\* A pass under way is untouched.
LEMMA UnderWayKept ==
    ASSUME NEW s, UnderWay(s), UNCHANGED <<wpc, asked, reply, running>>
    PROVE  UnderWay(s)'
  BY DEF UnderWay, Covers

\* A change is noticed by the watch it is made under; a pass that had read the source
\* has read it too early.
LEMMA EditTracks ==
    ASSUME Base, TrackInv, NEW s \in Sources, NEW quietly \in BOOLEAN, Edit(s, quietly)
    PROVE  TrackInv'
<1> SUFFICES ASSUME ~configInvalid', NEW t \in Shown' PROVE Tracked(t)'
  BY DEF TrackInv
<1>1. CASE t = s
  BY <1>1 DEF Edit, Noticed, Notify, Shown, Tracked
<1>2. CASE t # s
  <2>1. t \in Shown /\ ~configInvalid
    BY <1>2 DEF Edit, Noticed, Shown
  <2>2. Tracked(t)
    BY <2>1 DEF TrackInv
  <2>3. UnderWay(t) => UnderWay(t)'
    <3>1. CASE running = None
      BY <3>1, UnderWayKept DEF Edit
    <3>2. CASE running # None
      <4>1. running \in Runs
        BY <3>2, Queued DEF Base
      <4>2. running' = [running EXCEPT !.clean = @ \ {s}]
        BY <3>2 DEF Edit
      <4>3. running'.from = running.from /\ running'.visited = running.visited
            /\ running'.clean = running.clean \ {s}
        BY <4>1, <4>2 DEF Runs
      <4>4. wpc' = wpc /\ asked' = asked /\ reply' = reply
        BY DEF Edit
      <4> QED
        BY <1>2, <3>2, <4>3, <4>4 DEF UnderWay, Covers
    <3> QED
      BY <3>1, <3>2
  <2>4. t \in kernel => t \in kernel'
    BY DEF Edit, Notify
  <2> QED
    BY <2>2, <2>3, <2>4, TrackedKept DEF Edit
<1> QED
  BY <1>1, <1>2

\* A write of the configuration is no change of a source.
LEMMA WriteConfigTracks ==
    ASSUME Base, TrackInv, NEW c \in Configs \cup {"invalid"}, WriteConfig(c)
    PROVE  TrackInv'
<1> SUFFICES ASSUME ~configInvalid', NEW t \in Shown' PROVE Tracked(t)'
  BY DEF TrackInv
<1>1. t \in Shown /\ ~configInvalid
  BY DaemonAssumption DEF WriteConfig, Noticed, Shown, Base, Typed
<1>2. Tracked(t) /\ (UnderWay(t) => UnderWay(t)')
  BY <1>1, UnderWayKept DEF TrackInv, WriteConfig
<1> QED
  BY <1>2, TrackedKept DEF WriteConfig, Notify

\* What try_send is given stands for its source, in the channel or as an overflow, and
\* what was there still does.
LEMMA SendTracks ==
    ASSUME Typed, NEW e \in Events, Send(e), NEW t
    PROVE  /\ e \in Told(t) => overflow' \/ \E i \in DOMAIN chan' : chan'[i] \in Told(t)
           /\ (\E i \in DOMAIN chan : chan[i] \in Told(t)) =>
                 \E i \in DOMAIN chan' : chan'[i] \in Told(t)
           /\ overflow => overflow'
<1>1. CASE Len(chan) < ChannelCapacity
  <2>1. chan \in Seq(Events) /\ chan' = Append(chan, e) /\ overflow' = overflow
    BY <1>1 DEF Send, Typed
  <2>2. /\ DOMAIN chan = 1..Len(chan) /\ DOMAIN chan' = 1..(Len(chan) + 1) /\ Len(chan) \in Nat
        /\ chan'[Len(chan) + 1] = e
        /\ \A i \in 1..Len(chan) : chan'[i] = chan[i]
    BY <2>1
  <2>3. \A i \in DOMAIN chan : i \in DOMAIN chan' /\ chan'[i] = chan[i]
    BY <2>2
  <2>4. Len(chan) + 1 \in DOMAIN chan'
    BY <2>2
  <2> QED
    BY <2>1, <2>2, <2>3, <2>4
<1>2. CASE ~(Len(chan) < ChannelCapacity)
  BY <1>2 DEF Send
<1> QED
  BY <1>1, <1>2

\* Notifications move on to the channel.
LEMMA DeliverTracks ==
    ASSUME Base, TrackInv, NEW e \in Sources \cup {"config"}, Deliver(e)
    PROVE  TrackInv'
<1> SUFFICES ASSUME ~configInvalid', NEW t \in Shown' PROVE Tracked(t)'
  BY DEF TrackInv
<1>1. t \in Shown /\ ~configInvalid
  BY DEF Deliver, Shown
<1>2. Tracked(t) /\ (UnderWay(t) => UnderWay(t)') /\ pending' = pending
  BY <1>1, UnderWayKept DEF TrackInv, Deliver
<1>3. Send(e) /\ e \in Events /\ kernel' = kernel \ {e}
  BY DEF Deliver, Events
<1>4. /\ e \in Told(t) => overflow' \/ \E i \in DOMAIN chan' : chan'[i] \in Told(t)
      /\ (\E i \in DOMAIN chan : chan[i] \in Told(t)) =>
            \E i \in DOMAIN chan' : chan'[i] \in Told(t)
      /\ overflow => overflow'
  BY <1>3, SendTracks DEF Base
<1>5. Told(t)' = Told(t) /\ t \in Told(t)
  BY DEF Told
<1> QED
  BY <1>2, <1>3, <1>4, <1>5 DEF Tracked, Covers

\* The rescan of the backend stands for all it drops.
LEMMA BackendRescanTracks == Base /\ TrackInv /\ BackendRescan => TrackInv'
<1> SUFFICES ASSUME Base, TrackInv, BackendRescan, ~configInvalid', NEW t \in Shown'
    PROVE  Tracked(t)'
  BY DEF TrackInv
<1>1. Send("rescan") /\ "rescan" \in Events /\ "rescan" \in Told(t)
  BY DEF BackendRescan, Events, Told
<1>2. overflow' \/ \E i \in DOMAIN chan' : chan'[i] \in Told(t)
  BY <1>1, SendTracks DEF Base
<1> QED
  BY <1>2 DEF Tracked, Told

\* An armed watcher has not asked for anything; its batch may only have grown.
LEMMA ArmTracks ==
    ASSUME Base, TrackInv, NEW ok \in SUBSET {"config", "roots"}, Arm(ok)
    PROVE  TrackInv'
<1> SUFFICES ASSUME ~configInvalid', NEW t \in Shown' PROVE Tracked(t)'
  BY DEF TrackInv
<1>1. t \in Shown /\ ~configInvalid
  BY DEF Arm, Shown
<1>2. Tracked(t) /\ ~UnderWay(t)
  BY <1>1 DEF TrackInv, Arm, UnderWay
<1>3. Covers(pending, t) => Covers(pending', t)
  BY Batches DEF Arm, NoteRescan, Covers
<1> QED
  BY <1>2, <1>3 DEF Arm, Tracked, Covers, Told

\* An event that is taken from the channel is in the batch.
LEMMA ReceiveTracks == Base /\ TrackInv /\ Receive => TrackInv'
<1> SUFFICES ASSUME Base, TrackInv, Receive, ~configInvalid', NEW t \in Shown'
    PROVE  Tracked(t)'
  BY DEF TrackInv
<1>1. t \in Shown /\ ~configInvalid /\ t \in Sources
  BY DEF Receive, Shown, Base, Typed
<1>2. Tracked(t) /\ ~UnderWay(t)
  BY <1>1 DEF TrackInv, Receive, UnderWay
<1>3. chan \in Seq(Events) /\ chan # <<>> /\ chan' = Tail(chan)
  BY DEF Receive, Base, Typed
<1>4. /\ DOMAIN chan = 1..Len(chan) /\ DOMAIN chan' = 1..(Len(chan) - 1) /\ Len(chan) \in Nat
      /\ Head(chan) = chan[1]
      /\ \A i \in 1..(Len(chan) - 1) : chan'[i] = chan[i + 1]
  BY <1>3
<1>5. \/ pending' = Full
      \/ Head(chan) \in Sources /\ pending' = Insert(pending, {Head(chan)})
  BY DEF Receive, NoteRescan
<1>6. CASE pending' = Full
  BY <1>6, Batches DEF Tracked, Covers
<1>7. CASE Head(chan) \in Sources /\ pending' = Insert(pending, {Head(chan)})
  <2>1. pending \in Scopes /\ {Head(chan)} \in SUBSET Sources
        /\ Cardinality(pending.touched) <= PathCapacity
        /\ (pending.rescan => pending.touched = {})
    BY <1>7 DEF Base, Typed, BatchInv
  <2>2. Covers(pending, t) \/ t = Head(chan) => Covers(pending', t)
    BY <1>7, <2>1, InsertBatch
  <2>3. ASSUME NEW i \in DOMAIN chan, chan[i] \in Told(t)
        PROVE  t = Head(chan) \/ \E j \in DOMAIN chan' : chan'[j] \in Told(t)
    <3>1. CASE i = 1
      BY <1>4, <1>7, <2>3, <3>1, DaemonAssumption DEF Told
    <3>2. CASE i # 1
      <4>1. i - 1 \in DOMAIN chan' /\ chan'[i - 1] = chan[i]
        BY <1>4, <3>2
      <4> QED
        BY <2>3, <4>1
    <3> QED
      BY <3>1, <3>2
  <2>4. kernel' = kernel /\ overflow' = overflow
    BY DEF Receive
  <2>5. CASE \E i \in DOMAIN chan : chan[i] \in Told(t)
    BY <2>2, <2>3, <2>5 DEF Tracked, Told, Covers
  <2>6. CASE ~ \E i \in DOMAIN chan : chan[i] \in Told(t)
    BY <1>2, <2>2, <2>4, <2>6 DEF Tracked, Told, Covers
  <2> QED
    BY <2>5, <2>6
<1> QED
  BY <1>5, <1>6, <1>7

\* An overflow becomes a full batch.
LEMMA AbsorbOverflowTracks == Base /\ TrackInv /\ AbsorbOverflow => TrackInv'
<1> SUFFICES ASSUME AbsorbOverflow, NEW t \in Shown' PROVE Tracked(t)'
  BY DEF TrackInv
<1>1. pending' = Full
  BY DEF AbsorbOverflow, NoteRescan
<1> QED
  BY <1>1, Batches DEF Tracked, Covers

\* The batch becomes the scope of the pass; a reload that clears an invalid
\* configuration comes with a full one.
LEMMA StartBatchTracks ==
    ASSUME Base, TrackInv, NEW ok \in BOOLEAN, StartBatch(ok)
    PROVE  TrackInv'
<1> SUFFICES ASSUME ~configInvalid', NEW t \in Shown' PROVE Tracked(t)'
  BY DEF TrackInv
<1>1. t \in Shown /\ wpc = "select" /\ UNCHANGED <<kernel, chan, overflow, running, reply>>
  BY DEF StartBatch, Due, Ask, Shown
<1>2. wpc' = "await" /\ asked'.kind = "debounce"
      /\ asked'.scope = IF ok THEN pending ELSE Full
  BY DEF StartBatch, Ask, NoteRescan
<1>3. Covers(pending, t) => UnderWay(t)'
  <2>1. Covers(pending, t) => Covers(asked'.scope, t)
    BY <1>2, Batches DEF Covers
  <2>2. reply'["watcher"] = None /\ (running' # None => running'.from # "watcher")
    BY <1>1, NotAsking
  <2> QED
    BY <1>2, <2>1, <2>2 DEF UnderWay, Covers
<1>4. CASE configInvalid
  <2>1. configDirty
    BY <1>4, Zenon DEF StartBatch, ReloadConfig
  <2>2. pending.rescan
    BY <2>1 DEF Base, BatchInv
  <2> QED
    BY <1>3, <2>2 DEF Tracked, Covers
<1>5. CASE ~configInvalid
  <2>1. Tracked(t) /\ ~UnderWay(t)
    BY <1>1, <1>5 DEF TrackInv, UnderWay
  <2> QED
    BY <1>1, <1>3, <2>1 DEF Tracked, Told
<1> QED
  BY <1>4, <1>5

\* The safety tick leaves the batch.
LEMMA SafetyTickTracks ==
    ASSUME Base, TrackInv, NEW ok \in BOOLEAN, SafetyTick(ok)
    PROVE  TrackInv'
<1> SUFFICES ASSUME ~configInvalid', NEW t \in Shown' PROVE Tracked(t)'
  BY DEF TrackInv
<1>1. t \in Shown /\ ~configInvalid /\ wpc = "select"
      /\ UNCHANGED <<kernel, chan, overflow, pending>>
  BY DEF SafetyTick, Shown
<1>2. Tracked(t) /\ ~UnderWay(t)
  BY <1>1 DEF TrackInv, UnderWay
<1> QED
  BY <1>1, <1>2 DEF Tracked, Told, Covers

\* A pass that succeeded stands for nothing any more.
LEMMA PassSucceededTracks == Base /\ TrackInv /\ PassSucceeded => TrackInv'
<1> SUFFICES ASSUME Base, TrackInv, PassSucceeded, ~configInvalid', NEW t \in Shown'
    PROVE  Tracked(t)'
  BY DEF TrackInv
<1>1. t \in Shown /\ ~configInvalid /\ UNCHANGED <<kernel, chan, overflow, pending>>
  BY DEF PassSucceeded, Shown
<1>2. Tracked(t) /\ ~UnderWay(t)
  BY <1>1 DEF TrackInv, UnderWay, PassSucceeded, Answered
<1> QED
  BY <1>1, <1>2 DEF Tracked, Told, Covers

\* A pass that failed gives its scope back.
LEMMA PassFailedTracks == Base /\ TrackInv /\ PassFailed => TrackInv'
<1> SUFFICES ASSUME Base, TrackInv, PassFailed, ~configInvalid', NEW t \in Shown'
    PROVE  Tracked(t)'
  BY DEF TrackInv
<1>1. t \in Shown /\ ~configInvalid /\ UNCHANGED <<kernel, chan, overflow>>
  BY DEF PassFailed, Shown
<1>2. Tracked(t)
  BY <1>1 DEF TrackInv
<1>3. Covers(pending, t) \/ UnderWay(t) => Covers(pending', t)
  <2>1. CASE asked.kind = "debounce" /\ pending' = MergeBack(pending, asked.scope)
    <3>1. pending \in Scopes /\ asked.scope \in Scopes
          /\ Cardinality(pending.touched) <= PathCapacity
          /\ (pending.rescan => pending.touched = {})
      BY DEF Base, Typed, Requests, BatchInv
    <3> QED
      BY <2>1, <3>1, MergeBatch DEF UnderWay
  <2>2. CASE asked.kind = "safety" /\ UNCHANGED pending
    BY <2>2 DEF UnderWay
  <2> QED
    BY <2>1, <2>2 DEF PassFailed
<1> QED
  BY <1>1, <1>2, <1>3 DEF Tracked, Told, Covers


\* Steps that touch neither the sources, the notifications, the batch nor the watcher.
LEMMA OthersTrack ==
    ASSUME Base, TrackInv,
           UNCHANGED <<noticed, configInvalid, kernel, chan, overflow, pending, wpc, asked>>,
           stale' \in SUBSET stale, (silent \cup unread) \cap stale' \in SUBSET (silent \cup unread)',
           \A t \in Shown : t \in Shown' /\ UnderWay(t) => UnderWay(t)'
    PROVE  TrackInv'
<1> SUFFICES ASSUME ~configInvalid', NEW t \in Shown' PROVE Tracked(t)'
  BY DEF TrackInv
<1>1. t \in Shown /\ ~configInvalid
  BY DEF Shown
<1>2. Tracked(t) /\ (UnderWay(t) => UnderWay(t)')
  BY <1>1 DEF TrackInv
<1> QED
  BY <1>2, TrackedKept

\* The pass of the watcher's command starts with nothing visited.
LEMMA StartPassTracks == Base /\ TrackInv /\ StartPass => TrackInv'
<1> SUFFICES ASSUME Base, TrackInv, StartPass PROVE TrackInv'
  OBVIOUS
<1>1. running'.visited = {} /\ wpc' = wpc /\ asked' = asked /\ reply' = reply
  BY DEF StartPass
<1>2. \A t : UnderWay(t) => UnderWay(t)'
  BY <1>1 DEF UnderWay, Covers
<1> QED
  BY <1>2, OthersTrack DEF StartPass

\* A visit reads a source that its scope covers, if size or mtime shows the change.
LEMMA VisitSourceTracks ==
    ASSUME Base, TrackInv, NEW s \in Sources, NEW read \in BOOLEAN, VisitSource(s, read)
    PROVE  TrackInv'
<1>1. running # None /\ running \in Runs
  BY Queued DEF VisitSource, Unvisited, Base
<1>2. running' = [running EXCEPT !.visited = @ \cup {s},
                                 !.clean = IF read THEN @ \cup {s} ELSE @]
  BY DEF VisitSource
<1>3. /\ running'.from = running.from /\ running'.visited = running.visited \cup {s}
      /\ running'.clean = IF read THEN running.clean \cup {s} ELSE running.clean
  BY <1>1, <1>2 DEF Runs
<1>4. wpc' = wpc /\ asked' = asked /\ reply' = reply
  BY DEF VisitSource
<1>5. ASSUME NEW t \in Shown, UnderWay(t) PROVE UnderWay(t)'
  <2>1. t = s => read
    BY DEF VisitSource, MustRead, Shown
  <2>2. t \in running'.visited =>
          t = s \/ t \in running.visited
    BY <1>3
  <2>3. running' # None /\ running'.from = "watcher" /\ t \in running'.visited
          /\ reply["watcher"] = None => t \in running'.clean
    BY <1>1, <1>3, <1>5, <2>1, <2>2, AnswerNotNone DEF UnderWay
  <2> QED
    BY <1>4, <1>5, <2>3 DEF UnderWay, Covers
<1> QED
  BY <1>5, OthersTrack DEF VisitSource

\* A read that fails leaves the source to the safety pass.
LEMMA VisitFailsTracks ==
    ASSUME Base, TrackInv, NEW s \in Sources, VisitFails(s)
    PROVE  TrackInv'
<1> SUFFICES ASSUME ~configInvalid', NEW t \in Shown' PROVE Tracked(t)'
  BY DEF TrackInv
<1>1. t \in Shown /\ ~configInvalid /\ t # s
  BY DEF VisitFails, Shown
<1>2. running # None /\ running \in Runs
  BY Queued DEF VisitFails, Unvisited, Base
<1>3. running' = [running EXCEPT !.visited = @ \cup {s}]
  BY DEF VisitFails
<1>4. /\ running'.from = running.from /\ running'.visited = running.visited \cup {s}
      /\ running'.clean = running.clean
  BY <1>2, <1>3 DEF Runs
<1>5. UnderWay(t) => UnderWay(t)'
  BY <1>1, <1>2, <1>4 DEF VisitFails, UnderWay, Covers
<1> QED
  BY <1>1, <1>5, TrackedKept DEF VisitFails, TrackInv

\* The pass under way ends: every source is visited, and what was read is up to date.
LEMMA FinishPassTracks == Base /\ TrackInv /\ FinishPass => TrackInv'
<1> SUFFICES ASSUME Base, TrackInv, FinishPass PROVE TrackInv'
  OBVIOUS
<1>1. /\ running # None /\ running.visited = Sources /\ running' = None
      /\ stale' = stale \ running.clean /\ silent' = silent \ running.clean
      /\ unread' = unread \ running.clean
      /\ UNCHANGED <<noticed, configInvalid, kernel, chan, overflow, pending, wpc, asked>>
  BY DEF FinishPass
<1>2. running.from # "watcher" =>
        /\ reply["watcher"] = None => reply'["watcher"] = None
        /\ reply["watcher"] = "failed" => reply'["watcher"] = "failed"
  BY AnswerNotNone DEF FinishPass, Clients, Outdated
<1>3. ASSUME NEW t \in Shown, t \in Shown', UnderWay(t) PROVE UnderWay(t)'
  <2>1. t \in Sources /\ t \notin running.clean
    BY <1>1, <1>3 DEF Shown, Base, Typed
  <2>2. CASE running.from = "watcher"
    <3>1. reply["watcher"] = None
      BY <1>1, <2>2 DEF Base, QueueInv
    <3> QED
      BY <1>1, <1>3, <2>1, <2>2, <3>1, AnswerNotNone DEF UnderWay
  <2>3. CASE running.from # "watcher"
    BY <1>1, <1>2, <1>3, <2>3 DEF UnderWay, Covers
  <2> QED
    BY <2>2, <2>3
<1> QED
  BY <1>1, <1>3, OthersTrack

\* The pass fails: if it was the watcher's, the batch will come back.
LEMMA FailPassTracks == Base /\ TrackInv /\ FailPass => TrackInv'
<1> SUFFICES ASSUME Base, TrackInv, FailPass PROVE TrackInv'
  OBVIOUS
<1>1. /\ running' = None /\ reply' = [reply EXCEPT ![running.from] = "failed"]
      /\ wpc' = wpc /\ asked' = asked
  BY DEF FailPass
<1>2. reply'["watcher"] \in {"failed", reply["watcher"]}
  BY <1>1 DEF Base, Typed, Clients
<1>3. \A t \in Shown : UnderWay(t) => UnderWay(t)'
  BY <1>1, <1>2 DEF UnderWay, Covers
<1> QED
  BY <1>3, OthersTrack DEF FailPass

\* The boot sequence and the loader touch their own answers only.
LEMMA BootAndLoaderTrack == Base /\ TrackInv /\ (BootTask \/ LoaderTask) => TrackInv'
<1> SUFFICES ASSUME Base, TrackInv, BootTask \/ LoaderTask PROVE TrackInv'
  OBVIOUS
<1>1. /\ UNCHANGED <<noticed, configInvalid, kernel, chan, overflow, pending, wpc, asked>>
      /\ UNCHANGED <<stale, silent, unread, running>>
  BY DEF BootTask, LoaderTask, BootSend, BootReadModel, BootWrite, LoaderReady, LoaderFails,
         LoaderDone
<1>2. reply'["watcher"] = reply["watcher"]
  BY DEF BootTask, LoaderTask, BootSend, BootReadModel, BootWrite, LoaderReady, LoaderFails,
         LoaderDone, Base, Typed, Clients
<1>3. \A t : UnderWay(t) => UnderWay(t)'
  BY <1>1, <1>2 DEF UnderWay, Covers
<1> QED
  BY <1>1, <1>3, OthersTrack

\* A change that was noticed and that its size or mtime shows is tracked until it is
\* indexed, by either basis.
THEOREM ShownChangesTracked == Spec => []TrackInv
<1>1. Init => TrackInv
  BY DEF Init, TrackInv, Shown
<1>2. Base /\ TrackInv /\ [Next]_vars => TrackInv'
  <2> SUFFICES ASSUME Base, TrackInv, [Next]_vars PROVE TrackInv'
    OBVIOUS
  <2>1. CASE Change
    BY <2>1, EditTracks, WriteConfigTracks DEF Change
  <2>2. CASE Backend
    BY <2>2, BackendRescanTracks, DeliverTracks DEF Backend
  <2>3. CASE WatcherTask
    <3>1. CASE RejectConfig
      BY <3>1 DEF RejectConfig, TrackInv
    <3> QED
      BY <2>3, <3>1, ArmTracks, ReceiveTracks, AbsorbOverflowTracks, StartBatchTracks,
         SafetyTickTracks, PassSucceededTracks, PassFailedTracks DEF WatcherTask
  <2>4. CASE ManagerTask
    BY <2>4, StartPassTracks, FinishPassTracks, FailPassTracks, VisitFailsTracks,
       VisitSourceTracks DEF ManagerTask
  <2>5. CASE BootTask \/ LoaderTask
    BY <2>5, BootAndLoaderTrack
  <2>6. CASE UNCHANGED vars
    BY <2>6 DEF vars, TrackInv, Shown, Tracked, UnderWay, Covers, Told
  <2> QED
    BY <2>1, <2>2, <2>3, <2>4, <2>5, <2>6 DEF Next
<1> QED
  BY <1>1, <1>2, TrafficInOrder, PTL DEF Spec

\* With strict_hash every change that was noticed is tracked until the index holds it
\* or a read of it fails,
\* through overflows, rescans, failed passes and edits that race the reads, for every
\* capacity of the channel and of the batch and however the daemon came up.
THEOREM NoChangeLost ==
    ASSUME Basis # "metadata_audit"
    PROVE  Spec => []ChangeIsTracked
<1>1. Base /\ TrackInv => ChangeIsTracked
  BY DEF Base, SilentInv, TrackInv, Shown, ChangeIsTracked
<1> QED
  BY <1>1, TrafficInOrder, ShownChangesTracked, PTL


-----------------------------------------------------------------------------
(* A previous generation is never called current. *)

\* What changed before the daemon came up, is not indexed, and a pass can take in.
Missed == (stale \cap offline) \ (silent \cup unread)

\* While there is such a source no pass has succeeded, and the running one has read
\* those of them it visited.
OfflineInv ==
    Missed # {} =>
      /\ status.gen = None
      /\ \A c \in Clients : reply[c] \in {None, "failed"}
      /\ running # None => Missed \cap running.visited \subseteq running.clean

\* Steps that change neither the sources, the passes nor the generation of the status.
LEMMA OthersOffline ==
    ASSUME Base, OfflineInv, UNCHANGED <<stale, silent, offline, unread, running>>,
           status'.gen = status.gen,
           \A c \in Clients : reply'[c] \in {None, reply[c]}
    PROVE  OfflineInv'
  BY DEF OfflineInv, Missed

\* The watcher's, the backend's and the loader's steps are such.
LEMMA WatcherOffline ==
    ASSUME Base, OfflineInv,
           \/ \E c \in Configs \cup {"invalid"} : WriteConfig(c)
           \/ Backend
           \/ \E ok \in SUBSET {"config", "roots"} : Arm(ok)
           \/ Receive \/ AbsorbOverflow \/ RejectConfig
           \/ \E ok \in BOOLEAN : StartBatch(ok) \/ SafetyTick(ok)
           \/ PassFailed \/ BootSend \/ BootReadModel \/ LoaderTask
    PROVE  OfflineInv'
<1>1. status \in Statuses /\ reply \in [Clients -> {None, "failed", "latest", "old"}]
  BY DEF Base, Typed
<1>2. UNCHANGED <<stale, silent, offline, unread, running>>
  BY DEF WriteConfig, Backend, BackendRescan, Deliver, Arm, Receive, AbsorbOverflow,
         RejectConfig, StartBatch, SafetyTick, Ask, PassFailed, BootSend, BootReadModel,
         LoaderTask, LoaderReady, LoaderFails, LoaderDone
<1>3. status'.gen = status.gen
  BY <1>1 DEF WriteConfig, Backend, BackendRescan, Deliver, Arm, Receive, AbsorbOverflow,
         RejectConfig, StartBatch, SafetyTick, PassFailed, BootSend, BootReadModel,
         LoaderTask, LoaderReady, LoaderFails, LoaderDone, Degraded, Statuses
<1>4. \A c \in Clients : reply'[c] \in {None, reply[c]}
  BY <1>1 DEF WriteConfig, Backend, BackendRescan, Deliver, Arm, Receive, AbsorbOverflow,
         RejectConfig, StartBatch, SafetyTick, Ask, PassFailed, BootSend, BootReadModel,
         LoaderTask, LoaderReady, LoaderFails, LoaderDone
<1> QED
  BY <1>2, <1>3, <1>4, OthersOffline

\* An edit makes its source one that changed since.
LEMMA EditOffline ==
    ASSUME Base, OfflineInv, NEW s \in Sources, NEW quietly \in BOOLEAN, Edit(s, quietly)
    PROVE  OfflineInv'
<1>1. Missed' \subseteq Missed \ {s}
  BY DEF Edit, Missed
<1>2. status' = status /\ reply' = reply
  BY DEF Edit
<1>3. Missed' # {} /\ running' # None => Missed' \cap running'.visited \subseteq running'.clean
  <2> SUFFICES ASSUME Missed' # {}, running' # None
      PROVE  Missed' \cap running'.visited \subseteq running'.clean
    OBVIOUS
  <2>1. running # None /\ running \in Runs
    BY Queued DEF Edit, Base
  <2>2. running'.visited = running.visited /\ running'.clean = running.clean \ {s}
    BY <2>1 DEF Edit, Runs
  <2> QED
    BY <1>1, <2>1, <2>2 DEF OfflineInv
<1> QED
  BY <1>1, <1>2, <1>3 DEF OfflineInv

\* A pass starts with nothing visited.
LEMMA StartPassOffline == Base /\ OfflineInv /\ StartPass => OfflineInv'
<1> SUFFICES ASSUME OfflineInv, StartPass PROVE OfflineInv'
  OBVIOUS
<1>1. running'.visited = {} /\ UNCHANGED <<stale, silent, offline, unread, status, reply>>
  BY DEF StartPass
<1> QED
  BY <1>1 DEF OfflineInv, Missed

\* A visit reads such a source, for its size or mtime shows the change.
LEMMA VisitSourceOffline ==
    ASSUME Base, OfflineInv, NEW s \in Sources, NEW read \in BOOLEAN, VisitSource(s, read)
    PROVE  OfflineInv'
<1>1. running # None /\ running \in Runs
  BY Queued DEF VisitSource, Unvisited, Base
<1>2. /\ running'.visited = running.visited \cup {s}
      /\ running'.clean = IF read THEN running.clean \cup {s} ELSE running.clean
  BY <1>1 DEF VisitSource, Runs
<1>3. UNCHANGED <<stale, silent, offline, unread, status, reply>>
  BY DEF VisitSource
<1>4. s \in Missed => read
  BY DEF VisitSource, MustRead, OfflineInv, Missed
<1> QED
  BY <1>1, <1>2, <1>3, <1>4 DEF OfflineInv, Missed

\* A source whose read fails is left to a later pass.
LEMMA VisitFailsOffline ==
    ASSUME Base, OfflineInv, NEW s \in Sources, VisitFails(s)
    PROVE  OfflineInv'
<1>1. running # None /\ running \in Runs
  BY Queued DEF VisitFails, Unvisited, Base
<1>2. running'.visited = running.visited \cup {s} /\ running'.clean = running.clean
  BY <1>1 DEF VisitFails, Runs
<1>3. UNCHANGED <<stale, silent, offline, status, reply>> /\ unread' = unread \cup {s}
  BY DEF VisitFails
<1> QED
  BY <1>1, <1>2, <1>3 DEF OfflineInv, Missed

\* A pass that ends has indexed them all.
LEMMA FinishPassOffline == Base /\ OfflineInv /\ FinishPass => OfflineInv'
<1> SUFFICES ASSUME Base, OfflineInv, FinishPass PROVE OfflineInv'
  OBVIOUS
<1>1. /\ running # None /\ running.visited = Sources
      /\ stale' = stale \ running.clean /\ silent' = silent \ running.clean
      /\ offline' = offline /\ unread' = unread \ running.clean
  BY DEF FinishPass
<1>2. Missed \subseteq running.clean
  BY <1>1 DEF OfflineInv, Missed, Base, Typed
<1> QED
  BY <1>1, <1>2 DEF OfflineInv, Missed

\* A pass that fails answers "failed".
LEMMA FailPassOffline == Base /\ OfflineInv /\ FailPass => OfflineInv'
<1> SUFFICES ASSUME Base, OfflineInv, FailPass PROVE OfflineInv'
  OBVIOUS
<1>1. /\ running' = None /\ reply' = [reply EXCEPT ![running.from] = "failed"]
      /\ UNCHANGED <<stale, silent, offline, unread, status>>
  BY DEF FailPass
<1>2. \A c \in Clients : reply'[c] \in {"failed", reply[c]}
  BY <1>1 DEF Base, Typed
<1> QED
  BY <1>1, <1>2 DEF OfflineInv, Missed

\* The watcher and the boot sequence write the generation of a pass that succeeded,
\* or none.
LEMMA WritesOffline == Base /\ OfflineInv /\ (PassSucceeded \/ BootWrite) => OfflineInv'
<1> SUFFICES ASSUME Base, OfflineInv, PassSucceeded \/ BootWrite PROVE OfflineInv'
  OBVIOUS
<1>1. UNCHANGED <<stale, silent, offline, unread, running>>
  BY DEF PassSucceeded, BootWrite
<1>2. \A c \in Clients : reply'[c] \in {None, reply[c]}
  BY DEF PassSucceeded, BootWrite, Base, Typed
<1>3. Missed # {} => status'.gen = None
  <2>1. CASE PassSucceeded
    BY <2>1 DEF PassSucceeded, Answered, OfflineInv, Clients
  <2>2. CASE BootWrite
    <3> SUFFICES ASSUME Missed # {} PROVE status'.gen = None
      OBVIOUS
    <3>1. reply["boot"] \in {None, "failed"}
      BY DEF OfflineInv, Clients
    <3> QED
      BY <2>2, <3>1, AnswerNotNone DEF BootWrite, FromManifest, Degraded
  <2> QED
    BY <2>1, <2>2
<1> QED
  BY <1>1, <1>2, <1>3 DEF OfflineInv, Missed

\* The comment in serve, for every interleaving of boot, watcher, loader and manager:
\* when an answer is called current, a file that changed before the daemon came up and
\* is not indexed is one whose read failed, or whose change metadata_audit cannot see.
THEOREM StaleBeforeBoot == Spec => []OfflineChangesFirst
<1>1. Init => OfflineInv
  <2> SUFFICES ASSUME Init PROVE OfflineInv
    OBVIOUS
  <2>1. PICK how \in Boots :
          /\ offline = IF how = "reopened" THEN stale ELSE {}
          /\ reply = [client \in Clients |->
                        IF how = "fresh" /\ client = "boot" THEN "latest" ELSE None]
          /\ status = IF how = "booted"
                        THEN FromManifest("latest", FALSE)
                        ELSE [gen |-> None, dirty |-> TRUE, rebuilding |-> how = "reopened",
                              degraded |-> FALSE, model |-> FALSE]
    BY DEF Init
  <2>2. running = None
    BY DEF Init
  <2>3. CASE how = "reopened"
    BY <2>1, <2>2, <2>3 DEF OfflineInv, Missed
  <2>4. CASE how # "reopened"
    BY <2>1, <2>2, <2>4 DEF OfflineInv, Missed
  <2> QED
    BY <2>3, <2>4
<1>2. Base /\ OfflineInv /\ [Next]_vars => OfflineInv'
  <2> SUFFICES ASSUME Base, OfflineInv, [Next]_vars PROVE OfflineInv'
    OBVIOUS
  <2>1. CASE Change \/ Backend
    BY <2>1, EditOffline, WatcherOffline DEF Change
  <2>2. CASE WatcherTask
    BY <2>2, WatcherOffline, WritesOffline DEF WatcherTask
  <2>3. CASE ManagerTask
    BY <2>3, StartPassOffline, FinishPassOffline, FailPassOffline, VisitFailsOffline,
       VisitSourceOffline DEF ManagerTask
  <2>4. CASE BootTask \/ LoaderTask
    BY <2>4, WatcherOffline, WritesOffline DEF BootTask
  <2>5. CASE UNCHANGED vars
    BY <2>5 DEF vars, OfflineInv, Missed
  <2> QED
    BY <2>1, <2>2, <2>3, <2>4, <2>5 DEF Next
<1>3. OfflineInv => OfflineChangesFirst
  BY AnswerNotNone DEF OfflineInv, Missed, OfflineChangesFirst, Current
<1> QED
  BY <1>1, <1>2, <1>3, TrafficInOrder, PTL DEF Spec


-----------------------------------------------------------------------------
(* "current" is honest once the daemon has booted. *)

\* What the watcher was told of and the index lacks, where size or mtime shows it and
\* no read failed.
Lacking == (stale \cap known) \ (silent \cup unread)

\* While there is such a source the status is dirty; the watcher's pass, asked for
\* after the watcher was told, has not succeeded, and has read what it visited.
HonestInv ==
    /\ bpc = "done"
    /\ Lacking # {} =>
         /\ status.dirty
         /\ reply["watcher"] \in {None, "failed"}
         /\ running # None /\ running.from = "watcher" =>
              Lacking \cap running.visited \subseteq running.clean

\* Steps that tell the watcher nothing and leave the passes and the status alone.
LEMMA OthersHonest ==
    ASSUME Base, HonestInv, UNCHANGED <<bpc, stale, silent, known, unread, running>>,
           status.dirty => status'.dirty, reply'["watcher"] = reply["watcher"]
    PROVE  HonestInv'
  BY DEF HonestInv, Lacking

\* The watcher's own steps before it asks: it is told with the status marked dirty.
LEMMA SelectHonest ==
    ASSUME Base, HonestInv, wpc # "await", status'.dirty,
           UNCHANGED <<bpc, running, reply>>
    PROVE  HonestInv'
  BY NotAsking DEF HonestInv

\* Steps of the environment, the manager's queue and the loader.
LEMMA EnvironmentHonest ==
    ASSUME Base, HonestInv,
           \/ \E c \in Configs \cup {"invalid"} : WriteConfig(c)
           \/ Backend \/ LoaderTask
    PROVE  HonestInv'
<1>1. status \in Statuses /\ reply \in [Clients -> {None, "failed", "latest", "old"}]
  BY DEF Base, Typed
<1>2. UNCHANGED <<bpc, stale, silent, known, unread, running>>
  BY DEF WriteConfig, Backend, BackendRescan, Deliver, LoaderTask, LoaderReady, LoaderFails,
         LoaderDone
<1>3. status.dirty => status'.dirty
  BY <1>1 DEF WriteConfig, Backend, BackendRescan, Deliver, LoaderTask, LoaderReady,
         LoaderFails, LoaderDone, Statuses
<1>4. reply'["watcher"] = reply["watcher"]
  BY <1>1 DEF WriteConfig, Backend, BackendRescan, Deliver, LoaderTask, LoaderReady,
         LoaderFails, LoaderDone, Clients
<1> QED
  BY <1>2, <1>3, <1>4, OthersHonest

\* Being told, dropping a batch and asking all mark the status dirty.
LEMMA WatcherHonest ==
    ASSUME Base, HonestInv,
           \/ Receive \/ AbsorbOverflow \/ RejectConfig
           \/ \E ok \in BOOLEAN : StartBatch(ok) \/ SafetyTick(ok)
    PROVE  HonestInv'
<1>1. status \in Statuses
  BY DEF Base, Typed
<1>2. wpc # "await"
  BY DEF Receive, AbsorbOverflow, RejectConfig, StartBatch, SafetyTick, Due
<1>3. status'.dirty
  BY <1>1 DEF Receive, AbsorbOverflow, RejectConfig, StartBatch, SafetyTick, Degraded, Statuses
<1>4. UNCHANGED <<bpc, running, reply>>
  BY DEF Receive, AbsorbOverflow, RejectConfig, StartBatch, SafetyTick, Ask
<1> QED
  BY <1>2, <1>3, <1>4, SelectHonest

\* A watch that fails marks the status; arming tells the watcher nothing.
LEMMA ArmHonest ==
    ASSUME Base, HonestInv, NEW ok \in SUBSET {"config", "roots"}, Arm(ok)
    PROVE  HonestInv'
<1>1. UNCHANGED <<bpc, stale, silent, known, unread, running, reply>>
  BY DEF Arm
<1>2. status.dirty => status'.dirty
  BY StatusTyped DEF Arm, Base
<1> QED
  BY <1>1, <1>2, OthersHonest

\* An edit makes its source one the watcher was not told of.
LEMMA EditHonest ==
    ASSUME Base, HonestInv, NEW s \in Sources, NEW quietly \in BOOLEAN, Edit(s, quietly)
    PROVE  HonestInv'
<1>1. Lacking' \subseteq Lacking \ {s}
  BY DEF Edit, Lacking
<1>2. status' = status /\ reply' = reply /\ bpc' = bpc
  BY DEF Edit
<1>3. Lacking' # {} /\ running' # None /\ running'.from = "watcher" =>
        Lacking' \cap running'.visited \subseteq running'.clean
  <2> SUFFICES ASSUME Lacking' # {}, running' # None, running'.from = "watcher"
      PROVE  Lacking' \cap running'.visited \subseteq running'.clean
    OBVIOUS
  <2>1. running # None /\ running \in Runs
    BY Queued DEF Edit, Base
  <2>2. running'.visited = running.visited /\ running'.clean = running.clean \ {s}
        /\ running'.from = running.from
    BY <2>1 DEF Edit, Runs
  <2> QED
    BY <1>1, <2>1, <2>2 DEF HonestInv
<1> QED
  BY <1>1, <1>2, <1>3 DEF HonestInv

\* The watcher's pass ends with an answer: success only if nothing is lacking.
LEMMA AnswerHonest == Base /\ HonestInv /\ (PassSucceeded \/ PassFailed) => HonestInv'
<1> SUFFICES ASSUME Base, HonestInv, PassSucceeded \/ PassFailed PROVE HonestInv'
  OBVIOUS
<1>1. /\ UNCHANGED <<bpc, stale, silent, known, unread, running>>
      /\ reply' = [reply EXCEPT !["watcher"] = None]
  BY DEF PassSucceeded, PassFailed
<1>2. reply'["watcher"] = None
  BY <1>1 DEF Base, Typed, Clients
<1>3. CASE PassSucceeded
  BY <1>1, <1>3 DEF PassSucceeded, Answered, HonestInv, Lacking
<1>4. CASE PassFailed
  BY <1>1, <1>2, <1>4, StatusTyped DEF PassFailed, HonestInv, Lacking, Base
<1> QED
  BY <1>3, <1>4

\* A pass starts with nothing visited.
LEMMA StartPassHonest == Base /\ HonestInv /\ StartPass => HonestInv'
<1> SUFFICES ASSUME HonestInv, StartPass PROVE HonestInv'
  OBVIOUS
<1>1. running'.visited = {} /\ UNCHANGED <<bpc, stale, silent, known, unread, status, reply>>
  BY DEF StartPass
<1> QED
  BY <1>1 DEF HonestInv, Lacking

\* A visit reads what is lacking.
LEMMA VisitSourceHonest ==
    ASSUME Base, HonestInv, NEW s \in Sources, NEW read \in BOOLEAN, VisitSource(s, read)
    PROVE  HonestInv'
<1>1. running # None /\ running \in Runs
  BY Queued DEF VisitSource, Unvisited, Base
<1>2. /\ running'.visited = running.visited \cup {s} /\ running'.from = running.from
      /\ running'.clean = IF read THEN running.clean \cup {s} ELSE running.clean
  BY <1>1 DEF VisitSource, Runs
<1>3. UNCHANGED <<bpc, stale, silent, known, unread, status, reply>>
  BY DEF VisitSource
<1>4. s \in Lacking => read
  BY DEF VisitSource, MustRead, Lacking
<1> QED
  BY <1>1, <1>2, <1>3, <1>4 DEF HonestInv, Lacking

\* A source whose read fails is left to a later pass.
LEMMA VisitFailsHonest ==
    ASSUME Base, HonestInv, NEW s \in Sources, VisitFails(s)
    PROVE  HonestInv'
<1>1. running # None /\ running \in Runs
  BY Queued DEF VisitFails, Unvisited, Base
<1>2. /\ running'.visited = running.visited \cup {s} /\ running'.from = running.from
      /\ running'.clean = running.clean
  BY <1>1 DEF VisitFails, Runs
<1>3. UNCHANGED <<bpc, stale, silent, known, status, reply>> /\ unread' = unread \cup {s}
  BY DEF VisitFails
<1> QED
  BY <1>1, <1>2, <1>3 DEF HonestInv, Lacking

\* A pass that ends has indexed what it read; the watcher's lacks nothing.
LEMMA FinishPassHonest == Base /\ HonestInv /\ FinishPass => HonestInv'
<1> SUFFICES ASSUME Base, HonestInv, FinishPass PROVE HonestInv'
  OBVIOUS
<1>1. /\ running # None /\ running.visited = Sources /\ running' = None
      /\ stale' = stale \ running.clean /\ silent' = silent \ running.clean
      /\ known' = known /\ bpc' = bpc /\ unread' = unread \ running.clean
  BY DEF FinishPass
<1>2. Lacking' \subseteq Lacking /\ Lacking \subseteq Sources
  BY <1>1 DEF Lacking, Base, Typed
<1>3. status'.dirty = status.dirty
  BY DEF FinishPass, Base, Typed, Statuses
<1>4. CASE running.from = "watcher"
  <2>1. Lacking' = {}
    BY <1>1, <1>2, <1>4 DEF HonestInv, Lacking
  <2> QED
    BY <1>1, <2>1 DEF HonestInv
<1>5. CASE running.from # "watcher"
  <2>1. reply["watcher"] \in {None, "failed"} => reply'["watcher"] \in {None, "failed"}
    BY <1>5, AnswerNotNone DEF FinishPass, Outdated, Clients
  <2> QED
    BY <1>1, <1>2, <1>3, <2>1 DEF HonestInv
<1> QED
  BY <1>4, <1>5

\* A pass that fails answers "failed".
LEMMA FailPassHonest == Base /\ HonestInv /\ FailPass => HonestInv'
<1> SUFFICES ASSUME Base, HonestInv, FailPass PROVE HonestInv'
  OBVIOUS
<1>1. /\ running' = None /\ reply' = [reply EXCEPT ![running.from] = "failed"]
      /\ UNCHANGED <<bpc, stale, silent, known, unread, status>>
  BY DEF FailPass
<1>2. reply'["watcher"] \in {"failed", reply["watcher"]}
  BY <1>1 DEF Base, Typed, Clients
<1> QED
  BY <1>1, <1>2 DEF HonestInv, Lacking

\* With strict_hash and from a daemon that has booted: no answer is called current
\* while a source the watcher was told of differs from the index, unless its read
\* failed, whatever passes of other clients end in between.
THEOREM CurrentHonest ==
    ASSUME Boots \subseteq {"booted"}, Basis # "metadata_audit"
    PROVE  Spec => []CurrentIsHonest
<1>1. Init => HonestInv
  <2> SUFFICES ASSUME Init PROVE HonestInv
    OBVIOUS
  <2>1. bpc = "done" /\ known = {}
    BY DEF Init
  <2> QED
    BY <2>1 DEF HonestInv, Lacking
<1>2. Base /\ HonestInv /\ [Next]_vars => HonestInv'
  <2> SUFFICES ASSUME Base, HonestInv, [Next]_vars PROVE HonestInv'
    OBVIOUS
  <2>1. CASE Change \/ Backend
    BY <2>1, EditHonest, EnvironmentHonest DEF Change
  <2>2. CASE WatcherTask
    BY <2>2, WatcherHonest, ArmHonest, AnswerHonest DEF WatcherTask
  <2>3. CASE ManagerTask
    BY <2>3, StartPassHonest, FinishPassHonest, FailPassHonest, VisitFailsHonest,
       VisitSourceHonest DEF ManagerTask
  <2>4. CASE BootTask
    BY <2>4 DEF BootTask, BootSend, BootReadModel, BootWrite, HonestInv
  <2>5. CASE LoaderTask
    BY <2>5, EnvironmentHonest
  <2>6. CASE UNCHANGED vars
    BY <2>6 DEF vars, HonestInv, Lacking
  <2> QED
    BY <2>1, <2>2, <2>3, <2>4, <2>5, <2>6 DEF Next
<1>3. Base /\ HonestInv => CurrentIsHonest
  BY DEF Base, SilentInv, HonestInv, Lacking, CurrentIsHonest, Current
<1> QED
  BY <1>1, <1>2, <1>3, TrafficInOrder, PTL DEF Spec


-----------------------------------------------------------------------------
(* The index is that of the configuration in use. *)

\* Only the watcher sends commands.
OnlyWatcher ==
    /\ lpc = "off" /\ bpc # "send"
    /\ \A i \in 1..Len(queue) : queue[i].from = "watcher"
    /\ running # None => running.from = "watcher"

\* A configuration that was taken over and not yet applied is owed a full pass: by the
\* batch, or by the pass under way whose failure gives it back.
Owed ==
    \/ pending.rescan
    \/ /\ wpc = "await" /\ asked.kind = "debounce" /\ asked.scope.rescan
       /\ reply["watcher"] \in {None, "failed"}

ConfigInv == OnlyWatcher /\ (~configInvalid /\ mconfig # config => Owed)

\* Steps that leave the configurations and the commands alone; the batch only grows.
LEMMA OthersConfig ==
    ASSUME Base, ConfigInv,
           UNCHANGED <<lpc, queue, configInvalid, mconfig, config>>,
           bpc # "send" => bpc' # "send",
           running' # None => running # None /\ running'.from = running.from,
           pending.rescan => pending'.rescan,
           wpc = "await" => UNCHANGED <<wpc, asked>> /\ reply'["watcher"] = reply["watcher"]
    PROVE  ConfigInv'
<1>1. OnlyWatcher'
  BY DEF ConfigInv, OnlyWatcher
<1>2. Owed => Owed'
  BY DEF Owed
<1> QED
  BY <1>1, <1>2 DEF ConfigInv

\* Edits and visits change the pass only inside.
LEMMA InsideConfig ==
    ASSUME Base, ConfigInv,
           \/ \E s \in Sources, quietly \in BOOLEAN : Edit(s, quietly)
           \/ \E s \in Sources : VisitFails(s) \/ \E read \in BOOLEAN : VisitSource(s, read)
    PROVE  ConfigInv'
<1>1. UNCHANGED <<lpc, bpc, queue, configInvalid, mconfig, config, pending, wpc, asked, reply>>
  BY DEF Edit, VisitFails, VisitSource
<1>2. running' # None => running # None /\ running'.from = running.from
  <2>1. running # None => running \in Runs
    BY Queued DEF Base
  <2>2. CASE \E s \in Sources, quietly \in BOOLEAN : Edit(s, quietly)
    BY <2>1, <2>2 DEF Edit, Runs
  <2>3. CASE \E s \in Sources : VisitFails(s) \/ \E read \in BOOLEAN : VisitSource(s, read)
    BY <2>1, <2>3 DEF VisitFails, VisitSource, Unvisited, Runs
  <2> QED
    BY <2>2, <2>3
<1> QED
  BY <1>1, <1>2, OthersConfig

\* So do the environment, the boot sequence and what the watcher is told.
LEMMA TellingConfig ==
    ASSUME Base, ConfigInv,
           \/ \E c \in Configs \cup {"invalid"} : WriteConfig(c)
           \/ Backend \/ BootTask \/ LoaderTask
           \/ \E ok \in SUBSET {"config", "roots"} : Arm(ok)
           \/ Receive \/ AbsorbOverflow
    PROVE  ConfigInv'
<1>1. lpc = "off" /\ bpc # "send"
  BY DEF ConfigInv, OnlyWatcher
<1>2. /\ UNCHANGED <<lpc, queue, configInvalid, mconfig, config, running, asked>>
      /\ wpc = "await" => UNCHANGED wpc
      /\ bpc' # "send"
  BY <1>1 DEF WriteConfig, Backend, BackendRescan, Deliver, BootTask, BootSend, BootReadModel,
         BootWrite, LoaderTask, LoaderReady, LoaderFails, LoaderDone, Arm, Receive, AbsorbOverflow
<1>3. reply'["watcher"] = reply["watcher"]
  BY <1>1 DEF WriteConfig, Backend, BackendRescan, Deliver, BootTask, BootSend, BootReadModel,
         BootWrite, LoaderTask, LoaderReady, LoaderFails, LoaderDone, Arm, Receive,
         AbsorbOverflow, Base, Typed, Clients
<1>4. pending.rescan => pending'.rescan
  <2>1. CASE Receive
    <3>1. pending.rescan => \A e : Insert(pending, {e}) = pending
      BY DEF Insert
    <3> QED
      BY <2>1, <3>1, Batches DEF Receive, NoteRescan
  <2>2. CASE ~Receive
    BY <1>1, <2>2, Batches DEF WriteConfig, Backend, BackendRescan, Deliver, BootTask, BootSend,
       BootReadModel, BootWrite, LoaderTask, LoaderReady, LoaderFails, LoaderDone, Arm,
       AbsorbOverflow, NoteRescan
  <2> QED
    BY <2>1, <2>2
<1> QED
  BY <1>2, <1>3, <1>4, OthersConfig

\* The watcher's command is one more of the watcher's.
LEMMA AskConfig ==
    ASSUME Base, OnlyWatcher, NEW o \in Orders, o.from = "watcher",
           queue' = Append(queue, o), UNCHANGED <<lpc, bpc, running>>
    PROVE  OnlyWatcher'
<1>1. queue \in Seq(Orders)
  BY DEF Base, Typed
<1>2. /\ Len(queue') = Len(queue) + 1 /\ Len(queue) \in Nat
      /\ \A i \in 1..Len(queue) : queue'[i] = queue[i]
      /\ queue'[Len(queue) + 1] = o
  BY <1>1
<1>3. \A i \in 1..Len(queue') : queue'[i].from = "watcher"
  BY <1>2 DEF OnlyWatcher
<1> QED
  BY <1>3 DEF OnlyWatcher

\* A batch that takes a configuration over is full, and its pass is of that
\* configuration.
LEMMA StartBatchConfig ==
    ASSUME Base, ConfigInv, NEW ok \in BOOLEAN, StartBatch(ok)
    PROVE  ConfigInv'
<1> DEFINE o == [from |-> "watcher", config |-> config', scope |-> IF ok THEN pending ELSE Full]
<1>1. /\ wpc = "select" /\ wpc' = "await" /\ asked'.kind = "debounce"
      /\ asked'.scope = (IF ok THEN pending ELSE Full)
      /\ queue' = Append(queue, o) /\ UNCHANGED <<running, mconfig, reply, lpc, bpc>>
  BY DEF StartBatch, Due, Ask, NoteRescan
<1>2. o \in Orders /\ o.from = "watcher"
  <2>1. config' \in Settled /\ pending \in Scopes
    BY StartBatchBase DEF Base, Typed
  <2> QED
    BY <2>1, Batches DEF Orders, Clients
<1> HIDE DEF o
<1>3. OnlyWatcher'
  BY <1>1, <1>2, AskConfig DEF ConfigInv
<1>4. reply'["watcher"] = None
  BY <1>1, NotAsking
<1>5. pending.rescan => Owed'
  BY <1>1, <1>4, Batches DEF Owed
<1>6. CASE configDirty
  BY <1>3, <1>5, <1>6 DEF Base, BatchInv, ConfigInv
<1>7. CASE ~configDirty
  <2>1. config' = config /\ (configInvalid' <=> configInvalid)
    BY <1>7 DEF StartBatch, ReloadConfig
  <2>2. ~configInvalid /\ mconfig # config => pending.rescan
    BY <1>1 DEF ConfigInv, Owed
  <2> QED
    BY <1>1, <1>3, <1>5, <2>1, <2>2 DEF ConfigInv
<1> QED
  BY <1>6, <1>7

\* The safety pass leaves the batch that owes one.
LEMMA SafetyTickConfig ==
    ASSUME Base, ConfigInv, NEW ok \in BOOLEAN, SafetyTick(ok)
    PROVE  ConfigInv'
<1> DEFINE o == [from |-> "watcher", config |-> config', scope |-> Full]
<1>1. /\ wpc = "select" /\ queue' = Append(queue, o)
      /\ UNCHANGED <<running, mconfig, lpc, bpc, configInvalid, config, pending>>
  BY DEF SafetyTick, Ask
<1>2. o \in Orders /\ o.from = "watcher"
  BY <1>1, Batches DEF Orders, Clients, Base, Typed
<1> HIDE DEF o
<1>3. OnlyWatcher'
  BY <1>1, <1>2, AskConfig DEF ConfigInv
<1> QED
  BY <1>1, <1>3 DEF ConfigInv, Owed

\* A pass that succeeded has applied the configuration in use.
LEMMA PassSucceededConfig == Base /\ ConfigInv /\ PassSucceeded => ConfigInv'
<1> SUFFICES ASSUME Base, ConfigInv, PassSucceeded PROVE ConfigInv'
  OBVIOUS
<1>1. /\ reply["watcher"] \notin {None, "failed"}
      /\ UNCHANGED <<lpc, bpc, queue, running, configInvalid, mconfig, config, pending>>
  BY DEF PassSucceeded, Answered
<1> QED
  BY <1>1 DEF ConfigInv, OnlyWatcher, Owed

\* A pass that failed gives a full scope back as a full batch.
LEMMA PassFailedConfig == Base /\ ConfigInv /\ PassFailed => ConfigInv'
<1> SUFFICES ASSUME Base, ConfigInv, PassFailed PROVE ConfigInv'
  OBVIOUS
<1>1. UNCHANGED <<lpc, bpc, queue, running, configInvalid, mconfig, config>>
  BY DEF PassFailed
<1>2. Owed => pending'.rescan
  <2>1. CASE asked.kind = "debounce" /\ pending' = MergeBack(pending, asked.scope)
    <3>1. pending \in Scopes /\ asked.scope \in Scopes
          /\ Cardinality(pending.touched) <= PathCapacity
          /\ (pending.rescan => pending.touched = {})
      BY DEF Base, Typed, Requests, BatchInv
    <3> QED
      BY <2>1, <3>1, MergeBatch DEF Owed
  <2>2. CASE asked.kind = "safety" /\ UNCHANGED pending
    BY <2>2 DEF Owed
  <2> QED
    BY <2>1, <2>2 DEF PassFailed
<1> QED
  BY <1>1, <1>2 DEF ConfigInv, OnlyWatcher, Owed

\* The manager: the pass it starts is the watcher's, the one it ends applies the
\* configuration in use, the one that fails is owed again.
LEMMA ManagerConfig == Base /\ ConfigInv /\ (StartPass \/ FinishPass \/ FailPass) => ConfigInv'
<1> SUFFICES ASSUME Base, ConfigInv, StartPass \/ FinishPass \/ FailPass PROVE ConfigInv'
  OBVIOUS
<1>1. CASE StartPass
  <2>1. /\ queue \in Seq(Orders) /\ queue # <<>> /\ queue' = Tail(queue)
        /\ running'.from = Head(queue).from
        /\ UNCHANGED <<lpc, bpc, configInvalid, mconfig, config, pending, wpc, asked, reply>>
    BY <1>1 DEF StartPass, Base, Typed
  <2>2. /\ Head(queue) = queue[1] /\ 1 \in 1..Len(queue)
        /\ \A i \in 1..Len(queue') : queue'[i] = queue[i + 1] /\ i + 1 \in 1..Len(queue)
    BY <2>1
  <2>3. OnlyWatcher'
    BY <2>1, <2>2 DEF ConfigInv, OnlyWatcher
  <2> QED
    BY <2>1, <2>3 DEF ConfigInv, Owed
<1>2. CASE FinishPass
  <2>1. /\ running # None /\ running' = None /\ mconfig' = running.config
        /\ UNCHANGED <<lpc, bpc, queue, configInvalid, config>>
    BY <1>2 DEF FinishPass
  <2>2. running.config = config
    BY <2>1 DEF ConfigInv, OnlyWatcher, Base, QueueInv
  <2> QED
    BY <2>1, <2>2 DEF ConfigInv, OnlyWatcher
<1>3. CASE FailPass
  <2>1. /\ running' = None /\ reply' = [reply EXCEPT ![running.from] = "failed"]
        /\ UNCHANGED <<lpc, bpc, queue, configInvalid, mconfig, config, pending, wpc, asked>>
    BY <1>3 DEF FailPass
  <2>2. reply'["watcher"] \in {"failed", reply["watcher"]}
    BY <2>1 DEF Base, Typed, Clients
  <2> QED
    BY <2>1, <2>2 DEF ConfigInv, OnlyWatcher, Owed
<1> QED
  BY <1>1, <1>2, <1>3

\* Without a semantic backfill and without a boot pass, which both run with the
\* configuration the daemon started with: whenever the tasks are at rest the index is
\* that of the configuration the watcher runs with.
THEOREM ConfigurationHeld ==
    ASSUME ~Semantic, "reopened" \notin Boots
    PROVE  Spec => []ConfigHeld
<1>1. Init => ConfigInv
  <2> SUFFICES ASSUME Init PROVE ConfigInv
    OBVIOUS
  <2>1. PICK how \in Boots :
          bpc = CASE how = "fresh" -> "wait" [] how = "reopened" -> "send"
                  [] how = "booted" -> "done"
    BY DEF Init
  <2>2. bpc # "send"
    BY <2>1, DaemonAssumption
  <2>3. lpc = "off" /\ queue = <<>> /\ running = None /\ mconfig = config
    BY DEF Init
  <2> QED
    BY <2>2, <2>3 DEF ConfigInv, OnlyWatcher
<1>2. Base /\ ConfigInv /\ [Next]_vars => ConfigInv'
  <2> SUFFICES ASSUME Base, ConfigInv, [Next]_vars PROVE ConfigInv'
    OBVIOUS
  <2>1. CASE Change \/ Backend
    BY <2>1, InsideConfig, TellingConfig DEF Change
  <2>2. CASE WatcherTask
    <3>1. CASE RejectConfig
      BY <3>1 DEF RejectConfig, ConfigInv, OnlyWatcher
    <3> QED
      BY <2>2, <3>1, TellingConfig, StartBatchConfig, SafetyTickConfig, PassSucceededConfig,
         PassFailedConfig DEF WatcherTask
  <2>3. CASE ManagerTask
    BY <2>3, ManagerConfig, InsideConfig DEF ManagerTask
  <2>4. CASE BootTask \/ LoaderTask
    BY <2>4, TellingConfig
  <2>5. CASE UNCHANGED vars
    BY <2>5 DEF vars, ConfigInv, OnlyWatcher, Owed
  <2> QED
    BY <2>1, <2>2, <2>3, <2>4, <2>5 DEF Next
<1>3. ConfigInv => ConfigHeld
  BY Batches DEF ConfigInv, Owed, ConfigHeld, Idle
<1> QED
  BY <1>1, <1>2, <1>3, TrafficInOrder, PTL DEF Spec
=============================================================================

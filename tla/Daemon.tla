------------------------------- MODULE Daemon -------------------------------
(***************************************************************************)
(* How a change reaches the index of the running daemon (kwiry/src:        *)
(* watcher.rs, runtime.rs, and serve in server.rs).  Four tasks run        *)
(* concurrently:                                                           *)
(*   - the watcher collects file system notifications into a batch and     *)
(*     asks for one pass when they have been quiet for a while, and for a  *)
(*     full pass at every safety interval;                                 *)
(*   - the manager actor runs the passes it is asked for one at a time, in *)
(*     the order of its command queue;                                     *)
(*   - the boot sequence of serve asks for the first pass and publishes    *)
(*     the first status;                                                   *)
(*   - the semantic loader installs the model and asks for a backfill.     *)
(* They share the status record, which every search answer's freshness     *)
(* header is computed from.                                                *)
(*                                                                         *)
(* A pass is what modules DesktopIndex and OpenClastIndex describe; here   *)
(* it reads the sources one by one and, if it succeeds, the ones it read   *)
(* are up to date.                                                         *)
(***************************************************************************)
EXTENDS Integers, Sequences, FiniteSets

CONSTANTS
    Sources,
    Configs,          \* valid contents of config.toml
    RestartConfigs,   \* those that differ in what only a restart can change
    StartupConfig,
    Basis,            \* "strict_hash" or "metadata_audit"
    Boots,            \* how the daemon came up: "fresh", "reopened", "booted"
    Semantic,         \* is the semantic loader started?
    ChannelCapacity,  \* the 1024 of spawn_watcher
    PathCapacity,     \* MAX_PENDING_PATHS
    MaxEdits,         \* bound on the changes to the files and to the config
    MaxFaults,        \* bound on the failures of passes, reads and watches
    MaxRescans,       \* bound on the notifications the backend gives up on
    None

ASSUME DaemonAssumption ==
    /\ RestartConfigs \subseteq Configs
    /\ StartupConfig \in Configs \ RestartConfigs
    /\ Boots \subseteq {"fresh", "reopened", "booted"}
    /\ Semantic \in BOOLEAN
    /\ {ChannelCapacity, PathCapacity, MaxEdits, MaxFaults, MaxRescans} \subseteq Nat
    /\ IsFiniteSet(Sources)
    /\ "config" \notin Sources /\ "rescan" \notin Sources

VARIABLES
    \* the files and the configuration file
    stale,          \* sources whose file is not what the index holds
    silent,         \* those among them that kept size and mtime
    cfgFile,        \* content of config.toml, or "invalid"
    edits, faults, rescans,
    \* notifications
    watching,       \* what is watched: "config", "roots"
    kernel,         \* notifications not yet delivered
    chan, overflow, \* the bounded channel, and its overflow flag
    \* the watcher task
    wpc,            \* "start", "select", "await"
    pending,        \* PendingPaths
    dirtySince,     \* are first_dirty and last_dirty set?
    configDirty, configInvalid, restartRequired, config,
    asked,          \* the pass it waits for: kind, scope, force_degraded
    \* the manager actor
    queue, running, mconfig,
    reply,          \* the answer waiting for each client
    \* boot, loader, and the shared status
    bpc, bmodel, lpc, status,
    \* history
    noticed,        \* last changed while it was watched
    known,          \* changed, and the watcher has been told since
    offline,        \* changed before the daemon came up, not since
    unread          \* a read of it failed, and it was not indexed or changed since

files == <<stale, silent, cfgFile, edits>>
bounds == <<faults, rescans>>
events == <<kernel, chan, overflow>>
batch == <<pending, dirtySince, configDirty>>
wconfig == <<configInvalid, restartRequired, config>>
watcher == <<wpc, batch, wconfig, asked>>
manager == <<queue, running, mconfig, reply>>
boot == <<bpc, bmodel, lpc>>
history == <<noticed, known, offline, unread>>
vars == <<files, bounds, watching, events, watcher, manager, boot, status, history>>

Clients == {"watcher", "boot", "loader"}

\* A batch, and the scope of a pass: a full pass, or the paths to be read.
Scopes == [rescan : BOOLEAN, touched : SUBSET Sources]
Empty == [rescan |-> FALSE, touched |-> {}]
Full == [rescan |-> TRUE, touched |-> {}]

\* A command of the queue, and the pass the manager makes of it.
Commands == [from : Clients, config : Configs, scope : Scopes]
Passes == [from : Clients, config : Configs, scope : Scopes,
           visited : SUBSET Sources, clean : SUBSET Sources]

ASSUME NoneAssumption == None \notin {"failed", "latest", "old"} \cup Passes

-----------------------------------------------------------------------------
(* PendingPaths.                                                           *)

NoteRescan(p) == Full

Insert(p, paths) ==
    IF p.rescan
      THEN p
      ELSE IF Cardinality(p.touched \cup paths) > PathCapacity
             THEN NoteRescan(p)
             ELSE [p EXCEPT !.touched = @ \cup paths]

\* A plausible bug: a failed pass gives its paths back, a failed full pass
\* has none to give.
MergeBackPaths(p, scope) == Insert(p, scope.touched)

MergeBack(p, scope) ==
    IF scope.rescan THEN NoteRescan(p) ELSE Insert(p, scope.touched)

-----------------------------------------------------------------------------
(* The status record.                                                      *)

\* mark_degraded.
Degraded(st) == [st EXCEPT !.degraded = TRUE, !.dirty = TRUE, !.rebuilding = FALSE]

\* status_from_manifest for a pass that ended with this generation.
FromManifest(generation, model) ==
    [gen |-> generation, dirty |-> FALSE, rebuilding |-> FALSE,
     degraded |-> FALSE, model |-> model]

\* response_freshness: is an answer from the served generation "current"?
Current == status.gen = "latest" /\ ~status.rebuilding /\ ~status.dirty

-----------------------------------------------------------------------------
(* Changes and their notifications.                                        *)

Notify(e, on) == kernel' = IF on \in watching THEN kernel \cup {e} ELSE kernel

Noticed(e, on) ==
    noticed' = IF on \in watching THEN noticed \cup {e} ELSE noticed \ {e}

\* The edit may keep size and mtime; that matters to metadata_audit only.
Edit(s, quietly) ==
    /\ edits < MaxEdits
    /\ edits' = edits + 1
    /\ stale' = stale \cup {s}
    /\ silent' = IF quietly /\ Basis = "metadata_audit" /\ s \notin stale \ silent
                   THEN silent \cup {s} ELSE silent \ {s}
    /\ running' = IF running = None THEN None
                                    ELSE [running EXCEPT !.clean = @ \ {s}]
    /\ Notify(s, "roots")
    /\ Noticed(s, "roots")
    /\ known' = known \ {s}
    /\ offline' = offline \ {s}
    /\ unread' = unread \ {s}
    /\ UNCHANGED <<cfgFile, bounds, watching, chan, overflow, watcher, queue,
                   mconfig, reply, boot, status>>

WriteConfig(c) ==
    /\ edits < MaxEdits
    /\ edits' = edits + 1
    /\ c # cfgFile
    /\ cfgFile' = c
    /\ Notify("config", "config")
    /\ Noticed("config", "config")
    /\ UNCHANGED <<stale, silent, bounds, watching, chan, overflow, watcher,
                   manager, boot, status, known, offline, unread>>

\* The callback of spawn_watcher: try_send.
Send(e) ==
    IF Len(chan) < ChannelCapacity
      THEN chan' = Append(chan, e) /\ UNCHANGED overflow
      ELSE overflow' = TRUE /\ UNCHANGED chan

Deliver(e) ==
    /\ e \in kernel
    /\ kernel' = kernel \ {e}
    /\ Send(e)
    /\ UNCHANGED <<files, bounds, watching, watcher, manager, boot, status, history>>

\* The backend lost notifications and says so with one that needs a rescan.
BackendRescan ==
    /\ rescans < MaxRescans
    /\ rescans' = rescans + 1
    /\ kernel # {}
    /\ kernel' = {}
    /\ Send("rescan")
    /\ UNCHANGED <<files, faults, watching, watcher, manager, boot, status, history>>

-----------------------------------------------------------------------------
(* The watcher task.                                                       *)

Fault(happens) ==
    /\ happens => faults < MaxFaults
    /\ faults' = IF happens THEN faults + 1 ELSE faults

\* run_watcher up to its loop.  The task was only spawned by serve: changes
\* made before this step are not notified.
Arm(ok) ==
    /\ wpc = "start"
    /\ wpc' = "select"
    /\ ok \subseteq {"config", "roots"}
    /\ Fault(ok # {"config", "roots"})
    /\ watching' = ok
    /\ pending' = IF "roots" \in ok THEN pending ELSE NoteRescan(pending)
    /\ status' = IF ok = {"config", "roots"} THEN status ELSE Degraded(status)
    /\ UNCHANGED <<files, rescans, events, dirtySince, configDirty, wconfig, asked,
                   manager, boot, history>>

\* One event: classify_event, and its contribution to the batch.
Receive ==
    /\ wpc = "select"
    /\ chan # <<>>
    /\ chan' = Tail(chan)
    /\ dirtySince' = TRUE
    /\ \/ /\ Head(chan) = "config"
          /\ configDirty' = TRUE
          /\ pending' = NoteRescan(pending)
          /\ UNCHANGED known
       \/ /\ Head(chan) = "rescan"
          /\ pending' = NoteRescan(pending)
          /\ known' = known \cup stale
          /\ UNCHANGED configDirty
       \/ /\ Head(chan) \in Sources
          /\ pending' = Insert(pending, {Head(chan)})
          /\ known' = known \cup {Head(chan)}
          /\ UNCHANGED configDirty
    /\ status' = [status EXCEPT !.dirty = TRUE]
    /\ UNCHANGED <<files, bounds, watching, kernel, overflow, wpc, wconfig, asked,
                   manager, boot, noticed, offline, unread>>

\* A plausible bug: the status is not marked dirty.
AbsorbQuietly ==
    /\ wpc = "select"
    /\ overflow
    /\ overflow' = FALSE
    /\ configDirty' = TRUE
    /\ pending' = NoteRescan(pending)
    /\ dirtySince' = TRUE
    /\ known' = known \cup stale
    /\ UNCHANGED <<files, bounds, watching, kernel, chan, wpc, wconfig, asked,
                   manager, boot, status, noticed, offline, unread>>

\* A debounce tick that finds the overflow flag, before the batch is due.
AbsorbOverflow ==
    /\ wpc = "select"
    /\ overflow
    /\ overflow' = FALSE
    /\ configDirty' = TRUE
    /\ pending' = NoteRescan(pending)
    /\ dirtySince' = TRUE
    /\ status' = [status EXCEPT !.dirty = TRUE]
    /\ known' = known \cup stale
    /\ UNCHANGED <<files, bounds, watching, kernel, chan, wpc, wconfig, asked,
                   manager, boot, noticed, offline, unread>>

\* A debounce tick at which the batch is due: it was quiet for DEBOUNCE, or
\* MAX_DEBOUNCE is over.  Every tick absorbs an overflow first.
Due == wpc = "select" /\ ~overflow /\ dirtySince /\ (pending # Empty \/ configDirty)

ClearBatch ==
    /\ pending' = Empty
    /\ dirtySince' = FALSE
    /\ configDirty' = FALSE

\* load_config fails: the last good configuration stays, the batch is dropped.
RejectConfig ==
    /\ Due
    /\ configDirty
    /\ cfgFile = "invalid"
    /\ configInvalid' = TRUE
    /\ ClearBatch
    /\ status' = Degraded(status)
    /\ UNCHANGED <<files, bounds, watching, events, wpc, restartRequired, config, asked,
                   manager, boot, history>>

\* add_roots, after reconfigure_roots when the configuration changed.
AddRoots(ok) ==
    /\ ~ok => "roots" \notin watching \/ config' # config
    /\ Fault(~ok)
    /\ watching' = IF ok THEN watching \cup {"roots"} ELSE watching \ {"roots"}

\* A plausible bug: the pass runs with the configuration before the reload.
AskBeforeReload(kind, scope) ==
    /\ wpc' = "await"
    /\ asked' = [kind |-> kind, scope |-> scope,
                 degraded |-> configInvalid' \/ restartRequired'
                                \/ "roots" \notin watching']
    /\ queue' = Append(queue, [from |-> "watcher", config |-> config, scope |-> scope])
    /\ UNCHANGED <<running, mconfig, reply>>

\* reconcile_and_update, up to the send: ask the manager for a pass.
Ask(kind, scope) ==
    /\ wpc' = "await"
    /\ asked' = [kind |-> kind, scope |-> scope,
                 degraded |-> configInvalid' \/ restartRequired'
                                \/ "roots" \notin watching']
    /\ queue' = Append(queue, [from |-> "watcher", config |-> config', scope |-> scope])
    /\ UNCHANGED <<running, mconfig, reply>>

\* A plausible bug: the new configuration is checked and not taken over.
ReloadConfigOnce ==
    /\ configInvalid' = (configInvalid /\ ~configDirty)
    /\ restartRequired' = IF configDirty THEN cfgFile \in RestartConfigs
                                         ELSE restartRequired
    /\ UNCHANGED config

\* load_config succeeds, if it is tried.
ReloadConfig ==
    /\ configInvalid' = (configInvalid /\ ~configDirty)
    /\ restartRequired' = IF configDirty THEN cfgFile \in RestartConfigs
                                         ELSE restartRequired
    /\ config' = IF configDirty /\ cfgFile \notin RestartConfigs
                   THEN cfgFile ELSE config

StartBatch(ok) ==
    /\ Due
    /\ configDirty => cfgFile # "invalid"
    /\ ReloadConfig
    /\ AddRoots(ok)
    /\ Ask("debounce", IF ok THEN pending ELSE NoteRescan(pending))
    /\ ClearBatch
    /\ status' = [status EXCEPT !.rebuilding = TRUE, !.dirty = TRUE,
                    !.degraded = @ \/ (configDirty /\ cfgFile \in RestartConfigs)]
    /\ UNCHANGED <<files, rescans, events, boot, history>>

\* The safety interval: a full pass, whatever the batch holds.
SafetyTick(ok) ==
    /\ wpc = "select"
    /\ UNCHANGED wconfig
    /\ AddRoots(ok)
    /\ Ask("safety", Full)
    /\ status' = [status EXCEPT !.rebuilding = TRUE, !.dirty = TRUE]
    /\ UNCHANGED <<files, rescans, events, batch, boot, history>>

Answered(client) == reply[client] # None

PassSucceeded ==
    /\ wpc = "await"
    /\ Answered("watcher")
    /\ reply["watcher"] # "failed"
    /\ wpc' = "select"
    /\ status' = [FromManifest(reply["watcher"], status.model) EXCEPT
                    !.dirty = asked.degraded, !.degraded = asked.degraded]
    /\ reply' = [reply EXCEPT !["watcher"] = None]
    /\ UNCHANGED <<files, bounds, watching, events, batch, wconfig, asked,
                   queue, running, mconfig, boot, history>>

PassFailed ==
    /\ wpc = "await"
    /\ reply["watcher"] = "failed"
    /\ wpc' = "select"
    /\ status' = Degraded(status)
    /\ reply' = [reply EXCEPT !["watcher"] = None]
    /\ \/ /\ asked.kind = "debounce"
          /\ pending' = MergeBack(pending, asked.scope)
          /\ dirtySince' = TRUE
       \/ /\ asked.kind = "safety"
          /\ UNCHANGED <<pending, dirtySince>>
    /\ UNCHANGED <<files, bounds, watching, events, configDirty, wconfig, asked,
                   queue, running, mconfig, boot, history>>

-----------------------------------------------------------------------------
(* The manager actor.                                                      *)

StartPass ==
    /\ running = None
    /\ queue # <<>>
    /\ queue' = Tail(queue)
    /\ running' = [from |-> Head(queue).from, config |-> Head(queue).config,
                   scope |-> Head(queue).scope, visited |-> {}, clean |-> {}]
    /\ UNCHANGED <<files, bounds, watching, events, watcher, mconfig, reply, boot,
                   status, history>>

Unvisited(s) == running # None /\ s \in Sources \ running.visited

\* plan_observation, as far as it matters here.
MustRead(s) == s \notin silent \/ s \in running.scope.touched

\* A plausible bug: only the sources that were named are read.
VisitNamedSource(s, read) ==
    /\ Unvisited(s)
    /\ read = (s \in running.scope.touched)
    /\ running' = [running EXCEPT !.visited = @ \cup {s},
                                  !.clean = IF read THEN @ \cup {s} ELSE @]
    /\ UNCHANGED <<files, bounds, watching, events, watcher, queue, mconfig, reply,
                   boot, status, history>>

\* The source is enumerated and read, or taken for unchanged; a full pass may
\* audit it all the same.
VisitSource(s, read) ==
    /\ Unvisited(s)
    /\ MustRead(s) => read
    /\ read => MustRead(s) \/ running.scope.rescan
    /\ running' = [running EXCEPT !.visited = @ \cup {s},
                                  !.clean = IF read THEN @ \cup {s} ELSE @]
    /\ UNCHANGED <<files, bounds, watching, events, watcher, queue, mconfig, reply,
                   boot, status, history>>

\* The read fails; the source is left as it is until a later pass.
VisitFails(s) ==
    /\ Unvisited(s)
    /\ Fault(TRUE)
    /\ running' = [running EXCEPT !.visited = @ \cup {s}]
    /\ unread' = unread \cup {s}
    /\ UNCHANGED <<files, rescans, watching, events, watcher, queue, mconfig, reply,
                   boot, status, noticed, known, offline>>

\* A generation that is replaced is no longer the latest, wherever it is named.
Outdated(gen) == IF gen = "latest" THEN "old" ELSE gen

FinishPass ==
    /\ running # None
    /\ running.visited = Sources
    /\ stale' = stale \ running.clean
    /\ silent' = silent \ running.clean
    /\ mconfig' = running.config
    /\ LET published == stale \cap running.clean # {} \/ running.config # mconfig
       IN  /\ reply' = [client \in Clients |->
                          IF client = running.from
                            THEN "latest"
                            ELSE IF published THEN Outdated(reply[client])
                                              ELSE reply[client]]
           /\ status' = IF published THEN [status EXCEPT !.gen = Outdated(@)]
                                     ELSE status
    /\ running' = None
    /\ unread' = unread \ running.clean
    /\ UNCHANGED <<cfgFile, edits, bounds, watching, events, watcher, queue, boot,
                   noticed, known, offline>>

FailPass ==
    /\ running # None
    /\ Fault(TRUE)
    /\ reply' = [reply EXCEPT ![running.from] = "failed"]
    /\ running' = None
    /\ UNCHANGED <<files, rescans, watching, events, watcher, queue, mconfig, boot,
                   status, history>>

-----------------------------------------------------------------------------
(* The boot sequence, from the point where the tasks are spawned, and the  *)
(* semantic loader.                                                        *)

BootSend ==
    /\ bpc = "send"
    /\ bpc' = "wait"
    /\ queue' = Append(queue, [from |-> "boot", config |-> StartupConfig, scope |-> Full])
    /\ UNCHANGED <<files, bounds, watching, events, watcher, running, mconfig, reply,
                   bmodel, lpc, status, history>>

\* status_with_model reads the model under one lock ...
BootReadModel ==
    /\ bpc = "wait"
    /\ Answered("boot")
    /\ bpc' = "write"
    /\ bmodel' = status.model
    /\ UNCHANGED <<files, bounds, watching, events, watcher, manager, lpc, status,
                   history>>

\* A plausible bug: a boot pass that failed is reported like any other.
BootWriteAlways ==
    /\ bpc = "write"
    /\ bpc' = "done"
    /\ status' = FromManifest(IF reply["boot"] = "failed" THEN "latest" ELSE reply["boot"],
                              bmodel)
    /\ reply' = [reply EXCEPT !["boot"] = None]
    /\ UNCHANGED <<files, bounds, watching, events, watcher, queue, running, mconfig,
                   bmodel, lpc, history>>

\* ... and the whole status is replaced under another.
BootWrite ==
    /\ bpc = "write"
    /\ bpc' = "done"
    /\ status' = IF reply["boot"] = "failed"
                   THEN Degraded(FromManifest(None, bmodel))
                   ELSE FromManifest(reply["boot"], bmodel)
    /\ reply' = [reply EXCEPT !["boot"] = None]
    /\ UNCHANGED <<files, bounds, watching, events, watcher, queue, running, mconfig,
                   bmodel, lpc, history>>

\* The backfill uses the configuration the daemon started with.
LoaderReady ==
    /\ lpc = "load"
    /\ lpc' = "wait"
    /\ status' = [status EXCEPT !.model = TRUE]
    /\ queue' = Append(queue, [from |-> "loader", config |-> StartupConfig, scope |-> Full])
    /\ UNCHANGED <<files, bounds, watching, events, watcher, running, mconfig, reply,
                   bpc, bmodel, history>>

LoaderFails ==
    /\ lpc = "load"
    /\ lpc' = "off"
    /\ UNCHANGED <<files, bounds, watching, events, watcher, manager, bpc, bmodel,
                   status, history>>

LoaderDone ==
    /\ lpc = "wait"
    /\ Answered("loader")
    /\ lpc' = "done"
    /\ reply' = [reply EXCEPT !["loader"] = None]
    /\ UNCHANGED <<files, bounds, watching, events, watcher, queue, running, mconfig,
                   bpc, bmodel, status, history>>

-----------------------------------------------------------------------------
\* Files may have changed while the daemon was down, or while it built its
\* first generation, and under metadata_audit they may have kept size and
\* mtime: only a daemon that has booted starts from a clean index here.  A
\* reopened generation is not named by the status before a pass.
Init ==
    \E how \in Boots :
      /\ stale \in IF how = "booted" THEN {{}} ELSE SUBSET Sources
      /\ silent \in IF Basis = "metadata_audit" THEN SUBSET stale ELSE {{}}
      /\ cfgFile = StartupConfig
      /\ edits = 0 /\ faults = 0 /\ rescans = 0
      /\ watching = IF how = "booted" THEN {"config", "roots"} ELSE {}
      /\ kernel = {} /\ chan = <<>> /\ overflow = FALSE
      /\ wpc = IF how = "booted" THEN "select" ELSE "start"
      /\ pending = Empty /\ dirtySince = FALSE /\ configDirty = FALSE
      /\ configInvalid = FALSE /\ restartRequired = FALSE
      /\ config = StartupConfig
      /\ asked = [kind |-> "safety", scope |-> Full, degraded |-> FALSE]
      /\ queue = <<>> /\ running = None
      /\ mconfig = StartupConfig
      /\ reply = [client \in Clients |->
                    IF how = "fresh" /\ client = "boot" THEN "latest" ELSE None]
      /\ bpc = CASE how = "fresh" -> "wait" [] how = "reopened" -> "send"
                 [] how = "booted" -> "done"
      /\ bmodel = FALSE
      /\ lpc = IF Semantic THEN "load" ELSE "off"
      /\ status = IF how = "booted"
                    THEN FromManifest("latest", FALSE)
                    ELSE [gen |-> None, dirty |-> TRUE, rebuilding |-> how = "reopened",
                          degraded |-> FALSE, model |-> FALSE]
      /\ noticed = {} /\ known = {} /\ unread = {}
      /\ offline = IF how = "reopened" THEN stale ELSE {}

Change ==
    \/ \E s \in Sources, quietly \in BOOLEAN : Edit(s, quietly)
    \/ \E c \in Configs \cup {"invalid"} : WriteConfig(c)

Backend == BackendRescan \/ \E e \in Sources \cup {"config"} : Deliver(e)

WatcherTask ==
    \/ \E ok \in SUBSET {"config", "roots"} : Arm(ok)
    \/ Receive \/ AbsorbOverflow \/ RejectConfig
    \/ \E ok \in BOOLEAN : StartBatch(ok) \/ SafetyTick(ok)
    \/ PassSucceeded \/ PassFailed

ManagerTask ==
    \/ StartPass \/ FinishPass \/ FailPass
    \/ \E s \in Sources : VisitFails(s) \/ \E read \in BOOLEAN : VisitSource(s, read)

BootTask == BootSend \/ BootReadModel \/ BootWrite

LoaderTask == LoaderReady \/ LoaderFails \/ LoaderDone

Next == Change \/ Backend \/ WatcherTask \/ ManagerTask \/ BootTask \/ LoaderTask

\* Every task that can go on does; a branch of the watcher's select that is
\* ready again and again is taken, for select! polls its branches in random
\* order; the backend delivers.  The safety tick has no fairness here.
HintFairness ==
    /\ \A e \in Sources \cup {"config"} : WF_vars(Deliver(e))
    /\ WF_vars(\E ok \in SUBSET {"config", "roots"} : Arm(ok))
    /\ SF_vars(Receive)
    /\ SF_vars(AbsorbOverflow)
    /\ SF_vars(RejectConfig \/ \E ok \in BOOLEAN : StartBatch(ok))
    /\ WF_vars(PassSucceeded \/ PassFailed)
    /\ WF_vars(ManagerTask)
    /\ WF_vars(BootTask)
    /\ WF_vars(LoaderTask)

Spec == Init /\ [][Next]_vars /\ HintFairness

\* With the safety interval, which fires for ever.
SafetySpec == Spec /\ SF_vars(\E ok \in BOOLEAN : SafetyTick(ok))

-----------------------------------------------------------------------------
(* Properties.                                                             *)

\* The state stays in these sets; in particular the batch is bounded, and no
\* client has two commands under way.
TypeOK ==
    /\ stale \subseteq Sources /\ silent \subseteq stale
    /\ cfgFile \in Configs \cup {"invalid"}
    /\ watching \subseteq {"config", "roots"}
    /\ kernel \subseteq Sources \cup {"config"}
    /\ chan \in Seq(Sources \cup {"config", "rescan"})
    /\ Len(chan) <= ChannelCapacity
    /\ overflow \in BOOLEAN
    /\ wpc \in {"start", "select", "await"}
    /\ pending \in Scopes
    /\ Cardinality(pending.touched) <= PathCapacity
    /\ pending.rescan => pending.touched = {}
    /\ {dirtySince, configDirty, configInvalid, restartRequired} \subseteq BOOLEAN
    /\ config \in Configs \ RestartConfigs /\ mconfig \in Configs \ RestartConfigs
    /\ asked \in [kind : {"debounce", "safety"}, scope : Scopes, degraded : BOOLEAN]
    /\ queue \in Seq(Commands)
    /\ running \in Passes \cup {None}
    /\ \A i, j \in DOMAIN queue : queue[i].from = queue[j].from => i = j
    /\ running # None => \A i \in DOMAIN queue : queue[i].from # running.from
    /\ reply \in [Clients -> {None, "failed", "latest", "old"}]
    /\ status.gen \in {None, "latest", "old"}

Covers(scope, s) == scope.rescan \/ s \in scope.touched

\* The watcher's pass has not yet missed this change: the source is still to
\* be visited, or was read as it is now, or the pass failed and the batch
\* comes back.
UnderWay(s) ==
    /\ wpc = "await"
    /\ asked.kind = "debounce"
    /\ Covers(asked.scope, s)
    /\ \/ reply["watcher"] = "failed"
       \/ /\ reply["watcher"] = None
          /\ (running # None /\ running.from = "watcher" /\ s \in running.visited)
                => s \in running.clean

Told(s) == {s, "config", "rescan"}

Tracked(s) ==
    \/ s \in kernel
    \/ \E i \in DOMAIN chan : chan[i] \in Told(s)
    \/ overflow
    \/ Covers(pending, s)
    \/ UnderWay(s)

\* A change made while its root was watched is never lost on its way to the
\* index: until the index holds it, a notification, the overflow flag, the
\* pending batch or the pass under way stands for it, through overflows,
\* rescans, escalations, failed passes and edits that race the reads.  Two
\* exceptions: an invalid configuration drops the batch, and a source whose
\* read failed is left to the safety pass.
ChangeIsTracked ==
    ~configInvalid => \A s \in (stale \cap noticed) \ unread : Tracked(s)

\* "current" is honest once the daemon has booted: a source the watcher has
\* been told about differs from the index only if its read failed, which
\* fails the source and not the pass.
CurrentIsHonest == Current => stale \cap known \subseteq unread

\* The comment in serve: "a served previous generation must read as stale,
\* never current".  When an answer is called current, whichever task's pass
\* ended first, the files that changed before the daemon came up are indexed,
\* but for two kinds the boot pass cannot take in: those whose read failed,
\* and under metadata_audit those that kept size and mtime.
OfflineChangesFirst == Current => stale \cap offline \subseteq silent \cup unread

Idle ==
    /\ wpc = "select" /\ pending = Empty /\ ~configDirty
    /\ queue = <<>> /\ running = None
    /\ bpc = "done" /\ lpc \in {"off", "done"}

\* docs/vertical-2.md, "Live config reload": "The daemon watches the config and
\* applies registration diffs".  Between passes the index is that of the
\* configuration the watcher runs with.  (An invalid file drops the retry of a
\* failed pass.)
ConfigHeld == Idle /\ ~configInvalid => mconfig = config

\* Without the safety pass: a change the watch saw is indexed, by the retries
\* of failed passes at the next debounce window if need be (vertical-2.md).  A
\* source whose read failed waits for the safety pass.
HintsSuffice ==
    \A s \in Sources :
        s \in stale \cap noticed ~>
            s \notin stale \cap noticed \/ s \in unread \/ configInvalid

\* With it, everything is, whatever the watch missed: when the changes stop,
\* the index holds them all.  Only a metadata_audit edit that kept size and
\* mtime and whose path was forgotten is left to the rolling audit.
Settles == <>[](stale \subseteq silent)

\* docs/vertical-2.md: a valid config written while the daemon runs is applied.
ConfigAdopted ==
    \A c \in Configs \ RestartConfigs :
        (cfgFile = c /\ "config" \in noticed) ~> (mconfig = c \/ cfgFile # c)

\* The comment in serve: "The watcher is armed before the boot pass so nothing
\* observed while it runs is lost", and vertical-2.md of a first build: "there
\* are no offline changes a moments-old build could have missed".  When the
\* boot is over, what the index lacks is on its way.
BootMissesNothing == Idle => \A s \in stale : Tracked(s)

=============================================================================

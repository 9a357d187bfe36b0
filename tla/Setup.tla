------------------------------- MODULE Setup -------------------------------
(***************************************************************************)
(* `kwiry setup` and `kwiry service`: a plan made from a snapshot, the     *)
(* setup lock, the actions of the plan in order, the per-user service      *)
(* manager they drive (systemd --user or Task Scheduler) and the readiness *)
(* probe, next to the daemon that the service manager starts.              *)
(*                                                                         *)
(* The snapshot and the plan are made before the setup lock is taken, and  *)
(* a process may be killed or fail at any step and be run again.  Dry runs *)
(* stop at the plan and change nothing; they are left out.                 *)
(***************************************************************************)
EXTENDS Naturals, Sequences, FiniteSets

CONSTANTS
    Setups,       \* the setup processes
    Request,      \* Request[p]: the vault and the preference p is run with
    Definition,   \* Definition[p]: the service definition p would render
    Additions,    \* the registrations `kwiry vault add` may make
    Platforms,    \* of "linux" (systemd --user) and "windows" (Task Scheduler)
    MaxRuns,      \* how often setup is run in all
    MaxCommands,  \* how many other commands and foreign units there are
    MaxFaults,    \* failed steps, kills and crashes
    None

Definitions == {Definition[p] : p \in Setups}
Requested(p) == <<Request[p].id, Request[p].path>>
Registrations == {Requested(p) : p \in Setups} \cup Additions

\* What a `service install` or `uninstall` keeps: its stage, the unit it found and the
\* one it leaves.
Ops == [stage : {"stop", "replace", "reload"}, old : Definitions \cup {None},
        new : Definitions \cup {None}]

ASSUME SetupAssumption ==
    /\ Platforms \subseteq {"linux", "windows"}
    /\ \A p \in Setups : Request[p].semantic \in {"on", "off", "saved"}
    /\ {MaxRuns, MaxCommands, MaxFaults} \subseteq Nat
    /\ None \notin Setups \cup Definitions \cup Ops \cup {"foreign", "service"}
    /\ "foreign" \notin Definitions /\ "service" \notin Setups

VARIABLES
    platform,    \* which service manager there is; it never changes
    config,      \* config.toml: registrations, semantic preference, token path set
    token,       \* the token in the token file, 0 when there is no file
    minted,      \* how many tokens were generated
    index,       \* a generation is published
    unit,        \* the unit file or task: None, "foreign" or a definition
    loaded,      \* the definition the service manager has loaded
    enabled,     \* the service starts with the session
    daemon,      \* the daemon process
    descriptor,  \* who wrote connection.json: None or a definition
    setupLock,   \* the holder of setup.lock: a setup or "service"
    op,          \* the `service install` or `uninstall` under way
    pc, todo,    \* of each setup: where it is, the actions still to apply
    want,        \* of each setup: the preference its input was resolved to
    report,      \* of each setup: the outcome of its last run
    previous,    \* of each setup: the unit an install replaces
    runs, commands, faults,
    clean,       \* history: the setups that ran undisturbed since their snapshot
    launched,    \* history: the setups whose run has started or restarted the service
    exposed      \* history: the unit of the user's own came after the last inspection,
                 \* while the command that had inspected was still at work

files == <<config, token, minted, index>>
service == <<unit, loaded, enabled>>
process == <<daemon, descriptor>>
setups == <<setupLock, pc, todo, want, report, previous>>
counters == <<runs, commands, faults>>
history == <<clean, launched>>
aside == <<op, exposed>>
vars == <<platform, aside, files, service, process, setups, counters, history>>

Down == [phase |-> "down", def |-> None, semantic |-> FALSE, loader |-> "off",
         vaults |-> {}, token |-> 0, degraded |-> FALSE]

\* A process the service manager has just started; it has read nothing yet.
Spawned(d) == [Down EXCEPT !.phase = "spawned", !.def = d]

Active == daemon.phase \notin {"down", "crashed"}

\* The manager of a daemon that serves an index holds the writer lock.
WriterLockHeld == daemon.phase = "serving"

RestartRequired == config.semantic # daemon.semantic

ReloadPending ==
    \/ daemon.degraded # RestartRequired
    \/ ~RestartRequired /\ daemon.vaults # config.vaults

\* Nothing the daemon would still do by itself.
Settled ==
    \/ daemon.phase \in {"down", "noindex"}
    \/ daemon.phase = "serving" /\ ~ReloadPending /\ daemon.loader # "loading"

-----------------------------------------------------------------------------
(* Planning. *)

ServiceState ==
    CASE unit = None -> "not_installed"
      [] unit # None /\ Active -> "running"
      [] OTHER -> "stopped"

\* An explicit preference wins; a fresh machine without one gets semantic search.
ResolvedSemantic(p) ==
    CASE Request[p].semantic # "saved" -> Request[p].semantic = "on"
      [] config.exists -> config.semantic
      [] OTHER -> TRUE

HasId(vaults, id) == \E r \in vaults : r[1] = id

\* The id is taken for another path, or the path under another id.
Conflict(vaults, id, path) ==
    IF HasId(vaults, id)
    THEN <<id, path>> \notin vaults
    ELSE \E r \in vaults : r[2] = path

\* The actions with disposition Apply, in the order of the plan.
PlanSetup(p, semantic) ==
    LET registration == ~HasId(config.vaults, Request[p].id)
        preference   == config.semantic # semantic
        current      == unit = Definition[p]
        running      == ServiceState = "running"
        restart      == registration \/ preference \/ ~current
        If(c, kind)  == IF c THEN <<kind>> ELSE <<>>
    IN  If(registration, "register")
        \o If(preference, "semantic")
        \o If(~(config.token /\ token # 0), "bootstrap")
        \o If((registration /\ ~running) \/ (~registration /\ ~index), "build")
        \o If(~current, "install")
        \o (IF running THEN If(restart, "restart") ELSE <<"start">>)
        \o <<"ready">>

Idle(p) == pc[p] = "idle"

Finish(p, outcome) ==
    /\ pc' = [pc EXCEPT ![p] = "idle"]
    /\ todo' = [todo EXCEPT ![p] = <<>>]
    /\ report' = [report EXCEPT ![p] = outcome]

\* run_setup up to the executor: snapshot, input, plan.
Plan(p) ==
    /\ Idle(p)
    /\ runs < MaxRuns
    /\ runs' = runs + 1
    /\ LET semantic == ResolvedSemantic(p) IN
       /\ want' = [want EXCEPT ![p] = semantic]
       /\ \/ /\ \/ unit = "foreign"
                \/ Conflict(config.vaults, Request[p].id, Request[p].path)
             /\ Finish(p, "refused")
          \/ /\ unit # "foreign"
             /\ ~Conflict(config.vaults, Request[p].id, Request[p].path)
             /\ pc' = [pc EXCEPT ![p] = "planned"]
             /\ todo' = [todo EXCEPT ![p] = PlanSetup(p, semantic)]
             /\ report' = [report EXCEPT ![p] = "none"]
    /\ clean' = IF Settled /\ \A q \in Setups : Idle(q) THEN {p} ELSE {}
    /\ launched' = launched \ {p}
    /\ UNCHANGED <<platform, aside, files, service, process, setupLock, previous,
                   commands, faults>>

\* SetupExecutor::execute takes the lock after the plan, or gives up.
Lock(p) ==
    /\ pc[p] = "planned"
    /\ \/ /\ setupLock = None
          /\ setupLock' = p
          /\ pc' = [pc EXCEPT ![p] = "acting"]
          /\ UNCHANGED <<todo, report>>
       \/ /\ setupLock # None
          /\ Finish(p, "failed")
          /\ UNCHANGED setupLock
    /\ clean' = clean \cap {p}
    /\ UNCHANGED <<platform, aside, launched, files, service, process, want, previous,
                   counters>>

-----------------------------------------------------------------------------
(* The actions of the plan. *)

\* The next action of p, which holds the lock.
Applies(p, kind) ==
    /\ pc[p] = "acting"
    /\ Head(todo[p]) = kind
    /\ clean' = clean \cap {p}

\* The action succeeded; the one after it is next.
Applied(p) ==
    /\ todo' = [todo EXCEPT ![p] = Tail(@)]
    /\ pc' = [pc EXCEPT ![p] = "acting"]
    /\ UNCHANGED <<setupLock, want, report>>

\* The action failed: the report says so, the rest is skipped, the lock is dropped.
Abort(p) ==
    /\ Finish(p, "failed")
    /\ setupLock' = None
    /\ UNCHANGED want

\* Mutant: the conflicts the planner looked for are not looked for again.
RegisterTrustsPlan(p) ==
    /\ Applies(p, "register")
    /\ config' = [config EXCEPT !.vaults = @ \cup {Requested(p)}, !.exists = TRUE]
    /\ Applied(p)
    /\ UNCHANGED <<platform, aside, launched, token, minted, index, service, process,
                   previous, counters>>

\* update_config with ensure_vault_registration.
Register(p) ==
    /\ Applies(p, "register")
    /\ LET id == Request[p].id
           path == Request[p].path
       IN  \/ /\ Conflict(config.vaults, id, path)
              /\ Abort(p)
              /\ UNCHANGED config
           \/ /\ ~Conflict(config.vaults, id, path)
              /\ config' = [config EXCEPT !.vaults = @ \cup {Requested(p)},
                                          !.exists = TRUE]
              /\ Applied(p)
    /\ UNCHANGED <<platform, aside, launched, token, minted, index, service, process,
                   previous, counters>>

SetSemantic(p) ==
    /\ Applies(p, "semantic")
    /\ config' = [config EXCEPT !.semantic = want[p], !.exists = TRUE]
    /\ Applied(p)
    /\ UNCHANGED <<platform, aside, launched, token, minted, index, service, process,
                   previous, counters>>

\* bootstrap_desktop: the token path is recorded, an existing token is kept.
Bootstrap(p) ==
    /\ Applies(p, "bootstrap")
    /\ config' = [config EXCEPT !.token = TRUE, !.exists = TRUE]
    /\ \/ token # 0 /\ Applied(p)
       \/ /\ token = 0
          /\ pc' = [pc EXCEPT ![p] = "minting"]
          /\ UNCHANGED <<setupLock, todo, want, report>>
    /\ UNCHANGED <<platform, aside, launched, token, minted, index, service, process,
                   previous, counters>>

\* A file seen missing is written, whoever wrote it in between.
MintToken ==
    /\ minted' = minted + 1
    /\ token' = minted + 1

Mint(p) ==
    /\ pc[p] = "minting"
    /\ MintToken
    /\ Applied(p)
    /\ clean' = clean \cap {p}
    /\ UNCHANGED <<platform, aside, launched, config, index, service, process,
                   previous, counters>>

\* build_index needs a registration and the writer lock.
BuildIndex(p) ==
    /\ Applies(p, "build")
    /\ \/ /\ config.vaults = {} \/ WriterLockHeld
          /\ Abort(p)
          /\ UNCHANGED index
       \/ /\ config.vaults # {} /\ ~WriterLockHeld
          /\ index' = TRUE
          /\ Applied(p)
    /\ UNCHANGED <<platform, aside, launched, config, token, minted, service, process,
                   previous, counters>>

\* A unit or task that Kwiry did not generate is never touched.
RefusesForeign(p) ==
    /\ Applies(p, "install")
    /\ unit = "foreign"
    /\ Abort(p)
    /\ UNCHANGED <<platform, aside, launched, files, service, process, previous,
                   counters>>

\* Mutant: the unit is taken for the one the planner saw.
InspectTrustsPlan(p) ==
    /\ Applies(p, "install")
    /\ previous' = [previous EXCEPT ![p] = None]
    /\ pc' = [pc EXCEPT ![p] = "inspected"]
    /\ exposed' = FALSE
    /\ UNCHANGED <<platform, op, launched, files, service, process, setupLock, todo,
                   want, report, counters>>

\* The unit is inspected first, and what is there then is kept for a failed reload.
Inspect(p) ==
    /\ Applies(p, "install")
    /\ unit # "foreign"
    /\ previous' = [previous EXCEPT ![p] = unit]
    /\ pc' = [pc EXCEPT ![p] = "inspected"]
    /\ exposed' = FALSE
    /\ UNCHANGED <<platform, op, launched, files, service, process, setupLock, todo,
                   want, report, counters>>

\* systemd: the unit file is replaced, whatever it is by now; then the manager is
\* reloaded and the unit enabled.
WriteUnit(p) ==
    /\ platform = "linux"
    /\ pc[p] = "inspected"
    /\ unit' = Definition[p]
    /\ pc' = [pc EXCEPT ![p] = "written"]
    /\ clean' = clean \cap {p}
    /\ UNCHANGED <<platform, aside, launched, files, loaded, enabled, process,
                   setupLock, todo, want, report, previous, counters>>

ReloadManager(p) ==
    /\ pc[p] = "written"
    /\ loaded' = unit
    /\ pc' = [pc EXCEPT ![p] = "reloaded"]
    /\ clean' = clean \cap {p}
    /\ previous' = [previous EXCEPT ![p] = None]
    /\ UNCHANGED <<platform, aside, launched, files, unit, enabled, process, setupLock,
                   todo, want, report, counters>>

EnableUnit(p) ==
    /\ pc[p] = "reloaded"
    /\ enabled' = TRUE
    /\ Applied(p)
    /\ clean' = clean \cap {p}
    /\ UNCHANGED <<platform, aside, launched, files, unit, loaded, process, previous,
                   counters>>

\* Task Scheduler: one command creates or updates the task, enabled.
CreateTask(p) ==
    /\ platform = "windows"
    /\ pc[p] = "inspected"
    /\ unit' = Definition[p]
    /\ loaded' = Definition[p]
    /\ enabled' = TRUE
    /\ Applied(p)
    /\ clean' = clean \cap {p}
    /\ previous' = [previous EXCEPT ![p] = None]
    /\ UNCHANGED <<platform, aside, launched, files, process, counters>>

\* systemctl loads a unit it has not seen; one it has loaded stays until a reload.
LoadedUnit == IF loaded = None THEN unit ELSE loaded

\* Whether the service manager can start the service at all.
Startable ==
    /\ unit # None
    /\ platform = "windows" => enabled /\ unit # "foreign"

\* systemctl start does not ask whose unit it is.
Launched == IF LoadedUnit = "foreign" THEN Down ELSE Spawned(LoadedUnit)

\* Mutant: restart leaves an active service alone as well.
LaunchKeepsActive(p, kind) ==
    /\ Applies(p, kind)
    /\ Startable
    /\ Applied(p)
    /\ loaded' = LoadedUnit
    /\ daemon' = IF Active THEN daemon ELSE Launched
    /\ launched' = launched \cup {p}
    /\ UNCHANGED <<platform, aside, files, unit, enabled, descriptor, previous,
                   counters>>

\* start leaves an active service alone, restart replaces it.
Launch(p, kind) ==
    /\ Applies(p, kind)
    /\ \/ /\ ~Startable
          /\ Abort(p)
          /\ UNCHANGED <<loaded, daemon>>
       \/ /\ Startable
          /\ Applied(p)
          /\ loaded' = LoadedUnit
          /\ daemon' = IF kind = "start" /\ Active THEN daemon ELSE Launched
    /\ launched' = launched \cup {p}
    /\ UNCHANGED <<platform, aside, files, unit, enabled, descriptor, previous,
                   counters>>

StartService(p) == Launch(p, "start")
RestartService(p) == Launch(p, "restart")

\* Mutant: any vault in the status will do.
ValidStatusOfAnyVault(p) ==
    /\ index /\ ~daemon.degraded
    /\ want[p] => daemon.loader = "ready"

\* The status names the vault by its id; the path is not compared.
ValidStatus(p) ==
    /\ index /\ ~daemon.degraded
    /\ \E r \in daemon.vaults : r[1] = Request[p].id
    /\ want[p] => daemon.loader = "ready"

\* One round of the probe: descriptor, health, token, authenticated status.
Ready(p) ==
    /\ descriptor # None
    /\ daemon.phase = "serving"
    /\ token # 0 /\ token = daemon.token
    /\ daemon.def = descriptor
    /\ ValidStatus(p)

CheckReadiness(p) ==
    /\ Applies(p, "ready")
    /\ \/ /\ Ready(p)
          /\ Finish(p, "ok")
          /\ setupLock' = None
          /\ UNCHANGED want
       \/ ~Ready(p) /\ Settled /\ Abort(p)
    /\ UNCHANGED <<platform, aside, launched, files, service, process, previous,
                   counters>>

-----------------------------------------------------------------------------
(* Faults of a setup: a step fails, or the process is killed. *)

Fault == faults < MaxFaults /\ faults' = faults + 1 /\ clean' = {}

\* I/O, a held config lock, systemctl or the deadline of the probe fail a step.
StepFails(p) ==
    /\ pc[p] \in {"acting", "minting", "inspected", "reloaded"}
    /\ Fault
    /\ Abort(p)
    /\ previous' = [previous EXCEPT ![p] = None]
    /\ UNCHANGED <<platform, aside, launched, files, service, process, runs, commands>>

\* A failed reload puts the old unit back before it reports, over whatever is there.
ReloadFails(p) ==
    /\ pc[p] = "written"
    /\ Fault
    /\ unit' = previous[p]
    /\ previous' = [previous EXCEPT ![p] = None]
    /\ Abort(p)
    /\ UNCHANGED <<platform, aside, launched, files, loaded, enabled, process, runs,
                   commands>>

\* The lock file is released with the process.
Killed(p) ==
    /\ ~Idle(p)
    /\ Fault
    /\ Finish(p, "killed")
    /\ setupLock' = IF setupLock = p THEN None ELSE setupLock
    /\ previous' = [previous EXCEPT ![p] = None]
    /\ UNCHANGED <<platform, aside, launched, files, service, process, want, runs,
                   commands>>

-----------------------------------------------------------------------------
(* `kwiry service`, under the same lock; `kwiry vault add` and `kwiry index`,
   which do not take it; and a unit of the user's own. *)

Command ==
    /\ commands < MaxCommands
    /\ commands' = commands + 1
    /\ clean' = {}

LockedCommand == setupLock = None /\ Command

\* A command that writes or removes the unit inspects it first.
ServiceInspects(stage, new) ==
    /\ LockedCommand
    /\ unit # "foreign"
    /\ setupLock' = "service"
    /\ op' = [stage |-> stage, old |-> unit, new |-> new]
    /\ exposed' = FALSE
    /\ UNCHANGED <<platform, launched, files, service, process, pc, todo, want, report,
                   previous, runs, faults>>

ServiceInstall(p) == ServiceInspects("replace", Definition[p])

ServiceUninstall == unit # None /\ ServiceInspects("stop", None)

\* Uninstall stops and, with systemd, disables the service before it removes the unit.
UninstallStops ==
    /\ op # None /\ op.stage = "stop"
    /\ op' = [op EXCEPT !.stage = "replace"]
    /\ daemon' = Down
    /\ enabled' = (enabled /\ platform = "windows")
    /\ clean' = {}
    /\ UNCHANGED <<platform, exposed, launched, files, unit, loaded, descriptor,
                   setups, counters>>

ServiceEnds ==
    /\ op' = None
    /\ setupLock' = None
    /\ clean' = {}
    /\ UNCHANGED <<platform, exposed, launched, files, process, pc, todo, want, report,
                   previous, runs, commands>>

\* The unit is written or removed, whatever it is by now; systemd then reloads.
ServiceReplaces ==
    /\ op # None /\ op.stage = "replace"
    /\ unit' = op.new
    /\ \/ /\ platform = "windows"
          /\ loaded' = op.new
          /\ enabled' = (op.new # None)
          /\ ServiceEnds
          /\ UNCHANGED faults
       \/ /\ platform = "linux"
          /\ op' = [op EXCEPT !.stage = "reload"]
          /\ clean' = {}
          /\ UNCHANGED <<platform, exposed, launched, files, loaded, enabled, process,
                         setups, counters>>

\* A failed reload writes back the unit that was found.
ServiceReloads ==
    /\ op # None /\ op.stage = "reload"
    /\ \/ /\ loaded' = unit
          /\ enabled' = (op.new # None)
          /\ UNCHANGED <<unit, faults>>
       \/ /\ faults < MaxFaults
          /\ faults' = faults + 1
          /\ unit' = op.old
          /\ UNCHANGED <<loaded, enabled>>
    /\ ServiceEnds

\* The command fails or is killed where it is.
ServiceFails ==
    /\ op # None
    /\ faults < MaxFaults
    /\ faults' = faults + 1
    /\ ServiceEnds
    /\ UNCHANGED service

ServiceStart ==
    /\ LockedCommand
    /\ Startable
    /\ loaded' = LoadedUnit
    /\ daemon' = IF Active THEN daemon ELSE Launched
    /\ UNCHANGED <<platform, aside, launched, files, unit, enabled, descriptor, setups,
                   runs, faults>>

ServiceStop ==
    /\ LockedCommand
    /\ Active
    /\ platform = "windows" => unit \in Definitions
    /\ daemon' = Down
    /\ UNCHANGED <<platform, aside, launched, files, service, descriptor, setups, runs,
                   faults>>

ServiceRestart ==
    /\ LockedCommand
    /\ Startable
    /\ loaded' = LoadedUnit
    /\ daemon' = Launched
    /\ UNCHANGED <<platform, aside, launched, files, unit, enabled, descriptor, setups,
                   runs, faults>>

\* add_vault asks for a new id only; a path may be registered twice.
VaultAdd(r) ==
    /\ Command
    /\ ~HasId(config.vaults, r[1])
    /\ config' = [config EXCEPT !.vaults = @ \cup {r}, !.exists = TRUE]
    /\ UNCHANGED <<platform, aside, launched, token, minted, index, service, process,
                   setups, runs, faults>>

IndexCommand ==
    /\ Command
    /\ config.vaults # {} /\ ~WriterLockHeld
    /\ index' = TRUE
    /\ UNCHANGED <<platform, aside, launched, config, token, minted, service, process,
                   setups, runs, faults>>

\* Past its inspection, and the unit still to be written, removed or put back.
Inspected == op # None \/ \E p \in Setups : pc[p] \in {"inspected", "written"}

\* The user puts a unit of the same name there, or replaces Kwiry's; Task Scheduler
\* needs no reload to know.
ForeignUnit ==
    /\ Command
    /\ unit # "foreign"
    /\ unit' = "foreign"
    /\ loaded' = IF platform = "windows" THEN "foreign" ELSE loaded
    /\ exposed' = Inspected
    /\ UNCHANGED <<platform, op, launched, files, enabled, process, setups, runs,
                   faults>>

-----------------------------------------------------------------------------
(* The daemon that the service manager runs, as far as setup can see it. *)

\* serve: bootstrap, then the configuration it keeps until it ends.
DaemonBootstraps ==
    /\ daemon.phase = "spawned"
    /\ config' = [config EXCEPT !.token = TRUE, !.exists = TRUE]
    /\ daemon' = [daemon EXCEPT !.phase = IF token = 0 THEN "minting" ELSE "booting",
                                !.token = token,
                                !.semantic = config.semantic,
                                !.vaults = config.vaults]
    /\ UNCHANGED <<platform, aside, token, minted, index, service, descriptor, setups,
                   counters, history>>

DaemonMints ==
    /\ daemon.phase = "minting"
    /\ MintToken
    /\ daemon' = [daemon EXCEPT !.phase = "booting", !.token = minted + 1]
    /\ UNCHANGED <<platform, aside, config, index, service, descriptor, setups,
                   counters, history>>

\* boot_index fails for good without a generation and without a vault.
DaemonBoots ==
    /\ daemon.phase = "booting"
    /\ \/ /\ ~index /\ daemon.vaults = {}
          /\ daemon' = [daemon EXCEPT !.phase = "noindex"]
          /\ UNCHANGED <<index, descriptor>>
       \/ /\ index \/ daemon.vaults # {}
          /\ index' = TRUE
          /\ descriptor' = daemon.def
          /\ daemon' = [daemon EXCEPT !.phase = "serving",
                                      !.loader = IF daemon.semantic THEN "loading" ELSE "off"]
    /\ UNCHANGED <<platform, aside, config, token, minted, service, setups, counters,
                   history>>

\* A desktop daemon whose boot fails keeps serving without an index.
DaemonBootFails ==
    /\ daemon.phase = "booting"
    /\ Fault
    /\ daemon' = [daemon EXCEPT !.phase = "noindex"]
    /\ UNCHANGED <<platform, aside, launched, files, service, descriptor, setups, runs,
                   commands>>

\* The watcher applies registrations and holds what needs a restart.
DaemonReloads ==
    /\ daemon.phase = "serving"
    /\ ReloadPending
    /\ daemon' = [daemon EXCEPT !.degraded = RestartRequired,
                                !.vaults = IF RestartRequired THEN @ ELSE config.vaults]
    /\ UNCHANGED <<platform, aside, files, service, descriptor, setups, counters,
                   history>>

DaemonLoadsModel ==
    /\ daemon.phase = "serving" /\ daemon.loader = "loading"
    /\ daemon' = [daemon EXCEPT !.loader = "ready"]
    /\ UNCHANGED <<platform, aside, files, service, descriptor, setups, counters,
                   history>>

ModelFails ==
    /\ daemon.phase = "serving" /\ daemon.loader = "loading"
    /\ Fault
    /\ daemon' = [daemon EXCEPT !.loader = "failed"]
    /\ UNCHANGED <<platform, aside, launched, files, service, descriptor, setups, runs,
                   commands>>

DaemonCrashes ==
    /\ Active
    /\ Fault
    /\ daemon' = [Down EXCEPT !.phase = "crashed", !.def = daemon.def]
    /\ UNCHANGED <<platform, aside, launched, files, service, descriptor, setups, runs,
                   commands>>

\* Restart=on-failure and RestartOnFailure.
ManagerRestarts ==
    /\ daemon.phase = "crashed"
    /\ daemon' = Spawned(daemon.def)
    /\ UNCHANGED <<platform, aside, files, service, descriptor, setups, counters,
                   history>>

-----------------------------------------------------------------------------

Init ==
    /\ platform \in Platforms
    /\ config = [exists |-> FALSE, vaults |-> {}, semantic |-> FALSE, token |-> FALSE]
    /\ token = 0 /\ minted = 0
    /\ index = FALSE
    /\ unit = None /\ loaded = None /\ enabled = FALSE
    /\ daemon = Down /\ descriptor = None
    /\ setupLock = None /\ op = None
    /\ pc = [p \in Setups |-> "idle"]
    /\ todo = [p \in Setups |-> <<>>]
    /\ want = [p \in Setups |-> FALSE]
    /\ report = [p \in Setups |-> "none"]
    /\ previous = [p \in Setups |-> None]
    /\ runs = 0 /\ commands = 0 /\ faults = 0
    /\ clean = {} /\ launched = {} /\ exposed = FALSE

SetupStep(p) ==
    \/ Plan(p) \/ Lock(p)
    \/ Register(p) \/ SetSemantic(p) \/ Bootstrap(p) \/ Mint(p) \/ BuildIndex(p)
    \/ RefusesForeign(p) \/ Inspect(p)
    \/ WriteUnit(p) \/ ReloadManager(p) \/ EnableUnit(p) \/ CreateTask(p)
    \/ StartService(p) \/ RestartService(p) \/ CheckReadiness(p)

SetupFault(p) == StepFails(p) \/ ReloadFails(p) \/ Killed(p)

OtherCommand ==
    \/ \E p \in Setups : ServiceInstall(p)
    \/ ServiceStart \/ ServiceStop \/ ServiceRestart \/ ServiceUninstall
    \/ UninstallStops \/ ServiceReplaces \/ ServiceReloads \/ ServiceFails
    \/ \E r \in Additions : VaultAdd(r)
    \/ IndexCommand \/ ForeignUnit

DaemonStep ==
    \/ DaemonBootstraps \/ DaemonMints \/ DaemonBoots \/ DaemonBootFails
    \/ DaemonReloads \/ DaemonLoadsModel \/ ModelFails \/ DaemonCrashes \/ ManagerRestarts

Next ==
    \/ \E p \in Setups : SetupStep(p) \/ SetupFault(p)
    \/ OtherCommand
    \/ DaemonStep

Spec == Init /\ [][Next]_vars

-----------------------------------------------------------------------------
(* Properties. *)

Kinds == {"register", "semantic", "bootstrap", "build", "install", "start", "restart",
          "ready"}

\* Every variable has its type, and the setup that holds setup.lock is one that
\* SetupExecutor::execute let in.
TypeOK ==
    /\ platform \in Platforms
    /\ config \in [exists : BOOLEAN, vaults : SUBSET Registrations, semantic : BOOLEAN,
                   token : BOOLEAN]
    /\ minted \in Nat /\ token \in 0..minted
    /\ index \in BOOLEAN
    /\ unit \in Definitions \cup {None, "foreign"}
    /\ loaded \in Definitions \cup {None, "foreign"}
    /\ enabled \in BOOLEAN
    /\ daemon \in [phase : {"down", "crashed", "spawned", "minting", "booting", "noindex",
                            "serving"},
                   def : Definitions \cup {None}, semantic : BOOLEAN,
                   loader : {"off", "loading", "ready", "failed"},
                   vaults : SUBSET Registrations, token : 0..minted, degraded : BOOLEAN]
    /\ descriptor \in Definitions \cup {None}
    /\ pc \in [Setups -> {"idle", "planned", "acting", "minting", "inspected", "written",
                           "reloaded"}]
    /\ todo \in [Setups -> Seq(Kinds)]
    /\ want \in [Setups -> BOOLEAN]
    /\ report \in [Setups -> {"none", "refused", "ok", "failed", "killed"}]
    /\ previous \in [Setups -> Definitions \cup {None}]
    /\ setupLock \in Setups \cup {None, "service"}
    /\ op \in Ops \cup {None}
    /\ op # None <=> setupLock = "service"
    /\ \A p \in Setups : pc[p] \notin {"idle", "planned"} <=> setupLock = p
    /\ clean \subseteq Setups /\ launched \subseteq Setups /\ exposed \in BOOLEAN

\* Plans are made before the lock is taken and `vault add` does not take it, and
\* still config.toml never names one vault id twice: update_config decides again.
UniqueIds ==
    \A r, s \in config.vaults : r[1] = s[1] => r = s

Outcome(p, outcome) == ~Idle(p) /\ pc'[p] = "idle" /\ report'[p] = outcome

\* A setup that reports ok leaves a daemon that serves the vault it was asked for, at
\* the path it was asked for, with the token in the token file, although the
\* probe compares the id only and the plan may be stale.
OkServesRequest ==
    [][\A p \in Setups : Outcome(p, "ok") =>
         /\ Requested(p) \in daemon.vaults
         /\ daemon.phase = "serving" /\ daemon.token = token
         /\ want[p] => daemon.semantic]_vars

\* A setup run that nothing disturbs after its snapshot and that starts or
\* restarts the service ends with an ok report, whatever earlier failures,
\* kills and commands left behind.
CleanStartSucceeds ==
    [][\A p \in clean' \cap launched' : ~Outcome(p, "failed")]_vars

\* Kwiry replaces or removes a unit or task of the user's own only when it appeared
\* after the command at work had inspected: one that is there when install or
\* uninstall looks is refused, and no leftover of a killed or failed command, no stale
\* plan and no restore after a failed reload gets at it.
ForeignKept ==
    [][unit = "foreign" /\ unit' # "foreign" => exposed]_vars

\* "Fix the reported issue and rerun the same `kwiry setup` command; setup
\* recomputes the plan and resumes safely" (docs/setup.md): a run that nothing
\* disturbs does not fail, whatever an earlier run left behind.
RerunResumes ==
    [][\A p \in clean' : ~Outcome(p, "failed")]_vars
=============================================================================

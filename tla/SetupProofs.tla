---------------------------- MODULE SetupProofs ----------------------------
(***************************************************************************)
(* Proofs about Setup, for any number of setups, requests, definitions,    *)
(* registrations, runs, commands and faults.                               *)
(***************************************************************************)
EXTENDS Setup, SequenceTheorems, TLAPS

FilesType ==
    /\ platform \in Platforms
    /\ config \in [exists : BOOLEAN, vaults : SUBSET Registrations, semantic : BOOLEAN,
                   token : BOOLEAN]
    /\ minted \in Nat /\ token \in 0..minted
    /\ index \in BOOLEAN

ServiceType ==
    /\ unit \in Definitions \cup {None, "foreign"}
    /\ loaded \in Definitions \cup {None, "foreign"}
    /\ enabled \in BOOLEAN

DaemonType ==
    /\ daemon \in [phase : {"down", "crashed", "spawned", "minting", "booting", "noindex",
                            "serving"},
                   def : Definitions \cup {None}, semantic : BOOLEAN,
                   loader : {"off", "loading", "ready", "failed"},
                   vaults : SUBSET Registrations, token : 0..minted, degraded : BOOLEAN]
    /\ descriptor \in Definitions \cup {None}

SetupsType ==
    /\ pc \in [Setups -> {"idle", "planned", "acting", "minting", "inspected",
                          "written", "reloaded"}]
    /\ todo \in [Setups -> Seq(Kinds)]
    /\ want \in [Setups -> BOOLEAN]
    /\ report \in [Setups -> {"none", "refused", "ok", "failed", "killed"}]
    /\ previous \in [Setups -> Definitions \cup {None}]
    /\ setupLock \in Setups \cup {None, "service"}
    /\ \A p \in Setups : pc[p] \notin {"idle", "planned"} <=> setupLock = p
    /\ clean \subseteq Setups /\ launched \subseteq Setups

\* A plan ends with the probe, and a plan that finds its vault unregistered
\* begins with the registration; a step in two parts is still the head.
Begun(p) ==
    /\ todo[p] # <<>>
    /\ todo[p][Len(todo[p])] = "ready"
    /\ pc[p] = "minting" => Head(todo[p]) = "bootstrap"
    /\ pc[p] \in {"inspected", "written", "reloaded"} => Head(todo[p]) = "install"
    /\ Requested(p) \in config.vaults \/ Head(todo[p]) = "register"

PlanInv == \A p \in Setups : ~Idle(p) => Begun(p)

\* Between the write and the reload the unit is the one the setup wrote, or one the
\* user has put in its place.
UnitInv == \A p \in Setups : pc[p] = "written" => unit \in {Definition[p], "foreign"}

\* The service command under way holds setup.lock, and a unit of the user's own that is
\* there while a command is past its inspection came after it.
OpInv ==
    /\ op \in Ops \cup {None}
    /\ op # None <=> setupLock = "service"
    /\ exposed \in BOOLEAN
    /\ unit = "foreign" /\ Inspected => exposed

\* Registrations are never dropped: the daemon knows none that config.toml does not.
KnownInv == daemon.vaults \subseteq config.vaults

\* A model is loaded only in a daemon that read semantic = true.
LoaderInv == daemon.loader # "off" => daemon.phase = "serving" /\ daemon.semantic

\* The inductive invariant.
SetupInv ==
    /\ FilesType /\ ServiceType /\ DaemonType /\ SetupsType
    /\ PlanInv /\ UnitInv /\ OpInv /\ LoaderInv /\ KnownInv /\ UniqueIds

-----------------------------------------------------------------------------
(* Plans. *)

\* Concatenation keeps the end of its second part, and the head of its first.
LEMMA ConcatEnds ==
    ASSUME NEW S, NEW s \in Seq(S), NEW t \in Seq(S)
    PROVE  /\ s \o t \in Seq(S)
           /\ s # <<>> => s \o t # <<>> /\ Head(s \o t) = Head(s)
           /\ t # <<>> => s \o t # <<>> /\ (s \o t)[Len(s \o t)] = t[Len(t)]
BY ConcatProperties, EmptySeq

\* The rest of a plan after a step that is not the probe.
LEMMA TailEnds ==
    ASSUME NEW s \in Seq(Kinds), s # <<>>, s[Len(s)] = "ready", Head(s) # "ready"
    PROVE  Tail(s) \in Seq(Kinds) /\ Tail(s) # <<>> /\ Tail(s)[Len(Tail(s))] = "ready"
<1>1. Len(s) \in Nat \ {0} /\ Head(s) = s[1]
  BY EmptySeq
<1>2. Len(s) # 1
  BY <1>1
<1>3. /\ Tail(s) \in Seq(Kinds) /\ Len(Tail(s)) = Len(s) - 1
      /\ \A i \in 1 .. Len(Tail(s)) : Tail(s)[i] = s[i+1]
  BY HeadTailProperties
<1>4. Tail(s)[Len(Tail(s))] = s[Len(s)]
  BY <1>1, <1>2, <1>3
<1>5. Len(Tail(s)) # 0
  BY <1>1, <1>2, <1>3
<1>6. Tail(s) # <<>>
  <2>1. \A t : t = <<>> => Len(t) = 0
    OBVIOUS
  <2> QED BY <1>5, <2>1, Zenon
<1> QED BY <1>3, <1>4, <1>6

\* plan_setup ends with the probe and registers first what is not registered.
LEMMA PlanShape ==
    ASSUME NEW p \in Setups, NEW semantic
    PROVE  /\ PlanSetup(p, semantic) \in Seq(Kinds)
           /\ PlanSetup(p, semantic) # <<>>
           /\ PlanSetup(p, semantic)[Len(PlanSetup(p, semantic))] = "ready"
           /\ ~HasId(config.vaults, Request[p].id) =>
                 Head(PlanSetup(p, semantic)) = "register"
<1> DEFINE reg == ~HasId(config.vaults, Request[p].id)
           running == ServiceState = "running"
           current == unit = Definition[p]
           preference == config.semantic # semantic
           a == IF reg THEN <<"register">> ELSE <<>>
           b == IF preference THEN <<"semantic">> ELSE <<>>
           c == IF ~(config.token /\ token # 0) THEN <<"bootstrap">> ELSE <<>>
           d == IF (reg /\ ~running) \/ (~reg /\ ~index) THEN <<"build">> ELSE <<>>
           e == IF ~current THEN <<"install">> ELSE <<>>
           f == IF running THEN (IF reg \/ preference \/ ~current THEN <<"restart">>
                                                                  ELSE <<>>)
                           ELSE <<"start">>
           z == <<"ready">>
<1>1. PlanSetup(p, semantic) = a \o b \o c \o d \o e \o f \o z
  BY DEF PlanSetup
<1>2. /\ a \in Seq(Kinds) /\ b \in Seq(Kinds) /\ c \in Seq(Kinds)
      /\ d \in Seq(Kinds) /\ e \in Seq(Kinds) /\ f \in Seq(Kinds)
      /\ z \in Seq(Kinds) /\ z # <<>> /\ z[Len(z)] = "ready"
      /\ reg => a # <<>> /\ Head(a) = "register"
  <2>1. \A k \in Kinds : <<k>> \in Seq(Kinds) /\ <<>> \in Seq(Kinds)
    OBVIOUS
  <2>2. Len(z) = 1 /\ Head(<<"register">>) = "register"
    OBVIOUS
  <2> QED BY <2>1, <2>2 DEF Kinds
<1> HIDE DEF a, b, c, d, e, f, z, reg
<1>3. /\ a \o b \in Seq(Kinds)
      /\ reg => a \o b # <<>> /\ Head(a \o b) = "register"
  BY <1>2, ConcatEnds
<1>4. /\ a \o b \o c \in Seq(Kinds)
      /\ reg => a \o b \o c # <<>> /\ Head(a \o b \o c) = "register"
  BY <1>2, <1>3, ConcatEnds
<1>5. /\ a \o b \o c \o d \in Seq(Kinds)
      /\ reg => a \o b \o c \o d # <<>> /\ Head(a \o b \o c \o d) = "register"
  BY <1>2, <1>4, ConcatEnds
<1>6. /\ a \o b \o c \o d \o e \in Seq(Kinds)
      /\ reg => a \o b \o c \o d \o e # <<>> /\ Head(a \o b \o c \o d \o e) = "register"
  BY <1>2, <1>5, ConcatEnds
<1> DEFINE g == a \o b \o c \o d \o e \o f
<1>7. /\ g \in Seq(Kinds)
      /\ reg => g # <<>> /\ Head(g) = "register"
  BY <1>2, <1>6, ConcatEnds
<1> HIDE DEF g
<1>8. /\ g \o z \in Seq(Kinds) /\ g \o z # <<>> /\ (g \o z)[Len(g \o z)] = "ready"
      /\ reg => Head(g \o z) = "register"
  BY <1>2, <1>7, ConcatEnds
<1> QED BY <1>1, <1>8 DEF g, reg

-----------------------------------------------------------------------------
(* What a setup does to its own state, given what the step does to config.toml
   and to the unit. *)

SetupsInv == SetupsType /\ PlanInv /\ UnitInv

\* Registrations are never dropped, and only the user replaces the unit of a setup that
\* has just written it, while that setup holds the lock.
Undisturbed ==
    /\ config.vaults \subseteq config'.vaults
    /\ \A p \in Setups : pc'[p] = "written" => unit' \in {Definition[p], "foreign"}
    /\ clean' \subseteq Setups /\ launched' \subseteq Setups
    /\ previous' \in [Setups -> Definitions \cup {None}]

\* A setup that ends drops the lock, which was its own.
LEMMA Ends ==
    ASSUME SetupsInv, Undisturbed, NEW p \in Setups,
           NEW outcome \in {"none", "refused", "ok", "failed", "killed"},
           Finish(p, outcome), want' \in [Setups -> BOOLEAN],
           setupLock' = IF setupLock = p THEN None ELSE setupLock
    PROVE  SetupsInv'
<1>1. /\ pc' \in [Setups -> {"idle", "planned", "acting", "minting", "inspected", "written",
                              "reloaded"}]
      /\ todo' \in [Setups -> Seq(Kinds)]
      /\ report' \in [Setups -> {"none", "refused", "ok", "failed", "killed"}]
  BY DEF SetupsInv, SetupsType, Finish
<1>2. \A q \in Setups : q # p => pc'[q] = pc[q] /\ todo'[q] = todo[q]
  BY DEF SetupsInv, SetupsType, Finish
<1>3. pc'[p] = "idle"
  BY DEF SetupsInv, SetupsType, Finish
<1>4. \A q \in Setups : pc'[q] \notin {"idle", "planned"} <=> setupLock' = q
  BY <1>2, <1>3, SetupAssumption DEF SetupsInv, SetupsType
<1>5. SetupsType'
  BY <1>1, <1>4 DEF SetupsInv, SetupsType, Undisturbed
<1>6. PlanInv'
  BY <1>2, <1>3 DEF SetupsInv, PlanInv, Begun, Idle, Undisturbed
<1> QED BY <1>5, <1>6 DEF SetupsInv, UnitInv, Undisturbed

\* A setup that goes on goes on with the rest of its plan.
LEMMA GoesOn ==
    ASSUME SetupsInv, Undisturbed, NEW p \in Setups, Applied(p),
           pc[p] \notin {"idle", "planned"}, Head(todo[p]) # "ready",
           Head(todo[p]) = "register" => Requested(p) \in config'.vaults
    PROVE  SetupsInv'
<1>1. /\ pc' = [pc EXCEPT ![p] = "acting"]
      /\ todo' = [todo EXCEPT ![p] = Tail(todo[p])]
      /\ UNCHANGED <<setupLock, want, report>>
  BY DEF Applied
<1>2. /\ todo[p] \in Seq(Kinds) /\ todo[p] # <<>>
      /\ todo[p][Len(todo[p])] = "ready"
      /\ Requested(p) \in config'.vaults
  BY DEF SetupsInv, SetupsType, PlanInv, Begun, Idle, Undisturbed
<1>3. /\ Tail(todo[p]) \in Seq(Kinds) /\ Tail(todo[p]) # <<>>
      /\ Tail(todo[p])[Len(Tail(todo[p]))] = "ready"
  BY <1>2, TailEnds
<1>4. \A q \in Setups : q # p => pc'[q] = pc[q] /\ todo'[q] = todo[q]
  BY <1>1 DEF SetupsInv, SetupsType
<1>5. pc'[p] = "acting" /\ todo'[p] = Tail(todo[p])
  BY <1>1 DEF SetupsInv, SetupsType
<1>6. /\ pc' \in [Setups -> {"idle", "planned", "acting", "minting", "inspected", "written",
                              "reloaded"}]
      /\ todo' \in [Setups -> Seq(Kinds)]
  BY <1>1, <1>3 DEF SetupsInv, SetupsType
<1>7. \A q \in Setups : pc'[q] \notin {"idle", "planned"} <=> setupLock' = q
  BY <1>1, <1>4, <1>5 DEF SetupsInv, SetupsType
<1>8. SetupsType'
  BY <1>1, <1>6, <1>7 DEF SetupsInv, SetupsType, Undisturbed
<1>9. PlanInv'
  <2> SUFFICES ASSUME NEW q \in Setups, ~Idle(q)' PROVE Begun(q)'
    BY DEF PlanInv
  <2>1. CASE q = p
    BY <1>2, <1>3, <1>5, <2>1 DEF Begun
  <2>2. CASE q # p
    BY <1>4, <2>2 DEF SetupsInv, PlanInv, Begun, Idle, Undisturbed
  <2> QED BY <2>1, <2>2
<1> QED BY <1>8, <1>9 DEF SetupsInv, UnitInv, Undisturbed

\* A setup in the middle of an action that has two parts or more.
LEMMA Pauses ==
    ASSUME SetupsInv, Undisturbed, NEW p \in Setups, NEW at,
           \/ at = "minting" /\ Head(todo[p]) = "bootstrap"
           \/ at \in {"inspected", "written", "reloaded"} /\ Head(todo[p]) = "install",
           pc[p] \notin {"idle", "planned"},
           pc' = [pc EXCEPT ![p] = at],
           UNCHANGED <<setupLock, todo, want, report>>
    PROVE  SetupsInv'
<1>1. \A q \in Setups : q # p => pc'[q] = pc[q]
  BY DEF SetupsInv, SetupsType
<1>2. pc'[p] = at
  BY DEF SetupsInv, SetupsType
<1>3. SetupsType'
  <2>1. \A q \in Setups : pc'[q] \notin {"idle", "planned"} <=> setupLock' = q
    BY <1>1, <1>2 DEF SetupsInv, SetupsType
  <2> QED BY <2>1 DEF SetupsInv, SetupsType, Undisturbed
<1>4. PlanInv'
  <2> SUFFICES ASSUME NEW q \in Setups, ~Idle(q)' PROVE Begun(q)'
    BY DEF PlanInv
  <2>1. CASE q = p
    BY <1>2, <2>1 DEF SetupsInv, PlanInv, Begun, Idle, Undisturbed
  <2>2. CASE q # p
    BY <1>1, <2>2 DEF SetupsInv, PlanInv, Begun, Idle, Undisturbed
  <2> QED BY <2>1, <2>2
<1> QED BY <1>3, <1>4 DEF SetupsInv, UnitInv, Undisturbed

\* A step of anyone else; a service command takes the lock when it is free and drops it.
LEMMA Elsewhere ==
    ASSUME SetupsInv, Undisturbed, UNCHANGED <<pc, todo, want, report, previous>>,
           \/ setupLock' = setupLock
           \/ setupLock = None /\ setupLock' = "service"
           \/ setupLock = "service" /\ setupLock' = None
    PROVE  SetupsInv'
<1>1. /\ setupLock' \in Setups \cup {None, "service"}
      /\ \A p \in Setups : setupLock' = p <=> setupLock = p
  BY SetupAssumption DEF SetupsInv, SetupsType
<1> QED BY <1>1 DEF SetupsInv, SetupsType, PlanInv, Begun, Idle, UnitInv, Undisturbed

-----------------------------------------------------------------------------
(* One step. *)

\* The invariant holds before the first command.
LEMMA SetupInvInit == Init => SetupInv
<1> SUFFICES ASSUME Init PROVE SetupInv
  OBVIOUS
<1>1. FilesType
  <2>1. minted \in Nat /\ token \in 0..minted /\ platform \in Platforms
    BY DEF Init
  <2>2. config \in [exists : BOOLEAN, vaults : SUBSET Registrations,
                    semantic : BOOLEAN, token : BOOLEAN]
    BY DEF Init
  <2>3. index \in BOOLEAN
    BY DEF Init
  <2> QED BY <2>1, <2>2, <2>3 DEF FilesType
<1>2. ServiceType /\ DaemonType
  <2>1. ServiceType /\ descriptor \in Definitions \cup {None}
    BY DEF Init, ServiceType
  <2>2. daemon \in [phase : {"down", "crashed", "spawned", "minting", "booting",
                             "noindex", "serving"},
                    def : Definitions \cup {None}, semantic : BOOLEAN,
                    loader : {"off", "loading", "ready", "failed"},
                    vaults : SUBSET Registrations, token : 0..minted,
                    degraded : BOOLEAN]
    BY DEF Init, Down
  <2> QED BY <2>1, <2>2 DEF DaemonType
<1>3. SetupsType
  BY SetupAssumption DEF Init, SetupsType
<1>4. PlanInv /\ UnitInv /\ OpInv
  BY SetupAssumption DEF Init, PlanInv, UnitInv, OpInv, Inspected, Idle
<1>5. LoaderInv /\ KnownInv /\ UniqueIds
  BY DEF Init, LoaderInv, KnownInv, Down, UniqueIds
<1> QED BY <1>1, <1>2, <1>3, <1>4, <1>5 DEF SetupInv

\* A new plan.
LEMMA PlanStep ==
    ASSUME SetupInv, SetupsInv, NEW p \in Setups, Plan(p)
    PROVE  SetupsInv'
<1>1. Undisturbed
  <2>1. UNCHANGED <<unit, config, previous>> /\ clean' \subseteq Setups
        /\ launched' \subseteq Setups
    BY DEF Plan, service, files, SetupsInv, SetupsType
  <2>2. \A q \in Setups : pc'[q] = "written" => pc[q] = "written"
    BY DEF Plan, Finish, SetupsInv, SetupsType
  <2> QED BY <2>1, <2>2 DEF Undisturbed, SetupsInv, SetupsType, UnitInv
<1>2. ResolvedSemantic(p) \in BOOLEAN
  BY DEF ResolvedSemantic, SetupInv, FilesType
<1>3. setupLock # p /\ setupLock' = setupLock
  BY DEF Plan, Idle, SetupsInv, SetupsType
<1> DEFINE plan == PlanSetup(p, ResolvedSemantic(p))
<1>4. /\ plan \in Seq(Kinds) /\ plan # <<>> /\ plan[Len(plan)] = "ready"
      /\ ~HasId(config.vaults, Request[p].id) => Head(plan) = "register"
  BY PlanShape
<1> HIDE DEF plan
<1>5. CASE Finish(p, "refused")
  <2>1. want' \in [Setups -> BOOLEAN]
    BY <1>2 DEF Plan, SetupsInv, SetupsType
  <2> QED BY <1>1, <1>3, <1>5, <2>1, Ends
<1>6. CASE /\ ~Conflict(config.vaults, Request[p].id, Request[p].path)
           /\ pc' = [pc EXCEPT ![p] = "planned"]
           /\ todo' = [todo EXCEPT ![p] = plan]
           /\ report' = [report EXCEPT ![p] = "none"]
  <2>1. \A q \in Setups : q # p => pc'[q] = pc[q] /\ todo'[q] = todo[q]
    BY <1>6 DEF SetupsInv, SetupsType
  <2>2. pc'[p] = "planned" /\ todo'[p] = plan
    BY <1>6 DEF SetupsInv, SetupsType
  <2>3. want' \in [Setups -> BOOLEAN]
    BY <1>2 DEF Plan, SetupsInv, SetupsType
  <2>4. SetupsType'
    <3>1. \A q \in Setups : pc'[q] \notin {"idle", "planned"} <=> setupLock' = q
      BY <1>3, <2>1, <2>2 DEF SetupsInv, SetupsType
    <3> QED BY <1>1, <1>3, <1>4, <1>6, <2>3, <3>1
          DEF SetupsInv, SetupsType, Undisturbed
  <2>5. PlanInv'
    <3> SUFFICES ASSUME NEW q \in Setups, ~Idle(q)' PROVE Begun(q)'
      BY DEF PlanInv
    <3>1. CASE q = p
      <4>1. Requested(p) \in config'.vaults \/ Head(plan) = "register"
        BY <1>1, <1>4, <1>6 DEF Conflict, Requested, Undisturbed
      <4> QED BY <1>4, <2>2, <3>1, <4>1 DEF Begun
    <3>2. CASE q # p
      BY <1>1, <2>1, <3>2 DEF SetupsInv, PlanInv, Begun, Idle, Undisturbed
    <3> QED BY <3>1, <3>2
  <2> QED BY <1>1, <2>4, <2>5 DEF SetupsInv, UnitInv, Undisturbed
<1> QED BY <1>5, <1>6 DEF Plan, plan

\* The lock is taken, or the setup gives up.
LEMMA LockStep ==
    ASSUME SetupsInv, NEW p \in Setups, Lock(p)
    PROVE  SetupsInv'
<1>1. Undisturbed
  <2>1. UNCHANGED <<unit, config, previous>> /\ clean' \subseteq Setups
        /\ launched' \subseteq Setups
    BY DEF Lock, service, files, SetupsInv, SetupsType
  <2>2. \A q \in Setups : pc'[q] = "written" => pc[q] = "written"
    BY DEF Lock, Finish, SetupsInv, SetupsType
  <2> QED BY <2>1, <2>2 DEF Undisturbed, SetupsInv, SetupsType, UnitInv
<1>2. setupLock # p
  BY DEF Lock, SetupsInv, SetupsType
<1>3. CASE Finish(p, "failed") /\ UNCHANGED setupLock
  BY <1>1, <1>2, <1>3, Ends DEF Lock, SetupsInv, SetupsType
<1>4. CASE /\ setupLock = None /\ setupLock' = p
           /\ pc' = [pc EXCEPT ![p] = "acting"]
           /\ UNCHANGED <<todo, report>>
  <2>1. \A q \in Setups : q # p => pc'[q] = pc[q]
    BY <1>4 DEF SetupsInv, SetupsType
  <2>2. pc'[p] = "acting" /\ pc[p] = "planned" /\ UNCHANGED <<todo, want, report>>
    BY <1>4 DEF SetupsInv, SetupsType, Lock
  <2>3. SetupsType'
    <3>1. \A q \in Setups : pc'[q] \notin {"idle", "planned"} <=> setupLock' = q
      BY <1>4, <2>1, <2>2, SetupAssumption DEF SetupsInv, SetupsType
    <3> QED BY <1>1, <1>4, <2>2, <3>1 DEF SetupsInv, SetupsType, Undisturbed
  <2>4. PlanInv'
    BY <1>1, <2>1, <2>2 DEF SetupsInv, PlanInv, Begun, Idle, Undisturbed
  <2> QED BY <1>1, <2>3, <2>4 DEF SetupsInv, UnitInv, Undisturbed
<1> QED BY <1>3, <1>4 DEF Lock

\* The actions of a plan that leave the unit alone.
LEMMA QuietActions ==
    ASSUME SetupInv, SetupsInv, NEW p \in Setups,
           \/ Register(p) \/ SetSemantic(p) \/ Bootstrap(p) \/ Mint(p) \/ BuildIndex(p)
           \/ RefusesForeign(p) \/ EnableUnit(p) \/ StartService(p)
           \/ RestartService(p) \/ CheckReadiness(p)
    PROVE  SetupsInv'
<1>0. /\ config \in [exists : BOOLEAN, vaults : SUBSET Registrations,
                      semantic : BOOLEAN, token : BOOLEAN]
      /\ setupLock = p /\ pc[p] \notin {"idle", "planned"}
  BY DEF SetupInv, FilesType, SetupsInv, SetupsType, Register, SetSemantic, Bootstrap,
         Mint, BuildIndex, RefusesForeign, EnableUnit, StartService, RestartService,
         Launch, CheckReadiness, Applies
<1>1. Undisturbed
  <2>1. /\ unit' = unit /\ previous' = previous
        /\ clean' \subseteq Setups /\ launched' \subseteq Setups
    BY DEF SetupsInv, SetupsType, Register, SetSemantic, Bootstrap,
         Mint, BuildIndex, RefusesForeign, EnableUnit, StartService, RestartService,
         Launch, CheckReadiness, Applies, service
  <2>2. \A q \in Setups : pc'[q] = "written" => pc[q] = "written"
    BY DEF SetupsInv, SetupsType, Register, SetSemantic, Bootstrap,
         Mint, BuildIndex, RefusesForeign, EnableUnit, StartService, RestartService,
         Launch, CheckReadiness, Applies, Applied, Abort, Finish
  <2>3. config.vaults \subseteq config'.vaults
    BY <1>0 DEF Register, SetSemantic, Bootstrap,
         Mint, BuildIndex, RefusesForeign, EnableUnit, StartService, RestartService,
         Launch, CheckReadiness, files
  <2> QED BY <2>1, <2>2, <2>3 DEF Undisturbed, SetupsInv, SetupsType, UnitInv
<1>2. \/ Abort(p)
      \/ /\ Applied(p) /\ Head(todo[p]) # "ready"
         /\ Head(todo[p]) = "register" => Requested(p) \in config'.vaults
      \/ /\ Head(todo[p]) = "bootstrap" /\ pc' = [pc EXCEPT ![p] = "minting"]
         /\ UNCHANGED <<setupLock, todo, want, report>>
      \/ Finish(p, "ok") /\ setupLock' = None /\ UNCHANGED want
  <2>1. CASE Register(p)
    BY <1>0, <2>1 DEF Register, Applies
  <2>2. CASE SetSemantic(p) \/ Bootstrap(p) \/ BuildIndex(p) \/ RefusesForeign(p)
             \/ StartService(p) \/ RestartService(p) \/ CheckReadiness(p)
    BY <2>2 DEF SetSemantic, Bootstrap, BuildIndex, RefusesForeign, StartService,
           RestartService, Launch, CheckReadiness, Applies
  <2>3. CASE Mint(p) \/ EnableUnit(p)
    <3>1. pc[p] \in {"minting", "inspected", "reloaded"} /\ Applied(p)
      BY <2>3 DEF Mint, EnableUnit
    <3>2. Head(todo[p]) \in {"bootstrap", "install"}
      BY <3>1 DEF SetupsInv, PlanInv, Begun, Idle
    <3> QED BY <3>1, <3>2
  <2> QED BY <2>1, <2>2, <2>3
<1>3. CASE Abort(p)
  BY <1>0, <1>1, <1>3, Ends DEF Abort, SetupsInv, SetupsType
<1>4. CASE /\ Applied(p) /\ Head(todo[p]) # "ready"
           /\ Head(todo[p]) = "register" => Requested(p) \in config'.vaults
  BY <1>0, <1>1, <1>4, GoesOn
<1>5. CASE /\ Head(todo[p]) = "bootstrap" /\ pc' = [pc EXCEPT ![p] = "minting"]
           /\ UNCHANGED <<setupLock, todo, want, report>>
  BY <1>0, <1>1, <1>5, Pauses
<1>6. CASE Finish(p, "ok") /\ setupLock' = None /\ UNCHANGED want
  BY <1>0, <1>1, <1>6, Ends DEF SetupsInv, SetupsType
<1> QED BY <1>2, <1>3, <1>4, <1>5, <1>6

\* The actions that write the unit or put it back, and the faults of a setup.
LEMMA UnitActions ==
    ASSUME SetupInv, SetupsInv, NEW p \in Setups,
           \/ Inspect(p) \/ WriteUnit(p) \/ ReloadManager(p) \/ CreateTask(p)
           \/ StepFails(p) \/ ReloadFails(p) \/ Killed(p)
    PROVE  SetupsInv'
<1>0. CASE Inspect(p)
  <2>1. /\ pc[p] = "acting" /\ Head(todo[p]) = "install"
        /\ pc' = [pc EXCEPT ![p] = "inspected"] /\ UNCHANGED <<unit, config>>
        /\ previous' = [previous EXCEPT ![p] = unit]
        /\ UNCHANGED <<setupLock, todo, want, report>>
        /\ clean' \subseteq Setups /\ launched' \subseteq Setups
    BY <1>0 DEF Inspect, Applies, files, service, SetupsInv, SetupsType
  <2>2. \A q \in Setups : pc'[q] = "written" => pc[q] = "written"
    BY <2>1 DEF SetupsInv, SetupsType
  <2>3. unit \in Definitions \cup {None}
    BY <1>0 DEF Inspect, SetupInv, ServiceType
  <2>4. Undisturbed
    BY <2>1, <2>2, <2>3 DEF Undisturbed, SetupsInv, SetupsType, UnitInv
  <2> QED BY <2>1, <2>4, Pauses
<1>1. CASE WriteUnit(p)
  <2>1. /\ pc[p] = "inspected" /\ Head(todo[p]) = "install"
        /\ pc' = [pc EXCEPT ![p] = "written"] /\ unit' = Definition[p]
        /\ UNCHANGED <<config, previous, setupLock, todo, want, report, launched>>
        /\ clean' \subseteq clean
    BY <1>1 DEF WriteUnit, files, SetupsInv, PlanInv, Begun, Idle
  <2>2. \A q \in Setups : pc'[q] = "written" => q = p
    BY <2>1 DEF SetupsInv, SetupsType
  <2>4. Undisturbed
    BY <2>1, <2>2 DEF Undisturbed, SetupsInv, SetupsType
  <2> QED BY <2>1, <2>4, Pauses
<1>2. CASE ReloadManager(p)
  <2>1. /\ pc[p] = "written" /\ Head(todo[p]) = "install"
        /\ pc' = [pc EXCEPT ![p] = "reloaded"]
        /\ UNCHANGED <<setupLock, todo, want, report, config, unit, launched>>
        /\ previous' = [previous EXCEPT ![p] = None] /\ clean' \subseteq clean
    BY <1>2 DEF ReloadManager, files, SetupsInv, PlanInv, Begun, Idle
  <2>2. \A q \in Setups : pc'[q] = "written" => pc[q] = "written"
    BY <2>1 DEF SetupsInv, SetupsType
  <2>3. Undisturbed
    BY <2>1, <2>2 DEF Undisturbed, SetupsInv, SetupsType, UnitInv
  <2> QED BY <2>1, <2>3, Pauses
<1>3. CASE CreateTask(p)
  <2>1. /\ pc[p] = "inspected" /\ Head(todo[p]) = "install" /\ Applied(p)
        /\ UNCHANGED <<config, launched>> /\ clean' \subseteq clean
        /\ previous' = [previous EXCEPT ![p] = None]
    BY <1>3 DEF CreateTask, files, SetupsInv, PlanInv, Begun, Idle
  <2>2. \A q \in Setups : pc'[q] # "written"
    BY <2>1 DEF Applied, SetupsInv, SetupsType
  <2>3. Undisturbed
    BY <2>1, <2>2 DEF Undisturbed, SetupsInv, SetupsType
  <2> QED BY <2>1, <2>3, GoesOn
<1>4. CASE StepFails(p) \/ ReloadFails(p) \/ Killed(p)
  <2>1. PICK outcome \in {"failed", "killed"} :
           /\ Finish(p, outcome) /\ want' = want
           /\ setupLock' = IF setupLock = p THEN None ELSE setupLock
    BY <1>4 DEF StepFails, ReloadFails, Killed, Abort, SetupsInv, SetupsType
  <2>2. /\ UNCHANGED <<config, launched>> /\ clean' \subseteq clean
        /\ previous' = previous \/ previous' = [previous EXCEPT ![p] = None]
    BY <1>4 DEF StepFails, ReloadFails, Killed, Fault, files
  <2>3. \A q \in Setups : pc'[q] = "written" => pc[q] = "written" /\ q # p
    BY <2>1 DEF Finish, SetupsInv, SetupsType
  <2>4. \A q \in Setups : pc'[q] = "written" => unit' = unit
    BY <1>4, <2>3 DEF StepFails, ReloadFails, Killed, service, SetupsInv, SetupsType
  <2>5. Undisturbed
    BY <2>2, <2>3, <2>4 DEF Undisturbed, SetupsInv, SetupsType, UnitInv
  <2> QED BY <2>1, <2>5, Ends DEF SetupsInv, SetupsType
<1> QED BY <1>0, <1>1, <1>2, <1>3, <1>4

\* Commands that touch the unit hold the setup lock; the user does as he likes.
LEMMA OtherSteps ==
    ASSUME SetupInv, SetupsInv, OtherCommand \/ DaemonStep
    PROVE  SetupsInv'
<1>1. UNCHANGED <<pc, todo, want, report, previous>>
  BY DEF OtherCommand, ServiceInstall, ServiceStart, ServiceStop, ServiceRestart,
     ServiceUninstall, ServiceInspects, UninstallStops, ServiceReplaces, ServiceReloads,
     ServiceFails, ServiceEnds, VaultAdd, IndexCommand, ForeignUnit, DaemonStep,
     DaemonBootstraps, DaemonMints, DaemonBoots, DaemonBootFails, DaemonReloads,
     DaemonLoadsModel, ModelFails, DaemonCrashes, ManagerRestarts, setups
<1>7. \/ setupLock' = setupLock
      \/ setupLock = None /\ setupLock' = "service"
      \/ setupLock = "service" /\ setupLock' = None
  BY DEF OtherCommand, ServiceInstall, ServiceStart, ServiceStop, ServiceRestart,
     ServiceUninstall, ServiceInspects, UninstallStops, ServiceReplaces, ServiceReloads,
     ServiceFails, ServiceEnds, VaultAdd, IndexCommand, ForeignUnit, DaemonStep,
     DaemonBootstraps, DaemonMints, DaemonBoots, DaemonBootFails, DaemonReloads,
     DaemonLoadsModel, ModelFails, DaemonCrashes, ManagerRestarts, setups,
     LockedCommand, SetupInv, OpInv
<1>2. clean' \subseteq clean /\ launched' = launched
  BY DEF OtherCommand, ServiceInstall, ServiceStart, ServiceStop, ServiceRestart,
     ServiceUninstall, ServiceInspects, UninstallStops, ServiceReplaces, ServiceReloads,
     ServiceFails, ServiceEnds, VaultAdd, IndexCommand, ForeignUnit, DaemonStep,
     DaemonBootstraps, DaemonMints, DaemonBoots, DaemonBootFails, DaemonReloads,
     DaemonLoadsModel, ModelFails, DaemonCrashes, ManagerRestarts, Fault, LockedCommand,
     Command, history
<1>3. config.vaults \subseteq config'.vaults
  <2>1. config \in [exists : BOOLEAN, vaults : SUBSET Registrations,
                    semantic : BOOLEAN, token : BOOLEAN]
    BY DEF SetupInv, FilesType
  <2> QED BY <2>1
      DEF OtherCommand, ServiceInstall, ServiceStart, ServiceStop, ServiceRestart,
         ServiceUninstall, ServiceInspects, UninstallStops, ServiceReplaces,
         ServiceReloads, ServiceFails, ServiceEnds, VaultAdd, IndexCommand, ForeignUnit,
         DaemonStep, DaemonBootstraps, DaemonMints, DaemonBoots, DaemonBootFails,
         DaemonReloads, DaemonLoadsModel, ModelFails, DaemonCrashes, ManagerRestarts,
         files
<1>4. unit' = unit \/ setupLock = "service" \/ unit' = "foreign"
  BY DEF OtherCommand, ServiceInstall, ServiceStart, ServiceStop, ServiceRestart,
     ServiceUninstall, ServiceInspects, UninstallStops, ServiceReplaces, ServiceReloads,
     ServiceFails, ServiceEnds, VaultAdd, IndexCommand, ForeignUnit, DaemonStep,
     DaemonBootstraps, DaemonMints, DaemonBoots, DaemonBootFails, DaemonReloads,
     DaemonLoadsModel, ModelFails, DaemonCrashes, ManagerRestarts, LockedCommand,
     service, SetupInv, OpInv
<1>5. \A p \in Setups : pc'[p] = "written" => unit' \in {Definition[p], "foreign"}
  <2> SUFFICES ASSUME NEW p \in Setups, pc[p] = "written"
               PROVE  unit' \in {Definition[p], "foreign"}
    BY <1>1
  <2>1. setupLock = p /\ unit \in {Definition[p], "foreign"}
    BY DEF SetupsInv, SetupsType, UnitInv
  <2> QED BY <1>4, <2>1, SetupAssumption
<1>6. Undisturbed
  BY <1>1, <1>2, <1>3, <1>5 DEF Undisturbed, SetupsInv, SetupsType
<1> QED BY <1>1, <1>6, <1>7, Elsewhere

\* config.toml, the token file and the index.
LEMMA FilesStep ==
    ASSUME SetupInv, Next PROVE FilesType' /\ UniqueIds' /\ minted <= minted'
<1>0. FilesType /\ UniqueIds /\ SetupsType
  BY DEF SetupInv
<1>1. ASSUME NEW p \in Setups, Register(p)
      PROVE  FilesType' /\ UniqueIds' /\ minted <= minted'
  <2>1. CASE UNCHANGED config
    BY <1>0, <1>1, <2>1 DEF Register, FilesType, UniqueIds
  <2>2. CASE /\ ~Conflict(config.vaults, Request[p].id, Request[p].path)
             /\ config' = [config EXCEPT !.vaults = @ \cup {Requested(p)},
                                         !.exists = TRUE]
    <3>1. Requested(p) \in Registrations
      BY DEF Registrations
    <3>2. FilesType'
      BY <1>0, <1>1, <2>2, <3>1 DEF FilesType, Register
    <3>3. config'.vaults = config.vaults \cup {Requested(p)}
      BY <1>0, <2>2 DEF FilesType
    <3>4. UniqueIds'
      BY <1>0, <2>2, <3>3 DEF UniqueIds, Conflict, HasId, Requested
    <3> QED BY <1>0, <1>1, <3>2, <3>4 DEF Register, FilesType
  <2> QED BY <1>1, <2>1, <2>2 DEF Register
<1>2. ASSUME NEW r \in Additions, VaultAdd(r)
      PROVE  FilesType' /\ UniqueIds' /\ minted <= minted'
  <2>1. config'.vaults = config.vaults \cup {r}
    BY <1>0, <1>2 DEF FilesType, VaultAdd
  <2>2. FilesType'
    BY <1>0, <1>2 DEF FilesType, VaultAdd, Registrations
  <2>3. UniqueIds'
    BY <1>0, <1>2, <2>1 DEF UniqueIds, VaultAdd, HasId
  <2> QED BY <1>0, <1>2, <2>2, <2>3 DEF VaultAdd, FilesType
<1>3. ASSUME NEW p \in Setups, SetSemantic(p) \/ Bootstrap(p)
      PROVE  FilesType' /\ UniqueIds' /\ minted <= minted'
  <2>1. want[p] \in BOOLEAN
    BY <1>0 DEF SetupsType
  <2>2. FilesType' /\ config'.vaults = config.vaults /\ minted' = minted
    BY <1>0, <1>3, <2>1 DEF SetSemantic, Bootstrap, FilesType
  <2> QED BY <1>0, <2>2 DEF UniqueIds, FilesType
<1>4. CASE DaemonBootstraps
  <2>1. FilesType' /\ config'.vaults = config.vaults /\ minted' = minted
    BY <1>0, <1>4 DEF DaemonBootstraps, FilesType
  <2> QED BY <1>0, <2>1 DEF UniqueIds, FilesType
<1>5. CASE MintToken /\ UNCHANGED <<platform, config, index>>
  BY <1>0, <1>5 DEF MintToken, FilesType, UniqueIds
<1>6. CASE UNCHANGED <<platform, config, token, minted>> /\ index' \in BOOLEAN
  BY <1>0, <1>6 DEF FilesType, UniqueIds
<1>7. ASSUME NEW p \in Setups, SetupStep(p) \/ SetupFault(p),
             ~Register(p), ~SetSemantic(p), ~Bootstrap(p)
      PROVE  FilesType' /\ UniqueIds' /\ minted <= minted'
  <2>1. CASE Mint(p)
    BY <1>5, <2>1 DEF Mint
  <2>2. CASE ~Mint(p)
    BY <1>0, <1>6, <1>7, <2>2 DEF FilesType, SetupStep, SetupFault, Plan, Lock,
       BuildIndex, RefusesForeign, Inspect, WriteUnit, ReloadManager, EnableUnit, CreateTask,
       StartService, RestartService, Launch, CheckReadiness, StepFails, ReloadFails,
       Killed, files
  <2> QED BY <2>1, <2>2
<1>8. ASSUME OtherCommand \/ DaemonStep,
             ~DaemonBootstraps, \A r \in Additions : ~VaultAdd(r)
      PROVE  FilesType' /\ UniqueIds' /\ minted <= minted'
  <2>1. CASE DaemonMints
    BY <1>5, <2>1 DEF DaemonMints
  <2>2. CASE ~DaemonMints
    BY <1>0, <1>6, <1>8, <2>2 DEF FilesType, OtherCommand, ServiceInstall, ServiceStart,
       ServiceStop, ServiceRestart, ServiceUninstall, ServiceInspects, UninstallStops,
       ServiceReplaces, ServiceReloads, ServiceFails, ServiceEnds, IndexCommand, ForeignUnit,
       DaemonStep, DaemonBoots, DaemonBootFails, DaemonReloads, DaemonLoadsModel,
       ModelFails, DaemonCrashes, ManagerRestarts, files
  <2> QED BY <2>1, <2>2
<1> QED BY <1>1, <1>2, <1>3, <1>4, <1>7, <1>8 DEF Next

\* The unit and what the service manager knows of it.
LEMMA ServiceStep ==
    ASSUME SetupInv, Next PROVE ServiceType'
<1>0. ServiceType /\ SetupsType /\ OpInv /\ \A p \in Setups : Definition[p] \in Definitions
  BY DEF SetupInv, Definitions
<1>1. ASSUME NEW p \in Setups, SetupStep(p) \/ SetupFault(p) PROVE ServiceType'
  <2>1. CASE ReloadFails(p)
    BY <1>0, <2>1 DEF ReloadFails, ServiceType, SetupsType
  <2>2. CASE ~ReloadFails(p)
    BY <1>0, <1>1, <2>2 DEF ServiceType, SetupStep, SetupFault, Plan, Lock, Register,
       SetSemantic, Bootstrap, Mint, BuildIndex, RefusesForeign, Inspect, WriteUnit,
       ReloadManager, EnableUnit, CreateTask, StartService, RestartService, Launch,
       LoadedUnit, CheckReadiness, StepFails, Killed, service
  <2> QED BY <2>1, <2>2
<1>2. CASE OtherCommand
  <2>1. op # None => /\ op.old \in Definitions \cup {None}
                     /\ op.new \in Definitions \cup {None}
    BY <1>0 DEF OpInv, Ops
  <2> QED BY <1>0, <1>2, <2>1 DEF ServiceType, OtherCommand, ServiceInstall, ServiceStart,
     ServiceStop, ServiceRestart, ServiceUninstall, ServiceInspects, UninstallStops,
       ServiceReplaces, ServiceReloads, ServiceFails, ServiceEnds, VaultAdd, IndexCommand,
     ForeignUnit, LoadedUnit, service
<1>3. CASE DaemonStep
  BY <1>0, <1>3 DEF ServiceType, DaemonStep, DaemonBootstraps, DaemonMints, DaemonBoots,
     DaemonBootFails, DaemonReloads, DaemonLoadsModel, ModelFails, DaemonCrashes,
     ManagerRestarts, service
<1> QED BY <1>1, <1>2, <1>3 DEF Next

Daemons ==
    [phase : {"down", "crashed", "spawned", "minting", "booting", "noindex", "serving"},
     def : Definitions \cup {None}, semantic : BOOLEAN,
     loader : {"off", "loading", "ready", "failed"},
     vaults : SUBSET Registrations, token : Nat, degraded : BOOLEAN]

Loading(d) == d.loader # "off" => d.phase = "serving" /\ d.semantic

\* A process that is not there, and one that has just been started.
LEMMA FreshDaemon ==
    /\ Down \in Daemons /\ Down.token = 0 /\ Loading(Down)
    /\ \A d \in Definitions \cup {None} :
          /\ Spawned(d) \in Daemons /\ Spawned(d).token = 0 /\ Loading(Spawned(d))
          /\ [Down EXCEPT !.phase = "crashed", !.def = d] \in Daemons
          /\ [Down EXCEPT !.phase = "crashed", !.def = d].token = 0
          /\ Loading([Down EXCEPT !.phase = "crashed", !.def = d])
<1>1. Down \in Daemons /\ Down.token = 0 /\ Loading(Down)
  BY DEF Down, Daemons, Loading
<1>2. ASSUME NEW d \in Definitions \cup {None},
             NEW phase \in {"spawned", "crashed"}
      PROVE  /\ [Down EXCEPT !.phase = phase, !.def = d] \in Daemons
             /\ [Down EXCEPT !.phase = phase, !.def = d].token = 0
             /\ Loading([Down EXCEPT !.phase = phase, !.def = d])
  BY DEF Down, Daemons, Loading
<1> QED BY <1>1, <1>2 DEF Spawned

\* The daemon: it holds a token that was minted, and loads a model only when
\* the configuration it read says so.
LEMMA DaemonKeeps ==
    ASSUME SetupInv, Next PROVE DaemonType' /\ LoaderInv'
<1>0. FilesType /\ ServiceType /\ DaemonType /\ LoaderInv
  BY DEF SetupInv
<1>a. minted' \in Nat /\ minted <= minted' /\ minted \in Nat /\ token \in 0..minted
  BY <1>0, FilesStep DEF FilesType
<1>b. daemon \in Daemons /\ daemon.token <= minted /\ Loading(daemon)
  <2>1. daemon.token \in 0..minted
    BY <1>0 DEF DaemonType
  <2>2. daemon \in Daemons
    BY <1>0, <1>a DEF DaemonType, Daemons
  <2> QED BY <1>0, <1>a, <2>1, <2>2 DEF LoaderInv, Loading
<1>c. /\ config.vaults \in SUBSET Registrations /\ config.semantic \in BOOLEAN
      /\ RestartRequired \in BOOLEAN
  BY <1>0 DEF FilesType, RestartRequired
<1>d. descriptor \in Definitions \cup {None}
  BY <1>0 DEF DaemonType
<1> SUFFICES /\ daemon' \in Daemons /\ daemon'.token <= minted' /\ Loading(daemon')
             /\ descriptor' \in Definitions \cup {None}
  <2>1. ASSUME daemon' \in Daemons, daemon'.token <= minted'
        PROVE  daemon' \in [phase : {"down", "crashed", "spawned", "minting", "booting",
                                     "noindex", "serving"},
                            def : Definitions \cup {None}, semantic : BOOLEAN,
                            loader : {"off", "loading", "ready", "failed"},
                            vaults : SUBSET Registrations, token : 0..minted',
                            degraded : BOOLEAN]
    <3>1. daemon'.token \in 0..minted'
      BY <1>a, <2>1 DEF Daemons
    <3> QED BY <2>1, <3>1 DEF Daemons
  <2> QED BY <2>1 DEF DaemonType, LoaderInv, Loading
<1>1. CASE UNCHANGED process
  BY <1>a, <1>b, <1>d, <1>1 DEF process, Daemons
<1>2. CASE descriptor' = descriptor /\ daemon' \in {daemon, Down, Launched}
  <2>1. LoadedUnit \in Definitions \cup {None, "foreign"}
    BY <1>0 DEF ServiceType, LoadedUnit
  <2>2. Launched \in Daemons /\ Launched.token = 0 /\ Loading(Launched)
    BY <2>1, FreshDaemon DEF Launched
  <2>3. Down \in Daemons /\ Down.token = 0 /\ Loading(Down)
    BY FreshDaemon
  <2>4. 0 <= minted' /\ daemon.token <= minted'
    BY <1>a, <1>b DEF Daemons
  <2> QED BY <1>b, <1>d, <1>2, <2>2, <2>3, <2>4
<1>3. ASSUME NEW p \in Setups, SetupStep(p) \/ SetupFault(p)
      PROVE  UNCHANGED process \/ (descriptor' = descriptor
                                      /\ daemon' \in {daemon, Down, Launched})
  BY <1>3 DEF SetupStep, SetupFault, Plan, Lock, Register, SetSemantic, Bootstrap, Mint,
     BuildIndex, RefusesForeign, Inspect, WriteUnit, ReloadManager, EnableUnit, CreateTask,
     StartService, RestartService, Launch, CheckReadiness, StepFails, ReloadFails,
     Killed, process
<1>4. CASE OtherCommand
  <2>1. UNCHANGED process \/ (descriptor' = descriptor
                                /\ daemon' \in {daemon, Down, Launched})
    BY <1>4 DEF OtherCommand, ServiceInstall, ServiceStart, ServiceStop, ServiceRestart,
       ServiceUninstall, ServiceInspects, UninstallStops, ServiceReplaces,
       ServiceReloads, ServiceFails, ServiceEnds, VaultAdd, IndexCommand, ForeignUnit,
       process
  <2> QED BY <1>1, <1>2, <2>1
<1>5. CASE DaemonBootstraps
  <2>1. daemon.loader = "off"
    BY <1>b, <1>5 DEF DaemonBootstraps, Loading
  <2>2. PICK phase \in {"minting", "booting"} :
           daemon' = [daemon EXCEPT !.phase = phase, !.token = token,
                                    !.semantic = config.semantic,
                                    !.vaults = config.vaults]
    BY <1>5 DEF DaemonBootstraps
  <2>3. token \in Nat
    BY <1>a
  <2>4. daemon' \in Daemons
    BY <1>b, <1>c, <2>2, <2>3 DEF Daemons
  <2>5. daemon'.token = token /\ daemon'.loader = "off"
    BY <1>b, <2>1, <2>2 DEF Daemons
  <2> QED BY <1>a, <1>d, <1>5, <2>4, <2>5 DEF DaemonBootstraps, Loading
<1>6. CASE DaemonMints
  <2>1. daemon.loader = "off"
    BY <1>b, <1>6 DEF DaemonMints, Loading
  <2>2. daemon' \in Daemons /\ daemon'.token = minted' /\ daemon'.loader = "off"
    BY <1>a, <1>b, <1>6, <2>1 DEF DaemonMints, MintToken, Daemons
  <2> QED BY <1>a, <1>d, <1>6, <2>2 DEF DaemonMints, Loading
<1>7. CASE DaemonBoots
  <2>1. daemon.loader = "off"
    BY <1>b, <1>7 DEF DaemonBoots, Loading
  <2>2. CASE daemon' = [daemon EXCEPT !.phase = "noindex"] /\ UNCHANGED descriptor
    BY <1>a, <1>b, <1>d, <2>1, <2>2 DEF Daemons, Loading
  <2>3. CASE /\ descriptor' = daemon.def
             /\ daemon' = [daemon EXCEPT !.phase = "serving",
                              !.loader = IF daemon.semantic THEN "loading" ELSE "off"]
    <3>1. PICK loader \in {"loading", "off"} :
             /\ loader # "off" => daemon.semantic
             /\ daemon' = [daemon EXCEPT !.phase = "serving", !.loader = loader]
      BY <2>3
    <3>2. daemon' \in Daemons
      BY <1>b, <3>1 DEF Daemons
    <3>3. /\ daemon'.token = daemon.token /\ daemon'.phase = "serving"
          /\ daemon'.loader = loader /\ daemon'.semantic = daemon.semantic
      BY <1>b, <3>1 DEF Daemons
    <3>4. daemon'.token <= minted'
      BY <1>a, <1>b, <3>3 DEF Daemons
    <3>5. descriptor' \in Definitions \cup {None}
      BY <1>b, <2>3 DEF Daemons
    <3> QED BY <3>1, <3>2, <3>3, <3>4, <3>5 DEF Loading
  <2> QED BY <1>7, <2>2, <2>3 DEF DaemonBoots
<1>8. CASE DaemonBootFails
  <2>1. daemon.loader = "off"
    BY <1>b, <1>8 DEF DaemonBootFails, Loading
  <2> QED BY <1>a, <1>b, <1>d, <1>8, <2>1 DEF DaemonBootFails, Daemons, Loading
<1>9. CASE DaemonReloads
  <2>1. PICK vaults \in SUBSET Registrations :
           daemon' = [daemon EXCEPT !.degraded = RestartRequired, !.vaults = vaults]
    <3>1. daemon.vaults \in SUBSET Registrations
      BY <1>b DEF Daemons
    <3> QED BY <1>c, <1>9, <3>1 DEF DaemonReloads
  <2>2. daemon' \in Daemons
    BY <1>b, <1>c, <2>1 DEF Daemons
  <2>3. /\ daemon'.token = daemon.token /\ daemon'.phase = daemon.phase
        /\ daemon'.loader = daemon.loader /\ daemon'.semantic = daemon.semantic
    BY <1>b, <2>1 DEF Daemons
  <2>4. daemon'.token <= minted'
    BY <1>a, <1>b, <2>3 DEF Daemons
  <2> QED BY <1>b, <1>d, <1>9, <2>2, <2>3, <2>4 DEF DaemonReloads, Loading
<1>10. CASE DaemonLoadsModel \/ ModelFails
  BY <1>a, <1>b, <1>d, <1>10 DEF DaemonLoadsModel, ModelFails, Daemons, Loading
<1>11. CASE DaemonCrashes \/ ManagerRestarts
  <2>1. daemon.def \in Definitions \cup {None}
    BY <1>b DEF Daemons
  <2>2. daemon' \in Daemons /\ daemon'.token = 0 /\ Loading(daemon')
    <3>1. CASE daemon' = Spawned(daemon.def)
      BY <2>1, <3>1, FreshDaemon
    <3>2. CASE daemon' = [Down EXCEPT !.phase = "crashed", !.def = daemon.def]
      BY <2>1, <3>2, FreshDaemon, Zenon
    <3> QED BY <1>11, <3>1, <3>2 DEF DaemonCrashes, ManagerRestarts
  <2> QED BY <1>a, <1>d, <1>11, <2>2 DEF DaemonCrashes, ManagerRestarts
<1> QED BY <1>1, <1>2, <1>3, <1>4, <1>5, <1>6, <1>7, <1>8, <1>9, <1>10, <1>11
        DEF Next, DaemonStep

\* Registrations are never dropped, so what the daemon has read stays registered.
LEMMA KnownStep ==
    ASSUME SetupInv, Next PROVE KnownInv'
<1>a. config \in [exists : BOOLEAN, vaults : SUBSET Registrations, semantic : BOOLEAN,
                  token : BOOLEAN]
  BY DEF SetupInv, FilesType
<1>0. /\ config \in [exists : BOOLEAN, vaults : SUBSET Registrations,
                      semantic : BOOLEAN, token : BOOLEAN]
      /\ daemon \in [phase : {"down", "crashed", "spawned", "minting", "booting",
                               "noindex", "serving"},
                      def : Definitions \cup {None}, semantic : BOOLEAN,
                      loader : {"off", "loading", "ready", "failed"},
                      vaults : SUBSET Registrations, token : 0..minted,
                      degraded : BOOLEAN]
      /\ daemon.vaults \subseteq config.vaults
  BY DEF SetupInv, FilesType, DaemonType, KnownInv
<1>1. /\ Down.vaults = {} /\ Launched.vaults = {}
      /\ \A d : Spawned(d).vaults = {}
      /\ \A d : [Down EXCEPT !.phase = "crashed", !.def = d].vaults = {}
  BY DEF Launched, Spawned, Down
<1>2. ASSUME NEW p \in Setups, SetupStep(p) \/ SetupFault(p) PROVE KnownInv'
  <2>0. config' = config \/ Register(p) \/ SetSemantic(p) \/ Bootstrap(p)
    BY <1>2 DEF SetupStep, SetupFault, Plan, Lock, Register, SetSemantic, Bootstrap, Mint,
         BuildIndex, RefusesForeign, Inspect, WriteUnit, ReloadManager, EnableUnit,
         CreateTask, StartService, RestartService, Launch, CheckReadiness, StepFails,
         ReloadFails, Killed, files
  <2>1. config.vaults \subseteq config'.vaults
    BY <1>a, <2>0 DEF Register, SetSemantic, Bootstrap
  <2>2. daemon' \in {daemon, Launched}
    BY <1>2 DEF SetupStep, SetupFault, Plan, Lock, Register, SetSemantic, Bootstrap, Mint,
         BuildIndex, RefusesForeign, Inspect, WriteUnit, ReloadManager, EnableUnit,
         CreateTask, StartService, RestartService, Launch, CheckReadiness, StepFails,
         ReloadFails, Killed, process
  <2> QED BY <1>0, <1>1, <2>1, <2>2 DEF KnownInv
<1>3. CASE OtherCommand
  <2>0. config' = config \/ \E r \in Additions : VaultAdd(r)
    BY <1>3 DEF OtherCommand, ServiceInstall, ServiceStart, ServiceStop, ServiceRestart,
         ServiceUninstall, ServiceInspects, UninstallStops, ServiceReplaces,
         ServiceReloads, ServiceFails, ServiceEnds, VaultAdd, IndexCommand, ForeignUnit, files
  <2>1. config.vaults \subseteq config'.vaults
    BY <1>a, <2>0 DEF VaultAdd
  <2>2. daemon' \in {daemon, Down, Launched}
    BY <1>3 DEF OtherCommand, ServiceInstall, ServiceStart, ServiceStop, ServiceRestart,
       ServiceUninstall, ServiceInspects, UninstallStops, ServiceReplaces,
       ServiceReloads, ServiceFails, ServiceEnds, VaultAdd, IndexCommand, ForeignUnit,
       process
  <2> QED BY <1>0, <1>1, <2>1, <2>2 DEF KnownInv
<1>4. CASE DaemonBootstraps
  BY <1>0, <1>4 DEF DaemonBootstraps, KnownInv
<1>5. CASE DaemonReloads
  BY <1>0, <1>5 DEF DaemonReloads, KnownInv, files
<1>6. CASE DaemonCrashes \/ ManagerRestarts
  BY <1>0, <1>1, <1>6 DEF DaemonCrashes, ManagerRestarts, KnownInv
<1>7. CASE DaemonMints \/ DaemonBoots \/ DaemonBootFails \/ DaemonLoadsModel \/ ModelFails
  <2>1. config' = config /\ daemon'.vaults = daemon.vaults
    BY <1>0, <1>7 DEF DaemonMints, DaemonBoots, DaemonBootFails, DaemonLoadsModel,
       ModelFails, files
  <2> QED BY <1>0, <2>1 DEF KnownInv
<1> QED BY <1>2, <1>3, <1>4, <1>5, <1>6, <1>7 DEF Next, DaemonStep

\* A setup that is past the lock is the only command at work.
LEMMA Alone ==
    ASSUME SetupInv, NEW p \in Setups, pc[p] \notin {"idle", "planned"}
    PROVE  /\ setupLock = p /\ op = None
           /\ \A q \in Setups : q # p => pc[q] \in {"idle", "planned"}
BY SetupAssumption DEF SetupInv, SetupsType, OpInv

\* What a step of a setup leaves of the windows after an inspection: its own is new only
\* after an inspection, and nobody else's changes.
LEMMA WindowsOfSetups ==
    ASSUME SetupInv, NEW p \in Setups, SetupStep(p) \/ SetupFault(p)
    PROVE  /\ op' = op /\ \A q \in Setups : q # p => pc'[q] = pc[q]
           /\ ~Inspect(p) /\ pc'[p] \in {"inspected", "written"} =>
                 pc[p] \in {"inspected", "written"}
           /\ ~Inspect(p) => exposed' = exposed
           /\ pc[p] \notin {"idle", "planned"} => setupLock' \in {p, None}
           /\ pc[p] = "planned" => \/ setupLock' = setupLock
                                   \/ setupLock = None /\ setupLock' = p
           /\ pc[p] = "idle" => setupLock' = setupLock
<1>0. /\ pc \in [Setups -> {"idle", "planned", "acting", "minting", "inspected",
                            "written", "reloaded"}]
      /\ \A q \in Setups : pc[q] \notin {"idle", "planned"} <=> setupLock = q
  BY DEF SetupInv, SetupsType
<1>1. op' = op /\ (~Inspect(p) => exposed' = exposed)
  BY DEF SetupStep, SetupFault, Plan, Lock, Register, SetSemantic, Bootstrap, Mint,
         BuildIndex, RefusesForeign, Inspect, WriteUnit, ReloadManager, EnableUnit,
         CreateTask, StartService, RestartService, Launch, CheckReadiness, StepFails,
         ReloadFails, Killed, aside
<1>2. \E at : pc' = [pc EXCEPT ![p] = at]
  BY <1>0 DEF SetupStep, SetupFault, Plan, Lock, Register, SetSemantic, Bootstrap, Mint,
         BuildIndex, RefusesForeign, Inspect, WriteUnit, ReloadManager, EnableUnit,
         CreateTask, StartService, RestartService, Launch, CheckReadiness, StepFails,
         ReloadFails, Killed, Applied, Abort, Finish
<1>3. ~Inspect(p) /\ pc'[p] \in {"inspected", "written"} => pc[p] \in {"inspected", "written"}
  BY <1>0 DEF SetupStep, SetupFault, Plan, Lock, Register, SetSemantic, Bootstrap, Mint,
         BuildIndex, RefusesForeign, Inspect, WriteUnit, ReloadManager, EnableUnit,
         CreateTask, StartService, RestartService, Launch, CheckReadiness, StepFails,
         ReloadFails, Killed, Applied, Abort, Finish
<1>4. ASSUME pc[p] = "idle" PROVE setupLock' = setupLock
  BY <1>0, <1>4 DEF SetupStep, SetupFault, Plan, Lock, Register, SetSemantic, Bootstrap, Mint,
         BuildIndex, RefusesForeign, Inspect, WriteUnit, ReloadManager, EnableUnit,
         CreateTask, StartService, RestartService, Launch, CheckReadiness, StepFails,
         ReloadFails, Killed, Applies, Idle
<1>5. ASSUME pc[p] = "planned"
      PROVE  setupLock' = setupLock \/ (setupLock = None /\ setupLock' = p)
  BY <1>0, <1>5 DEF SetupStep, SetupFault, Plan, Lock, Register, SetSemantic, Bootstrap, Mint,
         BuildIndex, RefusesForeign, Inspect, WriteUnit, ReloadManager, EnableUnit,
         CreateTask, StartService, RestartService, Launch, CheckReadiness, StepFails,
         ReloadFails, Killed, Applies, Idle
<1>6. ASSUME pc[p] \notin {"idle", "planned"} PROVE setupLock' \in {p, None}
  BY <1>0, <1>6 DEF SetupStep, SetupFault, Plan, Lock, Register, SetSemantic, Bootstrap, Mint,
         BuildIndex, RefusesForeign, Inspect, WriteUnit, ReloadManager, EnableUnit,
         CreateTask, StartService, RestartService, Launch, CheckReadiness, StepFails,
         ReloadFails, Killed, Applies, Applied, Abort, Idle
<1> QED BY <1>0, <1>1, <1>2, <1>3, <1>4, <1>5, <1>6

\* The service command under way, and the units of the user's own.
LEMMA OpStep ==
    ASSUME SetupInv, Next PROVE OpInv'
<1>0. /\ OpInv /\ SetupsType
      /\ unit \in Definitions \cup {None, "foreign"}
      /\ \A p \in Setups : Definition[p] \in Definitions
      /\ "foreign" \notin Definitions \cup {None}
      /\ "service" \notin Setups \cup {None} /\ None \notin Setups \cup Definitions
  BY SetupAssumption DEF SetupInv, ServiceType, Definitions
<1>1. ASSUME NEW p \in Setups, SetupStep(p) \/ SetupFault(p) PROVE OpInv'
  <2>1. op' = op /\ (op # None <=> setupLock' = "service")
    <3>1. CASE pc[p] \in {"idle", "planned"}
      BY <1>0, <1>1, <3>1, WindowsOfSetups DEF OpInv
    <3>2. CASE pc[p] \notin {"idle", "planned"}
      BY <1>0, <1>1, <3>2, WindowsOfSetups, Alone
    <3> QED BY <3>1, <3>2
  <2>2. CASE Inspect(p)
    BY <1>0, <2>1, <2>2 DEF Inspect, OpInv, service
  <2>3. CASE ~Inspect(p)
    <3>1. exposed' = exposed /\ (Inspected' => Inspected)
      BY <1>1, <2>3, WindowsOfSetups DEF Inspected
    <3>2. unit' = unit \/ unit' # "foreign"
      <4>1. previous[p] # "foreign"
        BY <1>0, SetupAssumption DEF SetupsType
      <4> QED BY <1>0, <1>1, <4>1 DEF SetupStep, SetupFault, Plan, Lock, Register,
         SetSemantic, Bootstrap, Mint, BuildIndex, RefusesForeign, Inspect, WriteUnit,
         ReloadManager, EnableUnit, CreateTask, StartService, RestartService, Launch,
         CheckReadiness, StepFails, ReloadFails, Killed, service
    <3> QED BY <1>0, <2>1, <3>1, <3>2 DEF OpInv
  <2> QED BY <2>2, <2>3
<1>2. CASE OtherCommand
  <2>1. CASE (\E p \in Setups : ServiceInstall(p)) \/ ServiceUninstall
    <3>1. PICK stage \in {"stop", "replace"}, new \in Definitions \cup {None} :
             ServiceInspects(stage, new)
      BY <1>0, <2>1 DEF ServiceInstall, ServiceUninstall
    <3>2. /\ op' = [stage |-> stage, old |-> unit, new |-> new] /\ setupLock' = "service"
          /\ unit' = unit /\ unit # "foreign" /\ exposed' = FALSE
      BY <3>1 DEF ServiceInspects, service
    <3>3. op' \in Ops /\ op' # None
      <4>1. unit \in Definitions \cup {None}
        BY <1>0, <3>2
      <4>2. op' \in Ops
        BY <3>1, <3>2, <4>1 DEF Ops
      <4> QED BY <4>2, SetupAssumption
    <3> QED BY <3>2, <3>3 DEF OpInv
  <2>2. CASE UninstallStops
    <3>1. /\ op # None /\ op \in Ops /\ op' = [op EXCEPT !.stage = "replace"]
          /\ UNCHANGED <<unit, exposed, setupLock>>
      BY <1>0, <2>2 DEF UninstallStops, setups, OpInv
    <3>2. op' \in Ops
      BY <3>1 DEF Ops
    <3>3. op' # None
      BY <3>2, SetupAssumption
    <3> QED BY <1>0, <3>1, <3>2, <3>3 DEF OpInv, Inspected
  <2>3. CASE ServiceReplaces /\ platform = "linux"
    <3>1. /\ op # None /\ op \in Ops /\ op' = [op EXCEPT !.stage = "reload"]
          /\ unit' = op.new /\ UNCHANGED <<exposed, setupLock>>
      BY <1>0, <2>3 DEF ServiceReplaces, setups, OpInv
    <3>2. op' \in Ops /\ op.new \in Definitions \cup {None}
      BY <3>1 DEF Ops
    <3>3. op' # None /\ unit' # "foreign"
      BY <1>0, <3>1, <3>2, SetupAssumption
    <3> QED BY <1>0, <3>1, <3>2, <3>3 DEF OpInv
  <2>4. CASE op # None /\ ServiceEnds
    <3>1. op' = None /\ setupLock' = None /\ UNCHANGED <<exposed, pc>>
      BY <2>4 DEF ServiceEnds
    <3>2. \A q \in Setups : pc[q] \in {"idle", "planned"}
      BY <1>0, <2>4 DEF OpInv, SetupsType
    <3> QED BY <1>0, <3>1, <3>2 DEF OpInv, Inspected
  <2>5. CASE ForeignUnit
    BY <1>0, <2>5 DEF ForeignUnit, setups, Inspected, OpInv
  <2>6. CASE \/ ServiceStart \/ ServiceStop \/ ServiceRestart
             \/ (\E r \in Additions : VaultAdd(r)) \/ IndexCommand
    <3>1. UNCHANGED <<op, exposed, unit, setupLock, pc>>
      BY <2>6 DEF ServiceStart, ServiceStop, ServiceRestart, VaultAdd, IndexCommand,
         aside, setups, service
    <3> QED BY <1>0, <3>1 DEF OpInv, Inspected
  <2>7. ServiceReplaces => platform = "linux" \/ (op # None /\ ServiceEnds)
    BY DEF ServiceReplaces
  <2>8. ServiceReloads \/ ServiceFails => op # None /\ ServiceEnds
    BY DEF ServiceReloads, ServiceFails
  <2> QED BY <1>2, <2>1, <2>2, <2>3, <2>4, <2>5, <2>6, <2>7, <2>8 DEF OtherCommand
<1>3. CASE DaemonStep
  <2>1. UNCHANGED <<op, exposed, unit, setupLock, pc>>
    BY <1>3 DEF DaemonStep, DaemonBootstraps, DaemonMints, DaemonBoots, DaemonBootFails,
       DaemonReloads, DaemonLoadsModel, ModelFails, DaemonCrashes, ManagerRestarts,
       aside, setups, service
  <2> QED BY <1>0, <2>1 DEF OpInv, Inspected
<1> QED BY <1>1, <1>2, <1>3 DEF Next

-----------------------------------------------------------------------------
(* The theorems. *)

\* The invariant holds initially and every step of a setup, a command, a fault
\* or the daemon keeps it.
THEOREM SetupInvariant == Spec => []SetupInv
<1>1. SetupInv /\ [Next]_vars => SetupInv'
  <2> SUFFICES ASSUME SetupInv, [Next]_vars PROVE SetupInv'
    OBVIOUS
  <2>1. CASE UNCHANGED vars
    BY <2>1 DEF vars, aside, files, service, process, setups, counters, history, SetupInv,
       FilesType, ServiceType, DaemonType, SetupsType, PlanInv, Begun, Idle, UnitInv,
       OpInv, Inspected, LoaderInv, KnownInv, UniqueIds
  <2>2. CASE Next
    <3>0. SetupsInv
      BY DEF SetupInv, SetupsInv
    <3>1. SetupsInv'
      BY <2>2, <3>0, PlanStep, LockStep, QuietActions, UnitActions, OtherSteps
         DEF Next, SetupStep, SetupFault
    <3>2. FilesType' /\ UniqueIds'
      BY <2>2, FilesStep
    <3>3. ServiceType'
      BY <2>2, ServiceStep
    <3>4. DaemonType' /\ LoaderInv'
      BY <2>2, DaemonKeeps
    <3>5. OpInv' /\ KnownInv'
      BY <2>2, OpStep, KnownStep
    <3> QED BY <3>1, <3>2, <3>3, <3>4, <3>5 DEF SetupInv, SetupsInv
  <2> QED BY <2>1, <2>2
<1> QED BY <1>1, SetupInvInit, PTL DEF Spec

\* The variables keep their types, and the one setup that is past the lock in
\* SetupExecutor::execute is the one that holds setup.lock.
THEOREM TypeCorrect == Spec => []TypeOK
<1>1. SetupInv => TypeOK
  BY DEF SetupInv, FilesType, ServiceType, DaemonType, SetupsType, OpInv, TypeOK
<1> QED BY <1>1, SetupInvariant, PTL

\* config.toml never names a vault id twice, although the planner decides
\* before the lock and `vault add` does not take it: ensure_vault_registration
\* and add_vault decide again under the configuration they write.
THEOREM IdsStayUnique == Spec => []UniqueIds
<1>1. SetupInv => UniqueIds
  BY DEF SetupInv
<1> QED BY <1>1, SetupInvariant, PTL

\* A unit that Kwiry did not write is replaced or removed only when it came after the
\* inspection of the command that does it: only the command that holds the lock and is
\* past its inspection writes, removes or puts back a unit, it was not foreign when that
\* command inspected, and no command comes in between.
THEOREM ForeignUnitsKept == Spec => ForeignKept
<1>1. SetupInv /\ [Next]_vars => [unit = "foreign" /\ unit' # "foreign" => exposed]_vars
  <2> SUFFICES ASSUME SetupInv, Next, unit = "foreign", unit' # "foreign" PROVE Inspected
    BY DEF SetupInv, OpInv
  <2>1. ASSUME NEW p \in Setups, SetupStep(p) \/ SetupFault(p) PROVE Inspected
    BY <2>1 DEF SetupStep, SetupFault, Plan, Lock, Register, SetSemantic, Bootstrap, Mint,
         BuildIndex, RefusesForeign, Inspect, WriteUnit, ReloadManager, EnableUnit,
         CreateTask, StartService, RestartService, Launch, CheckReadiness, StepFails,
         ReloadFails, Killed, service, Inspected
  <2>2. CASE OtherCommand
    BY <2>2 DEF OtherCommand, ServiceInstall, ServiceStart, ServiceStop, ServiceRestart,
       ServiceUninstall, ServiceInspects, UninstallStops, ServiceReplaces,
       ServiceReloads, ServiceFails, ServiceEnds, VaultAdd, IndexCommand, ForeignUnit,
       service, Inspected
  <2>3. CASE DaemonStep
    BY <2>3 DEF DaemonStep, DaemonBootstraps, DaemonMints, DaemonBoots, DaemonBootFails,
         DaemonReloads, DaemonLoadsModel, ModelFails, DaemonCrashes, ManagerRestarts, service
  <2> QED BY <2>1, <2>2, <2>3 DEF Next
<1> QED BY <1>1, SetupInvariant, PTL DEF Spec, ForeignKept

\* A setup that reports ok leaves a daemon that serves the requested vault at
\* the requested path, with the token in the file and the wanted semantic
\* search, although the probe compares ids and the plan may be stale.
THEOREM OkIsHonest == Spec => OkServesRequest
<1> DEFINE A == \A p \in Setups : Outcome(p, "ok") =>
                   /\ Requested(p) \in daemon.vaults
                   /\ daemon.phase = "serving" /\ daemon.token = token
                   /\ want[p] => daemon.semantic
<1>1. SetupInv /\ [Next]_vars => [A]_vars
  <2> SUFFICES ASSUME SetupInv, Next, NEW p \in Setups, Outcome(p, "ok")
               PROVE  /\ Requested(p) \in daemon.vaults
                      /\ daemon.phase = "serving" /\ daemon.token = token
                      /\ want[p] => daemon.semantic
    OBVIOUS
  <2>0. SetupsType
    BY DEF SetupInv
  <2>1. ~Idle(p) /\ pc'[p] = "idle" /\ report'[p] = "ok"
    BY DEF Outcome
  <2>2. ~(UNCHANGED pc)
    BY <2>1 DEF Idle
  <2>3. \A outcome : Finish(p, outcome) => outcome = "ok"
    BY <2>0, <2>1 DEF SetupsType, Finish
  <2>4. CheckReadiness(p) /\ Ready(p)
    <3>1. ~(OtherCommand \/ DaemonStep)
      BY <2>2 DEF OtherCommand, ServiceInstall, ServiceStart, ServiceStop,
         ServiceRestart, ServiceUninstall, ServiceInspects, UninstallStops,
         ServiceReplaces, ServiceReloads, ServiceFails, ServiceEnds, VaultAdd,
         IndexCommand, ForeignUnit, DaemonStep, DaemonBootstraps, DaemonMints,
         DaemonBoots, DaemonBootFails, DaemonReloads, DaemonLoadsModel, ModelFails,
         DaemonCrashes, ManagerRestarts, setups
    <3>2. PICK q \in Setups : SetupStep(q) \/ SetupFault(q)
      BY <3>1 DEF Next
    <3>3. q = p
      BY <2>0, <2>1, <3>2 DEF SetupsType, Idle, SetupStep, SetupFault, Plan, Lock, Register,
         SetSemantic, Bootstrap, Mint, BuildIndex, RefusesForeign, Inspect, WriteUnit,
         ReloadManager, EnableUnit, CreateTask, StartService, RestartService, Launch,
         CheckReadiness, StepFails, ReloadFails, Killed, Applied, Abort, Finish
    <3>4. ~Abort(p) /\ ~Applied(p)
      BY <2>0, <2>1, <2>3 DEF Abort, Applied, SetupsType
    <3> QED BY <2>0, <2>1, <2>3, <3>2, <3>3, <3>4 DEF SetupsType, Idle, SetupStep,
       SetupFault, Plan, Lock, Register, SetSemantic, Bootstrap, Mint, BuildIndex,
       RefusesForeign, Inspect, WriteUnit, ReloadManager, EnableUnit, CreateTask,
       StartService, RestartService, Launch, CheckReadiness, StepFails, ReloadFails,
       Killed
  <2>5. Requested(p) \in config.vaults
    BY <2>1, <2>4 DEF CheckReadiness, Applies, SetupInv, PlanInv, Begun
  <2>6. Requested(p) \in daemon.vaults
    <3>1. PICK r \in daemon.vaults : r[1] = Request[p].id
      BY <2>4 DEF Ready, ValidStatus
    <3>2. r \in config.vaults /\ Requested(p)[1] = Request[p].id
      BY <3>1 DEF SetupInv, KnownInv, Requested
    <3> QED BY <2>5, <3>1, <3>2 DEF SetupInv, UniqueIds
  <2>7. want[p] => daemon.semantic
    BY <2>4 DEF Ready, ValidStatus, SetupInv, LoaderInv
  <2> QED BY <2>4, <2>6, <2>7 DEF Ready
<1> QED BY <1>1, SetupInvariant, PTL DEF Spec, OkServesRequest

-----------------------------------------------------------------------------
(* A run that nothing disturbs.                                            *)

Elements(s) == {s[i] : i \in 1..Len(s)}
Launches == {"start", "restart"}

\* The service is launched just before the probe, and once.
LaunchLast(s) == \A i \in 1..Len(s) : s[i] \in Launches => i = Len(s) - 1

\* There is no daemon where there is no unit, nor where a failed reload or an uninstall
\* that has come so far would leave none; what the service manager has loaded is foreign
\* only where the unit is, which a command past its inspection may still replace.
ServedInv ==
    /\ unit = None => daemon.phase = "down"
    /\ \A p \in Setups : pc[p] \in {"inspected", "written"} /\ previous[p] = None =>
          daemon.phase = "down"
    /\ op # None /\ op.stage # "stop" /\ (op.old = None \/ op.new = None) =>
          daemon.phase = "down"
    /\ loaded = "foreign" => unit = "foreign"
    /\ platform = "windows" => loaded = unit
    /\ Inspected /\ platform = "linux" => loaded # "foreign"

\* Task Scheduler has Kwiry's task enabled or not at all; a unit that is written before
\* it is loaded is systemd's.
EnabledInv ==
    platform = "windows" =>
       /\ \A p \in Setups : pc[p] # "written"
       /\ op # None => op.stage # "reload"
       /\ unit \in Definitions => enabled

\* Before the launch: what the daemon will need is there or still in the plan, and a
\* plan that starts the service found none.
Ahead(p) ==
    /\ token # 0 \/ "bootstrap" \in Elements(todo[p])
    /\ config.semantic = want[p] \/ "semantic" \in Elements(todo[p])
    /\ "start" \in Elements(todo[p]) => daemon.phase = "down"
    /\ unit \in Definitions \/ "install" \in Elements(todo[p])
    /\ pc[p] = "reloaded" => unit \in Definitions

\* After it: the daemon that comes up has read the configuration as it is.
Coming(p) ==
    /\ pc[p] = "acting" /\ todo[p] = <<"ready">>
    /\ token # 0 /\ config.semantic = want[p]
    /\ daemon.phase \in {"spawned", "booting", "serving"}
    /\ daemon.def \in Definitions /\ ~daemon.degraded
    /\ daemon.phase # "spawned" =>
          /\ daemon.token = token
          /\ daemon.semantic = config.semantic
          /\ daemon.vaults = config.vaults
    /\ daemon.phase = "serving" =>
          /\ descriptor = daemon.def /\ index
          /\ daemon.semantic => daemon.loader \in {"loading", "ready"}

Undisputed(p) ==
    /\ unit # "foreign"
    /\ LaunchLast(todo[p])
    /\ p \notin launched => Ahead(p)
    /\ p \in launched => Coming(p)

CleanInv == \A p \in clean : ~Idle(p) => Undisputed(p)

\* Concatenation adds no elements and loses none.
LEMMA ConcatElements ==
    ASSUME NEW S, NEW s \in Seq(S), NEW t \in Seq(S)
    PROVE  /\ s \o t \in Seq(S)
           /\ Len(s \o t) = Len(s) + Len(t)
           /\ Elements(s \o t) = Elements(s) \cup Elements(t)
<1>1. /\ s \o t \in Seq(S) /\ Len(s \o t) = Len(s) + Len(t)
      /\ Len(s) \in Nat /\ Len(t) \in Nat
      /\ \A i \in 1 .. Len(s) + Len(t) :
            (s \o t)[i] = IF i <= Len(s) THEN s[i] ELSE t[i - Len(s)]
  BY ConcatProperties
<1>2. \A x \in Elements(s \o t) : x \in Elements(s) \cup Elements(t)
  <2> SUFFICES ASSUME NEW i \in 1 .. Len(s) + Len(t)
               PROVE  (s \o t)[i] \in Elements(s) \cup Elements(t)
    BY <1>1 DEF Elements
  <2>1. CASE i <= Len(s)
    BY <1>1, <2>1 DEF Elements
  <2>2. CASE ~(i <= Len(s))
    <3>1. i - Len(s) \in 1 .. Len(t)
      BY <1>1, <2>2
    <3> QED BY <1>1, <2>2, <3>1 DEF Elements
  <2> QED BY <2>1, <2>2
<1>3. \A x \in Elements(s) : x \in Elements(s \o t)
  <2> SUFFICES ASSUME NEW i \in 1 .. Len(s) PROVE s[i] \in Elements(s \o t)
    BY DEF Elements
  <2>1. i \in 1 .. Len(s) + Len(t) /\ i <= Len(s)
    BY <1>1
  <2> QED BY <1>1, <2>1 DEF Elements
<1>4. \A x \in Elements(t) : x \in Elements(s \o t)
  <2> SUFFICES ASSUME NEW i \in 1 .. Len(t) PROVE t[i] \in Elements(s \o t)
    BY DEF Elements
  <2>1. /\ i + Len(s) \in 1 .. Len(s) + Len(t)
        /\ ~(i + Len(s) <= Len(s)) /\ (i + Len(s)) - Len(s) = i
    BY <1>1
  <2> QED BY <1>1, <2>1 DEF Elements
<1> QED BY <1>1, <1>2, <1>3, <1>4

\* What the rest of a plan holds.
LEMMA TailElements ==
    ASSUME NEW s \in Seq(Kinds), s # <<>>, LaunchLast(s)
    PROVE  /\ \A k \in Elements(s) : k = Head(s) \/ k \in Elements(Tail(s))
           /\ Elements(Tail(s)) \subseteq Elements(s)
           /\ Head(s) \in Elements(s)
           /\ LaunchLast(Tail(s))
<1> DEFINE n == Len(s)
           t == Tail(s)
<1>1. /\ n \in Nat \ {0} /\ Head(s) = s[1] /\ Len(t) = n - 1
      /\ \A i \in 1 .. n - 1 : t[i] = s[i+1]
  BY EmptySeq, HeadTailProperties
<1>2. \A k : k \in Elements(s) <=> \E i \in 1 .. n : k = s[i]
  BY DEF Elements
<1>3. /\ \A k : k \in Elements(t) <=> \E i \in 1 .. n - 1 : k = t[i]
      /\ LaunchLast(t) <=> \A i \in 1 .. n - 1 : t[i] \in Launches => i = (n - 1) - 1
      /\ \A i \in 1 .. n : s[i] \in Launches => i = n - 1
  BY <1>1 DEF Elements, LaunchLast
<1> HIDE DEF n, t
<1>4. \A i \in 1 .. n : i # 1 => i - 1 \in 1 .. n - 1 /\ t[i - 1] = s[i]
  BY <1>1
<1>5. \A i \in 1 .. n - 1 : i + 1 \in 1 .. n /\ t[i] = s[i + 1]
  BY <1>1
<1>6. LaunchLast(t)
  BY <1>1, <1>3, <1>5
<1>7. 1 \in 1 .. n
  BY <1>1
<1> QED BY <1>1, <1>2, <1>3, <1>4, <1>5, <1>6, <1>7 DEF t

\* A launch that is next is followed by the probe alone.
LEMMA LaunchThenProbe ==
    ASSUME NEW s \in Seq(Kinds), s # <<>>, LaunchLast(s), s[Len(s)] = "ready",
           Head(s) \in Launches
    PROVE  Tail(s) = <<"ready">> /\ Elements(s) = {Head(s), "ready"}
<1> DEFINE n == Len(s)
<1>1. /\ n \in Nat \ {0} /\ Head(s) = s[1]
      /\ Tail(s) \in Seq(Kinds) /\ Len(Tail(s)) = n - 1
      /\ \A i \in 1 .. n - 1 : Tail(s)[i] = s[i+1]
  BY EmptySeq, HeadTailProperties
<1>2. \A i \in 1 .. n : s[i] \in Launches => i = n - 1
  BY DEF LaunchLast
<1>3. n = 2
  <2> HIDE DEF n
  <2> QED BY <1>1, <1>2
<1>4. Len(Tail(s)) = 1 /\ Tail(s)[1] = s[2] /\ s[2] = "ready"
  BY <1>1, <1>3
<1>5. Tail(s) = <<"ready">>
  <2> DEFINE t == Tail(s)
             r == <<"ready">>
  <2>1. r \in Seq(Kinds) /\ Len(r) = 1 /\ r[1] = "ready"
    BY DEF Kinds
  <2>2. t \in Seq(Kinds) /\ Len(t) = 1 /\ t[1] = "ready"
    BY <1>1, <1>4
  <2> HIDE DEF t, r
  <2>3. \A i \in 1 .. Len(t) : t[i] = r[i]
    BY <2>1, <2>2
  <2>4. t = r
    BY <2>1, <2>2, <2>3, SeqEqual
  <2> QED BY <2>4 DEF t, r
<1>6. Elements(s) = {s[1], s[2]}
  BY <1>3 DEF Elements
<1> QED BY <1>1, <1>4, <1>5, <1>6

\* What plan_setup puts into a plan, and where.
LEMMA PlanHolds ==
    ASSUME NEW p \in Setups, NEW semantic
    PROVE  /\ LaunchLast(PlanSetup(p, semantic))
           /\ config.semantic # semantic => "semantic" \in Elements(PlanSetup(p, semantic))
           /\ token = 0 => "bootstrap" \in Elements(PlanSetup(p, semantic))
           /\ "start" \in Elements(PlanSetup(p, semantic)) => ServiceState # "running"
           /\ unit # Definition[p] => "install" \in Elements(PlanSetup(p, semantic))
<1> DEFINE reg == ~HasId(config.vaults, Request[p].id)
           running == ServiceState = "running"
           current == unit = Definition[p]
           preference == config.semantic # semantic
           a == IF reg THEN <<"register">> ELSE <<>>
           b == IF preference THEN <<"semantic">> ELSE <<>>
           c == IF ~(config.token /\ token # 0) THEN <<"bootstrap">> ELSE <<>>
           d == IF (reg /\ ~running) \/ (~reg /\ ~index) THEN <<"build">> ELSE <<>>
           e == IF ~current THEN <<"install">> ELSE <<>>
           f == IF running THEN (IF reg \/ preference \/ ~current THEN <<"restart">>
                                                                  ELSE <<>>)
                           ELSE <<"start">>
           z == <<"ready">>
           ab == a \o b
           abc == ab \o c
           abcd == abc \o d
           g == abcd \o e
           h == g \o f
<1>1. PlanSetup(p, semantic) = h \o z
  BY DEF PlanSetup
<1>2. \A k \in Kinds : /\ <<k>> \in Seq(Kinds) /\ Elements(<<k>>) = {k} /\ Len(<<k>>) = 1
                       /\ <<k>>[1] = k
  BY DEF Elements
<1>3. <<>> \in Seq(Kinds) /\ Elements(<<>>) = {} /\ Len(<<>>) = 0
  BY DEF Elements
<1>4. /\ a \in Seq(Kinds) /\ Elements(a) \subseteq {"register"}
      /\ b \in Seq(Kinds) /\ Elements(b) = IF preference THEN {"semantic"} ELSE {}
      /\ c \in Seq(Kinds) /\ Elements(c) \subseteq {"bootstrap"}
      /\ token = 0 => Elements(c) = {"bootstrap"}
      /\ d \in Seq(Kinds) /\ Elements(d) \subseteq {"build"}
      /\ e \in Seq(Kinds) /\ Elements(e) = IF current THEN {} ELSE {"install"}
  BY <1>2, <1>3 DEF Kinds
<1>5. /\ f \in Seq(Kinds) /\ Elements(f) \subseteq Launches /\ Len(f) \in {0, 1}
      /\ running => "start" \notin Elements(f)
      /\ z \in Seq(Kinds) /\ Elements(z) = {"ready"} /\ Len(z) = 1 /\ z[1] = "ready"
  BY <1>2, <1>3 DEF Kinds, Launches
<1> HIDE DEF a, b, c, d, e, f, z, reg, current, running, preference, ab, abc, abcd, g, h
<1>6. /\ g \in Seq(Kinds)
      /\ Elements(g) = Elements(a) \cup Elements(b) \cup Elements(c) \cup Elements(d)
                       \cup Elements(e)
  <2>1. ab \in Seq(Kinds) /\ Elements(ab) = Elements(a) \cup Elements(b)
    BY <1>4, ConcatElements DEF ab
  <2>2. abc \in Seq(Kinds) /\ Elements(abc) = Elements(ab) \cup Elements(c)
    BY <1>4, <2>1, ConcatElements DEF abc
  <2>3. abcd \in Seq(Kinds) /\ Elements(abcd) = Elements(abc) \cup Elements(d)
    BY <1>4, <2>2, ConcatElements DEF abcd
  <2>4. g \in Seq(Kinds) /\ Elements(g) = Elements(abcd) \cup Elements(e)
    BY <1>4, <2>3, ConcatElements DEF g
  <2> QED BY <2>1, <2>2, <2>3, <2>4
<1>8. /\ "start" \notin Elements(g) /\ "restart" \notin Elements(g)
      /\ preference => "semantic" \in Elements(g)
      /\ token = 0 => "bootstrap" \in Elements(g)
      /\ ~current => "install" \in Elements(g)
  BY <1>4, <1>6
<1>9. h \in Seq(Kinds) /\ Len(h) = Len(g) + Len(f) /\ Elements(h) = Elements(g) \cup Elements(f)
  BY <1>5, <1>6, ConcatElements DEF h
<1>10. \A i \in 1 .. Len(h) : h[i] \in Launches => i = Len(h)
  <2> SUFFICES ASSUME NEW i \in 1 .. Len(h), h[i] \in Launches PROVE i = Len(h)
    OBVIOUS
  <2>1. Len(g) \in Nat /\ Len(f) \in Nat
    BY <1>5, <1>6
  <2>2. i \in 1 .. Len(g) + Len(f)
    BY <1>9
  <2>3. i <= Len(g) => h[i] = g[i] /\ i \in 1 .. Len(g)
    BY <1>5, <1>6, <2>1, <2>2, ConcatProperties DEF h
  <2>4. ~(i <= Len(g))
    BY <1>8, <2>3 DEF Elements, Launches
  <2>5. Len(h) = Len(g) + Len(f) /\ Len(f) \in {0, 1}
    BY <1>5, <1>9
  <2>6. \A m, n \in Nat : i \in 1 .. m + n /\ ~(i <= m) /\ n \in {0, 1} => i = m + n
    OBVIOUS
  <2> QED BY <2>1, <2>2, <2>4, <2>5, <2>6, Zenon
<1>11. /\ h \o z \in Seq(Kinds) /\ Len(h \o z) = Len(h) + 1
       /\ Elements(h \o z) = Elements(h) \cup {"ready"}
  <2>1. /\ h \o z \in Seq(Kinds) /\ Len(h \o z) = Len(h) + Len(z)
        /\ Elements(h \o z) = Elements(h) \cup Elements(z)
    <3>1. h \in Seq(Kinds) /\ z \in Seq(Kinds)
      BY <1>5, <1>9
    <3> QED BY <3>1, ConcatElements, Zenon
  <2> QED BY <1>5, <2>1
<1>12. LaunchLast(h \o z)
  <2>1. Len(h) \in Nat
    BY <1>9
  <2>2. \A i \in 1 .. Len(h) + 1 : (h \o z)[i] = IF i <= Len(h) THEN h[i] ELSE z[i - Len(h)]
    BY <1>5, <1>9, ConcatProperties
  <2>3. \A i \in 1 .. Len(h) + 1 : (h \o z)[i] \in Launches => i = (Len(h) + 1) - 1
    <3>0. (Len(h) + 1) - 1 = Len(h)
      BY <2>1
    <3> SUFFICES ASSUME NEW i \in 1 .. Len(h) + 1, (h \o z)[i] \in Launches
                 PROVE  i = Len(h)
      BY <3>0
    <3>1. CASE i <= Len(h)
      BY <1>10, <2>1, <2>2, <3>1
    <3>2. CASE ~(i <= Len(h))
      <4>1. i - Len(h) = 1
        BY <2>1, <3>2
      <4> QED BY <1>5, <2>2, <3>2, <4>1 DEF Launches
    <3> QED BY <3>1, <3>2
  <2> QED BY <1>11, <2>3 DEF LaunchLast
<1>13. "start" \in Elements(h \o z) => ~running
  BY <1>5, <1>8, <1>9, <1>11
<1> QED BY <1>1, <1>8, <1>9, <1>11, <1>12, <1>13 DEF running, preference, current

\* The service manager starts a service only where there is a unit.
LEMMA StartServed ==
    ASSUME SetupInv, ServedInv, Startable, UNCHANGED <<platform, unit>>,
           loaded' = LoadedUnit, ~Inspected'
    PROVE  ServedInv'
<1>1. /\ unit # None
      /\ loaded' = "foreign" => unit = "foreign"
      /\ platform = "windows" => loaded' = unit
  BY DEF Startable, ServedInv, LoadedUnit
<1> QED BY <1>1 DEF ServedInv, Inspected

\* A step that leaves the unit, what is loaded and the windows alone.
LEMMA ServedStays ==
    ASSUME ServedInv, UNCHANGED <<platform, unit, loaded, previous, op>>,
           daemon.phase = "down" => daemon'.phase = "down",
           \A q \in Setups : pc'[q] \in {"inspected", "written"} =>
              pc[q] \in {"inspected", "written"}
    PROVE  ServedInv'
BY DEF ServedInv, Inspected

\* A daemon runs only where there is a unit, and a setup that comes upon no unit of the
\* user's own never has one started.
LEMMA ServedOfSetups ==
    ASSUME SetupInv, ServedInv, EnabledInv, NEW p \in Setups, SetupStep(p) \/ SetupFault(p)
    PROVE  ServedInv'
<1> DEFINE W == {"inspected", "written"}
<1>0. /\ pc \in [Setups -> {"idle", "planned", "acting", "minting", "inspected",
                            "written", "reloaded"}]
      /\ previous \in [Setups -> Definitions \cup {None}]
      /\ platform \in {"linux", "windows"}
      /\ \A q \in Setups : Definition[q] \in Definitions
      /\ "foreign" \notin Definitions \cup {None} /\ None \notin Definitions
  BY SetupAssumption DEF SetupInv, SetupsType, FilesType, Definitions
<1>1. /\ op' = op /\ \A q \in Setups : q # p => pc'[q] = pc[q]
      /\ ~Inspect(p) /\ pc'[p] \in W => pc[p] \in W
  BY WindowsOfSetups
<1>2. ASSUME pc[p] \notin {"idle", "planned"}, pc'[p] \notin W PROVE ~Inspected'
  BY <1>1, <1>2, Alone DEF Inspected
<1>3. CASE StartService(p) \/ RestartService(p)
  <2>1. PICK kind \in {"start", "restart"} : Launch(p, kind)
    BY <1>3 DEF StartService, RestartService
  <2>2. /\ pc[p] = "acting" /\ pc'[p] \notin W /\ UNCHANGED <<platform, unit, previous>>
    BY <1>0, <2>1 DEF Launch, Applies, Applied, Abort, Finish
  <2>3. CASE Startable /\ loaded' = LoadedUnit
    BY <1>2, <2>2, <2>3, StartServed
  <2>4. CASE UNCHANGED <<loaded, daemon>>
    BY <1>1, <2>2, <2>4, ServedStays
  <2> QED BY <2>1, <2>3, <2>4 DEF Launch
<1>4. CASE Inspect(p)
  <2>1. /\ UNCHANGED <<platform, unit, loaded, daemon>> /\ unit # "foreign"
        /\ previous' = [previous EXCEPT ![p] = unit]
    BY <1>4 DEF Inspect, service, process
  <2>2. previous'[p] = unit /\ \A q \in Setups : q # p => previous'[q] = previous[q]
    BY <1>0, <2>1
  <2> QED BY <1>1, <2>1, <2>2 DEF ServedInv
<1>5. CASE WriteUnit(p)
  <2>1. /\ UNCHANGED <<platform, loaded, daemon, previous>> /\ unit' = Definition[p]
        /\ platform = "linux" /\ pc[p] = "inspected" /\ ~Inspect(p)
    BY <1>5 DEF WriteUnit, process, Inspect, Applies
  <2>2. Inspected
    BY <2>1 DEF Inspected
  <2>3. \A q \in Setups : pc'[q] \in W => pc[q] \in W
    BY <1>1, <2>1
  <2> QED BY <1>0, <1>1, <2>1, <2>2, <2>3 DEF ServedInv
<1>6. CASE ReloadManager(p)
  <2>1. /\ UNCHANGED <<platform, unit, daemon>> /\ loaded' = unit
        /\ pc[p] = "written" /\ pc'[p] = "reloaded"
    BY <1>0, <1>6 DEF ReloadManager, process
  <2> QED BY <1>2, <2>1 DEF ServedInv, Inspected
<1>7. CASE CreateTask(p)
  <2>1. /\ platform' = platform /\ unit' = Definition[p] /\ loaded' = unit'
        /\ pc[p] = "inspected" /\ pc'[p] = "acting"
    BY <1>0, <1>7 DEF CreateTask, Applied
  <2> QED BY <1>0, <1>2, <2>1 DEF ServedInv, Inspected
<1>8. CASE ReloadFails(p)
  <2>1. /\ UNCHANGED <<platform, loaded, daemon>> /\ unit' = previous[p]
        /\ pc[p] = "written" /\ pc'[p] = "idle"
    BY <1>0, <1>8 DEF ReloadFails, process, Abort, Finish
  <2>2. platform = "linux" /\ Inspected
    BY <1>0, <2>1 DEF EnabledInv, Inspected
  <2> QED BY <1>0, <1>2, <2>1, <2>2 DEF ServedInv, Inspected
<1>9. CASE StepFails(p) \/ Killed(p)
  <2>1. /\ UNCHANGED <<platform, unit, loaded, daemon>> /\ pc'[p] = "idle"
        /\ previous' = [previous EXCEPT ![p] = None]
    BY <1>0, <1>9 DEF StepFails, Killed, Abort, Finish, service, process
  <2>2. \A q \in Setups : pc'[q] \in W => pc[q] \in W /\ previous'[q] = previous[q]
    BY <1>0, <1>1, <2>1
  <2> QED BY <1>1, <2>1, <2>2 DEF ServedInv, Inspected
<1>10. CASE \/ Plan(p) \/ Lock(p) \/ Register(p) \/ SetSemantic(p) \/ Bootstrap(p)
            \/ Mint(p) \/ BuildIndex(p) \/ RefusesForeign(p) \/ EnableUnit(p)
            \/ CheckReadiness(p)
  <2>1. UNCHANGED <<platform, unit, loaded, previous, daemon>>
    BY <1>10 DEF Plan, Lock, Register, SetSemantic, Bootstrap, Mint, BuildIndex,
       RefusesForeign, EnableUnit, CheckReadiness, service, process
  <2>2. CASE Inspect(p)
    BY <1>4, <2>2
  <2>3. CASE ~Inspect(p)
    BY <1>1, <2>1, <2>3, ServedStays
  <2> QED BY <2>2, <2>3
<1> QED BY <1>3, <1>4, <1>5, <1>6, <1>7, <1>8, <1>9, <1>10 DEF SetupStep, SetupFault

\* The service commands, the user and the daemon.
LEMMA ServedSteps ==
    ASSUME SetupInv, ServedInv, EnabledInv, Next
    PROVE  ServedInv'
<1>0. /\ platform \in {"linux", "windows"}
      /\ unit \in Definitions \cup {None, "foreign"}
      /\ \A q \in Setups : Definition[q] \in Definitions
      /\ "foreign" \notin Definitions \cup {None} /\ None \notin Definitions
      /\ op # None => /\ op.old \in Definitions \cup {None}
                      /\ op.new \in Definitions \cup {None}
  BY SetupAssumption DEF SetupInv, ServiceType, FilesType, Definitions, OpInv, Ops
<1>a. op # None => \A q \in Setups : pc[q] \in {"idle", "planned"}
  BY SetupAssumption DEF SetupInv, SetupsType, OpInv
<1>b. setupLock = None => ~Inspected
  BY SetupAssumption DEF SetupInv, SetupsType, OpInv, Inspected
<1>c. OpInv'
  BY OpStep
<1>1. CASE \E p \in Setups : SetupStep(p) \/ SetupFault(p)
  BY <1>1, ServedOfSetups
<1>2. CASE (\E p \in Setups : ServiceInstall(p)) \/ ServiceUninstall
  <2>1. PICK stage, new : /\ ServiceInspects(stage, new)
                          /\ stage = "stop" \/ new \in Definitions
    BY <1>0, <1>2 DEF ServiceInstall, ServiceUninstall
  <2>2. /\ op' = [stage |-> stage, old |-> unit, new |-> new] /\ unit # "foreign"
        /\ UNCHANGED <<platform, unit, loaded, daemon, pc, previous>>
    BY <2>1 DEF ServiceInspects, service, process
  <2>3. op'.stage = stage /\ op'.old = unit /\ op'.new = new
    BY <2>2
  <2> QED BY <1>0, <2>1, <2>2, <2>3 DEF ServedInv
<1>3. CASE UninstallStops
  <2>1. /\ UNCHANGED <<platform, unit, loaded, pc, previous>> /\ daemon'.phase = "down"
        /\ Inspected
    BY <1>3 DEF UninstallStops, setups, Down, Inspected
  <2> QED BY <2>1 DEF ServedInv
<1>4. CASE ServiceReplaces
  <2>1. op # None /\ op.stage = "replace" /\ unit' = op.new
    BY <1>4 DEF ServiceReplaces
  <2>2. Inspected
    BY <2>1 DEF Inspected
  <2>3. CASE platform = "windows"
    <3>1. /\ UNCHANGED <<platform, daemon, pc>> /\ loaded' = unit' /\ op' = None
      BY <1>4, <2>3 DEF ServiceReplaces, ServiceEnds, process
    <3>2. ~Inspected'
      BY <1>a, <2>1, <3>1 DEF Inspected
    <3> QED BY <1>0, <2>1, <2>3, <3>1, <3>2 DEF ServedInv, Inspected
  <2>4. CASE platform = "linux"
    <3>1. /\ UNCHANGED <<platform, daemon, pc, loaded, previous>>
          /\ op' = [op EXCEPT !.stage = "reload"] /\ op \in Ops
      BY <1>4, <2>1, <2>4 DEF ServiceReplaces, process, setups, SetupInv, OpInv
    <3>2. op'.old = op.old /\ op'.new = op.new
      BY <3>1 DEF Ops
    <3> QED BY <1>0, <1>a, <2>1, <2>2, <2>4, <3>1, <3>2 DEF ServedInv
  <2> QED BY <1>0, <2>3, <2>4
<1>5. CASE ServiceReloads
  <2>1. /\ op # None /\ op.stage = "reload" /\ op' = None
        /\ UNCHANGED <<platform, daemon, pc>>
        /\ \/ loaded' = unit /\ unit' = unit
           \/ unit' = op.old /\ loaded' = loaded
    BY <1>5 DEF ServiceReloads, ServiceEnds, process
  <2>2. ~Inspected' /\ Inspected /\ platform = "linux"
    BY <1>0, <1>a, <2>1 DEF Inspected, EnabledInv
  <2> QED BY <1>0, <2>1, <2>2 DEF ServedInv, Inspected
<1>6. CASE ServiceFails
  <2>1. op # None /\ op' = None /\ UNCHANGED <<platform, daemon, pc, unit, loaded>>
    BY <1>6 DEF ServiceFails, ServiceEnds, process, service
  <2>2. ~Inspected'
    BY <1>a, <2>1 DEF Inspected
  <2> QED BY <2>1, <2>2 DEF ServedInv, Inspected
<1>7. CASE ServiceStart \/ ServiceRestart
  <2>1. /\ setupLock = None /\ UNCHANGED <<platform, unit, pc, op>> /\ Startable
        /\ loaded' = LoadedUnit
    BY <1>7 DEF ServiceStart, ServiceRestart, LockedCommand, setups, aside
  <2>2. ~Inspected'
    BY <1>b, <2>1 DEF Inspected
  <2> QED BY <2>1, <2>2, StartServed
<1>8. CASE ForeignUnit
  <2>1. /\ UNCHANGED <<platform, daemon, pc, previous, op>> /\ unit' = "foreign"
        /\ loaded' = IF platform = "windows" THEN "foreign" ELSE loaded
    BY <1>8 DEF ForeignUnit, process, setups
  <2>2. platform = "linux" => loaded' = loaded
    BY <2>1
  <2>3. Inspected' = Inspected
    BY <2>1 DEF Inspected
  <2> QED BY <1>0, <2>1, <2>2, <2>3 DEF ServedInv
<1>9. CASE \/ ServiceStop \/ (\E r \in Additions : VaultAdd(r)) \/ IndexCommand
           \/ DaemonStep
  <2>1. UNCHANGED <<platform, unit, loaded, previous, op, pc>>
    BY <1>9 DEF ServiceStop, VaultAdd, IndexCommand, DaemonStep, DaemonBootstraps,
       DaemonMints, DaemonBoots, DaemonBootFails, DaemonReloads, DaemonLoadsModel,
       ModelFails, DaemonCrashes, ManagerRestarts, service, setups, aside
  <2>2. daemon.phase = "down" => daemon'.phase = "down"
    BY <1>9 DEF ServiceStop, VaultAdd, IndexCommand, DaemonStep, DaemonBootstraps,
       DaemonMints, DaemonBoots, DaemonBootFails, DaemonReloads, DaemonLoadsModel,
       ModelFails, DaemonCrashes, ManagerRestarts, process, Down, Active
  <2> QED BY <2>1, <2>2, ServedStays
<1> QED BY <1>1, <1>2, <1>3, <1>4, <1>5, <1>6, <1>7, <1>8, <1>9 DEF Next, OtherCommand

\* A plan made while the daemon is at rest and nobody else plans.
LEMMA PlanClean ==
    ASSUME SetupInv, ServedInv, NEW p \in Setups, Plan(p)
    PROVE  CleanInv'
<1>0. /\ pc \in [Setups -> {"idle", "planned", "acting", "minting", "inspected",
                            "written", "reloaded"}]
      /\ todo \in [Setups -> Seq(Kinds)] /\ want \in [Setups -> BOOLEAN]
  BY DEF SetupInv, SetupsType
<1> SUFFICES ASSUME p \in clean', ~Idle(p)' PROVE Undisputed(p)'
  BY DEF CleanInv, Plan
<1> DEFINE semantic == ResolvedSemantic(p)
           plan == PlanSetup(p, semantic)
<1>1. /\ Settled /\ unit # "foreign" /\ UNCHANGED <<unit, config, token, daemon>>
      /\ launched' = launched \ {p}
      /\ todo' = [todo EXCEPT ![p] = plan] /\ want' = [want EXCEPT ![p] = semantic]
  BY <1>0 DEF Plan, Finish, Idle, service, files, process
<1>2. todo'[p] = plan /\ want'[p] = semantic
  BY <1>0, <1>1
<1>3. /\ LaunchLast(plan)
      /\ config.semantic # semantic => "semantic" \in Elements(plan)
      /\ token = 0 => "bootstrap" \in Elements(plan)
      /\ "start" \in Elements(plan) => ServiceState # "running"
      /\ unit # Definition[p] => "install" \in Elements(plan)
  BY PlanHolds
<1> HIDE DEF plan, semantic
<1>4. ServiceState # "running" => daemon.phase = "down"
  <2> SUFFICES ASSUME ServiceState # "running" PROVE daemon.phase = "down"
    OBVIOUS
  <2>1. CASE unit = None
    BY <2>1 DEF ServedInv
  <2>2. CASE unit # None
    BY <1>1, <2>2 DEF ServiceState, Active, Settled
  <2> QED BY <2>1, <2>2
<1>5. pc'[p] # "reloaded"
  BY <1>0 DEF Plan, Finish
<1> QED BY <1>1, <1>2, <1>3, <1>4, <1>5 DEF Undisputed, Ahead, Definitions

\* Where a setup goes on without disturbance, before it has launched the service.
LEMMA AheadStays ==
    ASSUME SetupInv, NEW p \in Setups, Undisputed(p), p \notin launched, p \notin launched',
           unit' # "foreign", daemon' = daemon, want' = want,
           unit \in Definitions => unit' \in Definitions,
           pc'[p] = "reloaded" => unit' \in Definitions,
           token # 0 => token' # 0,
           config'.semantic \in {config.semantic, want[p]},
           \/ todo'[p] = todo[p]
           \/ /\ todo[p] # <<>> /\ todo'[p] = Tail(todo[p])
              /\ Head(todo[p]) = "bootstrap" => token' # 0
              /\ Head(todo[p]) = "semantic" => config'.semantic = want[p]
              /\ Head(todo[p]) = "install" => unit' \in Definitions
    PROVE  Undisputed(p)'
<1>1. todo[p] \in Seq(Kinds) /\ LaunchLast(todo[p]) /\ Ahead(p)
  BY DEF SetupInv, SetupsType, Undisputed
<1>2. CASE todo'[p] = todo[p]
  BY <1>1, <1>2 DEF Undisputed, Ahead
<1>3. CASE /\ todo[p] # <<>> /\ todo'[p] = Tail(todo[p])
           /\ Head(todo[p]) = "bootstrap" => token' # 0
           /\ Head(todo[p]) = "semantic" => config'.semantic = want[p]
           /\ Head(todo[p]) = "install" => unit' \in Definitions
  <2>1. /\ \A k \in Elements(todo[p]) : k = Head(todo[p]) \/ k \in Elements(todo'[p])
        /\ Elements(todo'[p]) \subseteq Elements(todo[p])
        /\ LaunchLast(todo'[p])
    BY <1>1, <1>3, TailElements
  <2> QED BY <1>1, <1>3, <2>1 DEF Undisputed, Ahead
<1> QED BY <1>2, <1>3

\* The launch itself.
LEMMA LaunchClean ==
    ASSUME SetupInv, ServedInv, NEW p \in Setups, Undisputed(p), p \notin launched,
           NEW kind \in Launches, Launch(p, kind), Applied(p)
    PROVE  Undisputed(p)'
<1>1. /\ pc \in [Setups -> {"idle", "planned", "acting", "minting", "inspected",
                            "written", "reloaded"}]
      /\ todo \in [Setups -> Seq(Kinds)] /\ want \in [Setups -> BOOLEAN]
      /\ LaunchLast(todo[p]) /\ Ahead(p) /\ unit # "foreign"
  BY DEF SetupInv, SetupsType, Undisputed
<1>2. /\ pc[p] = "acting" /\ Head(todo[p]) = kind
      /\ UNCHANGED <<config, token, unit, want>>
      /\ launched' = launched \cup {p}
      /\ todo' = [todo EXCEPT ![p] = Tail(todo[p])] /\ pc' = [pc EXCEPT ![p] = "acting"]
  BY DEF Launch, Applies, Applied, files
<1>3. todo[p] # <<>> /\ todo[p][Len(todo[p])] = "ready"
  BY <1>2 DEF SetupInv, PlanInv, Begun, Idle
<1>4. Tail(todo[p]) = <<"ready">> /\ Elements(todo[p]) = {kind, "ready"}
  BY <1>1, <1>2, <1>3, LaunchThenProbe
<1>5. token # 0 /\ config.semantic = want[p] /\ (kind = "start" => daemon.phase = "down")
  BY <1>1, <1>4 DEF Ahead, Launches
<1>6. todo'[p] = <<"ready">> /\ pc'[p] = "acting"
  BY <1>1, <1>2, <1>4
<1>7. /\ Startable /\ daemon' = IF kind = "start" /\ Active THEN daemon ELSE Launched
  <2>1. ~Abort(p)
    BY <1>1, <1>6 DEF Abort, Finish
  <2> QED BY <2>1 DEF Launch
<1>8. LoadedUnit \in Definitions
  BY <1>1, <1>7 DEF LoadedUnit, Startable, SetupInv, ServiceType, ServedInv
<1>9. daemon' = Spawned(LoadedUnit)
  BY <1>5, <1>7, <1>8, SetupAssumption DEF Active, Launched
<1>10. /\ daemon'.phase = "spawned" /\ daemon'.def \in Definitions /\ ~daemon'.degraded
  BY <1>8, <1>9 DEF Spawned, Down
<1>11. LaunchLast(todo'[p])
  BY <1>1, <1>2, <1>3, <1>4, <1>6, TailElements
<1> QED BY <1>1, <1>2, <1>5, <1>6, <1>10, <1>11 DEF Undisputed, Coming

\* The daemon that the setup waits for, or the one it found.
LEMMA DaemonClean ==
    ASSUME SetupInv, NEW p \in Setups, Undisputed(p), ~Idle(p), DaemonStep, p \in clean'
    PROVE  Undisputed(p)'
<1>1. /\ UNCHANGED <<unit, pc, todo, want, launched>>
      /\ config'.semantic = config.semantic /\ config'.vaults = config.vaults
      /\ token # 0 => token' # 0
      /\ daemon.phase # "down"
  <2>1. UNCHANGED <<unit, pc, todo, want, launched>> /\ daemon.phase # "down"
    BY DEF DaemonStep, DaemonBootstraps, DaemonMints, DaemonBoots, DaemonBootFails,
       DaemonReloads, DaemonLoadsModel, ModelFails, DaemonCrashes, ManagerRestarts,
       service, setups, history, Active
  <2>2. token # 0 => token' # 0
    <3>1. minted \in Nat
      BY DEF SetupInv, FilesType
    <3> QED BY <3>1 DEF DaemonStep, DaemonBootstraps, DaemonMints, DaemonBoots,
         DaemonBootFails, DaemonReloads, DaemonLoadsModel, ModelFails, DaemonCrashes,
         ManagerRestarts, MintToken, files
  <2>3. config' \in {config, [config EXCEPT !.token = TRUE, !.exists = TRUE]}
    BY DEF DaemonStep, DaemonBootstraps, DaemonMints, DaemonBoots, DaemonBootFails,
       DaemonReloads, DaemonLoadsModel, ModelFails, DaemonCrashes, ManagerRestarts, files
  <2>4. config \in [exists : BOOLEAN, vaults : SUBSET Registrations,
                    semantic : BOOLEAN, token : BOOLEAN]
    BY DEF SetupInv, FilesType
  <2> QED BY <2>1, <2>2, <2>3, <2>4
<1>2. CASE p \notin launched
  BY <1>1, <1>2 DEF Undisputed, Ahead
<1>3. CASE p \in launched
  <2>1. Coming(p)
    BY <1>3 DEF Undisputed
  <2>2. /\ daemon \in [phase : {"down", "crashed", "spawned", "minting", "booting",
                                "noindex", "serving"},
                       def : Definitions \cup {None}, semantic : BOOLEAN,
                       loader : {"off", "loading", "ready", "failed"},
                       vaults : SUBSET Registrations, token : 0..minted,
                       degraded : BOOLEAN]
    BY DEF SetupInv, DaemonType
  <2>3. CASE DaemonBootstraps
    <3>1. /\ daemon' = [daemon EXCEPT !.phase = "booting", !.token = token,
                                      !.semantic = config.semantic, !.vaults = config.vaults]
          /\ UNCHANGED <<token, index, descriptor>>
      BY <2>1, <2>3 DEF DaemonBootstraps, Coming
    <3>2. /\ daemon'.phase = "booting" /\ daemon'.token = token
          /\ daemon'.semantic = config.semantic /\ daemon'.vaults = config.vaults
          /\ daemon'.def = daemon.def /\ daemon'.degraded = daemon.degraded
      BY <2>2, <3>1
    <3> QED BY <1>1, <1>3, <2>1, <3>1, <3>2 DEF Undisputed, Coming
  <2>4. CASE DaemonBoots
    <3>1. daemon.vaults # {}
      <4>1. Head(todo[p]) = "ready" /\ ~Idle(p)
        BY <2>1 DEF Coming
      <4> QED BY <2>1, <2>4, <4>1 DEF Coming, DaemonBoots, SetupInv, PlanInv, Begun
    <3>2. /\ index' = TRUE /\ descriptor' = daemon.def /\ UNCHANGED <<token, config>>
          /\ daemon' = [daemon EXCEPT !.phase = "serving",
                                      !.loader = IF daemon.semantic THEN "loading" ELSE "off"]
      BY <2>4, <3>1 DEF DaemonBoots
    <3>3. /\ daemon'.phase = "serving" /\ daemon'.token = daemon.token
          /\ daemon'.semantic = daemon.semantic /\ daemon'.vaults = daemon.vaults
          /\ daemon'.def = daemon.def /\ daemon'.degraded = daemon.degraded
          /\ daemon.semantic => daemon'.loader = "loading"
      BY <2>2, <3>2
    <3>4. daemon.phase = "booting"
      BY <2>4 DEF DaemonBoots
    <3> QED BY <1>1, <1>3, <2>1, <3>2, <3>3, <3>4 DEF Undisputed, Coming
  <2>5. CASE DaemonReloads
    <3>1. daemon.degraded = FALSE /\ RestartRequired = FALSE
      BY <2>1, <2>2, <2>5 DEF DaemonReloads, RestartRequired, Coming
    <3> QED BY <2>1, <2>5, <3>1 DEF DaemonReloads, ReloadPending, Coming
  <2>6. CASE DaemonLoadsModel
    <3>1. /\ daemon' = [daemon EXCEPT !.loader = "ready"] /\ daemon.phase = "serving"
          /\ UNCHANGED <<config, token, index, descriptor>>
      BY <2>6 DEF DaemonLoadsModel, files
    <3>2. /\ daemon'.phase = "serving" /\ daemon'.token = daemon.token
          /\ daemon'.semantic = daemon.semantic /\ daemon'.vaults = daemon.vaults
          /\ daemon'.def = daemon.def /\ daemon'.degraded = daemon.degraded
          /\ daemon'.loader = "ready"
      BY <2>2, <3>1
    <3> QED BY <1>1, <1>3, <2>1, <3>1, <3>2 DEF Undisputed, Coming
  <2>7. CASE DaemonMints \/ ManagerRestarts
    BY <2>1, <2>7 DEF DaemonMints, ManagerRestarts, Coming
  <2>8. CASE DaemonBootFails \/ ModelFails \/ DaemonCrashes
    BY <2>8 DEF DaemonBootFails, ModelFails, DaemonCrashes, Fault
  <2> QED BY <2>3, <2>4, <2>5, <2>6, <2>7, <2>8 DEF DaemonStep
<1> QED BY <1>2, <1>3

\* An undisturbed run stays what CleanInv says, whatever step comes next.
LEMMA CleanSteps ==
    ASSUME SetupInv, ServedInv, CleanInv, Next
    PROVE  CleanInv'
<1>0. /\ pc \in [Setups -> {"idle", "planned", "acting", "minting", "inspected",
                            "written", "reloaded"}]
      /\ todo \in [Setups -> Seq(Kinds)] /\ minted \in Nat /\ clean \subseteq Setups
      /\ config \in [exists : BOOLEAN, vaults : SUBSET Registrations,
                     semantic : BOOLEAN, token : BOOLEAN]
  BY DEF SetupInv, SetupsType, FilesType
<1>1. ASSUME NEW p \in Setups, SetupStep(p), ~Plan(p) PROVE CleanInv'
  <2>1. clean' = clean \cap {p}
    BY <1>1 DEF SetupStep, Lock, Register, SetSemantic, Bootstrap, Mint, BuildIndex,
       RefusesForeign, Inspect, WriteUnit, ReloadManager, EnableUnit, CreateTask,
       StartService, RestartService, Launch, CheckReadiness, Applies
  <2> SUFFICES ASSUME p \in clean, ~Idle(p)' PROVE Undisputed(p)'
    BY <2>1 DEF CleanInv
  <2>2. ~Idle(p)
    BY <1>1 DEF SetupStep, Lock, Register, SetSemantic, Bootstrap, Mint, BuildIndex,
       RefusesForeign, Inspect, WriteUnit, ReloadManager, EnableUnit, CreateTask,
       StartService, RestartService, Launch, CheckReadiness, Applies, Idle
  <2>3. Undisputed(p) /\ Begun(p)
    BY <2>2 DEF CleanInv, SetupInv, PlanInv
  <2>4. ~Abort(p) /\ \A outcome : ~Finish(p, outcome)
    BY <1>0 DEF Abort, Finish, Idle
  <2>5. p \notin launched
    <3> SUFFICES ASSUME p \in launched PROVE FALSE
      OBVIOUS
    <3>1. pc[p] = "acting" /\ Head(todo[p]) = "ready"
      BY <2>3 DEF Undisputed, Coming
    <3> QED BY <1>1, <2>4, <3>1 DEF SetupStep, Lock, Register, SetSemantic, Bootstrap,
         Mint, BuildIndex, RefusesForeign, Inspect, WriteUnit, ReloadManager, EnableUnit,
         CreateTask, StartService, RestartService, Launch, CheckReadiness, Applies
  <2>6. CASE StartService(p) \/ RestartService(p)
    <3>1. PICK kind \in Launches : Launch(p, kind)
      BY <2>6 DEF StartService, RestartService, Launches
    <3> QED BY <2>3, <2>4, <2>5, <3>1, LaunchClean DEF Launch
  <2>7. CASE ~(StartService(p) \/ RestartService(p))
    <3>1. UNCHANGED <<daemon, want, launched>>
      BY <1>1, <2>7 DEF SetupStep, Lock, Register, SetSemantic, Bootstrap, Mint,
         BuildIndex, RefusesForeign, Inspect, WriteUnit, ReloadManager, EnableUnit,
         CreateTask, CheckReadiness, Applied, Abort, process
    <3>2. unit' # "foreign"
      BY <1>1, <2>3, <2>7, SetupAssumption DEF Undisputed, SetupStep, Lock, Register,
         SetSemantic, Bootstrap, Mint, BuildIndex, RefusesForeign, Inspect, WriteUnit,
         ReloadManager, EnableUnit, CreateTask, CheckReadiness, service, Definitions
    <3>7. /\ unit \in Definitions => unit' \in Definitions
          /\ pc'[p] = "reloaded" => unit' \in Definitions
      <4>1. unit' \in {unit, Definition[p]} /\ Definition[p] \in Definitions
        BY <1>1, <2>7 DEF SetupStep, Lock, Register, SetSemantic, Bootstrap, Mint,
           BuildIndex, RefusesForeign, Inspect, WriteUnit, ReloadManager, EnableUnit,
           CreateTask, CheckReadiness, service, Definitions
      <4>2. ASSUME pc'[p] = "reloaded" PROVE ReloadManager(p)
        BY <1>0, <1>1, <2>4, <2>7, <4>2 DEF SetupStep, Lock, Register, SetSemantic,
           Bootstrap, Mint, BuildIndex, RefusesForeign, Inspect, WriteUnit, EnableUnit,
           CreateTask, CheckReadiness, Applied
      <4>3. ReloadManager(p) => unit' = Definition[p]
        BY <2>3 DEF ReloadManager, SetupInv, UnitInv, Undisputed
      <4> QED BY <4>1, <4>2, <4>3
    <3>3. token # 0 => token' # 0
      BY <1>0, <1>1, <2>7 DEF SetupStep, Lock, Register, SetSemantic, Bootstrap, Mint,
         BuildIndex, RefusesForeign, Inspect, WriteUnit, ReloadManager, EnableUnit,
         CreateTask, CheckReadiness, files, MintToken
    <3>4. config'.semantic \in {config.semantic, want[p]}
      BY <1>0, <1>1, <2>7 DEF SetupStep, Lock, Register, SetSemantic, Bootstrap, Mint,
         BuildIndex, RefusesForeign, Inspect, WriteUnit, ReloadManager, EnableUnit,
         CreateTask, CheckReadiness, files
    <3>5. \/ todo' = todo
          \/ /\ Applied(p)
             /\ Head(todo[p]) = "bootstrap" => token' # 0
             /\ Head(todo[p]) = "semantic" => config'.semantic = want[p]
             /\ Head(todo[p]) = "install" => unit' \in Definitions
      <4>1. CASE \/ Lock(p) \/ Inspect(p) \/ WriteUnit(p) \/ ReloadManager(p)
                 \/ RefusesForeign(p) \/ CheckReadiness(p)
        BY <2>4, <4>1 DEF Lock, Inspect, WriteUnit, ReloadManager, RefusesForeign,
           CheckReadiness
      <4>2. CASE Register(p) \/ BuildIndex(p) \/ CreateTask(p)
        BY <2>3, <2>4, <4>2 DEF Register, BuildIndex, CreateTask, Applies, Definitions,
           Begun
      <4>3. CASE SetSemantic(p)
        BY <1>0, <4>3 DEF SetSemantic, Applies
      <4>4. CASE Bootstrap(p)
        BY <4>4 DEF Bootstrap, Applies
      <4>5. CASE Mint(p)
        BY <1>0, <2>3, <4>5 DEF Mint, MintToken, Begun
      <4>6. CASE EnableUnit(p)
        BY <2>3, <2>5, <4>6 DEF EnableUnit, Begun, Undisputed, Ahead
      <4> QED BY <1>1, <2>7, <4>1, <4>2, <4>3, <4>4, <4>5, <4>6 DEF SetupStep
    <3>6. Applied(p) => todo[p] # <<>> /\ todo'[p] = Tail(todo[p])
      BY <1>0, <2>3 DEF Applied, Begun
    <3> QED BY <2>3, <2>5, <3>1, <3>2, <3>3, <3>4, <3>5, <3>6, <3>7, AheadStays
  <2> QED BY <2>6, <2>7
<1>2. ASSUME NEW p \in Setups, Plan(p) PROVE CleanInv'
  BY <1>2, PlanClean
<1>3. ASSUME NEW p \in Setups, SetupFault(p) PROVE CleanInv'
  BY <1>3 DEF SetupFault, StepFails, ReloadFails, Killed, Fault, CleanInv
<1>4. CASE OtherCommand
  BY <1>4 DEF OtherCommand, ServiceInstall, ServiceStart, ServiceStop, ServiceRestart,
     ServiceUninstall, ServiceInspects, UninstallStops, ServiceReplaces, ServiceReloads,
     ServiceFails, ServiceEnds, VaultAdd, IndexCommand, ForeignUnit, LockedCommand,
     Command, CleanInv
<1>5. CASE DaemonStep
  <2>1. clean' \subseteq clean /\ pc' = pc
    BY <1>5 DEF DaemonStep, DaemonBootstraps, DaemonMints, DaemonBoots, DaemonBootFails,
       DaemonReloads, DaemonLoadsModel, ModelFails, DaemonCrashes, ManagerRestarts,
       history, setups, Fault
  <2>2. ASSUME NEW p \in clean', ~Idle(p)' PROVE Undisputed(p)'
    <3>1. p \in clean /\ p \in Setups /\ ~Idle(p)
      BY <1>0, <2>1, <2>2 DEF Idle
    <3>2. Undisputed(p)
      BY <3>1 DEF CleanInv
    <3> QED BY <1>5, <2>2, <3>1, <3>2, DaemonClean
  <2> QED BY <2>2 DEF CleanInv
<1> QED BY <1>1, <1>2, <1>3, <1>4, <1>5 DEF Next

\* What installs the task enables it, and what disables it removes it.
LEMMA EnabledSteps ==
    ASSUME SetupInv, EnabledInv, Next
    PROVE  EnabledInv'
<1> SUFFICES ASSUME platform' = "windows"
             PROVE  /\ \A p \in Setups : pc'[p] # "written"
                    /\ op' # None => op'.stage # "reload"
                    /\ unit' \in Definitions => enabled'
  BY DEF EnabledInv
<1>0. /\ pc \in [Setups -> {"idle", "planned", "acting", "minting", "inspected",
                            "written", "reloaded"}]
      /\ None \notin Definitions /\ "foreign" \notin Definitions
  BY SetupAssumption DEF SetupInv, SetupsType
<1>1. ASSUME NEW p \in Setups, SetupStep(p) \/ SetupFault(p) PROVE platform' = platform
  BY <1>1 DEF SetupStep, SetupFault, Plan, Lock, Register, SetSemantic, Bootstrap, Mint,
     BuildIndex, RefusesForeign, Inspect, WriteUnit, ReloadManager, EnableUnit, CreateTask,
     StartService, RestartService, Launch, CheckReadiness, StepFails, ReloadFails, Killed
<1>2. ASSUME NEW p \in Setups, SetupStep(p) \/ SetupFault(p)
      PROVE  /\ \A q \in Setups : pc'[q] # "written"
             /\ op' # None => op'.stage # "reload"
             /\ unit' \in Definitions => enabled'
  <2>1. /\ platform = "windows" /\ \A q \in Setups : pc[q] # "written"
        /\ op # None => op.stage # "reload"
        /\ unit \in Definitions => enabled
    BY <1>1, <1>2 DEF EnabledInv
  <2>5. op' = op
    BY <1>2, WindowsOfSetups
  <2>2. ~WriteUnit(p) /\ ~ReloadFails(p)
    BY <2>1 DEF WriteUnit, ReloadFails
  <2>3. \A q \in Setups : pc'[q] # "written"
    <3>1. \A q \in Setups : q # p => pc'[q] = pc[q]
      BY <1>2, WindowsOfSetups
    <3>2. pc'[p] # "written"
      BY <1>0, <1>2, <2>1, <2>2 DEF SetupStep, SetupFault, Plan, Lock, Register,
         SetSemantic, Bootstrap, Mint, BuildIndex, RefusesForeign, Inspect,
         ReloadManager, EnableUnit, CreateTask, StartService, RestartService, Launch,
         CheckReadiness, StepFails, Killed, Applied, Abort, Finish
    <3> QED BY <2>1, <3>1, <3>2
  <2>4. UNCHANGED <<unit, enabled>> \/ enabled'
    BY <1>2, <2>1, <2>2 DEF SetupStep, SetupFault, Plan, Lock, Register, SetSemantic,
       Bootstrap, Mint, BuildIndex, RefusesForeign, Inspect, ReloadManager, EnableUnit,
       CreateTask, StartService, RestartService, Launch, CheckReadiness, StepFails,
       Killed, service
  <2> QED BY <1>0, <2>1, <2>3, <2>4, <2>5
<1>3. CASE OtherCommand \/ DaemonStep
  <2>1. platform' = platform /\ pc' = pc
    BY <1>3 DEF OtherCommand, ServiceInstall, ServiceStart, ServiceStop, ServiceRestart,
         ServiceUninstall, ServiceInspects, UninstallStops, ServiceReplaces,
         ServiceReloads, ServiceFails, ServiceEnds, VaultAdd, IndexCommand, ForeignUnit,
       DaemonStep, DaemonBootstraps, DaemonMints, DaemonBoots, DaemonBootFails,
         DaemonReloads, DaemonLoadsModel, ModelFails, DaemonCrashes, ManagerRestarts, setups
  <2>2. /\ platform = "windows" /\ \A q \in Setups : pc[q] # "written"
        /\ op # None => op.stage # "reload"
        /\ unit \in Definitions => enabled
    BY <2>1 DEF EnabledInv
  <2>3. op' # None => op'.stage # "reload"
    <3>1. CASE (\E p \in Setups : ServiceInstall(p)) \/ ServiceUninstall
      <4>1. PICK stage, new : ServiceInspects(stage, new) /\ stage # "reload"
        BY <3>1 DEF ServiceInstall, ServiceUninstall
      <4>2. op'.stage = stage
        BY <4>1 DEF ServiceInspects
      <4> QED BY <4>1, <4>2
    <3>2. CASE UninstallStops
      <4>1. op \in Ops /\ op' = [op EXCEPT !.stage = "replace"]
        BY <3>2 DEF UninstallStops, SetupInv, OpInv
      <4> QED BY <4>1 DEF Ops
    <3>3. CASE ~((\E p \in Setups : ServiceInstall(p)) \/ ServiceUninstall \/ UninstallStops)
      <4>1. op' = op \/ op' = None
        BY <1>3, <2>2, <3>3 DEF OtherCommand, ServiceStart, ServiceStop, ServiceRestart,
           ServiceReplaces, ServiceReloads, ServiceFails, ServiceEnds, VaultAdd,
           IndexCommand, ForeignUnit,
         DaemonStep, DaemonBootstraps, DaemonMints, DaemonBoots, DaemonBootFails,
         DaemonReloads, DaemonLoadsModel, ModelFails, DaemonCrashes, ManagerRestarts, aside
      <4> QED BY <2>2, <4>1
    <3> QED BY <3>1, <3>2, <3>3
  <2>4. unit' \in Definitions => enabled'
    <3>1. UNCHANGED <<unit, enabled>> \/ unit' = "foreign" \/ ServiceReplaces \/ UninstallStops
      BY <1>3, <2>2 DEF OtherCommand, ServiceInstall, ServiceUninstall, ServiceInspects,
         ServiceStart, ServiceStop, ServiceRestart, ServiceReloads, ServiceFails,
         VaultAdd, IndexCommand, ForeignUnit, DaemonStep, DaemonBootstraps, DaemonMints,
         DaemonBoots, DaemonBootFails, DaemonReloads, DaemonLoadsModel, ModelFails,
         DaemonCrashes, ManagerRestarts, service
    <3>2. CASE ServiceReplaces
      BY <1>0, <2>2, <3>2 DEF ServiceReplaces
    <3>3. CASE UninstallStops
      BY <2>2, <3>3 DEF UninstallStops
    <3> QED BY <1>0, <2>2, <3>1, <3>2, <3>3
  <2> QED BY <2>1, <2>2, <2>3, <2>4
<1> QED BY <1>2, <1>3 DEF Next

\* Whoever runs setup undisturbed finds things as CleanInv says.
THEOREM CleanInvariant == Spec => [](ServedInv /\ EnabledInv /\ CleanInv)
<1>1. Init => ServedInv /\ EnabledInv /\ CleanInv
  BY SetupAssumption DEF Init, ServedInv, Inspected, Down, CleanInv, EnabledInv
<1>2. SetupInv /\ (ServedInv /\ EnabledInv /\ CleanInv) /\ [Next]_vars
         => (ServedInv /\ EnabledInv /\ CleanInv)'
  <2> SUFFICES ASSUME SetupInv, ServedInv, EnabledInv, CleanInv, [Next]_vars
               PROVE  ServedInv' /\ EnabledInv' /\ CleanInv'
    OBVIOUS
  <2>1. CASE UNCHANGED vars
    BY <2>1 DEF vars, aside, files, service, process, setups, counters, history,
       ServedInv, Inspected, EnabledInv, CleanInv, Idle, Undisputed, Ahead, Coming
  <2>2. CASE Next
    BY <2>2, ServedSteps, EnabledSteps, CleanSteps
  <2> QED BY <2>1, <2>2
<1> QED BY <1>1, <1>2, SetupInvariant, PTL DEF Spec

\* A setup that nothing disturbs after its snapshot and that starts or restarts the
\* service ends with an ok report, whatever failures, kills and commands came before:
\* its plan ends with launch and probe, the service manager can start what is installed by
\* then, a plan that starts the service found none running, and the daemon that comes up
\* reads a configuration nobody changes any more.
THEOREM UndisturbedStartSucceeds == Spec => CleanStartSucceeds
<1> DEFINE A == \A p \in clean' \cap launched' : ~Outcome(p, "failed")
<1>1. SetupInv /\ SetupInv' /\ EnabledInv /\ CleanInv /\ [Next]_vars => [A]_vars
  <2> SUFFICES ASSUME SetupInv, SetupInv', EnabledInv, CleanInv, Next,
                      NEW p \in clean' \cap launched', Outcome(p, "failed")
               PROVE  FALSE
    OBVIOUS
  <2>0. SetupsType /\ p \in Setups
    BY DEF SetupInv, SetupsType
  <2>1. ~Idle(p) /\ pc'[p] = "idle" /\ report'[p] = "failed"
    BY DEF Outcome
  <2>2. pc' # pc
    BY <2>1 DEF Idle
  <2>3. PICK q \in Setups : SetupStep(q)
    <3>1. ~(OtherCommand \/ DaemonStep)
      BY <2>2 DEF OtherCommand, ServiceInstall, ServiceStart, ServiceStop,
         ServiceRestart, ServiceUninstall, ServiceInspects, UninstallStops,
         ServiceReplaces, ServiceReloads, ServiceFails, ServiceEnds, VaultAdd,
         IndexCommand, ForeignUnit, DaemonStep, DaemonBootstraps, DaemonMints,
         DaemonBoots, DaemonBootFails, DaemonReloads, DaemonLoadsModel, ModelFails,
         DaemonCrashes, ManagerRestarts, setups
    <3>2. \A q \in Setups : ~SetupFault(q)
      BY DEF SetupFault, StepFails, ReloadFails, Killed, Fault
    <3> QED BY <3>1, <3>2 DEF Next
  <2>4. ~Plan(q)
    BY <2>0, <2>1 DEF Plan, Idle, SetupsType, Finish
  <2>5. q = p /\ p \in clean
    BY <2>3, <2>4 DEF SetupStep, Lock, Register, SetSemantic, Bootstrap, Mint,
       BuildIndex, RefusesForeign, Inspect, WriteUnit, ReloadManager, EnableUnit,
       CreateTask, StartService, RestartService, Launch, CheckReadiness, Applies
  <2>6. Coming(p)
    <3>1. Undisputed(p) /\ Begun(p)
      BY <2>0, <2>1, <2>5 DEF CleanInv, SetupInv, PlanInv
    <3>2. ASSUME p \notin launched PROVE FALSE
      <4>1. PICK kind \in Launches : Launch(p, kind)
        BY <2>3, <2>4, <2>5, <3>2 DEF SetupStep, Lock, Register, SetSemantic, Bootstrap,
           Mint, BuildIndex, RefusesForeign, Inspect, WriteUnit, ReloadManager, EnableUnit,
           CreateTask, StartService, RestartService, CheckReadiness, Launches
      <4>2. ~Startable
        BY <2>0, <2>1, <4>1 DEF Launch, Applied, SetupsType
      <4>3. LaunchLast(todo[p]) /\ Ahead(p) /\ Head(todo[p]) = kind
        BY <3>1, <3>2, <4>1 DEF Undisputed, Launch, Applies
      <4>4. Elements(todo[p]) = {kind, "ready"}
        BY <2>0, <3>1, <4>3, LaunchThenProbe DEF Begun, SetupsType
      <4>5. unit \in Definitions
        BY <4>3, <4>4 DEF Ahead, Launches
      <4> QED BY <4>2, <4>5, SetupAssumption DEF Startable, EnabledInv
    <3> QED BY <3>1, <3>2 DEF Undisputed
  <2>7. CheckReadiness(p)
    BY <2>3, <2>4, <2>5, <2>6 DEF Coming, SetupStep, Lock, Register, SetSemantic,
       Bootstrap, Mint, BuildIndex, RefusesForeign, Inspect, WriteUnit, ReloadManager,
       EnableUnit, CreateTask, StartService, RestartService, Launch, Applies
  <2>8. ~Ready(p) /\ Settled
    <3>1. ~Finish(p, "ok")
      BY <2>0, <2>1 DEF Finish, SetupsType
    <3> QED BY <2>7, <3>1 DEF CheckReadiness
  <2>9. daemon.phase = "serving" /\ daemon.loader # "loading" /\ ~ReloadPending
    BY <2>6, <2>8 DEF Coming, Settled
  <2>10. Requested(p) \in daemon.vaults
    <3>1. Head(todo[p]) = "ready"
      BY <2>6 DEF Coming
    <3>2. Requested(p) \in config.vaults
      BY <2>0, <2>1, <3>1 DEF SetupInv, PlanInv, Begun
    <3> QED BY <2>6, <2>9, <3>2 DEF Coming
  <2>11. \E r \in daemon.vaults : r[1] = Request[p].id
    BY <2>10 DEF Requested
  <2> QED BY <2>6, <2>8, <2>9, <2>11, SetupAssumption DEF Coming, Ready, ValidStatus
<1> QED BY <1>1, SetupInvariant, CleanInvariant, PTL DEF Spec, CleanStartSucceeds
=============================================================================

------------------------- MODULE PluginClientProofs -------------------------
(***************************************************************************)
(* Proofs about PluginClient, for any number of activations, searches,     *)
(* changes of the mode and faults.                                         *)
(***************************************************************************)
EXTENDS PluginClient, TLAPS

Handles == Backends \cup {0}

Managers == [active : Handles, epoch : Nat, closed : BOOLEAN, last : Handles]
Calls == [pc : {"none", "prior", "initialize", "cleanup", "resolved", "rejected"},
          epoch : Nat, before : Handles, wait : Handles]
Closers == [pc : {"none", "active", "late", "done", "failed"}, active : Handles,
            pending : Handles, wait : Handles]
Lives == {"none", "live", "closing", "lingering", "shut", "broken"}

ManagerType ==
    /\ manager \in Managers
    /\ calls \in [Backends -> Calls]
    /\ closer \in Closers
    /\ life \in [Backends -> Lives]

\* The activations so far are 1..last, and every call has an epoch of its own:
\* the latest activation is the only one that is not superseded.
EpochInv ==
    /\ \A k \in Backends : calls[k].pc # "none" <=> k <= manager.last
    /\ \A k \in Backends : calls[k].pc # "none" => calls[k].epoch = k
    /\ manager.epoch = IF manager.closed THEN manager.last + 1 ELSE manager.last

\* Activations settle in order: each awaits the one before.
OrderInv ==
    \A j, k \in Backends :
        j < k /\ calls[k].pc \notin {"none", "prior"} => Settled(j)

\* A backend exists only once its activation is past the making of it, and the
\* one that is live is the active one, of the latest activation.
ActiveInv ==
    /\ \A b \in Backends : calls[b].pc \in {"none", "prior"} => life[b] = "none"
    /\ \A b \in Backends : life[b] = "live" => manager.active = b
    /\ manager.active # 0 =>
          /\ manager.active = manager.last /\ ~manager.closed
          /\ life[manager.active] = "live"
          /\ calls[manager.active].pc \in {"initialize", "resolved"}
    /\ ~manager.closed /\ manager.last # 0 =>
          (calls[manager.last].pc \in {"initialize", "resolved"}
              => manager.active = manager.last)

\* Someone awaits every backend that is closing: the activation that replaces
\* it, its own activation, or the manager's dispose.
Awaiting(j, b) ==
    /\ calls[j].wait = b
    /\ \/ calls[j].pc = "prior" /\ b < j
       \/ calls[j].pc = "cleanup" /\ j = b

ClosingInv ==
    \A b \in Backends : life[b] = "closing" =>
        \/ \E j \in Backends : Awaiting(j, b)
        \/ closer.pc = "active" /\ closer.wait = b

\* What the manager's dispose has seen.
CloserInv ==
    /\ closer.pc # "none" <=> manager.closed
    /\ manager.closed => closer.pending = manager.last
    /\ closer.pc \in {"late", "done"} => \A b \in Backends : Ended(b)

ManagerInv ==
    /\ ManagerType /\ EpochInv /\ OrderInv /\ ActiveInv /\ ClosingInv /\ CloserInv
    /\ OneBackendAtATime

-----------------------------------------------------------------------------

Sessions == [backend : Handles, generation : Nat, pending : Searches \cup {0},
             entry : Nat, due : BOOLEAN, sent : Nat, disposed : BOOLEAN]

SessionType ==
    /\ session \in Sessions
    /\ outcome \in [Searches -> {"none", "waiting", "results", "error", "stale", "empty"}]
    /\ cause \in [Searches -> {"none", "newer", "emptied", "mode", "closed", "worker"}]
    /\ flight \in Searches \cup {0} /\ lost \in BOOLEAN

\* The query that waits for its debounce was asked last; the request in flight
\* was, and has kept its Worker, exactly when nothing has superseded it.  A daemon
\* backend has no Worker to lose.
ClaimInv ==
    /\ session.pending # 0 =>
          /\ outcome[session.pending] = "waiting" /\ cause[session.pending] = "none"
          /\ session.entry = session.generation /\ ~session.disposed
          /\ session.pending # flight
    /\ flight # 0 =>
          /\ outcome[flight] = "waiting"
          /\ session.sent <= session.generation
          /\ cause[flight] = "none" <=> IsCurrent /\ ~lost
    /\ lost => flight # 0 /\ session.backend \notin Daemons
    /\ \A k \in Searches : outcome[k] = "none" => cause[k] = "none"

\* A window is open on a backend that was made; before it opens nothing was
\* asked.
WindowInv ==
    /\ session.backend # 0 => life[session.backend] # "none"
    /\ session.backend = 0 =>
          /\ \A k \in Searches : outcome[k] = "none"
          /\ flight = 0 /\ session.pending = 0 /\ ~session.disposed

SessionInv == SessionType /\ ClaimInv /\ WindowInv /\ ShownIsCurrent

-----------------------------------------------------------------------------
(* The state before the first call, and what the helpers of the manager     *)
(* change.                                                                  *)

\* Backends are numbers, 0 is none of them, and an activation has one before it.
LEMMA Numbers ==
    /\ Backends \subseteq Nat /\ 0 \notin Backends /\ Handles \subseteq Nat
    /\ \A k \in Backends : k - 1 \in Handles /\ \A j \in Backends : j <= k => j \in 1..k
BY PluginAssumption DEF Backends, Handles

\* One call moves on; the others stay.
LEMMA CallMoves ==
    ASSUME ManagerType, NEW k \in Backends,
           NEW pc \in {"none", "prior", "initialize", "cleanup", "resolved", "rejected"},
           NEW w \in Handles,
           \/ calls' = [calls EXCEPT ![k].pc = pc] /\ w = calls[k].wait
           \/ calls' = [calls EXCEPT ![k].pc = pc, ![k].wait = w]
    PROVE  /\ calls' \in [Backends -> Calls]
           /\ \A j \in Backends : j # k => calls'[j] = calls[j]
           /\ calls'[k].pc = pc /\ calls'[k].epoch = calls[k].epoch
           /\ calls'[k].before = calls[k].before /\ calls'[k].wait = w
BY DEF ManagerType, Calls

\* dispose of a backend changes a live backend only.
LEMMA ClosingChanges ==
    ASSUME ManagerType, NEW b \in Handles, life' = Closing(b)
    PROVE  /\ life' \in [Backends -> Lives]
           /\ \A c \in Backends : c # b => life'[c] = life[c]
           /\ \A c \in Backends : c = b => life'[c] = IF life[c] = "live" THEN "closing"
                                                                        ELSE life[c]
           /\ Waits(b) \in Handles
           /\ b \in Backends /\ life[b] = "live" => Waits(b) = b
           /\ ~(b \in Backends /\ life[b] = "live") => Waits(b) = 0 /\ life' = life
<1>1. 0 \notin Backends
  BY Numbers
<1>2. b \in Backends \/ b = 0
  BY DEF Handles
<1> QED BY <1>1, <1>2 DEF ManagerType, Closing, Waits, Lives, Handles

\* A plugin that has just loaded has no backend and no request.
LEMMA ManagerInvInit == Init => ManagerInv
<1> SUFFICES ASSUME Init PROVE ManagerInv
  OBVIOUS
<1>1. ManagerType
  BY DEF Init, ManagerType, Managers, Calls, Closers, Lives, Handles
<1>2. EpochInv /\ OrderInv
  BY Numbers DEF Init, EpochInv, OrderInv
<1>3. ActiveInv /\ ClosingInv /\ CloserInv /\ OneBackendAtATime
  BY DEF Init, ActiveInv, ClosingInv, CloserInv, OneBackendAtATime
<1> QED BY <1>1, <1>2, <1>3 DEF ManagerInv

\* No live backend but that of the latest activation.
LEMMA LiveIsLast ==
    ASSUME ManagerInv, NEW b \in Handles, Waits(b) # 0
    PROVE  b = manager.last /\ b = manager.active /\ ~manager.closed
BY Numbers DEF ManagerInv, ActiveInv, Waits, Handles

-----------------------------------------------------------------------------
(* The steps of the manager.                                                *)

\* activate starts the disposal of the active backend and withdraws it.
LEMMA ActivateKeeps ==
    ASSUME ManagerInv, NEW k \in Backends, Activate(k)
    PROVE  ManagerInv'
<1> DEFINE a == manager.active
<1>0. /\ ManagerType /\ EpochInv /\ OrderInv /\ ActiveInv /\ ClosingInv /\ CloserInv
      /\ OneBackendAtATime
  BY DEF ManagerInv
<1>1. /\ k = manager.last + 1 /\ ~manager.closed /\ closer' = closer
      /\ a \in Handles /\ manager.last \in Nat /\ manager.epoch \in Nat
  BY <1>0, Numbers DEF Activate, ManagerType, Managers
<1>2. /\ manager' \in Managers
      /\ manager'.active = 0 /\ manager'.epoch = manager.epoch + 1
      /\ manager'.last = k /\ ~manager'.closed
  <2>1. manager' = [manager EXCEPT !.active = 0, !.epoch = manager.epoch + 1, !.last = k]
    BY DEF Activate
  <2>2. k \in Handles /\ 0 \in Handles /\ manager.epoch + 1 \in Nat
    BY <1>1 DEF Handles
  <2> QED BY <1>0, <1>1, <2>1, <2>2 DEF ManagerType, Managers
<1>3. /\ life' \in [Backends -> Lives]
      /\ \A c \in Backends : c # a => life'[c] = life[c]
      /\ \A c \in Backends : c = a => life'[c] = IF life[c] = "live" THEN "closing"
                                                                   ELSE life[c]
      /\ Waits(a) \in Handles
      /\ a \in Backends /\ life[a] = "live" => Waits(a) = a
  BY <1>0, <1>1, ClosingChanges DEF Activate
<1>4. /\ calls' \in [Backends -> Calls]
      /\ \A j \in Backends : j # k => calls'[j] = calls[j]
      /\ calls'[k].pc = "prior" /\ calls'[k].epoch = manager.epoch + 1
      /\ calls'[k].wait = Waits(a)
  BY <1>0, <1>1, <1>3 DEF Activate, ManagerType, Calls
<1>5. ManagerType'
  BY <1>0, <1>1, <1>2, <1>3, <1>4 DEF ManagerType
<1>6. calls[k].pc = "none" /\ k \in Nat /\ life[k] = "none"
  BY <1>0, <1>1, Numbers DEF EpochInv, ActiveInv
<1>7. EpochInv'
  BY <1>0, <1>1, <1>2, <1>4, <1>6, Numbers DEF EpochInv
<1>8. OrderInv'
  <2> SUFFICES ASSUME NEW i \in Backends, NEW j \in Backends, i < j,
                      calls'[j].pc \notin {"none", "prior"}
               PROVE  Settled(i)'
    BY DEF OrderInv
  <2>1. j # k /\ calls[j].pc \notin {"none", "prior"}
    BY <1>4
  <2>2. i # k
    <3>1. j <= manager.last /\ j \in Nat /\ i \in Nat
      BY <1>0, <2>1, Numbers DEF EpochInv
    <3> QED BY <1>1, <3>1
  <2> QED BY <1>0, <1>4, <2>1, <2>2 DEF OrderInv, Settled
<1>9. ActiveInv'
  <2>1. \A b \in Backends : life'[b] # "live"
    BY <1>0, <1>3 DEF ActiveInv
  <2>2. \A b \in Backends : calls'[b].pc \in {"none", "prior"} => life'[b] = "none"
    BY <1>0, <1>3, <1>4, <1>6 DEF ActiveInv
  <2> QED BY <1>2, <1>4, <2>1, <2>2 DEF ActiveInv
<1>10. ClosingInv'
  <2> SUFFICES ASSUME NEW b \in Backends, life'[b] = "closing"
               PROVE  \E j \in Backends : Awaiting(j, b)'
    BY DEF ClosingInv
  <2>1. CASE life[b] = "closing"
    <3>1. PICK j \in Backends : Awaiting(j, b)
      BY <1>0, <1>1, <2>1 DEF ClosingInv, CloserInv
    <3>2. j # k
      BY <1>6, <3>1 DEF Awaiting
    <3> QED BY <1>4, <3>1, <3>2 DEF Awaiting
  <2>2. CASE life[b] # "closing"
    <3>1. b = a /\ life[a] = "live"
      BY <1>3, <2>2
    <3>2. b = manager.last
      BY <1>0, <3>1, Numbers DEF ActiveInv
    <3>3. b < k /\ Waits(a) = b
      BY <1>1, <1>3, <3>1, <3>2, Numbers
    <3> QED BY <1>4, <3>3 DEF Awaiting
  <2> QED BY <2>1, <2>2
<1>11. CloserInv'
  BY <1>0, <1>1, <1>2 DEF CloserInv
<1>12. OneBackendAtATime'
  BY <1>0, <1>3 DEF OneBackendAtATime, Ended
<1> QED BY <1>5, <1>7, <1>8, <1>9, <1>10, <1>11, <1>12 DEF ManagerInv

\* When the activation before has settled, so have all of them.
LEMMA AllBefore ==
    ASSUME ManagerInv, NEW k \in Backends, Settled(k - 1), NEW j \in Backends, j < k
    PROVE  Settled(j)
<1>1. j \in Nat /\ k \in Nat /\ 0 < j
  BY PluginAssumption DEF Backends
<1>2. CASE j = k - 1
  BY <1>2
<1>3. CASE j # k - 1
  <2>1. k - 1 \in Backends /\ j < k - 1 /\ k - 1 # 0
    BY <1>1, <1>3, PluginAssumption DEF Backends
  <2>2. calls[k - 1].pc \notin {"none", "prior"}
    BY <2>1 DEF Settled
  <2> QED BY <2>1, <2>2 DEF ManagerInv, OrderInv
<1> QED BY <1>2, <1>3

\* An activation that gives up has awaited what it started to close.
LEMMA RejectKeeps ==
    ASSUME ManagerInv, NEW k \in Backends, calls[k].pc \in {"prior", "cleanup"},
           calls[k].pc = "prior" => Settled(k - 1),
           Released(calls[k].wait), calls' = Rejected(k),
           UNCHANGED <<manager, closer, life>>
    PROVE  ManagerInv'
<1>0. /\ ManagerType /\ EpochInv /\ OrderInv /\ ActiveInv /\ ClosingInv /\ CloserInv
      /\ OneBackendAtATime
  BY DEF ManagerInv
<1>1. /\ calls' \in [Backends -> Calls]
      /\ \A j \in Backends : j # k => calls'[j] = calls[j]
      /\ calls'[k].pc = "rejected" /\ calls'[k].epoch = calls[k].epoch
  <2>1. calls[k].wait \in Handles /\ calls' = [calls EXCEPT ![k].pc = "rejected"]
    BY <1>0 DEF ManagerType, Calls, Rejected
  <2> QED BY <1>0, <2>1, CallMoves
<1>2. ManagerType'
  BY <1>0, <1>1 DEF ManagerType
<1>3. EpochInv'
  BY <1>0, <1>1 DEF EpochInv
<1>4. OrderInv'
  <2> SUFFICES ASSUME NEW i \in Backends, NEW j \in Backends, i < j,
                      calls'[j].pc \notin {"none", "prior"}
               PROVE  Settled(i)'
    BY DEF OrderInv
  <2>1. Settled(i)
    <3>1. CASE j = k /\ calls[k].pc = "prior"
      BY <3>1, AllBefore
    <3>2. CASE ~(j = k /\ calls[k].pc = "prior")
      <4>1. calls[j].pc \notin {"none", "prior"}
        BY <1>1, <3>2
      <4> QED BY <1>0, <4>1 DEF OrderInv
    <3> QED BY <3>1, <3>2
  <2> QED BY <1>1, <2>1 DEF Settled
<1>5. ActiveInv'
  BY <1>0, <1>1 DEF ActiveInv, ManagerType, Managers, Handles
<1>6. ClosingInv'
  <2> SUFFICES ASSUME NEW b \in Backends, life[b] = "closing",
                      NEW j \in Backends, Awaiting(j, b)
               PROVE  Awaiting(j, b)'
    BY <1>0 DEF ClosingInv
  <2>1. j # k
    BY Numbers DEF Awaiting, Released, Ended
  <2> QED BY <1>1, <2>1 DEF Awaiting
<1>7. CloserInv' /\ OneBackendAtATime'
  BY <1>0 DEF CloserInv, OneBackendAtATime, Ended
<1> QED BY <1>2, <1>3, <1>4, <1>5, <1>6, <1>7 DEF ManagerInv

\* The making of a backend: what it awaited has closed every backend before.
LEMMA MakeKeeps ==
    ASSUME ManagerInv, NEW k \in Backends, calls[k].pc = "prior", Awaited(k),
           ~Superseded(k),
           calls' = [calls EXCEPT ![k].pc = "initialize"],
           life' = [life EXCEPT ![k] = "live"],
           manager' = [manager EXCEPT !.active = k],
           UNCHANGED closer
    PROVE  ManagerInv'
<1>0. /\ ManagerType /\ EpochInv /\ OrderInv /\ ActiveInv /\ ClosingInv /\ CloserInv
      /\ OneBackendAtATime
  BY DEF ManagerInv
<1>1. /\ calls' \in [Backends -> Calls]
      /\ \A j \in Backends : j # k => calls'[j] = calls[j]
      /\ calls'[k].pc = "initialize" /\ calls'[k].epoch = calls[k].epoch
  <2>1. calls[k].wait \in Handles
    BY <1>0 DEF ManagerType, Calls
  <2> QED BY <1>0, <2>1, CallMoves
<1>2. /\ life' \in [Backends -> Lives] /\ life'[k] = "live"
      /\ \A b \in Backends : b # k => life'[b] = life[b]
  BY <1>0 DEF ManagerType, Lives
<1>3. /\ manager' \in Managers /\ manager'.active = k /\ manager'.closed = manager.closed
      /\ manager'.epoch = manager.epoch /\ manager'.last = manager.last
  BY <1>0 DEF ManagerType, Managers, Handles
<1>4. k = manager.last /\ ~manager.closed
  BY <1>0 DEF Superseded, EpochInv
<1>5. \A j \in Backends : j < k => Settled(j)
  BY AllBefore DEF Awaited
<1>6. \A j \in Backends : j <= k \/ calls[j].pc = "none"
  BY <1>0, <1>4 DEF EpochInv
<1>7. ASSUME NEW b \in Backends, b # k PROVE life[b] # "live" /\ life[b] # "closing"
  <2>1. life[b] # "live"
    BY <1>0, <1>4, <1>7, Numbers DEF ActiveInv
  <2>2. ASSUME life[b] = "closing" PROVE FALSE
    <3>1. PICK j \in Backends : Awaiting(j, b)
      BY <1>0, <1>4, <2>2 DEF ClosingInv, CloserInv
    <3>2. j = k
      <4>1. ~Settled(j) /\ calls[j].pc # "none"
        BY <3>1, Numbers DEF Awaiting, Settled
      <4> QED BY <1>5, <1>6, <4>1, Numbers
    <3> QED BY <2>2, <3>1, <3>2, Numbers DEF Awaiting, Awaited, Released, Ended
  <2> QED BY <2>1, <2>2
<1>8. ManagerType'
  BY <1>0, <1>1, <1>2, <1>3 DEF ManagerType
<1>9. EpochInv'
  BY <1>0, <1>1, <1>3 DEF EpochInv
<1>10. OrderInv'
  <2> SUFFICES ASSUME NEW i \in Backends, NEW j \in Backends, i < j,
                      calls'[j].pc \notin {"none", "prior"}
               PROVE  Settled(i)'
    BY DEF OrderInv
  <2>1. Settled(i)
    BY <1>0, <1>1, <1>5 DEF OrderInv
  <2> QED BY <1>1, <2>1 DEF Settled
<1>11. ActiveInv'
  BY <1>0, <1>1, <1>2, <1>3, <1>4, <1>7 DEF ActiveInv
<1>12. ClosingInv'
  BY <1>2, <1>7 DEF ClosingInv
<1>13. CloserInv'
  BY <1>0, <1>3, <1>4 DEF CloserInv
<1>14. OneBackendAtATime'
  <2> SUFFICES ASSUME NEW b \in Backends, NEW c \in Backends, b < c, life'[c] # "none"
               PROVE  Ended(b)'
    BY DEF OneBackendAtATime
  <2>1. b # k
    <3>1. ASSUME b = k PROVE FALSE
      <4>1. c # k /\ ~(c <= k)
        BY <3>1, Numbers
      <4>2. life[c] = "none"
        BY <1>0, <1>6, <4>1 DEF ActiveInv
      <4> QED BY <1>2, <4>1, <4>2
    <3> QED BY <3>1
  <2>2. life'[b] = life[b] /\ life[b] \in Lives
    BY <1>0, <1>2, <2>1 DEF ManagerType
  <2> QED BY <1>7, <2>1, <2>2 DEF Ended, Lives
<1> QED BY <1>8, <1>9, <1>10, <1>11, <1>12, <1>13, <1>14 DEF ManagerInv

\* What the activation awaited is gone: it makes its backend, or gives up because a
\* disposal failed or a later activation came in between.
LEMMA MakeBackendKeeps ==
    ASSUME ManagerInv, NEW k \in Backends, MakeBackend(k)
    PROVE  ManagerInv'
<1> DEFINE previous == IF k > 1 /\ calls[k - 1].pc = "resolved" /\ k - 1 # calls[k].before
                       THEN k - 1 ELSE 0
<1>0. /\ calls[k].pc = "prior" /\ Awaited(k) /\ closer' = closer
      /\ Settled(k - 1) /\ Released(calls[k].wait)
  BY DEF MakeBackend, Awaited
<1>1. CASE calls' = Rejected(k) /\ UNCHANGED <<manager, life>>
  BY <1>0, <1>1, RejectKeeps
<1>2. ASSUME Waits(previous) # 0 PROVE FALSE
  <2>1. previous \in Handles /\ previous < k
    BY Numbers DEF Handles, Backends
  <2>2. previous = manager.last
    BY <1>2, <2>1, LiveIsLast
  <2>3. k <= manager.last
    BY <1>0 DEF ManagerInv, EpochInv
  <2> QED BY <2>1, <2>2, <2>3, Numbers
<1>3. CASE /\ ~Superseded(k)
           /\ calls' = [calls EXCEPT ![k].pc = "initialize"]
           /\ life' = [life EXCEPT ![k] = "live"]
           /\ manager' = [manager EXCEPT !.active = k]
  BY <1>0, <1>3, MakeKeeps
<1> HIDE DEF previous
<1> QED BY <1>0, <1>1, <1>2, <1>3 DEF MakeBackend, previous

\* A backend that failed, or that nobody wants any more, is disposed by its
\* own activation, unless it is closing already.
LEMMA CleanupKeeps ==
    ASSUME ManagerInv, NEW k \in Backends, calls[k].pc = "initialize",
           manager' = Withdrawn(k), life' = Closing(k),
           calls' = [calls EXCEPT ![k].pc = "cleanup", ![k].wait = Waits(k)],
           UNCHANGED closer
    PROVE  ManagerInv'
<1>0. /\ ManagerType /\ EpochInv /\ OrderInv /\ ActiveInv /\ ClosingInv /\ CloserInv
      /\ OneBackendAtATime
  BY DEF ManagerInv
<1>1. /\ life' \in [Backends -> Lives]
      /\ \A c \in Backends : c # k => life'[c] = life[c]
      /\ life'[k] = IF life[k] = "live" THEN "closing" ELSE life[k]
      /\ Waits(k) \in Handles
      /\ life[k] = "live" => Waits(k) = k
  <2>1. k \in Handles
    BY DEF Handles
  <2> QED BY <1>0, <2>1, ClosingChanges
<1>2. /\ calls' \in [Backends -> Calls]
      /\ \A j \in Backends : j # k => calls'[j] = calls[j]
      /\ calls'[k].pc = "cleanup" /\ calls'[k].epoch = calls[k].epoch
      /\ calls'[k].wait = Waits(k)
  BY <1>0, <1>1, CallMoves
<1>3. /\ manager' \in Managers /\ manager'.closed = manager.closed
      /\ manager'.epoch = manager.epoch /\ manager'.last = manager.last
      /\ manager'.active = IF manager.active = k THEN 0 ELSE manager.active
  BY <1>0 DEF ManagerType, Managers, Handles, Withdrawn
<1>4. ManagerType'
  BY <1>0, <1>1, <1>2, <1>3 DEF ManagerType
<1>5. EpochInv'
  BY <1>0, <1>2, <1>3 DEF EpochInv
<1>6. OrderInv'
  <2> SUFFICES ASSUME NEW i \in Backends, NEW j \in Backends, i < j,
                      calls'[j].pc \notin {"none", "prior"}
               PROVE  Settled(i)'
    BY DEF OrderInv
  <2>1. Settled(i)
    BY <1>0, <1>2 DEF OrderInv
  <2> QED BY <1>2, <2>1 DEF Settled
<1>7. ActiveInv'
  <2>1. \A b \in Backends : calls'[b].pc \in {"none", "prior"} => life'[b] = "none"
    BY <1>0, <1>1, <1>2 DEF ActiveInv
  <2>2. \A b \in Backends : life'[b] = "live" => manager'.active = b
    BY <1>0, <1>1, <1>3 DEF ActiveInv
  <2>3. manager'.active # 0 =>
          /\ manager'.active = manager'.last /\ ~manager'.closed
          /\ life'[manager'.active] = "live"
          /\ calls'[manager'.active].pc \in {"initialize", "resolved"}
    BY <1>0, <1>1, <1>2, <1>3, <1>4 DEF ActiveInv, ManagerType, Managers, Handles
  <2>4. ~manager'.closed /\ manager'.last # 0 =>
          (calls'[manager'.last].pc \in {"initialize", "resolved"}
              => manager'.active = manager'.last)
    BY <1>0, <1>2, <1>3 DEF ActiveInv, ManagerType, Managers, Handles
  <2> QED BY <2>1, <2>2, <2>3, <2>4 DEF ActiveInv
<1>8. ClosingInv'
  <2> SUFFICES ASSUME NEW b \in Backends, life'[b] = "closing"
               PROVE  \/ \E j \in Backends : Awaiting(j, b)'
                      \/ (closer.pc = "active" /\ closer.wait = b)'
    BY DEF ClosingInv
  <2>1. CASE life[b] = "closing"
    <3>1. CASE \E j \in Backends : Awaiting(j, b)
      <4>1. PICK j \in Backends : Awaiting(j, b)
        BY <3>1
      <4>2. j # k
        BY <4>1 DEF Awaiting
      <4> QED BY <1>2, <4>1, <4>2 DEF Awaiting
    <3>2. CASE closer.pc = "active" /\ closer.wait = b
      BY <3>2
    <3> QED BY <1>0, <2>1, <3>1, <3>2 DEF ClosingInv
  <2>2. CASE life[b] # "closing"
    <3>1. b = k /\ life[k] = "live"
      BY <1>1, <2>2
    <3> QED BY <1>1, <1>2, <3>1 DEF Awaiting
  <2> QED BY <2>1, <2>2
<1>9. CloserInv'
  BY <1>0, <1>1, <1>3 DEF CloserInv, Ended
<1>10. OneBackendAtATime'
  BY <1>0, <1>1 DEF OneBackendAtATime, Ended
<1> QED BY <1>4, <1>5, <1>6, <1>7, <1>8, <1>9, <1>10 DEF ManagerInv

\* initialize resolves, of the current backend or of one superseded meanwhile.
LEMMA InitializedKeeps ==
    ASSUME ManagerInv, NEW k \in Backends, Initialized(k)
    PROVE  ManagerInv'
<1>0. /\ ManagerType /\ EpochInv /\ OrderInv /\ ActiveInv /\ ClosingInv /\ CloserInv
      /\ OneBackendAtATime
  BY DEF ManagerInv
<1>1. CASE Superseded(k)
  BY <1>1, CleanupKeeps DEF Initialized
<1>2. CASE ~Superseded(k)
  <2>1. /\ calls[k].pc = "initialize" /\ calls' = [calls EXCEPT ![k].pc = "resolved"]
        /\ UNCHANGED <<manager, life, closer>>
    BY <1>2 DEF Initialized
  <2>2. /\ calls' \in [Backends -> Calls]
        /\ \A j \in Backends : j # k => calls'[j] = calls[j]
        /\ calls'[k].pc = "resolved" /\ calls'[k].epoch = calls[k].epoch
    <3>1. calls[k].wait \in Handles
      BY <1>0 DEF ManagerType, Calls
    <3> QED BY <1>0, <2>1, <3>1, CallMoves
  <2>3. ManagerType' /\ EpochInv'
    BY <1>0, <2>1, <2>2 DEF ManagerType, EpochInv
  <2>4. OrderInv'
    BY <1>0, <2>1, <2>2 DEF OrderInv, Settled
  <2>5. ActiveInv'
    BY <1>0, <2>1, <2>2 DEF ActiveInv, ManagerType, Managers, Handles
  <2>6. ClosingInv'
    <3>1. \A j, b \in Backends : Awaiting(j, b) => Awaiting(j, b)'
      BY <2>1, <2>2 DEF Awaiting
    <3> QED BY <1>0, <2>1, <3>1 DEF ClosingInv
  <2>7. CloserInv' /\ OneBackendAtATime'
    BY <1>0, <2>1 DEF CloserInv, OneBackendAtATime, Ended
  <2> QED BY <2>3, <2>4, <2>5, <2>6, <2>7 DEF ManagerInv
<1> QED BY <1>1, <1>2

\* dispose of the manager, whatever activation is under way.
LEMMA DisposeKeeps ==
    ASSUME ManagerInv, Dispose
    PROVE  ManagerInv'
<1> DEFINE a == manager.active
<1>0. /\ ManagerType /\ EpochInv /\ OrderInv /\ ActiveInv /\ ClosingInv /\ CloserInv
      /\ OneBackendAtATime
  BY DEF ManagerInv
<1>1. /\ ~manager.closed /\ calls' = calls /\ a \in Handles
      /\ manager.last \in Handles /\ manager.epoch \in Nat
  BY <1>0 DEF Dispose, ManagerType, Managers
<1>2. /\ manager' \in Managers /\ manager'.active = 0 /\ manager'.closed
      /\ manager'.epoch = manager.epoch + 1 /\ manager'.last = manager.last
  <2>1. manager' = [manager EXCEPT !.closed = TRUE, !.epoch = manager.epoch + 1,
                                   !.active = 0]
    BY DEF Dispose
  <2>2. 0 \in Handles /\ manager.epoch + 1 \in Nat
    BY <1>1 DEF Handles
  <2> QED BY <1>0, <2>1, <2>2 DEF ManagerType, Managers
<1>3. /\ life' \in [Backends -> Lives]
      /\ \A c \in Backends : c # a => life'[c] = life[c]
      /\ \A c \in Backends : c = a => life'[c] = IF life[c] = "live" THEN "closing"
                                                                   ELSE life[c]
      /\ Waits(a) \in Handles
      /\ a \in Backends /\ life[a] = "live" => Waits(a) = a
  BY <1>0, <1>1, ClosingChanges DEF Dispose
<1>4. /\ closer' \in Closers /\ closer'.pc = "active" /\ closer'.wait = Waits(a)
      /\ closer'.pending = manager.last
  BY <1>1, <1>3 DEF Dispose, Closers
<1>5. ManagerType' /\ EpochInv' /\ OrderInv'
  BY <1>0, <1>1, <1>2, <1>3, <1>4 DEF ManagerType, EpochInv, OrderInv, Settled
<1>6. ActiveInv'
  <2>1. \A b \in Backends : life'[b] # "live"
    BY <1>0, <1>3 DEF ActiveInv
  <2> QED BY <1>0, <1>1, <1>2, <1>3, <2>1 DEF ActiveInv
<1>7. ClosingInv'
  <2> SUFFICES ASSUME NEW b \in Backends, life'[b] = "closing",
                      ~(\E j \in Backends : Awaiting(j, b)')
               PROVE  closer'.wait = b
    BY <1>4 DEF ClosingInv
  <2>1. life[b] # "closing"
    BY <1>0, <1>1 DEF ClosingInv, CloserInv, Awaiting
  <2> QED BY <1>3, <1>4, <2>1
<1>8. CloserInv'
  BY <1>2, <1>4 DEF CloserInv
<1>9. OneBackendAtATime'
  BY <1>0, <1>3 DEF OneBackendAtATime, Ended
<1> QED BY <1>5, <1>6, <1>7, <1>8, <1>9 DEF ManagerInv

\* Once the active backend is gone and the pending activation has settled,
\* nothing is running or closing: every call has settled, and there is nobody
\* left who could await a backend that is closing.
LEMMA DisposePendingKeeps ==
    ASSUME ManagerInv, DisposePending
    PROVE  ManagerInv'
<1> DEFINE late == IF closer.pending # 0 /\ calls[closer.pending].pc = "resolved"
                      /\ closer.pending # closer.active THEN closer.pending ELSE 0
<1>0. /\ ManagerType /\ EpochInv /\ OrderInv /\ ActiveInv /\ ClosingInv /\ CloserInv
      /\ OneBackendAtATime
  BY DEF ManagerInv
<1>1. /\ closer.pc = "active" /\ UNCHANGED <<manager, calls>> /\ manager.closed
      /\ closer.pending = manager.last /\ late \in Handles
  BY <1>0 DEF DisposePending, CloserInv, ManagerType, Closers, Handles
<1>2. Waits(late) = 0 /\ Closing(late) = life
  <2>1. Waits(late) = 0
    BY <1>1, LiveIsLast
  <2> QED BY <2>1, Numbers, <1>1 DEF Waits, Closing, Handles
<1>3. life' = life
  BY <1>2 DEF DisposePending, late
<1> HIDE DEF late
<1>4. /\ closer' \in Closers /\ closer'.pc \in {"failed", "late"}
      /\ closer'.pending = closer.pending
  <2>1. CASE closer' = [closer EXCEPT !.pc = "failed"]
    BY <1>0, <2>1 DEF ManagerType, Closers
  <2>2. CASE closer' = [closer EXCEPT !.pc = "late", !.wait = Waits(late)]
    <3>1. closer' = [closer EXCEPT !.pc = "late", !.wait = 0] /\ 0 \in Handles
      BY <1>2, <2>2 DEF Handles
    <3> QED BY <1>0, <3>1 DEF ManagerType, Closers
  <2> QED BY <2>1, <2>2 DEF DisposePending, late
<1>5. Failed(closer.wait) \/ PendingAwaited
  BY DEF DisposePending
<1>6. closer.wait # 0 => Ended(closer.wait)
  BY <1>5 DEF Failed, PendingAwaited, Released, Ended
<1>7. ManagerType' /\ EpochInv' /\ OrderInv' /\ ActiveInv' /\ OneBackendAtATime'
  BY <1>0, <1>1, <1>3, <1>4 DEF ManagerType, EpochInv, OrderInv, ActiveInv, Settled,
     OneBackendAtATime, Ended
<1>8. \A b \in Backends : life[b] = "closing" => \E j \in Backends : Awaiting(j, b)
  BY <1>0, <1>6, Numbers DEF ClosingInv, Ended
<1>9. ClosingInv'
  BY <1>1, <1>3, <1>8 DEF ClosingInv, Awaiting
<1>10. CloserInv'
  <2>1. CASE closer'.pc = "failed"
    BY <1>1, <1>4, <2>1 DEF CloserInv
  <2>2. CASE closer'.pc = "late"
    <3>1. PendingAwaited
      <4>1. CASE Failed(closer.wait)
        <5>1. closer' = [closer EXCEPT !.pc = "failed"]
          BY <4>1 DEF DisposePending
        <5> QED BY <1>0, <2>2, <5>1 DEF ManagerType, Closers
      <4> QED BY <1>5, <4>1
    <3>2. \A j \in Backends : calls[j].pc # "none" => Settled(j)
      <4> SUFFICES ASSUME NEW j \in Backends, calls[j].pc # "none" PROVE Settled(j)
        OBVIOUS
      <4>1. j <= manager.last /\ manager.last # 0 /\ manager.last \in Backends
        BY <1>0, Numbers DEF EpochInv, ManagerType, Managers, Handles, Backends
      <4>2. Settled(manager.last)
        BY <1>1, <3>1 DEF PendingAwaited
      <4>3. calls[manager.last].pc \notin {"none", "prior"}
        BY <4>1, <4>2 DEF Settled
      <4>4. CASE j = manager.last
        BY <4>2, <4>4
      <4>5. CASE j < manager.last
        BY <1>0, <4>1, <4>3, <4>5 DEF OrderInv
      <4> QED BY <4>1, <4>4, <4>5, Numbers
    <3>3. \A b \in Backends : life[b] # "closing"
      BY <1>8, <3>2, Numbers DEF Awaiting, Settled
    <3>4. \A b \in Backends : life[b] # "live"
      BY <1>0, <1>1, Numbers DEF ActiveInv
    <3>5. \A b \in Backends : Ended(b)
      BY <1>0, <3>3, <3>4 DEF ManagerType, Lives, Ended
    <3> QED BY <1>1, <1>3, <1>4, <2>2, <3>5 DEF CloserInv, Ended
  <2> QED BY <1>4, <2>1, <2>2
<1> QED BY <1>7, <1>9, <1>10 DEF ManagerInv

\* The last disposal that dispose awaited has returned or failed.
LEMMA DisposedKeeps ==
    ASSUME ManagerInv, Disposed
    PROVE  ManagerInv'
<1>0. /\ ManagerType /\ EpochInv /\ OrderInv /\ ActiveInv /\ ClosingInv /\ CloserInv
      /\ OneBackendAtATime
  BY DEF ManagerInv
<1>1. /\ closer.pc = "late" /\ UNCHANGED <<manager, calls, life>>
      /\ closer' \in Closers /\ closer'.pc \in {"failed", "done"}
      /\ closer'.pending = closer.pending
  BY <1>0 DEF Disposed, ManagerType, Closers
<1>2. ManagerType' /\ EpochInv' /\ OrderInv' /\ ActiveInv' /\ OneBackendAtATime'
  BY <1>0, <1>1 DEF ManagerType, EpochInv, OrderInv, ActiveInv, Settled,
     OneBackendAtATime, Ended
<1>3. ClosingInv' /\ CloserInv'
  BY <1>0, <1>1 DEF ClosingInv, CloserInv, Ended
<1> QED BY <1>2, <1>3 DEF ManagerInv

\* A backend that has shut down is awaited no more.
LEMMA ShutKeeps ==
    ASSUME ManagerInv, NEW b \in Backends, Shut(b)
    PROVE  ManagerInv'
<1>0. /\ ManagerType /\ EpochInv /\ OrderInv /\ ActiveInv /\ ClosingInv /\ CloserInv
      /\ OneBackendAtATime
  BY DEF ManagerInv
<1>1. /\ life[b] = "closing" /\ UNCHANGED <<manager, calls, closer>>
      /\ life' \in [Backends -> Lives] /\ life'[b] \in {"lingering", "shut", "broken"}
      /\ \A c \in Backends : c # b => life'[c] = life[c]
  BY <1>0 DEF Shut, ManagerType, Lives
<1>2. ManagerType' /\ EpochInv' /\ OrderInv'
  BY <1>0, <1>1 DEF ManagerType, EpochInv, OrderInv, Settled
<1>3. ActiveInv'
  <2>1. manager.active # b
    BY <1>0, <1>1, Numbers DEF ActiveInv
  <2> QED BY <1>0, <1>1, <2>1 DEF ActiveInv, ManagerType, Managers, Handles
<1>4. ClosingInv'
  <2>1. \A j, c \in Backends : Awaiting(j, c) => Awaiting(j, c)'
    BY <1>1 DEF Awaiting
  <2> QED BY <1>0, <1>1, <2>1 DEF ClosingInv
<1>5. CloserInv' /\ OneBackendAtATime'
  BY <1>0, <1>1 DEF CloserInv, OneBackendAtATime, Ended
<1> QED BY <1>2, <1>3, <1>4, <1>5 DEF ManagerInv

\* The store of a backend whose dispose has returned closes.
LEMMA StoreClosesKeeps ==
    ASSUME ManagerInv, NEW b \in Backends, StoreCloses(b)
    PROVE  ManagerInv'
<1>0. /\ ManagerType /\ EpochInv /\ OrderInv /\ ActiveInv /\ ClosingInv /\ CloserInv
      /\ OneBackendAtATime
  BY DEF ManagerInv
<1>1. /\ life[b] = "lingering" /\ UNCHANGED <<manager, calls, closer>>
      /\ life' \in [Backends -> Lives] /\ life'[b] = "shut"
      /\ \A c \in Backends : c # b => life'[c] = life[c]
  BY <1>0 DEF StoreCloses, ManagerType, Lives
<1>2. ManagerType' /\ EpochInv' /\ OrderInv'
  BY <1>0, <1>1 DEF ManagerType, EpochInv, OrderInv, Settled
<1>3. ActiveInv'
  <2>1. manager.active # b
    BY <1>0, <1>1, Numbers DEF ActiveInv
  <2> QED BY <1>0, <1>1, <2>1 DEF ActiveInv, ManagerType, Managers, Handles
<1>4. ClosingInv'
  <2>1. \A j, c \in Backends : Awaiting(j, c) => Awaiting(j, c)'
    BY <1>1 DEF Awaiting
  <2> QED BY <1>0, <1>1, <2>1 DEF ClosingInv
<1>5. CloserInv' /\ OneBackendAtATime'
  BY <1>0, <1>1 DEF CloserInv, OneBackendAtATime, Ended
<1> QED BY <1>2, <1>3, <1>4, <1>5 DEF ManagerInv

\* The invariant of the manager holds through every interleaving of
\* activations, their continuations, the manager's dispose and the backends'
\* own shutdowns; the session does not touch it.
THEOREM ManagerInvariant == Spec => []ManagerInv
<1>1. ManagerInv /\ [Next]_vars => ManagerInv'
  <2> SUFFICES ASSUME ManagerInv, [Next]_vars PROVE ManagerInv'
    OBVIOUS
  <2>1. CASE UNCHANGED managerVars
    BY <2>1 DEF managerVars, ManagerInv, ManagerType, EpochInv, OrderInv, ActiveInv,
       ClosingInv, Awaiting, CloserInv, OneBackendAtATime, Ended, Settled
  <2>2. CASE \/ Open \/ (\E k \in Searches : Search(k) \/ SearchNothing(k) \/ SearchClosed(k))
             \/ SetMode \/ CloseWindow \/ Due \/ Answers \/ SearchFails \/ Hangs
    BY <2>1, <2>2 DEF Open, Search, SearchNothing, SearchClosed, SetMode, CloseWindow,
       Due, Answers, SearchFails, Hangs
  <2>3. ASSUME NEW k \in Backends,
               Activate(k) \/ Continue(k) \/ InitializeFails(k) \/ Shut(k)
               \/ StoreCloses(k) \/ WorkerFails(k)
        PROVE  ManagerInv'
    <3>1. CASE Activate(k)
      BY <3>1, ActivateKeeps
    <3>2. CASE MakeBackend(k)
      BY <3>2, MakeBackendKeeps
    <3>3. CASE Initialized(k)
      BY <3>3, InitializedKeeps
    <3>4. CASE CleanedUp(k)
      BY <3>4, RejectKeeps DEF CleanedUp
    <3>5. CASE InitializeFails(k)
      BY <3>5, CleanupKeeps DEF InitializeFails
    <3>6. CASE Shut(k)
      BY <3>6, ShutKeeps
    <3>7. CASE StoreCloses(k)
      BY <3>7, StoreClosesKeeps
    <3>8. CASE WorkerFails(k)
      BY <2>1, <3>8 DEF WorkerFails
    <3> QED BY <2>3, <3>1, <3>2, <3>3, <3>4, <3>5, <3>6, <3>7, <3>8 DEF Continue
  <2>4. CASE Dispose \/ DisposePending \/ Disposed
    BY <2>4, DisposeKeeps, DisposePendingKeeps, DisposedKeeps
  <2>5. CASE UNCHANGED vars
    BY <2>1, <2>5 DEF vars
  <2> QED BY <2>2, <2>3, <2>4, <2>5 DEF Next
<1> QED BY <1>1, ManagerInvInit, PTL DEF Spec

\* Two backends never overlap, however many activations are started while one
\* is still initializing or closing: activate awaits the activation before it
\* and the disposal it started.
THEOREM BackendsNeverOverlap == Spec => []OneBackendAtATime
<1>1. ManagerInv => OneBackendAtATime
  BY DEF ManagerInv
<1> QED BY <1>1, ManagerInvariant, PTL

\* At rest the last activation has won, and after the manager's dispose no
\* backend is left.
THEOREM LastActivationWins == Spec => []AtRest
<1>1. ManagerInv => AtRest
  <2> SUFFICES ASSUME ManagerInv PROVE AtRest
    OBVIOUS
  <2>0. ManagerType /\ EpochInv /\ ActiveInv /\ CloserInv
    BY DEF ManagerInv
  <2>1. ASSUME \A k \in Made : Settled(k), ~manager.closed, manager.last # 0
        PROVE  /\ manager.active = IF calls[manager.last].pc = "resolved"
                                   THEN manager.last ELSE 0
               /\ \A b \in Backends : life[b] = "live" => b = manager.active
    <3>1. manager.last \in Backends
      BY <2>0, <2>1 DEF ManagerType, Managers, Handles
    <3>2. calls[manager.last].pc \in {"resolved", "rejected"}
      <4>1. calls[manager.last].pc # "none"
        <5>0. manager.last \in Nat
          BY <3>1, Numbers
        <5>1. manager.last <= manager.last
          BY <5>0
        <5> QED BY <2>0, <3>1, <5>1 DEF EpochInv
      <4> QED BY <2>1, <3>1, <4>1 DEF Made, Settled
    <3> QED BY <2>0, <2>1, <3>1, <3>2 DEF ActiveInv
  <2> QED BY <2>0, <2>1 DEF AtRest, CloserInv
<1> QED BY <1>1, ManagerInvariant, PTL

-----------------------------------------------------------------------------
(* The search session.                                                      *)

\* No query, no request and no answer at the start.
LEMMA SessionInvInit == Init => SessionInv
<1> SUFFICES ASSUME Init PROVE SessionInv
  OBVIOUS
<1>1. SessionType
  BY DEF Init, SessionType, Sessions, Handles
<1>2. ClaimInv /\ WindowInv /\ ShownIsCurrent
  BY DEF Init, ClaimInv, WindowInv, ShownIsCurrent
<1> QED BY <1>1, <1>2 DEF SessionInv

\* No backend is made twice: one that was made stays made, and one that was
\* replaced stays replaced.
LEMMA NeverRevived ==
    ASSUME ManagerInv, Next, NEW b \in Backends, life[b] # "none"
    PROVE  /\ life'[b] # "none"
           /\ life[b] # "live" => life'[b] # "live"
<1>0. ManagerType /\ ActiveInv
  BY DEF ManagerInv
<1>1. CASE life' = life
  BY <1>1
<1>2. ASSUME NEW a \in Handles, life' = Closing(a)
      PROVE  life'[b] # "none" /\ (life[b] # "live" => life'[b] # "live")
  BY <1>0, <1>2, ClosingChanges
<1>3. ASSUME NEW k \in Backends, MakeBackend(k)
      PROVE  life'[b] # "none" /\ (life[b] # "live" => life'[b] # "live")
  <2>1. CASE life' = [life EXCEPT ![k] = "live"]
    <3>1. calls[k].pc = "prior"
      BY <1>3 DEF MakeBackend
    <3>2. b # k
      BY <1>0, <3>1 DEF ActiveInv
    <3> QED BY <1>0, <2>1, <3>2 DEF ManagerType
  <2>2. CASE \E a \in Handles : life' = Closing(a)
    BY <1>2, <2>2
  <2>3. (IF k > 1 /\ calls[k - 1].pc = "resolved" /\ k - 1 # calls[k].before
         THEN k - 1 ELSE 0) \in Handles
    BY Numbers DEF Handles
  <2> QED BY <1>1, <1>3, <2>1, <2>2, <2>3 DEF MakeBackend
<1>4. ASSUME NEW k \in Backends,
             Activate(k) \/ Initialized(k) \/ CleanedUp(k) \/ InitializeFails(k)
      PROVE  life'[b] # "none" /\ (life[b] # "live" => life'[b] # "live")
  <2>1. k \in Handles /\ manager.active \in Handles
    BY <1>0 DEF Handles, ManagerType, Managers
  <2>2. life' = life \/ life' = Closing(k) \/ life' = Closing(manager.active)
    BY <1>4 DEF Activate, Initialized, CleanedUp, InitializeFails
  <2> QED BY <1>1, <1>2, <2>1, <2>2
<1>5. ASSUME NEW k \in Backends, Shut(k) \/ StoreCloses(k) \/ WorkerFails(k)
      PROVE  life'[b] # "none" /\ (life[b] # "live" => life'[b] # "live")
  BY <1>0, <1>5 DEF Shut, StoreCloses, WorkerFails, managerVars, ManagerType
<1>6. CASE Dispose
  BY <1>0, <1>2, <1>6 DEF Dispose, ManagerType, Managers
<1>7. CASE DisposePending
  <2>1. (IF closer.pending # 0 /\ calls[closer.pending].pc = "resolved"
            /\ closer.pending # closer.active THEN closer.pending ELSE 0) \in Handles
    BY <1>0 DEF ManagerType, Closers, Handles
  <2> QED BY <1>1, <1>2, <1>7, <2>1 DEF DisposePending
<1>8. CASE \/ Disposed \/ Open
           \/ (\E k \in Searches : Search(k) \/ SearchNothing(k) \/ SearchClosed(k))
           \/ SetMode \/ CloseWindow \/ Due \/ Answers \/ SearchFails \/ Hangs
  BY <1>1, <1>8 DEF Disposed, Open, Search, SearchNothing, SearchClosed, SetMode,
     CloseWindow, Due, Answers, SearchFails, Hangs, managerVars
<1> QED BY <1>3, <1>4, <1>5, <1>6, <1>7, <1>8 DEF Next, Continue

\* A step of the manager.
LEMMA ManagerSteps ==
    ASSUME ManagerInv, SessionInv, Next, UNCHANGED sessionVars
    PROVE  SessionInv'
<1>0. SessionType /\ ClaimInv /\ WindowInv /\ ShownIsCurrent
  BY DEF SessionInv
<1>1. SessionType' /\ ClaimInv'
  BY <1>0 DEF sessionVars, request, SessionType, ClaimInv, IsCurrent
<1>2. session.backend \in Handles
  BY <1>0 DEF SessionType, Sessions
<1>3. session.backend # 0 =>
        /\ life'[session.backend] # "none"
        /\ life[session.backend] # "live" => life'[session.backend] # "live"
  BY <1>0, <1>2, NeverRevived DEF WindowInv, Handles
<1>4. WindowInv'
  BY <1>0, <1>3 DEF WindowInv, sessionVars, request
<1>5. ShownIsCurrent'
  BY <1>0, <1>3 DEF ShownIsCurrent, WindowInv, sessionVars, request
<1> QED BY <1>1, <1>4, <1>5 DEF SessionInv

\* A search window opens on the active backend, which is live.
LEMMA OpenKeeps ==
    ASSUME ManagerInv, SessionInv, Open
    PROVE  SessionInv'
<1>0. SessionType /\ ClaimInv /\ WindowInv /\ ShownIsCurrent
  BY DEF SessionInv
<1>1. /\ session.backend = 0 /\ manager.active \in Backends
      /\ life[manager.active] = "live" /\ life' = life
      /\ session' = [session EXCEPT !.backend = manager.active]
      /\ UNCHANGED <<outcome, flight, lost, cause>>
  <2>1. manager.active # 0 /\ manager.active \in Handles
    BY DEF Open, ManagerInv, ManagerType, Managers
  <2>2. life[manager.active] = "live"
    BY <2>1 DEF ManagerInv, ActiveInv
  <2> QED BY <2>1, <2>2 DEF Open, managerVars, request, Handles
<1>2. /\ session' \in Sessions /\ session'.backend = manager.active
      /\ session'.pending = session.pending
  BY <1>0, <1>1 DEF SessionType, Sessions, Handles
<1>3. SessionType'
  BY <1>0, <1>1, <1>2 DEF SessionType
<1>4. (\A k \in Searches : outcome'[k] = "none") /\ flight' = 0 /\ session'.pending = 0
  BY <1>0, <1>1, <1>2 DEF WindowInv
<1>5. ClaimInv' /\ WindowInv' /\ ShownIsCurrent'
  BY <1>0, <1>1, <1>2, <1>4 DEF ClaimInv, WindowInv, ShownIsCurrent
<1> QED BY <1>3, <1>5 DEF SessionInv

\* Whatever the user does next supersedes the pending query and the request in
\* flight: the pending one is stale at once, and the generation of the one in
\* flight is no longer the session's.
LEMMA SupersedeKeeps ==
    ASSUME SessionInv, session.backend # 0, life' = life, flight' = flight, lost' = lost,
           NEW why \in {"newer", "emptied", "mode", "closed"}, cause' = Superseding(why),
           NEW k \in Searches \cup {0}, NEW o \in {"waiting", "empty"},
           k # 0 => outcome[k] = "none",
           outcome' = IF k = 0 THEN Stale ELSE [Stale EXCEPT ![k] = o],
           session' \in Sessions, session'.backend = session.backend,
           session'.generation = session.generation + 1, session'.sent = session.sent,
           \/ session'.pending = 0
           \/ /\ session'.pending = k /\ k # 0 /\ o = "waiting"
              /\ session'.entry = session'.generation /\ ~session'.disposed
    PROVE  SessionInv'
<1>0. SessionType /\ ClaimInv /\ WindowInv /\ ShownIsCurrent
  BY DEF SessionInv
<1>1. 0 \notin Searches
  BY PluginAssumption DEF Searches
<1>2. /\ outcome' \in [Searches -> {"none", "waiting", "results", "error", "stale", "empty"}]
      /\ \A j \in Searches :
            outcome'[j] = IF j = k THEN o
                          ELSE IF j = session.pending THEN "stale" ELSE outcome[j]
  BY <1>0, <1>1 DEF SessionType, Sessions, Stale, Resolve
<1>3. /\ cause' \in [Searches -> {"none", "newer", "emptied", "mode", "closed", "worker"}]
      /\ \A j \in Searches :
            cause'[j] = IF outcome[j] = "waiting" /\ cause[j] = "none" THEN why
                                                                       ELSE cause[j]
  BY <1>0 DEF SessionType, Superseding
<1>4. SessionType'
  BY <1>0, <1>2, <1>3 DEF SessionType
<1>5. session.pending \in Searches \cup {0} /\ flight \in Searches \cup {0}
      /\ session.generation \in Nat /\ session.sent \in Nat
  BY <1>0 DEF SessionType, Sessions
<1>6. ClaimInv'
  <2>1. ASSUME session'.pending # 0
        PROVE  /\ outcome'[session'.pending] = "waiting"
               /\ cause'[session'.pending] = "none"
               /\ session'.entry = session'.generation /\ ~session'.disposed
               /\ session'.pending # flight'
    <3>1. session'.pending = k /\ k \in Searches /\ outcome[k] = "none"
      BY <2>1
    <3> QED BY <1>0, <1>2, <1>3, <2>1, <3>1 DEF ClaimInv
  <2>2. ASSUME flight # 0
        PROVE  /\ outcome'[flight] = "waiting"
               /\ session'.sent <= session'.generation
               /\ cause'[flight] # "none" /\ ~IsCurrent'
    <3>1. flight \in Searches /\ flight # k /\ flight # session.pending
          /\ outcome[flight] = "waiting" /\ session.sent <= session.generation
      BY <1>0, <1>5, <2>2 DEF ClaimInv
    <3>2. outcome'[flight] = "waiting" /\ cause'[flight] # "none"
      BY <1>2, <1>3, <3>1
    <3>3. session'.sent < session'.generation
      BY <1>5, <3>1
    <3>4. ~IsCurrent'
      BY <1>5, <3>3 DEF IsCurrent
    <3> QED BY <1>5, <3>2, <3>3, <3>4
  <2>3. \A j \in Searches : outcome'[j] = "none" => cause'[j] = "none"
    BY <1>0, <1>2, <1>3 DEF ClaimInv
  <2>4. lost' => flight' # 0 /\ session'.backend \notin Daemons
    BY <1>0 DEF ClaimInv
  <2> QED BY <2>1, <2>2, <2>3, <2>4 DEF ClaimInv
<1>7. WindowInv'
  BY <1>0 DEF WindowInv
<1>8. ShownIsCurrent'
  <2> SUFFICES ASSUME NEW j \in Searches
               PROVE  /\ outcome'[j] \in {"results", "error"} => cause'[j] = "none"
                      /\ outcome'[j] = "stale" =>
                            cause'[j] # "none" \/ life'[session'.backend] # "live"
    BY DEF ShownIsCurrent
  <2>1. CASE j = k
    BY <1>2, <2>1
  <2>2. CASE j # k /\ j = session.pending
    BY <1>0, <1>1, <1>2, <1>3, <2>2 DEF ClaimInv
  <2>3. CASE j # k /\ j # session.pending
    BY <1>0, <1>2, <1>3, <2>3 DEF ShownIsCurrent
  <2> QED BY <2>1, <2>2, <2>3
<1> QED BY <1>4, <1>6, <1>7, <1>8 DEF SessionInv

\* What the user does.
LEMMA UserSteps ==
    ASSUME SessionInv,
           \/ \E k \in Searches : Search(k) \/ SearchNothing(k)
           \/ SetMode \/ CloseWindow
    PROVE  SessionInv'
<1>0. SessionType /\ session \in Sessions /\ session.generation + 1 \in Nat
  BY DEF SessionInv, SessionType, Sessions
<1>1. ASSUME NEW k \in Searches, Search(k) PROVE SessionInv'
  <2>1. session' = [session EXCEPT !.generation = session.generation + 1, !.pending = k,
                                   !.due = FALSE, !.entry = session.generation + 1]
    BY <1>1 DEF Search
  <2>2. /\ session' \in Sessions /\ session'.backend = session.backend
        /\ session'.generation = session.generation + 1 /\ session'.sent = session.sent
        /\ session'.pending = k /\ session'.entry = session.generation + 1
        /\ session'.disposed = session.disposed
    BY <1>0, <2>1 DEF Sessions
  <2>3. k # 0 /\ k \in Searches \cup {0}
    BY PluginAssumption DEF Searches
  <2> HIDE DEF Sessions
  <2> QED BY <1>1, <2>2, <2>3, SupersedeKeeps DEF Search, managerVars, request
<1>2. ASSUME NEW s, s \in Sessions
      PROVE  /\ Dropped(s) \in Sessions /\ Dropped(s).pending = 0
             /\ Dropped(s).backend = s.backend /\ Dropped(s).generation = s.generation
             /\ Dropped(s).sent = s.sent /\ Dropped(s).disposed = s.disposed
  BY <1>2 DEF Dropped, Sessions
<1>3. ASSUME NEW s,
             \/ s = [session EXCEPT !.generation = session.generation + 1]
             \/ s = [session EXCEPT !.generation = session.generation + 1,
                                    !.disposed = TRUE]
      PROVE  /\ s \in Sessions /\ s.backend = session.backend
             /\ s.generation = session.generation + 1 /\ s.sent = session.sent
  BY <1>0, <1>3 DEF Sessions
<1>4. ASSUME NEW k \in Searches, SearchNothing(k) PROVE SessionInv'
  <2>1. session' = Dropped([session EXCEPT !.generation = session.generation + 1])
    BY <1>4 DEF SearchNothing
  <2>2. /\ session' \in Sessions /\ session'.backend = session.backend
        /\ session'.generation = session.generation + 1 /\ session'.sent = session.sent
        /\ session'.pending = 0
    BY <1>2, <1>3, <2>1
  <2>3. k # 0 /\ k \in Searches \cup {0}
    BY PluginAssumption DEF Searches
  <2> QED BY <1>4, <2>2, <2>3, SupersedeKeeps DEF SearchNothing, managerVars, request
<1>5. CASE SetMode \/ CloseWindow
  <2>1. \/ session' = Dropped([session EXCEPT !.generation = session.generation + 1])
        \/ session' = Dropped([session EXCEPT !.generation = session.generation + 1,
                                              !.disposed = TRUE])
    BY <1>5 DEF SetMode, CloseWindow
  <2>2. /\ session' \in Sessions /\ session'.backend = session.backend
        /\ session'.generation = session.generation + 1 /\ session'.sent = session.sent
        /\ session'.pending = 0
    BY <1>2, <1>3, <2>1
  <2>3. PICK why \in {"mode", "closed"} :
          /\ cause' = Superseding(why) /\ outcome' = Stale
          /\ session.backend # 0 /\ life' = life /\ flight' = flight /\ lost' = lost
    BY <1>5 DEF SetMode, CloseWindow, managerVars, request
  <2> QED BY <2>2, <2>3, SupersedeKeeps
<1> QED BY <1>1, <1>4, <1>5

\* A search of a closed window.
LEMMA SearchClosedKeeps ==
    ASSUME SessionInv, NEW k \in Searches, SearchClosed(k)
    PROVE  SessionInv'
<1>0. SessionType /\ ClaimInv /\ WindowInv /\ ShownIsCurrent
  BY DEF SessionInv
<1>1. /\ session.disposed /\ outcome[k] = "none" /\ UNCHANGED <<life, flight, lost, cause>>
      /\ session.generation \in Nat /\ session.sent \in Nat
  BY <1>0 DEF SearchClosed, managerVars, request, SessionType, Sessions
<1>2. /\ session' \in Sessions /\ session'.generation = session.generation + 1
      /\ session'.backend = session.backend /\ session'.pending = session.pending
      /\ session'.sent = session.sent /\ session'.disposed
  <2>1. session' = [session EXCEPT !.generation = session.generation + 1]
    BY DEF SearchClosed
  <2>2. session.generation + 1 \in Nat
    BY <1>1
  <2> QED BY <1>0, <1>1, <2>1, <2>2 DEF SessionType, Sessions
<1>3. /\ outcome' \in [Searches -> {"none", "waiting", "results", "error", "stale", "empty"}]
      /\ outcome'[k] = "error" /\ \A j \in Searches : j # k => outcome'[j] = outcome[j]
  BY <1>0 DEF SearchClosed, Resolve, SessionType
<1>4. SessionType'
  BY <1>0, <1>1, <1>2, <1>3 DEF SessionType
<1>5. session'.pending = 0
  BY <1>0, <1>1, <1>2 DEF ClaimInv
<1>6. flight # 0 => /\ outcome'[flight] = "waiting"
                    /\ session'.sent <= session'.generation
                    /\ cause'[flight] # "none" /\ ~IsCurrent'
  <2> SUFFICES ASSUME flight # 0
               PROVE  /\ outcome'[flight] = "waiting"
                      /\ session'.sent <= session'.generation
                      /\ cause'[flight] # "none" /\ ~IsCurrent'
    OBVIOUS
  <2>1. flight \in Searches /\ outcome[flight] = "waiting" /\ ~IsCurrent
        /\ session.sent <= session.generation /\ cause[flight] # "none"
    BY <1>0, <1>1 DEF ClaimInv, SessionType, IsCurrent
  <2> QED BY <1>1, <1>2, <1>3, <2>1 DEF IsCurrent
<1>7. ClaimInv'
  BY <1>0, <1>1, <1>2, <1>3, <1>5, <1>6 DEF ClaimInv
<1>8. WindowInv' /\ ShownIsCurrent'
  BY <1>0, <1>1, <1>2, <1>3 DEF WindowInv, ShownIsCurrent, ClaimInv
<1> QED BY <1>4, <1>7, <1>8 DEF SessionInv

\* tryDispatch sends the pending query, or leaves the session alone.
LEMMA DispatchedIs ==
    ASSUME NEW s, s \in Sessions, NEW busy, Dispatch(s, busy)
    PROVE  /\ session' \in Sessions /\ session'.backend = s.backend
           /\ session'.generation = s.generation /\ session'.disposed = s.disposed
           /\ \/ /\ busy = 0 /\ s.pending # 0 /\ flight' = s.pending
                 /\ session'.pending = 0 /\ session'.sent = s.entry
              \/ session' = s /\ flight' = busy
<1>1. CASE busy = 0 /\ s.pending # 0 /\ s.due
  <2>1. session' = Dropped([s EXCEPT !.sent = s.entry]) /\ flight' = s.pending
    BY <1>1 DEF Dispatch, Dispatched
  <2> QED BY <1>1, <2>1 DEF Dropped, Sessions
<1>2. CASE ~(busy = 0 /\ s.pending # 0 /\ s.due)
  <2>1. session' = s /\ flight' = busy
    BY <1>2 DEF Dispatch, Dispatched
  <2> QED BY <2>1
<1> QED BY <1>1, <1>2

\* The debounce of the pending query elapses: it is sent, unless a request is in flight.
LEMMA DueKeeps ==
    ASSUME SessionInv, Due
    PROVE  SessionInv'
<1>0. SessionType /\ ClaimInv /\ WindowInv /\ ShownIsCurrent
  BY DEF SessionInv
<1> DEFINE s == [session EXCEPT !.due = TRUE]
<1>1. /\ s \in Sessions /\ s.backend = session.backend /\ s.pending = session.pending
      /\ s.generation = session.generation /\ s.disposed = session.disposed
      /\ s.entry = session.entry /\ s.sent = session.sent
  BY <1>0 DEF SessionType, Sessions
<1>2. UNCHANGED <<life, outcome, lost, cause>> /\ session.pending # 0 /\ Dispatch(s, flight)
  BY DEF Due, managerVars
<1> HIDE DEF s
<1>3. /\ session' \in Sessions /\ session'.backend = session.backend
      /\ session'.generation = session.generation /\ session'.disposed = session.disposed
      /\ \/ /\ flight = 0 /\ flight' = session.pending
            /\ session'.pending = 0 /\ session'.sent = session.entry
         \/ /\ flight' = flight /\ session'.pending = session.pending
            /\ session'.sent = session.sent /\ session'.entry = session.entry
  BY <1>1, <1>2, DispatchedIs
<1>4. SessionType'
  BY <1>0, <1>2, <1>3 DEF SessionType, Sessions
<1>5. ClaimInv'
  <2>1. CASE /\ flight = 0 /\ flight' = session.pending
             /\ session'.pending = 0 /\ session'.sent = session.entry
    <3>1. session.generation \in Nat
      BY <1>0 DEF SessionType, Sessions
    <3>2. session'.sent <= session'.generation /\ IsCurrent'
      BY <1>0, <1>2, <1>3, <2>1, <3>1 DEF ClaimInv, IsCurrent
    <3> QED BY <1>0, <1>2, <2>1, <3>2 DEF ClaimInv
  <2>2. CASE /\ flight' = flight /\ session'.pending = session.pending
             /\ session'.sent = session.sent /\ session'.entry = session.entry
    BY <1>0, <1>2, <1>3, <2>2 DEF ClaimInv, IsCurrent
  <2> QED BY <1>3, <2>1, <2>2
<1>6. WindowInv' /\ ShownIsCurrent'
  BY <1>0, <1>2, <1>3 DEF WindowInv, ShownIsCurrent
<1> QED BY <1>4, <1>5, <1>6 DEF SessionInv

\* The request in flight settles: it is shown exactly when nothing superseded it.
LEMMA SettleKeeps ==
    ASSUME SessionInv, flight # 0, life' = life, cause' = cause,
           NEW o \in {"results", "error"},
           NEW d \in {FALSE, session.backend \in Daemons},
           outcome' = Resolve(flight, IF IsCurrent /\ (d \/ Intact) THEN o ELSE "stale"),
           AfterSearch(session)
    PROVE  SessionInv'
<1>0. SessionType /\ ClaimInv /\ WindowInv /\ ShownIsCurrent
  BY DEF SessionInv
<1> DEFINE s == [session EXCEPT !.sent = 0]
<1>1. /\ s \in Sessions /\ s.backend = session.backend /\ s.pending = session.pending
      /\ s.generation = session.generation /\ s.disposed = session.disposed
      /\ s.entry = session.entry /\ Dispatch(s, 0)
  BY <1>0 DEF SessionType, Sessions, AfterSearch
<1>9. lost' = FALSE
  BY DEF AfterSearch
<1> HIDE DEF s
<1>2. /\ session' \in Sessions /\ session'.backend = session.backend
      /\ session'.generation = session.generation /\ session'.disposed = session.disposed
      /\ \/ /\ session.pending # 0 /\ flight' = session.pending
            /\ session'.pending = 0 /\ session'.sent = session.entry
         \/ /\ flight' = 0 /\ session'.pending = session.pending
            /\ session'.entry = session.entry
  BY <1>1, DispatchedIs
<1>3. flight \in Searches
  BY <1>0 DEF SessionType
<1>4. /\ outcome' \in [Searches -> {"none", "waiting", "results", "error", "stale", "empty"}]
      /\ outcome'[flight] = IF IsCurrent /\ (d \/ Intact) THEN o ELSE "stale"
      /\ \A j \in Searches : j # flight => outcome'[j] = outcome[j]
  BY <1>0, <1>3 DEF Resolve, SessionType
<1>5. SessionType'
  BY <1>0, <1>2, <1>4, <1>9 DEF SessionType, Sessions
<1>6. ClaimInv'
  <2>0. \A j \in Searches : outcome'[j] = "none" => cause'[j] = "none"
    BY <1>0, <1>3, <1>4 DEF ClaimInv
  <2>1. session.pending # 0 => session.pending \in Searches /\ session.pending # flight
    BY <1>0 DEF ClaimInv, SessionType, Sessions
  <2>2. CASE /\ session.pending # 0 /\ flight' = session.pending
             /\ session'.pending = 0 /\ session'.sent = session.entry
    <3>1. session.generation \in Nat
      BY <1>0 DEF SessionType, Sessions
    <3>2. session'.sent <= session'.generation /\ IsCurrent'
      BY <1>0, <1>2, <2>2, <3>1 DEF ClaimInv, IsCurrent
    <3> QED BY <1>0, <1>4, <1>9, <2>0, <2>1, <2>2, <3>2 DEF ClaimInv
  <2>3. CASE /\ flight' = 0 /\ session'.pending = session.pending
             /\ session'.entry = session.entry
    BY <1>0, <1>2, <1>4, <1>9, <2>0, <2>1, <2>3 DEF ClaimInv
  <2> QED BY <1>2, <2>2, <2>3
<1>7. WindowInv'
  BY <1>0, <1>2 DEF WindowInv
<1>8. ShownIsCurrent'
  <2>1. outcome'[flight] \in {"results", "error"} => cause[flight] = "none"
    BY <1>0, <1>4 DEF ClaimInv, Intact
  <2>2. outcome'[flight] = "stale" => cause[flight] # "none" \/ life[session.backend] # "live"
    BY <1>0, <1>4 DEF ClaimInv, Intact
  <2> QED BY <1>0, <1>2, <1>3, <1>4, <2>1, <2>2 DEF ShownIsCurrent
<1> QED BY <1>5, <1>6, <1>7, <1>8 DEF SessionInv

\* A Worker fails: the request it worked on, if any, has lost its claim.
LEMMA WorkerFailsKeeps ==
    ASSUME SessionInv, NEW b \in Backends, WorkerFails(b)
    PROVE  SessionInv'
<1>0. SessionType /\ ClaimInv /\ WindowInv /\ ShownIsCurrent
  BY DEF SessionInv
<1>1. /\ b \notin Daemons /\ UNCHANGED <<life, session, outcome, flight>>
      /\ lost' = (lost \/ (flight # 0 /\ session.backend = b))
      /\ cause' = [k \in Searches |->
                     IF k = flight /\ session.backend = b /\ cause[k] = "none"
                       THEN "worker" ELSE cause[k]]
  BY DEF WorkerFails, managerVars
<1>2. SessionType'
  BY <1>0, <1>1 DEF SessionType
<1>3. CASE flight # 0 /\ session.backend = b
  <2>1. flight \in Searches /\ lost' = TRUE /\ cause'[flight] # "none"
        /\ \A k \in Searches : k # flight => cause'[k] = cause[k]
    BY <1>0, <1>1, <1>3 DEF SessionType
  <2>2. ClaimInv'
    BY <1>0, <1>1, <1>3, <2>1 DEF ClaimInv, SessionType, Sessions
  <2>3. WindowInv' /\ ShownIsCurrent'
    BY <1>0, <1>1, <1>3, <2>1 DEF WindowInv, ShownIsCurrent, ClaimInv
  <2> QED BY <1>2, <2>2, <2>3 DEF SessionInv
<1>4. CASE ~(flight # 0 /\ session.backend = b)
  <2>1. lost' = lost
    BY <1>0, <1>1, <1>4 DEF SessionType
  <2>2. \A k \in Searches : cause'[k] = cause[k]
    <3>1. 0 \notin Searches
      BY PluginAssumption DEF Searches
    <3> QED BY <1>1, <1>4, <3>1
  <2>3. ClaimInv'
    BY <1>0, <1>1, <2>1, <2>2 DEF ClaimInv, IsCurrent, SessionType, Sessions
  <2>4. WindowInv' /\ ShownIsCurrent'
    BY <1>0, <1>1, <2>2 DEF WindowInv, ShownIsCurrent
  <2> QED BY <1>2, <2>3, <2>4 DEF SessionInv
<1> QED BY <1>3, <1>4

\* The invariant of the session, with that of the manager below it.
THEOREM SessionInvariant == Spec => []SessionInv
<1>1. ManagerInv /\ SessionInv /\ [Next]_vars => SessionInv'
  <2> SUFFICES ASSUME ManagerInv, SessionInv, [Next]_vars PROVE SessionInv'
    OBVIOUS
  <2>1. CASE UNCHANGED vars
    BY <2>1 DEF vars, managerVars, sessionVars, request, SessionInv, SessionType, ClaimInv,
       IsCurrent, WindowInv, ShownIsCurrent
  <2>2. CASE Next
    <3>1. CASE UNCHANGED sessionVars
      BY <2>2, <3>1, ManagerSteps
    <3>2. CASE Open
      BY <3>2, OpenKeeps
    <3>3. ASSUME NEW k \in Searches, Search(k) \/ SearchNothing(k) \/ SearchClosed(k)
          PROVE  SessionInv'
      BY <3>3, UserSteps, SearchClosedKeeps
    <3>4. CASE SetMode \/ CloseWindow
      BY <3>4, UserSteps
    <3>5. CASE Due
      BY <3>5, DueKeeps
    <3>6. CASE Answers
      <4>1. /\ flight # 0 /\ life' = life /\ cause' = cause /\ AfterSearch(session)
            /\ outcome' = Resolve(flight, IF IsCurrent /\ (FALSE \/ Intact)
                                          THEN "results" ELSE "stale")
        BY <3>6 DEF Answers, managerVars
      <4> QED BY <4>1, SettleKeeps
    <3>7. CASE SearchFails
      <4>1. /\ flight # 0 /\ life' = life /\ cause' = cause /\ AfterSearch(session)
            /\ outcome' = Resolve(flight, IF IsCurrent /\ (session.backend \in Daemons \/ Intact)
                                          THEN "error" ELSE "stale")
        BY <3>7 DEF SearchFails, managerVars
      <4> QED BY <4>1, SettleKeeps
    <3>8. CASE \/ \E k \in Backends : Activate(k) \/ Continue(k) \/ InitializeFails(k)
                                      \/ Shut(k) \/ StoreCloses(k)
               \/ Dispose \/ DisposePending \/ Disposed
      BY <3>1, <3>8 DEF Activate, Continue, MakeBackend, Initialized, CleanedUp,
         InitializeFails, Shut, StoreCloses, Dispose, DisposePending, Disposed
    <3>9. ASSUME NEW k \in Backends, WorkerFails(k) PROVE SessionInv'
      BY <3>9, WorkerFailsKeeps
    <3>10. CASE Hangs
      BY <3>10 DEF Hangs, managerVars, SessionInv, SessionType, ClaimInv, IsCurrent,
         WindowInv, ShownIsCurrent
    <3> QED BY <2>2, <3>2, <3>3, <3>4, <3>5, <3>6, <3>7, <3>8, <3>9, <3>10 DEF Next
  <2> QED BY <2>1, <2>2
<1> QED BY <1>1, SessionInvInit, ManagerInvariant, PTL DEF Spec

\* A window shows the answer to what it last asked, and calls nothing stale
\* that was not superseded, asked of a backend replaced since, or in the hands
\* of a Worker that failed: the generation compared in runSearch is enough, for
\* every interleaving of typing, debounce, answers, failures and backend changes.
THEOREM OnlyCurrentAnswersShown == Spec => []ShownIsCurrent
<1>1. SessionInv => ShownIsCurrent
  BY DEF SessionInv
<1> QED BY <1>1, SessionInvariant, PTL
=============================================================================

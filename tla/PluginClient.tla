--------------------------- MODULE PluginClient ---------------------------
(***************************************************************************)
(* The plugin's side of a search: the backend manager, which replaces one  *)
(* backend by another while either may still be starting or shutting down, *)
(* and the search session of an open window, which debounces what the user *)
(* types and has one request at most in flight.                            *)
(*                                                                         *)
(* Everything runs on one event loop: an action is what runs between two   *)
(* awaits, and the continuations of different calls interleave.  A backend *)
(* takes its time to initialize, to answer and to shut down; a second      *)
(* dispose of a backend returns at once while the first is still waiting.  *)
(* An in-plugin backend works with a Worker, which it replaces when it     *)
(* fails, and whose requests have a deadline; a daemon backend sends its   *)
(* requests with requestUrl, which has none.                               *)
(***************************************************************************)
EXTENDS Naturals, FiniteSets

CONSTANTS
    MaxActivations,  \* calls of activate; call k makes backend k, if it makes one
    Daemons,         \* the activations of profile "daemon"; the others are "in_plugin"
    MaxSearches,     \* calls of search
    MaxModes,        \* calls of setMode
    MaxFaults        \* failed initializations, shutdowns and Workers, and hung requests

ASSUME PluginAssumption ==
    /\ {MaxActivations, MaxSearches, MaxModes, MaxFaults} \subseteq Nat
    /\ Daemons \subseteq 1..MaxActivations

VARIABLES
    manager,   \* activeBackend (0: none), activationEpoch, closed, the latest activation
    calls,     \* the activations: where each waits, and what it captured
    closer,    \* dispose of the manager
    life,      \* life[b]: "none", "live", "closing", then "shut", "broken" (its dispose
               \* rejected) or "lingering" (it resolved before the store had closed)
    session,   \* the search session of the open window
    outcome,   \* outcome[k]: what search k resolved to
    flight,    \* the request the backend works on: a search, or 0
    lost,      \* was its Worker replaced since it was sent?
    hung,      \* is it a daemon's that gets no answer for now?
    cause,     \* history: why search k lost its claim to be shown
    modes, faults

managerVars == <<manager, calls, closer, life>>
request == <<flight, lost, hung>>
sessionVars == <<session, outcome, request, cause, modes>>
vars == <<managerVars, sessionVars, faults>>

Backends == 1..MaxActivations
Searches == 1..MaxSearches

Settled(k) == k # 0 => calls[k].pc \in {"resolved", "rejected"}
Made == {k \in Backends : calls[k].pc # "none"}

\* Nobody waits for it any more: it was never made, or its dispose has returned.
Ended(b) == life[b] \in {"none", "lingering", "shut", "broken"}

\* dispose() of a backend: only the first call has something to wait for.
Closing(b) == IF b # 0 /\ life[b] = "live" THEN [life EXCEPT ![b] = "closing"] ELSE life
Waits(b) == IF b # 0 /\ life[b] = "live" THEN b ELSE 0

\* The dispose promise a continuation holds is settled, and did not reject.
Released(w) == w # 0 => Ended(w)
Failed(w) == w # 0 /\ life[w] = "broken"

Rejected(k) == [calls EXCEPT ![k].pc = "rejected"]
Superseded(k) == manager.closed \/ calls[k].epoch # manager.epoch

-----------------------------------------------------------------------------
(* The backend manager *)

\* activate, up to its first await.
Activate(k) ==
    /\ k = manager.last + 1 /\ ~manager.closed
    /\ manager' = [manager EXCEPT !.active = 0, !.epoch = @ + 1, !.last = k]
    /\ calls' = [calls EXCEPT ![k] = [pc |-> "prior", epoch |-> manager.epoch + 1,
                                      before |-> manager.active, wait |-> Waits(manager.active)]]
    /\ life' = Closing(manager.active)
    /\ UNCHANGED <<closer, sessionVars, faults>>

\* Mutant: the disposal that activate started is not awaited.
AwaitedNothing(k) == k \in Backends

\* The activation before, and then the disposal that activate started, are awaited.
Awaited(k) == Settled(k - 1) /\ Released(calls[k].wait)

\* The continuation that makes the backend, or gives up.  `previous' is what the
\* activation before resolved to, when it is not the backend disposed already.
MakeBackend(k) ==
    LET previous == IF k > 1 /\ calls[k - 1].pc = "resolved" /\ k - 1 # calls[k].before
                    THEN k - 1 ELSE 0
    IN  /\ calls[k].pc = "prior" /\ Awaited(k)
        /\ IF Failed(calls[k].wait)
           THEN calls' = Rejected(k) /\ UNCHANGED <<manager, life>>
           ELSE IF Waits(previous) # 0
           THEN /\ calls' = [calls EXCEPT ![k].wait = previous]
                /\ life' = Closing(previous)
                /\ UNCHANGED manager
           ELSE IF Superseded(k)
           THEN calls' = Rejected(k) /\ UNCHANGED <<manager, life>>
           ELSE /\ calls' = [calls EXCEPT ![k].pc = "initialize"]
                /\ life' = [life EXCEPT ![k] = "live"]
                /\ manager' = [manager EXCEPT !.active = k]
        /\ UNCHANGED <<closer, sessionVars, faults>>

Withdrawn(k) == [manager EXCEPT !.active = IF @ = k THEN 0 ELSE @]

\* initialize rejected: the backend is withdrawn and disposed.
InitializeFails(k) ==
    /\ calls[k].pc = "initialize"
    /\ faults < MaxFaults /\ faults' = faults + 1
    /\ manager' = Withdrawn(k)
    /\ calls' = [calls EXCEPT ![k].pc = "cleanup", ![k].wait = Waits(k)]
    /\ life' = Closing(k)
    /\ UNCHANGED <<closer, sessionVars>>

\* initialize resolved: a backend that was superseded meanwhile is disposed again.
Initialized(k) ==
    /\ calls[k].pc = "initialize"
    /\ manager' = IF Superseded(k) THEN Withdrawn(k) ELSE manager
    /\ calls' = IF Superseded(k) THEN [calls EXCEPT ![k].pc = "cleanup", ![k].wait = Waits(k)]
                ELSE [calls EXCEPT ![k].pc = "resolved"]
    /\ life' = IF Superseded(k) THEN Closing(k) ELSE life
    /\ UNCHANGED <<closer, sessionVars, faults>>

CleanedUp(k) ==
    /\ calls[k].pc = "cleanup" /\ Released(calls[k].wait)
    /\ calls' = Rejected(k)
    /\ UNCHANGED <<manager, closer, life, sessionVars, faults>>

\* dispose of the manager, up to its first await.
Dispose ==
    /\ ~manager.closed
    /\ manager' = [manager EXCEPT !.closed = TRUE, !.epoch = @ + 1, !.active = 0]
    /\ closer' = [pc |-> "active", active |-> manager.active, pending |-> manager.last,
                  wait |-> Waits(manager.active)]
    /\ life' = Closing(manager.active)
    /\ UNCHANGED <<calls, sessionVars, faults>>

\* Mutant: the pending activation is not awaited.
PendingIgnored == Released(closer.wait)

PendingAwaited == Released(closer.wait) /\ Settled(closer.pending)

\* The active backend is gone; a backend the pending activation made is disposed as well.
DisposePending ==
    LET late == IF closer.pending # 0 /\ calls[closer.pending].pc = "resolved"
                   /\ closer.pending # closer.active THEN closer.pending ELSE 0
    IN  /\ closer.pc = "active"
        /\ IF Failed(closer.wait)
           THEN closer' = [closer EXCEPT !.pc = "failed"] /\ life' = life
           ELSE /\ PendingAwaited
                /\ life' = Closing(late)
                /\ closer' = [closer EXCEPT !.pc = "late", !.wait = Waits(late)]
        /\ UNCHANGED <<manager, calls, sessionVars, faults>>

Disposed ==
    /\ closer.pc = "late" /\ Released(closer.wait)
    /\ closer' = [closer EXCEPT !.pc = IF Failed(closer.wait) THEN "failed" ELSE "done"]
    /\ UNCHANGED <<manager, calls, life, sessionVars, faults>>

\* The dispose of a backend returns.  That of an in-plugin backend races the closing
\* of its cache store with a deadline, and returns at the deadline at the latest; or
\* it rejects.
Shut(b) ==
    /\ life[b] = "closing"
    /\ \/ life' = [life EXCEPT ![b] = "shut"] /\ UNCHANGED faults
       \/ /\ b \notin Daemons
          /\ life' = [life EXCEPT ![b] = "lingering"]
          /\ UNCHANGED faults
       \/ /\ b \notin Daemons
          /\ faults < MaxFaults /\ faults' = faults + 1
          /\ life' = [life EXCEPT ![b] = "broken"]
    /\ UNCHANGED <<manager, calls, closer, sessionVars>>

\* The cache store has closed after the deadline.
StoreCloses(b) ==
    /\ life[b] = "lingering"
    /\ life' = [life EXCEPT ![b] = "shut"]
    /\ UNCHANGED <<manager, calls, closer, sessionVars, faults>>

-----------------------------------------------------------------------------
(* The search session *)

\* A window opens on what current() answers: the backend of the latest activation.
Open ==
    /\ session.backend = 0 /\ ~manager.closed
    /\ manager.last # 0 /\ calls[manager.last].pc = "resolved" /\ manager.active = manager.last
    /\ session' = [session EXCEPT !.backend = manager.active]
    /\ UNCHANGED <<managerVars, outcome, request, cause, modes, faults>>

Resolve(k, o) == [outcome EXCEPT ![k] = o]
Dropped(s) == [s EXCEPT !.pending = 0, !.entry = 0, !.due = FALSE]
Stale == IF session.pending = 0 THEN outcome ELSE Resolve(session.pending, "stale")
Superseding(why) == [j \in Searches |-> IF outcome[j] = "waiting" /\ cause[j] = "none" THEN why ELSE cause[j]]

\* search: the pending query is stale, and this one waits for its debounce.
Search(k) ==
    /\ session.backend # 0 /\ ~session.disposed
    /\ outcome[k] = "none" /\ \A j \in 1..(k - 1) : outcome[j] # "none"
    /\ session' = [session EXCEPT !.generation = @ + 1, !.pending = k, !.due = FALSE,
                                  !.entry = session.generation + 1]
    /\ outcome' = [Stale EXCEPT ![k] = "waiting"]
    /\ cause' = Superseding("newer")
    /\ UNCHANGED <<managerVars, request, modes, faults>>

\* A search of a window that is closed is refused.
SearchClosed(k) ==
    /\ session.disposed
    /\ outcome[k] = "none" /\ \A j \in 1..(k - 1) : outcome[j] # "none"
    /\ session' = [session EXCEPT !.generation = @ + 1]
    /\ outcome' = Resolve(k, "error")
    /\ UNCHANGED <<managerVars, request, cause, modes, faults>>

\* An emptied box, and a change of the mode: what waits for its debounce is stale.
SearchNothing(k) ==
    /\ session.backend # 0 /\ ~session.disposed
    /\ outcome[k] = "none" /\ \A j \in 1..(k - 1) : outcome[j] # "none"
    /\ session' = Dropped([session EXCEPT !.generation = @ + 1])
    /\ outcome' = [Stale EXCEPT ![k] = "empty"]
    /\ cause' = Superseding("emptied")
    /\ UNCHANGED <<managerVars, request, modes, faults>>

SetMode ==
    /\ session.backend # 0 /\ modes < MaxModes
    /\ modes' = modes + 1
    /\ session' = Dropped([session EXCEPT !.generation = @ + 1])
    /\ outcome' = Stale
    /\ cause' = Superseding("mode")
    /\ UNCHANGED <<managerVars, request, faults>>

CloseWindow ==
    /\ session.backend # 0 /\ ~session.disposed
    /\ session' = Dropped([session EXCEPT !.generation = @ + 1, !.disposed = TRUE])
    /\ outcome' = Stale
    /\ cause' = Superseding("closed")
    /\ UNCHANGED <<managerVars, request, modes, faults>>

\* tryDispatch, on a session and the request in flight.
Dispatched(s, busy) ==
    IF busy = 0 /\ s.pending # 0 /\ s.due
    THEN [session |-> Dropped([s EXCEPT !.sent = s.entry]), flight |-> s.pending]
    ELSE [session |-> s, flight |-> busy]

Dispatch(s, busy) ==
    /\ session' = Dispatched(s, busy).session
    /\ flight' = Dispatched(s, busy).flight

\* The debounce window of the pending query has elapsed.
Due ==
    /\ session.pending # 0 /\ ~session.due
    /\ Dispatch([session EXCEPT !.due = TRUE], flight)
    /\ UNCHANGED <<managerVars, outcome, lost, hung, cause, modes, faults>>

\* Mutant: the next query is not looked for when a request settles.
NoDispatch(s) == session' = s /\ flight' = 0 /\ lost' = FALSE /\ hung' = FALSE

\* The finally of tryDispatch: the next query goes out.
AfterSearch(s) ==
    /\ Dispatch([s EXCEPT !.sent = 0], 0)
    /\ lost' = FALSE /\ hung' = FALSE

\* Mutant: an answer is shown whatever was asked since.
AlwaysCurrent == ~session.disposed

\* runSearch compares the generation the query was asked with.
IsCurrent == ~session.disposed /\ session.sent = session.generation

\* The backend answers; one that was disposed or replaced its Worker since the
\* request was sent rejects as "disposed".
Intact == life[session.backend] = "live" /\ ~lost

Answers ==
    /\ flight # 0
    /\ outcome' = Resolve(flight, IF IsCurrent /\ Intact THEN "results" ELSE "stale")
    /\ AfterSearch(session)
    /\ UNCHANGED <<managerVars, cause, modes, faults>>

\* The backend rejects for a reason of its own: the index is building, the mode is not
\* available, the daemon cannot be reached.  An in-plugin backend that was disposed or
\* replaced its Worker says "disposed" all the same; a daemon backend does not.
SearchFails ==
    /\ flight # 0
    /\ outcome' = Resolve(flight, IF IsCurrent /\ (session.backend \in Daemons \/ Intact)
                                  THEN "error" ELSE "stale")
    /\ AfterSearch(session)
    /\ UNCHANGED <<managerVars, cause, modes, faults>>

\* The Worker of a live backend fails, and is replaced or given up: the request it
\* worked on belongs to an epoch that is over.
WorkerFails(b) ==
    /\ b \notin Daemons /\ life[b] = "live"
    /\ faults < MaxFaults /\ faults' = faults + 1
    /\ lost' = (lost \/ (flight # 0 /\ session.backend = b))
    /\ cause' = [k \in Searches |->
                   IF k = flight /\ session.backend = b /\ cause[k] = "none"
                     THEN "worker" ELSE cause[k]]
    /\ UNCHANGED <<managerVars, session, outcome, flight, hung, modes>>

\* A daemon does not answer, and nothing bounds how long the request waits.
Hangs ==
    /\ flight # 0 /\ session.backend \in Daemons /\ ~hung
    /\ faults < MaxFaults /\ faults' = faults + 1
    /\ hung' = TRUE
    /\ UNCHANGED <<managerVars, session, outcome, flight, lost, cause, modes>>

-----------------------------------------------------------------------------
Init ==
    /\ manager = [active |-> 0, epoch |-> 0, closed |-> FALSE, last |-> 0]
    /\ calls = [k \in Backends |-> [pc |-> "none", epoch |-> 0, before |-> 0, wait |-> 0]]
    /\ closer = [pc |-> "none", active |-> 0, pending |-> 0, wait |-> 0]
    /\ life = [b \in Backends |-> "none"]
    /\ session = [backend |-> 0, generation |-> 0, pending |-> 0, entry |-> 0, due |-> FALSE,
                  sent |-> 0, disposed |-> FALSE]
    /\ outcome = [k \in Searches |-> "none"]
    /\ cause = [k \in Searches |-> "none"]
    /\ flight = 0 /\ lost = FALSE /\ hung = FALSE
    /\ modes = 0 /\ faults = 0

Continue(k) == MakeBackend(k) \/ Initialized(k) \/ CleanedUp(k)

Next ==
    \/ \E k \in Backends : Activate(k) \/ Continue(k) \/ InitializeFails(k) \/ Shut(k)
                          \/ StoreCloses(k) \/ WorkerFails(k)
    \/ Dispose \/ DisposePending \/ Disposed
    \/ Open \/ (\E k \in Searches : Search(k) \/ SearchNothing(k) \/ SearchClosed(k))
    \/ SetMode \/ CloseWindow
    \/ Due \/ Answers \/ SearchFails \/ Hangs

(* Timers fire.  A request ends: a Worker's by the deadline of its RPC,    *)
(* a daemon's unless it hangs.  Whether the manager goes on does not       *)
(* matter to a window, and has no fairness here.                           *)
Fairness ==
    /\ WF_vars(Due)
    /\ WF_vars(~hung /\ (Answers \/ SearchFails))

Spec == Init /\ [][Next]_vars /\ Fairness

-----------------------------------------------------------------------------
(* Properties *)

(* Two backends never overlap: when activate makes one, the dispose of     *)
(* every backend made before has returned or failed, however many          *)
(* activations were started while it was still initializing or closing.    *)
(* Two in-plugin backends would write one cache; what dispose leaves open  *)
(* at its deadline is a store that takes no new work.                      *)
OneBackendAtATime ==
    \A b, c \in Backends : b < c /\ life[c] # "none" => Ended(b)

(* At rest the last call wins.  Once every activation has settled, the     *)
(* active backend is the one the latest activation returned, and there is  *)
(* none when that activation was rejected; once the manager's dispose has  *)
(* returned, no backend is running or still waited for.                    *)
AtRest ==
    /\ (\A k \in Made : Settled(k)) /\ ~manager.closed /\ manager.last # 0 =>
          /\ manager.active = IF calls[manager.last].pc = "resolved" THEN manager.last ELSE 0
          /\ \A b \in Backends : life[b] = "live" => b = manager.active
    /\ closer.pc = "done" => \A b \in Backends : Ended(b)

(* A window shows the answer to what it last asked: a search that resolved *)
(* with hits had not been superseded by another query, an emptied box, a   *)
(* change of the mode or the closing of the window when it resolved, and   *)
(* one that was called stale had been, or its backend was replaced, or had *)
(* lost the Worker the query was sent to.                                  *)
ShownIsCurrent ==
    \A k \in Searches :
        /\ outcome[k] \in {"results", "error"} => cause[k] = "none"
        /\ outcome[k] = "stale" => cause[k] # "none" \/ life[session.backend] # "live"

(* Every search settles: a query that waits for its debounce or behind the *)
(* request in flight is dispatched or replaced in the end, unless a        *)
(* daemon's request hangs for ever.  (Then the queries behind it are       *)
(* never sent: requestUrl is called without a timeout.)                    *)
EverySearchSettles ==
    \/ <>[]hung
    \/ \A k \in Searches : outcome[k] = "waiting" ~> outcome[k] # "waiting"
=============================================================================

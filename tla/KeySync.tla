------------------------------ MODULE KeySync ------------------------------
(***************************************************************************)
(* internal/syncer and its callers: the key list is fetched page by page   *)
(* in flights that share one singleflight group, while resets and limit    *)
(* changes alter the keys upstream and settings move the portal to another *)
(* connection.  The two generation counters decide which answers may still *)
(* be stored.                                                              *)
(*                                                                         *)
(* What Sub2API says of a key is a version: every change it makes to the   *)
(* key, by a reset, a limit change or ordinary use, counts it up.          *)
(* connectionMu, keySnapshotMu and cacheMu are each held within one step,  *)
(* so they are the atomicity of the actions.  bindingMu is held for        *)
(* reading by the calls: an action that takes it exclusively waits until   *)
(* no key is in a call.                                                    *)
(***************************************************************************)
EXTENDS Naturals, FiniteSets

CONSTANTS
  Keys,          \* upstream key identifiers
  Conns,         \* upstream identities: a base URL and an owner
  FirstConn,     \* the one set up first
  Flights,       \* executions of the "keys" flight that may overlap
  None,
  MaxVersion,    \* bound on the changes to one key
  MaxFaults,     \* bound on failed fetches and store operations
  MaxRotations,  \* bound on connection rotations
  MaxRestarts    \* bound on process restarts

ASSUME KeySyncConstants ==
  /\ None \notin Conns \cup Flights
  /\ FirstConn \in Conns
  /\ MaxVersion \in Nat /\ MaxFaults \in Nat
  /\ MaxRotations \in Nat /\ MaxRestarts \in Nat

VARIABLES
  upstream,              \* version of each key at each connection
  conn,                  \* settings: the current connection
  syncedFrom,            \* settings.last_key_sync_at: where that list is from
  bound,                 \* keys that have a key_bindings row
  usage,                 \* version stored in that row
  origin,                \* connection the stored version is from
  marked,                \* rows whose last_error_code is set
  connectionGeneration, keyGeneration,
  current,               \* the flight the singleflight group knows, or None
  flight,                \* what each flight is doing
  cacheConn, cacheUsage, \* Manager.keys: None while it is empty
  cacheError,            \* Manager.keys.LastError is set
  call,                  \* the upstream call under way for each key
  workflow,              \* what holds maintenanceMu or is the active batch
  waiting,               \* the flight its reconciliation waits for, or None
  reconciled,            \* what that wait returned
  reconcileGeneration,   \* history: the connection when it began
  saved,                 \* history: confirmed version stored in the row
  owed,                  \* history: changes confirmed to this workflow
  faults, rotations, restarts  \* how much of each bound is used

rowVars == <<bound, usage, origin, marked, saved>>
cacheVars == <<cacheConn, cacheUsage, cacheError>>
generationVars == <<connectionGeneration, keyGeneration>>
workflowVars == <<workflow, waiting, reconciled, reconcileGeneration, owed>>
boundVars == <<faults, rotations, restarts>>
vars == <<upstream, conn, syncedFrom, bound, usage, origin, marked,
          connectionGeneration, keyGeneration, current, flight,
          cacheConn, cacheUsage, cacheError, call, workflow, waiting,
          reconciled, reconcileGeneration, saved, owed,
          faults, rotations, restarts>>

\* Steps that touch one part of the state.
OnlyUpstream == UNCHANGED <<conn, syncedFrom, rowVars, generationVars, current,
                            flight, cacheVars, call, workflowVars, boundVars>>
OnlyFlights == UNCHANGED <<upstream, conn, syncedFrom, rowVars, generationVars,
                           cacheVars, call, workflowVars, boundVars>>
OnlyRows == UNCHANGED <<upstream, conn, syncedFrom, generationVars, current,
                        flight, cacheVars, call, workflowVars, boundVars>>
OnlyWorkflow == UNCHANGED <<upstream, conn, syncedFrom, rowVars, generationVars,
                            current, flight, cacheVars, call, boundVars>>

Changes == [conn : Conns, key : Keys, version : Nat]

FlightStates ==
  [pc : {"idle", "queued", "settings", "listing"},
   connGen : Nat, conn : Conns, keyGen : Nat,
   read : SUBSET Keys, list : [Keys -> Nat]]

FlightAt(pc, connGen, c, keyGen, read, list) ==
  [pc |-> pc, connGen |-> connGen, conn |-> c, keyGen |-> keyGen,
   read |-> read, list |-> list]

NoUsage == [k \in Keys |-> 0]

IdleFlight == FlightAt("idle", 0, FirstConn, 0, {}, NoUsage)
QueuedFlight == FlightAt("queued", 0, FirstConn, 0, {}, NoUsage)

CallStates == [pc : {"idle", "calling"}, connGen : Nat, conn : Conns,
               applied : Nat]

CallAt(pc, connGen, c, applied) ==
  [pc |-> pc, connGen |-> connGen, conn |-> c, applied |-> applied]

IdleCall == CallAt("idle", 0, FirstConn, 0)

Singles == {"reset", "limits"}
Workflows == {"idle", "batch", "reconcile"} \cup Singles

TypeOK ==
  /\ upstream \in [Conns -> [Keys -> Nat]]
  /\ conn \in Conns /\ syncedFrom \in Conns \cup {None}
  /\ bound \in SUBSET Keys /\ usage \in [Keys -> Nat]
  /\ origin \in [Keys -> Conns \cup {None}] /\ marked \in SUBSET Keys
  /\ connectionGeneration \in Nat /\ keyGeneration \in Nat
  /\ current \in Flights \cup {None} /\ flight \in [Flights -> FlightStates]
  /\ cacheConn \in Conns \cup {None} /\ cacheUsage \in [Keys -> Nat]
  /\ cacheError \in BOOLEAN
  /\ call \in [Keys -> CallStates]
  /\ workflow \in Workflows /\ waiting \in Flights \cup {None}
  /\ reconciled \in {"none", "ok", "failed"}
  /\ reconcileGeneration \in Nat
  /\ saved \in [Keys -> Nat] /\ owed \in SUBSET Changes
  /\ faults \in 0..MaxFaults /\ rotations \in 0..MaxRotations
  /\ restarts \in 0..MaxRestarts

Init ==
  /\ upstream = [c \in Conns |-> NoUsage]
  /\ conn = FirstConn /\ syncedFrom = None
  /\ bound = {} /\ usage = NoUsage /\ origin = [k \in Keys |-> None]
  /\ marked = {}
  /\ connectionGeneration = 0 /\ keyGeneration = 0
  /\ current = None /\ flight = [f \in Flights |-> IdleFlight]
  /\ cacheConn = None /\ cacheUsage = NoUsage /\ cacheError = FALSE
  /\ call = [k \in Keys |-> IdleCall]
  /\ workflow = "idle" /\ waiting = None /\ reconciled = "none"
  /\ reconcileGeneration = 0
  /\ saved = NoUsage /\ owed = {}
  /\ faults = 0 /\ rotations = 0 /\ restarts = 0

Fails(n) ==
  /\ faults + n <= MaxFaults
  /\ faults' = faults + n
  /\ UNCHANGED <<rotations, restarts>>

-----------------------------------------------------------------------------
(* Sub2API.                                                                *)

\* External: the key is used, or reset from elsewhere.
UpstreamChanges(c, k) ==
  /\ upstream[c][k] < MaxVersion
  /\ upstream' = [upstream EXCEPT ![c][k] = @ + 1]
  /\ OnlyUpstream

-----------------------------------------------------------------------------
(* A flight: Sync, syncOne and syncKeys.                                   *)

\* The timer loop, runSync or a waiting caller enters the singleflight group.
StartFlight(f) ==
  /\ current = None
  /\ flight[f].pc = "idle"
  /\ current' = f
  /\ flight' = [flight EXCEPT ![f] = QueuedFlight]

BackgroundSync == OnlyFlights /\ \E f \in Flights : StartFlight(f)

\* Mutant: the flight uses the connection of the last sync.
ReadSettingsStale(f) ==
  /\ flight[f].pc = "queued"
  /\ flight' = [flight EXCEPT ![f] =
       FlightAt("settings", connectionGeneration, syncedFrom, 0, {}, NoUsage)]
  /\ UNCHANGED current /\ OnlyFlights

\* connectionSettings, once one of the four slots is free.
ReadSettings(f) ==
  /\ flight[f].pc = "queued"
  /\ flight' = [flight EXCEPT ![f] =
       FlightAt("settings", connectionGeneration, conn, 0, {}, NoUsage)]
  /\ UNCHANGED current /\ OnlyFlights

ReadKeyGeneration(f) ==
  /\ flight[f].pc = "settings"
  /\ flight' = [flight EXCEPT ![f] =
       FlightAt("listing", flight[f].connGen, flight[f].conn, keyGeneration,
                {}, NoUsage)]
  /\ UNCHANGED current /\ OnlyFlights

\* ListAPIKeys reads page after page; each key is read at a moment of its own.
ReadPage(f, k) ==
  /\ flight[f].pc = "listing" /\ k \notin flight[f].read
  /\ flight' = [flight EXCEPT ![f] =
       FlightAt("listing", flight[f].connGen, flight[f].conn, flight[f].keyGen,
                flight[f].read \cup {k},
                [flight[f].list EXCEPT ![k] = upstream[flight[f].conn][k]])]
  /\ UNCHANGED current /\ OnlyFlights

\* Mutant: a flight that ended stays in the group.
EndFlightKeeping(f, outcome) ==
  /\ flight' = [flight EXCEPT ![f] = IdleFlight]
  /\ waiting' = IF waiting = f THEN None ELSE waiting
  /\ reconciled' = IF waiting = f THEN outcome ELSE reconciled
  /\ UNCHANGED <<upstream, conn, call, workflow, reconcileGeneration, owed>>
  /\ UNCHANGED generationVars /\ UNCHANGED current

\* The flight returns to everyone who waits for it.
EndFlight(f, outcome) ==
  /\ flight' = [flight EXCEPT ![f] = IdleFlight]
  /\ current' = IF current = f THEN None ELSE current
  /\ waiting' = IF waiting = f THEN None ELSE waiting
  /\ reconciled' = IF waiting = f THEN outcome ELSE reconciled
  /\ UNCHANGED <<upstream, conn, call, workflow, reconcileGeneration, owed>>
  /\ UNCHANGED generationVars

\* The leader's context ends before a slot is free, or the settings cannot be
\* read.
FlightGivesUp(f) ==
  /\ flight[f].pc = "queued"
  /\ Fails(1)
  /\ EndFlight(f, "failed")
  /\ UNCHANGED syncedFrom
  /\ UNCHANGED rowVars /\ UNCHANGED cacheVars

SameConnection(f) == flight[f].connGen = connectionGeneration

\* Mutant: a list is void only when its generation is ahead.
SameKeysAtMost(f) == flight[f].keyGen <= keyGeneration

SameKeys(f) == flight[f].keyGen = keyGeneration

\* A failed fetch marks every row, unless its generations are over; marking
\* may itself fail, which is ignored.
ListFails(f) ==
  /\ flight[f].pc = "listing"
  /\ EndFlight(f, IF SameConnection(f) THEN "failed" ELSE "ok")
  /\ \/ /\ SameConnection(f) /\ SameKeys(f)
        /\ \/ Fails(1) /\ marked' = bound
           \/ Fails(2) /\ UNCHANGED marked
        /\ cacheError' = TRUE
     \/ /\ ~(SameConnection(f) /\ SameKeys(f))
        /\ Fails(1)
        /\ UNCHANGED <<marked, cacheError>>
  /\ UNCHANGED <<syncedFrom, bound, usage, origin, saved, cacheConn, cacheUsage>>

\* ApplyKeySnapshots of a complete list.
ApplyKeySnapshots(f) ==
  /\ usage' = [k \in Keys |-> IF k \in bound THEN flight[f].list[k] ELSE usage[k]]
  /\ origin' = [k \in Keys |-> IF k \in bound THEN flight[f].conn ELSE origin[k]]
  /\ marked' = {}
  /\ UNCHANGED <<bound, saved>>

\* Mutant: only the connection is compared before a list is stored.
PublishUnguarded(f) ==
  /\ flight[f].pc = "listing" /\ flight[f].read = Keys
  /\ SameConnection(f)
  /\ EndFlight(f, "ok") /\ ApplyKeySnapshots(f)
  /\ syncedFrom' = flight[f].conn
  /\ cacheConn' = flight[f].conn /\ cacheUsage' = flight[f].list
  /\ cacheError' = FALSE
  /\ UNCHANGED boundVars

\* The complete list is stored, or dropped when a generation is over: Sync
\* returns nil for both.
Publish(f) ==
  /\ flight[f].pc = "listing" /\ flight[f].read = Keys
  /\ \/ /\ SameConnection(f) /\ SameKeys(f)
        /\ EndFlight(f, "ok") /\ ApplyKeySnapshots(f)
        /\ syncedFrom' = flight[f].conn
        /\ cacheConn' = flight[f].conn /\ cacheUsage' = flight[f].list
        /\ cacheError' = FALSE
        /\ UNCHANGED boundVars
     \/ /\ ~(SameConnection(f) /\ SameKeys(f))
        /\ EndFlight(f, "ok")
        /\ UNCHANGED syncedFrom
        /\ UNCHANGED rowVars /\ UNCHANGED cacheVars /\ UNCHANGED boundVars

\* ApplyKeySnapshots or, after it, MarkSync fails: the cache is left alone.
PublishFails(f) ==
  /\ flight[f].pc = "listing" /\ flight[f].read = Keys
  /\ SameConnection(f) /\ SameKeys(f)
  /\ Fails(1)
  /\ EndFlight(f, "failed")
  /\ ApplyKeySnapshots(f) \/ UNCHANGED rowVars
  /\ UNCHANGED syncedFrom /\ UNCHANGED cacheVars

-----------------------------------------------------------------------------
(* Bindings and settings.                                                  *)

NoCalls == \A k \in Keys : call[k].pc = "idle"

\* createUser and setBinding insert what the cache holds and mark it clean.
\* `old` is the key the user had before.
SetBinding(k, old) ==
  /\ NoCalls
  /\ cacheConn # None
  /\ bound' = (bound \ {old}) \cup {k}
  /\ usage' = [x \in Keys |-> IF x = k THEN cacheUsage[k]
                              ELSE IF x = old THEN 0 ELSE usage[x]]
  /\ origin' = [x \in Keys |-> IF x = k THEN cacheConn
                               ELSE IF x = old THEN None ELSE origin[x]]
  /\ marked' = marked \ {k, old}
  /\ saved' = [x \in Keys |-> IF x \in {k, old} THEN 0 ELSE saved[x]]
  /\ OnlyRows

\* deleteBinding and deleteUser.
DeleteBinding(k) ==
  /\ NoCalls
  /\ k \in bound
  /\ bound' = bound \ {k}
  /\ usage' = [usage EXCEPT ![k] = 0]
  /\ origin' = [origin EXCEPT ![k] = None]
  /\ marked' = marked \ {k}
  /\ saved' = [saved EXCEPT ![k] = 0]
  /\ OnlyRows

\* Mutant: the cache survives the change of connection.
BeginConnectionRotationKeeping ==
  /\ connectionGeneration' = connectionGeneration + 1
  /\ current' = None
  /\ UNCHANGED cacheVars /\ UNCHANGED keyGeneration

\* BeginConnectionRotation: a new generation, nothing in flight, no cache.
BeginConnectionRotation ==
  /\ connectionGeneration' = connectionGeneration + 1
  /\ current' = None
  /\ cacheConn' = None /\ cacheUsage' = NoUsage /\ cacheError' = FALSE
  /\ UNCHANGED keyGeneration

\* Mutant: bindingMu is not taken.
RotateConnectionUnlocked(c) ==
  /\ c # conn
  /\ rotations < MaxRotations
  /\ rotations' = rotations + 1
  /\ BeginConnectionRotation
  /\ \/ bound = {} /\ conn' = c /\ syncedFrom' = None
     \/ UNCHANGED <<conn, syncedFrom>>
  /\ UNCHANGED <<upstream, flight, call, faults, restarts>>
  /\ UNCHANGED rowVars /\ UNCHANGED workflowVars

\* putSettings for another base URL or owner: connectionMu is held from
\* BeginConnectionRotation until UpdateSettings has returned.  UpdateSettings
\* refuses while a key is bound, or an account published, and may fail.
RotateConnection(c) ==
  /\ NoCalls
  /\ c # conn
  /\ rotations < MaxRotations
  /\ rotations' = rotations + 1
  /\ BeginConnectionRotation
  /\ \/ bound = {} /\ conn' = c /\ syncedFrom' = None
     \/ UNCHANGED <<conn, syncedFrom>>
  /\ UNCHANGED <<upstream, flight, call, faults, restarts>>
  /\ UNCHANGED rowVars /\ UNCHANGED workflowVars

\* putSettings for the same identity, such as a new administrator key.
UpdateSettings ==
  /\ syncedFrom' = None
  /\ UNCHANGED <<upstream, conn, current, flight, call>>
  /\ UNCHANGED rowVars /\ UNCHANGED generationVars /\ UNCHANGED cacheVars
  /\ UNCHANGED workflowVars /\ UNCHANGED boundVars

-----------------------------------------------------------------------------
(* A call: Manager.ResetQuota and Manager.SetKeyLimits, made by a single    *)
(* handler or by the workers of a batch (see QuotaReset).                  *)

\* Admission and connectionSettings, with bindingMu held for reading.
BeginCall(k) ==
  /\ k \in bound
  /\ call[k].pc = "idle"
  /\ call' = [call EXCEPT ![k] = CallAt("calling", connectionGeneration, conn, 0)]
  /\ UNCHANGED <<upstream, conn, syncedFrom, current, flight>>
  /\ UNCHANGED rowVars /\ UNCHANGED generationVars /\ UNCHANGED cacheVars
  /\ UNCHANGED <<waiting, reconciled, reconcileGeneration, owed>>
  /\ UNCHANGED boundVars

AdmitSingle(k, kind) ==
  /\ workflow = "idle" /\ workflow' = kind
  /\ BeginCall(k)

WorkerCalls(k) ==
  /\ workflow = "batch" /\ UNCHANGED workflow
  /\ BeginCall(k)

\* External: Sub2API carries the change out.
UpstreamApplies(k) ==
  LET v == upstream[call[k].conn][k] + 1 IN
  /\ call[k].pc = "calling" /\ call[k].applied = 0
  /\ v <= MaxVersion
  /\ upstream' = [upstream EXCEPT ![call[k].conn][k] = v]
  /\ call' = [call EXCEPT ![k] = CallAt("calling", call[k].connGen, call[k].conn, v)]
  /\ UNCHANGED <<conn, syncedFrom, current, flight>>
  /\ UNCHANGED rowVars /\ UNCHANGED generationVars /\ UNCHANGED cacheVars
  /\ UNCHANGED workflowVars /\ UNCHANGED boundVars

\* The caller goes on: a batch with its other items, a single handler to the
\* reconciliation when it has something to reconcile.
Proceed(reconcile, change) ==
  /\ workflow' = IF workflow = "batch" THEN "batch"
                 ELSE IF reconcile THEN "reconcile" ELSE "idle"
  /\ owed' = IF workflow' = "idle" THEN {} ELSE owed \cup change
  /\ UNCHANGED <<waiting, reconciled, reconcileGeneration>>

\* No confirmation: refused, broken off or timed out, carried out or not.
CallFails(k) ==
  /\ call[k].pc = "calling"
  /\ call' = [call EXCEPT ![k] = IdleCall]
  /\ Proceed(FALSE, {})
  /\ UNCHANGED <<upstream, conn, syncedFrom, current, flight>>
  /\ UNCHANGED rowVars /\ UNCHANGED generationVars /\ UNCHANGED cacheVars
  /\ UNCHANGED boundVars

\* ApplyQuotaResetSnapshot and ApplyKeyLimitChange store what was confirmed.
ApplyConfirmed(k) ==
  /\ usage' = [usage EXCEPT ![k] = call[k].applied]
  /\ origin' = [origin EXCEPT ![k] = call[k].conn]
  /\ marked' = marked \ {k}
  /\ saved' = [saved EXCEPT ![k] = call[k].applied]
  /\ UNCHANGED bound

\* Mutant: the flight under way is not forgotten.
InvalidateFlightsKeeping ==
  /\ keyGeneration' = keyGeneration + 1
  /\ UNCHANGED current

\* keyGeneration++ and group.Forget.
InvalidateFlights ==
  /\ keyGeneration' = keyGeneration + 1
  /\ current' = None

\* A confirmed change, under connectionMu and keySnapshotMu.  A reset counts
\* as done even when storing it fails; a limit change does not.
Confirm(k) ==
  LET change == {[conn |-> call[k].conn, key |-> k, version |-> call[k].applied]} IN
  /\ call[k].pc = "calling" /\ call[k].applied # 0
  /\ call' = [call EXCEPT ![k] = IdleCall]
  /\ UNCHANGED <<upstream, conn, syncedFrom, flight>> /\ UNCHANGED cacheVars
  /\ UNCHANGED connectionGeneration
  /\ \/ /\ call[k].connGen = connectionGeneration
        /\ InvalidateFlights
        /\ \/ /\ k \in bound /\ ApplyConfirmed(k)
              /\ Proceed(TRUE, change) /\ UNCHANGED boundVars
           \/ /\ k \notin bound /\ UNCHANGED rowVars
              /\ Proceed(workflow = "reset", change) /\ UNCHANGED boundVars
           \/ /\ Fails(1) /\ UNCHANGED rowVars
              /\ Proceed(workflow = "reset", change)
     \/ /\ call[k].connGen # connectionGeneration
        /\ UNCHANGED <<keyGeneration, current>>
        /\ UNCHANGED rowVars /\ UNCHANGED boundVars
        /\ Proceed(workflow = "reset", change)

-----------------------------------------------------------------------------
(* A workflow: one single mutation or one batch, then one key sync.        *)

StartBatch ==
  /\ workflow = "idle" /\ workflow' = "batch"
  /\ UNCHANGED <<waiting, reconciled, reconcileGeneration, owed>>
  /\ OnlyWorkflow

\* All workers are done; a batch that met a store failure is aborted without
\* a sync.
EndBatch ==
  /\ workflow = "batch" /\ NoCalls
  /\ \/ workflow' = "reconcile" /\ UNCHANGED owed
     \/ workflow' = "idle" /\ owed' = {}
  /\ UNCHANGED <<waiting, reconciled, reconcileGeneration>>
  /\ OnlyWorkflow

\* Sync("keys") joins the flight the group knows or starts one.
BeginReconcile ==
  /\ workflow = "reconcile" /\ waiting = None /\ reconciled = "none"
  /\ \/ current # None /\ waiting' = current /\ UNCHANGED <<current, flight>>
     \/ \E f \in Flights : StartFlight(f) /\ waiting' = f
  /\ reconcileGeneration' = connectionGeneration
  /\ UNCHANGED <<workflow, reconciled, owed>>
  /\ UNCHANGED <<upstream, conn, syncedFrom, call>>
  /\ UNCHANGED rowVars /\ UNCHANGED generationVars /\ UNCHANGED cacheVars
  /\ UNCHANGED boundVars

\* The 30 seconds of the caller's context are over.
StopWaiting ==
  /\ waiting # None
  /\ waiting' = None /\ reconciled' = "failed"
  /\ UNCHANGED <<workflow, reconcileGeneration, owed>>
  /\ OnlyWorkflow

EndWorkflow ==
  /\ workflow = "reconcile" /\ reconciled # "none"
  /\ workflow' = "idle" /\ reconciled' = "none" /\ owed' = {}
  /\ reconcileGeneration' = 0
  /\ UNCHANGED waiting
  /\ OnlyWorkflow

\* The process ends and comes back: the tables remain.
Restart ==
  /\ restarts < MaxRestarts
  /\ restarts' = restarts + 1
  /\ connectionGeneration' = 0 /\ keyGeneration' = 0
  /\ current' = None /\ flight' = [f \in Flights |-> IdleFlight]
  /\ cacheConn' = None /\ cacheUsage' = NoUsage /\ cacheError' = FALSE
  /\ call' = [k \in Keys |-> IdleCall]
  /\ workflow' = "idle" /\ waiting' = None /\ reconciled' = "none"
  /\ reconcileGeneration' = 0 /\ owed' = {}
  /\ UNCHANGED <<upstream, conn, syncedFrom, faults, rotations>>
  /\ UNCHANGED rowVars

-----------------------------------------------------------------------------
FlightSteps(f) ==
  \/ ReadSettings(f) \/ FlightGivesUp(f) \/ ReadKeyGeneration(f)
  \/ \E k \in Keys : ReadPage(f, k)
  \/ ListFails(f) \/ Publish(f) \/ PublishFails(f)

CallEnds(k) == Confirm(k) \/ CallFails(k)

WorkflowSteps == EndBatch \/ BeginReconcile \/ EndWorkflow

Administration ==
  \/ \E k \in Keys : DeleteBinding(k) \/ \E old \in bound \cup {k} : SetBinding(k, old)
  \/ \E c \in Conns : RotateConnection(c)
  \/ UpdateSettings
  \/ \E k \in Keys, kind \in Singles : AdmitSingle(k, kind)
  \/ StartBatch

Next ==
  \/ \E c \in Conns, k \in Keys : UpstreamChanges(c, k)
  \/ BackgroundSync
  \/ \E f \in Flights : FlightSteps(f)
  \/ Administration
  \/ \E k \in Keys : WorkerCalls(k) \/ UpstreamApplies(k) \/ CallEnds(k)
  \/ WorkflowSteps \/ StopWaiting
  \/ Restart

Spec == Init /\ [][Next]_vars

\* The timer loop never stops; every flight and call is cut off by a timeout;
\* the goroutines of handlers and batches go on.
Fairness ==
  /\ WF_vars(BackgroundSync)
  /\ \A f \in Flights : WF_vars(FlightSteps(f))
  /\ \A k \in Keys : WF_vars(CallEnds(k))
  /\ WF_vars(WorkflowSteps)

FairSpec == Spec /\ Fairness

-----------------------------------------------------------------------------
(* Safety.                                                                 *)

\* A list fetched before a confirmed change is never stored over it: a row
\* shows no version older than the last change confirmed for it, whatever
\* flights were queued, forgotten or restarted meanwhile.
NeverOlderThanConfirmed ==
  \A k \in bound : usage[k] >= saved[k]

\* After a change of connection nothing of the old one is left or arrives
\* late: rows, cache and the time of the last sync are of the current one.
OneConnection ==
  /\ \A k \in bound : origin[k] = conn
  /\ cacheConn \in {None, conn}
  /\ syncedFrom \in {None, conn}

\* A confirmed change meets the connection it was made on and a row to be
\* stored in: the two error paths after a confirmation stay unused, because
\* bindings and rotations wait for the call.
ConfirmationsAreSaved ==
  \A k \in Keys : call[k].pc = "calling" =>
    /\ call[k].connGen = connectionGeneration /\ call[k].conn = conn
    /\ k \in bound

Repaired ==
  \A d \in owed : d.conn = conn /\ d.key \in bound => usage[d.key] >= d.version

\* When the sync after a workflow succeeds, every change confirmed to it is
\* visible, also those whose own store operation failed, unless a rotation
\* was tried meanwhile.
ReconciliationRepairs ==
  reconciled = "ok" /\ reconcileGeneration = connectionGeneration => Repaired

\* While the upstream cannot be read, a row that shows nothing newer than the
\* last list is marked stale (README.md:138).
OfflineRowsAreMarked ==
  cacheError => \A k \in bound \ marked : saved[k] # 0

-----------------------------------------------------------------------------
(* Refinement: rows, versions and settings keep the promise of what is     *)
(* shown.                                                                  *)

Published == INSTANCE PublishedUsage
  WITH Sources <- Conns, truth <- upstream, source <- conn,
       visible <- bound, shown <- usage, floor <- saved

\* Every step of the portal shows what the abstract promise allows.
ShowsWhatItPromises == Published!PublishedSpec

-----------------------------------------------------------------------------
(* Liveness.                                                               *)

UpToDate ==
  /\ cacheConn = conn
  /\ \A k \in bound : usage[k] = upstream[conn][k]

\* Once the upstream stops changing and failing, the portal shows its state
\* and keeps showing it.
Converges == <>[]UpToDate
=============================================================================

----------------------------- MODULE QuotaReset -----------------------------
(***************************************************************************)
(* Quota resets and limit changes as internal/httpapi runs them over the   *)
(* store: the single-user handlers, the batch runner and its pool of       *)
(* workers, the three locks they share (maintenanceMu, bindingMu and the   *)
(* quotaResetKeys gate), the program-update gate, the upstream call and    *)
(* everything its answer may mean, failing store writes, and the death and *)
(* restart of the process at any point.                                    *)
(*                                                                         *)
(* A handler or a worker is a process p \in Procs.  A request the handler  *)
(* refuses changes nothing and is no action.  bindingMu is held exclusively *)
(* for one store transaction only, so a binding change is one action that  *)
(* waits for bindingReaders to be empty.                                   *)
(***************************************************************************)
EXTENDS QuotaResetStore

CONSTANTS
  Workers,        \* the goroutines of the pool (four in the code)
  Handlers,       \* request goroutines for single resets and limit changes
  MayLoseCreate,  \* a create request may be cancelled after its commit
  MaxFaults,      \* bound on store operations and ends of updates that fail
  MaxUpdates,     \* bound on program updates
  MaxOutages      \* bound on unplanned process deaths and updates, together

ASSUME QuotaResetConstants ==
  /\ Workers \cap Handlers = {}
  /\ None \notin Workers \cup Handlers
  /\ MayLoseCreate \in BOOLEAN
  /\ MaxFaults \in Nat /\ MaxUpdates \in Nat /\ MaxOutages \in Nat

VARIABLES
  up,              \* the portal process is running
  maintenance,     \* the handler holding maintenanceMu, or None
  bindingReaders,  \* processes holding bindingMu for reading
  quotaResetKeys,  \* the gate: keys with a mutation under way
  proc,            \* what each handler and worker is doing
  runner,          \* the goroutine running runQuotaResetJob
  queue,           \* items of the running job no worker has taken yet
  cancelled,       \* jobCtx is cancelled: some worker met a fatal error
  update,          \* the update an administrator asked for, and its journal
  requests,        \* history: upstream calls sent for each item
  effects,         \* history: <<job, user>> whose reset Sub2API applied
  faults, crashes, updates  \* how much of each bound is used

processVars == <<up, maintenance, bindingReaders, quotaResetKeys, proc,
                 runner, queue, cancelled>>
historyVars == <<requests, effects>>
boundVars == <<faults, crashes, updates>>
vars == <<userStatus, binding, missing,
          jobStatus, itemStatus, itemKey, counters,
          up, maintenance, bindingReaders, quotaResetKeys, proc,
          runner, queue, cancelled, update, requests, effects,
          faults, crashes, updates>>

Procs == Workers \cup Handlers
Kinds == {"reset", "limits"}
Results == TerminalStatuses \cup {"none"}

\* pc: "marked" the item is running in the store; "calling" the gate and the
\* read lock are held; "sent" the request left; "answered" the call returned.
ProcStates ==
  [pc : {"idle", "marked", "calling", "sent", "answered"},
   kind : Kinds, user : Users \cup {None}, key : Keys \cup {None},
   applied : BOOLEAN, result : Results]

\* A process at pc with a call of its own still to make.
ProcAt(pc, kind, user, key) ==
  [pc |-> pc, kind |-> kind, user |-> user, key |-> key,
   applied |-> FALSE, result |-> "none"]

IdleProc == ProcAt("idle", "reset", None, None)

RunnerStates ==
  [pc : {"idle", "start", "load", "pool", "finish", "abort"},
   job : Jobs \cup {None}]

IdleRunner == [pc |-> "idle", job |-> None]

\* A journal is "left" when its operation has ended and it is still there.
Updates == [asked : BOOLEAN, journal : {"none", "left", "recovering"}]

TypeOK ==
  /\ StoreTypeOK
  /\ up \in BOOLEAN
  /\ maintenance \in Handlers \cup {None}
  /\ bindingReaders \in SUBSET Procs
  /\ quotaResetKeys \in SUBSET Keys
  /\ proc \in [Procs -> ProcStates]
  /\ runner \in RunnerStates
  /\ queue \in SUBSET Users
  /\ cancelled \in BOOLEAN
  /\ update \in Updates
  /\ requests \in [Jobs -> [Users -> Nat]]
  /\ effects \in SUBSET (Jobs \X Users)
  /\ faults \in 0..MaxFaults /\ crashes \in 0..MaxOutages
  /\ updates \in 0..MaxUpdates

Init ==
  /\ StoreInit
  /\ up = TRUE
  /\ maintenance = None
  /\ bindingReaders = {}
  /\ quotaResetKeys = {}
  /\ proc = [p \in Procs |-> IdleProc]
  /\ runner = IdleRunner
  /\ queue = {}
  /\ cancelled = FALSE
  /\ update = [asked |-> FALSE, journal |-> "none"]
  /\ requests = [j \in Jobs |-> [u \in Users |-> 0]]
  /\ effects = {}
  /\ faults = 0 /\ crashes = 0 /\ updates = 0

\* Mutant: an unbound user may be reset.
ResettableUnbound(u) == userStatus[u] = "live" /\ u \notin missing

\* OperationStatus.MaintenancePending: the status and the request are read,
\* the journal is not.
MaintenancePending == update.asked \/ update.journal = "recovering"

Resettable(u) ==
  userStatus[u] = "live" /\ binding[u] # None /\ u \notin missing

\* A store operation, or the end of an update, fails.
CountFault ==
  /\ faults < MaxFaults
  /\ faults' = faults + 1
  /\ UNCHANGED <<crashes, updates>>

-----------------------------------------------------------------------------
(* Administration and background sync while the portal is up.              *)

\* Mutant: the binding handlers do not take bindingMu.
ChangeBindingUnlocked ==
  /\ up
  /\ \E u \in Users : \/ \E k \in Keys : CreateUser(u, k) \/ SetBinding(u, k)
                      \/ DeleteBinding(u)
  /\ UNCHANGED <<update>>
  /\ UNCHANGED processVars /\ UNCHANGED historyVars /\ UNCHANGED boundVars

\* createUser, setBinding, deleteBinding and deleteUser, under bindingMu.
ChangeBinding ==
  /\ up
  /\ bindingReaders = {}
  /\ \E u \in Users : \/ \E k \in Keys : CreateUser(u, k) \/ SetBinding(u, k)
                      \/ DeleteBinding(u)
                      \/ DeleteUser(u)
  /\ UNCHANGED <<update>>
  /\ UNCHANGED processVars /\ UNCHANGED historyVars /\ UNCHANGED boundVars

\* The periodic key sync takes none of the three locks.
BackgroundSync ==
  /\ up
  /\ \E listed \in SUBSET Keys : ApplyKeySnapshots(listed)
  /\ UNCHANGED <<update>>
  /\ UNCHANGED processVars /\ UNCHANGED historyVars /\ UNCHANGED boundVars

\* A Sync("keys") a workflow waits for may fail, and then stores nothing.
ReconcileKeys ==
  missing' \in {missing} \cup {MissingFrom(listed) : listed \in SUBSET Keys}

-----------------------------------------------------------------------------
(* The upstream call: Manager.ResetQuota and Manager.SetKeyLimits.         *)

\* The kinds of answer the two status mappings tell apart.
\*   confirmed  2xx with a valid body, and the snapshot was stored
\*   unsaved    the same, but storing the snapshot failed
\*   refused    401, 403, 404, 429 or another 4xx
\*   broken     5xx, a dropped connection or a body that does not decode
\*   expired    a timeout
\*   canceled   the caller's context was cancelled
Answers == {"confirmed", "unsaved", "refused", "broken", "expired", "canceled"}

\* Mutant: a timeout counts as done.
resetTerminalStateOptimistic(answer) ==
  IF answer \in {"confirmed", "unsaved", "expired"} THEN "succeeded"
  ELSE IF answer = "canceled" THEN "unknown" ELSE "failed"

resetTerminalState(answer) ==
  CASE answer \in {"confirmed", "unsaved"} -> "succeeded"
    [] answer \in {"expired", "canceled"} -> "unknown"
    [] OTHER -> "failed"

limitFailureCode(answer) ==
  CASE answer = "confirmed" -> "succeeded"
    [] answer = "expired" -> "unknown"
    [] OTHER -> "failed"

Classify(kind, answer) ==
  IF kind = "reset" THEN resetTerminalState(answer) ELSE limitFailureCode(answer)

\* Sub2API confirms what it applied and refuses what it did not; any other
\* answer says nothing about the request.
CanAnswer(p, answer) ==
  CASE answer \in {"confirmed", "unsaved"} -> proc[p].applied
    [] answer = "refused" -> ~proc[p].applied
    [] OTHER -> TRUE

\* Mutant: the client sends again while the first request is out.
SendWithRetry(p) ==
  /\ proc[p].pc \in {"calling", "sent"}
  /\ proc' = [proc EXCEPT ![p].pc = "sent"]
  /\ requests' = IF p \in Workers
                 THEN [requests EXCEPT ![runner.job][proc[p].user] = @ + 1]
                 ELSE requests
  /\ UNCHANGED <<up, maintenance, bindingReaders, quotaResetKeys, runner,
                 queue, cancelled, update, effects>>
  /\ UNCHANGED storeVars /\ UNCHANGED boundVars

Send(p) ==
  /\ proc[p].pc = "calling"
  /\ proc' = [proc EXCEPT ![p].pc = "sent"]
  /\ requests' = IF p \in Workers
                 THEN [requests EXCEPT ![runner.job][proc[p].user] = @ + 1]
                 ELSE requests
  /\ UNCHANGED <<up, maintenance, bindingReaders, quotaResetKeys, runner,
                 queue, cancelled, update, effects>>
  /\ UNCHANGED storeVars /\ UNCHANGED boundVars

\* External: Sub2API executes the request.
UpstreamApply(p) ==
  /\ proc[p].pc = "sent" /\ ~proc[p].applied
  /\ proc' = [proc EXCEPT ![p].applied = TRUE]
  /\ effects' = IF p \in Workers
                THEN effects \cup {<<runner.job, proc[p].user>>}
                ELSE effects
  /\ UNCHANGED <<up, maintenance, bindingReaders, quotaResetKeys, runner,
                 queue, cancelled, update, requests>>
  /\ UNCHANGED storeVars /\ UNCHANGED boundVars

\* The call returns.  Both callers release bindingMu now; a worker also leaves
\* the gate, a handler only when it ends.
ReturnFromCall(p, answer) ==
  /\ proc' = [proc EXCEPT ![p].pc = "answered",
                          ![p].result = Classify(proc[p].kind, answer)]
  /\ bindingReaders' = bindingReaders \ {p}
  /\ quotaResetKeys' = IF p \in Workers THEN quotaResetKeys \ {proc[p].key}
                                        ELSE quotaResetKeys
  /\ UNCHANGED <<up, maintenance, runner, queue, cancelled, update>>
  /\ UNCHANGED historyVars /\ UNCHANGED boundVars

\* A confirmed limit change recomputes binding_state; a confirmed reset stores
\* usage only, which this module does not track.
Answer(p, answer) ==
  /\ proc[p].pc = "sent"
  /\ CanAnswer(p, answer)
  /\ ReturnFromCall(p, answer)
  /\ IF answer = "confirmed" /\ proc[p].kind = "limits"
     THEN ApplyKeyLimitChange(proc[p].key)
     ELSE UNCHANGED storeVars

\* The call fails before anything is sent: unreadable settings, an invalid
\* client, or a context that is already cancelled.
NotSent(p) ==
  /\ proc[p].pc = "calling"
  /\ \E answer \in {"broken", "expired", "canceled"} : ReturnFromCall(p, answer)
  /\ UNCHANGED storeVars

-----------------------------------------------------------------------------
(* The single-user handlers: resetUserQuota and setUserKeyLimits.          *)

\* Mutant: maintenanceMu protects the checks but not the call.
AdmitSingleBriefly(h, u, kind) ==
  /\ up
  /\ proc[h].pc = "idle" /\ maintenance = None /\ ~MaintenancePending
  /\ Resettable(u) /\ ~JobActive /\ binding[u] \notin quotaResetKeys
  /\ bindingReaders' = bindingReaders \cup {h}
  /\ quotaResetKeys' = quotaResetKeys \cup {binding[u]}
  /\ proc' = [proc EXCEPT ![h] = ProcAt("calling", kind, u, binding[u])]
  /\ UNCHANGED <<up, maintenance, runner, queue, cancelled, update>>
  /\ UNCHANGED storeVars /\ UNCHANGED historyVars /\ UNCHANGED boundVars

\* Mutant: the same, and the gate is entered without looking.
AdmitSingleUngated(h, u, kind) ==
  /\ up
  /\ proc[h].pc = "idle" /\ maintenance = None /\ ~MaintenancePending
  /\ Resettable(u) /\ ~JobActive
  /\ bindingReaders' = bindingReaders \cup {h}
  /\ quotaResetKeys' = quotaResetKeys \cup {binding[u]}
  /\ proc' = [proc EXCEPT ![h] = ProcAt("calling", kind, u, binding[u])]
  /\ UNCHANGED <<up, maintenance, runner, queue, cancelled, update>>
  /\ UNCHANGED storeVars /\ UNCHANGED historyVars /\ UNCHANGED boundVars

\* Everything up to beginQuotaReset: the update gate, the read lock, the
\* user, the active job and the key gate, with maintenanceMu held.
AdmitSingle(h, u, kind) ==
  /\ up
  /\ proc[h].pc = "idle"
  /\ maintenance = None
  /\ ~MaintenancePending
  /\ Resettable(u)
  /\ ~JobActive
  /\ binding[u] \notin quotaResetKeys
  /\ maintenance' = h
  /\ bindingReaders' = bindingReaders \cup {h}
  /\ quotaResetKeys' = quotaResetKeys \cup {binding[u]}
  /\ proc' = [proc EXCEPT ![h] = ProcAt("calling", kind, u, binding[u])]
  /\ UNCHANGED <<up, runner, queue, cancelled, update>>
  /\ UNCHANGED storeVars /\ UNCHANGED historyVars /\ UNCHANGED boundVars

\* Mutant: only a success unlocks maintenanceMu.
FinishSingleLeaking(h) ==
  /\ proc[h].pc = "answered"
  /\ quotaResetKeys' = quotaResetKeys \ {proc[h].key}
  /\ maintenance' = IF proc[h].result = "succeeded" THEN None ELSE maintenance
  /\ proc' = [proc EXCEPT ![h] = IdleProc]
  /\ UNCHANGED <<up, bindingReaders, runner, queue, cancelled, update>>
  /\ UNCHANGED storeVars /\ UNCHANGED historyVars /\ UNCHANGED boundVars

\* Reconcile after a confirmed mutation, audit, answer, and run the deferred
\* unlocks.
FinishSingle(h) ==
  /\ proc[h].pc = "answered"
  /\ IF proc[h].result = "succeeded" THEN ReconcileKeys ELSE UNCHANGED missing
  /\ quotaResetKeys' = quotaResetKeys \ {proc[h].key}
  /\ maintenance' = None
  /\ proc' = [proc EXCEPT ![h] = IdleProc]
  /\ UNCHANGED <<up, bindingReaders, runner, queue, cancelled, update>>
  /\ UNCHANGED <<userStatus, binding>> /\ UNCHANGED ledgerVars
  /\ UNCHANGED historyVars /\ UNCHANGED boundVars

-----------------------------------------------------------------------------
(* The batch: createQuotaResetJob, runQuotaResetJob, runQuotaResetItem.    *)

\* The handler holds maintenanceMu throughout.  CreateQuotaResetJob reads the
\* row back with the request context after the commit; when that read fails
\* the handler returns before starting the runner.
CreateQuotaResetJob(j) ==
  /\ up
  /\ maintenance = None
  /\ ~MaintenancePending
  /\ CreateJob(j)
  /\ \/ runner' = [pc |-> "start", job |-> j]
     \/ MayLoseCreate /\ UNCHANGED runner
  /\ UNCHANGED <<up, maintenance, bindingReaders, quotaResetKeys, proc, queue,
                 cancelled, update>>
  /\ UNCHANGED historyVars /\ UNCHANGED boundVars

\* The runner moves to pc, touching nothing but the store and the item queue.
RunnerGoes(pc) ==
  /\ runner' = IF pc = "idle" THEN IdleRunner ELSE [runner EXCEPT !.pc = pc]
  /\ UNCHANGED <<up, maintenance, bindingReaders, quotaResetKeys, proc,
                 update>>
  /\ UNCHANGED historyVars

RunnerStarts ==
  /\ runner.pc = "start"
  /\ UNCHANGED <<queue, cancelled>>
  /\ \/ MarkJobRunning(runner.job) /\ RunnerGoes("load") /\ UNCHANGED boundVars
     \/ CountFault /\ RunnerGoes("abort") /\ UNCHANGED storeVars

RunnerLoads ==
  /\ runner.pc = "load"
  /\ UNCHANGED storeVars
  /\ \/ /\ queue' = Items(runner.job) /\ cancelled' = FALSE
        /\ RunnerGoes("pool") /\ UNCHANGED boundVars
     \/ CountFault /\ RunnerGoes("abort") /\ UNCHANGED <<queue, cancelled>>

\* workers.Wait, after which the runner aborts or does the final key sync.
\* Workers drain the channel without working once jobCtx is cancelled.
RunnerWaits ==
  /\ runner.pc = "pool"
  /\ \A w \in Workers : proc[w].pc = "idle"
  /\ queue = {} \/ cancelled
  /\ queue' = {}
  /\ cancelled' = FALSE
  /\ \/ cancelled /\ RunnerGoes("abort") /\ UNCHANGED missing
     \/ ~cancelled /\ RunnerGoes("finish") /\ ReconcileKeys
  /\ UNCHANGED <<userStatus, binding>> /\ UNCHANGED ledgerVars
  /\ UNCHANGED boundVars

\* FinishQuotaResetJob reads the row back after its commit.  When only that
\* read fails the runner aborts a job that is completed, which changes nothing.
RunnerFinishes ==
  /\ runner.pc = "finish"
  /\ UNCHANGED <<queue, cancelled>>
  /\ \/ FinishJob(runner.job) /\ RunnerGoes("idle") /\ UNCHANGED boundVars
     \/ CountFault /\ RunnerGoes("abort") /\ UNCHANGED storeVars

\* A failure to persist the abort is only logged: the runner is gone and the
\* job stays active until the process restarts.
RunnerAborts ==
  /\ runner.pc = "abort"
  /\ UNCHANGED <<queue, cancelled>>
  /\ RunnerGoes("idle")
  /\ \/ AbortJob(runner.job) /\ UNCHANGED boundVars
     \/ CountFault /\ UNCHANGED storeVars

\* A worker's store operation fails: fatalErr is set and jobCtx cancelled.
Fatal(w) ==
  /\ CountFault
  /\ cancelled' = TRUE
  /\ proc' = [proc EXCEPT ![w] = IdleProc]
  /\ UNCHANGED <<up, maintenance, bindingReaders, quotaResetKeys, runner,
                 update>>
  /\ UNCHANGED storeVars /\ UNCHANGED historyVars

WorkerTakes(w) ==
  /\ runner.pc = "pool" /\ ~cancelled
  /\ proc[w].pc = "idle"
  /\ \E u \in queue :
       /\ queue' = queue \ {u}
       /\ \/ /\ MarkItemRunning(runner.job, u)
             /\ proc' = [proc EXCEPT ![w] =
                           ProcAt("marked", "reset", u, itemKey[runner.job][u])]
             /\ UNCHANGED <<up, maintenance, bindingReaders, quotaResetKeys,
                            runner, cancelled, update>>
             /\ UNCHANGED historyVars /\ UNCHANGED boundVars
          \/ Fatal(w)

\* validateQuotaResetItem: the user still holds the key of the snapshot.
StillValid(u, k) == k # None /\ binding[u] = k /\ Resettable(u)

\* The read lock is taken before the user is read; an item that is not reset
\* releases it again in the same step.
WorkerValidates(w) ==
  LET u == proc[w].user
      k == proc[w].key
      admitted == StillValid(u, k) /\ k \notin quotaResetKeys
  IN
  /\ proc[w].pc = "marked"
  /\ UNCHANGED <<up, maintenance, runner, queue, update>>
  /\ UNCHANGED storeVars /\ UNCHANGED historyVars
  /\ \/ /\ admitted
        /\ bindingReaders' = bindingReaders \cup {w}
        /\ quotaResetKeys' = quotaResetKeys \cup {k}
        /\ proc' = [proc EXCEPT ![w].pc = "calling"]
        /\ UNCHANGED cancelled /\ UNCHANGED boundVars
     \/ /\ ~admitted
        /\ proc' = [proc EXCEPT ![w].pc = "answered", ![w].result = "skipped"]
        /\ UNCHANGED <<bindingReaders, quotaResetKeys, cancelled>>
        /\ UNCHANGED boundVars
     \/ /\ IF cancelled THEN UNCHANGED boundVars ELSE CountFault
        /\ cancelled' = TRUE
        /\ proc' = [proc EXCEPT ![w] = IdleProc]
        /\ UNCHANGED <<bindingReaders, quotaResetKeys>>

WorkerCompletes(w) ==
  /\ proc[w].pc = "answered"
  /\ UNCHANGED queue
  /\ \/ /\ CompleteItem(runner.job, proc[w].user, proc[w].result)
        /\ proc' = [proc EXCEPT ![w] = IdleProc]
        /\ UNCHANGED <<up, maintenance, bindingReaders, quotaResetKeys, runner,
                       cancelled, update>>
        /\ UNCHANGED historyVars /\ UNCHANGED boundVars
     \/ Fatal(w)

-----------------------------------------------------------------------------
(* The process and the updater.                                            *)

\* The process ends: only the database and the history remain.
ProcessDies ==
  /\ up
  /\ up' = FALSE
  /\ maintenance' = None
  /\ bindingReaders' = {}
  /\ quotaResetKeys' = {}
  /\ proc' = [p \in Procs |-> IdleProc]
  /\ runner' = IdleRunner
  /\ queue' = {}
  /\ cancelled' = FALSE
  /\ UNCHANGED update
  /\ UNCHANGED storeVars /\ UNCHANGED historyVars

Crash ==
  /\ crashes + updates < MaxOutages
  /\ crashes' = crashes + 1
  /\ ProcessDies
  /\ UNCHANGED <<faults, updates>>

\* Mutant: startup leaves interrupted jobs as they were.
RestartUnrecovered ==
  /\ ~up
  /\ up' = TRUE
  /\ UNCHANGED storeVars
  /\ UNCHANGED <<maintenance, bindingReaders, quotaResetKeys, proc, runner,
                 queue, cancelled, update>>
  /\ UNCHANGED historyVars /\ UNCHANGED boundVars

\* httpapi.New recovers interrupted jobs before it serves; systemd restarts.
Restart ==
  /\ ~up
  /\ up' = TRUE
  /\ RecoverJobs
  /\ UNCHANGED <<maintenance, bindingReaders, quotaResetKeys, proc, runner,
                 queue, cancelled, update>>
  /\ UNCHANGED historyVars /\ UNCHANGED boundVars

\* Mutant: an update does not look at the active job.
applyUpdateUnchecked ==
  /\ up
  /\ maintenance = None /\ ~MaintenancePending
  /\ updates < MaxUpdates /\ crashes + updates < MaxOutages
  /\ updates' = updates + 1
  /\ update' = [update EXCEPT !.asked = TRUE]
  /\ UNCHANGED storeVars /\ UNCHANGED processVars /\ UNCHANGED historyVars
  /\ UNCHANGED <<faults, crashes>>

applyUpdate ==
  /\ up
  /\ maintenance = None
  /\ ~MaintenancePending
  /\ ~JobActive
  /\ updates < MaxUpdates /\ crashes + updates < MaxOutages
  /\ updates' = updates + 1
  /\ update' = [update EXCEPT !.asked = TRUE]
  /\ UNCHANGED storeVars /\ UNCHANGED processVars /\ UNCHANGED historyVars
  /\ UNCHANGED <<faults, crashes>>

\* External: the updater stops the portal it is about to replace, or to put
\* back while it recovers.
UpdaterStopsPortal ==
  /\ \/ update.asked /\ update.journal = "none"
     \/ update.journal = "recovering"
  /\ ProcessDies
  /\ UNCHANGED boundVars

\* External: the path unit finds a journal left behind, and the updater that
\* it starts reports that it recovers.
UpdaterRecovers ==
  /\ update.journal = "left"
  /\ update' = [update EXCEPT !.journal = "recovering"]
  /\ UNCHANGED storeVars /\ UNCHANGED processVars /\ UNCHANGED historyVars
  /\ UNCHANGED boundVars

\* External: the updater ends an operation, with a final status and without
\* its request, or a recovery.  Its journal may stay: the first write of it
\* was reported as failed though the file is there, or removing it failed.
UpdateEnds ==
  /\ \E asked \in BOOLEAN, journal \in {"none", "left"} :
       /\ update' = [asked |-> asked, journal |-> journal]
       /\ \/ update.journal = "recovering" /\ asked = update.asked
          \/ update.journal = "none" /\ update.asked /\ ~asked
       /\ IF journal = "left" THEN CountFault ELSE UNCHANGED boundVars
  /\ UNCHANGED storeVars /\ UNCHANGED processVars /\ UNCHANGED historyVars

-----------------------------------------------------------------------------
Administration == ChangeBinding \/ BackgroundSync

Calls(p) ==
  \/ Send(p) \/ UpstreamApply(p) \/ NotSent(p)
  \/ \E answer \in Answers : Answer(p, answer)

Singles == \E h \in Handlers :
  \/ \E u \in Users, kind \in Kinds : AdmitSingle(h, u, kind)
  \/ FinishSingle(h)

RunnerSteps ==
  RunnerStarts \/ RunnerLoads \/ RunnerWaits \/ RunnerFinishes \/ RunnerAborts

WorkerSteps(w) == WorkerTakes(w) \/ WorkerValidates(w) \/ WorkerCompletes(w)

Next ==
  \/ Administration
  \/ Singles
  \/ \E p \in Procs : Calls(p)
  \/ \E j \in Jobs : CreateQuotaResetJob(j)
  \/ RunnerSteps
  \/ \E w \in Workers : WorkerSteps(w)
  \/ Crash \/ Restart
  \/ applyUpdate \/ UpdaterStopsPortal \/ UpdaterRecovers \/ UpdateEnds

Spec == Init /\ [][Next]_vars

\* Go schedules every runnable goroutine; an upstream call is cut off after 15
\* seconds; systemd restarts the unit.  Nothing else has to happen.
Fairness ==
  /\ WF_vars(RunnerSteps)
  /\ \A w \in Workers : WF_vars(WorkerSteps(w))
  /\ \A p \in Procs : /\ WF_vars(Send(p) \/ NotSent(p))
                      /\ WF_vars(\E answer \in Answers : Answer(p, answer))
  /\ \A h \in Handlers : WF_vars(FinishSingle(h))
  /\ WF_vars(Restart)

FairSpec == Spec /\ Fairness

-----------------------------------------------------------------------------
(* Safety.                                                                 *)

InCall(p) == proc[p].pc \in {"calling", "sent"}

\* A reset that cannot be undone is asked for at most once per item, through
\* retries, store failures, crashes and restarts.
OneRequestPerItem ==
  \A j \in Jobs, u \in Users : requests[j][u] <= 1

\* What is reported is backed by what happened: a success was applied by
\* Sub2API, and an item that is pending or skipped never left the portal.
ReportsAreBacked ==
  /\ \A j \in Jobs, u \in Users :
       /\ itemStatus[j][u] = "succeeded" => <<j, u>> \in effects
       /\ itemStatus[j][u] \in {"none", "pending", "skipped"}
            => requests[j][u] = 0
  /\ \A p \in Procs : proc[p].result = "succeeded" => proc[p].applied

\* From validation until the upstream answers, the key of a call stays bound
\* to the user the call is made for: bindings wait, in either workflow.
BoundDuringCall ==
  \A p \in Procs : InCall(p) => binding[proc[p].user] = proc[p].key

\* "A limit change and a quota reset can never hit the same upstream key
\* concurrently" (admin_limits.go:134), nor can two resets.
OneCallPerKey ==
  \A p, q \in Procs :
    p # q /\ InCall(p) /\ InCall(q) => proc[p].key # proc[q].key

\* No batch item is given up because a handler, or another worker, has its
\* key: the RESET_IN_PROGRESS branch of runQuotaResetItem is a second line of
\* defence that single admission and the binding lock keep unused.
NoItemMeetsABusyKey ==
  \A w \in Workers :
    proc[w].pc = "marked" /\ StillValid(proc[w].user, proc[w].key)
      => proc[w].key \notin quotaResetKeys

\* While an update that was asked for is outstanding nothing it would kill is
\* under way: no active job and no goroutine inside a reset or a limit change.
\* (The recovery of a journal that an ended update left behind may find both:
\* until that recovery reports itself, MaintenancePending does not see it.)
UpdateFindsPortalQuiet ==
  update.asked => ~JobActive /\ \A p \in Procs : proc[p].pc = "idle"

\* A worker past its first store write holds an item that is running in a
\* running job, so no job is closed under a worker that still acts for it.
WorkersServeOpenItems ==
  \A w \in Workers :
    proc[w].pc # "idle" =>
      /\ runner.pc = "pool" /\ jobStatus[runner.job] = "running"
      /\ itemStatus[runner.job][proc[w].user] = "running"

\* A failed item was not applied: what the two status mappings would have to
\* guarantee for "failed" to mean more than "unknown".
FailedMeansNotApplied ==
  \A j \in Jobs, u \in Users :
    itemStatus[j][u] = "failed" => <<j, u>> \notin effects

-----------------------------------------------------------------------------
(* Refinement: the ledger and the workflow keep the batch promise.         *)

PromisedPhase ==
  [j \in Jobs |-> IF jobStatus[j] = "none" THEN "none"
                  ELSE IF jobStatus[j] = "completed" THEN "closed" ELSE "open"]

PromisedReport ==
  [j \in Jobs |-> [u \in Users |->
     IF itemStatus[j][u] \in OpenStatuses THEN "open" ELSE itemStatus[j][u]]]

Promise == INSTANCE BatchPromise
  WITH phase <- PromisedPhase, report <- PromisedReport,
       asked <- requests, done <- effects

\* Every step of the portal is a step of the abstract batch, or none.
KeepsThePromise == Promise!PromiseSpec

-----------------------------------------------------------------------------
(* Liveness.                                                               *)

\* A batch that was created is closed: by its runner, by the abort after a
\* store failure, or by recovery after a crash.
JobsComplete ==
  \A j \in Jobs : Active(j) ~> jobStatus[j] = "completed"

\* A handler that took maintenanceMu gives it back, whatever Sub2API does.
MaintenanceIsReleased == maintenance # None ~> maintenance = None
=============================================================================

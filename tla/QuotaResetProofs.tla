-------------------------- MODULE QuotaResetProofs --------------------------
(***************************************************************************)
(* Safety of the reset workflow for every set of users, keys, jobs,        *)
(* workers and handlers and every bound.                                   *)
(*                                                                         *)
(* The workflow only changes the store through the store's own actions, so *)
(* the ledger invariant is inherited; IInv adds who may be doing what.     *)
(***************************************************************************)
EXTENDS QuotaReset, QuotaResetStoreProofs

\* The runner, when there is one, owns the one active job.
RunnerOwnsJob ==
  runner.pc # "idle" =>
    /\ runner.job \in Jobs /\ Active(runner.job)
    /\ runner.pc \in {"load", "pool", "finish"} => jobStatus[runner.job] = "running"

\* No item was given to a worker before the pool starts, and what is still
\* queued then never was.
QueueIsPending ==
  /\ runner.pc \in {"start", "load"} =>
       \A u \in Users : itemStatus[runner.job][u] \in {"none", "pending"}
  /\ runner.pc = "pool" =>
       \A u \in queue : itemStatus[runner.job][u] = "pending"

\* A worker acts for an item of its own, with the key of the snapshot.
WorkersAreBusy ==
  \A w \in Workers : proc[w].pc # "idle" =>
    /\ proc[w].user \in Users /\ proc[w].kind = "reset"
    /\ proc[w].key = itemKey[runner.job][proc[w].user]
    /\ \A x \in Workers : x # w /\ proc[x].pc # "idle"
                            => proc[x].user # proc[w].user

\* A handler past admission holds maintenanceMu, and no batch is active.
HandlersAreAlone ==
  \A h \in Handlers : proc[h].pc # "idle" =>
    /\ proc[h].pc # "marked" /\ maintenance = h /\ ~JobActive

\* A process inside a call has the read lock and the gate for the key bound.
CallsAreGuarded ==
  \A p \in Procs : InCall(p) =>
    /\ proc[p].user \in Users /\ proc[p].key \in Keys
    /\ p \in bindingReaders /\ proc[p].key \in quotaResetKeys
    /\ binding[proc[p].user] = proc[p].key

\* Every key in the gate was put there by a process that is still at work.
GateHasOwners ==
  \A k \in quotaResetKeys : \E p \in Procs :
    proc[p].key = k /\ (InCall(p) \/ (p \in Handlers /\ proc[p].pc = "answered"))

\* Nothing is under way in a process that is not running.
DownIsQuiet ==
  ~up => runner.pc = "idle" /\ \A p \in Procs : proc[p].pc = "idle"

\* Requests are counted against items that have left "pending".
RequestsAreAccounted ==
  /\ OneRequestPerItem
  /\ \A j \in Jobs, u \in Users :
       itemStatus[j][u] \in {"none", "pending", "skipped"} => requests[j][u] = 0
  /\ \A w \in Workers :
       proc[w].pc \in {"marked", "calling"} \/ proc[w].result = "skipped"
         => proc[w].pc = "idle" \/ requests[runner.job][proc[w].user] = 0

\* An item or a process reports success only after Sub2API applied the reset.
SuccessIsApplied ==
  /\ \A j \in Jobs, u \in Users :
       itemStatus[j][u] = "succeeded" => <<j, u>> \in effects
  /\ \A p \in Procs :
       /\ proc[p].result = "succeeded" => proc[p].applied
       /\ proc[p].pc # "answered" => proc[p].result = "none"
       /\ proc[p].pc = "answered" => proc[p].result # "none"
       /\ proc[p].pc \in {"idle", "marked", "calling"} => ~proc[p].applied
  /\ \A w \in Workers : proc[w].applied => <<runner.job, proc[w].user>> \in effects

IInv ==
  /\ TypeOK
  /\ StoreInv
  /\ RunnerOwnsJob
  /\ QueueIsPending
  /\ WorkersServeOpenItems
  /\ WorkersAreBusy
  /\ HandlersAreAlone
  /\ CallsAreGuarded
  /\ GateHasOwners
  /\ DownIsQuiet
  /\ UpdateFindsPortalQuiet
  /\ RequestsAreAccounted
  /\ SuccessIsApplied

USE DEF UserStatuses, JobStatuses, OpenStatuses, TerminalStatuses,
        ItemStatuses, CounterNames, Kinds, Results, Procs, Answers,
        ProcStates, ProcAt, IdleProc, RunnerStates, IdleRunner

-----------------------------------------------------------------------------
(* What the invariant gives.                                               *)

LEMMA NoneIsApart == None \notin Users /\ None \notin Keys /\ None \notin Jobs
BY StoreConstants

\* Two processes never call for the same user, so never for the same key.
LEMMA InvExcludesCalls ==
  ASSUME IInv PROVE OneCallPerKey
<1> SUFFICES ASSUME NEW p \in Procs, NEW q \in Procs, p # q,
                    InCall(p), InCall(q), proc[p].key = proc[q].key
             PROVE  FALSE
  BY DEF OneCallPerKey
<1>1. proc[p].user = proc[q].user
  BY NoneIsApart DEF IInv, CallsAreGuarded, StoreInv, KeysAreExclusive
<1>2. proc[p].pc # "idle" /\ proc[q].pc # "idle"
  BY DEF InCall
<1>3. CASE p \in Workers /\ q \in Workers
  BY <1>1, <1>2, <1>3 DEF IInv, WorkersAreBusy
<1>4. CASE p \in Handlers /\ q \in Handlers
  BY <1>2, <1>4 DEF IInv, HandlersAreAlone
<1>5. ASSUME NEW w \in Workers, NEW h \in Handlers,
             proc[w].pc # "idle", proc[h].pc # "idle"
      PROVE  FALSE
  <2>1. JobActive
    BY <1>5 DEF IInv, WorkersServeOpenItems, RunnerOwnsJob, JobActive
  <2> QED
    BY <2>1, <1>5 DEF IInv, HandlersAreAlone
<1> QED
  BY <1>2, <1>3, <1>4, <1>5

\* The key of an item about to be validated is free.
LEMMA InvFreesKeys ==
  ASSUME IInv PROVE NoItemMeetsABusyKey
<1> SUFFICES ASSUME NEW w \in Workers, proc[w].pc = "marked",
                    StillValid(proc[w].user, proc[w].key),
                    proc[w].key \in quotaResetKeys
             PROVE  FALSE
  BY DEF NoItemMeetsABusyKey
<1>1. JobActive
  BY DEF IInv, WorkersServeOpenItems, RunnerOwnsJob, JobActive
<1>2. PICK p \in Procs : /\ proc[p].key = proc[w].key
                         /\ InCall(p) \/ (p \in Handlers /\ proc[p].pc = "answered")
  BY DEF IInv, GateHasOwners
<1>3. proc[p].pc # "idle"
  BY <1>2 DEF InCall
<1>4. p \in Workers
  BY <1>1, <1>3 DEF IInv, HandlersAreAlone
<1>5. InCall(p)
  BY <1>2, <1>4, QuotaResetConstants
<1>6. proc[p].user \in Users /\ proc[w].user \in Users /\ proc[p].key # None
  BY <1>5, NoneIsApart DEF IInv, CallsAreGuarded, WorkersAreBusy
<1>7. binding[proc[p].user] = binding[proc[w].user]
  BY <1>2, <1>5 DEF IInv, CallsAreGuarded, StillValid
<1>8. proc[p].user = proc[w].user
  BY <1>2, <1>5, <1>6, <1>7 DEF IInv, StoreInv, KeysAreExclusive, CallsAreGuarded
<1> QED
  BY <1>3, <1>4, <1>5, <1>8 DEF IInv, WorkersAreBusy, InCall

\* The safety properties the runs check follow from the invariant.
LEMMA InvIsSafe ==
  ASSUME IInv
  PROVE  /\ TypeOK /\ OneRequestPerItem /\ ReportsAreBacked /\ BoundDuringCall
         /\ OneCallPerKey /\ NoItemMeetsABusyKey /\ UpdateFindsPortalQuiet
         /\ WorkersServeOpenItems
<1>1. TypeOK /\ UpdateFindsPortalQuiet /\ WorkersServeOpenItems
  BY DEF IInv
<1>2. OneRequestPerItem /\ ReportsAreBacked
  BY DEF IInv, RequestsAreAccounted, ReportsAreBacked, SuccessIsApplied
<1>3. BoundDuringCall
  BY DEF IInv, CallsAreGuarded, BoundDuringCall
<1> QED
  BY <1>1, <1>2, <1>3, InvExcludesCalls, InvFreesKeys

-----------------------------------------------------------------------------
(* The workflow changes the store by the store's own actions only.         *)

LEMMA ReconcileIsStoreStep ==
  ASSUME ReconcileKeys, UNCHANGED <<userStatus, binding>>, UNCHANGED ledgerVars
  PROVE  [StoreNext]_storeVars
<1>1. CASE missing' = missing
  BY <1>1 DEF storeVars, ledgerVars
<1>2. CASE \E listed \in SUBSET Keys : missing' = MissingFrom(listed)
  BY <1>2 DEF StoreNext, ApplyKeySnapshots
<1> QED
  BY <1>1, <1>2 DEF ReconcileKeys

LEMMA StepIsStoreStep ==
  ASSUME IInv, Next PROVE [StoreNext]_storeVars
<1>1. ASSUME ChangeBinding \/ BackgroundSync PROVE [StoreNext]_storeVars
  BY <1>1 DEF ChangeBinding, BackgroundSync, StoreNext
<1>2. ASSUME NEW h \in Handlers, FinishSingle(h) PROVE [StoreNext]_storeVars
  <2>1. CASE missing' = missing
    BY <1>2, <2>1 DEF FinishSingle, storeVars, ledgerVars
  <2>2. CASE ReconcileKeys
    BY <1>2, <2>2, ReconcileIsStoreStep DEF FinishSingle
  <2> QED
    BY <1>2, <2>1, <2>2 DEF FinishSingle
<1>3. ASSUME NEW p \in Procs, Calls(p) PROVE [StoreNext]_storeVars
  <2>1. ASSUME NEW answer \in Answers, Answer(p, answer)
        PROVE  [StoreNext]_storeVars
    <3>1. InCall(p)
      BY <2>1 DEF Answer, InCall
    <3>2. proc[p].key \in Keys
      BY <3>1 DEF IInv, CallsAreGuarded
    <3> QED
      BY <2>1, <3>2 DEF Answer, StoreNext
  <2> QED
    BY <1>3, <2>1 DEF Calls, Send, UpstreamApply, NotSent
<1>4. ASSUME NEW j \in Jobs, CreateQuotaResetJob(j) PROVE [StoreNext]_storeVars
  BY <1>4 DEF CreateQuotaResetJob, StoreNext
<1>5. ASSUME RunnerSteps PROVE [StoreNext]_storeVars
  <2>1. runner.pc # "idle" => runner.job \in Jobs
    BY DEF IInv, RunnerOwnsJob
  <2>2. CASE RunnerStarts
    BY <2>1, <2>2 DEF RunnerStarts, StoreNext
  <2>3. CASE RunnerLoads
    BY <2>3 DEF RunnerLoads
  <2>4. CASE RunnerWaits
    <3>1. CASE missing' = missing
      BY <2>4, <3>1 DEF RunnerWaits, storeVars, ledgerVars
    <3>2. CASE ReconcileKeys
      BY <2>4, <3>2, ReconcileIsStoreStep DEF RunnerWaits
    <3> QED
      BY <2>4, <3>1, <3>2 DEF RunnerWaits
  <2>5. CASE RunnerFinishes
    BY <2>1, <2>5 DEF RunnerFinishes, StoreNext
  <2>6. CASE RunnerAborts
    BY <2>1, <2>6 DEF RunnerAborts, StoreNext
  <2> QED
    BY <1>5, <2>2, <2>3, <2>4, <2>5, <2>6 DEF RunnerSteps
<1>6. ASSUME NEW w \in Workers, WorkerSteps(w) PROVE [StoreNext]_storeVars
  <2>1. proc[w].pc # "idle" => runner.job \in Jobs /\ proc[w].user \in Users
    BY DEF IInv, WorkersServeOpenItems, WorkersAreBusy, RunnerOwnsJob
  <2>2. queue \subseteq Users /\ (runner.pc = "pool" => runner.job \in Jobs)
    BY DEF IInv, TypeOK, RunnerOwnsJob
  <2>3. CASE WorkerTakes(w)
    BY <2>2, <2>3 DEF WorkerTakes, Fatal, StoreNext
  <2>4. CASE WorkerValidates(w)
    BY <2>4 DEF WorkerValidates
  <2>5. CASE WorkerCompletes(w)
    <3>1. CASE Fatal(w)
      BY <3>1 DEF Fatal
    <3>2. CASE CompleteItem(runner.job, proc[w].user, proc[w].result)
      <4>1. proc[w].result \in TerminalStatuses
        BY <3>2 DEF CompleteItem
      <4> QED
        BY <2>1, <2>5, <3>2, <4>1 DEF WorkerCompletes, StoreNext
    <3> QED
      BY <2>5, <3>1, <3>2 DEF WorkerCompletes
  <2> QED
    BY <1>6, <2>3, <2>4, <2>5 DEF WorkerSteps
<1>7. ASSUME \/ Crash \/ UpdaterStopsPortal \/ applyUpdate
             \/ UpdaterRecovers \/ UpdateEnds
      PROVE  [StoreNext]_storeVars
  BY <1>7 DEF Crash, UpdaterStopsPortal, ProcessDies, applyUpdate,
              UpdaterRecovers, UpdateEnds
<1>8. ASSUME Restart PROVE [StoreNext]_storeVars
  BY <1>8 DEF Restart, StoreNext
<1>9. ASSUME NEW h \in Handlers, NEW u \in Users, NEW kind \in Kinds,
             AdmitSingle(h, u, kind)
      PROVE  [StoreNext]_storeVars
  BY <1>9 DEF AdmitSingle
<1> QED
  BY <1>1, <1>2, <1>3, <1>4, <1>5, <1>6, <1>7, <1>8, <1>9
     DEF Next, Administration, Singles

\* So the ledger stays sound under the workflow.
LEMMA StepKeepsStore ==
  ASSUME IInv, Next PROVE StoreInv'
BY StepIsStoreStep, StoreStepInv DEF IInv

-----------------------------------------------------------------------------
(* Every action keeps the invariant.                                       *)

USE DEF storeVars, directoryVars, ledgerVars, processVars, historyVars, boundVars

\* Bindings change only while no process is inside a call.
LEMMA AdministrationInv ==
  ASSUME IInv, StoreInv', Administration PROVE IInv'
<1> USE DEF Administration
<1>1. UNCHANGED <<ledgerVars, processVars, historyVars, boundVars, update>>
  BY DEF ChangeBinding, BackgroundSync, CreateUser, SetBinding, DeleteBinding,
         DeleteUser, ApplyKeySnapshots
<1>2. TypeOK'
  BY <1>1 DEF IInv, StoreInv, TypeOK
<1>3. RunnerOwnsJob' /\ QueueIsPending' /\ WorkersServeOpenItems' /\ WorkersAreBusy'
  BY <1>1 DEF IInv, RunnerOwnsJob, Active, QueueIsPending, WorkersServeOpenItems,
              WorkersAreBusy
<1>4. HandlersAreAlone' /\ GateHasOwners' /\ DownIsQuiet' /\ UpdateFindsPortalQuiet'
  BY <1>1 DEF IInv, HandlersAreAlone, GateHasOwners, DownIsQuiet, InCall,
              UpdateFindsPortalQuiet, JobActive, Active
<1>5. RequestsAreAccounted' /\ SuccessIsApplied'
  BY <1>1 DEF IInv, RequestsAreAccounted, OneRequestPerItem, SuccessIsApplied
<1>6. CallsAreGuarded'
  <2>1. CASE BackgroundSync
    BY <1>1, <2>1 DEF IInv, CallsAreGuarded, InCall, BackgroundSync, ApplyKeySnapshots
  <2>2. CASE ChangeBinding
    BY <1>1, <2>2 DEF IInv, CallsAreGuarded, InCall, ChangeBinding
  <2> QED
    BY <2>1, <2>2
<1> QED
  BY <1>2, <1>3, <1>4, <1>5, <1>6 DEF IInv

\* The updater takes what was asked for away, or turns to a journal; the portal
\* may be at work meanwhile.
LEMMA UpdaterInv ==
  ASSUME IInv, StoreInv', UpdaterRecovers \/ UpdateEnds PROVE IInv'
<1>1. /\ UNCHANGED <<storeVars, processVars, historyVars, crashes, updates>>
      /\ UNCHANGED boundVars \/ CountFault
  BY DEF UpdaterRecovers, UpdateEnds, CountFault
<1>2. update' \in Updates /\ (update'.asked => update.asked)
  <2>1. CASE UpdaterRecovers
    BY <2>1 DEF UpdaterRecovers, IInv, TypeOK, Updates
  <2>2. CASE UpdateEnds
    <3>1. PICK asked \in BOOLEAN, journal \in {"none", "left"} :
            /\ update' = [asked |-> asked, journal |-> journal]
            /\ asked => asked = update.asked
      BY <2>2 DEF UpdateEnds
    <3>2. update'.asked = asked
      BY <3>1
    <3> QED
      BY <3>1, <3>2 DEF Updates
  <2> QED
    BY <2>1, <2>2
<1>3. TypeOK'
  <2>1. faults' \in 0..MaxFaults
    BY <1>1, QuotaResetConstants DEF CountFault, IInv, TypeOK
  <2> QED
    BY <1>1, <1>2, <2>1 DEF IInv, StoreInv, TypeOK
<1>4. RunnerOwnsJob' /\ QueueIsPending' /\ WorkersServeOpenItems' /\ WorkersAreBusy'
  BY <1>1 DEF IInv, RunnerOwnsJob, Active, QueueIsPending, WorkersServeOpenItems,
              WorkersAreBusy
<1>5. HandlersAreAlone' /\ GateHasOwners' /\ DownIsQuiet' /\ CallsAreGuarded'
  BY <1>1 DEF IInv, HandlersAreAlone, GateHasOwners, DownIsQuiet, InCall,
              CallsAreGuarded, JobActive, Active
<1>6. UpdateFindsPortalQuiet'
  BY <1>1, <1>2 DEF IInv, UpdateFindsPortalQuiet, JobActive, Active
<1>7. RequestsAreAccounted' /\ SuccessIsApplied'
  BY <1>1 DEF IInv, RequestsAreAccounted, OneRequestPerItem, SuccessIsApplied
<1> QED
  BY <1>3, <1>4, <1>5, <1>6, <1>7 DEF IInv

\* The request leaves: for a batch item, the first one.
LEMMA SendInv ==
  ASSUME IInv, StoreInv', NEW p \in Procs, Send(p) PROVE IInv'
<1> USE DEF Send
<1>1. /\ InCall(p) /\ proc[p].pc = "calling"
      /\ proc'[p].pc = "sent" /\ proc'[p].kind = proc[p].kind
      /\ proc'[p].user = proc[p].user /\ proc'[p].key = proc[p].key
      /\ proc'[p].applied = proc[p].applied /\ proc'[p].result = proc[p].result
      /\ \A q \in Procs \ {p} : proc'[q] = proc[q]
  BY DEF IInv, TypeOK, InCall
<1>2. \A q \in Procs : /\ proc'[q].kind = proc[q].kind /\ proc'[q].user = proc[q].user
                       /\ proc'[q].key = proc[q].key
                       /\ proc'[q].applied = proc[q].applied
                       /\ proc'[q].result = proc[q].result
                       /\ InCall(q)' = InCall(q)
                       /\ (proc'[q].pc = "idle") = (proc[q].pc = "idle")
                       /\ (proc'[q].pc = "marked") = (proc[q].pc = "marked")
                       /\ (proc'[q].pc = "answered") = (proc[q].pc = "answered")
                       /\ proc'[q].pc = "calling" => proc[q].pc = "calling"
  BY <1>1 DEF InCall
<1>3. p \in Workers => runner.job \in Jobs /\ proc[p].user \in Users
                       /\ itemStatus[runner.job][proc[p].user] = "running"
                       /\ requests[runner.job][proc[p].user] = 0
  BY <1>1 DEF IInv, WorkersServeOpenItems, RunnerOwnsJob, WorkersAreBusy,
              RequestsAreAccounted, InCall
<1>4. TypeOK'
  <2>1. proc' \in [Procs -> ProcStates]
    BY DEF IInv, TypeOK
  <2>2. requests' \in [Jobs -> [Users -> Nat]]
    BY <1>3 DEF IInv, TypeOK
  <2> QED
    BY <2>1, <2>2 DEF IInv, StoreInv, TypeOK
<1>5. RunnerOwnsJob' /\ QueueIsPending'
  BY DEF IInv, RunnerOwnsJob, Active, QueueIsPending
<1>6. WorkersServeOpenItems' /\ WorkersAreBusy'
  BY <1>2 DEF IInv, WorkersServeOpenItems, WorkersAreBusy
<1>7. HandlersAreAlone' /\ CallsAreGuarded'
  BY <1>2 DEF IInv, HandlersAreAlone, CallsAreGuarded, JobActive, Active
<1>8. GateHasOwners'
  BY <1>2 DEF IInv, GateHasOwners
<1>9. DownIsQuiet' /\ UpdateFindsPortalQuiet'
  BY <1>2 DEF IInv, DownIsQuiet, UpdateFindsPortalQuiet, JobActive, Active
<1>10. RequestsAreAccounted'
  <2>1. CASE p \in Handlers \ Workers
    BY <1>2, <2>1 DEF IInv, RequestsAreAccounted, OneRequestPerItem
  <2>2. CASE p \in Workers
    <3>1. \A j \in Jobs, u \in Users :
            requests'[j][u] = IF j = runner.job /\ u = proc[p].user
                              THEN 1 ELSE requests[j][u]
      BY <1>3, <2>2 DEF IInv, TypeOK
    <3>2. \A w \in Workers \ {p} : proc[w].pc # "idle" => proc[w].user # proc[p].user
      BY <1>1, <2>2 DEF IInv, WorkersAreBusy
    <3>3. OneRequestPerItem'
      BY <3>1 DEF IInv, RequestsAreAccounted, OneRequestPerItem
    <3>4. \A j \in Jobs, u \in Users :
            itemStatus'[j][u] \in {"none", "pending", "skipped"} => requests'[j][u] = 0
      BY <1>3, <2>2, <3>1 DEF IInv, RequestsAreAccounted
    <3>5. \A w \in Workers \ {p} :
            proc'[w].pc \in {"marked", "calling"} \/ proc'[w].result = "skipped"
              => proc'[w].pc = "idle" \/ requests'[runner'.job][proc'[w].user] = 0
      BY <1>1, <1>3, <2>2, <3>1, <3>2
         DEF IInv, RequestsAreAccounted, WorkersAreBusy, WorkersServeOpenItems,
             RunnerOwnsJob
    <3>6. proc'[p].result = "none" /\ proc'[p].pc = "sent"
      BY <1>1, <1>2 DEF IInv, SuccessIsApplied
    <3> QED
      BY <3>3, <3>4, <3>5, <3>6 DEF RequestsAreAccounted
  <2> QED
    BY <2>1, <2>2
<1>11. SuccessIsApplied'
  BY <1>1, <1>2 DEF IInv, SuccessIsApplied
<1> QED
  BY <1>4, <1>5, <1>6, <1>7, <1>8, <1>9, <1>10, <1>11 DEF IInv

LEMMA UpstreamApplyInv ==
  ASSUME IInv, StoreInv', NEW p \in Procs, UpstreamApply(p) PROVE IInv'
<1> USE DEF UpstreamApply
<1>1. \A q \in Procs : /\ proc'[q].kind = proc[q].kind /\ proc'[q].user = proc[q].user
                       /\ proc'[q].key = proc[q].key /\ proc'[q].pc = proc[q].pc
                       /\ proc'[q].result = proc[q].result
                       /\ InCall(q)' = InCall(q)
  BY DEF IInv, TypeOK, InCall
<1>2. /\ proc[p].pc = "sent" /\ proc'[p].applied
      /\ \A q \in Procs \ {p} : proc'[q] = proc[q]
  BY DEF IInv, TypeOK
<1>3. p \in Workers => runner.job \in Jobs /\ proc[p].user \in Users
  BY <1>2 DEF IInv, WorkersServeOpenItems, RunnerOwnsJob, WorkersAreBusy
<1>4. TypeOK'
  <2>1. proc' \in [Procs -> ProcStates]
    <3>1. [proc[p] EXCEPT !.applied = TRUE] \in ProcStates
      BY DEF IInv, TypeOK
    <3> QED
      BY <3>1 DEF IInv, TypeOK
  <2>2. effects' \in SUBSET (Jobs \X Users)
    BY <1>3 DEF IInv, TypeOK
  <2> QED
    BY <2>1, <2>2 DEF IInv, StoreInv, TypeOK
<1>5. RunnerOwnsJob' /\ QueueIsPending'
  BY DEF IInv, RunnerOwnsJob, Active, QueueIsPending
<1>6. WorkersServeOpenItems' /\ WorkersAreBusy'
  BY <1>1 DEF IInv, WorkersServeOpenItems, WorkersAreBusy
<1>7. HandlersAreAlone' /\ CallsAreGuarded'
  BY <1>1 DEF IInv, HandlersAreAlone, CallsAreGuarded, JobActive, Active
<1>8. GateHasOwners'
  BY <1>1 DEF IInv, GateHasOwners
<1>9. DownIsQuiet' /\ UpdateFindsPortalQuiet'
  BY <1>1 DEF IInv, DownIsQuiet, UpdateFindsPortalQuiet, JobActive, Active
<1>10. RequestsAreAccounted'
  BY <1>1 DEF IInv, RequestsAreAccounted, OneRequestPerItem
<1>11. SuccessIsApplied'
  BY <1>1, <1>2 DEF IInv, SuccessIsApplied
<1> QED
  BY <1>4, <1>5, <1>6, <1>7, <1>8, <1>9, <1>10, <1>11 DEF IInv

\* A success is classified only from an answer Sub2API gives after applying.
LEMMA ClassifyIsHonest ==
  ASSUME NEW kind \in Kinds, NEW answer \in Answers
  PROVE  /\ Classify(kind, answer) \in {"succeeded", "failed", "unknown"}
         /\ Classify(kind, answer) = "succeeded" => answer \in {"confirmed", "unsaved"}
BY DEF Classify, resetTerminalState, limitFailureCode

\* The call returns: its locks go, the other calls keep theirs.
LEMMA ReturnInv ==
  ASSUME IInv, StoreInv', NEW p \in Procs, NEW answer \in Answers, InCall(p),
         answer \in {"confirmed", "unsaved"} => proc[p].applied,
         ReturnFromCall(p, answer),
         UNCHANGED <<userStatus, binding>>, UNCHANGED ledgerVars
  PROVE  IInv'
<1> DEFINE result == Classify(proc[p].kind, answer)
<1>1. /\ result \in {"succeeded", "failed", "unknown"}
      /\ result = "succeeded" => proc[p].applied
  BY ClassifyIsHonest DEF IInv, TypeOK
<1> HIDE DEF result
<1> USE DEF ReturnFromCall
<1>2. /\ bindingReaders' = bindingReaders \ {p}
      /\ quotaResetKeys' = IF p \in Workers THEN quotaResetKeys \ {proc[p].key}
                                            ELSE quotaResetKeys
      /\ UNCHANGED <<up, maintenance, runner, queue, cancelled, update>>
      /\ UNCHANGED <<requests, effects, faults, crashes, updates>>
  OBVIOUS
<1>3. proc' = [proc EXCEPT ![p].pc = "answered", ![p].result = result]
  BY DEF result
<1> USE DEF InCall
<1>4. proc[p].pc # "idle" /\ proc'[p].pc = "answered" /\ proc'[p].result = result
  BY <1>3 DEF IInv, TypeOK
<1>5. \A q \in Procs : /\ proc'[q].kind = proc[q].kind /\ proc'[q].user = proc[q].user
                       /\ proc'[q].key = proc[q].key
                       /\ proc'[q].applied = proc[q].applied
                       /\ q # p => proc'[q] = proc[q]
  BY <1>3 DEF IInv, TypeOK
<1>6. \A q \in Procs : (proc'[q].pc = "idle") = (proc[q].pc = "idle")
  BY <1>4, <1>5
<1> HIDE DEF ReturnFromCall
<1>7. TypeOK'
  <2>1. proc' \in [Procs -> ProcStates]
    BY <1>1, <1>3 DEF IInv, TypeOK
  <2> QED
    BY <1>2, <2>1 DEF IInv, StoreInv, TypeOK
<1>8. RunnerOwnsJob' /\ QueueIsPending'
  BY <1>2 DEF IInv, RunnerOwnsJob, Active, QueueIsPending
<1>9. WorkersServeOpenItems' /\ WorkersAreBusy'
  BY <1>2, <1>5, <1>6 DEF IInv, WorkersServeOpenItems, WorkersAreBusy
<1>10. HandlersAreAlone'
  BY <1>2, <1>4, <1>5 DEF IInv, HandlersAreAlone, JobActive, Active
<1>11. CallsAreGuarded'
  <2> SUFFICES ASSUME NEW q \in Procs, InCall(q)'
               PROVE  /\ proc'[q].user \in Users /\ proc'[q].key \in Keys
                      /\ q \in bindingReaders' /\ proc'[q].key \in quotaResetKeys'
                      /\ binding'[proc'[q].user] = proc'[q].key
    BY DEF CallsAreGuarded
  <2>1. q # p /\ InCall(q)
    BY <1>4, <1>5
  <2>2. proc[q].key # proc[p].key
    BY <2>1, InvExcludesCalls DEF OneCallPerKey
  <2> QED
    BY <1>2, <1>5, <2>1, <2>2 DEF IInv, CallsAreGuarded
<1>12. GateHasOwners'
  <2> SUFFICES ASSUME NEW k \in quotaResetKeys'
               PROVE  \E q \in Procs : /\ proc'[q].key = k
                        /\ \/ InCall(q)'
                           \/ q \in Handlers /\ proc'[q].pc = "answered"
    BY DEF GateHasOwners
  <2>1. PICK q \in Procs : /\ proc[q].key = k
                           /\ InCall(q) \/ (q \in Handlers /\ proc[q].pc = "answered")
    BY <1>2 DEF IInv, GateHasOwners
  <2>2. CASE q # p
    BY <1>5, <2>1, <2>2
  <2>3. CASE q = p
    BY <1>2, <1>4, <1>5, <2>1, <2>3 DEF Procs
  <2> QED
    BY <2>2, <2>3
<1>13. DownIsQuiet' /\ UpdateFindsPortalQuiet'
  BY <1>2, <1>6 DEF IInv, DownIsQuiet, UpdateFindsPortalQuiet, JobActive, Active
<1>14. RequestsAreAccounted'
  <2>1. OneRequestPerItem' /\ \A j \in Jobs, u \in Users :
          itemStatus'[j][u] \in {"none", "pending", "skipped"} => requests'[j][u] = 0
    BY <1>2 DEF IInv, RequestsAreAccounted, OneRequestPerItem
  <2>2. \A w \in Workers :
          proc'[w].pc \in {"marked", "calling"} \/ proc'[w].result = "skipped"
            => proc'[w].pc = "idle" \/ requests'[runner'.job][proc'[w].user] = 0
    BY <1>1, <1>2, <1>4, <1>5 DEF IInv, RequestsAreAccounted
  <2> QED
    BY <2>1, <2>2 DEF RequestsAreAccounted
<1>15. SuccessIsApplied'
  <2>1. \A j \in Jobs, u \in Users :
          itemStatus'[j][u] = "succeeded" => <<j, u>> \in effects'
    BY <1>2 DEF IInv, SuccessIsApplied
  <2>2. \A w \in Workers : proc'[w].applied => <<runner'.job, proc'[w].user>> \in effects'
    BY <1>2, <1>5 DEF IInv, SuccessIsApplied
  <2>3. \A q \in Procs :
          /\ proc'[q].result = "succeeded" => proc'[q].applied
          /\ proc'[q].pc # "answered" => proc'[q].result = "none"
          /\ proc'[q].pc = "answered" => proc'[q].result # "none"
          /\ proc'[q].pc \in {"idle", "marked", "calling"} => ~proc'[q].applied
    BY <1>1, <1>4, <1>5 DEF IInv, SuccessIsApplied
  <2> QED
    BY <2>1, <2>2, <2>3 DEF SuccessIsApplied
<1> QED
  BY <1>7, <1>8, <1>9, <1>10, <1>11, <1>12, <1>13, <1>14, <1>15 DEF IInv

LEMMA CallsInv ==
  ASSUME IInv, StoreInv', NEW p \in Procs, Calls(p) PROVE IInv'
<1>1. ASSUME NEW answer \in Answers, Answer(p, answer) PROVE IInv'
  <2>1. InCall(p) /\ (answer \in {"confirmed", "unsaved"} => proc[p].applied)
    BY <1>1 DEF Answer, CanAnswer, InCall
  <2>2. UNCHANGED <<userStatus, binding>> /\ UNCHANGED ledgerVars
    BY <1>1 DEF Answer, ApplyKeyLimitChange
  <2> QED
    BY <1>1, <2>1, <2>2, ReturnInv DEF Answer
<1>2. ASSUME NotSent(p) PROVE IInv'
  <2>1. PICK answer \in Answers : ReturnFromCall(p, answer)
                                  /\ answer \notin {"confirmed", "unsaved"}
    BY <1>2 DEF NotSent
  <2>2. InCall(p) /\ UNCHANGED storeVars
    BY <1>2 DEF NotSent, InCall
  <2> QED
    BY <2>1, <2>2, ReturnInv
<1> QED
  BY <1>1, <1>2, SendInv, UpstreamApplyInv DEF Calls

\* A handler enters alone: nobody else is at work, and no batch is active.
LEMMA AdmitSingleInv ==
  ASSUME IInv, StoreInv', NEW h \in Handlers, NEW u \in Users, NEW kind \in Kinds,
         AdmitSingle(h, u, kind)
  PROVE  IInv'
<1> USE DEF AdmitSingle
<1>1. h \in Procs /\ h \notin Workers /\ binding[u] \in Keys
  BY QuotaResetConstants DEF IInv, StoreInv, StoreTypeOK, Resettable
<1>2. proc' = [proc EXCEPT ![h] = ProcAt("calling", kind, u, binding[u])]
  OBVIOUS
<1>3. /\ proc'[h] = ProcAt("calling", kind, u, binding[u])
      /\ \A q \in Procs \ {h} : proc'[q] = proc[q]
  BY <1>1, <1>2 DEF IInv, TypeOK
<1>4. /\ proc'[h].pc = "calling" /\ proc'[h].kind = kind /\ proc'[h].user = u
      /\ proc'[h].key = binding[u] /\ ~proc'[h].applied /\ proc'[h].result = "none"
  BY <1>3
<1> HIDE DEF ProcAt
<1>5. TypeOK'
  <2>1. proc' \in [Procs -> ProcStates]
    BY <1>1, <1>2 DEF IInv, TypeOK, ProcAt
  <2> QED
    BY <1>1, <2>1 DEF IInv, StoreInv, TypeOK
<1>6. RunnerOwnsJob' /\ QueueIsPending'
  BY DEF IInv, RunnerOwnsJob, Active, QueueIsPending
<1>7. runner.pc = "idle" /\ \A q \in Procs : proc[q].pc = "idle"
  BY QuotaResetConstants DEF IInv, RunnerOwnsJob, JobActive, WorkersServeOpenItems, HandlersAreAlone
<1>8. WorkersServeOpenItems' /\ WorkersAreBusy'
  BY <1>1, <1>3, <1>7 DEF IInv, WorkersServeOpenItems, WorkersAreBusy
<1>9. HandlersAreAlone'
  BY <1>3, <1>4, <1>7 DEF IInv, HandlersAreAlone, JobActive, Active
<1>10. CallsAreGuarded'
  BY <1>1, <1>3, <1>4, <1>7 DEF IInv, CallsAreGuarded, InCall
<1>11. GateHasOwners'
  <2>1. quotaResetKeys = {}
    BY <1>7 DEF IInv, GateHasOwners, InCall
  <2> QED
    BY <1>1, <1>4, <2>1 DEF GateHasOwners, InCall
<1>12. DownIsQuiet' /\ UpdateFindsPortalQuiet'
  BY DEF IInv, DownIsQuiet, UpdateFindsPortalQuiet, MaintenancePending
<1>13. RequestsAreAccounted'
  BY <1>1, <1>3 DEF IInv, RequestsAreAccounted, OneRequestPerItem
<1>14. SuccessIsApplied'
  BY <1>1, <1>3, <1>4 DEF IInv, SuccessIsApplied
<1> QED
  BY <1>5, <1>6, <1>8, <1>9, <1>10, <1>11, <1>12, <1>13, <1>14 DEF IInv

\* It leaves with everything it took.
LEMMA FinishSingleInv ==
  ASSUME IInv, StoreInv', NEW h \in Handlers, FinishSingle(h) PROVE IInv'
<1> USE DEF FinishSingle
<1>1. h \in Procs /\ h \notin Workers
  BY QuotaResetConstants
<1>2. proc' = [proc EXCEPT ![h] = IdleProc]
  OBVIOUS
<1>3. /\ \A q \in Procs \ {h} : proc'[q] = proc[q]
      /\ proc'[h].pc = "idle" /\ ~proc'[h].applied /\ proc'[h].result = "none"
  BY <1>1, <1>2 DEF IInv, TypeOK
<1>4. /\ maintenance = h /\ ~JobActive /\ runner.pc = "idle"
      /\ \A q \in Procs \ {h} : proc[q].pc = "idle"
  BY <1>1 DEF IInv, RunnerOwnsJob, JobActive, WorkersServeOpenItems, HandlersAreAlone
<1>5. \A q \in Procs : proc'[q].pc = "idle"
  BY <1>3, <1>4
<1>6. TypeOK'
  <2>1. proc' \in [Procs -> ProcStates]
    BY <1>1, <1>2 DEF IInv, TypeOK
  <2> QED
    BY <1>1, <2>1 DEF IInv, StoreInv, TypeOK
<1>7. RunnerOwnsJob' /\ QueueIsPending'
  BY DEF IInv, RunnerOwnsJob, Active, QueueIsPending
<1>8. /\ WorkersServeOpenItems' /\ WorkersAreBusy' /\ HandlersAreAlone'
      /\ CallsAreGuarded'
  BY <1>5 DEF WorkersServeOpenItems, WorkersAreBusy, HandlersAreAlone,
              CallsAreGuarded, InCall
<1>9. GateHasOwners'
  <2>1. \A k \in quotaResetKeys : proc[h].key = k
    BY <1>4 DEF IInv, GateHasOwners, InCall
  <2>2. quotaResetKeys' = {}
    BY <2>1
  <2> QED
    BY <2>2 DEF GateHasOwners
<1>10. DownIsQuiet' /\ UpdateFindsPortalQuiet'
  BY <1>4, <1>5 DEF IInv, DownIsQuiet, UpdateFindsPortalQuiet, JobActive, Active
<1>11. RequestsAreAccounted'
  BY <1>1, <1>3 DEF IInv, RequestsAreAccounted, OneRequestPerItem
<1>12. SuccessIsApplied'
  BY <1>1, <1>3 DEF IInv, SuccessIsApplied
<1> QED
  BY <1>6, <1>7, <1>8, <1>9, <1>10, <1>11, <1>12 DEF IInv

\* The steps nobody is at work during: when every process is idle afterwards,
\* only the runner, the ledger and the gates have to be looked at.
LEMMA QuietStepInv ==
  ASSUME IInv, StoreInv', TypeOK', RunnerOwnsJob', QueueIsPending',
         \A p \in Procs : proc'[p].pc = "idle" /\ proc'[p].result = "none"
                           /\ ~proc'[p].applied,
         quotaResetKeys' = {},
         ~up' => runner'.pc = "idle",
         update'.asked => ~JobActive',
         UNCHANGED <<requests, effects>>,
         \A j \in Jobs, u \in Users :
           /\ itemStatus'[j][u] \in {"none", "pending", "skipped"} => requests[j][u] = 0
           /\ itemStatus'[j][u] = "succeeded" => <<j, u>> \in effects
  PROVE  IInv'
<1>1. /\ WorkersServeOpenItems' /\ WorkersAreBusy' /\ HandlersAreAlone'
      /\ CallsAreGuarded' /\ GateHasOwners' /\ DownIsQuiet' /\ UpdateFindsPortalQuiet'
  BY DEF WorkersServeOpenItems, WorkersAreBusy, HandlersAreAlone, InCall,
              CallsAreGuarded, GateHasOwners, DownIsQuiet, UpdateFindsPortalQuiet
<1>2. RequestsAreAccounted' /\ SuccessIsApplied'
  BY DEF IInv, RequestsAreAccounted, OneRequestPerItem, SuccessIsApplied
<1> QED
  BY <1>1, <1>2 DEF IInv

\* An idle process carries nothing over from its last call.
LEMMA IdleIsQuiet ==
  ASSUME IInv, \A p \in Procs : proc[p].pc = "idle"
  PROVE  /\ quotaResetKeys = {}
         /\ \A p \in Procs : proc[p].result = "none" /\ ~proc[p].applied
BY DEF IInv, GateHasOwners, InCall, SuccessIsApplied

LEMMA CreateQuotaResetJobInv ==
  ASSUME IInv, StoreInv', NEW j \in Jobs, CreateQuotaResetJob(j) PROVE IInv'
<1> USE DEF CreateQuotaResetJob
<1>1. jobStatus[j] = "none" /\ ~JobActive /\ UNCHANGED directoryVars
  BY DEF CreateJob
<1>2. /\ jobStatus' = [jobStatus EXCEPT ![j] = "queued"]
      /\ itemStatus' = [itemStatus EXCEPT ![j] =
           [u \in Users |-> IF userStatus[u] = "live" THEN "pending" ELSE "none"]]
  BY DEF CreateJob
<1>3. runner.pc = "idle" /\ \A p \in Procs : proc[p].pc = "idle"
  BY <1>1, QuotaResetConstants
     DEF IInv, RunnerOwnsJob, JobActive, WorkersServeOpenItems, HandlersAreAlone
<1>4. TypeOK'
  BY DEF IInv, StoreInv, TypeOK
<1>5. RunnerOwnsJob' /\ QueueIsPending'
  BY <1>2, <1>3 DEF IInv, StoreInv, StoreTypeOK, RunnerOwnsJob, QueueIsPending, Active
<1>6. quotaResetKeys' = {}
  BY <1>3, IdleIsQuiet
<1>7. \A u \in Users : requests[j][u] = 0
  BY <1>1 DEF IInv, StoreInv, FreshJobsAreEmpty, RequestsAreAccounted
<1>8. \A i \in Jobs, u \in Users :
        /\ itemStatus'[i][u] \in {"none", "pending", "skipped"} => requests[i][u] = 0
        /\ itemStatus'[i][u] = "succeeded" => <<i, u>> \in effects
  BY <1>2, <1>7 DEF IInv, StoreInv, StoreTypeOK, RequestsAreAccounted, SuccessIsApplied
<1> QED
  BY <1>3, <1>4, <1>5, <1>6, <1>8, QuietStepInv, IdleIsQuiet
     DEF MaintenancePending

\* Closing jobs reports what is open as unknown, and nothing else.
LEMMA CloseJobsReportsUnknown ==
  ASSUME IInv, NEW J, CloseJobs(J)
  PROVE  \A j \in Jobs, u \in Users :
           /\ itemStatus'[j][u] \in {"none", "pending", "skipped"} => requests[j][u] = 0
           /\ itemStatus'[j][u] = "succeeded" => <<j, u>> \in effects
BY DEF CloseJobs, Abandoned, IInv, RequestsAreAccounted, SuccessIsApplied

\* The runner works before, between and after its workers, never with them.
LEMMA RunnerStepsInv ==
  ASSUME IInv, StoreInv', RunnerSteps PROVE IInv'
<1> USE DEF RunnerGoes
<1>1. runner.pc # "idle" /\ runner.job \in Jobs /\ JobActive
  BY DEF IInv, RunnerSteps, RunnerStarts, RunnerLoads, RunnerWaits, RunnerFinishes,
         RunnerAborts, RunnerOwnsJob, JobActive
<1>2. \A p \in Procs : proc[p].pc = "idle"
  BY <1>1 DEF IInv, RunnerSteps, RunnerStarts, RunnerLoads, RunnerWaits,
         RunnerFinishes, RunnerAborts, WorkersServeOpenItems, HandlersAreAlone
<1>3. UNCHANGED <<up, maintenance, bindingReaders, quotaResetKeys, proc, update,
                  requests, effects>>
  BY DEF RunnerSteps, RunnerStarts, RunnerLoads, RunnerWaits, RunnerFinishes,
         RunnerAborts
<1>4. up /\ ~update.asked
  BY <1>1 DEF IInv, DownIsQuiet, UpdateFindsPortalQuiet
<1>5. quotaResetKeys' = {} /\ \A p \in Procs : proc'[p].pc = "idle"
        /\ proc'[p].result = "none" /\ ~proc'[p].applied
  BY <1>2, <1>3, IdleIsQuiet
<1>6. TypeOK'
  <2>1. UNCHANGED boundVars \/ CountFault
    BY DEF RunnerSteps, RunnerStarts, RunnerLoads, RunnerWaits, RunnerFinishes,
           RunnerAborts
  <2>2. faults' \in 0..MaxFaults /\ UNCHANGED <<crashes, updates>>
    BY <2>1, QuotaResetConstants DEF CountFault, IInv, TypeOK
  <2>3. runner' \in RunnerStates
    <3>1. PICK pc \in {"idle", "load", "pool", "finish", "abort"} : RunnerGoes(pc)
      BY DEF RunnerSteps, RunnerStarts, RunnerLoads, RunnerWaits, RunnerFinishes,
             RunnerAborts
    <3> QED
      BY <3>1 DEF IInv, TypeOK
  <2>4. queue' \in SUBSET Users
    BY DEF IInv, TypeOK, RunnerSteps, RunnerStarts, RunnerLoads, RunnerWaits,
           RunnerFinishes, RunnerAborts, Items
  <2>5. cancelled' \in BOOLEAN
    BY DEF IInv, TypeOK, RunnerSteps, RunnerStarts, RunnerLoads, RunnerWaits,
           RunnerFinishes, RunnerAborts
  <2> QED
    BY <1>3, <2>2, <2>3, <2>4, <2>5 DEF IInv, StoreInv, TypeOK
<1> DEFINE Reported ==
      \A j \in Jobs, u \in Users :
        /\ itemStatus'[j][u] \in {"none", "pending", "skipped"} => requests[j][u] = 0
        /\ itemStatus'[j][u] = "succeeded" => <<j, u>> \in effects
<1>7. UNCHANGED itemStatus => Reported
  BY DEF IInv, RequestsAreAccounted, SuccessIsApplied
<1>8. RunnerOwnsJob' /\ QueueIsPending' /\ Reported
  <2>1. CASE RunnerStarts
    <3>1. /\ runner'.pc \in {"load", "abort"} /\ runner'.job = runner.job
          /\ UNCHANGED itemStatus
          /\ runner'.pc = "load" => MarkJobRunning(runner.job)
          /\ runner'.pc = "abort" => UNCHANGED jobStatus
      BY <2>1 DEF RunnerStarts, MarkJobRunning, IInv, TypeOK
    <3>2. jobStatus'[runner.job] = IF runner'.pc = "load" THEN "running"
                                                         ELSE jobStatus[runner.job]
      BY <1>1, <3>1 DEF MarkJobRunning, IInv, StoreInv, StoreTypeOK
    <3> QED
      BY <1>1, <1>7, <2>1, <3>1, <3>2
         DEF RunnerStarts, IInv, RunnerOwnsJob, QueueIsPending, Active
  <2>2. CASE RunnerLoads
    BY <1>1, <1>7, <2>2 DEF RunnerLoads, IInv, RunnerOwnsJob, QueueIsPending, Active,
       TypeOK, Items
  <2>3. CASE RunnerWaits
    BY <1>1, <1>7, <2>3 DEF RunnerWaits, IInv, RunnerOwnsJob, QueueIsPending, Active,
       TypeOK
  <2>4. CASE RunnerFinishes
    BY <1>1, <1>7, <2>4 DEF RunnerFinishes, FinishJob, IInv, RunnerOwnsJob,
       QueueIsPending, Active, TypeOK
  <2>5. CASE RunnerAborts
    <3>1. RunnerOwnsJob' /\ QueueIsPending'
      BY <2>5 DEF RunnerAborts, RunnerOwnsJob, QueueIsPending
    <3>2. UNCHANGED itemStatus \/ CloseJobs({runner.job})
      BY <2>5 DEF RunnerAborts, AbortJob
    <3> QED
      BY <1>7, <3>1, <3>2, CloseJobsReportsUnknown
  <2> QED
    BY <2>1, <2>2, <2>3, <2>4, <2>5 DEF RunnerSteps
<1> QED
  BY <1>3, <1>4, <1>5, <1>6, <1>8, QuietStepInv

\* Death forgets everything but the ledger; recovery closes what it left open;
\* an update is only asked for with nothing under way.
LEMMA ProcessInv ==
  ASSUME IInv, StoreInv',
         Crash \/ Restart \/ applyUpdate \/ UpdaterStopsPortal
  PROVE  IInv'
<1>1. ASSUME Crash \/ UpdaterStopsPortal PROVE IInv'
  <2>1. ProcessDies
    BY <1>1 DEF Crash, UpdaterStopsPortal
  <2>2. TypeOK'
    <3>1. crashes' \in 0..MaxOutages /\ UNCHANGED <<faults, updates>>
      BY <1>1, QuotaResetConstants DEF Crash, UpdaterStopsPortal, IInv, TypeOK
    <3>2. proc' \in [Procs -> ProcStates] /\ runner' \in RunnerStates
      BY <2>1 DEF ProcessDies
    <3> QED
      BY <2>1, <3>1, <3>2 DEF ProcessDies, IInv, StoreInv, TypeOK
  <2>3. RunnerOwnsJob' /\ QueueIsPending' /\ quotaResetKeys' = {}
        /\ runner'.pc = "idle" /\ UNCHANGED <<requests, effects, itemStatus>>
    BY <2>1 DEF ProcessDies, RunnerOwnsJob, QueueIsPending
  <2>4. \A p \in Procs : proc'[p].pc = "idle" /\ proc'[p].result = "none"
                          /\ ~proc'[p].applied
    BY <2>1 DEF ProcessDies
  <2>5. update'.asked => ~JobActive'
    BY <2>1 DEF ProcessDies, IInv, UpdateFindsPortalQuiet, JobActive, Active
  <2>6. \A j \in Jobs, u \in Users :
          /\ itemStatus'[j][u] \in {"none", "pending", "skipped"} => requests[j][u] = 0
          /\ itemStatus'[j][u] = "succeeded" => <<j, u>> \in effects
    BY <2>3 DEF IInv, RequestsAreAccounted, SuccessIsApplied
  <2> QED
    BY <2>2, <2>3, <2>4, <2>5, <2>6, QuietStepInv
<1>2. ASSUME Restart PROVE IInv'
  <2> USE <1>2 DEF Restart
  <2>1. TypeOK'
    BY DEF IInv, StoreInv, TypeOK
  <2>2. runner.pc = "idle" /\ \A p \in Procs : proc[p].pc = "idle"
    BY DEF IInv, DownIsQuiet
  <2>3. RunnerOwnsJob' /\ QueueIsPending'
    BY <2>2 DEF RunnerOwnsJob, QueueIsPending
  <2>4. ~JobActive'
    BY DEF RecoverJobs, CloseJobs, JobActive, Active
  <2> QED
    BY <2>1, <2>2, <2>3, <2>4, QuietStepInv, IdleIsQuiet, CloseJobsReportsUnknown
       DEF RecoverJobs
<1>3. ASSUME applyUpdate PROVE IInv'
  <2>1. /\ ~JobActive
        /\ UNCHANGED storeVars /\ UNCHANGED processVars /\ UNCHANGED historyVars
    BY <1>3 DEF applyUpdate, IInv, UpdateFindsPortalQuiet
  <2>2. TypeOK'
    <3>1. updates' \in 0..MaxUpdates /\ UNCHANGED <<faults, crashes>>
      BY <1>3, QuotaResetConstants DEF applyUpdate, IInv, TypeOK
    <3> QED
      BY <1>3, <2>1, <3>1 DEF applyUpdate, IInv, StoreInv, TypeOK, Updates
  <2>3. runner.pc = "idle" /\ \A p \in Procs : proc[p].pc = "idle"
    BY <1>3, <2>1, QuotaResetConstants
       DEF applyUpdate, IInv, RunnerOwnsJob, JobActive,
           UpdateFindsPortalQuiet, WorkersServeOpenItems, HandlersAreAlone
  <2>4. RunnerOwnsJob' /\ QueueIsPending' /\ ~JobActive'
    BY <2>1, <2>3 DEF RunnerOwnsJob, QueueIsPending, JobActive, Active
  <2>5. \A j \in Jobs, u \in Users :
          /\ itemStatus'[j][u] \in {"none", "pending", "skipped"} => requests[j][u] = 0
          /\ itemStatus'[j][u] = "succeeded" => <<j, u>> \in effects
    BY <2>1 DEF IInv, RequestsAreAccounted, SuccessIsApplied
  <2> QED
    BY <2>1, <2>2, <2>3, <2>4, <2>5, QuietStepInv, IdleIsQuiet
<1> QED
  BY <1>1, <1>2, <1>3

\* A worker that gives up frees nothing, because it held nothing; its item
\* stays open for the abort to report.
LEMMA WorkerGivesUpInv ==
  ASSUME IInv, StoreInv', NEW w \in Workers,
         proc[w].pc \in {"idle", "marked", "answered"},
         proc' = [proc EXCEPT ![w] = IdleProc],
         queue' \subseteq queue, cancelled' = TRUE, faults' \in 0..MaxFaults,
         UNCHANGED <<up, maintenance, bindingReaders, quotaResetKeys, runner,
                     update, requests, effects, crashes, updates>>,
         UNCHANGED storeVars
  PROVE  IInv'
<1>1. w \in Procs /\ w \notin Handlers
  BY QuotaResetConstants
<1>2. /\ proc'[w].pc = "idle" /\ proc'[w].result = "none" /\ ~proc'[w].applied
      /\ \A q \in Procs \ {w} : proc'[q] = proc[q]
  BY <1>1 DEF IInv, TypeOK
<1>3. TypeOK'
  <2>1. proc' \in [Procs -> ProcStates]
    BY <1>1 DEF IInv, TypeOK
  <2> QED
    BY <2>1 DEF IInv, StoreInv, TypeOK
<1>4. RunnerOwnsJob' /\ QueueIsPending'
  BY DEF IInv, RunnerOwnsJob, QueueIsPending, Active
<1>5. WorkersServeOpenItems' /\ WorkersAreBusy'
  BY <1>1, <1>2 DEF IInv, WorkersServeOpenItems, WorkersAreBusy
<1>6. HandlersAreAlone' /\ CallsAreGuarded'
  BY <1>1, <1>2 DEF IInv, HandlersAreAlone, CallsAreGuarded, InCall, JobActive, Active
<1>7. GateHasOwners'
  BY <1>1, <1>2 DEF IInv, GateHasOwners, InCall
<1>8. DownIsQuiet' /\ UpdateFindsPortalQuiet'
  BY <1>1, <1>2 DEF IInv, DownIsQuiet, UpdateFindsPortalQuiet, JobActive, Active
<1>9. RequestsAreAccounted' /\ SuccessIsApplied'
  BY <1>1, <1>2 DEF IInv, RequestsAreAccounted, OneRequestPerItem, SuccessIsApplied
<1> QED
  BY <1>3, <1>4, <1>5, <1>6, <1>7, <1>8, <1>9 DEF IInv

LEMMA FatalGivesUp ==
  ASSUME IInv, CountFault PROVE faults' \in 0..MaxFaults /\ UNCHANGED <<crashes, updates>>
BY QuotaResetConstants DEF CountFault, IInv, TypeOK

\* The status of one item of the runner's job changes; the rest stays.
LEMMA WriteItemChanges ==
  ASSUME IInv, NEW j \in Jobs, NEW u \in Users, NEW s, WriteItem(j, u, s)
  PROVE  /\ UNCHANGED <<jobStatus, itemKey>> /\ UNCHANGED directoryVars
         /\ \A i \in Jobs, v \in Users :
              itemStatus'[i][v] = IF i = j /\ v = u THEN s ELSE itemStatus[i][v]
BY DEF WriteItem, IInv, StoreInv, StoreTypeOK

LEMMA WorkerTakesInv ==
  ASSUME IInv, StoreInv', NEW w \in Workers, WorkerTakes(w) PROVE IInv'
<1>1. PICK u \in queue :
        /\ runner.pc = "pool" /\ proc[w].pc = "idle" /\ queue' = queue \ {u}
        /\ \/ /\ MarkItemRunning(runner.job, u)
              /\ proc' = [proc EXCEPT ![w] =
                            ProcAt("marked", "reset", u, itemKey[runner.job][u])]
              /\ UNCHANGED <<up, maintenance, bindingReaders, quotaResetKeys,
                             runner, cancelled, update>>
              /\ UNCHANGED historyVars /\ UNCHANGED boundVars
           \/ Fatal(w)
  BY DEF WorkerTakes
<1>2. CASE Fatal(w)
  <2>1. faults' \in 0..MaxFaults /\ UNCHANGED <<crashes, updates>>
    BY <1>2, FatalGivesUp DEF Fatal
  <2> QED
    BY <1>1, <1>2, <2>1, WorkerGivesUpInv DEF Fatal
<1>3. CASE MarkItemRunning(runner.job, u) /\ ~Fatal(w)
  <2> DEFINE job == runner.job
  <2>1. /\ w \in Procs /\ w \notin Handlers /\ u \in Users /\ job \in Jobs
        /\ jobStatus[job] = "running" /\ itemStatus[job][u] = "pending"
        /\ itemKey[job][u] \in Keys \cup {None}
    BY <1>1, <1>3, QuotaResetConstants
       DEF IInv, TypeOK, StoreInv, StoreTypeOK, RunnerOwnsJob, MarkItemRunning
  <2>2. /\ UNCHANGED <<jobStatus, itemKey>> /\ UNCHANGED directoryVars
        /\ \A i \in Jobs, v \in Users :
             itemStatus'[i][v] = IF i = job /\ v = u THEN "running" ELSE itemStatus[i][v]
    BY <1>3, <2>1, WriteItemChanges DEF MarkItemRunning
  <2>3. /\ queue' = queue \ {u}
        /\ proc' = [proc EXCEPT ![w] = ProcAt("marked", "reset", u, itemKey[job][u])]
        /\ UNCHANGED <<up, maintenance, bindingReaders, quotaResetKeys, runner,
                       cancelled, update, requests, effects,
                       faults, crashes, updates>>
    BY <1>1, <1>3
  <2>4. /\ proc'[w].pc = "marked" /\ proc'[w].kind = "reset" /\ proc'[w].user = u
        /\ proc'[w].key = itemKey[job][u] /\ ~proc'[w].applied
        /\ proc'[w].result = "none"
        /\ \A q \in Procs \ {w} : proc'[q] = proc[q]
    BY <2>1, <2>3 DEF IInv, TypeOK
  <2>5. \A x \in Workers : proc[x].pc # "idle" => proc[x].user # u
    BY <2>1 DEF IInv, WorkersServeOpenItems
  <2>6. TypeOK'
    <3>1. proc' \in [Procs -> ProcStates]
      BY <2>1, <2>3 DEF IInv, TypeOK
    <3> QED
      BY <2>3, <3>1 DEF IInv, StoreInv, TypeOK
  <2>7. RunnerOwnsJob' /\ QueueIsPending'
    BY <1>1, <2>1, <2>2, <2>3 DEF IInv, TypeOK, RunnerOwnsJob, QueueIsPending, Active
  <2>8. WorkersServeOpenItems'
    BY <1>1, <2>1, <2>2, <2>3, <2>4 DEF IInv, WorkersServeOpenItems, WorkersAreBusy
  <2>9. WorkersAreBusy'
    BY <2>1, <2>2, <2>3, <2>4, <2>5 DEF IInv, WorkersAreBusy
  <2>10. HandlersAreAlone' /\ CallsAreGuarded'
    BY <2>1, <2>2, <2>3, <2>4
       DEF IInv, HandlersAreAlone, CallsAreGuarded, InCall, JobActive, Active
  <2>11. GateHasOwners'
    BY <1>1, <2>1, <2>3, <2>4 DEF IInv, GateHasOwners, InCall
  <2>12. up /\ ~update.asked
    BY <1>1, <2>1 DEF IInv, DownIsQuiet, UpdateFindsPortalQuiet, JobActive, Active
  <2>13. DownIsQuiet' /\ UpdateFindsPortalQuiet'
    BY <2>3, <2>12 DEF DownIsQuiet, UpdateFindsPortalQuiet
  <2>14. RequestsAreAccounted'
    <3>1. requests[job][u] = 0
      BY <2>1 DEF IInv, RequestsAreAccounted
    <3> QED
      BY <2>1, <2>2, <2>3, <2>4, <3>1 DEF IInv, RequestsAreAccounted, OneRequestPerItem
  <2>15. SuccessIsApplied'
    BY <2>1, <2>2, <2>3, <2>4 DEF IInv, SuccessIsApplied
  <2> QED
    BY <2>6, <2>7, <2>8, <2>9, <2>10, <2>11, <2>13, <2>14, <2>15 DEF IInv
<1> QED
  BY <1>1, <1>2, <1>3

\* Validation takes the lock and the gate together, or neither.
LEMMA WorkerValidatesInv ==
  ASSUME IInv, StoreInv', NEW w \in Workers, WorkerValidates(w) PROVE IInv'
<1> DEFINE u == proc[w].user
           k == proc[w].key
           admitted == StillValid(u, k) /\ k \notin quotaResetKeys
<1>1. /\ w \in Procs /\ w \notin Handlers /\ proc[w].pc = "marked"
      /\ UNCHANGED <<up, maintenance, runner, queue, update, requests, effects>>
      /\ UNCHANGED storeVars
  BY QuotaResetConstants DEF WorkerValidates
<1>2. /\ u \in Users /\ requests[runner.job][u] = 0
      /\ proc[w].result = "none" /\ ~proc[w].applied
  BY <1>1 DEF IInv, WorkersAreBusy, RequestsAreAccounted, SuccessIsApplied
<1>3. ASSUME admitted,
             bindingReaders' = bindingReaders \cup {w},
             quotaResetKeys' = quotaResetKeys \cup {k},
             proc' = [proc EXCEPT ![w].pc = "calling"],
             UNCHANGED cancelled, UNCHANGED boundVars
      PROVE  IInv'
  <2>1. /\ k \in Keys /\ binding[u] = k
    BY <1>1, <1>3 DEF StillValid, IInv, TypeOK
  <2>2. /\ proc'[w].pc = "calling"
        /\ \A q \in Procs : /\ proc'[q].kind = proc[q].kind
                            /\ proc'[q].user = proc[q].user
                            /\ proc'[q].key = proc[q].key
                            /\ proc'[q].result = proc[q].result
                            /\ q # w => proc'[q] = proc[q]
    BY <1>1, <1>3 DEF IInv, TypeOK
  <2>3. \A q \in Procs : proc'[q].applied = proc[q].applied
    BY <1>1, <1>3 DEF IInv, TypeOK
  <2>4. TypeOK'
    <3>1. proc' \in [Procs -> ProcStates]
      BY <1>3 DEF IInv, TypeOK
    <3> QED
      BY <1>1, <1>3, <2>1, <3>1 DEF IInv, StoreInv, TypeOK
  <2>5. RunnerOwnsJob' /\ QueueIsPending'
    BY <1>1 DEF IInv, RunnerOwnsJob, QueueIsPending, Active
  <2>6. WorkersServeOpenItems' /\ WorkersAreBusy'
    BY <1>1, <2>2 DEF IInv, WorkersServeOpenItems, WorkersAreBusy
  <2>7. HandlersAreAlone'
    BY <1>1, <2>2 DEF IInv, HandlersAreAlone, JobActive, Active
  <2>8. CallsAreGuarded'
    BY <1>1, <1>2, <1>3, <2>1, <2>2 DEF IInv, CallsAreGuarded, InCall
  <2>9. GateHasOwners'
    BY <1>1, <1>3, <2>2 DEF IInv, GateHasOwners, InCall
  <2>10. DownIsQuiet' /\ UpdateFindsPortalQuiet'
    BY <1>1, <2>2 DEF IInv, DownIsQuiet, UpdateFindsPortalQuiet, JobActive, Active
  <2>11. RequestsAreAccounted'
    BY <1>1, <1>2, <2>2 DEF IInv, RequestsAreAccounted, OneRequestPerItem
  <2>12. SuccessIsApplied'
    BY <1>1, <1>2, <2>2, <2>3 DEF IInv, SuccessIsApplied
  <2> QED
    BY <2>4, <2>5, <2>6, <2>7, <2>8, <2>9, <2>10, <2>11, <2>12 DEF IInv
<1>4. ASSUME proc' = [proc EXCEPT ![w].pc = "answered", ![w].result = "skipped"],
             UNCHANGED <<bindingReaders, quotaResetKeys, cancelled>>,
             UNCHANGED boundVars
      PROVE  IInv'
  <2>1. /\ proc'[w].pc = "answered" /\ proc'[w].result = "skipped"
        /\ \A q \in Procs : /\ proc'[q].kind = proc[q].kind
                            /\ proc'[q].user = proc[q].user
                            /\ proc'[q].key = proc[q].key
                            /\ q # w => proc'[q] = proc[q]
    BY <1>1, <1>4 DEF IInv, TypeOK
  <2>2. \A q \in Procs : proc'[q].applied = proc[q].applied
    BY <1>1, <1>4 DEF IInv, TypeOK
  <2>3. TypeOK'
    <3>1. [proc[w] EXCEPT !.pc = "answered"] \in ProcStates
      BY <1>1 DEF IInv, TypeOK
    <3>2. [[proc[w] EXCEPT !.pc = "answered"] EXCEPT !.result = "skipped"] \in ProcStates
      BY <3>1
    <3>3. proc' \in [Procs -> ProcStates]
      BY <1>4, <3>2 DEF IInv, TypeOK
    <3> QED
      BY <1>1, <1>4, <3>3 DEF IInv, StoreInv, TypeOK
  <2>4. RunnerOwnsJob' /\ QueueIsPending'
    BY <1>1 DEF IInv, RunnerOwnsJob, QueueIsPending, Active
  <2>5. WorkersServeOpenItems' /\ WorkersAreBusy'
    BY <1>1, <2>1 DEF IInv, WorkersServeOpenItems, WorkersAreBusy
  <2>6. UNCHANGED <<bindingReaders, quotaResetKeys>>
    BY <1>4
  <2>7. HandlersAreAlone' /\ CallsAreGuarded'
    BY <1>1, <2>6, <2>1
       DEF IInv, HandlersAreAlone, CallsAreGuarded, InCall, JobActive, Active
  <2>8. GateHasOwners'
    BY <1>1, <2>6, <2>1 DEF IInv, GateHasOwners, InCall
  <2>9. DownIsQuiet' /\ UpdateFindsPortalQuiet'
    BY <1>1, <2>1 DEF IInv, DownIsQuiet, UpdateFindsPortalQuiet, JobActive, Active
  <2>10. RequestsAreAccounted'
    BY <1>1, <1>2, <2>1 DEF IInv, RequestsAreAccounted, OneRequestPerItem
  <2>11. SuccessIsApplied'
    BY <1>1, <1>2, <2>1, <2>2 DEF IInv, SuccessIsApplied
  <2> QED
    BY <2>3, <2>4, <2>5, <2>7, <2>8, <2>9, <2>10, <2>11 DEF IInv
<1>5. ASSUME UNCHANGED boundVars \/ CountFault, cancelled' = TRUE,
             proc' = [proc EXCEPT ![w] = IdleProc],
             UNCHANGED <<bindingReaders, quotaResetKeys>>
      PROVE  IInv'
  <2>1. faults' \in 0..MaxFaults /\ UNCHANGED <<crashes, updates>>
    BY <1>5, FatalGivesUp DEF IInv, TypeOK
  <2> QED
    BY <1>1, <1>5, <2>1, WorkerGivesUpInv
<1> QED
  BY <1>3, <1>4, <1>5 DEF WorkerValidates

\* The outcome is written for an item that is still the worker's own.
LEMMA WorkerCompletesInv ==
  ASSUME IInv, StoreInv', NEW w \in Workers, WorkerCompletes(w) PROVE IInv'
<1>1. CASE Fatal(w)
  <2>1. faults' \in 0..MaxFaults /\ UNCHANGED <<crashes, updates>>
    BY <1>1, FatalGivesUp DEF Fatal
  <2> QED
    BY <1>1, <2>1, WorkerGivesUpInv DEF WorkerCompletes, Fatal
<1>2. CASE ~Fatal(w)
  <2> DEFINE job == runner.job
             u == proc[w].user
  <2>1. /\ w \in Procs /\ w \notin Handlers /\ proc[w].pc = "answered"
        /\ CompleteItem(job, u, proc[w].result)
        /\ proc' = [proc EXCEPT ![w] = IdleProc]
        /\ UNCHANGED <<up, maintenance, bindingReaders, quotaResetKeys, runner, queue,
                       cancelled, update, requests, effects,
                       faults, crashes, updates>>
    BY <1>2, QuotaResetConstants DEF WorkerCompletes
  <2>2. u \in Users /\ job \in Jobs /\ itemStatus[job][u] = "running"
    BY <2>1 DEF IInv, WorkersServeOpenItems, WorkersAreBusy, RunnerOwnsJob
  <2>3. /\ UNCHANGED <<jobStatus, itemKey>> /\ UNCHANGED directoryVars
        /\ \A i \in Jobs, v \in Users :
             itemStatus'[i][v] = IF i = job /\ v = u THEN proc[w].result
                                                     ELSE itemStatus[i][v]
    BY <2>1, <2>2, WriteItemChanges DEF CompleteItem
  <2>4. /\ proc'[w].pc = "idle" /\ ~proc'[w].applied /\ proc'[w].result = "none"
        /\ \A q \in Procs \ {w} : proc'[q] = proc[q]
    BY <2>1 DEF IInv, TypeOK
  <2>5. \A x \in Workers \ {w} : proc[x].pc # "idle" => proc[x].user # u
    BY <2>1 DEF IInv, WorkersAreBusy
  <2>6. runner.pc = "pool" /\ proc[w].result \in TerminalStatuses
    BY <2>1 DEF IInv, WorkersServeOpenItems, CompleteItem
  <2>7. TypeOK'
    <3>1. proc' \in [Procs -> ProcStates]
      BY <2>1 DEF IInv, TypeOK
    <3> QED
      BY <2>1, <3>1 DEF IInv, StoreInv, TypeOK
  <2>8. RunnerOwnsJob' /\ QueueIsPending'
    BY <2>1, <2>2, <2>3, <2>6 DEF IInv, TypeOK, RunnerOwnsJob, QueueIsPending, Active
  <2>9. WorkersServeOpenItems' /\ WorkersAreBusy'
    BY <2>1, <2>2, <2>3, <2>4, <2>5 DEF IInv, WorkersServeOpenItems, WorkersAreBusy
  <2>10. HandlersAreAlone' /\ CallsAreGuarded'
    BY <2>1, <2>3, <2>4
       DEF IInv, HandlersAreAlone, CallsAreGuarded, InCall, JobActive, Active
  <2>11. GateHasOwners'
    BY <2>1, <2>4 DEF IInv, GateHasOwners, InCall
  <2>12. DownIsQuiet' /\ UpdateFindsPortalQuiet'
    BY <2>1, <2>3, <2>4 DEF IInv, DownIsQuiet, UpdateFindsPortalQuiet, JobActive, Active
  <2>13. RequestsAreAccounted'
    <3>1. proc[w].result = "skipped" => requests[job][u] = 0
      BY <2>1 DEF IInv, RequestsAreAccounted
    <3>2. \A j \in Jobs, v \in Users :
            itemStatus'[j][v] \in {"none", "pending", "skipped"} => requests'[j][v] = 0
      BY <2>1, <2>3, <2>6, <3>1 DEF IInv, RequestsAreAccounted
    <3> QED
      BY <2>1, <2>4, <3>2 DEF IInv, RequestsAreAccounted, OneRequestPerItem
  <2>14. SuccessIsApplied'
    <3>1. proc[w].result = "succeeded" => <<job, u>> \in effects
      BY <2>1 DEF IInv, SuccessIsApplied
    <3>2. \A j \in Jobs, v \in Users :
            itemStatus'[j][v] = "succeeded" => <<j, v>> \in effects'
      BY <2>1, <2>3, <3>1 DEF IInv, SuccessIsApplied
    <3> QED
      BY <2>1, <2>4, <3>2 DEF IInv, SuccessIsApplied
  <2> QED
    BY <2>7, <2>8, <2>9, <2>10, <2>11, <2>12, <2>13, <2>14 DEF IInv
<1> QED
  BY <1>1, <1>2

-----------------------------------------------------------------------------
(* The theorems.                                                           *)

LEMMA InitInv == Init => IInv
<1> SUFFICES ASSUME Init PROVE IInv
  OBVIOUS
<1>1. StoreInv
  BY StoreInitInv DEF Init
<1>2. TypeOK
  <2>1. faults \in 0..MaxFaults /\ crashes \in 0..MaxOutages /\ updates \in 0..MaxUpdates
    BY QuotaResetConstants DEF Init
  <2>2. proc \in [Procs -> ProcStates] /\ runner \in RunnerStates
    BY DEF Init
  <2> QED
    BY <1>1, <2>1, <2>2 DEF Init, TypeOK, StoreInv, Updates
<1>3. \A p \in Procs : /\ proc[p].pc = "idle" /\ proc[p].result = "none"
                       /\ ~proc[p].applied
  BY DEF Init
<1>4. \A j \in Jobs, u \in Users : itemStatus[j][u] = "none" /\ requests[j][u] = 0
  BY DEF Init, StoreInit
<1>5. RunnerOwnsJob /\ QueueIsPending /\ DownIsQuiet /\ UpdateFindsPortalQuiet
  BY DEF Init, RunnerOwnsJob, QueueIsPending, DownIsQuiet, UpdateFindsPortalQuiet
<1>6. /\ WorkersServeOpenItems /\ WorkersAreBusy /\ HandlersAreAlone
      /\ CallsAreGuarded /\ GateHasOwners
  BY <1>3 DEF Init, WorkersServeOpenItems, WorkersAreBusy, HandlersAreAlone,
              CallsAreGuarded, GateHasOwners, InCall
<1>7. RequestsAreAccounted /\ SuccessIsApplied
  BY <1>3, <1>4 DEF RequestsAreAccounted, OneRequestPerItem, SuccessIsApplied
<1> QED
  BY <1>1, <1>2, <1>5, <1>6, <1>7 DEF IInv

LEMMA NextInv == ASSUME IInv, Next PROVE IInv'
<1>1. StoreInv'
  BY StepKeepsStore
<1>2. ASSUME NEW w \in Workers, WorkerSteps(w) PROVE IInv'
  BY <1>1, <1>2, WorkerTakesInv, WorkerValidatesInv, WorkerCompletesInv
     DEF WorkerSteps
<1>3. ASSUME Singles PROVE IInv'
  BY <1>1, <1>3, AdmitSingleInv, FinishSingleInv DEF Singles
<1>4. ASSUME \/ Crash \/ Restart \/ applyUpdate \/ UpdaterStopsPortal
             \/ UpdaterRecovers \/ UpdateEnds
      PROVE  IInv'
  BY <1>1, <1>4, ProcessInv, UpdaterInv
<1>5. ASSUME Administration PROVE IInv'
  BY <1>1, <1>5, AdministrationInv
<1>6. ASSUME RunnerSteps PROVE IInv'
  BY <1>1, <1>6, RunnerStepsInv
<1>7. ASSUME NEW j \in Jobs, CreateQuotaResetJob(j) PROVE IInv'
  BY <1>1, <1>7, CreateQuotaResetJobInv
<1>8. ASSUME NEW p \in Procs, Calls(p) PROVE IInv'
  BY <1>1, <1>8, CallsInv
<1> QED
  BY <1>2, <1>3, <1>4, <1>5, <1>6, <1>7, <1>8 DEF Next

LEMMA StutterInv == ASSUME IInv, UNCHANGED vars PROVE IInv'
<1> USE DEF vars
<1>1. TypeOK'
  BY DEF IInv, TypeOK, StoreTypeOK
<1>2. StoreInv'
  BY StoreStepInv DEF IInv
<1>3. RunnerOwnsJob' /\ QueueIsPending' /\ DownIsQuiet' /\ UpdateFindsPortalQuiet'
  BY DEF IInv, RunnerOwnsJob, QueueIsPending, DownIsQuiet, UpdateFindsPortalQuiet,
         JobActive, Active
<1>4. /\ WorkersServeOpenItems' /\ WorkersAreBusy' /\ HandlersAreAlone'
      /\ CallsAreGuarded' /\ GateHasOwners'
  BY DEF IInv, WorkersServeOpenItems, WorkersAreBusy, HandlersAreAlone,
         CallsAreGuarded, GateHasOwners, InCall, JobActive, Active
<1>5. RequestsAreAccounted' /\ SuccessIsApplied'
  BY DEF IInv, RequestsAreAccounted, OneRequestPerItem, SuccessIsApplied
<1> QED
  BY <1>1, <1>2, <1>3, <1>4, <1>5 DEF IInv

LEMMA InvHolds == Spec => []IInv
<1>1. IInv /\ [Next]_vars => IInv'
  BY NextInv, StutterInv
<1> QED
  BY <1>1, InitInv, PTL DEF Spec

\* The workflow's variables stay in their types, the ledger's included.
THEOREM TypeCorrect == Spec => []TypeOK
<1>1. IInv => TypeOK
  BY DEF IInv
<1> QED
  BY <1>1, InvHolds, PTL

\* However workers, failures, crashes and restarts interleave, no batch item is
\* asked of Sub2API twice (runQuotaResetItem, recovery).
THEOREM AtMostOnce == Spec => []OneRequestPerItem
<1>1. IInv => OneRequestPerItem
  BY InvIsSafe
<1> QED
  BY <1>1, InvHolds, PTL

\* No success is recorded or answered without its effect at Sub2API.
THEOREM SuccessIsReal == Spec => []ReportsAreBacked
<1>1. IInv => ReportsAreBacked
  BY InvIsSafe
<1> QED
  BY <1>1, InvHolds, PTL

\* While an upstream call is out, its key keeps its user: bindings wait.
THEOREM BindingsWait == Spec => []BoundDuringCall
<1>1. IInv => BoundDuringCall
  BY InvIsSafe
<1> QED
  BY <1>1, InvHolds, PTL

\* No second reset or limit change meets a call for the same key, although
\* each of three handlers admits them by checks of its own.
THEOREM MutualExclusion == Spec => []OneCallPerKey
<1>1. IInv => OneCallPerKey
  BY InvIsSafe
<1> QED
  BY <1>1, InvHolds, PTL

\* No item of a batch is given up because a single request holds its key.
THEOREM BatchFindsKeysFree == Spec => []NoItemMeetsABusyKey
<1>1. IInv => NoItemMeetsABusyKey
  BY InvIsSafe
<1> QED
  BY <1>1, InvHolds, PTL

\* No update that was asked for is outstanding while a reset, a limit change or
\* a batch is under way.  The recovery of a journal that an ended update left
\* behind is not asked for, and may find them under way.
THEOREM QuietMaintenance == Spec => []UpdateFindsPortalQuiet
<1>1. IInv => UpdateFindsPortalQuiet
  BY InvIsSafe
<1> QED
  BY <1>1, InvHolds, PTL

\* No job is closed under a worker that still acts for it.
THEOREM WorkersAreServed == Spec => []WorkersServeOpenItems
<1>1. IInv => WorkersServeOpenItems
  BY InvIsSafe
<1> QED
  BY <1>1, InvHolds, PTL

\* The workflow inherits the ledger's safety and its append-only history,
\* because each of its steps is a step of the store or leaves it alone.
THEOREM WorkflowImplementsStore == Spec => StoreSpec
<1>1. Init => StoreInit
  BY DEF Init
<1>2. IInv /\ [Next]_vars => [StoreNext]_storeVars
  BY StepIsStoreStep DEF vars
<1> QED
  BY <1>1, <1>2, InvHolds, PTL DEF Spec, StoreSpec

\* So the counters an administrator polls are right at every moment of the
\* workflow, not only of the ledger alone.
THEOREM CountersAreRight == Spec => []CountersMatchItems
<1>1. IInv => CountersMatchItems
  BY DEF IInv, StoreInv
<1> QED
  BY <1>1, InvHolds, PTL

\* Nor does a worker, an abort, a crash or a recovery rewrite what a batch has
\* recorded.
THEOREM HistoryIsKept == Spec => HistoryIsAppendOnly
BY WorkflowImplementsStore, StoreHistory, PTL
=============================================================================

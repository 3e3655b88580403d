------------------------- MODULE BatchPromiseProofs -------------------------
(***************************************************************************)
(* The workflow of QuotaReset implements BatchPromise: what an             *)
(* administrator may rely on, whatever workers, handlers, failures,        *)
(* crashes and updates do.  One lemma per step the promise can see, and    *)
(* one for those it cannot.                                                *)
(***************************************************************************)
EXTENDS QuotaResetProofs

USE DEF UserStatuses, JobStatuses, OpenStatuses, TerminalStatuses,
        ItemStatuses, CounterNames, Kinds, Results, Procs, Answers,
        ProcStates, ProcAt, IdleProc, RunnerStates, IdleRunner
USE DEF storeVars, directoryVars, ledgerVars, processVars, historyVars,
        boundVars

\* A request that has left for an item is the one that was counted.
SentIsCounted ==
  \A w \in Workers :
    proc[w].pc = "sent" => requests[runner.job][proc[w].user] = 1

-----------------------------------------------------------------------------
(* A request under way stays counted.                                      *)

\* Nothing but Send adds a process that has sent, or a request.
LEMMA OnlySendCounts ==
  ASSUME IInv, Next
  PROVE  \/ \E p \in Procs : Send(p)
         \/ /\ UNCHANGED requests
            /\ \A w \in Workers : proc'[w].pc = "sent"
                 => /\ proc[w].pc = "sent" /\ proc'[w].user = proc[w].user
                    /\ runner'.job = runner.job
<1> DEFINE Kept == \A w \in Workers : proc'[w].pc = "sent"
                     => proc[w].pc = "sent" /\ proc'[w].user = proc[w].user
           Goal == UNCHANGED requests /\ Kept /\ UNCHANGED runner
<1>1. ASSUME \/ Administration \/ applyUpdate \/ UpdaterRecovers \/ UpdateEnds
             \/ Restart
      PROVE  Goal
  BY <1>1 DEF Administration, ChangeBinding, BackgroundSync, applyUpdate,
              UpdaterRecovers, UpdateEnds, Restart
<1>2. ASSUME Singles PROVE Goal
  <2>1. ASSUME NEW h \in Handlers, NEW u \in Users, NEW kind \in Kinds,
               AdmitSingle(h, u, kind)
        PROVE  Goal
    BY <2>1, QuotaResetConstants DEF AdmitSingle, IInv, TypeOK
  <2>2. ASSUME NEW h \in Handlers, FinishSingle(h) PROVE Goal
    BY <2>2, QuotaResetConstants DEF FinishSingle, IInv, TypeOK
  <2> QED
    BY <1>2, <2>1, <2>2 DEF Singles
<1>3. ASSUME NEW p \in Procs,
             \/ UpstreamApply(p) \/ NotSent(p)
             \/ \E answer \in Answers : Answer(p, answer)
      PROVE  Goal
  <2>1. CASE UpstreamApply(p)
    BY <2>1 DEF UpstreamApply, IInv, TypeOK
  <2>2. ASSUME NEW answer \in Answers, ReturnFromCall(p, answer) PROVE Goal
    BY <2>2 DEF ReturnFromCall, IInv, TypeOK
  <2> QED
    BY <1>3, <2>1, <2>2 DEF NotSent, Answer
<1>4. ASSUME NEW w \in Workers, WorkerSteps(w) PROVE Goal
  <2>1. CASE Fatal(w)
    BY <2>1 DEF Fatal, IInv, TypeOK
  <2>2. CASE WorkerTakes(w)
    BY <2>1, <2>2 DEF WorkerTakes, IInv, TypeOK
  <2>3. CASE WorkerValidates(w)
    BY <2>3 DEF WorkerValidates, IInv, TypeOK
  <2>4. CASE WorkerCompletes(w)
    BY <2>1, <2>4 DEF WorkerCompletes, IInv, TypeOK
  <2> QED
    BY <1>4, <2>2, <2>3, <2>4 DEF WorkerSteps
<1>5. ASSUME \/ RunnerSteps \/ Crash \/ UpdaterStopsPortal
             \/ \E j \in Jobs : CreateQuotaResetJob(j)
      PROVE  /\ UNCHANGED requests /\ Kept
             /\ \A w \in Workers : proc'[w].pc = "sent"
                                     => runner'.job = runner.job
  <2>1. CASE RunnerSteps
    <3>1. UNCHANGED <<requests, proc>>
      BY <2>1 DEF RunnerSteps, RunnerStarts, RunnerLoads, RunnerWaits,
                  RunnerFinishes, RunnerAborts, RunnerGoes
    <3>2. \/ \A w \in Workers : proc[w].pc = "idle"
          \/ runner'.job = runner.job
      <4>1. CASE runner.pc = "pool"
        BY <2>1, <4>1 DEF RunnerSteps, RunnerStarts, RunnerLoads, RunnerWaits,
                          RunnerFinishes, RunnerAborts, RunnerGoes
      <4>2. CASE runner.pc # "pool"
        BY <4>2 DEF IInv, WorkersServeOpenItems
      <4> QED
        BY <4>1, <4>2
    <3> QED
      BY <3>1, <3>2
  <2>2. CASE Crash \/ UpdaterStopsPortal
    <3>1. UNCHANGED requests /\ proc' = [p \in Procs |-> IdleProc]
      BY <2>2 DEF Crash, UpdaterStopsPortal, ProcessDies
    <3> QED
      BY <3>1
  <2>3. ASSUME NEW j \in Jobs, CreateQuotaResetJob(j)
        PROVE  /\ UNCHANGED <<requests, proc>>
               /\ \A w \in Workers : proc[w].pc = "idle"
    <3>1. UNCHANGED <<requests, proc>> /\ ~JobActive
      BY <2>3 DEF CreateQuotaResetJob, CreateJob
    <3>2. \A w \in Workers : proc[w].pc # "idle" => JobActive
      BY DEF IInv, WorkersServeOpenItems, RunnerOwnsJob, JobActive
    <3> QED
      BY <3>1, <3>2
  <2> QED
    BY <1>5, <2>1, <2>2, <2>3
<1> QED
  BY <1>1, <1>2, <1>3, <1>4, <1>5 DEF Next, Calls

LEMMA SentStaysCounted ==
  ASSUME IInv, SentIsCounted, Next
  PROVE  SentIsCounted'
<1>1. ASSUME NEW p \in Procs, Send(p) PROVE SentIsCounted'
  <2>1. /\ proc[p].pc = "calling" /\ UNCHANGED runner
        /\ \A q \in Procs : proc'[q].user = proc[q].user
        /\ \A q \in Procs \ {p} : proc'[q] = proc[q]
    BY <1>1 DEF Send, IInv, TypeOK
  <2>2. CASE p \in Workers
    <3>1. /\ runner.job \in Jobs /\ proc[p].user \in Users
          /\ requests[runner.job][proc[p].user] = 0
      BY <2>1, <2>2 DEF IInv, WorkersServeOpenItems, RunnerOwnsJob,
                        WorkersAreBusy, RequestsAreAccounted
    <3>2. \A u \in Users : requests'[runner.job][u]
            = IF u = proc[p].user THEN 1 ELSE requests[runner.job][u]
      BY <1>1, <2>2, <3>1 DEF Send, IInv, TypeOK
    <3>3. \A w \in Workers \ {p} : proc[w].pc # "idle"
            => proc[w].user \in Users /\ proc[w].user # proc[p].user
      BY <2>1, <2>2 DEF IInv, WorkersAreBusy
    <3> QED
      BY <2>1, <2>2, <3>1, <3>2, <3>3 DEF SentIsCounted
  <2>3. CASE p \notin Workers
    BY <1>1, <2>1, <2>3 DEF Send, SentIsCounted
  <2> QED
    BY <2>2, <2>3
<1> QED
  BY <1>1, OnlySendCounts DEF SentIsCounted

-----------------------------------------------------------------------------
(* The ledger's steps, as the promise sees them.                           *)

LEMMA PhaseAndReport ==
  ASSUME IInv
  PROVE  /\ \A j \in Jobs :
              /\ PromisedPhase[j] = "none" <=> jobStatus[j] = "none"
              /\ PromisedPhase[j] = "open" <=> Active(j)
              /\ PromisedPhase[j] = "closed" <=> jobStatus[j] = "completed"
         /\ \A j \in Jobs, u \in Users :
              PromisedReport[j][u] = "open"
                <=> itemStatus[j][u] \in OpenStatuses
<1>1. \A j \in Jobs : jobStatus[j] \in JobStatuses
  BY DEF IInv, TypeOK, StoreTypeOK
<1>2. \A j \in Jobs : PromisedPhase[j]
        = IF jobStatus[j] = "none" THEN "none"
          ELSE IF jobStatus[j] = "completed" THEN "closed" ELSE "open"
  BY DEF PromisedPhase
<1>3. \A j \in Jobs, u \in Users : PromisedReport[j][u]
        = IF itemStatus[j][u] \in OpenStatuses THEN "open"
          ELSE itemStatus[j][u]
  BY DEF PromisedReport
<1>4. ASSUME NEW j \in Jobs, NEW u \in Users PROVE itemStatus[j][u] # "open"
  <2>1. itemStatus[j][u] \in ItemStatuses \cup {"none"}
    BY DEF IInv, TypeOK, StoreTypeOK
  <2> QED
    BY <2>1
<1> QED
  BY <1>1, <1>2, <1>3, <1>4 DEF Active

LEMMA CreateRefines ==
  ASSUME IInv, NEW j \in Jobs, CreateJob(j), UNCHANGED historyVars
  PROVE  Promise!Open(j)
<1> DEFINE chosen == {u \in Users : userStatus[u] = "live"}
<1>1. PromisedPhase[j] = "none" /\ \A i \in Jobs : PromisedPhase[i] # "open"
  BY PhaseAndReport DEF CreateJob, JobActive
<1>2. PromisedPhase' = [PromisedPhase EXCEPT ![j] = "open"]
  BY DEF CreateJob, PromisedPhase, IInv, TypeOK, StoreTypeOK
<1>3. PromisedReport' =
        [PromisedReport EXCEPT ![j] =
           [u \in Users |-> IF u \in chosen THEN "open" ELSE "none"]]
  <2>1. itemStatus' = [itemStatus EXCEPT ![j] =
          [u \in Users |-> IF u \in chosen THEN "pending" ELSE "none"]]
    BY DEF CreateJob
  <2>2. /\ \A u \in Users : itemStatus'[j][u]
             = IF u \in chosen THEN "pending" ELSE "none"
        /\ \A i \in Jobs \ {j} : itemStatus'[i] = itemStatus[i]
    BY <2>1 DEF IInv, TypeOK, StoreTypeOK
  <2>3. PromisedReport'[j]
          = [u \in Users |-> IF u \in chosen THEN "open" ELSE "none"]
    BY <2>2 DEF PromisedReport
  <2>4. \A i \in Jobs \ {j} : PromisedReport'[i] = PromisedReport[i]
    BY <2>2 DEF PromisedReport
  <2>5. /\ PromisedReport = [i \in Jobs |-> PromisedReport[i]]
        /\ PromisedReport' = [i \in Jobs |-> PromisedReport'[i]]
    BY DEF PromisedReport
  <2> HIDE DEF chosen
  <2> QED
    BY <2>3, <2>4, <2>5
<1> QED
  BY <1>1, <1>2, <1>3 DEF Promise!Open

\* Finishing finds no open item, so closing reports none as unknown.
LEMMA FinishRefines ==
  ASSUME IInv, NEW j \in Jobs, FinishJob(j), UNCHANGED historyVars
  PROVE  Promise!Close(j)
<1>1. PromisedPhase[j] = "open"
  BY PhaseAndReport DEF FinishJob, Active
<1>2. \A u \in Users : itemStatus[j][u] \notin OpenStatuses
  BY TallyZero DEF FinishJob
<1>3. PromisedPhase' = [PromisedPhase EXCEPT ![j] = "closed"]
  BY DEF FinishJob, PromisedPhase, IInv, TypeOK, StoreTypeOK
<1>4. PromisedReport' = PromisedReport
  BY DEF FinishJob, PromisedReport
<1>5. PromisedReport =
        [PromisedReport EXCEPT ![j] =
           [u \in Users |-> IF PromisedReport[j][u] = "open" THEN "unknown"
                            ELSE PromisedReport[j][u]]]
  BY <1>2, PhaseAndReport DEF PromisedReport
<1> QED
  BY <1>1, <1>3, <1>4, <1>5 DEF Promise!Close

LEMMA AbandonRefines ==
  ASSUME IInv, NEW j \in Jobs, Active(j), CloseJobs({j}),
         UNCHANGED historyVars
  PROVE  Promise!Close(j)
<1>1. PromisedPhase[j] = "open"
  BY PhaseAndReport
<1>2. PromisedPhase' = [PromisedPhase EXCEPT ![j] = "closed"]
  BY DEF CloseJobs, PromisedPhase, IInv, TypeOK, StoreTypeOK
<1>3. PromisedReport' =
        [PromisedReport EXCEPT ![j] =
           [u \in Users |-> IF PromisedReport[j][u] = "open" THEN "unknown"
                            ELSE PromisedReport[j][u]]]
  <2>1. itemStatus' = [i \in Jobs |-> IF i = j THEN Abandoned(itemStatus[j])
                                               ELSE itemStatus[i]]
    BY DEF CloseJobs
  <2>2. \A u \in Users : Abandoned(itemStatus[j])[u]
          = IF itemStatus[j][u] \in OpenStatuses THEN "unknown"
            ELSE itemStatus[j][u]
    BY DEF Abandoned
  <2>3. \A u \in Users :
          PromisedReport'[j][u] = IF itemStatus[j][u] \in OpenStatuses
                                  THEN "unknown" ELSE PromisedReport[j][u]
    BY <2>1, <2>2 DEF PromisedReport
  <2>4. PromisedReport'[j]
          = [u \in Users |-> IF PromisedReport[j][u] = "open" THEN "unknown"
                             ELSE PromisedReport[j][u]]
    <3> DEFINE f == PromisedReport'[j]
               g == [u \in Users |->
                       IF PromisedReport[j][u] = "open" THEN "unknown"
                       ELSE PromisedReport[j][u]]
    <3>1. f = [u \in Users |-> f[u]]
      BY DEF PromisedReport
    <3>2. \A u \in Users : f[u] = g[u]
      BY <2>3, PhaseAndReport
    <3> HIDE DEF f
    <3>3. f = g
      BY <3>1, <3>2
    <3> QED
      BY <3>3 DEF f
  <2>5. \A i \in Jobs \ {j} : PromisedReport'[i] = PromisedReport[i]
    BY <2>1 DEF PromisedReport
  <2>6. /\ PromisedReport = [i \in Jobs |-> PromisedReport[i]]
        /\ PromisedReport' = [i \in Jobs |-> PromisedReport'[i]]
    BY DEF PromisedReport
  <2> QED
    BY <2>4, <2>5, <2>6
<1> QED
  BY <1>1, <1>2, <1>3 DEF Promise!Close

\* Recovery closes the one job that a dead process left active, if any.
LEMMA RecoverRefines ==
  ASSUME IInv, RecoverJobs, UNCHANGED historyVars
  PROVE  \/ \E j \in Jobs : Promise!Close(j)
         \/ UNCHANGED Promise!promiseVars
<1>1. ASSUME NEW j \in Jobs, Active(j) PROVE Promise!Close(j)
  <2>1. {i \in Jobs : Active(i)} = {j}
    BY <1>1 DEF IInv, StoreInv, OneActiveJob
  <2> QED
    BY <1>1, <2>1, AbandonRefines DEF RecoverJobs
<1>2. ASSUME \A j \in Jobs : ~Active(j) PROVE UNCHANGED Promise!promiseVars
  <2>1. /\ jobStatus' = [j \in Jobs |-> jobStatus[j]]
        /\ itemStatus' = [j \in Jobs |-> itemStatus[j]]
    BY <1>2 DEF RecoverJobs, CloseJobs
  <2> QED
    BY <2>1 DEF Promise!promiseVars, PromisedPhase, PromisedReport
<1> QED
  BY <1>1, <1>2

\* Starting a job, or an item of it, is not for the administrator to see.
LEMMA StartsAreUnseen ==
  ASSUME IInv, NEW j \in Jobs, UNCHANGED historyVars,
         MarkJobRunning(j) \/ \E u \in Users : MarkItemRunning(j, u)
  PROVE  UNCHANGED Promise!promiseVars
<1>1. CASE MarkJobRunning(j)
  BY <1>1 DEF MarkJobRunning, Promise!promiseVars, PromisedPhase,
              PromisedReport, IInv, TypeOK, StoreTypeOK
<1>2. ASSUME NEW u \in Users, MarkItemRunning(j, u)
      PROVE  UNCHANGED Promise!promiseVars
  <2>1. /\ itemStatus[j][u] = "pending"
        /\ itemStatus' = [itemStatus EXCEPT ![j][u] = "running"]
        /\ UNCHANGED jobStatus
    BY <1>2 DEF MarkItemRunning, WriteItem
  <2>2. PromisedReport' = PromisedReport
    BY <2>1 DEF PromisedReport, IInv, TypeOK, StoreTypeOK
  <2> QED
    BY <2>1, <2>2 DEF Promise!promiseVars, PromisedPhase
<1> QED
  BY <1>1, <1>2

LEMMA CompletionRefines ==
  ASSUME IInv, NEW w \in Workers, WorkerCompletes(w),
         UNCHANGED historyVars
  PROVE  [Promise!PromiseNext]_(Promise!promiseVars)
<1> DEFINE j == runner.job
           u == proc[w].user
           outcome == proc[w].result
<1>1. /\ proc[w].pc = "answered" /\ j \in Jobs /\ u \in Users
      /\ itemStatus[j][u] = "running" /\ Active(j)
  BY DEF WorkerCompletes, IInv, WorkersServeOpenItems, WorkersAreBusy,
         RunnerOwnsJob
<1>2. /\ outcome = "skipped" => requests[j][u] = 0
      /\ outcome = "succeeded" => <<j, u>> \in effects
  BY <1>1 DEF IInv, RequestsAreAccounted, SuccessIsApplied
<1>3. CASE Fatal(w)
  BY <1>3 DEF Fatal, Promise!promiseVars, PromisedPhase, PromisedReport
<1>4. CASE CompleteItem(j, u, outcome)
  <2>1. /\ outcome \in TerminalStatuses /\ UNCHANGED jobStatus
        /\ itemStatus' = [itemStatus EXCEPT ![j][u] = outcome]
    BY <1>4 DEF CompleteItem, WriteItem
  <2>2. PromisedReport' = [PromisedReport EXCEPT ![j][u] = outcome]
    <3>1. itemStatus'[j][u] = outcome /\ outcome \notin OpenStatuses
      BY <1>1, <2>1 DEF IInv, TypeOK, StoreTypeOK
    <3>2. \A i \in Jobs, v \in Users :
            i # j \/ v # u => itemStatus'[i][v] = itemStatus[i][v]
      BY <1>1, <2>1 DEF IInv, TypeOK, StoreTypeOK
    <3>3. \A i \in Jobs : PromisedReport'[i]
            = IF i = j THEN [PromisedReport[j] EXCEPT ![u] = outcome]
              ELSE PromisedReport[i]
      BY <1>1, <3>1, <3>2 DEF PromisedReport
    <3>4. /\ PromisedReport = [i \in Jobs |-> PromisedReport[i]]
          /\ PromisedReport' = [i \in Jobs |-> PromisedReport'[i]]
      BY DEF PromisedReport
    <3> QED
      BY <1>1, <3>3, <3>4
  <2>3. PromisedPhase' = PromisedPhase
    BY <2>1 DEF PromisedPhase
  <2>4. Promise!OpenItem(j, u)
    BY <1>1, PhaseAndReport DEF Promise!OpenItem
  <2>5. Promise!Report(j, u, outcome)
    BY <1>2, <2>2, <2>3, <2>4 DEF Promise!Report
  <2> QED
    BY <1>1, <2>1, <2>5 DEF Promise!PromiseNext
<1> QED
  BY <1>3, <1>4 DEF WorkerCompletes

\* A worker's request is the first for its item, and the item is open.
LEMMA SendRefines ==
  ASSUME IInv, NEW p \in Procs, Send(p)
  PROVE  [Promise!PromiseNext]_(Promise!promiseVars)
<1>1. UNCHANGED <<PromisedPhase, PromisedReport, effects>>
  BY DEF Send, PromisedPhase, PromisedReport
<1>2. CASE p \notin Workers
  BY <1>1, <1>2 DEF Send, Promise!promiseVars
<1>3. CASE p \in Workers
  <2> DEFINE j == runner.job
             u == proc[p].user
  <2>1. /\ j \in Jobs /\ u \in Users /\ requests[j][u] = 0 /\ Active(j)
        /\ itemStatus[j][u] = "running"
    BY <1>3 DEF Send, IInv, WorkersServeOpenItems, RunnerOwnsJob,
                WorkersAreBusy, RequestsAreAccounted
  <2>2. requests' = [requests EXCEPT ![j][u] = 1]
    BY <1>3, <2>1 DEF Send, IInv, TypeOK
  <2>3. Promise!OpenItem(j, u)
    BY <2>1, PhaseAndReport DEF Promise!OpenItem
  <2>4. Promise!Ask(j, u)
    BY <1>1, <2>1, <2>2, <2>3 DEF Promise!Ask
  <2> QED
    BY <2>1, <2>4 DEF Promise!PromiseNext
<1> QED
  BY <1>2, <1>3

LEMMA UpstreamApplyRefines ==
  ASSUME IInv, SentIsCounted, NEW p \in Procs, UpstreamApply(p)
  PROVE  [Promise!PromiseNext]_(Promise!promiseVars)
<1>1. UNCHANGED <<PromisedPhase, PromisedReport, requests>>
  BY DEF UpstreamApply, PromisedPhase, PromisedReport
<1>2. CASE p \notin Workers
  BY <1>1, <1>2 DEF UpstreamApply, Promise!promiseVars
<1>3. CASE p \in Workers
  <2>1. /\ runner.job \in Jobs /\ proc[p].user \in Users
        /\ requests[runner.job][proc[p].user] = 1
        /\ effects' = effects \cup {<<runner.job, proc[p].user>>}
    BY <1>3 DEF UpstreamApply, IInv, WorkersServeOpenItems, RunnerOwnsJob,
                WorkersAreBusy, SentIsCounted
  <2>2. Promise!CarryOut(runner.job, proc[p].user)
    BY <1>1, <2>1 DEF Promise!CarryOut
  <2> QED
    BY <2>1, <2>2 DEF Promise!PromiseNext
<1> QED
  BY <1>2, <1>3

-----------------------------------------------------------------------------
(* The workflow's steps.                                                   *)

LEMMA RunnerRefines ==
  ASSUME IInv, RunnerSteps
  PROVE  [Promise!PromiseNext]_(Promise!promiseVars)
<1>1. UNCHANGED historyVars
  BY DEF RunnerSteps, RunnerStarts, RunnerLoads, RunnerWaits, RunnerFinishes,
         RunnerAborts, RunnerGoes
<1>2. runner.pc # "idle" => runner.job \in Jobs
  BY DEF IInv, RunnerOwnsJob
<1>3. ASSUME UNCHANGED ledgerVars PROVE UNCHANGED Promise!promiseVars
  BY <1>1, <1>3 DEF Promise!promiseVars, PromisedPhase, PromisedReport
<1>4. CASE RunnerStarts
  BY <1>1, <1>2, <1>3, <1>4, StartsAreUnseen DEF RunnerStarts
<1>5. CASE RunnerLoads \/ RunnerWaits
  BY <1>3, <1>5 DEF RunnerLoads, RunnerWaits
<1>6. CASE RunnerFinishes
  BY <1>1, <1>2, <1>3, <1>6, FinishRefines
     DEF RunnerFinishes, Promise!PromiseNext
<1>7. CASE RunnerAborts
  BY <1>1, <1>2, <1>3, <1>7, AbandonRefines
     DEF RunnerAborts, AbortJob, Promise!PromiseNext
<1> QED
  BY <1>4, <1>5, <1>6, <1>7 DEF RunnerSteps

LEMMA WorkerRefines ==
  ASSUME IInv, NEW w \in Workers, WorkerSteps(w)
  PROVE  [Promise!PromiseNext]_(Promise!promiseVars)
<1>1. UNCHANGED historyVars
  BY DEF WorkerSteps, WorkerTakes, WorkerValidates, WorkerCompletes, Fatal
<1>2. ASSUME UNCHANGED ledgerVars PROVE UNCHANGED Promise!promiseVars
  BY <1>1, <1>2 DEF Promise!promiseVars, PromisedPhase, PromisedReport
<1>3. CASE WorkerTakes(w)
  <2>1. queue \subseteq Users /\ runner.job \in Jobs
    BY <1>3 DEF WorkerTakes, IInv, TypeOK, RunnerOwnsJob
  <2>2. CASE Fatal(w)
    BY <1>2, <2>2 DEF Fatal
  <2>3. ASSUME NEW u \in Users, MarkItemRunning(runner.job, u)
        PROVE  UNCHANGED Promise!promiseVars
    BY <1>1, <2>1, <2>3, StartsAreUnseen
  <2> QED
    BY <1>3, <2>1, <2>2, <2>3 DEF WorkerTakes
<1>4. CASE WorkerValidates(w)
  BY <1>2, <1>4 DEF WorkerValidates
<1>5. CASE WorkerCompletes(w)
  BY <1>1, <1>5, CompletionRefines
<1> QED
  BY <1>3, <1>4, <1>5 DEF WorkerSteps

LEMMA StepRefines ==
  ASSUME IInv, SentIsCounted, [Next]_vars
  PROVE  [Promise!PromiseNext]_(Promise!promiseVars)
<1>1. ASSUME UNCHANGED ledgerVars, UNCHANGED historyVars
      PROVE  UNCHANGED Promise!promiseVars
  BY <1>1 DEF Promise!promiseVars, PromisedPhase, PromisedReport
<1>2. CASE Administration \/ Singles
  <2>1. UNCHANGED ledgerVars /\ UNCHANGED historyVars
    BY <1>2 DEF Administration, ChangeBinding, BackgroundSync, Singles,
                AdmitSingle, FinishSingle, CreateUser, SetBinding,
                DeleteBinding, DeleteUser, ApplyKeySnapshots
  <2> QED
    BY <1>1, <2>1
<1>3. ASSUME NEW p \in Procs, Calls(p)
      PROVE  [Promise!PromiseNext]_(Promise!promiseVars)
  <2>1. CASE Send(p)
    BY <2>1, SendRefines
  <2>2. CASE UpstreamApply(p)
    BY <2>2, UpstreamApplyRefines
  <2>3. CASE NotSent(p) \/ \E answer \in Answers : Answer(p, answer)
    BY <1>1, <2>3 DEF NotSent, Answer, ReturnFromCall, ApplyKeyLimitChange
  <2> QED
    BY <1>3, <2>1, <2>2, <2>3 DEF Calls
<1>4. ASSUME NEW j \in Jobs, CreateQuotaResetJob(j)
      PROVE  [Promise!PromiseNext]_(Promise!promiseVars)
  BY <1>4, CreateRefines DEF CreateQuotaResetJob, Promise!PromiseNext
<1>5. CASE RunnerSteps
  BY <1>5, RunnerRefines
<1>6. ASSUME NEW w \in Workers, WorkerSteps(w)
      PROVE  [Promise!PromiseNext]_(Promise!promiseVars)
  BY <1>6, WorkerRefines
<1>7. CASE \/ Crash \/ applyUpdate \/ UpdaterStopsPortal \/ UpdaterRecovers
           \/ UpdateEnds
  BY <1>1, <1>7 DEF Crash, ProcessDies, applyUpdate, UpdaterStopsPortal,
                    UpdaterRecovers, UpdateEnds
<1>8. CASE Restart
  BY <1>8, RecoverRefines DEF Restart, Promise!PromiseNext
<1>9. CASE UNCHANGED vars
  BY <1>1, <1>9 DEF vars
<1> QED
  BY <1>2, <1>3, <1>4, <1>5, <1>6, <1>7, <1>8, <1>9 DEF Next

\* The portal keeps what it promises of a batch: each item is asked of Sub2API
\* at most once and only while the batch is open, a success was carried out, a
\* skipped item was never asked, no report is changed, and a batch that is
\* closed has nothing open.
THEOREM BatchesKeepThePromise == Spec => KeepsThePromise
<1>1. Init => Promise!PromiseInit /\ SentIsCounted
  BY DEF Init, StoreInit, Promise!PromiseInit, PromisedPhase, PromisedReport,
         SentIsCounted
<1>2. IInv /\ SentIsCounted /\ [Next]_vars => SentIsCounted'
  BY SentStaysCounted DEF vars, SentIsCounted
<1>3. IInv /\ SentIsCounted /\ [Next]_vars
        => [Promise!PromiseNext]_(Promise!promiseVars)
  BY StepRefines
<1> QED
  BY <1>1, <1>2, <1>3, InvHolds, PTL
     DEF Spec, KeepsThePromise, Promise!PromiseSpec
=============================================================================

-------------------------- MODULE QuotaResetStore --------------------------
(***************************************************************************)
(* The SQLite tables behind quota resets: users, key_bindings,             *)
(* quota_reset_jobs and quota_reset_job_items.  The pool has a single      *)
(* connection and every exported method of internal/store is one           *)
(* statement or one transaction, so each method is one action.  A method   *)
(* that returns an error rolls back: it is the absence of its action.      *)
(*                                                                         *)
(* StoreSpec lets callers invoke the methods in any order, so what holds   *)
(* of it holds whatever the HTTP layer does.                               *)
(***************************************************************************)
EXTENDS Naturals, FiniteSets

CONSTANTS
  Users,   \* identifiers the users table may hand out (role "user")
  Keys,    \* upstream key identifiers
  Jobs,    \* identifiers quota_reset_jobs may hand out
  None     \* SQL NULL

ASSUME StoreConstants ==
  /\ None \notin Users \cup Keys \cup Jobs
  /\ IsFiniteSet(Users)

VARIABLES
  userStatus,  \* "live" stands for active and disabled alike
  binding,     \* key_bindings.upstream_key_id of each user
  missing,     \* users whose binding_state is "missing"
  jobStatus,   \* quota_reset_jobs.status, "none" before the row exists
  itemStatus,  \* quota_reset_job_items.status per job and user
  itemKey,     \* the upstream_key_id copied into the item at creation
  counters     \* the seven *_count columns of quota_reset_jobs

directoryVars == <<userStatus, binding, missing>>
ledgerVars == <<jobStatus, itemStatus, itemKey, counters>>
storeVars == <<userStatus, binding, missing,
               jobStatus, itemStatus, itemKey, counters>>

UserStatuses == {"none", "live", "deleted"}
JobStatuses == {"none", "queued", "running", "completed"}
OpenStatuses == {"pending", "running"}
TerminalStatuses == {"succeeded", "failed", "unknown", "skipped"}
ItemStatuses == OpenStatuses \cup TerminalStatuses
CounterNames == ItemStatuses \cup {"total"}

StoreTypeOK ==
  /\ userStatus \in [Users -> UserStatuses]
  /\ binding \in [Users -> Keys \cup {None}]
  /\ missing \in SUBSET Users
  /\ jobStatus \in [Jobs -> JobStatuses]
  /\ itemStatus \in [Jobs -> [Users -> ItemStatuses \cup {"none"}]]
  /\ itemKey \in [Jobs -> [Users -> Keys \cup {None}]]
  /\ counters \in [Jobs -> [CounterNames -> Nat]]

Active(j) == jobStatus[j] \in {"queued", "running"}

\* What CurrentQuotaResetJob lets its callers decide.
JobActive == \E j \in Jobs : Active(j)

Items(j) == {u \in Users : itemStatus[j][u] # "none"}

\* The row counts recomputeQuotaResetCounters selects.
Tally(items) ==
  [c \in CounterNames |->
     Cardinality({u \in Users : IF c = "total" THEN items[u] # "none"
                                               ELSE items[u] = c})]

StoreInit ==
  /\ userStatus = [u \in Users |-> "none"]
  /\ binding = [u \in Users |-> None]
  /\ missing = {}
  /\ jobStatus = [j \in Jobs |-> "none"]
  /\ itemStatus = [j \in Jobs |-> [u \in Users |-> "none"]]
  /\ itemKey = [j \in Jobs |-> [u \in Users |-> None]]
  /\ counters = [j \in Jobs |-> [c \in CounterNames |-> 0]]

-----------------------------------------------------------------------------
(* Users and bindings.                                                     *)

\* The unique index on key_bindings.upstream_key_id.
Unbound(k) == \A u \in Users : binding[u] # k

\* insertBinding: the state comes from the snapshot, never "missing".
InsertBinding(u, k) ==
  /\ binding' = [binding EXCEPT ![u] = k]
  /\ missing' = missing \ {u}

CreateUser(u, k) ==
  /\ userStatus[u] = "none"
  /\ Unbound(k)
  /\ userStatus' = [userStatus EXCEPT ![u] = "live"]
  /\ InsertBinding(u, k)
  /\ UNCHANGED ledgerVars

SetBinding(u, k) ==
  /\ userStatus[u] = "live"
  /\ \A v \in Users \ {u} : binding[v] # k
  /\ InsertBinding(u, k)
  /\ UNCHANGED userStatus
  /\ UNCHANGED ledgerVars

DeleteBinding(u) ==
  /\ binding[u] # None
  /\ binding' = [binding EXCEPT ![u] = None]
  /\ missing' = missing \ {u}
  /\ UNCHANGED userStatus
  /\ UNCHANGED ledgerVars

DeleteUser(u) ==
  /\ userStatus[u] = "live"
  /\ userStatus' = [userStatus EXCEPT ![u] = "deleted"]
  /\ binding' = [binding EXCEPT ![u] = None]
  /\ missing' = missing \ {u}
  /\ UNCHANGED ledgerVars

\* binding_state after a complete key list that contained exactly `listed`.
MissingFrom(listed) == {u \in Users : binding[u] \notin listed \cup {None}}

ApplyKeySnapshots(listed) ==
  /\ missing' = MissingFrom(listed)
  /\ UNCHANGED <<userStatus, binding>>
  /\ UNCHANGED ledgerVars

\* The limits echoed by Sub2API recompute binding_state, which clears "missing".
ApplyKeyLimitChange(k) ==
  /\ missing' = {u \in missing : binding[u] # k}
  /\ UNCHANGED <<userStatus, binding>>
  /\ UNCHANGED ledgerVars

-----------------------------------------------------------------------------
(* The job ledger.                                                         *)

\* Insert the job and snapshot every live user with the key bound now.  The
\* partial unique index admits one queued or running job.
CreateJob(j) ==
  LET snapshot == {u \in Users : userStatus[u] = "live"} IN
  /\ jobStatus[j] = "none"
  /\ ~JobActive
  /\ jobStatus' = [jobStatus EXCEPT ![j] = "queued"]
  /\ itemStatus' = [itemStatus EXCEPT ![j] =
       [u \in Users |-> IF u \in snapshot THEN "pending" ELSE "none"]]
  /\ itemKey' = [itemKey EXCEPT ![j] =
       [u \in Users |-> IF u \in snapshot THEN binding[u] ELSE None]]
  /\ counters' = [counters EXCEPT ![j] =
       [c \in CounterNames |-> IF c \in {"total", "pending"}
                               THEN Cardinality(snapshot) ELSE 0]]
  /\ UNCHANGED directoryVars

MarkJobRunning(j) ==
  /\ jobStatus[j] = "queued"
  /\ jobStatus' = [jobStatus EXCEPT ![j] = "running"]
  /\ UNCHANGED <<itemStatus, itemKey, counters>>
  /\ UNCHANGED directoryVars

\* Give item u of job j a status and recompute the counters of the job.
WriteItem(j, u, status) ==
  /\ itemStatus' = [itemStatus EXCEPT ![j][u] = status]
  /\ counters' = [counters EXCEPT ![j] = Tally(itemStatus'[j])]
  /\ UNCHANGED <<jobStatus, itemKey>>
  /\ UNCHANGED directoryVars

\* Mutant: marking an item running forgets to recompute.
MarkItemRunningUncounted(j, u) ==
  /\ itemStatus[j][u] = "pending"
  /\ jobStatus[j] = "running"
  /\ itemStatus' = [itemStatus EXCEPT ![j][u] = "running"]
  /\ UNCHANGED <<jobStatus, itemKey, counters>>
  /\ UNCHANGED directoryVars

MarkItemRunning(j, u) ==
  /\ itemStatus[j][u] = "pending"
  /\ jobStatus[j] = "running"
  /\ WriteItem(j, u, "running")

CompleteItem(j, u, status) ==
  /\ status \in TerminalStatuses
  /\ itemStatus[j][u] \in OpenStatuses
  /\ jobStatus[j] = "running"
  /\ WriteItem(j, u, status)

FinishJob(j) ==
  LET tally == Tally(itemStatus[j]) IN
  /\ jobStatus[j] = "running"
  /\ tally["pending"] = 0 /\ tally["running"] = 0
  /\ jobStatus' = [jobStatus EXCEPT ![j] = "completed"]
  /\ counters' = [counters EXCEPT ![j] = tally]
  /\ UNCHANGED <<itemStatus, itemKey>>
  /\ UNCHANGED directoryVars

\* Mutant: the closing UPDATE is not limited to open items.
AbandonedAll(items) ==
  [u \in Users |-> IF items[u] = "none" THEN "none" ELSE "unknown"]

\* Mutant: what a dead process left over counts as never attempted.
AbandonedAsSkipped(items) ==
  [u \in Users |-> IF items[u] \in OpenStatuses THEN "skipped" ELSE items[u]]

\* What is left of a job's open items when it is closed early.
Abandoned(items) ==
  [u \in Users |-> IF items[u] \in OpenStatuses THEN "unknown" ELSE items[u]]

\* abortQuotaResetJobTx for every job of J, in one transaction.
CloseJobs(J) ==
  /\ jobStatus' = [j \in Jobs |-> IF j \in J THEN "completed" ELSE jobStatus[j]]
  /\ itemStatus' = [j \in Jobs |-> IF j \in J THEN Abandoned(itemStatus[j])
                                              ELSE itemStatus[j]]
  /\ counters' = [j \in Jobs |-> IF j \in J THEN Tally(Abandoned(itemStatus[j]))
                                            ELSE counters[j]]
  /\ UNCHANGED itemKey
  /\ UNCHANGED directoryVars

\* Aborting a completed job succeeds and changes nothing: it is no action.
AbortJob(j) == Active(j) /\ CloseJobs({j})

RecoverJobs == CloseJobs({j \in Jobs : Active(j)})

-----------------------------------------------------------------------------
StoreNext ==
  \/ \E u \in Users, k \in Keys : CreateUser(u, k) \/ SetBinding(u, k)
  \/ \E u \in Users : DeleteBinding(u) \/ DeleteUser(u)
  \/ \E listed \in SUBSET Keys : ApplyKeySnapshots(listed)
  \/ \E k \in Keys : ApplyKeyLimitChange(k)
  \/ \E j \in Jobs : \/ CreateJob(j) \/ MarkJobRunning(j)
                     \/ FinishJob(j) \/ AbortJob(j)
  \/ \E j \in Jobs, u \in Users :
       \/ MarkItemRunning(j, u)
       \/ \E s \in TerminalStatuses : CompleteItem(j, u, s)
  \/ RecoverJobs

StoreSpec == StoreInit /\ [][StoreNext]_storeVars

-----------------------------------------------------------------------------
(* Safety.                                                                 *)

\* The counters an administrator polls always equal the statuses of the
\* items, whichever of the five writers ran last.
CountersMatchItems ==
  \A j \in Jobs : counters[j] = Tally(itemStatus[j])

\* A completed job has no item left pending or running: neither finishing nor
\* aborting nor recovering can close a job over open work.
CompletedJobsAreSettled ==
  \A j \in Jobs, u \in Users :
    jobStatus[j] = "completed" => itemStatus[j][u] \notin OpenStatuses

\* One key serves one user, and within one batch one item: a batch cannot
\* reset the same key twice by way of two items.
KeysAreExclusive ==
  \A u, v \in Users :
    /\ u # v /\ binding[u] = binding[v] => binding[u] = None
    /\ \A j \in Jobs : u # v /\ itemKey[j][u] = itemKey[j][v]
                         => itemKey[j][u] = None

\* History is append-only: an item that reached a terminal status keeps it, a
\* completed job stays completed, and the key an item was created for never
\* changes, whatever later transactions do to users and bindings.
RecordedJob(j) ==
  /\ jobStatus[j] = "completed" => jobStatus'[j] = "completed"
  /\ jobStatus[j] # "none" => itemKey'[j] = itemKey[j]
  /\ \A u \in Users : itemStatus[j][u] \in TerminalStatuses
                        => itemStatus'[j][u] = itemStatus[j][u]

HistoryIsAppendOnly == [][\A j \in Jobs : RecordedJob(j)]_storeVars
=============================================================================

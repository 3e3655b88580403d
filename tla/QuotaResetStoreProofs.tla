----------------------- MODULE QuotaResetStoreProofs -----------------------
(***************************************************************************)
(* The reset ledger is sound for every set of users, keys and jobs and     *)
(* every order in which callers invoke the store.                          *)
(***************************************************************************)
EXTENDS QuotaResetStore, FiniteSetTheorems, TLAPS

\* A job identifier that was not handed out has no rows: what makes creation
\* an append.
FreshJobsAreEmpty ==
  \A j \in Jobs, u \in Users :
    jobStatus[j] = "none" => itemStatus[j][u] = "none"

OneActiveJob == \A i, j \in Jobs : Active(i) /\ Active(j) => i = j

StoreInv ==
  /\ StoreTypeOK
  /\ FreshJobsAreEmpty
  /\ OneActiveJob
  /\ CountersMatchItems
  /\ CompletedJobsAreSettled
  /\ KeysAreExclusive

USE DEF UserStatuses, JobStatuses, OpenStatuses, TerminalStatuses,
        ItemStatuses, CounterNames

\* Counting the rows of a job gives one natural number per counter.
LEMMA TallyType ==
  ASSUME NEW items
  PROVE  Tally(items) \in [CounterNames -> Nat]
<1> SUFFICES ASSUME NEW c \in CounterNames
             PROVE  Cardinality({u \in Users : IF c = "total"
                       THEN items[u] # "none" ELSE items[u] = c}) \in Nat
  BY DEF Tally
<1> DEFINE S == {u \in Users : IF c = "total" THEN items[u] # "none"
                                               ELSE items[u] = c}
<1>1. IsFiniteSet(S)
  BY StoreConstants, FS_Subset
<1> QED
  BY <1>1, FS_CardinalityType

\* A counter at zero means no row has that status.
LEMMA TallyZero ==
  ASSUME NEW items, NEW c \in ItemStatuses, Tally(items)[c] = 0
  PROVE  \A u \in Users : items[u] # c
<1> DEFINE S == {u \in Users : items[u] = c}
<1>1. IsFiniteSet(S)
  BY StoreConstants, FS_Subset
<1>2. Cardinality(S) = 0
  BY DEF Tally
<1>3. S = {}
  BY <1>1, <1>2, FS_EmptySet
<1> QED
  BY <1>3

\* The counters written at creation are the counts of the rows inserted.
LEMMA TallyAtCreation ==
  ASSUME NEW chosen \in SUBSET Users
  PROVE  Tally([u \in Users |-> IF u \in chosen THEN "pending" ELSE "none"])
           = [c \in CounterNames |-> IF c \in {"total", "pending"}
                                     THEN Cardinality(chosen) ELSE 0]
<1> DEFINE items == [u \in Users |-> IF u \in chosen THEN "pending" ELSE "none"]
           S(c) == {u \in Users : IF c = "total" THEN items[u] # "none"
                                                 ELSE items[u] = c}
<1>1. ASSUME NEW c \in CounterNames
      PROVE  Cardinality(S(c)) = IF c \in {"total", "pending"}
                                 THEN Cardinality(chosen) ELSE 0
  <2>1. CASE c \in {"total", "pending"}
    <3>1. S(c) = chosen
      BY <2>1
    <3> QED
      BY <3>1, <2>1
  <2>2. CASE c \notin {"total", "pending"}
    <3>1. S(c) = {}
      BY <2>2
    <3> QED
      BY <3>1, <2>2, FS_EmptySet
  <2> QED
    BY <2>1, <2>2
<1> QED
  BY <1>1 DEF Tally

\* A batch before its creation counts nothing.
LEMMA TallyOfNothing ==
  Tally([u \in Users |-> "none"]) = [c \in CounterNames |-> 0]
<1>1. Tally([u \in Users |-> IF u \in {} THEN "pending" ELSE "none"])
        = [c \in CounterNames |-> IF c \in {"total", "pending"}
                                  THEN Cardinality({}) ELSE 0]
  BY TallyAtCreation
<1>2. Cardinality({}) = 0
  BY FS_EmptySet
<1> QED
  BY <1>1, <1>2

LEMMA StoreInitInv == StoreInit => StoreInv
<1> SUFFICES ASSUME StoreInit PROVE StoreInv
  OBVIOUS
<1>1. StoreTypeOK /\ FreshJobsAreEmpty /\ OneActiveJob
  BY DEF StoreInit, StoreTypeOK, FreshJobsAreEmpty, OneActiveJob, Active
<1>2. CountersMatchItems
  BY TallyOfNothing DEF StoreInit, CountersMatchItems
<1>3. CompletedJobsAreSettled /\ KeysAreExclusive
  BY DEF StoreInit, CompletedJobsAreSettled, KeysAreExclusive
<1> QED
  BY <1>1, <1>2, <1>3 DEF StoreInv

\* Users and bindings change without touching the ledger.
LEMMA DirectoryStepInv ==
  ASSUME StoreInv,
         \/ \E u \in Users, k \in Keys : CreateUser(u, k) \/ SetBinding(u, k)
         \/ \E u \in Users : DeleteBinding(u) \/ DeleteUser(u)
         \/ \E listed \in SUBSET Keys : ApplyKeySnapshots(listed)
         \/ \E k \in Keys : ApplyKeyLimitChange(k)
  PROVE  StoreInv' /\ \A j \in Jobs : RecordedJob(j)
<1> USE DEF CreateUser, SetBinding, DeleteBinding, DeleteUser, InsertBinding,
            ApplyKeySnapshots, ApplyKeyLimitChange, MissingFrom, Unbound
<1>1. UNCHANGED ledgerVars
  OBVIOUS
<1>2. StoreTypeOK'
  <2>1. /\ userStatus' \in [Users -> UserStatuses]
        /\ binding' \in [Users -> Keys \cup {None}]
    <3>1. ASSUME NEW u \in Users, NEW k \in Keys, CreateUser(u, k) \/ SetBinding(u, k)
          PROVE  /\ userStatus' \in [Users -> UserStatuses]
                 /\ binding' \in [Users -> Keys \cup {None}]
      <4>1. /\ userStatus \in [Users -> UserStatuses]
            /\ binding \in [Users -> Keys \cup {None}]
        BY DEF StoreInv, StoreTypeOK
      <4>2. CASE CreateUser(u, k)
        BY <4>1, <4>2
      <4>3. CASE SetBinding(u, k)
        BY <4>1, <4>3
      <4> QED
        BY <3>1, <4>2, <4>3
    <3>2. ASSUME NEW u \in Users, DeleteBinding(u) \/ DeleteUser(u)
          PROVE  /\ userStatus' \in [Users -> UserStatuses]
                 /\ binding' \in [Users -> Keys \cup {None}]
      BY <3>2 DEF StoreInv, StoreTypeOK
    <3>3. ASSUME UNCHANGED <<userStatus, binding>>
          PROVE  /\ userStatus' \in [Users -> UserStatuses]
                 /\ binding' \in [Users -> Keys \cup {None}]
      BY <3>3 DEF StoreInv, StoreTypeOK
    <3> QED
      BY <3>1, <3>2, <3>3
  <2>2. missing' \in SUBSET Users
    BY DEF StoreInv, StoreTypeOK
  <2> QED
    BY <1>1, <2>1, <2>2 DEF StoreInv, StoreTypeOK, ledgerVars
<1>3. (FreshJobsAreEmpty /\ OneActiveJob /\ CountersMatchItems
        /\ CompletedJobsAreSettled)'
  BY <1>1 DEF StoreInv, FreshJobsAreEmpty, OneActiveJob, Active,
              CountersMatchItems, CompletedJobsAreSettled, ledgerVars
<1>4. \A u, v \in Users : u # v /\ binding'[u] = binding'[v] => binding'[u] = None
  BY StoreConstants DEF StoreInv, StoreTypeOK, KeysAreExclusive
<1>5. KeysAreExclusive'
  BY <1>1, <1>4 DEF StoreInv, KeysAreExclusive, ledgerVars
<1>6. \A j \in Jobs : RecordedJob(j)
  BY <1>1 DEF RecordedJob, ledgerVars
<1> QED
  BY <1>2, <1>3, <1>5, <1>6 DEF StoreInv

LEMMA CreateJobInv ==
  ASSUME StoreInv, NEW j \in Jobs, CreateJob(j)
  PROVE  StoreInv' /\ \A i \in Jobs : RecordedJob(i)
<1> DEFINE snapshot == {u \in Users : userStatus[u] = "live"}
<1> USE DEF CreateJob, JobActive, directoryVars
<1>1. StoreTypeOK'
  <2>1. Cardinality(snapshot) \in Nat
    BY StoreConstants, FS_Subset, FS_CardinalityType
  <2> QED
    BY <2>1 DEF StoreInv, StoreTypeOK
<1>2. FreshJobsAreEmpty' /\ OneActiveJob'
  BY DEF StoreInv, StoreTypeOK, FreshJobsAreEmpty, OneActiveJob, Active
<1>3. CountersMatchItems'
  <2>1. counters'[j] = Tally(itemStatus'[j])
    BY TallyAtCreation DEF StoreInv, StoreTypeOK
  <2>2. \A i \in Jobs : i # j => counters'[i] = Tally(itemStatus'[i])
    BY DEF StoreInv, StoreTypeOK, CountersMatchItems
  <2> QED
    BY <2>1, <2>2 DEF CountersMatchItems
<1>4. CompletedJobsAreSettled'
  BY DEF StoreInv, StoreTypeOK, CompletedJobsAreSettled
<1>5. KeysAreExclusive'
  BY DEF StoreInv, StoreTypeOK, KeysAreExclusive
<1>6. \A i \in Jobs : RecordedJob(i)
  BY DEF StoreInv, StoreTypeOK, RecordedJob, FreshJobsAreEmpty
<1> QED
  BY <1>1, <1>2, <1>3, <1>4, <1>5, <1>6 DEF StoreInv

LEMMA MarkJobRunningInv ==
  ASSUME StoreInv, NEW j \in Jobs, MarkJobRunning(j)
  PROVE  StoreInv' /\ \A i \in Jobs : RecordedJob(i)
<1> USE DEF MarkJobRunning, directoryVars
<1>1. StoreTypeOK' /\ FreshJobsAreEmpty' /\ OneActiveJob'
  BY DEF StoreInv, StoreTypeOK, FreshJobsAreEmpty, OneActiveJob, Active
<1>2. CountersMatchItems'
  BY DEF StoreInv, CountersMatchItems
<1>3. CompletedJobsAreSettled' /\ KeysAreExclusive'
  BY DEF StoreInv, StoreTypeOK, CompletedJobsAreSettled, KeysAreExclusive
<1>4. \A i \in Jobs : RecordedJob(i)
  BY DEF StoreInv, StoreTypeOK, RecordedJob
<1> QED
  BY <1>1, <1>2, <1>3, <1>4 DEF StoreInv

\* The common part of the two item transitions.
LEMMA WriteItemInv ==
  ASSUME StoreInv, NEW j \in Jobs, NEW u \in Users, NEW s \in ItemStatuses,
         jobStatus[j] = "running", itemStatus[j][u] \in OpenStatuses,
         WriteItem(j, u, s)
  PROVE  StoreInv' /\ \A i \in Jobs : RecordedJob(i)
<1> USE DEF WriteItem, directoryVars
<1>1. StoreTypeOK'
  <2>1. Tally(itemStatus'[j]) \in [CounterNames -> Nat]
    BY TallyType
  <2> QED
    BY <2>1 DEF StoreInv, StoreTypeOK
<1>2. FreshJobsAreEmpty' /\ OneActiveJob'
  BY DEF StoreInv, StoreTypeOK, FreshJobsAreEmpty, OneActiveJob, Active
<1>3. CountersMatchItems'
  <2>1. counters'[j] = Tally(itemStatus'[j])
    BY DEF StoreInv, StoreTypeOK
  <2>2. \A i \in Jobs : i # j => counters'[i] = Tally(itemStatus'[i])
    BY DEF StoreInv, StoreTypeOK, CountersMatchItems
  <2> QED
    BY <2>1, <2>2 DEF CountersMatchItems
<1>4. CompletedJobsAreSettled' /\ KeysAreExclusive'
  BY DEF StoreInv, StoreTypeOK, CompletedJobsAreSettled, KeysAreExclusive
<1>5. \A i \in Jobs : RecordedJob(i)
  BY DEF StoreInv, StoreTypeOK, RecordedJob
<1> QED
  BY <1>1, <1>2, <1>3, <1>4, <1>5 DEF StoreInv

LEMMA FinishJobInv ==
  ASSUME StoreInv, NEW j \in Jobs, FinishJob(j)
  PROVE  StoreInv' /\ \A i \in Jobs : RecordedJob(i)
<1> USE DEF FinishJob, directoryVars
<1>1. StoreTypeOK'
  BY TallyType DEF StoreInv, StoreTypeOK
<1>2. FreshJobsAreEmpty' /\ OneActiveJob'
  BY DEF StoreInv, StoreTypeOK, FreshJobsAreEmpty, OneActiveJob, Active
<1>3. CountersMatchItems'
  <2>1. counters' = counters
    BY DEF StoreInv, StoreTypeOK, CountersMatchItems
  <2> QED
    BY <2>1 DEF StoreInv, CountersMatchItems
<1>4. \A u \in Users : itemStatus[j][u] \notin OpenStatuses
  BY TallyZero
<1>5. CompletedJobsAreSettled' /\ KeysAreExclusive'
  BY <1>4 DEF StoreInv, StoreTypeOK, CompletedJobsAreSettled, KeysAreExclusive
<1>6. \A i \in Jobs : RecordedJob(i)
  BY DEF StoreInv, StoreTypeOK, RecordedJob
<1> QED
  BY <1>1, <1>2, <1>3, <1>5, <1>6 DEF StoreInv

LEMMA CloseJobsInv ==
  ASSUME StoreInv, NEW J \in SUBSET {j \in Jobs : Active(j)}, CloseJobs(J)
  PROVE  StoreInv' /\ \A i \in Jobs : RecordedJob(i)
<1> USE DEF CloseJobs, directoryVars, Abandoned
<1>1. StoreTypeOK'
  <2>1. counters' \in [Jobs -> [CounterNames -> Nat]]
    BY TallyType DEF StoreInv, StoreTypeOK
  <2> QED
    BY <2>1 DEF StoreInv, StoreTypeOK
<1>2. FreshJobsAreEmpty' /\ OneActiveJob'
  BY DEF StoreInv, StoreTypeOK, FreshJobsAreEmpty, OneActiveJob, Active
<1>3. CountersMatchItems'
  BY DEF StoreInv, StoreTypeOK, CountersMatchItems
<1>4. CompletedJobsAreSettled' /\ KeysAreExclusive'
  BY DEF StoreInv, StoreTypeOK, CompletedJobsAreSettled, KeysAreExclusive
<1>5. \A i \in Jobs : RecordedJob(i)
  BY DEF StoreInv, StoreTypeOK, RecordedJob, Active
<1> QED
  BY <1>1, <1>2, <1>3, <1>4, <1>5 DEF StoreInv

LEMMA StoreStepInv ==
  ASSUME StoreInv, [StoreNext]_storeVars
  PROVE  StoreInv' /\ \A i \in Jobs : RecordedJob(i)
<1>1. CASE UNCHANGED storeVars
  <2>1. StoreTypeOK' /\ FreshJobsAreEmpty' /\ OneActiveJob'
    BY <1>1 DEF storeVars, StoreInv, StoreTypeOK, FreshJobsAreEmpty,
                OneActiveJob, Active
  <2>2. CountersMatchItems' /\ CompletedJobsAreSettled' /\ KeysAreExclusive'
    BY <1>1 DEF storeVars, StoreInv, CountersMatchItems,
                CompletedJobsAreSettled, KeysAreExclusive
  <2>3. \A i \in Jobs : RecordedJob(i)
    BY <1>1 DEF storeVars, RecordedJob
  <2> QED
    BY <2>1, <2>2, <2>3 DEF StoreInv
<1>2. ASSUME NEW j \in Jobs, NEW u \in Users,
             \/ MarkItemRunning(j, u)
             \/ \E s \in TerminalStatuses : CompleteItem(j, u, s)
      PROVE  StoreInv' /\ \A i \in Jobs : RecordedJob(i)
  <2>1. PICK s \in ItemStatuses : WriteItem(j, u, s)
    BY <1>2 DEF MarkItemRunning, CompleteItem
  <2>2. jobStatus[j] = "running" /\ itemStatus[j][u] \in OpenStatuses
    BY <1>2 DEF MarkItemRunning, CompleteItem
  <2> QED
    BY <2>1, <2>2, WriteItemInv
<1>3. ASSUME NEW j \in Jobs, AbortJob(j)
      PROVE  StoreInv' /\ \A i \in Jobs : RecordedJob(i)
  BY <1>3, CloseJobsInv DEF AbortJob
<1>4. ASSUME RecoverJobs
      PROVE  StoreInv' /\ \A i \in Jobs : RecordedJob(i)
  BY <1>4, CloseJobsInv DEF RecoverJobs
<1> QED
  BY <1>1, <1>2, <1>3, <1>4, DirectoryStepInv, CreateJobInv,
     MarkJobRunningInv, FinishJobInv DEF StoreNext

\* The ledger's counters, closed jobs and key exclusivity hold in every state,
\* for any users, keys and jobs and whatever the callers of the store do.
THEOREM StoreSafety ==
  StoreSpec => [](StoreTypeOK /\ CountersMatchItems
                    /\ CompletedJobsAreSettled /\ KeysAreExclusive)
<1>1. StoreInit => StoreInv
  BY StoreInitInv
<1>2. StoreInv /\ [StoreNext]_storeVars => StoreInv'
  BY StoreStepInv
<1>3. StoreInv => StoreTypeOK /\ CountersMatchItems
                    /\ CompletedJobsAreSettled /\ KeysAreExclusive
  BY DEF StoreInv
<1> QED
  BY <1>1, <1>2, <1>3, PTL DEF StoreSpec

\* No transaction rewrites what the ledger recorded.
THEOREM StoreHistory == StoreSpec => HistoryIsAppendOnly
<1>1. StoreInit => StoreInv
  BY StoreInitInv
<1>2. StoreInv /\ [StoreNext]_storeVars => StoreInv'
  BY StoreStepInv
<1>3. StoreInv /\ [StoreNext]_storeVars => [\A j \in Jobs : RecordedJob(j)]_storeVars
  BY StoreStepInv
<1> QED
  BY <1>1, <1>2, <1>3, PTL DEF StoreSpec, HistoryIsAppendOnly
=============================================================================

----------------------------- MODULE LockOrder -----------------------------
(***************************************************************************)
(* The mutexes of the portal and the order in which its goroutines take    *)
(* them (internal/httpapi, internal/syncer, internal/releasecheck).        *)
(*                                                                         *)
(* A handler is reduced to what can block it: the mutexes it takes and the *)
(* key sync it waits for.  What it does in between takes time and is left  *)
(* out, and so are the mutexes under which nothing else is taken: cacheMu, *)
(* quotaResetMu, loginMu, the one of singleflight, and the only connection *)
(* of the database.                                                        *)
(***************************************************************************)
EXTENDS Naturals, Sequences

CONSTANTS
  Requests,  \* goroutines of handlers, workers and loops
  Flights,   \* goroutines that execute a sync
  None

ASSUME LockConstants ==
  /\ Requests \cap Flights = {}
  /\ None \notin Requests \cup Flights

Procs == Requests \cup Flights

Mutexes == {"maintenanceMu", "settingsMu", "updatesMu", "bindingMu", "limit",
            "connectionMu", "keySnapshotMu"}

-----------------------------------------------------------------------------
(* What a goroutine does next, and the course of each of them.  Touch takes *)
(* a mutex and gives it back at once; Sync waits for a flight.              *)

Op(do, of) == [do |-> do, of |-> of]
Lock(m) == Op("lock", m)
RLock(m) == Op("rlock", m)
Unlock(m) == Op("unlock", m)
Touch(m) == Op("touch", m)
Sync == Op("sync", "none")

\* setUserKeyLimits is alike, with SetKeyLimits for ResetQuota.
resetUserQuota ==
  << Lock("maintenanceMu"), RLock("bindingMu"), Touch("connectionMu"),
     Lock("connectionMu"), Lock("keySnapshotMu"), Unlock("keySnapshotMu"),
     Unlock("connectionMu"), Unlock("bindingMu"), Sync >>

\* ResetQuota without maintenanceMu, which the job's row stands for.
runQuotaResetItem ==
  << RLock("bindingMu"), Touch("connectionMu"), Lock("connectionMu"),
     Lock("keySnapshotMu") >>

createQuotaResetJob == << Lock("maintenanceMu") >>

\* createUser, deleteUser, setBinding and deleteBinding.
setBinding == << Lock("bindingMu") >>

\* Mutant: the connection is closed before the bindings are.
putSettingsReversed ==
  << Lock("settingsMu"), Lock("connectionMu"), Lock("bindingMu") >>

\* settingsMu is held over the probe, the other two over UpdateSettings.
putSettings ==
  << Lock("settingsMu"), Lock("bindingMu"), Lock("connectionMu") >>

applyUpdate == << Lock("maintenanceMu"), Lock("updatesMu") >>

\* Check holds it while it asks GitHub.
checkUpdate == << Lock("updatesMu") >>

\* runLoop, runSync, and the end of a batch.
runLoop == << Sync >>

\* A flight: the slot, the settings, the key generation, the list, and its
\* publication.  The other two scopes leave keySnapshotMu out.
syncKeys ==
  << Lock("limit"), Touch("connectionMu"), Touch("keySnapshotMu"),
     Lock("connectionMu"), Lock("keySnapshotMu") >>

Handlers == {"resetUserQuota", "runQuotaResetItem", "createQuotaResetJob",
             "setBinding", "putSettings", "applyUpdate", "checkUpdate", "runLoop"}

\* The course of each, and of a goroutine that is not there.
Course ==
  [ resetUserQuota      |-> resetUserQuota,
    runQuotaResetItem   |-> runQuotaResetItem,
    createQuotaResetJob |-> createQuotaResetJob,
    setBinding          |-> setBinding,
    putSettings         |-> putSettings,
    applyUpdate         |-> applyUpdate,
    checkUpdate         |-> checkUpdate,
    runLoop             |-> runLoop,
    syncKeys            |-> syncKeys,
    none                |-> << >> ]

-----------------------------------------------------------------------------
VARIABLES
  course,   \* what each goroutine is doing, "none" when it is not there
  next,     \* which step of it comes next
  writer,   \* who holds a mutex, or waits in Lock for its readers to leave
  readers,  \* who holds it in RLock
  joined    \* the flight a goroutine waits for

vars == <<course, next, writer, readers, joined>>

TypeOK ==
  /\ course \in [Procs -> Handlers \cup {"syncKeys", "none"}]
  /\ next \in [Procs -> Nat \ {0}]
  /\ \A p \in Procs : next[p] <= Len(Course[course[p]]) + 1
  /\ writer \in [Mutexes -> Procs \cup {None}]
  /\ readers \in [Mutexes -> SUBSET Procs]
  /\ joined \in [Procs -> Flights \cup {None}]

Init ==
  /\ course = [p \in Procs |-> "none"]
  /\ next = [p \in Procs |-> 1]
  /\ writer = [m \in Mutexes |-> None]
  /\ readers = [m \in Mutexes |-> {}]
  /\ joined = [p \in Procs |-> None]

Busy(p) == course[p] # "none"
AtEnd(p) == next[p] > Len(Course[course[p]])

\* What p does next, with the mutex of the same step.
Now(p) == Course[course[p]][next[p]]
About(p, do) == ~AtEnd(p) /\ Now(p).do = do

GoOn(p) == next' = [next EXCEPT ![p] = @ + 1]

Begin(p, name) ==
  /\ ~Busy(p)
  /\ course' = [course EXCEPT ![p] = name]
  /\ UNCHANGED <<next, writer, readers, joined>>

\* Lock of a sync.RWMutex: first it keeps other writers and new readers out,
\* then it waits for the readers that are in.  A sync.Mutex has none.
Announce(p) ==
  LET m == Now(p).of IN
  /\ About(p, "lock")
  /\ writer[m] = None /\ readers[m] # {}
  /\ writer' = [writer EXCEPT ![m] = p]
  /\ UNCHANGED <<course, next, readers, joined>>

Acquire(p) ==
  LET m == Now(p).of IN
  /\ About(p, "lock")
  /\ writer[m] \in {None, p} /\ readers[m] = {}
  /\ writer' = [writer EXCEPT ![m] = p]
  /\ GoOn(p)
  /\ UNCHANGED <<course, readers, joined>>

AcquireShared(p) ==
  LET m == Now(p).of IN
  /\ About(p, "rlock")
  /\ writer[m] = None
  /\ readers' = [readers EXCEPT ![m] = @ \cup {p}]
  /\ GoOn(p)
  /\ UNCHANGED <<course, writer, joined>>

TouchIt(p) ==
  LET m == Now(p).of IN
  /\ About(p, "touch")
  /\ writer[m] = None /\ readers[m] = {}
  /\ GoOn(p)
  /\ UNCHANGED <<course, writer, readers, joined>>

Release(p) ==
  LET m == Now(p).of IN
  /\ About(p, "unlock")
  /\ writer' = [writer EXCEPT ![m] = IF @ = p THEN None ELSE @]
  /\ readers' = [readers EXCEPT ![m] = @ \ {p}]
  /\ GoOn(p)
  /\ UNCHANGED <<course, joined>>

\* A sync that is under way is joined, another is started.  Here even one that
\* has been forgotten may be joined, which only makes for more waiting.
Join(p, f) ==
  /\ About(p, "sync")
  /\ joined[p] = None
  /\ joined' = [joined EXCEPT ![p] = f]
  /\ course' = [course EXCEPT ![f] = "syncKeys"]
  /\ UNCHANGED <<next, writer, readers>>

\* Mutant: who has stopped waiting is woken up all the same.
StopWaitingStill(p) ==
  /\ joined[p] # None
  /\ GoOn(p)
  /\ UNCHANGED <<course, writer, readers, joined>>

\* The caller's context ends before the flight does.
StopWaiting(p) ==
  /\ joined[p] # None
  /\ joined' = [joined EXCEPT ![p] = None]
  /\ GoOn(p)
  /\ UNCHANGED <<course, writer, readers>>

\* p is over, its deferred calls release what it holds, and whoever waited for
\* it goes on.
Leave(p) ==
  /\ course' = [course EXCEPT ![p] = "none"]
  /\ next' = [q \in Procs |-> IF q = p THEN 1
                              ELSE IF joined[q] = p THEN next[q] + 1 ELSE next[q]]
  /\ writer' = [m \in Mutexes |-> IF writer[m] = p THEN None ELSE writer[m]]
  /\ readers' = [m \in Mutexes |-> readers[m] \ {p}]
  /\ joined' = [q \in Procs |-> IF joined[q] = p THEN None ELSE joined[q]]

Return(p) ==
  /\ Busy(p) /\ AtEnd(p)
  /\ Leave(p)

\* p waits for q: q has, or has asked first for, the mutex p asks for, or is
\* the flight p has joined.
WaitsFor(p, q) ==
  /\ p # q
  /\ \/ joined[p] = q
     \/ /\ About(p, "lock") \/ About(p, "touch")
        /\ writer[Now(p).of] = q \/ q \in readers[Now(p).of]
     \/ About(p, "rlock") /\ writer[Now(p).of] = q

\* A refusal or an error ends a goroutine early, unless it is inside a call
\* that waits.
ReturnEarly(p) ==
  /\ Busy(p) /\ ~AtEnd(p)
  /\ \A q \in Procs : ~WaitsFor(p, q)
  /\ Leave(p)

Step(p) ==
  \/ Announce(p) \/ Acquire(p) \/ AcquireShared(p) \/ TouchIt(p) \/ Release(p)
  \/ \E f \in Flights : Join(p, f)
  \/ Return(p)

Next ==
  \/ \E p \in Requests, name \in Handlers : Begin(p, name)
  \/ \E p \in Procs : Step(p) \/ StopWaiting(p) \/ ReturnEarly(p)

Spec == Init /\ [][Next]_vars

-----------------------------------------------------------------------------
(* Properties.                                                             *)

\* No deadlock: among any goroutines there is one that waits for none of them,
\* although no handler gives up a mutex it waits for and writers keep readers
\* out.
NoCircularWait ==
  \A S \in (SUBSET Procs) \ {{}} : \E p \in S : \A q \in S : ~WaitsFor(p, q)
=============================================================================

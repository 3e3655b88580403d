-------------------------- MODULE LockOrderProofs --------------------------
(***************************************************************************)
(* Theorems about LockOrder: the portal's mutexes and flights are asked    *)
(* for in one order, so no goroutines wait for each other, whatever their  *)
(* number.                                                                 *)
(***************************************************************************)
EXTENDS LockOrder, TLAPS

-----------------------------------------------------------------------------
(* The order, and what the course of a handler holds before its nth step.  *)

\* A flight is waited for between bindingMu and the slot it asks for itself.
Rank(of) ==
  IF of \in {"maintenanceMu", "settingsMu"} THEN 1
  ELSE IF of \in {"updatesMu", "bindingMu"} THEN 2
  ELSE IF of = "none" THEN 3
  ELSE IF of = "limit" THEN 4
  ELSE IF of = "connectionMu" THEN 5
  ELSE 6

Names == Handlers \cup {"syncKeys", "none"}

Steps(c) == 1 .. Len(Course[c])

Held(c, n) ==
  {m \in Mutexes :
     \E i \in 1 .. n - 1 :
        /\ Course[c][i] \in {Lock(m), RLock(m)}
        /\ \A j \in i + 1 .. n - 1 : Course[c][j] # Unlock(m)}

Ops == {Lock(m) : m \in Mutexes} \cup {RLock(m) : m \in Mutexes}
         \cup {Unlock(m) : m \in Mutexes} \cup {Touch(m) : m \in Mutexes}
         \cup {Sync}

\* p asks for m exclusively.
Asks(p, m) == About(p, "lock") /\ Now(p).of = m

\* Who holds a mutex, or has announced that it wants it, is at a place of its
\* course where it may; who has joined a flight still waits for it.
HoldersAreInCourse ==
  /\ \A m \in Mutexes, p \in Procs :
        writer[m] = p => m \in Held(course[p], next[p]) \/ Asks(p, m)
  /\ \A m \in Mutexes, p \in Procs :
        p \in readers[m] => m \in Held(course[p], next[p])
  /\ \A p \in Procs : joined[p] # None => About(p, "sync")

\* Only flights execute a sync, and nobody else is at work for them.
Roles ==
  /\ \A p \in Requests : course[p] \in Handlers \cup {"none"}
  /\ \A f \in Flights : course[f] \in {"syncKeys", "none"}
  /\ \A p \in Procs : course[p] = "none" => next[p] = 1

LockInv == TypeOK /\ HoldersAreInCourse /\ Roles

-----------------------------------------------------------------------------
(* The courses.                                                            *)

LEMMA OpFields ==
  /\ \A m : /\ Lock(m).do = "lock" /\ Lock(m).of = m
            /\ RLock(m).do = "rlock" /\ RLock(m).of = m
            /\ Unlock(m).do = "unlock" /\ Unlock(m).of = m
            /\ Touch(m).do = "touch" /\ Touch(m).of = m
  /\ Sync.do = "sync" /\ Sync.of = "none"
  BY DEF Lock, RLock, Unlock, Touch, Sync, Op

LEMMA OpsFields ==
  ASSUME NEW op \in Ops
  PROVE  /\ op.do \in {"lock", "rlock", "unlock", "touch", "sync"}
         /\ op.do = "sync" => op.of = "none"
         /\ op.do # "sync" => op.of \in Mutexes
  BY OpFields DEF Ops

LEMMA RankType ==
  \A of \in Mutexes \cup {"none"} : Rank(of) \in 1 .. 6
  BY DEF Rank, Mutexes

\* Every course asks for what comes later in the order than all it holds.
InOrder(c) ==
  \A n \in Steps(c) :
     /\ Course[c][n] \in Ops
     /\ Course[c][n].do # "unlock"
          => \A m \in Held(c, n) : Rank(m) < Rank(Course[c][n].of)

LEMMA ResetInOrder == InOrder("resetUserQuota")
<1> DEFINE s == Course["resetUserQuota"]
<1>1. /\ Len(s) = 9
      /\ s[1] = Lock("maintenanceMu") /\ s[2] = RLock("bindingMu")
      /\ s[3] = Touch("connectionMu") /\ s[4] = Lock("connectionMu")
      /\ s[5] = Lock("keySnapshotMu") /\ s[6] = Unlock("keySnapshotMu")
      /\ s[7] = Unlock("connectionMu") /\ s[8] = Unlock("bindingMu")
      /\ s[9] = Sync
  BY DEF Course, resetUserQuota
<1> HIDE DEF s
<1>2. \A n \in 1 .. 9 : s[n] \in Ops
  BY <1>1 DEF Ops, Mutexes
<1>3. ASSUME NEW n \in 1 .. 9, s[n].do # "unlock", NEW m \in Mutexes,
             NEW i \in 1 .. n - 1, s[i] \in {Lock(m), RLock(m)},
             \A j \in i + 1 .. n - 1 : s[j] # Unlock(m)
      PROVE  Rank(m) < Rank(s[n].of)
  <2>1. /\ i = 1 => m = "maintenanceMu"
        /\ i = 2 => m = "bindingMu"
        /\ i = 4 => m = "connectionMu"
        /\ i = 5 => m = "keySnapshotMu"
        /\ i \in {1, 2, 4, 5}
    BY <1>1, <1>3, OpFields
  <2>2. /\ n = 9 => i = 1
        /\ n # 1 /\ n # 6 /\ n # 7 /\ n # 8
    BY <1>1, <1>3, <2>1, OpFields
  <2> QED
    BY <1>1, <1>3, <2>1, <2>2, OpFields DEF Rank
<1> QED
  BY <1>1, <1>2, <1>3 DEF InOrder, Steps, Held, s

LEMMA ItemInOrder == InOrder("runQuotaResetItem")
<1> DEFINE s == Course["runQuotaResetItem"]
<1>1. /\ Len(s) = 4
      /\ s[1] = RLock("bindingMu") /\ s[2] = Touch("connectionMu")
      /\ s[3] = Lock("connectionMu") /\ s[4] = Lock("keySnapshotMu")
  BY DEF Course, runQuotaResetItem
<1> HIDE DEF s
<1>2. \A n \in 1 .. 4 : s[n] \in Ops
  BY <1>1 DEF Ops, Mutexes
<1>3. ASSUME NEW n \in 1 .. 4, NEW m \in Mutexes, NEW i \in 1 .. n - 1,
             s[i] \in {Lock(m), RLock(m)}
      PROVE  Rank(m) < Rank(s[n].of)
  BY <1>1, <1>3, OpFields DEF Rank
<1> QED
  BY <1>1, <1>2, <1>3 DEF InOrder, Steps, Held, s

LEMMA SettingsInOrder == InOrder("putSettings")
<1> DEFINE s == Course["putSettings"]
<1>1. /\ Len(s) = 3
      /\ s[1] = Lock("settingsMu") /\ s[2] = Lock("bindingMu")
      /\ s[3] = Lock("connectionMu")
  BY DEF Course, putSettings
<1> HIDE DEF s
<1>2. \A n \in 1 .. 3 : s[n] \in Ops
  BY <1>1 DEF Ops, Mutexes
<1>3. ASSUME NEW n \in 1 .. 3, NEW m \in Mutexes, NEW i \in 1 .. n - 1,
             s[i] \in {Lock(m), RLock(m)}
      PROVE  Rank(m) < Rank(s[n].of)
  BY <1>1, <1>3, OpFields DEF Rank
<1> QED
  BY <1>1, <1>2, <1>3 DEF InOrder, Steps, Held, s

LEMMA ApplyInOrder == InOrder("applyUpdate")
<1> DEFINE s == Course["applyUpdate"]
<1>1. /\ Len(s) = 2
      /\ s[1] = Lock("maintenanceMu") /\ s[2] = Lock("updatesMu")
  BY DEF Course, applyUpdate
<1> HIDE DEF s
<1>2. \A n \in 1 .. 2 : s[n] \in Ops
  BY <1>1 DEF Ops, Mutexes
<1>3. ASSUME NEW n \in 1 .. 2, NEW m \in Mutexes, NEW i \in 1 .. n - 1,
             s[i] \in {Lock(m), RLock(m)}
      PROVE  Rank(m) < Rank(s[n].of)
  BY <1>1, <1>3, OpFields DEF Rank
<1> QED
  BY <1>1, <1>2, <1>3 DEF InOrder, Steps, Held, s

LEMMA SyncInOrder == InOrder("syncKeys")
<1> DEFINE s == Course["syncKeys"]
<1>1. /\ Len(s) = 5
      /\ s[1] = Lock("limit") /\ s[2] = Touch("connectionMu")
      /\ s[3] = Touch("keySnapshotMu") /\ s[4] = Lock("connectionMu")
      /\ s[5] = Lock("keySnapshotMu")
  BY DEF Course, syncKeys
<1> HIDE DEF s
<1>2. \A n \in 1 .. 5 : s[n] \in Ops
  BY <1>1 DEF Ops, Mutexes
<1>3. ASSUME NEW n \in 1 .. 5, NEW m \in Mutexes, NEW i \in 1 .. n - 1,
             s[i] \in {Lock(m), RLock(m)}
      PROVE  Rank(m) < Rank(s[n].of)
  BY <1>1, <1>3, OpFields DEF Rank
<1> QED
  BY <1>1, <1>2, <1>3 DEF InOrder, Steps, Held, s

LEMMA ShortInOrder ==
  ASSUME NEW c \in {"createQuotaResetJob", "setBinding", "checkUpdate",
                    "runLoop", "none"}
  PROVE  InOrder(c)
<1> DEFINE s == Course[c]
<1>1. /\ Len(s) \in 0 .. 1
      /\ Len(s) = 1 => s[1] \in {Lock("maintenanceMu"), Lock("bindingMu"),
                                 Lock("updatesMu"), Sync}
  BY DEF Course, createQuotaResetJob, setBinding, checkUpdate, runLoop
<1> HIDE DEF s
<1>2. \A n \in 1 .. Len(s) : n = 1 /\ s[n] \in Ops
  BY <1>1 DEF Ops, Mutexes
<1> QED
  BY <1>1, <1>2 DEF InOrder, Steps, Held, s

LEMMA CourseInOrder == \A c \in Names : InOrder(c)
  BY ResetInOrder, ItemInOrder, SettingsInOrder, ApplyInOrder, SyncInOrder,
     ShortInOrder DEF Names, Handlers

\* Flights wait for no flight, and each course has finitely many steps.
LEMMA CourseShapes ==
  /\ \A c \in Names : Len(Course[c]) \in Nat
  /\ Len(Course["none"]) = 0
  /\ \A n \in Steps("syncKeys") :
        /\ Course["syncKeys"][n].do # "sync"
        /\ Course["syncKeys"][n].of \in {"limit", "connectionMu", "keySnapshotMu"}
<1>1. Len(Course["none"]) = 0
  BY DEF Course
<1>2. \A c \in Names : Len(Course[c]) \in Nat
  BY DEF Names, Handlers, Course, resetUserQuota, runQuotaResetItem,
         createQuotaResetJob, setBinding, putSettings, applyUpdate,
         checkUpdate, runLoop, syncKeys
<1>3. \A n \in Steps("syncKeys") :
        /\ Course["syncKeys"][n].do # "sync"
        /\ Course["syncKeys"][n].of \in {"limit", "connectionMu", "keySnapshotMu"}
  BY OpFields DEF Steps, Course, syncKeys
<1> QED
  BY <1>1, <1>2, <1>3

\* How one step changes what is held.
LEMMA HeldSteps ==
  ASSUME NEW c \in Names, NEW n \in Steps(c), NEW m \in Mutexes
  PROVE  /\ Course[c][n] \in {Lock(m), RLock(m)} => m \in Held(c, n + 1)
         /\ m \in Held(c, n) /\ Course[c][n] # Unlock(m)
              => m \in Held(c, n + 1)
<1>1. n \in Nat /\ n >= 1
  BY CourseShapes DEF Steps
<1>2. ASSUME Course[c][n] \in {Lock(m), RLock(m)}
      PROVE  m \in Held(c, n + 1)
  BY <1>1, <1>2 DEF Held
<1>3. ASSUME m \in Held(c, n), Course[c][n] # Unlock(m)
      PROVE  m \in Held(c, n + 1)
  <2>1. PICK i \in 1 .. n - 1 :
          /\ Course[c][i] \in {Lock(m), RLock(m)}
          /\ \A j \in i + 1 .. n - 1 : Course[c][j] # Unlock(m)
    BY <1>3 DEF Held
  <2>2. \A j \in i + 1 .. (n + 1) - 1 : j = n \/ j \in i + 1 .. n - 1
    BY <1>1
  <2> QED
    BY <1>1, <1>3, <2>1, <2>2 DEF Held
<1> QED
  BY <1>2, <1>3

LEMMA HeldAtFirst == \A c : Held(c, 1) = {}
  BY DEF Held

-----------------------------------------------------------------------------
(* Goroutines in their courses.                                            *)

\* What the type invariant and the roles say of one goroutine.
LEMMA ProcShape ==
  ASSUME LockInv, NEW p \in Procs
  PROVE  /\ course[p] \in Names /\ next[p] \in Nat /\ next[p] >= 1
         /\ next[p] <= Len(Course[course[p]]) + 1
         /\ Len(Course[course[p]]) \in Nat
         /\ ~AtEnd(p) => /\ next[p] \in Steps(course[p])
                         /\ Busy(p)
                         /\ Now(p) \in Ops
         /\ p \in Flights => joined[p] = None /\ ~About(p, "sync")
<1>1. /\ course[p] \in Names /\ next[p] \in Nat /\ next[p] >= 1
      /\ next[p] <= Len(Course[course[p]]) + 1
      /\ Len(Course[course[p]]) \in Nat
  BY CourseShapes DEF LockInv, TypeOK, Names
<1>2. ASSUME ~AtEnd(p)
      PROVE  /\ next[p] \in Steps(course[p]) /\ Busy(p) /\ Now(p) \in Ops
  <2>1. next[p] \in Steps(course[p])
    BY <1>1, <1>2 DEF AtEnd, Steps
  <2>2. Busy(p)
    BY <1>1, <2>1, CourseShapes DEF Busy, Steps
  <2>3. Now(p) \in Ops
    BY <1>1, <2>1, CourseInOrder DEF InOrder, Now
  <2> QED
    BY <2>1, <2>2, <2>3
<1>3. ASSUME p \in Flights
      PROVE  joined[p] = None /\ ~About(p, "sync")
  <2>1. course[p] \in {"syncKeys", "none"}
    BY <1>3 DEF LockInv, Roles
  <2>2. ~About(p, "sync")
    BY <1>2, <2>1, CourseShapes DEF About, Now, Busy
  <2> QED
    BY <2>2 DEF LockInv, HoldersAreInCourse
<1> QED
  BY <1>1, <1>2, <1>3

LEMMA InitInv == Init => LockInv
<1> SUFFICES ASSUME Init PROVE LockInv
  OBVIOUS
<1>1. TypeOK
  BY CourseShapes, LockConstants DEF Init, TypeOK, Handlers
<1>2. HoldersAreInCourse
  BY LockConstants DEF Init, HoldersAreInCourse, Procs
<1>3. Roles
  BY DEF Init, Roles, Procs
<1> QED
  BY <1>1, <1>2, <1>3 DEF LockInv

LEMMA StutterInv == LockInv /\ UNCHANGED vars => LockInv'
  BY DEF LockInv, vars, TypeOK, HoldersAreInCourse, Roles, Asks, About,
         AtEnd, Now

LEMMA BeginInv ==
  ASSUME LockInv, NEW p \in Requests, NEW name \in Handlers, Begin(p, name)
  PROVE  LockInv'
<1>1. p \in Procs /\ course[p] = "none" /\ next[p] = 1
  BY DEF Begin, Busy, Procs, LockInv, Roles
<1>2. /\ course' = [course EXCEPT ![p] = name]
      /\ next' = next /\ writer' = writer /\ readers' = readers
      /\ joined' = joined
  BY DEF Begin
<1>3. /\ course'[p] = name
      /\ \A q \in Procs \ {p} : course'[q] = course[q]
      /\ course' \in [Procs -> Handlers \cup {"syncKeys", "none"}]
  BY <1>1, <1>2 DEF LockInv, TypeOK
<1>4. /\ joined[p] = None
      /\ \A m \in Mutexes : writer[m] # p /\ p \notin readers[m]
  BY <1>1, HeldAtFirst, CourseShapes
     DEF LockInv, HoldersAreInCourse, Asks, About, AtEnd
<1>5. TypeOK'
  BY <1>1, <1>2, <1>3, CourseShapes DEF LockInv, TypeOK, Names
<1>6. HoldersAreInCourse'
  BY <1>2, <1>3, <1>4
     DEF LockInv, HoldersAreInCourse, Asks, About, AtEnd, Now
<1>7. Roles'
  BY <1>1, <1>2, <1>3, LockConstants DEF LockInv, Roles, Handlers, Procs
<1> QED
  BY <1>5, <1>6, <1>7 DEF LockInv

LEMMA AnnounceInv ==
  ASSUME LockInv, NEW p \in Procs, Announce(p)
  PROVE  LockInv'
<1> DEFINE m == Now(p).of
<1>1. /\ About(p, "lock") /\ writer' = [writer EXCEPT ![m] = p]
      /\ course' = course /\ next' = next /\ readers' = readers
      /\ joined' = joined
  BY DEF Announce
<1>2. m \in Mutexes
  BY <1>1, ProcShape, OpsFields DEF About
<1> HIDE DEF m
<1>3. /\ writer'[m] = p
      /\ \A l \in Mutexes \ {m} : writer'[l] = writer[l]
      /\ writer' \in [Mutexes -> Procs \cup {None}]
  BY <1>1, <1>2 DEF LockInv, TypeOK
<1>4. Asks(p, m)
  BY <1>1 DEF Asks, m
<1>5. TypeOK'
  BY <1>1, <1>3 DEF LockInv, TypeOK
<1>6. HoldersAreInCourse'
  BY <1>1, <1>3, <1>4
     DEF LockInv, HoldersAreInCourse, Asks, About, AtEnd, Now
<1>7. Roles'
  BY <1>1 DEF LockInv, Roles
<1> QED
  BY <1>5, <1>6, <1>7 DEF LockInv

-----------------------------------------------------------------------------
(* Steps along the course.                                                 *)

\* p goes on, with nothing given back that it goes on holding.
LEMMA GoOnShape ==
  ASSUME LockInv, NEW p \in Procs, ~AtEnd(p), GoOn(p), UNCHANGED course
  PROVE  /\ next'[p] = next[p] + 1
         /\ \A q \in Procs \ {p} : next'[q] = next[q]
         /\ next' \in [Procs -> Nat \ {0}]
         /\ \A q \in Procs : next'[q] <= Len(Course[course'[q]]) + 1
         /\ Roles'
<1>1. /\ next'[p] = next[p] + 1
      /\ \A q \in Procs \ {p} : next'[q] = next[q]
      /\ next' \in [Procs -> Nat \ {0}]
  BY DEF LockInv, TypeOK, GoOn
<1>2. ASSUME NEW q \in Procs
      PROVE  next'[q] <= Len(Course[course'[q]]) + 1
  <2>1. course'[q] = course[q]
    OBVIOUS
  <2>2. /\ next[p] <= Len(Course[course[p]]) /\ next[p] \in Nat
        /\ Len(Course[course[p]]) \in Nat
    BY ProcShape DEF AtEnd
  <2>3. next[q] <= Len(Course[course[q]]) + 1
    BY ProcShape
  <2> QED
    BY <1>1, <2>1, <2>2, <2>3
<1>3. Roles'
  BY <1>1, ProcShape DEF LockInv, Roles, Busy
<1> QED
  BY <1>1, <1>2, <1>3

LEMMA HeldGoesOn ==
  ASSUME LockInv, NEW p \in Procs, ~AtEnd(p), NEW m \in Mutexes,
         m \in Held(course[p], next[p]), Now(p) # Unlock(m)
  PROVE  m \in Held(course[p], next[p] + 1)
  BY ProcShape, HeldSteps DEF Now

\* Where the holders of a mutex are.
LEMMA HolderFacts ==
  ASSUME LockInv, NEW q \in Procs, NEW l \in Mutexes
  PROVE  /\ writer[l] = q => l \in Held(course[q], next[q]) \/ Asks(q, l)
         /\ q \in readers[l] => l \in Held(course[q], next[q])
  BY DEF LockInv, HoldersAreInCourse

\* Who does not move stays where it is.
LEMMA OtherStays ==
  ASSUME NEW q \in Procs, NEW l \in Mutexes, next'[q] = next[q],
         course' = course
  PROVE  /\ l \in Held(course[q], next[q]) => (l \in Held(course[q], next[q]))'
         /\ Asks(q, l) => Asks(q, l)'
  BY DEF Asks, About, AtEnd, Now

LEMMA AcquireInv ==
  ASSUME LockInv, NEW p \in Procs, Acquire(p)
  PROVE  LockInv'
<1> DEFINE m == Now(p).of
<1>1. /\ About(p, "lock") /\ ~AtEnd(p)
      /\ writer' = [writer EXCEPT ![m] = p] /\ GoOn(p)
      /\ course' = course /\ readers' = readers /\ joined' = joined
  BY DEF Acquire, About
<1>2. m \in Mutexes /\ Now(p) = Lock(m)
  BY <1>1, ProcShape, OpsFields, OpFields DEF About, Ops
<1>3. joined[p] = None
  BY <1>1 DEF LockInv, HoldersAreInCourse, About
<1>4. \A l \in Mutexes : Asks(p, l) => l = m
  BY DEF Asks
<1>5. m \in Held(course[p], next[p] + 1)
  BY <1>1, <1>2, ProcShape, HeldSteps DEF Now
<1>6. \A l \in Mutexes : Now(p) # Unlock(l)
  BY <1>2, OpFields
<1> HIDE DEF m
<1>7. /\ writer'[m] = p
      /\ \A l \in Mutexes \ {m} : writer'[l] = writer[l]
      /\ writer' \in [Mutexes -> Procs \cup {None}]
  BY <1>1, <1>2 DEF LockInv, TypeOK
<1>8. \A l \in Mutexes :
         l \in Held(course[p], next[p]) => l \in Held(course[p], next[p] + 1)
  BY <1>1, <1>6, HeldGoesOn
<1>9. TypeOK'
  BY <1>1, <1>7, GoOnShape DEF LockInv, TypeOK
<1>10. HoldersAreInCourse'
  <2>1. ASSUME NEW l \in Mutexes, NEW q \in Procs, writer'[l] = q
        PROVE  (l \in Held(course[q], next[q]) \/ Asks(q, l))'
    <3>1. CASE q = p
      BY <1>1, <1>4, <1>5, <1>7, <1>8, <2>1, <3>1, GoOnShape, HolderFacts
    <3>2. CASE q # p
      BY <1>1, <1>7, <2>1, <3>2, GoOnShape, HolderFacts, OtherStays
    <3> QED
      BY <3>1, <3>2
  <2>2. ASSUME NEW l \in Mutexes, NEW q \in Procs, q \in readers'[l]
        PROVE  (l \in Held(course[q], next[q]))'
    BY <1>1, <1>8, <2>2, GoOnShape, HolderFacts, OtherStays
  <2>3. \A q \in Procs : joined'[q] # None => About(q, "sync")'
    BY <1>1, <1>3, GoOnShape DEF LockInv, HoldersAreInCourse, About, AtEnd, Now
  <2> QED
    BY <2>1, <2>2, <2>3 DEF HoldersAreInCourse
<1> QED
  BY <1>1, <1>9, <1>10, GoOnShape DEF LockInv

LEMMA AcquireSharedInv ==
  ASSUME LockInv, NEW p \in Procs, AcquireShared(p)
  PROVE  LockInv'
<1> DEFINE m == Now(p).of
<1>1. /\ About(p, "rlock") /\ ~AtEnd(p)
      /\ readers' = [readers EXCEPT ![m] = @ \cup {p}] /\ GoOn(p)
      /\ course' = course /\ writer' = writer /\ joined' = joined
  BY DEF AcquireShared, About
<1>2. m \in Mutexes /\ Now(p) = RLock(m)
  BY <1>1, ProcShape, OpsFields, OpFields DEF About, Ops
<1>3. joined[p] = None /\ \A l \in Mutexes : ~Asks(p, l)
  BY <1>1 DEF LockInv, HoldersAreInCourse, About, Asks
<1>4. m \in Held(course[p], next[p] + 1)
  BY <1>1, <1>2, ProcShape, HeldSteps DEF Now
<1>5. \A l \in Mutexes : Now(p) # Unlock(l)
  BY <1>2, OpFields
<1> HIDE DEF m
<1>6. /\ readers'[m] = readers[m] \cup {p}
      /\ \A l \in Mutexes \ {m} : readers'[l] = readers[l]
      /\ readers' \in [Mutexes -> SUBSET Procs]
  BY <1>1, <1>2 DEF LockInv, TypeOK
<1>7. \A l \in Mutexes :
         l \in Held(course[p], next[p]) => l \in Held(course[p], next[p] + 1)
  BY <1>1, <1>5, HeldGoesOn
<1>8. TypeOK'
  BY <1>1, <1>6, GoOnShape DEF LockInv, TypeOK
<1>9. HoldersAreInCourse'
  <2>1. ASSUME NEW l \in Mutexes, NEW q \in Procs, writer'[l] = q
        PROVE  (l \in Held(course[q], next[q]) \/ Asks(q, l))'
    <3>1. CASE q = p
      BY <1>1, <1>3, <1>7, <2>1, <3>1, GoOnShape, HolderFacts
    <3>2. CASE q # p
      BY <1>1, <2>1, <3>2, GoOnShape, HolderFacts, OtherStays
    <3> QED
      BY <3>1, <3>2
  <2>2. ASSUME NEW l \in Mutexes, NEW q \in Procs, q \in readers'[l]
        PROVE  (l \in Held(course[q], next[q]))'
    <3>1. CASE q = p
      BY <1>1, <1>4, <1>6, <1>7, <2>2, <3>1, GoOnShape, HolderFacts
    <3>2. CASE q # p
      BY <1>1, <1>6, <2>2, <3>2, GoOnShape, HolderFacts, OtherStays
    <3> QED
      BY <3>1, <3>2
  <2>3. \A q \in Procs : joined'[q] # None => About(q, "sync")'
    BY <1>1, <1>3, GoOnShape DEF LockInv, HoldersAreInCourse, About, AtEnd, Now
  <2> QED
    BY <2>1, <2>2, <2>3 DEF HoldersAreInCourse
<1> QED
  BY <1>1, <1>8, <1>9, GoOnShape DEF LockInv

LEMMA TouchInv ==
  ASSUME LockInv, NEW p \in Procs, TouchIt(p)
  PROVE  LockInv'
<1>1. /\ About(p, "touch") /\ ~AtEnd(p) /\ GoOn(p)
      /\ course' = course /\ writer' = writer /\ readers' = readers
      /\ joined' = joined
  BY DEF TouchIt, About
<1>2. joined[p] = None /\ \A l \in Mutexes : ~Asks(p, l)
  BY <1>1 DEF LockInv, HoldersAreInCourse, About, Asks
<1>3. \A l \in Mutexes : Now(p) # Unlock(l)
  BY <1>1, OpFields DEF About
<1>4. \A l \in Mutexes :
         l \in Held(course[p], next[p]) => l \in Held(course[p], next[p] + 1)
  BY <1>1, <1>3, HeldGoesOn
<1>5. TypeOK'
  BY <1>1, GoOnShape DEF LockInv, TypeOK
<1>6. HoldersAreInCourse'
  <2>1. ASSUME NEW l \in Mutexes, NEW q \in Procs, writer'[l] = q
        PROVE  (l \in Held(course[q], next[q]) \/ Asks(q, l))'
    <3>1. writer[l] = q
      BY <1>1, <2>1
    <3>2. CASE q = p
      BY <1>1, <1>2, <1>4, <3>1, <3>2, GoOnShape, HolderFacts, OtherStays
    <3>3. CASE q # p
      BY <1>1, <3>1, <3>3, GoOnShape, HolderFacts, OtherStays
    <3> QED
      BY <3>2, <3>3
  <2>2. ASSUME NEW l \in Mutexes, NEW q \in Procs, q \in readers'[l]
        PROVE  (l \in Held(course[q], next[q]))'
    BY <1>1, <1>4, <2>2, GoOnShape, HolderFacts, OtherStays
  <2>3. \A q \in Procs : joined'[q] # None => About(q, "sync")'
    BY <1>1, <1>2, GoOnShape DEF LockInv, HoldersAreInCourse, About, AtEnd, Now
  <2> QED
    BY <2>1, <2>2, <2>3 DEF HoldersAreInCourse
<1> QED
  BY <1>1, <1>5, <1>6, GoOnShape DEF LockInv

LEMMA ReleaseInv ==
  ASSUME LockInv, NEW p \in Procs, Release(p)
  PROVE  LockInv'
<1> DEFINE m == Now(p).of
<1>1. /\ About(p, "unlock") /\ ~AtEnd(p) /\ GoOn(p)
      /\ writer' = [writer EXCEPT ![m] = IF @ = p THEN None ELSE @]
      /\ readers' = [readers EXCEPT ![m] = @ \ {p}]
      /\ course' = course /\ joined' = joined
  BY DEF Release, About
<1>2. m \in Mutexes /\ Now(p) = Unlock(m)
  BY <1>1, ProcShape, OpsFields, OpFields DEF About, Ops
<1>3. joined[p] = None /\ \A l \in Mutexes : ~Asks(p, l)
  BY <1>1 DEF LockInv, HoldersAreInCourse, About, Asks
<1>4. \A l \in Mutexes : l # m => Now(p) # Unlock(l)
  BY <1>2, OpFields
<1> HIDE DEF m
<1>5. /\ writer'[m] \in {writer[m], None} /\ writer'[m] # p
      /\ \A l \in Mutexes \ {m} : writer'[l] = writer[l]
      /\ writer' \in [Mutexes -> Procs \cup {None}]
  BY <1>1, <1>2, LockConstants DEF LockInv, TypeOK, Procs
<1>6. /\ readers'[m] = readers[m] \ {p}
      /\ \A l \in Mutexes \ {m} : readers'[l] = readers[l]
      /\ readers' \in [Mutexes -> SUBSET Procs]
  BY <1>1, <1>2 DEF LockInv, TypeOK
<1>7. \A l \in Mutexes \ {m} :
         l \in Held(course[p], next[p]) => l \in Held(course[p], next[p] + 1)
  BY <1>1, <1>4, HeldGoesOn
<1>8. TypeOK'
  BY <1>1, <1>5, <1>6, GoOnShape DEF LockInv, TypeOK
<1>9. HoldersAreInCourse'
  <2>1. ASSUME NEW l \in Mutexes, NEW q \in Procs, writer'[l] = q
        PROVE  (l \in Held(course[q], next[q]) \/ Asks(q, l))'
    <3>1. writer[l] = q
      BY <1>5, <2>1, LockConstants DEF Procs
    <3>2. CASE q = p
      BY <1>1, <1>3, <1>5, <1>7, <2>1, <3>1, <3>2, GoOnShape, HolderFacts
    <3>3. CASE q # p
      BY <1>1, <3>1, <3>3, GoOnShape, HolderFacts, OtherStays
    <3> QED
      BY <3>2, <3>3
  <2>2. ASSUME NEW l \in Mutexes, NEW q \in Procs, q \in readers'[l]
        PROVE  (l \in Held(course[q], next[q]))'
    <3>1. q \in readers[l] /\ (q = p => l # m)
      BY <1>6, <2>2
    <3> QED
      BY <1>1, <1>7, <3>1, GoOnShape, HolderFacts, OtherStays
  <2>3. \A q \in Procs : joined'[q] # None => About(q, "sync")'
    BY <1>1, <1>3, GoOnShape DEF LockInv, HoldersAreInCourse, About, AtEnd, Now
  <2> QED
    BY <2>1, <2>2, <2>3 DEF HoldersAreInCourse
<1> QED
  BY <1>1, <1>8, <1>9, GoOnShape DEF LockInv

-----------------------------------------------------------------------------
(* Flights.                                                                *)

LEMMA JoinInv ==
  ASSUME LockInv, NEW p \in Procs, NEW f \in Flights, Join(p, f)
  PROVE  LockInv'
<1>1. /\ About(p, "sync") /\ joined' = [joined EXCEPT ![p] = f]
      /\ course' = [course EXCEPT ![f] = "syncKeys"]
      /\ next' = next /\ writer' = writer /\ readers' = readers
  BY DEF Join
<1>2. f \in Procs /\ f # p /\ joined[f] = None
  BY <1>1, ProcShape DEF Procs
<1>3. /\ joined'[p] = f
      /\ \A q \in Procs \ {p} : joined'[q] = joined[q]
      /\ joined' \in [Procs -> Flights \cup {None}]
  BY <1>1, <1>2 DEF LockInv, TypeOK
<1>4. /\ course'[f] = "syncKeys"
      /\ \A q \in Procs \ {f} : course'[q] = course[q]
      /\ course' \in [Procs -> Handlers \cup {"syncKeys", "none"}]
  BY <1>1, <1>2 DEF LockInv, TypeOK
<1>5. course[f] = "syncKeys" \/ (course[f] = "none" /\ next[f] = 1)
  BY <1>2 DEF LockInv, Roles
<1>6. ASSUME course[f] = "none", NEW l \in Mutexes
      PROVE  writer[l] # f /\ f \notin readers[l]
  BY <1>2, <1>5, <1>6, HeldAtFirst, CourseShapes
     DEF LockInv, HoldersAreInCourse, Asks, About, AtEnd
<1>7. TypeOK'
  <2>1. ASSUME NEW q \in Procs
        PROVE  next'[q] <= Len(Course[course'[q]]) + 1
    <3>1. CASE course'[q] = course[q]
      BY <1>1, <3>1 DEF LockInv, TypeOK
    <3>2. CASE course'[q] # course[q]
      <4>1. q = f /\ next'[q] = 1
        BY <1>1, <1>4, <1>5, <3>2
      <4>2. Len(Course["syncKeys"]) \in Nat
        BY CourseShapes DEF Names
      <4> QED
        BY <1>4, <4>1, <4>2
    <3> QED
      BY <3>1, <3>2
  <2> QED
    BY <1>1, <1>3, <1>4, <2>1 DEF LockInv, TypeOK
<1>8. HoldersAreInCourse'
  <2>1. ASSUME NEW l \in Mutexes, NEW q \in Procs, writer'[l] = q
        PROVE  (l \in Held(course[q], next[q]) \/ Asks(q, l))'
    <3>1. course'[q] = course[q]
      BY <1>1, <1>4, <1>5, <1>6, <2>1
    <3> QED
      BY <1>1, <2>1, <3>1
         DEF LockInv, HoldersAreInCourse, Asks, About, AtEnd, Now
  <2>2. ASSUME NEW l \in Mutexes, NEW q \in Procs, q \in readers'[l]
        PROVE  (l \in Held(course[q], next[q]))'
    <3>1. course'[q] = course[q]
      BY <1>1, <1>4, <1>5, <1>6, <2>2
    <3> QED
      BY <1>1, <2>2, <3>1 DEF LockInv, HoldersAreInCourse
  <2>3. ASSUME NEW q \in Procs, joined'[q] # None
        PROVE  About(q, "sync")'
    <3>1. q # f /\ About(q, "sync")
      BY <1>1, <1>2, <1>3, <2>3 DEF LockInv, HoldersAreInCourse
    <3> QED
      BY <1>1, <1>4, <3>1 DEF About, AtEnd, Now
  <2> QED
    BY <2>1, <2>2, <2>3 DEF HoldersAreInCourse
<1>9. Roles'
  BY <1>1, <1>2, <1>4, LockConstants DEF LockInv, Roles, Procs
<1> QED
  BY <1>7, <1>8, <1>9 DEF LockInv

LEMMA StopWaitingInv ==
  ASSUME LockInv, NEW p \in Procs, StopWaiting(p)
  PROVE  LockInv'
<1>1. /\ joined[p] # None /\ joined' = [joined EXCEPT ![p] = None] /\ GoOn(p)
      /\ course' = course /\ writer' = writer /\ readers' = readers
  BY DEF StopWaiting
<1>2. About(p, "sync") /\ ~AtEnd(p) /\ \A l \in Mutexes : ~Asks(p, l)
  BY <1>1 DEF LockInv, HoldersAreInCourse, About, Asks
<1>3. /\ joined'[p] = None
      /\ \A q \in Procs \ {p} : joined'[q] = joined[q]
      /\ joined' \in [Procs -> Flights \cup {None}]
  BY <1>1 DEF LockInv, TypeOK
<1>4. \A l \in Mutexes :
         l \in Held(course[p], next[p]) => l \in Held(course[p], next[p] + 1)
  BY <1>2, HeldGoesOn, OpFields DEF About
<1>5. TypeOK'
  BY <1>1, <1>2, <1>3, GoOnShape DEF LockInv, TypeOK
<1>6. HoldersAreInCourse'
  <2>1. ASSUME NEW l \in Mutexes, NEW q \in Procs, writer'[l] = q
        PROVE  (l \in Held(course[q], next[q]) \/ Asks(q, l))'
    <3>1. CASE q = p
      BY <1>1, <1>2, <1>4, <2>1, <3>1, GoOnShape DEF LockInv, HoldersAreInCourse
    <3>2. CASE q # p
      BY <1>1, <1>2, <2>1, <3>2, GoOnShape
         DEF LockInv, HoldersAreInCourse, Asks, About, AtEnd, Now
    <3> QED
      BY <3>1, <3>2
  <2>2. ASSUME NEW l \in Mutexes, NEW q \in Procs, q \in readers'[l]
        PROVE  (l \in Held(course[q], next[q]))'
    BY <1>1, <1>2, <1>4, <2>2, GoOnShape DEF LockInv, HoldersAreInCourse
  <2>3. \A q \in Procs : joined'[q] # None => About(q, "sync")'
    BY <1>1, <1>2, <1>3, GoOnShape
       DEF LockInv, HoldersAreInCourse, About, AtEnd, Now
  <2> QED
    BY <2>1, <2>2, <2>3 DEF HoldersAreInCourse
<1> QED
  BY <1>1, <1>2, <1>5, <1>6, GoOnShape DEF LockInv

\* Who leaves waits for nobody, so it has joined no flight.
LEMMA LeaveInv ==
  ASSUME LockInv, NEW p \in Procs, Leave(p), joined[p] = None
  PROVE  LockInv'
<1>1. /\ course' = [course EXCEPT ![p] = "none"]
      /\ next' = [q \in Procs |-> IF q = p THEN 1
                                  ELSE IF joined[q] = p THEN next[q] + 1
                                  ELSE next[q]]
      /\ writer' = [m \in Mutexes |-> IF writer[m] = p THEN None ELSE writer[m]]
      /\ readers' = [m \in Mutexes |-> readers[m] \ {p}]
      /\ joined' = [q \in Procs |-> IF joined[q] = p THEN None ELSE joined[q]]
  BY DEF Leave
<1>2. /\ course'[p] = "none"
      /\ \A q \in Procs \ {p} : course'[q] = course[q]
      /\ course' \in [Procs -> Handlers \cup {"syncKeys", "none"}]
  BY <1>1 DEF LockInv, TypeOK
<1>3. ASSUME NEW q \in Procs \ {p}, joined[q] = p
      PROVE  /\ About(q, "sync") /\ ~AtEnd(q) /\ \A l \in Mutexes : ~Asks(q, l)
             /\ \A l \in Mutexes : l \in Held(course[q], next[q])
                                    => l \in Held(course[q], next[q] + 1)
             /\ next[q] + 1 <= Len(Course[course[q]]) + 1
  <2>1. About(q, "sync") /\ ~AtEnd(q) /\ \A l \in Mutexes : ~Asks(q, l)
    BY <1>3, LockConstants
       DEF LockInv, HoldersAreInCourse, About, Asks, Procs
  <2>2. \A l \in Mutexes : l \in Held(course[q], next[q])
                            => l \in Held(course[q], next[q] + 1)
    BY <2>1, HeldGoesOn, OpFields DEF About
  <2>3. next[q] + 1 <= Len(Course[course[q]]) + 1
    BY <2>1, ProcShape DEF AtEnd
  <2> QED
    BY <2>1, <2>2, <2>3
<1>4. /\ next'[p] = 1
      /\ \A q \in Procs \ {p} :
            next'[q] = IF joined[q] = p THEN next[q] + 1 ELSE next[q]
  BY <1>1
<1>5. /\ \A m \in Mutexes : writer'[m] \in {writer[m], None} /\ writer'[m] # p
      /\ writer' \in [Mutexes -> Procs \cup {None}]
  BY <1>1, LockConstants DEF LockInv, TypeOK, Procs
<1>6. /\ \A m \in Mutexes : readers'[m] = readers[m] \ {p}
      /\ readers' \in [Mutexes -> SUBSET Procs]
  BY <1>1 DEF LockInv, TypeOK
<1>7. /\ joined'[p] = None
      /\ \A q \in Procs : joined'[q] # None => joined'[q] = joined[q] /\ joined[q] # p
      /\ joined' \in [Procs -> Flights \cup {None}]
  BY <1>1, LockConstants DEF LockInv, TypeOK, Procs
<1>8. TypeOK'
  <2>1. next' \in [Procs -> Nat \ {0}]
    BY <1>1 DEF LockInv, TypeOK
  <2>2. ASSUME NEW q \in Procs
        PROVE  next'[q] <= Len(Course[course'[q]]) + 1
    <3>1. CASE q = p
      BY <1>2, <1>4, <3>1, CourseShapes
    <3>2. CASE q # p /\ joined[q] = p
      BY <1>2, <1>3, <1>4, <3>2
    <3>3. CASE q # p /\ joined[q] # p
      BY <1>2, <1>4, <3>3, ProcShape
    <3> QED
      BY <3>1, <3>2, <3>3
  <2> QED
    BY <1>2, <1>5, <1>6, <1>7, <2>1, <2>2 DEF TypeOK
<1>9. HoldersAreInCourse'
  <2>1. ASSUME NEW l \in Mutexes, NEW q \in Procs, writer'[l] = q
        PROVE  (l \in Held(course[q], next[q]) \/ Asks(q, l))'
    <3>1. q # p /\ writer[l] = q
      BY <1>5, <2>1, LockConstants DEF Procs
    <3>2. CASE joined[q] = p
      BY <1>2, <1>3, <1>4, <3>1, <3>2 DEF LockInv, HoldersAreInCourse
    <3>3. CASE joined[q] # p
      BY <1>2, <1>4, <3>1, <3>3
         DEF LockInv, HoldersAreInCourse, Asks, About, AtEnd, Now
    <3> QED
      BY <3>2, <3>3
  <2>2. ASSUME NEW l \in Mutexes, NEW q \in Procs, q \in readers'[l]
        PROVE  (l \in Held(course[q], next[q]))'
    <3>1. q # p /\ q \in readers[l]
      BY <1>6, <2>2
    <3>2. CASE joined[q] = p
      BY <1>2, <1>3, <1>4, <3>1, <3>2 DEF LockInv, HoldersAreInCourse
    <3>3. CASE joined[q] # p
      BY <1>2, <1>4, <3>1, <3>3 DEF LockInv, HoldersAreInCourse
    <3> QED
      BY <3>2, <3>3
  <2>3. ASSUME NEW q \in Procs, joined'[q] # None
        PROVE  About(q, "sync")'
    <3>1. q # p /\ joined[q] # p /\ About(q, "sync")
      BY <1>7, <2>3 DEF LockInv, HoldersAreInCourse
    <3> QED
      BY <1>2, <1>4, <3>1 DEF About, AtEnd, Now
  <2> QED
    BY <2>1, <2>2, <2>3 DEF HoldersAreInCourse
<1>10. Roles'
  <2>1. ASSUME NEW q \in Procs, course'[q] = "none"
        PROVE  next'[q] = 1
    <3>1. CASE q = p
      BY <1>4, <3>1
    <3>2. CASE q # p
      <4>1. course[q] = "none" /\ next[q] = 1
        BY <1>2, <2>1, <3>2 DEF LockInv, Roles
      <4>2. joined[q] # p
        BY <1>3, <3>2, <4>1, ProcShape DEF Busy
      <4> QED
        BY <1>4, <3>2, <4>1, <4>2
    <3> QED
      BY <3>1, <3>2
  <2> QED
    BY <1>2, <2>1 DEF LockInv, Roles, Procs
<1> QED
  BY <1>8, <1>9, <1>10 DEF LockInv

LEMMA ReturnInv ==
  ASSUME LockInv, NEW p \in Procs, Return(p)
  PROVE  LockInv'
<1>1. joined[p] = None
  BY DEF Return, LockInv, HoldersAreInCourse, About
<1> QED
  BY <1>1, LeaveInv DEF Return

LEMMA ReturnEarlyInv ==
  ASSUME LockInv, NEW p \in Procs, ReturnEarly(p)
  PROVE  LockInv'
<1>1. joined[p] = None
  <2>1. CASE p \in Flights
    BY <2>1, ProcShape
  <2>2. CASE p \notin Flights
    BY <2>2 DEF ReturnEarly, WaitsFor, LockInv, TypeOK, Procs
  <2> QED
    BY <2>1, <2>2
<1> QED
  BY <1>1, LeaveInv DEF ReturnEarly

LEMMA NextInv == LockInv /\ [Next]_vars => LockInv'
<1> SUFFICES ASSUME LockInv, [Next]_vars PROVE LockInv'
  OBVIOUS
<1>1. ASSUME NEW p \in Requests, NEW name \in Handlers, Begin(p, name)
      PROVE  LockInv'
  BY <1>1, BeginInv
<1>2. ASSUME NEW p \in Procs, Step(p)
      PROVE  LockInv'
  BY <1>2, AnnounceInv, AcquireInv, AcquireSharedInv, TouchInv, ReleaseInv,
     JoinInv, ReturnInv DEF Step
<1>3. ASSUME NEW p \in Procs, StopWaiting(p) \/ ReturnEarly(p)
      PROVE  LockInv'
  BY <1>3, StopWaitingInv, ReturnEarlyInv
<1>4. CASE UNCHANGED vars
  BY <1>4, StutterInv
<1> QED
  BY <1>1, <1>2, <1>3, <1>4 DEF Next

-----------------------------------------------------------------------------
(* Nobody waits in a circle.                                               *)

Waits(p) == \E q \in Procs : WaitsFor(p, q)

\* What p waits for, twice, and one more when it has announced itself.
Place(p) ==
  2 * Rank(Now(p).of) + IF Asks(p, Now(p).of) /\ writer[Now(p).of] = p
                        THEN 1 ELSE 0

LEMMA WaiterShape ==
  ASSUME LockInv, NEW p \in Procs, NEW q \in Procs, WaitsFor(p, q)
  PROVE  /\ ~AtEnd(p) /\ Now(p).do \in {"lock", "rlock", "touch", "sync"}
         /\ Rank(Now(p).of) \in 1 .. 6 /\ Place(p) \in 0 .. 13
         /\ joined[p] # None => Now(p).of = "none"
         /\ joined[p] = None => Now(p).of \in Mutexes
<1>1. joined[p] = q => About(p, "sync")
  BY LockConstants DEF LockInv, HoldersAreInCourse, Procs
<1>2. ~AtEnd(p) /\ Now(p).do \in {"lock", "rlock", "touch", "sync"}
  BY <1>1 DEF WaitsFor, About
<1>3. Now(p) \in Ops
  BY <1>2, ProcShape
<1>4. Rank(Now(p).of) \in 1 .. 6
  BY <1>3, OpsFields, RankType
<1>5. joined[p] # None => Now(p).of = "none"
  BY <1>3, OpsFields DEF LockInv, HoldersAreInCourse, About
<1>6. joined[p] = None => Now(p).of \in Mutexes
  BY <1>3, OpsFields, LockConstants DEF WaitsFor, About, Procs
<1> QED
  BY <1>2, <1>4, <1>5, <1>6 DEF Place

\* A goroutine that waits has nothing of what it waits for, or of a later place.
LEMMA HolderIsLater ==
  ASSUME LockInv, NEW q \in Procs, Waits(q), NEW m \in Mutexes,
         m \in Held(course[q], next[q])
  PROVE  Rank(m) < Rank(Now(q).of)
<1>1. ~AtEnd(q) /\ Now(q).do # "unlock"
  BY WaiterShape DEF Waits
<1> QED
  BY <1>1, ProcShape, CourseInOrder DEF InOrder, Now

LEMMA PlacesGrow ==
  ASSUME LockInv, NEW p \in Procs, NEW q \in Procs, WaitsFor(p, q), Waits(q)
  PROVE  Place(p) < Place(q)
<1> DEFINE m == Now(p).of
<1>1. /\ ~AtEnd(q) /\ Rank(Now(q).of) \in 1 .. 6 /\ Rank(m) \in 1 .. 6
      /\ Place(q) \in 0 .. 13 /\ Place(p) \in 0 .. 13
      /\ Place(q) >= 2 * Rank(Now(q).of) /\ Place(p) <= 2 * Rank(m) + 1
  BY WaiterShape DEF Waits, Place
<1>2. CASE joined[p] = q
  <2>1. q \in Flights /\ joined[p] # None /\ course[q] \in {"syncKeys", "none"}
    BY <1>2, LockConstants DEF LockInv, TypeOK, Roles, Procs
  <2>2. Now(q).of \in {"limit", "connectionMu", "keySnapshotMu"}
    BY <1>1, <2>1, ProcShape, CourseShapes DEF Busy, Now
  <2>3. Rank(Now(q).of) >= 4
    BY <2>2 DEF Rank
  <2>4. m = "none" /\ About(p, "sync")
    BY <2>1, WaiterShape DEF LockInv, HoldersAreInCourse
  <2>5. Rank(m) = 3 /\ ~Asks(p, m)
    BY <2>4 DEF Rank, Asks, About
  <2>6. Place(p) = 6
    BY <2>5 DEF Place
  <2> QED
    BY <1>1, <2>3, <2>6
<1>3. ASSUME m \in Mutexes, m \in Held(course[q], next[q])
      PROVE  Place(p) < Place(q)
  <2>1. Rank(m) < Rank(Now(q).of)
    BY <1>3, HolderIsLater
  <2> QED
    BY <1>1, <2>1
<1>4. ASSUME m \in Mutexes, writer[m] = q, m \notin Held(course[q], next[q])
      PROVE  Place(p) < Place(q)
  <2>1. Asks(q, m)
    BY <1>4 DEF LockInv, HoldersAreInCourse
  <2>2. Now(q).of = m /\ Asks(q, Now(q).of)
    BY <2>1 DEF Asks
  <2>3. Place(q) = 2 * Rank(m) + 1
    BY <1>1, <1>4, <2>2 DEF Place
  <2>4. writer[m] # p
    BY <1>4 DEF WaitsFor
  <2>5. Place(p) = 2 * Rank(m)
    BY <1>1, <2>4 DEF Place
  <2> QED
    BY <1>1, <2>3, <2>5
<1>5. CASE joined[p] # q
  <2>1. writer[m] = q \/ q \in readers[m]
    BY <1>5 DEF WaitsFor
  <2>2. m \in Mutexes
    <3>1. joined[p] = None
      BY <1>5 DEF WaitsFor, LockInv, HoldersAreInCourse, About
    <3> QED
      BY <3>1, WaiterShape
  <2>3. q \in readers[m] => m \in Held(course[q], next[q])
    BY <2>2 DEF LockInv, HoldersAreInCourse
  <2> QED
    BY <1>3, <1>4, <2>1, <2>2, <2>3
<1> QED
  BY <1>2, <1>5

LEMMA LargestPlace ==
  ASSUME NEW D \in SUBSET (0 .. 13), D # {}
  PROVE  \E d \in D : \A e \in D : e <= d
<1> SUFFICES ASSUME \A d \in D : \E e \in D : e > d
             PROVE  FALSE
  OBVIOUS
<1>1. \A d \in D : d \in 0 .. 9
  OBVIOUS
<1>2. \A d \in D : d \in 0 .. 5
  BY <1>1
<1>3. \A d \in D : d \in 0 .. 2
  BY <1>2
<1>4. 2 \notin D /\ 1 \notin D
  BY <1>3
<1>5. \A d \in D : d = 0
  BY <1>3, <1>4
<1>6. PICK d \in D : TRUE
  OBVIOUS
<1>7. PICK e \in D : e > d
  OBVIOUS
<1> QED
  BY <1>5, <1>6, <1>7

LEMMA InvNoCircle == LockInv => NoCircularWait
<1> SUFFICES ASSUME LockInv, NEW S \in SUBSET Procs, S # {},
                    \A p \in S : \E q \in S : WaitsFor(p, q)
             PROVE  FALSE
  BY DEF NoCircularWait
<1>1. \A p \in S : Waits(p) /\ Place(p) \in 0 .. 13
  BY WaiterShape DEF Waits
<1> DEFINE D == {Place(p) : p \in S}
<1>2. D \in SUBSET (0 .. 13) /\ D # {}
  BY <1>1
<1>3. PICK d \in D : \A e \in D : e <= d
  BY <1>2, LargestPlace
<1>4. PICK p \in S : d = Place(p)
  BY <1>3
<1>5. PICK q \in S : WaitsFor(p, q)
  BY <1>4
<1>6. Place(p) < Place(q)
  BY <1>1, <1>5, PlacesGrow
<1>7. Place(q) <= Place(p) /\ Place(p) \in 0 .. 13 /\ Place(q) \in 0 .. 13
  BY <1>1, <1>3, <1>4
<1> QED
  BY <1>6, <1>7

-----------------------------------------------------------------------------
(* The theorems.                                                           *)

\* Every goroutine is at a place of its course, and holds or has announced
\* what that place allows, in every reachable state.
LEMMA LockInvariant == Spec => []LockInv
  BY InitInv, NextInv, PTL DEF Spec

\* Type correctness, for any number of requests and flights.
THEOREM TypeCorrect == Spec => []TypeOK
<1>1. LockInv => TypeOK
  BY DEF LockInv
<1> QED
  BY <1>1, LockInvariant, PTL

\* Whatever handlers, workers, loops and flights meet, in any number, they
\* never wait for one another in a circle: the mutexes of the server, of the
\* syncer and of the update manager are taken in one order.
THEOREM DeadlockFree == Spec => []NoCircularWait
  BY InvNoCircle, LockInvariant, PTL
=============================================================================

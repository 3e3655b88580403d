---------------------------- MODULE AccountPool ----------------------------
(***************************************************************************)
(* The pool of upstream accounts: its inventory and the usage of the       *)
(* published ones are fetched by two flights of the syncer while           *)
(* administrators publish accounts and change the connection               *)
(* (internal/store/pool.go, syncAccounts and syncUsage of                  *)
(* internal/syncer, publishPool and putSettings of internal/httpapi).      *)
(*                                                                         *)
(* The four columns last_error_code, missing, upstream_status/schedulable  *)
(* and utilization decide normalized_status, which four statements write   *)
(* from what each of them knows.  connectionMu is held within one step;    *)
(* a flight between two steps waits for Sub2API, and settingsMu is held    *)
(* over a probe of it.  A change of the connection makes the syncer forget *)
(* its flights: they go on beside their successors.                        *)
(***************************************************************************)
EXTENDS Naturals, FiniteSets

CONSTANTS
  Accounts,      \* upstream account identifiers, the same at any instance
  Conns,         \* upstream identities: a base URL and an owner
  FirstConn,     \* the one set up first
  MaxFlights,    \* bound on executions of a flight that overlap in one scope
  MaxPuts,       \* bound on settings requests served at the same time
  None,
  MaxChanges,    \* bound on changes upstream
  MaxFaults,     \* bound on failed fetches, answers, store operations and on
                 \* restarts of the portal
  MaxRotations   \* bound on changes of the connection, refused ones included

ASSUME PoolConstants ==
  /\ None \notin Conns \cup Nat
  /\ FirstConn \in Conns
  /\ {MaxFlights, MaxPuts, MaxChanges, MaxFaults, MaxRotations} \subseteq Nat

VARIABLES
  upstream,    \* what Sub2API has of each account at each connection
  base,        \* settings: the current connection
  row,         \* pool_accounts
  generation,  \* connectionGeneration
  inventory,   \* the "accounts" flights
  usage,       \* the "usage" flights
  current,     \* the flight that the singleflight group knows, per scope
  put,         \* the settings requests
  settingsMu,  \* who holds it
  changes, faults, rotations  \* how much of each bound is used

boundVars == <<changes, faults, rotations>>
flightVars == <<inventory, usage, current>>
putVars == <<put, settingsMu>>
settingsVars == <<base, generation>>
vars == <<upstream, base, row, generation, inventory, usage,
          current, put, settingsMu, changes, faults, rotations>>

Scopes == {"accounts", "usage"}
Flights == 1 .. MaxFlights
Puts == 1 .. MaxPuts

\* "off" is disabled or in error, "paused" is not schedulable.
States == {"ok", "paused", "off"}
Listed == States \cup {"absent"}
Statuses == {"healthy", "rate_limited", "degraded", "unavailable"}

\* How far an account is used is told by a version; every other one has a
\* window at 100 %.
Full(version) == version % 2 = 1

Upstream == [state : Listed, used : Nat]
Rows == [origin : Conns \cup {None},  \* None: there is no row
         published : BOOLEAN, missing : BOOLEAN, state : States,
         failed : BOOLEAN,            \* last_error_code is set
         used : Nat, usedFrom : Conns \cup {None}, status : Statuses,
         relisted : BOOLEAN]          \* history: ApplyPoolInventory wrote status
Inventories == [pc : {"idle", "fetching", "fetched"}, generation : Nat,
                conn : Conns, list : [Accounts -> Listed]]
Usages == [pc : {"idle", "started", "fetching", "fetched", "failed"},
           generation : Nat, conn : Conns, ids : SUBSET Accounts,
           answered : SUBSET Accounts, used : [Accounts -> Nat]]
PutStates == [pc : {"idle", "probing"}, read : Conns]

TypeOK ==
  /\ upstream \in [Conns -> [Accounts -> Upstream]]
  /\ base \in Conns
  /\ row \in [Accounts -> Rows]
  /\ generation \in Nat
  /\ inventory \in [Flights -> Inventories]
  /\ usage \in [Flights -> Usages]
  /\ current \in [Scopes -> Flights \cup {None}]
  /\ put \in [Puts -> PutStates]
  /\ settingsMu \in Puts \cup {None}
  /\ changes \in 0 .. MaxChanges
  /\ faults \in 0 .. MaxFaults
  /\ rotations \in 0 .. MaxRotations

NoRow == [origin |-> None, published |-> FALSE, missing |-> FALSE,
          state |-> "off", failed |-> FALSE, used |-> 0, usedFrom |-> None,
          status |-> "unavailable", relisted |-> FALSE]
NoInventory == [pc |-> "idle", generation |-> 0, conn |-> FirstConn,
                list |-> [a \in Accounts |-> "absent"]]
NoUsage == [pc |-> "idle", generation |-> 0, conn |-> FirstConn, ids |-> {},
            answered |-> {}, used |-> [a \in Accounts |-> 0]]
IdlePut == [pc |-> "idle", read |-> FirstConn]

Init ==
  /\ upstream = [c \in Conns |->
                   [a \in Accounts |-> [state |-> "ok", used |-> 0]]]
  /\ base = FirstConn
  /\ row = [a \in Accounts |-> NoRow]
  /\ generation = 0
  /\ inventory = [f \in Flights |-> NoInventory]
  /\ usage = [f \in Flights |-> NoUsage]
  /\ current = [scope \in Scopes |-> None]
  /\ put = [p \in Puts |-> IdlePut]
  /\ settingsMu = None
  /\ changes = 0 /\ faults = 0 /\ rotations = 0

Exists(a) == row[a].origin # None

\* Mutant: the status of Sub2API is shown as it is.
StatusRaw(state, missing, failed, full) == state

\* normalizeStatus, with the utilization that the caller passes.
Status(state, missing, failed, full) ==
  IF missing \/ state = "off" THEN "unavailable"
  ELSE IF failed \/ state = "paused" THEN "degraded"
  ELSE IF full THEN "rate_limited"
  ELSE "healthy"

CountFault == /\ faults < MaxFaults
              /\ faults' = faults + 1
              /\ UNCHANGED <<changes, rotations>>

\* Which of the idle flights or requests begins makes no difference: the first.
FirstIdle(n, procs) ==
  /\ procs[n].pc = "idle"
  /\ \A m \in DOMAIN procs : m < n => procs[m].pc # "idle"

\* Flights overlap in one scope at a time only, so that fewer states are kept.
OverlapBound(f, others) == f = 1 \/ \A g \in Flights \ {1} : others[g].pc = "idle"

\* The group enters flight f for a scope that has none.
Enter(f, scope) ==
  /\ current[scope] = None
  /\ current' = [current EXCEPT ![scope] = f]

\* The group removes f, unless it has been forgotten before.
Leave(f, scope) ==
  current' = IF current[scope] = f THEN [current EXCEPT ![scope] = None]
                                   ELSE current

-----------------------------------------------------------------------------
(* The inventory flights.                                                  *)

\* Mutant: the generation is taken once, when the manager is made.
StartInventoryStale(f) ==
  /\ FirstIdle(f, inventory) /\ OverlapBound(f, usage)
  /\ Enter(f, "accounts")
  /\ inventory' = [inventory EXCEPT ![f] =
       [NoInventory EXCEPT !.pc = "fetching", !.conn = base]]
  /\ UNCHANGED <<upstream, row, usage, settingsVars, putVars, boundVars>>

\* Sync("accounts") of the loop or of a handler; one that finds a flight under
\* way waits for it and changes nothing.
StartInventory(f) ==
  /\ FirstIdle(f, inventory) /\ OverlapBound(f, usage)
  /\ Enter(f, "accounts")
  /\ inventory' = [inventory EXCEPT ![f] =
       [NoInventory EXCEPT !.pc = "fetching", !.generation = generation, !.conn = base]]
  /\ UNCHANGED <<upstream, row, usage, settingsVars, putVars, boundVars>>

\* ListAccounts answers.
FetchInventory(f) ==
  /\ inventory[f].pc = "fetching"
  /\ inventory' = [inventory EXCEPT ![f].pc = "fetched", ![f].list =
       [a \in Accounts |-> upstream[inventory[f].conn][a].state]]
  /\ UNCHANGED <<upstream, row, usage, current, settingsVars, putVars, boundVars>>

\* Mutant: an account that comes back does not look at its error.
ListedRowFresh(a, conn, state) ==
  [row[a] EXCEPT !.origin = conn, !.missing = FALSE, !.state = state,
     !.relisted = TRUE, !.status = Status(state, FALSE, FALSE, FALSE)]

\* The upsert of an account that is in the list.  It keeps the utilization, but
\* computes the status without it.
ListedRow(a, conn, state) ==
  [row[a] EXCEPT !.origin = conn, !.missing = FALSE, !.state = state,
     !.relisted = TRUE,
     !.status = IF row[a].failed THEN "degraded"
                                 ELSE Status(state, FALSE, FALSE, FALSE)]

\* ApplyPoolInventory: every row is missing but those of the list.
ApplyPoolInventory(conn, list) ==
  row' = [a \in Accounts |->
            IF list[a] # "absent" THEN ListedRow(a, conn, list[a])
            ELSE IF Exists(a) THEN [row[a] EXCEPT !.missing = TRUE,
                                                  !.relisted = TRUE,
                                                  !.status = "unavailable"]
            ELSE row[a]]

\* withConnectionGeneration: the answer is of the present connection.
Current(flight) == flight.generation = generation

EndInventory(f) ==
  /\ inventory' = [inventory EXCEPT ![f] = NoInventory]
  /\ Leave(f, "accounts")

\* Under connectionMu; last_account_sync_at is left out.
StoreInventory(f) ==
  /\ inventory[f].pc = "fetched"
  /\ EndInventory(f)
  /\ IF Current(inventory[f])
     THEN ApplyPoolInventory(inventory[f].conn, inventory[f].list)
     ELSE UNCHANGED row
  /\ UNCHANGED <<upstream, usage, settingsVars, putVars, boundVars>>

\* The fetch fails, or the store does before or after the rows.
FailInventory(f) ==
  /\ inventory[f].pc # "idle"
  /\ CountFault
  /\ EndInventory(f)
  /\ \/ UNCHANGED row
     \/ /\ inventory[f].pc = "fetched" /\ Current(inventory[f])
        /\ ApplyPoolInventory(inventory[f].conn, inventory[f].list)
  /\ UNCHANGED <<upstream, usage, settingsVars, putVars>>

-----------------------------------------------------------------------------
(* The usage flights.                                                      *)

StartUsage(f) ==
  /\ FirstIdle(f, usage) /\ OverlapBound(f, inventory)
  /\ Enter(f, "usage")
  /\ usage' = [usage EXCEPT ![f] =
       [NoUsage EXCEPT !.pc = "started", !.generation = generation, !.conn = base]]
  /\ UNCHANGED <<upstream, row, inventory, settingsVars, putVars, boundVars>>

EndUsage(f) ==
  /\ usage' = [usage EXCEPT ![f] = NoUsage]
  /\ Leave(f, "usage")

\* Mutant: accounts that failed are left alone.
PublishedUnfailed == {a \in Accounts : row[a].published /\ ~row[a].missing
                                         /\ ~row[a].failed}

\* PublishedAccountIDs.
PublishedIDs == {a \in Accounts : row[a].published /\ ~row[a].missing}

\* The accounts are chosen now; without any there is nothing to fetch.
ReadPublished(f) ==
  /\ usage[f].pc = "started"
  /\ IF PublishedIDs = {}
     THEN EndUsage(f)
     ELSE /\ usage' = [usage EXCEPT ![f].pc = "fetching", ![f].ids = PublishedIDs]
          /\ UNCHANGED current
  /\ UNCHANGED <<upstream, row, inventory, settingsVars, putVars, boundVars>>

\* BatchAccountUsage answers for what Sub2API has of the accounts; those of E it
\* answers with an error.
Answer(f, E) ==
  usage' = [usage EXCEPT ![f].pc = "fetched",
    ![f].answered = {a \in usage[f].ids \ E :
                       upstream[usage[f].conn][a].state # "absent"},
    ![f].used = [a \in Accounts |-> IF a \in usage[f].ids
                                    THEN upstream[usage[f].conn][a].used ELSE 0]]

FetchUsage(f) ==
  /\ usage[f].pc = "fetching"
  /\ Answer(f, {})
  /\ UNCHANGED <<upstream, row, inventory, current, settingsVars, putVars, boundVars>>

FetchUsageWithError(f, a) ==
  /\ usage[f].pc = "fetching"
  /\ a \in usage[f].ids
  /\ CountFault
  /\ Answer(f, {a})
  /\ UNCHANGED <<upstream, row, inventory, current, settingsVars, putVars>>

\* It does not answer.
UsageUnanswered(f) ==
  /\ usage[f].pc = "fetching"
  /\ CountFault
  /\ usage' = [usage EXCEPT ![f].pc = "failed"]
  /\ UNCHANGED <<upstream, row, inventory, current, settingsVars, putVars>>

\* What ApplyPoolUsage makes of the row of a.
UsedRow(a, conn, answered, used) ==
  IF a \in answered
  THEN [row[a] EXCEPT !.failed = FALSE, !.used = used[a], !.usedFrom = conn,
          !.relisted = FALSE,
          !.status = Status(row[a].state, row[a].missing, FALSE, Full(used[a]))]
  ELSE [row[a] EXCEPT !.failed = TRUE, !.relisted = FALSE,
          !.status = Status(row[a].state, row[a].missing, TRUE, FALSE)]

\* The accounts asked for that still have a row, published or not.
ApplyPoolUsage(flight) ==
  row' = [a \in Accounts |->
            IF a \in flight.ids /\ Exists(a)
            THEN UsedRow(a, flight.conn, flight.answered, flight.used)
            ELSE row[a]]

StoreUsage(f) ==
  /\ usage[f].pc = "fetched"
  /\ EndUsage(f)
  /\ IF Current(usage[f])
     THEN ApplyPoolUsage(usage[f])
     ELSE UNCHANGED row
  /\ UNCHANGED <<upstream, inventory, settingsVars, putVars, boundVars>>

\* MarkPoolUsageFailed marks what is published by now.
FailedRow(a) ==
  [row[a] EXCEPT !.failed = TRUE, !.relisted = FALSE,
     !.status = IF row[a].missing THEN "unavailable" ELSE "degraded"]

MarkUsageFailed(f) ==
  /\ usage[f].pc = "failed"
  /\ EndUsage(f)
  /\ row' = [a \in Accounts |-> IF Current(usage[f]) /\ row[a].published
                                THEN FailedRow(a) ELSE row[a]]
  /\ UNCHANGED <<upstream, inventory, settingsVars, putVars, boundVars>>

\* The store fails, before or after the rows.
FailUsage(f) ==
  /\ usage[f].pc # "idle"
  /\ CountFault
  /\ EndUsage(f)
  /\ \/ UNCHANGED row
     \/ /\ usage[f].pc = "fetched" /\ Current(usage[f])
        /\ ApplyPoolUsage(usage[f])
  /\ UNCHANGED <<upstream, inventory, settingsVars, putVars>>

-----------------------------------------------------------------------------
(* Administrators.                                                         *)

\* SetPoolPublished, all of S or none.  The sync that follows is StartUsage, or
\* waits for a flight that has chosen its accounts already.
Publish(S) ==
  /\ \A a \in S : Exists(a) /\ ~row[a].missing
  /\ row' = [a \in Accounts |-> IF a \in S THEN [row[a] EXCEPT !.published = TRUE]
                                           ELSE row[a]]
  /\ UNCHANGED <<upstream, flightVars, settingsVars, putVars, boundVars>>

Unpublish(S) ==
  /\ \A a \in S : Exists(a)
  /\ row' = [a \in Accounts |-> IF a \in S THEN [row[a] EXCEPT !.published = FALSE]
                                           ELSE row[a]]
  /\ UNCHANGED <<upstream, flightVars, settingsVars, putVars, boundVars>>

\* Mutant: the settings are read before settingsMu is taken.
StartPutUnlocked(p) ==
  /\ FirstIdle(p, put)
  /\ put' = [put EXCEPT ![p] = [pc |-> "probing", read |-> base]]
  /\ settingsMu' = p
  /\ UNCHANGED <<upstream, row, flightVars, settingsVars, boundVars>>

\* putSettings takes settingsMu and reads the settings; the probe follows.
StartPut(p) ==
  /\ FirstIdle(p, put)
  /\ settingsMu = None
  /\ put' = [put EXCEPT ![p] = [pc |-> "probing", read |-> base]]
  /\ settingsMu' = p
  /\ UNCHANGED <<upstream, row, flightVars, settingsVars, boundVars>>

FinishPut(p) ==
  /\ put' = [put EXCEPT ![p] = IdlePut]
  /\ settingsMu' = None

\* The probe or a check refuses, or the client goes away.
RefusePut(p) ==
  /\ put[p].pc = "probing"
  /\ FinishPut(p)
  /\ UNCHANGED <<upstream, row, flightVars, settingsVars, boundVars>>

\* UpdateSettings without a new identity, which is the one that was read: only the
\* times of the last syncs go, which are left out.
SaveSettings(p) ==
  /\ put[p].pc = "probing"
  /\ FinishPut(p)
  /\ base' = put[p].read
  /\ UNCHANGED <<upstream, row, generation, flightVars, boundVars>>

\* BeginConnectionRotation: every flight under way is void and forgotten.
BeginRotation ==
  /\ generation' = generation + 1
  /\ current' = [scope \in Scopes |-> None]
  /\ UNCHANGED <<inventory, usage>>
  /\ rotations < MaxRotations
  /\ rotations' = rotations + 1
  /\ UNCHANGED <<changes, faults>>

\* UpdateSettings with a new identity: nothing may be published, and every row
\* goes.
Rotate(p, next) ==
  /\ put[p].pc = "probing"
  /\ next # put[p].read
  /\ BeginRotation
  /\ \A a \in Accounts : ~row[a].published
  /\ base' = next
  /\ row' = [a \in Accounts |-> NoRow]
  /\ FinishPut(p)
  /\ UNCHANGED upstream

\* UpdateSettings refuses: an account is published, a key is bound (in tables
\* not modelled here) or the store fails.  The flights are void already.
RotationRefused(p) ==
  /\ put[p].pc = "probing"
  /\ BeginRotation
  /\ FinishPut(p)
  /\ UNCHANGED <<upstream, base, row>>

-----------------------------------------------------------------------------
(* The environment.                                                        *)

\* Sub2API changes an account, lists it or lists it no more (external).
UpstreamChanges(c, a, state) ==
  /\ changes < MaxChanges
  /\ upstream' = [upstream EXCEPT ![c][a] = [state |-> state, used |-> @.used + 1]]
  /\ changes' = changes + 1
  /\ UNCHANGED <<faults, rotations>>
  /\ UNCHANGED <<row, flightVars, settingsVars, putVars>>

\* The portal ends at any point; its tables stay and its memory is new.
Restart ==
  /\ CountFault
  /\ generation' = 0
  /\ inventory' = [f \in Flights |-> NoInventory]
  /\ usage' = [f \in Flights |-> NoUsage]
  /\ current' = [scope \in Scopes |-> None]
  /\ put' = [p \in Puts |-> IdlePut]
  /\ settingsMu' = None
  /\ UNCHANGED <<upstream, base, row>>

InventoryStep(f) == FetchInventory(f) \/ StoreInventory(f)
UsageStep(f) ==
  ReadPublished(f) \/ FetchUsage(f) \/ StoreUsage(f) \/ MarkUsageFailed(f)

Next ==
  \/ \E f \in Flights :
       \/ StartInventory(f) \/ InventoryStep(f) \/ FailInventory(f)
       \/ StartUsage(f) \/ UsageStep(f) \/ UsageUnanswered(f) \/ FailUsage(f)
       \/ \E a \in Accounts : FetchUsageWithError(f, a)
  \/ \E S \in (SUBSET Accounts) \ {{}} : Publish(S) \/ Unpublish(S)
  \/ \E p \in Puts : \/ StartPut(p) \/ RefusePut(p) \/ SaveSettings(p)
                     \/ \E next \in Conns : Rotate(p, next)
                     \/ RotationRefused(p)
  \/ \E c \in Conns, a \in Accounts, s \in Listed : UpstreamChanges(c, a, s)
  \/ Restart

Spec == Init /\ [][Next]_vars

\* runLoop starts each scope again and again, and a flight is cut off by the
\* client's timeout.
FairSpec ==
  /\ Spec
  /\ WF_vars(\E f \in Flights : StartInventory(f))
  /\ WF_vars(\E f \in Flights : StartUsage(f))
  /\ \A f \in Flights : WF_vars(InventoryStep(f)) /\ WF_vars(UsageStep(f))

-----------------------------------------------------------------------------
(* Properties.                                                             *)

\* Nothing of a former connection survives a change of it: account numbers mean
\* something else there.  Rows and their usage are of the
\* connection the settings name, whichever flights, requests and restarts cross.
OneConnection ==
  \A a \in Accounts : {row[a].origin, row[a].usedFrom} \subseteq {base, None}

\* What normalized_status rests on, whichever of the four statements wrote it
\* last: an account is shown usable only if it was listed last time as active
\* and schedulable and its last refresh did not fail, at its limit only if its
\* stored usage says so, and a missing one is shown unavailable.  One that is
\* shown healthy although its stored usage is at a limit owes that to
\* ApplyPoolInventory, which does not look at the usage; a usage answer or a
\* failed refresh never leaves one behind.
StatusIsBacked ==
  \A a \in Accounts :
    LET r == row[a] IN
    /\ r.status \in {"healthy", "rate_limited"}
         => ~r.missing /\ ~r.failed /\ r.state = "ok"
    /\ r.status = "rate_limited" => Full(r.used)
    /\ r.status = "healthy" /\ Full(r.used) => r.relisted
    /\ r.missing => r.status = "unavailable"

\* Once Sub2API is quiet and reachable, the inventory comes to agree with it and
\* stays so.
InventoryConverges ==
  <>[](\A a \in Accounts :
         IF upstream[base][a].state = "absent" THEN Exists(a) => row[a].missing
         ELSE /\ Exists(a) /\ ~row[a].missing
              /\ row[a].state = upstream[base][a].state)

\* A published account does not show old usage, or an error, for ever: it is
\* refreshed, unpublished or found missing.
Stale(a) ==
  /\ row[a].published /\ ~row[a].missing
  /\ row[a].failed \/ row[a].used # upstream[base][a].used

UsageConverges == \A a \in Accounts : Stale(a) ~> ~Stale(a)
=============================================================================

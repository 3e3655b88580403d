# A verification of the Sub2API limit portal

The portal is a small Go service in front of a Sub2API instance. Administrators
bind each portal user to one upstream API key, publish upstream accounts, reset
key quotas and change key limits; users see their usage. A second program, the
updater, replaces the portal's binary. This directory models the parts of that
system in which several things happen at once or something may fail half way,
checks them with TLC and proves the central results with TLAPS.

## 1. The system

| Component | State | Operations | What is hard |
|---|---|---|---|
| **Store** (`internal/store`), SQLite with one connection | users, `key_bindings`, `quota_reset_jobs`, `quota_reset_job_items`, sessions, settings, pool, announcements, update check | one statement or one transaction per exported method | transitions guarded by `WHERE status=...`; counters kept next to the rows they count; a commit followed by a read that can fail |
| **Reset and limit workflows** (`internal/httpapi/quota_resets.go`, `admin_limits.go`) | `maintenanceMu`, `bindingMu`, the `quotaResetKeys` gate, the runner and its four workers | single reset, limit change, create batch, run batch, abort, recover | an upstream mutation that must not be repeated and whose outcome may be unknown; store failures and process death in the middle |
| **Syncer** (`internal/syncer`) | connection and key generations, a singleflight group, the key cache | `Sync`, `ResetQuota`, `SetKeyLimits`, `BeginConnectionRotation`, three timer loops | lists fetched before a mutation or a connection change and stored after it |
| **Users, bindings, sessions** (`admin_users.go`, `auth.go`, `sessions.go`, `users.go`) | accounts, sessions, login throttle | login, logout, passwords, disable, delete, bind | a login that overlaps the revocation of all sessions |
| **Settings, pool, setup** (`admin_pool_settings.go`, `setup.go`, `pool.go`) | connection settings, published accounts, setup token | set up, change the connection, publish, sync | a connection change while other work uses the old one |
| **Update manager** (`internal/releasecheck`) | the check result, the request file, the updater's status file | check, apply, view | a request written while the updater consumes one |
| **Updater** (`cmd/sub2api-limit-updater`) | a journal, backups, the status file, the service | stop, back up, install, start, verify, roll back, recover | a crash between any two of these |
| **Codex forecast**, **announcements**, **dashboard** | last good forecast, announcements and dismissals | refresh; CRUD; read | little: sequential, or read-only |
| **Web interface, packaging, scripts, secrets** | – | – | presentation, installers and cryptographic primitives: not modelled |

How they interact. HTTP handlers call the store and the syncer directly and
share the server's locks; the syncer's loops and the batch runner are goroutines
of the same process; the updater is another process that reads a request file
the portal writes, stops and starts the portal, and reports through a status
file. Sub2API is external: it may apply a request and fail to say so.

What makes each part correct, in one line each:

* a batch reset asks Sub2API at most once per item, reports only what it knows,
  and always ends; counters and items agree; history is never rewritten;
* the key of an upstream call stays bound to its user, and no second call meets it;
* no update is accepted while a reset, a limit change or a batch is under way, nor
  one of these while an update is (the recovery of a journal that an ended update
  left behind is not covered by this, see Findings);
* a key list fetched before a confirmed change or for a previous connection is
  never published over it;
* after an update crashes anywhere, the portal runs either the old or the new
  version with the matching data, and the status tells which; every request is
  answered, unless systemd has given up starting the updater;
* a revoked session stays revoked, and setup makes one administrator;
* the pool shows accounts of the connection the settings name, as usable only
  when listed so and refreshed without an error, and comes to agree with Sub2API
  (between an inventory sync and the next usage sync an account at its limit is
  shown as healthy, see Findings);
* no goroutines of the portal wait for each other.

PROJECT.json lists the components with their status, and the hazards with the
line where each bites and the properties that cover it.

## 2. Modules

| Module | Models | Kind |
|---|---|---|
| `QuotaResetStore` | users, bindings and the reset ledger: each store transaction is one action; `StoreSpec` lets callers invoke them in any order | component |
| `QuotaReset` | the reset, limit and batch workflows with their locks, the update gate, Sub2API's answers, failures and crashes; EXTENDS the store and uses its actions | composition |
| `BatchPromise` | what a batch promises, without locks, workers, crashes or tables | abstract specification |
| `KeySync` | the syncer's key scope: overlapping fetches, confirmed changes, the key cache, rebinding, connection rotation, reconciliation, failures and restarts | component |
| `PublishedUsage` | what the portal promises of the usage it shows | abstract specification |
| `AccountPool` | the syncer's account and usage scopes, publication, settings requests and rotation | component |
| `AccountsStore` | users, sessions, setup token and settings: each store transaction is one action | component |
| `Accounts` | login and its throttle, requests with a session, account administration, setup, in overlapping requests; EXTENDS its store | composition |
| `LockOrder` | the portal's mutexes and flights, and the order in which each handler, worker, loop and flight takes them | composition |
| `Updater` | the update from the administrator's request to the final status: trigger, journal, backup, installation, restart, commit, rollback, recovery; failing steps, kills, reboots | component |
| `AtomicSwitch` | what an update promises: one atomic change of version and a true report | abstract specification |
| `QuotaResetStoreProofs`, `QuotaResetProofs`, `KeySyncProofs`, `AccountPoolProofs`, `AccountsProofs`, `LockOrderProofs`, `UpdaterProofs` | theorems and proofs about the component each is named after | proofs |
| `BatchPromiseProofs` | the proof that `QuotaReset` implements `BatchPromise`; EXTENDS `QuotaResetProofs` | proofs |
| `MCQuotaReset`, `MCKeySync`, `MCAccounts`, `MCLockOrder`, `MCUpdater` | symmetry sets, and constants that a cfg cannot write | model checking |

### QuotaResetStore

`userStatus`, `binding` and `missing` are the users and key_bindings tables
(`missing` is `binding_state = 'missing'`; active and disabled users are one
status, since both are snapshotted by a batch and both can be reset).
`jobStatus`, `itemStatus`, `itemKey` and `counters` are the two ledger tables.
A method that fails rolls back and is therefore the absence of its action. The
unique index on `upstream_key_id` and the partial unique index that admits one
active job appear as guards.
`StoreSpec`, in which callers do as they please, is what
`QuotaResetStoreProofs` is about; TLC checks the ledger's properties in `workflow`,
with the callers there are.

### QuotaReset

A handler or a worker is a process `p` with a program counter (`idle`, `marked`,
`calling`, `sent`, `answered`). The atomic steps are the store's transactions
and what happens between two of them; a lock that is taken and released within
one step does not appear, so a binding change, which holds `bindingMu` for one
transaction, is one action that waits until `bindingReaders` is empty.
`maintenance` is the handler that holds `maintenanceMu`. A worker's taking of an
item and marking it running is one step, because no other process can observe
the difference: an item taken but not marked is still pending.

An upstream call is four actions: `Send`, `UpstreamApply` (Sub2API executes it,
external), `Answer` (any answer consistent with whether it was applied) and
`NotSent`. Sub2API confirms only what it applied and refuses only what it did
not; 5xx, dropped connections, undecodable bodies, timeouts and cancellations
say nothing. An application that happens after the portal stopped waiting is not
recorded: it can only make a reported `failed` or `unknown` more wrong, which
`FailedButApplied` shows already.

`Crash` and `UpdaterStopsPortal` end the process at any point and forget every
lock and goroutine; `Restart` runs the recovery of `httpapi.New`. Store failures
are injected at the operations whose failure the code handles (`CountFault`).

`update` is what matters here of the updater's files: whether an update that was
asked for is outstanding (`asked`: the request, or a status that is not final),
and the journal. `MaintenancePending`, which admits resets, batches and updates,
sees the first and a recovery that has reported itself, but not a journal that is
`left`: `UpdateEnds` may leave one behind, with a final status and without a
request, and `UpdaterRecovers` takes it up whenever the path unit gets to it. From
then on `UpdaterStopsPortal` may end the process, whatever it is doing.
`UpdateFindsPortalQuiet` therefore speaks of updates that were asked for.

### KeySync

Everything Sub2API says of a key is one number, a version that grows with each
change (a reset, a limit change, or ordinary use, `UpstreamChanges`). A row of
`key_bindings` is `bound`, `usage` (the version it holds), `origin` (the
connection that version came from) and `marked` (its `last_error_code` is set).
A flight is one execution of the singleflight function: it is queued (for one of
four slots), reads the settings with the connection generation, reads the key
generation, reads the list one page at a time (a page is one key), and publishes
or drops it. `current` is the flight the group knows; `Forget` and the end of
the flight clear it, and a forgotten flight goes on beside its successor.
`connectionMu`, `keySnapshotMu` and `cacheMu` are held within one step each, and
so are the atomicity of the actions; `RotateConnection` is one step because
`connectionMu` is held from `BeginConnectionRotation` until `UpdateSettings` has
returned, whether it succeeded or not. `bindingMu` is held for reading by the
calls, so bindings and rotations wait for `NoCalls`.

`workflow` stands for what `QuotaReset` models in detail: one single mutation or
one batch at a time (`maintenanceMu` and the active job), followed by its
`Sync("keys")`, which joins a flight or starts one. A key list always contains
every key here; keys that disappear are the business of `QuotaResetStore`, and
the account and usage scopes that of `AccountPool`.

`saved` and `owed` are history: the last confirmed version stored in a row since
it was bound, and the changes confirmed to the present workflow.

### AccountPool

`row` is `pool_accounts`: whether there is a row and of which connection
(`origin`), `published`, `missing`, the upstream state, `failed`
(`last_error_code` is set), the usage (`used`, with the connection it came from)
and `status`, which is `normalized_status`. That one column is written by four
statements, each from what it knows: the upsert of a listed account, the update
of the missing ones, the answer to a usage request and its failure. `Status` is
`normalizeStatus`; usage is a version, every other one of which has a window at
100 %, so that each change of it can cross the limit.

A flight of a scope reads the generation and the settings, waits for Sub2API and
stores under `connectionMu` if the generation is still its own. `BeginRotation`
voids and forgets every flight, also when `UpdateSettings` then refuses. A
settings request holds `settingsMu` from its first read over the probe to its
end; only the change itself is one step, since `bindingMu` and `connectionMu` are
held over it. A refusal because keys are bound is a nondeterministic choice.
Account numbers are the same at any instance, which is why a row of one
connection would pass for one of another.

`relisted` is history: the upsert wrote `status` last. It is what
`StatusIsBacked` needs to say that nothing else shows an account at its limit as
`healthy`: the upsert keeps the stored utilization but computes the status
without it.

What the model keeps although it may surprise: an account that is disabled and
whose refresh failed shows `degraded`; an unpublished account keeps its last
error; publishing starts a usage sync that may join one that has chosen its
accounts already.

### AccountsStore and Accounts

A username is the identity of its row, since the unique index keeps the name of
a deleted account. A password is a number that grows when one is set. Moments in
the future are the ticks left until them: `idle` and `absolute` for a session,
`setupLeft` for the setup token, and the ages of failed logins in `loginFails`.
`era`, `born` and `age` are history: how often an account's sessions were
revoked, at which of them a session was made, and how old it is.

A client is one request. Hashing a password (argon2) and probing Sub2API take
time, so a login is four steps (the throttle's check, the verification with its
record or clearing, the session), a password change two after `requireAuth`, and
the setup two. A request that has passed `requireAuth` is not looked at again:
the handlers use the session in its context, so a request under way keeps its
authorisation through a revocation. `Restart` forgets the requests and the
throttle and, until setup is complete, replaces the setup token.

What the model keeps although it may surprise: a login that has verified the
password before a revocation gets its session after it; a password change that
has verified the old password overwrites a reset by an administrator made in
between; a session for an account disabled meanwhile is created and is refused
at its first use.

### LockOrder

A goroutine is its course: the mutexes it takes, those it only touches, those it
gives back early and the sync it waits for. `writer` and `readers` follow Go's
`sync.RWMutex`: a writer that waits for readers keeps new readers out, which is
what makes nested read locks dangerous. A goroutine may return early at any point
at which it does not wait, and a caller may stop waiting for a flight when its
context ends; nobody gives up a mutex. The four slots of `limit` are one here,
which only makes for more waiting, and any flight under way may be joined. Left
out are the mutexes under which nothing else is taken (`cacheMu`,
`quotaResetMu`, `loginMu`, the one of singleflight) and the only database
connection, which no code holds while it waits for a mutex.

### Updater

`files` are the two installed binaries and the database, `serving` the portal
process that runs, by the version it was built from. A database is the schema
version its migrations reached and the number of rows each version has written;
it stands for `app.db` with its `-wal` and `-shm`, which are copied and put back
next to each other. `request`, `status` and `journal` are `update.request`,
`status.json` and `transaction.json`. `run` is the updater process: there is one
at most, because of its process lock and its oneshot unit, and it starts while a
request or a journal is there (`Triggered`, the path unit). The path unit fails
for good at a fourth trigger within five minutes (`TriggerLimitBurst`, here
`Burst`; `PathUnitFails`); only a reboot makes it watch again, and
`Manager.canApply` accepts no request meanwhile. `starts` counts its triggers in
the present interval, and each start may be the first of a new one.

One action is one stage of `runApply` between two writes that another process or
a later run can observe. Reading a file, comparing versions and the write that
follows are one step: nobody else changes what is read, since the portal adds a
request only when there is none. The three phases of downloading and verifying
are the phase `checking`; starting the portal and waiting for its health are one
step, `Restart`, because the portal may write in between as well as after it.

Every step may fail (`Fails`), and a write that fails may have replaced its file
(`Maybe`: the rename happened, the sync of the directory did not). A fault also
stands for a cancelled context: `SIGTERM` leads to the same rollback. `Kill` ends
the process, `Reboot` also starts the enabled portal unit, which happens before
the path unit. Starting a portal migrates the database. What the updater has
synced survives. `up_to_date` and a portal that differs from the updater cannot
be reached by requests of the portal: `OneVersion` is why.

## 3. Runs

| Run | Instance and bounds | Shows |
|---|---|---|
| `workflow` | 2 users, 2 keys, 1 job, 2 workers, 2 handlers; 1 failure, 1 crash or 1 update | the safety of the workflow and of the ledger below it, and that every step is a step of `BatchPromise` or none |
| `completion` | 2 users, 1 key, 1 job, 2 workers, 1 handler; 1 failure, 1 crash, fairness | batches complete, `maintenanceMu` is released |
| `key_sync` | 1 key, 2 connections, 2 flights; 1 change, 1 failure, 1 rotation, 1 restart | rows never fall behind a confirmed change, nothing of an old connection survives, confirmations are stored, reconciliation repairs; all steps implement `PublishedUsage` |
| `key_sync_convergence` | 1 key, 1 connection, 2 flights; 1 change, 1 failure, 1 restart, fairness | rows and cache come to show the upstream and stay so |
| `pool` | 1 account, 2 connections, 2 flights per scope, 2 settings requests; 1 change upstream, 1 fault, 1 rotation, fairness | one connection, what each status rests on, and convergence of inventory and usage |
| `accounts` | 2 accounts, 2 sessions, 2 requests, 2 setup tokens; sessions of 3 ticks, 1 revocation per account, a throttle of 2 failures in 2 ticks | setup happens once and wholly, revocation ends sessions for good, the throttle overshoots by one per request at most, sessions end |
| `locks` | 3 goroutines, 2 flights | nobody waits for himself through others |
| `updater` | 2 operations, 3 versions, 1 row; 2 faults, 1 kill, 1 reboot or 1 stop by an operator, 3 triggers per interval; fairness | no mixed installation, no copy of a live database, a truthful status, every request answered unless the path unit gave up; all steps implement `AtomicSwitch` |
| `failed_but_applied` | 1 user, 1 worker | a batch item reported `failed` although Sub2API applied the reset |
| `lost_create` | 1 user, a create request that may be cancelled | a job that no runner owns stays active |
| `stale_binding` | 1 flight, 1 failure | a row bound from the cache while the upstream is offline carries no stale mark |
| `updater_reboot` | 1 operation, 1 fault, 1 reboot | a rollback that leaves the old portal on a newer database |

The bounds. Two of everything is what an interleaving needs: two workers to
race, two handlers to contend for the locks, two keys to exchange. The code's
four workers are two here; the theorems below hold for any number. `MaxFaults`,
`MaxUpdates` and `MaxOutages` (crashes and updates together, in `Updater` reboots
and operator's stops) bound how often the environment misbehaves: in `workflow` an
update and a failure suffice for a journal left behind whose recovery stops the
portal in the middle of a later reset. The safety theorems do not depend on these
bounds, liveness does: a store failure followed by a failure to write the abort
leaves the job active until the next restart (`RunnerAborts`), so `completion`
allows one failure. Users, keys, jobs, workers and handlers are symmetric in the
safety runs; the liveness runs use no symmetry.

In `pool` two flights of a scope overlap after a rotation has forgotten the
first, in one scope at a time (`OverlapBound`), and two settings requests contend
for `settingsMu`. There is one account, because the rows of two do not meet: the
statements over several rows treat each alike, and publishing several accounts
at once, all or none, is one transaction. In `accounts` the second account is the
one an administrator acts on, two tokens tell a setup token from its successor,
and the idle time is shorter than the absolute one, so that renewal meets both
ends; `Window` and `Limit` are small enough for a failure to leave the window and
for the limit to be passed. `locks` needs three goroutines for a circle through a
handler, another and a flight; four pass as well.

In `key_sync` one version is enough to tell old from new, two flights to
overlap, and two connections to change between; a row is a single key because
`NeverOlderThanConfirmed` speaks of one key at a time and a flight's pages of
other keys only delay it.

In `updater` two operations are what it takes to confuse one with another, three
versions let a request go stale, two faults let a rollback fail as well, and one
row tells a database with it from one without.

Deadlock is checked in every run but the two of the updater, which stops for good
when no newer release is left: an idle portal can always sync, time can always
pass, and in `locks` a state in which nobody can move would be a deadlock to TLC as well.

### Fairness

`key_sync_convergence` assumes weak fairness of the timer loop (`runLoop` resets
its timer after every sync), of each flight and each call (both are cut off by a
timeout), and of the workflow that reconciles. Changes, failures and restarts
are bounded, which is how "once the upstream is quiet and reachable" is said.

`pool` assumes weak fairness of the start of each scope (`runLoop` starts them
again and again) and of each flight (the client's timeout is an answer). Nothing
is assumed of settings requests: one that never ends holds `settingsMu`, which no
flight takes.

`updater` assumes weak fairness of the updater as a whole: the path unit starts it
while a trigger file is there, or reaches its trigger limit and fails, and each of
the updater's steps is cut off by a timeout. Both liveness properties except the
states in which it has failed (`GaveUp`), where a request or a journal may stay
and the portal may stay stopped until a reboot or an operator. The limit is
reached within the bounds: a request with a kill and two failed starts asks for a
fourth. So that the exception excuses nothing else, `GaveUp` also demands that
requests, faults and kills together exceed the limit: a run that failed nothing
needs one start. `QuotaReset` keeps the coarser record `update`; `Updater` has no
reset workflows.

`completion` assumes weak fairness of the runner, of each worker and of each
handler (Go schedules every runnable goroutine), of an answer to every call (the
15-second timeout is an answer) and of the restart (systemd, `Restart=on-failure`,
or the updater's own start).
Nothing is assumed of administrators, of Sub2API applying anything, of syncs or
of updates.

## 4. Proofs

`QuotaResetStoreProofs` proves, for every set of users, keys and jobs,

* `StoreSafety`: type correctness, counters equal to the items, no completed job
  with open items, one user per key;
* `StoreHistory`: no transaction rewrites the history.

The inductive invariant `StoreInv` adds that an unused job identifier has no
rows and that at most one job is active. The counting lemmas (`TallyType`,
`TallyZero`, `TallyAtCreation`) rest on the finiteness of the set of users,
`StoreConstants`.

`QuotaResetProofs` proves, for every number of workers, handlers, failures and
crashes, `TypeCorrect`, one theorem for each safety invariant of `workflow`
(`AtMostOnce`, `SuccessIsReal`, `BindingsWait`, `MutualExclusion`,
`BatchFindsKeysFree`, `QuietMaintenance`), `WorkersAreServed` and
`WorkflowImplementsStore`, through which the workflow inherits the theorems of
the store. None of the safety invariants is inductive alone.
`IInv` says who may be doing what: the runner owns the one active job
(`RunnerOwnsJob`); queued items are pending (`QueueIsPending`); each worker acts
for an item of its own (`WorkersAreBusy`); a handler past admission holds
`maintenanceMu` and no batch is active (`HandlersAreAlone`); a call holds the
read lock and the gate for the key that is bound (`CallsAreGuarded`); each key in
the gate has an owner (`GateHasOwners`); requests and effects are accounted for
(`RequestsAreAccounted`, `SuccessIsApplied`). `StepIsStoreStep` shows that each
step of the workflow is a step of the store or leaves it alone, so the ledger
invariant needs no second proof. There is then one lemma per action or group of
actions, and one step per conjunct. `CountersAreRight` and `HistoryIsKept` state
for the workflow what it inherits: counters agree with the items, and no step
rewrites what was reported.

`BatchPromiseProofs` proves `BatchesKeepThePromise`: for every number of workers
and whatever fails, each step of the workflow is a step of `BatchPromise` or
leaves what it speaks of alone. To `IInv` it adds `SentIsCounted`, that the item
of a worker whose request has left has been asked for exactly once. A created
batch, a request that leaves, an application and a recorded answer are each a step
of the promise, and so is the end of a batch in its three forms: finished with
nothing open, abandoned by the runner, or closed by the recovery, which report
every open item at once. Taking an item and marking it running are not seen. There
is one lemma for each.

`KeySyncProofs` proves, for every number of keys, connections, flights, failures
and restarts, `TypeCorrect`, `ConfirmedStays`, `RotationIsClean`,
`ConfirmationsMeetTheirRow`, `SyncsRepair` and the refinement
`PublishesWhatItPromises`. `SafetyInv` says what a list in memory is worth: no
flight is of a later generation than the counters; a flight of the present
connection generation reads from the present connection; a list of both present
generations is at least the confirmed version and at most the version upstream
(`FlightTrue`); rows, cache and confirmed answers lie between the same two
(`RowsAreTrue`, `CacheIsTrue`, `CallsAreTrue`). A confirmation and a rotation
keep it by making every list in memory one of an old generation.

`RepairInv` adds what `SyncsRepair` needs: at most one workflow, with no call
under way while it reconciles (`WorkflowShape`); every list of the present
generations contains what is owed (`ListsRepair`); the flight the group knows,
and the one a reconciliation waits for, read their generations after the last
confirmation (`CurrentIsFresh`, `WaitIsFresh`). That is why both the counter and
`Forget` are needed: with the counter alone the reconciliation would join a
flight whose list is bound to be dropped. `StepKinds`, `FlightEffect`,
`RowsEffect` and the other effect lemmas say once which actions can disturb a
part of the state, so each conjunct is followed through the few that do.

`AccountPoolProofs` proves, for every number of accounts, connections, flights
and requests, `TypeCorrect`, `RowsAreOfOneConnection` and `StatusIsTrue`, which
says that only the upsert of a listed account shows one at its limit as healthy.
`PoolInv` says of each row what the two properties need of it (`RowIsTrue`), of
each flight that it is of no later generation and, if it is of the present one,
that it asked the present connection (`FlightIsTrue`), and of each settings
request that it holds `settingsMu` and that what it read is still so (`PutPart`).
The last is why a request that saves the identity it has read changes nothing,
and the one conjunct that fails without `settingsMu`. One lemma per statement
that writes rows says that it leaves true rows; one per action does the rest.

`AccountsProofs` proves, for every number of accounts, sessions, requests and
any lifetimes, `SetupOnce`, `RevocationIsFinal` and `SessionsEnd`.
`AccountsInv` adds to the properties that tokens are handed out in order, that
every row, valid or not, carries the present era of its owner, that its
`absolute` and `age` add up to at most the absolute lifetime (`RowsAreTrue`),
that a name never taken is active, as the administrator made of it must be
(`UsersAreTrue`), and that a request under way is about some account
(`ClientsAreKnown`). The era has to be right for rows that are not valid too:
enabling an account would bring an old one back.

`TypeCorrect` and `GuessingIsBounded` are about the throttle too. `ThrottleInv`
counts, for each name, the failures in the window together with the requests that
have passed the throttle's check and have not recorded their result
(`Admitted`): a request passes only while fewer than `Limit` failures are there,
so the failures exceed `Limit - 1` by no more than those that were under way
(`WithinLimit`). The ages of a name are oldest first (`OldestFirst`), which is
why dropping the expired ones is dropping the head of the list, as `Without`
does. Nothing but the finiteness of the set of clients is assumed for it: it is
what bounds the overshoot.

`LockOrderProofs` proves, for every number of goroutines and flights,
`TypeCorrect` and `DeadlockFree`. `Rank` orders what can be waited for:
`maintenanceMu` and `settingsMu`, then `bindingMu` and the update manager's
mutex, then the flight a caller joins, its slot, `connectionMu` and
`keySnapshotMu`. `Held` computes from a course what is held before each of its
steps, and one lemma per course (`ResetInOrder` and its like) shows that every
step asks for more than what is held: that is the fact a change of a handler
would break. `LockInv` ties the state to the courses: whoever holds a mutex, or
has announced that it wants it, is at such a place. A goroutine waits for one
whose `Place` is higher: a writer that has announced itself counts as half a
rank above those who ask for the same mutex. In a finite range of places every
set has a highest, which waits for nobody in the set.

`UpdaterProofs` proves, for every set of operations, every number of versions and
rows, any trigger limit, and any number of faults, kills, reboots and stops, `TypeCorrect`,
`BinariesMatch`, `CopiesAreQuiescent`, `StatusIsCorrect`, `OldRowsAreKept`,
`NoPortalIsTooOld`, `DatabaseFits` and the refinement `UpdatesAreAtomic`.
`SafetyInv` is built around the journal, whose removal is the commit point. What
a journal says holds whoever left it behind (`JournalIsSound`): the binaries are
of the version it came from or of the one it goes to; a sealed one comes with
copies of both binaries; the cursor says which are back; one whose request is
gone has been undone. What a run in progress adds depends on where it is:
`ApplyingIsSound` before the journal is opened, `InstallingIsSound` while the
transaction goes forward, `UndoingIsSound` while it is undone, by the same run or
by a later one, and `EndingIsSound` when the outcome is about to be reported. A
kill leaves `JournalIsSound`, and the recovery starts from nothing else.

Three conjuncts are there for reasons that are easy to miss. `StatusOfRun`: the
status says `running` until the end is written, so that a run which dies can only
leave a status that promises nothing. `RequestIsNewer`: a pending
request asks for nothing older than what is installed, so an update that
`prepareUpdate` refuses did leave a portal older than its target, as the report
says.
`SchemaFits` and `CopyFits`: until the first reboot, no database is ahead of the
portal that will open it. So the defect `updater_reboot` shows needs a reboot: by
`DatabaseFits` no failing step and no kill leads to it.

For the refinement each action has a lemma on what `AtomicSwitch` sees of it:
`Commit`, the removal of the journal, is where the version switches, and the end
of a run is where it is reported; all others are stutters.

Every invariant, action property and refinement a passing run checks is now the
statement of a theorem. Only model-checked are the liveness properties, since
liveness under fairness and ENABLED are outside what the prover handles:
`JobsComplete` and `MaintenanceIsReleased` (`completion`), `Converges`
(`key_sync_convergence`), `InventoryConverges` and `UsageConverges` (`pool`),
`EveryRequestIsAnswered` and `ComesToRest` (`updater`). The violations are TLC's
counterexamples. All the proofs rest on the named assumptions about the constants
and on nothing else.

## 5. Findings

* `failed_but_applied`: `resetTerminalState` maps 5xx answers, dropped
  connections and undecodable bodies to `failed`, while the store's comments
  promise `unknown` for an unknown upstream outcome.
* `stale_binding`: a key bound from the cache while the upstream is offline is
  stamped as just fetched and loses its stale mark.
* `updater_reboot`: a reboot in the middle of a rollback lets the new portal
  migrate the database that was just put back; the resumed rollback does not put
  it back again and reports success.
* `lost_create`: a create request whose client goes away between the commit and
  the read-back leaves an active job without a runner until the next restart.

Noticed while modelling, without a run of their own:

* a journal can outlive its operation: its first write is reported as failed
  though the file is there (`apply.go:253-255`), or removing it fails after the
  status is final and the request consumed (`apply.go:166`, `360`). The path unit
  then starts a recovery that stops the portal (`apply.go:366-374`). Until that
  recovery reports itself `MaintenancePending` is false, so a reset or a batch can
  be admitted and is killed mid-call, although resets are refused "while the
  program is updated" (`quota_resets.go:84`). `QuotaReset` has these steps; what
  they may do to a batch is bounded by `OneRequestPerItem` and `ReportsAreBacked`;
* `ApplyPoolInventory` (`pool.go:48`, `56`) computes the status of a listed account
  without its utilization, so one that is at its limit is shown as healthy until
  the next usage sync (`StatusIsBacked` says that nothing else does that);
* with a trigger limit of three starts in five minutes, an update that fails, is
  killed and fails again leaves its request or journal, and possibly a stopped
  portal, until a reboot or an operator;
* a refused change of connection voids the fetch a reset waits for; `Sync`
  returns nil and the reset is reported as reconciled (which is why
  `ReconciliationRepairs` speaks of an unchanged connection generation);
* a login under way through a revocation, and a password change under way through
  a reset, as described under `Accounts`;
* the throttle's check and its record are separated by the password's hash, so
  logins served together overshoot its limit by at most one each (`ThrottleHolds`,
  which is about over-admission only);
* `loginFails` keeps an entry for every name and address that was ever tried;
* a batch item names its key by number only: if all users are unbound, the
  connection is changed and the same number is bound again to the same user while
  the batch runs, the new upstream's key is reset.

## 6. Not modelled, and the plan

Left to do, in this order:

1. Two more weaknesses of the updater, listed as hazards: a rollback that needs no
   restore leaves a sealed journal that a crash replays, and a journal whose
   removal cannot be synced leaves `rollback_failed` behind for ever.
2. The reset workflow composed with a change of the connection (the item that
   names its key by number). The product of the two models is beyond bounds that
   finish; it needs a coarser workflow.

Left out for good: release download and archive checks (sequential I/O in a
private directory; `Updater` has one step that may refuse for all of them), the
periodic check of releases (it stores what GitHub says), the Codex forecast (one
loop, one row, no other writer), announcements (single statements that the
database serialises), read-only views, routing and JSON, cryptographic primitives,
the web interface and the installers.

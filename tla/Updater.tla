------------------------------ MODULE Updater ------------------------------
(***************************************************************************)
(* cmd/sub2api-limit-updater and internal/releasecheck: an administrator   *)
(* asks for a release, the portal publishes update.request, a systemd path *)
(* unit starts the updater, and the updater replaces both binaries under a *)
(* journal, or puts the old ones and the database back.                    *)
(*                                                                         *)
(* The updater runs alone (its process lock, one oneshot unit).  Any step  *)
(* of it can fail, with or without its effect when it writes (a rename     *)
(* whose directory cannot be synced); it can be killed between two steps,  *)
(* and the machine can reboot, which starts the portal with whatever is    *)
(* installed.  The database stands for app.db with its -wal and -shm.      *)
(***************************************************************************)
EXTENDS Naturals, Sequences, FiniteSets

CONSTANTS
  Ops,         \* operation identifiers, used once each
  MaxVersion,  \* versions are 1..MaxVersion; 1 is installed first
  None,
  Burst,       \* TriggerLimitBurst of the path unit, per TriggerLimitInterval
  MaxWrites,   \* bound on the rows the portal writes
  MaxFaults,   \* bound on failed steps
  MaxKills,    \* bound on kills of the updater process
  MaxOutages   \* bound on reboots of the machine and on stops of the portal by
               \* an operator, together

Versions == 1..MaxVersion
Jobs == [op : Ops, target : Versions]

\* backupSources; restoreTransactionFiles takes them from the last.
Files == <<"portal", "updater", "db">>

Phases == {"checking", "verifying", "backing_up", "installing", "health_check",
           "recovering", "completed", "manual_required", "rolled_back",
           "rollback_failed"}

Journals == [job : Jobs, phase : {"prepared", "backed_up"}, old : Versions,
             wasActive : BOOLEAN, cursor : 0..Len(Files)]

Statuses == [op : Ops, target : Versions,
             state : {"running", "succeeded", "failed"}, phase : Phases]

Reports == [op : Ops, target : Versions,
            outcome : {"installed", "unchanged", "unknown"}]

ASSUME UpdaterConstants ==
  /\ MaxVersion \in Nat \ {0}
  /\ None \notin Ops \cup Versions
  /\ None \notin Jobs \cup Journals \cup Statuses \cup Reports
  /\ Burst \in Nat \ {0}
  /\ MaxWrites \in Nat /\ MaxFaults \in Nat /\ MaxKills \in Nat
  /\ MaxOutages \in Nat

VARIABLES
  files,    \* the installed portal, updater and database
  backup,   \* the copies in the backup directory of the transaction
  serving,  \* version of the portal process that runs, or None
  latest,   \* newest published release
  used,     \* operation identifiers already given out
  request,  \* update.request: a job, or None
  status,   \* status.json, or None
  journal,  \* transaction.json, or None
  run,      \* the updater process
  starts,   \* how often it was started in the path unit's present interval;
            \* one more than Burst once the path unit has failed
  faults, kills, reboots, stops  \* how much of each bound is used

boundVars == <<faults, kills, reboots, stops>>
worldVars == <<latest, used, starts>>
vars == <<files, backup, serving, latest, used, request, status, journal, run,
          starts, faults, kills, reboots, stops>>

\* Rows are counted by the version of the portal that wrote them.
Databases == [schema : Versions, rows : [Versions -> Nat]]
FileSets == [portal : Versions, updater : Versions, db : Databases]

Steps == {"off", "checking", "probing", "opening", "stopping", "saving",
          "installing portal", "installing updater", "restarting",
          "committing", "undo stop", "undo file", "undo mark", "undo start",
          "reporting", "consuming", "clearing"}

Runs == [pc : Steps, job : Jobs \cup {None}, version : Versions,
         wasActive : BOOLEAN, restore : BOOLEAN, ending : Phases]

Off == [pc |-> "off", job |-> None, version |-> 1, wasActive |-> FALSE,
        restore |-> FALSE, ending |-> "checking"]

TypeOK ==
  /\ files \in FileSets /\ backup \in FileSets
  /\ serving \in Versions \cup {None}
  /\ latest \in Versions /\ used \in SUBSET Ops
  /\ request \in Jobs \cup {None} /\ status \in Statuses \cup {None}
  /\ journal \in Journals \cup {None} /\ run \in Runs
  /\ starts \in 0..Burst + 1
  /\ faults \in 0..MaxFaults /\ kills \in 0..MaxKills
  /\ reboots \in 0..MaxOutages /\ stops \in 0..MaxOutages

FirstFiles ==
  [portal |-> 1, updater |-> 1,
   db |-> [schema |-> 1, rows |-> [v \in Versions |-> 0]]]

Init ==
  /\ files = FirstFiles /\ backup = FirstFiles
  /\ serving = 1 /\ latest = 1 /\ used = {}
  /\ request = None /\ status = None /\ journal = None /\ run = Off
  /\ starts = 0 /\ faults = 0 /\ kills = 0 /\ reboots = 0 /\ stops = 0

-----------------------------------------------------------------------------
(* The portal and the world around the updater.                            *)

Total(rows) == LET sum[v \in 0..MaxVersion] ==
                     IF v = 0 THEN 0 ELSE sum[v - 1] + rows[v]
               IN sum[MaxVersion]

\* The updates' path unit is active: Manager.canApply asks systemd for it.
PathUnitActive == starts <= Burst

\* OperationStatus.active
Active(s) == s # None /\ (s.state = "running" \/ s.phase = "rollback_failed")

\* Manager.Apply in the portal that runs; no request is there, so the
\* operation it looks at is the updater's last status.
Apply(op, v) ==
  /\ serving # None
  /\ op \notin used
  /\ v > serving /\ v <= latest
  /\ PathUnitActive
  /\ request = None /\ ~Active(status)
  /\ request' = [op |-> op, target |-> v]
  /\ used' = used \cup {op}
  /\ UNCHANGED <<files, backup, serving, latest, status, journal, run, starts,
                 boundVars>>

PublishRelease ==
  /\ latest < MaxVersion
  /\ latest' = latest + 1
  /\ UNCHANGED <<files, backup, serving, used, request, status, journal, run,
                 starts, boundVars>>

\* Users and the synchronisers write through the portal that runs.
WriteRow ==
  /\ serving # None
  /\ Total(files.db.rows) < MaxWrites
  /\ files' = [files EXCEPT !.db.rows[serving] = @ + 1]
  /\ UNCHANGED <<backup, serving, worldVars, request, status, journal, run,
                 boundVars>>

\* A portal opens the database and runs the migrations it embeds.
Migrated(fs) ==
  IF fs.db.schema < fs.portal THEN [fs EXCEPT !.db.schema = fs.portal] ELSE fs

\* systemctl start, which leaves a running portal alone.
StartPortal(fs) ==
  IF serving = None THEN /\ serving' = fs.portal /\ files' = Migrated(fs)
                    ELSE /\ UNCHANGED serving /\ files' = fs

OperatorStops ==
  /\ serving # None /\ stops + reboots < MaxOutages
  /\ serving' = None /\ stops' = stops + 1
  /\ UNCHANGED <<files, backup, worldVars, request, status, journal, run,
                 faults, kills, reboots>>

\* The updater process dies: its unit times out, or it is killed.
Kill ==
  /\ run.pc # "off" /\ kills < MaxKills
  /\ run' = Off /\ kills' = kills + 1
  /\ UNCHANGED <<files, backup, serving, worldVars, request, status, journal,
                 faults, reboots, stops>>

\* Everything stops; the enabled portal unit starts before the path unit,
\* which counts from none again.
Reboot ==
  /\ stops + reboots < MaxOutages
  /\ run' = Off /\ starts' = 0
  /\ serving' = files.portal /\ files' = Migrated(files)
  /\ reboots' = reboots + 1
  /\ UNCHANGED <<backup, latest, used, request, status, journal, faults, kills,
                 stops>>

\* A file the path unit waits for is there, and no updater runs.
TriggerIsThere == run.pc = "off" /\ (request # None \/ journal # None)

\* TriggerLimitBurst: one trigger too many in an interval, and the path unit
\* fails; only a reboot, or an operator, makes it watch again.
PathUnitFails ==
  /\ TriggerIsThere /\ starts = Burst
  /\ starts' = Burst + 1
  /\ UNCHANGED <<files, backup, serving, latest, used, request, status,
                 journal, run, boundVars>>

-----------------------------------------------------------------------------
(* The updater.                                                            *)

\* A step that succeeds counts nothing, one that fails counts a fault.
Works == UNCHANGED boundVars

Fails ==
  /\ faults < MaxFaults
  /\ faults' = faults + 1
  /\ UNCHANGED <<kills, reboots, stops>>

\* A write that fails may have replaced the file all the same.
Maybe(old, new) == {old, new}

Running(job, phase) ==
  [op |-> job.op, target |-> job.target, state |-> "running", phase |-> phase]

Finished(s) == s # None /\ s.state # "running"

GoTo(pc) == run' = [run EXCEPT !.pc = pc]

\* finishOperation and its variants, from the status they write on.
Finish(ending) == run' = [run EXCEPT !.pc = "reporting", !.ending = ending]

\* Where undoing goes on once the portal needs no stop.
AfterStop(r, cursor) ==
  IF r.restore /\ cursor < Len(Files) THEN [r EXCEPT !.pc = "undo file"]
  ELSE IF r.wasActive THEN [r EXCEPT !.pc = "undo start"]
  ELSE [r EXCEPT !.pc = "reporting", !.ending = "rolled_back"]

\* Mutant: rolling back never puts files back.
RollBackStartingOnly(changed) == run' = AfterStop(run, 0)

\* The closure `rollback` of applyTransaction.
RollBack(changed) ==
  run' = IF changed THEN [run EXCEPT !.pc = "undo stop", !.restore = TRUE]
                    ELSE AfterStop(run, 0)

\* Mutant: the path unit watches for the request only.
TriggeredByRequest ==
  run.pc = "off" /\ request # None /\ PathUnitActive

\* PathExists of the path unit: the updater starts while one is there.
Triggered == TriggerIsThere /\ PathUnitActive

\* The path unit starts the updater: once more in the present interval, or as
\* the first in a new one (TriggerLimitIntervalSec, five minutes).
Starts == Triggered /\ starts' \in {1, starts + 1} \ {Burst + 1}

\* recoverInterruptedTransaction, up to its first change.
Recover ==
  /\ Starts /\ journal # None
  /\ LET undoing == [pc |-> "undo stop", job |-> journal.job,
                     version |-> files.updater,
                     wasActive |-> journal.wasActive,
                     restore |-> journal.phase = "backed_up",
                     ending |-> "recovering"]
         started == Running(journal.job, "recovering")
     IN \/ /\ Works
           /\ status' = started
           /\ run' = IF undoing.restore \/ undoing.wasActive THEN undoing
                     ELSE AfterStop(undoing, 0)
        \/ /\ Fails
           /\ status' \in Maybe(status, started)
           /\ UNCHANGED run
  /\ UNCHANGED <<files, backup, serving, latest, used, request, journal>>

\* Mutant: any finished status counts.
ReportedSomething == Finished(status)

ReportedAlready == Finished(status) /\ status.op = request.op

ConsumeFinishedRequest ==
  /\ Starts /\ journal = None /\ ReportedAlready
  /\ UNCHANGED <<files, backup, serving, latest, used, status, journal, run>>
  /\ \/ Works /\ request' = None
     \/ Fails /\ request' \in Maybe(request, None)

BeginUpdateOperation ==
  /\ Starts /\ journal = None /\ ~ReportedAlready
  /\ \/ /\ Works
        /\ status' = Running(request, "checking")
        /\ run' = [Off EXCEPT !.pc = "checking", !.job = request,
                              !.version = files.updater]
     \/ /\ Fails
        /\ status' \in Maybe(status, Running(request, "checking"))
        /\ UNCHANGED run
  /\ UNCHANGED <<files, backup, serving, latest, used, request, journal>>

Idle == run.pc = "off" /\ request = None /\ journal = None

\* installedPortalMatchesRequest: an earlier run had committed already,
\* unless the installed portal does not say so when it is asked.
InstalledAlready ==
  /\ run.pc = "checking" /\ run.version = run.job.target
  /\ \/ Works /\ files.portal = run.job.target /\ Finish("completed")
     \/ Works /\ files.portal # run.job.target /\ Finish("verifying")
     \/ Fails /\ Finish("verifying")
  /\ UNCHANGED <<files, backup, serving, worldVars, request, status, journal>>

\* prepareUpdate and the checks of the candidates, when they end the run:
\* the release is not the latest any more, needs the installer, or a
\* download, a digest or a version command fails.
PrepareRefuses ==
  /\ run.pc = "checking" /\ run.version # run.job.target
  /\ \/ Works /\ latest # run.job.target /\ Finish("checking")
     \/ Works /\ latest = run.job.target /\ Finish("manual_required")
     \/ Fails /\ Finish("checking")
  /\ UNCHANGED <<files, backup, serving, worldVars, request, status, journal>>

PrepareUpdate ==
  /\ run.pc = "checking"
  /\ latest = run.job.target /\ run.version < run.job.target
  /\ files.portal = run.version
  /\ Works /\ GoTo("probing")
  /\ UNCHANGED <<files, backup, serving, worldVars, request, status, journal>>

\* applyTransaction, one action for each of its stages.
ProbeService ==
  /\ run.pc = "probing"
  /\ LET told == Running(run.job, "backing_up")
     IN \/ /\ Works
           /\ status' = told
           /\ run' = [run EXCEPT !.pc = "opening",
                                 !.wasActive = serving # None]
        \/ /\ Fails
           /\ status' \in Maybe(status, told)
           /\ Finish("backing_up")
  /\ UNCHANGED <<files, backup, serving, worldVars, request, journal>>

\* A journal that cannot be written ends the run without undoing anything.
OpenJournal ==
  /\ run.pc = "opening"
  /\ LET opened == [job |-> run.job, phase |-> "prepared", old |-> run.version,
                    wasActive |-> run.wasActive, cursor |-> 0]
     IN \/ /\ Works
           /\ journal' = opened
           /\ GoTo(IF run.wasActive THEN "stopping" ELSE "saving")
        \/ /\ Fails
           /\ journal' \in Maybe(journal, opened)
           /\ Finish("backing_up")
  /\ UNCHANGED <<files, backup, serving, worldVars, request, status>>

\* Mutant: a stop that fails is ignored.
StopForBackupRegardless ==
  /\ run.pc = "stopping"
  /\ \/ Works /\ serving' = None
     \/ Fails /\ serving' \in {serving, None}
  /\ GoTo("saving")
  /\ UNCHANGED <<files, backup, worldVars, request, status, journal>>

StopForBackup ==
  /\ run.pc = "stopping"
  /\ \/ Works /\ serving' = None /\ GoTo("saving")
     \/ Fails /\ serving' \in {serving, None} /\ RollBack(FALSE)
     \/ Fails /\ serving' = serving /\ Finish("rollback_failed")
  /\ UNCHANGED <<files, backup, worldVars, request, status, journal>>

\* saveFile for every source, and the journal that makes the copies count.
SaveFiles ==
  /\ run.pc = "saving"
  /\ LET sealed == [journal EXCEPT !.phase = "backed_up"]
     IN \/ /\ Works /\ GoTo("installing portal")
           /\ backup' = files /\ journal' = sealed
        \/ /\ Fails /\ RollBack(FALSE)
           /\ \/ UNCHANGED <<backup, journal>>
              \/ backup' = files /\ journal' = sealed
  /\ UNCHANGED <<files, serving, worldVars, request, status>>

InstallPortal ==
  /\ run.pc = "installing portal"
  /\ LET told == Running(run.job, "installing")
         placed == [files EXCEPT !.portal = run.job.target]
     IN \/ /\ Works /\ GoTo("installing updater")
           /\ status' = told /\ files' = placed
        \/ /\ Fails /\ RollBack(FALSE)
           /\ status' \in Maybe(status, told) /\ UNCHANGED files
        \/ /\ Fails /\ RollBack(TRUE)
           /\ status' = told /\ files' \in Maybe(files, placed)
  /\ UNCHANGED <<backup, serving, worldVars, request, journal>>

InstallUpdater ==
  /\ run.pc = "installing updater"
  /\ LET placed == [files EXCEPT !.updater = run.job.target]
     IN \/ /\ Works /\ files' = placed
           /\ GoTo(IF run.wasActive THEN "restarting" ELSE "committing")
        \/ /\ Fails /\ files' \in Maybe(files, placed)
           /\ RollBack(TRUE)
  /\ UNCHANGED <<backup, serving, worldVars, request, status, journal>>

\* systemctl start and waitForHealthy.
Restart ==
  /\ run.pc = "restarting"
  /\ LET told == Running(run.job, "health_check")
     IN \/ /\ Works /\ GoTo("committing")
           /\ files.portal = run.job.target
           /\ status' = told /\ StartPortal(files)
        \/ /\ Fails /\ RollBack(TRUE)
           /\ status' \in Maybe(status, told)
           /\ StartPortal(files) \/ UNCHANGED <<serving, files>>
  /\ UNCHANGED <<backup, worldVars, request, journal>>

\* Mutant: a journal that cannot be removed does not matter.
CommitRegardless ==
  /\ run.pc = "committing"
  /\ \/ Works /\ journal' = None
     \/ Fails /\ journal' \in Maybe(journal, None)
  /\ Finish("completed")
  /\ UNCHANGED <<files, backup, serving, worldVars, request, status>>

\* removeTransactionJournal: from here on the new version stays.
Commit ==
  /\ run.pc = "committing"
  /\ \/ Works /\ journal' = None /\ Finish("completed")
     \/ Fails /\ journal' \in Maybe(journal, None) /\ Finish("rollback_failed")
  /\ UNCHANGED <<files, backup, serving, worldVars, request, status>>

\* Mutant: didStop is not looked at.
UndoStopRegardless ==
  /\ run.pc = "undo stop"
  /\ \/ Works /\ serving' = None
     \/ Fails /\ serving' = serving
  /\ run' = AfterStop(run, journal.cursor)
  /\ UNCHANGED <<files, backup, worldVars, request, status, journal>>

\* Undoing, after a failed step or an interrupted run.
UndoStop ==
  /\ run.pc = "undo stop"
  /\ \/ Works /\ serving' = None /\ run' = AfterStop(run, journal.cursor)
     \/ Fails /\ serving' \in {serving, None} /\ Finish("rollback_failed")
  /\ UNCHANGED <<files, backup, worldVars, request, status, journal>>

\* Mutant: the database is not put back.
UndoFileKeepingDatabase ==
  /\ run.pc = "undo file"
  /\ LET name == Files[Len(Files) - journal.cursor]
     IN files' = IF name = "db" THEN files
                 ELSE [files EXCEPT ![name] = backup[name]]
  /\ Works /\ GoTo("undo mark")
  /\ UNCHANGED <<backup, serving, worldVars, request, status, journal>>

UndoFile ==
  /\ run.pc = "undo file"
  /\ LET name == Files[Len(Files) - journal.cursor]
         restored == [files EXCEPT ![name] = backup[name]]
     IN \/ Works /\ files' = restored /\ GoTo("undo mark")
        \/ Fails /\ files' \in Maybe(files, restored)
           /\ Finish("rollback_failed")
  /\ UNCHANGED <<backup, serving, worldVars, request, status, journal>>

\* Mutant: the cursor counts each file twice.
UndoMarkTwice ==
  /\ run.pc = "undo mark"
  /\ journal' = [journal EXCEPT !.cursor = @ + 2]
  /\ Works /\ run' = AfterStop(run, journal'.cursor)
  /\ UNCHANGED <<files, backup, serving, worldVars, request, status>>

UndoMark ==
  /\ run.pc = "undo mark"
  /\ LET marked == [journal EXCEPT !.cursor = @ + 1]
     IN \/ /\ Works /\ journal' = marked
           /\ run' = AfterStop(run, marked.cursor)
        \/ /\ Fails /\ journal' \in Maybe(journal, marked)
           /\ Finish("rollback_failed")
  /\ UNCHANGED <<files, backup, serving, worldVars, request, status>>

UndoStart ==
  /\ run.pc = "undo start"
  /\ \/ /\ Works /\ files.portal = journal.old
        /\ StartPortal(files) /\ Finish("rolled_back")
     \/ /\ Fails /\ Finish("rollback_failed")
        /\ StartPortal(files) \/ UNCHANGED <<serving, files>>
  /\ UNCHANGED <<backup, worldVars, request, status, journal>>

\* statusWriter.finish; a failed rollback leaves request and journal.
ReportEnd ==
  /\ run.pc = "reporting"
  /\ LET told == [op |-> run.job.op, target |-> run.job.target,
                  state |-> IF run.ending = "completed" THEN "succeeded"
                            ELSE "failed",
                  phase |-> run.ending]
     IN \/ /\ Works /\ status' = told
           /\ run' = IF run.ending = "rollback_failed" THEN Off
                     ELSE [run EXCEPT !.pc = "consuming"]
        \/ Fails /\ status' \in Maybe(status, told) /\ run' = Off
  /\ UNCHANGED <<files, backup, serving, worldVars, request, journal>>

\* Mutant: whatever request is there is consumed.
RequestLeftNever == None

\* consumeUpdateRequest, and consumeRequestForOperation after a rollback.
RequestLeft ==
  IF run.ending = "rolled_back" /\ request # None /\ request.op # run.job.op
  THEN request ELSE None

ConsumeRequest ==
  /\ run.pc = "consuming"
  /\ \/ /\ Works /\ request' = RequestLeft
        /\ run' = IF run.ending = "rolled_back"
                  THEN [run EXCEPT !.pc = "clearing"] ELSE Off
     \/ Fails /\ request' \in Maybe(request, RequestLeft) /\ run' = Off
  /\ UNCHANGED <<files, backup, serving, worldVars, status, journal>>

ClearJournal ==
  /\ run.pc = "clearing" /\ run' = Off
  /\ \/ Works /\ journal' = None
     \/ Fails /\ journal' \in Maybe(journal, None)
  /\ UNCHANGED <<files, backup, serving, worldVars, request, status>>

-----------------------------------------------------------------------------
UpdaterStep ==
  \/ Recover \/ ConsumeFinishedRequest \/ BeginUpdateOperation
  \/ InstalledAlready \/ PrepareRefuses \/ PrepareUpdate
  \/ ProbeService \/ OpenJournal \/ StopForBackup \/ SaveFiles
  \/ InstallPortal \/ InstallUpdater \/ Restart \/ Commit
  \/ UndoStop \/ UndoFile \/ UndoMark \/ UndoStart
  \/ ReportEnd \/ ConsumeRequest \/ ClearJournal

Next ==
  \/ \E op \in Ops, v \in Versions : Apply(op, v)
  \/ PublishRelease \/ WriteRow \/ OperatorStops \/ Kill \/ Reboot
  \/ PathUnitFails
  \/ UpdaterStep

Spec == Init /\ [][Next]_vars

\* The path unit starts the updater while a trigger file is there, or fails
\* over it, and a started updater goes on.
FairSpec == Spec /\ WF_vars(UpdaterStep \/ PathUnitFails)

-----------------------------------------------------------------------------
(* Properties.                                                             *)

\* Between transactions the two binaries are of one version: whatever
\* failed, was killed or rebooted, a journal remains until they are.
OneVersion == journal = None => files.portal = files.updater

\* Nobody serves while the files are copied, replaced or put back: the
\* copies are of a quiescent database (stopPortalService's didStop).
QuiescentCopy ==
  run.pc \in {"saving", "installing portal", "installing updater",
              "restarting", "undo file", "undo mark"} => serving = None

\* While the new portal is installed, the backup holds every row that the
\* old one ever wrote: undoing costs the rows of the new version only.
BackupHoldsOldRows ==
  (journal # None /\ files.portal # journal.old)
    => /\ journal.phase = "backed_up"
       /\ backup.db.rows[journal.old] = files.db.rows[journal.old]

\* The version in force: while the journal is there, the one that undoing
\* it brings back.
Installed == IF journal = None THEN files.portal ELSE journal.old

\* Two failures leave open which version is installed: a rollback that
\* failed, and an installed target that could not be verified afterwards.
Unsure(s) == s.phase \in {"rollback_failed", "verifying"}

\* The status of a finished operation says what is in force: its target
\* after a success, an older version after a rollback or a refusal, and a
\* later crash does not make it untrue (runApply's order of the status, the
\* request and the journal).
StatusIsTrue ==
  Finished(status) /\ ~Unsure(status)
    => IF status.state = "succeeded" THEN Installed = status.target
       ELSE Installed < status.target

\* As long as the machine is not rebooted, no portal runs on a database
\* that a newer one has migrated (restoreTransactionFiles puts back both).
NoDowngrade == reboots = 0 /\ serving # None => files.db.schema <= serving

\* What the rollback reports, "previous binaries and database were restored"
\* (apply.go:243): the old portal is not left with a newer database.
RolledBackMeansRestored ==
  (status # None /\ status.phase = "rolled_back")
    => files.db.schema <= files.portal

\* The updater implements the atomic switch; the journal is its commit
\* point: while it is there the old version is the one in force.
Outcome(s) ==
  IF ~Finished(s) THEN None
  ELSE [op |-> s.op, target |-> s.target,
        outcome |-> IF s.state = "succeeded" THEN "installed"
                    ELSE IF Unsure(s) THEN "unknown" ELSE "unchanged"]

Promise == INSTANCE AtomicSwitch WITH
  installed <- Installed,
  wanted <- request,
  report <- Outcome(status)

SwitchesAtomically == Promise!SwitchSpec

\* The path unit has failed, which takes more triggers in one interval than
\* its limit: each request is one, and each failed step or kill one more.
GaveUp == ~PathUnitActive /\ faults + kills + Cardinality(used) > Burst

\* Every request is answered: its operation gets a final status and the
\* request is taken away (runApply on every path, after faults and kills),
\* unless requests, faults and kills are too many for the path unit.
EveryRequestIsAnswered ==
  \A op \in Ops :
    (request # None /\ request.op = op)
      ~> \/ /\ Finished(status) /\ status.op = op
            /\ request = None \/ request.op # op
         \/ GaveUp

\* The updater comes to rest with no transaction open, and with the portal
\* running unless an operator stopped it; or the path unit has failed.
ComesToRest == <>[](GaveUp \/ (Idle /\ (stops = 0 => serving # None)))
=============================================================================

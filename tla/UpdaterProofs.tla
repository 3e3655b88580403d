--------------------------- MODULE UpdaterProofs ---------------------------
(***************************************************************************)
(* Theorems about Updater: what the journal, the copies, the status and    *)
(* the run are worth at every moment, whatever failed, was killed or       *)
(* rebooted before, and that an update is one atomic switch.  For each     *)
(* action there is a lemma on its effect and one that it keeps the         *)
(* invariant.                                                              *)
(***************************************************************************)
EXTENDS Updater, TLAPS

-----------------------------------------------------------------------------
(* The inductive invariant.                                                *)

Applying == {"checking", "probing", "opening"}
Installing == {"stopping", "saving", "installing portal",
               "installing updater", "restarting", "committing"}
Undoing == {"undo stop", "undo file", "undo mark", "undo start"}
Ending == {"reporting", "consuming", "clearing"}

\* Both binaries are those the transaction began with.
AllOld == files.portal = journal.old /\ files.updater = journal.old

\* loadRequest or the journal gave a run in progress its job.
RunHasJob == run.pc # "off" => run.job \in Jobs

\* What a journal is worth, whoever left it behind: the commit point of the
\* transaction is its removal, so until then it names the version the
\* binaries came from, a sealed one comes with copies of them, and the
\* cursor says which of them are back.  A journal whose request is gone has
\* been undone.
JournalIsSound ==
  journal # None =>
    /\ journal.old < journal.job.target
    /\ journal.phase = "prepared" => AllOld /\ journal.cursor = 0
    /\ files.portal \in {journal.old, journal.job.target}
    /\ journal.phase = "backed_up"
         => backup.portal = journal.old /\ backup.updater = journal.old
    /\ journal.cursor \in {2, 3} => files.updater = journal.old
    /\ journal.cursor = 3 => files.portal = journal.old
    /\ request # journal.job => AllOld

\* applyUpdate, before it opens the journal.
ApplyingIsSound ==
  run.pc \in Applying =>
    /\ journal = None /\ request = run.job
    /\ files.updater = run.version
    /\ run.pc # "checking" => run.version < run.job.target
    /\ (run.pc = "opening" /\ ~run.wasActive) => serving = None
    /\ ~run.restore

\* The transaction, step by step: which binary is in place, and what the
\* journal says of it.
InstallingIsSound ==
  run.pc \in Installing =>
    /\ journal # None /\ journal.job = run.job /\ request = run.job
    /\ journal.old = run.version /\ journal.cursor = 0
    /\ journal.phase = IF run.pc \in {"stopping", "saving"}
                       THEN "prepared" ELSE "backed_up"
    /\ files.portal =
         IF run.pc \in {"stopping", "saving", "installing portal"}
         THEN journal.old ELSE run.job.target
    /\ files.updater = IF run.pc \in {"restarting", "committing"}
                       THEN run.job.target ELSE journal.old
    /\ run.pc = "installing portal" => backup = files
    /\ ~run.restore

\* rollBack and recoverInterruptedUpdate: one restores only from a sealed
\* journal, starts a portal only when both binaries are back, and marks a file
\* only when it is.
UndoingIsSound ==
  run.pc \in Undoing =>
    /\ journal # None /\ journal.job = run.job
    /\ run.restore => journal.phase = "backed_up"
    /\ ~run.restore => AllOld
    /\ run.pc \in {"undo file", "undo mark"}
         => run.restore /\ journal.cursor < Len(Files)
    /\ run.pc = "undo mark"
         => /\ journal.cursor = 1 => files.updater = journal.old
            /\ journal.cursor = 2 => files.portal = journal.old
    /\ run.pc = "undo start" => AllOld

\* What the end of a run is about to report is so.
EndingIsSound ==
  run.pc \in Ending =>
    /\ run.ending \in {"completed", "rolled_back", "rollback_failed",
                       "checking", "manual_required", "verifying",
                       "backing_up"}
    /\ run.ending = "completed"
         => journal = None /\ files.portal = run.job.target
    /\ run.ending = "rolled_back"
         => journal # None /\ journal.job = run.job /\ AllOld
    /\ run.ending \in {"checking", "manual_required"}
         => journal = None /\ files.portal < run.job.target
    /\ run.ending = "verifying" => journal = None
    /\ run.ending = "backing_up"
         => /\ Installed < run.job.target
            /\ journal # None => journal.phase = "prepared"
    /\ run.ending \notin {"rolled_back", "rollback_failed"}
         => request = run.job
    /\ run.pc = "clearing" => run.ending = "rolled_back"
    /\ run.pc = "consuming" => run.ending # "rollback_failed"

\* The status says that the run goes on until its end is reported.
StatusOfRun ==
  /\ run.pc \notin {"off", "consuming", "clearing"}
       => status # None /\ status.state = "running"
  /\ run.pc \in {"consuming", "clearing"}
       => Finished(status) /\ status.op = run.job.op

\* A request asks for nothing older than what is in force: so an update that
\* prepareUpdate refuses did leave the portal older than its target.
RequestIsNewer == request # None => Installed <= request.target

\* A portal is stopped before its binary is replaced.
ServingIsInstalled == serving # None => serving = files.portal

\* Without a reboot, no installed portal finds a database that a newer one
\* migrated.  (A reboot in the middle of a transaction starts whatever is in
\* place, which may migrate a database that the recovery has put back.)
SchemaFits == reboots = 0 => files.db.schema <= files.portal

\* Nor does the portal that comes back with the copies, or with the database
\* once that is restored.
CopyFits ==
  (reboots = 0 /\ journal # None)
    => /\ journal.phase = "backed_up" => backup.db.schema <= journal.old
       /\ (journal.cursor # 0 \/ run.pc = "undo mark")
            => files.db.schema <= journal.old

SafetyInv ==
  /\ TypeOK /\ RunHasJob /\ OneVersion /\ JournalIsSound
  /\ ApplyingIsSound /\ InstallingIsSound /\ UndoingIsSound /\ EndingIsSound
  /\ StatusOfRun /\ StatusIsTrue /\ QuiescentCopy /\ ServingIsInstalled
  /\ BackupHoldsOldRows /\ SchemaFits /\ CopyFits /\ RequestIsNewer

-----------------------------------------------------------------------------
(* Constants, records and the effects of the updater's helpers.            *)

LEMMA FilesFacts ==
  /\ Len(Files) = 3
  /\ Files[1] = "portal" /\ Files[2] = "updater" /\ Files[3] = "db"
  BY DEF Files

LEMMA VersionsAreNat == Versions \subseteq Nat
  BY UpdaterConstants DEF Versions

LEMMA FileSetFields ==
  ASSUME NEW fs \in FileSets
  PROVE  /\ fs.portal \in Versions /\ fs.updater \in Versions
         /\ fs.db \in Databases /\ fs.db.schema \in Versions
  BY DEF FileSets, Databases

LEMMA OffFields == /\ Off \in Runs /\ Off.pc = "off" /\ Off.restore = FALSE
  BY UpdaterConstants DEF Off, Runs, Steps, Phases, Versions

LEMMA BoundsStay ==
  ASSUME TypeOK, Works \/ Fails
  PROVE  /\ faults' \in 0..MaxFaults /\ kills' \in 0..MaxKills
         /\ reboots' \in 0..MaxOutages /\ stops' \in 0..MaxOutages
         /\ reboots' = reboots
  BY UpdaterConstants DEF TypeOK, Works, Fails, boundVars

LEMMA StartsEffect ==
  ASSUME TypeOK, Starts
  PROVE  /\ run.pc = "off" /\ (request # None \/ journal # None)
         /\ starts' \in 0..Burst + 1
  BY UpdaterConstants
  DEF Starts, Triggered, TriggerIsThere, PathUnitActive, TypeOK

LEMMA GoToEffect ==
  ASSUME run \in Runs, NEW pc \in Steps, GoTo(pc)
  PROVE  /\ run' \in Runs /\ run'.pc = pc /\ run'.job = run.job
         /\ run'.version = run.version /\ run'.wasActive = run.wasActive
         /\ run'.restore = run.restore /\ run'.ending = run.ending
  BY DEF GoTo, Runs

LEMMA FinishEffect ==
  ASSUME run \in Runs, NEW ending \in Phases, Finish(ending)
  PROVE  /\ run' \in Runs /\ run'.pc = "reporting" /\ run'.job = run.job
         /\ run'.ending = ending
  BY DEF Finish, Runs, Steps

\* The run s goes on where the run r has stopped the portal.
GoesOn(r, s, cursor) ==
  /\ s \in Runs /\ s.job = r.job /\ s.restore = r.restore
  /\ \/ s.pc = "undo file" /\ r.restore /\ cursor < Len(Files)
     \/ s.pc = "undo start" /\ (r.restore => cursor = Len(Files))
     \/ /\ s.pc = "reporting" /\ s.ending = "rolled_back"
        /\ r.restore => cursor = Len(Files)

LEMMA AfterStopFields ==
  ASSUME NEW r \in Runs, NEW cursor \in 0..Len(Files)
  PROVE  GoesOn(r, AfterStop(r, cursor), cursor)
  <1>1. CASE r.restore /\ cursor < Len(Files)
    BY <1>1 DEF AfterStop, GoesOn, Runs, Steps
  <1>2. CASE ~(r.restore /\ cursor < Len(Files)) /\ r.wasActive
    <2>1. AfterStop(r, cursor) = [r EXCEPT !.pc = "undo start"]
      BY <1>2 DEF AfterStop
    <2>2. r.restore => cursor = Len(Files)
      BY <1>2, FilesFacts
    <2>. QED
      BY <2>1, <2>2 DEF GoesOn, Runs, Steps
  <1>3. CASE ~(r.restore /\ cursor < Len(Files)) /\ ~r.wasActive
    <2>1. AfterStop(r, cursor)
            = [r EXCEPT !.pc = "reporting", !.ending = "rolled_back"]
      BY <1>3 DEF AfterStop
    <2>2. r.restore => cursor = Len(Files)
      BY <1>3, FilesFacts
    <2>. QED
      BY <2>1, <2>2 DEF GoesOn, Runs, Steps, Phases
  <1>. QED
    BY <1>1, <1>2, <1>3

LEMMA AfterStopEffect ==
  ASSUME run \in Runs, NEW cursor \in 0..Len(Files),
         run' = AfterStop(run, cursor)
  PROVE  /\ run' \in Runs /\ run'.job = run.job /\ run'.restore = run.restore
         /\ \/ run'.pc = "undo file" /\ run.restore /\ cursor < Len(Files)
            \/ /\ \/ run'.pc = "undo start"
                  \/ run'.pc = "reporting" /\ run'.ending = "rolled_back"
               /\ run.restore => cursor = Len(Files)
  <1>1. GoesOn(run, AfterStop(run, cursor), cursor)
    BY AfterStopFields
  <1>. QED
    BY <1>1 DEF GoesOn

LEMMA MigratedFields ==
  ASSUME NEW fs \in FileSets
  PROVE  LET m == Migrated(fs) IN
         /\ m \in FileSets /\ m.portal = fs.portal /\ m.updater = fs.updater
         /\ m.db.rows = fs.db.rows
         /\ m.db.schema = IF fs.db.schema < fs.portal THEN fs.portal
                          ELSE fs.db.schema
  BY UpdaterConstants DEF Migrated, FileSets, Databases, Versions

LEMMA StartEffect ==
  ASSUME TypeOK, ServingIsInstalled, StartPortal(files)
  PROVE  /\ files' \in FileSets /\ serving' = files.portal
         /\ files'.portal = files.portal /\ files'.updater = files.updater
         /\ files'.db.rows = files.db.rows
         /\ \/ files'.db.schema = files.db.schema
            \/ /\ files.db.schema < files.portal
               /\ files'.db.schema = files.portal
         /\ files'.portal \in Versions
  BY MigratedFields DEF StartPortal, TypeOK, ServingIsInstalled, FileSets

-----------------------------------------------------------------------------
(* The portal and the world around the updater.                            *)

LEMMA FrameKeeps ==
  ASSUME SafetyInv, TypeOK',
         UNCHANGED <<files, backup, serving, request, status, journal, run,
                     reboots>>
  PROVE  SafetyInv'
  <1>2. RunHasJob'
    BY DEF SafetyInv, RunHasJob
  <1>3. OneVersion'
    BY DEF SafetyInv, OneVersion
  <1>4. JournalIsSound'
    BY DEF SafetyInv, JournalIsSound, AllOld
  <1>5. ApplyingIsSound'
    BY DEF SafetyInv, ApplyingIsSound, Applying
  <1>6. InstallingIsSound'
    BY DEF SafetyInv, InstallingIsSound, Installing
  <1>7. UndoingIsSound'
    BY DEF SafetyInv, UndoingIsSound, Undoing, AllOld
  <1>8. EndingIsSound'
    BY DEF SafetyInv, EndingIsSound, Ending, Installed, AllOld
  <1>9. StatusOfRun'
    BY DEF SafetyInv, StatusOfRun, Finished
  <1>10. StatusIsTrue'
    BY DEF SafetyInv, StatusIsTrue, Installed, Finished, Unsure
  <1>11. QuiescentCopy'
    BY DEF SafetyInv, QuiescentCopy
  <1>12. ServingIsInstalled'
    BY DEF SafetyInv, ServingIsInstalled
  <1>13. BackupHoldsOldRows'
    BY DEF SafetyInv, BackupHoldsOldRows
  <1>14. SchemaFits'
    BY DEF SafetyInv, SchemaFits
  <1>15. CopyFits'
    BY DEF SafetyInv, CopyFits
  <1>16. RequestIsNewer'
    BY DEF SafetyInv, RequestIsNewer, Installed
  <1>. QED
    BY <1>2, <1>3, <1>4, <1>5, <1>6, <1>7, <1>8, <1>9, <1>10, <1>11, <1>12,
       <1>13, <1>14, <1>15, <1>16
    DEF SafetyInv

LEMMA StutterKeeps ==
  ASSUME SafetyInv, UNCHANGED vars
  PROVE  SafetyInv'
  <1>1. TypeOK'
    BY DEF SafetyInv, TypeOK, vars
  <1>. QED
    BY <1>1, FrameKeeps DEF vars

LEMMA PublishReleaseKeeps ==
  ASSUME SafetyInv, PublishRelease
  PROVE  SafetyInv'
  <1>1. TypeOK'
    BY UpdaterConstants
    DEF SafetyInv, TypeOK, PublishRelease, boundVars, Versions
  <1>. QED
    BY <1>1, FrameKeeps DEF PublishRelease, boundVars

LEMMA PathUnitFailsKeeps ==
  ASSUME SafetyInv, PathUnitFails
  PROVE  SafetyInv'
  <1>1. TypeOK'
    BY UpdaterConstants DEF SafetyInv, TypeOK, PathUnitFails, boundVars
  <1>. QED
    BY <1>1, FrameKeeps DEF PathUnitFails, boundVars

LEMMA ApplyEffect ==
  ASSUME TypeOK, NEW op \in Ops, NEW v \in Versions, Apply(op, v)
  PROVE  /\ UNCHANGED <<files, backup, serving, latest, starts, status, journal,
                        run,
                        faults, kills, reboots, stops>>
         /\ request = None /\ request' \in Jobs /\ request' # None
         /\ request' = [op |-> op, target |-> v]
         /\ request'.op = op /\ request'.target = v
         /\ used' \in SUBSET Ops /\ serving # None /\ serving < v
         /\ journal # None => journal.job # None
  <1>1. /\ UNCHANGED <<files, backup, serving, latest, starts, status, journal,
                        run,
                       faults, kills, reboots, stops>>
        /\ request = None /\ request' = [op |-> op, target |-> v]
        /\ used' = used \cup {op} /\ serving # None /\ v > serving
    BY DEF Apply, boundVars
  <1>2. request' \in Jobs /\ request'.op = op /\ request'.target = v
    BY <1>1 DEF Jobs
  <1>3. request' # None /\ (journal # None => journal.job # None)
    BY <1>2, UpdaterConstants DEF TypeOK, Journals
  <1>4. serving < v
    BY <1>1, UpdaterConstants DEF TypeOK, Versions
  <1>5. used' \in SUBSET Ops
    BY <1>1 DEF TypeOK
  <1>. QED
    BY <1>1, <1>2, <1>3, <1>4, <1>5

LEMMA ApplyKeeps ==
  ASSUME SafetyInv, NEW op \in Ops, NEW v \in Versions, Apply(op, v)
  PROVE  SafetyInv'
  <1>0. TypeOK /\ (run.pc # "off" => run.job # None)
    BY UpdaterConstants DEF SafetyInv, RunHasJob
  <1>1. TypeOK'
    BY <1>0, ApplyEffect DEF SafetyInv, TypeOK
  <1>2. RunHasJob'
    BY <1>0, ApplyEffect DEF SafetyInv, RunHasJob
  <1>3. OneVersion'
    BY <1>0, ApplyEffect DEF SafetyInv, OneVersion
  <1>4. JournalIsSound'
    BY <1>0, ApplyEffect DEF SafetyInv, JournalIsSound, AllOld
  <1>5. ApplyingIsSound'
    BY <1>0, ApplyEffect DEF SafetyInv, ApplyingIsSound, Applying, RunHasJob
  <1>6. InstallingIsSound'
    BY <1>0, ApplyEffect
    DEF SafetyInv, InstallingIsSound, Installing, RunHasJob
  <1>7. UndoingIsSound'
    BY <1>0, ApplyEffect DEF SafetyInv, UndoingIsSound, Undoing, AllOld
  <1>8. EndingIsSound'
    BY <1>0, ApplyEffect
    DEF SafetyInv, EndingIsSound, Ending, Installed, AllOld, RunHasJob
  <1>9. StatusOfRun'
    BY <1>0, ApplyEffect DEF SafetyInv, StatusOfRun, Finished
  <1>10. StatusIsTrue'
    BY <1>0, ApplyEffect
    DEF SafetyInv, StatusIsTrue, Installed, Finished, Unsure
  <1>11. QuiescentCopy'
    BY <1>0, ApplyEffect DEF SafetyInv, QuiescentCopy
  <1>12. ServingIsInstalled'
    BY <1>0, ApplyEffect DEF SafetyInv, ServingIsInstalled
  <1>13. BackupHoldsOldRows'
    BY <1>0, ApplyEffect DEF SafetyInv, BackupHoldsOldRows
  <1>14. SchemaFits'
    BY <1>0, ApplyEffect DEF SafetyInv, SchemaFits
  <1>15. CopyFits'
    BY <1>0, ApplyEffect DEF SafetyInv, CopyFits
  <1>16. RequestIsNewer'
    <2>1. serving = files.portal /\ UNCHANGED Installed
      BY <1>0, ApplyEffect DEF SafetyInv, ServingIsInstalled, Installed
    <2>2. Installed = files.portal
      BY <1>0, ApplyEffect DEF SafetyInv, JournalIsSound, AllOld, Installed
    <2>3. files.portal \in Nat /\ v \in Nat
      BY <1>0, FileSetFields, VersionsAreNat DEF TypeOK
    <2>. QED
      BY <1>0, <2>1, <2>2, <2>3, ApplyEffect DEF RequestIsNewer
  <1>. QED
    BY <1>1, <1>2, <1>3, <1>4, <1>5, <1>6, <1>7, <1>8, <1>9, <1>10, <1>11,
       <1>12, <1>13, <1>14, <1>15, <1>16
    DEF SafetyInv

LEMMA WriteRowEffect ==
  ASSUME TypeOK, WriteRow
  PROVE  /\ files' \in FileSets
         /\ files'.portal = files.portal /\ files'.updater = files.updater
         /\ files'.db.schema = files.db.schema
         /\ \A v \in Versions \ {serving} :
              files'.db.rows[v] = files.db.rows[v]
         /\ UNCHANGED <<backup, serving, latest, used, starts, request, status,
                        journal, run, faults, kills, reboots, stops>>
         /\ serving # None
  BY DEF WriteRow, TypeOK, FileSets, Databases, worldVars, boundVars

LEMMA WriteRowKeeps ==
  ASSUME SafetyInv, WriteRow
  PROVE  SafetyInv'
  <1>1. TypeOK'
    BY WriteRowEffect DEF SafetyInv, TypeOK, WriteRow, boundVars, worldVars
  <1>2. RunHasJob'
    BY WriteRowEffect DEF SafetyInv, RunHasJob
  <1>3. OneVersion'
    BY WriteRowEffect DEF SafetyInv, OneVersion
  <1>4. JournalIsSound'
    BY WriteRowEffect DEF SafetyInv, JournalIsSound, AllOld
  <1>5. ApplyingIsSound'
    BY WriteRowEffect DEF SafetyInv, ApplyingIsSound, Applying
  <1>6. InstallingIsSound'
    BY WriteRowEffect
    DEF SafetyInv, InstallingIsSound, Installing, QuiescentCopy
  <1>7. UndoingIsSound'
    BY WriteRowEffect DEF SafetyInv, UndoingIsSound, Undoing, AllOld
  <1>8. EndingIsSound'
    BY WriteRowEffect DEF SafetyInv, EndingIsSound, Ending, Installed, AllOld
  <1>9. StatusOfRun'
    BY WriteRowEffect DEF SafetyInv, StatusOfRun, Finished
  <1>10. StatusIsTrue'
    BY WriteRowEffect DEF SafetyInv, StatusIsTrue, Installed, Finished, Unsure
  <1>11. QuiescentCopy'
    BY WriteRowEffect DEF SafetyInv, QuiescentCopy
  <1>12. ServingIsInstalled'
    BY WriteRowEffect DEF SafetyInv, ServingIsInstalled
  <1>13. BackupHoldsOldRows'
    BY WriteRowEffect
    DEF SafetyInv, BackupHoldsOldRows, ServingIsInstalled, TypeOK, Journals,
        FileSets
  <1>14. SchemaFits'
    BY WriteRowEffect DEF SafetyInv, SchemaFits
  <1>15. CopyFits'
    BY WriteRowEffect DEF SafetyInv, CopyFits
  <1>16. RequestIsNewer'
    BY WriteRowEffect DEF SafetyInv, RequestIsNewer, Installed
  <1>. QED
    BY <1>1, <1>2, <1>3, <1>4, <1>5, <1>6, <1>7, <1>8, <1>9, <1>10, <1>11,
       <1>12, <1>13, <1>14, <1>15, <1>16
    DEF SafetyInv

LEMMA OperatorStopsEffect ==
  ASSUME TypeOK, OperatorStops
  PROVE  /\ UNCHANGED <<files, backup, latest, used, starts, request, status,
                        journal,
                        run, faults, kills, reboots>>
         /\ serving' = None /\ stops' \in 0..MaxOutages
  BY UpdaterConstants DEF OperatorStops, TypeOK, worldVars

LEMMA OperatorStopsKeeps ==
  ASSUME SafetyInv, OperatorStops
  PROVE  SafetyInv'
  <1>1. TypeOK'
    BY OperatorStopsEffect DEF SafetyInv, TypeOK
  <1>2. RunHasJob'
    BY OperatorStopsEffect DEF SafetyInv, RunHasJob
  <1>3. OneVersion'
    BY OperatorStopsEffect DEF SafetyInv, OneVersion
  <1>4. JournalIsSound'
    BY OperatorStopsEffect DEF SafetyInv, JournalIsSound, AllOld
  <1>5. ApplyingIsSound'
    BY OperatorStopsEffect DEF SafetyInv, ApplyingIsSound, Applying
  <1>6. InstallingIsSound'
    BY OperatorStopsEffect DEF SafetyInv, InstallingIsSound, Installing
  <1>7. UndoingIsSound'
    BY OperatorStopsEffect DEF SafetyInv, UndoingIsSound, Undoing, AllOld
  <1>8. EndingIsSound'
    BY OperatorStopsEffect
    DEF SafetyInv, EndingIsSound, Ending, Installed, AllOld
  <1>9. StatusOfRun'
    BY OperatorStopsEffect DEF SafetyInv, StatusOfRun, Finished
  <1>10. StatusIsTrue'
    BY OperatorStopsEffect
    DEF SafetyInv, StatusIsTrue, Installed, Finished, Unsure
  <1>11. QuiescentCopy'
    BY OperatorStopsEffect DEF SafetyInv, QuiescentCopy
  <1>12. ServingIsInstalled'
    BY OperatorStopsEffect DEF SafetyInv, ServingIsInstalled
  <1>13. BackupHoldsOldRows'
    BY OperatorStopsEffect DEF SafetyInv, BackupHoldsOldRows
  <1>14. SchemaFits'
    BY OperatorStopsEffect DEF SafetyInv, SchemaFits
  <1>15. CopyFits'
    BY OperatorStopsEffect DEF SafetyInv, CopyFits
  <1>16. RequestIsNewer'
    BY OperatorStopsEffect DEF SafetyInv, RequestIsNewer, Installed
  <1>. QED
    BY <1>1, <1>2, <1>3, <1>4, <1>5, <1>6, <1>7, <1>8, <1>9, <1>10, <1>11,
       <1>12, <1>13, <1>14, <1>15, <1>16
    DEF SafetyInv

LEMMA KillEffect ==
  ASSUME TypeOK, Kill
  PROVE  /\ UNCHANGED <<files, backup, serving, latest, used, starts, request,
                        status,
                        journal, faults, reboots, stops>>
         /\ run' \in Runs /\ run'.pc = "off" /\ kills' \in 0..MaxKills
  BY UpdaterConstants, OffFields DEF Kill, TypeOK, worldVars

LEMMA KillKeeps ==
  ASSUME SafetyInv, Kill
  PROVE  SafetyInv'
  <1>1. TypeOK'
    BY KillEffect DEF SafetyInv, TypeOK
  <1>2. RunHasJob'
    BY KillEffect DEF SafetyInv, RunHasJob
  <1>3. OneVersion'
    BY KillEffect DEF SafetyInv, OneVersion
  <1>4. JournalIsSound'
    BY KillEffect DEF SafetyInv, JournalIsSound, AllOld
  <1>5. ApplyingIsSound'
    BY KillEffect DEF SafetyInv, ApplyingIsSound, Applying
  <1>6. InstallingIsSound'
    BY KillEffect DEF SafetyInv, InstallingIsSound, Installing
  <1>7. UndoingIsSound'
    BY KillEffect DEF SafetyInv, UndoingIsSound, Undoing, AllOld
  <1>8. EndingIsSound'
    BY KillEffect DEF SafetyInv, EndingIsSound, Ending, Installed, AllOld
  <1>9. StatusOfRun'
    BY KillEffect DEF SafetyInv, StatusOfRun, Finished
  <1>10. StatusIsTrue'
    BY KillEffect DEF SafetyInv, StatusIsTrue, Installed, Finished, Unsure
  <1>11. QuiescentCopy'
    BY KillEffect DEF SafetyInv, QuiescentCopy
  <1>12. ServingIsInstalled'
    BY KillEffect DEF SafetyInv, ServingIsInstalled
  <1>13. BackupHoldsOldRows'
    BY KillEffect DEF SafetyInv, BackupHoldsOldRows
  <1>14. SchemaFits'
    BY KillEffect DEF SafetyInv, SchemaFits
  <1>15. CopyFits'
    BY KillEffect DEF SafetyInv, CopyFits
  <1>16. RequestIsNewer'
    BY KillEffect DEF SafetyInv, RequestIsNewer, Installed
  <1>. QED
    BY <1>1, <1>2, <1>3, <1>4, <1>5, <1>6, <1>7, <1>8, <1>9, <1>10, <1>11,
       <1>12, <1>13, <1>14, <1>15, <1>16
    DEF SafetyInv

LEMMA RebootEffect ==
  ASSUME TypeOK, Reboot
  PROVE  /\ files' \in FileSets /\ serving' = files.portal
         /\ files'.portal = files.portal /\ files'.updater = files.updater
         /\ files'.db.rows = files.db.rows
         /\ files'.portal \in Versions
         /\ run' = Off /\ starts' = 0
         /\ UNCHANGED <<backup, latest, used, request, status, journal,
                        faults, kills,
                        stops>>
         /\ reboots' # 0 /\ reboots' \in 0..MaxOutages
  BY UpdaterConstants, MigratedFields DEF Reboot, TypeOK, FileSets, worldVars

LEMMA RebootKeeps ==
  ASSUME SafetyInv, Reboot
  PROVE  SafetyInv'
  <1>1. TypeOK'
    BY RebootEffect, OffFields, UpdaterConstants DEF SafetyInv, TypeOK
  <1>2. RunHasJob'
    BY RebootEffect, OffFields DEF SafetyInv, RunHasJob
  <1>3. OneVersion'
    BY RebootEffect, OffFields DEF SafetyInv, OneVersion
  <1>4. JournalIsSound'
    BY RebootEffect, OffFields DEF SafetyInv, JournalIsSound, AllOld
  <1>5. ApplyingIsSound'
    BY RebootEffect, OffFields DEF SafetyInv, ApplyingIsSound, Applying
  <1>6. InstallingIsSound'
    BY RebootEffect, OffFields DEF SafetyInv, InstallingIsSound, Installing
  <1>7. UndoingIsSound'
    BY RebootEffect, OffFields DEF SafetyInv, UndoingIsSound, Undoing, AllOld
  <1>8. EndingIsSound'
    BY RebootEffect, OffFields
    DEF SafetyInv, EndingIsSound, Ending, Installed, AllOld
  <1>9. StatusOfRun'
    BY RebootEffect, OffFields DEF SafetyInv, StatusOfRun, Finished
  <1>10. StatusIsTrue'
    BY RebootEffect, OffFields
    DEF SafetyInv, StatusIsTrue, Installed, Finished, Unsure
  <1>11. QuiescentCopy'
    BY RebootEffect, OffFields DEF SafetyInv, QuiescentCopy
  <1>12. ServingIsInstalled'
    BY RebootEffect, OffFields DEF SafetyInv, ServingIsInstalled
  <1>13. BackupHoldsOldRows'
    BY RebootEffect, OffFields DEF SafetyInv, BackupHoldsOldRows
  <1>14. SchemaFits'
    BY RebootEffect, OffFields DEF SafetyInv, SchemaFits
  <1>15. CopyFits'
    BY RebootEffect, OffFields DEF SafetyInv, CopyFits
  <1>16. RequestIsNewer'
    BY RebootEffect, OffFields DEF SafetyInv, RequestIsNewer, Installed
  <1>. QED
    BY <1>1, <1>2, <1>3, <1>4, <1>5, <1>6, <1>7, <1>8, <1>9, <1>10, <1>11,
       <1>12, <1>13, <1>14, <1>15, <1>16
    DEF SafetyInv

-----------------------------------------------------------------------------
(* The updater, up to the journal.                                         *)

LEMMA RunningFields ==
  ASSUME NEW job \in Jobs, NEW phase \in Phases
  PROVE  LET s == Running(job, phase) IN
         /\ s \in Statuses /\ s # None
         /\ s.op = job.op /\ s.target = job.target
         /\ s.state = "running" /\ s.phase = phase
  BY UpdaterConstants DEF Running, Statuses, Jobs

LEMMA RecoverEffect ==
  ASSUME TypeOK, Recover
  PROVE  /\ starts' \in 0..Burst + 1
         /\ run.pc = "off" /\ journal # None
         /\ UNCHANGED <<files, backup, serving, latest, used, request,
                        journal>>
         /\ Works \/ Fails
         /\ \/ /\ run' = run
               /\ \/ status' = status
                  \/ status' \in Statuses /\ status'.state = "running"
            \/ /\ status' \in Statuses /\ status' # None
               /\ status'.state = "running"
               /\ run' \in Runs /\ run'.job = journal.job
               /\ run'.restore => journal.phase = "backed_up"
               /\ ~run'.restore => journal.phase = "prepared"
               /\ \/ run'.pc = "undo stop"
                  \/ ~run'.restore /\ run'.pc = "undo start"
                  \/ /\ ~run'.restore /\ run'.pc = "reporting"
                     /\ run'.ending = "rolled_back"
  <1>1. journal \in Journals /\ journal.job \in Jobs /\ run.pc = "off"
    BY StartsEffect DEF Recover, TypeOK, Journals
  <1>2. LET s == Running(journal.job, "recovering") IN
        s \in Statuses /\ s # None /\ s.state = "running"
    BY <1>1, RunningFields DEF Phases
  <1> DEFINE r == [pc |-> "undo stop", job |-> journal.job,
                   version |-> files.updater,
                   wasActive |-> journal.wasActive,
                   restore |-> journal.phase = "backed_up",
                   ending |-> "recovering"]
  <1>3. /\ r \in Runs /\ r.pc = "undo stop" /\ r.job = journal.job
        /\ r.restore => journal.phase = "backed_up"
        /\ ~r.restore => journal.phase = "prepared"
    BY <1>1 DEF Runs, Steps, Phases, TypeOK, FileSets, Journals
  <1>4. /\ AfterStop(r, 0) \in Runs /\ AfterStop(r, 0).job = r.job
        /\ AfterStop(r, 0).restore = r.restore
        /\ ~r.restore
             => \/ AfterStop(r, 0).pc = "undo start"
                \/ /\ AfterStop(r, 0).pc = "reporting"
                   /\ AfterStop(r, 0).ending = "rolled_back"
    <2> HIDE DEF r
    <2>. QED
      <3>1. 0 \in 0..Len(Files)
        BY FilesFacts
      <3>2. GoesOn(r, AfterStop(r, 0), 0)
        BY <1>3, <3>1, AfterStopFields
      <3>. QED
        BY <3>2 DEF GoesOn
  <1>5. /\ UNCHANGED <<files, backup, serving, latest, used, request,
                       journal>>
        /\ journal # None
        /\ \/ /\ Works /\ status' = Running(journal.job, "recovering")
              /\ run' = IF r.restore \/ r.wasActive THEN r
                        ELSE AfterStop(r, 0)
           \/ /\ Fails /\ run' = run
              /\ status' = status
                 \/ status' = Running(journal.job, "recovering")
    BY DEF Recover, Maybe, worldVars
  <1>6. starts' \in 0..Burst + 1
    BY StartsEffect DEF Recover
  <1> HIDE DEF r
  <1>. QED
    BY <1>1, <1>2, <1>3, <1>4, <1>5, <1>6

LEMMA RecoverKeeps ==
  ASSUME SafetyInv, Recover
  PROVE  SafetyInv'
  <1>1. TypeOK'
    BY RecoverEffect, BoundsStay DEF SafetyInv, TypeOK
  <1>2. RunHasJob'
    BY RecoverEffect DEF SafetyInv, RunHasJob, TypeOK, Journals
  <1>3. OneVersion'
    BY RecoverEffect DEF SafetyInv, OneVersion
  <1>4. JournalIsSound'
    BY RecoverEffect DEF SafetyInv, JournalIsSound, AllOld
  <1>5. ApplyingIsSound'
    BY RecoverEffect DEF SafetyInv, ApplyingIsSound, Applying
  <1>6. InstallingIsSound'
    BY RecoverEffect DEF SafetyInv, InstallingIsSound, Installing
  <1>7. UndoingIsSound'
    BY RecoverEffect
    DEF SafetyInv, UndoingIsSound, Undoing, AllOld, JournalIsSound, TypeOK,
        Journals
  <1>8. EndingIsSound'
    BY RecoverEffect
    DEF SafetyInv, EndingIsSound, Ending, Installed, AllOld, JournalIsSound
  <1>9. StatusOfRun'
    BY RecoverEffect DEF SafetyInv, StatusOfRun, Finished
  <1>10. StatusIsTrue'
    BY RecoverEffect DEF SafetyInv, StatusIsTrue, Installed, Finished, Unsure
  <1>11. QuiescentCopy'
    BY RecoverEffect DEF SafetyInv, QuiescentCopy
  <1>12. ServingIsInstalled'
    BY RecoverEffect DEF SafetyInv, ServingIsInstalled
  <1>13. BackupHoldsOldRows'
    BY RecoverEffect DEF SafetyInv, BackupHoldsOldRows
  <1>14. SchemaFits'
    BY RecoverEffect, BoundsStay DEF SafetyInv, SchemaFits
  <1>15. CopyFits'
    BY RecoverEffect, BoundsStay DEF SafetyInv, CopyFits
  <1>16. RequestIsNewer'
    BY RecoverEffect DEF SafetyInv, RequestIsNewer, Installed
  <1>. QED
    BY <1>1, <1>2, <1>3, <1>4, <1>5, <1>6, <1>7, <1>8, <1>9, <1>10, <1>11,
       <1>12, <1>13, <1>14, <1>15, <1>16
    DEF SafetyInv

LEMMA ConsumeFinishedRequestEffect ==
  ASSUME SafetyInv, ConsumeFinishedRequest
  PROVE  /\ starts' \in 0..Burst + 1
         /\ UNCHANGED <<files, backup, serving, latest, used, status, journal,
                        run>>
         /\ journal = None /\ run.pc = "off"
         /\ request' \in {request, None} /\ (Works \/ Fails)
  BY StartsEffect DEF SafetyInv, ConsumeFinishedRequest, Maybe

LEMMA ConsumeFinishedRequestKeeps ==
  ASSUME SafetyInv, ConsumeFinishedRequest
  PROVE  SafetyInv'
  <1>1. TypeOK'
    BY ConsumeFinishedRequestEffect, BoundsStay DEF SafetyInv, TypeOK
  <1>2. RunHasJob'
    BY ConsumeFinishedRequestEffect DEF SafetyInv, RunHasJob
  <1>3. OneVersion'
    BY ConsumeFinishedRequestEffect DEF SafetyInv, OneVersion
  <1>4. JournalIsSound'
    BY ConsumeFinishedRequestEffect DEF SafetyInv, JournalIsSound, AllOld
  <1>5. ApplyingIsSound'
    BY ConsumeFinishedRequestEffect DEF SafetyInv, ApplyingIsSound, Applying
  <1>6. InstallingIsSound'
    BY ConsumeFinishedRequestEffect
    DEF SafetyInv, InstallingIsSound, Installing
  <1>7. UndoingIsSound'
    BY ConsumeFinishedRequestEffect
    DEF SafetyInv, UndoingIsSound, Undoing, AllOld
  <1>8. EndingIsSound'
    BY ConsumeFinishedRequestEffect
    DEF SafetyInv, EndingIsSound, Ending, Installed, AllOld
  <1>9. StatusOfRun'
    BY ConsumeFinishedRequestEffect DEF SafetyInv, StatusOfRun, Finished
  <1>10. StatusIsTrue'
    BY ConsumeFinishedRequestEffect
    DEF SafetyInv, StatusIsTrue, Installed, Finished, Unsure
  <1>11. QuiescentCopy'
    BY ConsumeFinishedRequestEffect DEF SafetyInv, QuiescentCopy
  <1>12. ServingIsInstalled'
    BY ConsumeFinishedRequestEffect DEF SafetyInv, ServingIsInstalled
  <1>13. BackupHoldsOldRows'
    BY ConsumeFinishedRequestEffect DEF SafetyInv, BackupHoldsOldRows
  <1>14. SchemaFits'
    BY ConsumeFinishedRequestEffect, BoundsStay DEF SafetyInv, SchemaFits
  <1>15. CopyFits'
    BY ConsumeFinishedRequestEffect, BoundsStay DEF SafetyInv, CopyFits
  <1>16. RequestIsNewer'
    BY ConsumeFinishedRequestEffect DEF SafetyInv, RequestIsNewer, Installed
  <1>. QED
    BY <1>1, <1>2, <1>3, <1>4, <1>5, <1>6, <1>7, <1>8, <1>9, <1>10, <1>11,
       <1>12, <1>13, <1>14, <1>15, <1>16
    DEF SafetyInv

LEMMA BeginEffect ==
  ASSUME TypeOK, BeginUpdateOperation
  PROVE  /\ starts' \in 0..Burst + 1
         /\ UNCHANGED <<files, backup, serving, latest, used, request,
                        journal>>
         /\ journal = None /\ run.pc = "off" /\ request \in Jobs
         /\ Works \/ Fails
         /\ \/ /\ run' = run
               /\ \/ status' = status
                  \/ status' \in Statuses /\ status'.state = "running"
            \/ /\ status' \in Statuses /\ status' # None
               /\ status'.state = "running"
               /\ run' \in Runs /\ run'.pc = "checking" /\ run'.job = request
               /\ run'.version = files.updater /\ run'.restore = FALSE
  <1>1. journal = None /\ run.pc = "off" /\ request \in Jobs
    BY StartsEffect DEF BeginUpdateOperation, TypeOK
  <1>2. LET s == Running(request, "checking") IN
        s \in Statuses /\ s # None /\ s.state = "running"
    BY <1>1, RunningFields DEF Phases
  <1> DEFINE r == [Off EXCEPT !.pc = "checking", !.job = request,
                              !.version = files.updater]
  <1>3. /\ r \in Runs /\ r.pc = "checking" /\ r.job = request
        /\ r.version = files.updater /\ r.restore = FALSE
    BY <1>1, OffFields DEF Runs, Steps, TypeOK, FileSets
  <1>4. /\ UNCHANGED <<files, backup, serving, latest, used, request,
                       journal>>
        /\ \/ Works /\ status' = Running(request, "checking") /\ run' = r
           \/ /\ Fails /\ run' = run
              /\ status' = status \/ status' = Running(request, "checking")
    BY DEF BeginUpdateOperation, Maybe, worldVars
  <1>5. starts' \in 0..Burst + 1
    BY StartsEffect DEF BeginUpdateOperation
  <1> HIDE DEF r
  <1>. QED
    BY <1>1, <1>2, <1>3, <1>4, <1>5

LEMMA BeginUpdateOperationKeeps ==
  ASSUME SafetyInv, BeginUpdateOperation
  PROVE  SafetyInv'
  <1>1. TypeOK'
    BY BeginEffect, BoundsStay DEF SafetyInv, TypeOK
  <1>2. RunHasJob'
    BY BeginEffect DEF SafetyInv, RunHasJob
  <1>3. OneVersion'
    BY BeginEffect DEF SafetyInv, OneVersion
  <1>4. JournalIsSound'
    BY BeginEffect DEF SafetyInv, JournalIsSound, AllOld
  <1>5. ApplyingIsSound'
    BY BeginEffect DEF SafetyInv, ApplyingIsSound, Applying
  <1>6. InstallingIsSound'
    BY BeginEffect DEF SafetyInv, InstallingIsSound, Installing
  <1>7. UndoingIsSound'
    BY BeginEffect DEF SafetyInv, UndoingIsSound, Undoing, AllOld
  <1>8. EndingIsSound'
    BY BeginEffect DEF SafetyInv, EndingIsSound, Ending, Installed, AllOld
  <1>9. StatusOfRun'
    BY BeginEffect DEF SafetyInv, StatusOfRun, Finished
  <1>10. StatusIsTrue'
    BY BeginEffect DEF SafetyInv, StatusIsTrue, Installed, Finished, Unsure
  <1>11. QuiescentCopy'
    BY BeginEffect DEF SafetyInv, QuiescentCopy
  <1>12. ServingIsInstalled'
    BY BeginEffect DEF SafetyInv, ServingIsInstalled
  <1>13. BackupHoldsOldRows'
    BY BeginEffect DEF SafetyInv, BackupHoldsOldRows
  <1>14. SchemaFits'
    BY BeginEffect, BoundsStay DEF SafetyInv, SchemaFits
  <1>15. CopyFits'
    BY BeginEffect, BoundsStay DEF SafetyInv, CopyFits
  <1>16. RequestIsNewer'
    BY BeginEffect DEF SafetyInv, RequestIsNewer, Installed
  <1>. QED
    BY <1>1, <1>2, <1>3, <1>4, <1>5, <1>6, <1>7, <1>8, <1>9, <1>10, <1>11,
       <1>12, <1>13, <1>14, <1>15, <1>16
    DEF SafetyInv

LEMMA InstalledAlreadyEffect ==
  ASSUME TypeOK, InstalledAlready
  PROVE  /\ UNCHANGED <<files, backup, serving, latest, used, starts, request,
                        status,
                        journal>>
         /\ run.pc = "checking" /\ run' \in Runs /\ run'.pc = "reporting"
         /\ run'.job = run.job /\ (Works \/ Fails)
         /\ \/ run'.ending = "verifying"
            \/ run'.ending = "completed" /\ files.portal = run.job.target
  BY FinishEffect DEF InstalledAlready, TypeOK, Phases, worldVars

LEMMA InstalledAlreadyKeeps ==
  ASSUME SafetyInv, InstalledAlready
  PROVE  SafetyInv'
  <1>1. TypeOK'
    BY InstalledAlreadyEffect, BoundsStay DEF SafetyInv, TypeOK
  <1>2. RunHasJob'
    BY InstalledAlreadyEffect DEF SafetyInv, RunHasJob
  <1>3. OneVersion'
    BY InstalledAlreadyEffect DEF SafetyInv, OneVersion
  <1>4. JournalIsSound'
    BY InstalledAlreadyEffect DEF SafetyInv, JournalIsSound, AllOld
  <1>5. ApplyingIsSound'
    BY InstalledAlreadyEffect DEF SafetyInv, ApplyingIsSound, Applying
  <1>6. InstallingIsSound'
    BY InstalledAlreadyEffect DEF SafetyInv, InstallingIsSound, Installing
  <1>7. UndoingIsSound'
    BY InstalledAlreadyEffect DEF SafetyInv, UndoingIsSound, Undoing, AllOld
  <1>8. EndingIsSound'
    BY InstalledAlreadyEffect
    DEF SafetyInv, EndingIsSound, Ending, Installed, AllOld, ApplyingIsSound,
        Applying
  <1>9. StatusOfRun'
    BY InstalledAlreadyEffect
    DEF SafetyInv, StatusOfRun, Finished, InstalledAlready
  <1>10. StatusIsTrue'
    BY InstalledAlreadyEffect
    DEF SafetyInv, StatusIsTrue, Installed, Finished, Unsure
  <1>11. QuiescentCopy'
    BY InstalledAlreadyEffect DEF SafetyInv, QuiescentCopy
  <1>12. ServingIsInstalled'
    BY InstalledAlreadyEffect DEF SafetyInv, ServingIsInstalled
  <1>13. BackupHoldsOldRows'
    BY InstalledAlreadyEffect DEF SafetyInv, BackupHoldsOldRows
  <1>14. SchemaFits'
    BY InstalledAlreadyEffect, BoundsStay DEF SafetyInv, SchemaFits
  <1>15. CopyFits'
    BY InstalledAlreadyEffect, BoundsStay DEF SafetyInv, CopyFits
  <1>16. RequestIsNewer'
    BY InstalledAlreadyEffect DEF SafetyInv, RequestIsNewer, Installed
  <1>. QED
    BY <1>1, <1>2, <1>3, <1>4, <1>5, <1>6, <1>7, <1>8, <1>9, <1>10, <1>11,
       <1>12, <1>13, <1>14, <1>15, <1>16
    DEF SafetyInv

LEMMA PrepareRefusesEffect ==
  ASSUME TypeOK, PrepareRefuses
  PROVE  /\ UNCHANGED <<files, backup, serving, latest, used, starts, request,
                        status,
                        journal>>
         /\ run.pc = "checking" /\ run' \in Runs /\ run'.pc = "reporting"
         /\ run'.job = run.job /\ (Works \/ Fails)
         /\ run'.ending \in {"checking", "manual_required"}
         /\ run.version # run.job.target
  BY FinishEffect DEF PrepareRefuses, TypeOK, Phases, worldVars

LEMMA PrepareRefusesKeeps ==
  ASSUME SafetyInv, PrepareRefuses
  PROVE  SafetyInv'
  <1>1. TypeOK'
    BY PrepareRefusesEffect, BoundsStay DEF SafetyInv, TypeOK
  <1>2. RunHasJob'
    BY PrepareRefusesEffect DEF SafetyInv, RunHasJob
  <1>3. OneVersion'
    BY PrepareRefusesEffect DEF SafetyInv, OneVersion
  <1>4. JournalIsSound'
    BY PrepareRefusesEffect DEF SafetyInv, JournalIsSound, AllOld
  <1>5. ApplyingIsSound'
    BY PrepareRefusesEffect DEF SafetyInv, ApplyingIsSound, Applying
  <1>6. InstallingIsSound'
    BY PrepareRefusesEffect DEF SafetyInv, InstallingIsSound, Installing
  <1>7. UndoingIsSound'
    BY PrepareRefusesEffect DEF SafetyInv, UndoingIsSound, Undoing, AllOld
  <1>8. EndingIsSound'
    <2>1. journal = None /\ request = run.job /\ files.updater = run.version
      BY PrepareRefusesEffect DEF SafetyInv, ApplyingIsSound, Applying
    <2>2. request # None /\ files.portal <= request.target
      BY <2>1, PrepareRefusesEffect, UpdaterConstants
      DEF SafetyInv, RunHasJob, RequestIsNewer, Installed
    <2>3. request.target \in Nat /\ files.portal \in Nat
      BY <2>2 DEF SafetyInv, TypeOK, Jobs, FileSets, Versions
    <2>4. files.portal < run.job.target
      BY <2>1, <2>2, <2>3, PrepareRefusesEffect DEF SafetyInv, OneVersion
    <2>. QED
      BY <2>1, <2>4, PrepareRefusesEffect DEF SafetyInv, EndingIsSound, Ending
  <1>9. StatusOfRun'
    BY PrepareRefusesEffect DEF SafetyInv, StatusOfRun, Finished
  <1>10. StatusIsTrue'
    BY PrepareRefusesEffect
    DEF SafetyInv, StatusIsTrue, Installed, Finished, Unsure
  <1>11. QuiescentCopy'
    BY PrepareRefusesEffect DEF SafetyInv, QuiescentCopy
  <1>12. ServingIsInstalled'
    BY PrepareRefusesEffect DEF SafetyInv, ServingIsInstalled
  <1>13. BackupHoldsOldRows'
    BY PrepareRefusesEffect DEF SafetyInv, BackupHoldsOldRows
  <1>14. SchemaFits'
    BY PrepareRefusesEffect, BoundsStay DEF SafetyInv, SchemaFits
  <1>15. CopyFits'
    BY PrepareRefusesEffect, BoundsStay DEF SafetyInv, CopyFits
  <1>16. RequestIsNewer'
    BY PrepareRefusesEffect DEF SafetyInv, RequestIsNewer, Installed
  <1>. QED
    BY <1>1, <1>2, <1>3, <1>4, <1>5, <1>6, <1>7, <1>8, <1>9, <1>10, <1>11,
       <1>12, <1>13, <1>14, <1>15, <1>16
    DEF SafetyInv

LEMMA PrepareUpdateEffect ==
  ASSUME TypeOK, PrepareUpdate
  PROVE  /\ UNCHANGED <<files, backup, serving, latest, used, starts, request,
                        status,
                        journal>>
         /\ run.pc = "checking" /\ run.version < run.job.target
         /\ run' \in Runs /\ run'.pc = "probing" /\ Works
         /\ run'.job = run.job /\ run'.version = run.version
         /\ run'.restore = run.restore
  BY GoToEffect DEF PrepareUpdate, TypeOK, Steps, worldVars

LEMMA PrepareUpdateKeeps ==
  ASSUME SafetyInv, PrepareUpdate
  PROVE  SafetyInv'
  <1>1. TypeOK'
    BY PrepareUpdateEffect, BoundsStay DEF SafetyInv, TypeOK
  <1>2. RunHasJob'
    BY PrepareUpdateEffect DEF SafetyInv, RunHasJob
  <1>3. OneVersion'
    BY PrepareUpdateEffect DEF SafetyInv, OneVersion
  <1>4. JournalIsSound'
    BY PrepareUpdateEffect DEF SafetyInv, JournalIsSound, AllOld
  <1>5. ApplyingIsSound'
    BY PrepareUpdateEffect DEF SafetyInv, ApplyingIsSound, Applying
  <1>6. InstallingIsSound'
    BY PrepareUpdateEffect DEF SafetyInv, InstallingIsSound, Installing
  <1>7. UndoingIsSound'
    BY PrepareUpdateEffect DEF SafetyInv, UndoingIsSound, Undoing, AllOld
  <1>8. EndingIsSound'
    BY PrepareUpdateEffect
    DEF SafetyInv, EndingIsSound, Ending, Installed, AllOld
  <1>9. StatusOfRun'
    BY PrepareUpdateEffect DEF SafetyInv, StatusOfRun, Finished
  <1>10. StatusIsTrue'
    BY PrepareUpdateEffect
    DEF SafetyInv, StatusIsTrue, Installed, Finished, Unsure
  <1>11. QuiescentCopy'
    BY PrepareUpdateEffect DEF SafetyInv, QuiescentCopy
  <1>12. ServingIsInstalled'
    BY PrepareUpdateEffect DEF SafetyInv, ServingIsInstalled
  <1>13. BackupHoldsOldRows'
    BY PrepareUpdateEffect DEF SafetyInv, BackupHoldsOldRows
  <1>14. SchemaFits'
    BY PrepareUpdateEffect, BoundsStay DEF SafetyInv, SchemaFits
  <1>15. CopyFits'
    BY PrepareUpdateEffect, BoundsStay DEF SafetyInv, CopyFits
  <1>16. RequestIsNewer'
    BY PrepareUpdateEffect DEF SafetyInv, RequestIsNewer, Installed
  <1>. QED
    BY <1>1, <1>2, <1>3, <1>4, <1>5, <1>6, <1>7, <1>8, <1>9, <1>10, <1>11,
       <1>12, <1>13, <1>14, <1>15, <1>16
    DEF SafetyInv

LEMMA ProbeEffect ==
  ASSUME TypeOK, RunHasJob, ProbeService
  PROVE  /\ UNCHANGED <<files, backup, serving, latest, used, starts, request,
                        journal>>
         /\ run.pc = "probing" /\ run' \in Runs /\ run'.job = run.job
         /\ Works \/ Fails
         /\ \/ status' = status
            \/ /\ status' \in Statuses /\ status' # None
               /\ status'.state = "running"
         /\ \/ /\ run'.pc = "opening" /\ run'.version = run.version
               /\ run'.restore = run.restore
               /\ ~run'.wasActive => serving = None
            \/ run'.pc = "reporting" /\ run'.ending = "backing_up"
  <1>1. run.pc = "probing" /\ run.job \in Jobs
    BY DEF ProbeService, RunHasJob
  <1>2. LET s == Running(run.job, "backing_up") IN
        s \in Statuses /\ s # None /\ s.state = "running"
    BY <1>1, RunningFields DEF Phases
  <1>3. /\ UNCHANGED <<files, backup, serving, latest, used, starts, request,
                       journal>>
        /\ status' = status \/ status' = Running(run.job, "backing_up")
        /\ \/ /\ Works
              /\ run' = [run EXCEPT !.pc = "opening",
                                   !.wasActive = (serving # None)]
           \/ Fails /\ Finish("backing_up")
    BY DEF ProbeService, Maybe, worldVars
  <1>4. CASE Finish("backing_up")
    BY <1>1, <1>2, <1>3, <1>4, FinishEffect DEF TypeOK, Phases
  <1>5. CASE run' = [run EXCEPT !.pc = "opening",
                                !.wasActive = (serving # None)]
    <2>1. /\ run' \in Runs /\ run'.job = run.job /\ run'.pc = "opening"
          /\ run'.version = run.version /\ run'.restore = run.restore
      BY <1>5 DEF TypeOK, Runs, Steps
    <2>2. ~run'.wasActive => serving = None
      BY <1>5 DEF TypeOK, Runs
    <2>. QED
      BY <1>1, <1>2, <1>3, <2>1, <2>2
  <1>. QED
    BY <1>3, <1>4, <1>5

LEMMA ProbeServiceKeeps ==
  ASSUME SafetyInv, ProbeService
  PROVE  SafetyInv'
  <1>1. TypeOK'
    BY ProbeEffect, BoundsStay DEF SafetyInv, TypeOK
  <1>2. RunHasJob'
    BY ProbeEffect DEF SafetyInv, RunHasJob
  <1>3. OneVersion'
    BY ProbeEffect DEF SafetyInv, OneVersion
  <1>4. JournalIsSound'
    BY ProbeEffect DEF SafetyInv, JournalIsSound, AllOld
  <1>5. ApplyingIsSound'
    BY ProbeEffect DEF SafetyInv, ApplyingIsSound, Applying
  <1>6. InstallingIsSound'
    BY ProbeEffect DEF SafetyInv, InstallingIsSound, Installing
  <1>7. UndoingIsSound'
    BY ProbeEffect DEF SafetyInv, UndoingIsSound, Undoing, AllOld
  <1>8. EndingIsSound'
    BY ProbeEffect
    DEF SafetyInv, EndingIsSound, Ending, Installed, AllOld, ApplyingIsSound,
        Applying, OneVersion
  <1>9. StatusOfRun'
    BY ProbeEffect DEF SafetyInv, StatusOfRun, Finished, TypeOK
  <1>10. StatusIsTrue'
    BY ProbeEffect DEF SafetyInv, StatusIsTrue, Installed, Finished, Unsure
  <1>11. QuiescentCopy'
    BY ProbeEffect DEF SafetyInv, QuiescentCopy
  <1>12. ServingIsInstalled'
    BY ProbeEffect DEF SafetyInv, ServingIsInstalled
  <1>13. BackupHoldsOldRows'
    BY ProbeEffect DEF SafetyInv, BackupHoldsOldRows
  <1>14. SchemaFits'
    BY ProbeEffect, BoundsStay DEF SafetyInv, SchemaFits
  <1>15. CopyFits'
    BY ProbeEffect, BoundsStay DEF SafetyInv, CopyFits
  <1>16. RequestIsNewer'
    BY ProbeEffect DEF SafetyInv, RequestIsNewer, Installed
  <1>. QED
    BY <1>1, <1>2, <1>3, <1>4, <1>5, <1>6, <1>7, <1>8, <1>9, <1>10, <1>11,
       <1>12, <1>13, <1>14, <1>15, <1>16
    DEF SafetyInv

LEMMA OpenJournalEffect ==
  ASSUME TypeOK, RunHasJob, OpenJournal
  PROVE  /\ UNCHANGED <<files, backup, serving, latest, used, starts, request,
                        status>>
         /\ run.pc = "opening" /\ run' \in Runs /\ run'.job = run.job
         /\ Works \/ Fails
         /\ \/ journal' = journal
            \/ /\ journal' \in Journals /\ journal' # None
               /\ journal'.job = run.job /\ journal'.phase = "prepared"
               /\ journal'.old = run.version /\ journal'.cursor = 0
         /\ \/ run'.pc = "reporting" /\ run'.ending = "backing_up"
            \/ /\ run'.pc \in {"stopping", "saving"}
               /\ run'.pc = "saving" => ~run.wasActive
               /\ run'.version = run.version /\ run'.restore = run.restore
               /\ journal' # None
               /\ journal'.job = run.job
  <1> DEFINE opened == [job |-> run.job, phase |-> "prepared",
                        old |-> run.version, wasActive |-> run.wasActive,
                        cursor |-> 0]
  <1>1. run.pc = "opening" /\ run.job \in Jobs
    BY DEF OpenJournal, RunHasJob
  <1>2. /\ opened \in Journals /\ opened # None
        /\ opened.job = run.job /\ opened.phase = "prepared"
        /\ opened.old = run.version /\ opened.cursor = 0
    BY <1>1, UpdaterConstants, FilesFacts DEF Journals, TypeOK, Runs
  <1>3. /\ UNCHANGED <<files, backup, serving, latest, used, starts, request,
                       status>>
        /\ \/ /\ Works /\ journal' = opened
              /\ GoTo(IF run.wasActive THEN "stopping" ELSE "saving")
           \/ /\ Fails /\ Finish("backing_up")
              /\ journal' = journal \/ journal' = opened
    BY DEF OpenJournal, Maybe, worldVars
  <1> HIDE DEF opened
  <1>4. CASE Finish("backing_up")
    BY <1>1, <1>2, <1>3, <1>4, FinishEffect DEF TypeOK, Phases
  <1>5. CASE /\ GoTo(IF run.wasActive THEN "stopping" ELSE "saving")
             /\ journal' = opened /\ Works
    <2>1. CASE run.wasActive
      BY <1>1, <1>2, <1>3, <1>5, <2>1, GoToEffect DEF TypeOK, Steps
    <2>2. CASE ~run.wasActive
      BY <1>1, <1>2, <1>3, <1>5, <2>2, GoToEffect DEF TypeOK, Steps
    <2>. QED
      BY <2>1, <2>2
  <1>. QED
    BY <1>3, <1>4, <1>5

LEMMA OpenJournalKeeps ==
  ASSUME SafetyInv, OpenJournal
  PROVE  SafetyInv'
  <1>1. TypeOK'
    BY OpenJournalEffect, BoundsStay DEF SafetyInv, TypeOK
  <1>2. RunHasJob'
    BY OpenJournalEffect DEF SafetyInv, RunHasJob
  <1>3. OneVersion'
    BY OpenJournalEffect DEF SafetyInv, OneVersion
  <1>4. JournalIsSound'
    BY OpenJournalEffect
    DEF SafetyInv, JournalIsSound, AllOld, ApplyingIsSound, Applying,
        OneVersion, RunHasJob, TypeOK
  <1>5. ApplyingIsSound'
    BY OpenJournalEffect DEF SafetyInv, ApplyingIsSound, Applying
  <1>6. InstallingIsSound'
    BY OpenJournalEffect
    DEF SafetyInv, InstallingIsSound, Installing, ApplyingIsSound, Applying,
        OneVersion
  <1>7. UndoingIsSound'
    BY OpenJournalEffect DEF SafetyInv, UndoingIsSound, Undoing, AllOld
  <1>8. EndingIsSound'
    BY OpenJournalEffect
    DEF SafetyInv, EndingIsSound, Ending, Installed, AllOld, ApplyingIsSound,
        Applying, OneVersion, RunHasJob
  <1>9. StatusOfRun'
    BY OpenJournalEffect DEF SafetyInv, StatusOfRun, Finished
  <1>10. StatusIsTrue'
    BY OpenJournalEffect
    DEF SafetyInv, StatusIsTrue, Installed, Finished, Unsure, StatusOfRun
  <1>11. QuiescentCopy'
    BY OpenJournalEffect
    DEF SafetyInv, QuiescentCopy, ApplyingIsSound, Applying
  <1>12. ServingIsInstalled'
    BY OpenJournalEffect DEF SafetyInv, ServingIsInstalled
  <1>13. BackupHoldsOldRows'
    BY OpenJournalEffect
    DEF SafetyInv, BackupHoldsOldRows, ApplyingIsSound, Applying, OneVersion
  <1>14. SchemaFits'
    BY OpenJournalEffect, BoundsStay DEF SafetyInv, SchemaFits
  <1>15. CopyFits'
    BY OpenJournalEffect, BoundsStay
    DEF SafetyInv, CopyFits, ApplyingIsSound, Applying, OneVersion
  <1>16. RequestIsNewer'
    BY OpenJournalEffect
    DEF SafetyInv, RequestIsNewer, Installed, ApplyingIsSound, Applying,
        OneVersion
  <1>. QED
    BY <1>1, <1>2, <1>3, <1>4, <1>5, <1>6, <1>7, <1>8, <1>9, <1>10, <1>11,
       <1>12, <1>13, <1>14, <1>15, <1>16
    DEF SafetyInv

-----------------------------------------------------------------------------
(* The transaction.                                                        *)

LEMMA PlainRollBack ==
  ASSUME run \in Runs, run.restore = FALSE, RollBack(FALSE)
  PROVE  /\ run' \in Runs /\ run'.job = run.job /\ run'.restore = FALSE
         /\ \/ run'.pc = "undo start"
            \/ run'.pc = "reporting" /\ run'.ending = "rolled_back"
  <1>1. run' = AfterStop(run, 0) /\ 0 \in 0..Len(Files)
    BY FilesFacts DEF RollBack
  <1>2. GoesOn(run, AfterStop(run, 0), 0)
    BY <1>1, AfterStopFields
  <1>. QED
    BY <1>1, <1>2 DEF GoesOn

LEMMA RestoringRollBack ==
  ASSUME run \in Runs, RollBack(TRUE)
  PROVE  /\ run' \in Runs /\ run'.job = run.job /\ run'.restore = TRUE
         /\ run'.pc = "undo stop"
  BY DEF RollBack, Runs, Steps

LEMMA StopForBackupEffect ==
  ASSUME TypeOK, run.restore = FALSE, StopForBackup
  PROVE  /\ UNCHANGED <<files, backup, latest, used, starts, request, status,
                        journal>>
         /\ run.pc = "stopping" /\ run' \in Runs /\ run'.job = run.job
         /\ Works \/ Fails
         /\ serving' \in {serving, None}
         /\ \/ /\ run'.pc = "saving" /\ run'.version = run.version
               /\ run'.restore = FALSE /\ serving' = None
            \/ run'.pc = "undo start" /\ run'.restore = FALSE
            \/ run'.pc = "reporting" /\ run'.ending = "rolled_back"
            \/ run'.pc = "reporting" /\ run'.ending = "rollback_failed"
  <1>1. CASE Works /\ serving' = None /\ GoTo("saving")
    BY <1>1, GoToEffect DEF StopForBackup, TypeOK, Steps, worldVars
  <1>2. CASE Fails /\ serving' \in {serving, None} /\ RollBack(FALSE)
    BY <1>2, PlainRollBack DEF StopForBackup, TypeOK, worldVars
  <1>3. CASE Fails /\ serving' = serving /\ Finish("rollback_failed")
    BY <1>3, FinishEffect DEF StopForBackup, TypeOK, Phases, worldVars
  <1>. QED
    BY <1>1, <1>2, <1>3 DEF StopForBackup

LEMMA NoRestore ==
  ASSUME SafetyInv, run.pc \in Installing
  PROVE  run.restore = FALSE
  BY DEF SafetyInv, InstallingIsSound, TypeOK, Runs

LEMMA StopForBackupKeeps ==
  ASSUME SafetyInv, StopForBackup
  PROVE  SafetyInv'
  <1>0. TypeOK /\ run.restore = FALSE
    BY NoRestore DEF SafetyInv, Installing, StopForBackup
  <1>1. TypeOK'
    BY StopForBackupEffect, BoundsStay, <1>0 DEF SafetyInv, TypeOK
  <1>2. RunHasJob'
    BY StopForBackupEffect, <1>0 DEF SafetyInv, RunHasJob
  <1>3. OneVersion'
    BY StopForBackupEffect, <1>0 DEF SafetyInv, OneVersion
  <1>4. JournalIsSound'
    BY StopForBackupEffect, <1>0
    DEF SafetyInv, JournalIsSound, AllOld, InstallingIsSound, Installing
  <1>5. ApplyingIsSound'
    BY StopForBackupEffect, <1>0 DEF SafetyInv, ApplyingIsSound, Applying
  <1>6. InstallingIsSound'
    BY StopForBackupEffect, <1>0 DEF SafetyInv, InstallingIsSound, Installing
  <1>7. UndoingIsSound'
    BY StopForBackupEffect, <1>0
    DEF SafetyInv, UndoingIsSound, Undoing, AllOld, InstallingIsSound,
        Installing, JournalIsSound
  <1>8. EndingIsSound'
    BY StopForBackupEffect, <1>0
    DEF SafetyInv, EndingIsSound, Ending, Installed, AllOld,
        InstallingIsSound, Installing, JournalIsSound
  <1>9. StatusOfRun'
    BY StopForBackupEffect, <1>0 DEF SafetyInv, StatusOfRun, Finished
  <1>10. StatusIsTrue'
    BY StopForBackupEffect, <1>0
    DEF SafetyInv, StatusIsTrue, Installed, Finished, Unsure, StatusOfRun
  <1>11. QuiescentCopy'
    BY StopForBackupEffect, <1>0 DEF SafetyInv, QuiescentCopy
  <1>12. ServingIsInstalled'
    BY StopForBackupEffect, <1>0 DEF SafetyInv, ServingIsInstalled
  <1>13. BackupHoldsOldRows'
    BY StopForBackupEffect, <1>0 DEF SafetyInv, BackupHoldsOldRows
  <1>14. SchemaFits'
    BY StopForBackupEffect, BoundsStay, <1>0 DEF SafetyInv, SchemaFits
  <1>15. CopyFits'
    BY StopForBackupEffect, BoundsStay, <1>0 DEF SafetyInv, CopyFits
  <1>16. RequestIsNewer'
    BY StopForBackupEffect, <1>0 DEF SafetyInv, RequestIsNewer, Installed
  <1>. QED
    BY <1>1, <1>2, <1>3, <1>4, <1>5, <1>6, <1>7, <1>8, <1>9, <1>10, <1>11,
       <1>12, <1>13, <1>14, <1>15, <1>16
    DEF SafetyInv

LEMMA SaveFilesEffect ==
  ASSUME TypeOK, run.restore = FALSE, journal # None, SaveFiles
  PROVE  /\ UNCHANGED <<files, serving, latest, used, starts, request, status>>
         /\ run.pc = "saving" /\ run' \in Runs /\ run'.job = run.job
         /\ Works \/ Fails
         /\ \/ UNCHANGED <<backup, journal>>
            \/ /\ backup' = files /\ journal' \in Journals /\ journal' # None
               /\ journal'.phase = "backed_up" /\ journal'.job = journal.job
               /\ journal'.old = journal.old
               /\ journal'.cursor = journal.cursor
         /\ \/ /\ run'.pc = "installing portal" /\ run'.version = run.version
               /\ run'.restore = FALSE
               /\ backup' = files /\ journal'.phase = "backed_up"
            \/ run'.pc = "undo start" /\ run'.restore = FALSE
            \/ run'.pc = "reporting" /\ run'.ending = "rolled_back"
  <1> DEFINE sealed == [journal EXCEPT !.phase = "backed_up"]
  <1>1. /\ sealed \in Journals /\ sealed # None
        /\ sealed.phase = "backed_up" /\ sealed.job = journal.job
        /\ sealed.old = journal.old /\ sealed.cursor = journal.cursor
    BY UpdaterConstants DEF TypeOK, Journals
  <1>2. /\ UNCHANGED <<files, serving, latest, used, starts, request, status>>
        /\ run.pc = "saving" /\ (Works \/ Fails)
        /\ \/ /\ GoTo("installing portal")
              /\ backup' = files /\ journal' = sealed
           \/ /\ RollBack(FALSE)
              /\ \/ UNCHANGED <<backup, journal>>
                 \/ backup' = files /\ journal' = sealed
    BY DEF SaveFiles, worldVars
  <1> HIDE DEF sealed
  <1>3. CASE GoTo("installing portal") /\ backup' = files /\ journal' = sealed
    BY <1>1, <1>2, <1>3, GoToEffect DEF TypeOK, Steps
  <1>4. CASE /\ RollBack(FALSE)
             /\ \/ UNCHANGED <<backup, journal>>
                \/ backup' = files /\ journal' = sealed
    BY <1>1, <1>2, <1>4, PlainRollBack DEF TypeOK
  <1>. QED
    BY <1>2, <1>3, <1>4

LEMMA SaveFilesKeeps ==
  ASSUME SafetyInv, SaveFiles
  PROVE  SafetyInv'
  <1>0. TypeOK /\ run.restore = FALSE /\ journal # None
    BY NoRestore DEF SafetyInv, InstallingIsSound, Installing, SaveFiles
  <1>1. TypeOK'
    BY SaveFilesEffect, BoundsStay, <1>0 DEF SafetyInv, TypeOK
  <1>2. RunHasJob'
    BY SaveFilesEffect, <1>0 DEF SafetyInv, RunHasJob
  <1>3. OneVersion'
    BY SaveFilesEffect, <1>0
    DEF SafetyInv, OneVersion, InstallingIsSound, Installing
  <1>4. JournalIsSound'
    BY SaveFilesEffect, <1>0
    DEF SafetyInv, JournalIsSound, AllOld, InstallingIsSound, Installing
  <1>5. ApplyingIsSound'
    BY SaveFilesEffect, <1>0 DEF SafetyInv, ApplyingIsSound, Applying
  <1>6. InstallingIsSound'
    BY SaveFilesEffect, <1>0 DEF SafetyInv, InstallingIsSound, Installing
  <1>7. UndoingIsSound'
    BY SaveFilesEffect, <1>0
    DEF SafetyInv, UndoingIsSound, Undoing, AllOld, InstallingIsSound,
        Installing, JournalIsSound
  <1>8. EndingIsSound'
    BY SaveFilesEffect, <1>0
    DEF SafetyInv, EndingIsSound, Ending, Installed, AllOld,
        InstallingIsSound, Installing, JournalIsSound
  <1>9. StatusOfRun'
    BY SaveFilesEffect, <1>0 DEF SafetyInv, StatusOfRun, Finished
  <1>10. StatusIsTrue'
    BY SaveFilesEffect, <1>0
    DEF SafetyInv, StatusIsTrue, Installed, Finished, Unsure, StatusOfRun
  <1>11. QuiescentCopy'
    BY SaveFilesEffect, <1>0 DEF SafetyInv, QuiescentCopy
  <1>12. ServingIsInstalled'
    BY SaveFilesEffect, <1>0 DEF SafetyInv, ServingIsInstalled
  <1>13. BackupHoldsOldRows'
    BY SaveFilesEffect, <1>0
    DEF SafetyInv, BackupHoldsOldRows, InstallingIsSound, Installing
  <1>14. SchemaFits'
    BY SaveFilesEffect, BoundsStay, <1>0 DEF SafetyInv, SchemaFits
  <1>15. CopyFits'
    BY SaveFilesEffect, BoundsStay, <1>0
    DEF SafetyInv, CopyFits, InstallingIsSound, Installing, SchemaFits
  <1>16. RequestIsNewer'
    BY SaveFilesEffect, <1>0 DEF SafetyInv, RequestIsNewer, Installed
  <1>. QED
    BY <1>1, <1>2, <1>3, <1>4, <1>5, <1>6, <1>7, <1>8, <1>9, <1>10, <1>11,
       <1>12, <1>13, <1>14, <1>15, <1>16
    DEF SafetyInv

LEMMA InstallPortalEffect ==
  ASSUME TypeOK, run.restore = FALSE, run.job \in Jobs, InstallPortal
  PROVE  /\ UNCHANGED <<backup, serving, latest, used, starts, request,
                        journal>>
         /\ run.pc = "installing portal" /\ run' \in Runs
         /\ run'.job = run.job
         /\ Works \/ Fails
         /\ files' \in FileSets /\ files'.updater = files.updater
         /\ files'.db = files.db
         /\ files'.portal \in {files.portal, run.job.target}
         /\ \/ status' = status
            \/ /\ status' \in Statuses /\ status' # None
               /\ status'.state = "running"
         /\ \/ /\ run'.pc = "installing updater" /\ run'.version = run.version
               /\ run'.restore = FALSE /\ files'.portal = run.job.target
            \/ run'.pc = "undo stop" /\ run'.restore = TRUE
            \/ /\ files' = files
               /\ \/ run'.pc = "undo start" /\ run'.restore = FALSE
                  \/ run'.pc = "reporting" /\ run'.ending = "rolled_back"
  <1> DEFINE placed == [files EXCEPT !.portal = run.job.target]
  <1>1. /\ placed \in FileSets /\ placed.portal = run.job.target
        /\ placed.updater = files.updater /\ placed.db = files.db
    BY DEF TypeOK, FileSets, Jobs
  <1>2. LET s == Running(run.job, "installing") IN
        s \in Statuses /\ s # None /\ s.state = "running"
    BY RunningFields DEF Phases
  <1>3. /\ UNCHANGED <<backup, serving, latest, used, starts, request, journal>>
        /\ run.pc = "installing portal" /\ (Works \/ Fails)
        /\ status' \in {status, Running(run.job, "installing")}
        /\ \/ GoTo("installing updater") /\ files' = placed
           \/ RollBack(FALSE) /\ files' = files
           \/ RollBack(TRUE) /\ files' \in {files, placed}
    BY DEF InstallPortal, Maybe, worldVars
  <1> HIDE DEF placed
  <1>4. CASE GoTo("installing updater") /\ files' = placed
    BY <1>1, <1>2, <1>3, <1>4, GoToEffect DEF TypeOK, Steps
  <1>5. CASE RollBack(FALSE) /\ files' = files
    BY <1>1, <1>2, <1>3, <1>5, PlainRollBack DEF TypeOK
  <1>6. CASE RollBack(TRUE) /\ files' \in {files, placed}
    BY <1>1, <1>2, <1>3, <1>6, RestoringRollBack DEF TypeOK
  <1>. QED
    BY <1>3, <1>4, <1>5, <1>6

LEMMA InstallUpdaterEffect ==
  ASSUME TypeOK, run.job \in Jobs, InstallUpdater
  PROVE  /\ UNCHANGED <<backup, serving, latest, used, starts, request, status,
                        journal>>
         /\ run.pc = "installing updater" /\ run' \in Runs
         /\ run'.job = run.job
         /\ Works \/ Fails
         /\ files' \in FileSets /\ files'.portal = files.portal
         /\ files'.db = files.db
         /\ files'.updater \in {files.updater, run.job.target}
         /\ \/ /\ run'.pc \in {"restarting", "committing"}
               /\ run'.version = run.version
               /\ run'.restore = run.restore
               /\ files'.updater = run.job.target
            \/ run'.pc = "undo stop" /\ run'.restore = TRUE
  <1> DEFINE placed == [files EXCEPT !.updater = run.job.target]
             next == IF run.wasActive THEN "restarting" ELSE "committing"
  <1>1. /\ placed \in FileSets /\ placed.updater = run.job.target
        /\ placed.portal = files.portal /\ placed.db = files.db
    BY DEF TypeOK, FileSets, Jobs
  <1>2. next \in {"restarting", "committing"}
    OBVIOUS
  <1>3. /\ UNCHANGED <<backup, serving, latest, used, starts, request, status,
                       journal>>
        /\ run.pc = "installing updater" /\ (Works \/ Fails)
        /\ \/ GoTo(next) /\ files' = placed
           \/ RollBack(TRUE) /\ files' \in {files, placed}
    BY DEF InstallUpdater, Maybe, worldVars
  <1> HIDE DEF placed, next
  <1>4. CASE GoTo(next) /\ files' = placed
    BY <1>1, <1>2, <1>3, <1>4, GoToEffect DEF TypeOK, Steps
  <1>5. CASE RollBack(TRUE) /\ files' \in {files, placed}
    BY <1>1, <1>3, <1>5, RestoringRollBack DEF TypeOK
  <1>. QED
    BY <1>3, <1>4, <1>5

LEMMA RestartEffect ==
  ASSUME TypeOK, ServingIsInstalled, run.job \in Jobs, Restart
  PROVE  /\ UNCHANGED <<backup, latest, used, starts, request, journal>>
         /\ run.pc = "restarting" /\ run' \in Runs /\ run'.job = run.job
         /\ Works \/ Fails
         /\ files' \in FileSets /\ files'.portal = files.portal
         /\ files'.updater = files.updater
         /\ files'.db.rows = files.db.rows
         /\ serving' \in {serving, files.portal}
         /\ files'.db.schema \in {files.db.schema, files.portal}
         /\ \/ status' = status
            \/ /\ status' \in Statuses /\ status' # None
               /\ status'.state = "running"
         /\ \/ /\ run'.pc = "committing" /\ run'.version = run.version
               /\ run'.restore = run.restore
            \/ run'.pc = "undo stop" /\ run'.restore = TRUE
  <1>1. LET s == Running(run.job, "health_check") IN
        s \in Statuses /\ s # None /\ s.state = "running"
    BY RunningFields DEF Phases
  <1>2. /\ UNCHANGED <<backup, latest, used, starts, request, journal>>
        /\ run.pc = "restarting" /\ (Works \/ Fails)
        /\ status' \in {status, Running(run.job, "health_check")}
        /\ StartPortal(files) \/ UNCHANGED <<serving, files>>
        /\ GoTo("committing") \/ RollBack(TRUE)
    BY DEF Restart, Maybe, worldVars
  <1>3. /\ files' \in FileSets /\ files'.portal = files.portal
        /\ files'.updater = files.updater
        /\ files'.db.rows = files.db.rows
        /\ serving' \in {serving, files.portal}
        /\ files'.db.schema \in {files.db.schema, files.portal}
    BY <1>2, StartEffect DEF TypeOK
  <1>4. CASE GoTo("committing")
    BY <1>1, <1>2, <1>3, <1>4, GoToEffect DEF TypeOK, Steps
  <1>5. CASE RollBack(TRUE)
    BY <1>1, <1>2, <1>3, <1>5, RestoringRollBack DEF TypeOK
  <1>. QED
    BY <1>2, <1>4, <1>5

LEMMA CommitEffect ==
  ASSUME TypeOK, Commit
  PROVE  /\ UNCHANGED <<files, backup, serving, latest, used, starts, request,
                        status>>
         /\ run.pc = "committing" /\ run' \in Runs /\ run'.job = run.job
         /\ Works \/ Fails
         /\ journal' = journal \/ journal' = None
         /\ run'.pc = "reporting"
         /\ run'.ending = "completed" => journal' = None
         /\ run'.ending \in {"completed", "rollback_failed"}
  BY FinishEffect DEF Commit, TypeOK, Phases, Maybe, worldVars

LEMMA InstallPortalKeeps ==
  ASSUME SafetyInv, InstallPortal
  PROVE  SafetyInv'
  <1>0. /\ TypeOK /\ ServingIsInstalled /\ run.restore = FALSE
        /\ journal # None /\ run.job \in Jobs
    BY NoRestore
    DEF SafetyInv, RunHasJob, InstallingIsSound, Installing, InstallPortal
  <1>1. TypeOK'
    BY InstallPortalEffect, BoundsStay, <1>0 DEF SafetyInv, TypeOK
  <1>2. RunHasJob'
    BY InstallPortalEffect, <1>0 DEF SafetyInv, RunHasJob
  <1>3. OneVersion'
    BY InstallPortalEffect, <1>0 DEF SafetyInv, OneVersion
  <1>4. JournalIsSound'
    <2>1. /\ journal.phase = "backed_up" /\ journal.cursor = 0
          /\ journal.job = run.job /\ request = run.job
          /\ files.portal \in {journal.old, run.job.target}
          /\ files.updater = journal.old
      BY <1>0, InstallPortalEffect
      DEF SafetyInv, InstallingIsSound, Installing
    <2>2. /\ journal.old < journal.job.target
          /\ backup.portal = journal.old /\ backup.updater = journal.old
      BY <1>0, <2>1 DEF SafetyInv, JournalIsSound
    <2>3. /\ UNCHANGED <<backup, request, journal>>
          /\ files'.updater = files.updater
          /\ files'.portal \in {files.portal, run.job.target}
      BY <1>0, InstallPortalEffect
    <2>. QED
      BY <2>1, <2>2, <2>3 DEF JournalIsSound
  <1>5. ApplyingIsSound'
    BY InstallPortalEffect, <1>0 DEF SafetyInv, ApplyingIsSound, Applying
  <1>6. InstallingIsSound'
    BY InstallPortalEffect, <1>0 DEF SafetyInv, InstallingIsSound, Installing
  <1>7. UndoingIsSound'
    BY InstallPortalEffect, <1>0
    DEF SafetyInv, UndoingIsSound, Undoing, AllOld, InstallingIsSound,
        Installing, JournalIsSound
  <1>8. EndingIsSound'
    BY InstallPortalEffect, <1>0
    DEF SafetyInv, EndingIsSound, Ending, Installed, AllOld,
        InstallingIsSound, Installing, JournalIsSound
  <1>9. StatusOfRun'
    BY InstallPortalEffect, <1>0 DEF SafetyInv, StatusOfRun, Finished
  <1>10. StatusIsTrue'
    BY InstallPortalEffect, <1>0
    DEF SafetyInv, StatusIsTrue, Installed, Finished, Unsure, StatusOfRun
  <1>11. QuiescentCopy'
    BY InstallPortalEffect, <1>0 DEF SafetyInv, QuiescentCopy
  <1>12. ServingIsInstalled'
    BY InstallPortalEffect, <1>0
    DEF SafetyInv, ServingIsInstalled, QuiescentCopy
  <1>13. BackupHoldsOldRows'
    BY InstallPortalEffect, <1>0
    DEF SafetyInv, BackupHoldsOldRows, InstallingIsSound, Installing
  <1>14. SchemaFits'
    <2>1. files.portal = journal.old /\ journal.job = run.job
      BY <1>0, InstallPortalEffect
      DEF SafetyInv, InstallingIsSound, Installing
    <2>2. /\ files.db.schema \in Nat /\ files.portal \in Nat
          /\ run.job.target \in Nat
      BY <1>0, FileSetFields, VersionsAreNat DEF TypeOK, Jobs
    <2>3. files.portal < run.job.target
      BY <1>0, <2>1 DEF SafetyInv, JournalIsSound
    <2>4. /\ reboots' = reboots /\ files'.db = files.db
          /\ files'.portal \in {files.portal, run.job.target}
      BY <1>0, InstallPortalEffect, BoundsStay
    <2>. QED
      BY <2>2, <2>3, <2>4 DEF SafetyInv, SchemaFits
  <1>15. CopyFits'
    BY InstallPortalEffect, BoundsStay, <1>0
    DEF SafetyInv, CopyFits, InstallingIsSound, Installing
  <1>16. RequestIsNewer'
    BY InstallPortalEffect, <1>0 DEF SafetyInv, RequestIsNewer, Installed
  <1>. QED
    BY <1>1, <1>2, <1>3, <1>4, <1>5, <1>6, <1>7, <1>8, <1>9, <1>10, <1>11,
       <1>12, <1>13, <1>14, <1>15, <1>16
    DEF SafetyInv

LEMMA InstallUpdaterKeeps ==
  ASSUME SafetyInv, InstallUpdater
  PROVE  SafetyInv'
  <1>0. /\ TypeOK /\ ServingIsInstalled /\ run.restore = FALSE
        /\ journal # None /\ run.job \in Jobs
    BY NoRestore
    DEF SafetyInv, RunHasJob, InstallingIsSound, Installing, InstallUpdater
  <1>1. TypeOK'
    BY InstallUpdaterEffect, BoundsStay, <1>0 DEF SafetyInv, TypeOK
  <1>2. RunHasJob'
    BY InstallUpdaterEffect, <1>0 DEF SafetyInv, RunHasJob
  <1>3. OneVersion'
    BY InstallUpdaterEffect, <1>0 DEF SafetyInv, OneVersion
  <1>4. JournalIsSound'
    <2>1. /\ journal.phase = "backed_up" /\ journal.cursor = 0
          /\ journal.job = run.job /\ request = run.job
          /\ files.portal \in {journal.old, run.job.target}
          /\ files.updater = journal.old
      BY <1>0, InstallUpdaterEffect
      DEF SafetyInv, InstallingIsSound, Installing
    <2>2. /\ journal.old < journal.job.target
          /\ backup.portal = journal.old /\ backup.updater = journal.old
      BY <1>0, <2>1 DEF SafetyInv, JournalIsSound
    <2>3. /\ UNCHANGED <<backup, request, journal>>
          /\ files'.portal = files.portal
          /\ files'.updater \in {files.updater, run.job.target}
      BY <1>0, InstallUpdaterEffect
    <2>. QED
      BY <2>1, <2>2, <2>3 DEF JournalIsSound
  <1>5. ApplyingIsSound'
    BY InstallUpdaterEffect, <1>0 DEF SafetyInv, ApplyingIsSound, Applying
  <1>6. InstallingIsSound'
    BY InstallUpdaterEffect, <1>0 DEF SafetyInv, InstallingIsSound, Installing
  <1>7. UndoingIsSound'
    BY InstallUpdaterEffect, <1>0
    DEF SafetyInv, UndoingIsSound, Undoing, AllOld, InstallingIsSound,
        Installing, JournalIsSound
  <1>8. EndingIsSound'
    BY InstallUpdaterEffect, <1>0
    DEF SafetyInv, EndingIsSound, Ending, Installed, AllOld,
        InstallingIsSound, Installing, JournalIsSound
  <1>9. StatusOfRun'
    BY InstallUpdaterEffect, <1>0 DEF SafetyInv, StatusOfRun, Finished
  <1>10. StatusIsTrue'
    BY InstallUpdaterEffect, <1>0
    DEF SafetyInv, StatusIsTrue, Installed, Finished, Unsure, StatusOfRun
  <1>11. QuiescentCopy'
    BY InstallUpdaterEffect, <1>0 DEF SafetyInv, QuiescentCopy
  <1>12. ServingIsInstalled'
    BY InstallUpdaterEffect, <1>0
    DEF SafetyInv, ServingIsInstalled, QuiescentCopy
  <1>13. BackupHoldsOldRows'
    BY InstallUpdaterEffect, <1>0
    DEF SafetyInv, BackupHoldsOldRows, InstallingIsSound, Installing
  <1>14. SchemaFits'
    BY InstallUpdaterEffect, BoundsStay, <1>0 DEF SafetyInv, SchemaFits
  <1>15. CopyFits'
    BY InstallUpdaterEffect, BoundsStay, <1>0
    DEF SafetyInv, CopyFits, InstallingIsSound, Installing
  <1>16. RequestIsNewer'
    BY InstallUpdaterEffect, <1>0 DEF SafetyInv, RequestIsNewer, Installed
  <1>. QED
    BY <1>1, <1>2, <1>3, <1>4, <1>5, <1>6, <1>7, <1>8, <1>9, <1>10, <1>11,
       <1>12, <1>13, <1>14, <1>15, <1>16
    DEF SafetyInv

LEMMA RestartKeeps ==
  ASSUME SafetyInv, Restart
  PROVE  SafetyInv'
  <1>0. /\ TypeOK /\ ServingIsInstalled /\ run.restore = FALSE
        /\ journal # None /\ run.job \in Jobs
    BY NoRestore
    DEF SafetyInv, RunHasJob, InstallingIsSound, Installing, Restart
  <1>1. TypeOK'
    BY RestartEffect, BoundsStay, <1>0 DEF SafetyInv, TypeOK, FileSets
  <1>2. RunHasJob'
    BY RestartEffect, <1>0 DEF SafetyInv, RunHasJob
  <1>3. OneVersion'
    BY RestartEffect, <1>0 DEF SafetyInv, OneVersion
  <1>4. JournalIsSound'
    BY RestartEffect, <1>0
    DEF SafetyInv, JournalIsSound, AllOld, InstallingIsSound, Installing
  <1>5. ApplyingIsSound'
    BY RestartEffect, <1>0 DEF SafetyInv, ApplyingIsSound, Applying
  <1>6. InstallingIsSound'
    BY RestartEffect, <1>0 DEF SafetyInv, InstallingIsSound, Installing
  <1>7. UndoingIsSound'
    BY RestartEffect, <1>0
    DEF SafetyInv, UndoingIsSound, Undoing, AllOld, InstallingIsSound,
        Installing, JournalIsSound
  <1>8. EndingIsSound'
    BY RestartEffect, <1>0
    DEF SafetyInv, EndingIsSound, Ending, Installed, AllOld,
        InstallingIsSound, Installing, JournalIsSound
  <1>9. StatusOfRun'
    BY RestartEffect, <1>0 DEF SafetyInv, StatusOfRun, Finished
  <1>10. StatusIsTrue'
    BY RestartEffect, <1>0
    DEF SafetyInv, StatusIsTrue, Installed, Finished, Unsure, StatusOfRun
  <1>11. QuiescentCopy'
    BY RestartEffect, <1>0 DEF SafetyInv, QuiescentCopy
  <1>12. ServingIsInstalled'
    BY RestartEffect, <1>0 DEF SafetyInv, ServingIsInstalled, QuiescentCopy
  <1>13. BackupHoldsOldRows'
    BY RestartEffect, <1>0
    DEF SafetyInv, BackupHoldsOldRows, InstallingIsSound, Installing
  <1>14. SchemaFits'
    <2>1. files.db.schema \in Nat /\ files.portal \in Nat
      BY <1>0, FileSetFields, VersionsAreNat DEF TypeOK
    <2>2. /\ reboots' = reboots /\ files'.portal = files.portal
          /\ files'.db.schema \in {files.db.schema, files.portal}
      BY <1>0, RestartEffect, BoundsStay
    <2>. QED
      BY <2>1, <2>2 DEF SafetyInv, SchemaFits
  <1>15. CopyFits'
    BY RestartEffect, BoundsStay, <1>0
    DEF SafetyInv, CopyFits, InstallingIsSound, Installing
  <1>16. RequestIsNewer'
    BY RestartEffect, <1>0 DEF SafetyInv, RequestIsNewer, Installed
  <1>. QED
    BY <1>1, <1>2, <1>3, <1>4, <1>5, <1>6, <1>7, <1>8, <1>9, <1>10, <1>11,
       <1>12, <1>13, <1>14, <1>15, <1>16
    DEF SafetyInv

LEMMA CommitKeeps ==
  ASSUME SafetyInv, Commit
  PROVE  SafetyInv'
  <1>0. /\ TypeOK /\ ServingIsInstalled /\ run.restore = FALSE
        /\ journal # None /\ run.job \in Jobs
    BY NoRestore
    DEF SafetyInv, RunHasJob, InstallingIsSound, Installing, Commit
  <1>1. TypeOK'
    BY CommitEffect, BoundsStay, <1>0 DEF SafetyInv, TypeOK
  <1>2. RunHasJob'
    BY CommitEffect, <1>0 DEF SafetyInv, RunHasJob
  <1>3. OneVersion'
    BY CommitEffect, <1>0
    DEF SafetyInv, OneVersion, InstallingIsSound, Installing
  <1>4. JournalIsSound'
    BY CommitEffect, <1>0
    DEF SafetyInv, JournalIsSound, AllOld, InstallingIsSound, Installing
  <1>5. ApplyingIsSound'
    BY CommitEffect, <1>0 DEF SafetyInv, ApplyingIsSound, Applying
  <1>6. InstallingIsSound'
    BY CommitEffect, <1>0 DEF SafetyInv, InstallingIsSound, Installing
  <1>7. UndoingIsSound'
    BY CommitEffect, <1>0
    DEF SafetyInv, UndoingIsSound, Undoing, AllOld, InstallingIsSound,
        Installing, JournalIsSound
  <1>8. EndingIsSound'
    BY CommitEffect, <1>0
    DEF SafetyInv, EndingIsSound, Ending, Installed, AllOld,
        InstallingIsSound, Installing, JournalIsSound
  <1>9. StatusOfRun'
    BY CommitEffect, <1>0 DEF SafetyInv, StatusOfRun, Finished
  <1>10. StatusIsTrue'
    BY CommitEffect, <1>0
    DEF SafetyInv, StatusIsTrue, Installed, Finished, Unsure, StatusOfRun
  <1>11. QuiescentCopy'
    BY CommitEffect, <1>0 DEF SafetyInv, QuiescentCopy
  <1>12. ServingIsInstalled'
    BY CommitEffect, <1>0 DEF SafetyInv, ServingIsInstalled, QuiescentCopy
  <1>13. BackupHoldsOldRows'
    BY CommitEffect, <1>0
    DEF SafetyInv, BackupHoldsOldRows, InstallingIsSound, Installing
  <1>14. SchemaFits'
    BY CommitEffect, BoundsStay, <1>0 DEF SafetyInv, SchemaFits
  <1>15. CopyFits'
    BY CommitEffect, BoundsStay, <1>0
    DEF SafetyInv, CopyFits, InstallingIsSound, Installing
  <1>16. RequestIsNewer'
    <2>1. request = run.job /\ files.portal = run.job.target
      BY <1>0, CommitEffect DEF SafetyInv, InstallingIsSound, Installing
    <2>2. files.portal \in Nat
      BY <1>0, FileSetFields, VersionsAreNat DEF TypeOK
    <2>3. CASE journal' = None
      BY <1>0, <2>1, <2>2, <2>3, CommitEffect DEF RequestIsNewer, Installed
    <2>4. CASE journal' = journal
      BY <1>0, <2>4, CommitEffect DEF SafetyInv, RequestIsNewer, Installed
    <2>. QED
      BY <1>0, <2>3, <2>4, CommitEffect
  <1>. QED
    BY <1>1, <1>2, <1>3, <1>4, <1>5, <1>6, <1>7, <1>8, <1>9, <1>10, <1>11,
       <1>12, <1>13, <1>14, <1>15, <1>16
    DEF SafetyInv

-----------------------------------------------------------------------------
(* Undoing.                                                                *)

LEMMA UndoStopEffect ==
  ASSUME TypeOK, journal # None, UndoStop
  PROVE  /\ UNCHANGED <<files, backup, latest, used, starts, request, status,
                        journal>>
         /\ run.pc = "undo stop" /\ run' \in Runs /\ run'.job = run.job
         /\ Works \/ Fails
         /\ serving' \in {serving, None}
         /\ \/ /\ run'.restore = run.restore /\ serving' = None
               /\ \/ /\ run'.pc = "undo file" /\ run.restore
                     /\ journal.cursor < Len(Files)
                  \/ /\ \/ run'.pc = "undo start"
                        \/ /\ run'.pc = "reporting"
                           /\ run'.ending = "rolled_back"
                     /\ run.restore => journal.cursor = Len(Files)
            \/ run'.pc = "reporting" /\ run'.ending = "rollback_failed"
  <1>1. journal.cursor \in 0..Len(Files)
    BY DEF TypeOK, Journals
  <1>2. /\ UNCHANGED <<files, backup, latest, used, starts, request, status,
                       journal>>
        /\ run.pc = "undo stop" /\ (Works \/ Fails)
        /\ \/ serving' = None /\ run' = AfterStop(run, journal.cursor)
           \/ serving' \in {serving, None} /\ Finish("rollback_failed")
    BY DEF UndoStop, worldVars
  <1>3. CASE serving' = None /\ run' = AfterStop(run, journal.cursor)
    BY <1>1, <1>2, <1>3, AfterStopEffect DEF TypeOK
  <1>4. CASE serving' \in {serving, None} /\ Finish("rollback_failed")
    BY <1>2, <1>4, FinishEffect DEF TypeOK, Phases
  <1>. QED
    BY <1>2, <1>3, <1>4

LEMMA UndoneIsOld ==
  ASSUME SafetyInv, run.pc = "undo stop",
         run.restore => journal.cursor = Len(Files)
  PROVE  AllOld
  <1>1. CASE ~run.restore
    BY <1>1 DEF SafetyInv, UndoingIsSound, Undoing
  <1>2. CASE run.restore
    <2>1. journal.cursor = 3 /\ journal # None
      BY <1>2, FilesFacts DEF SafetyInv, UndoingIsSound, Undoing
    <2>. QED
      BY <2>1 DEF SafetyInv, JournalIsSound, AllOld
  <1>. QED
    BY <1>1, <1>2

LEMMA UndoStopKeeps ==
  ASSUME SafetyInv, UndoStop
  PROVE  SafetyInv'
  <1>0. TypeOK /\ journal # None /\ ServingIsInstalled
    BY DEF SafetyInv, UndoingIsSound, Undoing, UndoStop
  <1>1. TypeOK'
    BY UndoStopEffect, BoundsStay, <1>0 DEF SafetyInv, TypeOK
  <1>2. RunHasJob'
    BY UndoStopEffect, <1>0 DEF SafetyInv, RunHasJob
  <1>3. OneVersion'
    BY UndoStopEffect, <1>0 DEF SafetyInv, OneVersion
  <1>4. JournalIsSound'
    BY UndoStopEffect, <1>0
    DEF SafetyInv, JournalIsSound, AllOld, UndoingIsSound, Undoing
  <1>5. ApplyingIsSound'
    BY UndoStopEffect, <1>0 DEF SafetyInv, ApplyingIsSound, Applying
  <1>6. InstallingIsSound'
    BY UndoStopEffect, <1>0 DEF SafetyInv, InstallingIsSound, Installing
  <1>7. UndoingIsSound'
    <2>1. /\ journal.job = run.job
          /\ run.restore => journal.phase = "backed_up"
          /\ ~run.restore => AllOld
      BY <1>0, UndoStopEffect DEF SafetyInv, UndoingIsSound, Undoing
    <2>2. UNCHANGED AllOld /\ UNCHANGED journal
      BY <1>0, UndoStopEffect DEF AllOld
    <2>3. CASE run'.pc = "undo start"
      BY <1>0, <2>1, <2>2, <2>3, UndoStopEffect, UndoneIsOld
      DEF UndoingIsSound
    <2>4. CASE run'.pc = "undo file"
      BY <1>0, <2>1, <2>2, <2>4, UndoStopEffect DEF UndoingIsSound
    <2>. QED
      BY <1>0, <2>3, <2>4, UndoStopEffect DEF UndoingIsSound, Undoing
  <1>8. EndingIsSound'
    <2>1. UNCHANGED AllOld /\ UNCHANGED journal /\ journal.job = run.job
      BY <1>0, UndoStopEffect DEF SafetyInv, UndoingIsSound, Undoing, AllOld
    <2>2. CASE run'.pc = "reporting" /\ run'.ending = "rolled_back"
      BY <1>0, <2>1, <2>2, UndoStopEffect, UndoneIsOld DEF EndingIsSound
    <2>3. CASE run'.pc = "reporting" /\ run'.ending = "rollback_failed"
      BY <2>3 DEF EndingIsSound
    <2>. QED
      BY <1>0, <2>2, <2>3, UndoStopEffect DEF EndingIsSound, Ending
  <1>9. StatusOfRun'
    BY UndoStopEffect, <1>0 DEF SafetyInv, StatusOfRun, Finished
  <1>10. StatusIsTrue'
    BY UndoStopEffect, <1>0
    DEF SafetyInv, StatusIsTrue, Installed, Finished, Unsure, StatusOfRun
  <1>11. QuiescentCopy'
    BY UndoStopEffect, <1>0 DEF SafetyInv, QuiescentCopy
  <1>12. ServingIsInstalled'
    BY UndoStopEffect, <1>0 DEF SafetyInv, ServingIsInstalled
  <1>13. BackupHoldsOldRows'
    BY UndoStopEffect, <1>0 DEF SafetyInv, BackupHoldsOldRows
  <1>14. SchemaFits'
    BY UndoStopEffect, BoundsStay, <1>0 DEF SafetyInv, SchemaFits
  <1>15. CopyFits'
    BY UndoStopEffect, BoundsStay, <1>0 DEF SafetyInv, CopyFits
  <1>16. RequestIsNewer'
    BY UndoStopEffect, <1>0 DEF SafetyInv, RequestIsNewer, Installed
  <1>. QED
    BY <1>1, <1>2, <1>3, <1>4, <1>5, <1>6, <1>7, <1>8, <1>9, <1>10, <1>11,
       <1>12, <1>13, <1>14, <1>15, <1>16
    DEF SafetyInv

LEMMA UndoFileEffect ==
  ASSUME TypeOK, journal # None, journal.cursor < Len(Files), UndoFile
  PROVE  /\ UNCHANGED <<backup, serving, latest, used, starts, request, status,
                        journal>>
         /\ run.pc = "undo file" /\ run' \in Runs /\ run'.job = run.job
         /\ Works \/ Fails
         /\ files' \in FileSets
         /\ journal.cursor \in {0, 1, 2}
         /\ files'.db = files.db
              \/ (journal.cursor = 0 /\ files'.db = backup.db)
         /\ files'.updater = files.updater
              \/ (journal.cursor = 1 /\ files'.updater = backup.updater)
         /\ files'.portal = files.portal
              \/ (journal.cursor = 2 /\ files'.portal = backup.portal)
         /\ \/ /\ run'.pc = "undo mark" /\ run'.restore = run.restore
               /\ journal.cursor = 0 => files'.db = backup.db
               /\ journal.cursor = 1 => files'.updater = backup.updater
               /\ journal.cursor = 2 => files'.portal = backup.portal
            \/ run'.pc = "reporting" /\ run'.ending = "rollback_failed"
  <1> DEFINE name == Files[Len(Files) - journal.cursor]
             restored == [files EXCEPT ![name] = backup[name]]
  <1>1. journal.cursor \in {0, 1, 2}
    BY FilesFacts DEF TypeOK, Journals
  <1>2. /\ journal.cursor = 0 => name = "db"
        /\ journal.cursor = 1 => name = "updater"
        /\ journal.cursor = 2 => name = "portal"
    BY FilesFacts
  <1>4. restored \in FileSets
    BY <1>1, <1>2 DEF TypeOK, FileSets
  <1>5. /\ restored.db = IF journal.cursor = 0 THEN backup.db ELSE files.db
        /\ restored.updater = IF journal.cursor = 1 THEN backup.updater
                              ELSE files.updater
        /\ restored.portal = IF journal.cursor = 2 THEN backup.portal
                             ELSE files.portal
    BY <1>1, <1>2 DEF TypeOK, FileSets
  <1>6. /\ UNCHANGED <<backup, serving, latest, used, starts, request, status,
                       journal>>
        /\ run.pc = "undo file" /\ (Works \/ Fails)
        /\ \/ files' = restored /\ GoTo("undo mark")
           \/ files' \in {files, restored} /\ Finish("rollback_failed")
    BY DEF UndoFile, Maybe, worldVars
  <1> HIDE DEF name, restored
  <1>7. CASE files' = restored /\ GoTo("undo mark")
    BY <1>1, <1>4, <1>5, <1>6, <1>7, GoToEffect DEF TypeOK, Steps
  <1>8. CASE files' \in {files, restored} /\ Finish("rollback_failed")
    BY <1>1, <1>4, <1>5, <1>6, <1>8, FinishEffect DEF TypeOK, Phases
  <1>. QED
    BY <1>6, <1>7, <1>8

LEMMA UndoFileKeeps ==
  ASSUME SafetyInv, UndoFile
  PROVE  SafetyInv'
  <1>0. /\ TypeOK /\ journal # None /\ run.restore
        /\ journal.phase = "backed_up" /\ journal.cursor < Len(Files)
        /\ backup.portal = journal.old /\ backup.updater = journal.old
    BY DEF SafetyInv, UndoingIsSound, Undoing, JournalIsSound, UndoFile
  <1>1. TypeOK'
    BY UndoFileEffect, BoundsStay, <1>0 DEF SafetyInv, TypeOK
  <1>2. RunHasJob'
    BY UndoFileEffect, <1>0 DEF SafetyInv, RunHasJob
  <1>3. OneVersion'
    BY UndoFileEffect, <1>0 DEF SafetyInv, OneVersion
  <1>4. JournalIsSound'
    BY UndoFileEffect, <1>0
    DEF SafetyInv, JournalIsSound, AllOld, UndoingIsSound, Undoing
  <1>5. ApplyingIsSound'
    BY UndoFileEffect, <1>0 DEF SafetyInv, ApplyingIsSound, Applying
  <1>6. InstallingIsSound'
    BY UndoFileEffect, <1>0 DEF SafetyInv, InstallingIsSound, Installing
  <1>7. UndoingIsSound'
    BY UndoFileEffect, <1>0
    DEF SafetyInv, UndoingIsSound, Undoing, AllOld, JournalIsSound
  <1>8. EndingIsSound'
    BY UndoFileEffect, <1>0
    DEF SafetyInv, EndingIsSound, Ending, Installed, AllOld
  <1>9. StatusOfRun'
    BY UndoFileEffect, <1>0 DEF SafetyInv, StatusOfRun, Finished
  <1>10. StatusIsTrue'
    BY UndoFileEffect, <1>0
    DEF SafetyInv, StatusIsTrue, Installed, Finished, Unsure, StatusOfRun
  <1>11. QuiescentCopy'
    BY UndoFileEffect, <1>0 DEF SafetyInv, QuiescentCopy
  <1>12. ServingIsInstalled'
    BY UndoFileEffect, <1>0 DEF SafetyInv, ServingIsInstalled, QuiescentCopy
  <1>13. BackupHoldsOldRows'
    BY UndoFileEffect, <1>0 DEF SafetyInv, BackupHoldsOldRows
  <1>14. SchemaFits'
    <2>1. /\ files.db.schema \in Nat /\ files.portal \in Nat
          /\ backup.db.schema \in Nat /\ journal.old \in Nat
          /\ journal.job.target \in Nat
      BY <1>0, FileSetFields, VersionsAreNat DEF TypeOK, Journals, Jobs
    <2>2. journal.old <= files.portal
      BY <1>0, <2>1 DEF SafetyInv, JournalIsSound
    <2>3. reboots = 0 => /\ files.db.schema <= files.portal
                         /\ backup.db.schema <= journal.old
                         /\ journal.cursor # 0
                              => files.db.schema <= journal.old
      BY <1>0 DEF SafetyInv, SchemaFits, CopyFits
    <2>4. /\ reboots' = reboots
          /\ \/ files'.db = files.db
             \/ journal.cursor = 0 /\ files'.db = backup.db
          /\ \/ files'.portal = files.portal
             \/ journal.cursor = 2 /\ files'.portal = journal.old
      BY <1>0, UndoFileEffect, BoundsStay
    <2>5. CASE files'.portal = files.portal
      BY <2>1, <2>2, <2>3, <2>4, <2>5 DEF SchemaFits
    <2>6. CASE journal.cursor = 2 /\ files'.portal = journal.old
      BY <2>1, <2>2, <2>3, <2>4, <2>6 DEF SchemaFits
    <2>. QED
      BY <2>4, <2>5, <2>6
  <1>15. CopyFits'
    BY UndoFileEffect, BoundsStay, <1>0 DEF SafetyInv, CopyFits
  <1>16. RequestIsNewer'
    BY UndoFileEffect, <1>0 DEF SafetyInv, RequestIsNewer, Installed
  <1>. QED
    BY <1>1, <1>2, <1>3, <1>4, <1>5, <1>6, <1>7, <1>8, <1>9, <1>10, <1>11,
       <1>12, <1>13, <1>14, <1>15, <1>16
    DEF SafetyInv

LEMMA UndoMarkEffect ==
  ASSUME TypeOK, journal # None, journal.cursor < Len(Files), UndoMark
  PROVE  /\ UNCHANGED <<files, backup, serving, latest, used, starts, request,
                        status>>
         /\ run.pc = "undo mark" /\ run' \in Runs /\ run'.job = run.job
         /\ Works \/ Fails
         /\ \/ journal' = journal
            \/ /\ journal' \in Journals /\ journal' # None
               /\ journal'.job = journal.job /\ journal'.phase = journal.phase
               /\ journal'.old = journal.old
               /\ journal'.cursor = journal.cursor + 1
         /\ journal.cursor \in {0, 1, 2}
         /\ \/ /\ run'.restore = run.restore /\ journal' # None
               /\ journal'.cursor = journal.cursor + 1
               /\ \/ /\ run'.pc = "undo file" /\ run.restore
                     /\ journal'.cursor < Len(Files)
                  \/ /\ \/ run'.pc = "undo start"
                        \/ /\ run'.pc = "reporting"
                           /\ run'.ending = "rolled_back"
                     /\ run.restore => journal.cursor = 2
            \/ run'.pc = "reporting" /\ run'.ending = "rollback_failed"
  <1> DEFINE marked == [journal EXCEPT !.cursor = @ + 1]
  <1>1. journal.cursor \in {0, 1, 2}
    BY FilesFacts DEF TypeOK, Journals
  <1>2. /\ marked \in Journals /\ marked # None
        /\ marked.job = journal.job /\ marked.phase = journal.phase
        /\ marked.old = journal.old /\ marked.cursor = journal.cursor + 1
    BY <1>1, FilesFacts, UpdaterConstants DEF TypeOK, Journals
  <1>3. /\ UNCHANGED <<files, backup, serving, latest, used, starts, request,
                       status>>
        /\ run.pc = "undo mark" /\ (Works \/ Fails)
        /\ \/ journal' = marked /\ run' = AfterStop(run, marked.cursor)
           \/ journal' \in {journal, marked} /\ Finish("rollback_failed")
    BY DEF UndoMark, Maybe, worldVars
  <1> HIDE DEF marked
  <1>4. CASE journal' = marked /\ run' = AfterStop(run, marked.cursor)
    <2>1. marked.cursor \in 0..Len(Files)
      BY <1>1, <1>2, FilesFacts
    <2>2. /\ run' \in Runs /\ run'.job = run.job /\ run'.restore = run.restore
          /\ \/ /\ run'.pc = "undo file" /\ run.restore
                /\ marked.cursor < Len(Files)
             \/ /\ \/ run'.pc = "undo start"
                   \/ run'.pc = "reporting" /\ run'.ending = "rolled_back"
                /\ run.restore => marked.cursor = Len(Files)
      BY <1>4, <2>1, AfterStopEffect DEF TypeOK
    <2>3. marked.cursor = Len(Files) => journal.cursor = 2
      BY <1>1, <1>2, FilesFacts
    <2>. QED
      BY <1>1, <1>2, <1>3, <1>4, <2>2, <2>3
  <1>5. CASE journal' \in {journal, marked} /\ Finish("rollback_failed")
    BY <1>1, <1>2, <1>3, <1>5, FinishEffect DEF TypeOK, Phases
  <1>. QED
    BY <1>3, <1>4, <1>5

LEMMA UndoMarkKeeps ==
  ASSUME SafetyInv, UndoMark
  PROVE  SafetyInv'
  <1>0. /\ TypeOK /\ journal # None /\ run.restore
        /\ journal.phase = "backed_up" /\ journal.cursor < Len(Files)
    BY DEF SafetyInv, UndoingIsSound, Undoing, UndoMark
  <1>1. TypeOK'
    BY UndoMarkEffect, BoundsStay, <1>0 DEF SafetyInv, TypeOK
  <1>2. RunHasJob'
    BY UndoMarkEffect, <1>0 DEF SafetyInv, RunHasJob
  <1>3. OneVersion'
    BY UndoMarkEffect, <1>0 DEF SafetyInv, OneVersion
  <1>4. JournalIsSound'
    <2>1. /\ UNCHANGED <<files, backup, request>>
          /\ \/ journal' = journal
             \/ /\ journal'.job = journal.job /\ journal'.old = journal.old
                /\ journal'.phase = journal.phase
                /\ journal'.cursor = journal.cursor + 1
          /\ journal.cursor \in {0, 1, 2}
      BY <1>0, UndoMarkEffect
    <2>2. /\ journal.cursor # 0 => files.updater = journal.old
          /\ journal.cursor = 2 => files.portal = journal.old
      BY <1>0, <2>1
      DEF SafetyInv, JournalIsSound, UndoingIsSound, Undoing, UndoMark
    <2>. QED
      BY <1>0, <2>1, <2>2 DEF SafetyInv, JournalIsSound, AllOld
  <1>5. ApplyingIsSound'
    BY UndoMarkEffect, <1>0 DEF SafetyInv, ApplyingIsSound, Applying
  <1>6. InstallingIsSound'
    BY UndoMarkEffect, <1>0 DEF SafetyInv, InstallingIsSound, Installing
  <1>7. UndoingIsSound'
    <2>1. journal.job = run.job
      BY <1>0 DEF SafetyInv, UndoingIsSound, Undoing, UndoMark
    <2>2. run'.pc = "undo file" => journal'.cursor < Len(Files)
      BY <1>0, UndoMarkEffect
    <2>4. run'.pc \in Undoing
            => /\ journal' # None /\ journal'.job = run'.job /\ run'.restore
               /\ journal'.phase = "backed_up"
      BY <1>0, <2>1, UndoMarkEffect DEF Undoing
    <2>3. run'.pc = "undo start" => AllOld'
      BY <1>0, UndoMarkEffect DEF SafetyInv, UndoingIsSound, Undoing,
         JournalIsSound, AllOld
    <2>. QED
      BY <1>0, <2>2, <2>3, <2>4, UndoMarkEffect DEF UndoingIsSound
  <1>8. EndingIsSound'
    <2>1. journal.job = run.job
      BY <1>0 DEF SafetyInv, UndoingIsSound, Undoing, UndoMark
    <2>2. CASE run'.pc = "reporting" /\ run'.ending = "rolled_back"
      <3>1. AllOld'
        BY <1>0, <2>2, UndoMarkEffect
        DEF SafetyInv, UndoingIsSound, Undoing, JournalIsSound, AllOld
      <3>2. journal' # None /\ journal'.job = run'.job
        BY <1>0, <2>1, <2>2, UndoMarkEffect
      <3>. QED
        BY <2>2, <3>1, <3>2 DEF EndingIsSound
    <2>3. CASE run'.pc = "reporting" /\ run'.ending = "rollback_failed"
      BY <2>3 DEF EndingIsSound
    <2>. QED
      BY <1>0, <2>2, <2>3, UndoMarkEffect DEF EndingIsSound, Ending
  <1>9. StatusOfRun'
    BY UndoMarkEffect, <1>0 DEF SafetyInv, StatusOfRun, Finished
  <1>10. StatusIsTrue'
    BY UndoMarkEffect, <1>0
    DEF SafetyInv, StatusIsTrue, Installed, Finished, Unsure, StatusOfRun
  <1>11. QuiescentCopy'
    BY UndoMarkEffect, <1>0 DEF SafetyInv, QuiescentCopy
  <1>12. ServingIsInstalled'
    BY UndoMarkEffect, <1>0 DEF SafetyInv, ServingIsInstalled, QuiescentCopy
  <1>13. BackupHoldsOldRows'
    BY UndoMarkEffect, <1>0 DEF SafetyInv, BackupHoldsOldRows
  <1>14. SchemaFits'
    BY UndoMarkEffect, BoundsStay, <1>0 DEF SafetyInv, SchemaFits
  <1>15. CopyFits'
    BY UndoMarkEffect, BoundsStay, <1>0 DEF SafetyInv, CopyFits
  <1>16. RequestIsNewer'
    BY UndoMarkEffect, <1>0 DEF SafetyInv, RequestIsNewer, Installed
  <1>. QED
    BY <1>1, <1>2, <1>3, <1>4, <1>5, <1>6, <1>7, <1>8, <1>9, <1>10, <1>11,
       <1>12, <1>13, <1>14, <1>15, <1>16
    DEF SafetyInv

LEMMA UndoStartEffect ==
  ASSUME TypeOK, ServingIsInstalled, UndoStart
  PROVE  /\ UNCHANGED <<backup, latest, used, starts, request, status, journal>>
         /\ run.pc = "undo start" /\ run' \in Runs /\ run'.job = run.job
         /\ Works \/ Fails
         /\ files' \in FileSets /\ files'.portal = files.portal
         /\ files'.updater = files.updater
         /\ files'.db.rows = files.db.rows
         /\ serving' \in {serving, files.portal}
         /\ files'.db.schema \in {files.db.schema, files.portal}
         /\ run'.pc = "reporting"
         /\ run'.ending \in {"rolled_back", "rollback_failed"}
  <1>1. /\ UNCHANGED <<backup, latest, used, starts, request, status, journal>>
        /\ run.pc = "undo start" /\ (Works \/ Fails)
        /\ StartPortal(files) \/ UNCHANGED <<serving, files>>
        /\ Finish("rolled_back") \/ Finish("rollback_failed")
    BY DEF UndoStart, worldVars
  <1>2. /\ files' \in FileSets /\ files'.portal = files.portal
        /\ files'.updater = files.updater
        /\ files'.db.rows = files.db.rows
        /\ serving' \in {serving, files.portal}
        /\ files'.db.schema \in {files.db.schema, files.portal}
    BY <1>1, StartEffect DEF TypeOK
  <1>. QED
    BY <1>1, <1>2, FinishEffect DEF TypeOK, Phases

LEMMA UndoStartKeeps ==
  ASSUME SafetyInv, UndoStart
  PROVE  SafetyInv'
  <1>0. TypeOK /\ journal # None /\ ServingIsInstalled
    BY DEF SafetyInv, UndoingIsSound, Undoing, UndoStart
  <1>1. TypeOK'
    BY UndoStartEffect, BoundsStay, <1>0 DEF SafetyInv, TypeOK, FileSets
  <1>2. RunHasJob'
    BY UndoStartEffect, <1>0 DEF SafetyInv, RunHasJob
  <1>3. OneVersion'
    BY UndoStartEffect, <1>0 DEF SafetyInv, OneVersion
  <1>4. JournalIsSound'
    BY UndoStartEffect, <1>0
    DEF SafetyInv, JournalIsSound, AllOld, UndoingIsSound, Undoing
  <1>5. ApplyingIsSound'
    BY UndoStartEffect, <1>0 DEF SafetyInv, ApplyingIsSound, Applying
  <1>6. InstallingIsSound'
    BY UndoStartEffect, <1>0 DEF SafetyInv, InstallingIsSound, Installing
  <1>7. UndoingIsSound'
    BY UndoStartEffect, <1>0
    DEF SafetyInv, UndoingIsSound, Undoing, AllOld, JournalIsSound
  <1>8. EndingIsSound'
    BY UndoStartEffect, <1>0
    DEF SafetyInv, EndingIsSound, Ending, Installed, AllOld, UndoingIsSound,
        Undoing
  <1>9. StatusOfRun'
    BY UndoStartEffect, <1>0 DEF SafetyInv, StatusOfRun, Finished
  <1>10. StatusIsTrue'
    BY UndoStartEffect, <1>0
    DEF SafetyInv, StatusIsTrue, Installed, Finished, Unsure, StatusOfRun
  <1>11. QuiescentCopy'
    BY UndoStartEffect, <1>0 DEF SafetyInv, QuiescentCopy
  <1>12. ServingIsInstalled'
    BY UndoStartEffect, <1>0 DEF SafetyInv, ServingIsInstalled
  <1>13. BackupHoldsOldRows'
    BY UndoStartEffect, <1>0 DEF SafetyInv, BackupHoldsOldRows
  <1>14. SchemaFits'
    <2>1. files.db.schema \in Nat /\ files.portal \in Nat
      BY <1>0, FileSetFields, VersionsAreNat DEF TypeOK
    <2>2. /\ reboots' = reboots /\ files'.portal = files.portal
          /\ files'.db.schema \in {files.db.schema, files.portal}
      BY <1>0, UndoStartEffect, BoundsStay
    <2>. QED
      BY <2>1, <2>2 DEF SafetyInv, SchemaFits
  <1>15. CopyFits'
    <2>1. files.portal = journal.old
      BY <1>0 DEF SafetyInv, UndoingIsSound, Undoing, AllOld, UndoStart
    <2>2. UNCHANGED <<backup, journal>> /\ files'.portal = files.portal
      BY <1>0, UndoStartEffect
    <2>3. UNCHANGED reboots
      BY <1>0, UndoStartEffect, BoundsStay
    <2>. QED
      BY <1>14, <2>1, <2>2, <2>3 DEF SafetyInv, SchemaFits, CopyFits
  <1>16. RequestIsNewer'
    BY UndoStartEffect, <1>0 DEF SafetyInv, RequestIsNewer, Installed
  <1>. QED
    BY <1>1, <1>2, <1>3, <1>4, <1>5, <1>6, <1>7, <1>8, <1>9, <1>10, <1>11,
       <1>12, <1>13, <1>14, <1>15, <1>16
    DEF SafetyInv

-----------------------------------------------------------------------------
(* The end of a run.                                                       *)

LEMMA ReportEndEffect ==
  ASSUME TypeOK, run.job \in Jobs, ReportEnd
  PROVE  /\ UNCHANGED <<files, backup, serving, latest, used, starts, request,
                        journal>>
         /\ run.pc = "reporting" /\ run' \in Runs
         /\ Works \/ Fails
         /\ \/ status' = status
            \/ /\ status' \in Statuses /\ status' # None
               /\ status'.op = run.job.op /\ status'.target = run.job.target
               /\ status'.phase = run.ending
               /\ status'.state = IF run.ending = "completed"
                                  THEN "succeeded" ELSE "failed"
         /\ \/ run' = Off
            \/ /\ run'.pc = "consuming" /\ run'.job = run.job
               /\ run'.ending = run.ending /\ run.ending # "rollback_failed"
               /\ status' # None /\ status'.state # "running"
               /\ status'.op = run.job.op
  <1> DEFINE told == [op |-> run.job.op, target |-> run.job.target,
                      state |-> IF run.ending = "completed" THEN "succeeded"
                                ELSE "failed",
                      phase |-> run.ending]
  <1>1. /\ told \in Statuses /\ told # None
        /\ told.op = run.job.op /\ told.target = run.job.target
        /\ told.phase = run.ending
        /\ told.state = IF run.ending = "completed" THEN "succeeded"
                        ELSE "failed"
    BY UpdaterConstants DEF TypeOK, Runs, Statuses, Jobs
  <1>2. /\ UNCHANGED <<files, backup, serving, latest, used, starts, request,
                       journal>>
        /\ run.pc = "reporting" /\ (Works \/ Fails)
        /\ \/ /\ status' = told
              /\ run' = IF run.ending = "rollback_failed" THEN Off
                        ELSE [run EXCEPT !.pc = "consuming"]
           \/ status' \in {status, told} /\ run' = Off
    BY DEF ReportEnd, Maybe, worldVars
  <1> HIDE DEF told
  <1>3. CASE run' = Off
    BY <1>1, <1>2, <1>3, OffFields
  <1>4. CASE /\ status' = told /\ run.ending # "rollback_failed"
             /\ run' = [run EXCEPT !.pc = "consuming"]
    <2>1. /\ run' \in Runs /\ run'.pc = "consuming" /\ run'.job = run.job
          /\ run'.ending = run.ending
      BY <1>4 DEF TypeOK, Runs, Steps
    <2>. QED
      BY <1>1, <1>2, <1>4, <2>1
  <1>. QED
    BY <1>2, <1>3, <1>4

LEMMA RequestLeftCases ==
  \/ RequestLeft = request
  \/ /\ RequestLeft = None
     /\ \/ run.ending # "rolled_back"
        \/ request # None => request.op = run.job.op
  BY DEF RequestLeft

LEMMA ConsumeRequestEffect ==
  ASSUME TypeOK, ConsumeRequest
  PROVE  /\ UNCHANGED <<files, backup, serving, latest, used, starts, status,
                        journal>>
         /\ run.pc = "consuming" /\ run' \in Runs
         /\ Works \/ Fails
         /\ \/ request' = request
            \/ /\ request' = None
               /\ \/ run.ending # "rolled_back"
                  \/ request # None => request.op = run.job.op
         /\ \/ run' = Off
            \/ /\ run'.pc = "clearing" /\ run'.job = run.job
               /\ run'.ending = run.ending /\ run.ending = "rolled_back"
  <1>1. /\ UNCHANGED <<files, backup, serving, latest, used, starts, status,
                       journal>>
        /\ run.pc = "consuming" /\ (Works \/ Fails)
        /\ request' \in {request, RequestLeft}
        /\ \/ run' = Off
           \/ /\ run.ending = "rolled_back"
              /\ run' = [run EXCEPT !.pc = "clearing"]
    BY DEF ConsumeRequest, Maybe, worldVars
  <1>2. CASE run' = Off
    BY <1>1, <1>2, RequestLeftCases, OffFields
  <1>3. CASE /\ run.ending = "rolled_back"
             /\ run' = [run EXCEPT !.pc = "clearing"]
    <2>1. /\ run' \in Runs /\ run'.pc = "clearing" /\ run'.job = run.job
          /\ run'.ending = run.ending
      BY <1>3 DEF TypeOK, Runs, Steps
    <2>. QED
      BY <1>1, <1>3, <2>1, RequestLeftCases
  <1>. QED
    BY <1>1, <1>2, <1>3

LEMMA ClearJournalEffect ==
  ASSUME TypeOK, ClearJournal
  PROVE  /\ UNCHANGED <<files, backup, serving, latest, used, starts, request,
                        status>>
         /\ run.pc = "clearing" /\ run' = Off
         /\ Works \/ Fails
         /\ journal' \in {journal, None}
  BY DEF ClearJournal, Maybe, worldVars

LEMMA ReportIsTrue ==
  ASSUME SafetyInv, run.pc = "reporting",
         run.ending \notin {"rollback_failed", "verifying"}
  PROVE  IF run.ending = "completed" THEN Installed = run.job.target
         ELSE Installed < run.job.target
  <1>1. CASE run.ending = "completed"
    BY <1>1 DEF SafetyInv, EndingIsSound, Ending, Installed
  <1>2. CASE run.ending = "rolled_back"
    BY <1>2
    DEF SafetyInv, EndingIsSound, Ending, JournalIsSound, Installed
  <1>3. CASE run.ending \in {"checking", "manual_required", "backing_up"}
    BY <1>3 DEF SafetyInv, EndingIsSound, Ending, Installed
  <1>. QED
    BY <1>1, <1>2, <1>3 DEF SafetyInv, EndingIsSound, Ending

LEMMA ReportEndKeeps ==
  ASSUME SafetyInv, ReportEnd
  PROVE  SafetyInv'
  <1>0. TypeOK /\ run.job \in Jobs
    BY DEF SafetyInv, RunHasJob, ReportEnd
  <1>1. TypeOK'
    BY ReportEndEffect, BoundsStay, OffFields, <1>0 DEF SafetyInv, TypeOK
  <1>2. RunHasJob'
    BY ReportEndEffect, OffFields, <1>0 DEF SafetyInv, RunHasJob
  <1>3. OneVersion'
    BY ReportEndEffect, OffFields, <1>0 DEF SafetyInv, OneVersion
  <1>4. JournalIsSound'
    BY ReportEndEffect, OffFields, <1>0
    DEF SafetyInv, JournalIsSound, AllOld, EndingIsSound, Ending
  <1>5. ApplyingIsSound'
    BY ReportEndEffect, OffFields, <1>0
    DEF SafetyInv, ApplyingIsSound, Applying
  <1>6. InstallingIsSound'
    BY ReportEndEffect, OffFields, <1>0
    DEF SafetyInv, InstallingIsSound, Installing
  <1>7. UndoingIsSound'
    BY ReportEndEffect, OffFields, <1>0
    DEF SafetyInv, UndoingIsSound, Undoing, AllOld
  <1>8. EndingIsSound'
    BY ReportEndEffect, OffFields, <1>0
    DEF SafetyInv, EndingIsSound, Ending, Installed, AllOld
  <1>9. StatusOfRun'
    BY ReportEndEffect, OffFields, <1>0 DEF SafetyInv, StatusOfRun, Finished
  <1>10. StatusIsTrue'
    <2>1. UNCHANGED Installed
      BY <1>0, ReportEndEffect DEF Installed
    <2>2. CASE status' = status
      BY <2>1, <2>2 DEF SafetyInv, StatusIsTrue, Finished, Unsure
    <2>3. CASE /\ status' # None /\ status'.target = run.job.target
               /\ status'.phase = run.ending
               /\ status'.state = IF run.ending = "completed"
                                  THEN "succeeded" ELSE "failed"
      BY <1>0, <2>1, <2>3, ReportEndEffect, ReportIsTrue
      DEF StatusIsTrue, Finished, Unsure
    <2>. QED
      BY <1>0, <2>2, <2>3, ReportEndEffect
  <1>11. QuiescentCopy'
    BY ReportEndEffect, OffFields, <1>0 DEF SafetyInv, QuiescentCopy
  <1>12. ServingIsInstalled'
    BY ReportEndEffect, OffFields, <1>0 DEF SafetyInv, ServingIsInstalled
  <1>13. BackupHoldsOldRows'
    BY ReportEndEffect, OffFields, <1>0 DEF SafetyInv, BackupHoldsOldRows
  <1>14. SchemaFits'
    BY ReportEndEffect, BoundsStay, OffFields, <1>0 DEF SafetyInv, SchemaFits
  <1>15. CopyFits'
    BY ReportEndEffect, BoundsStay, OffFields, <1>0 DEF SafetyInv, CopyFits
  <1>16. RequestIsNewer'
    BY ReportEndEffect, OffFields, <1>0
    DEF SafetyInv, RequestIsNewer, Installed
  <1>. QED
    BY <1>1, <1>2, <1>3, <1>4, <1>5, <1>6, <1>7, <1>8, <1>9, <1>10, <1>11,
       <1>12, <1>13, <1>14, <1>15, <1>16
    DEF SafetyInv

LEMMA ConsumeRequestKeeps ==
  ASSUME SafetyInv, ConsumeRequest
  PROVE  SafetyInv'
  <1>0. TypeOK /\ run.job \in Jobs
    BY DEF SafetyInv, RunHasJob, ConsumeRequest
  <1>1. TypeOK'
    BY ConsumeRequestEffect, BoundsStay, OffFields, <1>0 DEF SafetyInv, TypeOK
  <1>2. RunHasJob'
    BY ConsumeRequestEffect, OffFields, <1>0 DEF SafetyInv, RunHasJob
  <1>3. OneVersion'
    BY ConsumeRequestEffect, OffFields, <1>0 DEF SafetyInv, OneVersion
  <1>4. JournalIsSound'
    BY ConsumeRequestEffect, OffFields, <1>0
    DEF SafetyInv, JournalIsSound, AllOld, EndingIsSound, Ending, RunHasJob,
        Journals
  <1>5. ApplyingIsSound'
    BY ConsumeRequestEffect, OffFields, <1>0
    DEF SafetyInv, ApplyingIsSound, Applying
  <1>6. InstallingIsSound'
    BY ConsumeRequestEffect, OffFields, <1>0
    DEF SafetyInv, InstallingIsSound, Installing
  <1>7. UndoingIsSound'
    BY ConsumeRequestEffect, OffFields, <1>0
    DEF SafetyInv, UndoingIsSound, Undoing, AllOld
  <1>8. EndingIsSound'
    BY ConsumeRequestEffect, OffFields, <1>0
    DEF SafetyInv, EndingIsSound, Ending, Installed, AllOld
  <1>9. StatusOfRun'
    BY ConsumeRequestEffect, OffFields, <1>0
    DEF SafetyInv, StatusOfRun, Finished
  <1>10. StatusIsTrue'
    BY ConsumeRequestEffect, OffFields, <1>0
    DEF SafetyInv, StatusIsTrue, Installed, Finished, Unsure
  <1>11. QuiescentCopy'
    BY ConsumeRequestEffect, OffFields, <1>0 DEF SafetyInv, QuiescentCopy
  <1>12. ServingIsInstalled'
    BY ConsumeRequestEffect, OffFields, <1>0 DEF SafetyInv, ServingIsInstalled
  <1>13. BackupHoldsOldRows'
    BY ConsumeRequestEffect, OffFields, <1>0 DEF SafetyInv, BackupHoldsOldRows
  <1>14. SchemaFits'
    BY ConsumeRequestEffect, BoundsStay, OffFields, <1>0
    DEF SafetyInv, SchemaFits
  <1>15. CopyFits'
    BY ConsumeRequestEffect, BoundsStay, OffFields, <1>0
    DEF SafetyInv, CopyFits
  <1>16. RequestIsNewer'
    BY ConsumeRequestEffect, OffFields, <1>0
    DEF SafetyInv, RequestIsNewer, Installed
  <1>. QED
    BY <1>1, <1>2, <1>3, <1>4, <1>5, <1>6, <1>7, <1>8, <1>9, <1>10, <1>11,
       <1>12, <1>13, <1>14, <1>15, <1>16
    DEF SafetyInv

LEMMA ClearJournalKeeps ==
  ASSUME SafetyInv, ClearJournal
  PROVE  SafetyInv'
  <1>0. TypeOK /\ run.job \in Jobs
    BY DEF SafetyInv, RunHasJob, ClearJournal
  <1>1. TypeOK'
    BY ClearJournalEffect, BoundsStay, OffFields, <1>0 DEF SafetyInv, TypeOK
  <1>2. RunHasJob'
    BY ClearJournalEffect, OffFields, <1>0 DEF SafetyInv, RunHasJob
  <1>3. OneVersion'
    BY ClearJournalEffect, OffFields, <1>0
    DEF SafetyInv, OneVersion, EndingIsSound, Ending, AllOld
  <1>4. JournalIsSound'
    BY ClearJournalEffect, OffFields, <1>0
    DEF SafetyInv, JournalIsSound, AllOld, EndingIsSound, Ending
  <1>5. ApplyingIsSound'
    BY ClearJournalEffect, OffFields, <1>0
    DEF SafetyInv, ApplyingIsSound, Applying
  <1>6. InstallingIsSound'
    BY ClearJournalEffect, OffFields, <1>0
    DEF SafetyInv, InstallingIsSound, Installing
  <1>7. UndoingIsSound'
    BY ClearJournalEffect, OffFields, <1>0
    DEF SafetyInv, UndoingIsSound, Undoing, AllOld
  <1>8. EndingIsSound'
    BY ClearJournalEffect, OffFields, <1>0
    DEF SafetyInv, EndingIsSound, Ending, Installed, AllOld
  <1>9. StatusOfRun'
    BY ClearJournalEffect, OffFields, <1>0
    DEF SafetyInv, StatusOfRun, Finished
  <1>10. StatusIsTrue'
    BY ClearJournalEffect, OffFields, <1>0
    DEF SafetyInv, StatusIsTrue, Installed, Finished, Unsure, EndingIsSound,
        Ending, AllOld
  <1>11. QuiescentCopy'
    BY ClearJournalEffect, OffFields, <1>0 DEF SafetyInv, QuiescentCopy
  <1>12. ServingIsInstalled'
    BY ClearJournalEffect, OffFields, <1>0 DEF SafetyInv, ServingIsInstalled
  <1>13. BackupHoldsOldRows'
    BY ClearJournalEffect, OffFields, <1>0 DEF SafetyInv, BackupHoldsOldRows
  <1>14. SchemaFits'
    BY ClearJournalEffect, BoundsStay, OffFields, <1>0
    DEF SafetyInv, SchemaFits
  <1>15. CopyFits'
    BY ClearJournalEffect, BoundsStay, OffFields, <1>0 DEF SafetyInv, CopyFits
  <1>16. RequestIsNewer'
    BY ClearJournalEffect, OffFields, <1>0
    DEF SafetyInv, RequestIsNewer, Installed, EndingIsSound, Ending, AllOld
  <1>. QED
    BY <1>1, <1>2, <1>3, <1>4, <1>5, <1>6, <1>7, <1>8, <1>9, <1>10, <1>11,
       <1>12, <1>13, <1>14, <1>15, <1>16
    DEF SafetyInv

-----------------------------------------------------------------------------
(* The invariant and its consequences.                                     *)

LEMMA InitSafety == Init => SafetyInv
  <1> SUFFICES ASSUME Init PROVE SafetyInv
    OBVIOUS
  <1>1. 1 \in Versions /\ Off \in Runs /\ Off.pc = "off"
    BY UpdaterConstants, OffFields DEF Versions
  <1>2. /\ FirstFiles \in FileSets /\ FirstFiles.portal = 1
        /\ FirstFiles.updater = 1 /\ FirstFiles.db.schema = 1
    BY <1>1 DEF FirstFiles, FileSets, Databases
  <1>3. TypeOK
    BY <1>1, <1>2, UpdaterConstants DEF Init, TypeOK
  <1>. QED
    BY <1>1, <1>2, <1>3
    DEF Init, SafetyInv, RunHasJob, OneVersion, JournalIsSound,
        ApplyingIsSound, InstallingIsSound, UndoingIsSound, EndingIsSound,
        Applying, Installing, Undoing, Ending, StatusOfRun, StatusIsTrue,
        Finished, QuiescentCopy, ServingIsInstalled, BackupHoldsOldRows,
        SchemaFits, CopyFits, RequestIsNewer

LEMMA SafetyStep == SafetyInv /\ [Next]_vars => SafetyInv'
  <1> SUFFICES ASSUME SafetyInv, [Next]_vars PROVE SafetyInv'
    OBVIOUS
  <1>1. ASSUME NEW op \in Ops, NEW v \in Versions, Apply(op, v)
        PROVE  SafetyInv'
    BY <1>1, ApplyKeeps
  <1>2. CASE \/ PublishRelease \/ WriteRow \/ OperatorStops \/ Kill \/ Reboot
             \/ PathUnitFails
    BY <1>2, PublishReleaseKeeps, WriteRowKeeps, OperatorStopsKeeps,
       KillKeeps, RebootKeeps, PathUnitFailsKeeps
  <1>3. CASE UpdaterStep
    BY <1>3, RecoverKeeps, ConsumeFinishedRequestKeeps,
       BeginUpdateOperationKeeps, InstalledAlreadyKeeps, PrepareRefusesKeeps,
       PrepareUpdateKeeps, ProbeServiceKeeps, OpenJournalKeeps,
       StopForBackupKeeps, SaveFilesKeeps, InstallPortalKeeps,
       InstallUpdaterKeeps, RestartKeeps, CommitKeeps, UndoStopKeeps,
       UndoFileKeeps, UndoMarkKeeps, UndoStartKeeps, ReportEndKeeps,
       ConsumeRequestKeeps, ClearJournalKeeps
    DEF UpdaterStep
  <1>4. CASE UNCHANGED vars
    BY <1>4, StutterKeeps
  <1>. QED
    BY <1>1, <1>2, <1>3, <1>4 DEF Next

LEMMA Safety == Spec => []SafetyInv
  BY InitSafety, SafetyStep, PTL DEF Spec

\* Every variable has its type: in particular the cursor of the journal never
\* leaves the list of files, and the updater never works for no request.
THEOREM TypeCorrect == Spec => []TypeOK
  <1>1. SafetyInv => TypeOK
    BY DEF SafetyInv
  <1>. QED
    BY <1>1, Safety, PTL

\* Without a journal the portal and the updater are of one version, after any
\* number of failed steps, kills and reboots.
THEOREM BinariesMatch == Spec => []OneVersion
  <1>1. SafetyInv => OneVersion
    BY DEF SafetyInv
  <1>. QED
    BY <1>1, Safety, PTL

\* No portal runs while the updater copies, replaces or puts back files.
THEOREM CopiesAreQuiescent == Spec => []QuiescentCopy
  <1>1. SafetyInv => QuiescentCopy
    BY DEF SafetyInv
  <1>. QED
    BY <1>1, Safety, PTL

\* A finished status says which version is in force, also after a crash
\* between the writes of the status, of the request and of the journal.
THEOREM StatusIsCorrect == Spec => []StatusIsTrue
  <1>1. SafetyInv => StatusIsTrue
    BY DEF SafetyInv
  <1>. QED
    BY <1>1, Safety, PTL

\* While a newer portal is installed under a journal, the backup holds every
\* row that the old portal wrote.
THEOREM OldRowsAreKept == Spec => []BackupHoldsOldRows
  <1>1. SafetyInv => BackupHoldsOldRows
    BY DEF SafetyInv
  <1>. QED
    BY <1>1, Safety, PTL

\* Until the machine is rebooted no portal runs on a database that a newer one
\* has migrated: rolling back puts the database back before the portal.
THEOREM NoPortalIsTooOld == Spec => []NoDowngrade
  <1>1. SafetyInv => NoDowngrade
    BY DEF SafetyInv, NoDowngrade, SchemaFits, ServingIsInstalled
  <1>. QED
    BY <1>1, Safety, PTL

-----------------------------------------------------------------------------
(* The atomic switch.                                                      *)

LEMMA UnfinishedOutcome ==
  ASSUME NEW s, s = None \/ s.state = "running"
  PROVE  Outcome(s) = None
  BY DEF Outcome, Finished

LEMMA FinishedOutcome ==
  ASSUME NEW s \in Statuses, s.state # "running"
  PROVE  /\ Outcome(s) # None
         /\ Outcome(s).op = s.op
         /\ Outcome(s) = [op |-> s.op, target |-> s.target,
                          outcome |-> Outcome(s).outcome]
         /\ Outcome(s).outcome = IF s.state = "succeeded" THEN "installed"
                                 ELSE IF Unsure(s) THEN "unknown"
                                 ELSE "unchanged"
  <1>1. s # None /\ s.op \in Ops /\ s.target \in Versions
    BY UpdaterConstants DEF Statuses
  <1> DEFINE o == IF s.state = "succeeded" THEN "installed"
                  ELSE IF Unsure(s) THEN "unknown" ELSE "unchanged"
  <1>2. o \in {"installed", "unchanged", "unknown"}
    OBVIOUS
  <1>3. Outcome(s) = [op |-> s.op, target |-> s.target, outcome |-> o]
    BY <1>1 DEF Outcome, Finished
  <1> HIDE DEF o
  <1>4. [op |-> s.op, target |-> s.target, outcome |-> o] \in Reports
    BY <1>1, <1>2 DEF Reports
  <1>5. Outcome(s).outcome = o
    BY <1>3
  <1>. QED
    BY <1>1, <1>3, <1>4, <1>5, UpdaterConstants DEF o

\* What the abstract specification sees of most steps: nothing, or that the
\* last report is withdrawn because work has begun.
LEMMA WorkOrNothing ==
  ASSUME UNCHANGED <<Installed, request>>,
         \/ status' = status
         \/ status' # None /\ status'.state = "running"
  PROVE  [Promise!SwitchNext]_(Promise!switchVars)
  <1>1. CASE status' = status
    BY <1>1 DEF Promise!switchVars, Outcome, Finished, Unsure
  <1>2. CASE status' # None /\ status'.state = "running"
    <2>1. Outcome(status)' = None
      BY <1>2 DEF Outcome, Finished
    <2>. QED
      BY <2>1 DEF Promise!SwitchNext, Promise!Work
  <1>. QED
    BY <1>1, <1>2

LEMMA WorldRefines ==
  ASSUME SafetyInv,
         \/ PublishRelease \/ WriteRow \/ OperatorStops \/ Kill \/ Reboot
         \/ PathUnitFails
  PROVE  [Promise!SwitchNext]_(Promise!switchVars)
  <1>1. TypeOK
    BY DEF SafetyInv
  <1>2. UNCHANGED <<journal, request, status>> /\ files'.portal = files.portal
    BY <1>1, WriteRowEffect, OperatorStopsEffect, KillEffect, RebootEffect
    DEF PublishRelease, PathUnitFails
  <1>3. UNCHANGED Installed
    BY <1>2 DEF Installed
  <1>. QED
    BY <1>2, <1>3, WorkOrNothing

LEMMA ApplyRefines ==
  ASSUME SafetyInv, NEW op \in Ops, NEW v \in Versions, Apply(op, v)
  PROVE  [Promise!SwitchNext]_(Promise!switchVars)
  <1>1. TypeOK
    BY DEF SafetyInv
  <1>2. serving = files.portal /\ UNCHANGED Installed
    BY <1>1, ApplyEffect DEF SafetyInv, ServingIsInstalled, Installed
  <1>3. Installed = files.portal
    BY <1>1, ApplyEffect DEF SafetyInv, JournalIsSound, AllOld, Installed
  <1>4. v > Installed
    BY <1>2, <1>3 DEF Apply
  <1>5. UNCHANGED Outcome(status)
    BY <1>1, ApplyEffect DEF Outcome, Finished, Unsure
  <1>6. Promise!Ask(op, v)
    BY <1>1, <1>2, <1>4, <1>5, ApplyEffect DEF Promise!Ask
  <1>. QED
    BY <1>6 DEF Promise!SwitchNext

LEMMA ChecksRefine ==
  ASSUME SafetyInv,
         \/ Recover \/ BeginUpdateOperation \/ InstalledAlready
         \/ PrepareRefuses \/ PrepareUpdate \/ ProbeService
  PROVE  [Promise!SwitchNext]_(Promise!switchVars)
  <1>1. TypeOK /\ RunHasJob
    BY DEF SafetyInv
  <1>2. /\ UNCHANGED <<files, journal, request>>
        /\ \/ status' = status
           \/ status' \in Statuses /\ status'.state = "running"
    BY <1>1, RecoverEffect, BeginEffect, InstalledAlreadyEffect,
       PrepareRefusesEffect, PrepareUpdateEffect, ProbeEffect
  <1>3. UNCHANGED Installed
    BY <1>2 DEF Installed
  <1>. QED
    BY <1>2, <1>3, WorkOrNothing, UpdaterConstants

LEMMA InstallationRefines ==
  ASSUME SafetyInv,
         \/ OpenJournal \/ StopForBackup \/ SaveFiles
         \/ InstallPortal \/ InstallUpdater \/ Restart
  PROVE  [Promise!SwitchNext]_(Promise!switchVars)
  <1>1. TypeOK /\ RunHasJob /\ ServingIsInstalled
    BY DEF SafetyInv
  <1>2. CASE OpenJournal
    <2>1. /\ UNCHANGED <<files, request, status>>
          /\ \/ journal' = journal
             \/ journal' # None /\ journal'.old = run.version
          /\ run.pc = "opening"
      BY <1>1, <1>2, OpenJournalEffect
    <2>2. journal = None /\ files.portal = run.version
      BY <2>1 DEF SafetyInv, ApplyingIsSound, Applying, OneVersion
    <2>3. UNCHANGED Installed
      BY <2>1, <2>2 DEF Installed
    <2>. QED
      BY <2>1, <2>3, WorkOrNothing
  <1>3. ASSUME run.pc \in Installing
        PROVE  journal # None /\ run.restore = FALSE /\ run.job \in Jobs
    BY <1>3, NoRestore
    DEF SafetyInv, InstallingIsSound, Installing, RunHasJob
  <1>4. CASE StopForBackup \/ InstallPortal \/ InstallUpdater \/ Restart
    <2>1. run.pc \in Installing
      BY <1>4
      DEF StopForBackup, InstallPortal, InstallUpdater, Restart, Installing
    <2>2. /\ UNCHANGED <<journal, request>>
          /\ \/ status' = status
             \/ status' # None /\ status'.state = "running"
      BY <1>1, <1>3, <1>4, <2>1, StopForBackupEffect, InstallPortalEffect,
         InstallUpdaterEffect, RestartEffect
    <2>3. UNCHANGED Installed
      BY <1>3, <2>1, <2>2 DEF Installed
    <2>. QED
      BY <2>2, <2>3, WorkOrNothing
  <1>5. CASE SaveFiles
    <2>1. run.pc \in Installing
      BY <1>5 DEF SaveFiles, Installing
    <2>2. /\ UNCHANGED <<files, request, status>>
          /\ \/ journal' = journal
             \/ journal' # None /\ journal'.old = journal.old
      BY <1>1, <1>3, <1>5, <2>1, SaveFilesEffect
    <2>3. UNCHANGED Installed
      BY <1>3, <2>1, <2>2 DEF Installed
    <2>. QED
      BY <2>2, <2>3, WorkOrNothing
  <1>. QED
    BY <1>2, <1>4, <1>5

LEMMA UndoingRefines ==
  ASSUME SafetyInv,
         UndoStop \/ UndoFile \/ UndoMark \/ UndoStart
  PROVE  [Promise!SwitchNext]_(Promise!switchVars)
  <1>1. TypeOK /\ ServingIsInstalled
    BY DEF SafetyInv
  <1>2. /\ journal # None
        /\ UndoFile \/ UndoMark => journal.cursor < Len(Files)
    BY DEF SafetyInv, UndoingIsSound, Undoing, UndoStop, UndoFile, UndoMark,
           UndoStart
  <1>3. /\ UNCHANGED <<request, status>>
        /\ \/ journal' = journal
           \/ journal' # None /\ journal'.old = journal.old
    BY <1>1, <1>2, UndoStopEffect, UndoFileEffect, UndoMarkEffect,
       UndoStartEffect
  <1>4. UNCHANGED Installed
    BY <1>2, <1>3 DEF Installed
  <1>. QED
    BY <1>3, <1>4, WorkOrNothing

\* The journal is the commit point: removing it is the switch.
LEMMA CommitRefines ==
  ASSUME SafetyInv, Commit
  PROVE  [Promise!SwitchNext]_(Promise!switchVars)
  <1>1. /\ UNCHANGED <<files, request, status>> /\ run.pc = "committing"
        /\ journal' = journal \/ journal' = None
    BY CommitEffect DEF SafetyInv
  <1>2. CASE journal' = journal
    <2>1. UNCHANGED Installed
      BY <1>1, <1>2 DEF Installed
    <2>. QED
      BY <1>1, <2>1, WorkOrNothing
  <1>3. CASE journal' = None
    <2>1. /\ request = run.job /\ request # None
          /\ files.portal = run.job.target
      BY <1>1, UpdaterConstants
      DEF SafetyInv, RunHasJob, InstallingIsSound, Installing
    <2>2. Installed' = request.target
      BY <1>1, <1>3, <2>1 DEF Installed
    <2>3. Outcome(status) = None /\ Outcome(status)' = None
      BY <1>1 DEF SafetyInv, StatusOfRun, Outcome, Finished
    <2>4. Promise!Switch
      BY <1>1, <2>1, <2>2, <2>3 DEF Promise!Switch
    <2>. QED
      BY <2>4 DEF Promise!SwitchNext
  <1>. QED
    BY <1>1, <1>2, <1>3

\* What is reported is true, by ReportIsTrue.
LEMMA ReportEndRefines ==
  ASSUME SafetyInv, ReportEnd
  PROVE  [Promise!SwitchNext]_(Promise!switchVars)
  <1>1. TypeOK /\ run.job \in Jobs /\ run.pc = "reporting"
    BY DEF SafetyInv, RunHasJob, ReportEnd
  <1>2. UNCHANGED <<Installed, request>>
    BY <1>1, ReportEndEffect DEF Installed
  <1>3. CASE status' = status
    BY <1>2, <1>3, WorkOrNothing
  <1>4. CASE /\ status' \in Statuses
             /\ status'.op = run.job.op /\ status'.target = run.job.target
             /\ status'.phase = run.ending
             /\ status'.state = IF run.ending = "completed"
                                THEN "succeeded" ELSE "failed"
    <2>1. Outcome(status) = None
      BY <1>1 DEF SafetyInv, StatusOfRun, Outcome, Finished
    <2> DEFINE o == Outcome(status)'.outcome
    <2>2. /\ Outcome(status)' = [op |-> run.job.op, target |-> run.job.target,
                                 outcome |-> o]
          /\ o = IF run.ending = "completed" THEN "installed"
                 ELSE IF run.ending \in {"rollback_failed", "verifying"}
                      THEN "unknown" ELSE "unchanged"
      BY <1>4, FinishedOutcome DEF Unsure
    <2>3. /\ o = "installed" => Installed = run.job.target
          /\ o = "unchanged" => Installed < run.job.target
      BY <1>1, <2>2, ReportIsTrue
    <2>4. /\ run.job.op \in Ops /\ run.job.target \in Versions
          /\ o \in Promise!Outcomes
      BY <1>1, <2>2 DEF Jobs, Promise!Outcomes
    <2> HIDE DEF o
    <2>5. Promise!Report(run.job.op, run.job.target, o)
      BY <1>2, <2>1, <2>2, <2>3 DEF Promise!Report
    <2>. QED
      BY <2>4, <2>5 DEF Promise!SwitchNext
  <1>. QED
    BY <1>1, <1>3, <1>4, ReportEndEffect

\* A request is only taken away once the status answers it.
LEMMA SettleRefines ==
  ASSUME SafetyInv, ConsumeFinishedRequest \/ ConsumeRequest
  PROVE  [Promise!SwitchNext]_(Promise!switchVars)
  <1>1. TypeOK
    BY DEF SafetyInv
  <1>2. /\ UNCHANGED <<files, journal, status>>
        /\ request' = request \/ request' = None
    BY <1>1, ConsumeFinishedRequestEffect, ConsumeRequestEffect
  <1>3. UNCHANGED Installed /\ UNCHANGED Outcome(status)
    BY <1>2 DEF Installed, Outcome, Finished, Unsure
  <1>4. CASE request' = request
    BY <1>2, <1>3, <1>4, WorkOrNothing
  <1>5. CASE request' = None /\ request # None
    <2>1. status \in Statuses /\ status.state # "running"
          /\ status.op = request.op
      <3>1. CASE ConsumeFinishedRequest
        BY <1>1, <3>1
        DEF ConsumeFinishedRequest, ReportedAlready, Finished, TypeOK
      <3>2. CASE ConsumeRequest
        <4>1. run.pc = "consuming"
          BY <3>2 DEF ConsumeRequest
        <4>2. Finished(status) /\ status.op = run.job.op
          BY <4>1 DEF SafetyInv, StatusOfRun
        <4>3. run.ending # "rolled_back" => request = run.job
          BY <4>1 DEF SafetyInv, EndingIsSound, Ending
        <4>4. request.op = run.job.op
          BY <1>1, <1>5, <3>2, <4>3, ConsumeRequestEffect
        <4>. QED
          BY <1>1, <4>2, <4>4 DEF Finished, TypeOK
      <3>. QED
        BY <3>1, <3>2
    <2>2. Outcome(status) # None /\ Outcome(status).op = request.op
      BY <2>1, FinishedOutcome
    <2>3. Promise!Settle
      BY <1>3, <1>5, <2>2 DEF Promise!Settle
    <2>. QED
      BY <2>3 DEF Promise!SwitchNext
  <1>. QED
    BY <1>2, <1>4, <1>5

LEMMA ClearJournalRefines ==
  ASSUME SafetyInv, ClearJournal
  PROVE  [Promise!SwitchNext]_(Promise!switchVars)
  <1>1. /\ UNCHANGED <<files, request, status>> /\ run.pc = "clearing"
        /\ journal' \in {journal, None}
    BY ClearJournalEffect DEF SafetyInv
  <1>2. journal # None /\ files.portal = journal.old
    BY <1>1 DEF SafetyInv, EndingIsSound, Ending, AllOld
  <1>3. UNCHANGED Installed
    BY <1>1, <1>2 DEF Installed
  <1>. QED
    BY <1>1, <1>3, WorkOrNothing

LEMMA StepRefines ==
  SafetyInv /\ [Next]_vars => [Promise!SwitchNext]_(Promise!switchVars)
  <1> SUFFICES ASSUME SafetyInv, [Next]_vars
               PROVE  [Promise!SwitchNext]_(Promise!switchVars)
    OBVIOUS
  <1>1. ASSUME NEW op \in Ops, NEW v \in Versions, Apply(op, v)
        PROVE  [Promise!SwitchNext]_(Promise!switchVars)
    BY <1>1, ApplyRefines
  <1>2. CASE \/ PublishRelease \/ WriteRow \/ OperatorStops \/ Kill \/ Reboot
             \/ PathUnitFails
    BY <1>2, WorldRefines
  <1>3. CASE UpdaterStep
    BY <1>3, ChecksRefine, InstallationRefines, UndoingRefines, CommitRefines,
       ReportEndRefines, SettleRefines, ClearJournalRefines
    DEF UpdaterStep
  <1>4. CASE UNCHANGED vars
    BY <1>4, WorkOrNothing DEF vars, Installed
  <1>. QED
    BY <1>1, <1>2, <1>3, <1>4 DEF Next

\* Without a reboot the installed portal, serving or not, finds no database
\* that a newer one has migrated; after a rollback in particular, which is
\* what "previous binaries and database were restored" (apply.go:243) says.
THEOREM DatabaseFits == Spec => []SchemaFits
  <1>1. SafetyInv => SchemaFits
    BY DEF SafetyInv
  <1>. QED
    BY <1>1, Safety, PTL

\* The updater implements the atomic switch: through any failures, kills and
\* reboots the version in force changes in one step and only to the version
\* that is asked for, every report of success or of an unchanged version is
\* true when it is made, and no request is taken away unanswered.
THEOREM UpdatesAreAtomic == Spec => SwitchesAtomically
  <1>1. Init => Promise!SwitchInit
    <2> SUFFICES ASSUME Init PROVE Promise!SwitchInit
      OBVIOUS
    <2>1. Installed = 1 /\ 1 \in Versions
      BY UpdaterConstants DEF Init, Installed, FirstFiles, Versions
    <2>2. Outcome(status) = None
      BY DEF Init, Outcome, Finished
    <2>. QED
      BY <2>1, <2>2 DEF Init, Promise!SwitchInit
  <1>. QED
    BY <1>1, StepRefines, Safety, PTL
    DEF Spec, SwitchesAtomically, Promise!SwitchSpec
=============================================================================

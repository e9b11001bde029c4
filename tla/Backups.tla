------------------------------ MODULE Backups ------------------------------
\* Automatic backups and the restore of one (core/auto_backup.rs,
\* core/backup.rs, feat/backup.rs).
\*
\* A scheduler and the saves of the global enhancements trigger backups, each in
\* a task of its own; a lock and a minimum distance keep them apart, and only the
\* youngest are kept. A restore unpacks over the files of a program that runs,
\* while patches of the settings write the same file.
EXTENDS Naturals, FiniteSets

CONSTANTS
  Triggers,      \* the tasks that ask: "scheduled" and those of a change
  Keep,          \* AUTO_BACKUP_KEEP
  Distance,      \* MIN_BACKUP_INTERVAL_SECS, in ticks
  MaxClock,      \* bound: ticks
  MaxSettings    \* bound: changes of the backup settings, patches, restores

VARIABLES
  clock,         \* the time, from 1 on
  schedule,      \* enable_auto_backup_schedule, as the manager read it
  runner,        \* the scheduler runs, and what it goes by: "none", "on", "off"
  unseen,        \* the watch channel holds a change it has not read
  trigger,       \* [Triggers -> "no", "asked", "waiting", "locked"]
  lastBackup,    \* last_backup, 0 for never
  autos, byHand, \* the times of the backups in the directory
  taken,         \* history: the times of all automatic backups
  spared,        \* history: the backups the user made
  file, memory,  \* orbit.yaml and the committed settings
  restoring,     \* "no", "extracted", "read"
  restoredValue, \* what the restore read back
  patching,      \* a patch holds the config write lock, and has saved
  crossed,       \* history: a patch ran while a restore did, or a restore failed
  settings       \* counts the bound

autoVars == <<schedule, runner, unseen, trigger, lastBackup, autos, taken>>
restoreVars == <<file, memory, restoring, restoredValue, patching, crossed>>
backupVars == <<clock, autoVars, byHand, spared, restoreVars, settings>>

Contents == {"first", "backup", "patched"}
TypeOK ==
  /\ clock \in 1..MaxClock /\ schedule \in BOOLEAN /\ runner \in {"none", "on", "off"}
  /\ unseen \in BOOLEAN /\ trigger \in [Triggers -> {"no", "asked", "waiting", "locked"}]
  /\ lastBackup \in 0..MaxClock /\ {autos, byHand, taken, spared} \subseteq SUBSET (1..MaxClock)
  /\ {file, memory, restoredValue} \subseteq Contents
  /\ restoring \in {"no", "extracted", "read"} /\ patching \in BOOLEAN /\ crossed \in BOOLEAN
  /\ settings \in 0..MaxSettings

InitBackups ==
  /\ clock = 1 /\ schedule = FALSE /\ runner = "none" /\ unseen = FALSE
  /\ trigger = [t \in Triggers |-> "no"] /\ lastBackup = 0
  /\ autos = {} /\ byHand = {} /\ taken = {} /\ spared = {}
  /\ file = "first" /\ memory = "first" /\ restoring = "no" /\ restoredValue = "first"
  /\ patching = FALSE /\ crossed = FALSE /\ settings = 0

Tick ==
  /\ clock < MaxClock /\ clock' = clock + 1
  /\ UNCHANGED <<autoVars, byHand, spared, restoreVars, settings>>
-----------------------------------------------------------------------------
(* The scheduler                                                              *)

\* Mutant: a scheduler that runs already is not told.
RefreshUntold ==
  /\ settings < MaxSettings /\ settings' = settings + 1
  /\ schedule' = ~schedule
  /\ runner' = IF schedule' /\ runner = "none" THEN "on" ELSE runner
  /\ UNCHANGED <<clock, unseen, trigger, lastBackup, autos, taken, byHand, spared, restoreVars>>

\* refresh_settings: one runner at most, started with the first schedule; a new
\* one begins with the settings it finds.
Refresh ==
  /\ settings < MaxSettings /\ settings' = settings + 1
  /\ schedule' = ~schedule
  /\ IF schedule' /\ runner = "none" THEN runner' = "on" /\ unseen' = FALSE
     ELSE runner' = runner /\ unseen' = (runner # "none")
  /\ UNCHANGED <<clock, trigger, lastBackup, autos, taken, byHand, spared, restoreVars>>

SeeChange ==
  /\ unseen /\ unseen' = FALSE /\ runner' = IF schedule THEN "on" ELSE "off"
  /\ UNCHANGED <<clock, schedule, trigger, lastBackup, autos, taken, byHand, spared, restoreVars,
                 settings>>

\* The scheduler waits for the backup it asked for before it sleeps again.
Ask(t) ==
  /\ trigger[t] = "no" /\ (t = "scheduled" => runner = "on")
  /\ trigger' = [trigger EXCEPT ![t] = "asked"]
  /\ UNCHANGED <<clock, schedule, runner, unseen, lastBackup, autos, taken, byHand, spared,
                 restoreVars, settings>>

\* should_run_now.
Due == lastBackup = 0 \/ clock - lastBackup >= Distance

\* The settings and the distance are looked at before the lock.
Consider(t) ==
  /\ trigger[t] = "asked"
  /\ trigger' = [trigger EXCEPT ![t] =
                   IF Due /\ (t = "scheduled" => schedule) THEN "waiting" ELSE "no"]
  /\ UNCHANGED <<clock, schedule, runner, unseen, lastBackup, autos, taken, byHand, spared,
                 restoreVars, settings>>

\* Mutant: the distance is not looked at again under the lock.
LockOnly(t) ==
  /\ trigger[t] = "waiting" /\ \A u \in Triggers : trigger[u] # "locked"
  /\ trigger' = [trigger EXCEPT ![t] = "locked"]
  /\ UNCHANGED <<clock, schedule, runner, unseen, lastBackup, autos, taken, byHand, spared,
                 restoreVars, settings>>

Lock(t) ==
  /\ trigger[t] = "waiting" /\ \A u \in Triggers : trigger[u] # "locked"
  /\ trigger' = [trigger EXCEPT ![t] = IF Due THEN "locked" ELSE "no"]
  /\ UNCHANGED <<clock, schedule, runner, unseen, lastBackup, autos, taken, byHand, spared,
                 restoreVars, settings>>

\* cleanup_auto_backups: the oldest go.
Youngest(s) == {b \in s : Cardinality({c \in s : c > b}) < Keep}

\* Mutant: every old backup goes, the user's as well.
StoreAndPruneAll(t) ==
  /\ trigger[t] = "locked" /\ trigger' = [trigger EXCEPT ![t] = "no"]
  /\ taken' = taken \cup {clock} /\ lastBackup' = clock
  /\ autos' = Youngest(autos \cup {clock})
  /\ byHand' = IF Cardinality(autos) >= Keep THEN {} ELSE byHand
  /\ UNCHANGED <<clock, schedule, runner, unseen, spared, restoreVars, settings>>

\* The backup, its time, and the clean-up; or nothing at all when it fails.
Store(t) ==
  /\ trigger[t] = "locked" /\ trigger' = [trigger EXCEPT ![t] = "no"]
  /\ \/ UNCHANGED <<lastBackup, autos, taken>>
     \/ /\ taken' = taken \cup {clock} /\ lastBackup' = clock
        /\ autos' \in {autos \cup {clock}, Youngest(autos \cup {clock})}
  /\ UNCHANGED <<clock, schedule, runner, unseen, byHand, spared, restoreVars, settings>>

BackUpByHand ==
  /\ clock \notin byHand /\ byHand' = byHand \cup {clock} /\ spared' = spared \cup {clock}
  /\ settings < MaxSettings /\ settings' = settings + 1
  /\ UNCHANGED <<clock, autoVars, restoreVars>>
-----------------------------------------------------------------------------
(* A restore, and a patch of the settings                                     *)

\* The archive is unpacked over the files; one that is damaged leaves some of them.
Extract ==
  /\ restoring = "no" /\ settings < MaxSettings /\ settings' = settings + 1
  /\ \/ file' = "backup" /\ restoring' = "extracted" /\ crossed' = (crossed \/ patching)
     \/ file' \in {file, "backup"} /\ UNCHANGED restoring /\ crossed' = TRUE
  /\ UNCHANGED <<clock, autoVars, byHand, spared, memory, restoredValue, patching>>

\* What is read is written back with the credentials of the user; settings that
\* cannot be read end the restore.
ReadBack ==
  /\ restoring = "extracted"
  /\ \/ restoredValue' = file /\ restoring' = "read" /\ UNCHANGED crossed
     \/ restoring' = "no" /\ crossed' = TRUE /\ UNCHANGED restoredValue
  /\ UNCHANGED <<clock, autoVars, byHand, spared, file, memory, patching, settings>>

\* Mutant: the settings in memory are left for the next start.
ApplyLater ==
  /\ restoring = "read" /\ ~patching /\ restoring' = "no"
  /\ UNCHANGED <<clock, autoVars, byHand, spared, file, memory, restoredValue, patching, crossed,
                 settings>>

\* Under the config write lock.
ApplyRestored ==
  /\ restoring = "read" /\ ~patching /\ memory' = restoredValue /\ restoring' = "no"
  /\ UNCHANGED <<clock, autoVars, byHand, spared, file, restoredValue, patching, crossed, settings>>

PatchSaves ==
  /\ ~patching /\ settings < MaxSettings /\ settings' = settings + 1
  /\ patching' = TRUE /\ file' = "patched" /\ crossed' = (crossed \/ restoring # "no")
  /\ UNCHANGED <<clock, autoVars, byHand, spared, memory, restoring, restoredValue>>

PatchCommits ==
  /\ patching /\ patching' = FALSE /\ memory' = "patched"
  /\ crossed' = (crossed \/ restoring # "no")
  /\ UNCHANGED <<clock, autoVars, byHand, spared, file, restoring, restoredValue, settings>>

NextBackups ==
  \/ Tick \/ Refresh \/ SeeChange \/ BackUpByHand
  \/ \E t \in Triggers : Ask(t) \/ Consider(t) \/ Lock(t) \/ Store(t)
  \/ Extract \/ ReadBack \/ ApplyRestored \/ PatchSaves \/ PatchCommits

SpecBackups == InitBackups /\ [][NextBackups]_backupVars
-----------------------------------------------------------------------------
(* Properties                                                                 *)

\* Two automatic backups are at least the distance apart (auto_backup.rs
\* execute_trigger), whichever tasks trigger them together.
BackupsKeepTheirDistance ==
  \A a, b \in taken : a < b => b - a >= Distance

\* The clean-up never takes a backup the user made, nor the youngest of its own:
\* the last automatic backup is there.
BackupsStay ==
  /\ spared = byHand
  /\ lastBackup # 0 => lastBackup \in autos

\* The scheduler goes by the settings, or is about to be told: turning the
\* schedule on starts it, and turning it off and on again loses nothing.
SchedulerFollows ==
  runner # "none" /\ ~unseen => (runner = "on") = schedule

\* A restore leaves the program and its file with the same settings (feat/backup.rs
\* finalize_restored_orbit_config), unless a patch crossed it or it failed.
RestoredIsCommitted ==
  restoring = "no" /\ ~patching /\ ~crossed => file = memory
=============================================================================

----------------------------- MODULE Background -----------------------------
(***************************************************************************)
(* The work the application does beside the Core's own start and stop: the *)
(* profile timer, the owner watch, the port of this session and PAC, the   *)
(* listeners, the restoration of selected nodes, the pending failures, the *)
(* backups, the updater and the tray. They share no state, so a behaviour  *)
(* is one of one component: part says which, and the others rest.          *)
(***************************************************************************)
EXTENDS Naturals

CONSTANTS
  Uids, Intervals, MaxChanges, MaxUpdates,              \* of Timer
  Sustained, MaxReadings,                               \* of OwnerWatch
  Ports, Reserved, MaxSaves, MaxTaken,                  \* of MixedPort
  PortNumbers,                                          \* of Listeners
  Groups, Nodes, None, MaxReloads, MaxChoices,          \* of NodeSelection
  Codes, Refreshes, MaxFailures, MaxReads,              \* of PendingFailures
  Triggers, Keep, Distance, MaxClock, MaxSettings,      \* of Backups
  Current, Versions, MaxChecks, MaxPatches, MaxInstalls, \* of Updater
  Choices, MaxMenuChanges, MaxPosts,                    \* of TrayMenu
  MaxTasks, MaxConnections, MaxStops                    \* of TraySpeed

ASSUME TimerAssumption == 0 \in Intervals
ASSUME WatchAssumption == Sustained \in Nat \ {0} /\ MaxReadings \in Nat
ASSUME PortsAssumption == Ports \subseteq Nat \ {0}
ASSUME NodesAssumption == None \notin Nodes /\ None \notin Groups
ASSUME FailuresAssumption == None \notin {"Enable", "Disable", "Restore", "Guard"}
ASSUME BackupsAssumption ==
  Keep \in Nat \ {0} /\ Distance \in Nat /\ MaxClock \in Nat \ {0} /\ MaxSettings \in Nat
ASSUME VersionsAssumption ==
  /\ Versions \subseteq Nat \ {0, 99} /\ Current \in Nat
  /\ {MaxChecks, MaxPatches, MaxInstalls} \subseteq Nat
ASSUME ShowingAssumption == {MaxMenuChanges, MaxPosts} \subseteq Nat
ASSUME SpeedingAssumption == {MaxTasks, MaxConnections, MaxStops} \subseteq Nat

VARIABLES
  part,
  settings, cache, callers, reading, initialized, commands, tasks, queue,
  updates, overdue, changes, starts,
  unreadable, missing, step, readings, status, endpoint, answered,
  chosen, staged, fallback, runtime, candidate, takenPorts, core, pac, boot,
  retries, notice, save, borrowed, ran, settling, saves, takes,
  platform, scope, current, wanted, coreRuns, held, verdict,
  records, content, former, view, now, generation, waiting, work, choosing,
  settled, misjudged, reloads, choices,
  table, sidecar, owed, nudges, revision, reads, shown, batch, flushes,
  emitting, stale, failures,
  clock, schedule, runner, unseen, trigger, lastBackup, autos, byHand, taken,
  spared, file, memory, restoring, restoredValue, patching, crossed,
  backupSettings,
  starting, auto, writing, bin, meta, ready, bgToken, bg, bgUpdate, manual,
  want, manualToken, manualBytes, offered, installed, againstWill, checks,
  patches, installs,
  selectedNow, items, holder, rebuild, syncRunning, syncPending, asks, tells,
  hover, test, testing, mainThread, unasked, slipped, menuChanges,
  speedTask, speedId, speedTasks, stoppers, opened, hasTray, exitingApp, severed,
  speedOverlapped, connections, tasksUsed, stopsUsed

timerVars ==
  <<settings, cache, callers, reading, initialized, commands, tasks, queue,
    updates, overdue, changes, starts>>
watchVars == <<unreadable, missing, step, readings, status, endpoint, answered>>
portVars ==
  <<chosen, staged, fallback, runtime, candidate, takenPorts, core, pac, boot,
    retries, notice, save, borrowed, ran, settling, saves, takes>>
listeningVars == <<platform, scope, current, wanted, coreRuns, held, verdict>>
selectingVars ==
  <<records, content, former, view, now, generation, waiting, work, choosing,
    settled, misjudged, reloads, choices>>
failingVars ==
  <<table, sidecar, owed, nudges, revision, reads, shown, batch, flushes,
    emitting, stale, failures>>
backingVars ==
  <<clock, schedule, runner, unseen, trigger, lastBackup, autos, byHand,
    taken, spared, file, memory, restoring, restoredValue, patching, crossed,
    backupSettings>>
updatingVars ==
  <<starting, auto, writing, bin, meta, ready, bgToken, bg, bgUpdate, manual,
    want, manualToken, manualBytes, offered, installed, againstWill, checks,
    patches, installs>>
showingMenuVars ==
  <<selectedNow, items, holder, rebuild, syncRunning, syncPending, asks,
    tells, hover, test, testing, mainThread, unasked, slipped, menuChanges>>
speedingVars ==
  <<speedTask, speedId, speedTasks, stoppers, opened, hasTray, exitingApp, severed,
    speedOverlapped, connections, tasksUsed, stopsUsed>>
vars ==
  <<part, timerVars, watchVars, portVars, listeningVars, selectingVars,
    failingVars, backingVars, updatingVars, showingMenuVars, speedingVars>>

Timing == INSTANCE Timer
Watch == INSTANCE OwnerWatch
Port == INSTANCE MixedPort WITH taken <- takenPorts
Listening == INSTANCE Listeners
Selecting == INSTANCE NodeSelection
Failing == INSTANCE PendingFailures
Backing == INSTANCE Backups WITH settings <- backupSettings
Updating == INSTANCE Updater
Showing == INSTANCE TrayMenu WITH
  MaxChanges <- MaxMenuChanges, changes <- menuChanges, now <- selectedNow
Speeding == INSTANCE TraySpeed WITH tasks <- speedTasks, overlapped <- speedOverlapped

(* A component that has no part in the behaviour rests. *)
Resting == "resting"
TimingRests ==
  /\ settings = Resting /\ cache = Resting /\ callers = Resting
  /\ reading = Resting /\ initialized = Resting /\ commands = Resting
  /\ tasks = Resting /\ queue = Resting /\ updates = Resting
  /\ overdue = Resting /\ changes = Resting /\ starts = Resting
WatchRests ==
  /\ unreadable = Resting /\ missing = Resting /\ step = Resting
  /\ readings = Resting /\ status = Resting /\ endpoint = Resting
  /\ answered = Resting
PortRests ==
  /\ chosen = Resting /\ staged = Resting /\ fallback = Resting
  /\ runtime = Resting /\ candidate = Resting /\ takenPorts = Resting
  /\ core = Resting /\ pac = Resting /\ boot = Resting /\ retries = Resting
  /\ notice = Resting /\ save = Resting /\ borrowed = Resting /\ ran = Resting
  /\ settling = Resting /\ saves = Resting /\ takes = Resting
ListeningRests ==
  /\ platform = Resting /\ scope = Resting /\ current = Resting
  /\ wanted = Resting /\ coreRuns = Resting /\ held = Resting
  /\ verdict = Resting
SelectingRests ==
  /\ records = Resting /\ content = Resting /\ former = Resting
  /\ view = Resting /\ now = Resting /\ generation = Resting
  /\ waiting = Resting /\ work = Resting /\ choosing = Resting
  /\ settled = Resting /\ misjudged = Resting /\ reloads = Resting
  /\ choices = Resting
FailingRests ==
  /\ table = Resting /\ sidecar = Resting /\ owed = Resting
  /\ nudges = Resting /\ revision = Resting /\ reads = Resting
  /\ shown = Resting /\ batch = Resting /\ flushes = Resting
  /\ emitting = Resting /\ stale = Resting /\ failures = Resting
BackingRests ==
  /\ clock = Resting /\ schedule = Resting /\ runner = Resting
  /\ unseen = Resting /\ trigger = Resting /\ lastBackup = Resting
  /\ autos = Resting /\ byHand = Resting /\ taken = Resting
  /\ spared = Resting /\ file = Resting /\ memory = Resting
  /\ restoring = Resting /\ restoredValue = Resting /\ patching = Resting
  /\ crossed = Resting /\ backupSettings = Resting
UpdatingRests ==
  /\ starting = Resting /\ auto = Resting /\ writing = Resting
  /\ bin = Resting /\ meta = Resting /\ ready = Resting /\ bgToken = Resting
  /\ bg = Resting /\ bgUpdate = Resting /\ manual = Resting /\ want = Resting
  /\ manualToken = Resting /\ manualBytes = Resting /\ offered = Resting
  /\ installed = Resting /\ againstWill = Resting /\ checks = Resting
  /\ patches = Resting /\ installs = Resting
ShowingRests ==
  /\ selectedNow = Resting /\ items = Resting /\ holder = Resting
  /\ rebuild = Resting /\ syncRunning = Resting /\ syncPending = Resting
  /\ asks = Resting /\ tells = Resting /\ hover = Resting /\ test = Resting
  /\ testing = Resting /\ mainThread = Resting /\ unasked = Resting
  /\ slipped = Resting /\ menuChanges = Resting
SpeedingRests ==
  /\ speedTask = Resting /\ speedId = Resting /\ speedTasks = Resting
  /\ stoppers = Resting /\ opened = Resting /\ hasTray = Resting
  /\ exitingApp = Resting /\ severed = Resting /\ speedOverlapped = Resting
  /\ connections = Resting /\ tasksUsed = Resting /\ stopsUsed = Resting

Init ==
  \/ /\ part = "timer" /\ Timing!Init
     /\ WatchRests /\ PortRests /\ ListeningRests /\ SelectingRests
     /\ FailingRests /\ BackingRests /\ UpdatingRests /\ ShowingRests
     /\ SpeedingRests
  \/ /\ part = "watch" /\ Watch!Init
     /\ TimingRests /\ PortRests /\ ListeningRests /\ SelectingRests
     /\ FailingRests /\ BackingRests /\ UpdatingRests /\ ShowingRests
     /\ SpeedingRests
  \/ /\ part = "port" /\ Port!Init
     /\ TimingRests /\ WatchRests /\ ListeningRests /\ SelectingRests
     /\ FailingRests /\ BackingRests /\ UpdatingRests /\ ShowingRests
     /\ SpeedingRests
  \/ /\ part = "listening" /\ Listening!Init
     /\ TimingRests /\ WatchRests /\ PortRests /\ SelectingRests
     /\ FailingRests /\ BackingRests /\ UpdatingRests /\ ShowingRests
     /\ SpeedingRests
  \/ /\ part = "selecting" /\ Selecting!Init
     /\ TimingRests /\ WatchRests /\ PortRests /\ ListeningRests
     /\ FailingRests /\ BackingRests /\ UpdatingRests /\ ShowingRests
     /\ SpeedingRests
  \/ /\ part = "failing" /\ Failing!Init
     /\ TimingRests /\ WatchRests /\ PortRests /\ ListeningRests
     /\ SelectingRests /\ BackingRests /\ UpdatingRests /\ ShowingRests
     /\ SpeedingRests
  \/ /\ part = "backing" /\ Backing!InitBackups
     /\ TimingRests /\ WatchRests /\ PortRests /\ ListeningRests
     /\ SelectingRests /\ FailingRests /\ UpdatingRests /\ ShowingRests
     /\ SpeedingRests
  \/ /\ part = "updating" /\ Updating!InitUpdater
     /\ TimingRests /\ WatchRests /\ PortRests /\ ListeningRests
     /\ SelectingRests /\ FailingRests /\ BackingRests /\ ShowingRests
     /\ SpeedingRests
  \/ /\ part = "showingMenu" /\ Showing!InitMenu
     /\ TimingRests /\ WatchRests /\ PortRests /\ ListeningRests
     /\ SelectingRests /\ FailingRests /\ BackingRests /\ UpdatingRests
     /\ SpeedingRests
  \/ /\ part = "speeding" /\ Speeding!InitSpeed
     /\ TimingRests /\ WatchRests /\ PortRests /\ ListeningRests
     /\ SelectingRests /\ FailingRests /\ BackingRests /\ UpdatingRests
     /\ ShowingRests

TimingSteps ==
  /\ part = "timer" /\ Timing!Next
  /\ UNCHANGED <<part,
       watchVars, portVars, listeningVars, selectingVars, failingVars,
       backingVars, updatingVars, showingMenuVars, speedingVars>>
WatchSteps ==
  /\ part = "watch" /\ Watch!Next
  /\ UNCHANGED <<part,
       timerVars, portVars, listeningVars, selectingVars, failingVars,
       backingVars, updatingVars, showingMenuVars, speedingVars>>
PortSteps ==
  /\ part = "port" /\ Port!Next
  /\ UNCHANGED <<part,
       timerVars, watchVars, listeningVars, selectingVars, failingVars,
       backingVars, updatingVars, showingMenuVars, speedingVars>>
ListeningSteps ==
  /\ part = "listening" /\ Listening!Next
  /\ UNCHANGED <<part,
       timerVars, watchVars, portVars, selectingVars, failingVars, backingVars,
       updatingVars, showingMenuVars, speedingVars>>
SelectingSteps ==
  /\ part = "selecting" /\ Selecting!Next
  /\ UNCHANGED <<part,
       timerVars, watchVars, portVars, listeningVars, failingVars, backingVars,
       updatingVars, showingMenuVars, speedingVars>>
FailingSteps ==
  /\ part = "failing" /\ Failing!Next
  /\ UNCHANGED <<part,
       timerVars, watchVars, portVars, listeningVars, selectingVars,
       backingVars, updatingVars, showingMenuVars, speedingVars>>
BackingSteps ==
  /\ part = "backing" /\ Backing!NextBackups
  /\ UNCHANGED <<part,
       timerVars, watchVars, portVars, listeningVars, selectingVars,
       failingVars, updatingVars, showingMenuVars, speedingVars>>
UpdatingSteps ==
  /\ part = "updating" /\ Updating!NextUpdater
  /\ UNCHANGED <<part,
       timerVars, watchVars, portVars, listeningVars, selectingVars,
       failingVars, backingVars, showingMenuVars, speedingVars>>
ShowingSteps ==
  /\ part = "showingMenu" /\ Showing!NextMenu
  /\ UNCHANGED <<part,
       timerVars, watchVars, portVars, listeningVars, selectingVars,
       failingVars, backingVars, updatingVars, speedingVars>>
SpeedingSteps ==
  /\ part = "speeding" /\ Speeding!NextSpeed
  /\ UNCHANGED <<part,
       timerVars, watchVars, portVars, listeningVars, selectingVars,
       failingVars, backingVars, updatingVars, showingMenuVars>>

Next ==
  \/ TimingSteps \/ WatchSteps \/ PortSteps \/ ListeningSteps \/ SelectingSteps
  \/ FailingSteps \/ BackingSteps \/ UpdatingSteps \/ ShowingSteps
  \/ SpeedingSteps

Spec == Init /\ [][Next]_vars

-----------------------------------------------------------------------------
(* Types: the step and the place of every part are ones the code has.      *)
TypeOK ==
  /\ (part = "timer" =>
        /\ Timing!TypeOK)
  /\ (part = "watch" =>
        /\ Watch!TypeOK)
  /\ (part = "port" =>
        /\ Port!TypeOK)
  /\ (part = "selecting" =>
        /\ Selecting!TypeOK)
  /\ (part = "failing" =>
        /\ Failing!TypeOK)
  /\ (part = "backing" =>
        /\ Backing!TypeOK)
  /\ (part = "updating" =>
        /\ Updating!TypeOK)
  /\ (part = "showingMenu" =>
        /\ Showing!TypeOK)
  /\ (part = "speeding" =>
        /\ Speeding!TypeOK)

(* Nothing that was asked for or has to happen is dropped, whatever is     *)
(* changed meanwhile: no armed task of a profile leaves the timer's queue, *)
(* and once nothing is under way the schedule is the one of the settings   *)
(* (timer.rs); an owner that failed for good is recovered (owner.rs); the  *)
(* node a reload lost is selected again, and no record whose node is there *)
(* is pruned (profiles.rs); a failure somebody waits for, a batch of       *)
(* failures and a refresh each reach the window (notification.rs); the     *)
(* backup scheduler follows its settings and keeps the backups it must     *)
(* (auto_backup.rs); a speed task that runs can be stopped and one that    *)
(* was stopped leaves no stream open (tray/speed_task.rs).                 *)
NothingIsForgotten ==
  /\ (part = "timer" =>
        /\ Timing!QueueHoldsTheArmed /\ Timing!NoTaskIsForgotten
        /\ Timing!ScheduleFollowsSettings)
  /\ (part = "watch" =>
        /\ Watch!FailuresAreNoticed)
  /\ (part = "selecting" =>
        /\ Selecting!SelectionsComeBack /\ Selecting!AvailableRecordsSurvive)
  /\ (part = "failing" =>
        /\ Failing!OwedAnswersStay /\ Failing!WindowCatchesUp
        /\ Failing!NoRefreshIsLost)
  /\ (part = "backing" =>
        /\ Backing!SchedulerFollows /\ Backing!BackupsStay)
  /\ (part = "speeding" =>
        /\ Speeding!RunningTasksAreHeld /\ Speeding!StoppedMeansDisconnected)

(* Nothing is done that the user or the state does not ask for: at most    *)
(* one update of a profile runs at a time (timer.rs); one bad sample is no *)
(* failure (owner.rs); a listener is refused only for a conflict that is   *)
(* real (listener.rs); automatic backups keep their distance               *)
(* (auto_backup.rs); with the switch off no update waits to be installed,  *)
(* none without a signature ever is, and a download that was cancelled     *)
(* stores nothing (updater.rs).                                            *)
NothingUnasked ==
  /\ (part = "timer" =>
        /\ Timing!OneUpdatePerProfile)
  /\ (part = "watch" =>
        /\ Watch!BlipsAreTolerated)
  /\ (part = "listening" =>
        /\ Listening!ConflictsAreReal)
  /\ (part = "backing" =>
        /\ Backing!BackupsKeepTheirDistance)
  /\ (part = "updating" =>
        /\ Updating!OffMeansNothingPending /\ Updating!OnlySignedUpdates
        /\ Updating!CancelsAreObeyed)

(* What is told agrees with what is: PAC names the port that is served and *)
(* the notice names the port asked for and the one in use (port.rs,        *)
(* server.rs); a port that the probe accepts can be bound (listener.rs);   *)
(* after a restore the settings in memory are the ones of the file,        *)
(* whatever was patched meanwhile (backup.rs); the tray marks the node     *)
(* that is selected and the test that runs (tray/mod.rs, cmd/proxy.rs).    *)
BooksAgree ==
  /\ (part = "port" =>
        /\ Port!PacNamesWhatIsServed /\ Port!BorrowedForTheSession)
  /\ (part = "listening" =>
        /\ Listening!AcceptedPortsAreFree)
  /\ (part = "backing" =>
        /\ Backing!RestoredIsCommitted)
  /\ (part = "showingMenu" =>
        /\ Showing!MenuShowsTheSelection /\ Showing!LabelsTellTheTest)
=============================================================================

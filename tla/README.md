# Verification of Clash Orbit

Clash Orbit is a desktop proxy client. A Tauri backend in Rust supervises one
Mihomo process, *the Core*, either itself (*Sidecar*) or through a privileged
system daemon (*the Service*), keeps the settings and profiles that the Core's
configuration is generated from, and points the operating system's proxy at the
Core. This directory holds TLA+ specifications of the backend's control logic,
the TLC models that check them and proofs that TLAPS checks.

Paths below are relative to `src/src-tauri/src` unless they start with `crates/`
(which is `src/crates/`). `PROJECT.json` maps every definition to the lines it
models, lists the components, the runs, the hazards and the theorems.

1. [The system](#1-the-system)
2. [The modules](#2-the-modules)
3. [What the runs show](#3-what-the-runs-show)
4. [What is proved](#4-what-is-proved)
5. [Where the code does otherwise](#5-where-the-code-does-otherwise)
6. [What is not modelled](#6-what-is-not-modelled)
7. [Plan](#7-plan)

## 1. The system

### 1.1 Components

For each: the state it keeps, what is hard about it, and what makes it correct.

**The Core and who runs it**

- *Run State* (`core/runstate`). One store for what is known of the Service: a
  *health*, the *pending action* that the helper was asked for and whether the
  user accepted *Sidecar* for this session, under one lock with an *observation
  number*; beside them the operation slot and the listeners that announce a
  snapshot. Health is read by I/O that takes seconds, so a reading reserves a
  number first and is dropped if anything newer was said meanwhile. Correct if no
  contradiction is stored, no request is stranded, the latest word wins and
  waiters of the slot wake.
- *Service operations* (`core/service.rs`, `cmd/service.rs`). Install, uninstall,
  repair, readiness, start and stop of the Core through the Service's IPC.
- *Service owner watch* (`core/runstate/owner.rs`). A monitor polls whether the
  Service still runs our Core. It outlives the Core it watches, and recovery
  waits for a lock behind whatever starts the next one. Correct if blips are
  tolerated, failures are noticed, and only the Core that was lost is stopped.
- *Core supervisor* (`core/manager`). Start, stop, restart, replacement, hand-over
  between Sidecar and Service, acceptance of Sidecar, recovery and exit, serialised
  by `lifecycle_lock`; the supervised child; the *readiness* with its generations.
  Every step can fail and is compensated, and quit overlaps with all. Correct if
  mode, session, child, readiness, monitors and guard always fit together.
- *Leaving* (`feat/window.rs`, `lib.rs`). Quits from signals, the menu, restarts
  and the end of the session share one flag and no lock. Correct if what was
  started is stopped and given back, or the application goes on as it was.
- *Core upgrade* (`feat/core_upgrade.rs`) replaces the Core's file and may be killed
  between any two steps. Correct if a Core that runs is always there.

**Configuration**

- *Draft layers* (`crates/clash-orbit-draft`, `config/config.rs`). Settings, Clash
  settings, profiles and runtime are each committed data and one slot for a draft
  that everybody who edits the layer shares; a `DraftTransaction` claims several
  layers and rolls them back unless committed.
- *Configuration writes* and *updates of the Core* (`feat/executor.rs`,
  `feat/listener.rs`, `feat/dns.rs`, `feat/config.rs`, `core/manager/config.rs`, and
  the legacy writers in `cmd/webdav.rs` and `core/manager/lifecycle.rs`). Each stages
  a change, generates a runtime, tries it on the Core, commits and saves, or undoes
  all of it, under `CONFIG_WRITE_LOCK`, the update flag and the claims. Three guards
  taken in different orders, partial failure at every step. Correct if a change is
  committed exactly when it was accepted, and files, layers and Core agree.
- *Profiles* (`config/profiles.rs`, `cmd/profile.rs`, `feat/profile.rs`,
  `utils/resolve/scheme.rs`). A switch stages its target in the shared draft, a
  deletion tries its candidate on the Core from inside an optimistic modification,
  everybody else modifies the committed data behind a permit. Correct if file,
  committed profiles and Core agree at rest and no accepted change is lost; and if
  the nodes the user chose come back after a reload.
- *Timer* (`core/timer.rs`). Updates of profiles at intervals, with tasks in flight
  that are retired and armed again.
- *Enhancement* (`enhance`), *runtime bundle* (`core/runtime_bundle.rs`), *provider
  caches* (`core/service.rs`). What the Core is given, which files go with it, and
  which come back. Correct if the settings win over every override, references
  resolve, and a cache is one whole download of the source that is declared.
- *Proxy listeners, fallback port and PAC* (`core/listener.rs`, `config/port.rs`,
  `utils/server.rs`). Correct if PAC names what is served.

**The operating system**

- *System proxy* (`core/proxy_control.rs`, `core/sysopt.rs`, `core/network_watch.rs`).
  Writing, draining, guarding and clearing. A write may be under way when the proxy
  must be cleared, a guard may rewrite what was cleared. Correct if off stays off.
- *TUN reconciliation* (`feat/tun.rs`), *shortcuts* (`core/hotkey.rs`), *tray*
  (`core/tray`), *windows and lightweight mode* (`core/lightweight.rs`,
  `utils/window_manager.rs`).
- *Single instance* (`utils/server.rs`), *installation guard*
  (`utils/macos_launch_guard.rs`), *owner of the data directory*
  (`core/owner_identity.rs`): before anything else runs, crash at every step.

**The user**

- *Failures and notifications* (`core/notify`), *backups* (`core/auto_backup.rs`,
  `feat/backup.rs`), *updater* (`core/updater.rs`).
- *Validation of configurations*, *proxy view*, *supporting crates* and the
  *frontend* are not modelled (section 6).

### 1.2 How they interact

```
 frontend --commands--> configuration writes --generate/reload/restart--> Core supervisor
     ^                   ^    | drafts, files                               |  start, stop
     | snapshots         |    v                                             v
 Run State <-----.    profiles, timer, backups, updater          Service | Sidecar
     |           '--readings, requests, decisions-- Service operations <----'
     |  Running Mode, readiness                       ^  owner monitor
     +------------> system proxy, guard <-------------+
```

- The supervisor asks Run State for a startup decision (`prepare_startup`) and
  records `unavailable` when a Service refuses a start or an owner is lost.
- A configuration write calls the supervisor through `update_config*`, which
  takes the update flag; restart and `continue_with_sidecar` take the same flag.
- Every transition of the supervisor ends in applying or clearing the proxy.
- Run State's listeners reconcile TUN, the tray and the frontend after each change.

Four modules have the parts that interact through locks: `RunState` the calls of
the Service operations on the store, `CoreSupervisor` the transitions with the
monitors, exit handlers and the quit, `ConfigWrites` the writers with the updates of
the Core, `Profiles` the requests on the profiles with those updates and the save at
exit. The smaller components share no state with each other; what one sees of
another is an outcome that may happen at any time.

## 2. The modules

| Module | What it is |
| --- | --- |
| `RunStateTypes` | vocabulary: healths, replies, actions, the pure constructors of a stored service |
| `LatestWord` | abstract specification: one word, readings that are fresh or overtaken |
| `RunState` | the store with the calls of `service.rs` that drive it; implements `LatestWord` |
| `RunStateReads` | how the store is read, waited for and announced, lock by lock |
| `CoreSupervisor` | transitions of the Core, owner monitors, exit handlers, quit |
| `ConfigWrites` | draft layers, write lock, update flag and seven kinds of writers |
| `Profiles` | the profiles, their draft, files and the Core's runtime, nine kinds of requests |
| `SystemProxy` | the proxy's writes, guards and loops on three platforms |
| `OwnerWatch`, `MixedPort`, `Listeners`, `NodeSelection`, `PendingFailures`, `Backups`, `Updater`, `Timer`, `TrayMenu`, `TraySpeed` | the parts of `Background` |
| `Shutdown`, `Lightweight`, `CoreUpgrade`, `Enhance`, `ProxyGroups`, `ProviderSync`, `RuntimeBundle`, `SingleInstance`, `LaunchGuard`, `OwnerRepair`, `Hotkeys` | the parts of `Edges` |
| `Background`, `Edges` | one instance of each part; `part` picks the one that moves |
| `MCRunState`, `MCRunStateReads`, `MCCoreSupervisor`, `MCConfigWrites`, `MCProfiles`, `MCEdges` | finite sets of tasks, requests and lists for TLC |
| `...Proofs` | theorems about the module of that name |

### 2.1 `RunState` and `RunStateReads`

A task of `RunState` is an asynchronous call; `at[t]` is the await or the lock
acquisition it has reached, and all that the code does between two of them is one
action. `service` and `observation` are the two fields of `VersionedService`,
`opRunning` is `operation_running`. `overtaken` is a history variable: the readings
in flight that something newer overtook.

| Action | Code |
| --- | --- |
| `Say` | `RunStateStore::edit` and the assertions on top of it: new word, new number |
| `Reserve`, `Detect`, `Commit` | `observe_current_health` and `observe_service_reserved` |
| `StartProbe`, `Hear`, `AskAgain`, `GiveUp`, `Record`, `AbandonProbe` | `probe`, `await_ready`, `record_reply` and the timeout around them |
| `BeginOperation` ... `Release` | `run_operation_and_then`, `handle_service_status`, `perform`, `run_action_restoring_sidecar`, `OperationGuard` |
| `AllowSidecar...`, `RequireInstall...`, `WithdrawAllowance`, `ObserveUnavailable` | the methods of the same names |

What the Service, the registry, the files and the helper answer is free. In the
code privileged operations also hold `lifecycle_lock`, so that the speakers that
really overlap with them are the unlocked ones (the hand-off watcher's probe, owner
recovery, the session decisions); what holds for all interleavings holds for these.

`LatestWord` is what the observation numbers are for: a reading is *fresh* or
*overtaken*; an assertion overtakes every reading in flight; a fresh reading that
commits becomes the word, an overtaken one leaves no trace. `RunState` implements it
with `reading <- InFlight, fresh <- InFlight \ overtaken`, though the code only
compares two numbers.

`RunStateReads` is the same store with every lock, atomic load and notification a
step of its own, and the service reduced to whether it carries the operation's
request. Operators run `run_operation_and_then`, speakers change the store and
announce, readers run `settled()`: register with the notifier, read, park or return.
`registered` and `woken` model `Notify::notified` and `notify_waiters` from their use.

### 2.2 `CoreSupervisor` and `OwnerWatch`

`lock` is `lifecycle_lock`; `op` and `goal` say where the transition under way is
and what it is for. `owner` is `OWNER_MONITOR_GENERATION`, `monitor[m]` the monitor
that was given generation `m`; `life[p]` is the Sidecar with pid `p` and the handler
of its exit; `readiness` is 0 or the generation of the Core that is ready;
`readied[p]` is the generation that the handler of `p` carries. `held` is the
Service's side: whether it still runs the Core for this owner. `watched` is a history.

A transition is one path through `preparing` (clear the proxy) → `halting` (stop) →
`deciding` → `service` or `spawning`/`polling` (start) → `checking` →
`applying`/`applied`/`guarding` (proxy) → `idle`, and `rollingBack`. The eight goals
differ in where they begin and where each outcome leads (`AfterStop`,
`AfterFailedStart`, `AfterFailedProxy`): `start`, `stop`, `exit`, `restart`,
`replace`, `uninstall`, `handoff` (the Windows hand-over of a Sidecar to a Service
that became ready, with its way back) and `accept` (`continue_with_sidecar`).
Monitors and exit handlers run beside it and take the lock for their last step only.
The two steps of a cancelled monitor and the answer of the Service are one step,
since the cancelled monitor can do nothing between.

`MonitorLoses` may happen whenever the Service does not run our Core. How the samples
add up to that verdict is `OwnerWatch`: two counters that reset each other, the
status, the endpoint and the tolerance for a Service that is starting the Core.

### 2.3 `ConfigWrites`

Two layers, `settings` and `runtime`, each with `committed`, `draft` and `claimed`.
The content of a layer is the set of changes that it shows, a change being named by
the task that makes it, plus `Tun` for the preference that TUN is on. `writeLock` is
`CONFIG_WRITE_LOCK`, `updating` is `config_update_in_progress`, `loaded` is the
runtime that the Core runs, `file` the saved settings, `copy[t]` the captured files
or the clone to save. `trouble` is a history: a failed write or a failed rollback,
which no property can hold the code responsible for.

| Kind | Code | Guards it takes |
| --- | --- | --- |
| `patch` | `executor::apply` for `patch_orbit` and `patch_clash` | try lock, flag, claims of both layers |
| `ports` | `save_proxy_ports` | lock, then flag and claims |
| `dns` | `set_dns_override`, with a nested update | lock, claim of settings, then the update's |
| `refresh` | `update_config_forced` | flag, claim of the runtime |
| `restart` | `restart_core` | flag |
| `settle` | `continue_with_sidecar` of a user who is not elevated | flag, then lock |
| `legacy` | `save_webdav_config`; also the edits of `change_core` | none |

A trial on the Core has four outcomes: taken; taken, but the system proxy could not
be restored; refused, with the old Core left; replaced, with none left. What the
session borrows when the chosen port is occupied, and PAC, are in `MixedPort`.

### 2.4 `Profiles` and `NodeSelection`

`committed` and `draft` are the two slots of `Draft<IProfiles>`: the current profile,
the set of items, and the tasks whose change the items show. `permit` is
`data_modifying`, `replaced` says that `Arc::ptr_eq` would fail for the copy that the
holder of the permit works on, `local[t]` is that copy. `profileLock`, `configLock`,
`switching`, `updating` are `PROFILE_WRITE_LOCK`, `CONFIG_WRITE_LOCK`,
`CURRENT_SWITCHING_PROFILE` and the update flag. `file` is `profiles.yaml`, `files`
the profiles whose own file exists, `written` the refreshes whose download is in such
a file; `loaded` is the runtime that the Core runs, a profile and the refreshes that
its file showed when it was generated.

| Kind | Code | Guards it takes |
| --- | --- | --- |
| `switch` | `patch_profiles_config` | marker, profile lock; flag for the trial; permit for commit and save |
| `delete` | `delete_profile` with `update_config_forced_with_profiles` | profile lock, permit, flag until it is committed |
| `edit` | `patch_item`; a reorder or a recorded selection is alike | permit |
| `import` | `import_profile`, `create_profile` | permit, twice: append, then save |
| `scheme` | `import_subscription` for a deep link | as `import`, then the flag if its profile became the current one |
| `refresh` | `update_profile` by hand | permit; flag if its profile is the current one |
| `update` | `enhance_profiles` | flag, then the settings' lock |
| `dns` | `set_dns_override`, as far as its guards go | profile lock, settings' lock, flag |
| `exit` | `quit`, `apply_all_and_save_file` | profile lock |

An update of the Core is `UpdateBegin` → `UpdateGenerate` → `UpdateApplied` or one of
its failures, shared by all kinds that ask for one; `ConfigWrites` has its inside.
What differs is what it is generated from (`Given`) and where each outcome leads
(`UpdateFails`). Downloads are done before a request begins; a profile that is added has
a fresh uid, so that nobody asks for it before it is listed (`Heard`). The application
starts with a book that lists its current profile, or with an empty one (`Starts`), and
its Core runs that. `trouble` keeps what the
properties except: `file` (a save that nothing takes back has failed), `core` (the
Core could not be brought to the committed profile, or a link's import became the
current one and then failed to be saved), `raced` (something else
generated a runtime or judged what is current between the staging of a switch and its
end, or `scheme.rs:96` dropped the draft of a switch) and `overwritten`
(`restore_previous_profile` edits the draft and applies it in two steps; what is
committed in between is replaced). The last two are weaknesses that no comment or
test of the code denies.

`NodeSelection` is the second half of `config/profiles.rs`: a restoration looks at the
Core, asks it for each recorded node, looks again, and prunes or keeps on asking. Any
newer restoration or choice supersedes it.

### 2.5 `SystemProxy`

One operation at a time holds the lifecycle lock: `todo` is what it still has to do
and `onError` what it does instead when a step fails, so that the drains, the second
disable and the compensations of a transition are data and each step is one action.
Beside it run the local guard (a thread of the sysproxy crate that may be in the
middle of a write when it is told to stop), the loops that refresh the proxy through
the Service on macOS, the owner monitor, the Sidecar and the network. `os` is the set
of kinds (`sys`, `pac`) that the operating system has on. A step that consists of others
is replaced by them when its turn comes, because what they are depends on where the Core
runs then: `stopGuard` by the drain under the operation lock, `apply` by the writes of its
route, `compare` by what its reading leaves to write. A failing step replaces the whole
list by `onError`. The three properties hold at every step, also in the middle of an
operation.

### 2.6 The parts of `Background`

| Part | Module | State and code |
| --- | --- | --- |
| `timer` | `Timer` | intervals, command channel, tasks, delay queue and the updates it spawns; an entry may expire at any time |
| `watch` | `OwnerWatch` | see 2.2 |
| `port` | `MixedPort` | the chosen port, the one a start borrows, the one served and the one PAC names; a save may fail at each step |
| `listening` | `Listeners` | which sockets a configuration asks for, and what the probe of `core/listener.rs` finds, on macOS and Linux |
| `selecting` | `NodeSelection` | see 2.4 |
| `failing` | `PendingFailures` | the table of failures with its precedence and revision, the batch of refreshes, and a window that reads out of order |
| `backing` | `Backups` | scheduler, triggers under a lock with a distance, clean-up, and a restore over the files of a program that runs |
| `updating` | `Updater` | the cache of two files, its background download, installs at start-up and by hand, and both cancellations |
| `showingMenu` | `TrayMenu` | rebuilds behind the pending flag of `cmd/proxy.rs`, refreshes in place, latency tests |
| `speeding` | `TraySpeed` | the task of the traffic stream, started and stopped from several places |

### 2.7 The parts of `Edges`

| Part | Module | State and code |
| --- | --- | --- |
| `leaving` | `Shutdown` | quits of every origin, the main loop, the end of the session, clean-up, `is_exiting` |
| `light` | `Lightweight` | the mode with its claims, the timer, the window's events and a page that the system killed, as macOS builds them |
| `upgrading` | `CoreUpgrade` | staging, verification, renames, the Service, the way back; killed between any two steps |
| `enhancing` | `Enhance` | one generation: the settings over the profile, TUN, DNS, four overrides, what the application puts back |
| `grouping` | `ProxyGroups` | the profile's edits of proxies and groups and the clean-up of references |
| `syncingPart` | `ProviderSync` | a cache read chunk by chunk while the Core writes it, under a changing configuration and session |
| `bundle` | `RuntimeBundle` | conflicts of cache paths and what is copied into the bundle |
| `starting` | `SingleInstance` | lock, record, server and hand-over of up to three instances, with restarts and crashes |
| `movingPart` | `LaunchGuard` | the move to the Applications folder: copy, two renames, relaunch, way back; killed anywhere |
| `owning` | `OwnerRepair` | takeover or rebuild of a data directory of another account, and the owner token |
| `pressing` | `Hotkeys` | registrations by difference, by focus and by the start-up; what a press runs |

In both, the initial state picks `part`, every variable of another part is constant,
and an action belongs to one part. A run explores the union of the instances; the
bounds of each are constants, with their values in `Background.cfg` and `MCEdges.cfg`. A
property of the run is a conjunction over the parts that have something to say to it.

Histories in these modules name what a property excepts: `answered` (`OwnerWatch`, the
readings since the Core last answered with its status or endpoint), `late`, `crossed`
(`Lightweight`), `overlapped`, `abandoned` (`Shutdown`), `stuck` (`CoreUpgrade`),
`torn` (`OwnerRepair`), `unbound`, `crossed` (`Hotkeys`), `unasked`, `slipped`
(`TrayMenu`), `overlapped`, `severed` (`TraySpeed`). Section 5 says what they are.

## 3. What the runs show

### 3.1 The runs

| Run | Instance | Properties |
| --- | --- | --- |
| `run_state` | 3 tasks, 4 calls, `await_ready` asks twice; Windows build | `StoreMakesSense`: no action is pending beside an acceptance of Sidecar, no request is stranded, no allowance shadows a ready Service. `NoDecisionDuringOperation`. `KeepsLatestWord`: the refinement of `LatestWord` |
| `run_state_live` | 2 tasks, 4 calls, dev-sidecar build; fair | `OperationsSettle`, `RequestsRetire` |
| `run_state_reads` | 2 operators, 1 other speaker, 1 reader, 2 operations, 1 word; fair | `SlotHasOneHolder`, `WaitersAreOwedAWakeup`, `ReadersReturn` |
| `core_supervisor` | Windows, all goals but `accept`, 3 transitions, 1 fault | `NothingDangles`: session, child, monitor, readiness and guard fit the mode. `NoCoreAfterExit`. `LateEventsSpareTheSuccessor`: recoveries, exits and readiness are the right Core's. `StopsBehindClearedProxy` |
| `core_supervisor_live` | macOS, all goals, 2 transitions, 2 faults; fair | `LossesAreNoticed`: of a Service and of a Sidecar |
| `config_writes` | any three of the seven kinds; fair, deadlock checked | `AcceptedMeansCommitted`, `LayersAgree`, `StagedByItsClaimant`, `PortsAllOrNothing`, `AcceptedReachesTheRuntime`, `EveryRequestEnds` |
| `profiles` | any three of sixteen requests of nine kinds | `ProfilesCanBeRun` (also after a crash), `NothingAcceptedIsLost`, `LayersAgree`, `RefreshedReachesTheCore`, `SomeRequestGoesOn` |
| `system_proxy` | macOS, Windows, Linux; 2 operations beside recoveries and reversals, a loop gives up at its 2nd failure (the code: 3rd) | `OffStaysOff`, `GuardsHaveGrounds`, `WarningIsAboutNow` |
| `background` | the parts of 2.6 | `NothingIsForgotten`, `NothingUnasked`, `BooksAgree` |
| `edges` | the parts of 2.7 | `NothingIsLeftBehind`, `WhatIsTakenIsWhole` |
| `config_writes_tun` | `settle`, `refresh`, `restart` | `NoCoreStartsWithTun` is violated |
| `profiles_exit` | an edit, an import, an exit | `ExitSavesTheChanges` is violated |

Each also checks its type invariant. The conjuncts of the properties of `background`
and `edges` are the properties of the parts, stated and explained in their modules:

| Part | Forgotten / left behind | Unasked | Agree / whole |
| --- | --- | --- | --- |
| `timer` | `QueueHoldsTheArmed`, `NoTaskIsForgotten`, `ScheduleFollowsSettings` | `OneUpdatePerProfile` | |
| `watch` | `FailuresAreNoticed` | `BlipsAreTolerated` | |
| `port` | | | `PacNamesWhatIsServed`, `BorrowedForTheSession` |
| `listening` | | `ConflictsAreReal` | `AcceptedPortsAreFree` |
| `selecting` | `SelectionsComeBack`, `AvailableRecordsSurvive` | | |
| `failing` | `OwedAnswersStay`, `WindowCatchesUp`, `NoRefreshIsLost` | | |
| `backing` | `SchedulerFollows`, `BackupsStay` | `BackupsKeepTheirDistance` | `RestoredIsCommitted` |
| `updating` | | `OffMeansNothingPending`, `OnlySignedUpdates`, `CancelsAreObeyed` | |
| `showingMenu` | | | `MenuShowsTheSelection`, `LabelsTellTheTest` |
| `speeding` | `RunningTasksAreHeld`, `StoppedMeansDisconnected` | | |
| `leaving` | `ExitLeavesNothing`, `CanceledQuitsAreUndone` | | `CommittedQuitsGoThrough` |
| `light` | `TimersAreCancellable`, `DeadPagesAreReloaded` | | `WindowsInUseStay`, `EnteringNeverQuits` |
| `upgrading` | `ARunnableCoreStays`, `FailedCanBeRetried` | | `ReportedMeansUpgraded` |
| `enhancing` | | | `SettingsWin`, `LanIsServed`, `DiscardedKeysAreTold`, `FakeIpHasARange` |
| `grouping` | | | `ReferencesResolve`, `AddedCanBeChosen` |
| `syncingPart` | `NoSyncIsLost` | | `PublishedCachesAreWhole` |
| `bundle` | | | `OnlyLocalConflictsRefuse`, `CachesHaveOneSource` |
| `starting` | `GivingUpHasACause` | | `OnePrimary`, `RecordNamesThePrimary`, `SecondariesAreShown` |
| `movingPart` | `ABundleStays`, `InstallationIsKept`, `FailedMovesAreUndone` | | |
| `owning` | `NoDataIsLost`, `FailedRebuildsAreUndone`, `LiveLocksStay` | | `RepairedMeansWhole`, `TokensAgree` |
| `pressing` | `KeysDoWhatTheListSays` | | `WindowKeysNeedTheWindow` |

### 3.2 The bounds

Every bound is a CONSTANT, in a guard.

- *Run State.* A contradiction takes a reading in flight, an operation and a decision
  that come between: three tasks. Four calls let an operation follow an operation,
  with a probe and a decision around them. `ReadyAttempts` is 61 in the code;
  attempts that fail differ in nothing but the number left, so two show the last one
  and one before.
- *Reads.* One operator that starts while the other's waiters are being notified needs
  two operators and two operations; readers do not interact except through the set of
  the registered, and the theorems cover any number.
- *Supervisor* (1.2 million states). With three transitions one can start a Core, one
  replace or stop it and one start its successor while a handler or a monitor of the
  first is still under way; one fault creates that handler, and two (in the live run)
  lose the successor too. `MaxOwner` only sizes the arrays: a transition uses at most
  three generations, so the guard on it never blocks in these runs.
- *Configuration writes* (265 thousand). Three requests of any kinds are all pairs with
  a third that sees what the two left behind. Kinds are sorted over the tasks, which
  are interchangeable.
- *Profiles* (2.2 million). Two profiles at first, of which `a` is current, or none, and
  two that may be added: enough for a target that is deleted, a successor of a deleted
  current profile, a first profile that becomes current, at once or after both others
  went, and requests about a profile that a link has added. Three
  requests out of sixteen, a switch to and a deletion of `b` possibly twice.
- *System proxy.* Two changes of the setting beside free starts, stops and losses: the
  first leaves a guard, a loop or a write under way, the second must end it. Two loops
  let an old one meet the session that replaced it.
- *Background* (0.9 million). Timer: two profiles, off or one interval, two changes and
  two updates, for a profile disabled and enabled again under its update. Watch: three bad
  samples make a verdict as in the code, of six readings, so that a channel that was
  verified can be lost again. Port: four ports, one
  reserved for another listener, two saves, two foreign programs. Listeners: every
  question about two listeners, two port numbers and four addresses. Nodes: one group, two nodes,
  two reloads, one choice. Failures: one code, three failures, two reads that may swap.
  Backups: keep one, distance two of four ticks, three changes of the settings. Updater:
  three versions, two cycles, two patches of the switch, one install. Menu: two nodes, three
  changes, two labels under way. Speed: two tasks, three streams, two stops.
- *Edges* (1.2 million). Leaving: three origins, four attempts, so that one that failed
  is followed by others. Lightweight: two timers, two requests, one killed page.
  Upgrade: two upgrades, two faults, of which the second hits the way back. Enhancement: five
  keys of different treatment, each layer with a change of one. Groups: one or two groups over
  three lists of members. Caches: two versions, two passes, one new configuration. Bundle: three
  providers over three paths, of which one looks like an allocated one. Instances:
  three, the third started while the first restarts into the second. Installation:
  three moves. Owner: two entries, two repairs, three tokens, two loaders. Shortcuts:
  two keys, two functions, two changes of the focus, one update.

`CHECK_DEADLOCK FALSE` is used where the bounds, or a user who asks for nothing more,
let the system stop. `config_writes` checks for deadlock and has an explicit stutter for
when all requests have ended; `profiles` has `SomeRequestGoesOn` instead.

Symmetry is not used; `config_writes` and `profiles` sort the requests over the tasks.

### 3.3 Fairness

- `RunState`, `RunStateReads`: weak fairness of each task's `Step`. A call that was
  started is a future on the runtime or awaited by a command, its I/O has timeouts,
  and its locks are held between awaits only. Starting a call, abandoning a probe and
  deciding are not fair.
- `CoreSupervisor`: weak fairness of the transition under way, of each monitor and of
  each exit handler. All IPC is under timeouts and `lifecycle_lock` is a queueing
  mutex. Faults, new transitions and the return of the Service are not fair.
- `ConfigWrites`: weak fairness of each task. All I/O is bounded; the write lock is
  waited for in a queue, flags and claims are never waited for.
- Elsewhere: none. In `Profiles` every behaviour ends, so that requests end exactly if
  no state is reached in which one is unfinished and none can go on; this is the
  invariant `SomeRequestGoesOn`. The parts of the two bundles state what has to happen
  as what holds once nothing is under way (`ScheduleFollowsSettings`,
  `WindowCatchesUp`, `MenuShowsTheSelection`).

### 3.4 Mutants

Each property of each passing run has at least one mutant: a form of an action or
operator with a plausible bug (`Mutant...` in the modules), under which TLC refutes the
property. In the bundles nearly every part of a property has one of its own.

## 4. What is proved

All for every value of the constants, from the assumptions on their types that the
modules state. TLC checked every part of the inductive invariants first.

| Module | Theorems |
| --- | --- |
| `RunStateProofs` | `TypeCorrect`, `RequestsExcludeSidecar`, `NoRequestIsStranded`, `NoAllowanceShadowsReady`, `StoreAlwaysMakesSense`, `DecisionsWaitForOperations`, `StoreKeepsLatestWord` |
| `RunStateReadsProofs` | `TypesHold`, `OneHolder`, `NoLostWakeup` |
| `CoreSupervisorProofs` | `TypesHold`, `NothingIsLeftDangling`, `TheExitIsFinal`, `LateEventsMiss`, `ClearedBeforeStopped` |
| `ConfigWritesProofs` | `TypesHold`, `CommittedIffAccepted`, `DraftsAreTheirClaimants`, `LayersAgreeAtRest`, `PortsAreAllOrNothing`, `AcceptedIsInTheRuntime` |
| `ProfilesProofs` | `TypesHold`, `ListedProfilesCanBeRun`, `AcceptedChangesStay`, `LayersAgreeAtRest`, `RefreshesReachTheCore` |
| `SystemProxyProofs` | `TypeCorrect`, `WhatIsOffStaysOff`, `GuardsAreGrounded`, `WarningsAreCurrent`, `OneLoopIsCurrent` |
| `BackgroundProofs` | `EveryPartStays`, `TypesHold`, `NothingIsDropped`, `NothingIsDoneUnasked`, `WhatIsToldIsTrue`, `MarksAreGrounded` |
| `EdgesProofs` | `EveryPartStays`, `TypesHold`, `NothingStays`, `WhatIsTakenStaysWhole`, `OneInstanceAtATime` |

**Run State.** None of the safety properties is inductive. The invariant is `TypeOK`;
`PlacesInv`, where a task can be, given its job; `SlotInv`, the slot is taken exactly
while one task is in an operation, which makes the unlocked steps of an operation
exclusive; `FreshInv`, a reading in flight has the current observation number exactly
if it was not overtaken, the heart, for the code compares numbers and the property
speaks of overtaking; and `WordInv`, what the store holds, with the requests that
somebody will still retire. The refinement maps the initial state and each action to
a step of `LatestWord` or a stutter.

**Reads.** `Enrolled`: a reader inside `settled()` holds a future that is registered or
has been woken.

**Core supervisor.** The properties speak of the Core between transitions. The
invariant says what holds at each place of one: who has the lock (`Locked`), what the
Core is (`Staged`), what goes with the mode (`Held`), that a Service Core is watched by
the monitor of the newest generation or by one whose claim is the newest (`Watched`),
that a claim is the newest generation's or superseded, and about the readiness given
out last (`Claims`), that a readiness is one Core's (`OwnReadiness`), and how far a
transition gets after the exit (`Exited`). Recoveries then hit the Core that was lost
because whatever starts another one takes a newer generation first. The theorems
assume `"accept" \notin Goals`; with it `Held` is false (section 5).

**Configuration writes.** For each place of each kind, what a request holds
(`Discipline`): write lock, flag, claims. From the claims follows whose a draft is
(`DraftIsStaged`, `RuntimeIsTried`), from that what a commit commits
(`AcceptedMeansCommitted`), and what Core and files may show meanwhile (`CoreIsKnown`,
`FilesAreKnown`, `PortsAreTried`, `ChangesAreKept`). The parts that need every writer
to lock say so (`NoneAsks("legacy")`, `NoneAsks("settle")`), and this is how much of
the discipline each property rests on.

**Profiles.** Two locks carry the argument (`Discipline`): whoever writes the file or
commits a copy has the permit; whoever stages a draft or replaces the data without it
has the profile lock; a deletion has both from its plan to its commit. Hence the data
are not replaced under a deletion (`DeletionsAreAlone`), nobody brings back what it is
about to remove (`DeletionsAreSafe`), a draft is that of a switch (`DraftIsASwitchs`),
and every book somebody has a copy of lists what has its file (`FileIsBacked`,
`CommittedIsBacked`, `DraftIsBacked`, `CopiesAreBacked`) and names a current profile it
has (`BooksAreWhole`).

On this rest three chains. A copy is the committed data with its holder's change as long
as nobody has replaced them (`CopiesAreCurrent`), and a profile that is still to be added
is unknown to everybody (`NewUntilAdded`): so a commit loses nothing that was accepted
(`ChangesStay`). Whoever replaces the data under a copy saves them afterwards
(`SavesAreOwed`), so that `profiles.yaml` is the committed data, or the copy whose holder
has written it and not committed yet (`FileIsKnown`). And the current profile is followed
to the Core: from the draft (`DraftIsKnown`) over the runtime made of it (`MadeIsKnown`)
to what the Core runs (`LoadedIsKnown`), with the deletion's candidate, the switch's
target, the way back of a rollback, and the link whose profile became the current one and
is not yet applied as the only exceptions on the way. Most lemmas rest on `StepsMove`:
which steps change what, and where a request comes from and goes on. Assumed, besides
types: a profile is added under a uid that no book of the start and no other addition has
(`ImportsAssumption`; the code draws them at random), and the book at the start names a
current profile that it lists (`StartsAssumption`), which is what `ProfilesCanBeRun` says of
the `profiles.yaml` that the run before has left, whenever it ended.

**System proxy.** Between two operations the properties are nearly inductive; inside one
they hold because of the steps that are still to come, and which these are is data. So the
invariant is about the lists: a part of it says of `todo` that a step of one set has a step
of another before it (`Before`) or none of another after it (`Never`), unless what the
second brings about holds already. A Core ends behind a stopped guard
(`ExitsUnguarded`), a write comes after a drain and a wait (`WritesUnguarded`,
`WritesAreQuiet`), a loop is started or outlived only behind an invalidated generation
(`InvalidatedBefore`), the proxy is off once both kinds were written
(`SysGoesOff`, `PacGoesOff`). `ListsOK` says which lists there are at all: what leads up to a proxy is
never on a list with what takes one down, a start is the last step of its list. The parts
about `onError` (`DropsUnguarded`, `EndsNoService`) are needed because any step may fail.
The first part of the module is the theory of `Before` and `Never` on a list from which
steps are taken and on which others are put; each action then has one lemma. From
`LoopsAreSound` and `OneIsCurrent` follows that a late loop cannot write for the session
that replaced its own, and `NobodyWrites` collects what must be true of guards, loops and
writes under way for an `off` to last. No assumption but the types of the constants.

**The parts of `Background`.** Each part has an invariant of its own, with three lemmas:
it starts in it, its steps keep it, and it shows what the part's properties say. The
composition (`EveryPartStays`) is one step per part, since an action of one leaves the
variables of the others alone; the run's four properties follow from it.

- *Timer.* The scheduler knows of an update by the mark on its task and of its end by a
  report in the channel. `UpdatesAreMarked` ties the three together: a marked task has an
  update that runs or a report that waits, one of the two, whatever was removed, retired
  or armed meanwhile; `ReportsAreSingle`: one report of a profile at a time. From this,
  no second update beside the first, and no mark that stays. `CacheFollows` and
  `LastSchedule` follow a schedule from the settings over the reading and the channel
  to the tasks; the last one in the channel counts.
- *Owner watch.* The counters are read off the history: `UnreadableRun` and
  `CountedFromTheStart` say that the last readings are as many unreadable ones as are
  counted, and that all of them since the last answer are counted; `GoneSince` is the same
  for the answers without a Core.
- *Port.* `DraftsAgree`, what a save has staged at each of its places, and `CoreServes`,
  what the Core serves meanwhile, from which follows what PAC names.
- *Listeners.* The verdict is computed from a state that the Core's own sockets are part
  of; the proof is about which claims on an address collide (`Collide`), and that what
  refuses a socket that nobody serves is a lingering connection.
- *Nodes.* `InLine`: what waits is in the order of the generations, and nothing is
  half done while nothing waits; `WorkIsRight`: what a restoration has seen and planned still
  agrees with the records, and what it takes for complete is, but for a choice on its way.
- *Failures.* `LastReadCounts`: without a nudge that waits, the window is right, or its
  newest read carries what is right.
- *Backups.* `LockIsDue`: whoever is locked is due, and is alone; `LastIsKept`: the last
  backup is the newest one on disk; `RestoreStands`: what the file is at each place of a restore.
- *Tray.* `SelectionComing`: unless somebody is going to read the selection before the menu
  changes (`ReadComing`), every menu that is built, posted or shown has the node that is
  selected; `LabelsComing`: a label that does not tell the test has its successor queued.
  `OneSpeedTask` and `StreamsAreHeld`: one task of the speed lives, and an open stream is in
  the slot, with the task that closes it, or with the stop that does.
- *Updater.* `Turns`: who holds the write lock; `OffIsEmpty`: with the switch off, nothing
  is announced, and on disk is only what the background cycle will not keep;
  `PreparedIsSigned`: what is taken to be installed is what was asked for.

Assumed, besides types: "no interval" is an interval; a watch sustains at least one
sample; ports are not 0, which stands for none; `None` is no node, group or operation; at least one
backup is kept; versions are positive and none is the one that stands for a file with
another content.

**The parts of `Edges`** are proved in the same way.

- *Leaving.* `LeavingHeld`: what a quit has reached at each of its places, as long as no
  failed one cleared the flag under it; `LeavingOwed`, `DnsOwed`: a latch, a flag, a server
  that is down and a resolver that does not fit the Core have a quit that answers for them.
- *Lightweight mode.* `EntriesClaim`: the mode is claimed by the entries or by the one who
  leaves it, never by both; `WindowInUse`: a window in front has no timer that runs.
- *Core upgrade.* `CoreIsKept`: at each step the Core that was there, or the verified new one,
  is under one of three names; `UpgradePlaces`, `UpgradeTold`: what is staged, linked,
  approved by the Service and reported at each of them. Killed anywhere, one that runs stays.
- *Enhancement.* `StagesInv`: which of the settings are in the configuration after each
  stage, so that what is captured is what they say; `NotesInv`: a captured key that has been
  lost was noted by one of the layers before, so that what is discarded is told.
- *Groups.* The lemmas are about lists: which elements `Picked` takes and in which order
  (`NthIs`, `PickedIs`, by the cardinality of what is in front), and from them what
  `Without`, `FirstOf` and `Offering` keep.
- *Provider caches.* `CacheShape` and `PassShape` date what is written and what is caught: the
  file that was caught had settled, and unless it was written since, its versions are those
  of the copy (`CopyShape`). `TaskShape`: a request that is owed has a task that waits.
- *Runtime bundle.* A path that is allocated is new, because of the numbers up to the size of
  a finite set of reserved paths one is free (`OneIsFree`); `EntriesShape`: two providers
  of one conflicting path share the new one exactly if they have one source.
- *Single instance.* `OwnersHoldTheLock`: whoever uses the data directory has the lock;
  `RecordOfTheOwner`: the record is the one who serves.
- *Installation guard.* `MovingPlaces`: under which name the installed and the new bundle
  are at each step.
- *Owner of the data directory.* `OwningPlaces`: on which side of the rebuild the entries can
  be; `OwningTokens`: one loader at a time makes a token, before anybody has loaded one.
- *Shortcuts.* `KeysAreKnown`, `KeysAreThere`: what an update under way still deletes or
  adds, between the old list and the new one, and that the focus and the start-up agree.

Assumed, besides types: 0 is no instance and "cmd" is no key of a list; a cache needs some
time to settle and a copy has some attempts.

**Only model-checked.** Liveness (`OperationsSettle`, `RequestsRetire`,
`ReadersReturn`, `LossesAreNoticed`, `EveryRequestEnds`) and `SomeRequestGoesOn`, which
is about ENABLED: the provers do not reach either. Every other property of a passing run is
stated by a theorem.

## 5. Where the code does otherwise

Two runs are refuted by what the code does, against one of its own comments:

- `config_writes_tun`: `continue_with_sidecar` starts the Core from a runtime draft that
  it never applies (`core/manager/lifecycle.rs:421`); a failing update discards it and
  the next restart starts with TUN, which the settings have off. The comment at `:411`
  says that a Sidecar that is not elevated must write TUN off.
- `profiles_exit`: `apply_all_and_save_file` (`config/config.rs:301`) holds the profile
  lock but not the permit: an edit that has saved and then commits is overwritten in
  `profiles.yaml` by the older copy, though `:282` says that changes are not lost.

Others are shown by a module, with a definition or an exception that names them:

- `RunStateReads!FrontendLearnsRelease`: `announce()` reads a snapshot and publishes it
  later; one read before the release of the slot can arrive after the one that reports
  it, and the frontend keeps `op_in_flight` until its next poll.
- `CoreSupervisor`, goal `accept`: `continue_with_sidecar` whose startup decision turns
  to the Service (an unlocked probe found it ready) rolls back as if a Sidecar had
  failed; the Service's Core keeps running, reported as stopped, against the conjunct
  `SessionMeansService` of `NothingDangles`. `core_supervisor` therefore leaves the goal out.
- `ConfigWrites!RejectedIsRolledBack`: a writer without a claim (`cmd/webdav.rs:19`)
  applies the draft of a patch that is then rejected.
- `NodeSelection`: `config/profiles.rs:597` says that a choice cancels the restoration "so
  it cannot overwrite a newer selection"; an ask that is already with the Core can still
  arrive after the choice. A settling deadline may also end a restoration before it is
  complete.
- `Updater`: when a check by hand deletes the cache, `update_ready` may stay true until
  the next cycle. `OffMeansNothingPending` is about the switch and does not claim this.
- `TraySpeed`: an abort during the task's own disconnect loses the stream's identifier
  (`severed`), against the comment at `core/tray/speed_task.rs:125`; a start during a
  stop is `overlapped`.
- `TrayMenu`: a request stored after the loop has looked for the second time waits for
  the next one (`slipped`; `cmd/proxy.rs:154` calls the loop permanent). A selection the
  Core makes by itself shows at the next read (`unasked`).
- `Shutdown`: a quit that failed clears `is_exiting` under another that goes on
  (`overlapped`); the end of the session may leave no time (`abandoned`).
- `CoreUpgrade`: an installed Core moved aside whose way back failed too waits for the
  next start (`stuck`).
- `Lightweight`: a focus while the timer is being set or has just run out (`late`); a
  request that takes the mode back before the entry has destroyed the window
  (`crossed`).
- `Hotkeys`: a key another application has ends an update half-way (`unbound`); tasks of
  two changes of the focus may run in the other order (`crossed`).
- `OwnerRepair`: a kill in the middle of a rebuild leaves the data in `.stale-<pid>`, which
  the next start does not look for (`torn`); a kill between `CREATE_NEW` and the write
  leaves an empty token that every later load refuses.
- `MixedPort`: a save that could not be stored drops its drafts before the Core that
  serves them goes back (the exception of `PacNamesWhatIsServed`).
- `RuntimeBundle`: a local provider declared after a remote one for the same destination
  shares it without a word.

## 6. What is not modelled

Within modelled components:

- *Core supervisor*: logs, job objects, the startup error, DNS set on the system.
- *Configuration writes*: the Clash settings as a layer of their own (they are claimed,
  committed and rolled back together with the settings), the runtime file,
  `use_default_config`, the refresh that follows `change_core`, the save of the
  settings at exit, the unclaimed edit of the runtime by `cmd/clash.rs:178`, and which
  effects a patch has. The reconciliation of TUN is one more patch.
- *Profiles*: downloads, refreshes by the timer as requests of their own, the saving and
  validating of a local profile's file, the merge and script files of an item, and the
  restoration of a backup, which replaces the profiles through the draft without a lock.
- *System proxy*: bypass lists, the autostart entry, the bytes of the settings.
- *Ports*: Windows' exclusive sockets; the locks that order starts and saves are those of
  `ConfigWrites`.
- *Nodes*: that the Core has left its former configuration by the second look is
  assumed, which is what the delay is for.
- *Enhancement*: keys in lower case only, the notes of a script that runs twice, a
  notice that is still pending, `hy_alpn`; a user's script may write any key.
- *Provider caches*: the first download does not stall for as long as a cache has to
  settle, no new one begins within that time of the last load, and a cache is dated by
  when it was written (Windows may keep an older date).
- *Backups*: the WebDAV client. *Lightweight*: where windows are placed, other platforms.
- *Single instance*: a foreign program on the port does not answer as an instance;
  `COMMANDS_READY` is not taken back while quitting. *Installation guard*: one process at a
  time moves the application. *Tray*: a Core that does not answer gives a menu without
  groups; calls of the toolkit do not fail.

Components left out: the *validation of configurations* is a process whose verdict is an
outcome of the steps of `ConfigWrites`; the *proxy view* is a pure reshaping for
display, tested by its units; the *supporting crates* are a limiter of one
compare-and-swap, log sinks, translations and unlock checks of web sites; the
*frontend* renders what it is told.

External, and free in their answers: Mihomo, the Service, the helper, the registry, the
file system, the update server, the installer. Tokio's `Notify`, channels and mutexes are
modelled from their use.

## 7. Plan

1. `ConfigWrites` with the Clash settings as a third layer, the runtime file, and the
   writers that edit the runtime without a claim.
2. Refreshes by the timer and the restoration of a backup as requests of `Profiles`.
3. The probe of the listeners on Windows.

An abstract specification worth stating then: the settings as one atomic register, which
`ConfigWrites` implements when nobody bypasses the claims.

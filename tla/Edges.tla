-------------------------------- MODULE Edges --------------------------------
(***************************************************************************)
(* The work at the edges of a session: leaving the application,            *)
(* lightweight mode and the window, the upgrade of the Core, the           *)
(* configuration that is generated, the groups of a profile, the caches    *)
(* that are copied back from the Service and the files that go to it, the  *)
(* second instance, the move to the Applications folder, the repair of the *)
(* data directory and the shortcuts. They share no state, so a behaviour   *)
(* is one of one component: part says which, and the others rest.          *)
(***************************************************************************)
EXTENDS Naturals, Sequences

CONSTANTS
  Quitters, MaxAttempts,                               \* Shutdown
  AutoLight, MaxTimers, MaxRequests, MaxDeaths,        \* Lightweight
  MaxUpgrades, MaxFaults,                              \* CoreUpgrade
  Touched, MaxSwitches, MaxProfile, MaxWrites,         \* Enhance
  GroupCounts, GroupLists,                             \* ProxyGroups
  Settle, Attempts, MaxTicks, MaxVersions, MaxApplies, MaxSyncs, \* ProviderSync
  ProviderCount, Paths,                                \* RuntimeBundle
  Instances, PortsOfServer, MaxTries,                  \* SingleInstance
  MaxMoves,                                            \* LaunchGuard
  Data, Loaders, MaxRepairs, MaxTokens,                \* OwnerRepair
  ShortcutKeys, Functions, MaxFocus, MaxUpdates        \* Hotkeys

ASSUME LeavingAssumption == MaxAttempts \in Nat
ASSUME LightAssumption == AutoLight \in BOOLEAN /\ {MaxTimers, MaxRequests, MaxDeaths} \subseteq Nat
ASSUME UpgradingAssumption == {MaxUpgrades, MaxFaults} \subseteq Nat
ASSUME EnhancingAssumption == {MaxSwitches, MaxProfile, MaxWrites} \subseteq Nat
ASSUME SyncingAssumption ==
  /\ {MaxVersions, MaxApplies, MaxSyncs} \subseteq Nat /\ {Settle, Attempts, MaxTicks} \subseteq Nat \ {0}
ASSUME BundlingAssumption == ProviderCount \in Nat
ASSUME StartingAssumption == 0 \notin Instances /\ MaxTries \in Nat
ASSUME MovingAssumption == MaxMoves \in Nat
ASSUME OwningAssumption == MaxRepairs \in Nat /\ MaxTokens \in Nat \ {0}
ASSUME PressingAssumption == {MaxFocus, MaxUpdates} \subseteq Nat /\ "cmd" \notin ShortcutKeys

VARIABLES
  part,
  stage, latch, exiting, core, dns, server, light, posted, app, unheard,
  overlapped, abandoned, unrestored, attempts,
  lmode, slot, entry, arming, leave, window, listens, focusing, page, marker,
  dying, lastClosed, quits, usedUp, late, crossed, requests, deaths,
  windows, target, staged, rollback, displaced, approved, coreMode, runs,
  upgrade, installed, restorable, wasService, staging, outcome, upgrades,
  coreFaults, began, stuck,
  generating, on, config, owned, globalWrite, writes, notes, discarded,
  pendingKeys, lastKeys, toldKeys,
  arranging, proxies, groups, providers, added, deleted, firstSelector,
  now, file, mtime, updatedAt, writing, madeFor, declared, session, local,
  queued, task, tries, syncing, pass, caught, copy, owed, stray, applies,
  syncs,
  bundling, geoThere, declaredProviders, entries, reserved, conflicts, at,
  destinations, copied, downloaded,
  phase, lock, record, boundTo, ready, saw, lockTries, shown, missed,
  moving, source, destination, stagingBundle, backup, orphans, hadDestination,
  moved, before, installedFirst, relaunched, unreturned, moves,
  repair, rootOwner, inRoot, inStale, strayData, reservedFiles, staleReserved,
  lockLive, repaired, token, loading, made, loaded, rootUnrestored, torn,
  repairs,
  mac, global, hotkeys, current, bound, foreign, focus, focusTasks, update,
  presses, ran, focusCrossed, unbound, focusChanges, updates

leavingVars ==
  <<stage, latch, exiting, core, dns, server, light, posted, app, unheard,
    overlapped, abandoned, unrestored, attempts>>
lightVars ==
  <<lmode, slot, entry, arming, leave, window, listens, focusing, page,
    marker, dying, lastClosed, quits, usedUp, late, crossed, requests, deaths>>
upgradingVars ==
  <<windows, target, staged, rollback, displaced, approved, coreMode, runs,
    upgrade, installed, restorable, wasService, staging, outcome, upgrades,
    coreFaults, began, stuck>>
enhancingVars ==
  <<generating, on, config, owned, globalWrite, writes, notes, discarded,
    pendingKeys, lastKeys, toldKeys>>
groupingVars ==
  <<arranging, proxies, groups, providers, added, deleted, firstSelector>>
syncingPartVars ==
  <<now, file, mtime, updatedAt, writing, madeFor, declared, session, local,
    queued, task, tries, syncing, pass, caught, copy, owed, stray, applies,
    syncs>>
bundleVars ==
  <<bundling, geoThere, declaredProviders, entries, reserved, conflicts, at,
    destinations, copied, downloaded>>
startingVars ==
  <<phase, lock, record, boundTo, ready, saw, lockTries, shown, missed>>
movingPartVars ==
  <<moving, source, destination, stagingBundle, backup, orphans,
    hadDestination, moved, before, installedFirst, relaunched, unreturned,
    moves>>
owningVars ==
  <<repair, rootOwner, inRoot, inStale, strayData, reservedFiles,
    staleReserved, lockLive, repaired, token, loading, made, loaded,
    rootUnrestored, torn, repairs>>
pressingVars ==
  <<mac, global, hotkeys, current, bound, foreign, focus, focusTasks, update,
    presses, ran, focusCrossed, unbound, focusChanges, updates>>
vars ==
  <<part, leavingVars, lightVars, upgradingVars, enhancingVars, groupingVars,
    syncingPartVars, bundleVars, startingVars, movingPartVars, owningVars,
    pressingVars>>

Leaving == INSTANCE Shutdown
Light == INSTANCE Lightweight WITH Auto <- AutoLight
Upgrading == INSTANCE CoreUpgrade
Enhancing == INSTANCE Enhance
Grouping == INSTANCE ProxyGroups WITH Lists <- GroupLists
ASSUME GroupingAssumption == GroupCounts \subseteq Nat /\ GroupLists \subseteq Seq(Grouping!Names)
Syncing == INSTANCE ProviderSync
Bundling == INSTANCE RuntimeBundle WITH Entries <- ProviderCount
Starting == INSTANCE SingleInstance WITH tries <- lockTries
Moving == INSTANCE LaunchGuard WITH
  staging <- stagingBundle, installed <- installedFirst
Owning == INSTANCE OwnerRepair WITH
  unrestored <- rootUnrestored, stray <- strayData, reserved <- reservedFiles
Pressing == INSTANCE Hotkeys WITH crossed <- focusCrossed, Keys <- ShortcutKeys

(* A component that has no part in the behaviour rests. *)
Resting == "resting"
LeavingRests ==
  /\ stage = Resting /\ latch = Resting /\ exiting = Resting /\ core = Resting
  /\ dns = Resting /\ server = Resting /\ light = Resting /\ posted = Resting
  /\ app = Resting /\ unheard = Resting /\ overlapped = Resting
  /\ abandoned = Resting /\ unrestored = Resting /\ attempts = Resting
LightRests ==
  /\ lmode = Resting /\ slot = Resting /\ entry = Resting /\ arming = Resting
  /\ leave = Resting /\ window = Resting /\ listens = Resting
  /\ focusing = Resting /\ page = Resting /\ marker = Resting
  /\ dying = Resting /\ lastClosed = Resting /\ quits = Resting
  /\ usedUp = Resting /\ late = Resting /\ crossed = Resting
  /\ requests = Resting /\ deaths = Resting
UpgradingRests ==
  /\ windows = Resting /\ target = Resting /\ staged = Resting
  /\ rollback = Resting /\ displaced = Resting /\ approved = Resting
  /\ coreMode = Resting /\ runs = Resting /\ upgrade = Resting
  /\ installed = Resting /\ restorable = Resting /\ wasService = Resting
  /\ staging = Resting /\ outcome = Resting /\ upgrades = Resting
  /\ coreFaults = Resting /\ began = Resting /\ stuck = Resting
EnhancingRests ==
  /\ generating = Resting /\ on = Resting /\ config = Resting
  /\ owned = Resting /\ globalWrite = Resting /\ writes = Resting
  /\ notes = Resting /\ discarded = Resting /\ pendingKeys = Resting
  /\ lastKeys = Resting /\ toldKeys = Resting
GroupingRests ==
  /\ arranging = Resting /\ proxies = Resting /\ groups = Resting
  /\ providers = Resting /\ added = Resting /\ deleted = Resting
  /\ firstSelector = Resting
SyncingRests ==
  /\ now = Resting /\ file = Resting /\ mtime = Resting /\ updatedAt = Resting
  /\ writing = Resting /\ madeFor = Resting /\ declared = Resting
  /\ session = Resting /\ local = Resting /\ queued = Resting
  /\ task = Resting /\ tries = Resting /\ syncing = Resting /\ pass = Resting
  /\ caught = Resting /\ copy = Resting /\ owed = Resting /\ stray = Resting
  /\ applies = Resting /\ syncs = Resting
BundlingRests ==
  /\ bundling = Resting /\ geoThere = Resting /\ declaredProviders = Resting
  /\ entries = Resting /\ reserved = Resting /\ conflicts = Resting
  /\ at = Resting /\ destinations = Resting /\ copied = Resting
  /\ downloaded = Resting
StartingRests ==
  /\ phase = Resting /\ lock = Resting /\ record = Resting
  /\ boundTo = Resting /\ ready = Resting /\ saw = Resting
  /\ lockTries = Resting /\ shown = Resting /\ missed = Resting
MovingRests ==
  /\ moving = Resting /\ source = Resting /\ destination = Resting
  /\ stagingBundle = Resting /\ backup = Resting /\ orphans = Resting
  /\ hadDestination = Resting /\ moved = Resting /\ before = Resting
  /\ installedFirst = Resting /\ relaunched = Resting /\ unreturned = Resting
  /\ moves = Resting
OwningRests ==
  /\ repair = Resting /\ rootOwner = Resting /\ inRoot = Resting
  /\ inStale = Resting /\ strayData = Resting /\ reservedFiles = Resting
  /\ staleReserved = Resting /\ lockLive = Resting /\ repaired = Resting
  /\ token = Resting /\ loading = Resting /\ made = Resting
  /\ loaded = Resting /\ rootUnrestored = Resting /\ torn = Resting
  /\ repairs = Resting
PressingRests ==
  /\ mac = Resting /\ global = Resting /\ hotkeys = Resting
  /\ current = Resting /\ bound = Resting /\ foreign = Resting
  /\ focus = Resting /\ focusTasks = Resting /\ update = Resting
  /\ presses = Resting /\ ran = Resting /\ focusCrossed = Resting
  /\ unbound = Resting /\ focusChanges = Resting /\ updates = Resting

Init ==
  \/ /\ part = "leaving" /\ Leaving!InitShutdown
     /\ LightRests /\ UpgradingRests /\ EnhancingRests /\ GroupingRests
     /\ SyncingRests /\ BundlingRests /\ StartingRests /\ MovingRests
     /\ OwningRests /\ PressingRests
  \/ /\ part = "light" /\ Light!InitLight
     /\ LeavingRests /\ UpgradingRests /\ EnhancingRests /\ GroupingRests
     /\ SyncingRests /\ BundlingRests /\ StartingRests /\ MovingRests
     /\ OwningRests /\ PressingRests
  \/ /\ part = "upgrading" /\ Upgrading!InitUpgrade
     /\ LeavingRests /\ LightRests /\ EnhancingRests /\ GroupingRests
     /\ SyncingRests /\ BundlingRests /\ StartingRests /\ MovingRests
     /\ OwningRests /\ PressingRests
  \/ /\ part = "enhancing" /\ Enhancing!InitEnhance
     /\ LeavingRests /\ LightRests /\ UpgradingRests /\ GroupingRests
     /\ SyncingRests /\ BundlingRests /\ StartingRests /\ MovingRests
     /\ OwningRests /\ PressingRests
  \/ /\ part = "grouping" /\ Grouping!InitGroups
     /\ LeavingRests /\ LightRests /\ UpgradingRests /\ EnhancingRests
     /\ SyncingRests /\ BundlingRests /\ StartingRests /\ MovingRests
     /\ OwningRests /\ PressingRests
  \/ /\ part = "syncingPart" /\ Syncing!InitSync
     /\ LeavingRests /\ LightRests /\ UpgradingRests /\ EnhancingRests
     /\ GroupingRests /\ BundlingRests /\ StartingRests /\ MovingRests
     /\ OwningRests /\ PressingRests
  \/ /\ part = "bundle" /\ Bundling!InitBundle
     /\ LeavingRests /\ LightRests /\ UpgradingRests /\ EnhancingRests
     /\ GroupingRests /\ SyncingRests /\ StartingRests /\ MovingRests
     /\ OwningRests /\ PressingRests
  \/ /\ part = "starting" /\ Starting!InitInstances
     /\ LeavingRests /\ LightRests /\ UpgradingRests /\ EnhancingRests
     /\ GroupingRests /\ SyncingRests /\ BundlingRests /\ MovingRests
     /\ OwningRests /\ PressingRests
  \/ /\ part = "movingPart" /\ Moving!InitGuard
     /\ LeavingRests /\ LightRests /\ UpgradingRests /\ EnhancingRests
     /\ GroupingRests /\ SyncingRests /\ BundlingRests /\ StartingRests
     /\ OwningRests /\ PressingRests
  \/ /\ part = "owning" /\ Owning!InitRepair
     /\ LeavingRests /\ LightRests /\ UpgradingRests /\ EnhancingRests
     /\ GroupingRests /\ SyncingRests /\ BundlingRests /\ StartingRests
     /\ MovingRests /\ PressingRests
  \/ /\ part = "pressing" /\ Pressing!InitHotkeys
     /\ LeavingRests /\ LightRests /\ UpgradingRests /\ EnhancingRests
     /\ GroupingRests /\ SyncingRests /\ BundlingRests /\ StartingRests
     /\ MovingRests /\ OwningRests

LeavingSteps ==
  /\ part = "leaving" /\ Leaving!NextShutdown
  /\ UNCHANGED <<part,
       lightVars, upgradingVars, enhancingVars, groupingVars, syncingPartVars,
       bundleVars, startingVars, movingPartVars, owningVars, pressingVars>>
LightSteps ==
  /\ part = "light" /\ Light!NextLight
  /\ UNCHANGED <<part,
       leavingVars, upgradingVars, enhancingVars, groupingVars,
       syncingPartVars, bundleVars, startingVars, movingPartVars, owningVars,
       pressingVars>>
UpgradingSteps ==
  /\ part = "upgrading" /\ Upgrading!NextUpgrade
  /\ UNCHANGED <<part,
       leavingVars, lightVars, enhancingVars, groupingVars, syncingPartVars,
       bundleVars, startingVars, movingPartVars, owningVars, pressingVars>>
EnhancingSteps ==
  /\ part = "enhancing" /\ Enhancing!NextEnhance
  /\ UNCHANGED <<part,
       leavingVars, lightVars, upgradingVars, groupingVars, syncingPartVars,
       bundleVars, startingVars, movingPartVars, owningVars, pressingVars>>
GroupingSteps ==
  /\ part = "grouping" /\ Grouping!NextGroups
  /\ UNCHANGED <<part,
       leavingVars, lightVars, upgradingVars, enhancingVars, syncingPartVars,
       bundleVars, startingVars, movingPartVars, owningVars, pressingVars>>
SyncingSteps ==
  /\ part = "syncingPart" /\ Syncing!NextSync
  /\ UNCHANGED <<part,
       leavingVars, lightVars, upgradingVars, enhancingVars, groupingVars,
       bundleVars, startingVars, movingPartVars, owningVars, pressingVars>>
BundlingSteps ==
  /\ part = "bundle" /\ Bundling!NextBundle
  /\ UNCHANGED <<part,
       leavingVars, lightVars, upgradingVars, enhancingVars, groupingVars,
       syncingPartVars, startingVars, movingPartVars, owningVars,
       pressingVars>>
StartingSteps ==
  /\ part = "starting" /\ Starting!NextInstances
  /\ UNCHANGED <<part,
       leavingVars, lightVars, upgradingVars, enhancingVars, groupingVars,
       syncingPartVars, bundleVars, movingPartVars, owningVars, pressingVars>>
MovingSteps ==
  /\ part = "movingPart" /\ Moving!NextGuard
  /\ UNCHANGED <<part,
       leavingVars, lightVars, upgradingVars, enhancingVars, groupingVars,
       syncingPartVars, bundleVars, startingVars, owningVars, pressingVars>>
OwningSteps ==
  /\ part = "owning" /\ Owning!NextRepair
  /\ UNCHANGED <<part,
       leavingVars, lightVars, upgradingVars, enhancingVars, groupingVars,
       syncingPartVars, bundleVars, startingVars, movingPartVars,
       pressingVars>>
PressingSteps ==
  /\ part = "pressing" /\ Pressing!NextHotkeys
  /\ UNCHANGED <<part,
       leavingVars, lightVars, upgradingVars, enhancingVars, groupingVars,
       syncingPartVars, bundleVars, startingVars, movingPartVars, owningVars>>

Next ==
  \/ LeavingSteps \/ LightSteps \/ UpgradingSteps \/ EnhancingSteps
  \/ GroupingSteps \/ SyncingSteps \/ BundlingSteps \/ StartingSteps
  \/ MovingSteps \/ OwningSteps \/ PressingSteps

Spec == Init /\ [][Next]_vars

-----------------------------------------------------------------------------
(* Types: the step and the place of every part are ones the code has.      *)
TypeOK ==
  /\ (part = "leaving" =>
        /\ Leaving!TypeOK)
  /\ (part = "light" =>
        /\ Light!TypeOK)
  /\ (part = "upgrading" =>
        /\ Upgrading!TypeOK)
  /\ (part = "enhancing" =>
        /\ Enhancing!TypeOK)
  /\ (part = "grouping" =>
        /\ Grouping!TypeOK)
  /\ (part = "syncingPart" =>
        /\ Syncing!TypeOK)
  /\ (part = "bundle" =>
        /\ Bundling!TypeOK)
  /\ (part = "starting" =>
        /\ Starting!TypeOK)
  /\ (part = "movingPart" =>
        /\ Moving!TypeOK)
  /\ (part = "owning" =>
        /\ Owning!TypeOK)
  /\ (part = "pressing" =>
        /\ Pressing!TypeOK)

(* Whatever ends, fails or is called off leaves nothing behind: an         *)
(* application that left has no Core and no resolver setting, and a quit   *)
(* that was called off is undone (window.rs); an upgrade of the Core that  *)
(* failed leaves a Core that runs and can be tried again                   *)
(* (core_upgrade.rs); a timer of lightweight mode can be cancelled and a   *)
(* page that was killed is loaded again (lightweight.rs,                   *)
(* resolve/window.rs); no request for a copy of a cache is lost            *)
(* (service.rs); an instance gives up only when another one is there       *)
(* (server.rs); a move of the application keeps a bundle that starts       *)
(* (macos_launch_guard.rs); a repair of the data directory loses no entry  *)
(* and no lock (owner_identity.rs); no shortcut stays that the list does   *)
(* not have (hotkey.rs).                                                   *)
NothingIsLeftBehind ==
  /\ (part = "leaving" =>
        /\ Leaving!ExitLeavesNothing /\ Leaving!CanceledQuitsAreUndone)
  /\ (part = "upgrading" =>
        /\ Upgrading!ARunnableCoreStays /\ Upgrading!FailedCanBeRetried)
  /\ (part = "light" =>
        /\ Light!TimersAreCancellable /\ Light!DeadPagesAreReloaded)
  /\ (part = "syncingPart" =>
        /\ Syncing!NoSyncIsLost)
  /\ (part = "starting" =>
        /\ Starting!GivingUpHasACause)
  /\ (part = "movingPart" =>
        /\ Moving!ABundleStays /\ Moving!InstallationIsKept
        /\ Moving!FailedMovesAreUndone)
  /\ (part = "owning" =>
        /\ Owning!NoDataIsLost /\ Owning!FailedRebuildsAreUndone
        /\ Owning!LiveLocksStay)
  /\ (part = "pressing" =>
        /\ Pressing!KeysDoWhatTheListSays)

(* What is told, shown, published or handed over is the whole of it: a     *)
(* quit that was reported goes through (window.rs); a window in use stays  *)
(* and giving it up quits nothing (lightweight.rs); an upgrade that is     *)
(* reported runs (core_upgrade.rs); the settings win over the overrides    *)
(* and what they may not write is told (enhance/mod.rs); groups name what  *)
(* is there (seq.rs); caches are whole and have one source (service.rs,    *)
(* runtime_bundle.rs); one instance uses the data directory, and a second  *)
(* one leaves only when the first raised its window (server.rs); a data    *)
(* directory that was repaired is whole, and the owner token the one in    *)
(* the file (owner_identity.rs); a shortcut of the window runs for the     *)
(* window in front only (hotkey.rs).                                       *)
WhatIsTakenIsWhole ==
  /\ (part = "leaving" =>
        /\ Leaving!CommittedQuitsGoThrough)
  /\ (part = "light" =>
        /\ Light!WindowsInUseStay /\ Light!EnteringNeverQuits)
  /\ (part = "upgrading" =>
        /\ Upgrading!ReportedMeansUpgraded)
  /\ (part = "enhancing" =>
        /\ Enhancing!SettingsWin /\ Enhancing!LanIsServed
        /\ Enhancing!DiscardedKeysAreTold /\ Enhancing!FakeIpHasARange)
  /\ (part = "grouping" =>
        /\ Grouping!ReferencesResolve /\ Grouping!AddedCanBeChosen)
  /\ (part = "syncingPart" =>
        /\ Syncing!PublishedCachesAreWhole)
  /\ (part = "bundle" =>
        /\ Bundling!OnlyLocalConflictsRefuse /\ Bundling!CachesHaveOneSource)
  /\ (part = "starting" =>
        /\ Starting!OnePrimary /\ Starting!RecordNamesThePrimary
        /\ Starting!SecondariesAreShown)
  /\ (part = "owning" =>
        /\ Owning!RepairedMeansWhole /\ Owning!TokensAgree)
  /\ (part = "pressing" =>
        /\ Pressing!WindowKeysNeedTheWindow)
=============================================================================

---------------------------- MODULE CoreUpgrade ----------------------------
\* The in-app upgrade of the Core (feat/core_upgrade.rs): a release is staged
\* beside the managed Core, verified by running it, renamed into place, handed to
\* the Service when the Service runs the Core, and taken back when it fails.
\* The application may be killed between any two steps.
\*
\* A file is what it reports when it is run: "old", "new" (the latest release),
\* "broken" (not runnable) or "none" (absent).
EXTENDS Naturals

CONSTANTS
  MaxUpgrades,  \* bound: upgrades asked for
  MaxFaults     \* bound: Cores that die, and applications that are killed

VARIABLES
  windows,      \* the platform: there a running executable is moved, not replaced
  target, staged, rollback, displaced,  \* the managed Core and its three side files
  approved,     \* the Service's own copy of it
  coreMode,     \* "service", "sidecar", "down"
  runs,         \* the version the Core executes
  upgrade,      \* where upgrade_core is
  installed,    \* the version it read, "none" for a Core that cannot report one
  restorable, wasService, staging,      \* its three decisions
  outcome,      \* what it reported: "none", "nothing", "upgraded", "failed"
  upgrades, coreFaults,
  began,        \* history: the managed Core when the upgrade began
  stuck         \* history: a restore, or its copy to the Service, failed

files == <<windows, target, staged, rollback, displaced, approved>>
running == <<coreMode, runs>>
decisions == <<installed, restorable, wasService, staging>>
told == <<outcome, began, stuck>>
counted == <<upgrades, coreFaults>>
upgradeVars == <<files, running, upgrade, decisions, told, counted>>

Files == {"old", "new", "broken", "none"}
Runnable(f) == f \in {"old", "new"}
UpgradeStages == {"idle", "reading", "resolving", "unpacking", "verifying", "linking", "deciding",
                  "publishing", "aside", "handing", "restarting", "recovering", "restaging",
                  "restartingBack", "failing", "finishing"}
TypeOK ==
  /\ windows \in BOOLEAN
  /\ {target, staged, rollback, displaced, approved, installed, began} \subseteq Files
  /\ coreMode \in {"service", "sidecar", "down"} /\ runs \in {"old", "new", "none"}
  /\ upgrade \in UpgradeStages /\ restorable \in BOOLEAN /\ wasService \in BOOLEAN
  /\ staging \in {"notAttempted", "succeeded", "refused"}
  /\ outcome \in {"none", "nothing", "upgraded", "failed"} /\ stuck \in BOOLEAN
  /\ upgrades \in 0..MaxUpgrades /\ coreFaults \in 0..MaxFaults

\* A Core the updater of the Core itself broke is upgraded as its repair.
InitUpgrade ==
  /\ windows \in BOOLEAN /\ target \in {"old", "broken"} /\ staged = "none" /\ rollback = "none" /\ displaced = "none"
  /\ approved = "old" /\ coreMode \in {"service", "sidecar"}
  /\ runs = "old" /\ (target = "broken" => coreMode = "service")
  /\ upgrade = "idle" /\ installed = "none" /\ restorable = FALSE /\ wasService = FALSE
  /\ staging = "notAttempted" /\ outcome = "none" /\ began = target /\ stuck = FALSE
  /\ upgrades = 0 /\ coreFaults = 0

Go(s) == upgrade' = s
-----------------------------------------------------------------------------
(* Staging                                                                    *)

\* One upgrade at a time (UPGRADE_LOCK).
Upgrade ==
  /\ upgrade = "idle" /\ upgrades < MaxUpgrades /\ upgrades' = upgrades + 1
  /\ Go("reading") /\ outcome' = "none" /\ began' = target /\ stuck' = FALSE
  /\ UNCHANGED <<files, running, decisions, coreFaults>>

ReadInstalled ==
  /\ upgrade = "reading" /\ Go("resolving")
  /\ installed' = IF Runnable(target) THEN target ELSE "none"
  /\ restorable' = FALSE /\ wasService' = FALSE /\ staging' = "notAttempted"
  /\ UNCHANGED <<files, running, told, counted>>

\* The latest version, over three proxies; an upgrade to the version installed
\* does nothing unless it is forced.
Resolve ==
  /\ upgrade = "resolving"
  /\ \/ Go("idle") /\ outcome' = "failed"
     \/ installed = "new" /\ Go("idle") /\ outcome' = "nothing"
     \/ Go("unpacking") /\ UNCHANGED outcome
  /\ UNCHANGED <<files, running, decisions, began, stuck, counted>>

Unpack ==
  /\ upgrade = "unpacking"
  /\ \/ Go("idle") /\ outcome' = "failed" /\ UNCHANGED staged
     \/ \E f \in {"new", "broken"} : staged' = f /\ Go("verifying") /\ UNCHANGED outcome
  /\ UNCHANGED <<windows, target, rollback, displaced, approved, running, decisions, began, stuck, counted>>

\* Mutant: the staged Core is published without being run.
StageUnverified ==
  /\ upgrade = "verifying" /\ Go("linking")
  /\ UNCHANGED <<files, running, decisions, told, counted>>

\* A staged Core that does not report the version is removed.
Verify ==
  /\ upgrade = "verifying"
  /\ \/ staged = "new" /\ Go("linking") /\ UNCHANGED <<staged, outcome>>
     \/ staged # "new" /\ Go("idle") /\ staged' = "none" /\ outcome' = "failed"
  /\ UNCHANGED <<windows, target, rollback, displaced, approved, running, decisions, began, stuck, counted>>

\* A hard link keeps the Core that is replaced, when it is worth keeping.
Link ==
  /\ upgrade = "linking" /\ Go("deciding")
  /\ \/ installed # "none" /\ rollback' = target /\ restorable' = TRUE
     \/ rollback' = "none" /\ restorable' = FALSE
  /\ UNCHANGED <<windows, target, staged, displaced, approved, running, installed, wasService, staging,
                 told, counted>>

\* Decided before anything can crash: a Core that is down says nothing.
Decide ==
  /\ upgrade = "deciding" /\ Go("publishing") /\ wasService' = (coreMode = "service")
  /\ UNCHANGED <<files, running, installed, restorable, staging, told, counted>>
-----------------------------------------------------------------------------
(* Publishing                                                                 *)

\* The rename; Windows first moves a running executable aside.
Publish ==
  /\ upgrade = "publishing"
  /\ \/ target' = staged /\ staged' = "none" /\ Go("handing") /\ UNCHANGED displaced
     \/ ~windows /\ staged' = "none" /\ Go("recovering") /\ UNCHANGED <<target, displaced>>
     \/ /\ windows /\ target # "none" /\ displaced' = target /\ target' = "none"
        /\ Go("aside") /\ UNCHANGED staged
     \/ windows /\ displaced' = "none" /\ staged' = "none" /\ Go("recovering") /\ UNCHANGED target
  /\ UNCHANGED <<windows, rollback, approved, running, decisions, told, counted>>

PublishAside ==
  /\ upgrade = "aside" /\ staged' = "none"
  /\ \/ target' = staged /\ displaced' = "none" /\ Go("handing")
     \/ target' = displaced /\ displaced' = "none" /\ Go("recovering")
     \/ Go("recovering") /\ UNCHANGED <<target, displaced>>
  /\ UNCHANGED <<windows, rollback, approved, running, decisions, told, counted>>

\* Mutant: the Service keeps its copy.
HandOverNothing ==
  /\ upgrade = "handing" /\ Go("restarting")
  /\ UNCHANGED <<files, running, decisions, told, counted>>

\* stage_approved_core: the Service executes its own copy.
HandOver ==
  /\ upgrade = "handing"
  /\ \/ ~wasService /\ Go("restarting") /\ UNCHANGED <<approved, staging>>
     \/ wasService /\ approved' = target /\ staging' = "succeeded" /\ Go("restarting")
     \/ wasService /\ staging' = "refused" /\ Go("recovering") /\ UNCHANGED approved
  /\ UNCHANGED <<windows, target, staged, rollback, displaced, running, installed, restorable, wasService,
                 told, counted>>

\* What a Core that is started executes: the Service's copy, or the file.
Executes(m) == IF m = "service" THEN approved ELSE target
Started(m) == Runnable(Executes(m)) /\ coreMode' = m /\ runs' = Executes(m)
ModeAsked == IF wasService THEN "service" ELSE "sidecar"

\* restart_core may stop nothing, or fail to start what it stopped.
Restart ==
  /\ upgrade = "restarting"
  /\ \/ Started(ModeAsked) /\ Go("finishing")
     \/ Go("recovering") /\ UNCHANGED running
     \/ Go("recovering") /\ coreMode' = "down" /\ runs' = "none"
  /\ UNCHANGED <<files, decisions, told, counted>>

\* The previous Core is no longer needed.
Finish ==
  /\ upgrade = "finishing" /\ Go("idle") /\ outcome' = "upgraded"
  /\ rollback' = "none" /\ displaced' = "none"
  /\ UNCHANGED <<windows, target, staged, approved, running, decisions, began, stuck, counted>>
-----------------------------------------------------------------------------
(* Taking it back                                                             *)

\* Mutant: a Core the Service refused stays where it is.
WorthRestoringUnlessRefused ==
  restorable /\ (coreMode = "down" \/ target = "none")

WorthRestoring ==
  restorable /\ (staging = "refused" \/ coreMode = "down" \/ target = "none")

AfterRestore == IF staging = "succeeded" THEN "restaging" ELSE "restartingBack"

\* The link is renamed over the file; the rename may fail.
Restore ==
  /\ upgrade = "recovering"
  /\ \/ WorthRestoring /\ target' = rollback /\ rollback' = "none" /\ Go(AfterRestore)
        /\ UNCHANGED stuck
     \/ WorthRestoring /\ stuck' = TRUE /\ Go("failing") /\ UNCHANGED <<target, rollback>>
     \/ ~WorthRestoring /\ Go("failing") /\ UNCHANGED <<target, rollback, stuck>>
  /\ UNCHANGED <<windows, staged, displaced, approved, running, decisions, outcome, began, counted>>

\* Only a hand-over that succeeded left the failing Core with the Service.
Restage ==
  /\ upgrade = "restaging" /\ Go("restartingBack")
  /\ \/ approved' = target /\ UNCHANGED stuck
     \/ stuck' = TRUE /\ UNCHANGED approved
  /\ UNCHANGED <<windows, target, staged, rollback, displaced, running, decisions, outcome, began, counted>>

RestartBack ==
  /\ upgrade = "restartingBack" /\ Go("failing")
  /\ \/ coreMode = "down" /\ Started(ModeAsked)
     \/ UNCHANGED running
  /\ UNCHANGED <<files, decisions, told, counted>>

Fail ==
  /\ upgrade = "failing" /\ Go("idle") /\ outcome' = "failed"
  /\ rollback' = "none"
  /\ displaced' = IF windows /\ restorable THEN "none" ELSE displaced
  /\ UNCHANGED <<windows, target, staged, approved, running, decisions, began, stuck, counted>>
-----------------------------------------------------------------------------
(* The world                                                                  *)

CoreDies ==
  /\ coreMode # "down" /\ coreFaults < MaxFaults /\ coreFaults' = coreFaults + 1
  /\ coreMode' = "down" /\ runs' = "none"
  /\ UNCHANGED <<files, upgrade, decisions, told, upgrades>>

\* The application is killed and started again: the files stay as they are, and
\* the next start removes nothing.
ApplicationDies ==
  /\ upgrade # "idle" /\ coreFaults < MaxFaults /\ coreFaults' = coreFaults + 1
  /\ Go("idle") /\ staged' = "none" /\ outcome' = "none" /\ stuck' = FALSE
  /\ installed' = "none" /\ restorable' = FALSE /\ wasService' = FALSE /\ staging' = "notAttempted"
  /\ coreMode' \in {m \in {"service", "sidecar", "down"} :
                      m = "down" \/ Runnable(Executes(m))}
  /\ runs' = IF coreMode' = "down" THEN "none" ELSE Executes(coreMode')
  /\ UNCHANGED <<windows, target, rollback, displaced, approved, began, upgrades>>

NextUpgrade ==
  \/ Upgrade \/ ReadInstalled \/ Resolve \/ Unpack \/ Verify \/ Link \/ Decide
  \/ Publish \/ PublishAside \/ HandOver \/ Restart \/ Finish
  \/ Restore \/ Restage \/ RestartBack \/ Fail
  \/ CoreDies \/ ApplicationDies

SpecUpgrade == InitUpgrade /\ [][NextUpgrade]_upgradeVars
-----------------------------------------------------------------------------
(* Properties                                                                 *)

\* A Core that could run is never replaced by one that cannot, nor lost, wherever
\* the upgrade fails or is killed (core_upgrade.rs, which exists because an
\* upgrade in place left an empty Core behind). Windows has moments without the
\* file, with the old Core in a side file. Excepted is a restore that itself fails.
ARunnableCoreStays ==
  Runnable(began) /\ ~stuck =>
    \/ Runnable(target)
    \/ windows /\ (Runnable(displaced) \/ Runnable(rollback))

\* An upgrade that is reported has reached what the Core executes, the Service's
\* copy included.
ReportedMeansUpgraded ==
  outcome = "upgraded" => target = "new" /\ (wasService => approved = "new")

\* A failed upgrade can be tried again: it does not leave the new version where
\* the next one reads it while the Service keeps the old one. Excepted are a Core
\* that could not be kept for a restore, a restore that failed, and a file an
\* application that was killed had replaced before this upgrade began.
FailedCanBeRetried ==
  outcome = "failed" /\ wasService /\ restorable /\ ~stuck /\ began = "old" =>
    (target = "new" => approved = "new")
=============================================================================

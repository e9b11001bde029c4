---------------------------- MODULE CoreSupervisor ----------------------------
(***************************************************************************)
(* The Core and whatever supervises it (src-tauri/src/core/manager and the *)
(* owner monitor of core/service.rs).                                      *)
(*                                                                         *)
(* Transitions of the Core are serialised by lifecycle_lock: at most one   *)
(* `op` is under way, and its place between two awaits is `op`.  Beside it *)
(* run, without the lock until their last step, the monitors that watch    *)
(* the Service's ownership and the handlers of terminated Sidecars.  They  *)
(* are told from one another by the owner generation and by the pid.       *)
(*                                                                         *)
(* What the Service, the operating system and the user's settings answer   *)
(* is free.  How many bad samples make a loss is OwnerWatch's business.    *)
(***************************************************************************)
EXTENDS Naturals, FiniteSets

CONSTANTS
  OnMacOS,     \* the Service writes the system proxy there, and only there
  Goals,       \* the transitions that may be asked for
  MaxOps,      \* bound: transitions
  MaxFaults,   \* bound: Cores that die and Services that are taken away
  MaxOwner     \* bound: owner generations

AllGoals == {"start", "stop", "exit", "restart", "replace", "uninstall", "handoff", "accept"}

ASSUME GoalsAssumption == Goals \subseteq AllGoals
ASSUME BoundsAssumption == MaxOps \in Nat /\ MaxFaults \in Nat /\ MaxOwner \in Nat
ASSUME PlatformAssumption == OnMacOS \in BOOLEAN

VARIABLES
  mode,        \* RunState.mode, the Running Mode
  readiness,   \* the readiness word: its generation while active, else 0
  epoch,       \* the last readiness generation given out
  session,     \* whether a Service owner session is held
  owner,       \* OWNER_MONITOR_GENERATION
  monitor,     \* of each generation, its monitor
  child,       \* the pid of the supervised Sidecar, or 0
  spawned,     \* the pid of the Sidecar spawned last
  life,        \* of each pid, its Sidecar process and the handler of its exit
  readied,     \* of each pid, the readiness generation it was spawned with
  proxy,       \* whether the system proxy points at the Core
  guard,       \* whether the proxy guard enforces it
  held,        \* whether the Service still runs the Core for this owner
  lock,        \* who holds lifecycle_lock
  op, goal,    \* where the transition under way is, and what it is for
  expected,    \* ProxyRestoreExpectation of the transition
  exiting,     \* Handle::is_exiting, and how the stop that quit awaits went
  watched,     \* history: the readiness generation a monitor's loss is about
  ops, faults  \* counters for the bounds

coreVars == <<mode, readiness, epoch>>
ownerVars == <<session, owner, monitor, watched>>
sidecarVars == <<child, spawned, life, readied>>
proxyVars == <<proxy, guard>>
opVars == <<lock, op, goal, expected>>
bounds == <<ops, faults>>
vars == <<coreVars, ownerVars, sidecarVars, proxyVars, held, opVars, exiting, bounds>>

Modes == {"notRunning", "service", "sidecar"}
Generations == 1..MaxOwner
Pids == 1..MaxOps

Watches == {"none", "watching", "lost", "claimed", "waiting", "recovering"}
Lives == {"unborn", "alive", "dead", "noticed", "reaped"}
Places ==
  {"idle", "preparing", "halting", "deciding", "service", "spawning", "polling",
   "checking", "applying", "applied", "guarding", "rollingBack"}

NoExpectation == [mode |-> "notRunning", readiness |-> 0, owner |-> 0]

-------------------------------------------------------------------------------
(***************************************************************************)
(* core_started, core_stopped and the readiness word (manager/mod.rs).     *)
(***************************************************************************)

\* Mutant: the generation of the Core before is used again.
MarkReadyAgain ==
  /\ readiness' = epoch + 1
  /\ UNCHANGED epoch

MarkReady ==
  /\ epoch' = epoch + 1
  /\ readiness' = epoch + 1

CoreStopped ==
  /\ mode' = "notRunning"
  /\ readiness' = 0
  /\ UNCHANGED epoch

CoreReady == mode # "notRunning" /\ readiness # 0

-------------------------------------------------------------------------------
(***************************************************************************)
(* The owner monitors.                                                     *)
(***************************************************************************)

\* cancel_owner_monitors: whatever watches now is superseded.
CancelMonitors == owner' = owner + 1 /\ UNCHANGED <<monitor, watched>>

\* start_owner_monitor, n generations on: the older monitors are superseded.
StartMonitor(n) ==
  /\ owner + n \in Generations
  /\ owner' = owner + n
  /\ monitor' = [monitor EXCEPT ![owner + n] = "watching"]
  /\ UNCHANGED watched

End(m) == monitor' = [monitor EXCEPT ![m] = "none"]

\* The check at the head of the loop.
MonitorEnds(m) ==
  /\ monitor[m] = "watching"
  /\ owner # m \/ mode # "service"
  /\ End(m)
  /\ UNCHANGED <<coreVars, session, owner, watched, sidecarVars, proxyVars, held,
                 opVars, exiting, bounds>>

\* A sustained bad sample: the Service no longer runs the Core for us, or we
\* hold no session to prove that it does.
MonitorLoses(m) ==
  /\ monitor[m] = "watching"
  /\ owner = m /\ mode = "service"
  /\ ~held \/ ~session
  /\ monitor' = [monitor EXCEPT ![m] = "lost"]
  /\ UNCHANGED <<coreVars, session, owner, watched, sidecarVars, proxyVars, held,
                 opVars, exiting, bounds>>

\* recover_after_owner_loss, first half, before the lifecycle lock.
ClaimRecovery(m) ==
  /\ monitor[m] = "lost"
  /\ \/ /\ mode # "service" \/ owner # m
        /\ End(m)
        /\ UNCHANGED <<owner, watched>>
     \/ /\ mode = "service" /\ owner = m
        /\ owner' = m + 1
        /\ monitor' = [monitor EXCEPT ![m] = "claimed"]
        /\ watched' = [watched EXCEPT ![m] = epoch]
  /\ UNCHANGED <<coreVars, session, sidecarVars, proxyVars, held, opVars, exiting, bounds>>

InvalidateReadiness(m) ==
  /\ monitor[m] = "claimed"
  /\ readiness' = 0
  /\ monitor' = [monitor EXCEPT ![m] = "waiting"]
  /\ UNCHANGED <<mode, epoch, session, owner, watched, sidecarVars, proxyVars, held,
                 opVars, exiting, bounds>>

\* Mutant: the lock is taken and nothing looked at again.
RecoverUnchecked(m) ==
  /\ monitor[m] = "waiting"
  /\ lock = "free"
  /\ lock' = "monitor"
  /\ monitor' = [monitor EXCEPT ![m] = "recovering"]
  /\ UNCHANGED <<coreVars, session, owner, watched, sidecarVars, proxyVars, held,
                 op, goal, expected, exiting, bounds>>

\* Second half: under the lock, the claim and the mode are looked at again.
Recover(m) ==
  /\ monitor[m] = "waiting"
  /\ lock = "free"
  /\ \/ /\ owner # m + 1 \/ mode # "service"
        /\ End(m)
        /\ UNCHANGED lock
     \/ /\ owner = m + 1 /\ mode = "service"
        /\ lock' = "monitor"
        /\ monitor' = [monitor EXCEPT ![m] = "recovering"]
  /\ UNCHANGED <<coreVars, session, owner, watched, sidecarVars, proxyVars, held,
                 op, goal, expected, exiting, bounds>>

\* recover_after_owner_loss_while_locked: a proxy that cannot be cleared, or is
\* no longer ours to clear, does not keep the Core up.
\* Mutant: the session of the lost owner is kept.
KeepSession ==
  /\ guard' = FALSE
  /\ proxy' \in {proxy, FALSE}
  /\ CoreStopped
  /\ UNCHANGED session

GiveUpOwnership ==
  /\ guard' = FALSE
  /\ proxy' \in {proxy, FALSE}
  /\ session' = FALSE
  /\ CoreStopped

FinishRecovery(m) ==
  /\ monitor[m] = "recovering"
  /\ GiveUpOwnership
  /\ lock' = "free"
  /\ End(m)
  /\ UNCHANGED <<owner, watched, sidecarVars, held, op, goal, expected, exiting, bounds>>

-------------------------------------------------------------------------------
(***************************************************************************)
(* The exit of a Sidecar: its readiness goes at once, the rest waits for   *)
(* the lock (state.rs).                                                    *)
(***************************************************************************)

\* Mutant: the readiness of whichever Core runs now is invalidated.
NoticeAnyExit(p) ==
  /\ life[p] = "dead"
  /\ life' = [life EXCEPT ![p] = "noticed"]
  /\ readiness' = 0
  /\ UNCHANGED <<mode, epoch, ownerVars, child, spawned, readied, proxyVars, held, opVars, exiting, bounds>>

\* Its readiness generation is its own: its handler carries it.
NoticeExit(p) ==
  /\ life[p] = "dead"
  /\ life' = [life EXCEPT ![p] = "noticed"]
  /\ readiness' = IF readiness = readied[p] THEN 0 ELSE readiness
  /\ UNCHANGED <<mode, epoch, ownerVars, child, spawned, readied, proxyVars, held, opVars, exiting, bounds>>

\* Mutant: the pid is not compared.
ClearAnySidecar(p) ==
  /\ life[p] = "noticed"
  /\ lock = "free"
  /\ life' = [life EXCEPT ![p] = "reaped"]
  /\ \/ mode = "sidecar" /\ child' = 0 /\ guard' = FALSE /\ CoreStopped
     \/ mode # "sidecar" /\ UNCHANGED <<child, guard, coreVars>>
  /\ UNCHANGED <<ownerVars, spawned, readied, proxy, held, opVars, exiting, bounds>>

\* Mutant: the child of the exited process is not taken.
ClearKeepingChild(p) ==
  /\ life[p] = "noticed"
  /\ lock = "free"
  /\ life' = [life EXCEPT ![p] = "reaped"]
  /\ \/ mode = "sidecar" /\ child = p /\ guard' = FALSE /\ CoreStopped
     \/ (mode # "sidecar" \/ child # p) /\ UNCHANGED <<guard, coreVars>>
  /\ UNCHANGED <<ownerVars, child, spawned, readied, proxy, held, opVars, exiting, bounds>>

\* Mutant: the guard goes on enforcing the proxy of the exited Core.
ClearKeepingGuard(p) ==
  /\ life[p] = "noticed"
  /\ lock = "free"
  /\ life' = [life EXCEPT ![p] = "reaped"]
  /\ \/ mode = "sidecar" /\ child = p /\ child' = 0 /\ CoreStopped
     \/ (mode # "sidecar" \/ child # p) /\ UNCHANGED <<child, coreVars>>
  /\ UNCHANGED <<ownerVars, spawned, readied, proxyVars, held, opVars, exiting, bounds>>

ClearTerminatedSidecar(p) ==
  /\ life[p] = "noticed"
  /\ lock = "free"
  /\ life' = [life EXCEPT ![p] = "reaped"]
  /\ \/ mode = "sidecar" /\ child = p /\ child' = 0 /\ guard' = FALSE /\ CoreStopped
     \/ (mode # "sidecar" \/ child # p) /\ UNCHANGED <<child, guard, coreVars>>
  /\ UNCHANGED <<ownerVars, spawned, readied, proxy, held, opVars, exiting, bounds>>

-------------------------------------------------------------------------------
(***************************************************************************)
(* Transitions under the lifecycle lock (lifecycle.rs).                    *)
(***************************************************************************)

Go(from, to) == op = from /\ op' = to

\* The transition is over, with or without an error, and the lock is released.
Finish ==
  /\ op' = "idle"
  /\ lock' = "free"
  /\ goal' = "none"
  /\ expected' = NoExpectation

BeginOp(g) ==
  /\ lock = "free" /\ ops < MaxOps
  /\ g = "replace" => mode = "service"
  /\ g = "handoff" => mode = "sidecar" /\ ~OnMacOS
  /\ g = "accept" => mode # "service"
  /\ g = "exit" => exiting = "asked"
  /\ lock' = "op"
  /\ goal' = g
  /\ op' = IF g \in {"start", "accept"} THEN "deciding" ELSE "preparing"
  /\ guard' = (guard /\ g # "accept")
  /\ ops' = ops + 1
  /\ UNCHANGED <<coreVars, ownerVars, sidecarVars, proxy, held, expected, exiting, faults>>

Stay == UNCHANGED <<lock, goal, expected>>

\* Where a stop leads.
AfterStop ==
  \/ goal \in {"stop", "exit"} /\ Finish
  \/ goal \in {"restart", "uninstall"} /\ op' = "deciding" /\ Stay
  \/ goal \in {"replace", "handoff"} /\ op' = "service" /\ Stay
  \/ goal = "fallback" /\ op' = "spawning" /\ Stay

\* Where a start leads that failed, or whose proxy could not be applied.  The
\* handoff stops the Service and goes back to Sidecar.
AfterFailedStart ==
  \/ /\ goal \in {"start", "restart", "accept", "uninstall", "fallback"}
     /\ op' = "rollingBack" /\ Stay
  \/ goal = "replace" /\ Finish
  \/ goal = "handoff" /\ op' = "preparing" /\ goal' = "fallback" /\ UNCHANGED <<lock, expected>>

AfterFailedProxy ==
  \/ goal \in {"start", "restart", "replace"} /\ Finish
  \/ goal \in {"accept", "uninstall", "fallback"} /\ op' = "rollingBack" /\ Stay
  \/ goal = "handoff" /\ op' = "preparing" /\ goal' = "fallback" /\ UNCHANGED <<lock, expected>>

\* quit goes on when the stop succeeded, and is cancelled when it failed.
NoteExit(outcome) ==
  \/ goal = "exit" /\ exiting' = outcome
  \/ goal # "exit" /\ UNCHANGED exiting

StopFails == Finish /\ NoteExit("failed")

\* run_controlled_stop_transition, up to the stop.
StopGuardOnly ==
  /\ op = "preparing"
  /\ OnMacOS
  /\ mode = "service" \/ (mode = "sidecar" /\ goal = "restart")
  /\ op' = "halting"
  /\ guard' = FALSE
  /\ Stay
  /\ UNCHANGED <<coreVars, ownerVars, sidecarVars, proxy, held, exiting, bounds>>

\* Mutant: a proxy that could not be cleared does not keep the Core from
\* being stopped.
ClearProxyAnyway ==
  /\ op = "preparing"
  /\ mode # "notRunning"
  /\ OnMacOS => mode # "service"
  /\ guard' = FALSE
  /\ proxy' \in {proxy, FALSE} /\ op' = "halting" /\ Stay
  /\ UNCHANGED <<coreVars, ownerVars, sidecarVars, held, exiting, bounds>>

ClearProxy ==
  /\ op = "preparing"
  /\ mode # "notRunning"
  /\ OnMacOS => mode # "service"
  /\ guard' = FALSE
  /\ \/ proxy' = FALSE /\ op' = "halting" /\ Stay /\ UNCHANGED exiting
     \/ UNCHANGED proxy /\ StopFails
  /\ UNCHANGED <<coreVars, ownerVars, sidecarVars, held, bounds>>

NothingToStop ==
  /\ op = "preparing"
  /\ mode = "notRunning"
  /\ AfterStop
  /\ NoteExit("stopped")
  /\ UNCHANGED <<coreVars, ownerVars, sidecarVars, proxyVars, held, bounds>>

\* stop_core_by_service.
ServiceStops ==
  /\ op = "halting" /\ mode = "service" /\ session
  /\ CancelMonitors
  /\ session' = FALSE
  /\ held' = FALSE
  /\ CoreStopped
  /\ AfterStop
  /\ NoteExit("stopped")
  /\ UNCHANGED <<sidecarVars, proxyVars, bounds>>

\* Mutant: the monitor that the stop cancelled is not replaced.
ServiceKeepsUnwatched ==
  /\ op = "halting" /\ mode = "service"
  /\ CancelMonitors
  /\ session => held' \in {held, FALSE}
  /\ ~session => UNCHANGED held
  /\ StopFails
  /\ UNCHANGED <<coreVars, session, sidecarVars, proxyVars, bounds>>

\* The stop could not be asked, was refused, or its answer was lost.
ServiceKeeps ==
  /\ op = "halting" /\ mode = "service"
  /\ StartMonitor(2)
  /\ session => held' \in {held, FALSE}
  /\ ~session => UNCHANGED held
  /\ StopFails
  /\ UNCHANGED <<coreVars, session, sidecarVars, proxyVars, bounds>>

\* The Service is another owner's.
ServiceDisowns ==
  /\ op = "halting" /\ mode = "service" /\ session /\ ~held
  /\ CancelMonitors
  /\ GiveUpOwnership
  /\ StopFails
  /\ UNCHANGED <<sidecarVars, held, bounds>>

\* kill() of the process; its exit is reported like any other.
Kill(p) ==
  life' = [life EXCEPT ![p] = IF @ = "alive" THEN "dead" ELSE @]

\* stop_core_by_sidecar_unprepared: the Core counts as stopped even when the
\* wait for its exit fails.
SidecarStops ==
  /\ op = "halting" /\ mode = "sidecar"
  /\ Kill(child) /\ child' = 0 /\ UNCHANGED <<spawned, readied>>
  /\ CoreStopped
  /\ \/ AfterStop /\ NoteExit("stopped")
     \/ StopFails
  /\ UNCHANGED <<ownerVars, proxyVars, held, bounds>>

-------------------------------------------------------------------------------
(***************************************************************************)
(* start_core_inner and the two starts.                                    *)
(***************************************************************************)

NoStart ==
  /\ op = "deciding"
  /\ exiting # "no" \/ mode # "notRunning"
  /\ op' = "checking"
  /\ Stay
  /\ UNCHANGED <<coreVars, ownerVars, sidecarVars, proxyVars, held, exiting, bounds>>

\* StartupDecision::Wait, which ends like a failed start; on Windows Sidecar
\* may still follow (try_sidecar_after_service_unavailable).
WaitForService ==
  /\ op = "deciding" /\ exiting = "no" /\ mode = "notRunning"
  /\ op' = "checking" \/ (~OnMacOS /\ op' = "spawning")
  /\ guard' = FALSE
  /\ CoreStopped
  /\ Stay
  /\ UNCHANGED <<ownerVars, sidecarVars, proxy, held, exiting, bounds>>

\* Mutant: nobody asks whether the application is exiting.
DecideWhileExiting ==
  /\ op = "deciding" /\ mode = "notRunning"
  /\ op' \in {"service", "spawning"}
  /\ Stay
  /\ UNCHANGED <<coreVars, ownerVars, sidecarVars, proxyVars, held, exiting, bounds>>

Decide ==
  /\ op = "deciding" /\ exiting = "no" /\ mode = "notRunning"
  /\ op' \in {"service", "spawning"}
  /\ Stay
  /\ UNCHANGED <<coreVars, ownerVars, sidecarVars, proxyVars, held, exiting, bounds>>

\* On Windows a Service that cannot start the Core leads to Sidecar.
AfterFailedService ==
  \/ AfterFailedStart
  \/ /\ ~OnMacOS /\ goal \in {"start", "restart", "accept", "uninstall"}
     /\ op' = "spawning" /\ Stay

\* run_core_by_service: the refresh failed, so nothing was asked.
ServiceUnready ==
  /\ op = "service"
  /\ AfterFailedService
  /\ UNCHANGED <<coreVars, ownerVars, sidecarVars, proxyVars, held, exiting, bounds>>

\* start_with_existing_service: unreachable or refused.
ServiceRefuses ==
  /\ op = "service"
  /\ session' = FALSE
  /\ StartMonitor(1)
  /\ held' \in {held, TRUE}
  /\ AfterFailedService
  /\ UNCHANGED <<coreVars, sidecarVars, proxyVars, exiting, bounds>>

\* From the new session to core_started there is no await, and the new monitor
\* sleeps before it looks.
ServiceStarts ==
  /\ op = "service"
  /\ goal # "uninstall"               \* there is no Service any more
  /\ session' = TRUE
  /\ held' = TRUE
  /\ StartMonitor(1)
  /\ MarkReady
  /\ mode' = "service"
  /\ op' = "checking"
  /\ Stay
  /\ UNCHANGED <<sidecarVars, proxyVars, exiting, bounds>>

SidecarUnspawned ==
  /\ op = "spawning"
  /\ AfterFailedStart
  /\ UNCHANGED <<coreVars, ownerVars, sidecarVars, proxyVars, held, exiting, bounds>>

Spawn ==
  /\ op = "spawning"
  /\ spawned + 1 \in Pids
  /\ \A p \in Pids : life[p] # "alive"
  /\ spawned' = spawned + 1
  /\ life' = [life EXCEPT ![spawned + 1] = "alive"]
  /\ readied' = [readied EXCEPT ![spawned + 1] = epoch + 1]
  /\ mode' = "notRunning"
  /\ MarkReady
  /\ op' = "polling"
  /\ Stay
  /\ UNCHANGED <<ownerVars, child, proxyVars, held, exiting, bounds>>

SidecarUnready ==
  /\ op = "polling"
  /\ guard' = FALSE
  /\ CoreStopped
  /\ Kill(spawned) /\ UNCHANGED <<child, spawned, readied>>
  /\ AfterFailedStart
  /\ UNCHANGED <<ownerVars, proxy, held, exiting, bounds>>

\* It answered; it may have exited since, and its handler waits for the lock.
SidecarStarts ==
  /\ op = "polling"
  /\ child' = spawned
  /\ mode' = "sidecar"
  /\ op' = "checking"
  /\ Stay
  /\ UNCHANGED <<readiness, epoch, ownerVars, spawned, life, readied, proxyVars, held, exiting, bounds>>

-------------------------------------------------------------------------------
(***************************************************************************)
(* Readiness and the proxy after a start.                                  *)
(***************************************************************************)

GoalMet ==
  /\ CoreReady
  /\ goal \in {"replace", "handoff"} => mode = "service"
  /\ goal \in {"accept", "uninstall", "fallback"} => mode = "sidecar"

CheckReady ==
  /\ op = "checking"
  /\ \/ GoalMet /\ op' = "applying" /\ Stay
     \/ ~GoalMet /\ AfterFailedProxy
  /\ UNCHANGED <<coreVars, ownerVars, sidecarVars, proxyVars, held, exiting, bounds>>

Expectation ==
  [mode |-> mode, readiness |-> readiness, owner |-> IF mode = "service" THEN owner ELSE 0]

\* ProxyRestoreExpectation::is_valid.
AsExpected == expected = Expectation

\* apply: the proxy is written, or cleared when the user has it off.
ApplyProxy ==
  /\ op = "applying"
  /\ CoreReady
  /\ proxy' \in BOOLEAN
  /\ expected' = Expectation
  /\ op' = "applied"
  /\ UNCHANGED <<lock, goal>>
  /\ UNCHANGED <<coreVars, ownerVars, sidecarVars, guard, held, exiting, bounds>>

ProxyFails ==
  /\ op \in {"applying", "applied"}
  /\ AfterFailedProxy
  /\ UNCHANGED <<coreVars, ownerVars, sidecarVars, proxyVars, held, exiting, bounds>>

RefreshGuard ==
  /\ op = "applied" /\ AsExpected
  /\ guard' \in {FALSE, proxy}
  /\ op' = "guarding"
  /\ Stay
  /\ UNCHANGED <<coreVars, ownerVars, sidecarVars, proxy, held, exiting, bounds>>

ProxyStands ==
  /\ op = "guarding" /\ AsExpected
  /\ Finish
  /\ UNCHANGED <<coreVars, ownerVars, sidecarVars, proxyVars, held, exiting, bounds>>

\* The Core it was for is gone: take it back.
RetractProxy ==
  /\ op \in {"applied", "guarding"} /\ ~AsExpected
  /\ proxy' \in {proxy, FALSE}
  /\ guard' = FALSE
  /\ AfterFailedProxy
  /\ UNCHANGED <<coreVars, ownerVars, sidecarVars, held, exiting, bounds>>

\* rollback_failed_start, and before it, for the transitions to Sidecar, the
\* Sidecar that may be running (rollback_failed_sidecar_transition).
RollBackStart ==
  /\ op = "rollingBack" /\ mode # "sidecar"
  /\ guard' = FALSE
  /\ CoreStopped
  /\ Finish
  /\ UNCHANGED <<ownerVars, sidecarVars, proxy, held, exiting, bounds>>

RollBackSidecar ==
  /\ op = "rollingBack" /\ mode = "sidecar"
  /\ guard' = FALSE
  /\ \/ proxy' = FALSE /\ Kill(child) /\ child' = 0 /\ CoreStopped
     \/ UNCHANGED <<proxy, life, child, coreVars>>
  /\ Finish
  /\ UNCHANGED <<ownerVars, spawned, readied, held, exiting, bounds>>

-------------------------------------------------------------------------------
(***************************************************************************)
(* The world.                                                              *)
(***************************************************************************)

\* The Core of the Service dies, or another owner takes the Service.
LoseService ==
  /\ held /\ faults < MaxFaults
  /\ held' = FALSE
  /\ faults' = faults + 1
  /\ UNCHANGED <<coreVars, ownerVars, sidecarVars, proxyVars, opVars, exiting, ops>>

\* The Service's own watchdog brings the Core back.
RegainService ==
  /\ ~held /\ session
  /\ held' = TRUE
  /\ UNCHANGED <<coreVars, ownerVars, sidecarVars, proxyVars, opVars, exiting, bounds>>

Die(p) ==
  /\ life[p] = "alive" /\ faults < MaxFaults
  /\ life' = [life EXCEPT ![p] = "dead"]
  /\ faults' = faults + 1
  /\ UNCHANGED <<coreVars, ownerVars, child, spawned, readied, proxyVars, held, opVars, exiting, ops>>

AskExit ==
  /\ exiting = "no"
  /\ exiting' = "asked"
  /\ UNCHANGED <<coreVars, ownerVars, sidecarVars, proxyVars, held, opVars, bounds>>

\* The Core would not stop: the application stays.
CancelExit ==
  /\ exiting = "failed"
  /\ exiting' = "no"
  /\ UNCHANGED <<coreVars, ownerVars, sidecarVars, proxyVars, held, opVars, bounds>>

-------------------------------------------------------------------------------
Init ==
  /\ mode = "notRunning" /\ readiness = 0 /\ epoch = 0
  /\ session = FALSE /\ owner = 0
  /\ monitor = [m \in Generations |-> "none"]
  /\ watched = [m \in Generations |-> 0]
  /\ child = 0 /\ spawned = 0
  /\ life = [p \in Pids |-> "unborn"]
  /\ readied = [p \in Pids |-> 0]
  /\ proxy = FALSE /\ guard = FALSE
  /\ held = FALSE
  /\ lock = "free" /\ op = "idle" /\ goal = "none" /\ expected = NoExpectation
  /\ exiting = "no"
  /\ ops = 0 /\ faults = 0

Watch(m) ==
  \/ MonitorEnds(m) \/ MonitorLoses(m) \/ ClaimRecovery(m)
  \/ InvalidateReadiness(m) \/ Recover(m) \/ FinishRecovery(m)

HandleExit(p) == NoticeExit(p) \/ ClearTerminatedSidecar(p)

Transition ==
  \/ StopGuardOnly \/ ClearProxy \/ NothingToStop
  \/ ServiceStops \/ ServiceKeeps \/ ServiceDisowns \/ SidecarStops
  \/ NoStart \/ WaitForService \/ Decide
  \/ ServiceUnready \/ ServiceRefuses \/ ServiceStarts
  \/ SidecarUnspawned \/ Spawn \/ SidecarUnready \/ SidecarStarts
  \/ CheckReady \/ ApplyProxy \/ ProxyFails \/ RefreshGuard \/ ProxyStands
  \/ RetractProxy \/ RollBackStart \/ RollBackSidecar

World ==
  \/ LoseService \/ RegainService \/ AskExit \/ CancelExit
  \/ \E p \in Pids : Die(p)

Next ==
  \/ \E g \in Goals : BeginOp(g)
  \/ Transition
  \/ \E m \in Generations : Watch(m)
  \/ \E p \in Pids : HandleExit(p)
  \/ World

Spec == Init /\ [][Next]_vars

\* lifecycle_lock queues its waiters; every IPC call returns or times out.
FairSpec ==
  /\ Spec
  /\ WF_vars(Transition)
  /\ \A m \in Generations : WF_vars(Watch(m))
  /\ \A p \in Pids : WF_vars(HandleExit(p))

-------------------------------------------------------------------------------
(***************************************************************************)
(* Properties.                                                             *)
(***************************************************************************)

\* Every variable has its type, and no readiness generation is used that was
\* not given out.
TypeOK ==
  /\ mode \in Modes
  /\ epoch \in Nat /\ readiness \in 0..epoch
  /\ session \in BOOLEAN
  /\ owner \in Nat
  /\ monitor \in [Generations -> Watches]
  /\ watched \in [Generations -> Nat]
  /\ child \in 0..MaxOps /\ spawned \in 0..MaxOps
  /\ life \in [Pids -> Lives]
  /\ readied \in [Pids -> Nat]
  /\ proxy \in BOOLEAN /\ guard \in BOOLEAN
  /\ held \in BOOLEAN
  /\ lock \in {"free", "op", "monitor"}
  /\ op \in Places
  /\ goal \in AllGoals \cup {"none", "fallback"}
  /\ expected \in [mode : Modes, readiness : Nat, owner : Nat]
  /\ exiting \in {"no", "asked", "stopped", "failed"}
  /\ ops \in 0..MaxOps /\ faults \in 0..MaxFaults

AtRest == lock = "free"

\* While a Service Core is reported running somebody watches over it: each path
\* out of a failed stop or a superseded recovery leaves a monitor of the current
\* generation behind (stop_core_by_service, recover_after_owner_loss).
ServiceIsWatched ==
  AtRest /\ mode = "service" =>
    \E m \in Generations :
      \/ monitor[m] \in {"watching", "lost"} /\ owner = m
      \/ monitor[m] \in {"claimed", "waiting"} /\ owner = m + 1

\* Between transitions a Service session is held if and only if a Service Core
\* is reported running: core_stopped means that no Core runs any more
\* (manager/mod.rs:195), and a running one can always be asked to stop.
SessionMeansService == AtRest => (session <=> mode = "service")

\* Between transitions there is a supervised child if and only if the Core runs
\* as Sidecar, whatever exited, was killed or failed to start meanwhile.
SidecarMeansChild == AtRest => (mode = "sidecar" <=> child # 0)

\* A Core that is gone leaves neither its readiness behind, which would let
\* others speak to it, nor a guard that goes on writing its proxy.
NothingOutlivesTheCore == AtRest /\ mode = "notRunning" => readiness = 0 /\ ~guard

\* Between transitions nothing is left dangling: a Service Core has its session
\* and its watch, a Sidecar its child, and no Core none of these.
NothingDangles ==
  /\ ServiceIsWatched
  /\ SessionMeansService
  /\ SidecarMeansChild
  /\ NothingOutlivesTheCore

\* Once the exit has stopped the Core nothing starts another one, whatever was
\* queued for the lifecycle lock (start_core_inner asks is_exiting).
NoCoreAfterExit == exiting = "stopped" => mode = "notRunning"

\* A recovery stops the Core whose loss its monitor noticed, never one that was
\* started after the claim (recover_after_owner_loss looks again under the lock).
RecoveryStopsTheCoreItLost ==
  [][\A m \in Generations :
       monitor[m] = "recovering" /\ monitor'[m] = "none" => watched[m] = epoch]_vars

\* The handler of an exit stops the Sidecar that exited, never its successor.
ExitStopsItsOwnSidecar ==
  [][lock = "free" /\ mode = "sidecar" /\ mode' # mode =>
       life[child] = "noticed"]_vars

\* A Core that keeps running loses its readiness only to its own exit or to a
\* monitor's claim: the late handler of an older Sidecar does not take it.
ReadinessIsLostForCause ==
  [][mode # "notRunning" /\ mode' = mode /\ readiness # 0 /\ readiness' = 0 =>
       \/ mode = "sidecar" /\ life[child] = "dead"
       \/ \E m \in Generations : monitor[m] = "claimed" /\ monitor'[m] = "waiting"]_vars

\* A late event about an earlier Core never hits its successor: neither the
\* recovery of a lost Service, nor the exit of a Sidecar, nor a claim.
LateEventsSpareTheSuccessor ==
  /\ RecoveryStopsTheCoreItLost
  /\ ExitStopsItsOwnSidecar
  /\ ReadinessIsLostForCause

\* Where the application writes the proxy itself, a Core is only stopped behind
\* a proxy that has been cleared (run_controlled_stop_transition).
StopsBehindClearedProxy ==
  [][~OnMacOS /\ op = "halting" /\ mode # "notRunning" /\ mode' = "notRunning" =>
       ~proxy]_vars

\* A Service that no longer runs our Core is noticed, unless it comes back.
LostServiceIsNoticed == mode = "service" /\ ~held ~> mode # "service" \/ held

\* A Sidecar that exited does not stay the supervised child.
DeadSidecarIsCleared ==
  \A p \in Pids : child = p /\ life[p] = "dead" ~> child # p

\* Whatever Core dies by itself, the application comes to know of it.
LossesAreNoticed == LostServiceIsNoticed /\ DeadSidecarIsCleared
==============================================================================

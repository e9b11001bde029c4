---------------------------- MODULE SystemProxy ----------------------------
(***************************************************************************)
(* The proxy of the operating system and the guards that keep it in place  *)
(* (core/sysopt.rs, core/proxy_control.rs, core/network_watch.rs, and the  *)
(* transitions of core/manager/lifecycle.rs that apply and clear it).      *)
(*                                                                         *)
(* Whoever applies or clears the proxy holds the lifecycle lock, so one    *)
(* operation is under way at a time: "todo" is what it still has to do and *)
(* "onError" what it does instead when a step fails.  Beside it run the    *)
(* local guard (a thread of the sysproxy crate: it may be in the middle of *)
(* a write when it is told to stop), the loops that refresh the proxy      *)
(* through the Service on macOS, the owner monitor, the sidecar and the    *)
(* network.                                                                *)
(*                                                                         *)
(* Of a proxy only its kind is kept: "sys" (global) or "pac"; os is the    *)
(* set of kinds that the operating system has switched on.                 *)
(***************************************************************************)
EXTENDS Naturals, Sequences, FiniteSets

CONSTANTS
  Platforms,  \* the builds looked at: "macos", "windows", "linux"
  MaxOps,     \* operations started
  MaxLoops    \* failures that a loop counts before it gives up

ASSUME PlatformsAssumption == Platforms \subseteq {"macos", "windows", "linux"}
ASSUME BoundsAssumption == MaxOps \in Nat /\ MaxLoops \in Nat \ {0}

VARIABLES
  platform,
  wanted,     \* the settings: what is to be on, and whether a guard keeps it
  before,     \* what a change of them still may have to go back to
  mode,       \* RunningMode
  ready,      \*   and its Core has a readiness generation
  owner,      \* OWNER_MONITOR_GENERATION
  watched,    \*   and a monitor of this generation runs
  session,    \* the active session with the Service, 0 when there is none
  lost,       \* the generation of the recovery that waits for the lifecycle lock, or 0
  died,       \* the sidecar of the state has terminated and waits to be cleared
  network,    \* there is a network service to write the proxy on (macOS)
  due,        \* the network watch has queued a reapply
  os,
  guardOn,    \* the GuardMonitor runs
  guardType,  \*   and what it enforces
  guardWrite, \* the write of a guard that is under way
  gen,        \* ServiceProxyOperations::guard_generation
  loops,      \* the guard loops that have not ended
  todo, onError,
  goal,       \* what update_sysproxy read from the settings: kind and guard
  expected,   \* the owner generation that ProxyRestoreExpectation captured
  wasOn,      \* guard_was_running
  drained,    \* the last wait for the guard ended in time
  reached,    \* earlier_step_reached_os
  tries,      \* attempts left of a retried clear
  ops,
  off,        \* history: how the proxy was last turned off, "no" once it may be on
  landed,     \* history: the last target that update_sysproxy wrote in full
  warned      \* a GuardStopped failure is pending

setVars == <<wanted, before>>
coreVars == <<mode, ready, owner, watched, session>>
eventVars == <<lost, died, network, due>>
localVars == <<guardOn, guardType, guardWrite>>
loopVars == <<gen, loops>>
memory == <<goal, expected, wasOn, drained, reached, tries>>
history == <<off, landed, warned>>
outside == <<platform, setVars, coreVars, eventVars>>
guards == <<localVars, loopVars>>
control == <<todo, onError>>
book == <<memory, ops, history>>
vars == <<outside, os, guards, control, book>>

Kinds == {"sys", "pac"}
Targets == Kinds \cup {"off"}
Settings == [kind : Targets, guard : BOOLEAN]
NoSetting == [kind |-> "none", guard |-> FALSE]
Loops == [gen : Nat, session : Nat, target : Kinds, fails : 0 .. MaxLoops,
          phase : {"sleeps", "calls", "reports"}]

-----------------------------------------------------------------------------
(* What an operation does.  A step that goes on replaces itself in todo by    *)
(* what follows: "stopGuard" is followed by "lockedDrain" and "lockedWait",   *)
(* "drain" by "wait", "compare" by the writes.                                *)

UpdateSysproxy == <<"drain", "compare">>
ResetSysproxy == <<"drain", "disable">>
ServiceReset == <<"invalidate", "serviceClear">>
ApplyThroughService == <<"drain", "invalidate", "serviceWrite">>
RefreshGuard == <<"stopGuard", "refresh">>
ApplyAfterStart == <<"capture">>

Route == IF platform = "macos" /\ mode = "service" THEN "service" ELSE "local"

(* run_controlled_stop_transition; handOver is ProxyStopIntent::HandOverToService *)
ControlledStop(handOver) ==
  IF mode = "none" THEN <<>>
  ELSE IF (mode = "service" /\ platform = "macos") \/ (mode = "sidecar" /\ handOver)
       THEN <<"stopGuard", "stopCore">>
       ELSE <<"clear", "stopCore">>

(* The effect of a change of the setting (ensure_effect). *)
Effect(target) ==
  IF target = "off" THEN <<"apply">> \o RefreshGuard ELSE ApplyAfterStart

Idle == todo = <<>>
At(step) == todo # <<>> /\ Head(todo) = step
Then(steps) == todo' = steps \o Tail(todo) /\ UNCHANGED onError
Done == Then(<<>>)
Fail == todo' = onError /\ onError' = <<>>

(* operation_lock: a loop has it while it calls the Service or reports. *)
NoLoopCalls == \A l \in loops : l.phase # "calls"
OperationLockFree == NoLoopCalls /\ ~At("lockedWait")

Init ==
  /\ platform \in Platforms
  /\ wanted \in Settings /\ before = NoSetting
  /\ mode = "none" /\ ready = FALSE /\ owner = 0 /\ watched = FALSE /\ session = 0
  /\ lost = 0 /\ died = FALSE /\ network = TRUE /\ due = FALSE
  /\ os = {}
  /\ guardOn = FALSE /\ guardType = "none" /\ guardWrite = "none"
  /\ gen = 0 /\ loops = {}
  /\ todo = <<>> /\ onError = <<>>
  /\ goal = NoSetting /\ expected = 0 /\ wasOn = FALSE /\ drained = TRUE /\ reached = FALSE
  /\ tries = 0 /\ ops = 0
  /\ off = "written" /\ landed = "off" /\ warned = FALSE

-----------------------------------------------------------------------------
(* The operations, each from the point where it has the lifecycle lock *)

Begin(steps, otherwise) ==
  /\ Idle
  /\ ops < MaxOps
  /\ ops' = ops + 1
  /\ todo' = steps
  /\ onError' = otherwise

ConfigLockFree == before = NoSetting

(* A change of the setting and the effect it has; the lock of the settings    *)
(* stays with the change until it is committed or undone.                     *)
ChangeSetting ==
  /\ ConfigLockFree
  /\ \E new \in Settings \ {wanted} :
       /\ wanted' = new
       /\ before' = wanted
       /\ Begin(Effect(new.kind) \o <<"commit">>, <<>>)
  /\ UNCHANGED <<platform, coreVars, eventVars, os, guards, memory, history>>

(* Undoing a change that failed runs its effect again. *)
UndoSetting ==
  /\ Idle
  /\ before # NoSetting
  /\ wanted' = before
  /\ before' = NoSetting
  /\ todo' = Effect(before.kind) /\ onError' = <<>>
  /\ UNCHANGED <<platform, coreVars, eventVars, os, guards, book>>

StartOrRestart ==
  /\ \E handOver \in {FALSE, platform = "macos"} :
       Begin(ControlledStop(handOver) \o <<"startCore">>, <<>>)
  /\ UNCHANGED <<outside, os, guards, memory, history>>

StopCore ==
  /\ mode # "none"
  /\ Begin(ControlledStop(FALSE), <<>>)
  /\ UNCHANGED <<outside, os, guards, memory, history>>

ContinueWithSidecar ==
  /\ mode = "none"
  /\ Begin(<<"stopGuard", "startSidecar">>, <<"undoSidecar">>)
  /\ UNCHANGED <<outside, os, guards, memory, history>>

(* reapply, queued by the network watch *)
Reapply ==
  /\ due /\ Idle /\ ConfigLockFree
  /\ due' = FALSE
  /\ IF wanted.kind # "off" /\ network
     THEN Begin(ApplyAfterStart, <<>>)
     ELSE UNCHANGED <<control, ops>>
  /\ UNCHANGED <<platform, setVars, coreVars, lost, died, network, os, guards, memory, history>>

(* recover_after_owner_loss, once it has the lifecycle lock *)
RecoverOwner ==
  /\ Idle
  /\ lost # 0
  /\ lost' = 0
  /\ IF owner = lost /\ mode = "service"
     THEN /\ \E reset \in {TRUE, platform # "macos"} :
               todo' = IF reset THEN <<"stopGuard", "clear", "dropSession">>
                                ELSE <<"stopGuard", "dropSession">>
          /\ onError' = <<"dropSession">>
     ELSE UNCHANGED <<control>>
  /\ UNCHANGED <<platform, setVars, coreVars, died, network, due, os, guards, book>>

(* Wrong on purpose: the guard of the dead Sidecar goes on. *)
ClearTerminatedOnly ==
  /\ Idle
  /\ died
  /\ todo' = <<"coreStopped">> /\ onError' = <<>>
  /\ UNCHANGED <<outside, os, guards, book>>

(* clear_terminated_sidecar: only while that sidecar is the Core of the state *)
ClearTerminated ==
  /\ Idle
  /\ died
  /\ todo' = <<"stopGuard", "coreStopped">> /\ onError' = <<>>
  /\ UNCHANGED <<outside, os, guards, book>>

-----------------------------------------------------------------------------
(* The Core's part of the transitions *)

Stopped == mode' = "none" /\ ready' = FALSE /\ died' = FALSE
NewMonitor == owner' = owner + 1 /\ watched' = TRUE

StartService ==
  /\ At("startCore")
  /\ mode' = "service" /\ ready' = TRUE /\ session' = ops
  /\ NewMonitor
  /\ Then(ApplyAfterStart)
  /\ UNCHANGED <<platform, setVars, eventVars, os, guards, book>>

StartSidecar ==
  /\ At("startCore") \/ At("startSidecar")
  /\ mode' = "sidecar" /\ ready' = TRUE
  /\ Then(ApplyAfterStart)
  /\ UNCHANGED <<platform, setVars, owner, watched, session, eventVars, os, guards, book>>

(* The rollback of a start that failed *)
StartFails ==
  /\ At("startCore") \/ At("startSidecar")
  /\ todo' = <<"stopGuard", "coreStopped">> \o onError
  /\ onError' = <<>>
  /\ UNCHANGED <<outside, os, guards, book>>

CoreStopped ==
  /\ At("coreStopped")
  /\ Stopped
  /\ Done
  /\ UNCHANGED <<platform, setVars, owner, watched, session, lost, network, due, os, guards, book>>

(* It counts as stopped even when its end did not come in time. *)
StopSidecar ==
  /\ At("stopCore") /\ mode = "sidecar"
  /\ Stopped
  /\ Done \/ Fail
  /\ UNCHANGED <<platform, setVars, owner, watched, session, lost, network, due, os, guards, book>>

StopService ==
  /\ At("stopCore") /\ mode = "service"
  /\ Stopped /\ session' = 0 /\ owner' = owner + 1 /\ watched' = FALSE
  /\ Done
  /\ UNCHANGED <<platform, setVars, lost, network, due, os, guards, book>>

StopServiceFails ==
  /\ At("stopCore") /\ mode = "service"
  /\ owner' = owner + 2 /\ watched' = TRUE
  /\ Fail
  /\ UNCHANGED <<platform, setVars, mode, ready, session, eventVars, os, guards, book>>

(* The Service answers that it serves another session. *)
StopServiceDisplaced ==
  /\ At("stopCore") /\ mode = "service"
  /\ owner' = owner + 1 /\ watched' = FALSE
  /\ todo' = IF platform = "macos" THEN <<"stopGuard", "dropSession">>
             ELSE <<"stopGuard", "clear", "dropSession">>
  /\ onError' = <<"dropSession">>
  /\ UNCHANGED <<platform, setVars, mode, ready, session, eventVars, os, guards, book>>

DropSession ==
  /\ At("dropSession")
  /\ session' = 0 /\ Stopped
  /\ todo' = <<>> /\ onError' = <<>>
  /\ UNCHANGED <<platform, setVars, owner, watched, lost, network, due, os, guards, book>>

(* rollback_failed_sidecar_transition *)
UndoSidecar ==
  /\ At("undoSidecar")
  /\ todo' = (IF mode = "sidecar" THEN <<"clear", "stopCore">> ELSE <<>>)
               \o <<"stopGuard", "coreStopped">>
  /\ onError' = <<>>
  /\ UNCHANGED <<outside, os, guards, book>>

Commit ==
  /\ At("commit")
  /\ before' = NoSetting
  /\ Done
  /\ UNCHANGED <<platform, wanted, coreVars, eventVars, os, guards, book>>

-----------------------------------------------------------------------------
(* stop_guard, and what the local guard does when it is told to stop *)

Invalidate ==
  /\ \/ At("stopGuard") /\ Then(<<"lockedDrain">>)
     \/ At("invalidate") /\ Done
  /\ gen' = gen + 1
  /\ UNCHANGED <<outside, os, localVars, loops, book>>

ShutDown ==
  /\ \/ At("drain") /\ Then(<<"wait">>)
     \/ At("lockedDrain") /\ OperationLockFree /\ Then(<<"lockedWait">>)
  /\ guardOn' = FALSE
  /\ wasOn' = guardOn
  /\ UNCHANGED <<outside, os, guardType, guardWrite, loopVars, goal, expected, drained, reached,
                 tries, ops, history>>

(* wait_timeout(GUARD_DRAIN_TIMEOUT) *)
Wait ==
  /\ At("wait") \/ At("lockedWait")
  /\ drained' = (guardWrite = "none")
  /\ Done
  /\ UNCHANGED <<outside, os, guards, goal, expected, wasOn, reached, tries, ops, history>>

-----------------------------------------------------------------------------
(* apply *)

Apply ==
  /\ At("apply")
  /\ goal' = wanted
  /\ wasOn' = FALSE
  /\ Then(IF Route = "service" THEN ApplyThroughService ELSE UpdateSysproxy)
  /\ off' = "no"
  /\ UNCHANGED <<outside, os, guards, expected, drained, reached, tries, ops, landed, warned>>

(* is_missing_network_service *)
CanReach == platform = "macos" => network

Target == IF goal.kind = "off" THEN {} ELSE {goal.kind}
GuardOf(setting) == IF setting.guard /\ setting.kind # "off" THEN setting.kind ELSE "none"

(* How the proxy was turned off: a write of a guard that did not end in time  *)
(* may still follow, and without a network service nothing is written.        *)
TurnedOff ==
  IF ~drained THEN "late" ELSE IF CanReach THEN "written" ELSE "skipped"

Writes == <<"write", "write2", "landed">>

(* Wrong on purpose: the guard is pointed at a target that is not yet written. *)
CompareAndGuard ==
  /\ At("compare")
  /\ Then(Writes)
  /\ guardType' = GuardOf(goal)
  /\ reached' = FALSE
  /\ UNCHANGED <<outside, os, guardOn, guardWrite, loopVars, goal, expected, wasOn, drained, tries,
                 ops, history>>

(* On macOS nothing is written when the proxy is in place already. *)
Compare ==
  /\ At("compare")
  /\ IF platform = "macos" /\ drained /\ network /\ os = Target
     THEN /\ guardType' = GuardOf(goal)
          /\ landed' = goal.kind
          /\ off' = IF goal.kind = "off" THEN TurnedOff ELSE off
          /\ Done
     ELSE /\ Then(Writes)
          /\ UNCHANGED <<guardType, landed, off>>
  /\ reached' = FALSE
  /\ UNCHANGED <<outside, os, guardOn, guardWrite, loopVars, goal, expected, wasOn, drained, tries,
                 ops, warned>>

(* proxy_apply_steps: to switch the global proxy on, PAC goes off first. *)
WrittenBy(step) ==
  IF (goal.kind = "sys") = (step = "write") THEN "pac" ELSE "sys"

Enables(kind) == goal.kind = kind
Skipped(kind) == ~CanReach /\ ~Enables(kind)

After(kind) == IF Enables(kind) THEN os \cup {kind} ELSE os \ {kind}

Write ==
  /\ At("write") \/ At("write2")
  /\ LET kind == WrittenBy(Head(todo))
     IN  /\ CanReach \/ Skipped(kind)
         /\ os' = IF Skipped(kind) THEN os ELSE After(kind)
         /\ reached' = (reached \/ ~Skipped(kind))
         /\ off' = IF Skipped(kind) /\ goal.kind = "off" THEN "skipped" ELSE off
  /\ Done
  /\ UNCHANGED <<outside, guards, goal, expected, wasOn, drained, tries, ops, landed, warned>>

(* authoritative_state: whether the target is unknown after a failed write.   *)
(* A setter that succeeds proves nothing on Linux.                            *)
Unknown(partly) == platform # "linux" /\ (reached \/ partly)

(* recover_from_failed_write *)
WriteFails ==
  /\ At("write") \/ At("write2")
  /\ ~Skipped(WrittenBy(Head(todo)))
  /\ \E partly \in BOOLEAN :
       /\ partly => CanReach
       /\ os' \in IF partly THEN {os, After(WrittenBy(Head(todo)))} ELSE {os}
       /\ IF Unknown(partly)
          THEN guardType' = "none" /\ todo' = <<"compensate">> /\ UNCHANGED guardOn
          ELSE /\ guardOn' = (wasOn /\ guardWrite = "none")
               /\ todo' = <<"failed">>
               /\ UNCHANGED guardType
  /\ off' = "no"
  /\ UNCHANGED <<outside, guardWrite, loopVars, onError, memory, ops, landed, warned>>

(* disable_all_proxies: each kind is tried, and may fail before or after it   *)
(* was switched off.                                                          *)
DisableAll(failed) ==
  IF ~CanReach THEN failed = {} /\ UNCHANGED os
  ELSE \E kept \in SUBSET failed : os' = os \cap kept

Compensate ==
  /\ At("compensate")
  /\ \E failed \in SUBSET Kinds : DisableAll(failed)
  /\ todo' = <<"failed">>
  /\ UNCHANGED <<outside, guards, onError, book>>

Failed ==
  /\ At("failed")
  /\ Fail
  /\ UNCHANGED <<outside, os, guards, book>>

(* The guard is pointed at the target only now. *)
Landed ==
  /\ At("landed")
  /\ guardType' = GuardOf(goal)
  /\ landed' = goal.kind
  /\ off' = IF goal.kind # "off" THEN "no"
            ELSE IF ~drained THEN "late"
            ELSE IF off = "skipped" THEN off ELSE "written"
  /\ Done
  /\ UNCHANGED <<outside, os, guardOn, guardWrite, loopVars, memory, ops, warned>>

(* The helper's answer to a write; what is on after an error is not known. *)
ServiceWrite ==
  /\ At("serviceWrite")
  /\ OperationLockFree
  /\ IF session = 0 THEN Fail /\ UNCHANGED <<os, off>>
     ELSE \/ /\ os' = Target
             /\ off' = IF goal.kind = "off" THEN TurnedOff ELSE off
             /\ Done
          \/ /\ goal.kind # "off"
             /\ os' = {} /\ UNCHANGED off
             /\ Fail
          \/ /\ os' \in SUBSET Kinds /\ off' = "no"
             /\ Fail
  /\ UNCHANGED <<outside, guards, memory, ops, landed, warned>>

-----------------------------------------------------------------------------
(* clear *)

Clear ==
  /\ At("clear")
  /\ tries' = IF platform = "windows" \/ onError = <<"dropSession">> THEN 3 ELSE 1
  /\ Then(IF Route = "service" THEN ServiceReset ELSE ResetSysproxy)
  /\ UNCHANGED <<outside, os, guards, goal, expected, wasOn, drained, reached, ops, history>>

(* Wrong on purpose: a write that may have raced the guard is not repeated. *)
DisableOnce ==
  /\ At("disable") \/ At("disableAgain")
  /\ \E failed \in SUBSET Kinds : DisableAll(failed)
  /\ Done
  /\ off' = IF CanReach THEN "written" ELSE "skipped"
  /\ UNCHANGED <<outside, guards, memory, ops, landed, warned>>

(* disable_until_the_last_write_is_ours, one attempt of a retried clear *)
Disable ==
  /\ At("disable") \/ At("disableAgain")
  /\ \E failed \in SUBSET Kinds :
       /\ DisableAll(failed)
       /\ \/ /\ failed = {} /\ At("disable") /\ ~drained
             /\ Then(<<"drain", "disableAgain">>)
             /\ UNCHANGED <<off, tries>>
          \/ /\ failed = {} /\ (At("disable") => drained)
             /\ off' = TurnedOff
             /\ Done /\ UNCHANGED tries
          \/ /\ failed # {} /\ tries > 1
             /\ tries' = tries - 1
             /\ Then(ResetSysproxy) /\ UNCHANGED off
          \/ /\ failed # {} /\ (tries = 1 \/ onError # <<"dropSession">>)
             /\ Fail /\ UNCHANGED <<off, tries>>
  /\ UNCHANGED <<outside, guards, goal, expected, wasOn, drained, reached, ops, landed, warned>>

ServiceClear ==
  /\ At("serviceClear")
  /\ OperationLockFree
  /\ \/ /\ session # 0
        /\ os' = {} /\ off' = IF guardWrite = "none" THEN "written" ELSE "late"
        /\ Done
        /\ UNCHANGED tries
     \/ /\ IF session = 0 THEN UNCHANGED <<os, off>> ELSE os' \in SUBSET Kinds /\ off' = "no"
        /\ IF tries > 1
           THEN tries' = tries - 1 /\ Then(ServiceReset)
           ELSE Fail /\ UNCHANGED tries
  /\ UNCHANGED <<outside, guards, goal, expected, wasOn, drained, reached, ops, landed, warned>>

-----------------------------------------------------------------------------
(* refresh_guard and the expectation of apply_proxy_after_start *)

Capture ==
  /\ At("capture")
  /\ IF mode = "none" \/ ~ready THEN Fail /\ UNCHANGED expected
     ELSE /\ expected' = owner
          /\ Then(<<"apply", "check">> \o RefreshGuard \o <<"check">>)
  /\ UNCHANGED <<outside, os, guards, goal, wasOn, drained, reached, tries, ops, history>>

(* Before start-up is resolved, the write is left to the network watch. *)
LeaveToTheWatch ==
  /\ At("capture")
  /\ platform = "macos" /\ ~network /\ mode # "none" /\ ready /\ wanted.kind # "off"
  /\ Done
  /\ UNCHANGED <<outside, os, guards, book>>

StillExpected == mode # "none" /\ ready /\ (mode = "service" => owner = expected)

(* The readiness changed meanwhile: the proxy goes off again, and whatever    *)
(* that answers, no guard stays; only then the error is dealt with.           *)
Check ==
  /\ At("check")
  /\ IF StillExpected THEN Done
     ELSE /\ todo' = <<"clear", "stopGuard">> \o onError
          /\ onError' = <<"stopGuard">> \o onError
  /\ UNCHANGED <<outside, os, guards, book>>

(* Sysopt::refresh_guard: start() refuses while an earlier run has not ended. *)
RefreshLocal ==
  /\ At("refresh") /\ Route = "local"
  /\ guardOn' = (GuardOf(wanted) # "none" /\ guardWrite = "none")
  /\ warned' = (warned /\ GuardOf(wanted) # "none" /\ ~guardOn')
  /\ Done
  /\ UNCHANGED <<outside, os, guardType, guardWrite, loopVars, memory, ops, off, landed>>

RefreshService ==
  /\ At("refresh") /\ Route = "service"
  /\ IF GuardOf(wanted) # "none" /\ session = 0
     THEN Fail /\ UNCHANGED <<loops, warned>>
     ELSE /\ loops' = IF GuardOf(wanted) = "none" THEN loops
                      ELSE loops \cup {[gen |-> gen, session |-> session, target |-> wanted.kind,
                                        fails |-> 0, phase |-> "sleeps"]}
          /\ warned' = FALSE
          /\ Done
  /\ UNCHANGED <<outside, os, localVars, gen, memory, ops, off, landed>>

-----------------------------------------------------------------------------
(* The guards *)

GuardWrites ==
  /\ guardOn /\ guardWrite = "none" /\ guardType # "none"
  /\ guardWrite' = guardType
  /\ UNCHANGED <<outside, os, guardOn, guardType, loopVars, control, book>>

GuardWritten ==
  /\ guardWrite # "none"
  /\ guardWrite' = "none"
  /\ os' \in {os, os \cup {guardWrite}}
  /\ UNCHANGED <<outside, guardOn, guardType, loopVars, control, book>>

Turn(l, to) == loops' = (loops \ {l}) \cup {to}

Current(l) == l.gen = gen

(* run_guard_request, with the operation lock *)
LoopCalls(l) ==
  /\ l.phase = "sleeps"
  /\ OperationLockFree
  /\ IF Current(l) /\ mode = "service" /\ session = l.session
     THEN Turn(l, [l EXCEPT !.phase = "calls"])
     ELSE loops' = loops \ {l}
  /\ UNCHANGED <<outside, os, localVars, gen, control, book>>

(* The helper refuses a session that is not the one it serves. *)
LoopSucceeds(l) ==
  /\ l.phase = "calls"
  /\ session = l.session
  /\ os' = {l.target}
  /\ Turn(l, [l EXCEPT !.phase = "sleeps", !.fails = 0])
  /\ UNCHANGED <<outside, localVars, gen, control, book>>

(* Wrong on purpose: the failures are counted and never too many. *)
LoopFailsForEver(l) ==
  /\ l.phase = "calls"
  /\ os' \in {os, {}}
  /\ Turn(l, [l EXCEPT !.fails = (@ + 1) % (MaxLoops + 3), !.phase = "sleeps"])
  /\ UNCHANGED <<outside, localVars, gen, control, book>>

LoopFails(l) ==
  /\ l.phase = "calls"
  /\ os' \in {os, {}}
  /\ Turn(l, [l EXCEPT !.fails = @ + 1,
                       !.phase = IF l.fails + 1 >= MaxLoops THEN "reports" ELSE "sleeps"])
  /\ UNCHANGED <<outside, localVars, gen, control, book>>

(* Wrong on purpose: a loop of before reports, too. *)
LoopAlwaysReports(l) ==
  /\ l.phase = "reports"
  /\ warned' = TRUE
  /\ loops' = loops \ {l}
  /\ UNCHANGED <<outside, os, localVars, gen, control, memory, ops, off, landed>>

(* report_guard_stopped: record_if_current, with the operation lock again *)
LoopReports(l) ==
  /\ l.phase = "reports"
  /\ OperationLockFree
  /\ warned' = (warned \/ Current(l))
  /\ loops' = loops \ {l}
  /\ UNCHANGED <<outside, os, localVars, gen, control, memory, ops, off, landed>>

-----------------------------------------------------------------------------
(* What happens beside the operations *)

(* The owner monitor claims the recovery before it waits for the lock. *)
LoseOwner ==
  /\ mode = "service" /\ watched
  /\ owner' = owner + 1 /\ watched' = FALSE /\ ready' = FALSE
  /\ lost' = owner + 1
  /\ UNCHANGED <<platform, setVars, mode, session, died, network, due, os, guards, control, book>>

SidecarDies ==
  /\ mode = "sidecar" /\ ~died
  /\ died' = TRUE /\ ready' = FALSE
  /\ UNCHANGED <<platform, setVars, mode, owner, watched, session, lost, network, due, os, guards,
                 control, book>>

NetworkChanges ==
  /\ platform = "macos"
  /\ network' = ~network
  /\ due' = (due \/ network')
  /\ UNCHANGED <<platform, setVars, coreVars, lost, died, os, guards, control, book>>

-----------------------------------------------------------------------------
Operations ==
  \/ ChangeSetting \/ UndoSetting \/ StartOrRestart \/ StopCore \/ ContinueWithSidecar
  \/ Reapply \/ RecoverOwner \/ ClearTerminated

CoreSteps ==
  \/ StartService \/ StartSidecar \/ StartFails \/ CoreStopped
  \/ StopSidecar \/ StopService \/ StopServiceFails \/ StopServiceDisplaced
  \/ DropSession \/ UndoSidecar \/ Commit

ProxySteps ==
  \/ Invalidate \/ ShutDown \/ Wait
  \/ Apply \/ Compare \/ Write \/ WriteFails \/ Compensate \/ Failed \/ Landed \/ ServiceWrite
  \/ Clear \/ Disable \/ ServiceClear
  \/ Capture \/ LeaveToTheWatch \/ Check \/ RefreshLocal \/ RefreshService

Guards ==
  \/ GuardWrites \/ GuardWritten
  \/ \E l \in loops : LoopCalls(l) \/ LoopSucceeds(l) \/ LoopFails(l) \/ LoopReports(l)

Environment == LoseOwner \/ SidecarDies \/ NetworkChanges

Next == Operations \/ CoreSteps \/ ProxySteps \/ Guards \/ Environment

Spec == Init /\ [][Next]_vars

-----------------------------------------------------------------------------
(* Properties *)

TypeOK ==
  /\ platform \in Platforms
  /\ wanted \in Settings /\ before \in Settings \cup {NoSetting}
  /\ mode \in {"none", "sidecar", "service"}
  /\ {ready, watched, died, network, due} \subseteq BOOLEAN
  /\ {guardOn, wasOn, drained, reached, warned} \subseteq BOOLEAN
  /\ {owner, session, lost, gen, expected, tries, ops} \subseteq Nat
  /\ os \subseteq Kinds
  /\ {guardType, guardWrite} \subseteq Kinds \cup {"none"}
  /\ loops \subseteq Loops
  /\ goal \in Settings \cup {NoSetting}
  /\ off \in {"no", "written", "skipped", "late"}
  /\ landed \in Targets

(* A proxy that was turned off stays off until somebody asks for one: no      *)
(* write of a guard, local or through the Service, old or new, turns it on    *)
(* again (disable_until_the_last_write_is_ours, run_final_service_operation). *)
(* A guard that did not even end within the last wait is the exception.       *)
OffStaysOff == off = "written" => os = {}

(* At no moment a guard enforces a proxy whose Core is gone: a                *)
(* local one needs a running Core, a loop the session that it was made for    *)
(* (stop_guard in every transition, the checks in apply_proxy_after_start).   *)
GuardsNeedACore ==
  /\ guardOn => mode # "none"
  /\ \A l \in loops : Current(l) => mode = "service" /\ l.session = session

(* The local guard never enforces a target that did not reach the operating   *)
(* system, after whatever failures of the writes (recover_guard_after_failure *)
(* and the order of the last steps of update_sysproxy).                       *)
GuardEnforcesWhatLanded == guardOn => guardType \in {"none", landed}

(* What a guard enforces is wanted: it has its Core, and the operating system *)
(* has been given what it puts back.                                          *)
GuardsHaveGrounds == GuardsNeedACore /\ GuardEnforcesWhatLanded

(* The warning that the guard has stopped is never about a guard that was     *)
(* replaced by one that works (report_guard_stopped, retire_guard_failures).  *)
WarningIsAboutNow ==
  warned => ~guardOn /\ \A l \in loops : ~Current(l)
=============================================================================

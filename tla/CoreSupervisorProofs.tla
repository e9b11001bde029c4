------------------------- MODULE CoreSupervisorProofs -------------------------
(***************************************************************************)
(* Proofs about CoreSupervisor, for every number of transitions, faults    *)
(* and owner generations, on both kinds of platform.  They are about every *)
(* transition but the acceptance of Sidecar, which may start the Core with *)
(* the Service first and then rolls that start back without the Service.   *)
(*                                                                         *)
(* The properties speak of the Core between transitions; the invariant     *)
(* says what holds within one, at each place where it awaits (Staged,      *)
(* Held), who holds the lock meanwhile (Locked), and what the tasks beside *)
(* it know of the Core they are about (Watched, Claims, OwnReadiness).     *)
(***************************************************************************)
EXTENDS CoreSupervisor, TLAPS

\* The types, in two parts: the flags, and the rest.
Flags == session \in BOOLEAN /\ proxy \in BOOLEAN /\ guard \in BOOLEAN /\ held \in BOOLEAN
Types ==
  /\ mode \in Modes
  /\ epoch \in Nat /\ readiness \in 0..epoch
  /\ owner \in Nat
  /\ monitor \in [Generations -> Watches]
  /\ watched \in [Generations -> Nat]
  /\ child \in 0..MaxOps /\ spawned \in 0..MaxOps
  /\ life \in [Pids -> Lives]
  /\ readied \in [Pids -> Nat]
  /\ lock \in {"free", "op", "monitor"}
  /\ op \in Places
  /\ goal \in AllGoals \cup {"none", "fallback"}
  /\ expected \in [mode : Modes, readiness : Nat, owner : Nat]
  /\ exiting \in {"no", "asked", "stopped", "failed"}
  /\ ops \in 0..MaxOps /\ faults \in 0..MaxFaults

\* Who holds the lifecycle lock: a transition, or a recovery of a Service Core.
Locked ==
  /\ lock = "op" <=> op # "idle"
  /\ goal = "none" <=> op = "idle"
  /\ goal \in Goals \cup {"none", "fallback"}
  /\ lock = "monitor" => mode = "service"
  /\ \A m \in Generations : monitor[m] = "recovering" => lock = "monitor"
  /\ \A m, n \in Generations : monitor[m] = "recovering" /\ monitor[n] = "recovering" => m = n

\* What the Core is at each place of a transition.
Staged ==
  /\ op = "halting" => mode # "notRunning" /\ ~guard /\ (OnMacOS \/ ~proxy)
  /\ op \in {"service", "spawning", "polling"} => mode = "notRunning"
  /\ op \in {"applying", "applied", "guarding"} => mode # "notRunning"
  /\ op = "rollingBack" => mode # "service"
  /\ goal = "fallback" => op \notin {"deciding", "service"}
  /\ goal \in {"uninstall", "fallback"} /\ op \notin {"preparing", "halting"} => mode # "service"
  /\ op = "polling" => spawned \in Pids

\* What goes with the mode, during a transition as between two.
Held ==
  /\ session <=> mode = "service"
  /\ child # 0 <=> mode = "sidecar"
  /\ mode = "notRunning" => ~guard
  /\ mode = "notRunning" /\ op # "polling" => readiness = 0

Guarded(m) ==
  \/ monitor[m] \in {"watching", "lost"} /\ owner = m
  \/ monitor[m] \in {"claimed", "waiting"} /\ owner = m + 1

Watched == mode = "service" /\ lock # "monitor" => \E m \in Generations : Guarded(m)

\* After the exit has stopped the Core, no transition gets as far as a start.
Exited ==
  /\ goal = "exit" => exiting = "asked"
  /\ exiting = "stopped" =>
       /\ mode = "notRunning"
       /\ op \in {"idle", "preparing", "deciding", "checking", "rollingBack"}
       /\ goal \notin {"replace", "handoff", "fallback"}

\* A claim is of the newest generation, or it is superseded; what it is about
\* is the Core of the readiness given out last.
Claims ==
  \A m \in Generations :
    /\ monitor[m] \in {"claimed", "waiting", "recovering"} => owner >= m + 1
    /\ monitor[m] \in {"claimed", "waiting"} /\ owner = m + 1 /\ mode = "service" =>
         watched[m] = epoch
    /\ monitor[m] = "recovering" => watched[m] = epoch

\* The readiness of a Core is no other Core's.
Own(p) == readied[p] = readiness /\ \A q \in Pids : readied[q] = readiness => q = p
OwnReadiness ==
  /\ \A p \in Pids : readied[p] <= epoch
  /\ mode = "service" /\ readiness # 0 => \A p \in Pids : readied[p] # readiness
  /\ mode = "sidecar" /\ readiness # 0 => Own(child)
  /\ op = "polling" /\ readiness # 0 => Own(spawned)

\* What the action properties say of a step.
ClearsFirst ==
  ~OnMacOS /\ op = "halting" /\ mode # "notRunning" /\ mode' = "notRunning" => ~proxy
ExitIsItsOwn ==
  lock = "free" /\ mode = "sidecar" /\ mode' # mode => life[child] = "noticed"
LostForCause ==
  mode # "notRunning" /\ mode' = mode /\ readiness # 0 /\ readiness' = 0 =>
    \/ mode = "sidecar" /\ life[child] = "dead"
    \/ \E m \in Generations : monitor[m] = "claimed" /\ monitor'[m] = "waiting"
RecoveryIsItsOwn ==
  \A m \in Generations : monitor[m] = "recovering" /\ monitor'[m] = "none" => watched[m] = epoch

-------------------------------------------------------------------------------
(* A kill leaves every Sidecar in a stage of its life. *)
LEMMA KillKeepsLives ==
  ASSUME life \in [Pids -> Lives]
  PROVE  \A p : Kill(p) => life' \in [Pids -> Lives]
BY DEF Kill, Lives

(* Every step keeps the flags flags. *)
LEMMA NextFlags ==
  ASSUME Flags, [Next]_vars
  PROVE  Flags'
<1> USE BoundsAssumption, GoalsAssumption DEF Flags, coreVars, ownerVars, sidecarVars,
    proxyVars, opVars, bounds
<1>1. ASSUME NEW g \in Goals, BeginOp(g) PROVE Flags'
  BY <1>1 DEF BeginOp
<1>2. ASSUME StopGuardOnly PROVE Flags'
  BY <1>2 DEF StopGuardOnly, Stay
<1>3. ASSUME ClearProxy PROVE Flags'
  BY <1>3 DEF ClearProxy, StopFails, Finish, NoteExit, Stay
<1>4. ASSUME NothingToStop PROVE Flags'
  BY <1>4 DEF NothingToStop, AfterStop, Finish, Stay, NoteExit
<1>5. ASSUME ServiceStops PROVE Flags'
  BY <1>5 DEF ServiceStops, CancelMonitors, CoreStopped, AfterStop, Finish, Stay, NoteExit
<1>6. ASSUME ServiceKeeps PROVE Flags'
  BY <1>6 DEF ServiceKeeps, StartMonitor, StopFails, Finish, NoteExit
<1>7. ASSUME ServiceDisowns PROVE Flags'
  BY <1>7 DEF ServiceDisowns, CancelMonitors, GiveUpOwnership, CoreStopped, StopFails,
      Finish, NoteExit
<1>8. ASSUME SidecarStops PROVE Flags'
  BY <1>8 DEF SidecarStops, Kill, CoreStopped, AfterStop, StopFails, Finish, Stay, NoteExit
<1>9. ASSUME NoStart PROVE Flags'
  BY <1>9 DEF NoStart, Stay
<1>10. ASSUME WaitForService PROVE Flags'
  BY <1>10 DEF WaitForService, CoreStopped, Stay
<1>11. ASSUME Decide PROVE Flags'
  BY <1>11 DEF Decide, Stay
<1>12. ASSUME ServiceUnready PROVE Flags'
  BY <1>12 DEF ServiceUnready, AfterFailedService, AfterFailedStart, Finish, Stay
<1>13. ASSUME ServiceRefuses PROVE Flags'
  BY <1>13 DEF ServiceRefuses, StartMonitor, AfterFailedService, AfterFailedStart, Finish,
      Stay
<1>14. ASSUME ServiceStarts PROVE Flags'
  BY <1>14 DEF ServiceStarts, StartMonitor, MarkReady, Stay
<1>15. ASSUME SidecarUnspawned PROVE Flags'
  BY <1>15 DEF SidecarUnspawned, AfterFailedStart, Finish, Stay
<1>16. ASSUME Spawn PROVE Flags'
  BY <1>16 DEF Spawn, MarkReady, Stay
<1>17. ASSUME SidecarUnready PROVE Flags'
  BY <1>17 DEF SidecarUnready, CoreStopped, Kill, AfterFailedStart, Finish, Stay
<1>18. ASSUME SidecarStarts PROVE Flags'
  BY <1>18 DEF SidecarStarts, Stay
<1>19. ASSUME CheckReady PROVE Flags'
  BY <1>19 DEF CheckReady, GoalMet, CoreReady, AfterFailedProxy, Finish, Stay
<1>20. ASSUME ApplyProxy PROVE Flags'
  BY <1>20 DEF ApplyProxy, CoreReady, Expectation
<1>21. ASSUME ProxyFails PROVE Flags'
  BY <1>21 DEF ProxyFails, AfterFailedProxy, Finish, Stay
<1>22. ASSUME RefreshGuard PROVE Flags'
  BY <1>22 DEF RefreshGuard, Stay
<1>23. ASSUME ProxyStands PROVE Flags'
  BY <1>23 DEF ProxyStands, Finish
<1>24. ASSUME RetractProxy PROVE Flags'
  BY <1>24 DEF RetractProxy, AfterFailedProxy, Finish, Stay
<1>25. ASSUME RollBackStart PROVE Flags'
  BY <1>25 DEF RollBackStart, CoreStopped, Finish
<1>26. ASSUME RollBackSidecar PROVE Flags'
  BY <1>26 DEF RollBackSidecar, Kill, CoreStopped, Finish
<1>27. ASSUME NEW m \in Generations, MonitorEnds(m) PROVE Flags'
  BY <1>27 DEF MonitorEnds, End
<1>28. ASSUME NEW m \in Generations, MonitorLoses(m) PROVE Flags'
  BY <1>28 DEF MonitorLoses
<1>29. ASSUME NEW m \in Generations, ClaimRecovery(m) PROVE Flags'
  BY <1>29 DEF ClaimRecovery, End
<1>30. ASSUME NEW m \in Generations, InvalidateReadiness(m) PROVE Flags'
  BY <1>30 DEF InvalidateReadiness
<1>31. ASSUME NEW m \in Generations, Recover(m) PROVE Flags'
  BY <1>31 DEF Recover, End
<1>32. ASSUME NEW m \in Generations, FinishRecovery(m) PROVE Flags'
  BY <1>32 DEF FinishRecovery, GiveUpOwnership, CoreStopped, End
<1>33. ASSUME NEW p \in Pids, NoticeExit(p) PROVE Flags'
  BY <1>33 DEF NoticeExit
<1>34. ASSUME NEW p \in Pids, ClearTerminatedSidecar(p) PROVE Flags'
  BY <1>34 DEF ClearTerminatedSidecar, CoreStopped
<1>35. ASSUME LoseService PROVE Flags'
  BY <1>35 DEF LoseService
<1>36. ASSUME RegainService PROVE Flags'
  BY <1>36 DEF RegainService
<1>37. ASSUME AskExit PROVE Flags'
  BY <1>37 DEF AskExit
<1>38. ASSUME CancelExit PROVE Flags'
  BY <1>38 DEF CancelExit
<1>39. ASSUME NEW p \in Pids, Die(p) PROVE Flags'
  BY <1>39 DEF Die
<1>40. CASE UNCHANGED vars
  BY <1>40 DEF vars
<1> HIDE BoundsAssumption, GoalsAssumption DEF Flags, coreVars, ownerVars, sidecarVars,
    proxyVars, opVars, bounds
<1> QED
  BY <1>1, <1>2, <1>3, <1>4, <1>5, <1>6, <1>7, <1>8, <1>9, <1>10, <1>11, <1>12, <1>13,
      <1>14, <1>15, <1>16, <1>17, <1>18, <1>19, <1>20, <1>21, <1>22, <1>23, <1>24, <1>25,
      <1>26, <1>27, <1>28, <1>29, <1>30, <1>31, <1>32, <1>33, <1>34, <1>35, <1>36, <1>37,
      <1>38, <1>39, <1>40 DEF Next, Transition, Watch, HandleExit, World

(* Every step keeps the other types. *)
LEMMA NextTypes ==
  ASSUME Types, Staged, [Next]_vars
  PROVE  Types'
<1> USE BoundsAssumption, GoalsAssumption DEF Types, Staged, Modes, Watches, Lives, Places,
    AllGoals, Generations, Pids, NoExpectation, coreVars, ownerVars, sidecarVars, proxyVars,
    opVars, bounds
<1>1. ASSUME NEW g \in Goals, BeginOp(g) PROVE Types'
  BY <1>1 DEF BeginOp
<1>2. ASSUME StopGuardOnly PROVE Types'
  BY <1>2 DEF StopGuardOnly, Stay
<1>3. ASSUME ClearProxy PROVE Types'
  BY <1>3 DEF ClearProxy, StopFails, Finish, NoteExit, Stay
<1>4. ASSUME NothingToStop PROVE Types'
  BY <1>4 DEF NothingToStop, AfterStop, Finish, Stay, NoteExit
<1>5. ASSUME ServiceStops PROVE Types'
  BY <1>5 DEF ServiceStops, CancelMonitors, CoreStopped, AfterStop, Finish, Stay, NoteExit
<1>6. ASSUME ServiceKeeps PROVE Types'
  BY <1>6 DEF ServiceKeeps, StartMonitor, StopFails, Finish, NoteExit
<1>7. ASSUME ServiceDisowns PROVE Types'
  BY <1>7 DEF ServiceDisowns, CancelMonitors, GiveUpOwnership, CoreStopped, StopFails,
      Finish, NoteExit
<1>8. ASSUME SidecarStops PROVE Types'
  <2>1. life' \in [Pids -> Lives]
    BY <1>8, KillKeepsLives DEF SidecarStops
  <2> QED
    BY <1>8, <2>1 DEF SidecarStops, CoreStopped, AfterStop, StopFails, Finish, Stay, NoteExit
<1>9. ASSUME NoStart PROVE Types'
  BY <1>9 DEF NoStart, Stay
<1>10. ASSUME WaitForService PROVE Types'
  BY <1>10 DEF WaitForService, CoreStopped, Stay
<1>11. ASSUME Decide PROVE Types'
  BY <1>11 DEF Decide, Stay
<1>12. ASSUME ServiceUnready PROVE Types'
  BY <1>12 DEF ServiceUnready, AfterFailedService, AfterFailedStart, Finish, Stay
<1>13. ASSUME ServiceRefuses PROVE Types'
  BY <1>13 DEF ServiceRefuses, StartMonitor, AfterFailedService, AfterFailedStart, Finish,
      Stay
<1>14. ASSUME ServiceStarts PROVE Types'
  BY <1>14 DEF ServiceStarts, StartMonitor, MarkReady, Stay
<1>15. ASSUME SidecarUnspawned PROVE Types'
  BY <1>15 DEF SidecarUnspawned, AfterFailedStart, Finish, Stay
<1>16. ASSUME Spawn PROVE Types'
  BY <1>16 DEF Spawn, MarkReady, Stay
<1>17. ASSUME SidecarUnready PROVE Types'
  <2>1. life' \in [Pids -> Lives]
    BY <1>17, KillKeepsLives DEF SidecarUnready
  <2> QED
    BY <1>17, <2>1 DEF SidecarUnready, CoreStopped, AfterFailedStart, Finish, Stay
<1>18. ASSUME SidecarStarts PROVE Types'
  BY <1>18 DEF SidecarStarts, Stay
<1>19. ASSUME CheckReady PROVE Types'
  BY <1>19 DEF CheckReady, GoalMet, CoreReady, AfterFailedProxy, Finish, Stay
<1>20. ASSUME ApplyProxy PROVE Types'
  BY <1>20 DEF ApplyProxy, CoreReady, Expectation
<1>21. ASSUME ProxyFails PROVE Types'
  BY <1>21 DEF ProxyFails, AfterFailedProxy, Finish, Stay
<1>22. ASSUME RefreshGuard PROVE Types'
  BY <1>22 DEF RefreshGuard, Stay
<1>23. ASSUME ProxyStands PROVE Types'
  BY <1>23 DEF ProxyStands, Finish
<1>24. ASSUME RetractProxy PROVE Types'
  BY <1>24 DEF RetractProxy, AfterFailedProxy, Finish, Stay
<1>25. ASSUME RollBackStart PROVE Types'
  BY <1>25 DEF RollBackStart, CoreStopped, Finish
<1>26. ASSUME RollBackSidecar PROVE Types'
  <2>1. life' \in [Pids -> Lives]
    BY <1>26, KillKeepsLives DEF RollBackSidecar
  <2> QED
    BY <1>26, <2>1 DEF RollBackSidecar, CoreStopped, Finish
<1>27. ASSUME NEW m \in Generations, MonitorEnds(m) PROVE Types'
  BY <1>27 DEF MonitorEnds, End
<1>28. ASSUME NEW m \in Generations, MonitorLoses(m) PROVE Types'
  BY <1>28 DEF MonitorLoses
<1>29. ASSUME NEW m \in Generations, ClaimRecovery(m) PROVE Types'
  <2>1. \E w \in Watches : monitor' = [monitor EXCEPT ![m] = w]
    BY <1>29 DEF ClaimRecovery, End
  <2>2. watched' = watched \/ watched' = [watched EXCEPT ![m] = epoch]
    BY <1>29 DEF ClaimRecovery
  <2>3. monitor' \in [Generations -> Watches] /\ watched' \in [Generations -> Nat]
    BY <2>1, <2>2
  <2>4. owner' \in Nat
    BY <1>29 DEF ClaimRecovery
  <2> QED
    BY <1>29, <2>3, <2>4 DEF ClaimRecovery
<1>30. ASSUME NEW m \in Generations, InvalidateReadiness(m) PROVE Types'
  BY <1>30 DEF InvalidateReadiness
<1>31. ASSUME NEW m \in Generations, Recover(m) PROVE Types'
  BY <1>31 DEF Recover, End
<1>32. ASSUME NEW m \in Generations, FinishRecovery(m) PROVE Types'
  BY <1>32 DEF FinishRecovery, GiveUpOwnership, CoreStopped, End
<1>33. ASSUME NEW p \in Pids, NoticeExit(p) PROVE Types'
  BY <1>33 DEF NoticeExit
<1>34. ASSUME NEW p \in Pids, ClearTerminatedSidecar(p) PROVE Types'
  BY <1>34 DEF ClearTerminatedSidecar, CoreStopped
<1>35. ASSUME LoseService PROVE Types'
  BY <1>35 DEF LoseService
<1>36. ASSUME RegainService PROVE Types'
  BY <1>36 DEF RegainService
<1>37. ASSUME AskExit PROVE Types'
  BY <1>37 DEF AskExit
<1>38. ASSUME CancelExit PROVE Types'
  BY <1>38 DEF CancelExit
<1>39. ASSUME NEW p \in Pids, Die(p) PROVE Types'
  BY <1>39 DEF Die
<1>40. CASE UNCHANGED vars
  BY <1>40 DEF vars
<1> HIDE BoundsAssumption, GoalsAssumption DEF Types, Staged, Modes, Watches, Lives, Places,
    AllGoals, Generations, Pids, NoExpectation, coreVars, ownerVars, sidecarVars, proxyVars,
    opVars, bounds
<1> QED
  BY <1>1, <1>2, <1>3, <1>4, <1>5, <1>6, <1>7, <1>8, <1>9, <1>10, <1>11, <1>12, <1>13,
      <1>14, <1>15, <1>16, <1>17, <1>18, <1>19, <1>20, <1>21, <1>22, <1>23, <1>24, <1>25,
      <1>26, <1>27, <1>28, <1>29, <1>30, <1>31, <1>32, <1>33, <1>34, <1>35, <1>36, <1>37,
      <1>38, <1>39, <1>40 DEF Next, Transition, Watch, HandleExit, World

(* The lock is taken and released with the transition or the recovery. *)
LEMMA NextLocked ==
  ASSUME TypeOK, Locked, "accept" \notin Goals, [Next]_vars
  PROVE  Locked'
<1> USE BoundsAssumption, GoalsAssumption DEF TypeOK, Locked, Places, AllGoals, coreVars,
    ownerVars, sidecarVars, proxyVars, opVars, bounds
<1>1. ASSUME NEW g \in Goals, BeginOp(g) PROVE Locked'
  BY <1>1 DEF BeginOp
<1>2. ASSUME StopGuardOnly PROVE Locked'
  BY <1>2 DEF StopGuardOnly, Stay
<1>3. ASSUME ClearProxy PROVE Locked'
  BY <1>3 DEF ClearProxy, StopFails, Finish, NoteExit, Stay
<1>4. ASSUME NothingToStop PROVE Locked'
  BY <1>4 DEF NothingToStop, AfterStop, Finish, Stay, NoteExit
<1>5. ASSUME ServiceStops PROVE Locked'
  BY <1>5 DEF ServiceStops, CancelMonitors, CoreStopped, AfterStop, Finish, Stay, NoteExit
<1>6. ASSUME ServiceKeeps PROVE Locked'
  BY <1>6 DEF ServiceKeeps, StartMonitor, StopFails, Finish, NoteExit
<1>7. ASSUME ServiceDisowns PROVE Locked'
  BY <1>7 DEF ServiceDisowns, CancelMonitors, GiveUpOwnership, CoreStopped, StopFails,
      Finish, NoteExit
<1>8. ASSUME SidecarStops PROVE Locked'
  BY <1>8 DEF SidecarStops, Kill, CoreStopped, AfterStop, StopFails, Finish, Stay, NoteExit
<1>9. ASSUME NoStart PROVE Locked'
  BY <1>9 DEF NoStart, Stay
<1>10. ASSUME WaitForService PROVE Locked'
  BY <1>10 DEF WaitForService, CoreStopped, Stay
<1>11. ASSUME Decide PROVE Locked'
  BY <1>11 DEF Decide, Stay
<1>12. ASSUME ServiceUnready PROVE Locked'
  BY <1>12 DEF ServiceUnready, AfterFailedService, AfterFailedStart, Finish, Stay
<1>13. ASSUME ServiceRefuses PROVE Locked'
  BY <1>13 DEF ServiceRefuses, StartMonitor, AfterFailedService, AfterFailedStart, Finish,
      Stay
<1>14. ASSUME ServiceStarts PROVE Locked'
  BY <1>14 DEF ServiceStarts, StartMonitor, MarkReady, Stay
<1>15. ASSUME SidecarUnspawned PROVE Locked'
  BY <1>15 DEF SidecarUnspawned, AfterFailedStart, Finish, Stay
<1>16. ASSUME Spawn PROVE Locked'
  BY <1>16 DEF Spawn, MarkReady, Stay
<1>17. ASSUME SidecarUnready PROVE Locked'
  BY <1>17 DEF SidecarUnready, CoreStopped, Kill, AfterFailedStart, Finish, Stay
<1>18. ASSUME SidecarStarts PROVE Locked'
  BY <1>18 DEF SidecarStarts, Stay
<1>19. ASSUME CheckReady PROVE Locked'
  BY <1>19 DEF CheckReady, GoalMet, CoreReady, AfterFailedProxy, Finish, Stay
<1>20. ASSUME ApplyProxy PROVE Locked'
  BY <1>20 DEF ApplyProxy, CoreReady, Expectation
<1>21. ASSUME ProxyFails PROVE Locked'
  BY <1>21 DEF ProxyFails, AfterFailedProxy, Finish, Stay
<1>22. ASSUME RefreshGuard PROVE Locked'
  BY <1>22 DEF RefreshGuard, Stay
<1>23. ASSUME ProxyStands PROVE Locked'
  BY <1>23 DEF ProxyStands, Finish
<1>24. ASSUME RetractProxy PROVE Locked'
  BY <1>24 DEF RetractProxy, AfterFailedProxy, Finish, Stay
<1>25. ASSUME RollBackStart PROVE Locked'
  BY <1>25 DEF RollBackStart, CoreStopped, Finish
<1>26. ASSUME RollBackSidecar PROVE Locked'
  BY <1>26 DEF RollBackSidecar, Kill, CoreStopped, Finish
<1>27. ASSUME NEW m \in Generations, MonitorEnds(m) PROVE Locked'
  BY <1>27 DEF MonitorEnds, End
<1>28. ASSUME NEW m \in Generations, MonitorLoses(m) PROVE Locked'
  BY <1>28 DEF MonitorLoses
<1>29. ASSUME NEW m \in Generations, ClaimRecovery(m) PROVE Locked'
  BY <1>29 DEF ClaimRecovery, End
<1>30. ASSUME NEW m \in Generations, InvalidateReadiness(m) PROVE Locked'
  BY <1>30 DEF InvalidateReadiness
<1>31. ASSUME NEW m \in Generations, Recover(m) PROVE Locked'
  BY <1>31 DEF Recover, End
<1>32. ASSUME NEW m \in Generations, FinishRecovery(m) PROVE Locked'
  BY <1>32 DEF FinishRecovery, GiveUpOwnership, CoreStopped, End
<1>33. ASSUME NEW p \in Pids, NoticeExit(p) PROVE Locked'
  BY <1>33 DEF NoticeExit
<1>34. ASSUME NEW p \in Pids, ClearTerminatedSidecar(p) PROVE Locked'
  BY <1>34 DEF ClearTerminatedSidecar, CoreStopped
<1>35. ASSUME LoseService PROVE Locked'
  BY <1>35 DEF LoseService
<1>36. ASSUME RegainService PROVE Locked'
  BY <1>36 DEF RegainService
<1>37. ASSUME AskExit PROVE Locked'
  BY <1>37 DEF AskExit
<1>38. ASSUME CancelExit PROVE Locked'
  BY <1>38 DEF CancelExit
<1>39. ASSUME NEW p \in Pids, Die(p) PROVE Locked'
  BY <1>39 DEF Die
<1>40. CASE UNCHANGED vars
  BY <1>40 DEF vars
<1> HIDE BoundsAssumption, GoalsAssumption DEF TypeOK, Locked, Places, AllGoals, coreVars,
    ownerVars, sidecarVars, proxyVars, opVars, bounds
<1> QED
  BY <1>1, <1>2, <1>3, <1>4, <1>5, <1>6, <1>7, <1>8, <1>9, <1>10, <1>11, <1>12, <1>13,
      <1>14, <1>15, <1>16, <1>17, <1>18, <1>19, <1>20, <1>21, <1>22, <1>23, <1>24, <1>25,
      <1>26, <1>27, <1>28, <1>29, <1>30, <1>31, <1>32, <1>33, <1>34, <1>35, <1>36, <1>37,
      <1>38, <1>39, <1>40 DEF Next, Transition, Watch, HandleExit, World

(* Every transition goes from place to place with the Core as it should be. *)
LEMMA NextStaged ==
  ASSUME TypeOK, Locked, Staged, "accept" \notin Goals, [Next]_vars
  PROVE  Staged'
<1> USE BoundsAssumption, GoalsAssumption DEF TypeOK, Locked, Staged, AllGoals, Pids, Modes,
    coreVars, ownerVars, sidecarVars, proxyVars, opVars, bounds
<1>1. ASSUME NEW g \in Goals, BeginOp(g) PROVE Staged'
  BY <1>1 DEF BeginOp
<1>2. ASSUME StopGuardOnly PROVE Staged'
  BY <1>2 DEF StopGuardOnly, Stay
<1>3. ASSUME ClearProxy PROVE Staged'
  BY <1>3 DEF ClearProxy, StopFails, Finish, NoteExit, Stay
<1>4. ASSUME NothingToStop PROVE Staged'
  BY <1>4 DEF NothingToStop, AfterStop, Finish, Stay, NoteExit
<1>5. ASSUME ServiceStops PROVE Staged'
  BY <1>5 DEF ServiceStops, CancelMonitors, CoreStopped, AfterStop, Finish, Stay, NoteExit
<1>6. ASSUME ServiceKeeps PROVE Staged'
  BY <1>6 DEF ServiceKeeps, StartMonitor, StopFails, Finish, NoteExit
<1>7. ASSUME ServiceDisowns PROVE Staged'
  BY <1>7 DEF ServiceDisowns, CancelMonitors, GiveUpOwnership, CoreStopped, StopFails,
      Finish, NoteExit
<1>8. ASSUME SidecarStops PROVE Staged'
  BY <1>8 DEF SidecarStops, Kill, CoreStopped, AfterStop, StopFails, Finish, Stay, NoteExit
<1>9. ASSUME NoStart PROVE Staged'
  BY <1>9 DEF NoStart, Stay
<1>10. ASSUME WaitForService PROVE Staged'
  BY <1>10 DEF WaitForService, CoreStopped, Stay
<1>11. ASSUME Decide PROVE Staged'
  BY <1>11 DEF Decide, Stay
<1>12. ASSUME ServiceUnready PROVE Staged'
  BY <1>12 DEF ServiceUnready, AfterFailedService, AfterFailedStart, Finish, Stay
<1>13. ASSUME ServiceRefuses PROVE Staged'
  BY <1>13 DEF ServiceRefuses, StartMonitor, AfterFailedService, AfterFailedStart, Finish,
      Stay
<1>14. ASSUME ServiceStarts PROVE Staged'
  BY <1>14 DEF ServiceStarts, StartMonitor, MarkReady, Stay
<1>15. ASSUME SidecarUnspawned PROVE Staged'
  BY <1>15 DEF SidecarUnspawned, AfterFailedStart, Finish, Stay
<1>16. ASSUME Spawn PROVE Staged'
  BY <1>16 DEF Spawn, MarkReady, Stay
<1>17. ASSUME SidecarUnready PROVE Staged'
  BY <1>17 DEF SidecarUnready, CoreStopped, Kill, AfterFailedStart, Finish, Stay
<1>18. ASSUME SidecarStarts PROVE Staged'
  BY <1>18 DEF SidecarStarts, Stay
<1>19. ASSUME CheckReady PROVE Staged'
  BY <1>19 DEF CheckReady, GoalMet, CoreReady, AfterFailedProxy, Finish, Stay
<1>20. ASSUME ApplyProxy PROVE Staged'
  BY <1>20 DEF ApplyProxy, CoreReady, Expectation
<1>21. ASSUME ProxyFails PROVE Staged'
  BY <1>21 DEF ProxyFails, AfterFailedProxy, Finish, Stay
<1>22. ASSUME RefreshGuard PROVE Staged'
  BY <1>22 DEF RefreshGuard, Stay
<1>23. ASSUME ProxyStands PROVE Staged'
  BY <1>23 DEF ProxyStands, Finish
<1>24. ASSUME RetractProxy PROVE Staged'
  BY <1>24 DEF RetractProxy, AfterFailedProxy, Finish, Stay
<1>25. ASSUME RollBackStart PROVE Staged'
  BY <1>25 DEF RollBackStart, CoreStopped, Finish
<1>26. ASSUME RollBackSidecar PROVE Staged'
  BY <1>26 DEF RollBackSidecar, Kill, CoreStopped, Finish
<1>27. ASSUME NEW m \in Generations, MonitorEnds(m) PROVE Staged'
  BY <1>27 DEF MonitorEnds, End
<1>28. ASSUME NEW m \in Generations, MonitorLoses(m) PROVE Staged'
  BY <1>28 DEF MonitorLoses
<1>29. ASSUME NEW m \in Generations, ClaimRecovery(m) PROVE Staged'
  BY <1>29 DEF ClaimRecovery, End
<1>30. ASSUME NEW m \in Generations, InvalidateReadiness(m) PROVE Staged'
  BY <1>30 DEF InvalidateReadiness
<1>31. ASSUME NEW m \in Generations, Recover(m) PROVE Staged'
  BY <1>31 DEF Recover, End
<1>32. ASSUME NEW m \in Generations, FinishRecovery(m) PROVE Staged'
  BY <1>32 DEF FinishRecovery, GiveUpOwnership, CoreStopped, End
<1>33. ASSUME NEW p \in Pids, NoticeExit(p) PROVE Staged'
  BY <1>33 DEF NoticeExit
<1>34. ASSUME NEW p \in Pids, ClearTerminatedSidecar(p) PROVE Staged'
  BY <1>34 DEF ClearTerminatedSidecar, CoreStopped
<1>35. ASSUME LoseService PROVE Staged'
  BY <1>35 DEF LoseService
<1>36. ASSUME RegainService PROVE Staged'
  BY <1>36 DEF RegainService
<1>37. ASSUME AskExit PROVE Staged'
  BY <1>37 DEF AskExit
<1>38. ASSUME CancelExit PROVE Staged'
  BY <1>38 DEF CancelExit
<1>39. ASSUME NEW p \in Pids, Die(p) PROVE Staged'
  BY <1>39 DEF Die
<1>40. CASE UNCHANGED vars
  BY <1>40 DEF vars
<1> HIDE BoundsAssumption, GoalsAssumption DEF TypeOK, Locked, Staged, AllGoals, Pids,
    Modes, coreVars, ownerVars, sidecarVars, proxyVars, opVars, bounds
<1> QED
  BY <1>1, <1>2, <1>3, <1>4, <1>5, <1>6, <1>7, <1>8, <1>9, <1>10, <1>11, <1>12, <1>13,
      <1>14, <1>15, <1>16, <1>17, <1>18, <1>19, <1>20, <1>21, <1>22, <1>23, <1>24, <1>25,
      <1>26, <1>27, <1>28, <1>29, <1>30, <1>31, <1>32, <1>33, <1>34, <1>35, <1>36, <1>37,
      <1>38, <1>39, <1>40 DEF Next, Transition, Watch, HandleExit, World

(* The mode changes with what it stands for. *)
LEMMA NextHeld ==
  ASSUME TypeOK, Locked, Staged, Held, "accept" \notin Goals, [Next]_vars
  PROVE  Held'
<1> USE BoundsAssumption, GoalsAssumption DEF TypeOK, Locked, Staged, Held, AllGoals, Pids,
    Modes, coreVars, ownerVars, sidecarVars, proxyVars, opVars, bounds
<1>1. ASSUME NEW g \in Goals, BeginOp(g) PROVE Held'
  BY <1>1 DEF BeginOp
<1>2. ASSUME StopGuardOnly PROVE Held'
  BY <1>2 DEF StopGuardOnly, Stay
<1>3. ASSUME ClearProxy PROVE Held'
  BY <1>3 DEF ClearProxy, StopFails, Finish, NoteExit, Stay
<1>4. ASSUME NothingToStop PROVE Held'
  BY <1>4 DEF NothingToStop, AfterStop, Finish, Stay, NoteExit
<1>5. ASSUME ServiceStops PROVE Held'
  BY <1>5 DEF ServiceStops, CancelMonitors, CoreStopped, AfterStop, Finish, Stay, NoteExit
<1>6. ASSUME ServiceKeeps PROVE Held'
  BY <1>6 DEF ServiceKeeps, StartMonitor, StopFails, Finish, NoteExit
<1>7. ASSUME ServiceDisowns PROVE Held'
  BY <1>7 DEF ServiceDisowns, CancelMonitors, GiveUpOwnership, CoreStopped, StopFails,
      Finish, NoteExit
<1>8. ASSUME SidecarStops PROVE Held'
  BY <1>8 DEF SidecarStops, Kill, CoreStopped, AfterStop, StopFails, Finish, Stay, NoteExit
<1>9. ASSUME NoStart PROVE Held'
  BY <1>9 DEF NoStart, Stay
<1>10. ASSUME WaitForService PROVE Held'
  BY <1>10 DEF WaitForService, CoreStopped, Stay
<1>11. ASSUME Decide PROVE Held'
  BY <1>11 DEF Decide, Stay
<1>12. ASSUME ServiceUnready PROVE Held'
  BY <1>12 DEF ServiceUnready, AfterFailedService, AfterFailedStart, Finish, Stay
<1>13. ASSUME ServiceRefuses PROVE Held'
  BY <1>13 DEF ServiceRefuses, StartMonitor, AfterFailedService, AfterFailedStart, Finish,
      Stay
<1>14. ASSUME ServiceStarts PROVE Held'
  BY <1>14 DEF ServiceStarts, StartMonitor, MarkReady, Stay
<1>15. ASSUME SidecarUnspawned PROVE Held'
  BY <1>15 DEF SidecarUnspawned, AfterFailedStart, Finish, Stay
<1>16. ASSUME Spawn PROVE Held'
  BY <1>16 DEF Spawn, MarkReady, Stay
<1>17. ASSUME SidecarUnready PROVE Held'
  BY <1>17 DEF SidecarUnready, CoreStopped, Kill, AfterFailedStart, Finish, Stay
<1>18. ASSUME SidecarStarts PROVE Held'
  BY <1>18 DEF SidecarStarts, Stay
<1>19. ASSUME CheckReady PROVE Held'
  BY <1>19 DEF CheckReady, GoalMet, CoreReady, AfterFailedProxy, Finish, Stay
<1>20. ASSUME ApplyProxy PROVE Held'
  BY <1>20 DEF ApplyProxy, CoreReady, Expectation
<1>21. ASSUME ProxyFails PROVE Held'
  BY <1>21 DEF ProxyFails, AfterFailedProxy, Finish, Stay
<1>22. ASSUME RefreshGuard PROVE Held'
  BY <1>22 DEF RefreshGuard, Stay
<1>23. ASSUME ProxyStands PROVE Held'
  BY <1>23 DEF ProxyStands, Finish
<1>24. ASSUME RetractProxy PROVE Held'
  BY <1>24 DEF RetractProxy, AfterFailedProxy, Finish, Stay
<1>25. ASSUME RollBackStart PROVE Held'
  BY <1>25 DEF RollBackStart, CoreStopped, Finish
<1>26. ASSUME RollBackSidecar PROVE Held'
  BY <1>26 DEF RollBackSidecar, Kill, CoreStopped, Finish
<1>27. ASSUME NEW m \in Generations, MonitorEnds(m) PROVE Held'
  BY <1>27 DEF MonitorEnds, End
<1>28. ASSUME NEW m \in Generations, MonitorLoses(m) PROVE Held'
  BY <1>28 DEF MonitorLoses
<1>29. ASSUME NEW m \in Generations, ClaimRecovery(m) PROVE Held'
  BY <1>29 DEF ClaimRecovery, End
<1>30. ASSUME NEW m \in Generations, InvalidateReadiness(m) PROVE Held'
  BY <1>30 DEF InvalidateReadiness
<1>31. ASSUME NEW m \in Generations, Recover(m) PROVE Held'
  BY <1>31 DEF Recover, End
<1>32. ASSUME NEW m \in Generations, FinishRecovery(m) PROVE Held'
  BY <1>32 DEF FinishRecovery, GiveUpOwnership, CoreStopped, End
<1>33. ASSUME NEW p \in Pids, NoticeExit(p) PROVE Held'
  BY <1>33 DEF NoticeExit
<1>34. ASSUME NEW p \in Pids, ClearTerminatedSidecar(p) PROVE Held'
  BY <1>34 DEF ClearTerminatedSidecar, CoreStopped
<1>35. ASSUME LoseService PROVE Held'
  BY <1>35 DEF LoseService
<1>36. ASSUME RegainService PROVE Held'
  BY <1>36 DEF RegainService
<1>37. ASSUME AskExit PROVE Held'
  BY <1>37 DEF AskExit
<1>38. ASSUME CancelExit PROVE Held'
  BY <1>38 DEF CancelExit
<1>39. ASSUME NEW p \in Pids, Die(p) PROVE Held'
  BY <1>39 DEF Die
<1>40. CASE UNCHANGED vars
  BY <1>40 DEF vars
<1> HIDE BoundsAssumption, GoalsAssumption DEF TypeOK, Locked, Staged, Held, AllGoals, Pids,
    Modes, coreVars, ownerVars, sidecarVars, proxyVars, opVars, bounds
<1> QED
  BY <1>1, <1>2, <1>3, <1>4, <1>5, <1>6, <1>7, <1>8, <1>9, <1>10, <1>11, <1>12, <1>13,
      <1>14, <1>15, <1>16, <1>17, <1>18, <1>19, <1>20, <1>21, <1>22, <1>23, <1>24, <1>25,
      <1>26, <1>27, <1>28, <1>29, <1>30, <1>31, <1>32, <1>33, <1>34, <1>35, <1>36, <1>37,
      <1>38, <1>39, <1>40 DEF Next, Transition, Watch, HandleExit, World

(* Whoever supersedes a monitor leaves another, or stops the Core. *)
LEMMA NextWatched ==
  ASSUME TypeOK, Locked, Staged, Watched, [Next]_vars
  PROVE  Watched'
<1> USE BoundsAssumption, GoalsAssumption DEF TypeOK, Locked, Staged, Watched, Guarded,
    Modes, coreVars, ownerVars, sidecarVars, proxyVars, opVars, bounds
<1>1. ASSUME NEW g \in Goals, BeginOp(g) PROVE Watched'
  BY <1>1 DEF BeginOp
<1>2. ASSUME StopGuardOnly PROVE Watched'
  BY <1>2 DEF StopGuardOnly, Stay
<1>3. ASSUME ClearProxy PROVE Watched'
  BY <1>3 DEF ClearProxy, StopFails, Finish, NoteExit, Stay
<1>4. ASSUME NothingToStop PROVE Watched'
  BY <1>4 DEF NothingToStop, AfterStop, Finish, Stay, NoteExit
<1>5. ASSUME ServiceStops PROVE Watched'
  BY <1>5 DEF ServiceStops, CancelMonitors, CoreStopped, AfterStop, Finish, Stay, NoteExit
<1>6. ASSUME ServiceKeeps PROVE Watched'
  BY <1>6 DEF ServiceKeeps, StartMonitor, StopFails, Finish, NoteExit
<1>7. ASSUME ServiceDisowns PROVE Watched'
  BY <1>7 DEF ServiceDisowns, CancelMonitors, GiveUpOwnership, CoreStopped, StopFails,
      Finish, NoteExit
<1>8. ASSUME SidecarStops PROVE Watched'
  BY <1>8 DEF SidecarStops, Kill, CoreStopped, AfterStop, StopFails, Finish, Stay, NoteExit
<1>9. ASSUME NoStart PROVE Watched'
  BY <1>9 DEF NoStart, Stay
<1>10. ASSUME WaitForService PROVE Watched'
  BY <1>10 DEF WaitForService, CoreStopped, Stay
<1>11. ASSUME Decide PROVE Watched'
  BY <1>11 DEF Decide, Stay
<1>12. ASSUME ServiceUnready PROVE Watched'
  BY <1>12 DEF ServiceUnready, AfterFailedService, AfterFailedStart, Finish, Stay
<1>13. ASSUME ServiceRefuses PROVE Watched'
  BY <1>13 DEF ServiceRefuses, StartMonitor, AfterFailedService, AfterFailedStart, Finish,
      Stay
<1>14. ASSUME ServiceStarts PROVE Watched'
  BY <1>14 DEF ServiceStarts, StartMonitor, MarkReady, Stay
<1>15. ASSUME SidecarUnspawned PROVE Watched'
  BY <1>15 DEF SidecarUnspawned, AfterFailedStart, Finish, Stay
<1>16. ASSUME Spawn PROVE Watched'
  BY <1>16 DEF Spawn, MarkReady, Stay
<1>17. ASSUME SidecarUnready PROVE Watched'
  BY <1>17 DEF SidecarUnready, CoreStopped, Kill, AfterFailedStart, Finish, Stay
<1>18. ASSUME SidecarStarts PROVE Watched'
  BY <1>18 DEF SidecarStarts, Stay
<1>19. ASSUME CheckReady PROVE Watched'
  BY <1>19 DEF CheckReady, GoalMet, CoreReady, AfterFailedProxy, Finish, Stay
<1>20. ASSUME ApplyProxy PROVE Watched'
  BY <1>20 DEF ApplyProxy, CoreReady, Expectation
<1>21. ASSUME ProxyFails PROVE Watched'
  BY <1>21 DEF ProxyFails, AfterFailedProxy, Finish, Stay
<1>22. ASSUME RefreshGuard PROVE Watched'
  BY <1>22 DEF RefreshGuard, Stay
<1>23. ASSUME ProxyStands PROVE Watched'
  BY <1>23 DEF ProxyStands, Finish
<1>24. ASSUME RetractProxy PROVE Watched'
  BY <1>24 DEF RetractProxy, AfterFailedProxy, Finish, Stay
<1>25. ASSUME RollBackStart PROVE Watched'
  BY <1>25 DEF RollBackStart, CoreStopped, Finish
<1>26. ASSUME RollBackSidecar PROVE Watched'
  BY <1>26 DEF RollBackSidecar, Kill, CoreStopped, Finish
<1>27. ASSUME NEW m \in Generations, MonitorEnds(m) PROVE Watched'
  BY <1>27 DEF MonitorEnds, End
<1>28. ASSUME NEW m \in Generations, MonitorLoses(m) PROVE Watched'
  BY <1>28 DEF MonitorLoses
<1>29. ASSUME NEW m \in Generations, ClaimRecovery(m) PROVE Watched'
  BY <1>29 DEF ClaimRecovery, End
<1>30. ASSUME NEW m \in Generations, InvalidateReadiness(m) PROVE Watched'
  BY <1>30 DEF InvalidateReadiness
<1>31. ASSUME NEW m \in Generations, Recover(m) PROVE Watched'
  BY <1>31 DEF Recover, End
<1>32. ASSUME NEW m \in Generations, FinishRecovery(m) PROVE Watched'
  BY <1>32 DEF FinishRecovery, GiveUpOwnership, CoreStopped, End
<1>33. ASSUME NEW p \in Pids, NoticeExit(p) PROVE Watched'
  BY <1>33 DEF NoticeExit
<1>34. ASSUME NEW p \in Pids, ClearTerminatedSidecar(p) PROVE Watched'
  BY <1>34 DEF ClearTerminatedSidecar, CoreStopped
<1>35. ASSUME LoseService PROVE Watched'
  BY <1>35 DEF LoseService
<1>36. ASSUME RegainService PROVE Watched'
  BY <1>36 DEF RegainService
<1>37. ASSUME AskExit PROVE Watched'
  BY <1>37 DEF AskExit
<1>38. ASSUME CancelExit PROVE Watched'
  BY <1>38 DEF CancelExit
<1>39. ASSUME NEW p \in Pids, Die(p) PROVE Watched'
  BY <1>39 DEF Die
<1>40. CASE UNCHANGED vars
  BY <1>40 DEF vars
<1> HIDE BoundsAssumption, GoalsAssumption DEF TypeOK, Locked, Staged, Watched, Guarded,
    Modes, coreVars, ownerVars, sidecarVars, proxyVars, opVars, bounds
<1> QED
  BY <1>1, <1>2, <1>3, <1>4, <1>5, <1>6, <1>7, <1>8, <1>9, <1>10, <1>11, <1>12, <1>13,
      <1>14, <1>15, <1>16, <1>17, <1>18, <1>19, <1>20, <1>21, <1>22, <1>23, <1>24, <1>25,
      <1>26, <1>27, <1>28, <1>29, <1>30, <1>31, <1>32, <1>33, <1>34, <1>35, <1>36, <1>37,
      <1>38, <1>39, <1>40 DEF Next, Transition, Watch, HandleExit, World

(* No transition after the exit gets as far as a start. *)
LEMMA NextExited ==
  ASSUME TypeOK, Locked, Staged, Exited, "accept" \notin Goals, [Next]_vars
  PROVE  Exited'
<1> USE BoundsAssumption, GoalsAssumption DEF TypeOK, Locked, Staged, Exited, AllGoals,
    Modes, coreVars, ownerVars, sidecarVars, proxyVars, opVars, bounds
<1>1. ASSUME NEW g \in Goals, BeginOp(g) PROVE Exited'
  BY <1>1 DEF BeginOp
<1>2. ASSUME StopGuardOnly PROVE Exited'
  BY <1>2 DEF StopGuardOnly, Stay
<1>3. ASSUME ClearProxy PROVE Exited'
  BY <1>3 DEF ClearProxy, StopFails, Finish, NoteExit, Stay
<1>4. ASSUME NothingToStop PROVE Exited'
  BY <1>4 DEF NothingToStop, AfterStop, Finish, Stay, NoteExit
<1>5. ASSUME ServiceStops PROVE Exited'
  BY <1>5 DEF ServiceStops, CancelMonitors, CoreStopped, AfterStop, Finish, Stay, NoteExit
<1>6. ASSUME ServiceKeeps PROVE Exited'
  BY <1>6 DEF ServiceKeeps, StartMonitor, StopFails, Finish, NoteExit
<1>7. ASSUME ServiceDisowns PROVE Exited'
  BY <1>7 DEF ServiceDisowns, CancelMonitors, GiveUpOwnership, CoreStopped, StopFails,
      Finish, NoteExit
<1>8. ASSUME SidecarStops PROVE Exited'
  BY <1>8 DEF SidecarStops, Kill, CoreStopped, AfterStop, StopFails, Finish, Stay, NoteExit
<1>9. ASSUME NoStart PROVE Exited'
  BY <1>9 DEF NoStart, Stay
<1>10. ASSUME WaitForService PROVE Exited'
  BY <1>10 DEF WaitForService, CoreStopped, Stay
<1>11. ASSUME Decide PROVE Exited'
  BY <1>11 DEF Decide, Stay
<1>12. ASSUME ServiceUnready PROVE Exited'
  BY <1>12 DEF ServiceUnready, AfterFailedService, AfterFailedStart, Finish, Stay
<1>13. ASSUME ServiceRefuses PROVE Exited'
  BY <1>13 DEF ServiceRefuses, StartMonitor, AfterFailedService, AfterFailedStart, Finish,
      Stay
<1>14. ASSUME ServiceStarts PROVE Exited'
  BY <1>14 DEF ServiceStarts, StartMonitor, MarkReady, Stay
<1>15. ASSUME SidecarUnspawned PROVE Exited'
  BY <1>15 DEF SidecarUnspawned, AfterFailedStart, Finish, Stay
<1>16. ASSUME Spawn PROVE Exited'
  BY <1>16 DEF Spawn, MarkReady, Stay
<1>17. ASSUME SidecarUnready PROVE Exited'
  BY <1>17 DEF SidecarUnready, CoreStopped, Kill, AfterFailedStart, Finish, Stay
<1>18. ASSUME SidecarStarts PROVE Exited'
  BY <1>18 DEF SidecarStarts, Stay
<1>19. ASSUME CheckReady PROVE Exited'
  BY <1>19 DEF CheckReady, GoalMet, CoreReady, AfterFailedProxy, Finish, Stay
<1>20. ASSUME ApplyProxy PROVE Exited'
  BY <1>20 DEF ApplyProxy, CoreReady, Expectation
<1>21. ASSUME ProxyFails PROVE Exited'
  BY <1>21 DEF ProxyFails, AfterFailedProxy, Finish, Stay
<1>22. ASSUME RefreshGuard PROVE Exited'
  BY <1>22 DEF RefreshGuard, Stay
<1>23. ASSUME ProxyStands PROVE Exited'
  BY <1>23 DEF ProxyStands, Finish
<1>24. ASSUME RetractProxy PROVE Exited'
  BY <1>24 DEF RetractProxy, AfterFailedProxy, Finish, Stay
<1>25. ASSUME RollBackStart PROVE Exited'
  BY <1>25 DEF RollBackStart, CoreStopped, Finish
<1>26. ASSUME RollBackSidecar PROVE Exited'
  BY <1>26 DEF RollBackSidecar, Kill, CoreStopped, Finish
<1>27. ASSUME NEW m \in Generations, MonitorEnds(m) PROVE Exited'
  BY <1>27 DEF MonitorEnds, End
<1>28. ASSUME NEW m \in Generations, MonitorLoses(m) PROVE Exited'
  BY <1>28 DEF MonitorLoses
<1>29. ASSUME NEW m \in Generations, ClaimRecovery(m) PROVE Exited'
  BY <1>29 DEF ClaimRecovery, End
<1>30. ASSUME NEW m \in Generations, InvalidateReadiness(m) PROVE Exited'
  BY <1>30 DEF InvalidateReadiness
<1>31. ASSUME NEW m \in Generations, Recover(m) PROVE Exited'
  BY <1>31 DEF Recover, End
<1>32. ASSUME NEW m \in Generations, FinishRecovery(m) PROVE Exited'
  BY <1>32 DEF FinishRecovery, GiveUpOwnership, CoreStopped, End
<1>33. ASSUME NEW p \in Pids, NoticeExit(p) PROVE Exited'
  BY <1>33 DEF NoticeExit
<1>34. ASSUME NEW p \in Pids, ClearTerminatedSidecar(p) PROVE Exited'
  BY <1>34 DEF ClearTerminatedSidecar, CoreStopped
<1>35. ASSUME LoseService PROVE Exited'
  BY <1>35 DEF LoseService
<1>36. ASSUME RegainService PROVE Exited'
  BY <1>36 DEF RegainService
<1>37. ASSUME AskExit PROVE Exited'
  BY <1>37 DEF AskExit
<1>38. ASSUME CancelExit PROVE Exited'
  BY <1>38 DEF CancelExit
<1>39. ASSUME NEW p \in Pids, Die(p) PROVE Exited'
  BY <1>39 DEF Die
<1>40. CASE UNCHANGED vars
  BY <1>40 DEF vars
<1> HIDE BoundsAssumption, GoalsAssumption DEF TypeOK, Locked, Staged, Exited, AllGoals,
    Modes, coreVars, ownerVars, sidecarVars, proxyVars, opVars, bounds
<1> QED
  BY <1>1, <1>2, <1>3, <1>4, <1>5, <1>6, <1>7, <1>8, <1>9, <1>10, <1>11, <1>12, <1>13,
      <1>14, <1>15, <1>16, <1>17, <1>18, <1>19, <1>20, <1>21, <1>22, <1>23, <1>24, <1>25,
      <1>26, <1>27, <1>28, <1>29, <1>30, <1>31, <1>32, <1>33, <1>34, <1>35, <1>36, <1>37,
      <1>38, <1>39, <1>40 DEF Next, Transition, Watch, HandleExit, World

(* A Core that is started supersedes the claims on the one before. *)
LEMMA NextClaims ==
  ASSUME TypeOK, Locked, Staged, Claims, [Next]_vars
  PROVE  Claims'
<1> USE BoundsAssumption, GoalsAssumption DEF TypeOK, Locked, Staged, Claims, Generations,
    coreVars, ownerVars, sidecarVars, proxyVars, opVars, bounds
<1>1. ASSUME NEW g \in Goals, BeginOp(g) PROVE Claims'
  BY <1>1 DEF BeginOp
<1>2. ASSUME StopGuardOnly PROVE Claims'
  BY <1>2 DEF StopGuardOnly, Stay
<1>3. ASSUME ClearProxy PROVE Claims'
  BY <1>3 DEF ClearProxy, StopFails, Finish, NoteExit, Stay
<1>4. ASSUME NothingToStop PROVE Claims'
  BY <1>4 DEF NothingToStop, AfterStop, Finish, Stay, NoteExit
<1>5. ASSUME ServiceStops PROVE Claims'
  BY <1>5 DEF ServiceStops, CancelMonitors, CoreStopped, AfterStop, Finish, Stay, NoteExit
<1>6. ASSUME ServiceKeeps PROVE Claims'
  BY <1>6 DEF ServiceKeeps, StartMonitor, StopFails, Finish, NoteExit
<1>7. ASSUME ServiceDisowns PROVE Claims'
  BY <1>7 DEF ServiceDisowns, CancelMonitors, GiveUpOwnership, CoreStopped, StopFails,
      Finish, NoteExit
<1>8. ASSUME SidecarStops PROVE Claims'
  BY <1>8 DEF SidecarStops, Kill, CoreStopped, AfterStop, StopFails, Finish, Stay, NoteExit
<1>9. ASSUME NoStart PROVE Claims'
  BY <1>9 DEF NoStart, Stay
<1>10. ASSUME WaitForService PROVE Claims'
  BY <1>10 DEF WaitForService, CoreStopped, Stay
<1>11. ASSUME Decide PROVE Claims'
  BY <1>11 DEF Decide, Stay
<1>12. ASSUME ServiceUnready PROVE Claims'
  BY <1>12 DEF ServiceUnready, AfterFailedService, AfterFailedStart, Finish, Stay
<1>13. ASSUME ServiceRefuses PROVE Claims'
  BY <1>13 DEF ServiceRefuses, StartMonitor, AfterFailedService, AfterFailedStart, Finish,
      Stay
<1>14. ASSUME ServiceStarts PROVE Claims'
  BY <1>14 DEF ServiceStarts, StartMonitor, MarkReady, Stay
<1>15. ASSUME SidecarUnspawned PROVE Claims'
  BY <1>15 DEF SidecarUnspawned, AfterFailedStart, Finish, Stay
<1>16. ASSUME Spawn PROVE Claims'
  BY <1>16 DEF Spawn, MarkReady, Stay
<1>17. ASSUME SidecarUnready PROVE Claims'
  BY <1>17 DEF SidecarUnready, CoreStopped, Kill, AfterFailedStart, Finish, Stay
<1>18. ASSUME SidecarStarts PROVE Claims'
  BY <1>18 DEF SidecarStarts, Stay
<1>19. ASSUME CheckReady PROVE Claims'
  BY <1>19 DEF CheckReady, GoalMet, CoreReady, AfterFailedProxy, Finish, Stay
<1>20. ASSUME ApplyProxy PROVE Claims'
  BY <1>20 DEF ApplyProxy, CoreReady, Expectation
<1>21. ASSUME ProxyFails PROVE Claims'
  BY <1>21 DEF ProxyFails, AfterFailedProxy, Finish, Stay
<1>22. ASSUME RefreshGuard PROVE Claims'
  BY <1>22 DEF RefreshGuard, Stay
<1>23. ASSUME ProxyStands PROVE Claims'
  BY <1>23 DEF ProxyStands, Finish
<1>24. ASSUME RetractProxy PROVE Claims'
  BY <1>24 DEF RetractProxy, AfterFailedProxy, Finish, Stay
<1>25. ASSUME RollBackStart PROVE Claims'
  BY <1>25 DEF RollBackStart, CoreStopped, Finish
<1>26. ASSUME RollBackSidecar PROVE Claims'
  BY <1>26 DEF RollBackSidecar, Kill, CoreStopped, Finish
<1>27. ASSUME NEW m \in Generations, MonitorEnds(m) PROVE Claims'
  BY <1>27 DEF MonitorEnds, End
<1>28. ASSUME NEW m \in Generations, MonitorLoses(m) PROVE Claims'
  BY <1>28 DEF MonitorLoses
<1>29. ASSUME NEW m \in Generations, ClaimRecovery(m) PROVE Claims'
  BY <1>29 DEF ClaimRecovery, End
<1>30. ASSUME NEW m \in Generations, InvalidateReadiness(m) PROVE Claims'
  BY <1>30 DEF InvalidateReadiness
<1>31. ASSUME NEW m \in Generations, Recover(m) PROVE Claims'
  BY <1>31 DEF Recover, End
<1>32. ASSUME NEW m \in Generations, FinishRecovery(m) PROVE Claims'
  BY <1>32 DEF FinishRecovery, GiveUpOwnership, CoreStopped, End
<1>33. ASSUME NEW p \in Pids, NoticeExit(p) PROVE Claims'
  BY <1>33 DEF NoticeExit
<1>34. ASSUME NEW p \in Pids, ClearTerminatedSidecar(p) PROVE Claims'
  BY <1>34 DEF ClearTerminatedSidecar, CoreStopped
<1>35. ASSUME LoseService PROVE Claims'
  BY <1>35 DEF LoseService
<1>36. ASSUME RegainService PROVE Claims'
  BY <1>36 DEF RegainService
<1>37. ASSUME AskExit PROVE Claims'
  BY <1>37 DEF AskExit
<1>38. ASSUME CancelExit PROVE Claims'
  BY <1>38 DEF CancelExit
<1>39. ASSUME NEW p \in Pids, Die(p) PROVE Claims'
  BY <1>39 DEF Die
<1>40. CASE UNCHANGED vars
  BY <1>40 DEF vars
<1> HIDE BoundsAssumption, GoalsAssumption DEF TypeOK, Locked, Staged, Claims, Generations,
    coreVars, ownerVars, sidecarVars, proxyVars, opVars, bounds
<1> QED
  BY <1>1, <1>2, <1>3, <1>4, <1>5, <1>6, <1>7, <1>8, <1>9, <1>10, <1>11, <1>12, <1>13,
      <1>14, <1>15, <1>16, <1>17, <1>18, <1>19, <1>20, <1>21, <1>22, <1>23, <1>24, <1>25,
      <1>26, <1>27, <1>28, <1>29, <1>30, <1>31, <1>32, <1>33, <1>34, <1>35, <1>36, <1>37,
      <1>38, <1>39, <1>40 DEF Next, Transition, Watch, HandleExit, World

(* Every Core is given a readiness that no other had. *)
LEMMA NextReadiness ==
  ASSUME TypeOK, Locked, Staged, Held, OwnReadiness, [Next]_vars
  PROVE  OwnReadiness'
<1> USE BoundsAssumption, GoalsAssumption DEF TypeOK, Locked, Staged, Held, OwnReadiness,
    Own, Pids, coreVars, ownerVars, sidecarVars, proxyVars, opVars, bounds
<1>1. ASSUME NEW g \in Goals, BeginOp(g) PROVE OwnReadiness'
  BY <1>1 DEF BeginOp
<1>2. ASSUME StopGuardOnly PROVE OwnReadiness'
  BY <1>2 DEF StopGuardOnly, Stay
<1>3. ASSUME ClearProxy PROVE OwnReadiness'
  BY <1>3 DEF ClearProxy, StopFails, Finish, NoteExit, Stay
<1>4. ASSUME NothingToStop PROVE OwnReadiness'
  BY <1>4 DEF NothingToStop, AfterStop, Finish, Stay, NoteExit
<1>5. ASSUME ServiceStops PROVE OwnReadiness'
  BY <1>5 DEF ServiceStops, CancelMonitors, CoreStopped, AfterStop, Finish, Stay, NoteExit
<1>6. ASSUME ServiceKeeps PROVE OwnReadiness'
  BY <1>6 DEF ServiceKeeps, StartMonitor, StopFails, Finish, NoteExit
<1>7. ASSUME ServiceDisowns PROVE OwnReadiness'
  BY <1>7 DEF ServiceDisowns, CancelMonitors, GiveUpOwnership, CoreStopped, StopFails,
      Finish, NoteExit
<1>8. ASSUME SidecarStops PROVE OwnReadiness'
  BY <1>8 DEF SidecarStops, Kill, CoreStopped, AfterStop, StopFails, Finish, Stay, NoteExit
<1>9. ASSUME NoStart PROVE OwnReadiness'
  BY <1>9 DEF NoStart, Stay
<1>10. ASSUME WaitForService PROVE OwnReadiness'
  BY <1>10 DEF WaitForService, CoreStopped, Stay
<1>11. ASSUME Decide PROVE OwnReadiness'
  BY <1>11 DEF Decide, Stay
<1>12. ASSUME ServiceUnready PROVE OwnReadiness'
  BY <1>12 DEF ServiceUnready, AfterFailedService, AfterFailedStart, Finish, Stay
<1>13. ASSUME ServiceRefuses PROVE OwnReadiness'
  BY <1>13 DEF ServiceRefuses, StartMonitor, AfterFailedService, AfterFailedStart, Finish,
      Stay
<1>14. ASSUME ServiceStarts PROVE OwnReadiness'
  BY <1>14 DEF ServiceStarts, StartMonitor, MarkReady, Stay
<1>15. ASSUME SidecarUnspawned PROVE OwnReadiness'
  BY <1>15 DEF SidecarUnspawned, AfterFailedStart, Finish, Stay
<1>16. ASSUME Spawn PROVE OwnReadiness'
  BY <1>16 DEF Spawn, MarkReady, Stay
<1>17. ASSUME SidecarUnready PROVE OwnReadiness'
  BY <1>17 DEF SidecarUnready, CoreStopped, Kill, AfterFailedStart, Finish, Stay
<1>18. ASSUME SidecarStarts PROVE OwnReadiness'
  BY <1>18 DEF SidecarStarts, Stay
<1>19. ASSUME CheckReady PROVE OwnReadiness'
  BY <1>19 DEF CheckReady, GoalMet, CoreReady, AfterFailedProxy, Finish, Stay
<1>20. ASSUME ApplyProxy PROVE OwnReadiness'
  BY <1>20 DEF ApplyProxy, CoreReady, Expectation
<1>21. ASSUME ProxyFails PROVE OwnReadiness'
  BY <1>21 DEF ProxyFails, AfterFailedProxy, Finish, Stay
<1>22. ASSUME RefreshGuard PROVE OwnReadiness'
  BY <1>22 DEF RefreshGuard, Stay
<1>23. ASSUME ProxyStands PROVE OwnReadiness'
  BY <1>23 DEF ProxyStands, Finish
<1>24. ASSUME RetractProxy PROVE OwnReadiness'
  BY <1>24 DEF RetractProxy, AfterFailedProxy, Finish, Stay
<1>25. ASSUME RollBackStart PROVE OwnReadiness'
  BY <1>25 DEF RollBackStart, CoreStopped, Finish
<1>26. ASSUME RollBackSidecar PROVE OwnReadiness'
  BY <1>26 DEF RollBackSidecar, Kill, CoreStopped, Finish
<1>27. ASSUME NEW m \in Generations, MonitorEnds(m) PROVE OwnReadiness'
  BY <1>27 DEF MonitorEnds, End
<1>28. ASSUME NEW m \in Generations, MonitorLoses(m) PROVE OwnReadiness'
  BY <1>28 DEF MonitorLoses
<1>29. ASSUME NEW m \in Generations, ClaimRecovery(m) PROVE OwnReadiness'
  BY <1>29 DEF ClaimRecovery, End
<1>30. ASSUME NEW m \in Generations, InvalidateReadiness(m) PROVE OwnReadiness'
  BY <1>30 DEF InvalidateReadiness
<1>31. ASSUME NEW m \in Generations, Recover(m) PROVE OwnReadiness'
  BY <1>31 DEF Recover, End
<1>32. ASSUME NEW m \in Generations, FinishRecovery(m) PROVE OwnReadiness'
  BY <1>32 DEF FinishRecovery, GiveUpOwnership, CoreStopped, End
<1>33. ASSUME NEW p \in Pids, NoticeExit(p) PROVE OwnReadiness'
  BY <1>33 DEF NoticeExit
<1>34. ASSUME NEW p \in Pids, ClearTerminatedSidecar(p) PROVE OwnReadiness'
  BY <1>34 DEF ClearTerminatedSidecar, CoreStopped
<1>35. ASSUME LoseService PROVE OwnReadiness'
  BY <1>35 DEF LoseService
<1>36. ASSUME RegainService PROVE OwnReadiness'
  BY <1>36 DEF RegainService
<1>37. ASSUME AskExit PROVE OwnReadiness'
  BY <1>37 DEF AskExit
<1>38. ASSUME CancelExit PROVE OwnReadiness'
  BY <1>38 DEF CancelExit
<1>39. ASSUME NEW p \in Pids, Die(p) PROVE OwnReadiness'
  BY <1>39 DEF Die
<1>40. CASE UNCHANGED vars
  BY <1>40 DEF vars
<1> HIDE BoundsAssumption, GoalsAssumption DEF TypeOK, Locked, Staged, Held, OwnReadiness,
    Own, Pids, coreVars, ownerVars, sidecarVars, proxyVars, opVars, bounds
<1> QED
  BY <1>1, <1>2, <1>3, <1>4, <1>5, <1>6, <1>7, <1>8, <1>9, <1>10, <1>11, <1>12, <1>13,
      <1>14, <1>15, <1>16, <1>17, <1>18, <1>19, <1>20, <1>21, <1>22, <1>23, <1>24, <1>25,
      <1>26, <1>27, <1>28, <1>29, <1>30, <1>31, <1>32, <1>33, <1>34, <1>35, <1>36, <1>37,
      <1>38, <1>39, <1>40 DEF Next, Transition, Watch, HandleExit, World

(* The Core is stopped at a place where its proxy is cleared. *)
LEMMA StepClearsFirst ==
  ASSUME TypeOK, Locked, Staged, [Next]_vars
  PROVE  ClearsFirst
<1> USE BoundsAssumption, GoalsAssumption DEF TypeOK, Locked, Staged, ClearsFirst, coreVars,
    ownerVars, sidecarVars, proxyVars, opVars, bounds
<1>1. ASSUME NEW g \in Goals, BeginOp(g) PROVE ClearsFirst
  BY <1>1 DEF BeginOp
<1>2. ASSUME StopGuardOnly PROVE ClearsFirst
  BY <1>2 DEF StopGuardOnly, Stay
<1>3. ASSUME ClearProxy PROVE ClearsFirst
  BY <1>3 DEF ClearProxy, StopFails, Finish, NoteExit, Stay
<1>4. ASSUME NothingToStop PROVE ClearsFirst
  BY <1>4 DEF NothingToStop, AfterStop, Finish, Stay, NoteExit
<1>5. ASSUME ServiceStops PROVE ClearsFirst
  BY <1>5 DEF ServiceStops, CancelMonitors, CoreStopped, AfterStop, Finish, Stay, NoteExit
<1>6. ASSUME ServiceKeeps PROVE ClearsFirst
  BY <1>6 DEF ServiceKeeps, StartMonitor, StopFails, Finish, NoteExit
<1>7. ASSUME ServiceDisowns PROVE ClearsFirst
  BY <1>7 DEF ServiceDisowns, CancelMonitors, GiveUpOwnership, CoreStopped, StopFails,
      Finish, NoteExit
<1>8. ASSUME SidecarStops PROVE ClearsFirst
  BY <1>8 DEF SidecarStops, Kill, CoreStopped, AfterStop, StopFails, Finish, Stay, NoteExit
<1>9. ASSUME NoStart PROVE ClearsFirst
  BY <1>9 DEF NoStart, Stay
<1>10. ASSUME WaitForService PROVE ClearsFirst
  BY <1>10 DEF WaitForService, CoreStopped, Stay
<1>11. ASSUME Decide PROVE ClearsFirst
  BY <1>11 DEF Decide, Stay
<1>12. ASSUME ServiceUnready PROVE ClearsFirst
  BY <1>12 DEF ServiceUnready, AfterFailedService, AfterFailedStart, Finish, Stay
<1>13. ASSUME ServiceRefuses PROVE ClearsFirst
  BY <1>13 DEF ServiceRefuses, StartMonitor, AfterFailedService, AfterFailedStart, Finish,
      Stay
<1>14. ASSUME ServiceStarts PROVE ClearsFirst
  BY <1>14 DEF ServiceStarts, StartMonitor, MarkReady, Stay
<1>15. ASSUME SidecarUnspawned PROVE ClearsFirst
  BY <1>15 DEF SidecarUnspawned, AfterFailedStart, Finish, Stay
<1>16. ASSUME Spawn PROVE ClearsFirst
  BY <1>16 DEF Spawn, MarkReady, Stay
<1>17. ASSUME SidecarUnready PROVE ClearsFirst
  BY <1>17 DEF SidecarUnready, CoreStopped, Kill, AfterFailedStart, Finish, Stay
<1>18. ASSUME SidecarStarts PROVE ClearsFirst
  BY <1>18 DEF SidecarStarts, Stay
<1>19. ASSUME CheckReady PROVE ClearsFirst
  BY <1>19 DEF CheckReady, GoalMet, CoreReady, AfterFailedProxy, Finish, Stay
<1>20. ASSUME ApplyProxy PROVE ClearsFirst
  BY <1>20 DEF ApplyProxy, CoreReady, Expectation
<1>21. ASSUME ProxyFails PROVE ClearsFirst
  BY <1>21 DEF ProxyFails, AfterFailedProxy, Finish, Stay
<1>22. ASSUME RefreshGuard PROVE ClearsFirst
  BY <1>22 DEF RefreshGuard, Stay
<1>23. ASSUME ProxyStands PROVE ClearsFirst
  BY <1>23 DEF ProxyStands, Finish
<1>24. ASSUME RetractProxy PROVE ClearsFirst
  BY <1>24 DEF RetractProxy, AfterFailedProxy, Finish, Stay
<1>25. ASSUME RollBackStart PROVE ClearsFirst
  BY <1>25 DEF RollBackStart, CoreStopped, Finish
<1>26. ASSUME RollBackSidecar PROVE ClearsFirst
  BY <1>26 DEF RollBackSidecar, Kill, CoreStopped, Finish
<1>27. ASSUME NEW m \in Generations, MonitorEnds(m) PROVE ClearsFirst
  BY <1>27 DEF MonitorEnds, End
<1>28. ASSUME NEW m \in Generations, MonitorLoses(m) PROVE ClearsFirst
  BY <1>28 DEF MonitorLoses
<1>29. ASSUME NEW m \in Generations, ClaimRecovery(m) PROVE ClearsFirst
  BY <1>29 DEF ClaimRecovery, End
<1>30. ASSUME NEW m \in Generations, InvalidateReadiness(m) PROVE ClearsFirst
  BY <1>30 DEF InvalidateReadiness
<1>31. ASSUME NEW m \in Generations, Recover(m) PROVE ClearsFirst
  BY <1>31 DEF Recover, End
<1>32. ASSUME NEW m \in Generations, FinishRecovery(m) PROVE ClearsFirst
  BY <1>32 DEF FinishRecovery, GiveUpOwnership, CoreStopped, End
<1>33. ASSUME NEW p \in Pids, NoticeExit(p) PROVE ClearsFirst
  BY <1>33 DEF NoticeExit
<1>34. ASSUME NEW p \in Pids, ClearTerminatedSidecar(p) PROVE ClearsFirst
  BY <1>34 DEF ClearTerminatedSidecar, CoreStopped
<1>35. ASSUME LoseService PROVE ClearsFirst
  BY <1>35 DEF LoseService
<1>36. ASSUME RegainService PROVE ClearsFirst
  BY <1>36 DEF RegainService
<1>37. ASSUME AskExit PROVE ClearsFirst
  BY <1>37 DEF AskExit
<1>38. ASSUME CancelExit PROVE ClearsFirst
  BY <1>38 DEF CancelExit
<1>39. ASSUME NEW p \in Pids, Die(p) PROVE ClearsFirst
  BY <1>39 DEF Die
<1>40. CASE UNCHANGED vars
  BY <1>40 DEF vars
<1> HIDE BoundsAssumption, GoalsAssumption DEF TypeOK, Locked, Staged, ClearsFirst,
    coreVars, ownerVars, sidecarVars, proxyVars, opVars, bounds
<1> QED
  BY <1>1, <1>2, <1>3, <1>4, <1>5, <1>6, <1>7, <1>8, <1>9, <1>10, <1>11, <1>12, <1>13,
      <1>14, <1>15, <1>16, <1>17, <1>18, <1>19, <1>20, <1>21, <1>22, <1>23, <1>24, <1>25,
      <1>26, <1>27, <1>28, <1>29, <1>30, <1>31, <1>32, <1>33, <1>34, <1>35, <1>36, <1>37,
      <1>38, <1>39, <1>40 DEF Next, Transition, Watch, HandleExit, World

(* Between transitions only the exit of the child itself ends a Sidecar. *)
LEMMA StepOfExit ==
  ASSUME TypeOK, Locked, [Next]_vars
  PROVE  ExitIsItsOwn
<1> USE BoundsAssumption, GoalsAssumption DEF TypeOK, Locked, ExitIsItsOwn, coreVars,
    ownerVars, sidecarVars, proxyVars, opVars, bounds
<1>1. ASSUME NEW g \in Goals, BeginOp(g) PROVE ExitIsItsOwn
  BY <1>1 DEF BeginOp
<1>2. ASSUME StopGuardOnly PROVE ExitIsItsOwn
  BY <1>2 DEF StopGuardOnly, Stay
<1>3. ASSUME ClearProxy PROVE ExitIsItsOwn
  BY <1>3 DEF ClearProxy, StopFails, Finish, NoteExit, Stay
<1>4. ASSUME NothingToStop PROVE ExitIsItsOwn
  BY <1>4 DEF NothingToStop, AfterStop, Finish, Stay, NoteExit
<1>5. ASSUME ServiceStops PROVE ExitIsItsOwn
  BY <1>5 DEF ServiceStops, CancelMonitors, CoreStopped, AfterStop, Finish, Stay, NoteExit
<1>6. ASSUME ServiceKeeps PROVE ExitIsItsOwn
  BY <1>6 DEF ServiceKeeps, StartMonitor, StopFails, Finish, NoteExit
<1>7. ASSUME ServiceDisowns PROVE ExitIsItsOwn
  BY <1>7 DEF ServiceDisowns, CancelMonitors, GiveUpOwnership, CoreStopped, StopFails,
      Finish, NoteExit
<1>8. ASSUME SidecarStops PROVE ExitIsItsOwn
  BY <1>8 DEF SidecarStops, Kill, CoreStopped, AfterStop, StopFails, Finish, Stay, NoteExit
<1>9. ASSUME NoStart PROVE ExitIsItsOwn
  BY <1>9 DEF NoStart, Stay
<1>10. ASSUME WaitForService PROVE ExitIsItsOwn
  BY <1>10 DEF WaitForService, CoreStopped, Stay
<1>11. ASSUME Decide PROVE ExitIsItsOwn
  BY <1>11 DEF Decide, Stay
<1>12. ASSUME ServiceUnready PROVE ExitIsItsOwn
  BY <1>12 DEF ServiceUnready, AfterFailedService, AfterFailedStart, Finish, Stay
<1>13. ASSUME ServiceRefuses PROVE ExitIsItsOwn
  BY <1>13 DEF ServiceRefuses, StartMonitor, AfterFailedService, AfterFailedStart, Finish,
      Stay
<1>14. ASSUME ServiceStarts PROVE ExitIsItsOwn
  BY <1>14 DEF ServiceStarts, StartMonitor, MarkReady, Stay
<1>15. ASSUME SidecarUnspawned PROVE ExitIsItsOwn
  BY <1>15 DEF SidecarUnspawned, AfterFailedStart, Finish, Stay
<1>16. ASSUME Spawn PROVE ExitIsItsOwn
  BY <1>16 DEF Spawn, MarkReady, Stay
<1>17. ASSUME SidecarUnready PROVE ExitIsItsOwn
  BY <1>17 DEF SidecarUnready, CoreStopped, Kill, AfterFailedStart, Finish, Stay
<1>18. ASSUME SidecarStarts PROVE ExitIsItsOwn
  BY <1>18 DEF SidecarStarts, Stay
<1>19. ASSUME CheckReady PROVE ExitIsItsOwn
  BY <1>19 DEF CheckReady, GoalMet, CoreReady, AfterFailedProxy, Finish, Stay
<1>20. ASSUME ApplyProxy PROVE ExitIsItsOwn
  BY <1>20 DEF ApplyProxy, CoreReady, Expectation
<1>21. ASSUME ProxyFails PROVE ExitIsItsOwn
  BY <1>21 DEF ProxyFails, AfterFailedProxy, Finish, Stay
<1>22. ASSUME RefreshGuard PROVE ExitIsItsOwn
  BY <1>22 DEF RefreshGuard, Stay
<1>23. ASSUME ProxyStands PROVE ExitIsItsOwn
  BY <1>23 DEF ProxyStands, Finish
<1>24. ASSUME RetractProxy PROVE ExitIsItsOwn
  BY <1>24 DEF RetractProxy, AfterFailedProxy, Finish, Stay
<1>25. ASSUME RollBackStart PROVE ExitIsItsOwn
  BY <1>25 DEF RollBackStart, CoreStopped, Finish
<1>26. ASSUME RollBackSidecar PROVE ExitIsItsOwn
  BY <1>26 DEF RollBackSidecar, Kill, CoreStopped, Finish
<1>27. ASSUME NEW m \in Generations, MonitorEnds(m) PROVE ExitIsItsOwn
  BY <1>27 DEF MonitorEnds, End
<1>28. ASSUME NEW m \in Generations, MonitorLoses(m) PROVE ExitIsItsOwn
  BY <1>28 DEF MonitorLoses
<1>29. ASSUME NEW m \in Generations, ClaimRecovery(m) PROVE ExitIsItsOwn
  BY <1>29 DEF ClaimRecovery, End
<1>30. ASSUME NEW m \in Generations, InvalidateReadiness(m) PROVE ExitIsItsOwn
  BY <1>30 DEF InvalidateReadiness
<1>31. ASSUME NEW m \in Generations, Recover(m) PROVE ExitIsItsOwn
  BY <1>31 DEF Recover, End
<1>32. ASSUME NEW m \in Generations, FinishRecovery(m) PROVE ExitIsItsOwn
  BY <1>32 DEF FinishRecovery, GiveUpOwnership, CoreStopped, End
<1>33. ASSUME NEW p \in Pids, NoticeExit(p) PROVE ExitIsItsOwn
  BY <1>33 DEF NoticeExit
<1>34. ASSUME NEW p \in Pids, ClearTerminatedSidecar(p) PROVE ExitIsItsOwn
  BY <1>34 DEF ClearTerminatedSidecar, CoreStopped
<1>35. ASSUME LoseService PROVE ExitIsItsOwn
  BY <1>35 DEF LoseService
<1>36. ASSUME RegainService PROVE ExitIsItsOwn
  BY <1>36 DEF RegainService
<1>37. ASSUME AskExit PROVE ExitIsItsOwn
  BY <1>37 DEF AskExit
<1>38. ASSUME CancelExit PROVE ExitIsItsOwn
  BY <1>38 DEF CancelExit
<1>39. ASSUME NEW p \in Pids, Die(p) PROVE ExitIsItsOwn
  BY <1>39 DEF Die
<1>40. CASE UNCHANGED vars
  BY <1>40 DEF vars
<1> HIDE BoundsAssumption, GoalsAssumption DEF TypeOK, Locked, ExitIsItsOwn, coreVars,
    ownerVars, sidecarVars, proxyVars, opVars, bounds
<1> QED
  BY <1>1, <1>2, <1>3, <1>4, <1>5, <1>6, <1>7, <1>8, <1>9, <1>10, <1>11, <1>12, <1>13,
      <1>14, <1>15, <1>16, <1>17, <1>18, <1>19, <1>20, <1>21, <1>22, <1>23, <1>24, <1>25,
      <1>26, <1>27, <1>28, <1>29, <1>30, <1>31, <1>32, <1>33, <1>34, <1>35, <1>36, <1>37,
      <1>38, <1>39, <1>40 DEF Next, Transition, Watch, HandleExit, World

(* The readiness of a running Core goes with its own exit or with a claim. *)
LEMMA StepOfReadiness ==
  ASSUME TypeOK, Locked, Staged, Held, OwnReadiness, [Next]_vars
  PROVE  LostForCause
<1> USE BoundsAssumption, GoalsAssumption DEF TypeOK, Locked, Staged, Held, OwnReadiness,
    Own, Pids, LostForCause, coreVars, ownerVars, sidecarVars, proxyVars, opVars, bounds
<1>1. ASSUME NEW g \in Goals, BeginOp(g) PROVE LostForCause
  BY <1>1 DEF BeginOp
<1>2. ASSUME StopGuardOnly PROVE LostForCause
  BY <1>2 DEF StopGuardOnly, Stay
<1>3. ASSUME ClearProxy PROVE LostForCause
  BY <1>3 DEF ClearProxy, StopFails, Finish, NoteExit, Stay
<1>4. ASSUME NothingToStop PROVE LostForCause
  BY <1>4 DEF NothingToStop, AfterStop, Finish, Stay, NoteExit
<1>5. ASSUME ServiceStops PROVE LostForCause
  BY <1>5 DEF ServiceStops, CancelMonitors, CoreStopped, AfterStop, Finish, Stay, NoteExit
<1>6. ASSUME ServiceKeeps PROVE LostForCause
  BY <1>6 DEF ServiceKeeps, StartMonitor, StopFails, Finish, NoteExit
<1>7. ASSUME ServiceDisowns PROVE LostForCause
  BY <1>7 DEF ServiceDisowns, CancelMonitors, GiveUpOwnership, CoreStopped, StopFails,
      Finish, NoteExit
<1>8. ASSUME SidecarStops PROVE LostForCause
  BY <1>8 DEF SidecarStops, Kill, CoreStopped, AfterStop, StopFails, Finish, Stay, NoteExit
<1>9. ASSUME NoStart PROVE LostForCause
  BY <1>9 DEF NoStart, Stay
<1>10. ASSUME WaitForService PROVE LostForCause
  BY <1>10 DEF WaitForService, CoreStopped, Stay
<1>11. ASSUME Decide PROVE LostForCause
  BY <1>11 DEF Decide, Stay
<1>12. ASSUME ServiceUnready PROVE LostForCause
  BY <1>12 DEF ServiceUnready, AfterFailedService, AfterFailedStart, Finish, Stay
<1>13. ASSUME ServiceRefuses PROVE LostForCause
  BY <1>13 DEF ServiceRefuses, StartMonitor, AfterFailedService, AfterFailedStart, Finish,
      Stay
<1>14. ASSUME ServiceStarts PROVE LostForCause
  BY <1>14 DEF ServiceStarts, StartMonitor, MarkReady, Stay
<1>15. ASSUME SidecarUnspawned PROVE LostForCause
  BY <1>15 DEF SidecarUnspawned, AfterFailedStart, Finish, Stay
<1>16. ASSUME Spawn PROVE LostForCause
  BY <1>16 DEF Spawn, MarkReady, Stay
<1>17. ASSUME SidecarUnready PROVE LostForCause
  BY <1>17 DEF SidecarUnready, CoreStopped, Kill, AfterFailedStart, Finish, Stay
<1>18. ASSUME SidecarStarts PROVE LostForCause
  BY <1>18 DEF SidecarStarts, Stay
<1>19. ASSUME CheckReady PROVE LostForCause
  BY <1>19 DEF CheckReady, GoalMet, CoreReady, AfterFailedProxy, Finish, Stay
<1>20. ASSUME ApplyProxy PROVE LostForCause
  BY <1>20 DEF ApplyProxy, CoreReady, Expectation
<1>21. ASSUME ProxyFails PROVE LostForCause
  BY <1>21 DEF ProxyFails, AfterFailedProxy, Finish, Stay
<1>22. ASSUME RefreshGuard PROVE LostForCause
  BY <1>22 DEF RefreshGuard, Stay
<1>23. ASSUME ProxyStands PROVE LostForCause
  BY <1>23 DEF ProxyStands, Finish
<1>24. ASSUME RetractProxy PROVE LostForCause
  BY <1>24 DEF RetractProxy, AfterFailedProxy, Finish, Stay
<1>25. ASSUME RollBackStart PROVE LostForCause
  BY <1>25 DEF RollBackStart, CoreStopped, Finish
<1>26. ASSUME RollBackSidecar PROVE LostForCause
  BY <1>26 DEF RollBackSidecar, Kill, CoreStopped, Finish
<1>27. ASSUME NEW m \in Generations, MonitorEnds(m) PROVE LostForCause
  BY <1>27 DEF MonitorEnds, End
<1>28. ASSUME NEW m \in Generations, MonitorLoses(m) PROVE LostForCause
  BY <1>28 DEF MonitorLoses
<1>29. ASSUME NEW m \in Generations, ClaimRecovery(m) PROVE LostForCause
  BY <1>29 DEF ClaimRecovery, End
<1>30. ASSUME NEW m \in Generations, InvalidateReadiness(m) PROVE LostForCause
  BY <1>30 DEF InvalidateReadiness
<1>31. ASSUME NEW m \in Generations, Recover(m) PROVE LostForCause
  BY <1>31 DEF Recover, End
<1>32. ASSUME NEW m \in Generations, FinishRecovery(m) PROVE LostForCause
  BY <1>32 DEF FinishRecovery, GiveUpOwnership, CoreStopped, End
<1>33. ASSUME NEW p \in Pids, NoticeExit(p) PROVE LostForCause
  <2>1. SUFFICES ASSUME mode # "notRunning", mode' = mode, readiness # 0, readiness' = 0
                 PROVE  mode = "sidecar" /\ life[child] = "dead"
    OBVIOUS
  <2>2. readiness = readied[p] /\ life[p] = "dead"
    BY <1>33, <2>1 DEF NoticeExit
  <2>3. mode = "sidecar"
    BY <2>1, <2>2 DEF Modes
  <2>4. p = child
    BY <2>1, <2>2, <2>3
  <2> QED
    BY <2>2, <2>3, <2>4
<1>34. ASSUME NEW p \in Pids, ClearTerminatedSidecar(p) PROVE LostForCause
  BY <1>34 DEF ClearTerminatedSidecar, CoreStopped
<1>35. ASSUME LoseService PROVE LostForCause
  BY <1>35 DEF LoseService
<1>36. ASSUME RegainService PROVE LostForCause
  BY <1>36 DEF RegainService
<1>37. ASSUME AskExit PROVE LostForCause
  BY <1>37 DEF AskExit
<1>38. ASSUME CancelExit PROVE LostForCause
  BY <1>38 DEF CancelExit
<1>39. ASSUME NEW p \in Pids, Die(p) PROVE LostForCause
  BY <1>39 DEF Die
<1>40. CASE UNCHANGED vars
  BY <1>40 DEF vars
<1> HIDE BoundsAssumption, GoalsAssumption DEF TypeOK, Locked, Staged, Held, OwnReadiness,
    Own, Pids, LostForCause, coreVars, ownerVars, sidecarVars, proxyVars, opVars, bounds
<1> QED
  BY <1>1, <1>2, <1>3, <1>4, <1>5, <1>6, <1>7, <1>8, <1>9, <1>10, <1>11, <1>12, <1>13,
      <1>14, <1>15, <1>16, <1>17, <1>18, <1>19, <1>20, <1>21, <1>22, <1>23, <1>24, <1>25,
      <1>26, <1>27, <1>28, <1>29, <1>30, <1>31, <1>32, <1>33, <1>34, <1>35, <1>36, <1>37,
      <1>38, <1>39, <1>40 DEF Next, Transition, Watch, HandleExit, World

-------------------------------------------------------------------------------
IInv ==
  /\ Flags /\ Types
  /\ Locked
  /\ Staged
  /\ Held
  /\ Watched
  /\ Exited
  /\ Claims
  /\ OwnReadiness

(* The two parts of the types together. *)
LEMMA TypesTogether == Flags /\ Types => TypeOK
BY DEF Flags, Types, TypeOK

(* There is no Core at first, nobody holds the lock and nothing is watched. *)
LEMMA InitIInv == Init => IInv
<1> SUFFICES ASSUME Init PROVE IInv
  OBVIOUS
<1> USE BoundsAssumption DEF Init
<1>1. Flags
  BY DEF Flags
<1>2. Types
  <2>1. monitor \in [Generations -> Watches] /\ watched \in [Generations -> Nat]
    BY DEF Watches
  <2>2. life \in [Pids -> Lives] /\ readied \in [Pids -> Nat]
    BY DEF Lives
  <2>3. expected \in [mode : Modes, readiness : Nat, owner : Nat]
    BY DEF NoExpectation, Modes
  <2> QED
    BY <2>1, <2>2, <2>3 DEF Types, Modes, Places
<1>3. Locked /\ Staged
  BY DEF Locked, Staged
<1>4. Held /\ Watched /\ Exited
  BY DEF Held, Watched, Exited
<1>5. Claims /\ OwnReadiness
  BY DEF Claims, OwnReadiness
<1> QED
  BY <1>1, <1>2, <1>3, <1>4, <1>5 DEF IInv

(* The parts together are inductive. *)
LEMMA NextIInv ==
  ASSUME "accept" \notin Goals, IInv, [Next]_vars
  PROVE  IInv'
<1>1. TypeOK
  BY TypesTogether DEF IInv
<1>2. Flags' /\ Types'
  BY NextFlags, NextTypes DEF IInv
<1>3. Locked' /\ Staged'
  BY <1>1, NextLocked, NextStaged DEF IInv
<1>4. Held' /\ Watched'
  BY <1>1, NextHeld, NextWatched DEF IInv
<1>5. Exited' /\ Claims'
  BY <1>1, NextExited, NextClaims DEF IInv
<1>6. OwnReadiness'
  BY <1>1, NextReadiness DEF IInv
<1> QED
  BY <1>2, <1>3, <1>4, <1>5, <1>6 DEF IInv

(* The inductive invariant holds in every behaviour. *)
THEOREM Inductive ==
  ASSUME "accept" \notin Goals
  PROVE  Spec => []IInv
<1>1. IInv /\ [Next]_vars => IInv'
  BY NextIInv
<1> QED
  BY <1>1, InitIInv, PTL DEF Spec

-------------------------------------------------------------------------------
(* Every variable has its type, and no readiness is used that was not given   *)
(* out (mark_core_ready). *)
THEOREM TypesHold ==
  ASSUME "accept" \notin Goals
  PROVE  Spec => []TypeOK
<1>1. IInv => TypeOK
  BY TypesTogether DEF IInv
<1> QED
  BY <1>1, Inductive, PTL

(* Between transitions a Service Core has its session and its watch, a        *)
(* Sidecar its child, and no Core none of these, nor a readiness or a guard   *)
(* (core_stopped, stop_core_by_service, recover_after_owner_loss). *)
THEOREM NothingIsLeftDangling ==
  ASSUME "accept" \notin Goals
  PROVE  Spec => []NothingDangles
<1>1. ASSUME IInv PROVE NothingDangles
  <2>1. lock = "free" => op = "idle"
    BY <1>1 DEF IInv, Locked, Types
  <2>2. ServiceIsWatched
    BY <1>1 DEF IInv, Watched, Guarded, ServiceIsWatched, AtRest
  <2>3. SessionMeansService /\ SidecarMeansChild
    BY <1>1 DEF IInv, Held, SessionMeansService, SidecarMeansChild
  <2>4. NothingOutlivesTheCore
    BY <1>1, <2>1 DEF IInv, Held, NothingOutlivesTheCore, AtRest
  <2> QED
    BY <2>2, <2>3, <2>4 DEF NothingDangles
<1>2. IInv => NothingDangles
  BY <1>1
<1> QED
  BY <1>2, Inductive, PTL

(* Once the exit has stopped the Core nothing starts another one              *)
(* (start_core_inner). *)
THEOREM TheExitIsFinal ==
  ASSUME "accept" \notin Goals
  PROVE  Spec => []NoCoreAfterExit
<1>1. IInv => NoCoreAfterExit
  BY DEF IInv, Exited, NoCoreAfterExit
<1> QED
  BY <1>1, Inductive, PTL

(* A late event about an earlier Core never hits its successor                *)
(* (recover_after_owner_loss, clear_terminated_sidecar,                       *)
(* invalidate_core_readiness_if). *)
THEOREM LateEventsMiss ==
  ASSUME "accept" \notin Goals
  PROVE  Spec => LateEventsSpareTheSuccessor
<1>1. IInv /\ [Next]_vars => [RecoveryIsItsOwn]_vars
  BY DEF IInv, Claims, RecoveryIsItsOwn
<1>2. IInv /\ [Next]_vars => [ExitIsItsOwn]_vars
  BY TypesTogether, StepOfExit DEF IInv
<1>3. IInv /\ [Next]_vars => [LostForCause]_vars
  BY TypesTogether, StepOfReadiness DEF IInv
<1> QED
  BY <1>1, <1>2, <1>3, Inductive, PTL
  DEF Spec, LateEventsSpareTheSuccessor, RecoveryStopsTheCoreItLost, ExitStopsItsOwnSidecar,
      ReadinessIsLostForCause, RecoveryIsItsOwn, ExitIsItsOwn, LostForCause

(* Where the application writes the proxy, a Core is only stopped behind a    *)
(* proxy that has been cleared (run_controlled_stop_transition). *)
THEOREM ClearedBeforeStopped ==
  ASSUME "accept" \notin Goals
  PROVE  Spec => StopsBehindClearedProxy
<1>1. IInv /\ [Next]_vars => [ClearsFirst]_vars
  BY TypesTogether, StepClearsFirst DEF IInv
<1> QED
  BY <1>1, Inductive, PTL DEF Spec, StopsBehindClearedProxy, ClearsFirst
===============================================================================

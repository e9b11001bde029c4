------------------------------- MODULE RunState -------------------------------
(***************************************************************************)
(* The Run State store (src-tauri/src/core/runstate/mod.rs) and the code   *)
(* of service.rs that drives it: the one privileged operation at a time,   *)
(* the readings of Service health that may be overtaken while they run,    *)
(* the unreserved probes, and the session decisions for or against Sidecar.*)
(*                                                                         *)
(* A task is an asynchronous call.  at[t] is the await or lock acquisition *)
(* it has reached; everything between two of them is one action.  What the *)
(* Service, the registry and the privileged helper answer is free.  The    *)
(* announcements that follow a change are modelled in RunStateReads.       *)
(***************************************************************************)
EXTENDS Naturals, RunStateTypes

CONSTANTS
  Tasks,           \* concurrent asynchronous calls
  MaxCalls,        \* bound: calls made in a behaviour
  ReadyAttempts,   \* probes await_ready makes before it gives up (61 in the code)
  DevSidecar,      \* the dev-sidecar build: startup accepts Sidecar unprobed
  OnWindows        \* the Windows build: Sidecar may follow a refused start

ASSUME MaxCallsAssumption == MaxCalls \in Nat
ASSUME ReadyAttemptsAssumption == ReadyAttempts \in Nat \ {0}
ASSUME BuildAssumption == DevSidecar \in BOOLEAN /\ OnWindows \in BOOLEAN

VARIABLES
  service,       \* VersionedService.service
  observation,   \* VersionedService.observation
  opRunning,     \* RunStateStore.operation_running
  booted,        \* startup detection is over: the window and its commands exist
  calls,         \* calls made so far
  overtaken,     \* history: in-flight readings that something newer overtook
  (* of each task: *)
  at,            \* where it waits
  job,           \* what it was called for
  reading,       \* the health or the reply it holds
  reservation,   \* the observation number it reserved
  attempts,      \* probes it may still make
  displaced      \* whether its request displaced a Sidecar allowance

word == <<service, observation, overtaken>>
data == <<job, reading, reservation, attempts, displaced>>
vars == <<word, opRunning, booted, calls, at, data>>

Jobs == {"none", "detection", "probe", "refresh"} \cup Actions

Operations == {"refresh"} \cup Actions

Places ==
  {"idle", "startup", "reserving", "detecting", "committing", "asking", "recording",
   "requesting", "privileged", "uninstalled", "unreachable", "restoring", "releasing"}

InFlight == {t \in Tasks : at[t] \in {"detecting", "committing"}}

InOperation(t) == job[t] \in Operations

Move(t, from, to) ==
  /\ at[t] = from
  /\ at' = [at EXCEPT ![t] = to]

\* The call returns; nothing of it is left.
Return(t) ==
  /\ at' = [at EXCEPT ![t] = "idle"]
  /\ job' = [job EXCEPT ![t] = "none"]
  /\ reading' = [reading EXCEPT ![t] = Nothing]
  /\ reservation' = [reservation EXCEPT ![t] = 0]
  /\ attempts' = [attempts EXCEPT ![t] = 0]
  /\ displaced' = [displaced EXCEPT ![t] = FALSE]

-------------------------------------------------------------------------------
(***************************************************************************)
(* The store's locked sections.                                            *)
(***************************************************************************)

NextObservation == observation + 1

\* Mutant: only a visible change overtakes the readings in flight.
SayVisibleOnly(w) ==
  /\ service' = w
  /\ observation' = IF w = service THEN observation ELSE NextObservation
  /\ overtaken' = overtaken \cup InFlight

\* An assertion about the Service.  An assertion that changes nothing still
\* takes a new observation number, so that it overtakes the older readings.
Say(w) ==
  /\ service' = w
  /\ observation' = NextObservation
  /\ overtaken' = overtaken \cup InFlight

\* Mutant: the allowance comes back whatever the failed operation found out.
RestoreAllowanceBlindly ==
  Say(IF service.sidecarAllowed THEN service ELSE WithSidecar(service))

\* restore_sidecar_allowance: not over a Service that turned out to be ready.
RestoreAllowance ==
  \/ service.sidecarAllowed /\ Say(service)
  \/ ~service.sidecarAllowed /\ service.health = "ready" /\ UNCHANGED word
  \/ ~service.sidecarAllowed /\ service.health # "ready" /\ Say(WithSidecar(service))

-------------------------------------------------------------------------------
(***************************************************************************)
(* observe_current_health: reserve, read, commit.                          *)
(***************************************************************************)

Reserve(t) ==
  /\ Move(t, "reserving", "detecting")
  /\ observation' = NextObservation
  /\ overtaken' = overtaken \cup InFlight
  /\ reservation' = [reservation EXCEPT ![t] = NextObservation]
  /\ UNCHANGED <<service, opRunning, booted, calls, job, reading, attempts, displaced>>

Detect(t) ==
  /\ Move(t, "detecting", "committing")
  /\ \E e \in Evidence, outcome \in Replies \cup {Nothing} :
       reading' = [reading EXCEPT ![t] = DetectedHealth(e, outcome)]
  /\ UNCHANGED <<word, opRunning, booted, calls, job, reservation, attempts, displaced>>

\* The check against the reservation and the write are one locked section.
Commit(t) ==
  /\ at[t] = "committing"
  /\ service' = IF observation = reservation[t] THEN Observed(reading[t]) ELSE service
  /\ overtaken' = overtaken \ {t}
  /\ \/ job[t] = "detection" /\ Return(t) /\ booted' = TRUE
     \/ job[t] \in Actions /\ Move(t, "committing", "restoring") /\ UNCHANGED <<booted, data>>
  /\ UNCHANGED <<observation, opRunning, calls>>

-------------------------------------------------------------------------------
(***************************************************************************)
(* detect_startup_status, awaited before the window is created.            *)
(***************************************************************************)

AcceptSidecarAtStartup(t) ==
  /\ at[t] = "startup"
  /\ DevSidecar
  /\ Say(WithSidecar(service))
  /\ Return(t)
  /\ booted' = TRUE
  /\ UNCHANGED <<opRunning, calls>>

DetectAtStartup(t) ==
  /\ Move(t, "startup", "reserving")
  /\ ~DevSidecar
  /\ UNCHANGED <<word, opRunning, booted, calls, data>>

-------------------------------------------------------------------------------
(***************************************************************************)
(* probe and await_ready: an unreserved question, asked up to attempts[t]  *)
(* times, whose first readable reply is recorded.  Outside an operation it *)
(* may be abandoned by the timeout around it while it waits.               *)
(***************************************************************************)

StartProbe(t, n) ==
  /\ booted /\ calls < MaxCalls
  /\ Move(t, "idle", "asking")
  /\ job' = [job EXCEPT ![t] = "probe"]
  /\ attempts' = [attempts EXCEPT ![t] = n]
  /\ calls' = calls + 1
  /\ UNCHANGED <<word, opRunning, booted, reading, reservation, displaced>>

Hear(t) ==
  /\ Move(t, "asking", "recording")
  /\ \E reply \in Replies : reading' = [reading EXCEPT ![t] = reply]
  /\ UNCHANGED <<word, opRunning, booted, calls, job, reservation, attempts, displaced>>

\* Mutant: the attempt that was the last one is retried.
AskAgainForever(t) ==
  /\ at[t] = "asking"
  /\ attempts' = [attempts EXCEPT ![t] = @ - 1]
  /\ UNCHANGED <<word, opRunning, booted, calls, at, job, reading, reservation, displaced>>

AskAgain(t) ==
  /\ at[t] = "asking"
  /\ attempts[t] > 1
  /\ attempts' = [attempts EXCEPT ![t] = @ - 1]
  /\ UNCHANGED <<word, opRunning, booted, calls, at, job, reading, reservation, displaced>>

\* The last attempt failed too: silence alone says nothing about the Service.
GiveUp(t) ==
  /\ at[t] = "asking"
  /\ attempts[t] = 1
  /\ \/ job[t] = "probe" /\ Return(t)
     \/ job[t] = "refresh" /\ Move(t, "asking", "releasing") /\ UNCHANGED data
     \/ job[t] \in Actions /\ Move(t, "asking", "unreachable") /\ UNCHANGED data
  /\ UNCHANGED <<word, opRunning, booted, calls>>

\* record_reply, and where each caller goes with a readiness or a rejection.
Record(t) ==
  /\ at[t] = "recording"
  /\ Say(Observed(HealthOfReply(reading[t])))
  /\ \/ job[t] = "probe" /\ Return(t)
     \/ /\ InOperation(t)
        /\ Move(t, "recording", IF job[t] \in Actions /\ reading[t] # "ready"
                                THEN "restoring" ELSE "releasing")
        /\ UNCHANGED data
  /\ UNCHANGED <<opRunning, booted, calls>>

AbandonProbe(t) ==
  /\ at[t] = "asking"
  /\ job[t] = "probe"
  /\ Return(t)
  /\ UNCHANGED <<word, opRunning, booted, calls>>

-------------------------------------------------------------------------------
(***************************************************************************)
(* A privileged operation: handle_service_status for an action, or         *)
(* refresh.  run_operation_and_then holds the slot around it.              *)
(***************************************************************************)

BeginOperation(t, j) ==
  /\ booted /\ calls < MaxCalls
  /\ Move(t, "idle", IF j = "refresh" THEN "asking" ELSE "requesting")
  /\ ~opRunning
  /\ opRunning' = TRUE
  /\ Say(service)
  /\ job' = [job EXCEPT ![t] = j]
  /\ attempts' = [attempts EXCEPT ![t] = 1]
  /\ calls' = calls + 1
  /\ UNCHANGED <<booted, reading, reservation, displaced>>

RequestAction(t) ==
  /\ Move(t, "requesting", "privileged")
  /\ Say(Requested(service, job[t]))
  /\ displaced' = [displaced EXCEPT ![t] = service.sidecarAllowed]
  /\ UNCHANGED <<opRunning, booted, calls, job, reading, reservation, attempts>>

\* perform: the helper has run.
PrivilegedDone(t) ==
  /\ Move(t, "privileged", IF job[t] = "uninstall" THEN "uninstalled" ELSE "asking")
  /\ attempts' = [attempts EXCEPT ![t] = ReadyAttempts]
  /\ UNCHANGED <<word, opRunning, booted, calls, job, reading, reservation, displaced>>

\* Mutant: a failed helper is reported without reading the Service again.
PrivilegedFailedUnread(t) ==
  /\ Move(t, "privileged", "restoring")
  /\ UNCHANGED <<word, opRunning, booted, calls, data>>

PrivilegedFailed(t) ==
  /\ Move(t, "privileged", "reserving")
  /\ UNCHANGED <<word, opRunning, booted, calls, data>>

RecordUninstalled(t) ==
  /\ Move(t, "uninstalled", "releasing")
  /\ Say(Observed("notInstalled"))
  /\ UNCHANGED <<opRunning, booted, calls, data>>

\* wait_for_service_ipc gave up: sustained silence is an observation.
RecordUnreachable(t) ==
  /\ Move(t, "unreachable", "restoring")
  /\ Say(Observed("unavailable"))
  /\ UNCHANGED <<opRunning, booted, calls, data>>

\* run_action_restoring_sidecar, after a failure.
RestoreDisplaced(t) ==
  /\ Move(t, "restoring", "releasing")
  /\ \/ displaced[t] /\ RestoreAllowance
     \/ ~displaced[t] /\ UNCHANGED word
  /\ UNCHANGED <<opRunning, booted, calls, data>>

\* Mutant: the guard is forgotten.
ReleaseNothing(t) ==
  /\ at[t] = "releasing"
  /\ Return(t)
  /\ UNCHANGED <<word, opRunning, booted, calls>>

\* OperationGuard::drop.
Release(t) ==
  /\ at[t] = "releasing"
  /\ opRunning' = FALSE
  /\ Return(t)
  /\ UNCHANGED <<word, booted, calls>>

-------------------------------------------------------------------------------
(***************************************************************************)
(* Calls that are one locked section each.                                 *)
(***************************************************************************)

Call ==
  /\ booted /\ calls < MaxCalls
  /\ calls' = calls + 1
  /\ UNCHANGED <<opRunning, booted, at, data>>

\* Mutant: the decision does not look at the operation slot.
AllowSidecarAnyTime ==
  /\ Call
  /\ SidecarPermitted(service)
  /\ Say(WithSidecar(service))

AllowSidecarForSession ==
  /\ Call
  /\ ~opRunning
  /\ SidecarPermitted(service)
  /\ Say(WithSidecar(service))

AllowSidecarAfterRefusal ==
  /\ Call
  /\ OnWindows
  /\ ~opRunning
  /\ service.pending = NoAction
  /\ Say(WithSidecar(Observed("unavailable")))

RequireInstallForSession ==
  /\ Call
  /\ ~opRunning
  /\ \/ AbsenceUndecided(service) /\ Say(Requested(service, "install"))
     \/ service.pending = "install" /\ Say(service)

WithdrawAllowance ==
  /\ Call
  /\ service.sidecarAllowed
  /\ Say(WithoutSidecar(service))

\* A start the Service refused and an owner it lost are both recorded so.
ObserveUnavailable ==
  /\ Call
  /\ Say(Observed("unavailable"))

-------------------------------------------------------------------------------
Init ==
  /\ service = DefaultService
  /\ observation = 0
  /\ opRunning = FALSE
  /\ booted = FALSE
  /\ calls = 0
  /\ overtaken = {}
  /\ \E boot \in Tasks :
       /\ at = [t \in Tasks |-> IF t = boot THEN "startup" ELSE "idle"]
       /\ job = [t \in Tasks |-> IF t = boot THEN "detection" ELSE "none"]
  /\ reading = [t \in Tasks |-> Nothing]
  /\ reservation = [t \in Tasks |-> 0]
  /\ attempts = [t \in Tasks |-> 0]
  /\ displaced = [t \in Tasks |-> FALSE]

\* What a task does once started; the runtime keeps running it.
Step(t) ==
  \/ AcceptSidecarAtStartup(t) \/ DetectAtStartup(t)
  \/ Reserve(t) \/ Detect(t) \/ Commit(t)
  \/ Hear(t) \/ AskAgain(t) \/ GiveUp(t) \/ Record(t)
  \/ RequestAction(t) \/ PrivilegedDone(t) \/ PrivilegedFailed(t)
  \/ RecordUninstalled(t) \/ RecordUnreachable(t) \/ RestoreDisplaced(t)
  \/ Release(t)

Start(t) ==
  \/ \E n \in {1, ReadyAttempts} : StartProbe(t, n)
  \/ \E j \in Operations : BeginOperation(t, j)

Decision ==
  \/ AllowSidecarForSession \/ AllowSidecarAfterRefusal
  \/ RequireInstallForSession \/ WithdrawAllowance \/ ObserveUnavailable

Next ==
  \/ \E t \in Tasks : Step(t) \/ Start(t) \/ AbandonProbe(t)
  \/ Decision

Spec == Init /\ [][Next]_vars

FairSpec == Spec /\ \A t \in Tasks : WF_vars(Step(t))

-------------------------------------------------------------------------------
(***************************************************************************)
(* Properties.                                                             *)
(***************************************************************************)

\* Every variable has its type, and only a reading in flight can be overtaken.
TypeOK ==
  /\ service \in StoredServices
  /\ observation \in Nat
  /\ opRunning \in BOOLEAN
  /\ booted \in BOOLEAN
  /\ calls \in 0..MaxCalls
  /\ overtaken \subseteq InFlight
  /\ at \in [Tasks -> Places]
  /\ job \in [Tasks -> Jobs]
  /\ reading \in [Tasks -> {Nothing} \cup Healths \cup Replies]
  /\ reservation \in [Tasks -> Nat]
  /\ attempts \in [Tasks -> Nat]
  /\ displaced \in [Tasks -> BOOLEAN]

\* health.rs:137 - a requested action and an accepted Sidecar exclude each
\* other, whichever of the store's sections ran, and in whatever order.
PendingExcludesSidecar ==
  service.pending = NoAction \/ ~service.sidecarAllowed

\* Between operations the only request the store can hold is the install that
\* require_install_for_session asked for, of a Service known to be absent: no
\* operation leaves its own request behind, however it fails and whatever else
\* was observed meanwhile (perform, run_action_restoring_sidecar).
IdleRequestIsInstall ==
  ~opRunning /\ service.pending # NoAction =>
    service.pending = "install" /\ service.health = "notInstalled"

\* A Sidecar accepted for the session never shadows a Service recorded as
\* ready: neither the restoration of a displaced allowance nor the answer to an
\* install request can be overtaken by a readiness recorded meanwhile.
AllowanceNeverShadowsReady ==
  service.sidecarAllowed => service.health # "ready"

\* What the store says makes sense: no request stands beside an accepted
\* Sidecar, none is stranded by its operation, and nothing shadows a Service
\* that is ready, whatever was recorded in between.
StoreMakesSense ==
  /\ PendingExcludesSidecar
  /\ IdleRequestIsInstall
  /\ AllowanceNeverShadowsReady

\* While a privileged operation is in flight nobody decides for Sidecar, except
\* the operation itself that puts back the allowance it displaced.
NoDecisionDuringOperation ==
  [][opRunning /\ ~service.sidecarAllowed /\ service'.sidecarAllowed =>
       \E t \in Tasks : InOperation(t) /\ displaced[t]]_vars

\* The store keeps the latest word: a reading that something newer overtook
\* while it was doing I/O leaves no trace, and one that nothing overtook is
\* never lost (observe_current_health and the observation numbers).
Latest == INSTANCE LatestWord WITH
            word <- service, reading <- InFlight, fresh <- InFlight \ overtaken

KeepsLatestWord == Latest!Spec

\* The operation slot is always given back (run_operation_and_then).
OperationsSettle == opRunning ~> ~opRunning

\* An action asked of the helper does not stay pending for ever: an answer, a
\* silence or a failed helper each retire it.
RequestsRetire ==
  service.pending \in Actions \ {"install"} ~> service.pending = NoAction
==============================================================================

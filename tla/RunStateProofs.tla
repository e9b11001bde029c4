---------------------------- MODULE RunStateProofs ----------------------------
(***************************************************************************)
(* Theorems about RunState, for every set of tasks, every bound and every  *)
(* build.  The invariants are layered: types, then which call stands       *)
(* where, then who holds the operation slot, then which readings are       *)
(* fresh, and last what the stored service may say.                        *)
(***************************************************************************)
EXTENDS RunState, TLAPS

\* Where each kind of call can stand, and that an idle task holds nothing.
PlacesInv ==
  \A t \in Tasks :
    /\ at[t] = "idle" <=> job[t] = "none"
    /\ at[t] = "startup" => job[t] = "detection"
    /\ at[t] \in {"reserving", "detecting", "committing"} => job[t] \in {"detection"} \cup Actions
    /\ at[t] \in {"asking", "recording"} => job[t] \in {"probe"} \cup Operations
    /\ at[t] \in {"requesting", "privileged", "uninstalled", "unreachable", "restoring"} =>
         job[t] \in Actions
    /\ at[t] = "releasing" => job[t] \in Operations
    /\ at[t] = "recording" => reading[t] \in Replies
    /\ at[t] = "committing" => reading[t] \in Healths

\* One holder of the slot, and none before startup detection is over.
SlotInv ==
  /\ \A t \in Tasks : InOperation(t) => opRunning
  /\ \A t, u \in Tasks : InOperation(t) /\ InOperation(u) => t = u
  /\ opRunning => \E t \in Tasks : InOperation(t)
  /\ \A t, u \in Tasks : job[t] = "detection" /\ job[u] = "detection" => t = u
  /\ \A t \in Tasks : job[t] = "detection" => ~booted
  /\ \A t \in Tasks : ~booted => job[t] \in {"none", "detection"}

\* A reading is fresh exactly while its reservation is the newest number.
FreshInv ==
  \A t \in InFlight :
    IF t \in overtaken THEN reservation[t] < observation ELSE reservation[t] = observation

\* An operation that will still retire the request it recorded.
Retiring(t) ==
  /\ job[t] \in Actions
  /\ at[t] \in {"privileged", "uninstalled", "asking", "recording", "reserving",
                "detecting", "committing", "unreachable"}
  /\ t \notin overtaken

\* Any request but the install of an absent Service is somebody's to retire.
RequestInv ==
  service.pending # NoAction =>
    \/ service.pending = "install" /\ service.health = "notInstalled"
    \/ \E t \in Tasks : Retiring(t)

\* Nothing is said of the Service before startup has.
StartupInv ==
  \A t \in Tasks : at[t] = "startup" => service = DefaultService

WordInv == PendingExcludesSidecar /\ RequestInv /\ AllowanceNeverShadowsReady /\ StartupInv

IInv == TypeOK /\ PlacesInv /\ SlotInv /\ FreshInv /\ WordInv

USE DEF Healths, Actions, NoAction, Nothing, Replies, Jobs, Operations, Places

-------------------------------------------------------------------------------
LEMMA DetectedIsHealth ==
  ASSUME NEW e \in Evidence, NEW outcome \in Replies \cup {Nothing}
  PROVE  DetectedHealth(e, outcome) \in Healths
BY DEF Evidence, DetectedHealth, HealthOfReply

LEMMA ReplyIsHealth ==
  ASSUME NEW reply \in Replies
  PROVE  HealthOfReply(reply) \in Healths
BY DEF HealthOfReply

\* Each mutator of StoredService yields a StoredService.
LEMMA MutatorTypes ==
  ASSUME NEW s \in StoredServices
  PROVE  /\ \A h \in Healths : Observed(h) \in StoredServices
         /\ \A a \in Actions : Requested(s, a) \in StoredServices
         /\ WithSidecar(s) \in StoredServices
         /\ WithoutSidecar(s) \in StoredServices
BY DEF StoredServices, Observed, Requested, WithSidecar, WithoutSidecar

LEMMA InitIInv == Init => IInv
<1> SUFFICES ASSUME Init PROVE IInv
  OBVIOUS
<1>1. PICK boot \in Tasks :
        /\ at = [t \in Tasks |-> IF t = boot THEN "startup" ELSE "idle"]
        /\ job = [t \in Tasks |-> IF t = boot THEN "detection" ELSE "none"]
  BY DEF Init
<1>2. TypeOK
  <2>1. at \in [Tasks -> Places] /\ job \in [Tasks -> Jobs]
    BY <1>1
  <2>2. calls \in 0..MaxCalls
    BY MaxCallsAssumption DEF Init
  <2>3. QED
    BY <2>1, <2>2 DEF Init, TypeOK, StoredServices, DefaultService
<1>3. PlacesInv
  BY <1>1 DEF PlacesInv
<1>4. SlotInv
  BY <1>1 DEF SlotInv, Init, InOperation
<1>5. FreshInv
  BY <1>1 DEF FreshInv, InFlight
<1>6. WordInv
  BY DEF Init, DefaultService, WordInv, PendingExcludesSidecar, RequestInv, StartupInv,
    AllowanceNeverShadowsReady
<1>7. QED
  BY <1>2, <1>3, <1>4, <1>5, <1>6 DEF IInv

-------------------------------------------------------------------------------
LEMMA StepTypeOK ==
  ASSUME TypeOK, PlacesInv, NEW t \in Tasks, Step(t) \/ Start(t) \/ AbandonProbe(t)
  PROVE  TypeOK'
<1> USE DEF TypeOK, StoredServices, InFlight, Move
<1>1. CASE AcceptSidecarAtStartup(t)
  BY <1>1 DEF AcceptSidecarAtStartup, Say, NextObservation, WithSidecar, Return
<1>2. CASE DetectAtStartup(t)
  BY <1>2 DEF DetectAtStartup, word, data
<1>3. CASE Reserve(t)
  BY <1>3 DEF Reserve, NextObservation
<1>4. CASE Detect(t)
  BY <1>4, DetectedIsHealth DEF Detect, word
<1>5. CASE Commit(t)
  <2>1. service' \in StoredServices
    BY <1>5 DEF Commit, Observed, PlacesInv
  <2>2. CASE job[t] = "detection"
    <3>1. Return(t)
      BY <1>5, <2>2 DEF Commit
    <3>2. overtaken' \subseteq InFlight' /\ at' \in [Tasks -> Places]
      BY <1>5, <3>1 DEF Commit, Return
    <3>3. /\ job' \in [Tasks -> Jobs]
          /\ reading' \in [Tasks -> {Nothing} \cup Healths \cup Replies]
          /\ reservation' \in [Tasks -> Nat]
          /\ attempts' \in [Tasks -> Nat]
          /\ displaced' \in [Tasks -> BOOLEAN]
      BY <3>1 DEF Return
    <3>4. QED
      BY <1>5, <2>1, <2>2, <3>1, <3>2, <3>3 DEF Commit
  <2>3. CASE job[t] \in Actions
    BY <1>5, <2>1, <2>3 DEF Commit, data
  <2>4. QED
    BY <1>5, <2>2, <2>3 DEF Commit
<1>6. CASE Hear(t)
  BY <1>6 DEF Hear, word
<1>7. CASE AskAgain(t)
  BY <1>7 DEF AskAgain, word
<1>8. CASE GiveUp(t)
  <2>1. CASE Return(t)
    BY <1>8, <2>1 DEF GiveUp, Return, word
  <2>2. CASE UNCHANGED data
    BY <1>8, <2>2 DEF GiveUp, Return, word, data
  <2>3. QED
    BY <1>8, <2>1, <2>2 DEF GiveUp
<1>9. CASE Record(t)
  <2>1. service' \in StoredServices /\ observation' \in Nat /\ overtaken' = overtaken \cup InFlight
    BY <1>9, ReplyIsHealth DEF Record, Say, NextObservation, Observed, PlacesInv
  <2>2. CASE Return(t)
    BY <1>9, <2>1, <2>2 DEF Record, Return
  <2>3. CASE UNCHANGED data
    BY <1>9, <2>1, <2>3 DEF Record, Return, data
  <2>4. QED
    BY <1>9, <2>2, <2>3 DEF Record
<1>10. CASE RequestAction(t)
  BY <1>10 DEF RequestAction, Say, NextObservation, Requested, PlacesInv
<1>11. CASE PrivilegedDone(t)
  BY <1>11, ReadyAttemptsAssumption DEF PrivilegedDone, word
<1>12. CASE PrivilegedFailed(t)
  BY <1>12 DEF PrivilegedFailed, word, data
<1>13. CASE RecordUninstalled(t)
  BY <1>13 DEF RecordUninstalled, Say, NextObservation, Observed, data
<1>14. CASE RecordUnreachable(t)
  BY <1>14 DEF RecordUnreachable, Say, NextObservation, Observed, data
<1>15. CASE RestoreDisplaced(t)
  <2>1. service' \in StoredServices /\ observation' \in Nat /\ overtaken' \subseteq InFlight
    <3>1. CASE UNCHANGED word
      BY <3>1 DEF word
    <3>2. CASE Say(service) \/ Say(WithSidecar(service))
      BY <3>2, MutatorTypes DEF Say, NextObservation
    <3>3. QED
      BY <1>15, <3>1, <3>2 DEF RestoreDisplaced, RestoreAllowance
  <2>2. QED
    BY <1>15, <2>1 DEF RestoreDisplaced, data
<1>16. CASE Release(t)
  BY <1>16 DEF Release, Return, word
<1>17. ASSUME NEW n \in {1, ReadyAttempts}, StartProbe(t, n) PROVE TypeOK'
  BY <1>17, ReadyAttemptsAssumption, MaxCallsAssumption DEF StartProbe, word
<1>18. ASSUME NEW j \in Operations, BeginOperation(t, j) PROVE TypeOK'
  BY <1>18, MaxCallsAssumption DEF BeginOperation, Say, NextObservation
<1>19. CASE AbandonProbe(t)
  BY <1>19 DEF AbandonProbe, Return, word
<1>20. QED
  BY <1>1, <1>2, <1>3, <1>4, <1>5, <1>6, <1>7, <1>8, <1>9, <1>10, <1>11, <1>12, <1>13,
    <1>14, <1>15, <1>16, <1>17, <1>18, <1>19 DEF Step, Start

LEMMA DecisionTypeOK ==
  ASSUME TypeOK, Decision
  PROVE  TypeOK'
<1> USE MaxCallsAssumption DEF TypeOK, StoredServices, InFlight, Call, Say, NextObservation, data
<1>1. CASE AllowSidecarForSession
  BY <1>1 DEF AllowSidecarForSession, WithSidecar
<1>2. CASE AllowSidecarAfterRefusal
  BY <1>2 DEF AllowSidecarAfterRefusal, WithSidecar, Observed
<1>3. CASE RequireInstallForSession
  <2>1. service' \in StoredServices
    BY <1>3, MutatorTypes DEF RequireInstallForSession
  <2>2. QED
    BY <1>3, <2>1 DEF RequireInstallForSession
<1>4. CASE WithdrawAllowance
  BY <1>4 DEF WithdrawAllowance, WithoutSidecar
<1>5. CASE ObserveUnavailable
  BY <1>5 DEF ObserveUnavailable, Observed
<1>6. QED
  BY <1>1, <1>2, <1>3, <1>4, <1>5 DEF Decision
-------------------------------------------------------------------------------
LEMMA StepPlaces ==
  ASSUME TypeOK, PlacesInv, NEW t \in Tasks, Step(t) \/ Start(t) \/ AbandonProbe(t)
  PROVE  PlacesInv'
<1> USE DEF TypeOK, PlacesInv
<1>1. CASE AcceptSidecarAtStartup(t)
  BY <1>1 DEF AcceptSidecarAtStartup, Say, Return
<1>2. CASE DetectAtStartup(t)
  BY <1>2 DEF DetectAtStartup, Move, data
<1>3. CASE Reserve(t)
  BY <1>3 DEF Reserve, Move
<1>4. CASE Detect(t)
  BY <1>4, DetectedIsHealth DEF Detect, Move
<1>5. CASE Commit(t)
  BY <1>5 DEF Commit, Move, Return, data
<1>6. CASE Hear(t)
  BY <1>6 DEF Hear, Move
<1>7. CASE AskAgain(t)
  BY <1>7 DEF AskAgain
<1>8. CASE GiveUp(t)
  BY <1>8 DEF GiveUp, Move, Return, data
<1>9. CASE Record(t)
  BY <1>9 DEF Record, InOperation, Move, Return, data
<1>10. CASE RequestAction(t)
  BY <1>10 DEF RequestAction, Move
<1>11. CASE PrivilegedDone(t)
  BY <1>11 DEF PrivilegedDone, Move
<1>12. CASE PrivilegedFailed(t)
  BY <1>12 DEF PrivilegedFailed, Move, data
<1>13. CASE RecordUninstalled(t)
  BY <1>13 DEF RecordUninstalled, Move, data
<1>14. CASE RecordUnreachable(t)
  BY <1>14 DEF RecordUnreachable, Move, data
<1>15. CASE RestoreDisplaced(t)
  BY <1>15 DEF RestoreDisplaced, Move, data
<1>16. CASE Release(t)
  BY <1>16 DEF Release, Return
<1>17. ASSUME NEW n \in {1, ReadyAttempts}, StartProbe(t, n) PROVE PlacesInv'
  BY <1>17 DEF StartProbe, Move
<1>18. ASSUME NEW j \in Operations, BeginOperation(t, j) PROVE PlacesInv'
  BY <1>18 DEF BeginOperation, Move
<1>19. CASE AbandonProbe(t)
  BY <1>19 DEF AbandonProbe, Return
<1>20. QED
  BY <1>1, <1>2, <1>3, <1>4, <1>5, <1>6, <1>7, <1>8, <1>9, <1>10, <1>11, <1>12, <1>13, <1>14, <1>15, <1>16, <1>17, <1>18, <1>19 DEF Step, Start

\* A step neither takes nor gives back the slot, unless it begins or releases.
LEMMA StepSlot ==
  ASSUME TypeOK, PlacesInv, SlotInv, NEW t \in Tasks, Step(t) \/ Start(t) \/ AbandonProbe(t)
  PROVE  SlotInv'
<1> USE DEF TypeOK, SlotInv, InOperation
<1>1. CASE UNCHANGED <<job, opRunning, booted>>
  BY <1>1
<1>2. CASE Return(t) /\ job[t] = "detection" /\ booted' = TRUE /\ UNCHANGED opRunning
  BY <1>2 DEF Return
<1>3. CASE Return(t) /\ job[t] = "probe" /\ UNCHANGED <<opRunning, booted>>
  BY <1>3 DEF Return
<1>4. CASE Release(t)
  BY <1>4 DEF Release, Return, PlacesInv
<1>5. ASSUME NEW n \in {1, ReadyAttempts}, StartProbe(t, n) PROVE SlotInv'
  BY <1>5 DEF StartProbe, Move, PlacesInv
<1>6. ASSUME NEW j \in Operations, BeginOperation(t, j) PROVE SlotInv'
  BY <1>6 DEF BeginOperation, Move, PlacesInv
<1>7. CASE AcceptSidecarAtStartup(t) \/ Commit(t)
  BY <1>7, <1>1, <1>2 DEF AcceptSidecarAtStartup, Commit, data, PlacesInv
<1>8. CASE GiveUp(t) \/ Record(t) \/ AbandonProbe(t)
  BY <1>8, <1>1, <1>3 DEF GiveUp, Record, AbandonProbe, data
<1>9. CASE DetectAtStartup(t) \/ Reserve(t) \/ Detect(t) \/ Hear(t) \/ AskAgain(t)
  BY <1>9, <1>1 DEF DetectAtStartup, Reserve, Detect, Hear, AskAgain, data
<1>10. CASE \/ RequestAction(t) \/ PrivilegedDone(t) \/ PrivilegedFailed(t)
            \/ RecordUninstalled(t) \/ RecordUnreachable(t) \/ RestoreDisplaced(t)
  BY <1>10, <1>1 DEF RequestAction, PrivilegedDone, PrivilegedFailed, RecordUninstalled,
    RecordUnreachable, RestoreDisplaced, data
<1>11. QED
  BY <1>4, <1>5, <1>6, <1>7, <1>8, <1>9, <1>10 DEF Step, Start
-------------------------------------------------------------------------------
\* Whatever is said overtakes every reading in flight.
LEMMA SayOvertakes ==
  ASSUME TypeOK, FreshInv, NEW w, Say(w), InFlight' \subseteq InFlight, UNCHANGED reservation
  PROVE  FreshInv'
BY DEF TypeOK, FreshInv, Say, NextObservation, InFlight

\* A step that says nothing and keeps the readings keeps their freshness.
LEMMA KeepsFreshness ==
  ASSUME TypeOK, FreshInv, UNCHANGED word, InFlight' \subseteq InFlight, 
         \A u \in InFlight' : reservation'[u] = reservation[u]
  PROVE  FreshInv'
BY DEF TypeOK, FreshInv, word

LEMMA StepFresh ==
  ASSUME TypeOK, PlacesInv, FreshInv, NEW t \in Tasks, Step(t) \/ Start(t) \/ AbandonProbe(t)
  PROVE  FreshInv'
<1> USE DEF TypeOK
<1>1. CASE AcceptSidecarAtStartup(t) \/ (Record(t) /\ Return(t))
  <2>1. PICK w : Say(w)
    BY <1>1 DEF AcceptSidecarAtStartup, Record
  <2>2. /\ InFlight' \subseteq InFlight
        /\ \A u \in InFlight' : reservation'[u] = reservation[u]
    BY <1>1 DEF AcceptSidecarAtStartup, Record, Return, InFlight
  <2>3. QED
    BY <2>1, <2>2 DEF FreshInv, Say, NextObservation, InFlight
<1>2. CASE Reserve(t)
  BY <1>2 DEF Reserve, Move, FreshInv, InFlight, NextObservation
<1>3. CASE Detect(t)
  BY <1>3 DEF Detect, Move, FreshInv, InFlight, word
<1>4. CASE Commit(t)
  <2>1. /\ InFlight' = InFlight \ {t}
        /\ \A u \in InFlight' : reservation'[u] = reservation[u]
    <3>1. CASE Return(t)
      BY <1>4, <3>1 DEF Commit, Return, InFlight
    <3>2. CASE Move(t, "committing", "restoring") /\ UNCHANGED data
      BY <1>4, <3>2 DEF Move, InFlight, data
    <3>3. QED
      BY <1>4, <3>1, <3>2 DEF Commit
  <2>2. observation' = observation /\ overtaken' = overtaken \ {t}
    BY <1>4 DEF Commit
  <2>3. QED
    BY <2>1, <2>2 DEF FreshInv
<1>5. CASE \/ DetectAtStartup(t) \/ Hear(t) \/ AskAgain(t) \/ PrivilegedDone(t) \/ PrivilegedFailed(t)
  BY <1>5, KeepsFreshness DEF DetectAtStartup, Hear, AskAgain, PrivilegedDone, PrivilegedFailed,
    Move, InFlight, data
<1>6. CASE GiveUp(t) \/ Release(t) \/ AbandonProbe(t)
  <2>1. UNCHANGED word /\ InFlight' \subseteq InFlight
    BY <1>6 DEF GiveUp, Release, AbandonProbe, Return, Move, InFlight
  <2>2. \A u \in InFlight' : reservation'[u] = reservation[u]
    BY <1>6 DEF GiveUp, Release, AbandonProbe, Return, Move, InFlight, data
  <2>3. QED
    BY <2>1, <2>2, KeepsFreshness
<1>7. CASE Record(t) /\ UNCHANGED data
  BY <1>7, SayOvertakes DEF Record, Return, Move, InFlight, data
<1>8. CASE RequestAction(t) \/ RecordUninstalled(t) \/ RecordUnreachable(t)
  BY <1>8, SayOvertakes DEF RequestAction, RecordUninstalled, RecordUnreachable, Move, InFlight, data
<1>9. CASE RestoreDisplaced(t)
  <2>1. InFlight' \subseteq InFlight /\ UNCHANGED reservation
    BY <1>9 DEF RestoreDisplaced, Move, InFlight, data
  <2>2. CASE UNCHANGED word
    BY <2>1, <2>2, KeepsFreshness
  <2>3. CASE Say(service) \/ Say(WithSidecar(service))
    BY <2>1, <2>3, SayOvertakes
  <2>4. QED
    BY <1>9, <2>2, <2>3 DEF RestoreDisplaced, RestoreAllowance
<1>10. ASSUME NEW n \in {1, ReadyAttempts}, StartProbe(t, n) PROVE FreshInv'
  BY <1>10, KeepsFreshness DEF StartProbe, Move, InFlight
<1>11. ASSUME NEW j \in Operations, BeginOperation(t, j) PROVE FreshInv'
  BY <1>11, SayOvertakes DEF BeginOperation, Move, InFlight
<1>12. CASE Record(t)
  BY <1>1, <1>7, <1>12 DEF Record
<1>13. CASE Step(t)
  BY <1>13, <1>1, <1>2, <1>3, <1>4, <1>5, <1>6, <1>8, <1>9, <1>12 DEF Step
<1>14. CASE Start(t)
  BY <1>14, <1>10, <1>11 DEF Start
<1>15. QED
  BY <1>6, <1>13, <1>14

LEMMA DecisionInv ==
  ASSUME TypeOK, PlacesInv, SlotInv, FreshInv, Decision
  PROVE  PlacesInv' /\ SlotInv' /\ FreshInv'
<1>1. UNCHANGED <<at, data, opRunning, booted>>
  BY DEF Decision, AllowSidecarForSession, AllowSidecarAfterRefusal, RequireInstallForSession,
    WithdrawAllowance, ObserveUnavailable, Call
<1>2. PICK w : Say(w)
  BY DEF Decision, AllowSidecarForSession, AllowSidecarAfterRefusal, RequireInstallForSession,
    WithdrawAllowance, ObserveUnavailable
<1>3. PlacesInv' /\ SlotInv'
  BY <1>1 DEF PlacesInv, SlotInv, InOperation, data
<1>4. FreshInv'
  BY <1>1, <1>2, SayOvertakes DEF InFlight, data
<1>5. QED
  BY <1>3, <1>4
-------------------------------------------------------------------------------
\* A step that keeps the stored service keeps what is known of it, as long as
\* whoever was to retire a request still is.
LEMMA KeepsWord ==
  ASSUME WordInv, UNCHANGED service, \A u \in Tasks : Retiring(u) => Retiring(u)',
         \A u \in Tasks : at'[u] = "startup" => at[u] = "startup"
  PROVE  WordInv'
BY DEF WordInv, PendingExcludesSidecar, RequestInv, AllowanceNeverShadowsReady, StartupInv

\* An observation retires every request and every allowance.
LEMMA ObservationWord ==
  ASSUME NEW h, service' = Observed(h), \A u \in Tasks : at'[u] # "startup"
  PROVE  WordInv'
BY DEF Observed, WordInv, PendingExcludesSidecar, RequestInv, AllowanceNeverShadowsReady, StartupInv

\* Once startup has spoken, or when it alone stands, nobody is about to speak first.
LEMMA NobodyAtStartup ==
  ASSUME PlacesInv, SlotInv, NEW t \in Tasks, at[t] # "idle", at[t] # "startup"
  PROVE  \A u \in Tasks : at[u] # "startup"
BY DEF PlacesInv, SlotInv, InOperation

LEMMA BootedStartup ==
  ASSUME PlacesInv, SlotInv, booted
  PROVE  \A u \in Tasks : at[u] # "startup"
BY DEF PlacesInv, SlotInv

LEMMA StepWord ==
  ASSUME TypeOK, PlacesInv, SlotInv, FreshInv, WordInv,
         NEW t \in Tasks, Step(t) \/ Start(t) \/ AbandonProbe(t)
  PROVE  WordInv'
<1> USE DEF TypeOK
<1>1. CASE AcceptSidecarAtStartup(t)
  <2>1. service' = WithSidecar(DefaultService)
    BY <1>1 DEF AcceptSidecarAtStartup, Say, WordInv, StartupInv
  <2>2. \A u \in Tasks : at'[u] # "startup"
    BY <1>1 DEF AcceptSidecarAtStartup, Return, PlacesInv, SlotInv
  <2>3. QED
    BY <2>1, <2>2 DEF WithSidecar, DefaultService, WordInv, PendingExcludesSidecar, RequestInv,
      AllowanceNeverShadowsReady, StartupInv
<1>2. CASE DetectAtStartup(t)
  BY <1>2, KeepsWord DEF DetectAtStartup, Move, word, data, Retiring
<1>3. CASE Reserve(t)
  <2>1. \A u \in Tasks : Retiring(u) => Retiring(u)'
    BY <1>3 DEF Reserve, Move, Retiring, InFlight, SlotInv, InOperation, PlacesInv
  <2>2. QED
    BY <1>3, <2>1, KeepsWord DEF Reserve, Move
<1>4. CASE Detect(t)
  BY <1>4, KeepsWord DEF Detect, Move, word, Retiring
<1>5. CASE Commit(t)
  <2>1. \A u \in Tasks : at'[u] # "startup"
    BY <1>5, NobodyAtStartup DEF Commit, Return, Move
  <2>2. CASE t \notin overtaken
    BY <1>5, <2>1, <2>2, ObservationWord DEF Commit, FreshInv, InFlight
  <2>3. CASE t \in overtaken
    <3>1. service' = service
      BY <1>5, <2>3 DEF Commit, FreshInv, InFlight
    <3>2. \A u \in Tasks : Retiring(u) => Retiring(u)'
      BY <1>5, <2>3 DEF Commit, Return, Move, data, Retiring
    <3>3. QED
      BY <2>1, <3>1, <3>2, KeepsWord
  <2>4. QED
    BY <2>2, <2>3
<1>6. CASE Hear(t)
  BY <1>6, KeepsWord DEF Hear, Move, word, Retiring
<1>7. CASE AskAgain(t)
  BY <1>7, KeepsWord DEF AskAgain, word, Retiring
<1>8. CASE GiveUp(t)
  <2>1. CASE job[t] = "probe" /\ Return(t)
    BY <1>8, <2>1, KeepsWord DEF GiveUp, Return, word, Retiring
  <2>2. CASE job[t] = "refresh" /\ Move(t, "asking", "releasing") /\ UNCHANGED data
    BY <1>8, <2>2, KeepsWord DEF GiveUp, Move, word, data, Retiring
  <2>3. CASE job[t] \in Actions /\ Move(t, "asking", "unreachable") /\ UNCHANGED data
    BY <1>8, <2>3, KeepsWord DEF GiveUp, Move, word, data, Retiring
  <2>4. QED
    BY <1>8, <2>1, <2>2, <2>3 DEF GiveUp
<1>9. CASE Record(t)
  <2>1. \A u \in Tasks : at'[u] # "startup"
    BY <1>9, NobodyAtStartup DEF Record, Return, Move
  <2>2. QED
    BY <1>9, <2>1, ObservationWord DEF Record, Say
<1>10. CASE RequestAction(t)
  <2>1. service' = Requested(service, job[t]) /\ Retiring(t)'
    BY <1>10 DEF RequestAction, Say, Move, Retiring, PlacesInv, InFlight
  <2>2. \A u \in Tasks : at'[u] # "startup"
    BY <1>10, NobodyAtStartup DEF RequestAction, Move
  <2>3. QED
    BY <2>1, <2>2 DEF Requested, WordInv, PendingExcludesSidecar, RequestInv,
      AllowanceNeverShadowsReady, StartupInv
<1>11. CASE PrivilegedDone(t)
  BY <1>11, KeepsWord DEF PrivilegedDone, Move, word, Retiring
<1>12. CASE PrivilegedFailed(t)
  BY <1>12, KeepsWord DEF PrivilegedFailed, Move, word, data, Retiring
<1>13. CASE RecordUninstalled(t) \/ RecordUnreachable(t)
  <2>1. \A u \in Tasks : at'[u] # "startup"
    BY <1>13, NobodyAtStartup DEF RecordUninstalled, RecordUnreachable, Move
  <2>2. QED
    BY <1>13, <2>1, ObservationWord DEF RecordUninstalled, RecordUnreachable, Say
<1>14. CASE RestoreDisplaced(t)
  <2>1. \A u \in Tasks : at'[u] # "startup"
    BY <1>14, NobodyAtStartup DEF RestoreDisplaced, Move
  <2>2. \A u \in Tasks : Retiring(u) => u = t
    BY <1>14 DEF RestoreDisplaced, Move, Retiring, SlotInv, InOperation, PlacesInv
  <2>3. CASE service' = service
    <3>1. ~Retiring(t)
      BY <1>14 DEF RestoreDisplaced, Move, Retiring
    <3>2. QED
      BY <2>1, <2>2, <2>3, <3>1, KeepsWord
  <2>4. CASE service.health # "ready" /\ service' = WithSidecar(service)
    BY <2>1, <2>4 DEF WithSidecar, WordInv, PendingExcludesSidecar, RequestInv,
      AllowanceNeverShadowsReady, StartupInv
  <2>5. QED
    BY <1>14, <2>3, <2>4 DEF RestoreDisplaced, RestoreAllowance, Say, word
<1>15. CASE Release(t)
  BY <1>15, KeepsWord DEF Release, Return, word, Retiring
<1>16. ASSUME NEW n \in {1, ReadyAttempts}, StartProbe(t, n) PROVE WordInv'
  BY <1>16, KeepsWord DEF StartProbe, Move, word, Retiring, PlacesInv
<1>17. ASSUME NEW j \in Operations, BeginOperation(t, j) PROVE WordInv'
  <2>1. \A u \in Tasks : ~Retiring(u)
    BY <1>17 DEF BeginOperation, Retiring, SlotInv, InOperation
  <2>2. \A u \in Tasks : at'[u] = "startup" => at[u] = "startup"
    BY <1>17 DEF BeginOperation, Move
  <2>3. QED
    BY <1>17, <2>1, <2>2, KeepsWord DEF BeginOperation, Say
<1>18. CASE AbandonProbe(t)
  BY <1>18, KeepsWord DEF AbandonProbe, Return, word, Retiring
<1>19. QED
  BY <1>1, <1>2, <1>3, <1>4, <1>5, <1>6, <1>7, <1>8, <1>9, <1>10, <1>11, <1>12, <1>13,
    <1>14, <1>15, <1>16, <1>17, <1>18 DEF Step, Start

LEMMA DecisionWord ==
  ASSUME TypeOK, PlacesInv, SlotInv, WordInv, Decision
  PROVE  WordInv'
<1>1. \A u \in Tasks : at'[u] # "startup"
  BY BootedStartup DEF Decision, AllowSidecarForSession, AllowSidecarAfterRefusal,
    RequireInstallForSession, WithdrawAllowance, ObserveUnavailable, Call
<1>2. ~opRunning => \A u \in Tasks : ~Retiring(u)
  BY DEF Retiring, SlotInv, InOperation
<1> USE DEF Say, WordInv, PendingExcludesSidecar, RequestInv, AllowanceNeverShadowsReady, StartupInv
<1>3. CASE AllowSidecarForSession
  BY <1>1, <1>2, <1>3 DEF AllowSidecarForSession, SidecarPermitted, WithSidecar
<1>4. CASE AllowSidecarAfterRefusal
  BY <1>1, <1>4 DEF AllowSidecarAfterRefusal, WithSidecar, Observed
<1>5. CASE RequireInstallForSession
  <2>1. CASE AbsenceUndecided(service) /\ service' = Requested(service, "install")
    BY <1>1, <2>1 DEF AbsenceUndecided, Requested, Observed
  <2>2. CASE ~opRunning /\ service' = service
    BY <1>1, <1>2, <2>2
  <2>3. QED
    BY <1>5, <2>1, <2>2 DEF RequireInstallForSession
<1>6. CASE WithdrawAllowance
  BY <1>1, <1>6 DEF WithdrawAllowance, WithoutSidecar
<1>7. CASE ObserveUnavailable
  BY <1>1, <1>7, ObservationWord DEF ObserveUnavailable
<1>8. QED
  BY <1>3, <1>4, <1>5, <1>6, <1>7 DEF Decision
-------------------------------------------------------------------------------
LEMMA NextIInv == IInv /\ [Next]_vars => IInv'
<1> SUFFICES ASSUME IInv, [Next]_vars PROVE IInv'
  OBVIOUS
<1> USE DEF IInv
<1>1. ASSUME NEW t \in Tasks, Step(t) \/ Start(t) \/ AbandonProbe(t) PROVE IInv'
  <2>1. TypeOK'
    BY <1>1, StepTypeOK
  <2>2. PlacesInv'
    BY <1>1, StepPlaces
  <2>3. SlotInv'
    BY <1>1, StepSlot
  <2>4. FreshInv'
    BY <1>1, StepFresh
  <2>5. WordInv'
    BY <1>1, StepWord
  <2>6. QED
    BY <2>1, <2>2, <2>3, <2>4, <2>5
<1>2. CASE Decision
  <2>1. TypeOK'
    BY <1>2, DecisionTypeOK
  <2>2. PlacesInv' /\ SlotInv' /\ FreshInv'
    BY <1>2, DecisionInv
  <2>3. WordInv'
    BY <1>2, DecisionWord
  <2>4. QED
    BY <2>1, <2>2, <2>3
<1>3. CASE UNCHANGED vars
  <2> USE <1>3 DEF vars, word, data
  <2>1. TypeOK'
    BY DEF TypeOK, InFlight
  <2>2. PlacesInv' /\ SlotInv'
    BY DEF PlacesInv, SlotInv, InOperation
  <2>3. FreshInv'
    BY DEF FreshInv, InFlight
  <2>4. WordInv'
    BY KeepsWord DEF Retiring
  <2>5. QED
    BY <2>1, <2>2, <2>3, <2>4
<1>4. QED
  BY <1>1, <1>2, <1>3 DEF Next

\* The inductive invariant holds of every behaviour.
THEOREM Invariance == Spec => []IInv
<1>1. Init => IInv
  BY InitIInv
<1>2. IInv /\ [Next]_vars => IInv'
  BY NextIInv
<1>3. QED
  BY <1>1, <1>2, PTL DEF Spec

\* Type correctness of the store and of every call on it.
THEOREM TypeCorrect == Spec => []TypeOK
<1>1. IInv => TypeOK
  BY DEF IInv
<1>2. QED
  BY <1>1, Invariance, PTL

\* health.rs:137, for any number of calls in any interleaving.
THEOREM RequestsExcludeSidecar == Spec => []PendingExcludesSidecar
<1>1. IInv => PendingExcludesSidecar
  BY DEF IInv, WordInv
<1>2. QED
  BY <1>1, Invariance, PTL

\* No operation leaves its own request behind when it gives the slot back.
THEOREM NoRequestIsStranded == Spec => []IdleRequestIsInstall
<1>1. IInv => IdleRequestIsInstall
  BY DEF IInv, WordInv, RequestInv, SlotInv, IdleRequestIsInstall, Retiring, InOperation
<1>2. QED
  BY <1>1, Invariance, PTL

\* An accepted Sidecar never stands beside a Service recorded as ready.
THEOREM NoAllowanceShadowsReady == Spec => []AllowanceNeverShadowsReady
<1>1. IInv => AllowanceNeverShadowsReady
  BY DEF IInv, WordInv
<1>2. QED
  BY <1>1, Invariance, PTL

\* The store makes sense for any number of calls in any interleaving.
THEOREM StoreAlwaysMakesSense == Spec => []StoreMakesSense
<1>1. PendingExcludesSidecar /\ IdleRequestIsInstall /\ AllowanceNeverShadowsReady
        => StoreMakesSense
  BY DEF StoreMakesSense
<1>2. QED
  BY <1>1, RequestsExcludeSidecar, NoRequestIsStranded, NoAllowanceShadowsReady, PTL
-------------------------------------------------------------------------------
\* Only a restoration can bring an allowance back while an operation runs.
LEMMA OnlyRestored ==
  ASSUME IInv, [Next]_vars, opRunning, ~service.sidecarAllowed, service'.sidecarAllowed
  PROVE  \E t \in Tasks : InOperation(t) /\ displaced[t]
<1> USE DEF IInv
<1>1. booted
  BY DEF SlotInv, InOperation
<1>2. ASSUME NEW t \in Tasks, Step(t), ~RestoreDisplaced(t) PROVE FALSE
  <2>1. at[t] # "startup"
    BY <1>1, BootedStartup
  <2>2. service' = service \/ (\E h : service' = Observed(h)) \/ (\E a : service' = Requested(service, a))
    BY <1>2, <2>1 DEF Step, AcceptSidecarAtStartup, DetectAtStartup, Reserve, Detect, Commit, Hear, AskAgain,
      GiveUp, Record, RequestAction, PrivilegedDone, PrivilegedFailed, RecordUninstalled,
      RecordUnreachable, Release, Say, Move, word
  <2>3. QED
    BY <2>2 DEF Observed, Requested
<1>3. ASSUME NEW t \in Tasks, RestoreDisplaced(t) PROVE InOperation(t) /\ displaced[t]
  BY <1>3 DEF RestoreDisplaced, Move, PlacesInv, InOperation, word
<1>4. ASSUME NEW t \in Tasks, Start(t) \/ AbandonProbe(t) PROVE FALSE
  BY <1>4 DEF Start, StartProbe, BeginOperation, AbandonProbe, Say, word
<1>5. CASE Decision
  BY <1>5 DEF Decision, AllowSidecarForSession, AllowSidecarAfterRefusal, RequireInstallForSession,
    WithdrawAllowance, ObserveUnavailable, Say, Requested, WithoutSidecar, Observed
<1>6. CASE UNCHANGED vars
  BY <1>6 DEF vars, word
<1>7. QED
  BY <1>2, <1>3, <1>4, <1>5, <1>6 DEF Next

\* Session decisions and privileged operations never interleave.
THEOREM DecisionsWaitForOperations == Spec => NoDecisionDuringOperation
<1>1. IInv /\ [Next]_vars =>
        [opRunning /\ ~service.sidecarAllowed /\ service'.sidecarAllowed =>
           \E t \in Tasks : InOperation(t) /\ displaced[t]]_vars
  BY OnlyRestored
<1>2. QED
  BY <1>1, Invariance, PTL DEF Spec, NoDecisionDuringOperation

-------------------------------------------------------------------------------
\* Saying something is the abstract Say; doing I/O in between is a stutter.
LEMMA SayRefines ==
  ASSUME IInv, IInv', NEW w, Say(w), InFlight' = InFlight
  PROVE  Latest!Next
<1>1. service' \in Latest!Words
  BY DEF IInv, TypeOK, WordInv, PendingExcludesSidecar, StoredServices, Latest!Words,
    Latest!StoredServices, Latest!Healths, Latest!Actions, Latest!NoAction
<1>2. InFlight' \ overtaken' = {}
  BY DEF Say
<1>3. Latest!Say
  BY <1>1, <1>2 DEF Latest!Say
<1>4. QED
  BY <1>3 DEF Latest!Next

LEMMA StutterRefines ==
  ASSUME UNCHANGED word, InFlight' = InFlight
  PROVE  UNCHANGED Latest!wordVars
BY DEF word, Latest!wordVars

LEMMA ReserveRefines ==
  ASSUME IInv, NEW t \in Tasks, Reserve(t)
  PROVE  Latest!Next
<1>1. t \notin InFlight /\ InFlight' = InFlight \cup {t}
  BY DEF Reserve, Move, InFlight, IInv, TypeOK
<1>2. InFlight' \ overtaken' = {t} /\ service' = service
  BY <1>1 DEF Reserve, IInv, TypeOK
<1>3. Latest!Reserve(t)
  BY <1>1, <1>2 DEF Latest!Reserve
<1>4. QED
  BY <1>3 DEF Latest!Next

LEMMA CommitRefines ==
  ASSUME IInv, NEW t \in Tasks, Commit(t)
  PROVE  Latest!Next
<1>1. t \in InFlight /\ InFlight' = InFlight \ {t}
  <2>1. CASE Return(t)
    BY <2>1 DEF Commit, Return, InFlight, IInv, TypeOK
  <2>2. CASE Move(t, "committing", "restoring")
    BY <2>2 DEF Move, InFlight, IInv, TypeOK
  <2>3. QED
    BY <2>1, <2>2 DEF Commit
<1>2. overtaken' = overtaken \ {t}
  BY DEF Commit
<1>3. CASE t \in overtaken
  <2>1. service' = service
    <3>1. reservation[t] < observation
      BY <1>1, <1>3 DEF IInv, FreshInv
    <3>2. observation # reservation[t]
      BY <1>1, <3>1 DEF IInv, TypeOK, InFlight
    <3>3. QED
      BY <3>2 DEF Commit
  <2>2. Latest!Discard(t)
    BY <1>1, <1>2, <1>3, <2>1 DEF Latest!Discard
  <2>3. QED
    BY <2>2 DEF Latest!Next
<1>4. CASE t \notin overtaken
  <2>1. service' = Observed(reading[t]) /\ reading[t] \in Healths
    BY <1>1, <1>4 DEF Commit, IInv, FreshInv, PlacesInv
  <2>2. service' = Latest!Observed(reading[t]) /\ reading[t] \in Latest!Healths
    BY <2>1 DEF Observed, Latest!Observed, Latest!NoAction, Latest!Healths
  <2>3. Latest!Commit(t)
    BY <1>1, <1>2, <1>4, <2>2 DEF Latest!Commit
  <2>4. QED
    BY <2>3 DEF Latest!Next
<1>5. QED
  BY <1>3, <1>4

LEMMA StepRefines ==
  ASSUME IInv, IInv', NEW t \in Tasks, Step(t)
  PROVE  Latest!Next \/ UNCHANGED Latest!wordVars
<1> USE DEF IInv, TypeOK
<1>1. CASE Reserve(t)
  BY <1>1, ReserveRefines
<1>2. CASE Commit(t)
  BY <1>2, CommitRefines
<1>3. CASE Detect(t)
  BY <1>3, StutterRefines DEF Detect, Move, InFlight
<1>4. CASE DetectAtStartup(t) \/ Hear(t) \/ AskAgain(t) \/ PrivilegedDone(t) \/ PrivilegedFailed(t)
  BY <1>4, StutterRefines DEF DetectAtStartup, Hear, AskAgain, PrivilegedDone, PrivilegedFailed,
    Move, InFlight
<1>5. CASE GiveUp(t) \/ Release(t)
  <2>1. UNCHANGED word
    BY <1>5 DEF GiveUp, Release
  <2>2. InFlight' = InFlight
    BY <1>5 DEF GiveUp, Release, Return, Move, InFlight
  <2>3. QED
    BY <2>1, <2>2, StutterRefines
<1>6. CASE AcceptSidecarAtStartup(t) \/ Record(t)
  <2>1. PICK w : Say(w)
    BY <1>6 DEF AcceptSidecarAtStartup, Record
  <2>2. InFlight' = InFlight
    BY <1>6 DEF AcceptSidecarAtStartup, Record, Return, Move, InFlight
  <2>3. QED
    BY <2>1, <2>2, SayRefines
<1>7. CASE RequestAction(t) \/ RecordUninstalled(t) \/ RecordUnreachable(t)
  BY <1>7, SayRefines DEF RequestAction, RecordUninstalled, RecordUnreachable, Move, InFlight
<1>8. CASE RestoreDisplaced(t)
  <2>1. InFlight' = InFlight
    BY <1>8 DEF RestoreDisplaced, Move, InFlight
  <2>2. UNCHANGED word \/ Say(service) \/ Say(WithSidecar(service))
    BY <1>8 DEF RestoreDisplaced, RestoreAllowance
  <2>3. QED
    BY <2>1, <2>2, SayRefines, StutterRefines
<1>9. QED
  BY <1>1, <1>2, <1>3, <1>4, <1>5, <1>6, <1>7, <1>8 DEF Step

\* The observation numbers implement "a reading yields to anything newer": the
\* store with its counters is the store that knows which reading is fresh.
THEOREM StoreKeepsLatestWord == Spec => KeepsLatestWord
<1>1. Init => Latest!Init
  <2> SUFFICES ASSUME Init PROVE Latest!Init
    OBVIOUS
  <2>1. InFlight = {}
    BY DEF Init, InFlight
  <2>2. QED
    BY <2>1 DEF Init, DefaultService, Latest!Init, Latest!DefaultService, Latest!NoAction
<1>2. IInv /\ IInv' /\ [Next]_vars => [Latest!Next]_(Latest!wordVars)
  <2> SUFFICES ASSUME IInv, IInv', [Next]_vars PROVE Latest!Next \/ UNCHANGED Latest!wordVars
    OBVIOUS
  <2>1. ASSUME NEW t \in Tasks, Step(t) PROVE Latest!Next \/ UNCHANGED Latest!wordVars
    BY <2>1, StepRefines
  <2>2. ASSUME NEW t \in Tasks, NEW n \in {1, ReadyAttempts}, StartProbe(t, n)
        PROVE  UNCHANGED Latest!wordVars
    BY <2>2, StutterRefines DEF StartProbe, Move, InFlight, IInv, TypeOK
  <2>3. ASSUME NEW t \in Tasks, NEW j \in Operations, BeginOperation(t, j) PROVE Latest!Next
    BY <2>3, SayRefines DEF BeginOperation, Move, InFlight, IInv, TypeOK
  <2>4. ASSUME NEW t \in Tasks, AbandonProbe(t) PROVE UNCHANGED Latest!wordVars
    BY <2>4, StutterRefines DEF AbandonProbe, Return, InFlight, IInv, TypeOK
  <2>5. CASE Decision
    <3>1. InFlight' = InFlight
      BY <2>5 DEF Decision, AllowSidecarForSession, AllowSidecarAfterRefusal, RequireInstallForSession,
        WithdrawAllowance, ObserveUnavailable, Call, InFlight
    <3>2. PICK w : Say(w)
      BY <2>5 DEF Decision, AllowSidecarForSession, AllowSidecarAfterRefusal, RequireInstallForSession,
        WithdrawAllowance, ObserveUnavailable
    <3>3. QED
      BY <3>1, <3>2, SayRefines
  <2>6. CASE UNCHANGED vars
    BY <2>6, StutterRefines DEF vars, InFlight
  <2>7. QED
    BY <2>1, <2>2, <2>3, <2>4, <2>5, <2>6 DEF Next, Start
<1>3. QED
  BY <1>1, <1>2, Invariance, PTL DEF Spec, KeepsLatestWord, Latest!Spec
===============================================================================

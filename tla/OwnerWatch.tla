------------------------------ MODULE OwnerWatch ------------------------------
(***************************************************************************)
(* How one owner monitor judges the Service it watches (OwnerWatch of      *)
(* core/runstate/owner.rs and the loop of core/service.rs that feeds it):  *)
(* a bad reading is a blip until there are enough of them.  What a         *)
(* verdict does to the Core and the proxy is CoreSupervisor's and          *)
(* SystemProxy's business.                                                 *)
(***************************************************************************)
EXTENDS Naturals, Sequences, FiniteSets

CONSTANTS
  Sustained,    \* SUSTAINED_SAMPLES
  MaxReadings   \* readings looked at

VARIABLES
  unreadable,   \* unreadable_samples
  missing,      \* missing_core_samples
  step,         \* what the monitor is about to do, or its verdict
  readings,     \* what every reading so far said of the Core, oldest first
  status,       \* the last status that could be read
  endpoint,     \* whether the Core's endpoint answered when it was last asked
  answered      \* (of the properties) how many readings there were when it last answered

watch == <<unreadable, missing>>
asked == <<endpoint, answered>>
vars == <<watch, step, readings, status, asked>>

Continue == "continue"
VerifyTransport == "verify"
Verdicts == {"Displaced", "SameOwnerFailure", "TransportFailure"}

(* What the Service can answer: the flags of its status, or no status at all. *)
Status == [active : BOOLEAN, desired : BOOLEAN,
           state : {"Running", "Starting", "RecoveringCore", "Fatal"}, core : BOOLEAN]
Good == [active |-> TRUE, desired |-> TRUE, state |-> "Running", core |-> TRUE]

(* read_owner_sample: no credentials, a failed call, an error code or an      *)
(* empty answer cannot be read; a session that is not ours any more is not    *)
(* active, whatever the flags say.                                            *)
ReadOwnerSample(got, sessionMatches, isActive) ==
  CASE got = "NotActive" -> "inactive"
    [] got = "status"    -> IF sessionMatches /\ isActive THEN "status" ELSE "inactive"
    [] OTHER             -> "unreadable"

IsSettling(s) == s.state \in {"Starting", "RecoveringCore"}
(* Wrong on purpose: a Service that restarts the Core is missing it. *)
MissingAny(s) == ~s.core

Missing(s) == ~s.core /\ ~IsSettling(s)

RecoveryReason(s, count) ==
  IF ~s.active THEN "Displaced"
  ELSE IF ~s.desired \/ s.state = "Fatal" \/ (Missing(s) /\ count >= Sustained)
  THEN "SameOwnerFailure" ELSE Continue

Init ==
  /\ unreadable = 0 /\ missing = 0
  /\ step = Continue
  /\ readings = <<>> /\ status = Good
  /\ endpoint = TRUE /\ answered = 0

(* OwnerWatch::observe *)
ObserveUnreadable ==
  /\ unreadable' = unreadable + 1
  /\ step' = IF unreadable' >= Sustained THEN VerifyTransport ELSE Continue
  /\ UNCHANGED <<missing, status>>

ObserveNotActive == step' = "Displaced" /\ UNCHANGED <<watch, status>>

(* Wrong on purpose: an answer does not end the run of unreadable ones. *)
ObserveStatusOnly(s) ==
  /\ status' = s
  /\ missing' = IF Missing(s) THEN missing + 1 ELSE 0
  /\ step' = RecoveryReason(s, missing')
  /\ UNCHANGED unreadable

ObserveStatus(s) ==
  /\ status' = s
  /\ unreadable' = 0
  /\ missing' = IF Missing(s) THEN missing + 1 ELSE 0
  /\ step' = RecoveryReason(s, missing')

AboutTheCore(sample, s) ==
  IF sample # "status" THEN sample
  ELSE IF s.core THEN "core" ELSE IF s.state \in {"Starting", "RecoveringCore"} THEN "settling" ELSE "gone"

Observe ==
  /\ step = Continue
  /\ Len(readings) < MaxReadings
  /\ \E got \in {"error", "code", "nothing", "NotActive", "status"}, ours \in BOOLEAN, s \in Status :
       LET sample == ReadOwnerSample(got, ours, s.active)
       IN /\ readings' = Append(readings, AboutTheCore(sample, s))
          /\ \/ sample = "unreadable" /\ ObserveUnreadable
             \/ sample = "inactive" /\ ObserveNotActive
             \/ sample = "status" /\ ObserveStatus(s)
  /\ UNCHANGED asked

(* get_version: the Core itself is asked, and answers or does not. *)
AskTheCore ==
  /\ endpoint' \in BOOLEAN
  /\ answered' = IF endpoint' THEN Len(readings) ELSE answered

(* Wrong on purpose: sustained silence alone is a failure. *)
ResolveWithoutAsking ==
  /\ step = VerifyTransport
  /\ AskTheCore
  /\ step' = "TransportFailure"
  /\ UNCHANGED <<watch, readings, status>>

(* OwnerWatch::resolve_transport *)
ResolveTransport ==
  /\ step = VerifyTransport
  /\ AskTheCore
  /\ unreadable' = IF endpoint' THEN 0 ELSE unreadable
  /\ step' = IF endpoint' THEN Continue ELSE "TransportFailure"
  /\ UNCHANGED <<missing, readings, status>>

Next == Observe \/ ResolveTransport

-----------------------------------------------------------------------------
(* Properties *)

TypeOK ==
  /\ unreadable \in 0..MaxReadings /\ missing \in 0..MaxReadings
  /\ step \in Verdicts \cup {Continue, VerifyTransport}
  /\ status \in Status /\ endpoint \in BOOLEAN
  /\ answered \in 0..Len(readings)

(* The complete answers from reading i on, and whether the last ones, as many *)
(* as count, all said r.                                                      *)
AnswersFrom(i) == {j \in i..Len(readings) : readings[j] \notin {"unreadable", "inactive"}}
AnswersEnd(r) ==
  \E i \in 1..Len(readings) :
    Cardinality(AnswersFrom(i)) >= Sustained /\ \A j \in AnswersFrom(i) : readings[j] = r
ReadingsEnd(r) ==
  /\ Len(readings) >= Sustained
  /\ \A i \in Len(readings) - Sustained + 1 .. Len(readings) : readings[i] = r

(* A blip is not a failure: the channel is given up only when the last        *)
(* readings were all unreadable and the Core does not answer either, and a    *)
(* Core that should run is missed only after as many complete answers in a    *)
(* row without it, none of them from a Service that is starting it.           *)
BlipsAreTolerated ==
  /\ step = "TransportFailure" => ~endpoint /\ ReadingsEnd("unreadable")
  /\ step = "SameOwnerFailure" => ~status.desired \/ status.state = "Fatal" \/ AnswersEnd("gone")

(* And a lasting failure is not tolerated: the monitor does not go on after   *)
(* that many unreadable readings in a row since the Core last answered, nor   *)
(* after that many answers in a row without a Core.                           *)
FailuresAreNoticed ==
  step = Continue =>
    /\ ~AnswersEnd("gone")
    /\ ~(Len(readings) - answered >= Sustained /\ ReadingsEnd("unreadable"))
=============================================================================

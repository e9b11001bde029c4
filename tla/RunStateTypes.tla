---------------------------- MODULE RunStateTypes ----------------------------
(***************************************************************************)
(* The vocabulary of src-tauri/src/core/runstate: what is stored about the *)
(* privileged Service, how a reply of the Service is classified, and what  *)
(* the rest of the program derives from a snapshot.  Only operators: the   *)
(* state machines that use them are RunState and CoreSupervisor.           *)
(*                                                                         *)
(* A ServiceHealth::Unavailable carries a reason; only its wording depends *)
(* on it, so all reasons are one value here.                               *)
(***************************************************************************)

Healths == {"unknown", "ready", "notInstalled", "versionMismatch", "unavailable"}

Actions == {"install", "uninstall", "reinstall", "forceReinstall"}

NoAction == "none"

\* Not a health nor a reply: a task that holds no reading.
Nothing == "nothing"

(***************************************************************************)
(* health.rs: StoredService, the record that one mutex protects, and its   *)
(* three mutators.                                                         *)
(***************************************************************************)

StoredServices ==
  [health : Healths, pending : Actions \cup {NoAction}, sidecarAllowed : BOOLEAN]

DefaultService ==
  [health |-> "unknown", pending |-> NoAction, sidecarAllowed |-> FALSE]

Observed(h) ==
  [health |-> h, pending |-> NoAction, sidecarAllowed |-> FALSE]

\* Mutant: a request leaves the accepted Sidecar in place.
RequestedBesideSidecar(s, a) == [s EXCEPT !.pending = a]

Requested(s, a) ==
  [health |-> s.health, pending |-> a, sidecarAllowed |-> FALSE]

WithSidecar(s) ==
  [health |-> s.health, pending |-> NoAction, sidecarAllowed |-> TRUE]

WithoutSidecar(s) ==
  [health |-> s.health, pending |-> s.pending, sidecarAllowed |-> FALSE]

(***************************************************************************)
(* probe.rs: a reply to the protocol-version query is usable, refuses the  *)
(* approved core, or speaks another version.  "silent" is a transport      *)
(* failure: no reply at all.                                               *)
(***************************************************************************)

Replies == {"ready", "coreUnavailable", "needsReinstall"}

\* Whether the platform registration could be read, and what it said.
Evidence == {"registered", "absent", "unreadable"}

HealthOfReply(reply) ==
  CASE reply = "ready"           -> "ready"
    [] reply = "coreUnavailable" -> "unavailable"
    [] reply = "needsReinstall"  -> "versionMismatch"

\* What detect_service_health makes of the evidence and of the IPC outcome.
DetectedHealth(evidence, outcome) ==
  CASE evidence = "unreadable" -> "unavailable"
    [] evidence = "absent"     -> "notInstalled"
    [] evidence = "registered" ->
         IF outcome \in Replies THEN HealthOfReply(outcome) ELSE "unavailable"

(***************************************************************************)
(* The session decisions that look at the stored service before they take  *)
(* effect.                                                                 *)
(***************************************************************************)

\* allow_sidecar_for_session: an install request may always be answered with
\* Sidecar; otherwise only a Service known to be unusable may.
SidecarPermitted(s) ==
  \/ s.pending = "install"
  \/ /\ s.pending = NoAction
     /\ ~s.sidecarAllowed
     /\ s.health \in {"notInstalled", "versionMismatch", "unavailable"}

\* require_install_for_session: a confirmed absence nobody has decided about.
AbsenceUndecided(s) ==
  s = Observed("notInstalled")
==============================================================================

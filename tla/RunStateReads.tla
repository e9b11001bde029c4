----------------------------- MODULE RunStateReads -----------------------------
(***************************************************************************)
(* How the rest of the program learns the Run State: by the snapshots that *)
(* are published after every change, and by waiting in settled() until no  *)
(* privileged operation is in flight (core/runstate/mod.rs).               *)
(*                                                                         *)
(* The stored service is one mutex and the operation slot is an atomic of  *)
(* its own, so a snapshot is two reads, and a publication is a third step  *)
(* after them.  This module keeps those steps apart and reduces the stored *)
(* service to what an operation does to it: it stores its request and      *)
(* takes it back before it frees the slot.  RunState has the rest.         *)
(*                                                                         *)
(* Events are dispatched to the main thread in the order of the calls      *)
(* (notification.rs), so the frontend holds the snapshot delivered last.   *)
(***************************************************************************)
EXTENDS Naturals

CONSTANTS
  Operators,      \* tasks that run privileged operations
  Speakers,       \* tasks that record something about the Service and announce it
  Readers,        \* tasks that call settled()
  MaxOperations,  \* bound: operations in a behaviour
  MaxWords        \* bound: announcements of the speakers in a behaviour

ASSUME BoundsAssumption == MaxOperations \in Nat /\ MaxWords \in Nat
ASSUME RolesAreDistinct ==
  /\ Operators \cap Speakers = {}
  /\ Operators \cap Readers = {}
  /\ Speakers \cap Readers = {}

VARIABLES
  request,      \* whether the stored service carries an operation's request
  opRunning,    \* the operation slot
  at,           \* where each task is
  after,        \* where an announcer continues
  clone,        \* the stored service a task has cloned
  seen,         \* the slot a task has read with it
  registered,   \* readers whose Notified future is enabled
  woken,        \* readers whose Notified future is ready
  frontend,     \* the snapshot the frontend received last
  answered,     \* readers whose settled() has returned
  operations, words  \* counters for the bounds

snapshotVars == <<clone, seen>>
waitVars == <<registered, woken, answered>>
bounds == <<operations, words>>
vars == <<request, opRunning, at, after, snapshotVars, waitVars, frontend, bounds>>

Announcers == Operators \cup Speakers
Tasks == Announcers \cup Readers

Places ==
  {"idle", "begun", "requested", "retired", "cleared",
   "cloning", "loading", "delivering", "parked"}

Snapshots == [request : BOOLEAN, opInFlight : BOOLEAN]

Snapshot(t) == [request |-> clone[t], opInFlight |-> seen[t]]

\* The change is stored and its lock released; then the announcement.
Announce(t, next) ==
  /\ at' = [at EXCEPT ![t] = "cloning"]
  /\ after' = [after EXCEPT ![t] = next]

-------------------------------------------------------------------------------
(***************************************************************************)
(* state(): clone the stored service under its lock, then read the slot.   *)
(***************************************************************************)

Clone(t) ==
  /\ at[t] = "cloning"
  /\ at' = [at EXCEPT ![t] = "loading"]
  /\ clone' = [clone EXCEPT ![t] = request]
  /\ UNCHANGED <<request, opRunning, after, seen, waitVars, frontend, bounds>>

Load(t) ==
  /\ at[t] = "loading"
  /\ t \in Announcers
  /\ at' = [at EXCEPT ![t] = "delivering"]
  /\ seen' = [seen EXCEPT ![t] = opRunning]
  /\ UNCHANGED <<request, opRunning, after, clone, waitVars, frontend, bounds>>

Deliver(t) ==
  /\ at[t] = "delivering"
  /\ at' = [at EXCEPT ![t] = after[t]]
  /\ frontend' = Snapshot(t)
  /\ UNCHANGED <<request, opRunning, after, snapshotVars, waitVars, bounds>>

-------------------------------------------------------------------------------
(***************************************************************************)
(* An operation: begin_operation, request_action, the observation that     *)
(* ends the request, OperationGuard::drop.  A refresh asks for nothing.    *)
(***************************************************************************)

\* Mutant: the slot is set without looking at what it held.
BeginUnclaimed(t) ==
  /\ at[t] = "idle"
  /\ operations < MaxOperations
  /\ opRunning' = TRUE
  /\ Announce(t, "begun")
  /\ operations' = operations + 1
  /\ UNCHANGED <<request, snapshotVars, waitVars, frontend, words>>

BeginOperation(t) ==
  /\ at[t] = "idle"
  /\ operations < MaxOperations
  /\ ~opRunning
  /\ opRunning' = TRUE
  /\ Announce(t, "begun")
  /\ operations' = operations + 1
  /\ UNCHANGED <<request, snapshotVars, waitVars, frontend, words>>

RequestAction(t) ==
  /\ at[t] = "begun"
  /\ request' = TRUE
  /\ Announce(t, "requested")
  /\ UNCHANGED <<opRunning, snapshotVars, waitVars, frontend, bounds>>

\* perform and what follows it, up to the observation that retires the request.
RetireRequest(t) ==
  /\ at[t] = "requested"
  /\ request' = FALSE
  /\ Announce(t, "retired")
  /\ UNCHANGED <<opRunning, snapshotVars, waitVars, frontend, bounds>>

ClearSlot(t) ==
  /\ \/ at[t] = "retired"
     \/ at[t] = "begun"                \* a refresh that heard nothing
  /\ opRunning' = FALSE
  /\ at' = [at EXCEPT ![t] = "cleared"]
  /\ UNCHANGED <<request, after, snapshotVars, waitVars, frontend, bounds>>

\* Mutant: the release announces itself and wakes nobody.
NotifyNobody(t) ==
  /\ at[t] = "cleared"
  /\ Announce(t, "idle")
  /\ UNCHANGED <<request, opRunning, snapshotVars, waitVars, frontend, bounds>>

\* Mutant: the release wakes the readers and announces nothing.
NotifySilently(t) ==
  /\ at[t] = "cleared"
  /\ woken' = woken \cup registered
  /\ registered' = {}
  /\ at' = [at EXCEPT ![t] = "idle"]
  /\ UNCHANGED <<request, opRunning, after, snapshotVars, answered, frontend, bounds>>

\* notify_waiters wakes the futures that are enabled and leaves no permit.
NotifyWaiters(t) ==
  /\ at[t] = "cleared"
  /\ woken' = woken \cup registered
  /\ registered' = {}
  /\ Announce(t, "idle")
  /\ UNCHANGED <<request, opRunning, snapshotVars, answered, frontend, bounds>>

-------------------------------------------------------------------------------
(***************************************************************************)
(* Anyone else who changes the store and announces it: an observation or a *)
(* decision retires a request, a change of mode or health need not.        *)
(***************************************************************************)

Speak(t) ==
  /\ at[t] = "idle"
  /\ words < MaxWords
  /\ words' = words + 1
  /\ request' = FALSE \/ UNCHANGED request
  /\ Announce(t, "idle")
  /\ UNCHANGED <<opRunning, snapshotVars, waitVars, frontend, operations>>

-------------------------------------------------------------------------------
(***************************************************************************)
(* settled(): register, look, wait, and look again.                        *)
(***************************************************************************)

\* Mutant: the future is created and not enabled, so it registers when awaited.
EnableLate(t) ==
  /\ at[t] = "idle" /\ t \notin answered
  /\ at' = [at EXCEPT ![t] = "cloning"]
  /\ UNCHANGED <<request, opRunning, after, snapshotVars, waitVars, frontend, bounds>>

Enable(t) ==
  /\ \/ at[t] = "idle" /\ t \notin answered
     \/ at[t] = "parked" /\ t \in woken
  /\ at' = [at EXCEPT ![t] = "cloning"]
  /\ registered' = registered \cup {t}
  /\ woken' = woken \ {t}
  /\ UNCHANGED <<request, opRunning, after, snapshotVars, answered, frontend, bounds>>

\* Mutant: the future outlives the call that pinned it.
ReturnRegistered(t) ==
  /\ at[t] = "loading"
  /\ ~opRunning
  /\ at' = [at EXCEPT ![t] = "idle"]
  /\ seen' = [seen EXCEPT ![t] = FALSE]
  /\ answered' = answered \cup {t}
  /\ UNCHANGED <<request, opRunning, after, clone, registered, woken, frontend, bounds>>

Return(t) ==
  /\ at[t] = "loading"
  /\ ~opRunning
  /\ at' = [at EXCEPT ![t] = "idle"]
  /\ seen' = [seen EXCEPT ![t] = FALSE]
  /\ registered' = registered \ {t}
  /\ woken' = woken \ {t}
  /\ answered' = answered \cup {t}
  /\ UNCHANGED <<request, opRunning, after, clone, frontend, bounds>>

Park(t) ==
  /\ at[t] = "loading"
  /\ opRunning
  /\ at' = [at EXCEPT ![t] = "parked"]
  /\ seen' = [seen EXCEPT ![t] = TRUE]
  /\ UNCHANGED <<request, opRunning, after, clone, waitVars, frontend, bounds>>

-------------------------------------------------------------------------------
Init ==
  /\ request = FALSE
  /\ opRunning = FALSE
  /\ at = [t \in Tasks |-> "idle"]
  /\ after = [t \in Announcers |-> "idle"]
  /\ clone = [t \in Tasks |-> FALSE]
  /\ seen = [t \in Tasks |-> FALSE]
  /\ registered = {}
  /\ woken = {}
  /\ answered = {}
  /\ frontend = [request |-> FALSE, opInFlight |-> FALSE]
  /\ operations = 0
  /\ words = 0

Operate(t) ==
  RequestAction(t) \/ RetireRequest(t) \/ ClearSlot(t) \/ NotifyWaiters(t)

Publish(t) == Clone(t) \/ Load(t) \/ Deliver(t)

Settle(t) == Clone(t) \/ Return(t) \/ Park(t) \/ Enable(t)

Next ==
  \/ \E t \in Operators : BeginOperation(t) \/ Operate(t) \/ Publish(t)
  \/ \E t \in Speakers : Speak(t) \/ Publish(t)
  \/ \E t \in Readers : Settle(t)

Spec == Init /\ [][Next]_vars

\* The runtime runs every ready task; nobody has to begin an operation.
FairSpec ==
  /\ Spec
  /\ \A t \in Operators : WF_vars(Operate(t) \/ Publish(t))
  /\ \A t \in Speakers : WF_vars(Publish(t))
  /\ \A t \in Readers : WF_vars(Settle(t))

-------------------------------------------------------------------------------
(***************************************************************************)
(* Properties.                                                             *)
(***************************************************************************)

\* Every variable has its type; a reader's future is enabled or ready, not both,
\* and lives no longer than its call of settled().
TypeOK ==
  /\ request \in BOOLEAN
  /\ opRunning \in BOOLEAN
  /\ at \in [Tasks -> Places]
  /\ after \in [Announcers -> Places]
  /\ clone \in [Tasks -> BOOLEAN]
  /\ seen \in [Tasks -> BOOLEAN]
  /\ registered \subseteq {r \in Readers : at[r] # "idle"}
  /\ woken \subseteq {r \in Readers : at[r] # "idle"} \ registered
  /\ answered \subseteq Readers
  /\ frontend \in Snapshots
  /\ operations \in 0..MaxOperations
  /\ words \in 0..MaxWords

Holding(t) ==
  \/ at[t] \in {"begun", "requested", "retired"}
  \/ at[t] \in {"cloning", "loading", "delivering"} /\ after[t] # "idle"

\* The slot is held by the one operation that claimed it, and by no other.
SlotHasOneHolder ==
  \A t \in Operators : Holding(t) => opRunning /\ \A u \in Operators \ {t} : ~Holding(u)

\* No wake-up is lost: a reader that waits in settled() and has not been woken
\* waits for an operation that still holds the slot or has yet to notify
\* (settled enables its future before it reads, mod.rs:107-110).
WaitersAreOwedAWakeup ==
  \A r \in Readers :
    at[r] = "parked" /\ r \notin woken =>
      opRunning \/ \E t \in Operators : at[t] = "cleared"

\* The last snapshot of a quiet program tells the frontend that the slot is
\* free ("op_in_flight is part of the snapshot, so the frontend must learn when
\* it clears", mod.rs:1129).
Quiet == \A t \in Announcers : at[t] = "idle"

FrontendLearnsRelease == Quiet => frontend.opInFlight = opRunning

\* Whoever asks for a settled state gets it, once operations stop being asked.
ReadersReturn == \A r \in Readers : at[r] # "idle" ~> r \in answered
==============================================================================

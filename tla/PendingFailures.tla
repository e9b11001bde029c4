--------------------------- MODULE PendingFailures ---------------------------
(***************************************************************************)
(* What the window is told (core/notify): the table of failures that       *)
(* nobody has resolved yet, the failure of the sidecar, and the batch of   *)
(* refreshes.  An event only nudges the window; it reads the tables        *)
(* itself, and its reads may be answered in any order                      *)
(* (store/store-reads.ts, notice-service.ts).                              *)
(***************************************************************************)
EXTENDS Naturals, FiniteSets

CONSTANTS
  Codes,        \* codes of failures
  None,         \* no failure
  Refreshes,    \* kinds of refreshes
  MaxFailures,  \* failures and announcements looked at
  MaxReads      \* reads of the window in flight

VARIABLES
  table,        \* the operation of the failure pending under each code
  sidecar,      \* SIDECAR_FAILURE: its revision, and whether there is one
  owed,         \* codes under which a request of the user failed and has had no answer since
  nudges,       \* events that have not reached the window
  revision,     \* failureRevision of the window
  reads,        \* reads in flight, with what the tables held when they were served
  shown,        \* what the window shows
  batch,        \* RefreshBatch
  flushes,      \* flushes that sleep
  emitting,     \* refreshes that a flush has taken and is sending
  stale,        \* kinds that were announced and have not been sent since
  failures

tables == <<table, sidecar, owed>>
window == <<revision, reads, shown>>
refreshing == <<batch, flushes, emitting, stale>>
failureVars == <<tables, nudges, window, refreshing, failures>>

Requests == {"Enable", "Disable"}
Operations == Requests \cup {"Restore", "Guard"}
Tables == [table |-> table, sidecar |-> sidecar]

Init ==
  /\ table = [c \in Codes |-> None] /\ sidecar = [revision |-> 0, failed |-> FALSE]
  /\ owed = {}
  /\ nudges = 0 /\ revision = 0 /\ reads = {} /\ shown = Tables
  /\ batch = {} /\ flushes = 0 /\ emitting = {} /\ stale = {}
  /\ failures = 0

-----------------------------------------------------------------------------
(* The table of failures *)

(* Wrong on purpose: the last operation that failed takes the code. *)
OutranksNothing(op, other) == FALSE

Outranks(op, other) == op \in Requests /\ other = "Restore"

(* Wrong on purpose: a restore that succeeds answers the user. *)
RetiredByAny(op, asked) == op # "Guard"

RetiredBySuccessOf(op, asked) ==
  /\ op # "Guard"
  /\ asked \in Requests \/ op = "Restore"

(* notify_pending_failures_changed *)
Nudge == nudges' = nudges + 1
Failing == failures < MaxFailures /\ failures' = failures + 1

(* report_failure with what_was_asked, FailureTable::record *)
Record(op, code) ==
  /\ Failing
  /\ table' = [table EXCEPT ![code] = IF Outranks(@, op) THEN @ ELSE op]
  /\ owed' = CASE op \in Requests -> owed \cup {code}
               [] op = "Guard"    -> owed \ {code}   \* the guard takes the code
               [] OTHER           -> owed
  /\ Nudge
  /\ UNCHANGED <<sidecar, window, refreshing>>

(* A removal nudges only when something was removed. *)
RetireAll(codes) ==
  /\ table' = [c \in Codes |-> IF c \in codes THEN None ELSE table[c]]
  /\ IF table' # table THEN Nudge ELSE UNCHANGED nudges
  /\ UNCHANGED <<sidecar, window, refreshing, failures>>

(* retire_system_proxy: an apply or a clear that was asked for has landed. *)
RetireSystemProxy(asked) ==
  /\ RetireAll({c \in Codes : table[c] # None /\ RetiredBySuccessOf(table[c], asked)})
  /\ owed' = IF asked \in Requests THEN {} ELSE owed

RetireGuard ==
  /\ RetireAll({c \in Codes : table[c] = "Guard"})
  /\ UNCHANGED owed

SidecarFails ==
  /\ Failing
  /\ sidecar' = [revision |-> sidecar.revision + 1, failed |-> TRUE]
  /\ Nudge
  /\ UNCHANGED <<table, owed, window, refreshing>>

(* Wrong on purpose: the removal of a failure is not an event. *)
SidecarRecoversQuietly ==
  /\ sidecar.failed
  /\ sidecar' = [sidecar EXCEPT !.failed = FALSE]
  /\ UNCHANGED <<table, owed, nudges, window, refreshing, failures>>

(* A removal has a revision too. *)
SidecarRecovers ==
  /\ sidecar.failed
  /\ sidecar' = [revision |-> sidecar.revision + 1, failed |-> FALSE]
  /\ Nudge
  /\ UNCHANGED <<table, owed, window, refreshing, failures>>

-----------------------------------------------------------------------------
(* The window reads both tables; only the reply to its last read counts. *)

Reread ==
  /\ nudges > 0 /\ Cardinality(reads) < MaxReads
  /\ nudges' = nudges - 1
  /\ revision' = revision + 1
  /\ reads' = reads \cup {[revision |-> revision', got |-> None]}
  /\ UNCHANGED <<tables, shown, refreshing, failures>>

(* FailureTable::snapshot *)
Snapshot(read) ==
  /\ read \in reads /\ read.got = None
  /\ reads' = (reads \ {read}) \cup {[read EXCEPT !.got = <<Tables>>]}
  /\ UNCHANGED <<tables, nudges, revision, shown, refreshing, failures>>

Reply(read) ==
  /\ read \in reads /\ read.got # None
  /\ reads' = reads \ {read}
  /\ shown' = IF read.revision # revision THEN shown
              ELSE [table |-> read.got[1].table,
                    sidecar |-> IF read.got[1].sidecar.revision > shown.sidecar.revision
                                THEN read.got[1].sidecar ELSE shown.sidecar]
  /\ UNCHANGED <<tables, nudges, revision, refreshing, failures>>

-----------------------------------------------------------------------------
(* The batch of refreshes: one flush at the end of each window *)

Announce(kind) ==
  /\ Failing
  /\ batch' = batch \cup {kind} /\ stale' = stale \cup {kind}
  /\ flushes' = flushes + (IF batch = {} THEN 1 ELSE 0)
  /\ UNCHANGED <<tables, nudges, window, emitting>>

(* The flush takes the batch at once, and sends what it took one by one. *)
Flush ==
  /\ flushes > 0 /\ emitting = {}
  /\ flushes' = flushes - 1
  /\ emitting' = batch /\ batch' = {}
  /\ UNCHANGED <<tables, nudges, window, stale, failures>>

(* Wrong on purpose: the batch is emptied after it was sent. *)
EmitAndClear(kind) ==
  /\ kind \in emitting
  /\ emitting' = emitting \ {kind} /\ batch' = {}
  /\ stale' = IF kind \in batch THEN stale ELSE stale \ {kind}
  /\ UNCHANGED <<tables, nudges, window, flushes, failures>>

Emit(kind) ==
  /\ kind \in emitting
  /\ emitting' = emitting \ {kind}
  /\ stale' = IF kind \in batch THEN stale ELSE stale \ {kind}
  /\ UNCHANGED <<tables, nudges, window, batch, flushes, failures>>

Next ==
  \/ \E op \in Operations, c \in Codes : Record(op, c)
  \/ \E op \in Operations \ {"Guard"} : RetireSystemProxy(op)
  \/ RetireGuard \/ SidecarFails \/ SidecarRecovers
  \/ Reread \/ \E read \in reads : Snapshot(read) \/ Reply(read)
  \/ \E k \in Refreshes : Announce(k) \/ Emit(k)
  \/ Flush

-----------------------------------------------------------------------------
(* Properties *)

TypeOK ==
  /\ table \in [Codes -> Operations \cup {None}]
  /\ owed \subseteq Codes
  /\ {nudges, revision, failures} \subseteq Nat
  /\ {batch, emitting, stale} \subseteq SUBSET Refreshes

(* A request of the user that failed stays listed as such until a request of  *)
(* the user is answered; restores that fail or succeed in between do not take *)
(* it away.                                                                   *)
OwedAnswersStay == \A c \in owed : table[c] \in Requests

(* The window catches up: when nothing is under way, it shows what the tables *)
(* hold, whatever the order of the failures, the removals and the replies.    *)
WindowCatchesUp ==
  nudges = 0 /\ reads = {} => shown.table = table /\ shown.sidecar.failed = sidecar.failed

(* No refresh is lost: what was announced and not sent since waits in the     *)
(* batch, for which exactly one flush is on its way, or is being sent.        *)
NoRefreshIsLost ==
  /\ stale = batch \cup emitting
  /\ flushes = (IF batch = {} THEN 0 ELSE 1)
=============================================================================

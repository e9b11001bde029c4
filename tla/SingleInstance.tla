---------------------------- MODULE SingleInstance ----------------------------
\* One application at a time (utils/server.rs, the start-up in lib.rs): a lock on
\* a file, a record of who serves where, and a server that takes the request of
\* an instance that was started second. A restart starts the next instance while
\* the last one holds the lock with its server down.
EXTENDS Naturals

CONSTANTS
  Instances,    \* the processes started over a behaviour; 0 is none of them
  PortsOfServer,\* the ports a server can be bound to
  MaxTries      \* bound: the tries of an instance that waits (400, 20 seconds)

VARIABLES
  phase,        \* [Instances -> where the process is]
  lock,         \* the instance that holds the lock, or 0
  record,       \* the record file: [port, owner], owner 0 when there is none
  boundTo,      \* [Instances -> the port its listener has, or 0]
  ready,        \* the instances whose COMMANDS_READY is set
  saw,          \* [Instances -> the record it read]
  tries,        \* [Instances -> the tries it has made]
  shown,        \* history: the instances for which a window was raised
  missed        \* history: tries that found the lock free and did not take it

instanceVars == <<phase, lock, record, boundTo, ready, saw, tries, shown, missed>>

Live == {"opening", "waiting", "asking", "owning", "bound", "recorded", "serving", "leaving"}
Ended == {"secondary", "gaveUp", "failed", "gone"}
NoRecord == [port |-> 0, owner |-> 0]
Records == [port : PortsOfServer \cup {0}, owner : Instances \cup {0}]
TypeOK ==
  /\ phase \in [Instances -> {"off"} \cup Live \cup Ended]
  /\ lock \in Instances \cup {0} /\ record \in Records
  /\ boundTo \in [Instances -> PortsOfServer \cup {0}] /\ ready \subseteq Instances
  /\ saw \in [Instances -> Records] /\ tries \in [Instances -> 0..MaxTries]
  /\ shown \subseteq Instances /\ missed \subseteq Instances

\* A record of an earlier session may be there; nothing serves its token.
InitInstances ==
  /\ phase = [i \in Instances |-> "off"] /\ lock = 0
  /\ record \in {NoRecord} \cup [port : PortsOfServer, owner : {0}]
  /\ boundTo = [i \in Instances |-> 0] /\ ready = {} /\ saw = [i \in Instances |-> NoRecord]
  /\ tries = [i \in Instances |-> 0] /\ shown = {} /\ missed = {}

To(i, s) == phase' = [phase EXCEPT ![i] = s]
Try(i) == tries' = [tries EXCEPT ![i] = @ + 1]
Launch(i) ==
  /\ phase[i] = "off" /\ To(i, "opening")
  /\ UNCHANGED <<lock, record, boundTo, ready, saw, tries, shown, missed>>
-----------------------------------------------------------------------------
(* check_singleton                                                            *)

\* try_lock_instance: the lock is the operating system's, gone with the process.
TryLock(i) ==
  /\ phase[i] = "opening"
  /\ \/ lock = 0 /\ lock' = i /\ To(i, "owning")
     \/ lock # 0 /\ To(i, "waiting") /\ UNCHANGED lock
  /\ UNCHANGED <<record, boundTo, ready, saw, tries, shown, missed>>

\* Mutant: the lock is tried once, before the waiting.
NeverRelocks(i) ==
  /\ phase[i] = "waiting" /\ tries[i] < MaxTries
  /\ missed' = IF lock = 0 THEN missed \cup {i} ELSE missed
  /\ saw' = [saw EXCEPT ![i] = record] /\ To(i, "asking")
  /\ UNCHANGED <<lock, record, boundTo, ready, tries, shown>>
\* Every try takes the lock if it can: a restart lets go of it only at its exit.
Retry(i) ==
  /\ phase[i] = "waiting" /\ tries[i] < MaxTries
  /\ \/ lock = 0 /\ lock' = i /\ To(i, "owning") /\ UNCHANGED <<saw, tries>>
     \/ /\ lock # 0 /\ record.port # 0 /\ saw' = [saw EXCEPT ![i] = record]
        /\ To(i, "asking") /\ UNCHANGED <<lock, tries>>
     \/ lock # 0 /\ record.port = 0 /\ Try(i) /\ UNCHANGED <<phase, lock, saw>>
  /\ UNCHANGED <<record, boundTo, ready, shown, missed>>
\* "another app instance is starting".
GiveUp(i) ==
  /\ phase[i] = "waiting" /\ tries[i] = MaxTries /\ To(i, "gaveUp")
  /\ UNCHANGED <<lock, record, boundTo, ready, saw, tries, shown, missed>>

Serves(j) == phase[j] = "serving"
\* Mutant: a server that starts takes requests it cannot act on.
AnswersEarly(i, j) == Serves(j) /\ boundTo[j] = saw[i].port /\ saw[i].owner = j
\* instance_auth and COMMANDS_READY: only the instance of the token answers, and
\* only when it can raise its window.
Answers(i, j) ==
  Serves(j) /\ boundTo[j] = saw[i].port /\ saw[i].owner = j /\ j \in ready
\* notify_existing_instance: an answer may also come too late.
Ask(i) ==
  /\ phase[i] = "asking"
  /\ \/ \E j \in Instances : /\ Answers(i, j) /\ To(i, "secondary") /\ UNCHANGED tries
                             /\ shown' = IF j \in ready THEN shown \cup {i} ELSE shown
     \/ To(i, "waiting") /\ Try(i) /\ UNCHANGED shown
  /\ UNCHANGED <<lock, record, boundTo, ready, saw, missed>>

Free(p) == \A j \in Instances : boundTo[j] # p
\* bind_primary_listener: the port of the record, or another one when it is taken.
Bind(i) ==
  /\ phase[i] = "owning" /\ To(i, "bound")
  /\ \E p \in PortsOfServer : Free(p) /\ boundTo' = [boundTo EXCEPT ![i] = p]
  /\ UNCHANGED <<lock, record, ready, saw, tries, shown, missed>>

\* Mutant: a record that is there is kept.
KeepRecord(i) ==
  /\ phase[i] = "bound" /\ To(i, "recorded")
  /\ record' = IF record.port # 0 THEN record ELSE [port |-> boundTo[i], owner |-> i]
  /\ UNCHANGED <<lock, boundTo, ready, saw, tries, shown, missed>>
\* write_instance_record: a rename, so that a reader has the old or the new one.
WriteRecord(i) ==
  /\ phase[i] = "bound" /\ To(i, "recorded")
  /\ record' = [port |-> boundTo[i], owner |-> i]
  /\ UNCHANGED <<lock, boundTo, ready, saw, tries, shown, missed>>

Serve(i) ==
  /\ phase[i] = "recorded" /\ To(i, "serving")
  /\ UNCHANGED <<lock, record, boundTo, ready, saw, tries, shown, missed>>
-----------------------------------------------------------------------------
(* The rest of its life                                                       *)

\* RunEvent::Ready sets COMMANDS_READY.
Ready(i) ==
  /\ phase[i] = "serving" /\ ready' = ready \cup {i}
  /\ UNCHANGED <<phase, lock, record, boundTo, saw, tries, shown, missed>>

\* Mutant: the lock goes with the server.
LetGoEarly(i) ==
  /\ phase[i] = "serving" /\ To(i, "leaving") /\ lock' = 0
  /\ boundTo' = [boundTo EXCEPT ![i] = 0]
  /\ UNCHANGED <<record, ready, saw, tries, shown, missed>>
\* shutdown_embedded_server; the record stays, and so does the lock.
CloseServer(i) ==
  /\ phase[i] = "serving" /\ To(i, "leaving")
  /\ boundTo' = [boundTo EXCEPT ![i] = 0]
  /\ UNCHANGED <<lock, record, ready, saw, tries, shown, missed>>

\* The process ends: the operating system closes its files and its listener.
End(i, s) ==
  /\ To(i, s) /\ lock' = (IF lock = i THEN 0 ELSE lock)
  /\ boundTo' = [boundTo EXCEPT ![i] = 0] /\ ready' = ready \ {i}
  /\ UNCHANGED <<record, saw, tries, shown, missed>>
\* An exit, or a crash at any step.
Exit(i) == phase[i] \in Live /\ End(i, "gone")
\* handle_singleton_startup: a file, a port or the record failed, and is reported.
StartupFails(i) ==
  /\ phase[i] \in {"opening", "waiting", "owning", "bound"} /\ End(i, "failed")

NextInstances == \E i \in Instances :
  \/ Launch(i) \/ TryLock(i) \/ Retry(i) \/ GiveUp(i) \/ Ask(i) \/ Bind(i) \/ WriteRecord(i)
  \/ Serve(i) \/ Ready(i) \/ CloseServer(i) \/ Exit(i) \/ StartupFails(i)

Spec == InitInstances /\ [][NextInstances]_instanceVars
-----------------------------------------------------------------------------
(* Properties                                                                 *)

\* Two instances never use the data directory at a time, whoever crashes or
\* restarts (check_singleton).
OnePrimary ==
  \A i, j \in Instances : phase[i] \in {"owning", "bound", "recorded", "serving", "leaving"}
      /\ phase[j] \in {"owning", "bound", "recorded", "serving", "leaving"} => i = j

\* Whoever is started while an instance serves finds that one: the record names
\* it and its port, not an instance that crashed (write_instance_record).
RecordNamesThePrimary ==
  \A i \in Instances : phase[i] = "serving" => record = [port |-> boundTo[i], owner |-> i]

\* An instance leaves for another one only when that one raises its window: a
\* click on the application is not lost to one that starts, restarts or is gone.
SecondariesAreShown == \A i \in Instances : phase[i] = "secondary" => i \in shown

\* An instance that gives up found another one at every try: the one a restart
\* starts takes over once the old one is gone.
GivingUpHasACause == \A i \in Instances : phase[i] = "gaveUp" => i \notin missed
=============================================================================

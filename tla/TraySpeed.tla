------------------------------ MODULE TraySpeed ------------------------------
\* The speed in the tray (core/tray/speed_task.rs): a task reads the traffic
\* stream of the Core; stopping takes the task and, beside the caller, aborts it
\* and disconnects what it left.
EXTENDS Naturals

CONSTANTS
  MaxTasks,        \* bound: tasks started
  MaxConnections,  \* bound: streams opened
  MaxStops         \* bound: calls of stop_task

VARIABLES
  speedTask,    \* the task in the slot, 0 for none
  speedId,      \* the connection in the slot, 0 for none
  tasks,        \* [task -> where it is, and the connection it disconnects]
  stoppers,     \* [stopper -> where it is, its task and its connection]
  opened,       \* the streams that are open at the Core
  hasTray, exitingApp,
  severed,      \* history: a task was aborted while it disconnected
  overlapped,   \* history: a task was started while another was being stopped
  connections, tasksUsed, stopsUsed

slots == <<speedTask, speedId>>
world == <<hasTray, exitingApp>>
told == <<severed, overlapped>>
counts == <<connections, tasksUsed, stopsUsed>>
speedVars == <<slots, tasks, stoppers, opened, world, told, counts>>

Conns == 0..MaxConnections
Unborn == [at |-> "none", id |-> 0]
Free == [at |-> "none", task |-> 0, id |-> 0]
TypeOK ==
  /\ speedTask \in 0..MaxTasks /\ speedId \in Conns /\ opened \subseteq 1..MaxConnections
  /\ tasks \in [1..MaxTasks -> [at : {"none", "connects", "reads", "closes", "rests", "done"}, id : Conns]]
  /\ stoppers \in [1..MaxStops -> [at : {"none", "aborts", "takes", "closes", "done"}, task : 0..MaxTasks, id : Conns]]
  /\ {hasTray, exitingApp, severed, overlapped} \subseteq BOOLEAN
  /\ connections \in Conns /\ tasksUsed \in 0..MaxTasks /\ stopsUsed \in 0..MaxStops

InitSpeed ==
  /\ speedTask = 0 /\ speedId = 0 /\ opened = {}
  /\ tasks = [t \in 1..MaxTasks |-> Unborn] /\ stoppers = [s \in 1..MaxStops |-> Free]
  /\ hasTray = TRUE /\ exitingApp = FALSE /\ severed = FALSE /\ overlapped = FALSE
  /\ connections = 0 /\ tasksUsed = 0 /\ stopsUsed = 0

Stopping == \E s \in DOMAIN stoppers : stoppers[s].at \notin {"none", "done"}
Lives(t) == tasks[t].at \notin {"none", "done"}
-----------------------------------------------------------------------------
(* Starting and stopping                                                     *)

Begun ==
  /\ ~exitingApp /\ hasTray /\ tasksUsed < MaxTasks /\ tasksUsed' = tasksUsed + 1
  /\ speedTask' = tasksUsed + 1 /\ tasks' = [tasks EXCEPT ![tasksUsed + 1].at = "connects"]
  /\ overlapped' = (overlapped \/ Stopping)
  /\ UNCHANGED <<speedId, stoppers, opened, world, severed, connections, stopsUsed>>
\* Mutant: every call starts a task.
StartAnother == Begun
\* start_task: not beside a task that has not finished.
Start == ~(\E t \in DOMAIN tasks : t = speedTask /\ Lives(t)) /\ Begun

\* stop_task, up to the task it spawns.
Stop ==
  /\ stopsUsed < MaxStops /\ stopsUsed' = stopsUsed + 1 /\ speedTask' = 0
  /\ stoppers' = [stoppers EXCEPT ![stopsUsed + 1] =
                    [at |-> IF speedTask = 0 THEN "takes" ELSE "aborts", task |-> speedTask, id |-> 0]]
  /\ UNCHANGED <<speedId, tasks, opened, world, told, connections, tasksUsed>>
\* Mutant: the abort is not awaited, the task ends later.
AbortUnawaited(s) ==
  \/ /\ stoppers[s].at = "aborts" /\ stoppers' = [stoppers EXCEPT ![s].at = "takes"]
     /\ UNCHANGED <<slots, tasks, opened, world, told, counts>>
  \/ /\ stoppers[s].at \in {"takes", "closes", "done"} /\ stoppers[s].task # 0
     /\ tasks' = [tasks EXCEPT ![stoppers[s].task] = [at |-> "done", id |-> 0]]
     /\ severed' = (severed \/ tasks[stoppers[s].task].at = "closes")
     /\ UNCHANGED <<slots, stoppers, opened, world, overlapped, counts>>
\* Mutant: a stop only aborts.
TakeNothing(s) ==
  /\ stoppers[s].at = "takes" /\ stoppers' = [stoppers EXCEPT ![s].at = "done"]
  /\ UNCHANGED <<slots, tasks, opened, world, told, counts>>
\* The abort, awaited: the task ends where it waits.
Abort(s) ==
  /\ stoppers[s].at = "aborts" /\ stoppers' = [stoppers EXCEPT ![s].at = "takes"]
  /\ tasks' = [tasks EXCEPT ![stoppers[s].task] = [at |-> "done", id |-> 0]]
  /\ severed' = (severed \/ tasks[stoppers[s].task].at = "closes")
  /\ UNCHANGED <<slots, opened, world, overlapped, counts>>
Take(s) ==
  /\ stoppers[s].at = "takes" /\ speedId' = 0
  /\ stoppers' = [stoppers EXCEPT ![s].at = IF speedId = 0 THEN "done" ELSE "closes", ![s].id = speedId]
  /\ UNCHANGED <<speedTask, tasks, opened, world, told, counts>>
StopperCloses(s) ==
  /\ stoppers[s].at = "closes" /\ opened' = opened \ {stoppers[s].id}
  /\ stoppers' = [stoppers EXCEPT ![s] = [@ EXCEPT !.at = "done", !.id = 0]]
  /\ UNCHANGED <<slots, tasks, world, told, counts>>
-----------------------------------------------------------------------------
(* The task                                                                  *)

\* The loop goes on, or ends with the application or the tray and clears the slot.
GoesOn(t, to) ==
  \/ ~exitingApp /\ hasTray /\ tasks' = [tasks EXCEPT ![t] = [at |-> to, id |-> 0]] /\ UNCHANGED speedId
  \/ (exitingApp \/ ~hasTray) /\ tasks' = [tasks EXCEPT ![t] = [at |-> "done", id |-> 0]] /\ speedId' = 0

Connect(t) ==
  /\ tasks[t].at = "connects" /\ tasks' = [tasks EXCEPT ![t].at = "reads"]
  /\ connections < MaxConnections /\ connections' = connections + 1
  /\ speedId' = connections + 1 /\ opened' = opened \cup {connections + 1}
  /\ UNCHANGED <<speedTask, stoppers, world, told, tasksUsed, stopsUsed>>
ConnectFails(t) ==
  /\ tasks[t].at = "connects" /\ tasks' = [tasks EXCEPT ![t].at = "rests"]
  /\ UNCHANGED <<slots, stoppers, opened, world, told, counts>>
\* Nothing came in time, the stream was closed, or the application ends.
ReadEnds(t) ==
  /\ tasks[t].at = "reads" /\ tasks' = [tasks EXCEPT ![t] = [at |-> "closes", id |-> speedId]]
  /\ speedId' = 0
  /\ UNCHANGED <<speedTask, stoppers, opened, world, told, counts>>
Closes(t) ==
  /\ tasks[t].at = "closes" /\ opened' = opened \ {tasks[t].id} /\ GoesOn(t, "rests")
  /\ UNCHANGED <<speedTask, stoppers, world, told, counts>>
Rested(t) ==
  /\ tasks[t].at = "rests" /\ GoesOn(t, "connects")
  /\ UNCHANGED <<speedTask, stoppers, opened, world, told, counts>>

\* The Core ends a stream; the tray goes away; the application begins to leave.
CoreCloses == \E c \in opened : opened' = opened \ {c} /\ UNCHANGED <<slots, tasks, stoppers, world, told, counts>>
TrayGoes == hasTray /\ hasTray' = FALSE /\ UNCHANGED <<slots, tasks, stoppers, opened, exitingApp, told, counts>>
Exits == ~exitingApp /\ exitingApp' = TRUE /\ UNCHANGED <<slots, tasks, stoppers, opened, hasTray, told, counts>>

NextSpeed ==
  \/ Start \/ Stop \/ CoreCloses \/ TrayGoes \/ Exits
  \/ \E s \in DOMAIN stoppers : Abort(s) \/ Take(s) \/ StopperCloses(s)
  \/ \E t \in DOMAIN tasks : Connect(t) \/ ConnectFails(t) \/ ReadEnds(t) \/ Closes(t) \/ Rested(t)
-----------------------------------------------------------------------------
(* Properties                                                                *)

\* A task that runs is one that a stop still reaches: it is in the slot, or a
\* stop has taken it and has yet to abort it. Two tasks never write one tray.
RunningTasksAreHeld ==
  \A t \in DOMAIN tasks : Lives(t) =>
    \/ speedTask = t
    \/ \E s \in DOMAIN stoppers : stoppers[s].at = "aborts" /\ stoppers[s].task = t

\* A stop that is through leaves no stream open at the Core, wherever it met the
\* task. An abort in the middle of the task's own disconnect, and a start during
\* a stop, are told apart.
StoppedMeansDisconnected ==
  (~severed /\ ~overlapped /\ ~Stopping /\ ~\E t \in DOMAIN tasks : Lives(t)) => opened = {}
=============================================================================

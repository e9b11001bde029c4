-------------------------------- MODULE Timer --------------------------------
(***************************************************************************)
(* The timer of the profile updates (core/timer.rs): a cache of intervals, *)
(* a channel of commands, and a scheduler that alone holds the tasks and   *)
(* the delay queue.  Updates run as tasks of their own and report back     *)
(* through the channel.  How long an entry of the queue still waits is     *)
(* left open: any entry may expire at any time.                            *)
(***************************************************************************)
EXTENDS Naturals, Sequences, Functions

CONSTANTS
  Uids,         \* profiles
  Intervals,    \* intervals in minutes; 0 switches the updates of a profile off
  MaxChanges,   \* changes of the settings looked at
  MaxUpdates    \* updates started

VARIABLES
  settings,     \* the interval of each profile, as committed
  cache,        \* timer_map
  callers,      \* calls of refresh() that wait for refresh_lock
  reading,      \* the schedule that the caller with refresh_lock has read, or Nothing
  initialized,
  commands,     \* the channel
  tasks,        \* the scheduler's tasks, by uid
  queue,        \* the delay queue: how many entries each uid has
  updates,      \* the updates that run, by uid
  overdue,      \* init() still has the profiles before it that are overdue
  changes, starts

inputs == <<settings, changes>>
refreshes == <<cache, callers, reading>>
scheduler == <<tasks, queue>>
running == <<updates, starts>>
vars == <<inputs, refreshes, initialized, overdue, commands, scheduler, running>>

Schedules == [Uids -> Intervals]
Nothing == <<>>
NoTask == [armed |-> FALSE, interval |-> 0, running |-> FALSE, retired |-> FALSE]

Command(kind, uid, schedule) == [kind |-> kind, uid |-> uid, schedule |-> schedule]
Apply(schedule) == Command("apply", "", schedule)
RunNow(uid) == Command("now", uid, Nothing)
TaskFinished(uid) == Command("finished", uid, Nothing)

(* gen_map_from_items *)
Enabled(schedule) == {u \in Uids : schedule[u] # 0}
Known == {u \in Uids : tasks[u].interval # 0}

Init ==
  /\ settings \in Schedules
  /\ cache = [u \in Uids |-> 0]
  /\ callers = 0 /\ reading = Nothing
  /\ initialized = FALSE /\ overdue = {}
  /\ commands = <<>>
  /\ tasks = [u \in Uids |-> NoTask] /\ queue = [u \in Uids |-> 0]
  /\ updates = [u \in Uids |-> 0]
  /\ changes = 0 /\ starts = 0

-----------------------------------------------------------------------------
(* The cache *)

(* A profile is changed, and whoever changed it refreshes the timer. *)
Change ==
  /\ changes < MaxChanges
  /\ \E new \in Schedules \ {settings} : settings' = new
  /\ changes' = changes + 1
  /\ callers' = callers + 1
  /\ UNCHANGED <<cache, reading, initialized, overdue, commands, scheduler, running>>

(* The compare-and-swap of init() lets one caller start the scheduler. *)
InitOnce ==
  /\ ~initialized
  /\ initialized' = TRUE
  /\ callers' = callers + 1
  /\ overdue' \in SUBSET Uids
  /\ UNCHANGED <<inputs, cache, reading, commands, scheduler, running>>

(* What init() found overdue goes to the scheduler once more, after refresh(). *)
RunOverdue ==
  /\ callers = 0 /\ reading = Nothing
  /\ \E u \in overdue :
       /\ overdue' = overdue \ {u}
       /\ commands' = IF settings[u] = 0 THEN commands ELSE Append(commands, RunNow(u))
  /\ UNCHANGED <<inputs, refreshes, initialized, scheduler, running>>

RefreshReads ==
  /\ callers > 0
  /\ reading = Nothing
  /\ reading' = settings
  /\ callers' = callers - 1
  /\ UNCHANGED <<inputs, cache, initialized, overdue, commands, scheduler, running>>

RefreshSends ==
  /\ reading # Nothing
  /\ cache' = reading
  /\ commands' = IF reading = cache THEN commands ELSE Append(commands, Apply(reading))
  /\ reading' = Nothing
  /\ UNCHANGED <<inputs, callers, initialized, overdue, scheduler, running>>

-----------------------------------------------------------------------------
(* The scheduler: one command, or one expired entry, at a time *)

Next1(kind) ==
  /\ initialized
  /\ commands # <<>>
  /\ Head(commands).kind = kind
  /\ commands' = Tail(commands)

Armed(interval) == [NoTask EXCEPT !.armed = TRUE, !.interval = interval]

(* Wrong on purpose: a task is removed although its update runs. *)
AfterApplyDropped(u, interval) ==
  IF interval = 0 THEN NoTask
  ELSE IF tasks[u] = NoTask THEN Armed(interval)
  ELSE [tasks[u] EXCEPT !.interval = interval]

(* A task that runs outlives its removal, so that enabling it again finds it. *)
AfterApply(u, interval) ==
  LET task == tasks[u]
  IN IF interval = 0
     THEN IF task.running THEN [task EXCEPT !.armed = FALSE, !.retired = TRUE] ELSE NoTask
     ELSE IF task = NoTask THEN Armed(interval)
     ELSE [task EXCEPT !.retired = FALSE, !.interval = interval,
                       !.armed = @ \/ (interval # task.interval /\ ~task.running)]

InQueue(task) == IF task.armed THEN 1 ELSE 0

ApplyTimerMap ==
  /\ Next1("apply")
  /\ tasks' = [u \in Uids |-> AfterApply(u, Head(commands).schedule[u])]
  /\ queue' = [u \in Uids |-> queue[u] - InQueue(tasks[u]) + InQueue(tasks'[u])]
  /\ UNCHANGED <<inputs, refreshes, initialized, overdue, running>>

(* spawn_update_task *)
Spawn(u) ==
  /\ starts < MaxUpdates
  /\ starts' = starts + 1
  /\ updates' = [updates EXCEPT ![u] = @ + 1]

(* Wrong on purpose: the mark of an update is not looked at. *)
MarkNothing(u) == tasks' = [tasks EXCEPT ![u].armed = FALSE]

MarkRunning(u) == tasks' = [tasks EXCEPT ![u].running = TRUE, ![u].armed = FALSE]

RunTaskNow ==
  /\ Next1("now")
  /\ LET u == Head(commands).uid
     IN IF u \notin Known \/ tasks[u].running
        THEN UNCHANGED <<scheduler, running>>
        ELSE /\ MarkRunning(u)
             /\ queue' = [queue EXCEPT ![u] = @ - InQueue(tasks[u])]
             /\ Spawn(u)
  /\ UNCHANGED <<inputs, refreshes, initialized, overdue>>

RunExpiredTask(u) ==
  /\ initialized
  /\ queue[u] > 0
  /\ queue' = [queue EXCEPT ![u] = @ - 1]
  /\ IF u \notin Known THEN UNCHANGED <<tasks, running>>
     ELSE IF tasks[u].running
          THEN tasks' = [tasks EXCEPT ![u].armed = FALSE] /\ UNCHANGED running
          ELSE MarkRunning(u) /\ Spawn(u)
  /\ UNCHANGED <<inputs, refreshes, initialized, overdue, commands>>

Finished(task) ==
  IF task.retired THEN NoTask ELSE [task EXCEPT !.running = FALSE, !.armed = TRUE]

(* Wrong on purpose: a task is not armed again when its update ends. *)
FinishTaskOnly ==
  /\ Next1("finished")
  /\ tasks' = [tasks EXCEPT ![Head(commands).uid].running = FALSE]
  /\ UNCHANGED <<inputs, refreshes, initialized, overdue, queue, running>>

FinishTask ==
  /\ Next1("finished")
  /\ LET u == Head(commands).uid
     IN IF u \notin Known THEN UNCHANGED scheduler
        ELSE /\ tasks' = [tasks EXCEPT ![u] = Finished(@)]
             /\ queue' = [queue EXCEPT ![u] = @ + InQueue(Finished(tasks[u]))]
  /\ UNCHANGED <<inputs, refreshes, initialized, overdue, running>>

(* An update ends, well or not, and reports back. *)
UpdateEnds(u) ==
  /\ updates[u] > 0
  /\ updates' = [updates EXCEPT ![u] = @ - 1]
  /\ commands' = Append(commands, TaskFinished(u))
  /\ UNCHANGED <<inputs, refreshes, initialized, overdue, scheduler, starts>>

-----------------------------------------------------------------------------
Scheduler == ApplyTimerMap \/ RunTaskNow \/ FinishTask \/ \E u \in Uids : RunExpiredTask(u)

Next ==
  \/ Change \/ InitOnce \/ RunOverdue \/ RefreshReads \/ RefreshSends
  \/ Scheduler
  \/ \E u \in Uids : UpdateEnds(u)

Spec == Init /\ [][Next]_vars

-----------------------------------------------------------------------------
(* Properties *)

TypeOK ==
  /\ settings \in Schedules /\ cache \in Schedules
  /\ reading \in Schedules \cup {Nothing}
  /\ initialized \in BOOLEAN /\ overdue \subseteq Uids
  /\ tasks \in [Uids -> [armed : BOOLEAN, interval : Intervals, running : BOOLEAN, retired : BOOLEAN]]
  /\ {callers, changes, starts} \subseteq Nat

(* A profile is updated by one task at a time, also when it is switched off   *)
(* and on again, or given another interval, while its update runs.            *)
OneUpdatePerProfile == \A u \in Uids : updates[u] <= 1

(* The delay queue and the tasks agree: one entry for each armed task and     *)
(* none for others, so that a removal by key never hits another entry.        *)
QueueHoldsTheArmed == \A u \in Uids : queue[u] = InQueue(tasks[u])

(* No task is forgotten: one that is scheduled waits in the queue or its      *)
(* update runs, never both; one that is retired waits for its update only.    *)
NoTaskIsForgotten ==
  \A u \in Known :
    /\ tasks[u].retired => tasks[u].running
    /\ tasks[u].armed # tasks[u].running

(* Once nobody is refreshing and every command has been taken, what is        *)
(* scheduled is what the settings ask for, with their intervals.              *)
ScheduleFollowsSettings ==
  initialized /\ callers = 0 /\ reading = Nothing /\ commands = <<>> =>
    \A u \in Uids :
      IF settings[u] # 0 THEN tasks[u].interval = settings[u] /\ ~tasks[u].retired
      ELSE tasks[u] = NoTask \/ tasks[u].retired
=============================================================================

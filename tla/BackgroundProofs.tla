-------------------------- MODULE BackgroundProofs --------------------------
(***************************************************************************)
(* Proofs about the components of Background, for every value of their     *)
(* constants that the module's assumptions allow: any profiles, intervals, *)
(* readings, ports, groups of nodes, failures, backups and versions.       *)
(*                                                                         *)
(* Each component has an invariant of its own, with three lemmas: that it  *)
(* starts in it, that each of its steps keeps it, and what it shows.  The  *)
(* composition at the end puts them together.                              *)
(***************************************************************************)
EXTENDS Background, FiniteSetTheorems, SequenceTheorems, TLAPS

-----------------------------------------------------------------------------
(* The profile timer.  The scheduler does not see its updates: it knows of    *)
(* one by the mark "running" of a task, and of its end by a report in the     *)
(* channel.  UpdatesAreMarked ties the three together: a marked task has an   *)
(* update that runs or a report that waits, one of the two and one only,      *)
(* whatever was removed, retired or armed meanwhile.                          *)

TimerTasks == [armed : BOOLEAN, interval : Intervals, running : BOOLEAN, retired : BOOLEAN]
TimerCommands ==
  [kind : {"apply"}, uid : {""}, schedule : Timing!Schedules]
    \cup [kind : {"now", "finished"}, uid : Uids, schedule : {Timing!Nothing}]

TimerTypes ==
  /\ settings \in Timing!Schedules
  /\ reading \in Timing!Schedules \cup {Timing!Nothing}
  /\ overdue \subseteq Uids
  /\ commands \in Seq(TimerCommands)
  /\ tasks \in [Uids -> TimerTasks]
  /\ queue \in [Uids -> Int]
  /\ updates \in [Uids -> Int]

Reports(i, u) == commands[i].kind = "finished" /\ commands[i].uid = u
Reported(u) == \E i \in 1..Len(commands) : Reports(i, u)

UpdatesAreMarked ==
  \A u \in Uids :
    /\ updates[u] \in {0, 1}
    /\ updates[u] = 1 => tasks[u].running /\ ~Reported(u)
    /\ Reported(u) => tasks[u].running
    /\ tasks[u].running => updates[u] = 1 \/ Reported(u)
ReportsAreSingle ==
  \A u \in Uids : \A i, j \in 1..Len(commands) : Reports(i, u) /\ Reports(j, u) => i = j

\* There is no task without an interval.
NoTaskUnknown == \A u \in Uids : tasks[u].interval = 0 => tasks[u] = Timing!NoTask

QueueInv ==
  /\ TimerTypes
  /\ UpdatesAreMarked
  /\ ReportsAreSingle
  /\ NoTaskUnknown
  /\ Timing!QueueHoldsTheArmed
  /\ Timing!NoTaskIsForgotten

-----------------------------------------------------------------------------
(* What is sent comes last, and moves nothing. *)
LEMMA CommandSent ==
  ASSUME NEW c \in TimerCommands, TimerTypes, commands' = Append(commands, c)
  PROVE  /\ commands' \in Seq(TimerCommands)
         /\ Len(commands') = Len(commands) + 1
         /\ \A i \in 1..Len(commands) : commands'[i] = commands[i]
         /\ commands'[Len(commands) + 1] = c
BY DEF TimerTypes

(* What is taken was first, and the others move up. *)
LEMMA CommandTaken ==
  ASSUME TimerTypes, commands # <<>>, commands' = Tail(commands)
  PROVE  /\ commands' \in Seq(TimerCommands)
         /\ Len(commands) \in Nat \ {0}
         /\ Len(commands') = Len(commands) - 1
         /\ \A i \in 1..Len(commands') : commands'[i] = commands[i + 1]
         /\ Head(commands) = commands[1] /\ Head(commands) \in TimerCommands
BY DEF TimerTypes

(* A command other than a report leaves the reports as they are. *)
LEMMA SentNoReport ==
  ASSUME NEW c \in TimerCommands, c.kind # "finished", TimerTypes, ReportsAreSingle,
         commands' = Append(commands, c)
  PROVE  /\ commands' \in Seq(TimerCommands)
         /\ ReportsAreSingle'
         /\ \A u \in Uids : Reported(u)' <=> Reported(u)
<1>1. /\ commands' \in Seq(TimerCommands)
      /\ Len(commands') = Len(commands) + 1
      /\ \A i \in 1..Len(commands) : commands'[i] = commands[i]
      /\ commands'[Len(commands) + 1] = c
  BY CommandSent
<1>2. Len(commands) \in Nat
  BY DEF TimerTypes
<1>3. \A u \in Uids : \A i \in 1..Len(commands') :
        Reports(i, u)' <=> i \in 1..Len(commands) /\ Reports(i, u)
  BY <1>1, <1>2 DEF Reports
<1>4. ReportsAreSingle'
  BY <1>3 DEF ReportsAreSingle
<1>5. \A u \in Uids : Reported(u)' <=> Reported(u)
  BY <1>1, <1>2, <1>3 DEF Reported
<1> QED
  BY <1>1, <1>4, <1>5

(* So does one that is taken. *)
LEMMA TakenNoReport ==
  ASSUME TimerTypes, ReportsAreSingle, commands # <<>>, Head(commands).kind # "finished",
         commands' = Tail(commands)
  PROVE  /\ commands' \in Seq(TimerCommands)
         /\ Head(commands) \in TimerCommands
         /\ ReportsAreSingle'
         /\ \A u \in Uids : Reported(u)' <=> Reported(u)
<1>1. /\ commands' \in Seq(TimerCommands)
      /\ Len(commands) \in Nat \ {0}
      /\ Len(commands') = Len(commands) - 1
      /\ \A i \in 1..Len(commands') : commands'[i] = commands[i + 1]
      /\ Head(commands) = commands[1] /\ Head(commands) \in TimerCommands
  BY CommandTaken
<1>2. \A u \in Uids : \A i \in 1..Len(commands') : Reports(i, u)' <=> Reports(i + 1, u)
  BY <1>1 DEF Reports
<1>3. ReportsAreSingle'
  <2> SUFFICES ASSUME NEW u \in Uids, NEW i \in 1..Len(commands'), NEW j \in 1..Len(commands'),
                      Reports(i, u)', Reports(j, u)'
               PROVE  i = j
    BY DEF ReportsAreSingle
  <2>1. Reports(i + 1, u) /\ Reports(j + 1, u)
    BY <1>2
  <2>2. i + 1 \in 1..Len(commands) /\ j + 1 \in 1..Len(commands)
    BY <1>1
  <2>3. i + 1 = j + 1
    BY <2>1, <2>2 DEF ReportsAreSingle
  <2> QED
    BY <2>3
<1>4. ASSUME NEW u \in Uids PROVE Reported(u)' <=> Reported(u)
  <2>1. ASSUME Reported(u)' PROVE Reported(u)
    <3>1. PICK i \in 1..Len(commands') : Reports(i, u)'
      BY <2>1 DEF Reported
    <3>2. i + 1 \in 1..Len(commands) /\ Reports(i + 1, u)
      BY <1>1, <1>2, <3>1
    <3> QED
      BY <3>2 DEF Reported
  <2>2. ASSUME Reported(u) PROVE Reported(u)'
    <3>1. PICK i \in 1..Len(commands) : Reports(i, u)
      BY <2>2 DEF Reported
    <3>2. i # 1
      BY <1>1, <3>1 DEF Reports
    <3>3. i - 1 \in 1..Len(commands') /\ (i - 1) + 1 = i
      BY <1>1, <3>2
    <3>4. Reports(i - 1, u)'
      BY <1>2, <3>1, <3>3
    <3> QED
      BY <3>3, <3>4 DEF Reported
  <2> QED
    BY <2>1, <2>2
<1> QED
  BY <1>1, <1>3, <1>4

(* The report that is taken was the only one of its profile. *)
LEMMA ReportTaken ==
  ASSUME NEW done \in Uids, TimerTypes, ReportsAreSingle, commands # <<>>,
         Head(commands).kind = "finished", Head(commands).uid = done,
         commands' = Tail(commands)
  PROVE  /\ commands' \in Seq(TimerCommands)
         /\ ReportsAreSingle'
         /\ Reported(done)
         /\ ~Reported(done)'
         /\ \A u \in Uids \ {done} : Reported(u)' <=> Reported(u)
<1>1. /\ commands' \in Seq(TimerCommands)
      /\ Len(commands) \in Nat \ {0}
      /\ Len(commands') = Len(commands) - 1
      /\ \A i \in 1..Len(commands') : commands'[i] = commands[i + 1]
      /\ Head(commands) = commands[1] /\ Head(commands) \in TimerCommands
  BY CommandTaken
<1>2. \A u \in Uids : \A i \in 1..Len(commands') : Reports(i, u)' <=> Reports(i + 1, u)
  BY <1>1 DEF Reports
<1>3. Reports(1, done) /\ 1 \in 1..Len(commands)
  BY <1>1 DEF Reports
<1>4. Reported(done)
  BY <1>3 DEF Reported
<1>5. ReportsAreSingle'
  <2> SUFFICES ASSUME NEW u \in Uids, NEW i \in 1..Len(commands'), NEW j \in 1..Len(commands'),
                      Reports(i, u)', Reports(j, u)'
               PROVE  i = j
    BY DEF ReportsAreSingle
  <2>1. Reports(i + 1, u) /\ Reports(j + 1, u)
    BY <1>2
  <2>2. i + 1 \in 1..Len(commands) /\ j + 1 \in 1..Len(commands)
    BY <1>1
  <2>3. i + 1 = j + 1
    BY <2>1, <2>2 DEF ReportsAreSingle
  <2> QED
    BY <2>3
<1>6. ~Reported(done)'
  <2> SUFFICES ASSUME NEW i \in 1..Len(commands'), commands'[i].kind = "finished", commands'[i].uid = done
               PROVE  FALSE
    BY DEF Reported, Reports
  <2>1. i + 1 \in 1..Len(commands) /\ Reports(i + 1, done)
    BY <1>1 DEF Reports
  <2>2. i + 1 = 1
    BY <1>3, <2>1 DEF ReportsAreSingle
  <2> QED
    BY <1>1, <2>2
<1>7. ASSUME NEW u \in Uids, u # done PROVE Reported(u)' <=> Reported(u)
  <2>1. ASSUME Reported(u)' PROVE Reported(u)
    <3>1. PICK i \in 1..Len(commands') : Reports(i, u)'
      BY <2>1 DEF Reported
    <3>2. i + 1 \in 1..Len(commands) /\ Reports(i + 1, u)
      BY <1>1, <1>2, <3>1
    <3> QED
      BY <3>2 DEF Reported
  <2>2. ASSUME Reported(u) PROVE Reported(u)'
    <3>1. PICK i \in 1..Len(commands) : Reports(i, u)
      BY <2>2 DEF Reported
    <3>2. i # 1
      BY <1>1, <1>7, <3>1 DEF Reports
    <3>3. i - 1 \in 1..Len(commands') /\ (i - 1) + 1 = i
      BY <1>1, <3>2
    <3>4. Reports(i - 1, u)'
      BY <1>2, <3>1, <3>3
    <3> QED
      BY <3>3, <3>4 DEF Reported
  <2> QED
    BY <2>1, <2>2
<1>8. \A u \in Uids \ {done} : Reported(u)' <=> Reported(u)
  BY <1>7
<1> QED
  BY <1>1, <1>4, <1>5, <1>6, <1>8

-----------------------------------------------------------------------------
(* What a new schedule makes of a task: it keeps its entry or its update, one *)
(* of them, and without an interval it is gone or retired.                    *)
LEMMA ScheduledTasks ==
  ASSUME NEW u \in Uids, NEW interval \in Intervals, tasks \in [Uids -> TimerTasks],
         0 \in Intervals, NoTaskUnknown, Timing!NoTaskIsForgotten
  PROVE  /\ Timing!AfterApply(u, interval) \in TimerTasks
         /\ Timing!AfterApply(u, interval).running = tasks[u].running
         /\ Timing!AfterApply(u, interval).interval = 0 => Timing!AfterApply(u, interval) = Timing!NoTask
         /\ Timing!AfterApply(u, interval).interval # 0 =>
              /\ Timing!AfterApply(u, interval).retired => Timing!AfterApply(u, interval).running
              /\ Timing!AfterApply(u, interval).armed # Timing!AfterApply(u, interval).running
<1> DEFINE task == tasks[u]
<1>1. task \in TimerTasks /\ Timing!NoTask \in TimerTasks
  BY DEF Timing!NoTask, TimerTasks
<1>2. task.interval # 0 => (task.retired => task.running) /\ task.armed # task.running
  BY DEF Timing!NoTaskIsForgotten, Timing!Known
<1>3. task.interval = 0 => task = Timing!NoTask
  BY DEF NoTaskUnknown
<1>4. CASE interval = 0 /\ task.running
  <2>1. Timing!AfterApply(u, interval) = [task EXCEPT !.armed = FALSE, !.retired = TRUE]
    BY <1>4 DEF Timing!AfterApply
  <2> QED
    BY <1>1, <1>2, <1>3, <1>4, <2>1 DEF TimerTasks, Timing!NoTask
<1>5. CASE interval = 0 /\ ~task.running
  <2>1. Timing!AfterApply(u, interval) = Timing!NoTask
    BY <1>1, <1>5 DEF Timing!AfterApply, TimerTasks
  <2>2. task.running = FALSE
    BY <1>1, <1>5 DEF TimerTasks
  <2>3. Timing!NoTask.running = FALSE /\ Timing!NoTask.interval = 0
    BY DEF Timing!NoTask
  <2> QED
    BY <1>1, <2>1, <2>2, <2>3
<1>6. CASE interval # 0 /\ task = Timing!NoTask
  <2>1. Timing!AfterApply(u, interval) = Timing!Armed(interval)
    BY <1>6 DEF Timing!AfterApply
  <2> QED
    BY <1>6, <2>1 DEF Timing!Armed, TimerTasks, Timing!NoTask
<1>7. CASE interval # 0 /\ task # Timing!NoTask
  <2>1. Timing!AfterApply(u, interval) =
          [task EXCEPT !.retired = FALSE, !.interval = interval,
                       !.armed = @ \/ (interval # task.interval /\ ~task.running)]
    BY <1>7 DEF Timing!AfterApply
  <2> QED
    BY <1>1, <1>2, <1>3, <1>7, <2>1 DEF TimerTasks
<1> QED
  BY <1>4, <1>5, <1>6, <1>7

-----------------------------------------------------------------------------
(* The timer of an application that starts knows nothing. *)
LEMMA QueueInit ==
  ASSUME 0 \in Intervals
  PROVE  Timing!Init => QueueInv
<1> SUFFICES ASSUME Timing!Init PROVE QueueInv
  OBVIOUS
<1>1. commands = <<>> /\ Len(commands) = 0
  BY DEF Timing!Init
<1>2. Timing!NoTask \in TimerTasks
  BY DEF Timing!NoTask, TimerTasks
<1>3. TimerTypes
  BY <1>1, <1>2 DEF Timing!Init, TimerTypes
<1>4. \A u \in Uids : tasks[u] = Timing!NoTask /\ updates[u] = 0 /\ queue[u] = 0
  BY DEF Timing!Init
<1>5. /\ Timing!NoTask.armed = FALSE /\ Timing!NoTask.running = FALSE
       /\ Timing!NoTask.interval = 0 /\ Timing!NoTask.retired = FALSE
  BY DEF Timing!NoTask
<1>6. UpdatesAreMarked
  <2>1. \A u \in Uids : ~Reported(u)
    BY <1>1 DEF Reported
  <2>2. \A u \in Uids : ~tasks[u].running
    BY <1>4, <1>5, Zenon
  <2>3. \A u \in Uids : updates[u] \in {0, 1} /\ updates[u] # 1
    <3>1. 0 \in {0, 1} /\ 0 # 1
      OBVIOUS
    <3> QED
      BY <1>4, <3>1, Zenon
  <2> QED
    BY <2>1, <2>2, <2>3, Zenon DEF UpdatesAreMarked
<1>7. ReportsAreSingle
  BY <1>1 DEF ReportsAreSingle
<1>8. NoTaskUnknown
  BY <1>4 DEF NoTaskUnknown
<1>9. Timing!QueueHoldsTheArmed
  BY <1>4, <1>5 DEF Timing!QueueHoldsTheArmed, Timing!InQueue
<1>10. Timing!NoTaskIsForgotten
  BY <1>4, <1>5 DEF Timing!NoTaskIsForgotten, Timing!Known
<1> QED
  BY <1>3, <1>6, <1>7, <1>8, <1>9, <1>10 DEF QueueInv

(* The scheduler stays as it is when nothing of it changes but what waits in  *)
(* the channel.                                                               *)
LEMMA Beside ==
  ASSUME QueueInv, UNCHANGED <<tasks, queue, updates>>,
         commands' \in Seq(TimerCommands), ReportsAreSingle',
         \A u \in Uids : Reported(u)' <=> Reported(u),
         settings' \in Timing!Schedules, reading' \in Timing!Schedules \cup {Timing!Nothing}, overdue' \subseteq Uids
  PROVE  QueueInv'
<1>1. TimerTypes'
  BY DEF QueueInv, TimerTypes
<1>2. UpdatesAreMarked'
  BY DEF QueueInv, UpdatesAreMarked
<1>3. NoTaskUnknown' /\ Timing!QueueHoldsTheArmed' /\ Timing!NoTaskIsForgotten'
  BY DEF QueueInv, NoTaskUnknown, Timing!QueueHoldsTheArmed, Timing!NoTaskIsForgotten, Timing!Known
<1> QED
  BY <1>1, <1>2, <1>3 DEF QueueInv

(* The same, for steps that leave the channel alone as well. *)
LEMMA Apart ==
  ASSUME QueueInv, UNCHANGED <<commands, tasks, queue, updates>>,
         settings' \in Timing!Schedules, reading' \in Timing!Schedules \cup {Timing!Nothing}, overdue' \subseteq Uids
  PROVE  QueueInv'
<1>1. commands' \in Seq(TimerCommands)
  BY DEF QueueInv, TimerTypes
<1>2. ReportsAreSingle'
  BY DEF QueueInv, ReportsAreSingle, Reports
<1>3. \A u \in Uids : Reported(u)' <=> Reported(u)
  BY DEF Reported, Reports
<1> QED
  BY <1>1, <1>2, <1>3, Beside

(* An update begins: the task loses its entry, if it has one, and is marked. *)
LEMMA Spawned ==
  ASSUME NEW u \in Uids, QueueInv, tasks[u].interval # 0, ~tasks[u].running,
         Timing!MarkRunning(u), Timing!Spawn(u),
         queue' = [queue EXCEPT ![u] = 0],
         commands' \in Seq(TimerCommands), ReportsAreSingle',
         \A v \in Uids : Reported(v)' <=> Reported(v),
         UNCHANGED <<settings, reading, overdue>>
  PROVE  QueueInv'
<1>1. tasks \in [Uids -> TimerTasks] /\ updates \in [Uids -> Int] /\ queue \in [Uids -> Int]
  BY DEF QueueInv, TimerTypes
<1>2. /\ tasks' \in [Uids -> TimerTasks]
      /\ tasks'[u].running = TRUE /\ tasks'[u].armed = FALSE
      /\ tasks'[u].interval # 0
      /\ \A v \in Uids \ {u} : tasks'[v] = tasks[v]
  BY <1>1 DEF Timing!MarkRunning, TimerTasks
<1>3. updates[u] = 0 /\ ~Reported(u)
  BY DEF QueueInv, UpdatesAreMarked
<1>4. updates' \in [Uids -> Int] /\ updates'[u] = 1 /\ \A v \in Uids \ {u} : updates'[v] = updates[v]
  BY <1>1, <1>3 DEF Timing!Spawn
<1>5. TimerTypes'
  BY <1>1, <1>2, <1>4 DEF QueueInv, TimerTypes
<1>6. UpdatesAreMarked'
  BY <1>2, <1>3, <1>4 DEF QueueInv, UpdatesAreMarked
<1>7. NoTaskUnknown'
  BY <1>2 DEF QueueInv, NoTaskUnknown
<1>8. Timing!QueueHoldsTheArmed'
  BY <1>1, <1>2 DEF QueueInv, Timing!QueueHoldsTheArmed, Timing!InQueue
<1>9. Timing!NoTaskIsForgotten'
  BY <1>2 DEF QueueInv, Timing!NoTaskIsForgotten, Timing!Known
<1> QED
  BY <1>5, <1>6, <1>7, <1>8, <1>9 DEF QueueInv

-----------------------------------------------------------------------------
(* A schedule reaches the tasks: entries come and go with what they belong    *)
(* to, and nothing that runs is lost sight of.                                *)
LEMMA StepApply ==
  ASSUME 0 \in Intervals, QueueInv, Timing!ApplyTimerMap
  PROVE  QueueInv'
<1>1. commands # <<>> /\ Head(commands).kind = "apply" /\ commands' = Tail(commands)
  BY DEF Timing!ApplyTimerMap, Timing!Next1
<1>2. /\ commands' \in Seq(TimerCommands) /\ Head(commands) \in TimerCommands
      /\ ReportsAreSingle'
      /\ \A u \in Uids : Reported(u)' <=> Reported(u)
  BY <1>1, TakenNoReport DEF QueueInv
<1>3. \A u \in Uids : Head(commands).schedule[u] \in Intervals
  BY <1>1, <1>2 DEF TimerCommands, Timing!Schedules
<1>4. tasks \in [Uids -> TimerTasks] /\ queue \in [Uids -> Int]
  BY DEF QueueInv, TimerTypes
<1>5. ASSUME NEW u \in Uids
      PROVE  /\ tasks'[u] \in TimerTasks
             /\ tasks'[u].running = tasks[u].running
             /\ tasks'[u].interval = 0 => tasks'[u] = Timing!NoTask
             /\ tasks'[u].interval # 0 =>
                  /\ tasks'[u].retired => tasks'[u].running
                  /\ tasks'[u].armed # tasks'[u].running
  <2>1. tasks'[u] = Timing!AfterApply(u, Head(commands).schedule[u])
    BY DEF Timing!ApplyTimerMap
  <2> QED
    BY <1>3, <1>4, <2>1, ScheduledTasks DEF QueueInv
<1>6. tasks' = [u \in Uids |-> tasks'[u]]
  BY DEF Timing!ApplyTimerMap
<1>7. tasks' \in [Uids -> TimerTasks]
  BY <1>5, <1>6
<1>8. \A u \in Uids : queue'[u] = Timing!InQueue(tasks'[u])
  <2> SUFFICES ASSUME NEW u \in Uids PROVE queue'[u] = Timing!InQueue(tasks'[u])
    OBVIOUS
  <2>1. queue'[u] = queue[u] - Timing!InQueue(tasks[u]) + Timing!InQueue(tasks'[u])
    BY DEF Timing!ApplyTimerMap
  <2>2. queue[u] = Timing!InQueue(tasks[u]) /\ Timing!InQueue(tasks[u]) \in Int /\ Timing!InQueue(tasks'[u]) \in Int
    BY DEF QueueInv, Timing!QueueHoldsTheArmed, Timing!InQueue
  <2> QED
    BY <2>1, <2>2
<1>9. queue' \in [Uids -> Int]
  <2>1. queue' = [u \in Uids |-> queue'[u]]
    BY DEF Timing!ApplyTimerMap
  <2>2. \A u \in Uids : queue'[u] \in Int
    BY <1>8 DEF Timing!InQueue
  <2> QED
    BY <2>1, <2>2
<1>10. TimerTypes'
  BY <1>2, <1>7, <1>9 DEF QueueInv, TimerTypes, Timing!ApplyTimerMap, Timing!inputs, Timing!refreshes, Timing!running
<1>11. UpdatesAreMarked'
  <2>1. updates' = updates
    BY DEF Timing!ApplyTimerMap, Timing!running
  <2> QED
    BY <1>2, <1>5, <2>1 DEF QueueInv, UpdatesAreMarked
<1>12. NoTaskUnknown'
  BY <1>5 DEF NoTaskUnknown
<1>13. Timing!QueueHoldsTheArmed'
  BY <1>8 DEF Timing!QueueHoldsTheArmed
<1>14. Timing!NoTaskIsForgotten'
  BY <1>5 DEF Timing!NoTaskIsForgotten, Timing!Known
<1> QED
  BY <1>2, <1>10, <1>11, <1>12, <1>13, <1>14 DEF QueueInv

(* A profile that is to be updated at once is, unless it is being updated.    *)
LEMMA StepNow ==
  ASSUME QueueInv, Timing!RunTaskNow
  PROVE  QueueInv'
<1> DEFINE u == Head(commands).uid
<1>1. commands # <<>> /\ Head(commands).kind = "now" /\ commands' = Tail(commands)
  BY DEF Timing!RunTaskNow, Timing!Next1
<1>2. /\ commands' \in Seq(TimerCommands) /\ Head(commands) \in TimerCommands
      /\ ReportsAreSingle'
      /\ \A v \in Uids : Reported(v)' <=> Reported(v)
  BY <1>1, TakenNoReport DEF QueueInv
<1>3. PICK w \in Uids : w = u
  BY <1>1, <1>2 DEF TimerCommands
<1>4. UNCHANGED <<settings, reading, overdue>>
  BY DEF Timing!RunTaskNow, Timing!inputs, Timing!refreshes
<1>5. CASE w \notin Timing!Known \/ tasks[w].running
  <2>1. UNCHANGED <<tasks, queue, updates>>
    BY <1>3, <1>5 DEF Timing!RunTaskNow, Timing!scheduler, Timing!running
  <2> QED
    BY <1>2, <1>4, <2>1, Beside DEF QueueInv, TimerTypes
<1>6. CASE ~(w \notin Timing!Known \/ tasks[w].running)
  <2>1. Timing!MarkRunning(w) /\ Timing!Spawn(w) /\ queue' = [queue EXCEPT ![w] = @ - Timing!InQueue(tasks[w])]
    BY <1>3, <1>6 DEF Timing!RunTaskNow
  <2>2. queue[w] = Timing!InQueue(tasks[w]) /\ Timing!InQueue(tasks[w]) \in Int
    BY DEF QueueInv, Timing!QueueHoldsTheArmed, Timing!InQueue
  <2>3. queue' = [queue EXCEPT ![w] = 0]
    <3>1. queue \in [Uids -> Int] /\ queue[w] - Timing!InQueue(tasks[w]) = 0
      BY <2>2 DEF QueueInv, TimerTypes
    <3> QED
      BY <2>1, <3>1
  <2>4. tasks[w].interval # 0 /\ ~tasks[w].running
    BY <1>6 DEF Timing!Known
  <2> QED
    BY <1>2, <1>4, <2>1, <2>3, <2>4, Spawned
<1> QED
  BY <1>5, <1>6

(* An entry that expires belongs to a task that is armed, so that it starts   *)
(* the update of one that does not run.                                       *)
LEMMA StepExpired ==
  ASSUME NEW u \in Uids, QueueInv, Timing!RunExpiredTask(u)
  PROVE  QueueInv'
<1>1. queue \in [Uids -> Int] /\ tasks \in [Uids -> TimerTasks]
  BY DEF QueueInv, TimerTypes
<1>2. queue[u] = Timing!InQueue(tasks[u]) /\ queue[u] > 0
  BY DEF QueueInv, Timing!QueueHoldsTheArmed, Timing!RunExpiredTask
<1>3. tasks[u].armed /\ queue[u] = 1
  BY <1>2 DEF Timing!InQueue
<1>4. tasks[u].interval # 0
  BY <1>3 DEF QueueInv, NoTaskUnknown, Timing!NoTask
<1>5. ~tasks[u].running
  <2>1. tasks[u].armed # tasks[u].running
    BY <1>4 DEF QueueInv, Timing!NoTaskIsForgotten, Timing!Known
  <2>2. tasks[u].armed \in BOOLEAN /\ tasks[u].running \in BOOLEAN
    BY <1>1 DEF TimerTasks
  <2> QED
    BY <1>3, <2>1, <2>2
<1>6. Timing!MarkRunning(u) /\ Timing!Spawn(u) /\ queue' = [queue EXCEPT ![u] = 0]
  BY <1>3, <1>4, <1>5 DEF Timing!RunExpiredTask, Timing!Known
<1>7. UNCHANGED <<commands, settings, reading, overdue>>
  BY DEF Timing!RunExpiredTask, Timing!inputs, Timing!refreshes
<1>8. /\ commands' \in Seq(TimerCommands) /\ ReportsAreSingle'
      /\ \A v \in Uids : Reported(v)' <=> Reported(v)
  BY <1>7 DEF QueueInv, TimerTypes, ReportsAreSingle, Reported, Reports
<1> QED
  BY <1>4, <1>5, <1>6, <1>7, <1>8, Spawned

(* A task whose update has ended is armed again, or gone when it was retired. *)
LEMMA StepFinish ==
  ASSUME 0 \in Intervals, QueueInv, Timing!FinishTask
  PROVE  QueueInv'
<1>1. commands # <<>> /\ Head(commands).kind = "finished" /\ commands' = Tail(commands)
  BY DEF Timing!FinishTask, Timing!Next1
<1>2. Head(commands) \in TimerCommands
  BY <1>1, CommandTaken DEF QueueInv
<1>3. PICK u \in Uids : Head(commands).uid = u
  BY <1>1, <1>2 DEF TimerCommands
<1>4. /\ commands' \in Seq(TimerCommands) /\ ReportsAreSingle'
      /\ Reported(u) /\ ~Reported(u)'
      /\ \A v \in Uids \ {u} : Reported(v)' <=> Reported(v)
  BY <1>1, <1>3, ReportTaken DEF QueueInv
<1>5. tasks \in [Uids -> TimerTasks] /\ queue \in [Uids -> Int]
  BY DEF QueueInv, TimerTypes
<1>6. tasks[u].running /\ updates[u] = 0
  BY <1>4 DEF QueueInv, UpdatesAreMarked
<1>7. tasks[u].interval # 0
  BY <1>6 DEF QueueInv, NoTaskUnknown, Timing!NoTask
<1>8. /\ tasks' = [tasks EXCEPT ![u] = Timing!Finished(@)]
      /\ queue' = [queue EXCEPT ![u] = @ + Timing!InQueue(Timing!Finished(tasks[u]))]
  BY <1>3, <1>7 DEF Timing!FinishTask, Timing!Known
<1>9. queue[u] = 0
  <2>1. tasks[u].armed # tasks[u].running
    BY <1>7 DEF QueueInv, Timing!NoTaskIsForgotten, Timing!Known
  <2>2. tasks[u].armed = FALSE
    BY <1>5, <1>6, <2>1 DEF TimerTasks
  <2> QED
    BY <2>2 DEF QueueInv, Timing!QueueHoldsTheArmed, Timing!InQueue
<1>10. /\ Timing!Finished(tasks[u]) \in TimerTasks
       /\ Timing!Finished(tasks[u]).running = FALSE
       /\ Timing!Finished(tasks[u]).interval = 0 => Timing!Finished(tasks[u]) = Timing!NoTask
       /\ Timing!Finished(tasks[u]).interval # 0 =>
            Timing!Finished(tasks[u]).armed = TRUE /\ Timing!Finished(tasks[u]).retired = FALSE
  <2>1. CASE tasks[u].retired
    <3>1. Timing!Finished(tasks[u]) = Timing!NoTask
      BY <2>1 DEF Timing!Finished
    <3>2. Timing!NoTask \in TimerTasks /\ Timing!NoTask.running = FALSE /\ Timing!NoTask.interval = 0
      BY DEF Timing!NoTask, TimerTasks
    <3> QED
      BY <3>1, <3>2
  <2>2. CASE ~tasks[u].retired
    <3>1. Timing!Finished(tasks[u]) = [tasks[u] EXCEPT !.running = FALSE, !.armed = TRUE]
      BY <2>2 DEF Timing!Finished
    <3> QED
      BY <1>5, <1>7, <2>2, <3>1 DEF TimerTasks
  <2> QED
    BY <2>1, <2>2
<1>11. /\ tasks' \in [Uids -> TimerTasks] /\ tasks'[u] = Timing!Finished(tasks[u])
       /\ \A v \in Uids \ {u} : tasks'[v] = tasks[v]
  BY <1>5, <1>8, <1>10
<1>12. /\ queue' \in [Uids -> Int] /\ queue'[u] = Timing!InQueue(Timing!Finished(tasks[u]))
       /\ \A v \in Uids \ {u} : queue'[v] = queue[v]
  <2>1. Timing!InQueue(Timing!Finished(tasks[u])) \in Int
    BY DEF Timing!InQueue
  <2> QED
    BY <1>5, <1>8, <1>9, <2>1
<1>13. UNCHANGED <<settings, reading, overdue, updates>>
  BY DEF Timing!FinishTask, Timing!inputs, Timing!refreshes, Timing!running
<1>14. TimerTypes'
  BY <1>4, <1>11, <1>12, <1>13 DEF QueueInv, TimerTypes
<1>15. UpdatesAreMarked'
  BY <1>4, <1>6, <1>10, <1>11, <1>13 DEF QueueInv, UpdatesAreMarked
<1>16. NoTaskUnknown'
  BY <1>10, <1>11 DEF QueueInv, NoTaskUnknown
<1>17. Timing!QueueHoldsTheArmed'
  BY <1>11, <1>12 DEF QueueInv, Timing!QueueHoldsTheArmed
<1>18. Timing!NoTaskIsForgotten'
  BY <1>10, <1>11 DEF QueueInv, Timing!NoTaskIsForgotten, Timing!Known
<1> QED
  BY <1>4, <1>14, <1>15, <1>16, <1>17, <1>18 DEF QueueInv

(* An update that ends leaves its report, the first of its profile.           *)
LEMMA StepEnds ==
  ASSUME NEW u \in Uids, QueueInv, Timing!UpdateEnds(u)
  PROVE  QueueInv'
<1> DEFINE report == Timing!TaskFinished(u)
<1>1. report \in TimerCommands /\ report.kind = "finished" /\ report.uid = u
  BY DEF Timing!TaskFinished, Timing!Command, TimerCommands
<1>2. updates[u] = 1 /\ updates \in [Uids -> Int]
  BY DEF QueueInv, TimerTypes, UpdatesAreMarked, Timing!UpdateEnds
<1>3. tasks[u].running /\ ~Reported(u)
  BY <1>2 DEF QueueInv, UpdatesAreMarked
<1>4. /\ commands' \in Seq(TimerCommands)
      /\ Len(commands') = Len(commands) + 1
      /\ \A i \in 1..Len(commands) : commands'[i] = commands[i]
      /\ commands'[Len(commands) + 1] = report
  BY <1>1, CommandSent DEF QueueInv, Timing!UpdateEnds
<1>5. Len(commands) \in Nat
  BY DEF QueueInv, TimerTypes
<1>6. \A v \in Uids : \A i \in 1..Len(commands') :
        Reports(i, v)' <=> \/ i \in 1..Len(commands) /\ Reports(i, v)
                           \/ i = Len(commands) + 1 /\ v = u
  BY <1>1, <1>4, <1>5 DEF Reports
<1>7. Reported(u)'
  BY <1>4, <1>5, <1>6 DEF Reported
<1>8. \A v \in Uids \ {u} : Reported(v)' <=> Reported(v)
  BY <1>4, <1>5, <1>6 DEF Reported
<1>9. ReportsAreSingle'
  <2> SUFFICES ASSUME NEW v \in Uids, NEW i \in 1..Len(commands'), NEW j \in 1..Len(commands'),
                      Reports(i, v)', Reports(j, v)'
               PROVE  i = j
    BY DEF ReportsAreSingle
  <2>1. CASE v = u
    <3>1. \A k \in 1..Len(commands) : ~Reports(k, u)
      BY <1>3 DEF Reported
    <3>2. i = Len(commands) + 1 /\ j = Len(commands) + 1
      BY <1>6, <2>1, <3>1
    <3> QED
      BY <3>2
  <2>2. CASE v # u
    <3>1. /\ i \in 1..Len(commands) /\ Reports(i, v)
          /\ j \in 1..Len(commands) /\ Reports(j, v)
      BY <1>6, <2>2
    <3> QED
      BY <3>1 DEF QueueInv, ReportsAreSingle
  <2> QED
    BY <2>1, <2>2
<1>10. /\ updates' \in [Uids -> Int] /\ updates'[u] = 0
       /\ \A v \in Uids \ {u} : updates'[v] = updates[v]
  BY <1>2 DEF Timing!UpdateEnds
<1>11. UNCHANGED <<settings, reading, overdue, tasks, queue>>
  BY DEF Timing!UpdateEnds, Timing!inputs, Timing!refreshes, Timing!scheduler
<1>12. TimerTypes'
  BY <1>4, <1>10, <1>11 DEF QueueInv, TimerTypes
<1>13. UpdatesAreMarked'
  BY <1>3, <1>7, <1>8, <1>10, <1>11 DEF QueueInv, UpdatesAreMarked
<1>14. NoTaskUnknown' /\ Timing!QueueHoldsTheArmed' /\ Timing!NoTaskIsForgotten'
  BY <1>11 DEF QueueInv, NoTaskUnknown, Timing!QueueHoldsTheArmed, Timing!NoTaskIsForgotten, Timing!Known
<1> QED
  BY <1>9, <1>12, <1>13, <1>14 DEF QueueInv

-----------------------------------------------------------------------------
(* Every step keeps the parts together. *)
LEMMA QueueKeeps ==
  ASSUME 0 \in Intervals, QueueInv, [Timing!Next]_(Timing!vars)
  PROVE  QueueInv'
<1> USE DEF Timing!inputs, Timing!refreshes, Timing!scheduler, Timing!running
<1>1. TimerTypes /\ ReportsAreSingle
  BY DEF QueueInv
<1>2. ASSUME Timing!Change PROVE QueueInv'
  BY <1>1, <1>2, Apart DEF Timing!Change, TimerTypes
<1>3. ASSUME Timing!InitOnce PROVE QueueInv'
  BY <1>1, <1>3, Apart DEF Timing!InitOnce, TimerTypes
<1>4. ASSUME Timing!RunOverdue PROVE QueueInv'
  <2>1. PICK u \in overdue : /\ overdue' = overdue \ {u}
                             /\ commands' = IF settings[u] = 0 THEN commands
                                            ELSE Append(commands, Timing!RunNow(u))
    BY <1>4 DEF Timing!RunOverdue
  <2>2. UNCHANGED <<settings, reading, tasks, queue, updates>>
    BY <1>4 DEF Timing!RunOverdue
  <2>3. overdue' \subseteq Uids
    BY <1>1, <2>1 DEF TimerTypes
  <2>4. CASE settings[u] = 0
    BY <1>1, <2>1, <2>2, <2>3, <2>4, Apart DEF TimerTypes
  <2>5. CASE settings[u] # 0
    <3>1. Timing!RunNow(u) \in TimerCommands /\ Timing!RunNow(u).kind # "finished"
      BY <1>1 DEF Timing!RunNow, Timing!Command, TimerCommands, TimerTypes
    <3>2. /\ commands' \in Seq(TimerCommands) /\ ReportsAreSingle'
          /\ \A v \in Uids : Reported(v)' <=> Reported(v)
      BY <1>1, <2>1, <2>5, <3>1, SentNoReport
    <3> QED
      BY <1>1, <2>2, <2>3, <3>2, Beside DEF TimerTypes
  <2> QED
    BY <2>4, <2>5
<1>5. ASSUME Timing!RefreshReads PROVE QueueInv'
  BY <1>1, <1>5, Apart DEF Timing!RefreshReads, TimerTypes
<1>6. ASSUME Timing!RefreshSends PROVE QueueInv'
  <2>1. UNCHANGED <<settings, overdue, tasks, queue, updates>> /\ reading' = Timing!Nothing
    BY <1>6 DEF Timing!RefreshSends
  <2>2. CASE reading = cache
    <3>1. commands' = commands
      BY <1>6, <2>2 DEF Timing!RefreshSends
    <3> QED
      BY <1>1, <2>1, <3>1, Apart DEF TimerTypes
  <2>3. CASE reading # cache
    <3>1. Timing!Apply(reading) \in TimerCommands /\ Timing!Apply(reading).kind # "finished"
      BY <1>1, <1>6 DEF Timing!RefreshSends, Timing!Apply, Timing!Command, TimerCommands, TimerTypes
    <3>2. commands' = Append(commands, Timing!Apply(reading))
      BY <1>6, <2>3 DEF Timing!RefreshSends
    <3>3. /\ commands' \in Seq(TimerCommands) /\ ReportsAreSingle'
          /\ \A v \in Uids : Reported(v)' <=> Reported(v)
      BY <1>1, <3>1, <3>2, SentNoReport
    <3> QED
      BY <1>1, <2>1, <3>3, Beside DEF TimerTypes
  <2> QED
    BY <2>2, <2>3
<1>7. CASE UNCHANGED Timing!vars
  BY <1>1, <1>7, Apart DEF Timing!vars, TimerTypes
<1>8. ASSUME Timing!Scheduler PROVE QueueInv'
  BY <1>8, StepApply, StepNow, StepExpired, StepFinish DEF Timing!Scheduler
<1>9. ASSUME NEW u \in Uids, Timing!UpdateEnds(u) PROVE QueueInv'
  BY <1>9, StepEnds
<1> QED
  BY <1>2, <1>3, <1>4, <1>5, <1>6, <1>7, <1>8, <1>9
  DEF Timing!Next

-----------------------------------------------------------------------------
(* The schedule: the last one that was sent is the cache, and once none waits *)
(* the tasks are the ones of the cache.                                       *)
Follows(plan) ==
  \A u \in Uids :
    IF plan[u] # 0 THEN tasks[u].interval = plan[u] /\ ~tasks[u].retired
    ELSE tasks[u] = Timing!NoTask \/ tasks[u].retired
NoSchedule(s) == \A i \in 1..Len(s) : s[i].kind # "apply"
LastSchedule(s, plan) ==
  \A i \in 1..Len(s) :
    s[i].kind = "apply" /\ (\A j \in i + 1 .. Len(s) : s[j].kind # "apply") => s[i].schedule = plan

ScheduleTypes ==
  /\ cache \in Timing!Schedules /\ initialized \in BOOLEAN
  /\ callers \in Nat /\ changes \in Nat /\ starts \in Nat
CacheFollows ==
  initialized /\ callers = 0 =>
    IF reading = Timing!Nothing THEN cache = settings ELSE reading = settings
ScheduleInv ==
  /\ ScheduleTypes
  /\ CacheFollows
  /\ LastSchedule(commands, cache)
  /\ NoSchedule(commands) => Follows(cache)

TimerInv == QueueInv /\ ScheduleInv

(* A command that is no schedule changes nothing about the last one.       *)
LEMMA OtherSent ==
  ASSUME NEW s \in Seq(TimerCommands), NEW c \in TimerCommands, c.kind # "apply", NEW plan
  PROVE  /\ NoSchedule(Append(s, c)) => NoSchedule(s)
         /\ LastSchedule(s, plan) => LastSchedule(Append(s, c), plan)
<1>. DEFINE t == Append(s, c)
<1>1. /\ Len(t) = Len(s) + 1 /\ Len(s) \in Nat
      /\ \A i \in 1..Len(s) : t[i] = s[i]
      /\ t[Len(s) + 1] = c
  OBVIOUS
<1>. HIDE DEF t
<1>2. NoSchedule(t) => NoSchedule(s)
  BY <1>1 DEF NoSchedule
<1>3. ASSUME LastSchedule(s, plan) PROVE LastSchedule(t, plan)
  <2>. SUFFICES ASSUME NEW i \in 1..Len(t), t[i].kind = "apply",
                       \A j \in i + 1 .. Len(t) : t[j].kind # "apply"
                PROVE  t[i].schedule = plan
    BY DEF LastSchedule
  <2>1. i # Len(s) + 1
    BY <1>1
  <2>2. i \in 1..Len(s) /\ t[i] = s[i]
    BY <1>1, <2>1
  <2>3. \A j \in i + 1 .. Len(s) : s[j].kind # "apply"
    BY <1>1, <2>2
  <2>4. QED
    BY <1>3, <2>2, <2>3 DEF LastSchedule
<1>4. QED
  BY <1>2, <1>3 DEF t

(* A schedule that is sent is the last one.                                *)
LEMMA ScheduleSent ==
  ASSUME NEW s \in Seq(TimerCommands), NEW c \in TimerCommands, c.kind = "apply"
  PROVE  ~NoSchedule(Append(s, c)) /\ LastSchedule(Append(s, c), c.schedule)
<1>. DEFINE t == Append(s, c)
<1>1. /\ Len(t) = Len(s) + 1 /\ Len(s) \in Nat
      /\ t[Len(s) + 1] = c
  OBVIOUS
<1>. HIDE DEF t
<1>2. Len(s) + 1 \in 1..Len(t)
  BY <1>1
<1>3. ~NoSchedule(t)
  BY <1>1, <1>2 DEF NoSchedule
<1>4. LastSchedule(t, c.schedule)
  <2>. SUFFICES ASSUME NEW i \in 1..Len(t), t[i].kind = "apply",
                       \A j \in i + 1 .. Len(t) : t[j].kind # "apply"
                PROVE  t[i].schedule = c.schedule
    BY DEF LastSchedule
  <2>1. i = Len(s) + 1
    <3>1. CASE i < Len(s) + 1
      <4>1. Len(s) + 1 \in i + 1 .. Len(t)
        BY <1>1, <3>1
      <4>2. QED
        BY <1>1, <4>1
    <3>2. QED
      BY <1>1, <3>1
  <2>2. QED
    BY <1>1, <2>1
<1>5. QED
  BY <1>3, <1>4 DEF t

(* A command that is taken leaves the last schedule, or was it.            *)
LEMMA ScheduleTaken ==
  ASSUME NEW s \in Seq(TimerCommands), s # <<>>, NEW plan, LastSchedule(s, plan)
  PROVE  /\ LastSchedule(Tail(s), plan)
         /\ NoSchedule(Tail(s)) => \/ Head(s).kind # "apply" /\ NoSchedule(s)
                                   \/ Head(s).kind = "apply" /\ Head(s).schedule = plan
<1>. DEFINE t == Tail(s)
<1>1. /\ Len(t) = Len(s) - 1 /\ Len(s) \in Nat \ {0}
      /\ \A i \in 1..Len(t) : t[i] = s[i + 1]
      /\ Head(s) = s[1]
  OBVIOUS
<1>. HIDE DEF t
<1>2. LastSchedule(t, plan)
  <2>. SUFFICES ASSUME NEW i \in 1..Len(t), t[i].kind = "apply",
                       \A j \in i + 1 .. Len(t) : t[j].kind # "apply"
                PROVE  t[i].schedule = plan
    BY DEF LastSchedule
  <2>1. i + 1 \in 1..Len(s) /\ s[i + 1].kind = "apply" /\ t[i] = s[i + 1]
    BY <1>1
  <2>2. ASSUME NEW j \in (i + 1) + 1 .. Len(s) PROVE s[j].kind # "apply"
    <3>1. j - 1 \in i + 1 .. Len(t) /\ j - 1 \in 1..Len(t) /\ (j - 1) + 1 = j
      BY <1>1
    <3>2. t[j - 1].kind # "apply" /\ t[j - 1] = s[(j - 1) + 1]
      BY <1>1, <3>1
    <3>3. QED
      BY <3>1, <3>2
  <2>3. QED
    BY <2>1, <2>2 DEF LastSchedule
<1>3. ASSUME NoSchedule(t) PROVE \A j \in 2..Len(s) : s[j].kind # "apply"
  <2>. SUFFICES ASSUME NEW j \in 2..Len(s) PROVE s[j].kind # "apply"
    OBVIOUS
  <2>1. j - 1 \in 1..Len(t) /\ (j - 1) + 1 = j
    BY <1>1
  <2>2. t[j - 1].kind # "apply" /\ t[j - 1] = s[(j - 1) + 1]
    BY <1>1, <1>3, <2>1 DEF NoSchedule
  <2>3. QED
    BY <2>1, <2>2
<1>4. ASSUME NoSchedule(t), Head(s).kind # "apply" PROVE NoSchedule(s)
  BY <1>1, <1>3, <1>4 DEF NoSchedule
<1>5. ASSUME NoSchedule(t), Head(s).kind = "apply" PROVE Head(s).schedule = plan
  <2>1. 1 \in 1..Len(s) /\ s[1].kind = "apply" /\ 1 + 1 = 2
    BY <1>1, <1>5
  <2>2. \A j \in 1 + 1 .. Len(s) : s[j].kind # "apply"
    BY <1>3, <1>5
  <2>3. s[1].schedule = plan
    BY <2>1, <2>2 DEF LastSchedule
  <2>4. QED
    BY <1>1, <2>3
<1>6. QED
  BY <1>2, <1>4, <1>5 DEF t

(* A channel that only loses its first command, none of them a schedule, and  *)
(* tasks that keep their intervals and their retirement, follow as before.    *)
LEMMA ScheduleBeside ==
  ASSUME ScheduleInv, UNCHANGED <<settings, cache, callers, reading, initialized, changes>>,
         starts' \in Nat,
         LastSchedule(commands', cache),
         NoSchedule(commands') => NoSchedule(commands),
         Follows(cache) => Follows(cache)'
  PROVE  ScheduleInv'
<1>1. ScheduleTypes' /\ CacheFollows'
  BY DEF ScheduleInv, ScheduleTypes, CacheFollows
<1>2. cache' = cache
  OBVIOUS
<1>3. NoSchedule(commands)' => Follows(cache)'
  BY DEF ScheduleInv, NoSchedule
<1>4. LastSchedule(commands, cache)'
  BY <1>2 DEF LastSchedule
<1>5. QED
  BY <1>1, <1>3, <1>4 DEF ScheduleInv

(* Tasks that only change how they run follow the schedule as before.      *)
LEMMA MarkedFollow ==
  ASSUME NEW u \in Uids, tasks \in [Uids -> TimerTasks], tasks[u].interval # 0,
         tasks' \in [Uids -> TimerTasks],
         tasks'[u].interval = tasks[u].interval, tasks'[u].retired = tasks[u].retired,
         \A v \in Uids \ {u} : tasks'[v] = tasks[v]
  PROVE  \A plan : Follows(plan) => Follows(plan)'
<1>1. tasks[u] # Timing!NoTask
  BY DEF Timing!NoTask
<1>. TAKE plan
<1>. HAVE Follows(plan)
<1>2. ASSUME NEW v \in Uids
      PROVE IF plan[v] # 0 THEN tasks'[v].interval = plan[v] /\ ~tasks'[v].retired
            ELSE tasks'[v] = Timing!NoTask \/ tasks'[v].retired
  <2>1. IF plan[v] # 0 THEN tasks[v].interval = plan[v] /\ ~tasks[v].retired
        ELSE tasks[v] = Timing!NoTask \/ tasks[v].retired
    BY DEF Follows
  <2>2. CASE v = u
    BY <1>1, <2>1, <2>2
  <2>3. CASE v # u
    BY <2>1, <2>3
  <2>4. QED
    BY <2>2, <2>3
<1>3. QED
  BY <1>2 DEF Follows

-----------------------------------------------------------------------------
(* The schedule, step by step *)

(* Without profiles there is one schedule only, which is the empty list.   *)
LEMMA OneEmptySchedule ==
  ASSUME Timing!Nothing \in Timing!Schedules
  PROVE  \A f, g \in Timing!Schedules : f = g
<1>1. Uids = {}
  <2>1. DOMAIN Timing!Nothing = {}
    BY DEF Timing!Nothing
  <2>2. DOMAIN Timing!Nothing = Uids
    BY Zenon DEF Timing!Schedules
  <2>3. QED
    BY <2>1, <2>2
<1>2. QED
  BY <1>1 DEF Timing!Schedules

(* The timer of an application that starts has scheduled nothing.          *)
LEMMA TimerInit ==
  ASSUME 0 \in Intervals
  PROVE  Timing!Init => TimerInv
<1>. SUFFICES ASSUME Timing!Init PROVE TimerInv
  OBVIOUS
<1>1. QueueInv
  BY QueueInit
<1>2. cache = [u \in Uids |-> 0] /\ callers = 0 /\ initialized = FALSE /\ changes = 0 /\ starts = 0
      /\ commands = <<>> /\ tasks = [u \in Uids |-> Timing!NoTask]
  BY DEF Timing!Init
<1>3. ScheduleTypes
  BY <1>2 DEF ScheduleTypes, Timing!Schedules
<1>4. CacheFollows
  BY <1>2, Zenon DEF CacheFollows
<1>5. LastSchedule(commands, cache)
  BY <1>2 DEF LastSchedule
<1>6. Follows(cache)
  <2>1. \A u \in Uids : cache[u] = 0 /\ tasks[u] = Timing!NoTask
    BY <1>2, Zenon
  <2>2. QED
    BY <2>1, Zenon DEF Follows
<1>7. QED
  BY <1>1, <1>3, <1>4, <1>5, <1>6 DEF TimerInv, ScheduleInv

(* What an applied schedule leaves follows it.                             *)
LEMMA AppliedFollows ==
  ASSUME NEW u \in Uids, NEW interval \in Intervals, tasks \in [Uids -> TimerTasks], NEW after,
         after = Timing!AfterApply(u, interval)
  PROVE  IF interval # 0 THEN after.interval = interval /\ ~after.retired
         ELSE after = Timing!NoTask \/ after.retired
<1>. DEFINE task == tasks[u]
<1>1. task \in TimerTasks
  OBVIOUS
<1>2. CASE interval = 0 /\ task.running
  <2>1. after = [task EXCEPT !.armed = FALSE, !.retired = TRUE]
    BY <1>2 DEF Timing!AfterApply
  <2>2. QED
    BY <1>1, <1>2, <2>1 DEF TimerTasks
<1>3. CASE interval = 0 /\ ~task.running
  BY <1>3 DEF Timing!AfterApply
<1>4. CASE interval # 0 /\ task = Timing!NoTask
  <2>1. after = Timing!Armed(interval)
    BY <1>4 DEF Timing!AfterApply
  <2>2. QED
    BY <1>4, <2>1 DEF Timing!Armed, Timing!NoTask
<1>5. CASE interval # 0 /\ task # Timing!NoTask
  <2>1. after =
          [task EXCEPT !.retired = FALSE, !.interval = interval,
                       !.armed = @ \/ (interval # task.interval /\ ~task.running)]
    BY <1>5 DEF Timing!AfterApply
  <2>2. QED
    BY <1>1, <1>5, <2>1 DEF TimerTasks
<1>6. QED
  BY <1>2, <1>3, <1>4, <1>5

(* Changing and reading the settings keeps the schedule on its way.        *)
LEMMA AskedKeeps ==
  ASSUME TimerTypes, ScheduleInv,
         Timing!Change \/ Timing!InitOnce \/ Timing!RefreshReads
  PROVE  ScheduleInv'
<1>1. ScheduleTypes /\ CacheFollows /\ LastSchedule(commands, cache)
      /\ (NoSchedule(commands) => Follows(cache))
  BY DEF ScheduleInv
<1>2. UNCHANGED <<cache, commands, tasks, starts>> /\ callers \in Nat
  BY <1>1 DEF Timing!Change, Timing!InitOnce, Timing!RefreshReads, Timing!inputs, Timing!scheduler,
     Timing!running, ScheduleTypes
<1>3. ScheduleTypes'
  <2>1. changes \in Nat /\ callers \in Nat
    BY <1>1 DEF ScheduleTypes
  <2>2. callers' \in Nat /\ changes' \in Nat
    BY <2>1 DEF Timing!Change, Timing!InitOnce, Timing!RefreshReads, Timing!inputs
  <2>3. initialized' \in BOOLEAN
    BY <1>1 DEF Timing!Change, Timing!InitOnce, Timing!RefreshReads, ScheduleTypes
  <2>4. QED
    BY <1>1, <1>2, <2>2, <2>3 DEF ScheduleTypes
<1>4. CacheFollows'
  <2>1. CASE Timing!Change \/ Timing!InitOnce
    <3>1. callers' # 0
      BY <1>2, <2>1 DEF Timing!Change, Timing!InitOnce
    <3>2. QED
      BY <3>1 DEF CacheFollows
  <2>2. CASE Timing!RefreshReads
    <3>1. reading' = settings /\ settings' = settings /\ cache' = cache
      BY <2>2 DEF Timing!RefreshReads, Timing!inputs
    <3>2. settings \in Timing!Schedules /\ cache \in Timing!Schedules
      BY <1>1 DEF TimerTypes, ScheduleTypes
    <3>3. settings = Timing!Nothing => cache = settings
      BY <3>2, OneEmptySchedule
    <3>4. QED
      BY <3>1, <3>3 DEF CacheFollows
  <2>3. QED
    BY <2>1, <2>2
<1>5. LastSchedule(commands, cache)'
  BY <1>1, <1>2 DEF LastSchedule
<1>6. NoSchedule(commands)' => Follows(cache)'
  BY <1>1, <1>2 DEF NoSchedule, Follows
<1>7. QED
  BY <1>3, <1>4, <1>5, <1>6 DEF ScheduleInv

(* A refresh makes the cache what it read, and sends it when it is new.    *)
LEMMA SentKeeps ==
  ASSUME TimerTypes, ScheduleInv, Timing!RefreshSends
  PROVE  ScheduleInv'
<1>1. ScheduleTypes /\ CacheFollows /\ LastSchedule(commands, cache)
      /\ (NoSchedule(commands) => Follows(cache))
  BY DEF ScheduleInv
<1>2. /\ reading # Timing!Nothing /\ cache' = reading /\ reading' = Timing!Nothing
      /\ UNCHANGED <<settings, callers, initialized, tasks, changes, starts>>
  BY DEF Timing!RefreshSends, Timing!inputs, Timing!scheduler, Timing!running
<1>3. reading \in Timing!Schedules /\ commands \in Seq(TimerCommands)
  BY <1>2 DEF TimerTypes
<1>4. ScheduleTypes' /\ CacheFollows'
  BY <1>1, <1>2, <1>3 DEF ScheduleTypes, CacheFollows
<1>5. CASE reading = cache
  <2>1. commands' = commands /\ cache' = cache
    BY <1>2, <1>5 DEF Timing!RefreshSends
  <2>2. LastSchedule(commands, cache)' /\ (NoSchedule(commands)' => Follows(cache)')
    BY <1>1, <1>2, <2>1 DEF LastSchedule, NoSchedule, Follows
  <2>3. QED
    BY <1>4, <2>2 DEF ScheduleInv
<1>6. CASE reading # cache
  <2>1. commands' = Append(commands, Timing!Apply(reading))
    BY <1>6 DEF Timing!RefreshSends
  <2>2. /\ Timing!Apply(reading) \in TimerCommands /\ Timing!Apply(reading).kind = "apply"
        /\ Timing!Apply(reading).schedule = reading
    BY <1>3 DEF Timing!Apply, Timing!Command, TimerCommands
  <2>3. ~NoSchedule(commands') /\ LastSchedule(commands', reading)
    BY <1>3, <2>1, <2>2, ScheduleSent
  <2>4. QED
    BY <1>2, <1>4, <2>3 DEF ScheduleInv, NoSchedule, LastSchedule
<1>7. QED
  BY <1>5, <1>6

(* A schedule that is applied is followed, if it was the last.             *)
LEMMA AppliedKeeps ==
  ASSUME TimerTypes, ScheduleInv, Timing!ApplyTimerMap
  PROVE  ScheduleInv'
<1>1. commands # <<>> /\ Head(commands).kind = "apply" /\ commands' = Tail(commands)
  BY DEF Timing!ApplyTimerMap, Timing!Next1
<1>2. /\ UNCHANGED <<settings, cache, callers, reading, initialized, changes, starts>>
      /\ tasks' = [u \in Uids |-> Timing!AfterApply(u, Head(commands).schedule[u])]
  BY DEF Timing!ApplyTimerMap, Timing!inputs, Timing!refreshes, Timing!running
<1>3. ScheduleTypes /\ CacheFollows /\ LastSchedule(commands, cache)
  BY DEF ScheduleInv
<1>4. commands \in Seq(TimerCommands) /\ tasks \in [Uids -> TimerTasks]
  BY DEF TimerTypes
<1>5. /\ LastSchedule(commands', cache)
      /\ NoSchedule(commands') => Head(commands).schedule = cache
  BY <1>1, <1>3, <1>4, ScheduleTaken
<1>6. ASSUME NoSchedule(commands') PROVE Follows(cache)'
  <2>1. Head(commands).schedule = cache
    BY <1>5, <1>6
  <2>2. ASSUME NEW u \in Uids
        PROVE IF cache[u] # 0 THEN tasks'[u].interval = cache[u] /\ ~tasks'[u].retired
              ELSE tasks'[u] = Timing!NoTask \/ tasks'[u].retired
    <3>1. cache[u] \in Intervals
      BY <1>3 DEF ScheduleTypes, Timing!Schedules
    <3>2. tasks'[u] = Timing!AfterApply(u, cache[u])
      BY <1>2, <2>1
    <3>3. QED
      BY <1>4, <3>1, <3>2, AppliedFollows
  <2>3. QED
    BY <1>2, <2>2 DEF Follows
<1>7. ScheduleTypes' /\ CacheFollows'
  BY <1>2, <1>3 DEF ScheduleTypes, CacheFollows
<1>8. LastSchedule(commands, cache)' /\ (NoSchedule(commands)' => Follows(cache)')
  BY <1>2, <1>5, <1>6 DEF LastSchedule, NoSchedule
<1>9. QED
  BY <1>7, <1>8 DEF ScheduleInv

(* The other commands: an update at once, and a report.                    *)
LEMMA OtherTakenKeeps ==
  ASSUME QueueInv, QueueInv', ScheduleInv, Timing!RunTaskNow \/ Timing!FinishTask
  PROVE  ScheduleInv'
<1>. DEFINE u == Head(commands).uid
<1>1. commands # <<>> /\ commands' = Tail(commands) /\ Head(commands).kind # "apply"
      /\ UNCHANGED <<settings, cache, callers, reading, initialized, changes>>
  BY DEF Timing!RunTaskNow, Timing!FinishTask, Timing!Next1, Timing!inputs, Timing!refreshes
<1>2. commands \in Seq(TimerCommands) /\ tasks \in [Uids -> TimerTasks] /\ tasks' \in [Uids -> TimerTasks]
  BY DEF QueueInv, TimerTypes
<1>3. LastSchedule(commands, cache) /\ ScheduleTypes
  BY DEF ScheduleInv
<1>4. LastSchedule(commands', cache) /\ (NoSchedule(commands') => NoSchedule(commands))
  BY <1>1, <1>2, <1>3, ScheduleTaken
<1>5. CASE tasks' = tasks /\ starts' \in Nat
  <2>1. Follows(cache) => Follows(cache)'
    BY <1>1, <1>5 DEF Follows
  <2>2. QED
    BY <1>1, <1>4, <1>5, <2>1, ScheduleBeside
<1>6. CASE /\ Timing!RunTaskNow /\ u \in Timing!Known /\ Timing!MarkRunning(u)
           /\ Timing!Spawn(u)
  <2>1. u \in Uids /\ tasks[u].interval # 0
    BY <1>6 DEF Timing!Known
  <2>2. /\ tasks'[u].interval = tasks[u].interval /\ tasks'[u].retired = tasks[u].retired
        /\ \A v \in Uids \ {u} : tasks'[v] = tasks[v]
    BY <1>2, <1>6, <2>1 DEF Timing!MarkRunning, TimerTasks
  <2>3. starts' \in Nat
    BY <1>3, <1>6 DEF Timing!Spawn, ScheduleTypes
  <2>4. \A plan : Follows(plan) => Follows(plan)'
    BY <1>2, <2>1, <2>2, MarkedFollow
  <2>5. Follows(cache) => Follows(cache)'
    BY <1>1, <2>4 DEF Follows
  <2>6. QED
    BY <1>1, <1>4, <2>3, <2>5, ScheduleBeside
<1>7. CASE Timing!FinishTask /\ u \in Timing!Known
  <2>1. PICK w \in Uids : w = u /\ tasks[w].interval # 0
    BY <1>7 DEF Timing!Known
  <2>2. tasks' = [tasks EXCEPT ![w] = Timing!Finished(@)] /\ starts' = starts
    BY <1>7, <2>1 DEF Timing!FinishTask, Timing!running
  <2>3. tasks'[w] = Timing!Finished(tasks[w]) /\ \A v \in Uids \ {w} : tasks'[v] = tasks[v]
    BY <1>2, <2>1, <2>2
  <2>4. starts' \in Nat
    BY <1>3, <2>2 DEF ScheduleTypes
  <2>5. CASE tasks[w].retired
    <3>1. tasks'[w] = Timing!NoTask
      BY <2>3, <2>5 DEF Timing!Finished
    <3>2. Follows(cache) => Follows(cache)'
      <4>. SUFFICES ASSUME Follows(cache), NEW v \in Uids
                    PROVE  IF cache[v] # 0 THEN tasks'[v].interval = cache[v] /\ ~tasks'[v].retired
                           ELSE tasks'[v] = Timing!NoTask \/ tasks'[v].retired
        BY <1>1 DEF Follows
      <4>1. IF cache[v] # 0 THEN tasks[v].interval = cache[v] /\ ~tasks[v].retired
            ELSE tasks[v] = Timing!NoTask \/ tasks[v].retired
        BY DEF Follows
      <4>2. QED
        BY <2>3, <2>5, <3>1, <4>1
    <3>3. QED
      BY <1>1, <1>4, <2>4, <3>2, ScheduleBeside
  <2>6. CASE ~tasks[w].retired
    <3>1. tasks'[w] = [tasks[w] EXCEPT !.running = FALSE, !.armed = TRUE]
      BY <2>3, <2>6 DEF Timing!Finished
    <3>2. tasks'[w].interval = tasks[w].interval /\ tasks'[w].retired = tasks[w].retired
      BY <1>2, <3>1 DEF TimerTasks
    <3>3. \A plan : Follows(plan) => Follows(plan)'
      BY <1>2, <2>1, <2>3, <3>2, MarkedFollow
    <3>4. Follows(cache) => Follows(cache)'
      BY <1>1, <3>3 DEF Follows
    <3>5. QED
      BY <1>1, <1>4, <2>4, <3>4, ScheduleBeside
  <2>7. QED
    BY <2>5, <2>6
<1>8. QED
  <2>1. starts \in Nat
    BY <1>3 DEF ScheduleTypes
  <2>2. CASE Timing!RunTaskNow
    <3>1. \/ UNCHANGED <<Timing!scheduler, Timing!running>>
          \/ u \in Timing!Known /\ Timing!MarkRunning(u) /\ Timing!Spawn(u)
      BY <2>2 DEF Timing!RunTaskNow
    <3>2. CASE UNCHANGED <<Timing!scheduler, Timing!running>>
      BY <1>5, <2>1, <3>2 DEF Timing!scheduler, Timing!running
    <3>3. QED
      BY <1>6, <2>2, <3>1, <3>2
  <2>3. CASE Timing!FinishTask
    <3>1. CASE u \in Timing!Known
      BY <1>7, <2>3, <3>1
    <3>2. CASE u \notin Timing!Known
      BY <1>5, <2>1, <2>3, <3>2 DEF Timing!FinishTask, Timing!scheduler, Timing!running
    <3>3. QED
      BY <3>1, <3>2
  <2>4. QED
    BY <2>2, <2>3

(* An entry that expires.                                                  *)
LEMMA ExpiredKeeps ==
  ASSUME NEW u \in Uids, QueueInv, QueueInv', ScheduleInv, Timing!RunExpiredTask(u)
  PROVE  ScheduleInv'
<1>1. UNCHANGED <<settings, cache, callers, reading, initialized, changes, commands>>
  BY DEF Timing!RunExpiredTask, Timing!inputs, Timing!refreshes
<1>2. tasks \in [Uids -> TimerTasks] /\ tasks' \in [Uids -> TimerTasks]
  BY DEF QueueInv, TimerTypes
<1>3. LastSchedule(commands, cache) /\ ScheduleTypes
  BY DEF ScheduleInv
<1>4. LastSchedule(commands', cache) /\ (NoSchedule(commands') => NoSchedule(commands))
  BY <1>1, <1>3
<1>5. /\ starts' \in Nat
      /\ \/ tasks' = tasks
         \/ /\ tasks[u].interval # 0
            /\ tasks'[u].interval = tasks[u].interval /\ tasks'[u].retired = tasks[u].retired
            /\ \A v \in Uids \ {u} : tasks'[v] = tasks[v]
  <2>1. CASE u \notin Timing!Known
    BY <1>3, <2>1 DEF Timing!RunExpiredTask, Timing!running, ScheduleTypes
  <2>2. CASE u \in Timing!Known /\ tasks[u].running
    <3>1. tasks' = [tasks EXCEPT ![u].armed = FALSE] /\ starts' = starts
      BY <2>2 DEF Timing!RunExpiredTask, Timing!running
    <3>2. QED
      BY <1>2, <1>3, <2>2, <3>1 DEF Timing!Known, TimerTasks, ScheduleTypes
  <2>3. CASE u \in Timing!Known /\ ~tasks[u].running
    <3>1. Timing!MarkRunning(u) /\ Timing!Spawn(u)
      BY <2>3 DEF Timing!RunExpiredTask
    <3>2. tasks' = [tasks EXCEPT ![u].running = TRUE, ![u].armed = FALSE] /\ starts' = starts + 1
      BY <3>1 DEF Timing!MarkRunning, Timing!Spawn
    <3>3. QED
      BY <1>2, <1>3, <2>3, <3>2 DEF Timing!Known, TimerTasks, ScheduleTypes
  <2>4. QED
    BY <2>1, <2>2, <2>3
<1>6. Follows(cache) => Follows(cache)'
  <2>1. CASE tasks' = tasks
    BY <1>1, <2>1 DEF Follows
  <2>2. CASE tasks' # tasks
    <3>1. \A plan : Follows(plan) => Follows(plan)'
      BY <1>2, <1>5, <2>2, MarkedFollow
    <3>2. QED
      BY <1>1, <3>1 DEF Follows
  <2>3. QED
    BY <2>1, <2>2
<1>7. QED
  BY <1>1, <1>4, <1>5, <1>6, ScheduleBeside

(* A command that is sent beside the schedules: an overdue profile, and the   *)
(* report of an update that ended.                                            *)
LEMMA OtherSentKeeps ==
  ASSUME TimerTypes, ScheduleInv, NEW c \in TimerCommands, c.kind # "apply",
         commands' = Append(commands, c),
         UNCHANGED <<settings, cache, callers, reading, initialized, changes, starts, tasks>>
  PROVE  ScheduleInv'
<1>1. LastSchedule(commands, cache) /\ commands \in Seq(TimerCommands) /\ starts \in Nat
  BY DEF ScheduleInv, TimerTypes, ScheduleTypes
<1>2. LastSchedule(commands', cache) /\ (NoSchedule(commands') => NoSchedule(commands))
  BY <1>1, OtherSent
<1>3. Follows(cache) => Follows(cache)'
  BY DEF Follows
<1>4. QED
  BY <1>1, <1>2, <1>3, ScheduleBeside

(* What changes nothing of the schedule keeps it. *)
LEMMA NothingKeeps ==
  ASSUME ScheduleInv,
         UNCHANGED <<settings, cache, callers, reading, initialized, changes, starts, tasks, commands>>
  PROVE  ScheduleInv'
<1>1. ScheduleTypes' /\ CacheFollows'
  BY DEF ScheduleInv, ScheduleTypes, CacheFollows
<1>2. LastSchedule(commands, cache)' /\ (NoSchedule(commands)' => Follows(cache)')
  BY DEF ScheduleInv, LastSchedule, NoSchedule, Follows
<1>3. QED
  BY <1>1, <1>2 DEF ScheduleInv

(* Every step of the timer keeps the invariant.                            *)
LEMMA TimerKeeps ==
  ASSUME 0 \in Intervals, TimerInv, [Timing!Next]_(Timing!vars)
  PROVE  TimerInv'
<1>1. QueueInv /\ ScheduleInv /\ QueueInv'
  BY QueueKeeps DEF TimerInv
<1>2. TimerTypes
  BY <1>1 DEF QueueInv
<1>3. ASSUME Timing!RunOverdue PROVE ScheduleInv'
  <2>1. PICK u \in overdue :
          commands' = IF settings[u] = 0 THEN commands ELSE Append(commands, Timing!RunNow(u))
    BY <1>3 DEF Timing!RunOverdue
  <2>2. UNCHANGED <<settings, cache, callers, reading, initialized, changes, starts, tasks>>
    BY <1>3 DEF Timing!RunOverdue, Timing!inputs, Timing!refreshes, Timing!scheduler, Timing!running
  <2>3. CASE settings[u] = 0
    BY <1>1, <2>1, <2>2, <2>3, NothingKeeps
  <2>4. CASE settings[u] # 0
    <3>1. Timing!RunNow(u) \in TimerCommands /\ Timing!RunNow(u).kind # "apply"
      BY <1>2, <2>1 DEF Timing!RunNow, Timing!Command, TimerCommands, TimerTypes
    <3>2. QED
      BY <1>1, <1>2, <2>1, <2>2, <2>4, <3>1, OtherSentKeeps
  <2>5. QED
    BY <2>3, <2>4
<1>4. ASSUME NEW u \in Uids, Timing!UpdateEnds(u) PROVE ScheduleInv'
  <2>1. /\ commands' = Append(commands, Timing!TaskFinished(u))
        /\ UNCHANGED <<settings, cache, callers, reading, initialized, changes, starts, tasks>>
    BY <1>4 DEF Timing!UpdateEnds, Timing!inputs, Timing!refreshes, Timing!scheduler
  <2>2. Timing!TaskFinished(u) \in TimerCommands /\ Timing!TaskFinished(u).kind # "apply"
    BY DEF Timing!TaskFinished, Timing!Command, TimerCommands
  <2>3. QED
    BY <1>1, <1>2, <2>1, <2>2, OtherSentKeeps
<1>5. ASSUME Timing!Scheduler PROVE ScheduleInv'
  <2>1. CASE Timing!ApplyTimerMap
    BY <1>1, <1>2, <2>1, AppliedKeeps
  <2>2. CASE Timing!RunTaskNow \/ Timing!FinishTask
    BY <1>1, <2>2, OtherTakenKeeps
  <2>3. ASSUME NEW u \in Uids, Timing!RunExpiredTask(u) PROVE ScheduleInv'
    BY <1>1, <2>3, ExpiredKeeps
  <2>4. QED
    BY <1>5, <2>1, <2>2, <2>3 DEF Timing!Scheduler
<1>6. ASSUME Timing!Change \/ Timing!InitOnce \/ Timing!RefreshReads PROVE ScheduleInv'
  BY <1>1, <1>2, <1>6, AskedKeeps
<1>7. ASSUME Timing!RefreshSends PROVE ScheduleInv'
  BY <1>1, <1>2, <1>7, SentKeeps
<1>8. ASSUME UNCHANGED Timing!vars PROVE ScheduleInv'
  <2>1. UNCHANGED <<settings, cache, callers, reading, initialized, changes, starts, tasks, commands>>
    BY <1>8 DEF Timing!vars, Timing!inputs, Timing!refreshes, Timing!scheduler, Timing!running
  <2>2. QED
    BY <1>1, <2>1, NothingKeeps
<1>9. ScheduleInv'
  BY <1>3, <1>4, <1>5, <1>6, <1>7, <1>8 DEF Timing!Next
<1>10. QED
  BY <1>1, <1>9 DEF TimerInv

(* The invariant says what the runs check of the timer.                    *)
LEMMA TimerShows ==
  TimerInv => /\ Timing!TypeOK /\ Timing!OneUpdatePerProfile /\ Timing!QueueHoldsTheArmed
              /\ Timing!NoTaskIsForgotten /\ Timing!ScheduleFollowsSettings
<1>. SUFFICES ASSUME TimerInv
     PROVE  /\ Timing!TypeOK /\ Timing!OneUpdatePerProfile /\ Timing!QueueHoldsTheArmed
            /\ Timing!NoTaskIsForgotten /\ Timing!ScheduleFollowsSettings
  OBVIOUS
<1>1. QueueInv /\ ScheduleInv /\ TimerTypes /\ ScheduleTypes
  BY DEF TimerInv, QueueInv, ScheduleInv
<1>2. Timing!TypeOK
  BY <1>1 DEF Timing!TypeOK, TimerTypes, ScheduleTypes, TimerTasks
<1>3. Timing!OneUpdatePerProfile
  <2>1. UpdatesAreMarked
    BY <1>1 DEF QueueInv
  <2>2. \A u \in Uids : updates[u] \in {0, 1}
    BY <2>1, Zenon DEF UpdatesAreMarked
  <2>3. \A u \in Uids : updates[u] <= 1
    <3>1. \A n \in {0, 1} : n <= 1
      OBVIOUS
    <3>2. QED
      BY <2>2, <3>1, Zenon
  <2>4. QED
    BY <2>3, Zenon DEF Timing!OneUpdatePerProfile
<1>4. Timing!QueueHoldsTheArmed /\ Timing!NoTaskIsForgotten
  BY <1>1 DEF QueueInv
<1>5. Timing!ScheduleFollowsSettings
  <2>. SUFFICES ASSUME initialized, callers = 0, reading = Timing!Nothing, commands = <<>>
                PROVE  Follows(settings)
    BY Zenon DEF Timing!ScheduleFollowsSettings, Follows
  <2>1. cache = settings
    BY <1>1 DEF ScheduleInv, CacheFollows
  <2>2. NoSchedule(commands)
    BY DEF NoSchedule
  <2>3. QED
    BY <1>1, <2>1, <2>2 DEF ScheduleInv
<1>6. QED
  BY <1>2, <1>3, <1>4, <1>5

-----------------------------------------------------------------------------
(* The owner watch *)

WatchSizes == Sustained \in Nat \ {0} /\ MaxReadings \in Nat
Said == {"unreadable", "inactive", "core", "settling", "gone"}
IsAnswer(r) == r \notin {"unreadable", "inactive"}

(* The counters stay within the readings, and what was read is one of five. *)
WatchTypes ==
  /\ readings \in Seq(Said) /\ Len(readings) <= MaxReadings
  /\ unreadable \in Nat /\ unreadable <= Len(readings)
  /\ missing \in Nat /\ missing <= Len(readings)
  /\ step \in Watch!Verdicts \cup {Watch!Continue, Watch!VerifyTransport}
  /\ status \in Watch!Status /\ endpoint \in BOOLEAN
  /\ answered \in Nat /\ answered <= Len(readings)

(* The last u readings were all unreadable. *)
UnreadableRun(s, u) ==
  \A i \in 1..Len(s) : i > Len(s) - u => s[i] = "unreadable"

(* What was counted before goes back to the last reading that could be read   *)
(* or the last answer of the Core.                                            *)
CountedFromTheStart(s, u, a) ==
  /\ a <= Len(s) - u
  /\ \/ Len(s) - u = 0 \/ Len(s) - u = a
     \/ s[Len(s) - u] # "unreadable"

(* All the answers after reading k, count of them, were without a Core, and   *)
(* reading k was one with it, or none was read before.                        *)
AnswersAfter(s, k) == {j \in k + 1 .. Len(s) : IsAnswer(s[j])}
GoneSince(s, count, k) ==
  /\ k = 0 \/ (s[k] # "gone" /\ IsAnswer(s[k]))
  /\ \A j \in AnswersAfter(s, k) : s[j] = "gone"
  /\ Cardinality(AnswersAfter(s, k)) = count

WatchInv ==
  /\ WatchTypes
  /\ step \in {Watch!Continue, Watch!VerifyTransport, "TransportFailure"} => UnreadableRun(readings, unreadable)
  /\ step \in {Watch!Continue, Watch!VerifyTransport} => CountedFromTheStart(readings, unreadable, answered)
  /\ step = Watch!Continue => unreadable < Sustained /\ missing < Sustained
  /\ step \in {Watch!VerifyTransport, "TransportFailure"} => unreadable >= Sustained
  /\ step = Watch!VerifyTransport => missing < Sustained
  /\ step = "TransportFailure" => ~endpoint
  /\ step = "SameOwnerFailure" => ~status.desired \/ status.state = "Fatal" \/ missing >= Sustained
  /\ \E k \in 0..Len(readings) : GoneSince(readings, missing, k)

(* The instance's cardinality is the library's. *)
LEMMA WatchCounts == \A S : Watch!Cardinality(S) = Cardinality(S)
BY Zenon DEF Watch!Cardinality, Cardinality

(* A reading more is an answer more, or none.                              *)
LEMMA ReadOneMore ==
  ASSUME NEW s \in Seq(Said), NEW r \in Said, NEW k \in 0..Len(s)
  PROVE  /\ IsAnswer(r) => AnswersAfter(Append(s, r), k) = AnswersAfter(s, k) \cup {Len(s) + 1}
         /\ ~IsAnswer(r) => AnswersAfter(Append(s, r), k) = AnswersAfter(s, k)
         /\ AnswersAfter(Append(s, r), Len(s) + 1) = {}
         /\ Len(s) + 1 \notin AnswersAfter(s, k)
         /\ \A j \in AnswersAfter(s, k) : Append(s, r)[j] = s[j]
<1>1. /\ Len(Append(s, r)) = Len(s) + 1 /\ Len(s) \in Nat
      /\ \A j \in 1..Len(s) : Append(s, r)[j] = s[j]
      /\ Append(s, r)[Len(s) + 1] = r
  OBVIOUS
<1>2. \A j : j \in k + 1 .. Len(s) => j \in 1..Len(s)
  BY <1>1
<1>3. k + 1 .. Len(s) + 1 = (k + 1 .. Len(s)) \cup {Len(s) + 1} /\ Len(s) + 1 \notin k + 1 .. Len(s)
  BY <1>1
<1>4. Len(s) + 2 .. Len(s) + 1 = {}
  BY <1>1
<1>5. AnswersAfter(Append(s, r), Len(s) + 1) = {}
  <2>1. (Len(s) + 1) + 1 .. Len(Append(s, r)) = {}
    BY <1>1
  <2>2. QED
    BY <2>1, Zenon DEF AnswersAfter
<1>6. QED
  BY <1>1, <1>2, <1>3, <1>5 DEF AnswersAfter

(* The answers after a reading can be counted. *)
LEMMA AnswersAreFinite ==
  ASSUME NEW s \in Seq(Said), NEW k \in Nat
  PROVE  IsFiniteSet(AnswersAfter(s, k)) /\ Cardinality(AnswersAfter(s, k)) \in Nat
<1>1. k + 1 \in Int /\ Len(s) \in Int
  OBVIOUS
<1>2. IsFiniteSet(k + 1 .. Len(s))
  BY <1>1, FS_Interval
<1>3. AnswersAfter(s, k) \subseteq k + 1 .. Len(s)
  BY DEF AnswersAfter
<1>4. IsFiniteSet(AnswersAfter(s, k))
  BY <1>2, <1>3, FS_Subset
<1>5. QED
  BY <1>4, FS_CardinalityType

(* The count of answers without a Core goes on, or starts again.           *)
LEMMA GoneGoesOn ==
  ASSUME NEW s \in Seq(Said), NEW r \in Said, NEW k \in 0..Len(s),
         NEW count \in Nat, GoneSince(s, count, k)
  PROVE  /\ ~IsAnswer(r) => GoneSince(Append(s, r), count, k)
         /\ r = "gone" => GoneSince(Append(s, r), count + 1, k)
         /\ IsAnswer(r) /\ r # "gone" => GoneSince(Append(s, r), 0, Len(s) + 1)
<1>. DEFINE t == Append(s, r)
<1>1. /\ Len(t) = Len(s) + 1 /\ Len(s) \in Nat /\ k \in Nat
      /\ k # 0 => t[k] = s[k]
      /\ t[Len(s) + 1] = r
  OBVIOUS
<1>2. /\ IsAnswer(r) => AnswersAfter(t, k) = AnswersAfter(s, k) \cup {Len(s) + 1}
      /\ ~IsAnswer(r) => AnswersAfter(t, k) = AnswersAfter(s, k)
      /\ AnswersAfter(t, Len(s) + 1) = {}
      /\ Len(s) + 1 \notin AnswersAfter(s, k)
      /\ \A j \in AnswersAfter(s, k) : t[j] = s[j]
  BY ReadOneMore, Zenon
<1>3. IsFiniteSet(AnswersAfter(s, k))
  <2>1. k \in Nat
    OBVIOUS
  <2>2. QED
    BY <2>1, AnswersAreFinite
<1>4. Cardinality(AnswersAfter(s, k) \cup {Len(s) + 1}) = Cardinality(AnswersAfter(s, k)) + 1
  BY <1>2, <1>3, FS_AddElement
<1>5. Cardinality({}) = 0
  BY FS_EmptySet
<1>. HIDE DEF t
<1>6. ~IsAnswer(r) => GoneSince(t, count, k)
  BY <1>1, <1>2 DEF GoneSince
<1>7. r = "gone" => GoneSince(t, count + 1, k)
  <2>. SUFFICES ASSUME r = "gone" PROVE GoneSince(t, count + 1, k)
    OBVIOUS
  <2>1. IsAnswer(r)
    BY DEF IsAnswer
  <2>2. AnswersAfter(t, k) = AnswersAfter(s, k) \cup {Len(s) + 1}
    BY <1>2, <2>1
  <2>3. \A j \in AnswersAfter(t, k) : t[j] = "gone"
    BY <1>1, <1>2, <2>2 DEF GoneSince
  <2>4. Cardinality(AnswersAfter(t, k)) = count + 1
    BY <1>4, <2>2 DEF GoneSince
  <2>5. k = 0 \/ (t[k] # "gone" /\ IsAnswer(t[k]))
    BY <1>1 DEF GoneSince
  <2>6. QED
    BY <2>3, <2>4, <2>5 DEF GoneSince
<1>8. IsAnswer(r) /\ r # "gone" => GoneSince(t, 0, Len(s) + 1)
  BY <1>1, <1>2, <1>5 DEF GoneSince
<1>9. QED
  BY <1>6, <1>7, <1>8 DEF t

(* A run of unreadable readings goes on with one more, and its start stays.  *)
LEMMA UnreadGoesOn ==
  ASSUME NEW s \in Seq(Said), NEW r \in Said, NEW u \in Nat, NEW a \in Nat,
         u <= Len(s), UnreadableRun(s, u), CountedFromTheStart(s, u, a)
  PROVE  /\ r = "unreadable" => /\ UnreadableRun(Append(s, r), u + 1)
                                /\ CountedFromTheStart(Append(s, r), u + 1, a)
         /\ r # "unreadable" => /\ UnreadableRun(Append(s, r), 0)
                                /\ CountedFromTheStart(Append(s, r), 0, a)
<1>. DEFINE t == Append(s, r)
<1>1. /\ Len(t) = Len(s) + 1 /\ Len(s) \in Nat
      /\ \A j \in 1..Len(s) : t[j] = s[j]
      /\ t[Len(s) + 1] = r
  OBVIOUS
<1>. HIDE DEF t
<1>2. r = "unreadable" => UnreadableRun(t, u + 1)
  BY <1>1 DEF UnreadableRun
<1>3. r = "unreadable" => CountedFromTheStart(t, u + 1, a)
  <2>1. Len(t) - (u + 1) = Len(s) - u
    BY <1>1
  <2>2. Len(s) - u # 0 => t[Len(s) - u] = s[Len(s) - u]
    BY <1>1
  <2>3. QED
    BY <2>1, <2>2 DEF CountedFromTheStart
<1>4. UnreadableRun(t, 0)
  BY <1>1 DEF UnreadableRun
<1>5. r # "unreadable" => CountedFromTheStart(t, 0, a)
  BY <1>1 DEF CountedFromTheStart
<1>6. QED
  BY <1>2, <1>3, <1>4, <1>5 DEF t

(* The invariant holds when a monitor starts.                              *)
LEMMA WatchInit == WatchSizes /\ Watch!Init => WatchInv
<1>. SUFFICES ASSUME WatchSizes, Watch!Init PROVE WatchInv
  OBVIOUS
<1>. USE DEF Watch!Init, WatchSizes
<1>1. Len(readings) = 0 /\ readings \in Seq(Said)
  BY DEF Said
<1>2. Watch!Good \in Watch!Status
  BY DEF Watch!Good, Watch!Status
<1>3. WatchTypes
  BY <1>1, <1>2 DEF WatchTypes, Watch!Continue
<1>4. GoneSince(readings, missing, 0)
  <2>1. AnswersAfter(readings, 0) = {}
    BY <1>1 DEF AnswersAfter
  <2>2. QED
    BY <2>1, FS_EmptySet DEF GoneSince
<1>5. UnreadableRun(readings, unreadable) /\ CountedFromTheStart(readings, unreadable, answered)
  BY <1>1 DEF UnreadableRun, CountedFromTheStart
<1>6. \E k \in 0..Len(readings) : GoneSince(readings, missing, k)
  BY <1>1, <1>4
<1>7. QED
  BY <1>3, <1>5, <1>6 DEF WatchInv, Watch!Continue, Watch!VerifyTransport

(* A reading more makes the list one longer.                               *)
LEMMA ReadingsGrow ==
  ASSUME NEW s \in Seq(Said), NEW r \in Said
  PROVE  Append(s, r) \in Seq(Said) /\ Len(Append(s, r)) = Len(s) + 1 /\ Len(s) \in Nat
OBVIOUS

(* One reading that could not be read.                                     *)
LEMMA ObserveUnreadableKeeps ==
  ASSUME WatchSizes, WatchInv, step = Watch!Continue, Len(readings) < MaxReadings,
         readings' = Append(readings, "unreadable"), Watch!ObserveUnreadable,
         UNCHANGED Watch!asked
  PROVE  WatchInv'
<1>. USE DEF WatchSizes
<1>1. /\ unreadable' = unreadable + 1 /\ missing' = missing /\ status' = status
      /\ endpoint' = endpoint /\ answered' = answered
      /\ step' = IF unreadable + 1 >= Sustained THEN Watch!VerifyTransport ELSE Watch!Continue
  BY DEF Watch!ObserveUnreadable, Watch!asked
<1>2. "unreadable" \in Said /\ ~IsAnswer("unreadable")
  BY DEF Said, IsAnswer
<1>3. PICK k \in 0..Len(readings) : GoneSince(readings, missing, k)
  BY DEF WatchInv
<1>4. WatchTypes /\ readings \in Seq(Said) /\ missing \in Nat /\ unreadable \in Nat
      /\ answered \in Nat /\ unreadable <= Len(readings) /\ missing < Sustained
  BY DEF WatchInv, WatchTypes
<1>5. GoneSince(readings', missing', k)
  BY <1>1, <1>2, <1>3, <1>4, GoneGoesOn
<1>6. Len(readings') = Len(readings) + 1 /\ readings' \in Seq(Said) /\ k \in 0..Len(readings')
  BY <1>2, <1>4
<1>7. \E l \in 0..Len(readings') : GoneSince(readings', missing', l)
  BY <1>5, <1>6
<1>8. UnreadableRun(readings, unreadable) /\ CountedFromTheStart(readings, unreadable, answered)
  BY DEF WatchInv
<1>9. UnreadableRun(readings', unreadable') /\ CountedFromTheStart(readings', unreadable', answered')
  BY <1>1, <1>2, <1>4, <1>8, UnreadGoesOn
<1>10. WatchTypes'
  BY <1>1, <1>4, <1>6 DEF WatchTypes
<1>11. QED
  BY <1>1, <1>4, <1>7, <1>9, <1>10 DEF WatchInv, Watch!Continue, Watch!VerifyTransport

(* One answer that the session is not active.                              *)
LEMMA ObserveNotActiveKeeps ==
  ASSUME WatchSizes, WatchInv, step = Watch!Continue, Len(readings) < MaxReadings,
         readings' = Append(readings, "inactive"), Watch!ObserveNotActive,
         UNCHANGED Watch!asked
  PROVE  WatchInv'
<1>. USE DEF WatchSizes
<1>1. /\ unreadable' = unreadable /\ missing' = missing /\ status' = status
      /\ endpoint' = endpoint /\ answered' = answered /\ step' = "Displaced"
  BY DEF Watch!ObserveNotActive, Watch!asked, Watch!watch
<1>2. "inactive" \in Said /\ ~IsAnswer("inactive")
  BY DEF Said, IsAnswer
<1>3. PICK k \in 0..Len(readings) : GoneSince(readings, missing, k)
  BY DEF WatchInv
<1>4. WatchTypes /\ readings \in Seq(Said) /\ missing \in Nat /\ unreadable \in Nat
      /\ answered \in Nat /\ unreadable <= Len(readings)
  BY DEF WatchInv, WatchTypes
<1>5. GoneSince(readings', missing', k)
  BY <1>1, <1>2, <1>3, <1>4, GoneGoesOn
<1>6. Len(readings') = Len(readings) + 1 /\ readings' \in Seq(Said) /\ Len(readings) \in Nat
  BY <1>2, <1>4, ReadingsGrow
<1>7. k \in 0..Len(readings')
  BY <1>6
<1>8. \E l \in 0..Len(readings') : GoneSince(readings', missing', l)
  BY <1>5, <1>7
<1>9. WatchTypes'
  <2>1. unreadable' <= Len(readings') /\ missing' <= Len(readings') /\ answered' <= Len(readings')
        /\ Len(readings') <= MaxReadings
    BY <1>1, <1>4, <1>6 DEF WatchTypes
  <2>2. step' \in Watch!Verdicts
    BY <1>1 DEF Watch!Verdicts
  <2>3. status' \in Watch!Status /\ endpoint' \in BOOLEAN
    BY <1>1, <1>4 DEF WatchTypes
  <2>4. QED
    BY <1>1, <1>4, <1>6, <2>1, <2>2, <2>3 DEF WatchTypes
<1>10. QED
  BY <1>1, <1>8, <1>9 DEF WatchInv, Watch!Continue, Watch!VerifyTransport

(* One complete answer.                                                    *)
LEMMA ObserveStatusKeeps ==
  ASSUME WatchSizes, WatchInv, step = Watch!Continue, Len(readings) < MaxReadings,
         NEW s \in Watch!Status, Watch!ObserveStatus(s), s.active,
         readings' = Append(readings, Watch!AboutTheCore("status", s)),
         UNCHANGED Watch!asked
  PROVE  WatchInv'
<1>. USE DEF WatchSizes
<1>. DEFINE r == Watch!AboutTheCore("status", s)
<1>1. /\ unreadable' = 0 /\ status' = s
      /\ missing' = IF Watch!Missing(s) THEN missing + 1 ELSE 0
      /\ endpoint' = endpoint /\ answered' = answered
      /\ step' = Watch!RecoveryReason(s, missing')
  BY DEF Watch!ObserveStatus, Watch!asked
<1>2. r \in {"core", "settling", "gone"}
  BY DEF Watch!AboutTheCore
<1>3. r = "gone" <=> Watch!Missing(s)
  BY DEF Watch!AboutTheCore, Watch!Missing, Watch!IsSettling
<1>4. r \in Said /\ IsAnswer(r)
  BY <1>2, Zenon DEF Said, IsAnswer
<1>5. r # "unreadable"
  BY <1>2
<1>6. readings' = Append(readings, r)
  OBVIOUS
<1>. HIDE DEF r
<1>7. PICK k \in 0..Len(readings) : GoneSince(readings, missing, k)
  BY DEF WatchInv
<1>8. WatchTypes /\ readings \in Seq(Said) /\ missing \in Nat /\ unreadable \in Nat
      /\ answered \in Nat /\ unreadable <= Len(readings) /\ missing <= Len(readings)
  BY DEF WatchInv, WatchTypes
<1>9. Len(readings') = Len(readings) + 1 /\ readings' \in Seq(Said) /\ Len(readings) \in Nat
  BY <1>4, <1>6, <1>8
<1>10. \E l \in 0..Len(readings') : GoneSince(readings', missing', l)
  <2>1. /\ r = "gone" => GoneSince(Append(readings, r), missing + 1, k)
        /\ IsAnswer(r) /\ r # "gone" => GoneSince(Append(readings, r), 0, Len(readings) + 1)
    BY <1>4, <1>7, <1>8, GoneGoesOn
  <2>2. CASE Watch!Missing(s)
    <3>1. GoneSince(readings', missing', k)
      BY <2>1, <2>2, <1>1, <1>3, <1>6
    <3>2. QED
      BY <3>1, <1>9
  <2>3. CASE ~Watch!Missing(s)
    <3>1. GoneSince(readings', missing', Len(readings) + 1)
      BY <2>1, <2>3, <1>1, <1>3, <1>4, <1>6
    <3>2. Len(readings) + 1 \in 0..Len(readings')
      BY <1>9
    <3>3. QED
      BY <3>1, <3>2
  <2>4. QED
    BY <2>2, <2>3
<1>11. UnreadableRun(readings, unreadable) /\ CountedFromTheStart(readings, unreadable, answered)
  BY DEF WatchInv
<1>12. UnreadableRun(readings', unreadable') /\ CountedFromTheStart(readings', unreadable', answered')
  BY <1>1, <1>4, <1>5, <1>6, <1>8, <1>11, UnreadGoesOn
<1>13. /\ step' \in {Watch!Continue, "SameOwnerFailure"}
       /\ step' = Watch!Continue => ~(Watch!Missing(s) /\ missing' >= Sustained)
       /\ step' = "SameOwnerFailure" => ~s.desired \/ s.state = "Fatal" \/ missing' >= Sustained
  BY <1>1 DEF Watch!RecoveryReason, Watch!Continue
<1>14. missing' \in Nat /\ missing' <= Len(readings')
  BY <1>1, <1>8, <1>9
<1>15. step' = Watch!Continue => missing' < Sustained
  BY <1>1, <1>13, <1>14
<1>16. WatchTypes'
  <2>1. unreadable' \in Nat /\ unreadable' <= Len(readings')
        /\ answered' \in Nat /\ answered' <= Len(readings') /\ Len(readings') <= MaxReadings
    BY <1>1, <1>8, <1>9 DEF WatchTypes
  <2>2. step' \in Watch!Verdicts \cup {Watch!Continue, Watch!VerifyTransport}
    BY <1>13 DEF Watch!Verdicts
  <2>3. status' \in Watch!Status /\ endpoint' \in BOOLEAN
    BY <1>1, <1>8 DEF WatchTypes
  <2>4. QED
    BY <1>9, <1>14, <2>1, <2>2, <2>3 DEF WatchTypes
<1>17. QED
  BY <1>1, <1>10, <1>12, <1>13, <1>15, <1>16 DEF WatchInv, Watch!Continue, Watch!VerifyTransport

(* Asking the Core keeps the invariant.                                    *)
LEMMA ResolveTransportKeeps == WatchSizes /\ WatchInv /\ Watch!ResolveTransport => WatchInv'
<1>. SUFFICES ASSUME WatchSizes, WatchInv, Watch!ResolveTransport PROVE WatchInv'
  OBVIOUS
<1>. USE DEF WatchSizes
<1>1. /\ readings' = readings /\ missing' = missing /\ status' = status
      /\ step = Watch!VerifyTransport /\ endpoint' \in BOOLEAN
      /\ answered' = IF endpoint' THEN Len(readings) ELSE answered
      /\ unreadable' = IF endpoint' THEN 0 ELSE unreadable
      /\ step' = IF endpoint' THEN Watch!Continue ELSE "TransportFailure"
  BY DEF Watch!ResolveTransport, Watch!AskTheCore
<1>2. PICK k \in 0..Len(readings) : GoneSince(readings, missing, k)
  BY DEF WatchInv
<1>3. \E l \in 0..Len(readings') : GoneSince(readings', missing', l)
  BY <1>1, <1>2
<1>4. WatchTypes /\ Len(readings) \in Nat
  BY DEF WatchInv, WatchTypes
<1>5. UnreadableRun(readings, unreadable) /\ CountedFromTheStart(readings, unreadable, answered)
      /\ missing < Sustained /\ unreadable >= Sustained
  BY <1>1 DEF WatchInv
<1>6. CASE endpoint'
  <2>1. unreadable' = 0 /\ answered' = Len(readings) /\ step' = Watch!Continue
    BY <1>1, <1>6
  <2>2. UnreadableRun(readings', unreadable') /\ CountedFromTheStart(readings', unreadable', answered')
    BY <2>1, <1>1, <1>4 DEF UnreadableRun, CountedFromTheStart
  <2>3. WatchTypes'
    BY <2>1, <1>1, <1>4 DEF WatchTypes, Watch!Continue
  <2>4. QED
    BY <2>1, <2>2, <2>3, <1>1, <1>3, <1>5 DEF WatchInv, Watch!Continue, Watch!VerifyTransport
<1>7. CASE ~endpoint'
  <2>1. unreadable' = unreadable /\ answered' = answered /\ step' = "TransportFailure"
    BY <1>1, <1>7
  <2>2. UnreadableRun(readings', unreadable')
    BY <2>1, <1>1, <1>5
  <2>3. WatchTypes'
    BY <2>1, <1>1, <1>4 DEF WatchTypes, Watch!Verdicts
  <2>4. QED
    BY <2>1, <2>2, <2>3, <1>1, <1>3, <1>5, <1>7 DEF WatchInv, Watch!Continue, Watch!VerifyTransport
<1>8. QED
  BY <1>6, <1>7

(* Every step of the monitor keeps the invariant.                          *)
LEMMA WatchKeeps == WatchSizes /\ WatchInv /\ [Watch!Next]_(Watch!vars) => WatchInv'
<1>. SUFFICES ASSUME WatchSizes, WatchInv, [Watch!Next]_(Watch!vars) PROVE WatchInv'
  OBVIOUS
<1>1. CASE Watch!Observe
  <2>1. /\ step = Watch!Continue /\ Len(readings) < MaxReadings /\ UNCHANGED Watch!asked
    BY <1>1 DEF Watch!Observe
  <2>2. PICK got \in {"error", "code", "nothing", "NotActive", "status"}, ours \in BOOLEAN, s \in Watch!Status :
          LET sample == Watch!ReadOwnerSample(got, ours, s.active)
          IN /\ readings' = Append(readings, Watch!AboutTheCore(sample, s))
             /\ \/ sample = "unreadable" /\ Watch!ObserveUnreadable
                \/ sample = "inactive" /\ Watch!ObserveNotActive
                \/ sample = "status" /\ Watch!ObserveStatus(s)
    BY <1>1 DEF Watch!Observe
  <2>. DEFINE sample == Watch!ReadOwnerSample(got, ours, s.active)
  <2>3. sample = "status" => s.active
    BY DEF Watch!ReadOwnerSample
  <2>4. /\ sample = "unreadable" => Watch!AboutTheCore(sample, s) = "unreadable"
        /\ sample = "inactive" => Watch!AboutTheCore(sample, s) = "inactive"
    BY DEF Watch!AboutTheCore
  <2>5. /\ readings' = Append(readings, Watch!AboutTheCore(sample, s))
        /\ \/ sample = "unreadable" /\ Watch!ObserveUnreadable
           \/ sample = "inactive" /\ Watch!ObserveNotActive
           \/ sample = "status" /\ Watch!ObserveStatus(s)
    BY <2>2
  <2>. HIDE DEF sample
  <2>6. CASE sample = "unreadable" /\ Watch!ObserveUnreadable
    <3>1. readings' = Append(readings, "unreadable")
      BY <2>4, <2>5, <2>6
    <3>2. QED
      BY <2>1, <2>6, <3>1, ObserveUnreadableKeeps
  <2>7. CASE sample = "inactive" /\ Watch!ObserveNotActive
    <3>1. readings' = Append(readings, "inactive")
      BY <2>4, <2>5, <2>7
    <3>2. QED
      BY <2>1, <2>7, <3>1, ObserveNotActiveKeeps
  <2>8. CASE sample = "status" /\ Watch!ObserveStatus(s)
    <3>1. readings' = Append(readings, Watch!AboutTheCore("status", s)) /\ s.active
      BY <2>3, <2>5, <2>8
    <3>2. QED
      BY <2>1, <2>8, <3>1, ObserveStatusKeeps
  <2>9. QED
    BY <2>5, <2>6, <2>7, <2>8
<1>2. CASE Watch!ResolveTransport
  BY <1>2, ResolveTransportKeeps
<1>3. CASE UNCHANGED Watch!vars
  BY <1>3 DEF Watch!vars, Watch!watch, Watch!asked, WatchInv, WatchTypes
<1>4. QED
  BY <1>1, <1>2, <1>3 DEF Watch!Next

(* The invariant says what the runs check: the types, that a blip is no       *)
(* failure and that a failure is no blip.                                     *)
LEMMA WatchShows ==
  WatchSizes /\ WatchInv => Watch!TypeOK /\ Watch!BlipsAreTolerated /\ Watch!FailuresAreNoticed
<1>. SUFFICES ASSUME WatchSizes, WatchInv
     PROVE Watch!TypeOK /\ Watch!BlipsAreTolerated /\ Watch!FailuresAreNoticed
  OBVIOUS
<1>. USE DEF WatchSizes
<1>1. WatchTypes /\ readings \in Seq(Said) /\ Len(readings) \in Nat
  BY DEF WatchInv, WatchTypes
<1>2. Watch!TypeOK
  BY <1>1 DEF Watch!TypeOK, WatchTypes
<1>3. PICK k \in 0..Len(readings) : GoneSince(readings, missing, k)
  BY DEF WatchInv
<1>4. \A i \in 0..Len(readings) : Watch!AnswersFrom(i + 1) = AnswersAfter(readings, i)
  BY DEF Watch!AnswersFrom, AnswersAfter, IsAnswer
<1>5. k \in Nat /\ IsFiniteSet(AnswersAfter(readings, k))
  BY <1>1, <1>3, AnswersAreFinite
<1>6. Watch!BlipsAreTolerated
  <2>1. step = "TransportFailure" => ~endpoint /\ Watch!ReadingsEnd("unreadable")
    <3>. SUFFICES ASSUME step = "TransportFailure"
         PROVE ~endpoint /\ Watch!ReadingsEnd("unreadable")
      OBVIOUS
    <3>1. ~endpoint /\ unreadable >= Sustained /\ UnreadableRun(readings, unreadable)
      BY DEF WatchInv
    <3>2. unreadable \in Nat /\ unreadable <= Len(readings)
      BY <1>1 DEF WatchTypes
    <3>3. Watch!ReadingsEnd("unreadable")
      BY <1>1, <3>1, <3>2 DEF Watch!ReadingsEnd, UnreadableRun
    <3>4. QED
      BY <3>1, <3>3
  <2>2. missing >= Sustained => Watch!AnswersEnd("gone")
    <3>. SUFFICES ASSUME missing >= Sustained PROVE Watch!AnswersEnd("gone")
      OBVIOUS
    <3>1. /\ Cardinality(AnswersAfter(readings, k)) = missing
          /\ \A j \in AnswersAfter(readings, k) : readings[j] = "gone"
      BY <1>3 DEF GoneSince
    <3>2. AnswersAfter(readings, k) # {}
      <4>1. CASE AnswersAfter(readings, k) = {}
        <5>1. missing = 0
          BY <3>1, <4>1, FS_EmptySet
        <5>2. QED
          BY <5>1
      <4>2. QED
        BY <4>1
    <3>3. k + 1 \in 1..Len(readings)
      BY <1>1, <1>3, <3>2 DEF AnswersAfter
    <3>4. /\ Watch!Cardinality(Watch!AnswersFrom(k + 1)) >= Sustained
          /\ \A j \in Watch!AnswersFrom(k + 1) : readings[j] = "gone"
      BY <1>3, <1>4, <3>1, WatchCounts
    <3>5. QED
      BY <3>3, <3>4 DEF Watch!AnswersEnd
  <2>3. step = "SameOwnerFailure" => ~status.desired \/ status.state = "Fatal" \/ Watch!AnswersEnd("gone")
    BY <2>2 DEF WatchInv
  <2>4. QED
    BY <2>1, <2>3 DEF Watch!BlipsAreTolerated
<1>7. Watch!FailuresAreNoticed
  <2>. SUFFICES ASSUME step = Watch!Continue
       PROVE /\ ~Watch!AnswersEnd("gone")
             /\ ~(Len(readings) - answered >= Sustained /\ Watch!ReadingsEnd("unreadable"))
    BY DEF Watch!FailuresAreNoticed
  <2>1. /\ unreadable < Sustained /\ missing < Sustained
        /\ CountedFromTheStart(readings, unreadable, answered)
    BY DEF WatchInv
  <2>2. /\ unreadable \in Nat /\ unreadable <= Len(readings) /\ missing \in Nat
        /\ answered \in Nat /\ answered <= Len(readings)
    BY <1>1 DEF WatchTypes
  <2>3. ASSUME Len(readings) - answered >= Sustained, Watch!ReadingsEnd("unreadable")
        PROVE FALSE
    <3>1. Len(readings) >= Sustained
          /\ \A i \in Len(readings) - Sustained + 1 .. Len(readings) : readings[i] = "unreadable"
      BY <2>3 DEF Watch!ReadingsEnd
    <3>2. Len(readings) - unreadable \in Len(readings) - Sustained + 1 .. Len(readings)
      BY <1>1, <2>1, <2>2
    <3>3. Len(readings) - unreadable # 0 /\ Len(readings) - unreadable # answered
      BY <1>1, <2>1, <2>2, <2>3, <3>1
    <3>4. QED
      BY <2>1, <3>1, <3>2, <3>3 DEF CountedFromTheStart
  <2>4. ASSUME NEW i \in 1..Len(readings),
               Watch!Cardinality(Watch!AnswersFrom(i)) >= Sustained,
               \A j \in Watch!AnswersFrom(i) : readings[j] = "gone"
        PROVE FALSE
    <3>1. PICK h \in 0..Len(readings) : i = h + 1
      <4>1. i - 1 \in 0..Len(readings) /\ i = (i - 1) + 1
        BY <1>1
      <4>2. QED
        BY <4>1
    <3>2. /\ Cardinality(AnswersAfter(readings, h)) >= Sustained
          /\ \A j \in AnswersAfter(readings, h) : readings[j] = "gone"
      BY <1>4, <2>4, <3>1, WatchCounts
    <3>3. CASE h < k
      <4>1. k \in h + 1 .. Len(readings) /\ k # 0
        BY <1>1, <1>3, <3>1, <3>3
      <4>2. readings[k] # "gone" /\ IsAnswer(readings[k])
        BY <1>3, <4>1 DEF GoneSince
      <4>3. k \in AnswersAfter(readings, h)
        BY <4>1, <4>2 DEF AnswersAfter
      <4>4. QED
        BY <3>2, <4>2, <4>3
    <3>4. CASE h >= k
      <4>1. AnswersAfter(readings, h) \subseteq AnswersAfter(readings, k)
        BY <1>1, <1>3, <3>1, <3>4 DEF AnswersAfter
      <4>2. Cardinality(AnswersAfter(readings, h)) <= Cardinality(AnswersAfter(readings, k))
        BY <1>5, <4>1, FS_Subset
      <4>3. Cardinality(AnswersAfter(readings, k)) = missing
        BY <1>3 DEF GoneSince
      <4>4. Cardinality(AnswersAfter(readings, h)) \in Nat
        BY <1>1, <3>1, AnswersAreFinite
      <4>5. QED
        BY <2>1, <2>2, <3>2, <4>2, <4>3, <4>4
    <3>5. QED
      BY <1>3, <3>1, <3>3, <3>4
  <2>5. ~Watch!AnswersEnd("gone")
    BY <2>4 DEF Watch!AnswersEnd
  <2>6. QED
    BY <2>3, <2>5
<1>8. QED
  BY <1>2, <1>6, <1>7
-----------------------------------------------------------------------------
(* The port of the session *)

USE DEF Port!ports, Port!startup, Port!request, Port!saving, Port!world, Port!NoPort

Drafted == {"generate", "probe", "write", "persist", "revert"}
Settled == {"idle", "restart", "settle", "open"}
Places == {"resolve", "generate", "start", "failed", "done", "blocked"}

(* The port of the save's drafts is everywhere the same, and what was borrowed *)
(* is kept for the way back.                                                   *)
DraftsAgree ==
  /\ save \in Drafted =>
       /\ staged # 0 /\ fallback = 0 /\ runtime # 0 /\ runtime = Port!Or(borrowed, chosen)
  /\ save \in Drafted \ {"generate"} => candidate = staged
  /\ save \in Settled =>
       /\ staged = 0 /\ candidate = 0
       /\ runtime # 0 => runtime = Port!Selected

(* The Core serves what the runtime says, or what the save tries. *)
CoreServes ==
  /\ save \in {"idle", "generate", "probe", "write", "settle", "open"} => core \in {0, runtime}
  /\ save \in {"persist", "revert"} => core \in {0, candidate}
  /\ save \in {"probe", "write", "persist", "revert", "restart"} /\ ~ran => core = 0
  /\ save \in {"generate", "probe", "write"} => ~pac

(* Before the first configuration there is nothing to save. *)
StartIsEmpty ==
  /\ boot \in {"resolve", "generate"} => runtime = 0 /\ core = 0 /\ saves = 0
  /\ saves = 0 => save = "idle"

BorrowedIsFree == fallback \notin Reserved \/ fallback = 0
KeptIsFree == borrowed \notin Reserved \/ borrowed = 0

(* Until somebody saves, the notice follows what is borrowed. *)
NoticeFollows ==
  saves = 0 =>
    /\ notice # <<>> => notice = <<chosen, fallback>>
    /\ notice = <<>> /\ boot \notin {"done", "blocked"} => fallback = 0

PortInv ==
  /\ Port!TypeOK /\ save \in Drafted \cup Settled /\ boot \in Places /\ saves \in Nat
  /\ DraftsAgree /\ CoreServes /\ StartIsEmpty /\ BorrowedIsFree /\ KeptIsFree /\ NoticeFollows

Less == {p \in Nat \X Nat : p[1] < p[2]}

(* Of several ports there is a first one. *)
LEMMA LeastPort ==
  ASSUME NEW S, S \subseteq Nat, S # {}
  PROVE  Port!Min(S) \in S
<1>1. IsWellFoundedOn(Less, Nat)
  BY NatLessThanWellFounded DEF OpToRel, Less
<1>2. PICK x \in S : \A y \in S : ~(<<y, x>> \in Less)
  BY <1>1, WFMin
<1>3. ASSUME NEW y \in S
      PROVE  x <= y
  <2>1. y \in Nat /\ x \in Nat /\ <<y, x>> \in Nat \X Nat /\ <<y, x>> \notin Less
    BY <1>2
  <2>2. ~(<<y, x>>[1] < <<y, x>>[2])
    BY <2>1, Zenon DEF Less
  <2> QED
    BY <2>1, <2>2
<1> QED
  BY <1>3 DEF Port!Min

(* The next port that is offered is one, and free (find_next_available_port). *)
LEMMA NextIsFree ==
  ASSUME NEW p \in Ports
  PROVE  Port!NextAvailable(p) # 0 =>
           Port!NextAvailable(p) \in Ports /\ Port!NextAvailable(p) \notin Reserved
<1> DEFINE free == Ports \ (Reserved \cup takenPorts \cup {p})
           above == {q \in free : q > p}
           S == IF above # {} THEN above ELSE free
<1>1. CASE free = {}
  BY <1>1 DEF Port!NextAvailable
<1>2. CASE free # {}
  <2>1. S # {} /\ S \subseteq free /\ free \subseteq Nat
    BY <1>2, PortsAssumption
  <2>2. Port!Min(S) \in S
    BY <2>1, LeastPort
  <2>3. Port!NextAvailable(p) = Port!Min(S)
    BY <1>2 DEF Port!NextAvailable
  <2> QED
    BY <2>1, <2>2, <2>3
<1> QED
  BY <1>1, <1>2

(* The application starts with a port that was chosen and nothing borrowed. *)
LEMMA PortInit == Port!Init => PortInv
<1> SUFFICES ASSUME Port!Init
             PROVE  PortInv
  OBVIOUS
<1>1. Port!TypeOK
  <2>1. takenPorts \subseteq Ports
    BY DEF Port!Init
  <2>2. {staged, fallback, runtime, candidate, core, borrowed} \subseteq Ports \cup {0}
    BY DEF Port!Init
  <2>3. pac \in BOOLEAN /\ settling \in BOOLEAN /\ ran \in BOOLEAN
    BY Zenon DEF Port!Init
  <2>4. chosen \in Ports /\ {pac, settling, ran} \subseteq BOOLEAN /\ retries \in 0..3
    BY <2>3 DEF Port!Init
  <2> QED
    BY <2>1, <2>2, <2>4 DEF Port!TypeOK
<1>2. DraftsAgree /\ CoreServes /\ StartIsEmpty /\ BorrowedIsFree /\ KeptIsFree
  BY DEF Port!Init, Drafted, Settled, DraftsAgree, CoreServes, StartIsEmpty, BorrowedIsFree,
         KeptIsFree
<1>3. NoticeFollows
  BY DEF Port!Init, NoticeFollows
<1> QED
  BY <1>1, <1>2, <1>3 DEF Port!Init, PortInv, Settled, Places

(* A port that another program takes changes none of the books. *)
LEMMA PortTakePort == PortInv /\ Port!TakePort => PortInv'
BY PortsAssumption
   DEF Port!TakePort, PortInv, Port!TypeOK, Drafted, Settled, DraftsAgree, CoreServes,
       StartIsEmpty, BorrowedIsFree, KeptIsFree, NoticeFollows, Port!Selected

(* Resolving the port of a start, the first time or in a retry. *)
LEMMA PortResolve ==
  ASSUME PortInv, NEW kept \in {"generate", "done"}, core = 0, saves = saves',
         \/ boot = "resolve" /\ kept = "generate"
         \/ boot = "failed" /\ kept = "done",
         Port!Resolve(kept, "start"), retries' \in 0..3
  PROVE  PortInv'
<1>1. chosen \in Ports /\ Port!Selected \in Ports
  BY PortsAssumption DEF PortInv, Port!TypeOK, Port!Selected, Port!Or
<1>2. CASE boot' = kept /\ UNCHANGED <<fallback, runtime, candidate, notice>>
  BY <1>2, PortsAssumption
   DEF Port!Resolve, PortInv, Port!TypeOK, Drafted, Settled, Places, DraftsAgree, CoreServes,
       StartIsEmpty, BorrowedIsFree, KeptIsFree, NoticeFollows, Port!Selected, Port!Or
<1>3. CASE boot' = "blocked" /\ UNCHANGED <<fallback, runtime, candidate, notice>>
  BY <1>3, PortsAssumption
   DEF Port!Resolve, PortInv, Port!TypeOK, Drafted, Settled, Places, DraftsAgree, CoreServes,
       StartIsEmpty, BorrowedIsFree, KeptIsFree, NoticeFollows, Port!Selected, Port!Or
<1>4. CASE \E new \in Ports \ Reserved : Port!Borrow(new, "start")
  <2>1. PICK new \in Ports \ Reserved : Port!Borrow(new, "start")
    BY <1>4
  <2>2. /\ save = "idle" /\ UNCHANGED <<chosen, staged, core, pac, Port!saving, Port!world>>
        /\ fallback' = new /\ runtime' = new /\ candidate' = 0 /\ boot' = "start"
        /\ notice' = Port!Noted(Port!Selected, new)
    BY <2>1 DEF Port!Resolve, Port!Borrow
  <2>3. new # 0
    BY PortsAssumption
  <2>4. NoticeFollows'
    <3>1. CASE notice = <<>>
      BY <3>1, <2>2, <2>3, PortsAssumption
         DEF PortInv, NoticeFollows, Port!Noted, Port!Selected, Port!Or, Places
    <3>2. CASE notice # <<>>
      BY <3>2, <2>2, <2>3, PortsAssumption
         DEF PortInv, NoticeFollows, Port!Noted, Port!Selected, Port!Or, Places
    <3> QED
      BY <3>1, <3>2
  <2>5. Port!TypeOK'
    BY <2>2 DEF PortInv, Port!TypeOK
  <2>6. DraftsAgree' /\ CoreServes' /\ StartIsEmpty' /\ BorrowedIsFree' /\ KeptIsFree'
    BY <2>2, <2>3 DEF PortInv, Drafted, Settled, DraftsAgree, CoreServes, StartIsEmpty,
       BorrowedIsFree, KeptIsFree, Port!Selected, Port!Or
  <2> QED
    BY <2>2, <2>4, <2>5, <2>6 DEF PortInv, Places
<1> QED
  BY <1>1, <1>2, <1>3, <1>4, NextIsFree DEF Port!Resolve

(* The steps of a start. *)
LEMMA PortStartups ==
  PortInv /\ (Port!InitRuntimeConfig \/ Port!GenerateFirst \/ Port!StartCore \/ Port!RetryStart)
    => PortInv'
<1> SUFFICES ASSUME PortInv, Port!InitRuntimeConfig \/ Port!GenerateFirst \/ Port!StartCore
                               \/ Port!RetryStart
             PROVE  PortInv'
  OBVIOUS
<1>1. CASE Port!InitRuntimeConfig
  <2>1. core = 0 /\ retries' \in 0..3 /\ saves' = saves
    BY <1>1 DEF PortInv, Port!TypeOK, StartIsEmpty, Port!InitRuntimeConfig, Port!Resolve
  <2> QED
    BY <1>1, <2>1, PortResolve DEF Port!InitRuntimeConfig
<1>2. CASE Port!GenerateFirst
  BY <1>2, PortsAssumption
   DEF Port!GenerateFirst, PortInv, Port!TypeOK, Drafted, Settled, Places, DraftsAgree, CoreServes,
       StartIsEmpty, BorrowedIsFree, KeptIsFree, NoticeFollows, Port!Selected, Port!Or
<1>3. CASE Port!StartCore
  BY <1>3, PortsAssumption
   DEF Port!StartCore, Port!Serves, PortInv, Port!TypeOK, Drafted, Settled, Places, DraftsAgree,
       CoreServes, StartIsEmpty, BorrowedIsFree, KeptIsFree, NoticeFollows, Port!Selected, Port!Or
<1>4. CASE Port!RetryStart
  <2>1. CASE core # 0 \/ retries = 3
    BY <1>4, <2>1, PortsAssumption
     DEF Port!RetryStart, PortInv, Port!TypeOK, Drafted, Settled, Places, DraftsAgree, CoreServes,
         StartIsEmpty, BorrowedIsFree, KeptIsFree, NoticeFollows, Port!Selected, Port!Or
  <2>2. CASE core = 0 /\ retries # 3
    <3>1. /\ boot = "failed" /\ Port!Resolve("done", "start")
          /\ retries' \in 0..3 /\ saves' = saves
      BY <1>4, <2>2 DEF Port!RetryStart, Port!Resolve, PortInv, Port!TypeOK
    <3> QED
      BY <2>2, <3>1, PortResolve
  <2> QED
    BY <2>1, <2>2
<1> QED
  BY <1>1, <1>2, <1>3, <1>4

(* The steps of a save. *)
LEMMA PortSaves ==
  PortInv /\ (\/ Port!SaveBegins \/ Port!SaveGenerates \/ Port!SaveRejected \/ Port!SaveProbes
              \/ Port!SaveActivates \/ Port!SavePersists \/ Port!SaveReverts \/ Port!SaveRestarts)
    => PortInv'
<1> SUFFICES ASSUME PortInv,
                    \/ Port!SaveBegins \/ Port!SaveGenerates \/ Port!SaveRejected
                    \/ Port!SaveProbes \/ Port!SaveActivates \/ Port!SavePersists
                    \/ Port!SaveReverts \/ Port!SaveRestarts
             PROVE  PortInv'
  OBVIOUS
<1> USE PortsAssumption
    DEF PortInv, Port!TypeOK, Drafted, Settled, DraftsAgree, CoreServes, StartIsEmpty,
        BorrowedIsFree, KeptIsFree, NoticeFollows, Port!Selected, Port!Or
<1>1. CASE Port!SaveBegins
  <2>1. PICK p \in Ports \ {chosen} : staged' = p
    BY <1>1 DEF Port!SaveBegins
  <2>2. p # 0 /\ saves' = saves + 1 /\ saves' # 0
    BY <1>1 DEF Port!SaveBegins
  <2>3. Port!TypeOK'
    BY <1>1, <2>1 DEF Port!SaveBegins
  <2>4. DraftsAgree'
    BY <1>1, <2>1, <2>2 DEF Port!SaveBegins
  <2>5. CoreServes' /\ StartIsEmpty' /\ BorrowedIsFree' /\ KeptIsFree' /\ NoticeFollows'
    BY <1>1, <2>2 DEF Port!SaveBegins
  <2> QED
    BY <1>1, <2>2, <2>3, <2>4, <2>5 DEF Port!SaveBegins
<1>2. CASE Port!SaveGenerates
  BY <1>2 DEF Port!SaveGenerates, Port!Desired, Port!Serving
<1>3. CASE Port!SaveRejected
  BY <1>3 DEF Port!SaveRejected, Port!GiveUp
<1>4. CASE Port!SaveProbes
  BY <1>4 DEF Port!SaveProbes
<1>5. CASE Port!SaveActivates
  BY <1>5 DEF Port!SaveActivates, Port!Serves
<1>6. CASE Port!SavePersists
  BY <1>6 DEF Port!SavePersists
<1>7. CASE Port!SaveReverts
  BY <1>7 DEF Port!SaveReverts, Port!GiveUp
<1>8. CASE Port!SaveRestarts
  BY <1>8 DEF Port!SaveRestarts, Port!Serves
<1> QED
  BY <1>1, <1>2, <1>3, <1>4, <1>5, <1>6, <1>7, <1>8

(* The steps that settle a start and open PAC. *)
LEMMA PortSettles ==
  PortInv /\ (\/ Port!SettleReads \/ Port!SettleOpens \/ Port!CoreStops \/ Port!CoreStartsAgain
              \/ UNCHANGED Port!portVars)
    => PortInv'
<1> USE DEF PortInv, Port!TypeOK, Drafted, Settled, DraftsAgree, CoreServes, StartIsEmpty,
        BorrowedIsFree, KeptIsFree, NoticeFollows, Port!Selected, Port!Or
<1>1. ASSUME PortInv, Port!SettleReads
      PROVE  PortInv'
  BY <1>1 DEF Port!SettleReads, Port!Serving
<1>2. ASSUME PortInv, Port!SettleOpens
      PROVE  PortInv'
  BY <1>2 DEF Port!SettleOpens
<1>3. ASSUME PortInv, Port!CoreStops
      PROVE  PortInv'
  BY <1>3 DEF Port!CoreStops
<1>4. ASSUME PortInv, Port!CoreStartsAgain
      PROVE  PortInv'
  BY <1>4 DEF Port!CoreStartsAgain, Port!Serves, Port!Serving
<1>5. ASSUME PortInv, UNCHANGED Port!portVars
      PROVE  PortInv'
  BY <1>5 DEF Port!portVars
<1> QED
  BY <1>1, <1>2, <1>3, <1>4, <1>5

(* Every step about the port keeps the invariant. *)
LEMMA PortKeeps == PortInv /\ [Port!Next]_(Port!portVars) => PortInv'
BY PortTakePort, PortStartups, PortSaves, PortSettles DEF Port!Next

(* What the invariant says of PAC and of what was borrowed. *)
LEMMA PortShows ==
  PortInv => Port!TypeOK /\ Port!PacNamesWhatIsServed /\ Port!BorrowedForTheSession
<1> SUFFICES ASSUME PortInv
             PROVE  Port!PacNamesWhatIsServed /\ Port!BorrowedForTheSession
  BY DEF PortInv
<1>1. Port!PacNamesWhatIsServed
  BY DEF PortInv, Port!TypeOK, Drafted, Settled, DraftsAgree, CoreServes, Port!PacNamesWhatIsServed,
         Port!Desired, Port!Serving, Port!Selected, Port!Or
<1>2. Port!BorrowedForTheSession
  BY DEF PortInv, BorrowedIsFree, NoticeFollows, Port!BorrowedForTheSession
<1> QED
  BY <1>1, <1>2

HIDE DEF Port!ports, Port!startup, Port!request, Port!saving, Port!world, Port!NoPort
-----------------------------------------------------------------------------
(* The probe of the listeners *)

(* What is asked does not change, and the verdict is about it.              *)
ListeningInv ==
  /\ platform \in {"linux", "macos"} /\ scope \in Listening!Scopes
  /\ wanted \in Listening!PortsOf /\ current \in Listening!PortsOf
  /\ held \subseteq Listening!Sockets /\ Listening!CoreHoldsItsOwn
  /\ verdict \in {"unknown", Listening!ProbeProxyPortChange}

(* A socket at another address, or what lingers there. *)
At(a, c) == Listening!Claim(a, c.port, c.transport)
LingersAt(c) == Listening!Claim(c.address, c.port, "lingering")

(* A socket is its claim, with another address or lingering as the case may be. *)
LEMMA SocketIs ==
  ASSUME NEW c \in Listening!Sockets
  PROVE  /\ c = At(c.address, c)
         /\ c.address \in Listening!Addresses
         /\ c.transport = "lingering" => c.address \in {Listening!Loopback, Listening!Lan}
         /\ \A a : [c EXCEPT !.address = a] = At(a, c)
         /\ [c EXCEPT !.transport = "lingering"] = LingersAt(c)
BY DEF Listening!Sockets, Listening!Claims, Listening!Lingering, Listening!Claim,
       Listening!Addresses, At, LingersAt

(* What a claim is made of. *)
LEMMA ClaimFields ==
  \A a, p, t : /\ Listening!Claim(a, p, t).address = a
               /\ Listening!Claim(a, p, t).port = p
               /\ Listening!Claim(a, p, t).transport = t
BY DEF Listening!Claim

(* There is one address to bind of each family. *)
LEMMA OneAddress ==
  ASSUME scope \in Listening!Scopes,
         NEW a \in Listening!BindAddresses(scope), NEW b \in Listening!BindAddresses(scope),
         Listening!IsIpv4(a) = Listening!IsIpv4(b)
  PROVE  a = b
BY DEF Listening!Scopes, Listening!BindAddresses, Listening!IsIpv4, Listening!Any4, Listening!Any6,
       Listening!Loopback, Listening!Lan

(* What settings claim are claims to addresses of their scope. *)
LEMMA ClaimsAre ==
  ASSUME scope \in Listening!Scopes, NEW ports \in Listening!PortsOf
  PROVE  \A c \in Listening!ClaimsOf(ports) :
           c \in Listening!Claims /\ c.address \in Listening!BindAddresses(scope)
<1>1. Listening!Kinds = {"mixed", "http"}
  BY DEF Listening!Kinds, Listening!Transports
<1>2. \A k \in {"mixed", "http"} : Listening!Transports[k] \subseteq {"tcp", "udp"}
  BY DEF Listening!Transports
<1>3. \A k \in {"mixed", "http"} : ports[k] # 0 => ports[k] \in PortNumbers
  BY <1>1 DEF Listening!PortsOf
<1>4. Listening!BindAddresses(scope) \subseteq Listening!Addresses
  BY DEF Listening!Scopes, Listening!BindAddresses, Listening!Addresses
<1> SUFFICES ASSUME NEW c \in Listening!ClaimsOf(ports)
             PROVE  c \in Listening!Claims /\ c.address \in Listening!BindAddresses(scope)
  OBVIOUS
<1>5. PICK k \in {l \in Listening!Kinds : ports[l] # 0} :
        c \in {Listening!Claim(a, ports[k], t) :
                 a \in Listening!BindAddresses(scope), t \in Listening!Transports[k]}
  BY DEF Listening!ClaimsOf
<1>6. PICK a \in Listening!BindAddresses(scope), t \in Listening!Transports[k] :
        c = Listening!Claim(a, ports[k], t)
  BY <1>5
<1>7. k \in {"mixed", "http"} /\ ports[k] \in PortNumbers /\ t \in {"tcp", "udp"}
      /\ a \in Listening!Addresses
  BY <1>1, <1>2, <1>3, <1>4, <1>5, <1>6
<1>8. c \in Listening!Claims
  BY <1>6, <1>7 DEF Listening!Claims, Listening!Claim
<1> QED
  BY <1>6, <1>8, ClaimFields

(* Sockets that cannot be open together. *)
Collide(h, c) ==
  /\ h.port = c.port /\ h.transport = c.transport
  /\ h.address = c.address
     \/ (Listening!Any4 \in {h.address, c.address} /\ Listening!Any6 \notin {h.address, c.address})

(* Two sockets that collide overlap (claims_overlap). *)
LEMMA CollidingOverlap ==
  ASSUME NEW h, NEW c, Collide(h, c)
  PROVE  Listening!Overlap(h, c)
BY DEF Collide, Listening!Overlap, Listening!IsIpv4, Listening!Unspecified, Listening!Any4,
       Listening!Any6

(* What may be bound on macOS: no form of the address that is asked about is *)
(* served, and the address itself is not taken.                             *)
LEMMA FreeIsFree ==
  ASSUME ListeningInv, NEW c \in Listening!Claims, Listening!IsFree(c), NEW h \in held
  PROVE  ~Collide(h, c)
<1> SUFFICES ASSUME Collide(h, c)
             PROVE  FALSE
  OBVIOUS
<1>1. Listening!Serving(c)
  BY CollidingOverlap DEF Listening!Serving
<1>2. Listening!BindClaim(c)
  BY <1>1 DEF Listening!IsFree, Listening!NothingIsServing
<1>3. c \in Listening!Sockets /\ c.transport \in {"tcp", "udp"} /\ h \in Listening!Sockets
  BY DEF ListeningInv, Listening!Sockets, Listening!Claims
<1> DEFINE shadowed == {g \in Listening!Guards(c) :
                       Listening!Refused(g) /\ Listening!NothingIsServing(g)}
<1>4. /\ \A g \in Listening!Guards(c) \ shadowed : ~Listening!Refused(g)
      /\ shadowed # {} \/ ~Listening!Refused(c)
  BY <1>2 DEF Listening!BindClaim
<1>5. CASE platform = "linux" \/ c.transport = "udp"
  <2>1. Listening!Guards(c) = {}
    BY <1>5 DEF Listening!Guards
  <2>2. ~Listening!Refused(c)
    BY <1>4, <2>1
  <2> QED
    BY <1>1, <1>5, <2>2 DEF Listening!Refused
<1>6. CASE platform = "macos" /\ c.transport = "tcp"
  <2>1. h = At(h.address, c)
    BY <1>3, SocketIs DEF Collide, At
  <2>2. \A g \in held : g.transport = "tcp" => Listening!Refused(g)
    BY <1>6 DEF Listening!Refused
  <2>3. \A g : g.transport = "tcp" /\ Listening!Overlap(h, g) => ~Listening!NothingIsServing(g)
    BY DEF Listening!NothingIsServing, Listening!Serving
  <2>4. Listening!Guards(c) =
          {At(a, c) : a \in IF c.address = Listening!Any4
                            THEN {Listening!Loopback, Listening!Lan}
                            ELSE IF c.address = Listening!Any6 THEN {} ELSE {Listening!Any4}}
    BY <1>3, <1>6, SocketIs DEF Listening!Guards
  <2>5. /\ c.address \in Listening!Addresses /\ h.address \in Listening!Addresses
        /\ c = At(c.address, c)
    BY <1>3, SocketIs
  <2>6. \A a : /\ At(a, c).address = a /\ At(a, c).port = c.port
               /\ At(a, c).transport = c.transport
    BY ClaimFields DEF At
  <2>7. h.transport = "tcp" /\ h.port = c.port
    BY <1>6 DEF Collide
  <2>8. CASE h.address = c.address
    <3>1. Listening!Refused(c)
      BY <2>1, <2>2, <2>5, <2>7, <2>8
    <3>2. PICK g \in Listening!Guards(c) : Listening!Refused(g) /\ Listening!NothingIsServing(g)
      BY <1>4, <3>1
    <3>3. g.address \notin Listening!Unspecified
      BY <3>2 DEF Listening!NothingIsServing
    <3>4. c.address = Listening!Any4 /\ g.address \in {Listening!Loopback, Listening!Lan}
      BY <2>4, <2>6, <3>2, <3>3 DEF Listening!Unspecified
    <3>5. g.port = c.port /\ g.transport = "tcp"
      BY <1>6, <2>4, <2>6, <3>2
    <3>6. Listening!Overlap(h, g)
      BY <2>7, <2>8, <3>4, <3>5
         DEF Listening!Overlap, Listening!IsIpv4, Listening!Unspecified, Listening!Any4,
             Listening!Any6, Listening!Loopback, Listening!Lan
    <3> QED
      BY <2>3, <3>2, <3>5, <3>6
  <2>9. CASE h.address # c.address
    <3>1. h \in Listening!Guards(c)
      <4>1. /\ Listening!Any4 \in {h.address, c.address}
            /\ Listening!Any6 \notin {h.address, c.address}
        BY <2>9 DEF Collide
      <4>2. h.address \in IF c.address = Listening!Any4
                          THEN {Listening!Loopback, Listening!Lan}
                          ELSE IF c.address = Listening!Any6 THEN {} ELSE {Listening!Any4}
        BY <2>5, <2>9, <4>1 DEF Listening!Addresses
      <4> QED
        BY <2>1, <2>4, <4>2
    <3>2. ~Listening!NothingIsServing(h)
      <4>1. Listening!Overlap(h, h)
        BY DEF Listening!Overlap
      <4> QED
        BY <2>3, <2>7, <4>1
    <3> QED
      BY <1>4, <2>2, <2>7, <3>1, <3>2
  <2> QED
    BY <2>8, <2>9
<1> QED
  BY <1>3, <1>5, <1>6 DEF ListeningInv

(* And what may not be bound is somebody's. *)
LEMMA TakenIsTaken ==
  ASSUME ListeningInv, NEW c \in Listening!Claims, ~Listening!IsFree(c)
  PROVE  \E h \in held : h.port = c.port /\ h.transport = c.transport
<1> DEFINE Goal == \E h \in held : h.port = c.port /\ h.transport = c.transport
<1>1. \A d : d.port = c.port /\ d.transport = c.transport /\ Listening!Serving(d) => Goal
  BY DEF Listening!Serving, Listening!Overlap
<1>2. c \in Listening!Sockets /\ c.transport \in {"tcp", "udp"}
  BY DEF Listening!Sockets, Listening!Claims
<1>3. \A d \in held : d.port = c.port /\ d.transport = c.transport => Goal
  OBVIOUS
<1> SUFFICES Goal
  OBVIOUS
<1> HIDE DEF Goal
<1>4. ASSUME NEW d \in Listening!Claims, d.port = c.port, d.transport = c.transport,
             Listening!Refused(d), ~Listening!NothingIsServing(d)
      PROVE  Goal
  <2>1. CASE platform = "linux" \/ d.transport = "udp"
    BY <1>1, <1>4, <2>1 DEF Listening!Refused
  <2>2. CASE ~(platform = "linux" \/ d.transport = "udp") /\ d \in held
    BY <1>3, <1>4, <2>2
  <2>3. CASE /\ ~(platform = "linux" \/ d.transport = "udp")
             /\ [d EXCEPT !.transport = "lingering"] \in held
    <3>1. d \in Listening!Sockets /\ d.transport = "tcp"
      BY <1>2, <1>4, <2>3 DEF Listening!Sockets
    <3>2. LingersAt(d) \in Listening!Sockets
      BY <2>3, <3>1, SocketIs DEF ListeningInv
    <3>3. d.address \in {Listening!Loopback, Listening!Lan}
      <4>1. LingersAt(d).transport = "lingering" /\ LingersAt(d).address = d.address
        BY ClaimFields DEF LingersAt
      <4> QED
        BY <3>2, <4>1, SocketIs
    <3>4. d.address \notin Listening!Unspecified
      BY <3>3 DEF Listening!Unspecified, Listening!Loopback, Listening!Lan, Listening!Any4,
         Listening!Any6
    <3> QED
      BY <1>1, <1>4, <3>1, <3>4 DEF Listening!NothingIsServing
  <2> QED
    BY <1>4, <2>1, <2>2, <2>3 DEF Listening!Refused
<1>5. \A g \in Listening!Guards(c) :
        g \in Listening!Claims /\ g.port = c.port /\ g.transport = c.transport
  <2>1. \A a \in Listening!Addresses :
          At(a, c) \in Listening!Claims /\ At(a, c).port = c.port
          /\ At(a, c).transport = c.transport
    BY DEF At, Listening!Claim, Listening!Claims
  <2>2. \A g \in Listening!Guards(c) : \E a \in Listening!Addresses : g = At(a, c)
    BY <1>2, SocketIs DEF Listening!Guards, Listening!Addresses
  <2> QED
    BY <2>1, <2>2
<1>6. ~Listening!NothingIsServing(c) /\ ~Listening!BindClaim(c)
  BY DEF Listening!IsFree
<1>7. CASE Listening!Refused(c)
  BY <1>4, <1>6, <1>7
<1>8. CASE ~Listening!Refused(c)
  <2>1. PICK g \in Listening!Guards(c) :
          Listening!Refused(g) /\ ~Listening!NothingIsServing(g)
    BY <1>6, <1>8 DEF Listening!BindClaim
  <2> QED
    BY <1>4, <1>5, <2>1
<1> QED
  BY <1>7, <1>8

(* No probe has been made at first. *)
LEMMA ListeningInit == Listening!Init => ListeningInv
BY DEF Listening!Init, ListeningInv

(* Every probe keeps the invariant. *)
LEMMA ListeningKeeps ==
  ListeningInv /\ [Listening!Next]_(Listening!listenerVars) => ListeningInv'
<1> SUFFICES ASSUME ListeningInv, [Listening!Next]_(Listening!listenerVars)
             PROVE  ListeningInv'
  OBVIOUS
<1>1. UNCHANGED <<platform, scope, current, wanted, coreRuns, held>>
      /\ verdict' \in {verdict, Listening!ProbeProxyPortChange}
  BY DEF Listening!Next, Listening!Probe, Listening!listenerVars, Listening!question
<1>2. \A ports : Listening!ClaimsOf(ports)' = Listening!ClaimsOf(ports)
  BY <1>1 DEF Listening!ClaimsOf
<1>3. \A c : Listening!Serving(c)' <=> Listening!Serving(c)
  BY <1>1 DEF Listening!Serving
<1>4. Listening!CoreHoldsItsOwn'
  BY <1>1, <1>2, <1>3 DEF ListeningInv, Listening!CoreHoldsItsOwn
<1>5. \A c : Listening!IsFree(c)' <=> Listening!IsFree(c)
  <2>1. \A c : Listening!Refused(c)' <=> Listening!Refused(c)
    BY <1>1, <1>3 DEF Listening!Refused
  <2>2. \A c : Listening!Guards(c)' = Listening!Guards(c)
    BY <1>1 DEF Listening!Guards
  <2>3. \A c : Listening!NothingIsServing(c)' <=> Listening!NothingIsServing(c)
    BY <1>3 DEF Listening!NothingIsServing
  <2> QED
    BY <2>1, <2>2, <2>3 DEF Listening!IsFree, Listening!BindClaim
<1>6. Listening!ProbeProxyPortChange' = Listening!ProbeProxyPortChange
  BY <1>1, <1>2, <1>5 DEF Listening!ProbeProxyPortChange
<1> QED
  BY <1>1, <1>4, <1>6 DEF ListeningInv

(* What the invariant says of the verdict. *)
LEMMA ListeningShows ==
  ListeningInv => Listening!AcceptedPortsAreFree /\ Listening!ConflictsAreReal
<1> SUFFICES ASSUME ListeningInv
             PROVE  Listening!AcceptedPortsAreFree /\ Listening!ConflictsAreReal
  OBVIOUS
<1> DEFINE own == IF coreRuns THEN Listening!ClaimsOf(current) ELSE {}
           asked == {c \in Listening!ClaimsOf(wanted) : \A o \in own : ~Listening!Overlap(o, c)}
<1>1. /\ verdict = "available" =>
           ~Listening!InternalConflict(wanted) /\ \A c \in asked : Listening!IsFree(c)
      /\ verdict = "conflict" =>
           Listening!InternalConflict(wanted) \/ \E c \in asked : ~Listening!IsFree(c)
  BY DEF ListeningInv, Listening!ProbeProxyPortChange
<1>2. /\ \A c \in Listening!ClaimsOf(wanted) :
           c \in Listening!Claims /\ c.address \in Listening!BindAddresses(scope)
      /\ \A c \in Listening!ClaimsOf(current) :
           c \in Listening!Claims /\ c.address \in Listening!BindAddresses(scope)
  BY ClaimsAre DEF ListeningInv
<1>3. Listening!InternalConflict(wanted) <=> wanted.mixed = wanted.http
  BY DEF ListeningInv, Listening!InternalConflict, Listening!PortsOf, Listening!Kinds,
         Listening!Transports
<1>4. ASSUME NEW c \in Listening!ClaimsOf(wanted), NEW o \in own, Listening!Overlap(o, c)
      PROVE  ~Listening!Serving(c)
  <2>1. coreRuns /\ o \in Listening!ClaimsOf(current)
    BY <1>4
  <2>2. o.address = c.address
    BY <1>2, <1>4, <2>1, OneAddress DEF ListeningInv, Listening!Overlap
  <2>3. o = c
    BY <1>2, <1>4, <2>1, <2>2, SocketIs DEF Listening!Overlap, At, Listening!Sockets
  <2> QED
    BY <2>1, <2>3 DEF ListeningInv, Listening!CoreHoldsItsOwn
<1>5. ASSUME verdict = "available", NEW c \in Listening!ClaimsOf(wanted), NEW h \in held
      PROVE  ~Collide(h, c)
  <2>1. CASE c \in asked
    BY <1>1, <1>2, <1>5, <2>1, FreeIsFree
  <2>2. CASE c \notin asked
    BY <1>4, <1>5, <2>2, CollidingOverlap DEF Listening!Serving
  <2> QED
    BY <2>1, <2>2
<1>6. Listening!AcceptedPortsAreFree
  BY <1>1, <1>3, <1>5 DEF Listening!AcceptedPortsAreFree, Collide
<1>7. Listening!ConflictsAreReal
  BY <1>1, <1>2, <1>3, TakenIsTaken DEF Listening!ConflictsAreReal
<1> QED
  BY <1>6, <1>7
-----------------------------------------------------------------------------
(* The restoration of the selected nodes *)

Contents == [Groups -> SUBSET Nodes]
SnapshotStates == [Groups -> [all : SUBSET Nodes, now : Nodes \cup {None}]]
Works ==
  {w \in [step : {"begin", "look", "ask", "look again", "ask again", "ask on", "prune", "settle"},
          selected : Selecting!Records, first : SnapshotStates, plan : Selecting!Records,
          todo : SUBSET Groups, asking : Groups \cup {None}, full : BOOLEAN] :
     w.asking # None => w.step \in {"ask", "ask again", "ask on"}}
Restorations == [gen : Nat, repair : {"Prune", "KeepRecords"}]

SelectingTypes ==
  /\ records \in Selecting!Records /\ now \in Selecting!Records
  /\ content \in Contents /\ former \in Contents /\ work \in Works
  /\ choosing \subseteq Groups \X Nodes /\ \A c, d \in choosing : c = d
  /\ settled \in BOOLEAN /\ misjudged = FALSE
(* Each restoration is younger than the ones before it, so that only the last *)
(* one can be current.                                                      *)
InLine ==
  /\ generation \in Nat /\ waiting \in Seq(Restorations)
  /\ \A i \in 1..Len(waiting) : waiting[i].gen <= generation
  /\ \A i, j \in 1..Len(waiting) : i < j => waiting[i].gen < waiting[j].gen
  /\ waiting = <<>> => work.step = "begin"

(* A choice of the user that the records do not have yet. *)
Undecided(g) == \E c \in choosing : c[1] = g /\ c[2] # records[g]
(* The node of a group is back, and what its record becomes is what it is on. *)
PutBack(g) ==
  /\ work.selected[g] \in content[g] /\ g \notin work.todo => now[g] = work.selected[g]
  /\ work.plan[g] # work.selected[g] => work.plan[g] \in {None, now[g]}
(* What a restoration that is current knows is still so. *)
WorkIsRight ==
  /\ work.selected = records
  /\ work.step # "look" =>
       /\ \A g \in Groups : work.plan[g] # work.selected[g] => work.selected[g] \notin content[g]
       /\ work.step \in {"prune", "settle"} => work.todo = {}
       /\ work.full => view = "loaded" /\ \A g \in Groups : Undecided(g) \/ PutBack(g)

SelectingInv ==
  /\ SelectingTypes /\ InLine
  /\ Selecting!Running /\ Selecting!NotSuperseded /\ work.step # "begin" => WorkIsRight
  /\ settled => waiting = <<>> /\ choosing = {}
  /\ Selecting!SelectionsComeBack

(* No restoration runs at first. *)
LEMMA SelectingInit == Selecting!Init => SelectingInv
<1> SUFFICES ASSUME Selecting!Init
             PROVE  SelectingInv
  OBVIOUS
<1>1. Selecting!Nodeless \in Selecting!Records
  BY DEF Selecting!Nodeless, Selecting!Records
<1>2. Selecting!NoSnapshot \in SnapshotStates
  BY DEF Selecting!NoSnapshot, SnapshotStates
<1>3. Selecting!Idle \in Works /\ Selecting!Idle.step = "begin"
  BY <1>1, <1>2 DEF Selecting!Idle, Works
<1>4. settled \in BOOLEAN /\ misjudged = FALSE
  BY Zenon DEF Selecting!Init
<1>5. content \in Contents /\ former \in Contents
  BY DEF Selecting!Init, Contents
<1>6. SelectingTypes
  BY <1>1, <1>3, <1>4, <1>5 DEF Selecting!Init, SelectingTypes
<1>7. InLine
  BY <1>3 DEF Selecting!Init, InLine
<1>8. ~settled
  BY DEF Selecting!Init
<1> QED
  BY <1>6, <1>7, <1>8, <1>3 DEF Selecting!Init, SelectingInv, Selecting!SelectionsComeBack

(* The line of the restorations, when one more comes and when one ends. *)
LEMMA OneMore ==
  ASSUME InLine, NEW r \in Restorations, r.gen = generation + 1, generation' = generation + 1,
         waiting' = Append(waiting, r), work' = work
  PROVE  InLine' /\ waiting' # <<>> /\ (Selecting!NotSuperseded' => work.step = "begin")
<1> USE DEF InLine
<1>1. waiting' \in Seq(Restorations) /\ Len(waiting') = Len(waiting) + 1
  OBVIOUS
<1>2. \A i \in 1..Len(waiting') : waiting'[i] = IF i <= Len(waiting) THEN waiting[i] ELSE r
  OBVIOUS
<1>3. \A i \in 1..Len(waiting) : waiting[i] \in Restorations
  OBVIOUS
<1>4. \A i \in 1..Len(waiting') : waiting'[i].gen <= generation'
  BY <1>1, <1>2, <1>3 DEF Restorations
<1>5. \A i, j \in 1..Len(waiting') : i < j => waiting'[i].gen < waiting'[j].gen
  <2> SUFFICES ASSUME NEW i \in 1..Len(waiting'), NEW j \in 1..Len(waiting'), i < j
               PROVE  waiting'[i].gen < waiting'[j].gen
    OBVIOUS
  <2>1. i \in 1..Len(waiting) /\ waiting'[i] = waiting[i] /\ waiting[i].gen \in Nat
    BY <1>1, <1>2, <1>3 DEF Restorations
  <2>2. CASE j \in 1..Len(waiting)
    BY <1>2, <2>1, <2>2
  <2>3. CASE j \notin 1..Len(waiting)
    BY <1>1, <1>2, <2>1, <2>3
  <2> QED
    BY <2>2, <2>3
<1>6. waiting' # <<>>
  BY <1>1
<1>7. ASSUME work.step # "begin"
      PROVE  ~Selecting!NotSuperseded'
  <2>1. waiting # <<>> /\ 1 \in 1..Len(waiting)
    BY <1>7
  <2>2. Head(waiting') = waiting[1] /\ waiting[1].gen <= generation /\ waiting[1].gen \in Nat
    BY <1>1, <1>2, <1>3, <1>6, <2>1 DEF Restorations
  <2> QED
    BY <2>2 DEF Selecting!NotSuperseded
<1> QED
  BY <1>1, <1>4, <1>5, <1>6, <1>7

(* The next restoration is taken from the line. *)
LEMMA OneLess ==
  ASSUME InLine, waiting # <<>>, generation' = generation, waiting' = Tail(waiting),
         work'.step = "begin"
  PROVE  InLine' /\ (Selecting!NotSuperseded => waiting' = <<>>)
<1> USE DEF InLine
<1>1. waiting' \in Seq(Restorations) /\ Len(waiting') = Len(waiting) - 1 /\ Len(waiting) \in Nat
  OBVIOUS
<1>2. \A i \in 1..Len(waiting') : waiting'[i] = waiting[i + 1] /\ i + 1 \in 1..Len(waiting)
  BY <1>1
<1>3. \A i \in 1..Len(waiting') : waiting'[i].gen <= generation'
  BY <1>2
<1>4. \A i, j \in 1..Len(waiting') : i < j => waiting'[i].gen < waiting'[j].gen
  <2> SUFFICES ASSUME NEW i \in 1..Len(waiting'), NEW j \in 1..Len(waiting'), i < j
               PROVE  waiting'[i].gen < waiting'[j].gen
    OBVIOUS
  <2>1. i + 1 < j + 1
    OBVIOUS
  <2> QED
    BY <1>2, <2>1
<1>5. ASSUME Selecting!NotSuperseded
      PROVE  waiting' = <<>>
  <2>1. waiting[1].gen = generation
    BY <1>5 DEF Selecting!NotSuperseded
  <2>2. ~(Len(waiting) >= 2)
    <3> SUFFICES ASSUME Len(waiting) >= 2
                 PROVE  FALSE
      OBVIOUS
    <3>1. 1 \in 1..Len(waiting) /\ 2 \in 1..Len(waiting)
      BY <1>1
    <3>2. waiting[1].gen < waiting[2].gen /\ waiting[2].gen <= generation
      BY <3>1
    <3>3. waiting[2] \in Restorations
      BY <3>1
    <3> QED
      BY <2>1, <3>2, <3>3 DEF Restorations
  <2>3. Len(waiting') = 0
    BY <1>1, <2>2
  <2> QED
    BY <1>1, <2>3
<1> QED
  BY <1>1, <1>3, <1>4, <1>5

-----------------------------------------------------------------------------
(* A restoration that goes on leaves the records alone. *)
LEMMA GoesOn ==
  ASSUME SelectingInv, Selecting!Running, work' \in Works, now' \in Selecting!Records,
         UNCHANGED <<records, content, former, view, generation, waiting, choosing, settled,
                     misjudged>>,
         WorkIsRight'
  PROVE  SelectingInv'
<1>1. ~settled
  BY DEF SelectingInv, Selecting!Running
<1>2. SelectingTypes'
  BY DEF SelectingInv, SelectingTypes
<1>3. InLine'
  BY DEF SelectingInv, InLine, Selecting!Running
<1> QED
  BY <1>1, <1>2, <1>3 DEF SelectingInv, Selecting!SelectionsComeBack

(* A restoration ends, settled or not. *)
LEMMA Ends ==
  ASSUME SelectingInv, Selecting!Running, Selecting!Finish,
         records' \in Selecting!Records, now' \in Selecting!Records,
         UNCHANGED <<content, former, generation, choosing>>,
         misjudged' = FALSE, settled' \in BOOLEAN,
         settled' =>
           /\ Selecting!NotSuperseded /\ choosing = {}
           /\ \A g \in Groups : records'[g] \in content[g] => now'[g] = records'[g]
  PROVE  SelectingInv'
<1>1. work' = Selecting!Idle /\ waiting' = Tail(waiting) /\ waiting # <<>>
  BY DEF Selecting!Finish, Selecting!Running
<1>2. work' \in Works /\ work'.step = "begin"
  <2>1. Selecting!Nodeless \in Selecting!Records /\ Selecting!NoSnapshot \in SnapshotStates
    BY DEF Selecting!Nodeless, Selecting!Records, Selecting!NoSnapshot, SnapshotStates
  <2> QED
    BY <1>1, <2>1 DEF Selecting!Idle, Works
<1>3. InLine' /\ (Selecting!NotSuperseded => waiting' = <<>>)
  BY <1>1, <1>2, OneLess DEF SelectingInv
<1>4. SelectingTypes'
  BY <1>2 DEF SelectingInv, SelectingTypes
<1> QED
  BY <1>2, <1>3, <1>4 DEF SelectingInv, Selecting!SelectionsComeBack

(* A restoration that goes on is current, and one that ends without a claim *)
(* changes nothing.                                                         *)
LEMMA UnlessItEnds ==
  ASSUME SelectingInv, Selecting!Running, NEW w, Selecting!Unless(w),
         UNCHANGED <<records, content, former, view, generation, choosing, settled, misjudged>>,
         now' \in Selecting!Records,
         Selecting!NotSuperseded => w \in Works /\ (work' = w => WorkIsRight')
  PROVE  SelectingInv'
<1>1. CASE Selecting!NotSuperseded
  BY <1>1, GoesOn DEF Selecting!Unless, Selecting!GoOn
<1>2. CASE ~Selecting!NotSuperseded
  <2>1. Selecting!Finish /\ ~settled
    BY <1>2 DEF Selecting!Unless, SelectingInv, Selecting!Running
  <2>2. misjudged' = FALSE /\ settled' \in BOOLEAN /\ ~settled'
    BY <2>1 DEF SelectingInv, SelectingTypes
  <2>3. records' \in Selecting!Records
    BY DEF SelectingInv, SelectingTypes
  <2> QED
    BY <2>1, <2>2, <2>3, Ends
<1> QED
  BY <1>1, <1>2

(* The Core's groups as a restoration sees them. *)
LEMMA SnapshotIs ==
  ASSUME SelectingTypes
  PROVE  /\ Selecting!Snapshot \in SnapshotStates
         /\ \A g \in Groups : /\ Selecting!Snapshot[g].all = Selecting!Listed(g)
                              /\ Selecting!Snapshot[g].now = now[g]
                              /\ view = "loaded" => Selecting!Listed(g) = content[g]
                              /\ view # "old" => Selecting!Listed(g) \in {{}, content[g]}
<1>1. \A g \in Groups : Selecting!Listed(g) \in SUBSET Nodes
  BY DEF SelectingTypes, Contents, Selecting!Listed
<1>2. \A g \in Groups : now[g] \in Nodes \cup {None}
  BY DEF SelectingTypes, Selecting!Records
<1>3. \A g \in Groups : Selecting!Snapshot[g] = [all |-> Selecting!Listed(g), now |-> now[g]]
  BY DEF Selecting!Snapshot
<1>4. Selecting!Snapshot \in SnapshotStates
  BY <1>1, <1>2 DEF Selecting!Snapshot, SnapshotStates
<1>5. \A g \in Groups : /\ view = "loaded" => Selecting!Listed(g) = content[g]
                        /\ view # "old" => Selecting!Listed(g) \in {{}, content[g]}
  BY DEF Selecting!Listed
<1>6. \A g \in Groups : /\ Selecting!Snapshot[g].all = Selecting!Listed(g)
                        /\ Selecting!Snapshot[g].now = now[g]
  <2> SUFFICES ASSUME NEW g \in Groups
               PROVE  /\ Selecting!Snapshot[g].all = Selecting!Listed(g)
                      /\ Selecting!Snapshot[g].now = now[g]
    OBVIOUS
  <2>1. Selecting!Snapshot[g] = [all |-> Selecting!Listed(g), now |-> now[g]]
    BY <1>3
  <2>2. \A r, l, n : r = [all |-> l, now |-> n] => r.all = l /\ r.now = n
    OBVIOUS
  <2> HIDE DEF Selecting!Snapshot
  <2> QED
    BY <2>1, <2>2, Zenon
<1> QED
  BY <1>4, <1>5, <1>6

(* What is planned for a group whose record does not fit. *)
LEMMA PlanIs ==
  ASSUME SelectingTypes, NEW first
  PROVE  LET p == Selecting!Plan(Selecting!Snapshot, first)
         IN /\ p \in Selecting!Records
            /\ \A g \in Groups : p[g] # work.selected[g] =>
                 /\ p[g] \in {None, now[g]}
                 /\ Selecting!Listed(g) # {} /\ work.selected[g] \notin Selecting!Listed(g)
                 /\ first[g].all # {}
<1> DEFINE p == Selecting!Plan(Selecting!Snapshot, first)
<1>1. \A g \in Groups : p[g] = Selecting!Reconciled(g, Selecting!Snapshot, first)
  BY DEF Selecting!Plan
<1>2. \A g \in Groups :
        /\ p[g] \in {None, now[g], work.selected[g]}
        /\ p[g] # work.selected[g] =>
             /\ p[g] \in {None, now[g]}
             /\ Selecting!Listed(g) # {} /\ work.selected[g] \notin Selecting!Listed(g)
             /\ first[g].all # {}
  BY <1>1, SnapshotIs DEF Selecting!Reconciled, Selecting!MissingWasConfirmed
<1>3. \A g \in Groups : now[g] \in Nodes \cup {None} /\ work.selected[g] \in Nodes \cup {None}
  BY DEF SelectingTypes, Selecting!Records, Works
<1>4. p = [g \in Groups |-> p[g]]
  BY DEF Selecting!Plan
<1>5. p \in Selecting!Records
  <2> HIDE DEF p
  <2> QED
    BY <1>2, <1>3, <1>4 DEF Selecting!Records
<1> QED
  BY <1>2, <1>5

(* With all groups in sight, what is left to do is all that is to be done. *)
LEMMA ActivationsAre ==
  ASSUME SelectingTypes
  PROVE  /\ Selecting!Activations(Selecting!Snapshot) \in SUBSET Groups
         /\ view = "loaded" =>
              \A g \in Groups :
                work.selected[g] \in content[g]
                  /\ g \notin Selecting!Activations(Selecting!Snapshot) => now[g] = work.selected[g]
<1>1. \A g \in Groups : content[g] \subseteq Nodes
  BY DEF SelectingTypes, Contents
<1> QED
  BY <1>1, SnapshotIs, NodesAssumption DEF Selecting!Activations

(* What a restoration keeps. *)
LEMMA WorkFields ==
  ASSUME SelectingTypes
  PROVE  /\ work.selected \in Selecting!Records /\ work.first \in SnapshotStates
         /\ work.plan \in Selecting!Records /\ work.todo \in SUBSET Groups
         /\ work.asking \in Groups \cup {None} /\ work.full \in BOOLEAN
BY DEF SelectingTypes, Works

(* The looks of a restoration at the Core. *)
LEMMA SelectingLooks ==
  SelectingInv /\ (Selecting!Begin \/ Selecting!LookOnce \/ Selecting!LookAgain) => SelectingInv'
<1> SUFFICES ASSUME SelectingInv, Selecting!Begin \/ Selecting!LookOnce \/ Selecting!LookAgain
             PROVE  SelectingInv'
  OBVIOUS
<1>1. /\ SelectingTypes /\ Selecting!Running /\ now' \in Selecting!Records
      /\ UNCHANGED <<records, content, former, view, now, generation, choosing, settled, misjudged>>
  BY DEF SelectingInv, SelectingTypes, Selecting!Begin, Selecting!LookOnce, Selecting!LookAgain,
         Selecting!At, Selecting!Others, Selecting!core
<1>2. CASE Selecting!Begin
  <2> DEFINE w == [Selecting!Idle EXCEPT !.step = "look", !.selected = records]
  <2>1. w \in Works /\ w.step = "look" /\ w.selected = records
    <3>1. Selecting!Nodeless \in Selecting!Records /\ Selecting!NoSnapshot \in SnapshotStates
      BY DEF Selecting!Nodeless, Selecting!Records, Selecting!NoSnapshot, SnapshotStates
    <3> QED
      BY <1>1, <3>1 DEF Selecting!Idle, Works, SelectingTypes
  <2> HIDE DEF w
  <2>2. CASE work' = w /\ waiting' = waiting
    BY <1>1, <2>1, <2>2, GoesOn DEF WorkIsRight
  <2>3. CASE Selecting!Finish
    <3>1. ~settled' /\ settled' \in BOOLEAN /\ misjudged' = FALSE /\ records' \in Selecting!Records
      BY <1>1 DEF SelectingInv, SelectingTypes, Selecting!Running
    <3> QED
      BY <1>1, <2>3, <3>1, Ends
  <2> QED
    BY <1>2, <2>2, <2>3 DEF Selecting!Begin, Selecting!GoOn, w
<1>3. CASE Selecting!LookOnce
  <2> DEFINE s == Selecting!Snapshot
             p == Selecting!Plan(s, Selecting!NoSnapshot)
             full == view = "loaded"
             w == [work EXCEPT !.step = "ask", !.first = s, !.todo = Selecting!Activations(s),
                               !.plan = p, !.full = full]
  <2>1. /\ s \in SnapshotStates /\ p \in Selecting!Records
        /\ Selecting!Activations(s) \in SUBSET Groups /\ full \in BOOLEAN
    BY <1>1, SnapshotIs, PlanIs, ActivationsAre
  <2>2. \A g \in Groups : p[g] = work.selected[g]
    BY <1>1, PlanIs DEF Selecting!NoSnapshot
  <2> HIDE DEF s, p, full
  <2>3. /\ w \in Works /\ w.step = "ask" /\ w.selected = work.selected /\ w.plan = p
        /\ w.todo = Selecting!Activations(s) /\ w.full = full
    BY <1>1, <2>1 DEF SelectingTypes, Works
  <2>4. Selecting!Unless(w)
    BY <1>3 DEF Selecting!LookOnce, s, p, full
  <2> HIDE DEF w
  <2>5. ASSUME Selecting!NotSuperseded, work' = w
        PROVE  WorkIsRight'
    <3>1. work.selected = records
      BY <1>3, <2>5 DEF SelectingInv, Selecting!LookOnce, Selecting!At, WorkIsRight
    <3>2. full => view' = "loaded" /\ \A g \in Groups : PutBack(g)'
      BY <1>1, <2>2, <2>3, <2>5, ActivationsAre DEF PutBack, s, full
    <3> QED
      BY <1>1, <2>2, <2>3, <2>5, <3>1, <3>2 DEF WorkIsRight
  <2> QED
    BY <1>1, <2>3, <2>4, <2>5, UnlessItEnds
<1>4. CASE Selecting!LookAgain
  <2> DEFINE s == Selecting!Snapshot
             p == Selecting!Plan(s, work.first)
             full == view = "loaded"
             w == [work EXCEPT !.step = "ask again", !.todo = Selecting!Activations(s),
                               !.plan = p, !.full = full]
  <2>1. /\ p \in Selecting!Records
        /\ Selecting!Activations(s) \in SUBSET Groups /\ full \in BOOLEAN
    BY <1>1, PlanIs, ActivationsAre
  <2>2. \A g \in Groups : p[g] # work.selected[g] =>
          p[g] \in {None, now[g]} /\ work.selected[g] \notin content[g]
    <3>1. view # "old"
      BY <1>4 DEF Selecting!LookAgain
    <3>2. \A g \in Groups : Selecting!Listed(g) \in {{}, content[g]}
      BY <1>1, <3>1, SnapshotIs
    <3> QED
      BY <1>1, <3>2, PlanIs
  <2> HIDE DEF s, p, full
  <2>3. /\ w \in Works /\ w.step = "ask again" /\ w.selected = work.selected /\ w.plan = p
        /\ w.todo = Selecting!Activations(s) /\ w.full = full
    BY <1>1, <2>1 DEF SelectingTypes, Works
  <2>4. Selecting!Unless(w)
    BY <1>4 DEF Selecting!LookAgain, s, p, full
  <2> HIDE DEF w
  <2>5. ASSUME Selecting!NotSuperseded, work' = w
        PROVE  WorkIsRight'
    <3>1. work.selected = records
      BY <1>4, <2>5 DEF SelectingInv, Selecting!LookAgain, Selecting!At, WorkIsRight
    <3>2. full => view' = "loaded" /\ \A g \in Groups : PutBack(g)'
      BY <1>1, <2>2, <2>3, <2>5, ActivationsAre DEF PutBack, s, full
    <3> QED
      BY <1>1, <2>2, <2>3, <2>5, <3>1, <3>2 DEF WorkIsRight
  <2> QED
    BY <1>1, <2>3, <2>4, <2>5, UnlessItEnds
<1> QED
  BY <1>2, <1>3, <1>4

(* The selections a restoration asks the Core for. *)
LEMMA SelectingAsks ==
  SelectingInv /\ (Selecting!CheckBeforeAsking \/ Selecting!SelectNode) => SelectingInv'
<1> SUFFICES ASSUME SelectingInv, Selecting!CheckBeforeAsking \/ Selecting!SelectNode
             PROVE  SelectingInv'
  OBVIOUS
<1>1. /\ SelectingTypes /\ Selecting!Running
      /\ UNCHANGED <<records, content, former, view, generation, choosing, settled, misjudged>>
  BY DEF SelectingInv, Selecting!CheckBeforeAsking, Selecting!SelectNode, Selecting!Others,
         Selecting!core
<1>2. CASE Selecting!CheckBeforeAsking
  <2>1. /\ now' = now /\ now' \in Selecting!Records
        /\ work.step \in {"ask", "ask again", "ask on"} /\ work.asking = None
    BY <1>1, <1>2
       DEF Selecting!CheckBeforeAsking, Selecting!Others, Selecting!core, Selecting!Asks,
           SelectingTypes
  <2>2. CASE work.todo = {}
    <3> DEFINE w == [work EXCEPT !.step = Selecting!NextStep]
    <3>1. Selecting!NextStep \in {"look again", "settle", "prune"}
      BY DEF Selecting!NextStep
    <3>2. /\ w \in Works /\ w.step \in {"look again", "settle", "prune"} /\ w.full = work.full
          /\ w.selected = work.selected /\ w.plan = work.plan /\ w.todo = work.todo
      BY <1>1, <2>1, <3>1 DEF SelectingTypes, Works
    <3>3. Selecting!Unless(w)
      BY <1>2, <2>2 DEF Selecting!CheckBeforeAsking
    <3> HIDE DEF w
    <3>4. ASSUME Selecting!NotSuperseded, work' = w
          PROVE  WorkIsRight'
      <4>1. WorkIsRight
        BY <1>1, <2>1, <3>4 DEF SelectingInv
      <4>2. \A g \in Groups : Undecided(g) \/ PutBack(g) => (Undecided(g) \/ PutBack(g))'
        BY <1>1, <2>1, <3>2, <3>4 DEF Undecided, PutBack
      <4> QED
        BY <1>1, <2>1, <2>2, <3>2, <3>4, <4>1, <4>2 DEF WorkIsRight
    <3> QED
      BY <1>1, <2>1, <3>2, <3>3, <3>4, UnlessItEnds
  <2>3. CASE work.todo # {} /\ Selecting!NotSuperseded
    <3>1. PICK g \in work.todo : work' = [work EXCEPT !.asking = g] /\ waiting' = waiting
      BY <1>2, <2>3 DEF Selecting!CheckBeforeAsking, Selecting!GoOn
    <3>2. /\ work' \in Works /\ work'.step = work.step /\ work'.full = work.full
          /\ work'.selected = work.selected /\ work'.plan = work.plan /\ work'.todo = work.todo
      BY <1>1, <2>1, <3>1 DEF SelectingTypes, Works
    <3>3. WorkIsRight
      BY <1>1, <2>1, <2>3 DEF SelectingInv
    <3>4. \A h \in Groups : Undecided(h) \/ PutBack(h) => (Undecided(h) \/ PutBack(h))'
      BY <1>1, <2>1, <3>2 DEF Undecided, PutBack
    <3>5. WorkIsRight'
      BY <1>1, <2>1, <3>2, <3>3, <3>4 DEF WorkIsRight
    <3> QED
      BY <1>1, <2>1, <3>1, <3>2, <3>5, GoesOn
  <2>4. CASE work.todo # {} /\ ~Selecting!NotSuperseded
    <3>1. Selecting!Finish
      BY <1>2, <2>4 DEF Selecting!CheckBeforeAsking
    <3>2. ~settled' /\ settled' \in BOOLEAN /\ misjudged' = FALSE /\ records' \in Selecting!Records
      BY <1>1 DEF SelectingInv, SelectingTypes, Selecting!Running
    <3> QED
      BY <1>1, <2>1, <3>1, <3>2, Ends
  <2> QED
    BY <2>2, <2>3, <2>4
<1>3. CASE Selecting!SelectNode
  <2>1. PICK g \in Groups : work.asking = g
    BY <1>1, <1>3, WorkFields DEF Selecting!SelectNode
  <2> DEFINE after == [work EXCEPT !.asking = None, !.todo = @ \ {g}]
             failed == [after EXCEPT !.full = FALSE]
  <2>2. /\ after \in Works /\ after.step = work.step /\ after.full = work.full
        /\ after.selected = work.selected /\ after.plan = work.plan /\ after.todo = work.todo \ {g}
    BY <1>1, <2>1 DEF SelectingTypes, Works
  <2>3. /\ failed \in Works /\ failed.step = work.step /\ failed.full = FALSE
        /\ failed.selected = work.selected /\ failed.plan = work.plan
        /\ failed.todo = work.todo \ {g}
    BY <1>1, <2>1 DEF SelectingTypes, Works
  <2>4. \/ /\ work.selected[g] \in Selecting!Listed(g)
           /\ now' = [now EXCEPT ![g] = work.selected[g]] /\ Selecting!Unless(after)
        \/ Selecting!Unless(failed) /\ now' = now
    BY <1>3, <2>1 DEF Selecting!SelectNode
  <2> HIDE DEF after, failed
  <2>5. Selecting!NotSuperseded => WorkIsRight
    BY <1>1, <2>1, NodesAssumption DEF SelectingInv, SelectingTypes, Works
  <2>6. CASE Selecting!Unless(failed) /\ now' = now
    <3>1. now' \in Selecting!Records
      BY <1>1, <2>6 DEF SelectingTypes
    <3>2. ASSUME Selecting!NotSuperseded, work' = failed
          PROVE  WorkIsRight'
      BY <1>1, <2>3, <2>5, <3>2 DEF WorkIsRight
    <3> QED
      BY <1>1, <2>3, <2>6, <3>1, <3>2, UnlessItEnds
  <2>7. CASE /\ work.selected[g] \in Selecting!Listed(g)
             /\ now' = [now EXCEPT ![g] = work.selected[g]] /\ Selecting!Unless(after)
    <3>1. /\ now' \in Selecting!Records /\ now'[g] = work.selected[g]
          /\ \A h \in Groups \ {g} : now'[h] = now[h]
      BY <1>1, <2>1, <2>7, WorkFields DEF SelectingTypes, Selecting!Records
    <3>2. ASSUME Selecting!NotSuperseded, work' = after
          PROVE  WorkIsRight'
      <4>1. WorkIsRight
        BY <2>5, <3>2
      <4>2. ASSUME work.full, work.step # "look"
            PROVE  \A h \in Groups : (Undecided(h) \/ PutBack(h))'
        <5>1. work.selected[g] \in content[g]
          BY <1>1, <2>1, <2>7, <4>1, <4>2, SnapshotIs DEF WorkIsRight
        <5>2. PutBack(g)'
          BY <1>1, <2>1, <2>2, <3>1, <3>2, <4>1, <4>2, <5>1 DEF WorkIsRight, PutBack
        <5>3. \A h \in Groups \ {g} : (Undecided(h) \/ PutBack(h)) => (Undecided(h) \/ PutBack(h))'
          BY <1>1, <2>2, <3>1, <3>2 DEF Undecided, PutBack
        <5> QED
          BY <4>1, <4>2, <5>2, <5>3 DEF WorkIsRight
      <4> QED
        BY <1>1, <2>2, <3>2, <4>1, <4>2 DEF WorkIsRight
    <3> QED
      BY <1>1, <2>2, <2>7, <3>1, <3>2, UnlessItEnds
  <2> QED
    BY <2>4, <2>6, <2>7
<1> QED
  BY <1>2, <1>3

(* Pruning the records of nodes that are gone. *)
LEMMA SelectingPrunes == SelectingInv /\ Selecting!Prune => SelectingInv'
<1> SUFFICES ASSUME SelectingInv, Selecting!Prune
             PROVE  SelectingInv'
  OBVIOUS
<1>1. /\ SelectingTypes /\ Selecting!Running /\ Selecting!Finish /\ work.step = "prune"
      /\ UNCHANGED <<content, former, view, now, generation, choosing>>
      /\ records' = IF Selecting!NotSuperseded /\ records = work.selected THEN work.plan ELSE records
      /\ settled' = (Selecting!NotSuperseded /\ work.full /\ choosing = {})
      /\ misjudged' = (misjudged \/ \E g \in Groups :
                                      records'[g] # records[g] /\ records[g] \in content[g])
  BY DEF SelectingInv, Selecting!Prune, Selecting!At, Selecting!core, Selecting!Judged
<1>2. Selecting!NotSuperseded => WorkIsRight
  BY <1>1 DEF SelectingInv
<1>3. records' \in Selecting!Records /\ now' \in Selecting!Records
  BY <1>1, WorkFields DEF SelectingTypes
<1>4. \A g \in Groups : records'[g] # records[g] => records[g] \notin content[g]
  BY <1>1, <1>2 DEF WorkIsRight
<1>5. misjudged' = FALSE
  BY <1>1, <1>4 DEF SelectingTypes
<1>6. settled' \in BOOLEAN
  BY <1>1, Zenon
<1>7. ASSUME settled'
      PROVE  /\ Selecting!NotSuperseded /\ choosing = {}
             /\ \A g \in Groups : records'[g] \in content[g] => now'[g] = records'[g]
  <2>1. Selecting!NotSuperseded /\ work.full /\ choosing = {}
    BY <1>1, <1>7
  <2>2. WorkIsRight /\ work.todo = {} /\ records' = work.plan /\ work.selected = records
    BY <1>1, <1>2, <2>1 DEF WorkIsRight
  <2>3. \A g \in Groups : PutBack(g)
    BY <1>1, <2>1, <2>2 DEF WorkIsRight, Undecided
  <2>4. \A g \in Groups : content[g] \subseteq Nodes
    BY <1>1 DEF SelectingTypes, Contents
  <2>5. \A g \in Groups : records'[g] \in content[g] => now[g] = records'[g]
    BY <2>2, <2>3, <2>4, NodesAssumption DEF PutBack
  <2> QED
    BY <1>1, <2>1, <2>5
<1> QED
  BY <1>1, <1>3, <1>5, <1>6, <1>7, Ends

(* Settling what is left after the last look. *)
LEMMA SelectingSettles == SelectingInv /\ Selecting!Settle => SelectingInv'
<1> SUFFICES ASSUME SelectingInv, Selecting!Settle
             PROVE  SelectingInv'
  OBVIOUS
<1>1. /\ SelectingTypes /\ Selecting!Running /\ work.step = "settle" /\ view # "old"
      /\ UNCHANGED <<records, content, former, view, now, generation, choosing, misjudged>>
      /\ records' \in Selecting!Records /\ now' \in Selecting!Records /\ misjudged' = FALSE
  BY DEF SelectingInv, SelectingTypes, Selecting!Settle, Selecting!At, Selecting!core,
         Selecting!Others
<1>2. Selecting!NotSuperseded => WorkIsRight
  BY <1>1 DEF SelectingInv
<1>3. ~settled /\ settled \in BOOLEAN
  BY <1>1 DEF SelectingInv, SelectingTypes, Selecting!Running
<1>4. CASE /\ ~Selecting!NotSuperseded \/ Selecting!Unsettled = {}
           /\ settled' = (Selecting!NotSuperseded /\ choosing = {})
           /\ Selecting!Finish
  <2>1. settled' \in BOOLEAN
    BY <1>4, Zenon
  <2>2. ASSUME settled'
        PROVE  \A g \in Groups : records'[g] \in content[g] => now'[g] = records'[g]
    <3>1. Selecting!NotSuperseded /\ Selecting!Unsettled = {} /\ work.selected = records
      BY <1>2, <1>4, <2>2 DEF WorkIsRight
    <3>2. \A g \in Groups : records[g] \in {None, now[g]}
      BY <3>1 DEF Selecting!Unsettled
    <3>3. \A g \in Groups : content[g] \subseteq Nodes
      BY <1>1 DEF SelectingTypes, Contents
    <3> QED
      BY <1>1, <3>2, <3>3, NodesAssumption
  <2> QED
    BY <1>1, <1>4, <2>1, <2>2, Ends
<1>5. CASE Selecting!Finish /\ UNCHANGED settled
  BY <1>1, <1>3, <1>5, Ends
<1>6. CASE /\ Selecting!NotSuperseded /\ UNCHANGED settled
           /\ Selecting!GoOn([work EXCEPT !.step = "ask on",
                                          !.todo = Selecting!Activations(Selecting!Snapshot)])
  <2> DEFINE s == Selecting!Activations(Selecting!Snapshot)
             w == [work EXCEPT !.step = "ask on", !.todo = s]
  <2>1. s \in SUBSET Groups
    BY <1>1, ActivationsAre
  <2>2. view = "loaded" => \A g \in Groups :
          work.selected[g] \in content[g] /\ g \notin s => now[g] = work.selected[g]
    BY <1>1, ActivationsAre
  <2> HIDE DEF s
  <2>3. /\ w \in Works /\ w.step = "ask on" /\ w.full = work.full
        /\ w.selected = work.selected /\ w.plan = work.plan /\ w.todo = s
    BY <1>1, <2>1 DEF SelectingTypes, Works
  <2>4. work' = w /\ waiting' = waiting
    BY <1>6 DEF Selecting!GoOn, s
  <2> HIDE DEF w
  <2>5. WorkIsRight
    BY <1>2, <1>6
  <2>6. ASSUME work.full
        PROVE  \A g \in Groups : (Undecided(g) \/ PutBack(g))'
    <3>1. view = "loaded" /\ \A g \in Groups : Undecided(g) \/ PutBack(g)
      BY <1>1, <2>5, <2>6 DEF WorkIsRight
    <3> QED
      BY <1>1, <2>2, <2>3, <2>4, <3>1 DEF Undecided, PutBack
  <2>7. WorkIsRight'
    BY <1>1, <2>3, <2>4, <2>5, <2>6 DEF WorkIsRight
  <2> QED
    BY <1>1, <1>6, <2>3, <2>4, <2>7, GoesOn
<1> QED
  BY <1>4, <1>5, <1>6 DEF Selecting!Settle

(* Something newer supersedes the restoration that runs. *)
LEMMA Supersedes ==
  ASSUME SelectingInv, SelectingTypes', settled' = FALSE,
         generation' = generation + 1, waiting' = waiting, work' = work
  PROVE  SelectingInv'
<1>0. \A i \in 1..Len(waiting) : waiting[i].gen \in Nat /\ waiting[i].gen <= generation
  <2>1. \A i \in 1..Len(waiting) : waiting[i] \in Restorations
    BY DEF SelectingInv, InLine
  <2> QED
    BY <2>1 DEF SelectingInv, InLine, Restorations
<1>1. InLine'
  BY <1>0 DEF SelectingInv, InLine
<1>2. ASSUME waiting # <<>>
      PROVE  ~Selecting!NotSuperseded'
  <2>1. 1 \in 1..Len(waiting) /\ Head(waiting) = waiting[1]
    BY <1>2 DEF SelectingInv, InLine
  <2>2. waiting[1].gen <= generation /\ waiting[1].gen \in Nat /\ generation \in Nat
    BY <1>0, <2>1 DEF SelectingInv, InLine
  <2> QED
    BY <2>1, <2>2 DEF Selecting!NotSuperseded
<1> QED
  BY <1>1, <1>2 DEF SelectingInv, Selecting!Running, Selecting!SelectionsComeBack

(* What the Core, the user and the reloads do meanwhile. *)
LEMMA SelectingWorld ==
  SelectingInv /\ (\/ Selecting!Switch \/ Selecting!Start \/ Selecting!CoreLoads
                   \/ Selecting!RecordChoice \/ UNCHANGED Selecting!nodeVars
                   \/ \E g \in Groups : \/ Selecting!ForgetChoice(g)
                                        \/ \E n \in Nodes : Selecting!Choose(g, n))
    => SelectingInv'
<1> USE DEF Selecting!core, Selecting!task, Selecting!bounds, Selecting!nodeVars
<1>0. SelectingInv => SelectingTypes /\ InLine
  BY DEF SelectingInv
<1>1. ASSUME SelectingInv, NEW repair \in {"Prune", "KeepRecords"}, Selecting!Reload(repair)
      PROVE  SelectingInv'
  <2> DEFINE r == [gen |-> generation + 1, repair |-> repair]
  <2>1. /\ generation' = generation + 1 /\ waiting' = Append(waiting, r) /\ work' = work
        /\ settled' = FALSE /\ UNCHANGED <<choosing, misjudged>>
        /\ former' = content /\ content' \in [Groups -> SUBSET Nodes \ {{}}]
        /\ now' = Selecting!Nodeless
        /\ records' \in Selecting!Records \/ records' = records
    BY <1>1 DEF Selecting!Reload
  <2>2. r \in Restorations /\ r.gen = generation + 1
    BY <1>0, <1>1 DEF Restorations, InLine
  <2>3. InLine' /\ waiting' # <<>> /\ (Selecting!NotSuperseded' => work.step = "begin")
    BY <1>0, <1>1, <2>1, <2>2, OneMore
  <2>4. SelectingTypes'
    <3>1. content' \in Contents /\ former' \in Contents
      BY <1>0, <1>1, <2>1 DEF Contents, SelectingTypes
    <3>2. now' \in Selecting!Records
      BY <2>1 DEF Selecting!Nodeless, Selecting!Records
    <3>3. settled' \in BOOLEAN
      BY <2>1, Zenon
    <3> QED
      BY <1>0, <1>1, <2>1, <3>1, <3>2, <3>3 DEF SelectingTypes
  <2> QED
    BY <2>1, <2>3, <2>4 DEF SelectingInv, Selecting!SelectionsComeBack
<1>2. ASSUME SelectingInv, Selecting!CoreLoads \/ UNCHANGED Selecting!nodeVars
      PROVE  SelectingInv'
  <2>1. /\ UNCHANGED <<records, content, former, now, generation, waiting, work, choosing,
                       settled, misjudged>>
        /\ view = "loaded" => view' = view
    BY <1>2 DEF Selecting!CoreLoads
  <2>2. SelectingTypes' /\ InLine'
    BY <1>0, <1>2, <2>1 DEF SelectingTypes, InLine
  <2>3. \A g \in Groups : (Undecided(g) \/ PutBack(g))' <=> (Undecided(g) \/ PutBack(g))
    BY <2>1 DEF Undecided, PutBack
  <2>4. WorkIsRight => WorkIsRight'
    BY <2>1, <2>3 DEF WorkIsRight
  <2> QED
    BY <1>2, <2>1, <2>2, <2>4
       DEF SelectingInv, Selecting!Running, Selecting!NotSuperseded, Selecting!SelectionsComeBack
<1>3. ASSUME SelectingInv, NEW g \in Groups, Selecting!ForgetChoice(g)
      PROVE  SelectingInv'
  <2>1. /\ records' = [records EXCEPT ![g] = None] /\ generation' = generation + 1
        /\ settled' = FALSE
        /\ UNCHANGED <<content, former, view, now, waiting, work, choosing, misjudged>>
    BY <1>3 DEF Selecting!ForgetChoice
  <2>2. settled' \in BOOLEAN
    BY <2>1, Zenon
  <2>3. records' \in Selecting!Records
    BY <1>0, <1>3, <2>1 DEF SelectingTypes, Selecting!Records
  <2>4. SelectingTypes'
    BY <1>0, <1>3, <2>1, <2>2, <2>3 DEF SelectingTypes
  <2> QED
    BY <1>3, <2>1, <2>4, Supersedes
<1>4. ASSUME SelectingInv, NEW g \in Groups, NEW n \in Nodes, Selecting!Choose(g, n)
      PROVE  SelectingInv'
  <2>1. /\ now' = [now EXCEPT ![g] = n] /\ choosing = {} /\ choosing' = {<<g, n>>}
        /\ settled' = FALSE /\ n \in Selecting!Listed(g)
        /\ UNCHANGED <<records, content, former, view, generation, waiting, work, misjudged>>
    BY <1>4 DEF Selecting!Choose
  <2>2. settled' \in BOOLEAN
    BY <2>1, Zenon
  <2>3. /\ now' \in Selecting!Records /\ now'[g] = n
        /\ \A h \in Groups \ {g} : now'[h] = now[h]
    BY <1>0, <1>4, <2>1 DEF SelectingTypes, Selecting!Records
  <2>4. SelectingTypes' /\ InLine'
    BY <1>0, <1>4, <2>1, <2>2, <2>3 DEF SelectingTypes, InLine
  <2>5. ASSUME WorkIsRight, work.full, work.step # "look"
        PROVE  \A h \in Groups : (Undecided(h) \/ PutBack(h))'
    <3>1. view = "loaded" /\ \A h \in Groups : PutBack(h)
      BY <2>1, <2>5 DEF WorkIsRight, Undecided
    <3>2. ASSUME n # records[g]
          PROVE  Undecided(g)'
      <4>1. <<g, n>> \in choosing' /\ <<g, n>>[1] = g /\ <<g, n>>[2] # records'[g]
        BY <2>1, <3>2
      <4> QED
        BY <4>1 DEF Undecided
    <3>3. ASSUME n = records[g]
          PROVE  PutBack(g)'
      <4>1. n \in content[g]
        BY <1>0, <1>4, <2>1, <3>1, SnapshotIs
      <4> QED
        BY <1>4, <2>1, <2>3, <2>5, <3>3, <4>1 DEF PutBack, WorkIsRight
    <3>4. \A h \in Groups \ {g} : PutBack(h)'
      BY <2>1, <2>3, <3>1 DEF PutBack
    <3> QED
      BY <3>2, <3>3, <3>4
  <2>6. WorkIsRight => WorkIsRight'
    BY <2>1, <2>5 DEF WorkIsRight
  <2> QED
    BY <1>4, <2>1, <2>4, <2>6
       DEF SelectingInv, Selecting!Running, Selecting!NotSuperseded, Selecting!SelectionsComeBack
<1>5. ASSUME SelectingInv, Selecting!RecordChoice
      PROVE  SelectingInv'
  <2>1. PICK c \in choosing :
          /\ records' = [records EXCEPT ![c[1]] = c[2]]
          /\ generation' = IF records[c[1]] = c[2] THEN generation ELSE generation + 1
    BY <1>5 DEF Selecting!RecordChoice
  <2>2. /\ choosing' = {} /\ c \in Groups \X Nodes /\ \A d \in choosing : d = c
        /\ UNCHANGED <<content, former, view, now, waiting, work, settled, misjudged>>
    BY <1>0, <1>5 DEF Selecting!RecordChoice, SelectingTypes
  <2>3. ~settled
    BY <1>5 DEF SelectingInv
  <2>4. records' \in Selecting!Records
    BY <1>0, <1>5, <2>1, <2>2 DEF SelectingTypes, Selecting!Records
  <2>5. SelectingTypes'
    BY <1>0, <1>5, <2>2, <2>4 DEF SelectingTypes
  <2>6. CASE records[c[1]] # c[2]
    <3>1. generation' = generation + 1 /\ settled' = FALSE
      BY <1>0, <1>5, <2>1, <2>2, <2>3, <2>6 DEF SelectingTypes
    <3> QED
      BY <1>5, <2>2, <2>5, <3>1, Supersedes
  <2>7. CASE records[c[1]] = c[2]
    <3>1. records' = records /\ generation' = generation
      BY <1>0, <1>5, <2>1, <2>2, <2>7 DEF SelectingTypes, Selecting!Records
    <3>2. \A g \in Groups : ~Undecided(g)
      BY <2>2, <2>7 DEF Undecided
    <3>3. \A g \in Groups : PutBack(g) => PutBack(g)'
      BY <2>2, <3>1 DEF PutBack
    <3>4. WorkIsRight => WorkIsRight'
      BY <2>2, <3>1, <3>2, <3>3 DEF WorkIsRight
    <3>5. InLine'
      BY <1>0, <1>5, <2>2, <3>1 DEF InLine
    <3> QED
      BY <1>5, <2>2, <2>3, <2>5, <3>1, <3>4, <3>5
         DEF SelectingInv, Selecting!Running, Selecting!NotSuperseded, Selecting!SelectionsComeBack
  <2> QED
    BY <2>6, <2>7
<1> QED
  BY <1>1, <1>2, <1>3, <1>4, <1>5 DEF Selecting!Switch, Selecting!Start

(* Every step of the restorations keeps the invariant. *)
LEMMA SelectingKeeps == SelectingInv /\ [Selecting!Next]_(Selecting!nodeVars) => SelectingInv'
BY SelectingWorld, SelectingLooks, SelectingAsks, SelectingPrunes, SelectingSettles
   DEF Selecting!Next, Selecting!Restoration

(* What the invariant says of the records. *)
LEMMA SelectingShows ==
  SelectingInv => /\ Selecting!TypeOK /\ Selecting!SelectionsComeBack
                  /\ Selecting!AvailableRecordsSurvive
<1> SUFFICES ASSUME SelectingInv
             PROVE  /\ Selecting!TypeOK /\ Selecting!SelectionsComeBack
                    /\ Selecting!AvailableRecordsSurvive
  OBVIOUS
<1>1. settled \in BOOLEAN /\ misjudged \in BOOLEAN
  BY Zenon DEF SelectingInv, SelectingTypes
<1>2. /\ records \in Selecting!Records /\ now \in Selecting!Records
      /\ content \in [Groups -> SUBSET Nodes] /\ choosing \subseteq Groups \X Nodes
      /\ ~misjudged
  BY DEF SelectingInv, SelectingTypes, Contents
<1> QED
  BY <1>1, <1>2 DEF SelectingInv, Selecting!TypeOK, Selecting!AvailableRecordsSurvive
-----------------------------------------------------------------------------
(* The failures that the window is told of *)

FailureTables == [Codes -> Failing!Operations \cup {None}]
SidecarStates == [revision : Nat, failed : BOOLEAN]
KnownStates == [table : FailureTables, sidecar : SidecarStates]
(* What was seen of the sidecar is older than what is, or the same.         *)
Seen(s) ==
  s.revision <= sidecar.revision /\ (s.revision = sidecar.revision => s.failed = sidecar.failed)

FailingTypes ==
  /\ Failing!TypeOK
  /\ sidecar \in SidecarStates /\ shown \in KnownStates /\ Seen(shown.sidecar)
  /\ flushes \in Nat
(* The reads are told apart by their revisions, and bring nothing from the  *)
(* future.                                                                  *)
ReadsAre ==
  /\ reads \subseteq [revision : Nat, got : {None} \cup {<<t>> : t \in KnownStates}]
  /\ \A r \in reads : r.revision <= revision
  /\ \A r, q \in reads : r.revision = q.revision => r = q
  /\ \A r \in reads : r.got # None => Seen(r.got[1].sidecar)
(* Without a nudge, the window is right or its last read will make it so.   *)
LastReadCounts ==
  nudges = 0 =>
    /\ \A r \in reads : r.revision = revision => r.got \in {None, <<Failing!Tables>>}
    /\ (\A r \in reads : r.revision # revision) =>
         shown.table = table /\ shown.sidecar.failed = sidecar.failed

FailingInv ==
  /\ FailingTypes /\ ReadsAre /\ LastReadCounts
  /\ Failing!OwedAnswersStay /\ Failing!NoRefreshIsLost

(* No failure is known at first. *)
LEMMA FailingInit == Failing!Init => FailingInv
<1> SUFFICES ASSUME Failing!Init
             PROVE  FailingInv
  OBVIOUS
<1>1. table \in FailureTables
  BY DEF Failing!Init, FailureTables
<1>2. sidecar \in SidecarStates
  BY DEF Failing!Init, SidecarStates
<1>3. shown \in KnownStates /\ shown.sidecar = sidecar /\ shown.table = table
  BY <1>1, <1>2 DEF Failing!Init, Failing!Tables, KnownStates
<1>4. Seen(shown.sidecar)
  BY <1>2, <1>3 DEF Seen, SidecarStates
<1>5. FailingTypes
  BY <1>1, <1>2, <1>3, <1>4
     DEF Failing!Init, Failing!TypeOK, FailingTypes, FailureTables
<1>6. ReadsAre
  BY DEF Failing!Init, ReadsAre
<1>7. LastReadCounts
  BY <1>3 DEF Failing!Init, LastReadCounts
<1>8. Failing!OwedAnswersStay /\ Failing!NoRefreshIsLost
  BY DEF Failing!Init, Failing!OwedAnswersStay, Failing!NoRefreshIsLost
<1> QED
  BY <1>5, <1>6, <1>7, <1>8 DEF FailingInv

(* The tables change, and nudge the window when they do. *)
LEMMA TablesChange ==
  ASSUME FailingInv, UNCHANGED <<Failing!window, Failing!refreshing>>,
         table' \in FailureTables, owed' \subseteq Codes, failures' \in Nat, nudges' \in Nat,
         sidecar' \in SidecarStates,
         sidecar' = sidecar \/ sidecar'.revision = sidecar.revision + 1,
         (table' = table /\ sidecar' = sidecar /\ nudges' = nudges) \/ nudges' # 0,
         Failing!OwedAnswersStay'
  PROVE  FailingInv'
<1> USE DEF FailingInv, Failing!window, Failing!refreshing
<1>1. \A s \in SidecarStates : Seen(s) => Seen(s)'
  BY DEF FailingTypes, SidecarStates, Seen
<1>2. shown.sidecar \in SidecarStates
  BY DEF FailingTypes, KnownStates
<1>3. FailingTypes'
  <2>1. Failing!TypeOK'
    BY DEF FailingTypes, Failing!TypeOK, FailureTables
  <2> QED
    BY <1>1, <1>2, <2>1 DEF FailingTypes
<1>4. \A r \in reads : r.got # None => r.got[1].sidecar \in SidecarStates
  <2> SUFFICES ASSUME NEW r \in reads, r.got # None
               PROVE  r.got[1].sidecar \in SidecarStates
    OBVIOUS
  <2>1. PICK t \in KnownStates : r.got = <<t>>
    BY DEF ReadsAre
  <2> QED
    BY <2>1 DEF KnownStates
<1>5. ReadsAre'
  BY <1>1, <1>4 DEF ReadsAre
<1>6. LastReadCounts'
  BY DEF LastReadCounts, Failing!Tables
<1>7. Failing!NoRefreshIsLost'
  BY DEF Failing!NoRefreshIsLost
<1> QED
  BY <1>3, <1>5, <1>6, <1>7

(* Failures come and go. *)
LEMMA FailuresKept ==
  FailingInv /\ (\/ \E op \in Failing!Operations, c \in Codes : Failing!Record(op, c)
                 \/ \E op \in Failing!Operations \ {"Guard"} : Failing!RetireSystemProxy(op)
                 \/ Failing!RetireGuard \/ Failing!SidecarFails \/ Failing!SidecarRecovers)
    => FailingInv'
<1> USE DEF Failing!Operations, Failing!Requests
<1>0. FailingInv => /\ table \in FailureTables /\ owed \subseteq Codes /\ nudges \in Nat
                    /\ failures \in Nat /\ sidecar \in SidecarStates
                    /\ Failing!OwedAnswersStay
  BY DEF FailingInv, FailingTypes, Failing!TypeOK, FailureTables
<1>1. ASSUME FailingInv, NEW op \in Failing!Operations, NEW c \in Codes, Failing!Record(op, c)
      PROVE  FailingInv'
  <2>1. /\ UNCHANGED <<Failing!window, Failing!refreshing, sidecar>>
        /\ table' = [table EXCEPT ![c] = IF Failing!Outranks(@, op) THEN @ ELSE op]
        /\ owed' = CASE op \in Failing!Requests -> owed \cup {c}
                     [] op = "Guard" -> owed \ {c} [] OTHER -> owed
        /\ nudges' = nudges + 1 /\ failures' = failures + 1
    BY <1>1 DEF Failing!Record, Failing!Nudge, Failing!Failing
  <2>2. table' \in FailureTables
    BY <1>0, <1>1, <2>1 DEF FailureTables
  <2>3. owed' \subseteq Codes
    BY <1>0, <1>1, <2>1
  <2>4. Failing!OwedAnswersStay'
    <3> SUFFICES ASSUME NEW d \in owed'
                 PROVE  table'[d] \in Failing!Requests
      BY DEF Failing!OwedAnswersStay
    <3>1. CASE d = c
      BY <1>0, <1>1, <2>1, <3>1 DEF Failing!OwedAnswersStay, Failing!Outranks, FailureTables
    <3>2. CASE d # c
      BY <1>0, <1>1, <2>1, <3>2 DEF Failing!OwedAnswersStay, FailureTables
    <3> QED
      BY <3>1, <3>2
  <2>5. nudges' \in Nat /\ nudges' # 0 /\ failures' \in Nat
    BY <1>0, <1>1, <2>1
  <2> QED
    BY <1>0, <1>1, <2>1, <2>2, <2>3, <2>4, <2>5, TablesChange
<1>2. ASSUME FailingInv, NEW S, Failing!RetireAll(S), owed' \subseteq owed,
             \A c \in owed' : c \notin S
      PROVE  FailingInv'
  <2>1. /\ table' = [c \in Codes |-> IF c \in S THEN None ELSE table[c]]
        /\ UNCHANGED <<Failing!window, Failing!refreshing, sidecar, failures>>
        /\ \/ table' # table /\ nudges' = nudges + 1
           \/ table' = table /\ nudges' = nudges
    BY <1>2 DEF Failing!RetireAll, Failing!Nudge
  <2>2. table' \in FailureTables
    BY <1>0, <1>2, <2>1 DEF FailureTables
  <2>3. Failing!OwedAnswersStay'
    BY <1>0, <1>2, <2>1 DEF Failing!OwedAnswersStay
  <2>4. nudges' \in Nat /\ ((table' = table /\ nudges' = nudges) \/ nudges' # 0)
    BY <1>0, <1>2, <2>1
  <2>5. owed' \subseteq Codes
    BY <1>0, <1>2
  <2> QED
    BY <1>0, <1>2, <2>1, <2>2, <2>3, <2>4, <2>5, TablesChange
<1>3. ASSUME FailingInv, NEW op \in Failing!Operations \ {"Guard"}, Failing!RetireSystemProxy(op)
      PROVE  FailingInv'
  <2> DEFINE S == {c \in Codes : table[c] # None /\ Failing!RetiredBySuccessOf(table[c], op)}
  <2>1. Failing!RetireAll(S) /\ owed' = IF op \in Failing!Requests THEN {} ELSE owed
    BY <1>3, Zenon DEF Failing!RetireSystemProxy
  <2>2. op \notin Failing!Requests => \A c \in owed : c \notin S
    BY <1>0, <1>3 DEF Failing!OwedAnswersStay, Failing!RetiredBySuccessOf
  <2>3. owed' \subseteq owed /\ \A c \in owed' : c \notin S
    BY <2>1, <2>2
  <2> QED
    BY <1>2, <1>3, <2>1, <2>3
<1>4. ASSUME FailingInv, Failing!RetireGuard
      PROVE  FailingInv'
  <2>1. Failing!RetireAll({c \in Codes : table[c] = "Guard"}) /\ owed' = owed
    BY <1>4, Zenon DEF Failing!RetireGuard
  <2>2. \A c \in owed : c \notin {d \in Codes : table[d] = "Guard"}
    BY <1>0, <1>4 DEF Failing!OwedAnswersStay
  <2> QED
    BY <1>2, <1>4, <2>1, <2>2
<1>5. ASSUME FailingInv, Failing!SidecarFails \/ Failing!SidecarRecovers
      PROVE  FailingInv'
  <2>1. /\ UNCHANGED <<Failing!window, Failing!refreshing, table, owed>>
        /\ nudges' = nudges + 1 /\ failures' \in {failures, failures + 1}
        /\ \E f \in BOOLEAN : sidecar' = [revision |-> sidecar.revision + 1, failed |-> f]
    BY <1>5 DEF Failing!SidecarFails, Failing!SidecarRecovers, Failing!Nudge, Failing!Failing
  <2>2. sidecar' \in SidecarStates /\ sidecar'.revision = sidecar.revision + 1
    BY <1>0, <1>5, <2>1 DEF SidecarStates
  <2>3. Failing!OwedAnswersStay'
    BY <1>0, <1>5, <2>1 DEF Failing!OwedAnswersStay
  <2>4. nudges' \in Nat /\ nudges' # 0 /\ failures' \in Nat
    BY <1>0, <1>5, <2>1
  <2> QED
    BY <1>0, <1>5, <2>1, <2>2, <2>3, <2>4, TablesChange
<1> QED
  BY <1>1, <1>3, <1>4, <1>5

(* The window reads the failures, and its answers come in any order. *)
LEMMA WindowReads ==
  FailingInv /\ (\/ Failing!Reread
                 \/ \E read \in reads : Failing!Snapshot(read) \/ Failing!Reply(read))
    => FailingInv'
<1> USE DEF Failing!tables, Failing!refreshing
<1>1. ASSUME FailingInv, UNCHANGED <<Failing!tables, Failing!refreshing, failures>>,
             nudges' \in Nat, revision' \in Nat, shown' \in KnownStates, Seen(shown'.sidecar),
             ReadsAre', LastReadCounts'
      PROVE  FailingInv'
  <2>1. Failing!TypeOK'
    BY <1>1 DEF FailingInv, FailingTypes, Failing!TypeOK
  <2>2. FailingTypes'
    BY <1>1, <2>1 DEF FailingInv, FailingTypes, Seen
  <2>3. Failing!OwedAnswersStay' /\ Failing!NoRefreshIsLost'
    BY <1>1 DEF FailingInv, Failing!OwedAnswersStay, Failing!NoRefreshIsLost
  <2> QED
    BY <1>1, <2>2, <2>3 DEF FailingInv
<1>2. FailingInv => /\ revision \in Nat /\ nudges \in Nat /\ shown \in KnownStates
                    /\ Seen(shown.sidecar) /\ sidecar \in SidecarStates /\ table \in FailureTables
                    /\ ReadsAre
  BY DEF FailingInv, FailingTypes, Failing!TypeOK, FailureTables
<1>3. FailingInv => Failing!Tables \in KnownStates /\ Seen(Failing!Tables.sidecar)
  BY <1>2 DEF Failing!Tables, KnownStates, SidecarStates, Seen
<1>4. ASSUME FailingInv, Failing!Reread
      PROVE  FailingInv'
  <2> DEFINE new == [revision |-> revision + 1, got |-> None]
  <2>1. /\ UNCHANGED <<Failing!tables, Failing!refreshing, failures, shown>>
        /\ nudges > 0 /\ nudges' = nudges - 1 /\ revision' = revision + 1
        /\ reads' = reads \cup {new}
    BY <1>4 DEF Failing!Reread
  <2>2. new \in [revision : Nat, got : {None} \cup {<<t>> : t \in KnownStates}]
    BY <1>2, <1>4
  <2>3. \A r \in reads : r.revision \in Nat /\ r.revision <= revision
    BY <1>2, <1>4 DEF ReadsAre
  <2>4. new.revision = revision + 1 /\ new.got = None
    OBVIOUS
  <2> HIDE DEF new
  <2>5. ReadsAre'
    <3>1. reads' \subseteq [revision : Nat, got : {None} \cup {<<t>> : t \in KnownStates}]
      BY <1>2, <1>4, <2>1, <2>2 DEF ReadsAre
    <3>2. \A r \in reads' : r.revision <= revision'
      BY <1>2, <1>4, <2>1, <2>3, <2>4
    <3>3. \A r, q \in reads' : r.revision = q.revision => r = q
      BY <1>2, <1>4, <2>1, <2>3, <2>4 DEF ReadsAre
    <3>4. \A r \in reads' : r.got # None => Seen(r.got[1].sidecar)'
      BY <1>2, <1>4, <2>1, <2>4 DEF ReadsAre, Seen
    <3> QED
      BY <3>1, <3>2, <3>3, <3>4 DEF ReadsAre
  <2>6. LastReadCounts'
    <3>1. \A r \in reads : r.revision # revision'
      BY <1>2, <1>4, <2>1, <2>3
    <3> QED
      BY <2>1, <2>4, <3>1 DEF LastReadCounts
  <2>7. nudges' \in Nat /\ revision' \in Nat
    BY <1>2, <1>4, <2>1
  <2>8. shown' \in KnownStates /\ Seen(shown'.sidecar)
    BY <1>2, <1>4, <2>1
  <2> QED
    BY <1>1, <1>4, <2>1, <2>5, <2>6, <2>7, <2>8
<1>5. ASSUME FailingInv, NEW read \in reads, Failing!Snapshot(read)
      PROVE  FailingInv'
  <2> DEFINE new == [read EXCEPT !.got = <<Failing!Tables>>]
  <2>1. /\ UNCHANGED <<Failing!tables, Failing!refreshing, failures, shown, nudges, revision>>
        /\ reads' = (reads \ {read}) \cup {new}
    BY <1>5 DEF Failing!Snapshot
  <2>2. read \in [revision : Nat, got : {None} \cup {<<t>> : t \in KnownStates}]
    BY <1>2, <1>5 DEF ReadsAre
  <2>3. <<Failing!Tables>> \in {<<t>> : t \in KnownStates} /\ <<Failing!Tables>>[1] = Failing!Tables
    BY <1>3, <1>5
  <2>4. /\ new \in [revision : Nat, got : {None} \cup {<<t>> : t \in KnownStates}]
        /\ new.revision = read.revision /\ new.got = <<Failing!Tables>>
    BY <2>2, <2>3
  <2>5. Seen(new.got[1].sidecar)
    BY <1>3, <1>5, <2>3, <2>4
  <2> HIDE DEF new
  <2>6. Failing!Tables' = Failing!Tables
    BY <2>1 DEF Failing!Tables
  <2>7. ReadsAre'
    <3>1. reads' \subseteq [revision : Nat, got : {None} \cup {<<t>> : t \in KnownStates}]
      BY <1>2, <1>5, <2>1, <2>4 DEF ReadsAre
    <3>2. \A r \in reads' : r.revision <= revision'
      BY <1>2, <1>5, <2>1, <2>4 DEF ReadsAre
    <3>3. \A r, q \in reads' : r.revision = q.revision => r = q
      BY <1>2, <1>5, <2>1, <2>4 DEF ReadsAre
    <3>4. \A r \in reads' : r.got # None => Seen(r.got[1].sidecar)'
      BY <1>2, <1>5, <2>1, <2>5 DEF ReadsAre, Seen
    <3> QED
      BY <3>1, <3>2, <3>3, <3>4 DEF ReadsAre
  <2>8. LastReadCounts'
    <3>1. ASSUME nudges = 0
          PROVE  /\ \A r \in reads' : r.revision = revision => r.got \in {None, <<Failing!Tables>>}
                 /\ (\A r \in reads' : r.revision # revision) =>
                      \A r \in reads : r.revision # revision
      BY <1>5, <2>1, <2>4, <3>1 DEF FailingInv, LastReadCounts
    <3> QED
      BY <1>5, <2>1, <2>6, <3>1 DEF FailingInv, LastReadCounts
  <2>9. shown' \in KnownStates /\ Seen(shown'.sidecar) /\ nudges' \in Nat /\ revision' \in Nat
    BY <1>2, <1>5, <2>1
  <2> QED
    BY <1>1, <1>5, <2>1, <2>7, <2>8, <2>9
<1>6. ASSUME FailingInv, NEW read \in reads, Failing!Reply(read)
      PROVE  FailingInv'
  <2>1. /\ UNCHANGED <<Failing!tables, Failing!refreshing, failures, nudges, revision>>
        /\ reads' = reads \ {read} /\ read.got # None
    BY <1>6 DEF Failing!Reply
  <2>2. PICK t \in KnownStates : read.got = <<t>>
    BY <1>2, <1>6, <2>1 DEF ReadsAre
  <2>3. read.got[1] = t /\ Seen(t.sidecar) /\ t.sidecar \in SidecarStates
    BY <1>2, <1>6, <2>1, <2>2 DEF ReadsAre, KnownStates
  <2>4. ReadsAre'
    BY <1>2, <1>6, <2>1 DEF ReadsAre, Seen
  <2>5. CASE read.revision # revision
    <3>1. shown' = shown
      BY <1>6, <2>5 DEF Failing!Reply
    <3>2. LastReadCounts'
      BY <1>6, <2>1, <2>5, <3>1 DEF FailingInv, LastReadCounts, Failing!Tables
    <3> QED
      BY <1>1, <1>2, <1>6, <2>1, <2>4, <3>1, <3>2
  <2>6. CASE read.revision = revision
    <3> DEFINE later == IF t.sidecar.revision > shown.sidecar.revision
                        THEN t.sidecar ELSE shown.sidecar
    <3>1. shown' = [table |-> t.table, sidecar |-> later]
      BY <1>6, <2>3, <2>6 DEF Failing!Reply
    <3>2. later \in SidecarStates /\ Seen(later) /\ t.table \in FailureTables
      BY <1>2, <1>6, <2>3 DEF KnownStates
    <3>3. shown' \in KnownStates /\ shown'.table = t.table /\ shown'.sidecar = later
      BY <3>1, <3>2 DEF KnownStates
    <3>4. ASSUME nudges = 0
          PROVE  shown'.table = table /\ shown'.sidecar.failed = sidecar.failed
      <4>1. CASE t = Failing!Tables
        <5>1. t.table = table /\ t.sidecar = sidecar
          BY <4>1 DEF Failing!Tables
        <5>2. later.failed = sidecar.failed
          BY <1>2, <1>6, <5>1 DEF Seen, SidecarStates, KnownStates
        <5> QED
          BY <3>3, <5>1, <5>2
      <4>2. CASE t # Failing!Tables
        <5>1. read.got = <<Failing!Tables>>
          BY <1>6, <2>1, <2>6, <3>4 DEF FailingInv, LastReadCounts
        <5>2. t = Failing!Tables
          BY <2>2, <5>1
        <5> QED
          BY <4>2, <5>2
      <4> QED
        BY <4>1, <4>2
    <3>5. LastReadCounts'
      <4>1. \A r \in reads' : r.revision # revision
        BY <1>2, <1>6, <2>1, <2>6 DEF ReadsAre
      <4> QED
        BY <2>1, <3>4, <4>1 DEF LastReadCounts
    <3>6. nudges' \in Nat /\ revision' \in Nat /\ Seen(shown'.sidecar)
      BY <1>2, <1>6, <2>1, <3>2, <3>3
    <3> QED
      BY <1>1, <1>6, <2>1, <2>4, <3>3, <3>5, <3>6
  <2> QED
    BY <2>5, <2>6
<1> QED
  BY <1>4, <1>5, <1>6

(* Refreshes are batched and emitted. *)
LEMMA RefreshesKept ==
  FailingInv /\ (\/ \E k \in Refreshes : Failing!Announce(k) \/ Failing!Emit(k)
                 \/ Failing!Flush \/ UNCHANGED Failing!failureVars)
    => FailingInv'
<1> USE DEF Failing!tables, Failing!window, Failing!refreshing, Failing!failureVars
<1>1. ASSUME FailingInv, UNCHANGED <<Failing!tables, Failing!window, nudges>>,
             {batch', emitting', stale'} \subseteq SUBSET Refreshes, flushes' \in Nat,
             failures' \in Nat, Failing!NoRefreshIsLost'
      PROVE  FailingInv'
  <2>1. FailingTypes'
    BY <1>1 DEF FailingInv, FailingTypes, Failing!TypeOK, Seen
  <2>2. ReadsAre' /\ LastReadCounts' /\ Failing!OwedAnswersStay'
    BY <1>1 DEF FailingInv, ReadsAre, LastReadCounts, Failing!OwedAnswersStay, Seen,
       Failing!Tables
  <2> QED
    BY <1>1, <2>1, <2>2 DEF FailingInv
<1>2. FailingInv => /\ {batch, emitting, stale} \subseteq SUBSET Refreshes /\ flushes \in Nat
                    /\ failures \in Nat /\ Failing!NoRefreshIsLost
  BY DEF FailingInv, FailingTypes, Failing!TypeOK
<1>3. ASSUME FailingInv, NEW k \in Refreshes, Failing!Announce(k)
      PROVE  FailingInv'
  BY <1>1, <1>2, <1>3 DEF Failing!Announce, Failing!Failing, Failing!NoRefreshIsLost
<1>4. ASSUME FailingInv, NEW k \in Refreshes, Failing!Emit(k)
      PROVE  FailingInv'
  BY <1>1, <1>2, <1>4 DEF Failing!Emit, Failing!NoRefreshIsLost
<1>5. ASSUME FailingInv, Failing!Flush
      PROVE  FailingInv'
  BY <1>1, <1>2, <1>5 DEF Failing!Flush, Failing!NoRefreshIsLost
<1>6. ASSUME FailingInv, UNCHANGED Failing!failureVars
      PROVE  FailingInv'
  BY <1>1, <1>2, <1>6 DEF Failing!NoRefreshIsLost
<1> QED
  BY <1>3, <1>4, <1>5, <1>6

(* Every step about the failures keeps the invariant. *)
LEMMA FailingKeeps == FailingInv /\ [Failing!Next]_(Failing!failureVars) => FailingInv'
BY FailuresKept, WindowReads, RefreshesKept DEF Failing!Next

(* What the invariant says of the window. *)
LEMMA FailingShows ==
  FailingInv => /\ Failing!TypeOK /\ Failing!OwedAnswersStay /\ Failing!WindowCatchesUp
                /\ Failing!NoRefreshIsLost
BY DEF FailingInv, FailingTypes, LastReadCounts, Failing!WindowCatchesUp
-----------------------------------------------------------------------------
(* The backups *)

(* The last backup is the youngest of all, and it is kept.                  *)
LastIsKept ==
  /\ taken \subseteq 1..clock /\ autos \subseteq 1..clock
  /\ lastBackup = 0 => taken = {}
  /\ lastBackup # 0 => lastBackup \in taken /\ lastBackup \in autos
  /\ \A a \in taken : a <= lastBackup

(* One task has the lock, and the distance is kept while it does.           *)
LockIsDue ==
  /\ \A t \in Triggers : trigger[t] = "locked" => Backing!Due
  /\ \A t, u \in Triggers : trigger[t] = "locked" /\ trigger[u] = "locked" => t = u

(* A restore that nothing crossed.                                          *)
RestoreStands ==
  ~crossed =>
    /\ restoring = "no" /\ ~patching => file = memory
    /\ restoring = "extracted" => file = "backup" /\ ~patching
    /\ restoring = "read" => file = restoredValue /\ ~patching
    /\ patching => file = "patched"

BackingInv ==
  /\ Backing!TypeOK /\ LastIsKept /\ LockIsDue /\ RestoreStands
  /\ Backing!BackupsKeepTheirDistance /\ Backing!SchedulerFollows /\ spared = byHand

(* The instance's cardinality is the library's. *)
LEMMA CardinalityIs == \A S : Backing!Cardinality(S) = Cardinality(S)
BY Zenon DEF Backing!Cardinality, Cardinality

(* Of the backups that the clean-up sees, the youngest stays. *)
LEMMA YoungestStays ==
  ASSUME NEW s, NEW c \in s, \A b \in s : ~(b > c)
  PROVE  c \in Backing!Youngest(s) /\ Backing!Youngest(s) \subseteq s
<1> DEFINE Above(b) == {d \in s : d > b}
<1>1. Backing!Youngest(s) = {b \in s : Cardinality(Above(b)) < Keep}
  BY CardinalityIs DEF Backing!Youngest
<1>2. Above(c) = {}
  OBVIOUS
<1> HIDE DEF Above
<1>3. Cardinality(Above(c)) = 0
  BY <1>2, FS_EmptySet
<1> QED
  BY <1>1, <1>3, BackupsAssumption

(* The scheduler starts with its settings and no backup of its own. *)
LEMMA BackingInit == Backing!InitBackups => BackingInv
<1> SUFFICES ASSUME Backing!InitBackups
             PROVE  BackingInv
  OBVIOUS
<1>1. clock \in 1..MaxClock /\ lastBackup \in 0..MaxClock /\ backupSettings \in 0..MaxSettings
  BY BackupsAssumption DEF Backing!InitBackups
<1>2. /\ schedule \in BOOLEAN /\ unseen \in BOOLEAN /\ patching \in BOOLEAN /\ crossed \in BOOLEAN
  BY Zenon DEF Backing!InitBackups
<1>3. Backing!TypeOK
  BY <1>1, <1>2 DEF Backing!InitBackups, Backing!TypeOK, Backing!Contents
<1>4. LastIsKept
  BY DEF Backing!InitBackups, LastIsKept
<1>5. LockIsDue
  BY DEF Backing!InitBackups, LockIsDue
<1>6. /\ RestoreStands /\ Backing!BackupsKeepTheirDistance /\ Backing!SchedulerFollows
      /\ spared = byHand
  BY DEF Backing!InitBackups, RestoreStands, Backing!BackupsKeepTheirDistance,
         Backing!SchedulerFollows
<1> QED
  BY <1>3, <1>4, <1>5, <1>6 DEF BackingInv

(* Backups are asked for, and the scheduler follows its settings. *)
LEMMA BackingAsks ==
  ASSUME BackingInv,
         NEW t \in Triggers, Backing!Ask(t) \/ Backing!Consider(t) \/ Backing!Lock(t)
  PROVE  BackingInv'
<1> USE DEF BackingInv, Backing!autoVars, Backing!restoreVars
<1>1. /\ UNCHANGED <<clock, schedule, runner, unseen, lastBackup, autos, taken, byHand, spared>>
      /\ UNCHANGED <<file, memory, restoring, restoredValue, patching, crossed, backupSettings>>
  BY DEF Backing!Ask, Backing!Consider, Backing!Lock
<1>2. PICK place \in {"no", "asked", "waiting", "locked"} :
        /\ trigger' = [trigger EXCEPT ![t] = place]
        /\ place = "locked" => Backing!Due /\ \A u \in Triggers : trigger[u] # "locked"
  <2>1. CASE Backing!Ask(t)
    BY <2>1 DEF Backing!Ask
  <2>2. CASE Backing!Consider(t)
    BY <2>2 DEF Backing!Consider
  <2>3. CASE Backing!Lock(t)
    BY <2>3 DEF Backing!Lock
  <2> QED
    BY <2>1, <2>2, <2>3
<1>3. Backing!TypeOK'
  BY <1>1, <1>2 DEF Backing!TypeOK
<1>4. Backing!Due' <=> Backing!Due
  BY <1>1 DEF Backing!Due
<1>5. LockIsDue'
  BY <1>2, <1>4 DEF LockIsDue, Backing!TypeOK
<1>6. LastIsKept' /\ RestoreStands'
  BY <1>1 DEF LastIsKept, RestoreStands
<1>7. Backing!BackupsKeepTheirDistance' /\ Backing!SchedulerFollows' /\ (spared = byHand)'
  BY <1>1 DEF Backing!BackupsKeepTheirDistance, Backing!SchedulerFollows
<1> QED
  BY <1>3, <1>5, <1>6, <1>7

(* A backup is stored and the oldest are cleaned up. *)
LEMMA BackingStores ==
  ASSUME BackingInv, NEW t \in Triggers, Backing!Store(t)
  PROVE  BackingInv'
<1> USE DEF BackingInv, Backing!autoVars, Backing!restoreVars
<1>1. /\ UNCHANGED <<clock, schedule, runner, unseen, byHand, spared>>
      /\ UNCHANGED <<file, memory, restoring, restoredValue, patching, crossed, backupSettings>>
      /\ trigger[t] = "locked" /\ trigger' = [trigger EXCEPT ![t] = "no"]
  BY DEF Backing!Store
<1>2. RestoreStands' /\ Backing!SchedulerFollows' /\ (spared = byHand)'
  BY <1>1 DEF RestoreStands, Backing!SchedulerFollows
<1>3. \A u \in Triggers : trigger'[u] # "locked"
  BY <1>1 DEF LockIsDue, Backing!TypeOK
<1>4. LockIsDue'
  BY <1>3 DEF LockIsDue
<1>5. CASE UNCHANGED <<lastBackup, autos, taken>>
  <2>1. Backing!TypeOK' /\ LastIsKept'
    BY <1>1, <1>5 DEF Backing!TypeOK, LastIsKept
  <2>2. Backing!BackupsKeepTheirDistance'
    BY <1>1, <1>5 DEF Backing!BackupsKeepTheirDistance
  <2> QED
    BY <1>2, <1>4, <2>1, <2>2
<1>6. CASE /\ taken' = taken \cup {clock} /\ lastBackup' = clock
           /\ autos' \in {autos \cup {clock}, Backing!Youngest(autos \cup {clock})}
  <2>1. clock \in 1..MaxClock /\ MaxClock \in Nat /\ Distance \in Nat /\ lastBackup \in 0..MaxClock
    BY BackupsAssumption DEF Backing!TypeOK
  <2>2. \A b \in autos \cup {clock} : ~(b > clock)
    BY <2>1 DEF LastIsKept
  <2>3. clock \in autos' /\ autos' \subseteq autos \cup {clock}
    BY <1>6, <2>2, YoungestStays
  <2>4. Backing!TypeOK'
    BY <1>1, <1>6, <2>1, <2>3 DEF Backing!TypeOK
  <2>5. LastIsKept'
    BY <1>1, <1>6, <2>1, <2>3 DEF LastIsKept
  <2>6. Backing!Due
    BY <1>1 DEF LockIsDue
  <2>7. \A a \in taken : a < clock => clock - a >= Distance
    <3> SUFFICES ASSUME NEW a \in taken, a < clock
                 PROVE  clock - a >= Distance
      OBVIOUS
    <3>1. lastBackup # 0 /\ a <= lastBackup /\ a \in 1..clock
      BY DEF LastIsKept
    <3>2. clock - lastBackup >= Distance
      BY <2>6, <3>1 DEF Backing!Due
    <3> QED
      BY <2>1, <3>1, <3>2
  <2>8. \A a \in taken : ~(clock < a)
    BY <2>1 DEF LastIsKept
  <2>9. Backing!BackupsKeepTheirDistance'
    BY <1>6, <2>1, <2>7, <2>8 DEF Backing!BackupsKeepTheirDistance
  <2> QED
    BY <1>2, <1>4, <2>4, <2>5, <2>9
<1> QED
  BY <1>5, <1>6 DEF Backing!Store

(* The time passes, and what is not about the automatic backups changes. *)
LEMMA BackingRest ==
  BackingInv /\ (\/ Backing!Tick \/ Backing!Refresh \/ Backing!SeeChange \/ Backing!BackUpByHand
                 \/ Backing!Extract \/ Backing!ReadBack \/ Backing!ApplyRestored
                 \/ Backing!PatchSaves \/ Backing!PatchCommits \/ UNCHANGED Backing!backupVars)
    => BackingInv'
<1> SUFFICES ASSUME BackingInv,
                    \/ Backing!Tick \/ Backing!Refresh \/ Backing!SeeChange
                    \/ Backing!BackUpByHand \/ Backing!Extract \/ Backing!ReadBack
                    \/ Backing!ApplyRestored \/ Backing!PatchSaves \/ Backing!PatchCommits
                    \/ UNCHANGED Backing!backupVars
             PROVE  BackingInv'
  OBVIOUS
<1> USE BackupsAssumption
    DEF BackingInv, Backing!autoVars, Backing!restoreVars, Backing!backupVars
<1>1. UNCHANGED <<trigger, lastBackup, autos, taken>> /\ clock' \in {clock, clock + 1}
  <2>1. CASE Backing!Tick
    BY <2>1 DEF Backing!Tick
  <2>2. CASE Backing!Refresh \/ Backing!SeeChange \/ Backing!BackUpByHand
    BY <2>2 DEF Backing!Refresh, Backing!SeeChange, Backing!BackUpByHand
  <2>3. CASE Backing!Extract \/ Backing!ReadBack \/ Backing!ApplyRestored
    BY <2>3 DEF Backing!Extract, Backing!ReadBack, Backing!ApplyRestored
  <2>4. CASE Backing!PatchSaves \/ Backing!PatchCommits \/ UNCHANGED Backing!backupVars
    BY <2>4 DEF Backing!PatchSaves, Backing!PatchCommits
  <2> QED
    BY <2>1, <2>2, <2>3, <2>4
<1>2. Backing!Due => Backing!Due'
  BY <1>1 DEF Backing!Due, Backing!TypeOK
<1>3. LastIsKept'
  BY <1>1 DEF LastIsKept, Backing!TypeOK
<1>4. LockIsDue'
  BY <1>1, <1>2 DEF LockIsDue
<1>5. Backing!BackupsKeepTheirDistance'
  BY <1>1 DEF Backing!BackupsKeepTheirDistance

<1>6. CASE Backing!Tick
  BY <1>3, <1>4, <1>5, <1>6
     DEF Backing!Tick, Backing!TypeOK, Backing!SchedulerFollows, RestoreStands
<1>7. CASE Backing!Refresh
  <2>1. schedule' \in BOOLEAN /\ unseen' \in BOOLEAN
    BY <1>7, Zenon DEF Backing!Refresh, Backing!TypeOK
  <2>2. runner' \in {"none", "on", "off"} /\ Backing!SchedulerFollows'
    BY <1>7 DEF Backing!Refresh, Backing!TypeOK, Backing!SchedulerFollows
  <2>3. Backing!TypeOK'
    BY <1>7, <2>1, <2>2 DEF Backing!Refresh, Backing!TypeOK
  <2>4. RestoreStands' /\ (spared = byHand)'
    BY <1>7 DEF Backing!Refresh, RestoreStands
  <2> QED
    BY <1>3, <1>4, <1>5, <2>2, <2>3, <2>4
<1>8. CASE Backing!SeeChange
  <2>1. Backing!TypeOK' /\ Backing!SchedulerFollows'
    BY <1>8 DEF Backing!SeeChange, Backing!TypeOK, Backing!SchedulerFollows
  <2>2. RestoreStands' /\ (spared = byHand)'
    BY <1>8 DEF Backing!SeeChange, RestoreStands
  <2> QED
    BY <1>3, <1>4, <1>5, <2>1, <2>2
<1>9. CASE Backing!BackUpByHand
  BY <1>3, <1>4, <1>5, <1>9
     DEF Backing!BackUpByHand, Backing!TypeOK, Backing!SchedulerFollows, RestoreStands
<1>10. ASSUME UNCHANGED <<clock, Backing!autoVars, byHand, spared>>,
              {file', memory', restoredValue'} \subseteq Backing!Contents,
              restoring' \in {"no", "extracted", "read"}, patching' \in BOOLEAN,
              crossed' \in BOOLEAN, backupSettings' \in 0..MaxSettings, RestoreStands'
       PROVE  BackingInv'
  <2>1. Backing!TypeOK' /\ Backing!SchedulerFollows' /\ (spared = byHand)'
    BY <1>10 DEF Backing!TypeOK, Backing!SchedulerFollows
  <2> QED
    BY <1>3, <1>4, <1>5, <1>10, <2>1
<1>11. CASE Backing!Extract
  <2>1. crossed' \in BOOLEAN /\ patching' \in BOOLEAN
    BY <1>11, Zenon DEF Backing!Extract, Backing!TypeOK
  <2>2. RestoreStands'
    BY <1>11 DEF Backing!Extract, Backing!TypeOK, RestoreStands
  <2>3. UNCHANGED <<clock, Backing!autoVars, byHand, spared>>
    BY <1>11 DEF Backing!Extract
  <2>4. /\ {file', memory', restoredValue'} \subseteq Backing!Contents
        /\ restoring' \in {"no", "extracted", "read"} /\ backupSettings' \in 0..MaxSettings
    BY <1>11 DEF Backing!Extract, Backing!TypeOK, Backing!Contents
  <2> QED
    BY <1>10, <2>1, <2>2, <2>3, <2>4
<1>12. CASE Backing!ReadBack
  <2>1. crossed' \in BOOLEAN /\ patching' \in BOOLEAN
    BY <1>12, Zenon DEF Backing!ReadBack, Backing!TypeOK
  <2>2. RestoreStands'
    BY <1>12 DEF Backing!ReadBack, Backing!TypeOK, RestoreStands
  <2>3. UNCHANGED <<clock, Backing!autoVars, byHand, spared>>
    BY <1>12 DEF Backing!ReadBack
  <2>4. /\ {file', memory', restoredValue'} \subseteq Backing!Contents
        /\ restoring' \in {"no", "extracted", "read"} /\ backupSettings' \in 0..MaxSettings
    BY <1>12 DEF Backing!ReadBack, Backing!TypeOK, Backing!Contents
  <2> QED
    BY <1>10, <2>1, <2>2, <2>3, <2>4
<1>13. CASE Backing!ApplyRestored
  BY <1>10, <1>13 DEF Backing!ApplyRestored, Backing!TypeOK, Backing!Contents, RestoreStands
<1>14. CASE Backing!PatchSaves \/ Backing!PatchCommits
  <2>1. crossed' \in BOOLEAN /\ patching' \in BOOLEAN
    BY <1>14, Zenon DEF Backing!PatchSaves, Backing!PatchCommits, Backing!TypeOK
  <2>2. RestoreStands'
    BY <1>14 DEF Backing!PatchSaves, Backing!PatchCommits, Backing!TypeOK, RestoreStands
  <2>3. UNCHANGED <<clock, Backing!autoVars, byHand, spared>>
    BY <1>14 DEF Backing!PatchSaves, Backing!PatchCommits
  <2>4. /\ {file', memory', restoredValue'} \subseteq Backing!Contents
        /\ restoring' \in {"no", "extracted", "read"} /\ backupSettings' \in 0..MaxSettings
    BY <1>14 DEF Backing!PatchSaves, Backing!PatchCommits, Backing!TypeOK, Backing!Contents
  <2> QED
    BY <1>10, <2>1, <2>2, <2>3, <2>4
<1>15. CASE UNCHANGED Backing!backupVars
  BY <1>10, <1>15 DEF Backing!TypeOK, RestoreStands
<1> QED
  BY <1>6, <1>7, <1>8, <1>9, <1>11, <1>12, <1>13, <1>14, <1>15

(* Every step about the backups keeps the invariant. *)
LEMMA BackingKeeps == BackingInv /\ [Backing!NextBackups]_(Backing!backupVars) => BackingInv'
BY BackingAsks, BackingStores, BackingRest DEF Backing!NextBackups

(* What the invariant says of the backups and of a restore. *)
LEMMA BackingShows ==
  BackingInv => /\ Backing!TypeOK /\ Backing!BackupsKeepTheirDistance /\ Backing!BackupsStay
                /\ Backing!SchedulerFollows /\ Backing!RestoredIsCommitted
BY DEF BackingInv, LastIsKept, RestoreStands, Backing!BackupsStay, Backing!RestoredIsCommitted
-----------------------------------------------------------------------------
(* The updater *)

(* The types of the cycle, of the cache, of the install and of the bounds.  *)
CycleTypes ==
  /\ starting \in BOOLEAN /\ auto \in BOOLEAN /\ writing \in {"no", "patch", "background"}
  /\ ready \in BOOLEAN /\ bgToken \in {"none", "armed", "cancelled"}
  /\ bg \in {"asleep", "armed", "checking", "found", "downloaded", "half written", "cached",
             "locked"}
CacheTypes ==
  /\ bin \in Versions \cup {Updating!Nothing, Updating!Foul}
  /\ {meta, bgUpdate, want, manualBytes, offered} \subseteq Versions \cup {Updating!Nothing}
InstallTypes ==
  /\ manual \in {"no", "checking", "fetching", "prepared", "taken", "installing"}
  /\ manualToken \in {"none", "armed", "cancelled"} /\ againstWill \in BOOLEAN
CountTypes ==
  /\ checks \in 0..MaxChecks /\ patches \in 0..MaxPatches /\ installs \in 0..MaxInstalls

(* The lock of the configuration, and a start that has not looked yet.      *)
Turns ==
  /\ bg = "locked" <=> writing = "background"
  /\ starting => ~ready /\ bg = "asleep"

(* With the switch off, only a cycle that is about to look at the switch    *)
(* leaves a version in the cache.                                           *)
OffIsEmpty ==
  ~auto /\ ~starting /\ writing # "patch" =>
    ~ready /\ (bg \notin {"cached", "locked"} => meta = 0)

(* What is prepared is signed, and its token is not cancelled when it is    *)
(* taken.                                                                   *)
PreparedIsSigned ==
  /\ manual \in {"prepared", "taken"} => manualBytes = want
  /\ manual = "taken" => manualToken # "cancelled"

UpdatingInv ==
  /\ CycleTypes /\ CacheTypes /\ InstallTypes /\ CountTypes /\ Turns /\ OffIsEmpty /\ PreparedIsSigned
  /\ Updating!OnlySignedUpdates /\ Updating!CancelsAreObeyed

(* The types, in groups that a step is checked against one by one. *)
LEMMA UpdaterTypes == Updating!TypeOK <=> CycleTypes /\ CacheTypes /\ InstallTypes /\ CountTypes
<1>1. Updating!TypeOK => CycleTypes /\ InstallTypes /\ CountTypes
  BY Zenon DEF Updating!TypeOK, CycleTypes, InstallTypes, CountTypes
<1>2. Updating!TypeOK => CacheTypes
  BY DEF Updating!TypeOK, CacheTypes
<1>3. CycleTypes /\ CacheTypes /\ InstallTypes /\ CountTypes => Updating!TypeOK
  <2>1. CacheTypes => /\ meta \in Versions \cup {Updating!Nothing}
                      /\ bgUpdate \in Versions \cup {Updating!Nothing}
                      /\ want \in Versions \cup {Updating!Nothing}
                      /\ manualBytes \in Versions \cup {Updating!Nothing}
                      /\ offered \in Versions \cup {Updating!Nothing}
    BY DEF CacheTypes
  <2> QED
    BY <2>1, Zenon DEF Updating!TypeOK, CycleTypes, InstallTypes, CountTypes, CacheTypes
<1> QED
  BY <1>1, <1>2, <1>3

(* The updater starts with any cache that a former run has left. *)
LEMMA UpdatingInit == Updating!InitUpdater => UpdatingInv
<1> SUFFICES ASSUME Updating!InitUpdater
             PROVE  UpdatingInv
  OBVIOUS
<1>1. starting \in BOOLEAN /\ auto \in BOOLEAN /\ ready \in BOOLEAN /\ againstWill \in BOOLEAN
  BY Zenon DEF Updating!InitUpdater
<1>2. checks \in 0..MaxChecks /\ patches \in 0..MaxPatches /\ installs \in 0..MaxInstalls
  BY VersionsAssumption DEF Updating!InitUpdater
<1>3. CycleTypes /\ CacheTypes /\ InstallTypes /\ CountTypes
  BY <1>1, <1>2 DEF Updating!InitUpdater, CycleTypes, CacheTypes, InstallTypes, CountTypes
<1>4. Turns /\ OffIsEmpty /\ PreparedIsSigned
  BY DEF Updating!InitUpdater, Turns, OffIsEmpty, PreparedIsSigned
<1>5. Updating!OnlySignedUpdates /\ Updating!CancelsAreObeyed
  BY DEF Updating!InitUpdater, Updating!OnlySignedUpdates, Updating!CancelsAreObeyed
<1> QED
  BY <1>3, <1>4, <1>5 DEF UpdatingInv

(* A step of the background cycle, of the switch or of the server leaves the *)
(* install from the dialog alone.                                           *)
LEMMA UpdatingCycle ==
  UpdatingInv /\ (\/ Updating!Wake \/ Updating!ReadSwitch \/ Updating!Check \/ Updating!Download
                  \/ Updating!WriteBin \/ Updating!WriteMeta \/ Updating!LockConfig
                  \/ Updating!Announce \/ Updating!Patch \/ Updating!Discard \/ Updating!Publish
                  \/ UNCHANGED Updating!updaterVars)
    => UpdatingInv'
<1> SUFFICES ASSUME UpdatingInv,
                    \/ Updating!Wake \/ Updating!ReadSwitch \/ Updating!Check \/ Updating!Download
                    \/ Updating!WriteBin \/ Updating!WriteMeta \/ Updating!LockConfig
                    \/ Updating!Announce \/ Updating!Patch \/ Updating!Discard \/ Updating!Publish
                    \/ UNCHANGED Updating!updaterVars
             PROVE  UpdatingInv'
  OBVIOUS
<1> USE VersionsAssumption
    DEF UpdatingInv, Updating!updaterVars, Updating!cache, Updating!bgVars, Updating!manualVars,
        Updating!ends, Updating!counters, Updating!DeleteCache, Updating!Nothing
<1> DEFINE Same == UNCHANGED <<Updating!manualVars, Updating!ends>>
           Goal == CycleTypes' /\ CacheTypes' /\ InstallTypes' /\ CountTypes' /\ Turns' /\ OffIsEmpty'
<1>1. ASSUME Same, Goal
      PROVE  UpdatingInv'
  BY <1>1 DEF PreparedIsSigned, Updating!OnlySignedUpdates, Updating!CancelsAreObeyed
<1>2. CASE Updating!Wake
  <2>1. CycleTypes' /\ InstallTypes' /\ CountTypes' /\ CacheTypes'
    <3>1. CycleTypes'
      BY <1>2 DEF Updating!Wake, CycleTypes
    <3>2. InstallTypes' /\ CountTypes'
      BY <1>2 DEF Updating!Wake, InstallTypes, CountTypes
    <3>3. CacheTypes'
      BY <1>2 DEF Updating!Wake, CacheTypes
    <3> QED
      BY <3>1, <3>2, <3>3
  <2>2. Turns' /\ OffIsEmpty' /\ Same
    BY <1>2 DEF Updating!Wake, Turns, OffIsEmpty
  <2> QED
    BY <1>1, <2>1, <2>2
<1>3. CASE Updating!ReadSwitch
  <2>1. CycleTypes' /\ InstallTypes' /\ CountTypes' /\ CacheTypes'
    <3>1. CycleTypes'
      BY <1>3 DEF Updating!ReadSwitch, CycleTypes
    <3>2. InstallTypes' /\ CountTypes'
      BY <1>3 DEF Updating!ReadSwitch, InstallTypes, CountTypes
    <3>3. CacheTypes'
      BY <1>3 DEF Updating!ReadSwitch, CacheTypes
    <3> QED
      BY <3>1, <3>2, <3>3
  <2>2. Turns' /\ OffIsEmpty' /\ Same
    BY <1>3 DEF Updating!ReadSwitch, Turns, OffIsEmpty
  <2> QED
    BY <1>1, <2>1, <2>2
<1>4. CASE Updating!Check
  <2>1. CycleTypes' /\ InstallTypes' /\ CountTypes' /\ CacheTypes'
    <3>1. CycleTypes'
      BY <1>4 DEF Updating!Check, CycleTypes
    <3>2. InstallTypes' /\ CountTypes'
      BY <1>4 DEF Updating!Check, InstallTypes, CountTypes
    <3>3. CacheTypes'
      BY <1>4 DEF Updating!Check, CacheTypes
    <3> QED
      BY <3>1, <3>2, <3>3
  <2>2. Turns' /\ OffIsEmpty' /\ Same
    BY <1>4 DEF Updating!Check, Turns, OffIsEmpty
  <2> QED
    BY <1>1, <2>1, <2>2
<1>5. CASE Updating!Download
  <2>1. CycleTypes' /\ InstallTypes' /\ CountTypes' /\ CacheTypes'
    <3>1. CycleTypes'
      BY <1>5 DEF Updating!Download, CycleTypes
    <3>2. InstallTypes' /\ CountTypes'
      BY <1>5 DEF Updating!Download, InstallTypes, CountTypes
    <3>3. CacheTypes'
      BY <1>5 DEF Updating!Download, CacheTypes
    <3> QED
      BY <3>1, <3>2, <3>3
  <2>2. Turns' /\ Same
    BY <1>5 DEF Updating!Download, Turns
  <2>3. OffIsEmpty'
    BY <1>5 DEF Updating!Download, OffIsEmpty
  <2> QED
    BY <1>1, <2>1, <2>2, <2>3
<1>6. CASE Updating!WriteBin
  <2>1. CycleTypes' /\ InstallTypes' /\ CountTypes' /\ CacheTypes'
    <3>1. CycleTypes'
      BY <1>6 DEF Updating!WriteBin, CycleTypes
    <3>2. InstallTypes' /\ CountTypes'
      BY <1>6 DEF Updating!WriteBin, InstallTypes, CountTypes
    <3>3. CacheTypes'
      BY <1>6 DEF Updating!WriteBin, CacheTypes
    <3> QED
      BY <3>1, <3>2, <3>3
  <2>2. Turns' /\ OffIsEmpty' /\ Same
    BY <1>6 DEF Updating!WriteBin, Turns, OffIsEmpty
  <2> QED
    BY <1>1, <2>1, <2>2
<1>7. CASE Updating!WriteMeta
  <2>1. CycleTypes' /\ InstallTypes' /\ CountTypes' /\ CacheTypes'
    <3>1. CycleTypes'
      BY <1>7 DEF Updating!WriteMeta, CycleTypes
    <3>2. InstallTypes' /\ CountTypes'
      BY <1>7 DEF Updating!WriteMeta, InstallTypes, CountTypes
    <3>3. CacheTypes'
      <4>1. meta' = bgUpdate /\ UNCHANGED <<bin, bgUpdate, want, manualBytes, offered>>
        BY <1>7 DEF Updating!WriteMeta
      <4>2. {meta, bgUpdate, want, manualBytes, offered}'
              \subseteq {meta, bgUpdate, want, manualBytes, offered}
        BY <4>1
      <4> QED
        BY <4>1, <4>2 DEF CacheTypes
    <3> QED
      BY <3>1, <3>2, <3>3
  <2>2. Turns' /\ OffIsEmpty' /\ Same
    BY <1>7 DEF Updating!WriteMeta, Turns, OffIsEmpty
  <2> QED
    BY <1>1, <2>1, <2>2
<1>8. CASE Updating!LockConfig
  <2>1. CycleTypes' /\ InstallTypes' /\ CountTypes' /\ CacheTypes'
    <3>1. CycleTypes'
      BY <1>8 DEF Updating!LockConfig, CycleTypes
    <3>2. InstallTypes' /\ CountTypes'
      BY <1>8 DEF Updating!LockConfig, InstallTypes, CountTypes
    <3>3. CacheTypes'
      BY <1>8 DEF Updating!LockConfig, CacheTypes
    <3> QED
      BY <3>1, <3>2, <3>3
  <2>2. Turns' /\ OffIsEmpty' /\ Same
    BY <1>8 DEF Updating!LockConfig, Turns, OffIsEmpty
  <2> QED
    BY <1>1, <2>1, <2>2
<1>9. CASE Updating!Announce
  <2>1. ready' \in BOOLEAN
    BY <1>9, Zenon DEF Updating!Announce, CycleTypes
  <2>2. CycleTypes' /\ InstallTypes' /\ CountTypes' /\ CacheTypes'
    <3>1. CycleTypes'
      BY <1>9, <2>1 DEF Updating!Announce, CycleTypes
    <3>2. InstallTypes' /\ CountTypes'
      BY <1>9, <2>1 DEF Updating!Announce, InstallTypes, CountTypes
    <3>3. CacheTypes'
      BY <1>9, <2>1 DEF Updating!Announce, CacheTypes
    <3> QED
      BY <3>1, <3>2, <3>3
  <2>3. Turns' /\ OffIsEmpty' /\ Same
    BY <1>9 DEF Updating!Announce, Turns, OffIsEmpty
  <2> QED
    BY <1>1, <2>2, <2>3
<1>10. CASE Updating!Patch
  <2>1. auto' \in BOOLEAN
    BY <1>10, Zenon DEF Updating!Patch, CycleTypes
  <2>2. CycleTypes' /\ InstallTypes' /\ CountTypes' /\ CacheTypes'
    <3>1. CycleTypes'
      BY <1>10, <2>1 DEF Updating!Patch, CycleTypes
    <3>2. InstallTypes' /\ CountTypes'
      BY <1>10, <2>1 DEF Updating!Patch, InstallTypes, CountTypes
    <3>3. CacheTypes'
      BY <1>10, <2>1 DEF Updating!Patch, CacheTypes
    <3> QED
      BY <3>1, <3>2, <3>3
  <2>3. Turns' /\ OffIsEmpty' /\ Same
    BY <1>10 DEF Updating!Patch, CycleTypes, Turns, OffIsEmpty
  <2> QED
    BY <1>1, <2>2, <2>3
<1>11. CASE Updating!Discard
  <2>1. ready' \in BOOLEAN
    BY <1>11, Zenon DEF Updating!Discard
  <2>2. CycleTypes' /\ InstallTypes' /\ CountTypes' /\ CacheTypes'
    <3>1. CycleTypes'
      BY <1>11, <2>1 DEF Updating!Discard, CycleTypes
    <3>2. InstallTypes' /\ CountTypes'
      BY <1>11, <2>1 DEF Updating!Discard, InstallTypes, CountTypes
    <3>3. CacheTypes'
      BY <1>11, <2>1 DEF Updating!Discard, CacheTypes
    <3> QED
      BY <3>1, <3>2, <3>3
  <2>3. Turns' /\ OffIsEmpty' /\ Same
    BY <1>11 DEF Updating!Discard, Turns, OffIsEmpty
  <2> QED
    BY <1>1, <2>2, <2>3
<1>12. CASE Updating!Publish
  <2>1. CycleTypes' /\ InstallTypes' /\ CountTypes' /\ CacheTypes'
    <3>1. CycleTypes'
      BY <1>12 DEF Updating!Publish, CycleTypes
    <3>2. InstallTypes' /\ CountTypes'
      BY <1>12 DEF Updating!Publish, InstallTypes, CountTypes
    <3>3. CacheTypes'
      BY <1>12 DEF Updating!Publish, CacheTypes
    <3> QED
      BY <3>1, <3>2, <3>3
  <2>2. Turns' /\ OffIsEmpty' /\ Same
    BY <1>12 DEF Updating!Publish, Turns, OffIsEmpty
  <2> QED
    BY <1>1, <2>1, <2>2
<1>13. CASE UNCHANGED Updating!updaterVars
  <2>1. CycleTypes' /\ InstallTypes' /\ CountTypes' /\ CacheTypes'
    <3>1. CycleTypes'
      BY <1>13 DEF CycleTypes
    <3>2. InstallTypes' /\ CountTypes'
      BY <1>13 DEF InstallTypes, CountTypes
    <3>3. CacheTypes'
      BY <1>13 DEF CacheTypes
    <3> QED
      BY <3>1, <3>2, <3>3
  <2>2. Turns' /\ OffIsEmpty' /\ Same
    BY <1>13 DEF Turns, OffIsEmpty
  <2> QED
    BY <1>1, <2>1, <2>2
<1> QED
  BY <1>2, <1>3, <1>4, <1>5, <1>6, <1>7, <1>8, <1>9, <1>10, <1>11, <1>12, <1>13

(* The install from the dialog, and the two starts. *)
LEMMA UpdatingInstalls ==
  UpdatingInv /\ (\/ \E v \in Versions : Updating!Ask(v)
                  \/ Updating!CheckAsked \/ Updating!Fetch \/ Updating!CancelAsked
                  \/ Updating!Take \/ Updating!Install \/ Updating!Installed
                  \/ Updating!Startup \/ Updating!Relaunch)
    => UpdatingInv'
<1> USE VersionsAssumption
    DEF UpdatingInv, Updating!cache, Updating!bgVars, Updating!manualVars, Updating!ends,
        Updating!counters, Updating!DeleteCache, Updating!Nothing, Updating!Usable
<1>1. ASSUME UpdatingInv, NEW v \in Versions, Updating!Ask(v)
      PROVE  UpdatingInv'
  <2>1. CycleTypes' /\ InstallTypes' /\ CountTypes' /\ CacheTypes'
    <3>1. CycleTypes'
      BY <1>1 DEF Updating!Ask, CycleTypes
    <3>2. InstallTypes' /\ CountTypes'
      BY <1>1 DEF Updating!Ask, InstallTypes, CountTypes
    <3>3. CacheTypes'
      BY <1>1 DEF Updating!Ask, CacheTypes
    <3> QED
      BY <3>1, <3>2, <3>3
  <2> QED
    BY <1>1, <2>1 DEF Updating!Ask, Turns, OffIsEmpty, PreparedIsSigned,
       Updating!OnlySignedUpdates, Updating!CancelsAreObeyed
<1>2. ASSUME UpdatingInv, Updating!CheckAsked
      PROVE  UpdatingInv'
  <2>1. CycleTypes' /\ InstallTypes' /\ CountTypes' /\ CacheTypes'
    <3>1. CycleTypes'
      BY <1>2 DEF Updating!CheckAsked, CycleTypes
    <3>2. InstallTypes' /\ CountTypes'
      BY <1>2 DEF Updating!CheckAsked, InstallTypes, CountTypes
    <3>3. CacheTypes'
      BY <1>2 DEF Updating!CheckAsked, CacheTypes
    <3> QED
      BY <3>1, <3>2, <3>3
  <2> QED
    BY <1>2, <2>1 DEF Updating!CheckAsked, Turns, OffIsEmpty, PreparedIsSigned,
       Updating!OnlySignedUpdates, Updating!CancelsAreObeyed
<1>3. ASSUME UpdatingInv, Updating!Fetch
      PROVE  UpdatingInv'
  <2>1. CycleTypes' /\ InstallTypes' /\ CountTypes' /\ CacheTypes'
    <3>1. CycleTypes'
      BY <1>3 DEF Updating!Fetch, CycleTypes
    <3>2. InstallTypes' /\ CountTypes'
      BY <1>3 DEF Updating!Fetch, InstallTypes, CountTypes
    <3>3. CacheTypes'
      BY <1>3 DEF Updating!Fetch, CacheTypes
    <3> QED
      BY <3>1, <3>2, <3>3
  <2> QED
    BY <1>3, <2>1 DEF Updating!Fetch, Turns, OffIsEmpty, PreparedIsSigned,
       Updating!OnlySignedUpdates, Updating!CancelsAreObeyed
<1>4. ASSUME UpdatingInv, Updating!CancelAsked
      PROVE  UpdatingInv'
  <2>1. CycleTypes' /\ InstallTypes' /\ CountTypes' /\ CacheTypes'
    <3>1. CycleTypes'
      BY <1>4 DEF Updating!CancelAsked, CycleTypes
    <3>2. InstallTypes' /\ CountTypes'
      BY <1>4 DEF Updating!CancelAsked, InstallTypes, CountTypes
    <3>3. CacheTypes'
      BY <1>4 DEF Updating!CancelAsked, CacheTypes
    <3> QED
      BY <3>1, <3>2, <3>3
  <2> QED
    BY <1>4, <2>1 DEF Updating!CancelAsked, Turns, OffIsEmpty, PreparedIsSigned,
       Updating!OnlySignedUpdates, Updating!CancelsAreObeyed
<1>5. ASSUME UpdatingInv, Updating!Take
      PROVE  UpdatingInv'
  <2>1. CycleTypes' /\ InstallTypes' /\ CountTypes' /\ CacheTypes'
    <3>1. CycleTypes'
      BY <1>5 DEF Updating!Take, CycleTypes
    <3>2. InstallTypes' /\ CountTypes'
      BY <1>5 DEF Updating!Take, InstallTypes, CountTypes
    <3>3. CacheTypes'
      BY <1>5 DEF Updating!Take, CacheTypes
    <3> QED
      BY <3>1, <3>2, <3>3
  <2> QED
    BY <1>5, <2>1 DEF Updating!Take, Turns, OffIsEmpty, PreparedIsSigned,
       Updating!OnlySignedUpdates, Updating!CancelsAreObeyed
<1>6. ASSUME UpdatingInv, Updating!Install
      PROVE  UpdatingInv'
  <2>1. manualToken # "cancelled" /\ manualBytes = want
    BY <1>6 DEF Updating!Install, PreparedIsSigned
  <2>2. againstWill' = FALSE
    BY <1>6, <2>1, Zenon DEF Updating!Install, Updating!CancelsAreObeyed
  <2>3. CycleTypes' /\ InstallTypes' /\ CountTypes' /\ CacheTypes'
    <3>1. CycleTypes'
      BY <1>6, <2>2 DEF Updating!Install, CycleTypes
    <3>2. InstallTypes' /\ CountTypes'
      BY <1>6, <2>2 DEF Updating!Install, InstallTypes, CountTypes
    <3>3. CacheTypes'
      BY <1>6, <2>2 DEF Updating!Install, CacheTypes
    <3> QED
      BY <3>1, <3>2, <3>3
  <2> QED
    BY <1>6, <2>1, <2>2, <2>3 DEF Updating!Install, Turns, OffIsEmpty, PreparedIsSigned,
       Updating!OnlySignedUpdates, Updating!CancelsAreObeyed
<1>7. ASSUME UpdatingInv, Updating!Installed
      PROVE  UpdatingInv'
  <2>1. CycleTypes' /\ InstallTypes' /\ CountTypes' /\ CacheTypes'
    <3>1. CycleTypes'
      BY <1>7 DEF Updating!Installed, CycleTypes
    <3>2. InstallTypes' /\ CountTypes'
      BY <1>7 DEF Updating!Installed, InstallTypes, CountTypes
    <3>3. CacheTypes'
      BY <1>7 DEF Updating!Installed, CacheTypes
    <3> QED
      BY <3>1, <3>2, <3>3
  <2> QED
    BY <1>7, <2>1 DEF Updating!Installed, Turns, OffIsEmpty, PreparedIsSigned,
       Updating!OnlySignedUpdates, Updating!CancelsAreObeyed
<1>8. ASSUME UpdatingInv, Updating!Startup
      PROVE  UpdatingInv'
  <2>1. starting' \in BOOLEAN
    BY <1>8, Zenon DEF Updating!Startup
  <2>2. CycleTypes' /\ InstallTypes' /\ CountTypes' /\ CacheTypes'
    <3>1. CycleTypes'
      BY <1>8, <2>1 DEF Updating!Startup, CycleTypes
    <3>2. InstallTypes' /\ CountTypes'
      BY <1>8, <2>1 DEF Updating!Startup, InstallTypes, CountTypes
    <3>3. CacheTypes'
      BY <1>8, <2>1 DEF Updating!Startup, CacheTypes
    <3> QED
      BY <3>1, <3>2, <3>3
  <2>3. Turns' /\ PreparedIsSigned' /\ Updating!CancelsAreObeyed'
    BY <1>8 DEF Updating!Startup, Turns, PreparedIsSigned, Updating!CancelsAreObeyed
  <2>4. OffIsEmpty'
    BY <1>8 DEF Updating!Startup, Turns, OffIsEmpty
  <2>5. Updating!OnlySignedUpdates'
    BY <1>8 DEF Updating!Startup, Updating!OnlySignedUpdates
  <2> QED
    BY <2>2, <2>3, <2>4, <2>5
<1>9. ASSUME UpdatingInv, Updating!Relaunch
      PROVE  UpdatingInv'
  <2>1. starting' \in BOOLEAN /\ ready' \in BOOLEAN
    BY <1>9, Zenon DEF Updating!Relaunch
  <2>2. CycleTypes' /\ InstallTypes' /\ CountTypes' /\ CacheTypes'
    <3>1. CycleTypes'
      BY <1>9, <2>1 DEF Updating!Relaunch, CycleTypes
    <3>2. InstallTypes' /\ CountTypes'
      BY <1>9, <2>1 DEF Updating!Relaunch, InstallTypes, CountTypes
    <3>3. CacheTypes'
      BY <1>9, <2>1 DEF Updating!Relaunch, CacheTypes
    <3> QED
      BY <3>1, <3>2, <3>3
  <2> QED
    BY <1>9, <2>2 DEF Updating!Relaunch, Turns, OffIsEmpty, PreparedIsSigned,
       Updating!OnlySignedUpdates, Updating!CancelsAreObeyed
<1> QED
  BY <1>1, <1>2, <1>3, <1>4, <1>5, <1>6, <1>7, <1>8, <1>9

(* Every step of the updater keeps the invariant. *)
LEMMA UpdatingKeeps == UpdatingInv /\ [Updating!NextUpdater]_(Updating!updaterVars) => UpdatingInv'
BY UpdatingCycle, UpdatingInstalls DEF Updating!NextUpdater

(* What the invariant says of the updates. *)
LEMMA UpdatingShows ==
  UpdatingInv => /\ Updating!TypeOK /\ Updating!OffMeansNothingPending
                 /\ Updating!OnlySignedUpdates /\ Updating!CancelsAreObeyed
BY UpdaterTypes DEF UpdatingInv, OffIsEmpty, Updating!OffMeansNothingPending, Updating!Nothing

-----------------------------------------------------------------------------
(* The tray menu.  MenuHeld says who has the menu and where the loop of the    *)
(* requests is, MenuQueue that one refresh waits at most, and for the items    *)
(* there are.  SelectionComing: when nobody is going to read the selection     *)
(* once more, whoever is going to write it to the menu last has the one of now. *)

Callers == {"loop", "direct"}
MenuTypes ==
  /\ selectedNow \in Choices /\ items \in Showing!Items /\ holder \in {"none", "loop", "direct", "hover"}
  /\ asks \in Nat /\ tells \in Nat /\ menuChanges \in 0..MaxMenuChanges
  /\ hover \in {"off", "reads", "posted"} /\ test \in {"off", "runs", "synced"}
MenuFlags == {syncRunning, syncPending, testing, unasked, slipped} \subseteq BOOLEAN
RebuildTypes == rebuild \in [Callers -> [at : Showing!Steps, built : Showing!Items]]
QueueTypes == mainThread \in Seq([call : {"label", "apply"}, view : Showing!Items])

MenuHeld ==
  /\ \A r \in Callers : rebuild[r].at \in {"make", "swap"} <=> holder = r
  /\ hover \in {"reads", "posted"} <=> holder = "hover"
  /\ hover # "off" => items.providers \in Showing!Provided
  /\ syncRunning <=> rebuild["loop"].at \notin {"off", "again"}
  /\ rebuild["direct"].at \in {"off", "bare", "lock", "make", "swap"}

MenuQueue ==
  /\ hover = "posted" <=> \E i \in 1..Len(mainThread) : mainThread[i].call = "apply"
  /\ \A i, j \in 1..Len(mainThread) : mainThread[i].call = "apply" /\ mainThread[j].call = "apply" => i = j
  /\ \A i \in 1..Len(mainThread) : mainThread[i].call = "apply" =>
       mainThread[i].view.providers = items.providers

LabelsComing ==
  items.providers # "none" =>
    \/ items.testing = testing
    \/ \E i \in 1..Len(mainThread) : mainThread[i].call = "label"

\* Somebody is going to read the selection before he changes the menu.
ReadComing ==
  \/ asks > 0 \/ tells > 0 \/ (syncPending /\ rebuild["loop"].at # "off")
  \/ \E r \in Callers : rebuild[r].at \in {"bare", "lock", "make"}
SelectionComing ==
  ~unasked /\ ~slipped /\ ~ReadComing =>
    /\ \A r \in Callers : rebuild[r].at = "swap" =>
         rebuild[r].built.providers = "none" \/ rebuild[r].built.shown = selectedNow
    /\ \A i \in 1..Len(mainThread) : mainThread[i].call = "apply" => mainThread[i].view.shown = selectedNow
    /\ hover # "posted" /\ (\A r \in Callers : rebuild[r].at # "swap") =>
         items.providers = "none" \/ items.shown = selectedNow

MenuInv ==
  /\ MenuTypes /\ MenuFlags /\ RebuildTypes /\ QueueTypes
  /\ MenuHeld /\ MenuQueue /\ LabelsComing /\ SelectionComing

(* A menu without groups is told by its providers. *)
LEMMA MenuItems ==
  /\ \A x \in Showing!Items : x = Showing!NoItems <=> x.providers = "none"
  /\ \A x \in Showing!Items : x.providers # "none" =>
       /\ x.shown \in Choices /\ x.providers \in Showing!Provided /\ x.testing \in BOOLEAN
       /\ \A c \in Choices : [x EXCEPT !.shown = c] \in Showing!Items
       /\ \A b \in BOOLEAN : [x EXCEPT !.testing = b] \in Showing!Items
  /\ \A c \in Choices, p \in Showing!Provided, b \in BOOLEAN :
       [shown |-> c, providers |-> p, testing |-> b] \in Showing!Items
  /\ Showing!NoItems \in Showing!Items /\ "none" \notin Showing!Provided /\ Showing!NoItems.providers = "none"
BY DEF Showing!Items, Showing!NoItems, Showing!Provided

(* There is no menu yet, and nobody has asked for one. *)
LEMMA ShowingInit == Showing!InitMenu => MenuInv
<1>. SUFFICES ASSUME Showing!InitMenu PROVE MenuInv
  OBVIOUS
<1>. USE ShowingAssumption, MenuItems DEF Showing!InitMenu
<1>1. MenuTypes /\ QueueTypes
  BY DEF MenuTypes, QueueTypes
<1>2. MenuFlags
  BY DEF MenuFlags
<1>3. RebuildTypes /\ \A r \in Callers : rebuild[r].at = "off"
  BY DEF RebuildTypes, Callers, Showing!AtRest, Showing!Steps
<1>4. MenuHeld
  BY <1>3 DEF MenuHeld, Callers
<1>5. MenuQueue /\ LabelsComing /\ SelectionComing
  BY <1>3 DEF MenuQueue, LabelsComing, SelectionComing
<1>. QED
  BY <1>1, <1>2, <1>3, <1>4, <1>5 DEF MenuInv

(* Every step of the requests, the rebuilds, a refresh and a test keeps the invariant. *)
LEMMA ShowingNext ==
  ASSUME MenuInv, Showing!NextMenu \/ UNCHANGED Showing!menuVars
  PROVE  MenuInv'
<1>. USE ShowingAssumption DEF MenuInv, Showing!menuVars, Showing!sync, Showing!latency
<1>0. DOMAIN rebuild = Callers
  BY DEF RebuildTypes
<1>1. ASSUME NEW n \in Choices, Showing!Select(n) PROVE MenuInv'
  <2>1. \/ asks' = asks + 1 /\ rebuild' = rebuild
        \/ /\ asks' = asks /\ rebuild["direct"].at = "off" /\ rebuild'["direct"].at = "lock"
           /\ rebuild'["loop"] = rebuild["loop"]
    BY <1>1 DEF Showing!Select, Showing!Change, Showing!At, RebuildTypes, Callers
  <2>2. UNCHANGED <<items, holder, syncRunning, syncPending, tells, hover, testing, mainThread, unasked, slipped>>
    BY <1>1 DEF Showing!Select, Showing!Change, Showing!At, Showing!sync, Showing!latency
  <2>3. MenuTypes'
    BY <1>1, <2>1, <2>2, MenuItems
       DEF Showing!Select, Showing!Change, Showing!At, MenuTypes, RebuildTypes, MenuHeld,
          Callers
  <2>4. MenuFlags'
    BY <1>1, <2>1, <2>2 DEF Showing!Select, Showing!Change, Showing!At, MenuFlags
  <2>5. RebuildTypes'
    BY <1>1, <2>1, <2>2, MenuItems
       DEF Showing!Select, Showing!Change, Showing!At, RebuildTypes, MenuTypes, MenuFlags,
          Showing!Steps
  <2>6. QueueTypes'
    BY <1>1, <2>1, <2>2, MenuItems
       DEF Showing!Select, Showing!Change, Showing!At, QueueTypes
  <2>7. MenuHeld'
    BY <2>1, <2>2, MenuItems DEF MenuHeld, Callers
  <2>8. MenuQueue'
    BY <2>1, <2>2, MenuItems DEF MenuQueue, MenuHeld, Callers
  <2>9. LabelsComing'
    BY <2>1, <2>2, MenuItems DEF LabelsComing
  <2>10. SelectionComing'
    BY <2>1, <2>2, MenuItems DEF SelectionComing, ReadComing, Callers, MenuHeld, MenuTypes
  <2>. QED
    BY <2>3, <2>4, <2>5, <2>6, <2>7, <2>8, <2>9, <2>10
<1>2. ASSUME NEW n \in Choices, Showing!CoreSelects(n) PROVE MenuInv'
  <2>1. unasked' = TRUE
    BY <1>2 DEF Showing!CoreSelects, Showing!Change
  <2>2. UNCHANGED <<items, holder, rebuild, syncRunning, syncPending, asks, tells, hover, testing, mainThread, slipped>>
    BY <1>2 DEF Showing!CoreSelects, Showing!Change, Showing!sync, Showing!latency
  <2>3. MenuTypes'
    BY <1>2, <2>1, <2>2, MenuItems
       DEF Showing!CoreSelects, Showing!Change, MenuTypes, RebuildTypes, MenuHeld, Callers
  <2>4. MenuFlags'
    BY <1>2, <2>1, <2>2 DEF Showing!CoreSelects, Showing!Change, MenuFlags
  <2>5. RebuildTypes'
    BY <1>2, <2>1, <2>2, MenuItems
       DEF Showing!CoreSelects, Showing!Change, RebuildTypes, MenuTypes, MenuFlags,
          Showing!Steps
  <2>6. QueueTypes'
    BY <1>2, <2>1, <2>2, MenuItems DEF Showing!CoreSelects, Showing!Change, QueueTypes
  <2>7. MenuHeld'
    BY <2>1, <2>2, MenuItems DEF MenuHeld, Callers
  <2>8. MenuQueue'
    BY <2>1, <2>2, MenuItems DEF MenuQueue, MenuHeld, Callers
  <2>9. LabelsComing'
    BY <2>1, <2>2, MenuItems DEF LabelsComing
  <2>10. SelectionComing'
    BY <2>1, <2>2, MenuItems DEF SelectionComing, ReadComing, Callers, MenuHeld, MenuTypes
  <2>. QED
    BY <2>3, <2>4, <2>5, <2>6, <2>7, <2>8, <2>9, <2>10
<1>3. CASE Showing!Ask
  <2>1. \/ /\ ~syncRunning /\ syncRunning' = TRUE /\ tells' = tells /\ rebuild'["loop"].at = "lock"
           /\ rebuild'["direct"] = rebuild["direct"]
        \/ /\ syncRunning' = syncRunning /\ tells' = tells + 1 /\ rebuild' = rebuild
    BY <1>3 DEF Showing!Ask, Showing!At, RebuildTypes, Callers
  <2>2. UNCHANGED <<selectedNow, items, holder, syncPending, hover, testing, mainThread, unasked, slipped>>
    BY <1>3 DEF Showing!Ask, Showing!At, Showing!sync, Showing!latency
  <2>3. MenuTypes'
    BY <1>3, <2>1, <2>2, MenuItems
       DEF Showing!Ask, Showing!At, MenuTypes, RebuildTypes, MenuHeld, Callers
  <2>4. MenuFlags'
    BY <1>3, <2>1, <2>2 DEF Showing!Ask, Showing!At, MenuFlags
  <2>5. RebuildTypes'
    BY <1>3, <2>1, <2>2, MenuItems
       DEF Showing!Ask, Showing!At, RebuildTypes, MenuTypes, MenuFlags, Showing!Steps
  <2>6. QueueTypes'
    BY <1>3, <2>1, <2>2, MenuItems DEF Showing!Ask, Showing!At, QueueTypes
  <2>7. MenuHeld'
    BY <2>1, <2>2, MenuItems DEF MenuHeld, Callers
  <2>8. MenuQueue'
    BY <2>1, <2>2, MenuItems DEF MenuQueue, MenuHeld, Callers
  <2>9. LabelsComing'
    BY <2>1, <2>2, MenuItems DEF LabelsComing
  <2>10. SelectionComing'
    BY <2>1, <2>2, MenuItems DEF SelectionComing, ReadComing, Callers, MenuHeld, MenuTypes
  <2>. QED
    BY <2>3, <2>4, <2>5, <2>6, <2>7, <2>8, <2>9, <2>10
<1>4. CASE Showing!Tell
  <2>1. syncPending' = TRUE /\ (slipped' = FALSE => slipped = FALSE /\ rebuild["loop"].at # "off")
    BY <1>4 DEF Showing!Tell, MenuFlags
  <2>2. slipped' \in BOOLEAN
    BY <1>4 DEF Showing!Tell, MenuFlags
  <2>3. UNCHANGED <<selectedNow, items, holder, rebuild, syncRunning, asks, hover, testing, mainThread, unasked>>
    BY <1>4 DEF Showing!Tell, Showing!sync, Showing!latency
  <2>4. MenuTypes'
    BY <1>4, <2>1, <2>2, <2>3, MenuItems
       DEF Showing!Tell, MenuTypes, RebuildTypes, MenuHeld, Callers
  <2>5. MenuFlags'
    BY <1>4, <2>1, <2>2, <2>3 DEF Showing!Tell, MenuFlags
  <2>6. RebuildTypes'
    BY <1>4, <2>1, <2>2, <2>3, MenuItems
       DEF Showing!Tell, RebuildTypes, MenuTypes, MenuFlags, Showing!Steps
  <2>7. QueueTypes'
    BY <1>4, <2>1, <2>2, <2>3, MenuItems DEF Showing!Tell, QueueTypes
  <2>8. MenuHeld'
    BY <2>1, <2>2, <2>3, MenuItems DEF MenuHeld, Callers
  <2>9. MenuQueue'
    BY <2>1, <2>2, <2>3, MenuItems DEF MenuQueue, MenuHeld, Callers
  <2>10. LabelsComing'
    BY <2>1, <2>2, <2>3, MenuItems DEF LabelsComing
  <2>11. SelectionComing'
    BY <2>1, <2>2, <2>3, MenuItems
       DEF SelectionComing, ReadComing, Callers, MenuHeld, MenuTypes
  <2>. QED
    BY <2>4, <2>5, <2>6, <2>7, <2>8, <2>9, <2>10, <2>11
<1>5. CASE Showing!LoopLooks
  <2>1. rebuild["loop"].at = "ask" /\ syncPending' = FALSE
    BY <1>5 DEF Showing!LoopLooks, Showing!At
  <2>2. /\ rebuild'["loop"].at = (IF syncPending THEN "lock" ELSE "clear") /\ rebuild'["loop"].built = rebuild["loop"].built
        /\ \A c \in Callers \ {"loop"} : rebuild'[c] = rebuild[c]
    BY <1>5 DEF Showing!LoopLooks, Showing!At, RebuildTypes, Callers
  <2>3. UNCHANGED <<selectedNow, items, holder, syncRunning, asks, tells, hover, testing, mainThread, unasked, slipped>>
    BY <1>5 DEF Showing!LoopLooks, Showing!At, Showing!sync, Showing!latency
  <2>4. MenuTypes'
    BY <1>5, <2>1, <2>2, <2>3, MenuItems
       DEF Showing!LoopLooks, Showing!At, MenuTypes, RebuildTypes, MenuHeld, Callers
  <2>5. MenuFlags'
    BY <1>5, <2>1, <2>2, <2>3 DEF Showing!LoopLooks, Showing!At, MenuFlags
  <2>6. RebuildTypes'
    BY <1>5, <2>1, <2>2, <2>3, MenuItems
       DEF Showing!LoopLooks, Showing!At, RebuildTypes, MenuTypes, MenuFlags, Showing!Steps
  <2>7. QueueTypes'
    BY <1>5, <2>1, <2>2, <2>3, MenuItems DEF Showing!LoopLooks, Showing!At, QueueTypes
  <2>8. MenuHeld'
    BY <2>1, <2>2, <2>3, MenuItems DEF MenuHeld, Callers
  <2>9. MenuQueue'
    BY <2>1, <2>2, <2>3, MenuItems DEF MenuQueue, MenuHeld, Callers
  <2>10. LabelsComing'
    BY <2>1, <2>2, <2>3, MenuItems DEF LabelsComing
  <2>11. SelectionComing'
    BY <2>1, <2>2, <2>3, MenuItems
       DEF SelectionComing, ReadComing, Callers, MenuHeld, MenuTypes
  <2>. QED
    BY <2>4, <2>5, <2>6, <2>7, <2>8, <2>9, <2>10, <2>11
<1>6. CASE Showing!LoopClears
  <2>1. rebuild["loop"].at = "clear" /\ syncRunning' = FALSE
    BY <1>6 DEF Showing!LoopClears, Showing!At
  <2>2. /\ rebuild'["loop"].at = ("again") /\ rebuild'["loop"].built = rebuild["loop"].built
        /\ \A c \in Callers \ {"loop"} : rebuild'[c] = rebuild[c]
    BY <1>6 DEF Showing!LoopClears, Showing!At, RebuildTypes, Callers
  <2>3. UNCHANGED <<selectedNow, items, holder, syncPending, asks, tells, hover, testing, mainThread, unasked, slipped>>
    BY <1>6 DEF Showing!LoopClears, Showing!At, Showing!sync, Showing!latency
  <2>4. MenuTypes'
    BY <1>6, <2>1, <2>2, <2>3, MenuItems
       DEF Showing!LoopClears, Showing!At, MenuTypes, RebuildTypes, MenuHeld, Callers
  <2>5. MenuFlags'
    BY <1>6, <2>1, <2>2, <2>3 DEF Showing!LoopClears, Showing!At, MenuFlags
  <2>6. RebuildTypes'
    BY <1>6, <2>1, <2>2, <2>3, MenuItems
       DEF Showing!LoopClears, Showing!At, RebuildTypes, MenuTypes, MenuFlags, Showing!Steps
  <2>7. QueueTypes'
    BY <1>6, <2>1, <2>2, <2>3, MenuItems DEF Showing!LoopClears, Showing!At, QueueTypes
  <2>8. MenuHeld'
    BY <2>1, <2>2, <2>3, MenuItems DEF MenuHeld, Callers
  <2>9. MenuQueue'
    BY <2>1, <2>2, <2>3, MenuItems DEF MenuQueue, MenuHeld, Callers
  <2>10. LabelsComing'
    BY <2>1, <2>2, <2>3, MenuItems DEF LabelsComing
  <2>11. SelectionComing'
    BY <2>1, <2>2, <2>3, MenuItems
       DEF SelectionComing, ReadComing, Callers, MenuHeld, MenuTypes
  <2>. QED
    BY <2>4, <2>5, <2>6, <2>7, <2>8, <2>9, <2>10, <2>11
<1>7. CASE Showing!LoopLooksAgain
  <2>1. rebuild["loop"].at = "again" /\ syncPending' = FALSE
    BY <1>7 DEF Showing!LoopLooksAgain, Showing!At
  <2>2. \/ syncPending /\ ~syncRunning /\ syncRunning' = TRUE /\ rebuild'["loop"].at = "lock"
        \/ ~(syncPending /\ ~syncRunning) /\ rebuild'["loop"].at = "off" /\ syncRunning' = syncRunning
    BY <1>7 DEF Showing!LoopLooksAgain, Showing!At, RebuildTypes, Callers
  <2>3. rebuild'["direct"] = rebuild["direct"]
    BY <1>7 DEF Showing!LoopLooksAgain, Showing!At, RebuildTypes, Callers
  <2>4. UNCHANGED <<selectedNow, items, holder, asks, tells, hover, testing, mainThread, unasked, slipped>>
    BY <1>7 DEF Showing!LoopLooksAgain, Showing!At, Showing!sync, Showing!latency
  <2>5. MenuTypes'
    BY <1>7, <2>1, <2>2, <2>3, <2>4, MenuItems
       DEF Showing!LoopLooksAgain, Showing!At, MenuTypes, RebuildTypes, MenuHeld, Callers
  <2>6. MenuFlags'
    BY <1>7, <2>1, <2>2, <2>3, <2>4 DEF Showing!LoopLooksAgain, Showing!At, MenuFlags
  <2>7. RebuildTypes'
    BY <1>7, <2>1, <2>2, <2>3, <2>4, MenuItems
       DEF Showing!LoopLooksAgain, Showing!At, RebuildTypes, MenuTypes, MenuFlags,
          Showing!Steps
  <2>8. QueueTypes'
    BY <1>7, <2>1, <2>2, <2>3, <2>4, MenuItems
       DEF Showing!LoopLooksAgain, Showing!At, QueueTypes
  <2>9. MenuHeld'
    BY <2>1, <2>2, <2>3, <2>4, MenuItems DEF MenuHeld, Callers
  <2>10. MenuQueue'
    BY <2>1, <2>2, <2>3, <2>4, MenuItems DEF MenuQueue, MenuHeld, Callers
  <2>11. LabelsComing'
    BY <2>1, <2>2, <2>3, <2>4, MenuItems DEF LabelsComing
  <2>12. SelectionComing'
    BY <2>1, <2>2, <2>3, <2>4, MenuItems
       DEF SelectionComing, ReadComing, Callers, MenuHeld, MenuTypes
  <2>. QED
    BY <2>5, <2>6, <2>7, <2>8, <2>9, <2>10, <2>11, <2>12
<1>8. CASE Showing!UpdateBare
  <2>1. rebuild["direct"].at = "bare" /\ holder = "none" /\ items'.providers = "none"
    BY <1>8, MenuItems DEF Showing!UpdateBare, Showing!At
  <2>2. Len(mainThread) \in Nat
    BY DEF QueueTypes
  <2>3. /\ rebuild'["direct"].at = ("lock") /\ rebuild'["direct"].built = rebuild["direct"].built
        /\ \A c \in Callers \ {"direct"} : rebuild'[c] = rebuild[c]
    BY <1>8 DEF Showing!UpdateBare, Showing!At, RebuildTypes, Callers
  <2>4. UNCHANGED <<selectedNow, holder, syncRunning, syncPending, asks, tells, hover, testing, mainThread, unasked, slipped>>
    BY <1>8 DEF Showing!UpdateBare, Showing!At, Showing!sync, Showing!latency
  <2>5. MenuTypes'
    BY <1>8, <2>1, <2>2, <2>3, <2>4, MenuItems
       DEF Showing!UpdateBare, Showing!At, MenuTypes, RebuildTypes, MenuHeld, Callers
  <2>6. MenuFlags'
    BY <1>8, <2>1, <2>2, <2>3, <2>4 DEF Showing!UpdateBare, Showing!At, MenuFlags
  <2>7. RebuildTypes'
    BY <1>8, <2>1, <2>2, <2>3, <2>4, MenuItems
       DEF Showing!UpdateBare, Showing!At, RebuildTypes, MenuTypes, MenuFlags, Showing!Steps
  <2>8. QueueTypes'
    BY <1>8, <2>1, <2>2, <2>3, <2>4, MenuItems
       DEF Showing!UpdateBare, Showing!At, QueueTypes
  <2>9. MenuHeld'
    BY <2>1, <2>2, <2>3, <2>4, MenuItems DEF MenuHeld, Callers, MenuTypes
  <2>10. MenuQueue'
    BY <2>1, <2>2, <2>3, <2>4, MenuItems DEF MenuQueue, MenuHeld, Callers
  <2>11. LabelsComing'
    BY <2>1, <2>2, <2>3, <2>4, MenuItems DEF LabelsComing
  <2>12. SelectionComing'
    BY <2>1, <2>2, <2>3, <2>4, MenuItems
       DEF SelectionComing, ReadComing, Callers, MenuHeld, MenuTypes
  <2>. QED
    BY <2>5, <2>6, <2>7, <2>8, <2>9, <2>10, <2>11, <2>12
<1>9. ASSUME NEW bare \in BOOLEAN, Showing!Update(bare) PROVE MenuInv'
  <2>1. rebuild["direct"].at = "off" /\ rebuild'["direct"].at \in {"bare", "lock"} /\ rebuild'["loop"] = rebuild["loop"]
    BY <1>9 DEF Showing!Update, Showing!Change, Showing!At, RebuildTypes, Callers
  <2>2. UNCHANGED <<selectedNow, items, holder, syncRunning, syncPending, asks, tells, hover, testing, mainThread, unasked, slipped>>
    BY <1>9 DEF Showing!Update, Showing!Change, Showing!At, Showing!sync, Showing!latency
  <2>3. MenuTypes'
    BY <1>9, <2>1, <2>2, MenuItems
       DEF Showing!Update, Showing!Change, Showing!At, MenuTypes, RebuildTypes, MenuHeld,
          Callers
  <2>4. MenuFlags'
    BY <1>9, <2>1, <2>2 DEF Showing!Update, Showing!Change, Showing!At, MenuFlags
  <2>5. RebuildTypes'
    BY <1>9, <2>1, <2>2, MenuItems
       DEF Showing!Update, Showing!Change, Showing!At, RebuildTypes, MenuTypes, MenuFlags,
          Showing!Steps
  <2>6. QueueTypes'
    BY <1>9, <2>1, <2>2, MenuItems
       DEF Showing!Update, Showing!Change, Showing!At, QueueTypes
  <2>7. MenuHeld'
    BY <2>1, <2>2, MenuItems DEF MenuHeld, Callers
  <2>8. MenuQueue'
    BY <2>1, <2>2, MenuItems DEF MenuQueue, MenuHeld, Callers
  <2>9. LabelsComing'
    BY <2>1, <2>2, MenuItems DEF LabelsComing
  <2>10. SelectionComing'
    BY <2>1, <2>2, MenuItems DEF SelectionComing, ReadComing, Callers, MenuHeld, MenuTypes
  <2>. QED
    BY <2>3, <2>4, <2>5, <2>6, <2>7, <2>8, <2>9, <2>10
<1>10. ASSUME NEW r \in Callers, Showing!Lock(r) PROVE MenuInv'
  <2>1. rebuild[r].at = "lock" /\ holder = "none" /\ holder' = r
    BY <1>10 DEF Showing!Lock, Showing!At
  <2>2. /\ rebuild'[r].at = ("make") /\ rebuild'[r].built = rebuild[r].built
        /\ \A c \in Callers \ {r} : rebuild'[c] = rebuild[c]
    BY <1>10 DEF Showing!Lock, Showing!At, RebuildTypes, Callers
  <2>3. UNCHANGED <<selectedNow, items, syncRunning, syncPending, asks, tells, hover, testing, mainThread, unasked, slipped>>
    BY <1>10 DEF Showing!Lock, Showing!At, Showing!sync, Showing!latency
  <2>4. MenuTypes'
    BY <1>10, <2>1, <2>2, <2>3, MenuItems
       DEF Showing!Lock, Showing!At, MenuTypes, RebuildTypes, MenuHeld, Callers
  <2>5. MenuFlags'
    BY <1>10, <2>1, <2>2, <2>3 DEF Showing!Lock, Showing!At, MenuFlags
  <2>6. RebuildTypes'
    BY <1>10, <2>1, <2>2, <2>3, MenuItems
       DEF Showing!Lock, Showing!At, RebuildTypes, MenuTypes, MenuFlags, Showing!Steps
  <2>7. QueueTypes'
    BY <1>10, <2>1, <2>2, <2>3, MenuItems DEF Showing!Lock, Showing!At, QueueTypes
  <2>8. MenuHeld'
    BY <2>1, <2>2, <2>3, MenuItems DEF MenuHeld, Callers
  <2>9. MenuQueue'
    BY <2>1, <2>2, <2>3, MenuItems DEF MenuQueue, MenuHeld, Callers
  <2>10. LabelsComing'
    BY <2>1, <2>2, <2>3, MenuItems DEF LabelsComing
  <2>11. SelectionComing'
    BY <2>1, <2>2, <2>3, MenuItems
       DEF SelectionComing, ReadComing, Callers, MenuHeld, MenuTypes
  <2>. QED
    BY <2>4, <2>5, <2>6, <2>7, <2>8, <2>9, <2>10, <2>11
<1>11. ASSUME NEW r \in Callers, Showing!Make(r) PROVE MenuInv'
  <2>1. rebuild[r].at = "make"
    BY <1>11 DEF Showing!Make
  <2>2. \/ /\ rebuild'[r].at = "swap" /\ rebuild'[r].built.shown = selectedNow /\ unasked' = FALSE
        \/ /\ rebuild'[r].at = "swap" /\ rebuild'[r].built.providers = "none" /\ unasked' = unasked
    BY <1>11, MenuItems DEF Showing!Make, RebuildTypes
  <2>3. \A c \in Callers \ {r} : rebuild'[c] = rebuild[c]
    BY <1>11 DEF Showing!Make, RebuildTypes
  <2>4. UNCHANGED <<selectedNow, items, holder, syncRunning, syncPending, asks, tells, hover, testing, mainThread, slipped>>
    BY <1>11 DEF Showing!Make, Showing!sync, Showing!latency
  <2>5. MenuTypes'
    BY <1>11, <2>1, <2>2, <2>3, <2>4, MenuItems
       DEF Showing!Make, MenuTypes, RebuildTypes, MenuHeld, Callers
  <2>6. MenuFlags'
    BY <1>11, <2>1, <2>2, <2>3, <2>4 DEF Showing!Make, MenuFlags
  <2>7. RebuildTypes'
    BY <1>11, <2>1, <2>2, <2>3, <2>4, MenuItems
       DEF Showing!Make, RebuildTypes, MenuTypes, MenuFlags, Showing!Steps
  <2>8. QueueTypes'
    BY <1>11, <2>1, <2>2, <2>3, <2>4, MenuItems DEF Showing!Make, QueueTypes
  <2>9. MenuHeld'
    BY <2>1, <2>2, <2>3, <2>4, MenuItems DEF MenuHeld, Callers
  <2>10. MenuQueue'
    BY <2>1, <2>2, <2>3, <2>4, MenuItems DEF MenuQueue, MenuHeld, Callers
  <2>11. LabelsComing'
    BY <2>1, <2>2, <2>3, <2>4, MenuItems DEF LabelsComing
  <2>12. SelectionComing'
    <3>1. \A c \in Callers \ {r} : rebuild[c].at # "swap"
      BY <2>1 DEF MenuHeld
    <3>2. \A i \in 1..Len(mainThread) : mainThread[i].call # "apply"
      BY <2>1 DEF MenuHeld, MenuQueue, Callers
    <3>. QED
      BY <2>1, <2>2, <2>3, <2>4, <3>1, <3>2 DEF SelectionComing
  <2>. QED
    BY <2>5, <2>6, <2>7, <2>8, <2>9, <2>10, <2>11, <2>12
<1>12. ASSUME NEW r \in Callers, Showing!Swap(r) PROVE MenuInv'
  <2>1. rebuild[r].at = "swap" /\ items' = rebuild[r].built /\ holder' = "none" /\ rebuild[r].built \in Showing!Items
    BY <1>12 DEF Showing!Swap, Showing!Done, Showing!Room, Showing!LabelCall, RebuildTypes
  <2>2. /\ rebuild'[r].at = IF r = "loop" THEN "ask" ELSE "off"
        /\ \A c \in Callers \ {r} : rebuild'[c] = rebuild[c]
    BY <1>12 DEF Showing!Swap, Showing!Done, Showing!Room, Showing!LabelCall, RebuildTypes
  <2>3. \/ items'.providers = "none" /\ mainThread' = mainThread
        \/ /\ Len(mainThread') = Len(mainThread) + 1 /\ mainThread'[Len(mainThread) + 1].call = "label"
           /\ \A i \in 1..Len(mainThread) : mainThread'[i] = mainThread[i]
    BY <1>12, MenuItems, <2>1
       DEF Showing!Swap, Showing!Done, Showing!Room, Showing!LabelCall, QueueTypes
  <2>4. Len(mainThread) \in Nat
    BY DEF QueueTypes
  <2>5. UNCHANGED <<selectedNow, syncRunning, syncPending, asks, tells, hover, testing, unasked, slipped>>
    BY <1>12
       DEF Showing!Swap, Showing!Done, Showing!Room, Showing!LabelCall, Showing!sync,
          Showing!latency
  <2>6. MenuTypes'
    BY <1>12, <2>1, <2>2, <2>3, <2>4, <2>5, MenuItems
       DEF Showing!Swap, Showing!Done, Showing!Room, Showing!LabelCall, MenuTypes,
          RebuildTypes, MenuHeld, Callers
  <2>7. MenuFlags'
    BY <1>12, <2>1, <2>2, <2>3, <2>4, <2>5
       DEF Showing!Swap, Showing!Done, Showing!Room, Showing!LabelCall, MenuFlags
  <2>8. RebuildTypes'
    BY <1>12, <2>1, <2>2, <2>3, <2>4, <2>5, MenuItems
       DEF Showing!Swap, Showing!Done, Showing!Room, Showing!LabelCall, RebuildTypes,
          MenuTypes, MenuFlags, Showing!Steps
  <2>9. QueueTypes'
    <3>. DEFINE C == [call : {"label", "apply"}, view : Showing!Items]
    <3>1. Showing!LabelCall \in C
      BY MenuItems DEF Showing!LabelCall
    <3>. HIDE DEF C
    <3>2. mainThread \in Seq(C)
      BY DEF QueueTypes, C
    <3>3. mainThread' = mainThread \/ mainThread' = Append(mainThread, Showing!LabelCall)
      BY <1>12 DEF Showing!Swap
    <3>4. mainThread' \in Seq(C)
      BY <3>1, <3>2, <3>3
    <3>. QED
      BY <3>4 DEF QueueTypes, C
  <2>10. MenuHeld'
    <3>1. hover = "off" /\ holder = r
      BY <2>1 DEF MenuHeld, MenuTypes, Callers
    <3>. QED
      BY <2>1, <2>2, <2>3, <2>4, <2>5, <3>1 DEF MenuHeld, Callers
  <2>11. MenuQueue'
    BY <2>1, <2>2, <2>3, <2>4, <2>5, MenuItems DEF MenuQueue, MenuHeld, Callers
  <2>12. LabelsComing'
    <3>1. CASE items'.providers = "none"
      BY <3>1 DEF LabelsComing
    <3>2. CASE Len(mainThread') = Len(mainThread) + 1 /\ mainThread'[Len(mainThread) + 1].call = "label"
      <4>1. Len(mainThread) + 1 \in 1..Len(mainThread')
        BY <2>4, <3>2
      <4>. QED
        BY <3>2, <4>1 DEF LabelsComing
    <3>. QED
      BY ONLY <2>3, <3>1, <3>2
  <2>13. SelectionComing'
    <3>1. hover = "off" /\ holder = r
      BY <2>1 DEF MenuHeld, MenuTypes, Callers
    <3>2. \A c \in Callers : rebuild'[c].at # "swap"
      BY <2>1, <2>2, <3>1 DEF MenuHeld
    <3>3. \A i \in 1..Len(mainThread') : mainThread'[i].call # "apply"
      <4>1. \A i \in 1..Len(mainThread) : mainThread[i].call # "apply"
        BY <3>1 DEF MenuQueue
      <4>. QED
        BY ONLY <2>3, <2>4, <4>1
    <3>4. ReadComing => ReadComing'
      BY <2>1, <2>2, <2>5 DEF ReadComing, Callers
    <3>5. SUFFICES ASSUME ~unasked', ~slipped', ~ReadComing'
                   PROVE  items'.providers = "none" \/ items'.shown = selectedNow'
      BY <3>2, <3>3 DEF SelectionComing
    <3>6. rebuild[r].built.providers = "none" \/ rebuild[r].built.shown = selectedNow
      BY <2>1, <2>5, <3>4, <3>5 DEF SelectionComing
    <3>. QED
      BY <2>1, <2>5, <3>6
  <2>. QED
    BY <2>6, <2>7, <2>8, <2>9, <2>10, <2>11, <2>12, <2>13
<1>13. CASE Showing!Hover
  <2>1. hover = "off" /\ holder = "none" /\ items.providers \in Showing!Provided /\ holder' = "hover" /\ hover' = "reads"
    BY <1>13, MenuItems DEF Showing!Hover, Showing!Change, MenuTypes
  <2>2. UNCHANGED <<selectedNow, items, rebuild, syncRunning, syncPending, asks, tells, testing, mainThread, unasked, slipped>>
    BY <1>13 DEF Showing!Hover, Showing!Change, Showing!sync, Showing!latency
  <2>3. MenuTypes'
    BY <1>13, <2>1, <2>2, MenuItems
       DEF Showing!Hover, Showing!Change, MenuTypes, RebuildTypes, MenuHeld, Callers
  <2>4. MenuFlags'
    BY <1>13, <2>1, <2>2 DEF Showing!Hover, Showing!Change, MenuFlags
  <2>5. RebuildTypes'
    BY <1>13, <2>1, <2>2, MenuItems
       DEF Showing!Hover, Showing!Change, RebuildTypes, MenuTypes, MenuFlags, Showing!Steps
  <2>6. QueueTypes'
    BY <1>13, <2>1, <2>2, MenuItems DEF Showing!Hover, Showing!Change, QueueTypes
  <2>7. MenuHeld'
    BY <2>1, <2>2, MenuItems DEF MenuHeld, Callers
  <2>8. MenuQueue'
    BY <2>1, <2>2, MenuItems DEF MenuQueue, MenuHeld, Callers
  <2>9. LabelsComing'
    BY <2>1, <2>2, MenuItems DEF LabelsComing
  <2>10. SelectionComing'
    BY <2>1, <2>2, MenuItems DEF SelectionComing, ReadComing, Callers, MenuHeld, MenuTypes
  <2>. QED
    BY <2>3, <2>4, <2>5, <2>6, <2>7, <2>8, <2>9, <2>10
<1>14. CASE Showing!HoverFails
  <2>1. hover = "reads" /\ hover' = "off" /\ holder' = "none"
    BY <1>14 DEF Showing!HoverFails
  <2>2. UNCHANGED <<selectedNow, items, rebuild, syncRunning, syncPending, asks, tells, testing, mainThread, unasked, slipped>>
    BY <1>14 DEF Showing!HoverFails, Showing!sync, Showing!latency
  <2>3. MenuTypes'
    BY <1>14, <2>1, <2>2, MenuItems
       DEF Showing!HoverFails, MenuTypes, RebuildTypes, MenuHeld, Callers
  <2>4. MenuFlags'
    BY <1>14, <2>1, <2>2 DEF Showing!HoverFails, MenuFlags
  <2>5. RebuildTypes'
    BY <1>14, <2>1, <2>2, MenuItems
       DEF Showing!HoverFails, RebuildTypes, MenuTypes, MenuFlags, Showing!Steps
  <2>6. QueueTypes'
    BY <1>14, <2>1, <2>2, MenuItems DEF Showing!HoverFails, QueueTypes
  <2>7. MenuHeld'
    BY <2>1, <2>2, MenuItems DEF MenuHeld, Callers
  <2>8. MenuQueue'
    BY <2>1, <2>2, MenuItems DEF MenuQueue, MenuHeld, Callers
  <2>9. LabelsComing'
    BY <2>1, <2>2, MenuItems DEF LabelsComing
  <2>10. SelectionComing'
    BY <2>1, <2>2, MenuItems DEF SelectionComing, ReadComing, Callers, MenuHeld, MenuTypes
  <2>. QED
    BY <2>3, <2>4, <2>5, <2>6, <2>7, <2>8, <2>9, <2>10
<1>15. ASSUME NEW p \in Showing!Provided, Showing!HoverReads(p) PROVE MenuInv'
  <2>1. hover = "reads" /\ unasked' = FALSE
    BY <1>15 DEF Showing!HoverReads, Showing!Posts, Showing!Room, Showing!Snapshot
  <2>2. Len(mainThread) \in Nat
    BY DEF QueueTypes
  <2>3. \/ /\ hover' = "posted" /\ holder' = holder /\ asks' = asks /\ Len(mainThread') = Len(mainThread) + 1
           /\ mainThread'[Len(mainThread) + 1].call = "apply"
           /\ mainThread'[Len(mainThread) + 1].view.providers = items.providers
           /\ mainThread'[Len(mainThread) + 1].view.shown = selectedNow
           /\ \A i \in 1..Len(mainThread) : mainThread'[i] = mainThread[i]
        \/ hover' = "off" /\ holder' = "none" /\ asks' = asks + 1 /\ mainThread' = mainThread
    BY <1>15
       DEF Showing!HoverReads, Showing!Posts, Showing!Room, Showing!Snapshot, QueueTypes
  <2>4. UNCHANGED <<selectedNow, items, rebuild, syncRunning, syncPending, tells, testing, slipped>>
    BY <1>15
       DEF Showing!HoverReads, Showing!Posts, Showing!Room, Showing!Snapshot, Showing!sync,
          Showing!latency
  <2>5. MenuTypes'
    BY <1>15, <2>1, <2>2, <2>3, <2>4, MenuItems
       DEF Showing!HoverReads, Showing!Posts, Showing!Room, Showing!Snapshot, MenuTypes,
          RebuildTypes, MenuHeld, Callers
  <2>6. MenuFlags'
    BY <1>15, <2>1, <2>2, <2>3, <2>4
       DEF Showing!HoverReads, Showing!Posts, Showing!Room, Showing!Snapshot, MenuFlags
  <2>7. RebuildTypes'
    BY <1>15, <2>1, <2>2, <2>3, <2>4, MenuItems
       DEF Showing!HoverReads, Showing!Posts, Showing!Room, Showing!Snapshot, RebuildTypes,
          MenuTypes, MenuFlags, Showing!Steps
  <2>8. QueueTypes'
    <3>. DEFINE C == [call : {"label", "apply"}, view : Showing!Items]
    <3>1. [call |-> "apply", view |-> Showing!Snapshot(p)] \in C
      BY MenuItems DEF MenuTypes, Showing!Snapshot
    <3>. HIDE DEF C
    <3>2. mainThread \in Seq(C)
      BY DEF QueueTypes, C
    <3>3. mainThread' = mainThread \/ mainThread' = Append(mainThread, [call |-> "apply", view |-> Showing!Snapshot(p)])
      BY <1>15 DEF Showing!HoverReads, Showing!Posts
    <3>4. mainThread' \in Seq(C)
      BY <3>1, <3>2, <3>3
    <3>. QED
      BY <3>4 DEF QueueTypes, C
  <2>9. MenuHeld'
    BY <2>1, <2>2, <2>3, <2>4, MenuItems DEF MenuHeld, Callers
  <2>10. MenuQueue'
    BY <2>1, <2>2, <2>3, <2>4, MenuItems DEF MenuQueue, MenuHeld, Callers
  <2>11. LabelsComing'
    BY <2>1, <2>2, <2>3, <2>4, MenuItems DEF LabelsComing
  <2>12. SelectionComing'
    <3>1. \A c \in Callers : rebuild[c].at # "swap"
      BY <2>1 DEF MenuHeld, Callers
    <3>2. \A i \in 1..Len(mainThread) : mainThread[i].call # "apply"
      BY <2>1 DEF MenuQueue
    <3>3. CASE asks' = asks + 1
      BY <3>3 DEF SelectionComing, ReadComing, MenuTypes
    <3>4. CASE hover' = "posted"
      <4>1. \A i \in 1..Len(mainThread') : mainThread'[i].call = "apply" => mainThread'[i].view.shown = selectedNow
        BY <2>1, <2>2, <2>3, <2>4, <3>2, <3>4
      <4>. QED
        BY <2>1, <2>2, <2>3, <2>4, <3>1, <3>4, <4>1 DEF SelectionComing
    <3>. QED
      BY <2>3, <3>3, <3>4
  <2>. QED
    BY <2>5, <2>6, <2>7, <2>8, <2>9, <2>10, <2>11, <2>12
<1>16. CASE Showing!MainLabel
  <2>1. /\ Len(mainThread) \in Nat \ {0} /\ mainThread[1].call = "label" /\ Len(mainThread') = Len(mainThread) - 1
        /\ \A i \in 1..(Len(mainThread) - 1) : mainThread'[i] = mainThread[i + 1]
    BY <1>16 DEF Showing!MainLabel, QueueTypes
  <2>2. items'.providers = items.providers /\ (items.providers # "none" => items'.shown = items.shown /\ items'.testing = testing)
    BY <1>16 DEF Showing!MainLabel, MenuTypes, MenuFlags, Showing!Items, Showing!NoItems
  <2>3. UNCHANGED <<selectedNow, holder, rebuild, syncRunning, syncPending, asks, tells, hover, testing, unasked, slipped>>
    BY <1>16 DEF Showing!MainLabel, Showing!sync, Showing!latency
  <2>4. items' \in Showing!Items
    BY <1>16, MenuItems DEF Showing!MainLabel, MenuTypes, MenuFlags
  <2>5. MenuTypes'
    BY <1>16, <2>1, <2>2, <2>3, <2>4, MenuItems
       DEF Showing!MainLabel, MenuTypes, RebuildTypes, MenuHeld, Callers
  <2>6. MenuFlags'
    BY <1>16, <2>1, <2>2, <2>3, <2>4 DEF Showing!MainLabel, MenuFlags
  <2>7. RebuildTypes'
    BY <1>16, <2>1, <2>2, <2>3, <2>4, MenuItems
       DEF Showing!MainLabel, RebuildTypes, MenuTypes, MenuFlags, Showing!Steps
  <2>8. QueueTypes'
    <3>. DEFINE C == [call : {"label", "apply"}, view : Showing!Items]
    <3>. HIDE DEF C
    <3>1. mainThread \in Seq(C)
      BY DEF QueueTypes, C
    <3>2. mainThread # <<>> /\ mainThread' = Tail(mainThread)
      BY <1>16 DEF Showing!MainLabel
    <3>3. mainThread' \in Seq(C)
      BY <3>1, <3>2
    <3>. QED
      BY <3>3 DEF QueueTypes, C
  <2>9. MenuHeld'
    BY <2>1, <2>2, <2>3, <2>4, MenuItems DEF MenuHeld, Callers
  <2>10. MenuQueue'
    <3>1. hover = "posted" => \E i \in 1..Len(mainThread') : mainThread'[i].call = "apply"
      <4>. SUFFICES ASSUME hover = "posted"
           PROVE \E i \in 1..Len(mainThread') : mainThread'[i].call = "apply"
        OBVIOUS
      <4>1. PICK i \in 1..Len(mainThread) : mainThread[i].call = "apply"
        BY DEF MenuQueue
      <4>2. i # 1
        BY <2>1, <4>1
      <4>3. i - 1 \in 1..Len(mainThread') /\ mainThread'[i - 1].call = "apply"
        BY <2>1, <4>1, <4>2
      <4>. QED
        BY <4>3
    <3>2. \A i \in 1..Len(mainThread') : i + 1 \in 1..Len(mainThread) /\ mainThread'[i] = mainThread[i + 1]
      BY <2>1
    <3>3. hover = "posted" <=> \E i \in 1..Len(mainThread') : mainThread'[i].call = "apply"
      BY <3>1, <3>2 DEF MenuQueue
    <3>4. \A i, j \in 1..Len(mainThread') : mainThread'[i].call = "apply" /\ mainThread'[j].call = "apply" => i = j
      <4>. SUFFICES ASSUME NEW i \in 1..Len(mainThread'), NEW j \in 1..Len(mainThread'),
                           mainThread'[i].call = "apply", mainThread'[j].call = "apply"
           PROVE i = j
        OBVIOUS
      <4>1. i + 1 = j + 1
        BY <3>2 DEF MenuQueue
      <4>. QED
        BY <4>1
    <3>5. \A i \in 1..Len(mainThread') : mainThread'[i].call = "apply" =>
            mainThread'[i].view.providers = items'.providers
      BY <2>2, <3>2 DEF MenuQueue
    <3>. QED
      BY <2>1, <2>2, <2>3, <2>4, <3>3, <3>4, <3>5 DEF MenuQueue
  <2>11. LabelsComing'
    BY <2>1, <2>2, <2>3, <2>4, MenuItems DEF LabelsComing
  <2>12. SelectionComing'
    BY <2>1, <2>2, <2>3, <2>4, MenuItems
       DEF SelectionComing, ReadComing, Callers, MenuHeld, MenuTypes
  <2>. QED
    BY <2>5, <2>6, <2>7, <2>8, <2>9, <2>10, <2>11, <2>12
<1>17. CASE Showing!MainApplies
  <2>1. /\ Len(mainThread) \in Nat \ {0} /\ mainThread[1].call = "apply" /\ Len(mainThread') = Len(mainThread) - 1
        /\ \A i \in 1..(Len(mainThread) - 1) : mainThread'[i] = mainThread[i + 1]
    BY <1>17 DEF Showing!MainApplies, Showing!Matches, QueueTypes
  <2>2. hover = "posted" /\ holder = "hover" /\ items.providers # "none" /\ Showing!Matches(mainThread[1].view)
    BY <2>1, MenuItems DEF MenuQueue, MenuHeld, Showing!Matches
  <2>3. mainThread[1].view \in Showing!Items /\ mainThread[1].view.providers # "none"
    <3>1. 1 \in 1..Len(mainThread) /\ mainThread[1] \in [call : {"label", "apply"}, view : Showing!Items]
      <4>. DEFINE C == [call : {"label", "apply"}, view : Showing!Items]
      <4>. HIDE DEF C
      <4>1. mainThread \in Seq(C)
        BY DEF QueueTypes, C
      <4>2. 1 \in 1..Len(mainThread)
        BY <2>1
      <4>3. mainThread[1] \in C
        BY <4>1, <4>2
      <4>. QED
        BY <4>2, <4>3 DEF C
    <3>. QED
      BY <2>1, <2>2, <3>1 DEF MenuQueue
  <2>4. items' = [items EXCEPT !.shown = mainThread[1].view.shown]
    BY <1>17, <2>1, <2>2 DEF Showing!MainApplies, QueueTypes
  <2>5. items' \in Showing!Items /\ items'.providers = items.providers /\ items'.testing = items.testing
        /\ items'.shown = mainThread[1].view.shown
    BY <2>2, <2>3, <2>4, MenuItems DEF MenuTypes, Showing!Items, Showing!NoItems
  <2>6. hover' = "off" /\ holder' = "none"
    BY <1>17, <2>2 DEF Showing!MainApplies
  <2>7. UNCHANGED <<selectedNow, rebuild, syncRunning, syncPending, asks, tells, testing, unasked, slipped>>
    BY <1>17 DEF Showing!MainApplies, Showing!Matches, Showing!sync, Showing!latency
  <2>8. MenuTypes'
    BY <1>17, <2>1, <2>2, <2>3, <2>4, <2>5, <2>6, <2>7, MenuItems
       DEF Showing!MainApplies, Showing!Matches, MenuTypes, RebuildTypes, MenuHeld, Callers
  <2>9. MenuFlags'
    BY <1>17, <2>1, <2>2, <2>3, <2>4, <2>5, <2>6, <2>7
       DEF Showing!MainApplies, Showing!Matches, MenuFlags
  <2>10. RebuildTypes'
    BY <1>17, <2>1, <2>2, <2>3, <2>4, <2>5, <2>6, <2>7, MenuItems
       DEF Showing!MainApplies, Showing!Matches, RebuildTypes, MenuTypes, MenuFlags,
          Showing!Steps
  <2>11. QueueTypes'
    BY <1>17, <2>1, <2>2, <2>3, <2>4, <2>5, <2>6, <2>7, MenuItems
       DEF Showing!MainApplies, Showing!Matches, QueueTypes
  <2>12. MenuHeld'
    BY <2>1, <2>2, <2>3, <2>4, <2>5, <2>6, <2>7, MenuItems DEF MenuHeld, Callers
  <2>13. MenuQueue'
    <3>1. ASSUME NEW i \in 1..Len(mainThread'), mainThread'[i].call = "apply"
         PROVE FALSE
      <4>1. i + 1 \in 1..Len(mainThread) /\ 1 \in 1..Len(mainThread) /\ i + 1 # 1
        BY <2>1, <3>1
      <4>2. mainThread[i + 1].call = "apply"
        BY <2>1, <3>1
      <4>. QED
        BY <2>1, <4>1, <4>2 DEF MenuQueue
    <3>. QED
      BY <2>6, <3>1 DEF MenuQueue
  <2>14. LabelsComing'
    <3>1. ASSUME NEW i \in 1..Len(mainThread), mainThread[i].call = "label"
         PROVE \E k \in 1..Len(mainThread') : mainThread'[k].call = "label"
      <4>1. i # 1
        BY <2>1, <3>1
      <4>2. i - 1 \in 1..Len(mainThread') /\ mainThread'[i - 1].call = "label"
        BY <2>1, <3>1, <4>1
      <4>. QED
        BY <4>2
    <3>. QED
      BY <2>1, <2>2, <2>3, <2>4, <2>5, <2>6, <2>7, <3>1 DEF LabelsComing
  <2>15. SelectionComing'
    BY <2>1, <2>2, <2>3, <2>4, <2>5, <2>6, <2>7, MenuItems
       DEF SelectionComing, ReadComing, Callers, MenuHeld, MenuTypes
  <2>. QED
    BY <2>8, <2>9, <2>10, <2>11, <2>12, <2>13, <2>14, <2>15
<1>18. CASE Showing!TestBegins
  <2>1. /\ Len(mainThread') = Len(mainThread) + 1 /\ mainThread'[Len(mainThread) + 1].call = "label"
        /\ Len(mainThread) \in Nat /\ \A i \in 1..Len(mainThread) : mainThread'[i] = mainThread[i]
    BY <1>18
       DEF Showing!TestBegins, Showing!Change, Showing!Room, Showing!LabelCall, QueueTypes
  <2>2. UNCHANGED <<selectedNow, items, holder, rebuild, syncRunning, syncPending, asks, tells, hover, unasked, slipped>>
    BY <1>18
       DEF Showing!TestBegins, Showing!Change, Showing!Room, Showing!LabelCall,
          Showing!sync, Showing!latency
  <2>3. MenuTypes'
    BY <1>18, <2>1, <2>2, MenuItems
       DEF Showing!TestBegins, Showing!Change, Showing!Room, Showing!LabelCall, MenuTypes,
          RebuildTypes, MenuHeld, Callers
  <2>4. MenuFlags'
    BY <1>18, <2>1, <2>2
       DEF Showing!TestBegins, Showing!Change, Showing!Room, Showing!LabelCall, MenuFlags
  <2>5. RebuildTypes'
    BY <1>18, <2>1, <2>2, MenuItems
       DEF Showing!TestBegins, Showing!Change, Showing!Room, Showing!LabelCall,
          RebuildTypes, MenuTypes, MenuFlags, Showing!Steps
  <2>6. QueueTypes'
    BY <1>18, <2>1, <2>2, MenuItems
       DEF Showing!TestBegins, Showing!Change, Showing!Room, Showing!LabelCall, QueueTypes
  <2>7. MenuHeld'
    BY <2>1, <2>2, MenuItems DEF MenuHeld, Callers
  <2>8. MenuQueue'
    BY <2>1, <2>2, MenuItems DEF MenuQueue, MenuHeld, Callers
  <2>9. LabelsComing'
    BY <2>1, <2>2, MenuItems DEF LabelsComing
  <2>10. SelectionComing'
    BY <2>1, <2>2, MenuItems DEF SelectionComing, ReadComing, Callers, MenuHeld, MenuTypes
  <2>. QED
    BY <2>3, <2>4, <2>5, <2>6, <2>7, <2>8, <2>9, <2>10
<1>19. CASE Showing!TestSyncs
  <2>1. asks' = asks + 1
    BY <1>19 DEF Showing!TestSyncs
  <2>2. UNCHANGED <<selectedNow, items, holder, rebuild, syncRunning, syncPending, tells, hover, testing, mainThread, unasked, slipped>>
    BY <1>19 DEF Showing!TestSyncs, Showing!sync, Showing!latency
  <2>3. MenuTypes'
    BY <1>19, <2>1, <2>2, MenuItems
       DEF Showing!TestSyncs, MenuTypes, RebuildTypes, MenuHeld, Callers
  <2>4. MenuFlags'
    BY <1>19, <2>1, <2>2 DEF Showing!TestSyncs, MenuFlags
  <2>5. RebuildTypes'
    BY <1>19, <2>1, <2>2, MenuItems
       DEF Showing!TestSyncs, RebuildTypes, MenuTypes, MenuFlags, Showing!Steps
  <2>6. QueueTypes'
    BY <1>19, <2>1, <2>2, MenuItems DEF Showing!TestSyncs, QueueTypes
  <2>7. MenuHeld'
    BY <2>1, <2>2, MenuItems DEF MenuHeld, Callers
  <2>8. MenuQueue'
    BY <2>1, <2>2, MenuItems DEF MenuQueue, MenuHeld, Callers
  <2>9. LabelsComing'
    BY <2>1, <2>2, MenuItems DEF LabelsComing
  <2>10. SelectionComing'
    BY <2>1, <2>2, MenuItems DEF SelectionComing, ReadComing, Callers, MenuHeld, MenuTypes
  <2>. QED
    BY <2>3, <2>4, <2>5, <2>6, <2>7, <2>8, <2>9, <2>10
<1>20. CASE Showing!TestEnds
  <2>1. /\ Len(mainThread') = Len(mainThread) + 1 /\ mainThread'[Len(mainThread) + 1].call = "label"
        /\ Len(mainThread) \in Nat /\ \A i \in 1..Len(mainThread) : mainThread'[i] = mainThread[i]
    BY <1>20 DEF Showing!TestEnds, Showing!Room, Showing!LabelCall, QueueTypes
  <2>2. UNCHANGED <<selectedNow, items, holder, rebuild, syncRunning, syncPending, asks, tells, hover, unasked, slipped>>
    BY <1>20
       DEF Showing!TestEnds, Showing!Room, Showing!LabelCall, Showing!sync, Showing!latency
  <2>3. MenuTypes'
    BY <1>20, <2>1, <2>2, MenuItems
       DEF Showing!TestEnds, Showing!Room, Showing!LabelCall, MenuTypes, RebuildTypes,
          MenuHeld, Callers
  <2>4. MenuFlags'
    BY <1>20, <2>1, <2>2 DEF Showing!TestEnds, Showing!Room, Showing!LabelCall, MenuFlags
  <2>5. RebuildTypes'
    BY <1>20, <2>1, <2>2, MenuItems
       DEF Showing!TestEnds, Showing!Room, Showing!LabelCall, RebuildTypes, MenuTypes,
          MenuFlags, Showing!Steps
  <2>6. QueueTypes'
    BY <1>20, <2>1, <2>2, MenuItems
       DEF Showing!TestEnds, Showing!Room, Showing!LabelCall, QueueTypes
  <2>7. MenuHeld'
    BY <2>1, <2>2, MenuItems DEF MenuHeld, Callers
  <2>8. MenuQueue'
    BY <2>1, <2>2, MenuItems DEF MenuQueue, MenuHeld, Callers
  <2>9. LabelsComing'
    BY <2>1, <2>2, MenuItems DEF LabelsComing
  <2>10. SelectionComing'
    BY <2>1, <2>2, MenuItems DEF SelectionComing, ReadComing, Callers, MenuHeld, MenuTypes
  <2>. QED
    BY <2>3, <2>4, <2>5, <2>6, <2>7, <2>8, <2>9, <2>10
<1>21. CASE UNCHANGED Showing!menuVars
  <2>1. MenuTypes'
    BY <1>21, MenuItems DEF MenuTypes, RebuildTypes, MenuHeld, Callers
  <2>2. MenuFlags'
    BY <1>21 DEF MenuFlags
  <2>3. RebuildTypes'
    BY <1>21, MenuItems DEF RebuildTypes, MenuTypes, MenuFlags, Showing!Steps
  <2>4. QueueTypes'
    BY <1>21, MenuItems DEF QueueTypes
  <2>5. MenuHeld'
    BY <1>21, MenuItems DEF MenuHeld, Callers
  <2>6. MenuQueue'
    BY <1>21, MenuItems DEF MenuQueue, MenuHeld, Callers
  <2>7. LabelsComing'
    BY <1>21, MenuItems DEF LabelsComing
  <2>8. SelectionComing'
    BY <1>21, MenuItems DEF SelectionComing, ReadComing, Callers, MenuHeld, MenuTypes
  <2>. QED
    BY <2>1, <2>2, <2>3, <2>4, <2>5, <2>6, <2>7, <2>8
<1>. QED
  BY <1>1, <1>2, <1>3, <1>4, <1>5, <1>6, <1>7, <1>8, <1>9, <1>10, <1>11, <1>12, <1>13,
     <1>14, <1>15, <1>16, <1>17, <1>18, <1>19, <1>20, <1>21, <1>0
     DEF Showing!NextMenu

(* What the invariant shows. *)
LEMMA ShowingShows ==
  MenuInv => Showing!TypeOK /\ Showing!MenuShowsTheSelection /\ Showing!LabelsTellTheTest
<1>. SUFFICES ASSUME MenuInv
     PROVE Showing!TypeOK /\ Showing!MenuShowsTheSelection /\ Showing!LabelsTellTheTest
  OBVIOUS
<1>. USE MenuItems DEF MenuInv
<1>1. DOMAIN rebuild = Callers
  BY DEF RebuildTypes
<1>2. Showing!TypeOK
  <2>1. \A r \in Callers : rebuild[r].at \in Showing!Steps /\ rebuild[r].built \in Showing!Items
    BY DEF RebuildTypes
  <2>. QED
    BY <1>1, <2>1 DEF MenuTypes, MenuFlags, QueueTypes, Callers, Showing!TypeOK
<1>3. Showing!MenuShowsTheSelection
  BY <1>1 DEF SelectionComing, ReadComing, MenuTypes, QueueTypes, Callers,
     Showing!Settled, Showing!MenuShowsTheSelection
<1>4. Showing!LabelsTellTheTest
  BY DEF LabelsComing, MenuTypes, Showing!LabelsTellTheTest
<1>. QED
  BY <1>2, <1>3, <1>4

-----------------------------------------------------------------------------
(* The speed in the tray.  A stop takes the task out of the slot at once and  *)
(* aborts it later, and a stream is in the slot, with the task that           *)
(* disconnects it or with the stop that took it: SpeedHeld follows both.      *)

SpeedTypes ==
  /\ speedTask \in 0..MaxTasks /\ speedId \in Speeding!Conns /\ opened \subseteq 1..MaxConnections
  /\ connections \in Speeding!Conns /\ tasksUsed \in 0..MaxTasks /\ stopsUsed \in 0..MaxStops
SpeedFlags == {hasTray, exitingApp, severed, speedOverlapped} \subseteq BOOLEAN
TasksTypes ==
  speedTasks \in [1..MaxTasks -> [at : {"none", "connects", "reads", "closes", "rests", "done"}, id : Speeding!Conns]]
StopperTypes ==
  stoppers \in [1..MaxStops ->
    [at : {"none", "aborts", "takes", "closes", "done"}, task : 0..MaxTasks, id : Speeding!Conns]]

SpeedNew ==
  /\ \A t \in 1..MaxTasks : t > tasksUsed => speedTasks[t].at = "none"
  /\ speedTask <= tasksUsed
  /\ \A s \in 1..MaxStops :
       /\ s > stopsUsed => stoppers[s].at = "none"
       /\ stoppers[s].at = "aborts" => stoppers[s].task \in 1..tasksUsed

TasksHeld ==
  \A t \in 1..MaxTasks : Speeding!Lives(t) =>
    \/ speedTask = t
    \/ \E s \in 1..MaxStops : stoppers[s].at = "aborts" /\ stoppers[s].task = t

\* At most one task lives, and a stream in the slot is its own, or one that a
\* stop is about to take.
OneSpeedTask ==
  ~speedOverlapped =>
    /\ \A t, u \in 1..MaxTasks : Speeding!Lives(t) /\ Speeding!Lives(u) => t = u
    /\ \A t \in 1..MaxTasks : speedTasks[t].at \in {"connects", "closes", "rests"} => speedId = 0
    /\ speedId # 0 => \/ \E t \in 1..MaxTasks : speedTasks[t].at = "reads"
                      \/ \E s \in 1..MaxStops : stoppers[s].at \in {"aborts", "takes"}

StreamsAreHeld ==
  ~severed /\ ~speedOverlapped =>
    \A c \in opened :
      \/ c = speedId
      \/ \E t \in 1..MaxTasks : speedTasks[t].at = "closes" /\ speedTasks[t].id = c
      \/ \E s \in 1..MaxStops : stoppers[s].at = "closes" /\ stoppers[s].id = c

SpeedInv ==
  /\ SpeedTypes /\ SpeedFlags /\ TasksTypes /\ StopperTypes
  /\ SpeedNew
  /\ TasksHeld
  /\ OneSpeedTask
  /\ StreamsAreHeld

(* The invariant holds when the application starts. *)
LEMMA SpeedingInit == Speeding!InitSpeed => SpeedInv
<1>. SUFFICES ASSUME Speeding!InitSpeed PROVE SpeedInv
  OBVIOUS
<1>. USE SpeedingAssumption DEF Speeding!InitSpeed, Speeding!Unborn, Speeding!Free
<1>1. SpeedTypes
  BY DEF SpeedTypes, Speeding!Conns
<1>9. SpeedFlags
  BY DEF SpeedFlags
<1>8. TasksTypes /\ StopperTypes
  BY DEF TasksTypes, StopperTypes, Speeding!Conns
<1>2. \A t \in 1..MaxTasks : speedTasks[t].at = "none"
  OBVIOUS
<1>3. \A s \in 1..MaxStops : stoppers[s].at = "none"
  OBVIOUS
<1>4. SpeedNew
  BY <1>3 DEF SpeedNew
<1>5. TasksHeld
  BY <1>2 DEF TasksHeld, Speeding!Lives
<1>6. OneSpeedTask
  BY <1>2 DEF OneSpeedTask, Speeding!Lives
<1>7. StreamsAreHeld
  BY DEF StreamsAreHeld
<1>. QED
  BY <1>1, <1>9, <1>8, <1>4, <1>5, <1>6, <1>7 DEF SpeedInv

(* Every step keeps the invariant. *)
LEMMA SpeedingNext ==
  ASSUME SpeedInv, Speeding!NextSpeed \/ UNCHANGED Speeding!speedVars
  PROVE  SpeedInv'
<1>. USE SpeedingAssumption DEF SpeedInv, Speeding!speedVars, Speeding!slots, Speeding!world, Speeding!told,
          Speeding!counts
<1>0. DOMAIN speedTasks = 1..MaxTasks /\ DOMAIN stoppers = 1..MaxStops
  BY DEF TasksTypes, StopperTypes
<1>1. CASE Speeding!Start
  <2>1. /\ tasksUsed' = tasksUsed + 1 /\ tasksUsed + 1 \in 1..MaxTasks /\ speedTask' = tasksUsed + 1
        /\ speedTasks' = [speedTasks EXCEPT ![tasksUsed + 1].at = "connects"]
        /\ UNCHANGED <<speedId, stoppers, opened, severed, stopsUsed>>
    BY <1>1 DEF Speeding!Start, Speeding!Begun, SpeedTypes
  <2>2. speedTask \in 1..MaxTasks => ~Speeding!Lives(speedTask)
    BY <1>1, <1>0 DEF Speeding!Start, Speeding!Begun, Speeding!Lives
  <2>3. ~speedOverlapped' => ~speedOverlapped /\ \A s \in 1..MaxStops : stoppers[s].at \in {"none", "done"}
    BY <1>1, <1>0 DEF Speeding!Start, Speeding!Begun, Speeding!Stopping
  <2>4. /\ speedTasks'[tasksUsed + 1].at = "connects" /\ speedTasks'[tasksUsed + 1].id = speedTasks[tasksUsed + 1].id
          /\ \A u \in 1..MaxTasks \ {tasksUsed + 1} : speedTasks'[u] = speedTasks[u]
    BY <2>1 DEF TasksTypes
  <2>5. SpeedTypes' /\ SpeedFlags'
    BY <1>1, <2>1, <2>2, <2>3, <2>4
       DEF Speeding!Start, Speeding!Begun, SpeedTypes, SpeedFlags, Speeding!Conns
  <2>6. TasksTypes'
    BY <2>1 DEF TasksTypes
  <2>7. StopperTypes'
    BY <1>1, <2>1, <2>2, <2>3, <2>4
       DEF Speeding!Start, Speeding!Begun, StopperTypes, SpeedTypes, Speeding!Conns
  <2>8. SpeedNew'
    BY <2>1, <2>2, <2>3, <2>4 DEF SpeedNew, SpeedTypes
  <2>9. TasksHeld'
    BY <2>1, <2>2, <2>3, <2>4 DEF TasksHeld, SpeedNew, SpeedTypes, Speeding!Lives
  <2>10. OneSpeedTask'
    <3>1. SUFFICES ASSUME ~speedOverlapped' PROVE OneSpeedTask'
      BY DEF OneSpeedTask
    <3>2. \A t \in 1..MaxTasks : ~Speeding!Lives(t)
      BY <2>2, <2>3, <3>1 DEF TasksHeld
    <3>3. speedId = 0
      BY <2>3, <3>1, <3>2 DEF OneSpeedTask, Speeding!Lives
    <3> QED
      BY <2>1, <2>4, <3>2, <3>3 DEF OneSpeedTask, Speeding!Lives
  <2>11. StreamsAreHeld'
    BY <2>1, <2>2, <2>3, <2>4
       DEF StreamsAreHeld, OneSpeedTask, SpeedNew, SpeedTypes, Speeding!Lives
  <2>. QED
    BY <2>5, <2>6, <2>7, <2>8, <2>9, <2>10, <2>11
<1>2. CASE Speeding!Stop
  <2>1. stopsUsed' = stopsUsed + 1 /\ stopsUsed + 1 \in 1..MaxStops /\ speedTask' = 0
    BY <1>2 DEF Speeding!Stop, SpeedTypes
  <2>2. UNCHANGED <<speedId, speedTasks, opened, severed, speedOverlapped, tasksUsed>>
    BY <1>2 DEF Speeding!Stop
  <2>3. /\ stoppers'[stopsUsed + 1].at = (IF speedTask = 0 THEN "takes" ELSE "aborts") /\ stoppers'[stopsUsed + 1].task = speedTask
          /\ stoppers'[stopsUsed + 1].id = 0
          /\ \A r \in 1..MaxStops \ {stopsUsed + 1} : stoppers'[r] = stoppers[r]
    BY <1>2, <2>1 DEF Speeding!Stop, StopperTypes
  <2>4. SpeedTypes' /\ SpeedFlags'
    BY <1>2, <2>1, <2>2, <2>3 DEF Speeding!Stop, SpeedTypes, SpeedFlags, Speeding!Conns
  <2>5. TasksTypes'
    BY <1>2, <2>1, <2>2, <2>3
       DEF Speeding!Stop, TasksTypes, SpeedTypes, StopperTypes, SpeedNew, Speeding!Conns
  <2>6. StopperTypes'
    BY <1>2, <2>1, <2>2, <2>3 DEF Speeding!Stop, StopperTypes, SpeedTypes, Speeding!Conns
  <2>7. SpeedNew'
    BY <2>1, <2>2, <2>3 DEF SpeedNew, SpeedTypes
  <2>8. TasksHeld'
    BY <2>1, <2>2, <2>3 DEF TasksHeld, SpeedNew, SpeedTypes, Speeding!Lives
  <2>9. OneSpeedTask'
    BY <2>1, <2>2, <2>3
       DEF OneSpeedTask, SpeedNew, SpeedTypes, Speeding!Stopping, TasksHeld, Speeding!Lives
  <2>10. StreamsAreHeld'
    BY <2>1, <2>2, <2>3
       DEF StreamsAreHeld, OneSpeedTask, SpeedNew, SpeedTypes, Speeding!Lives
  <2>. QED
    BY <2>4, <2>5, <2>6, <2>7, <2>8, <2>9, <2>10
<1>3. CASE Speeding!CoreCloses
  <2>1. opened' \subseteq opened
    BY <1>3 DEF Speeding!CoreCloses
  <2>2. UNCHANGED <<speedTask, speedId, speedTasks, stoppers, severed, speedOverlapped, tasksUsed, stopsUsed>>
    BY <1>3 DEF Speeding!CoreCloses
  <2>3. SpeedTypes' /\ SpeedFlags'
    BY <1>3, <2>1, <2>2 DEF Speeding!CoreCloses, SpeedTypes, SpeedFlags, Speeding!Conns
  <2>4. TasksTypes'
    BY <1>3, <2>1, <2>2
       DEF Speeding!CoreCloses, TasksTypes, SpeedTypes, StopperTypes, SpeedNew,
          Speeding!Conns
  <2>5. StopperTypes'
    BY <1>3, <2>1, <2>2 DEF Speeding!CoreCloses, StopperTypes, SpeedTypes, Speeding!Conns
  <2>6. SpeedNew'
    BY <2>1, <2>2 DEF SpeedNew, SpeedTypes
  <2>7. TasksHeld'
    BY <2>1, <2>2 DEF TasksHeld, SpeedNew, SpeedTypes, Speeding!Lives
  <2>8. OneSpeedTask'
    BY <2>1, <2>2
       DEF OneSpeedTask, SpeedNew, SpeedTypes, Speeding!Stopping, TasksHeld, Speeding!Lives
  <2>9. StreamsAreHeld'
    BY <2>1, <2>2 DEF StreamsAreHeld, OneSpeedTask, SpeedNew, SpeedTypes, Speeding!Lives
  <2>. QED
    BY <2>3, <2>4, <2>5, <2>6, <2>7, <2>8, <2>9
<1>4. CASE Speeding!TrayGoes
  <2>1. SpeedTypes' /\ SpeedFlags'
    BY <1>4 DEF Speeding!TrayGoes, SpeedTypes, SpeedFlags, Speeding!Conns
  <2>2. TasksTypes'
    BY <1>4
       DEF Speeding!TrayGoes, TasksTypes, SpeedTypes, StopperTypes, SpeedNew, Speeding!Conns
  <2>3. StopperTypes'
    BY <1>4 DEF Speeding!TrayGoes, StopperTypes, SpeedTypes, Speeding!Conns
  <2>4. SpeedNew'
    BY <1>4 DEF Speeding!TrayGoes, SpeedNew, SpeedTypes
  <2>5. TasksHeld'
    BY <1>4 DEF Speeding!TrayGoes, TasksHeld, SpeedNew, SpeedTypes, Speeding!Lives
  <2>6. OneSpeedTask'
    BY <1>4
       DEF Speeding!TrayGoes, OneSpeedTask, SpeedNew, SpeedTypes, Speeding!Stopping,
          TasksHeld, Speeding!Lives
  <2>7. StreamsAreHeld'
    BY <1>4
       DEF Speeding!TrayGoes, StreamsAreHeld, OneSpeedTask, SpeedNew, SpeedTypes,
          Speeding!Lives
  <2>. QED
    BY <2>1, <2>2, <2>3, <2>4, <2>5, <2>6, <2>7
<1>5. CASE Speeding!Exits
  <2>1. SpeedTypes' /\ SpeedFlags'
    BY <1>5 DEF Speeding!Exits, SpeedTypes, SpeedFlags, Speeding!Conns
  <2>2. TasksTypes'
    BY <1>5
       DEF Speeding!Exits, TasksTypes, SpeedTypes, StopperTypes, SpeedNew, Speeding!Conns
  <2>3. StopperTypes'
    BY <1>5 DEF Speeding!Exits, StopperTypes, SpeedTypes, Speeding!Conns
  <2>4. SpeedNew'
    BY <1>5 DEF Speeding!Exits, SpeedNew, SpeedTypes
  <2>5. TasksHeld'
    BY <1>5 DEF Speeding!Exits, TasksHeld, SpeedNew, SpeedTypes, Speeding!Lives
  <2>6. OneSpeedTask'
    BY <1>5
       DEF Speeding!Exits, OneSpeedTask, SpeedNew, SpeedTypes, Speeding!Stopping, TasksHeld,
          Speeding!Lives
  <2>7. StreamsAreHeld'
    BY <1>5
       DEF Speeding!Exits, StreamsAreHeld, OneSpeedTask, SpeedNew, SpeedTypes,
          Speeding!Lives
  <2>. QED
    BY <2>1, <2>2, <2>3, <2>4, <2>5, <2>6, <2>7
<1>6. ASSUME NEW s \in 1..MaxStops, Speeding!Abort(s) PROVE SpeedInv'
  <2>1. stoppers[s].at = "aborts" /\ stoppers[s].task \in 1..MaxTasks /\ stoppers[s].task <= tasksUsed
    BY <1>6 DEF Speeding!Abort, SpeedNew, SpeedTypes, StopperTypes
  <2>2. UNCHANGED <<speedTask, speedId, opened, speedOverlapped, tasksUsed, stopsUsed>>
    BY <1>6 DEF Speeding!Abort
  <2>3. ~severed' => ~severed /\ speedTasks[stoppers[s].task].at # "closes"
    BY <1>6 DEF Speeding!Abort
  <2>4. /\ stoppers'[s].at = "takes" /\ stoppers'[s].task = stoppers[s].task
          /\ stoppers'[s].id = stoppers[s].id
          /\ \A r \in 1..MaxStops \ {s} : stoppers'[r] = stoppers[r]
    BY <1>6 DEF Speeding!Abort, StopperTypes
  <2>5. /\ speedTasks'[stoppers[s].task].at = "done" /\ speedTasks'[stoppers[s].task].id = 0
          /\ \A u \in 1..MaxTasks \ {stoppers[s].task} : speedTasks'[u] = speedTasks[u]
    BY <1>6, <2>1 DEF Speeding!Abort, TasksTypes
  <2>6. SpeedTypes' /\ SpeedFlags'
    BY <1>6, <2>1, <2>2, <2>3, <2>4, <2>5
       DEF Speeding!Abort, SpeedTypes, SpeedFlags, Speeding!Conns
  <2>7. TasksTypes'
    BY <1>6, <2>1, <2>2, <2>3, <2>4, <2>5
       DEF Speeding!Abort, TasksTypes, SpeedTypes, StopperTypes, SpeedNew, Speeding!Conns
  <2>8. StopperTypes'
    BY <1>6, <2>1, <2>2, <2>3, <2>4, <2>5
       DEF Speeding!Abort, StopperTypes, SpeedTypes, Speeding!Conns
  <2>9. SpeedNew'
    BY <2>1, <2>2, <2>3, <2>4, <2>5 DEF SpeedNew, SpeedTypes
  <2>10. TasksHeld'
    BY <2>1, <2>2, <2>3, <2>4, <2>5 DEF TasksHeld, SpeedNew, SpeedTypes, Speeding!Lives
  <2>11. OneSpeedTask'
    BY <2>1, <2>2, <2>3, <2>4, <2>5
       DEF OneSpeedTask, SpeedNew, SpeedTypes, Speeding!Stopping, TasksHeld, Speeding!Lives
  <2>12. StreamsAreHeld'
    BY <2>1, <2>2, <2>3, <2>4, <2>5
       DEF StreamsAreHeld, OneSpeedTask, SpeedNew, SpeedTypes, Speeding!Lives
  <2>. QED
    BY <2>6, <2>7, <2>8, <2>9, <2>10, <2>11, <2>12
<1>7. ASSUME NEW s \in 1..MaxStops, Speeding!Take(s) PROVE SpeedInv'
  <2>1. stoppers[s].at = "takes" /\ speedId' = 0
    BY <1>7 DEF Speeding!Take
  <2>2. UNCHANGED <<speedTask, speedTasks, opened, severed, speedOverlapped, tasksUsed, stopsUsed>>
    BY <1>7 DEF Speeding!Take
  <2>3. /\ stoppers'[s].at = (IF speedId = 0 THEN "done" ELSE "closes") /\ stoppers'[s].task = stoppers[s].task
          /\ stoppers'[s].id = speedId
          /\ \A r \in 1..MaxStops \ {s} : stoppers'[r] = stoppers[r]
    BY <1>7 DEF Speeding!Take, StopperTypes
  <2>4. SpeedTypes' /\ SpeedFlags'
    BY <1>7, <2>1, <2>2, <2>3 DEF Speeding!Take, SpeedTypes, SpeedFlags, Speeding!Conns
  <2>5. TasksTypes'
    BY <1>7, <2>1, <2>2, <2>3
       DEF Speeding!Take, TasksTypes, SpeedTypes, StopperTypes, SpeedNew, Speeding!Conns
  <2>6. StopperTypes'
    BY <1>7, <2>1, <2>2, <2>3, Zenon DEF Speeding!Take, StopperTypes, SpeedTypes, Speeding!Conns
  <2>7. SpeedNew'
    BY <2>1, <2>2, <2>3 DEF SpeedNew, SpeedTypes
  <2>8. TasksHeld'
    BY <2>1, <2>2, <2>3 DEF TasksHeld, SpeedNew, SpeedTypes, Speeding!Lives
  <2>9. OneSpeedTask'
    BY <2>1, <2>2, <2>3
       DEF OneSpeedTask, SpeedNew, SpeedTypes, Speeding!Stopping, TasksHeld, Speeding!Lives
  <2>10. StreamsAreHeld'
    BY <2>1, <2>2, <2>3
       DEF StreamsAreHeld, OneSpeedTask, SpeedNew, SpeedTypes, Speeding!Lives
  <2>. QED
    BY <2>4, <2>5, <2>6, <2>7, <2>8, <2>9, <2>10
<1>8. ASSUME NEW s \in 1..MaxStops, Speeding!StopperCloses(s) PROVE SpeedInv'
  <2>1. stoppers[s].at = "closes" /\ opened' = opened \ {stoppers[s].id}
    BY <1>8 DEF Speeding!StopperCloses
  <2>2. UNCHANGED <<speedTask, speedId, speedTasks, severed, speedOverlapped, tasksUsed, stopsUsed>>
    BY <1>8 DEF Speeding!StopperCloses
  <2>3. /\ stoppers'[s].at = "done" /\ stoppers'[s].task = stoppers[s].task
          /\ stoppers'[s].id = 0
          /\ \A r \in 1..MaxStops \ {s} : stoppers'[r] = stoppers[r]
    BY <1>8 DEF Speeding!StopperCloses, StopperTypes
  <2>4. SpeedTypes' /\ SpeedFlags'
    BY <1>8, <2>1, <2>2, <2>3
       DEF Speeding!StopperCloses, SpeedTypes, SpeedFlags, Speeding!Conns
  <2>5. TasksTypes'
    BY <1>8, <2>1, <2>2, <2>3
       DEF Speeding!StopperCloses, TasksTypes, SpeedTypes, StopperTypes, SpeedNew,
          Speeding!Conns
  <2>6. StopperTypes'
    <3> DEFINE Stoppers == [at : {"none", "aborts", "takes", "closes", "done"}, task : 0..MaxTasks,
                            id : Speeding!Conns]
               ended == [stoppers[s] EXCEPT !.at = "done"]
    <3>1. ended \in Stoppers
      BY DEF StopperTypes
    <3>2. [ended EXCEPT !.id = 0] \in Stoppers
      <4>1. \A r \in Stoppers : [r EXCEPT !.id = 0] \in Stoppers
        BY DEF Speeding!Conns
      <4> HIDE DEF Stoppers, ended
      <4> QED
        BY <3>1, <4>1
    <3>3. stoppers' = [stoppers EXCEPT ![s] = [ended EXCEPT !.id = 0]]
      BY <1>8 DEF Speeding!StopperCloses
    <3> HIDE DEF ended
    <3> QED
      BY <3>2, <3>3 DEF StopperTypes
  <2>7. SpeedNew'
    BY <2>1, <2>2, <2>3 DEF SpeedNew, SpeedTypes
  <2>8. TasksHeld'
    BY <2>1, <2>2, <2>3 DEF TasksHeld, SpeedNew, SpeedTypes, Speeding!Lives
  <2>9. OneSpeedTask'
    BY <2>1, <2>2, <2>3
       DEF OneSpeedTask, SpeedNew, SpeedTypes, Speeding!Stopping, TasksHeld, Speeding!Lives
  <2>10. StreamsAreHeld'
    BY <2>1, <2>2, <2>3
       DEF StreamsAreHeld, OneSpeedTask, SpeedNew, SpeedTypes, Speeding!Lives
  <2>. QED
    BY <2>4, <2>5, <2>6, <2>7, <2>8, <2>9, <2>10
<1>9. ASSUME NEW t \in 1..MaxTasks, Speeding!Connect(t) PROVE SpeedInv'
  <2>1. /\ speedTasks[t].at = "connects" /\ connections \in Nat /\ speedId' = connections + 1
        /\ opened' = opened \cup {connections + 1}
    BY <1>9 DEF Speeding!Connect, SpeedTypes, Speeding!Conns
  <2>2. UNCHANGED <<speedTask, stoppers, severed, speedOverlapped, tasksUsed, stopsUsed>>
    BY <1>9 DEF Speeding!Connect
  <2>3. /\ speedTasks'[t].at = "reads" /\ speedTasks'[t].id = speedTasks[t].id
          /\ \A u \in 1..MaxTasks \ {t} : speedTasks'[u] = speedTasks[u]
    BY <1>9 DEF Speeding!Connect, TasksTypes
  <2>4. SpeedTypes' /\ SpeedFlags'
    BY <1>9, <2>1, <2>2, <2>3 DEF Speeding!Connect, SpeedTypes, SpeedFlags, Speeding!Conns
  <2>5. TasksTypes'
    BY <1>9, <2>1, <2>2, <2>3
       DEF Speeding!Connect, TasksTypes, SpeedTypes, StopperTypes, SpeedNew, Speeding!Conns
  <2>6. StopperTypes'
    BY <1>9, <2>1, <2>2, <2>3 DEF Speeding!Connect, StopperTypes, SpeedTypes, Speeding!Conns
  <2>7. SpeedNew'
    BY <2>1, <2>2, <2>3 DEF SpeedNew, SpeedTypes
  <2>8. TasksHeld'
    BY <2>1, <2>2, <2>3 DEF TasksHeld, SpeedNew, SpeedTypes, Speeding!Lives
  <2>9. OneSpeedTask'
    BY <2>1, <2>2, <2>3
       DEF OneSpeedTask, SpeedNew, SpeedTypes, Speeding!Stopping, TasksHeld, Speeding!Lives
  <2>10. StreamsAreHeld'
    BY <2>1, <2>2, <2>3
       DEF StreamsAreHeld, OneSpeedTask, SpeedNew, SpeedTypes, Speeding!Lives
  <2>. QED
    BY <2>4, <2>5, <2>6, <2>7, <2>8, <2>9, <2>10
<1>10. ASSUME NEW t \in 1..MaxTasks, Speeding!ConnectFails(t) PROVE SpeedInv'
  <2>1. speedTasks[t].at = "connects"
    BY <1>10 DEF Speeding!ConnectFails
  <2>2. UNCHANGED <<speedTask, stoppers, severed, speedOverlapped, tasksUsed, stopsUsed, speedId, opened>>
    BY <1>10 DEF Speeding!ConnectFails
  <2>3. /\ speedTasks'[t].at = "rests" /\ speedTasks'[t].id = speedTasks[t].id
          /\ \A u \in 1..MaxTasks \ {t} : speedTasks'[u] = speedTasks[u]
    BY <1>10 DEF Speeding!ConnectFails, TasksTypes
  <2>4. SpeedTypes' /\ SpeedFlags'
    BY <1>10, <2>1, <2>2, <2>3
       DEF Speeding!ConnectFails, SpeedTypes, SpeedFlags, Speeding!Conns
  <2>5. TasksTypes'
    BY <1>10, <2>1, <2>2, <2>3
       DEF Speeding!ConnectFails, TasksTypes, SpeedTypes, StopperTypes, SpeedNew,
          Speeding!Conns
  <2>6. StopperTypes'
    BY <1>10, <2>1, <2>2, <2>3
       DEF Speeding!ConnectFails, StopperTypes, SpeedTypes, Speeding!Conns
  <2>7. SpeedNew'
    BY <2>1, <2>2, <2>3 DEF SpeedNew, SpeedTypes
  <2>8. TasksHeld'
    BY <2>1, <2>2, <2>3 DEF TasksHeld, SpeedNew, SpeedTypes, Speeding!Lives
  <2>9. OneSpeedTask'
    BY <2>1, <2>2, <2>3
       DEF OneSpeedTask, SpeedNew, SpeedTypes, Speeding!Stopping, TasksHeld, Speeding!Lives
  <2>10. StreamsAreHeld'
    BY <2>1, <2>2, <2>3
       DEF StreamsAreHeld, OneSpeedTask, SpeedNew, SpeedTypes, Speeding!Lives
  <2>. QED
    BY <2>4, <2>5, <2>6, <2>7, <2>8, <2>9, <2>10
<1>11. ASSUME NEW t \in 1..MaxTasks, Speeding!ReadEnds(t) PROVE SpeedInv'
  <2>1. speedTasks[t].at = "reads" /\ speedId' = 0
    BY <1>11 DEF Speeding!ReadEnds
  <2>2. UNCHANGED <<speedTask, stoppers, severed, speedOverlapped, tasksUsed, stopsUsed, opened>>
    BY <1>11 DEF Speeding!ReadEnds
  <2>3. /\ speedTasks'[t].at = "closes" /\ speedTasks'[t].id = speedId
          /\ \A u \in 1..MaxTasks \ {t} : speedTasks'[u] = speedTasks[u]
    BY <1>11 DEF Speeding!ReadEnds, TasksTypes
  <2>4. SpeedTypes' /\ SpeedFlags'
    BY <1>11, <2>1, <2>2, <2>3 DEF Speeding!ReadEnds, SpeedTypes, SpeedFlags, Speeding!Conns
  <2>5. TasksTypes'
    BY <1>11, <2>1, <2>2, <2>3
       DEF Speeding!ReadEnds, TasksTypes, SpeedTypes, StopperTypes, SpeedNew, Speeding!Conns
  <2>6. StopperTypes'
    BY <1>11, <2>1, <2>2, <2>3
       DEF Speeding!ReadEnds, StopperTypes, SpeedTypes, Speeding!Conns
  <2>7. SpeedNew'
    BY <2>1, <2>2, <2>3 DEF SpeedNew, SpeedTypes
  <2>8. TasksHeld'
    BY <2>1, <2>2, <2>3 DEF TasksHeld, SpeedNew, SpeedTypes, Speeding!Lives
  <2>9. OneSpeedTask'
    BY <2>1, <2>2, <2>3
       DEF OneSpeedTask, SpeedNew, SpeedTypes, Speeding!Stopping, TasksHeld, Speeding!Lives
  <2>10. StreamsAreHeld'
    BY <2>1, <2>2, <2>3
       DEF StreamsAreHeld, OneSpeedTask, SpeedNew, SpeedTypes, Speeding!Lives
  <2>. QED
    BY <2>4, <2>5, <2>6, <2>7, <2>8, <2>9, <2>10
<1>12. ASSUME NEW t \in 1..MaxTasks, Speeding!Closes(t) PROVE SpeedInv'
  <2>1. speedTasks[t].at = "closes" /\ opened' = opened \ {speedTasks[t].id}
    BY <1>12 DEF Speeding!Closes, Speeding!GoesOn
  <2>2. UNCHANGED <<speedTask, stoppers, severed, speedOverlapped, tasksUsed, stopsUsed>>
    BY <1>12 DEF Speeding!Closes, Speeding!GoesOn
  <2>3. speedId' \in {speedId, 0}
    BY <1>12 DEF Speeding!Closes, Speeding!GoesOn
  <2>4. UNCHANGED connections
    BY <1>12 DEF Speeding!Closes, Speeding!GoesOn
  <2>5. \E a \in {"rests", "done"} : speedTasks' = [speedTasks EXCEPT ![t] = [at |-> a, id |-> 0]]
                                    /\ (a = "rests" => speedId' = speedId)
    BY <1>12 DEF Speeding!Closes, Speeding!GoesOn
  <2>6. /\ speedTasks'[t].at \in {"rests", "done"} /\ speedTasks'[t].id = 0 /\ (speedTasks'[t].at = "rests" => speedId' = speedId)
          /\ \A u \in 1..MaxTasks \ {t} : speedTasks'[u] = speedTasks[u]
    BY <2>5 DEF TasksTypes
  <2>7. SpeedTypes' /\ SpeedFlags'
    <3>3. speedId' \in Speeding!Conns
      BY <2>3 DEF SpeedTypes, Speeding!Conns
    <3>4. opened' \subseteq 1..MaxConnections
      BY <2>1, <2>2 DEF SpeedTypes
    <3>1. SpeedTypes'
      BY <2>2, <2>4, <3>3, <3>4 DEF SpeedTypes
    <3>2. SpeedFlags'
      BY <1>12 DEF Speeding!Closes, SpeedFlags
    <3> QED
      BY <3>1, <3>2
  <2>8. TasksTypes'
    BY <2>5 DEF TasksTypes, Speeding!Conns
  <2>9. StopperTypes'
    BY <1>12, <2>1, <2>2, <2>3, <2>4, <2>5, <2>6
       DEF Speeding!Closes, Speeding!GoesOn, StopperTypes, SpeedTypes, Speeding!Conns
  <2>10. SpeedNew'
    BY <2>1, <2>2, <2>3, <2>4, <2>5, <2>6 DEF SpeedNew, SpeedTypes
  <2>11. TasksHeld'
    BY <2>1, <2>2, <2>3, <2>4, <2>5, <2>6
       DEF TasksHeld, SpeedNew, SpeedTypes, Speeding!Lives
  <2>12. OneSpeedTask'
    BY <2>1, <2>2, <2>3, <2>4, <2>5, <2>6
       DEF OneSpeedTask, SpeedNew, SpeedTypes, Speeding!Stopping, TasksHeld, Speeding!Lives
  <2>13. StreamsAreHeld'
    BY <2>1, <2>2, <2>3, <2>4, <2>5, <2>6
       DEF StreamsAreHeld, OneSpeedTask, SpeedNew, SpeedTypes, Speeding!Lives
  <2>. QED
    BY <2>7, <2>8, <2>9, <2>10, <2>11, <2>12, <2>13
<1>13. ASSUME NEW t \in 1..MaxTasks, Speeding!Rested(t) PROVE SpeedInv'
  <2>1. speedTasks[t].at = "rests"
    BY <1>13 DEF Speeding!Rested, Speeding!GoesOn
  <2>2. UNCHANGED <<speedTask, stoppers, severed, speedOverlapped, tasksUsed, stopsUsed, opened>>
    BY <1>13 DEF Speeding!Rested, Speeding!GoesOn
  <2>3. speedId' \in {speedId, 0}
    BY <1>13 DEF Speeding!Rested, Speeding!GoesOn
  <2>4. UNCHANGED connections
    BY <1>13 DEF Speeding!Rested, Speeding!GoesOn
  <2>5. \E a \in {"connects", "done"} : speedTasks' = [speedTasks EXCEPT ![t] = [at |-> a, id |-> 0]]
                                    /\ (a = "connects" => speedId' = speedId)
    BY <1>13 DEF Speeding!Rested, Speeding!GoesOn
  <2>6. /\ speedTasks'[t].at \in {"connects", "done"} /\ speedTasks'[t].id = 0 /\ (speedTasks'[t].at = "connects" => speedId' = speedId)
          /\ \A u \in 1..MaxTasks \ {t} : speedTasks'[u] = speedTasks[u]
    BY <2>5 DEF TasksTypes
  <2>7. SpeedTypes' /\ SpeedFlags'
    <3>3. speedId' \in Speeding!Conns
      BY <2>3 DEF SpeedTypes, Speeding!Conns
    <3>4. opened' \subseteq 1..MaxConnections
      BY <2>1, <2>2 DEF SpeedTypes
    <3>1. SpeedTypes'
      BY <2>2, <2>4, <3>3, <3>4 DEF SpeedTypes
    <3>2. SpeedFlags'
      BY <1>13 DEF Speeding!Rested, SpeedFlags
    <3> QED
      BY <3>1, <3>2
  <2>8. TasksTypes'
    BY <2>5 DEF TasksTypes, Speeding!Conns
  <2>9. StopperTypes'
    BY <1>13, <2>1, <2>2, <2>3, <2>4, <2>5, <2>6
       DEF Speeding!Rested, Speeding!GoesOn, StopperTypes, SpeedTypes, Speeding!Conns
  <2>10. SpeedNew'
    BY <2>1, <2>2, <2>3, <2>4, <2>5, <2>6 DEF SpeedNew, SpeedTypes
  <2>11. TasksHeld'
    BY <2>1, <2>2, <2>3, <2>4, <2>5, <2>6
       DEF TasksHeld, SpeedNew, SpeedTypes, Speeding!Lives
  <2>12. OneSpeedTask'
    BY <2>1, <2>2, <2>3, <2>4, <2>5, <2>6
       DEF OneSpeedTask, SpeedNew, SpeedTypes, Speeding!Stopping, TasksHeld, Speeding!Lives
  <2>13. StreamsAreHeld'
    BY <2>1, <2>2, <2>3, <2>4, <2>5, <2>6
       DEF StreamsAreHeld, OneSpeedTask, SpeedNew, SpeedTypes, Speeding!Lives
  <2>. QED
    BY <2>7, <2>8, <2>9, <2>10, <2>11, <2>12, <2>13
<1>14. CASE UNCHANGED Speeding!speedVars
  <2>1. SpeedTypes' /\ SpeedFlags'
    BY <1>14 DEF SpeedTypes, SpeedFlags, Speeding!Conns
  <2>2. TasksTypes'
    BY <1>14 DEF TasksTypes, SpeedTypes, StopperTypes, SpeedNew, Speeding!Conns
  <2>3. StopperTypes'
    BY <1>14 DEF StopperTypes, SpeedTypes, Speeding!Conns
  <2>4. SpeedNew'
    BY <1>14 DEF SpeedNew, SpeedTypes
  <2>5. TasksHeld'
    BY <1>14 DEF TasksHeld, SpeedNew, SpeedTypes, Speeding!Lives
  <2>6. OneSpeedTask'
    BY <1>14
       DEF OneSpeedTask, SpeedNew, SpeedTypes, Speeding!Stopping, TasksHeld, Speeding!Lives
  <2>7. StreamsAreHeld'
    BY <1>14 DEF StreamsAreHeld, OneSpeedTask, SpeedNew, SpeedTypes, Speeding!Lives
  <2>. QED
    BY <2>1, <2>2, <2>3, <2>4, <2>5, <2>6, <2>7
<1>. QED
  BY <1>1, <1>2, <1>3, <1>4, <1>5, <1>6, <1>7, <1>8, <1>9, <1>10, <1>11, <1>12, <1>13,
     <1>14, <1>0
     DEF Speeding!NextSpeed

(* What the invariant shows. *)
LEMMA SpeedingShows ==
  SpeedInv => Speeding!TypeOK /\ Speeding!RunningTasksAreHeld /\ Speeding!StoppedMeansDisconnected
<1>. SUFFICES ASSUME SpeedInv
     PROVE Speeding!TypeOK /\ Speeding!RunningTasksAreHeld /\ Speeding!StoppedMeansDisconnected
  OBVIOUS
<1>1. DOMAIN speedTasks = 1..MaxTasks /\ DOMAIN stoppers = 1..MaxStops
  BY DEF SpeedInv, TasksTypes, StopperTypes
<1>2. Speeding!TypeOK
  BY DEF SpeedInv, SpeedTypes, SpeedFlags, TasksTypes, StopperTypes, Speeding!TypeOK
<1>3. \A s \in 1..MaxStops : stoppers[s].at \in {"none", "aborts", "takes", "closes", "done"}
  BY DEF SpeedInv, StopperTypes
<1>4. \A t \in 1..MaxTasks : speedTasks[t].at \in {"none", "connects", "reads", "closes", "rests", "done"}
  BY DEF SpeedInv, TasksTypes
<1>5. Speeding!StoppedMeansDisconnected
  <2>. SUFFICES ASSUME ~severed, ~speedOverlapped, ~Speeding!Stopping,
                       \A t \in 1..MaxTasks : ~Speeding!Lives(t), NEW c \in opened
                PROVE FALSE
    BY <1>1 DEF Speeding!StoppedMeansDisconnected
  <2>1. \A s \in 1..MaxStops : stoppers[s].at \in {"none", "done"}
    BY <1>1 DEF Speeding!Stopping
  <2>2. \A t \in 1..MaxTasks : speedTasks[t].at \in {"none", "done"}
    BY DEF Speeding!Lives
  <2>3. c = speedId
    BY <2>1, <2>2 DEF SpeedInv, StreamsAreHeld
  <2>4. speedId = 0
    BY <2>1, <2>2 DEF SpeedInv, OneSpeedTask
  <2>. QED
    BY <2>3, <2>4, SpeedingAssumption DEF SpeedInv, SpeedTypes
<1>6. Speeding!RunningTasksAreHeld
  BY <1>1 DEF SpeedInv, TasksHeld, Speeding!RunningTasksAreHeld
<1>. QED
  BY <1>2, <1>5, <1>6

-----------------------------------------------------------------------------
(* The composition *)

BackgroundInv ==
  /\ part \in {"timer", "watch", "port", "listening", "selecting", "failing", "backing", "updating",
               "showingMenu", "speeding"}
  /\ part = "timer" => TimerInv
  /\ part = "watch" => WatchInv
  /\ part = "port" => PortInv
  /\ part = "listening" => ListeningInv
  /\ part = "selecting" => SelectingInv
  /\ part = "failing" => FailingInv
  /\ part = "backing" => BackingInv
  /\ part = "updating" => UpdatingInv
  /\ part = "showingMenu" => MenuInv
  /\ part = "speeding" => SpeedInv

(* Every part starts in its own invariant.                                 *)
LEMMA BackgroundInit == Init => BackgroundInv
<1>. SUFFICES ASSUME Init PROVE BackgroundInv
  OBVIOUS
<1>1. Timing!Init => TimerInv
  BY TimerInit, TimerAssumption
<1>2. Watch!Init => WatchInv
  BY WatchInit, WatchAssumption DEF WatchSizes
<1>3. Port!Init => PortInv
  BY PortInit
<1>4. Listening!Init => ListeningInv
  BY ListeningInit
<1>5. Selecting!Init => SelectingInv
  BY SelectingInit
<1>6. Failing!Init => FailingInv
  BY FailingInit
<1>7. Backing!InitBackups => BackingInv
  BY BackingInit
<1>8. Updating!InitUpdater => UpdatingInv
  BY UpdatingInit
<1>9. Showing!InitMenu => MenuInv
  BY ShowingInit
<1>10. Speeding!InitSpeed => SpeedInv
  BY SpeedingInit
<1>11. QED
  BY <1>1, <1>2, <1>3, <1>4, <1>5, <1>6, <1>7, <1>8, <1>9, <1>10 DEF Init, BackgroundInv

(* A step is one of the part the behaviour is of, or of nobody.            *)
LEMMA BackgroundKeeps == BackgroundInv /\ [Next]_vars => BackgroundInv'
<1>. SUFFICES ASSUME BackgroundInv, [Next]_vars PROVE BackgroundInv'
  OBVIOUS
<1>1. part' = part
  BY DEF Next, vars, TimingSteps, WatchSteps, PortSteps, ListeningSteps, SelectingSteps,
     FailingSteps, BackingSteps, UpdatingSteps, ShowingSteps, SpeedingSteps
<1>2. CASE part = "timer"
  <2>1. Timing!Next \/ UNCHANGED vars
    BY <1>2 DEF Next, TimingSteps, WatchSteps, PortSteps, ListeningSteps, SelectingSteps,
       FailingSteps, BackingSteps, UpdatingSteps, ShowingSteps, SpeedingSteps
  <2>2. UNCHANGED vars => UNCHANGED Timing!vars
    BY DEF vars, timerVars, Timing!vars,
       Timing!inputs, Timing!refreshes, Timing!scheduler, Timing!running
  <2>3. [Timing!Next]_(Timing!vars)
    BY <2>1, <2>2
  <2>4. TimerInv
    BY <1>2 DEF BackgroundInv
  <2>5. TimerInv'
    BY <2>3, <2>4, TimerKeeps, TimerAssumption
  <2>6. QED
    BY <1>1, <1>2, <2>5 DEF BackgroundInv
<1>3. CASE part = "watch"
  <2>1. Watch!Next \/ UNCHANGED vars
    BY <1>3 DEF Next, TimingSteps, WatchSteps, PortSteps, ListeningSteps, SelectingSteps,
       FailingSteps, BackingSteps, UpdatingSteps, ShowingSteps, SpeedingSteps
  <2>2. UNCHANGED vars => UNCHANGED Watch!vars
    BY DEF vars, watchVars, Watch!vars,
       Watch!watch, Watch!asked
  <2>3. [Watch!Next]_(Watch!vars)
    BY <2>1, <2>2
  <2>4. WatchInv
    BY <1>3 DEF BackgroundInv
  <2>5. WatchInv'
    BY <2>3, <2>4, WatchKeeps, WatchAssumption DEF WatchSizes
  <2>6. QED
    BY <1>1, <1>3, <2>5 DEF BackgroundInv
<1>4. CASE part = "port"
  <2>1. Port!Next \/ UNCHANGED vars
    BY <1>4 DEF Next, TimingSteps, WatchSteps, PortSteps, ListeningSteps, SelectingSteps,
       FailingSteps, BackingSteps, UpdatingSteps, ShowingSteps, SpeedingSteps
  <2>2. UNCHANGED vars => UNCHANGED Port!portVars
    BY DEF vars, portVars, Port!portVars,
       Port!ports, Port!startup, Port!request, Port!saving, Port!world
  <2>3. [Port!Next]_(Port!portVars)
    BY <2>1, <2>2
  <2>4. PortInv
    BY <1>4 DEF BackgroundInv
  <2>5. PortInv'
    BY <2>3, <2>4, PortKeeps
  <2>6. QED
    BY <1>1, <1>4, <2>5 DEF BackgroundInv
<1>5. CASE part = "listening"
  <2>1. Listening!Next \/ UNCHANGED vars
    BY <1>5 DEF Next, TimingSteps, WatchSteps, PortSteps, ListeningSteps, SelectingSteps,
       FailingSteps, BackingSteps, UpdatingSteps, ShowingSteps, SpeedingSteps
  <2>2. UNCHANGED vars => UNCHANGED Listening!listenerVars
    BY DEF vars, listeningVars, Listening!listenerVars,
       Listening!question
  <2>3. [Listening!Next]_(Listening!listenerVars)
    BY <2>1, <2>2
  <2>4. ListeningInv
    BY <1>5 DEF BackgroundInv
  <2>5. ListeningInv'
    BY <2>3, <2>4, ListeningKeeps
  <2>6. QED
    BY <1>1, <1>5, <2>5 DEF BackgroundInv
<1>6. CASE part = "selecting"
  <2>1. Selecting!Next \/ UNCHANGED vars
    BY <1>6 DEF Next, TimingSteps, WatchSteps, PortSteps, ListeningSteps, SelectingSteps,
       FailingSteps, BackingSteps, UpdatingSteps, ShowingSteps, SpeedingSteps
  <2>2. UNCHANGED vars => UNCHANGED Selecting!nodeVars
    BY DEF vars, selectingVars, Selecting!nodeVars,
       Selecting!core, Selecting!task, Selecting!bounds
  <2>3. [Selecting!Next]_(Selecting!nodeVars)
    BY <2>1, <2>2
  <2>4. SelectingInv
    BY <1>6 DEF BackgroundInv
  <2>5. SelectingInv'
    BY <2>3, <2>4, SelectingKeeps
  <2>6. QED
    BY <1>1, <1>6, <2>5 DEF BackgroundInv
<1>7. CASE part = "failing"
  <2>1. Failing!Next \/ UNCHANGED vars
    BY <1>7 DEF Next, TimingSteps, WatchSteps, PortSteps, ListeningSteps, SelectingSteps,
       FailingSteps, BackingSteps, UpdatingSteps, ShowingSteps, SpeedingSteps
  <2>2. UNCHANGED vars => UNCHANGED Failing!failureVars
    BY DEF vars, failingVars, Failing!failureVars,
       Failing!tables, Failing!window, Failing!refreshing
  <2>3. [Failing!Next]_(Failing!failureVars)
    BY <2>1, <2>2
  <2>4. FailingInv
    BY <1>7 DEF BackgroundInv
  <2>5. FailingInv'
    BY <2>3, <2>4, FailingKeeps
  <2>6. QED
    BY <1>1, <1>7, <2>5 DEF BackgroundInv
<1>8. CASE part = "backing"
  <2>1. Backing!NextBackups \/ UNCHANGED vars
    BY <1>8 DEF Next, TimingSteps, WatchSteps, PortSteps, ListeningSteps, SelectingSteps,
       FailingSteps, BackingSteps, UpdatingSteps, ShowingSteps, SpeedingSteps
  <2>2. UNCHANGED vars => UNCHANGED Backing!backupVars
    BY DEF vars, backingVars, Backing!backupVars,
       Backing!autoVars, Backing!restoreVars
  <2>3. [Backing!NextBackups]_(Backing!backupVars)
    BY <2>1, <2>2
  <2>4. BackingInv
    BY <1>8 DEF BackgroundInv
  <2>5. BackingInv'
    BY <2>3, <2>4, BackingKeeps
  <2>6. QED
    BY <1>1, <1>8, <2>5 DEF BackgroundInv
<1>9. CASE part = "updating"
  <2>1. Updating!NextUpdater \/ UNCHANGED vars
    BY <1>9 DEF Next, TimingSteps, WatchSteps, PortSteps, ListeningSteps, SelectingSteps,
       FailingSteps, BackingSteps, UpdatingSteps, ShowingSteps, SpeedingSteps
  <2>2. UNCHANGED vars => UNCHANGED Updating!updaterVars
    BY DEF vars, updatingVars, Updating!updaterVars,
       Updating!cache, Updating!bgVars, Updating!manualVars, Updating!ends, Updating!counters
  <2>3. [Updating!NextUpdater]_(Updating!updaterVars)
    BY <2>1, <2>2
  <2>4. UpdatingInv
    BY <1>9 DEF BackgroundInv
  <2>5. UpdatingInv'
    BY <2>3, <2>4, UpdatingKeeps
  <2>6. QED
    BY <1>1, <1>9, <2>5 DEF BackgroundInv
<1>10. CASE part = "showingMenu"
  <2>1. Showing!NextMenu \/ UNCHANGED vars
    BY <1>10 DEF Next, TimingSteps, WatchSteps, PortSteps, ListeningSteps, SelectingSteps,
       FailingSteps, BackingSteps, UpdatingSteps, ShowingSteps, SpeedingSteps
  <2>2. UNCHANGED vars => UNCHANGED Showing!menuVars
    BY DEF vars, showingMenuVars, Showing!menuVars,
       Showing!sync, Showing!latency
  <2>3. MenuInv
    BY <1>10 DEF BackgroundInv
  <2>4. MenuInv'
    BY <2>1, <2>2, <2>3, ShowingNext
  <2>5. QED
    BY <1>1, <1>10, <2>4 DEF BackgroundInv
<1>11. CASE part = "speeding"
  <2>1. Speeding!NextSpeed \/ UNCHANGED vars
    BY <1>11 DEF Next, TimingSteps, WatchSteps, PortSteps, ListeningSteps, SelectingSteps,
       FailingSteps, BackingSteps, UpdatingSteps, ShowingSteps, SpeedingSteps
  <2>2. UNCHANGED vars => UNCHANGED Speeding!speedVars
    BY DEF vars, speedingVars, Speeding!speedVars,
       Speeding!slots, Speeding!world, Speeding!told, Speeding!counts
  <2>3. SpeedInv
    BY <1>11 DEF BackgroundInv
  <2>4. SpeedInv'
    BY <2>1, <2>2, <2>3, SpeedingNext
  <2>5. QED
    BY <1>1, <1>11, <2>4 DEF BackgroundInv
<1>12. part \in {"timer", "watch", "port", "listening", "selecting", "failing", "backing",
               "updating", "showingMenu", "speeding"}
  BY DEF BackgroundInv
<1>13. QED
  BY <1>2, <1>3, <1>4, <1>5, <1>6, <1>7, <1>8, <1>9, <1>10, <1>11, <1>12

(* Every behaviour keeps the invariant of its part, for any number of         *)
(* profiles, ports, nodes, failures, backups and versions.                    *)
THEOREM EveryPartStays == Spec => []BackgroundInv
<1>1. BackgroundInv /\ [Next]_vars => BackgroundInv'
  BY BackgroundKeeps
<1>2. QED
  BY <1>1, BackgroundInit, PTL DEF Spec

(* What each part shows, of the part a behaviour is of.                    *)
LEMMA PartsShow ==
  BackgroundInv => TypeOK /\ NothingIsForgotten /\ NothingUnasked /\ BooksAgree
<1>. SUFFICES ASSUME BackgroundInv
     PROVE TypeOK /\ NothingIsForgotten /\ NothingUnasked /\ BooksAgree
  OBVIOUS
<1>1. part = "timer" =>
        /\ Timing!TypeOK /\ Timing!OneUpdatePerProfile /\ Timing!QueueHoldsTheArmed
        /\ Timing!NoTaskIsForgotten /\ Timing!ScheduleFollowsSettings
  BY TimerShows DEF BackgroundInv
<1>2. part = "watch" => Watch!TypeOK /\ Watch!BlipsAreTolerated /\ Watch!FailuresAreNoticed
  BY WatchShows, WatchAssumption DEF BackgroundInv, WatchSizes
<1>3. part = "port" => Port!TypeOK /\ Port!PacNamesWhatIsServed /\ Port!BorrowedForTheSession
  BY PortShows DEF BackgroundInv
<1>4. part = "listening" => Listening!AcceptedPortsAreFree /\ Listening!ConflictsAreReal
  BY ListeningShows DEF BackgroundInv
<1>5. part = "selecting" =>
        Selecting!TypeOK /\ Selecting!SelectionsComeBack /\ Selecting!AvailableRecordsSurvive
  BY SelectingShows DEF BackgroundInv
<1>6. part = "failing" =>
        /\ Failing!TypeOK /\ Failing!OwedAnswersStay /\ Failing!WindowCatchesUp
        /\ Failing!NoRefreshIsLost
  BY FailingShows DEF BackgroundInv
<1>7. part = "backing" =>
        /\ Backing!TypeOK /\ Backing!BackupsKeepTheirDistance /\ Backing!BackupsStay
        /\ Backing!SchedulerFollows /\ Backing!RestoredIsCommitted
  BY BackingShows DEF BackgroundInv
<1>8. part = "updating" =>
        /\ Updating!TypeOK /\ Updating!OffMeansNothingPending
        /\ Updating!OnlySignedUpdates /\ Updating!CancelsAreObeyed
  BY UpdatingShows DEF BackgroundInv
<1>9. part = "showingMenu" =>
        /\ Showing!TypeOK /\ Showing!MenuShowsTheSelection /\ Showing!LabelsTellTheTest
  BY ShowingShows DEF BackgroundInv
<1>10. part = "speeding" =>
        /\ Speeding!TypeOK /\ Speeding!RunningTasksAreHeld /\ Speeding!StoppedMeansDisconnected
  BY SpeedingShows DEF BackgroundInv
<1>11. TypeOK
  BY <1>1, <1>2, <1>3, <1>5, <1>6, <1>7, <1>8, <1>9, <1>10, Zenon DEF TypeOK
<1>12. NothingIsForgotten
  BY <1>1, <1>2, <1>5, <1>6, <1>7, <1>10, Zenon DEF NothingIsForgotten
<1>13. NothingUnasked
  BY <1>1, <1>2, <1>4, <1>7, <1>8, Zenon DEF NothingUnasked
<1>14. BooksAgree
  BY <1>3, <1>4, <1>7, <1>9, Zenon DEF BooksAgree
<1>15. QED
  BY <1>11, <1>12, <1>13, <1>14

-----------------------------------------------------------------------------
(* The step and the place of every part are ones the code has, and every      *)
(* count, list and table has the values the code can give it.                 *)
THEOREM TypesHold == Spec => []TypeOK
<1>1. BackgroundInv => TypeOK
  BY PartsShow
<1>2. QED
  BY <1>1, EveryPartStays, PTL

(* What was asked for or has to happen is not dropped, whatever is changed    *)
(* meanwhile: the schedule of the settings is the one that runs (timer.rs), a *)
(* lasting failure of the owner is recovered (owner.rs), the selected nodes   *)
(* come back (profiles.rs), failures and refreshes reach the window           *)
(* (notification.rs), and backups follow their settings and stay              *)
(* (auto_backup.rs), and what a stop of the tray's speed left is disconnected *)
(* (tray/speed_task.rs).                                                      *)
THEOREM NothingIsDropped == Spec => []NothingIsForgotten
<1>1. BackgroundInv => NothingIsForgotten
  BY PartsShow
<1>2. QED
  BY <1>1, EveryPartStays, PTL

(* What nobody asked for is not done: no second update of a profile beside    *)
(* the first (timer.rs), no recovery of an owner for a blip (owner.rs), no    *)
(* listener refused without a conflict (listener.rs), no automatic backup too *)
(* early (auto_backup.rs), and no update against the switch, without a        *)
(* signature or after a cancel (updater.rs).                                  *)
THEOREM NothingIsDoneUnasked == Spec => []NothingUnasked
<1>1. BackgroundInv => NothingUnasked
  BY PartsShow
<1>2. QED
  BY <1>1, EveryPartStays, PTL

(* What is told agrees with what is: PAC and the notice with the port that is *)
(* served (port.rs, server.rs), the probe with what can be bound              *)
(* (listener.rs), the settings in memory with the restored file (backup.rs),  *)
(* the marks in the tray menu with the selection and the test (tray/mod.rs).  *)
THEOREM WhatIsToldIsTrue == Spec => []BooksAgree
<1>1. BackgroundInv => BooksAgree
  BY PartsShow
<1>2. QED
  BY <1>1, EveryPartStays, PTL

(* A task of the timer that is marked as running has an update that runs or a *)
(* report that waits, one of the two and one only, so that the mark does not  *)
(* stay for good and no second update starts beside it (finish_task).         *)
THEOREM MarksAreGrounded == Spec => [](part = "timer" => UpdatesAreMarked /\ ReportsAreSingle)
<1>1. BackgroundInv => (part = "timer" => UpdatesAreMarked /\ ReportsAreSingle)
  BY DEF BackgroundInv, TimerInv, QueueInv
<1>2. QED
  BY <1>1, EveryPartStays, PTL
=============================================================================

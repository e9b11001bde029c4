-------------------------- MODULE RunStateReadsProofs --------------------------
(***************************************************************************)
(* For any operators, speakers and readers: the slot has one holder and no *)
(* reader of settled() misses the wake-up of the operation it waits for.   *)
(*                                                                         *)
(* The slot and the wake-ups are independent of what is published, so the  *)
(* invariant adds to the two properties only that a reader inside settled  *)
(* holds a future that is enabled or ready (Enrolled).                     *)
(***************************************************************************)
EXTENDS RunStateReads, TLAPS

Enrolled ==
  \A r \in Readers : at[r] # "idle" => r \in registered \cup woken

IInv == TypeOK /\ SlotHasOneHolder /\ Enrolled /\ WaitersAreOwedAWakeup

\* Nobody holds the slot and nobody waits at first.
LEMMA InitIInv == Init => IInv
<1> SUFFICES ASSUME Init PROVE IInv
  OBVIOUS
<1> USE BoundsAssumption DEF Init
<1>1. TypeOK
  <2>1. /\ at \in [Tasks -> Places]
        /\ after \in [Announcers -> Places]
        /\ clone \in [Tasks -> BOOLEAN]
        /\ seen \in [Tasks -> BOOLEAN]
    BY DEF Places
  <2>2. frontend \in Snapshots
    BY DEF Snapshots
  <2>3. /\ registered \subseteq {r \in Readers : at[r] # "idle"}
        /\ woken \subseteq {r \in Readers : at[r] # "idle"} \ registered
        /\ answered \subseteq Readers
    OBVIOUS
  <2>4. request \in BOOLEAN /\ opRunning \in BOOLEAN
    OBVIOUS
  <2>5. operations \in 0..MaxOperations /\ words \in 0..MaxWords
    OBVIOUS
  <2> QED BY <2>1, <2>2, <2>3, <2>4, <2>5 DEF TypeOK
<1>2. SlotHasOneHolder
  BY DEF SlotHasOneHolder, Holding, Tasks, Announcers
<1>3. Enrolled /\ WaitersAreOwedAWakeup
  BY DEF Enrolled, WaitersAreOwedAWakeup, Tasks
<1> QED
  BY <1>1, <1>2, <1>3 DEF IInv

\* Every step keeps the types.
LEMMA NextTypeOK == TypeOK /\ [Next]_vars => TypeOK'
<1> SUFFICES ASSUME TypeOK, [Next]_vars PROVE TypeOK'
  OBVIOUS
<1> USE BoundsAssumption, RolesAreDistinct DEF TypeOK, Tasks, Announcers, Places
<1>1. ASSUME NEW t \in Tasks, Clone(t) PROVE TypeOK'
  BY <1>1 DEF Clone, bounds, waitVars, snapshotVars
<1>2. ASSUME NEW t \in Announcers, Load(t) PROVE TypeOK'
  BY <1>2 DEF Load, bounds, waitVars, snapshotVars
<1>3. ASSUME NEW t \in Announcers, Deliver(t) PROVE TypeOK'
  BY <1>3 DEF Deliver, bounds, waitVars, snapshotVars, Snapshot, Snapshots
<1>4. ASSUME NEW t \in Operators, BeginOperation(t) PROVE TypeOK'
  BY <1>4 DEF BeginOperation, Announce, bounds, waitVars, snapshotVars
<1>5. ASSUME NEW t \in Operators, Operate(t) PROVE TypeOK'
  <2>1. CASE RequestAction(t) \/ RetireRequest(t)
    BY <1>5, <2>1 DEF RequestAction, RetireRequest, Announce, bounds, waitVars, snapshotVars
  <2>2. CASE ClearSlot(t)
    BY <1>5, <2>2 DEF ClearSlot, bounds, waitVars, snapshotVars
  <2>3. CASE NotifyWaiters(t)
    BY <1>5, <2>3 DEF NotifyWaiters, Announce, bounds, snapshotVars
  <2> QED BY <1>5, <2>1, <2>2, <2>3 DEF Operate
<1>6. ASSUME NEW t \in Speakers, Speak(t) PROVE TypeOK'
  <2>1. request' \in BOOLEAN
    BY <1>6 DEF Speak
  <2> QED BY <1>6, <2>1 DEF Speak, Announce, bounds, waitVars, snapshotVars
<1>7. ASSUME NEW t \in Readers, Settle(t) PROVE TypeOK'
  <2>1. CASE Enable(t)
    BY <1>7, <2>1 DEF Enable, bounds, snapshotVars
  <2>2. CASE Return(t)
    BY <1>7, <2>2 DEF Return, bounds
  <2>3. CASE Park(t)
    BY <1>7, <2>3 DEF Park, bounds, waitVars
  <2> QED BY <1>1, <1>7, <2>1, <2>2, <2>3 DEF Settle
<1>8. CASE UNCHANGED vars
  BY <1>8 DEF vars, bounds, waitVars, snapshotVars
<1> QED
  BY <1>1, <1>2, <1>3, <1>4, <1>5, <1>6, <1>7, <1>8 DEF Next, Publish

\* A step of one operator moves no other, and only a claim adds a holder.
LEMMA NextSlot == TypeOK /\ SlotHasOneHolder /\ [Next]_vars => SlotHasOneHolder'
<1> SUFFICES ASSUME TypeOK, SlotHasOneHolder, [Next]_vars PROVE SlotHasOneHolder'
  OBVIOUS
<1> USE RolesAreDistinct DEF TypeOK, SlotHasOneHolder, Holding, Tasks, Announcers
<1>1. ASSUME NEW t \in Tasks, Clone(t) PROVE SlotHasOneHolder'
  BY <1>1 DEF Clone
<1>2. ASSUME NEW t \in Announcers, Load(t) PROVE SlotHasOneHolder'
  BY <1>2 DEF Load
<1>3. ASSUME NEW t \in Announcers, Deliver(t) PROVE SlotHasOneHolder'
  <2>1. t \in Operators /\ Holding(t)' => Holding(t)
    BY <1>3 DEF Deliver
  <2>2. \A u \in Operators \ {t} : Holding(u)' <=> Holding(u)
    BY <1>3 DEF Deliver
  <2> QED BY <1>3, <2>1, <2>2 DEF Deliver
<1>4. ASSUME NEW t \in Operators, BeginOperation(t) PROVE SlotHasOneHolder'
  BY <1>4 DEF BeginOperation, Announce
<1>5. ASSUME NEW t \in Operators, Operate(t) PROVE SlotHasOneHolder'
  <2>1. CASE RequestAction(t) \/ RetireRequest(t)
    BY <2>1 DEF RequestAction, RetireRequest, Announce
  <2>2. CASE ClearSlot(t)
    BY <2>2 DEF ClearSlot
  <2>3. CASE NotifyWaiters(t)
    BY <2>3 DEF NotifyWaiters, Announce
  <2> QED BY <1>5, <2>1, <2>2, <2>3 DEF Operate
<1>6. ASSUME NEW t \in Speakers, Speak(t) PROVE SlotHasOneHolder'
  BY <1>6 DEF Speak, Announce
<1>7. ASSUME NEW t \in Readers, Settle(t) PROVE SlotHasOneHolder'
  BY <1>1, <1>7 DEF Settle, Enable, Return, Park
<1>8. CASE UNCHANGED vars
  BY <1>8 DEF vars
<1> QED
  BY <1>1, <1>2, <1>3, <1>4, <1>5, <1>6, <1>7, <1>8 DEF Next, Publish

\* A reader enrols before it looks; the slot is cleared before the readers are
\* notified, and the notification reaches all that have enrolled.
LEMMA NextWakeups ==
  IInv /\ [Next]_vars => Enrolled' /\ WaitersAreOwedAWakeup'
<1> SUFFICES ASSUME IInv, [Next]_vars PROVE Enrolled' /\ WaitersAreOwedAWakeup'
  OBVIOUS
<1> USE RolesAreDistinct
        DEF IInv, TypeOK, Enrolled, WaitersAreOwedAWakeup, Tasks, Announcers
<1>1. ASSUME NEW t \in Tasks, Clone(t) PROVE Enrolled' /\ WaitersAreOwedAWakeup'
  BY <1>1 DEF Clone, waitVars
<1>2. ASSUME NEW t \in Announcers, Load(t) PROVE Enrolled' /\ WaitersAreOwedAWakeup'
  BY <1>2 DEF Load, waitVars
<1>3. ASSUME NEW t \in Announcers, Deliver(t) PROVE Enrolled' /\ WaitersAreOwedAWakeup'
  BY <1>3 DEF Deliver, waitVars
<1>4. ASSUME NEW t \in Operators, BeginOperation(t)
      PROVE  Enrolled' /\ WaitersAreOwedAWakeup'
  BY <1>4 DEF BeginOperation, Announce, waitVars
<1>5. ASSUME NEW t \in Operators, Operate(t) PROVE Enrolled' /\ WaitersAreOwedAWakeup'
  <2>1. CASE RequestAction(t) \/ RetireRequest(t)
    BY <2>1 DEF RequestAction, RetireRequest, Announce, waitVars
  <2>2. CASE ClearSlot(t)
    BY <2>2 DEF ClearSlot, waitVars
  <2>3. CASE NotifyWaiters(t)
    BY <2>3 DEF NotifyWaiters, Announce
  <2> QED BY <1>5, <2>1, <2>2, <2>3 DEF Operate
<1>6. ASSUME NEW t \in Speakers, Speak(t) PROVE Enrolled' /\ WaitersAreOwedAWakeup'
  BY <1>6 DEF Speak, Announce, waitVars
<1>7. ASSUME NEW t \in Readers, Settle(t) PROVE Enrolled' /\ WaitersAreOwedAWakeup'
  <2>1. CASE Enable(t)
    BY <1>7, <2>1 DEF Enable
  <2>2. CASE Return(t)
    BY <1>7, <2>2 DEF Return
  <2>3. CASE Park(t)
    BY <1>7, <2>3 DEF Park, waitVars
  <2> QED BY <1>1, <1>7, <2>1, <2>2, <2>3 DEF Settle
<1>8. CASE UNCHANGED vars
  BY <1>8 DEF vars, waitVars
<1> QED
  BY <1>1, <1>2, <1>3, <1>4, <1>5, <1>6, <1>7, <1>8 DEF Next, Publish

\* The strengthened invariant holds in every reachable state.
THEOREM Invariance == Spec => []IInv
<1>1. IInv /\ [Next]_vars => IInv'
  BY NextTypeOK, NextSlot, NextWakeups DEF IInv
<1> QED
  BY InitIInv, <1>1, PTL DEF Spec

\* Every variable keeps its type, and a reader is registered, or woken, only
\* while it is inside settled(), never both (Notified::enable).
THEOREM TypesHold == Spec => []TypeOK
BY Invariance, PTL DEF IInv

\* At most one operation holds the slot, and while one does the slot is taken
\* (begin_operation and OperationGuard::drop).
THEOREM OneHolder == Spec => []SlotHasOneHolder
BY Invariance, PTL DEF IInv

\* settled() never waits for a wake-up that has already been given away.
THEOREM NoLostWakeup == Spec => []WaitersAreOwedAWakeup
BY Invariance, PTL DEF IInv
==============================================================================

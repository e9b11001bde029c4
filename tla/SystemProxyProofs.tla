------------------------- MODULE SystemProxyProofs -------------------------
(***************************************************************************)
(* Proofs about SystemProxy: what is turned off stays off, guards have     *)
(* their grounds and warnings are about now, for any number of operations, *)
(* failures and platforms.                                                 *)
(*                                                                         *)
(* The operations are data: lists of steps that rewrite themselves.  The   *)
(* invariant says of these lists what must stand on them before what, and  *)
(* the first part of the module is a small theory of such lists, read from *)
(* their first step.                                                       *)
(***************************************************************************)
EXTENDS SystemProxy, SequenceTheorems, TLAPS

(* The steps of an operation, told apart by what they may stand beside: what  *)
(* applies the proxy is never on the same list as what clears it or moves the *)
(* Core; a step of the rest may stand on either.                              *)
Writing == {"compare", "write", "write2", "landed"}
Up == Writing \cup {"compensate", "failed", "capture", "apply", "serviceWrite", "refresh", "check",
                    "commit"}
Clearing == {"clear", "disable", "disableAgain", "serviceClear"}
Starts == {"startCore", "startSidecar"}
Exits == {"stopCore", "coreStopped", "dropSession"}
Down == Clearing \cup Starts \cup Exits \cup {"undoSidecar"}
Rest == {"stopGuard", "lockedDrain", "lockedWait", "drain", "wait", "invalidate"}
(* After these a proxy is still to be written. *)
Ahead == {"capture", "apply", "serviceWrite", "drain", "wait", "compare", "stopGuard",
          "lockedDrain", "lockedWait", "invalidate"}
Steps == Up \cup Down \cup Rest

(* What may stand in onError. *)
Nothing == <<>>
Dropping == <<"dropSession">>
Guarding == <<"stopGuard">>
Undo == <<"undoSidecar">>
UndoGuarded == <<"stopGuard", "undoSidecar">>
Undoing == {Undo, UndoGuarded}
Handlers == {Nothing, Dropping, Guarding} \cup Undoing

-----------------------------------------------------------------------------
(* Lists of steps, read from their first one *)

IsList(s) == s \in Seq(Steps)
Push(x, s) == <<x>> \o s

(* A step of S stands on the list. *)
Has(s, S) == \E i \in 1 .. Len(s) : s[i] \in S

(* Before each step of S on the list there is one of T. *)
Before(s, S, T) == \A i \in 1 .. Len(s) : s[i] \in S => \E j \in 1 .. (i - 1) : s[j] \in T

(* After a step of S on the list there is none of N. *)
Never(s, S, N) == \A j \in 1 .. Len(s) : \A i \in 1 .. (j - 1) : s[i] \in S => s[j] \notin N

LEMMA TwoSteps ==
  ASSUME NEW a \in Steps, NEW b \in Steps
  PROVE  <<a, b>> = <<a>> \o <<b>>
<1> DEFINE t == <<a>> \o <<b>>
<1>1. t \in Seq(Steps) /\ Len(t) = 2 /\ t[1] = a /\ t[2] = b
  OBVIOUS
<1>2. <<a, b>> \in Seq(Steps) /\ Len(<<a, b>>) = 2 /\ <<a, b>>[1] = a /\ <<a, b>>[2] = b
  OBVIOUS
<1> HIDE DEF t
<1>3. \A i \in 1 .. Len(t) : t[i] = <<a, b>>[i]
  BY <1>1, <1>2
<1>4. t = <<a, b>>
  BY <1>1, <1>2, <1>3, SeqEqual
<1> QED
  BY <1>4 DEF t

LEMMA ThreeSteps ==
  ASSUME NEW a \in Steps, NEW b \in Steps, NEW c \in Steps
  PROVE  <<a, b, c>> = <<a>> \o <<b, c>>
<1> DEFINE t == <<a>> \o <<b, c>>
<1>1. t \in Seq(Steps) /\ Len(t) = 3 /\ t[1] = a /\ t[2] = b /\ t[3] = c
  OBVIOUS
<1>2. /\ <<a, b, c>> \in Seq(Steps) /\ Len(<<a, b, c>>) = 3
      /\ <<a, b, c>>[1] = a /\ <<a, b, c>>[2] = b /\ <<a, b, c>>[3] = c
  OBVIOUS
<1> HIDE DEF t
<1>3. \A i \in 1 .. Len(t) : t[i] = <<a, b, c>>[i]
  BY <1>1, <1>2
<1>4. t = <<a, b, c>>
  BY <1>1, <1>2, <1>3, SeqEqual
<1> QED
  BY <1>4 DEF t

LEMMA PushOne ==
  ASSUME NEW s, IsList(s), NEW a \in Steps
  PROVE  <<>> \o s = s /\ <<a>> \o s = Push(a, s) /\ <<a>> = Push(a, Nothing)
BY DEF Push, IsList, Nothing

LEMMA PushTwo ==
  ASSUME NEW s, IsList(s), NEW a \in Steps, NEW b \in Steps
  PROVE  <<a, b>> \o s = Push(a, Push(b, s)) /\ <<a, b>> = Push(a, Push(b, Nothing))
<1>1. <<a>> \in Seq(Steps) /\ <<b>> \in Seq(Steps) /\ s \in Seq(Steps)
  BY DEF IsList
<1>2. (<<a>> \o <<b>>) \o s = <<a>> \o (<<b>> \o s)
  BY <1>1, ConcatAssociative
<1>3. <<b>> = <<b>> \o <<>>
  OBVIOUS
<1> QED
  BY <1>2, <1>3, TwoSteps DEF Push, Nothing

LEMMA PushThree ==
  ASSUME NEW s, IsList(s), NEW a \in Steps, NEW b \in Steps, NEW c \in Steps
  PROVE  /\ <<a, b, c>> \o s = Push(a, Push(b, Push(c, s)))
         /\ <<a, b, c>> = Push(a, Push(b, Push(c, Nothing)))
<1>1. <<a>> \in Seq(Steps) /\ <<b, c>> \in Seq(Steps) /\ s \in Seq(Steps)
  BY DEF IsList
<1>2. (<<a>> \o <<b, c>>) \o s = <<a>> \o (<<b, c>> \o s)
  BY <1>1, ConcatAssociative
<1>3. <<b, c>> \o s = Push(b, Push(c, s)) /\ <<b, c>> = Push(b, Push(c, Nothing))
  BY PushTwo
<1>4. <<a, b, c>> = <<a>> \o <<b, c>>
  BY ThreeSteps
<1>5. <<a, b, c>> \o s = Push(a, <<b, c>> \o s)
  BY <1>2, <1>4 DEF Push
<1>6. <<a, b, c>> = Push(a, <<b, c>>)
  BY <1>4 DEF Push
<1> QED
  BY <1>3, <1>5, <1>6

LEMMA PushIsList ==
  ASSUME NEW s \in Seq(Steps), NEW x \in Steps
  PROVE  /\ Push(x, s) \in Seq(Steps)
         /\ Push(x, s) # <<>>
         /\ Head(Push(x, s)) = x
         /\ Tail(Push(x, s)) = s
BY DEF Push

LEMMA ListIsPush ==
  ASSUME NEW s \in Seq(Steps), s # <<>>
  PROVE  /\ s = Push(Head(s), Tail(s))
         /\ Head(s) \in Steps
         /\ Tail(s) \in Seq(Steps)
<1>1. Tail(s) \in Seq(Steps) /\ Head(s) \in Steps
  OBVIOUS
<1>2. s = Push(Head(s), Tail(s))
  BY DEF Push
<1> QED
  BY <1>1, <1>2

LEMMA PushHas ==
  ASSUME NEW s \in Seq(Steps), NEW x \in Steps, NEW S
  PROVE  Has(Push(x, s), S) <=> x \in S \/ Has(s, S)
<1> DEFINE t == Push(x, s)
<1>1. t \in Seq(Steps) /\ Len(t) = Len(s) + 1 /\ t[1] = x
  BY DEF Push
<1>2. \A i \in 1 .. Len(s) : t[i + 1] = s[i]
  BY DEF Push
<1>3. \A i \in 1 .. Len(t) : i = 1 \/ (i - 1 \in 1 .. Len(s) /\ t[i] = s[i - 1])
  BY DEF Push
<1> HIDE DEF t
<1>4. ASSUME Has(t, S)
      PROVE  x \in S \/ Has(s, S)
  BY <1>1, <1>3, <1>4 DEF Has
<1>5. ASSUME x \in S \/ Has(s, S)
      PROVE  Has(t, S)
  BY <1>1, <1>2, <1>5 DEF Has
<1> QED
  BY <1>4, <1>5 DEF t

LEMMA PushBefore ==
  ASSUME NEW s \in Seq(Steps), NEW x \in Steps, NEW S, NEW T
  PROVE  Before(Push(x, s), S, T) <=> x \notin S /\ (x \in T \/ Before(s, S, T))
<1> DEFINE t == Push(x, s)
<1>1. t \in Seq(Steps) /\ Len(t) = Len(s) + 1 /\ t[1] = x
  BY DEF Push
<1>2. \A i \in 1 .. Len(s) : i + 1 \in 1 .. Len(t) /\ t[i + 1] = s[i]
  BY DEF Push
<1>3. \A i \in 1 .. Len(t) : i = 1 \/ (i - 1 \in 1 .. Len(s) /\ t[i] = s[i - 1])
  BY DEF Push
<1> HIDE DEF t
<1>4. ASSUME Before(t, S, T)
      PROVE  x \notin S
  BY <1>1, <1>4 DEF Before
<1>5. ASSUME Before(t, S, T), x \notin T
      PROVE  Before(s, S, T)
  <2> SUFFICES ASSUME NEW i \in 1 .. Len(s), s[i] \in S
               PROVE  \E j \in 1 .. (i - 1) : s[j] \in T
    BY DEF Before
  <2>1. PICK j \in 1 .. i : t[j] \in T
    BY <1>2, <1>5 DEF Before
  <2>2. j # 1
    BY <2>1, <1>1, <1>5
  <2>3. j - 1 \in 1 .. (i - 1) /\ s[j - 1] \in T
    BY <2>1, <2>2, <1>1, <1>3
  <2> QED
    BY <2>3
<1>6. ASSUME x \notin S, x \in T \/ Before(s, S, T)
      PROVE  Before(t, S, T)
  <2> SUFFICES ASSUME NEW i \in 1 .. Len(t), t[i] \in S
               PROVE  \E j \in 1 .. (i - 1) : t[j] \in T
    BY DEF Before
  <2>1. i # 1 /\ i - 1 \in 1 .. Len(s) /\ s[i - 1] \in S
    BY <1>1, <1>3, <1>6
  <2>2. CASE x \in T
    BY <2>1, <2>2, <1>1
  <2>3. CASE Before(s, S, T)
    <3>1. PICK j \in 1 .. (i - 1 - 1) : s[j] \in T
      BY <2>1, <2>3 DEF Before
    <3>2. j + 1 \in 1 .. (i - 1) /\ j \in 1 .. Len(s)
      BY <3>1, <2>1, <1>1
    <3>3. t[j + 1] \in T
      BY <3>1, <3>2, <1>2
    <3> QED
      BY <3>2, <3>3
  <2> QED
    BY <2>2, <2>3, <1>6
<1> QED
  BY <1>4, <1>5, <1>6 DEF t

LEMMA PushNever ==
  ASSUME NEW s \in Seq(Steps), NEW x \in Steps, NEW S, NEW N
  PROVE  Never(Push(x, s), S, N) <=> Never(s, S, N) /\ (x \in S => ~Has(s, N))
<1> DEFINE t == Push(x, s)
<1>1. t \in Seq(Steps) /\ Len(t) = Len(s) + 1 /\ t[1] = x
  BY DEF Push
<1>2. \A i \in 1 .. Len(s) : i + 1 \in 1 .. Len(t) /\ t[i + 1] = s[i]
  BY DEF Push
<1>3. \A i \in 1 .. Len(t) : i = 1 \/ (i - 1 \in 1 .. Len(s) /\ t[i] = s[i - 1])
  BY DEF Push
<1> HIDE DEF t
<1>4. ASSUME Never(t, S, N)
      PROVE  Never(s, S, N)
  <2> SUFFICES ASSUME NEW j \in 1 .. Len(s), NEW i \in 1 .. (j - 1), s[i] \in S
               PROVE  s[j] \notin N
    BY DEF Never
  <2>1. j + 1 \in 1 .. Len(t) /\ i + 1 \in 1 .. (j + 1 - 1)
    BY <1>2
  <2>2. t[i + 1] = s[i] /\ t[j + 1] = s[j]
    BY <1>2
  <2> QED
    BY <2>1, <2>2, <1>4 DEF Never
<1>5. ASSUME Never(t, S, N), x \in S, Has(s, N)
      PROVE  FALSE
  <2>1. PICK i \in 1 .. Len(s) : s[i] \in N
    BY <1>5 DEF Has
  <2>2. i + 1 \in 1 .. Len(t) /\ 1 \in 1 .. (i + 1 - 1) /\ t[i + 1] \in N
    BY <2>1, <1>2
  <2> QED
    BY <2>2, <1>1, <1>5 DEF Never
<1>6. ASSUME Never(s, S, N), x \in S => ~Has(s, N)
      PROVE  Never(t, S, N)
  <2> SUFFICES ASSUME NEW j \in 1 .. Len(t), NEW i \in 1 .. (j - 1), t[i] \in S
               PROVE  t[j] \notin N
    BY DEF Never
  <2>1. j - 1 \in 1 .. Len(s) /\ t[j] = s[j - 1]
    BY <1>1, <1>3
  <2>2. CASE i = 1
    BY <2>1, <2>2, <1>1, <1>6 DEF Has
  <2>3. CASE i # 1
    <3>1. i - 1 \in 1 .. (j - 1 - 1) /\ t[i] = s[i - 1]
      BY <2>3, <1>1, <1>3
    <3> QED
      BY <2>1, <3>1, <1>6 DEF Never
  <2> QED
    BY <2>2, <2>3
<1> QED
  BY <1>4, <1>5, <1>6 DEF t

LEMMA EmptyList ==
  <<>> \in Seq(Steps)
PROOF OBVIOUS

LEMMA EmptyHas ==
  ASSUME NEW S
  PROVE  ~Has(<<>>, S)
BY DEF Has

LEMMA EmptyBefore ==
  ASSUME NEW S, NEW T
  PROVE  Before(<<>>, S, T)
BY DEF Before

LEMMA EmptyNever ==
  ASSUME NEW S, NEW N
  PROVE  Never(<<>>, S, N)
BY DEF Never

(* A list without steps of T has none of a part of T; and without steps of S  *)
(* nothing is asked of their order.                                           *)
LEMMA HasLess ==
  ASSUME NEW s, NEW S, NEW T, S \subseteq T, ~Has(s, T)
  PROVE  ~Has(s, S)
BY DEF Has

LEMMA HasNotOrder ==
  ASSUME NEW s \in Seq(Steps), NEW S, ~Has(s, S), NEW T
  PROVE  Before(s, S, T) /\ Never(s, T, S) /\ Never(s, S, T)
<1>1. \A j \in 1 .. Len(s) : \A i \in 1 .. (j - 1) : i \in 1 .. Len(s)
  OBVIOUS
<1> QED
  BY <1>1 DEF Has, Before, Never

LEMMA NothingMore ==
  ASSUME NEW s \in Seq(Steps), ~Has(s, Steps)
  PROVE  s = <<>>
<1>1. s # <<>> => 1 \in 1 .. Len(s) /\ s[1] \in Steps
  OBVIOUS
<1> QED
  BY <1>1 DEF Has


(* Lists put together from shorter ones *)
LEMMA Lists ==
  ASSUME NEW s, IsList(s), NEW a \in Steps, NEW b \in Steps
  PROVE  IsList(<<>>) /\ IsList(<<a>>) /\ IsList(<<a, b>>) /\ IsList(Push(a, s))
BY PushIsList DEF IsList

LEMMA PushConcat ==
  ASSUME NEW s, IsList(s), NEW t, IsList(t), NEW a \in Steps
  PROVE  Push(a, s) \o t = Push(a, s \o t) /\ IsList(s \o t)
<1>1. s \in Seq(Steps) /\ t \in Seq(Steps) /\ <<a>> \in Seq(Steps)
  BY DEF IsList
<1>2. (<<a>> \o s) \o t = <<a>> \o (s \o t)
  BY <1>1, ConcatAssociative
<1>3. s \o t \in Seq(Steps)
  BY <1>1
<1> QED
  BY <1>2, <1>3 DEF Push, IsList

LEMMA NothingConcat ==
  ASSUME NEW t, IsList(t)
  PROVE  Nothing \o t = t /\ t \o Nothing = t /\ IsList(Nothing)
BY DEF IsList, Nothing

LEMMA OneAnd ==
  ASSUME NEW a \in Steps, NEW t, IsList(t)
  PROVE  <<a>> \o t = Push(a, t)
BY DEF Push

LEMMA TwoAndTwo ==
  ASSUME NEW a \in Steps, NEW b \in Steps, NEW c \in Steps, NEW d \in Steps
  PROVE  <<a, b>> \o <<c, d>> = Push(a, Push(b, Push(c, Push(d, Nothing))))
<1>1. IsList(Nothing)
  BY EmptyList DEF IsList, Nothing
<1>2. IsList(<<c, d>>)
  BY <1>1, Lists
<1>3. <<c, d>> = Push(c, Push(d, Nothing))
  BY <1>1, PushTwo
<1>4. <<a, b>> \o <<c, d>> = Push(a, Push(b, <<c, d>>))
  BY <1>2, PushTwo
<1> QED
  BY <1>3, <1>4, Zenon

LEMMA TwoAndOne ==
  ASSUME NEW a \in Steps, NEW b \in Steps, NEW c \in Steps
  PROVE  <<a, b>> \o <<c>> = Push(a, Push(b, Push(c, Nothing)))
<1>1. IsList(Nothing)
  BY EmptyList DEF IsList, Nothing
<1>2. IsList(<<c>>)
  BY <1>1, Lists
<1>3. <<c>> = Push(c, Nothing)
  BY <1>1, PushOne
<1>4. <<a, b>> \o <<c>> = Push(a, Push(b, <<c>>))
  BY <1>2, PushTwo
<1> QED
  BY <1>3, <1>4, Zenon

LEMMA OneAndTwo ==
  ASSUME NEW a \in Steps, NEW b \in Steps, NEW c \in Steps
  PROVE  <<a>> \o <<b, c>> = Push(a, Push(b, Push(c, Nothing)))
<1>1. IsList(Nothing)
  BY EmptyList DEF IsList, Nothing
<1>2. IsList(<<b, c>>)
  BY <1>1, Lists
<1>3. <<b, c>> = Push(b, Push(c, Nothing))
  BY <1>1, PushTwo
<1>4. <<a>> \o <<b, c>> = Push(a, <<b, c>>)
  BY DEF Push
<1> QED
  BY <1>3, <1>4, Zenon

LEMMA OneAndOne ==
  ASSUME NEW a \in Steps, NEW b \in Steps
  PROVE  <<a>> \o <<b>> = Push(a, Push(b, Nothing))
<1>1. IsList(Nothing)
  BY EmptyList DEF IsList, Nothing
<1>2. <<b>> = Push(b, Nothing)
  BY <1>1, PushOne
<1>3. <<a>> \o <<b>> = Push(a, <<b>>)
  BY DEF Push
<1> QED
  BY <1>2, <1>3, Zenon

LEMMA OneTwoOne ==
  ASSUME NEW a \in Steps, NEW b \in Steps, NEW c \in Steps, NEW d \in Steps
  PROVE  (<<a>> \o <<b, c>>) \o <<d>> = Push(a, Push(b, Push(c, Push(d, Nothing))))
<1>1. IsList(Nothing)
  BY EmptyList DEF IsList, Nothing
<1>2. IsList(<<b, c>>) /\ IsList(<<d>>)
  BY <1>1, Lists
<1>3. <<a>> \o <<b, c>> = Push(a, <<b, c>>)
  BY DEF Push
<1>4. Push(a, <<b, c>>) \o <<d>> = Push(a, <<b, c>> \o <<d>>)
  BY <1>2, PushConcat
<1>5. <<b, c>> \o <<d>> = Push(b, Push(c, Push(d, Nothing)))
  BY TwoAndOne
<1> QED
  BY <1>3, <1>4, <1>5, Zenon

LEMMA TwoTwoOne ==
  ASSUME NEW a \in Steps, NEW b \in Steps, NEW c \in Steps, NEW d \in Steps, NEW e \in Steps,
         NEW t, IsList(t)
  PROVE  (<<a, b>> \o <<c, d>> \o <<e>>) \o t = Push(a, Push(b, Push(c, Push(d, Push(e, t)))))
<1>1. IsList(Nothing)
  BY EmptyList DEF IsList, Nothing
<1>2. IsList(<<a, b>>) /\ IsList(<<c, d>>) /\ IsList(<<e>>)
  BY <1>1, Lists
<1>3. IsList(<<a, b>> \o <<c, d>>)
  BY <1>2, PushConcat
<1>4. (<<a, b>> \o <<c, d>> \o <<e>>) \o t = (<<a, b>> \o <<c, d>>) \o (<<e>> \o t)
  BY <1>2, <1>3, ConcatAssociative DEF IsList
<1>5. <<e>> \o t = Push(e, t) /\ IsList(Push(e, t))
  BY Lists, PushOne
<1>6. (<<a, b>> \o <<c, d>>) \o Push(e, t) = <<a, b>> \o (<<c, d>> \o Push(e, t))
  BY <1>2, <1>5, ConcatAssociative DEF IsList
<1>7. <<c, d>> \o Push(e, t) = Push(c, Push(d, Push(e, t)))
  BY <1>5, PushTwo
<1>8. IsList(Push(c, Push(d, Push(e, t))))
  BY <1>5, Lists
<1>9. <<a, b>> \o Push(c, Push(d, Push(e, t))) = Push(a, Push(b, Push(c, Push(d, Push(e, t)))))
  BY <1>8, PushTwo
<1> QED
  BY <1>4, <1>5, <1>6, <1>7, <1>9, Zenon

LEMMA EmptyAnd ==
  ASSUME NEW a \in Steps, NEW b \in Steps
  PROVE  /\ <<>> \o <<a, b>> = Push(a, Push(b, Nothing))
         /\ <<>> \o <<a>> = Push(a, Nothing)
<1>1. IsList(Nothing)
  BY EmptyList DEF IsList, Nothing
<1>2. <<a, b>> = Push(a, Push(b, Nothing)) /\ <<a>> = Push(a, Nothing)
  BY <1>1, PushOne, PushTwo
<1>3. <<>> \o <<a, b>> = <<a, b>> /\ <<>> \o <<a>> = <<a>>
  OBVIOUS
<1> QED
  BY <1>2, <1>3, Zenon

LEMMA ThreeAre ==
  ASSUME NEW a \in Steps, NEW b \in Steps, NEW c \in Steps
  PROVE  <<a, b, c>> = Push(a, Push(b, Push(c, Nothing)))
<1>1. IsList(Nothing)
  BY EmptyList DEF IsList, Nothing
<1> QED
  BY <1>1, PushThree

-----------------------------------------------------------------------------
(* The inductive invariant.  Most of its parts say: something holds already   *)
(* when a step of the list is reached, or another step before it brings it.   *)

(* These must not meet a write of the local guard. *)
Quiet == Writing \cup {"serviceWrite", "disable", "disableAgain"}
(* These need a Core that does not run with the Service. *)
Ends == {"coreStopped", "undoSidecar"}
(* These leave loops behind that are not current. *)
Retiring == {"stopCore", "dropSession", "serviceWrite", "serviceClear", "refresh"}

Rises(s) == Has(s, Up)
Falls(s) == Has(s, Down)
HasStart(s) == Has(s, {"startCore"})
HasBegin(s) == Has(s, Starts)
HasEnd(s) == Has(s, Ends)
HasWriting(s) == Has(s, Writing)
HasLocal(s) == Has(s, Writing \cup {"disable", "disableAgain"})
HasWrite(s) == Has(s, Writing \cup {"serviceWrite"})
HasAgain(s) == Has(s, Writing \cup {"serviceWrite", "refresh", "wait"})
HasServiceClear(s) == Has(s, {"serviceClear"})
HasRefresh(s) == Has(s, {"refresh"})
HasLanded(s) == Has(s, {"landed"})

StopsFirst(s) == Before(s, Starts, {"stopCore"})
UnguardsExits(s) == Before(s, Exits, {"stopGuard", "lockedDrain", "drain", "clear"})
UnguardsClears(s) == Before(s, Clearing, {"stopGuard", "lockedDrain"})
Drains(s) == Before(s, Quiet \cup {"wait"}, {"drain"})
Waits(s) == Before(s, Quiet, {"drain", "wait"})
Invalidates(s) == Before(s, Retiring, {"stopGuard", "invalidate"})
InvalidatesClears(s) == Before(s, Clearing, {"stopGuard"})
AppliesFirst(s) == Before(s, {"refresh"}, {"apply"})
WritesFirst(s) == Before(s, {"landed"}, {"write"})
WritesSecond(s) == Before(s, {"landed"}, {"write2"})

StartsLast(s) == Never(s, Starts, Steps)
RefreshesLast(s) ==
  Never(s, {"capture", "refresh"}, Writing \cup {"serviceWrite", "refresh", "wait"})
LandsLast(s) == Never(s, Ahead, {"landed"})

(* The lists: a list that leads up to a proxy has no step down; a start is    *)
(* the last step of its list; a proxy is written and refreshed once.          *)
ListsOK ==
  /\ IsList(todo) /\ onError \in Handlers
  /\ ~(Rises(todo) /\ Falls(todo))
  /\ Rises(todo) => onError \in {Nothing, Undo}
  /\ HasStart(todo) => onError = Nothing
  /\ HasBegin(todo) => onError \in {Nothing, Undo}
  /\ StartsLast(todo) /\ RefreshesLast(todo) /\ LandsLast(todo)

NoCurrent == \A l \in loops : ~Current(l)

(* The Core: where it runs, and what the steps on the list take for granted. *)
SessionIsServices == mode # "service" => session = 0
SessionIsOld == session <= ops
DeadIsSidecar == died => mode = "sidecar"
RefreshHasACore == HasRefresh(todo) => mode # "none" \/ wanted.kind = "off"
WritesAreLocal == HasLocal(todo) => Route = "local"
EndsNoService == HasEnd(todo) \/ onError \in Undoing => mode # "service"
StartsFromNone == mode = "none" \/ StopsFirst(todo)
ModeOK ==
  /\ SessionIsServices /\ SessionIsOld /\ DeadIsSidecar /\ RefreshHasACore /\ WritesAreLocal
  /\ EndsNoService /\ StartsFromNone

(* The local guard: it is off when the Core goes, and while others write. *)
GuardIsLocal == guardOn => mode # "none" /\ Route = "local"
RestartIsLocal == HasWriting(todo) => (wasOn => mode # "none" /\ ~warned)
ExitsUnguarded == ~guardOn \/ UnguardsExits(todo)
DropsUnguarded == onError # Dropping \/ ~guardOn \/ UnguardsClears(todo)
WritesUnguarded == ~guardOn \/ Drains(todo)
ServiceUnguarded == HasServiceClear(todo) => ~guardOn
NoLateWrite == ~guardOn /\ (drained => guardWrite = "none")
WritesAreQuiet == NoLateWrite \/ Waits(todo)
LandsQuietly == HasLanded(todo) => NoLateWrite
GuardKnowsLanded == guardType \in {"none", landed}
GuardOK ==
  /\ GuardIsLocal /\ RestartIsLocal /\ ExitsUnguarded /\ DropsUnguarded /\ WritesUnguarded
  /\ ServiceUnguarded /\ WritesAreQuiet /\ LandsQuietly /\ GuardKnowsLanded

(* The loops: one is current, and has the session that there is. *)
LoopsAreSound ==
  \A l \in loops :
    /\ l.gen <= gen /\ platform = "macos" /\ l.session \in 1 .. ops
    /\ l.phase # "reports" => l.fails < MaxLoops
    /\ Current(l) => mode = "service" /\ l.session = session
OneIsCurrent == \A l, m \in loops : Current(l) /\ Current(m) => l = m
InvalidatedBefore == NoCurrent \/ Invalidates(todo)
DropsInvalidated == onError # Dropping \/ NoCurrent \/ InvalidatesClears(todo)
StartsAreNew == HasStart(todo) => \A l \in loops : l.session < ops
WarnedIsGone == warned => ~guardOn /\ NoCurrent
LoopOK ==
  /\ LoopsAreSound /\ OneIsCurrent /\ InvalidatedBefore /\ DropsInvalidated /\ StartsAreNew
  /\ WarnedIsGone

(* The proxy: nobody is left who would switch on what was switched off. *)
NobodyWrites ==
  /\ os = {} /\ guardWrite = "none" /\ (guardOn => guardType = "none") /\ NoCurrent
  /\ \A l \in loops : l.phase = "calls" => l.session # session
OffIsQuiet == off = "written" => NobodyWrites
WritesTheGoal == HasWrite(todo) => goal = wanted /\ (off = "written" => goal.kind = "off")
RefreshIsAsked == (off = "written" => wanted.kind = "off") \/ AppliesFirst(todo)
ToldOff == drained /\ off # "skipped" /\ goal.kind = "off"
SysGoesOff == (ToldOff => "sys" \notin os) \/ WritesFirst(todo)
PacGoesOff == (ToldOff => "pac" \notin os) \/ WritesSecond(todo)
OffOK == OffIsQuiet /\ WritesTheGoal /\ RefreshIsAsked /\ SysGoesOff /\ PacGoesOff

IInv == TypeOK /\ ListsOK /\ ModeOK /\ GuardOK /\ LoopOK /\ OffOK

-----------------------------------------------------------------------------
(* What a step on top of a list adds to it *)

USE DEF outside, setVars, coreVars, eventVars, guards, localVars, loopVars, control, book, memory,
        history
USE DEF Writing, Up, Clearing, Starts, Exits, Down, Rest, Ahead, Quiet, Ends, Retiring

LEMMA PushList ==
  ASSUME NEW s, IsList(s), NEW x \in Steps
  PROVE  IsList(Push(x, s))
BY PushIsList DEF IsList

LEMMA PushAdds ==
  ASSUME NEW s, IsList(s), NEW x \in Steps
  PROVE  /\ Rises(Push(x, s)) <=> x \in Up \/ Rises(s)
         /\ Falls(Push(x, s)) <=> x \in Down \/ Falls(s)
         /\ HasStart(Push(x, s)) <=> x = "startCore" \/ HasStart(s)
         /\ HasBegin(Push(x, s)) <=> x \in Starts \/ HasBegin(s)
         /\ HasEnd(Push(x, s)) <=> x \in Ends \/ HasEnd(s)
         /\ HasWriting(Push(x, s)) <=> x \in Writing \/ HasWriting(s)
         /\ HasLocal(Push(x, s)) <=> x \in Writing \cup {"disable", "disableAgain"} \/ HasLocal(s)
         /\ HasWrite(Push(x, s)) <=> x \in Writing \cup {"serviceWrite"} \/ HasWrite(s)
         /\ HasAgain(Push(x, s)) <=>
              x \in Writing \cup {"serviceWrite", "refresh", "wait"} \/ HasAgain(s)
         /\ HasServiceClear(Push(x, s)) <=> x = "serviceClear" \/ HasServiceClear(s)
         /\ HasRefresh(Push(x, s)) <=> x = "refresh" \/ HasRefresh(s)
         /\ HasLanded(Push(x, s)) <=> x = "landed" \/ HasLanded(s)
<1>1. s \in Seq(Steps)
  BY DEF IsList
<1> QED
  BY <1>1, PushHas
     DEF Rises, Falls, HasStart, HasBegin, HasEnd, HasWriting, HasLocal, HasWrite, HasAgain,
         HasServiceClear, HasRefresh, HasLanded

LEMMA PushOrders ==
  ASSUME NEW s, IsList(s), NEW x \in Steps
  PROVE  /\ StopsFirst(Push(x, s)) <=> x \notin Starts /\ (x = "stopCore" \/ StopsFirst(s))
         /\ UnguardsExits(Push(x, s)) <=>
              /\ x \notin Exits
              /\ x \in {"stopGuard", "lockedDrain", "drain", "clear"} \/ UnguardsExits(s)
         /\ UnguardsClears(Push(x, s)) <=>
              x \notin Clearing /\ (x \in {"stopGuard", "lockedDrain"} \/ UnguardsClears(s))
         /\ Drains(Push(x, s)) <=> x \notin Quiet \cup {"wait"} /\ (x = "drain" \/ Drains(s))
         /\ Waits(Push(x, s)) <=> x \notin Quiet /\ (x \in {"drain", "wait"} \/ Waits(s))
         /\ Invalidates(Push(x, s)) <=>
              x \notin Retiring /\ (x \in {"stopGuard", "invalidate"} \/ Invalidates(s))
         /\ InvalidatesClears(Push(x, s)) <=>
              x \notin Clearing /\ (x = "stopGuard" \/ InvalidatesClears(s))
         /\ AppliesFirst(Push(x, s)) <=> x # "refresh" /\ (x = "apply" \/ AppliesFirst(s))
         /\ WritesFirst(Push(x, s)) <=> x # "landed" /\ (x = "write" \/ WritesFirst(s))
         /\ WritesSecond(Push(x, s)) <=> x # "landed" /\ (x = "write2" \/ WritesSecond(s))
<1>0. s \in Seq(Steps)
  BY DEF IsList
<1>1. StopsFirst(Push(x, s)) <=> x \notin Starts /\ (x = "stopCore" \/ StopsFirst(s))
  BY <1>0, PushBefore DEF StopsFirst
<1>2. UnguardsExits(Push(x, s)) <=>
        x \notin Exits /\ (x \in {"stopGuard", "lockedDrain", "drain", "clear"} \/ UnguardsExits(s))
  BY <1>0, PushBefore DEF UnguardsExits
<1>3. UnguardsClears(Push(x, s)) <=>
        x \notin Clearing /\ (x \in {"stopGuard", "lockedDrain"} \/ UnguardsClears(s))
  BY <1>0, PushBefore DEF UnguardsClears
<1>4. Drains(Push(x, s)) <=> x \notin Quiet \cup {"wait"} /\ (x = "drain" \/ Drains(s))
  BY <1>0, PushBefore DEF Drains
<1>5. Waits(Push(x, s)) <=> x \notin Quiet /\ (x \in {"drain", "wait"} \/ Waits(s))
  BY <1>0, PushBefore DEF Waits
<1>6. Invalidates(Push(x, s)) <=>
        x \notin Retiring /\ (x \in {"stopGuard", "invalidate"} \/ Invalidates(s))
  BY <1>0, PushBefore DEF Invalidates
<1>7. InvalidatesClears(Push(x, s)) <=>
        x \notin Clearing /\ (x = "stopGuard" \/ InvalidatesClears(s))
  BY <1>0, PushBefore DEF InvalidatesClears
<1>8. AppliesFirst(Push(x, s)) <=> x # "refresh" /\ (x = "apply" \/ AppliesFirst(s))
  BY <1>0, PushBefore DEF AppliesFirst
<1>9. WritesFirst(Push(x, s)) <=> x # "landed" /\ (x = "write" \/ WritesFirst(s))
  BY <1>0, PushBefore DEF WritesFirst
<1>10. WritesSecond(Push(x, s)) <=> x # "landed" /\ (x = "write2" \/ WritesSecond(s))
  BY <1>0, PushBefore DEF WritesSecond
<1> QED
  BY <1>1, <1>2, <1>3, <1>4, <1>5, <1>6, <1>7, <1>8, <1>9, <1>10

LEMMA PushEnds ==
  ASSUME NEW s, IsList(s), NEW x \in Steps
  PROVE  /\ StartsLast(Push(x, s)) <=> StartsLast(s) /\ (x \in Starts => s = Nothing)
         /\ RefreshesLast(Push(x, s)) <=>
              RefreshesLast(s) /\ (x \in {"capture", "refresh"} => ~HasAgain(s))
         /\ LandsLast(Push(x, s)) <=> LandsLast(s) /\ (x \in Ahead => ~HasLanded(s))
<1>0. s \in Seq(Steps)
  BY DEF IsList
<1>1. ~Has(s, Steps) <=> s = Nothing
  BY <1>0, NothingMore, EmptyHas DEF Nothing
<1>2. StartsLast(Push(x, s)) <=> StartsLast(s) /\ (x \in Starts => ~Has(s, Steps))
  BY <1>0, PushNever DEF StartsLast
<1>3. RefreshesLast(Push(x, s)) <=>
        RefreshesLast(s) /\ (x \in {"capture", "refresh"} => ~HasAgain(s))
  BY <1>0, PushNever DEF RefreshesLast, HasAgain
<1>4. LandsLast(Push(x, s)) <=> LandsLast(s) /\ (x \in Ahead => ~HasLanded(s))
  BY <1>0, PushNever DEF LandsLast, HasLanded
<1> QED
  BY <1>1, <1>2, <1>3, <1>4

LEMMA NothingStands ==
  /\ IsList(Nothing)
  /\ ~Rises(Nothing) /\ ~Falls(Nothing) /\ ~HasStart(Nothing) /\ ~HasBegin(Nothing)
  /\ ~HasEnd(Nothing) /\ ~HasWriting(Nothing)
  /\ ~HasLocal(Nothing) /\ ~HasWrite(Nothing) /\ ~HasAgain(Nothing) /\ ~HasServiceClear(Nothing)
  /\ ~HasRefresh(Nothing) /\ ~HasLanded(Nothing)
  /\ StopsFirst(Nothing) /\ UnguardsExits(Nothing) /\ UnguardsClears(Nothing) /\ Drains(Nothing)
  /\ Waits(Nothing) /\ Invalidates(Nothing) /\ InvalidatesClears(Nothing)
  /\ AppliesFirst(Nothing) /\ WritesFirst(Nothing) /\ WritesSecond(Nothing)
  /\ StartsLast(Nothing) /\ RefreshesLast(Nothing) /\ LandsLast(Nothing)
<1>1. /\ ~Rises(Nothing) /\ ~Falls(Nothing) /\ ~HasStart(Nothing) /\ ~HasBegin(Nothing)
      /\ ~HasEnd(Nothing) /\ ~HasWriting(Nothing)
      /\ ~HasLocal(Nothing) /\ ~HasWrite(Nothing) /\ ~HasAgain(Nothing) /\ ~HasServiceClear(Nothing)
      /\ ~HasRefresh(Nothing) /\ ~HasLanded(Nothing)
  BY EmptyHas, Zenon
     DEF Nothing, Rises, Falls, HasStart, HasBegin, HasEnd, HasWriting, HasLocal, HasWrite,
         HasAgain, HasServiceClear, HasRefresh, HasLanded
<1>2. /\ StopsFirst(Nothing) /\ UnguardsExits(Nothing) /\ UnguardsClears(Nothing) /\ Drains(Nothing)
      /\ Waits(Nothing) /\ Invalidates(Nothing) /\ InvalidatesClears(Nothing)
      /\ AppliesFirst(Nothing) /\ WritesFirst(Nothing) /\ WritesSecond(Nothing)
  BY EmptyBefore, Zenon
     DEF Nothing, StopsFirst, UnguardsExits, UnguardsClears, Drains, Waits, Invalidates,
         InvalidatesClears, AppliesFirst, WritesFirst, WritesSecond
<1>3. StartsLast(Nothing) /\ RefreshesLast(Nothing) /\ LandsLast(Nothing)
  BY EmptyNever, Zenon DEF Nothing, StartsLast, RefreshesLast, LandsLast
<1> QED
  BY <1>1, <1>2, <1>3, EmptyList DEF IsList, Nothing

(* A list that does not lead down, and one that does not lead up *)
LEMMA NotDown ==
  ASSUME NEW s, IsList(s), ~Falls(s)
  PROVE  /\ ~HasStart(s) /\ ~HasBegin(s) /\ ~HasEnd(s) /\ ~HasServiceClear(s)
         /\ StopsFirst(s) /\ UnguardsExits(s) /\ UnguardsClears(s) /\ InvalidatesClears(s)
         /\ ~HasAgain(s) => Drains(s) /\ Waits(s) /\ Invalidates(s)
<1>1. ~Has(s, Down)
  BY DEF Falls
<1>2. ~HasStart(s) /\ ~HasBegin(s) /\ ~HasEnd(s) /\ ~HasServiceClear(s)
  BY <1>1, HasLess DEF HasStart, HasBegin, HasEnd, HasServiceClear
<1>3. ~Has(s, Starts) /\ ~Has(s, Exits) /\ ~Has(s, Clearing)
  BY <1>1, HasLess
<1>4. StopsFirst(s) /\ UnguardsExits(s) /\ UnguardsClears(s) /\ InvalidatesClears(s)
  BY <1>3, HasNotOrder, Zenon
     DEF IsList, StopsFirst, UnguardsExits, UnguardsClears, InvalidatesClears
<1>5. ASSUME ~HasAgain(s)
      PROVE  Drains(s) /\ Waits(s) /\ Invalidates(s)
  <2>1. ~Has(s, Down \cup (Writing \cup {"serviceWrite", "refresh", "wait"}))
    BY <1>1, <1>5 DEF Has, HasAgain
  <2>2. ~Has(s, Quiet \cup {"wait"}) /\ ~Has(s, Quiet) /\ ~Has(s, Retiring)
    BY <2>1, HasLess
  <2> QED
    BY <2>2, HasNotOrder, Zenon DEF IsList, Drains, Waits, Invalidates
<1> QED
  BY <1>2, <1>4, <1>5

LEMMA NotUp ==
  ASSUME NEW s, IsList(s), ~Rises(s)
  PROVE  /\ ~HasWriting(s) /\ ~HasWrite(s) /\ ~HasRefresh(s) /\ ~HasLanded(s)
         /\ AppliesFirst(s) /\ WritesFirst(s) /\ WritesSecond(s) /\ RefreshesLast(s) /\ LandsLast(s)
<1>1. ~Has(s, Up)
  BY DEF Rises
<1>2. ~HasWriting(s) /\ ~HasWrite(s) /\ ~HasRefresh(s) /\ ~HasLanded(s)
  BY <1>1, HasLess DEF HasWriting, HasWrite, HasRefresh, HasLanded
<1>3. ~Has(s, {"refresh"}) /\ ~Has(s, {"landed"}) /\ ~Has(s, {"capture", "refresh"})
  BY <1>1, HasLess
<1>4. AppliesFirst(s) /\ WritesFirst(s) /\ WritesSecond(s) /\ RefreshesLast(s) /\ LandsLast(s)
  BY <1>3, HasNotOrder, Zenon
     DEF IsList, AppliesFirst, WritesFirst, WritesSecond, RefreshesLast, LandsLast
<1> QED
  BY <1>2, <1>4

LEMMA NotAgain ==
  ASSUME NEW s, IsList(s), ~HasAgain(s)
  PROVE  /\ ~HasWriting(s) /\ ~HasWrite(s) /\ ~HasRefresh(s) /\ ~HasLanded(s)
         /\ AppliesFirst(s) /\ WritesFirst(s) /\ WritesSecond(s)
<1>1. ~HasWriting(s) /\ ~HasWrite(s) /\ ~HasRefresh(s) /\ ~HasLanded(s)
  BY HasLess DEF HasAgain, HasWriting, HasWrite, HasRefresh, HasLanded
<1>2. AppliesFirst(s) /\ WritesFirst(s) /\ WritesSecond(s)
  BY <1>1, HasNotOrder, Zenon
     DEF IsList, HasRefresh, HasLanded, AppliesFirst, WritesFirst, WritesSecond
<1> QED
  BY <1>1, <1>2

LEMMA NotLanded ==
  ASSUME NEW s, IsList(s), ~HasLanded(s)
  PROVE  WritesFirst(s) /\ WritesSecond(s)
BY HasNotOrder, Zenon DEF IsList, HasLanded, WritesFirst, WritesSecond

(* What may stand in onError applies no proxy, clears none and starts no Core. *)
Bare(s) ==
  /\ IsList(s)
  /\ ~Rises(s) /\ ~HasStart(s) /\ ~HasBegin(s) /\ ~HasLocal(s) /\ ~HasAgain(s)
  /\ ~HasServiceClear(s) /\ ~HasLanded(s)
  /\ StopsFirst(s) /\ UnguardsClears(s) /\ Drains(s) /\ Waits(s) /\ InvalidatesClears(s)
  /\ StartsLast(s) /\ RefreshesLast(s) /\ LandsLast(s)

LEMMA HandlersAre ==
  ASSUME NEW e \in Handlers
  PROVE  /\ Bare(e)
         /\ e = Dropping \/ (UnguardsExits(e) /\ Invalidates(e))
         /\ e \in Undoing \/ ~HasEnd(e)
<1>1. "dropSession" \in Steps /\ "stopGuard" \in Steps /\ "undoSidecar" \in Steps
  BY DEF Steps
<1>2. /\ Dropping = Push("dropSession", Nothing) /\ Guarding = Push("stopGuard", Nothing)
      /\ Undo = Push("undoSidecar", Nothing)
      /\ UndoGuarded = Push("stopGuard", Push("undoSidecar", Nothing))
  BY <1>1, NothingStands, PushOne, PushTwo DEF Dropping, Guarding, Undo, UndoGuarded
<1> DEFINE Exiting(s) == UnguardsExits(s) /\ Invalidates(s)
<1>3. Bare(Nothing) /\ Exiting(Nothing) /\ ~HasEnd(Nothing)
  BY NothingStands DEF Bare
<1>4. Bare(Push("dropSession", Nothing)) /\ ~HasEnd(Push("dropSession", Nothing))
  BY <1>1, NothingStands, PushList, PushAdds, PushOrders, PushEnds DEF Bare
<1>5. /\ Bare(Push("stopGuard", Nothing)) /\ ~HasEnd(Push("stopGuard", Nothing))
      /\ Exiting(Push("stopGuard", Nothing))
  <2>1. Bare(Push("stopGuard", Nothing)) /\ ~HasEnd(Push("stopGuard", Nothing))
    BY <1>1, NothingStands, PushList, PushAdds, PushOrders, PushEnds DEF Bare
  <2>2. Exiting(Push("stopGuard", Nothing))
    BY <1>1, NothingStands, PushOrders
  <2> QED
    BY <2>1, <2>2
<1>6. Bare(Push("undoSidecar", Nothing)) /\ Exiting(Push("undoSidecar", Nothing))
  <2>1. Bare(Push("undoSidecar", Nothing))
    BY <1>1, NothingStands, PushList, PushAdds, PushOrders, PushEnds DEF Bare
  <2>2. Exiting(Push("undoSidecar", Nothing))
    BY <1>1, NothingStands, PushOrders
  <2> QED
    BY <2>1, <2>2
<1>7. /\ Bare(Push("stopGuard", Push("undoSidecar", Nothing)))
      /\ Exiting(Push("stopGuard", Push("undoSidecar", Nothing)))
  <2> DEFINE u == Push("undoSidecar", Nothing)
  <2>1. Bare(u) /\ Exiting(u)
    BY <1>6
  <2> HIDE DEF u
  <2>2. Bare(Push("stopGuard", u))
    BY <1>1, <2>1, PushList, PushAdds, PushOrders, PushEnds DEF Bare
  <2>3. Exiting(Push("stopGuard", u))
    BY <1>1, <2>1, PushOrders DEF Bare
  <2> QED
    BY <2>2, <2>3 DEF u
<1>8. CASE e = Nothing
  BY <1>3, <1>8, Zenon
<1>9. CASE e = Dropping
  BY <1>2, <1>4, <1>9, Zenon
<1>10. CASE e = Guarding
  BY <1>2, <1>5, <1>10, Zenon
<1>11. CASE e = Undo
  BY <1>2, <1>6, <1>11, Zenon DEF Undoing
<1>12. CASE e = UndoGuarded
  BY <1>2, <1>7, <1>12, Zenon DEF Undoing
<1> QED
  BY <1>8, <1>9, <1>10, <1>11, <1>12 DEF Handlers, Undoing

LEMMA NoHandler ==
  /\ Nothing \in Handlers /\ Undo \in Handlers /\ Nothing \notin Undoing /\ Nothing # Dropping
  /\ Undo \in Undoing /\ Undo # Dropping
  /\ Dropping \in Handlers /\ Dropping \notin Undoing /\ Dropping # Nothing /\ Dropping # Undo
  /\ Guarding \in Handlers /\ Guarding \notin Undoing /\ Guarding # Dropping
  /\ UndoGuarded \in Handlers /\ UndoGuarded \in Undoing /\ UndoGuarded # Dropping
BY DEF Handlers, Undoing, Nothing, Dropping, Guarding, Undo, UndoGuarded

-----------------------------------------------------------------------------
(* What a step does to the lists *)

LEMMA HeadIs ==
  ASSUME IsList(todo), NEW h, At(h)
  PROVE  todo = Push(h, Tail(todo)) /\ h \in Steps /\ IsList(Tail(todo))
BY ListIsPush DEF At, IsList

LEMMA ListsSame ==
  ASSUME ListsOK, todo' = todo, onError' = onError
  PROVE  ListsOK'
BY DEF ListsOK

LEMMA ListsPop ==
  ASSUME ListsOK, NEW h \in Steps, NEW t, IsList(t), todo = Push(h, t),
         todo' = t, onError' = onError
  PROVE  ListsOK'
BY PushAdds, PushEnds DEF ListsOK

LEMMA ListsFail ==
  ASSUME ListsOK, todo' = onError, onError' = Nothing
  PROVE  ListsOK'
BY HandlersAre, NoHandler DEF ListsOK, Bare

(* What stands behind the first step of a list *)
LEMMA Behind ==
  ASSUME ListsOK, NEW h \in Steps, NEW t, IsList(t), todo = Push(h, t)
  PROVE  /\ h \in Down => ~Rises(t)
         /\ h \in Up => ~Falls(t)
         /\ h \in Ahead => ~HasLanded(t)
         /\ h \in {"capture", "refresh"} => ~HasAgain(t)
         /\ h \in Starts => t = Nothing
         /\ h \in Up => onError # Dropping
         /\ h = "startCore" => onError = Nothing
         /\ h \in Starts => onError \in {Nothing, Undo}
         /\ StartsLast(t) /\ RefreshesLast(t) /\ LandsLast(t)
BY PushAdds, PushEnds, NoHandler DEF ListsOK

LEMMA Typed ==
  ASSUME TypeOK
  PROVE  /\ guardOn \in BOOLEAN /\ wasOn \in BOOLEAN /\ drained \in BOOLEAN /\ warned \in BOOLEAN
         /\ gen \in Nat /\ ops \in Nat /\ session \in Nat /\ owner \in Nat
         /\ wanted \in Settings /\ goal \in Settings \cup {NoSetting} /\ os \subseteq Kinds
         /\ loops \subseteq Loops
BY DEF TypeOK


-----------------------------------------------------------------------------
(* A loop that goes on is the loop it was, in another phase *)
LEMMA TurnKeeps ==
  ASSUME IInv, NEW l \in loops, NEW m \in Loops, m.gen = l.gen, m.session = l.session,
         m.phase # "reports" => m.fails < MaxLoops,
         loops' = (loops \ {l}) \cup {m},
         UNCHANGED <<todo, onError, gen, mode, session, platform, ops, guardOn, warned>>
  PROVE  LoopOK'
<1>1. \A k \in loops' : k = m \/ (k \in loops /\ k # l)
  OBVIOUS
<1>2. NoCurrent => NoCurrent'
  BY <1>1 DEF NoCurrent, Current
<1>3. LoopsAreSound'
  BY <1>1 DEF IInv, LoopOK, LoopsAreSound, Current
<1>4. OneIsCurrent'
  BY <1>1 DEF IInv, LoopOK, OneIsCurrent, Current
<1>5. InvalidatedBefore' /\ DropsInvalidated'
  BY <1>2 DEF IInv, LoopOK, InvalidatedBefore, DropsInvalidated
<1>6. StartsAreNew'
  BY <1>1 DEF IInv, LoopOK, StartsAreNew
<1>7. WarnedIsGone'
  BY <1>2 DEF IInv, LoopOK, WarnedIsGone
<1> QED
  BY <1>3, <1>4, <1>5, <1>6, <1>7 DEF LoopOK

(* The same with the loop that may have been told to end instead *)
LEMMA FewerKeeps ==
  ASSUME IInv, loops' \subseteq loops,
         UNCHANGED <<todo, onError, gen, mode, session, platform, ops, guardOn, warned>>
  PROVE  LoopOK'
<1>1. NoCurrent => NoCurrent'
  BY DEF NoCurrent, Current
<1>2. LoopsAreSound' /\ OneIsCurrent'
  BY DEF IInv, LoopOK, LoopsAreSound, OneIsCurrent, Current
<1>3. InvalidatedBefore' /\ DropsInvalidated' /\ WarnedIsGone'
  BY <1>1 DEF IInv, LoopOK, InvalidatedBefore, DropsInvalidated, WarnedIsGone
<1>4. StartsAreNew'
  BY DEF IInv, LoopOK, StartsAreNew
<1> QED
  BY <1>2, <1>3, <1>4 DEF LoopOK

(* While a loop calls the Service, no step waits that writes locally. *)
LEMMA CallsMeanNoLanding ==
  ASSUME IInv, NEW l \in loops, session = l.session
  PROVE  Route = "service" /\ WritesFirst(todo) /\ WritesSecond(todo)
<1>1. session # 0 /\ mode = "service" /\ platform = "macos"
  BY Typed DEF IInv, LoopOK, LoopsAreSound, ModeOK, SessionIsServices
<1>2. ~HasLocal(todo)
  BY <1>1 DEF IInv, ModeOK, WritesAreLocal, Route
<1>3. ~HasLanded(todo)
  BY <1>2, HasLess DEF HasLocal, HasLanded
<1> QED
  BY <1>1, <1>3, NotLanded DEF IInv, ListsOK, Route

-----------------------------------------------------------------------------
(* Every action keeps the invariant.  The first step of each proof says what   *)
(* the action does to the lists, the next ones what stands on them then.      *)

LEMMA ChangeSettingKeeps ==
  ASSUME IInv, ChangeSetting
  PROVE  IInv'
<1>1. /\ todo = Nothing /\ IsList(Nothing)
      /\ \/ todo' = Push("apply", Push("stopGuard", Push("refresh", Push("commit", Nothing))))
              /\ onError' = Nothing /\ wanted'.kind = "off"
         \/ todo' = Push("capture", Push("commit", Nothing)) /\ onError' = Nothing
      /\ "apply" \in Steps /\ "stopGuard" \in Steps /\ "refresh" \in Steps /\ "commit" \in Steps
           /\ "capture" \in Steps
  <2>1. "apply" \in Steps /\ "stopGuard" \in Steps /\ "refresh" \in Steps /\ "commit" \in Steps
          /\ "capture" \in Steps
    BY DEF Steps
  <2>2. \/ todo' = (<<"apply">> \o <<"stopGuard", "refresh">>) \o <<"commit">> /\ onError' = Nothing
             /\ wanted'.kind = "off"
        \/ todo' = <<"capture">> \o <<"commit">> /\ onError' = Nothing
    BY HeadIs
       DEF IInv, ListsOK, ChangeSetting, Begin, Idle, Effect, RefreshGuard, ApplyAfterStart,
           Nothing
  <2>3. /\ (<<"apply">> \o <<"stopGuard", "refresh">>) \o <<"commit">>
             = Push("apply", Push("stopGuard", Push("refresh", Push("commit", Nothing))))
        /\ <<"capture">> \o <<"commit">> = Push("capture", Push("commit", Nothing))
    <3>1. IsList(Nothing)
      BY NothingStands
    <3>2. (<<"apply">> \o <<"stopGuard", "refresh">>) \o <<"commit">>
            = Push("apply", Push("stopGuard", Push("refresh", Push("commit", Nothing))))
      <4>1. "apply" \in Steps /\ "stopGuard" \in Steps /\ "refresh" \in Steps /\ "commit" \in Steps
        BY <2>1
      <4> QED
        BY <4>1, <3>1, OneTwoOne, OneAndOne
    <3>3. <<"capture">> \o <<"commit">> = Push("capture", Push("commit", Nothing))
      <4>1. "capture" \in Steps /\ "commit" \in Steps
        BY <2>1
      <4> QED
        BY <4>1, <3>1, OneTwoOne, OneAndOne
    <3> QED
      BY <3>2, <3>3
  <2> QED
    BY <2>1, <2>2, <2>3, NothingStands, Zenon
       DEF ChangeSetting, Begin, Idle, Effect, RefreshGuard, ApplyAfterStart, Nothing
<1>2. TypeOK'
  BY DEF IInv, TypeOK, ChangeSetting, Settings, Begin
<1>3. /\ ~Falls(todo') /\ ~HasStart(todo') /\ ~HasBegin(todo') /\ ~HasEnd(todo')
      /\ ~HasWriting(todo') /\ ~HasLocal(todo') /\ ~HasWrite(todo') /\ ~HasServiceClear(todo')
      /\ ~HasLanded(todo')
      /\ HasAgain(todo') => wanted'.kind = "off"
      /\ HasRefresh(todo') => wanted'.kind = "off"
      /\ StopsFirst(todo') /\ UnguardsExits(todo') /\ UnguardsClears(todo') /\ Drains(todo')
      /\ Waits(todo') /\ Invalidates(todo') /\ InvalidatesClears(todo') /\ AppliesFirst(todo')
      /\ WritesFirst(todo') /\ WritesSecond(todo') /\ IsList(todo') /\ StartsLast(todo')
      /\ RefreshesLast(todo') /\ LandsLast(todo')
  <2>1. "apply" \in Steps /\ "stopGuard" \in Steps /\ "refresh" \in Steps /\ "commit" \in Steps
          /\ "capture" \in Steps
    BY <1>1
  <2>2. /\ IsList(Push("commit", Nothing)) /\ IsList(Push("refresh", Push("commit", Nothing)))
        /\ IsList(Push("stopGuard", Push("refresh", Push("commit", Nothing))))
        /\ IsList(Push("apply", Push("stopGuard", Push("refresh", Push("commit", Nothing)))))
        /\ IsList(Push("capture", Push("commit", Nothing)))
    <3>1. IsList(Push("commit", Nothing))
      BY <2>1, NothingStands, PushList
    <3>2. IsList(Push("refresh", Push("commit", Nothing)))
      BY <2>1, <3>1, NothingStands, PushList
    <3>3. IsList(Push("stopGuard", Push("refresh", Push("commit", Nothing))))
      BY <2>1, <3>1, <3>2, NothingStands, PushList
    <3>4. IsList(Push("apply", Push("stopGuard", Push("refresh", Push("commit", Nothing)))))
      BY <2>1, <3>1, <3>2, <3>3, NothingStands, PushList
    <3>5. IsList(Push("capture", Push("commit", Nothing)))
      BY <2>1, <3>1, <3>2, <3>3, <3>4, NothingStands, PushList
    <3> QED
      BY <3>1, <3>2, <3>3, <3>4, <3>5
  <2>3. /\ ~Falls(todo') /\ ~HasStart(todo') /\ ~HasBegin(todo') /\ ~HasEnd(todo')
        /\ ~HasWriting(todo') /\ ~HasLocal(todo') /\ ~HasWrite(todo') /\ ~HasServiceClear(todo')
        /\ ~HasLanded(todo')
        /\ HasAgain(todo') => wanted'.kind = "off"
        /\ HasRefresh(todo') => wanted'.kind = "off"
    <3>1. CASE todo' = Push("apply", Push("stopGuard", Push("refresh", Push("commit", Nothing))))
                 /\ wanted'.kind = "off"
      BY <2>1, <2>2, <3>1, PushAdds, NothingStands
    <3>2. CASE todo' = Push("capture", Push("commit", Nothing))
      BY <2>1, <2>2, <3>2, PushAdds, NothingStands
    <3> QED
      BY <1>1, <3>1, <3>2
  <2>4. /\ StopsFirst(todo') /\ UnguardsExits(todo') /\ UnguardsClears(todo') /\ Drains(todo')
        /\ Waits(todo') /\ Invalidates(todo') /\ InvalidatesClears(todo') /\ AppliesFirst(todo')
        /\ WritesFirst(todo') /\ WritesSecond(todo')
    <3>1. CASE todo' = Push("apply", Push("stopGuard", Push("refresh", Push("commit", Nothing))))
                 /\ wanted'.kind = "off"
      BY <2>1, <2>2, <3>1, PushOrders, PushAdds, NothingStands
    <3>2. CASE todo' = Push("capture", Push("commit", Nothing))
      BY <2>1, <2>2, <3>2, PushOrders, PushAdds, NothingStands
    <3> QED
      BY <1>1, <3>1, <3>2
  <2>5. /\ IsList(todo') /\ StartsLast(todo') /\ RefreshesLast(todo') /\ LandsLast(todo')
    <3>1. CASE todo' = Push("apply", Push("stopGuard", Push("refresh", Push("commit", Nothing))))
                 /\ wanted'.kind = "off"
      BY <2>1, <2>2, <3>1, PushAdds, PushEnds, NothingStands
    <3>2. CASE todo' = Push("capture", Push("commit", Nothing))
      BY <2>1, <2>2, <3>2, PushAdds, PushEnds, NothingStands
    <3> QED
      BY <1>1, <3>1, <3>2
  <2> QED
    BY <2>3, <2>4, <2>5
<1>4. ListsOK'
  BY <1>1, <1>3, NothingStands, NoHandler DEF IInv, ListsOK
<1>5. ModeOK'
  <2>1. SessionIsServices'
    BY <1>1 DEF IInv, ModeOK, SessionIsServices, ChangeSetting, Begin
  <2>2. SessionIsOld'
    BY <1>1, <1>2, Typed DEF IInv, ModeOK, SessionIsOld, ChangeSetting, Begin
  <2>3. DeadIsSidecar'
    BY <1>1 DEF IInv, ModeOK, DeadIsSidecar, ChangeSetting, Begin
  <2>4. RefreshHasACore'
    BY <1>1, <1>3, NothingStands DEF IInv, ModeOK, RefreshHasACore, ChangeSetting, Begin
  <2>5. WritesAreLocal'
    BY <1>1, <1>3, NothingStands DEF IInv, ModeOK, WritesAreLocal, Route, ChangeSetting, Begin
  <2>6. EndsNoService'
    BY <1>1, <1>3, NothingStands, NoHandler DEF IInv, ModeOK, EndsNoService, ChangeSetting, Begin
  <2>7. StartsFromNone'
    BY <1>1, <1>3, NothingStands DEF IInv, ModeOK, StartsFromNone, ChangeSetting, Begin
  <2> QED
    BY <2>1, <2>2, <2>3, <2>4, <2>5, <2>6, <2>7 DEF ModeOK
<1>6. GuardOK'
  BY <1>1, <1>3, NothingStands, NoHandler
     DEF IInv, GuardOK, GuardIsLocal, Route, RestartIsLocal, ExitsUnguarded, DropsUnguarded,
         WritesUnguarded, ServiceUnguarded, WritesAreQuiet, NoLateWrite, LandsQuietly,
         GuardKnowsLanded, ChangeSetting, Begin
<1>7. LoopOK'
  <2>1. LoopsAreSound'
    BY <1>1, <1>3, NothingStands, <1>2, Typed
       DEF IInv, LoopOK, LoopsAreSound, Current, ChangeSetting, Begin, ModeOK, StartsFromNone,
           InvalidatedBefore, NoCurrent, EndsNoService, SessionIsOld, SessionIsServices
  <2>2. OneIsCurrent'
    BY <1>1 DEF IInv, LoopOK, OneIsCurrent, Current, ChangeSetting, Begin
  <2>3. InvalidatedBefore'
    BY <1>1, <1>3, NothingStands
       DEF IInv, LoopOK, InvalidatedBefore, NoCurrent, Current, ChangeSetting, Begin
  <2>4. DropsInvalidated'
    BY <1>1, <1>3, NothingStands, NoHandler
       DEF IInv, LoopOK, DropsInvalidated, NoCurrent, Current, ChangeSetting, Begin
  <2>5. StartsAreNew'
    BY <1>1, <1>3, NothingStands DEF IInv, LoopOK, StartsAreNew, ChangeSetting, Begin
  <2>6. WarnedIsGone'
    BY <1>1 DEF IInv, LoopOK, WarnedIsGone, NoCurrent, Current, ChangeSetting, Begin
  <2> QED
    BY <2>1, <2>2, <2>3, <2>4, <2>5, <2>6 DEF LoopOK
<1>8. OffOK'
  BY <1>1, <1>3, NothingStands
     DEF IInv, OffOK, OffIsQuiet, NobodyWrites, NoCurrent, Current, WritesTheGoal, RefreshIsAsked,
         SysGoesOff, ToldOff, PacGoesOff, ChangeSetting, Begin
<1> QED
  BY <1>2, <1>4, <1>5, <1>6, <1>7, <1>8 DEF IInv

LEMMA UndoSettingKeeps ==
  ASSUME IInv, UndoSetting
  PROVE  IInv'
<1>1. /\ todo = Nothing /\ IsList(Nothing)
      /\ \/ todo' = Push("apply", Push("stopGuard", Push("refresh", Nothing))) /\ onError' = Nothing
              /\ wanted'.kind = "off"
         \/ todo' = Push("capture", Nothing) /\ onError' = Nothing
      /\ "apply" \in Steps /\ "stopGuard" \in Steps /\ "refresh" \in Steps /\ "capture" \in Steps
  <2>1. "apply" \in Steps /\ "stopGuard" \in Steps /\ "refresh" \in Steps /\ "capture" \in Steps
    BY DEF Steps
  <2>2. \/ todo' = <<"apply">> \o <<"stopGuard", "refresh">> /\ onError' = Nothing
             /\ wanted'.kind = "off"
        \/ todo' = <<"capture">> /\ onError' = Nothing
    BY HeadIs DEF IInv, ListsOK, UndoSetting, Idle, Effect, RefreshGuard, ApplyAfterStart, Nothing
  <2>3. /\ <<"apply">> \o <<"stopGuard", "refresh">>
             = Push("apply", Push("stopGuard", Push("refresh", Nothing)))
        /\ <<"capture">> = Push("capture", Nothing)
    <3>1. IsList(Nothing)
      BY NothingStands
    <3>2. <<"apply">> \o <<"stopGuard", "refresh">>
            = Push("apply", Push("stopGuard", Push("refresh", Nothing)))
      <4>1. "apply" \in Steps /\ "stopGuard" \in Steps /\ "refresh" \in Steps
        BY <2>1
      <4> QED
        BY <4>1, <3>1, OneAndTwo, PushOne
    <3>3. <<"capture">> = Push("capture", Nothing)
      <4>1. "capture" \in Steps
        BY <2>1
      <4> QED
        BY <4>1, <3>1, PushOne
    <3> QED
      BY <3>2, <3>3
  <2> QED
    BY <2>1, <2>2, <2>3, NothingStands, Zenon
       DEF UndoSetting, Idle, Effect, RefreshGuard, ApplyAfterStart, Nothing
<1>2. TypeOK'
  BY DEF IInv, TypeOK, UndoSetting, Settings
<1>3. /\ ~Falls(todo') /\ ~HasStart(todo') /\ ~HasBegin(todo') /\ ~HasEnd(todo')
      /\ ~HasWriting(todo') /\ ~HasLocal(todo') /\ ~HasWrite(todo') /\ ~HasServiceClear(todo')
      /\ ~HasLanded(todo')
      /\ HasAgain(todo') => wanted'.kind = "off"
      /\ HasRefresh(todo') => wanted'.kind = "off"
      /\ StopsFirst(todo') /\ UnguardsExits(todo') /\ UnguardsClears(todo') /\ Drains(todo')
      /\ Waits(todo') /\ Invalidates(todo') /\ InvalidatesClears(todo') /\ AppliesFirst(todo')
      /\ WritesFirst(todo') /\ WritesSecond(todo') /\ IsList(todo') /\ StartsLast(todo')
      /\ RefreshesLast(todo') /\ LandsLast(todo')
  <2>1. "apply" \in Steps /\ "stopGuard" \in Steps /\ "refresh" \in Steps /\ "capture" \in Steps
    BY <1>1
  <2>2. /\ IsList(Push("refresh", Nothing))
        /\ IsList(Push("stopGuard", Push("refresh", Nothing)))
        /\ IsList(Push("apply", Push("stopGuard", Push("refresh", Nothing))))
        /\ IsList(Push("capture", Nothing))
    <3>1. IsList(Push("refresh", Nothing))
      BY <2>1, NothingStands, PushList
    <3>2. IsList(Push("stopGuard", Push("refresh", Nothing)))
      BY <2>1, <3>1, NothingStands, PushList
    <3>3. IsList(Push("apply", Push("stopGuard", Push("refresh", Nothing))))
      BY <2>1, <3>1, <3>2, NothingStands, PushList
    <3>4. IsList(Push("capture", Nothing))
      BY <2>1, <3>1, <3>2, <3>3, NothingStands, PushList
    <3> QED
      BY <3>1, <3>2, <3>3, <3>4
  <2>3. /\ ~Falls(todo') /\ ~HasStart(todo') /\ ~HasBegin(todo') /\ ~HasEnd(todo')
        /\ ~HasWriting(todo') /\ ~HasLocal(todo') /\ ~HasWrite(todo') /\ ~HasServiceClear(todo')
        /\ ~HasLanded(todo')
        /\ HasAgain(todo') => wanted'.kind = "off"
        /\ HasRefresh(todo') => wanted'.kind = "off"
    <3>1. CASE todo' = Push("apply", Push("stopGuard", Push("refresh", Nothing)))
                 /\ wanted'.kind = "off"
      BY <2>1, <2>2, <3>1, PushAdds, NothingStands
    <3>2. CASE todo' = Push("capture", Nothing)
      BY <2>1, <2>2, <3>2, PushAdds, NothingStands
    <3> QED
      BY <1>1, <3>1, <3>2
  <2>4. /\ StopsFirst(todo') /\ UnguardsExits(todo') /\ UnguardsClears(todo') /\ Drains(todo')
        /\ Waits(todo') /\ Invalidates(todo') /\ InvalidatesClears(todo') /\ AppliesFirst(todo')
        /\ WritesFirst(todo') /\ WritesSecond(todo')
    <3>1. CASE todo' = Push("apply", Push("stopGuard", Push("refresh", Nothing)))
                 /\ wanted'.kind = "off"
      BY <2>1, <2>2, <3>1, PushOrders, PushAdds, NothingStands
    <3>2. CASE todo' = Push("capture", Nothing)
      BY <2>1, <2>2, <3>2, PushOrders, PushAdds, NothingStands
    <3> QED
      BY <1>1, <3>1, <3>2
  <2>5. /\ IsList(todo') /\ StartsLast(todo') /\ RefreshesLast(todo') /\ LandsLast(todo')
    <3>1. CASE todo' = Push("apply", Push("stopGuard", Push("refresh", Nothing)))
                 /\ wanted'.kind = "off"
      BY <2>1, <2>2, <3>1, PushAdds, PushEnds, NothingStands
    <3>2. CASE todo' = Push("capture", Nothing)
      BY <2>1, <2>2, <3>2, PushAdds, PushEnds, NothingStands
    <3> QED
      BY <1>1, <3>1, <3>2
  <2> QED
    BY <2>3, <2>4, <2>5
<1>4. ListsOK'
  BY <1>1, <1>3, NothingStands, NoHandler DEF IInv, ListsOK
<1>5. ModeOK'
  BY <1>1, <1>3, NothingStands, NoHandler
     DEF IInv, ModeOK, SessionIsServices, SessionIsOld, DeadIsSidecar, RefreshHasACore,
         WritesAreLocal, Route, EndsNoService, StartsFromNone, UndoSetting
<1>6. GuardOK'
  BY <1>1, <1>3, NothingStands, NoHandler
     DEF IInv, GuardOK, GuardIsLocal, Route, RestartIsLocal, ExitsUnguarded, DropsUnguarded,
         WritesUnguarded, ServiceUnguarded, WritesAreQuiet, NoLateWrite, LandsQuietly,
         GuardKnowsLanded, UndoSetting
<1>7. LoopOK'
  BY <1>1, <1>3, NothingStands, NoHandler
     DEF IInv, LoopOK, LoopsAreSound, Current, OneIsCurrent, InvalidatedBefore, NoCurrent,
         DropsInvalidated, StartsAreNew, WarnedIsGone, UndoSetting
<1>8. OffOK'
  BY <1>1, <1>3, NothingStands
     DEF IInv, OffOK, OffIsQuiet, NobodyWrites, NoCurrent, Current, WritesTheGoal, RefreshIsAsked,
         SysGoesOff, ToldOff, PacGoesOff, UndoSetting
<1> QED
  BY <1>2, <1>4, <1>5, <1>6, <1>7, <1>8 DEF IInv

LEMMA StartOrRestartKeeps ==
  ASSUME IInv, StartOrRestart
  PROVE  IInv'
<1>1. /\ todo = Nothing /\ IsList(Nothing)
      /\ \/ todo' = Push("startCore", Nothing) /\ onError' = Nothing /\ mode = "none"
         \/ todo' = Push("stopGuard", Push("stopCore", Push("startCore", Nothing)))
              /\ onError' = Nothing
         \/ todo' = Push("clear", Push("stopCore", Push("startCore", Nothing)))
              /\ onError' = Nothing /\ (mode = "service" => platform # "macos")
      /\ "startCore" \in Steps /\ "stopGuard" \in Steps /\ "stopCore" \in Steps /\ "clear" \in Steps
  <2>1. "startCore" \in Steps /\ "stopGuard" \in Steps /\ "stopCore" \in Steps /\ "clear" \in Steps
    BY DEF Steps
  <2>2. \/ todo' = <<>> \o <<"startCore">> /\ onError' = Nothing /\ mode = "none"
        \/ todo' = <<"stopGuard", "stopCore">> \o <<"startCore">> /\ onError' = Nothing
        \/ todo' = <<"clear", "stopCore">> \o <<"startCore">> /\ onError' = Nothing
             /\ (mode = "service" => platform # "macos")
    BY HeadIs DEF IInv, ListsOK, StartOrRestart, Begin, Idle, ControlledStop, Nothing
  <2>3. /\ <<>> \o <<"startCore">> = Push("startCore", Nothing)
        /\ <<"stopGuard", "stopCore">> \o <<"startCore">>
             = Push("stopGuard", Push("stopCore", Push("startCore", Nothing)))
        /\ <<"clear", "stopCore">> \o <<"startCore">>
             = Push("clear", Push("stopCore", Push("startCore", Nothing)))
    <3>1. IsList(Nothing)
      BY NothingStands
    <3>2. <<>> \o <<"startCore">> = Push("startCore", Nothing)
      <4>1. "startCore" \in Steps
        BY <2>1
      <4> QED
        BY <4>1, <3>1, EmptyAnd
    <3>3. <<"stopGuard", "stopCore">> \o <<"startCore">>
            = Push("stopGuard", Push("stopCore", Push("startCore", Nothing)))
      <4>1. "stopGuard" \in Steps /\ "stopCore" \in Steps /\ "startCore" \in Steps
        BY <2>1
      <4> QED
        BY <4>1, <3>1, TwoAndOne
    <3>4. <<"clear", "stopCore">> \o <<"startCore">>
            = Push("clear", Push("stopCore", Push("startCore", Nothing)))
      <4>1. "clear" \in Steps /\ "stopCore" \in Steps /\ "startCore" \in Steps
        BY <2>1
      <4> QED
        BY <4>1, <3>1, TwoAndOne
    <3> QED
      BY <3>2, <3>3, <3>4
  <2> QED
    BY <2>1, <2>2, <2>3, NothingStands, Zenon
       DEF StartOrRestart, Begin, Idle, ControlledStop, Nothing
<1>2. TypeOK'
  BY DEF IInv, TypeOK, StartOrRestart, Settings, Begin
<1>3. /\ ~Rises(todo') /\ ~HasEnd(todo') /\ ~HasWriting(todo') /\ ~HasLocal(todo')
      /\ ~HasWrite(todo') /\ ~HasAgain(todo') /\ ~HasServiceClear(todo') /\ ~HasRefresh(todo')
      /\ ~HasLanded(todo') /\ UnguardsExits(todo') /\ Drains(todo') /\ Waits(todo')
      /\ AppliesFirst(todo') /\ WritesFirst(todo') /\ WritesSecond(todo')
      /\ StopsFirst(todo') \/ mode = "none"
      /\ UnguardsClears(todo') \/ (mode = "service" => platform # "macos")
      /\ Invalidates(todo') \/ (mode = "service" => platform # "macos")
      /\ InvalidatesClears(todo') \/ (mode = "service" => platform # "macos")
      /\ IsList(todo') /\ StartsLast(todo') /\ RefreshesLast(todo') /\ LandsLast(todo')
  <2>1. "startCore" \in Steps /\ "stopGuard" \in Steps /\ "stopCore" \in Steps /\ "clear" \in Steps
    BY <1>1
  <2>2. /\ IsList(Push("startCore", Nothing))
        /\ IsList(Push("stopCore", Push("startCore", Nothing)))
        /\ IsList(Push("stopGuard", Push("stopCore", Push("startCore", Nothing))))
        /\ IsList(Push("clear", Push("stopCore", Push("startCore", Nothing))))
    <3>1. IsList(Push("startCore", Nothing))
      BY <2>1, NothingStands, PushList
    <3>2. IsList(Push("stopCore", Push("startCore", Nothing)))
      BY <2>1, <3>1, NothingStands, PushList
    <3>3. IsList(Push("stopGuard", Push("stopCore", Push("startCore", Nothing))))
      BY <2>1, <3>1, <3>2, NothingStands, PushList
    <3>4. IsList(Push("clear", Push("stopCore", Push("startCore", Nothing))))
      BY <2>1, <3>1, <3>2, <3>3, NothingStands, PushList
    <3> QED
      BY <3>1, <3>2, <3>3, <3>4
  <2>3. /\ ~Rises(todo') /\ ~HasEnd(todo') /\ ~HasWriting(todo') /\ ~HasLocal(todo')
        /\ ~HasWrite(todo') /\ ~HasAgain(todo') /\ ~HasServiceClear(todo') /\ ~HasRefresh(todo')
        /\ ~HasLanded(todo')
    <3>1. CASE todo' = Push("startCore", Nothing) /\ mode = "none"
      BY <2>1, <2>2, <3>1, PushAdds, NothingStands
    <3>2. CASE todo' = Push("stopGuard", Push("stopCore", Push("startCore", Nothing)))
      BY <2>1, <2>2, <3>2, PushAdds, NothingStands
    <3>3. CASE todo' = Push("clear", Push("stopCore", Push("startCore", Nothing)))
                 /\ (mode = "service" => platform # "macos")
      BY <2>1, <2>2, <3>3, PushAdds, NothingStands
    <3> QED
      BY <1>1, <3>1, <3>2, <3>3
  <2>4. /\ UnguardsExits(todo') /\ Drains(todo') /\ Waits(todo') /\ AppliesFirst(todo')
        /\ WritesFirst(todo') /\ WritesSecond(todo')
        /\ StopsFirst(todo') \/ mode = "none"
        /\ UnguardsClears(todo') \/ (mode = "service" => platform # "macos")
        /\ Invalidates(todo') \/ (mode = "service" => platform # "macos")
        /\ InvalidatesClears(todo') \/ (mode = "service" => platform # "macos")
    <3>1. CASE todo' = Push("startCore", Nothing) /\ mode = "none"
      BY <2>1, <2>2, <3>1, PushOrders, PushAdds, NothingStands
    <3>2. CASE todo' = Push("stopGuard", Push("stopCore", Push("startCore", Nothing)))
      BY <2>1, <2>2, <3>2, PushOrders, PushAdds, NothingStands
    <3>3. CASE todo' = Push("clear", Push("stopCore", Push("startCore", Nothing)))
                 /\ (mode = "service" => platform # "macos")
      BY <2>1, <2>2, <3>3, PushOrders, PushAdds, NothingStands
    <3> QED
      BY <1>1, <3>1, <3>2, <3>3
  <2>5. /\ IsList(todo') /\ StartsLast(todo') /\ RefreshesLast(todo') /\ LandsLast(todo')
    <3>1. CASE todo' = Push("startCore", Nothing) /\ mode = "none"
      BY <2>1, <2>2, <3>1, PushAdds, PushEnds, NothingStands
    <3>2. CASE todo' = Push("stopGuard", Push("stopCore", Push("startCore", Nothing)))
      BY <2>1, <2>2, <3>2, PushAdds, PushEnds, NothingStands
    <3>3. CASE todo' = Push("clear", Push("stopCore", Push("startCore", Nothing)))
                 /\ (mode = "service" => platform # "macos")
      BY <2>1, <2>2, <3>3, PushAdds, PushEnds, NothingStands
    <3> QED
      BY <1>1, <3>1, <3>2, <3>3
  <2> QED
    BY <2>3, <2>4, <2>5
<1>4. ListsOK'
  BY <1>1, <1>3, NothingStands, NoHandler DEF IInv, ListsOK
<1>5. ModeOK'
  <2>1. SessionIsServices'
    BY <1>1 DEF IInv, ModeOK, SessionIsServices, StartOrRestart, Begin
  <2>2. SessionIsOld'
    BY <1>1, <1>2, Typed DEF IInv, ModeOK, SessionIsOld, StartOrRestart, Begin
  <2>3. DeadIsSidecar'
    BY <1>1 DEF IInv, ModeOK, DeadIsSidecar, StartOrRestart, Begin
  <2>4. RefreshHasACore'
    BY <1>1, <1>3, NothingStands DEF IInv, ModeOK, RefreshHasACore, StartOrRestart, Begin
  <2>5. WritesAreLocal'
    BY <1>1, <1>3, NothingStands DEF IInv, ModeOK, WritesAreLocal, Route, StartOrRestart, Begin
  <2>6. EndsNoService'
    BY <1>1, <1>3, NothingStands, NoHandler DEF IInv, ModeOK, EndsNoService, StartOrRestart, Begin
  <2>7. StartsFromNone'
    BY <1>1, <1>3, NothingStands DEF IInv, ModeOK, StartsFromNone, StartOrRestart, Begin
  <2> QED
    BY <2>1, <2>2, <2>3, <2>4, <2>5, <2>6, <2>7 DEF ModeOK
<1>6. GuardOK'
  BY <1>1, <1>3, NothingStands, NoHandler
     DEF IInv, GuardOK, GuardIsLocal, Route, RestartIsLocal, ExitsUnguarded, DropsUnguarded,
         WritesUnguarded, ServiceUnguarded, WritesAreQuiet, NoLateWrite, LandsQuietly,
         GuardKnowsLanded, StartOrRestart, Begin
<1>7. LoopOK'
  <2>1. LoopsAreSound'
    BY <1>1, <1>3, NothingStands, <1>2, Typed
       DEF IInv, LoopOK, LoopsAreSound, Current, StartOrRestart, Begin, ModeOK, StartsFromNone,
           InvalidatedBefore, NoCurrent, EndsNoService, SessionIsOld, SessionIsServices
  <2>2. OneIsCurrent'
    BY <1>1 DEF IInv, LoopOK, OneIsCurrent, Current, StartOrRestart, Begin
  <2>3. InvalidatedBefore'
    BY <1>1, <1>3, NothingStands
       DEF IInv, LoopOK, InvalidatedBefore, NoCurrent, Current, StartOrRestart, Begin,
           LoopsAreSound, DropsInvalidated
  <2>4. DropsInvalidated'
    BY <1>1, <1>3, NothingStands, NoHandler
       DEF IInv, LoopOK, DropsInvalidated, NoCurrent, Current, StartOrRestart, Begin
  <2>5. StartsAreNew'
    BY <1>1, <1>3, NothingStands, <1>2, Typed
       DEF IInv, LoopOK, StartsAreNew, StartOrRestart, Begin, LoopsAreSound, Current
  <2>6. WarnedIsGone'
    BY <1>1 DEF IInv, LoopOK, WarnedIsGone, NoCurrent, Current, StartOrRestart, Begin
  <2> QED
    BY <2>1, <2>2, <2>3, <2>4, <2>5, <2>6 DEF LoopOK
<1>8. OffOK'
  BY <1>1, <1>3, NothingStands
     DEF IInv, OffOK, OffIsQuiet, NobodyWrites, NoCurrent, Current, WritesTheGoal, RefreshIsAsked,
         SysGoesOff, ToldOff, PacGoesOff, StartOrRestart, Begin
<1> QED
  BY <1>2, <1>4, <1>5, <1>6, <1>7, <1>8 DEF IInv

LEMMA StopCoreKeeps ==
  ASSUME IInv, StopCore
  PROVE  IInv'
<1>1. /\ todo = Nothing /\ IsList(Nothing)
      /\ \/ todo' = Push("stopGuard", Push("stopCore", Nothing)) /\ onError' = Nothing
         \/ todo' = Push("clear", Push("stopCore", Nothing)) /\ onError' = Nothing
              /\ (mode = "service" => platform # "macos")
      /\ "stopGuard" \in Steps /\ "stopCore" \in Steps /\ "clear" \in Steps
  <2>1. "stopGuard" \in Steps /\ "stopCore" \in Steps /\ "clear" \in Steps
    BY DEF Steps
  <2>2. \/ todo' = <<"stopGuard", "stopCore">> /\ onError' = Nothing
        \/ todo' = <<"clear", "stopCore">> /\ onError' = Nothing /\ (mode = "service"
             => platform # "macos")
    BY HeadIs DEF IInv, ListsOK, StopCore, Begin, Idle, ControlledStop, Nothing
  <2>3. /\ <<"stopGuard", "stopCore">> = Push("stopGuard", Push("stopCore", Nothing))
        /\ <<"clear", "stopCore">> = Push("clear", Push("stopCore", Nothing))
    <3>1. IsList(Nothing)
      BY NothingStands
    <3>2. <<"stopGuard", "stopCore">> = Push("stopGuard", Push("stopCore", Nothing))
      <4>1. "stopGuard" \in Steps /\ "stopCore" \in Steps
        BY <2>1
      <4> QED
        BY <4>1, <3>1, PushTwo
    <3>3. <<"clear", "stopCore">> = Push("clear", Push("stopCore", Nothing))
      <4>1. "clear" \in Steps /\ "stopCore" \in Steps
        BY <2>1
      <4> QED
        BY <4>1, <3>1, PushTwo
    <3> QED
      BY <3>2, <3>3
  <2> QED
    BY <2>1, <2>2, <2>3, NothingStands, Zenon DEF StopCore, Begin, Idle, ControlledStop, Nothing
<1>2. TypeOK'
  BY DEF IInv, TypeOK, StopCore, Settings, Begin
<1>3. /\ ~Rises(todo') /\ ~HasStart(todo') /\ ~HasBegin(todo') /\ ~HasEnd(todo')
      /\ ~HasWriting(todo') /\ ~HasLocal(todo') /\ ~HasWrite(todo') /\ ~HasAgain(todo')
      /\ ~HasServiceClear(todo') /\ ~HasRefresh(todo') /\ ~HasLanded(todo')
      /\ StopsFirst(todo') /\ UnguardsExits(todo') /\ Drains(todo') /\ Waits(todo')
      /\ AppliesFirst(todo') /\ WritesFirst(todo') /\ WritesSecond(todo')
      /\ UnguardsClears(todo') \/ (mode = "service" => platform # "macos")
      /\ Invalidates(todo') \/ (mode = "service" => platform # "macos")
      /\ InvalidatesClears(todo') \/ (mode = "service" => platform # "macos")
      /\ IsList(todo') /\ StartsLast(todo') /\ RefreshesLast(todo') /\ LandsLast(todo')
  <2>1. "stopGuard" \in Steps /\ "stopCore" \in Steps /\ "clear" \in Steps
    BY <1>1
  <2>2. /\ IsList(Push("stopCore", Nothing))
        /\ IsList(Push("stopGuard", Push("stopCore", Nothing)))
        /\ IsList(Push("clear", Push("stopCore", Nothing)))
    <3>1. IsList(Push("stopCore", Nothing))
      BY <2>1, NothingStands, PushList
    <3>2. IsList(Push("stopGuard", Push("stopCore", Nothing)))
      BY <2>1, <3>1, NothingStands, PushList
    <3>3. IsList(Push("clear", Push("stopCore", Nothing)))
      BY <2>1, <3>1, <3>2, NothingStands, PushList
    <3> QED
      BY <3>1, <3>2, <3>3
  <2>3. /\ ~Rises(todo') /\ ~HasStart(todo') /\ ~HasBegin(todo') /\ ~HasEnd(todo')
        /\ ~HasWriting(todo') /\ ~HasLocal(todo') /\ ~HasWrite(todo') /\ ~HasAgain(todo')
        /\ ~HasServiceClear(todo') /\ ~HasRefresh(todo') /\ ~HasLanded(todo')
    <3>1. CASE todo' = Push("stopGuard", Push("stopCore", Nothing))
      BY <2>1, <2>2, <3>1, PushAdds, NothingStands
    <3>2. CASE todo' = Push("clear", Push("stopCore", Nothing)) /\ (mode = "service"
                 => platform # "macos")
      BY <2>1, <2>2, <3>2, PushAdds, NothingStands
    <3> QED
      BY <1>1, <3>1, <3>2
  <2>4. /\ StopsFirst(todo') /\ UnguardsExits(todo') /\ Drains(todo') /\ Waits(todo')
        /\ AppliesFirst(todo') /\ WritesFirst(todo') /\ WritesSecond(todo')
        /\ UnguardsClears(todo') \/ (mode = "service" => platform # "macos")
        /\ Invalidates(todo') \/ (mode = "service" => platform # "macos")
        /\ InvalidatesClears(todo') \/ (mode = "service" => platform # "macos")
    <3>1. CASE todo' = Push("stopGuard", Push("stopCore", Nothing))
      BY <2>1, <2>2, <3>1, PushOrders, PushAdds, NothingStands
    <3>2. CASE todo' = Push("clear", Push("stopCore", Nothing)) /\ (mode = "service"
                 => platform # "macos")
      BY <2>1, <2>2, <3>2, PushOrders, PushAdds, NothingStands
    <3> QED
      BY <1>1, <3>1, <3>2
  <2>5. /\ IsList(todo') /\ StartsLast(todo') /\ RefreshesLast(todo') /\ LandsLast(todo')
    <3>1. CASE todo' = Push("stopGuard", Push("stopCore", Nothing))
      BY <2>1, <2>2, <3>1, PushAdds, PushEnds, NothingStands
    <3>2. CASE todo' = Push("clear", Push("stopCore", Nothing)) /\ (mode = "service"
                 => platform # "macos")
      BY <2>1, <2>2, <3>2, PushAdds, PushEnds, NothingStands
    <3> QED
      BY <1>1, <3>1, <3>2
  <2> QED
    BY <2>3, <2>4, <2>5
<1>4. ListsOK'
  BY <1>1, <1>3, NothingStands, NoHandler DEF IInv, ListsOK
<1>5. ModeOK'
  <2>1. SessionIsServices'
    BY <1>1 DEF IInv, ModeOK, SessionIsServices, StopCore, Begin
  <2>2. SessionIsOld'
    BY <1>1, <1>2, Typed DEF IInv, ModeOK, SessionIsOld, StopCore, Begin
  <2>3. DeadIsSidecar'
    BY <1>1 DEF IInv, ModeOK, DeadIsSidecar, StopCore, Begin
  <2>4. RefreshHasACore'
    BY <1>1, <1>3, NothingStands DEF IInv, ModeOK, RefreshHasACore, StopCore, Begin
  <2>5. WritesAreLocal'
    BY <1>1, <1>3, NothingStands DEF IInv, ModeOK, WritesAreLocal, Route, StopCore, Begin
  <2>6. EndsNoService'
    BY <1>1, <1>3, NothingStands, NoHandler DEF IInv, ModeOK, EndsNoService, StopCore, Begin
  <2>7. StartsFromNone'
    BY <1>1, <1>3, NothingStands DEF IInv, ModeOK, StartsFromNone, StopCore, Begin
  <2> QED
    BY <2>1, <2>2, <2>3, <2>4, <2>5, <2>6, <2>7 DEF ModeOK
<1>6. GuardOK'
  BY <1>1, <1>3, NothingStands, NoHandler
     DEF IInv, GuardOK, GuardIsLocal, Route, RestartIsLocal, ExitsUnguarded, DropsUnguarded,
         WritesUnguarded, ServiceUnguarded, WritesAreQuiet, NoLateWrite, LandsQuietly,
         GuardKnowsLanded, StopCore, Begin
<1>7. LoopOK'
  <2>1. LoopsAreSound'
    BY <1>1, <1>3, NothingStands, <1>2, Typed
       DEF IInv, LoopOK, LoopsAreSound, Current, StopCore, Begin, ModeOK, StartsFromNone,
           InvalidatedBefore, NoCurrent, EndsNoService, SessionIsOld, SessionIsServices
  <2>2. OneIsCurrent'
    BY <1>1 DEF IInv, LoopOK, OneIsCurrent, Current, StopCore, Begin
  <2>3. InvalidatedBefore'
    BY <1>1, <1>3, NothingStands
       DEF IInv, LoopOK, InvalidatedBefore, NoCurrent, Current, StopCore, Begin, LoopsAreSound,
           DropsInvalidated
  <2>4. DropsInvalidated'
    BY <1>1, <1>3, NothingStands, NoHandler
       DEF IInv, LoopOK, DropsInvalidated, NoCurrent, Current, StopCore, Begin
  <2>5. StartsAreNew'
    BY <1>1, <1>3, NothingStands DEF IInv, LoopOK, StartsAreNew, StopCore, Begin
  <2>6. WarnedIsGone'
    BY <1>1 DEF IInv, LoopOK, WarnedIsGone, NoCurrent, Current, StopCore, Begin
  <2> QED
    BY <2>1, <2>2, <2>3, <2>4, <2>5, <2>6 DEF LoopOK
<1>8. OffOK'
  BY <1>1, <1>3, NothingStands
     DEF IInv, OffOK, OffIsQuiet, NobodyWrites, NoCurrent, Current, WritesTheGoal, RefreshIsAsked,
         SysGoesOff, ToldOff, PacGoesOff, StopCore, Begin
<1> QED
  BY <1>2, <1>4, <1>5, <1>6, <1>7, <1>8 DEF IInv

LEMMA ContinueWithSidecarKeeps ==
  ASSUME IInv, ContinueWithSidecar
  PROVE  IInv'
<1>1. /\ todo = Nothing /\ IsList(Nothing)
      /\ todo' = Push("stopGuard", Push("startSidecar", Nothing)) /\ onError' = Undo
           /\ mode = "none"
      /\ "stopGuard" \in Steps /\ "startSidecar" \in Steps
  <2>1. "stopGuard" \in Steps /\ "startSidecar" \in Steps
    BY DEF Steps
  <2>2. todo' = <<"stopGuard", "startSidecar">> /\ onError' = Undo /\ mode = "none"
    BY HeadIs DEF IInv, ListsOK, ContinueWithSidecar, Begin, Idle, Nothing, Undo
  <2>3. /\ <<"stopGuard", "startSidecar">> = Push("stopGuard", Push("startSidecar", Nothing))
    <3>1. IsList(Nothing)
      BY NothingStands
    <3>2. <<"stopGuard", "startSidecar">> = Push("stopGuard", Push("startSidecar", Nothing))
      <4>1. "stopGuard" \in Steps /\ "startSidecar" \in Steps
        BY <2>1
      <4> QED
        BY <4>1, <3>1, PushTwo
    <3> QED
      BY <3>2
  <2> QED
    BY <2>1, <2>2, <2>3, NothingStands, Zenon DEF ContinueWithSidecar, Begin, Idle, Nothing, Undo
<1>2. TypeOK'
  BY DEF IInv, TypeOK, ContinueWithSidecar, Settings, Begin
<1>3. /\ ~Rises(todo') /\ ~HasStart(todo') /\ ~HasEnd(todo') /\ ~HasWriting(todo')
      /\ ~HasLocal(todo') /\ ~HasWrite(todo') /\ ~HasAgain(todo') /\ ~HasServiceClear(todo')
      /\ ~HasRefresh(todo') /\ ~HasLanded(todo')
      /\ Falls(todo') => mode = "none"
      /\ HasBegin(todo') => mode = "none"
      /\ UnguardsExits(todo') /\ UnguardsClears(todo') /\ Drains(todo') /\ Waits(todo')
      /\ Invalidates(todo') /\ InvalidatesClears(todo') /\ AppliesFirst(todo')
      /\ WritesFirst(todo') /\ WritesSecond(todo')
      /\ StopsFirst(todo') \/ mode = "none"
      /\ IsList(todo') /\ StartsLast(todo') /\ RefreshesLast(todo') /\ LandsLast(todo')
  <2>1. "stopGuard" \in Steps /\ "startSidecar" \in Steps
    BY <1>1
  <2>2. /\ IsList(Push("startSidecar", Nothing))
        /\ IsList(Push("stopGuard", Push("startSidecar", Nothing)))
    <3>1. IsList(Push("startSidecar", Nothing))
      BY <2>1, NothingStands, PushList
    <3>2. IsList(Push("stopGuard", Push("startSidecar", Nothing)))
      BY <2>1, <3>1, NothingStands, PushList
    <3> QED
      BY <3>1, <3>2
  <2>3. /\ ~Rises(todo') /\ ~HasStart(todo') /\ ~HasEnd(todo') /\ ~HasWriting(todo')
        /\ ~HasLocal(todo') /\ ~HasWrite(todo') /\ ~HasAgain(todo') /\ ~HasServiceClear(todo')
        /\ ~HasRefresh(todo') /\ ~HasLanded(todo')
        /\ Falls(todo') => mode = "none"
        /\ HasBegin(todo') => mode = "none"
    <3>1. todo' = Push("stopGuard", Push("startSidecar", Nothing)) /\ mode = "none"
      BY <1>1
    <3> QED
      BY <2>1, <2>2, <3>1, PushAdds, NothingStands
  <2>4. /\ UnguardsExits(todo') /\ UnguardsClears(todo') /\ Drains(todo') /\ Waits(todo')
        /\ Invalidates(todo') /\ InvalidatesClears(todo') /\ AppliesFirst(todo')
        /\ WritesFirst(todo') /\ WritesSecond(todo')
        /\ StopsFirst(todo') \/ mode = "none"
    <3>1. todo' = Push("stopGuard", Push("startSidecar", Nothing)) /\ mode = "none"
      BY <1>1
    <3> QED
      BY <2>1, <2>2, <3>1, PushOrders, PushAdds, NothingStands
  <2>5. /\ IsList(todo') /\ StartsLast(todo') /\ RefreshesLast(todo') /\ LandsLast(todo')
    <3>1. todo' = Push("stopGuard", Push("startSidecar", Nothing)) /\ mode = "none"
      BY <1>1
    <3> QED
      BY <2>1, <2>2, <3>1, PushAdds, PushEnds, NothingStands
  <2> QED
    BY <2>3, <2>4, <2>5
<1>4. ListsOK'
  BY <1>1, <1>3, NothingStands, NoHandler DEF IInv, ListsOK
<1>5. ModeOK'
  <2>1. SessionIsServices'
    BY <1>1 DEF IInv, ModeOK, SessionIsServices, ContinueWithSidecar, Begin
  <2>2. SessionIsOld'
    BY <1>1, <1>2, Typed DEF IInv, ModeOK, SessionIsOld, ContinueWithSidecar, Begin
  <2>3. DeadIsSidecar'
    BY <1>1 DEF IInv, ModeOK, DeadIsSidecar, ContinueWithSidecar, Begin
  <2>4. RefreshHasACore'
    BY <1>1, <1>3, NothingStands DEF IInv, ModeOK, RefreshHasACore, ContinueWithSidecar, Begin
  <2>5. WritesAreLocal'
    BY <1>1, <1>3, NothingStands DEF IInv, ModeOK, WritesAreLocal, Route, ContinueWithSidecar, Begin
  <2>6. EndsNoService'
    BY <1>1, <1>3, NothingStands, NoHandler
       DEF IInv, ModeOK, EndsNoService, ContinueWithSidecar, Begin
  <2>7. StartsFromNone'
    BY <1>1, <1>3, NothingStands DEF IInv, ModeOK, StartsFromNone, ContinueWithSidecar, Begin
  <2> QED
    BY <2>1, <2>2, <2>3, <2>4, <2>5, <2>6, <2>7 DEF ModeOK
<1>6. GuardOK'
  BY <1>1, <1>3, NothingStands, NoHandler
     DEF IInv, GuardOK, GuardIsLocal, Route, RestartIsLocal, ExitsUnguarded, DropsUnguarded,
         WritesUnguarded, ServiceUnguarded, WritesAreQuiet, NoLateWrite, LandsQuietly,
         GuardKnowsLanded, ContinueWithSidecar, Begin
<1>7. LoopOK'
  <2>1. LoopsAreSound'
    BY <1>1, <1>3, NothingStands, <1>2, Typed
       DEF IInv, LoopOK, LoopsAreSound, Current, ContinueWithSidecar, Begin, ModeOK,
           StartsFromNone, InvalidatedBefore, NoCurrent, EndsNoService, SessionIsOld,
           SessionIsServices
  <2>2. OneIsCurrent'
    BY <1>1 DEF IInv, LoopOK, OneIsCurrent, Current, ContinueWithSidecar, Begin
  <2>3. InvalidatedBefore'
    BY <1>1, <1>3, NothingStands
       DEF IInv, LoopOK, InvalidatedBefore, NoCurrent, Current, ContinueWithSidecar, Begin
  <2>4. DropsInvalidated'
    BY <1>1, <1>3, NothingStands, NoHandler
       DEF IInv, LoopOK, DropsInvalidated, NoCurrent, Current, ContinueWithSidecar, Begin
  <2>5. StartsAreNew'
    BY <1>1, <1>3, NothingStands DEF IInv, LoopOK, StartsAreNew, ContinueWithSidecar, Begin
  <2>6. WarnedIsGone'
    BY <1>1 DEF IInv, LoopOK, WarnedIsGone, NoCurrent, Current, ContinueWithSidecar, Begin
  <2> QED
    BY <2>1, <2>2, <2>3, <2>4, <2>5, <2>6 DEF LoopOK
<1>8. OffOK'
  BY <1>1, <1>3, NothingStands
     DEF IInv, OffOK, OffIsQuiet, NobodyWrites, NoCurrent, Current, WritesTheGoal, RefreshIsAsked,
         SysGoesOff, ToldOff, PacGoesOff, ContinueWithSidecar, Begin
<1> QED
  BY <1>2, <1>4, <1>5, <1>6, <1>7, <1>8 DEF IInv

LEMMA ReapplyKeeps ==
  ASSUME IInv, Reapply
  PROVE  IInv'
<1>1. /\ todo = Nothing /\ IsList(Nothing)
      /\ \/ todo' = Push("capture", Nothing) /\ onError' = Nothing
         \/ todo' = Nothing /\ onError' = onError
      /\ "capture" \in Steps
  <2>1. "capture" \in Steps
    BY DEF Steps
  <2>2. \/ todo' = <<"capture">> /\ onError' = Nothing
        \/ todo' = <<>> /\ onError' = onError
    BY HeadIs DEF IInv, ListsOK, Reapply, Begin, Idle, ApplyAfterStart, Nothing
  <2>3. /\ <<"capture">> = Push("capture", Nothing)
        /\ <<>> = Nothing
    <3>1. IsList(Nothing)
      BY NothingStands
    <3>2. <<"capture">> = Push("capture", Nothing)
      <4>1. "capture" \in Steps
        BY <2>1
      <4> QED
        BY <4>1, <3>1, PushOne
    <3>3. <<>> = Nothing
      BY <3>1, NothingConcat DEF Nothing
    <3> QED
      BY <3>2, <3>3
  <2> QED
    BY <2>1, <2>2, <2>3, NothingStands, Zenon DEF Reapply, Begin, Idle, ApplyAfterStart, Nothing
<1>2. TypeOK'
  <2>1. /\ platform' \in Platforms /\ wanted' \in Settings /\ before' \in Settings \cup {NoSetting}
        /\ mode' \in {"none", "sidecar", "service"} /\ loops' \subseteq Loops
        /\ goal' \in Settings \cup {NoSetting}
    BY DEF IInv, TypeOK, Reapply, Begin
  <2>2. /\ os' \subseteq Kinds /\ {guardType', guardWrite'} \subseteq Kinds \cup {"none"}
        /\ off' \in {"no", "written", "skipped", "late"} /\ landed' \in Targets
    BY DEF IInv, TypeOK, Reapply, Begin, Settings, Targets, Kinds
  <2>3. /\ {ready', watched', died', network', due'} \subseteq BOOLEAN
        /\ {guardOn', wasOn', drained', reached', warned'} \subseteq BOOLEAN
    BY DEF IInv, TypeOK, Reapply, Begin
  <2>4. {owner', session', lost', gen', expected', tries', ops'} \subseteq Nat
    BY DEF IInv, TypeOK, Reapply, Begin
  <2> QED
    BY <2>1, <2>2, <2>3, <2>4 DEF TypeOK
<1>3. /\ ~Falls(todo') /\ ~HasStart(todo') /\ ~HasBegin(todo') /\ ~HasEnd(todo')
      /\ ~HasWriting(todo') /\ ~HasLocal(todo') /\ ~HasWrite(todo') /\ ~HasAgain(todo')
      /\ ~HasServiceClear(todo') /\ ~HasRefresh(todo') /\ ~HasLanded(todo')
      /\ StopsFirst(todo') /\ UnguardsExits(todo') /\ UnguardsClears(todo') /\ Drains(todo')
      /\ Waits(todo') /\ Invalidates(todo') /\ InvalidatesClears(todo') /\ AppliesFirst(todo')
      /\ WritesFirst(todo') /\ WritesSecond(todo') /\ IsList(todo') /\ StartsLast(todo')
      /\ RefreshesLast(todo') /\ LandsLast(todo')
  <2>1. "capture" \in Steps
    BY <1>1
  <2>2. /\ IsList(Push("capture", Nothing))
    BY <2>1, NothingStands, PushList
  <2>3. /\ ~Falls(todo') /\ ~HasStart(todo') /\ ~HasBegin(todo') /\ ~HasEnd(todo')
        /\ ~HasWriting(todo') /\ ~HasLocal(todo') /\ ~HasWrite(todo') /\ ~HasAgain(todo')
        /\ ~HasServiceClear(todo') /\ ~HasRefresh(todo') /\ ~HasLanded(todo')
    <3>1. CASE todo' = Push("capture", Nothing)
      BY <2>1, <2>2, <3>1, PushAdds, NothingStands
    <3>2. CASE todo' = Nothing
      BY <2>1, <2>2, <3>2, PushAdds, NothingStands
    <3> QED
      BY <1>1, <3>1, <3>2
  <2>4. /\ StopsFirst(todo') /\ UnguardsExits(todo') /\ UnguardsClears(todo') /\ Drains(todo')
        /\ Waits(todo') /\ Invalidates(todo') /\ InvalidatesClears(todo') /\ AppliesFirst(todo')
        /\ WritesFirst(todo') /\ WritesSecond(todo')
    <3>1. CASE todo' = Push("capture", Nothing)
      BY <2>1, <2>2, <3>1, PushOrders, PushAdds, NothingStands
    <3>2. CASE todo' = Nothing
      BY <2>1, <2>2, <3>2, PushOrders, PushAdds, NothingStands
    <3> QED
      BY <1>1, <3>1, <3>2
  <2>5. /\ IsList(todo') /\ StartsLast(todo') /\ RefreshesLast(todo') /\ LandsLast(todo')
    <3>1. CASE todo' = Push("capture", Nothing)
      BY <2>1, <2>2, <3>1, PushAdds, PushEnds, NothingStands
    <3>2. CASE todo' = Nothing
      BY <2>1, <2>2, <3>2, PushAdds, PushEnds, NothingStands
    <3> QED
      BY <1>1, <3>1, <3>2
  <2> QED
    BY <2>3, <2>4, <2>5
<1>4. ListsOK'
  BY <1>1, <1>3, NothingStands, NoHandler DEF IInv, ListsOK
<1>5. ModeOK'
  <2>1. SessionIsServices'
    BY <1>1 DEF IInv, ModeOK, SessionIsServices, Reapply, Begin
  <2>2. SessionIsOld'
    BY <1>1, <1>2, Typed DEF IInv, ModeOK, SessionIsOld, Reapply, Begin
  <2>3. DeadIsSidecar'
    BY <1>1 DEF IInv, ModeOK, DeadIsSidecar, Reapply, Begin
  <2>4. RefreshHasACore'
    BY <1>1, <1>3, NothingStands DEF IInv, ModeOK, RefreshHasACore, Reapply, Begin
  <2>5. WritesAreLocal'
    BY <1>1, <1>3, NothingStands DEF IInv, ModeOK, WritesAreLocal, Route, Reapply, Begin
  <2>6. EndsNoService'
    BY <1>1, <1>3, NothingStands, NoHandler DEF IInv, ModeOK, EndsNoService, Reapply, Begin
  <2>7. StartsFromNone'
    BY <1>1, <1>3, NothingStands DEF IInv, ModeOK, StartsFromNone, Reapply, Begin
  <2> QED
    BY <2>1, <2>2, <2>3, <2>4, <2>5, <2>6, <2>7 DEF ModeOK
<1>6. GuardOK'
  BY <1>1, <1>3, NothingStands, NoHandler
     DEF IInv, GuardOK, GuardIsLocal, Route, RestartIsLocal, ExitsUnguarded, DropsUnguarded,
         WritesUnguarded, ServiceUnguarded, WritesAreQuiet, NoLateWrite, LandsQuietly,
         GuardKnowsLanded, Reapply, Begin
<1>7. LoopOK'
  <2>1. LoopsAreSound'
    BY <1>1, <1>3, NothingStands, <1>2, Typed
       DEF IInv, LoopOK, LoopsAreSound, Current, Reapply, Begin, ModeOK, StartsFromNone,
           InvalidatedBefore, NoCurrent, EndsNoService, SessionIsOld, SessionIsServices
  <2>2. OneIsCurrent'
    BY <1>1 DEF IInv, LoopOK, OneIsCurrent, Current, Reapply, Begin
  <2>3. InvalidatedBefore'
    BY <1>1, <1>3, NothingStands
       DEF IInv, LoopOK, InvalidatedBefore, NoCurrent, Current, Reapply, Begin
  <2>4. DropsInvalidated'
    BY <1>1, <1>3, NothingStands, NoHandler
       DEF IInv, LoopOK, DropsInvalidated, NoCurrent, Current, Reapply, Begin
  <2>5. StartsAreNew'
    BY <1>1, <1>3, NothingStands DEF IInv, LoopOK, StartsAreNew, Reapply, Begin
  <2>6. WarnedIsGone'
    BY <1>1 DEF IInv, LoopOK, WarnedIsGone, NoCurrent, Current, Reapply, Begin
  <2> QED
    BY <2>1, <2>2, <2>3, <2>4, <2>5, <2>6 DEF LoopOK
<1>8. OffOK'
  BY <1>1, <1>3, NothingStands
     DEF IInv, OffOK, OffIsQuiet, NobodyWrites, NoCurrent, Current, WritesTheGoal, RefreshIsAsked,
         SysGoesOff, ToldOff, PacGoesOff, Reapply, Begin
<1> QED
  BY <1>2, <1>4, <1>5, <1>6, <1>7, <1>8 DEF IInv

LEMMA RecoverOwnerKeeps ==
  ASSUME IInv, RecoverOwner
  PROVE  IInv'
<1>1. /\ todo = Nothing /\ IsList(Nothing)
      /\ \/ todo' = Push("stopGuard", Push("dropSession", Nothing)) /\ onError' = Dropping
         \/ todo' = Push("stopGuard", Push("clear", Push("dropSession", Nothing)))
              /\ onError' = Dropping
         \/ todo' = Nothing /\ onError' = onError
      /\ "stopGuard" \in Steps /\ "dropSession" \in Steps /\ "clear" \in Steps
  <2>1. "stopGuard" \in Steps /\ "dropSession" \in Steps /\ "clear" \in Steps
    BY DEF Steps
  <2>2. \/ todo' = <<"stopGuard", "dropSession">> /\ onError' = Dropping
        \/ todo' = <<"stopGuard", "clear", "dropSession">> /\ onError' = Dropping
        \/ todo' = <<>> /\ onError' = onError
    BY HeadIs DEF IInv, ListsOK, RecoverOwner, Idle, Nothing, Dropping
  <2>3. /\ <<"stopGuard", "dropSession">> = Push("stopGuard", Push("dropSession", Nothing))
        /\ <<"stopGuard", "clear", "dropSession">>
             = Push("stopGuard", Push("clear", Push("dropSession", Nothing)))
        /\ <<>> = Nothing
    <3>1. IsList(Nothing)
      BY NothingStands
    <3>2. <<"stopGuard", "dropSession">> = Push("stopGuard", Push("dropSession", Nothing))
      <4>1. "stopGuard" \in Steps /\ "dropSession" \in Steps
        BY <2>1
      <4> QED
        BY <4>1, <3>1, PushTwo
    <3>3. <<"stopGuard", "clear", "dropSession">>
            = Push("stopGuard", Push("clear", Push("dropSession", Nothing)))
      <4>1. "stopGuard" \in Steps /\ "clear" \in Steps /\ "dropSession" \in Steps
        BY <2>1
      <4> QED
        BY <4>1, <3>1, ThreeAre
    <3>4. <<>> = Nothing
      BY <3>1, NothingConcat DEF Nothing
    <3> QED
      BY <3>2, <3>3, <3>4
  <2> QED
    BY <2>1, <2>2, <2>3, NothingStands, Zenon DEF RecoverOwner, Idle, Nothing, Dropping
<1>2. TypeOK'
  BY DEF IInv, TypeOK, RecoverOwner, Settings
<1>3. /\ ~Rises(todo') /\ ~HasStart(todo') /\ ~HasBegin(todo') /\ ~HasEnd(todo')
      /\ ~HasWriting(todo') /\ ~HasLocal(todo') /\ ~HasWrite(todo') /\ ~HasAgain(todo')
      /\ ~HasServiceClear(todo') /\ ~HasRefresh(todo') /\ ~HasLanded(todo')
      /\ StopsFirst(todo') /\ UnguardsExits(todo') /\ UnguardsClears(todo') /\ Drains(todo')
      /\ Waits(todo') /\ Invalidates(todo') /\ InvalidatesClears(todo') /\ AppliesFirst(todo')
      /\ WritesFirst(todo') /\ WritesSecond(todo') /\ IsList(todo') /\ StartsLast(todo')
      /\ RefreshesLast(todo') /\ LandsLast(todo')
  <2>1. "stopGuard" \in Steps /\ "dropSession" \in Steps /\ "clear" \in Steps
    BY <1>1
  <2>2. /\ IsList(Push("dropSession", Nothing))
        /\ IsList(Push("stopGuard", Push("dropSession", Nothing)))
        /\ IsList(Push("clear", Push("dropSession", Nothing)))
        /\ IsList(Push("stopGuard", Push("clear", Push("dropSession", Nothing))))
    <3>1. IsList(Push("dropSession", Nothing))
      BY <2>1, NothingStands, PushList
    <3>2. IsList(Push("stopGuard", Push("dropSession", Nothing)))
      BY <2>1, <3>1, NothingStands, PushList
    <3>3. IsList(Push("clear", Push("dropSession", Nothing)))
      BY <2>1, <3>1, <3>2, NothingStands, PushList
    <3>4. IsList(Push("stopGuard", Push("clear", Push("dropSession", Nothing))))
      BY <2>1, <3>1, <3>2, <3>3, NothingStands, PushList
    <3> QED
      BY <3>1, <3>2, <3>3, <3>4
  <2>3. /\ ~Rises(todo') /\ ~HasStart(todo') /\ ~HasBegin(todo') /\ ~HasEnd(todo')
        /\ ~HasWriting(todo') /\ ~HasLocal(todo') /\ ~HasWrite(todo') /\ ~HasAgain(todo')
        /\ ~HasServiceClear(todo') /\ ~HasRefresh(todo') /\ ~HasLanded(todo')
    <3>1. CASE todo' = Push("stopGuard", Push("dropSession", Nothing))
      BY <2>1, <2>2, <3>1, PushAdds, NothingStands
    <3>2. CASE todo' = Push("stopGuard", Push("clear", Push("dropSession", Nothing)))
      BY <2>1, <2>2, <3>2, PushAdds, NothingStands
    <3>3. CASE todo' = Nothing
      BY <2>1, <2>2, <3>3, PushAdds, NothingStands
    <3> QED
      BY <1>1, <3>1, <3>2, <3>3
  <2>4. /\ StopsFirst(todo') /\ UnguardsExits(todo') /\ UnguardsClears(todo') /\ Drains(todo')
        /\ Waits(todo') /\ Invalidates(todo') /\ InvalidatesClears(todo') /\ AppliesFirst(todo')
        /\ WritesFirst(todo') /\ WritesSecond(todo')
    <3>1. CASE todo' = Push("stopGuard", Push("dropSession", Nothing))
      BY <2>1, <2>2, <3>1, PushOrders, PushAdds, NothingStands
    <3>2. CASE todo' = Push("stopGuard", Push("clear", Push("dropSession", Nothing)))
      BY <2>1, <2>2, <3>2, PushOrders, PushAdds, NothingStands
    <3>3. CASE todo' = Nothing
      BY <2>1, <2>2, <3>3, PushOrders, PushAdds, NothingStands
    <3> QED
      BY <1>1, <3>1, <3>2, <3>3
  <2>5. /\ IsList(todo') /\ StartsLast(todo') /\ RefreshesLast(todo') /\ LandsLast(todo')
    <3>1. CASE todo' = Push("stopGuard", Push("dropSession", Nothing))
      BY <2>1, <2>2, <3>1, PushAdds, PushEnds, NothingStands
    <3>2. CASE todo' = Push("stopGuard", Push("clear", Push("dropSession", Nothing)))
      BY <2>1, <2>2, <3>2, PushAdds, PushEnds, NothingStands
    <3>3. CASE todo' = Nothing
      BY <2>1, <2>2, <3>3, PushAdds, PushEnds, NothingStands
    <3> QED
      BY <1>1, <3>1, <3>2, <3>3
  <2> QED
    BY <2>3, <2>4, <2>5
<1>4. ListsOK'
  BY <1>1, <1>3, NothingStands, NoHandler DEF IInv, ListsOK
<1>5. ModeOK'
  BY <1>1, <1>3, NothingStands, NoHandler
     DEF IInv, ModeOK, SessionIsServices, SessionIsOld, DeadIsSidecar, RefreshHasACore,
         WritesAreLocal, Route, EndsNoService, StartsFromNone, RecoverOwner
<1>6. GuardOK'
  BY <1>1, <1>3, NothingStands, NoHandler
     DEF IInv, GuardOK, GuardIsLocal, Route, RestartIsLocal, ExitsUnguarded, DropsUnguarded,
         WritesUnguarded, ServiceUnguarded, WritesAreQuiet, NoLateWrite, LandsQuietly,
         GuardKnowsLanded, RecoverOwner
<1>7. LoopOK'
  BY <1>1, <1>3, NothingStands, NoHandler
     DEF IInv, LoopOK, LoopsAreSound, Current, OneIsCurrent, InvalidatedBefore, NoCurrent,
         DropsInvalidated, StartsAreNew, WarnedIsGone, RecoverOwner
<1>8. OffOK'
  BY <1>1, <1>3, NothingStands
     DEF IInv, OffOK, OffIsQuiet, NobodyWrites, NoCurrent, Current, WritesTheGoal, RefreshIsAsked,
         SysGoesOff, ToldOff, PacGoesOff, RecoverOwner
<1> QED
  BY <1>2, <1>4, <1>5, <1>6, <1>7, <1>8 DEF IInv

LEMMA ClearTerminatedKeeps ==
  ASSUME IInv, ClearTerminated
  PROVE  IInv'
<1>1. /\ todo = Nothing /\ IsList(Nothing)
      /\ todo' = Push("stopGuard", Push("coreStopped", Nothing)) /\ onError' = Nothing
      /\ "stopGuard" \in Steps /\ "coreStopped" \in Steps
  <2>1. "stopGuard" \in Steps /\ "coreStopped" \in Steps
    BY DEF Steps
  <2>2. todo' = <<"stopGuard", "coreStopped">> /\ onError' = Nothing
    BY HeadIs DEF IInv, ListsOK, ClearTerminated, Idle, Nothing
  <2>3. /\ <<"stopGuard", "coreStopped">> = Push("stopGuard", Push("coreStopped", Nothing))
    <3>1. IsList(Nothing)
      BY NothingStands
    <3>2. <<"stopGuard", "coreStopped">> = Push("stopGuard", Push("coreStopped", Nothing))
      <4>1. "stopGuard" \in Steps /\ "coreStopped" \in Steps
        BY <2>1
      <4> QED
        BY <4>1, <3>1, PushTwo
    <3> QED
      BY <3>2
  <2> QED
    BY <2>1, <2>2, <2>3, NothingStands, Zenon DEF ClearTerminated, Idle, Nothing
<1>2. TypeOK'
  BY DEF IInv, TypeOK, ClearTerminated, Settings
<1>3. /\ ~Rises(todo') /\ ~HasStart(todo') /\ ~HasBegin(todo') /\ ~HasWriting(todo')
      /\ ~HasLocal(todo') /\ ~HasWrite(todo') /\ ~HasAgain(todo') /\ ~HasServiceClear(todo')
      /\ ~HasRefresh(todo') /\ ~HasLanded(todo') /\ StopsFirst(todo') /\ UnguardsExits(todo')
      /\ UnguardsClears(todo') /\ Drains(todo') /\ Waits(todo') /\ Invalidates(todo')
      /\ InvalidatesClears(todo') /\ AppliesFirst(todo') /\ WritesFirst(todo')
      /\ WritesSecond(todo') /\ IsList(todo') /\ StartsLast(todo') /\ RefreshesLast(todo')
      /\ LandsLast(todo')
  <2>1. "stopGuard" \in Steps /\ "coreStopped" \in Steps
    BY <1>1
  <2>2. /\ IsList(Push("coreStopped", Nothing))
        /\ IsList(Push("stopGuard", Push("coreStopped", Nothing)))
    <3>1. IsList(Push("coreStopped", Nothing))
      BY <2>1, NothingStands, PushList
    <3>2. IsList(Push("stopGuard", Push("coreStopped", Nothing)))
      BY <2>1, <3>1, NothingStands, PushList
    <3> QED
      BY <3>1, <3>2
  <2>3. /\ ~Rises(todo') /\ ~HasStart(todo') /\ ~HasBegin(todo') /\ ~HasWriting(todo')
        /\ ~HasLocal(todo') /\ ~HasWrite(todo') /\ ~HasAgain(todo') /\ ~HasServiceClear(todo')
        /\ ~HasRefresh(todo') /\ ~HasLanded(todo')
    <3>1. todo' = Push("stopGuard", Push("coreStopped", Nothing))
      BY <1>1
    <3> QED
      BY <2>1, <2>2, <3>1, PushAdds, NothingStands
  <2>4. /\ StopsFirst(todo') /\ UnguardsExits(todo') /\ UnguardsClears(todo') /\ Drains(todo')
        /\ Waits(todo') /\ Invalidates(todo') /\ InvalidatesClears(todo') /\ AppliesFirst(todo')
        /\ WritesFirst(todo') /\ WritesSecond(todo')
    <3>1. todo' = Push("stopGuard", Push("coreStopped", Nothing))
      BY <1>1
    <3> QED
      BY <2>1, <2>2, <3>1, PushOrders, PushAdds, NothingStands
  <2>5. /\ IsList(todo') /\ StartsLast(todo') /\ RefreshesLast(todo') /\ LandsLast(todo')
    <3>1. todo' = Push("stopGuard", Push("coreStopped", Nothing))
      BY <1>1
    <3> QED
      BY <2>1, <2>2, <3>1, PushAdds, PushEnds, NothingStands
  <2> QED
    BY <2>3, <2>4, <2>5
<1>4. ListsOK'
  BY <1>1, <1>3, NothingStands, NoHandler DEF IInv, ListsOK
<1>5. ModeOK'
  BY <1>1, <1>3, NothingStands, NoHandler
     DEF IInv, ModeOK, SessionIsServices, SessionIsOld, DeadIsSidecar, RefreshHasACore,
         WritesAreLocal, Route, EndsNoService, StartsFromNone, ClearTerminated
<1>6. GuardOK'
  BY <1>1, <1>3, NothingStands, NoHandler
     DEF IInv, GuardOK, GuardIsLocal, Route, RestartIsLocal, ExitsUnguarded, DropsUnguarded,
         WritesUnguarded, ServiceUnguarded, WritesAreQuiet, NoLateWrite, LandsQuietly,
         GuardKnowsLanded, ClearTerminated
<1>7. LoopOK'
  BY <1>1, <1>3, NothingStands, NoHandler
     DEF IInv, LoopOK, LoopsAreSound, Current, OneIsCurrent, InvalidatedBefore, NoCurrent,
         DropsInvalidated, StartsAreNew, WarnedIsGone, ClearTerminated
<1>8. OffOK'
  BY <1>1, <1>3, NothingStands
     DEF IInv, OffOK, OffIsQuiet, NobodyWrites, NoCurrent, Current, WritesTheGoal, RefreshIsAsked,
         SysGoesOff, ToldOff, PacGoesOff, ClearTerminated
<1> QED
  BY <1>2, <1>4, <1>5, <1>6, <1>7, <1>8 DEF IInv

LEMMA StartServiceKeeps ==
  ASSUME IInv, StartService
  PROVE  IInv'
<1> DEFINE t == Tail(todo)
<1>1. /\ IsList(t)
      /\ todo = Push("startCore", t)
      /\ todo' = Push("capture", Nothing) /\ onError' = onError
      /\ "startCore" \in Steps /\ "capture" \in Steps
  <2>1. "startCore" \in Steps /\ "capture" \in Steps
    BY DEF Steps
  <2>2. IsList(t) /\ (todo = Push("startCore", t))
    BY HeadIs DEF IInv, ListsOK, StartService
  <2>3. t = Nothing
    <3> HIDE DEF t
    <3> QED
      BY <2>1, <2>2, Behind DEF IInv
  <2>4. todo' = <<"capture">> \o t /\ onError' = onError
    BY <2>1, <2>2, <2>3, HeadIs DEF IInv, ListsOK, StartService, Then, ApplyAfterStart, Nothing
  <2> HIDE DEF t
  <2>5. /\ <<"capture">> \o t = Push("capture", t)
    <3>1. <<"capture">> \o t = Push("capture", t)
      <4>1. "capture" \in Steps
        BY <2>1
      <4> QED
        BY <4>1, <2>2, PushOne
    <3> QED
      BY <3>1
  <2> QED
    BY <2>1, <2>2, <2>3, <2>4, <2>5, NothingStands, Zenon
<1> HIDE DEF t
<1>2. TypeOK'
  BY DEF IInv, TypeOK, StartService, Settings, NewMonitor
<1>3. /\ ~Rises(t)
      /\ onError = Nothing
      /\ t = Nothing
      /\ StartsLast(t) /\ RefreshesLast(t) /\ LandsLast(t)
  BY <1>1, Behind DEF IInv
<1>4. /\ ~Falls(todo') /\ ~HasStart(todo') /\ ~HasBegin(todo') /\ ~HasEnd(todo')
      /\ ~HasWriting(todo') /\ ~HasLocal(todo') /\ ~HasWrite(todo') /\ ~HasAgain(todo')
      /\ ~HasServiceClear(todo') /\ ~HasRefresh(todo') /\ ~HasLanded(todo')
      /\ StopsFirst(todo') /\ UnguardsExits(todo') /\ UnguardsClears(todo') /\ Drains(todo')
      /\ Waits(todo') /\ Invalidates(todo') /\ InvalidatesClears(todo') /\ AppliesFirst(todo')
      /\ WritesFirst(todo') /\ WritesSecond(todo') /\ IsList(todo') /\ StartsLast(todo')
      /\ RefreshesLast(todo') /\ LandsLast(todo')
  <2>1. "startCore" \in Steps /\ "capture" \in Steps /\ IsList(t)
    BY <1>1
  <2>2. /\ IsList(Push("capture", Nothing))
    BY <2>1, NothingStands, PushList
  <2>3. /\ ~Falls(todo') /\ ~HasStart(todo') /\ ~HasBegin(todo') /\ ~HasEnd(todo')
        /\ ~HasWriting(todo') /\ ~HasLocal(todo') /\ ~HasWrite(todo') /\ ~HasAgain(todo')
        /\ ~HasServiceClear(todo') /\ ~HasRefresh(todo') /\ ~HasLanded(todo')
    <3>1. todo' = Push("capture", Nothing)
      BY <1>1
    <3> QED
      BY <2>1, <2>2, <3>1, PushAdds, NothingStands
  <2>4. /\ StopsFirst(todo') /\ UnguardsExits(todo') /\ UnguardsClears(todo') /\ Drains(todo')
        /\ Waits(todo') /\ Invalidates(todo') /\ InvalidatesClears(todo') /\ AppliesFirst(todo')
        /\ WritesFirst(todo') /\ WritesSecond(todo')
    <3>1. todo' = Push("capture", Nothing)
      BY <1>1
    <3> QED
      BY <2>1, <2>2, <3>1, PushOrders, PushAdds, NothingStands
  <2>5. /\ IsList(todo') /\ StartsLast(todo') /\ RefreshesLast(todo') /\ LandsLast(todo')
    <3>1. todo' = Push("capture", Nothing)
      BY <1>1
    <3> QED
      BY <2>1, <2>2, <3>1, PushAdds, PushEnds, NothingStands
  <2> QED
    BY <2>3, <2>4, <2>5
<1>5. /\ Falls(todo) /\ HasStart(todo) /\ HasBegin(todo) /\ ~StopsFirst(todo)
  <2>1. "startCore" \in Steps /\ IsList(t)
    BY <1>1
  <2>2. todo = Push("startCore", t)
    BY <1>1
  <2> QED
    BY <2>1, <2>2, PushAdds, PushOrders, <1>3, NothingStands
<1>6. ListsOK'
  BY <1>1, <1>4, <1>5, <1>3, NoHandler DEF IInv, ListsOK
<1>7. ModeOK'
  <2>1. SessionIsServices'
    BY <1>1 DEF IInv, ModeOK, SessionIsServices, StartService, NewMonitor
  <2>2. SessionIsOld'
    BY <1>1, <1>2, Typed DEF IInv, ModeOK, SessionIsOld, StartService, NewMonitor
  <2>3. DeadIsSidecar'
    BY <1>1, <1>4, <1>5, <1>3
       DEF IInv, ModeOK, DeadIsSidecar, StartService, NewMonitor, StartsFromNone
  <2>4. RefreshHasACore'
    BY <1>1, <1>4, <1>5, <1>3 DEF IInv, ModeOK, RefreshHasACore, StartService, NewMonitor
  <2>5. WritesAreLocal'
    BY <1>1, <1>4, <1>5, <1>3 DEF IInv, ModeOK, WritesAreLocal, Route, StartService, NewMonitor
  <2>6. EndsNoService'
    BY <1>1, <1>4, <1>5, <1>3, NoHandler DEF IInv, ModeOK, EndsNoService, StartService, NewMonitor
  <2>7. StartsFromNone'
    BY <1>1, <1>4, <1>5, <1>3 DEF IInv, ModeOK, StartsFromNone, StartService, NewMonitor
  <2> QED
    BY <2>1, <2>2, <2>3, <2>4, <2>5, <2>6, <2>7 DEF ModeOK
<1>8. GuardOK'
  <2>1. GuardIsLocal'
    BY <1>1, <1>4, <1>5, <1>3
       DEF IInv, GuardOK, GuardIsLocal, Route, StartService, NewMonitor, RestartIsLocal, ModeOK,
           WritesAreLocal, RefreshHasACore, ExitsUnguarded, StartsFromNone
  <2>2. RestartIsLocal'
    BY <1>1, <1>4, <1>5, <1>3 DEF IInv, GuardOK, RestartIsLocal, StartService, NewMonitor
  <2>3. ExitsUnguarded'
    BY <1>1, <1>4, <1>5, <1>3 DEF IInv, GuardOK, ExitsUnguarded, StartService, NewMonitor
  <2>4. DropsUnguarded'
    BY <1>1, <1>4, <1>5, <1>3, NoHandler DEF IInv, GuardOK, DropsUnguarded, StartService, NewMonitor
  <2>5. WritesUnguarded'
    BY <1>1, <1>4, <1>5, <1>3 DEF IInv, GuardOK, WritesUnguarded, StartService, NewMonitor
  <2>6. ServiceUnguarded'
    BY <1>1, <1>4, <1>5, <1>3 DEF IInv, GuardOK, ServiceUnguarded, StartService, NewMonitor
  <2>7. WritesAreQuiet'
    BY <1>1, <1>4, <1>5, <1>3
       DEF IInv, GuardOK, WritesAreQuiet, NoLateWrite, StartService, NewMonitor
  <2>8. LandsQuietly'
    BY <1>1, <1>4, <1>5, <1>3 DEF IInv, GuardOK, LandsQuietly, NoLateWrite, StartService, NewMonitor
  <2>9. GuardKnowsLanded'
    BY <1>1 DEF IInv, GuardOK, GuardKnowsLanded, StartService, NewMonitor
  <2> QED
    BY <2>1, <2>2, <2>3, <2>4, <2>5, <2>6, <2>7, <2>8, <2>9 DEF GuardOK
<1>9. LoopOK'
  <2>1. LoopsAreSound'
    BY <1>1, <1>4, <1>5, <1>3
       DEF IInv, LoopOK, LoopsAreSound, Current, StartService, NewMonitor, ModeOK, StartsFromNone,
           InvalidatedBefore, NoCurrent, EndsNoService, SessionIsOld, SessionIsServices
  <2>2. OneIsCurrent'
    BY <1>1 DEF IInv, LoopOK, OneIsCurrent, Current, StartService, NewMonitor
  <2>3. InvalidatedBefore'
    BY <1>1, <1>4, <1>5, <1>3
       DEF IInv, LoopOK, InvalidatedBefore, NoCurrent, Current, StartService, NewMonitor
  <2>4. DropsInvalidated'
    BY <1>1, <1>4, <1>5, <1>3, NoHandler
       DEF IInv, LoopOK, DropsInvalidated, NoCurrent, Current, StartService, NewMonitor
  <2>5. StartsAreNew'
    BY <1>1, <1>4, <1>5, <1>3 DEF IInv, LoopOK, StartsAreNew, StartService, NewMonitor
  <2>6. WarnedIsGone'
    BY <1>1 DEF IInv, LoopOK, WarnedIsGone, NoCurrent, Current, StartService, NewMonitor
  <2> QED
    BY <2>1, <2>2, <2>3, <2>4, <2>5, <2>6 DEF LoopOK
<1>10. OffOK'
  <2>1. OffIsQuiet'
    <3>1. \A l \in loops : l.session < ops
      BY <1>5 DEF IInv, LoopOK, StartsAreNew
    <3>2. \A l \in loops : l.session # session'
      BY <3>1, Typed DEF IInv, StartService, Loops
    <3> QED
      BY <3>2 DEF IInv, OffOK, OffIsQuiet, NobodyWrites, NoCurrent, Current, StartService
  <2>2. WritesTheGoal'
    BY <1>1, <1>4, <1>5, <1>3 DEF IInv, OffOK, WritesTheGoal, StartService, NewMonitor
  <2>3. RefreshIsAsked'
    BY <1>1, <1>4, <1>5, <1>3 DEF IInv, OffOK, RefreshIsAsked, StartService, NewMonitor
  <2>4. SysGoesOff'
    BY <1>1, <1>4, <1>5, <1>3 DEF IInv, OffOK, SysGoesOff, ToldOff, StartService, NewMonitor
  <2>5. PacGoesOff'
    BY <1>1, <1>4, <1>5, <1>3 DEF IInv, OffOK, PacGoesOff, ToldOff, StartService, NewMonitor
  <2> QED
    BY <2>1, <2>2, <2>3, <2>4, <2>5 DEF OffOK
<1> QED
  BY <1>2, <1>6, <1>7, <1>8, <1>9, <1>10 DEF IInv

LEMMA StartSidecarKeeps ==
  ASSUME IInv, StartSidecar
  PROVE  IInv'
<1> DEFINE t == Tail(todo)
<1>1. /\ IsList(t)
      /\ \/ todo = Push("startCore", t) /\ todo' = Push("capture", Nothing) /\ onError' = onError
         \/ todo = Push("startSidecar", t) /\ todo' = Push("capture", Nothing) /\ onError' = onError
      /\ "startCore" \in Steps /\ "startSidecar" \in Steps /\ "capture" \in Steps
  <2>1. "startCore" \in Steps /\ "startSidecar" \in Steps /\ "capture" \in Steps
    BY DEF Steps
  <2>2. IsList(t) /\ (todo = Push("startCore", t) \/ todo = Push("startSidecar", t))
    BY HeadIs DEF IInv, ListsOK, StartSidecar
  <2>3. t = Nothing
    <3> HIDE DEF t
    <3> QED
      BY <2>1, <2>2, Behind DEF IInv
  <2>4. \/ todo = Push("startCore", t) /\ todo' = <<"capture">> \o t /\ onError' = onError
        \/ todo = Push("startSidecar", t) /\ todo' = <<"capture">> \o t /\ onError' = onError
    <3>1. CASE At("startCore")
      <4>1. todo = Push("startCore", t)
        BY <3>1, HeadIs DEF IInv, ListsOK
      <4>2. todo' = <<"capture">> \o t /\ onError' = onError
        BY <3>1 DEF At, StartSidecar, Then, ApplyAfterStart, Nothing
      <4> QED
        BY <4>1, <4>2
    <3>2. CASE At("startSidecar")
      <4>1. todo = Push("startSidecar", t)
        BY <3>2, HeadIs DEF IInv, ListsOK
      <4>2. todo' = <<"capture">> \o t /\ onError' = onError
        BY <3>2 DEF At, StartSidecar, Then, ApplyAfterStart, Nothing
      <4> QED
        BY <4>1, <4>2
    <3> QED
      BY <3>1, <3>2 DEF StartSidecar
  <2> HIDE DEF t
  <2>5. /\ <<"capture">> \o t = Push("capture", t)
    <3>1. <<"capture">> \o t = Push("capture", t)
      <4>1. "capture" \in Steps
        BY <2>1
      <4> QED
        BY <4>1, <2>2, PushOne
    <3> QED
      BY <3>1
  <2> QED
    BY <2>1, <2>2, <2>3, <2>4, <2>5, NothingStands, Zenon
<1> HIDE DEF t
<1>2. TypeOK'
  BY DEF IInv, TypeOK, StartSidecar, Settings
<1>3. /\ ~Rises(t)
      /\ t = Nothing
      /\ onError \in {Nothing, Undo}
      /\ StartsLast(t) /\ RefreshesLast(t) /\ LandsLast(t)
  BY <1>1, Behind DEF IInv
<1>4. /\ ~Falls(todo') /\ ~HasStart(todo') /\ ~HasBegin(todo') /\ ~HasEnd(todo')
      /\ ~HasWriting(todo') /\ ~HasLocal(todo') /\ ~HasWrite(todo') /\ ~HasAgain(todo')
      /\ ~HasServiceClear(todo') /\ ~HasRefresh(todo') /\ ~HasLanded(todo')
      /\ StopsFirst(todo') /\ UnguardsExits(todo') /\ UnguardsClears(todo') /\ Drains(todo')
      /\ Waits(todo') /\ Invalidates(todo') /\ InvalidatesClears(todo') /\ AppliesFirst(todo')
      /\ WritesFirst(todo') /\ WritesSecond(todo') /\ IsList(todo') /\ StartsLast(todo')
      /\ RefreshesLast(todo') /\ LandsLast(todo')
  <2>1. "startCore" \in Steps /\ "startSidecar" \in Steps /\ "capture" \in Steps /\ IsList(t)
    BY <1>1
  <2>2. /\ IsList(Push("capture", Nothing))
    BY <2>1, NothingStands, PushList
  <2>3. /\ ~Falls(todo') /\ ~HasStart(todo') /\ ~HasBegin(todo') /\ ~HasEnd(todo')
        /\ ~HasWriting(todo') /\ ~HasLocal(todo') /\ ~HasWrite(todo') /\ ~HasAgain(todo')
        /\ ~HasServiceClear(todo') /\ ~HasRefresh(todo') /\ ~HasLanded(todo')
    <3>1. todo' = Push("capture", Nothing)
      BY <1>1
    <3> QED
      BY <2>1, <2>2, <3>1, PushAdds, NothingStands
  <2>4. /\ StopsFirst(todo') /\ UnguardsExits(todo') /\ UnguardsClears(todo') /\ Drains(todo')
        /\ Waits(todo') /\ Invalidates(todo') /\ InvalidatesClears(todo') /\ AppliesFirst(todo')
        /\ WritesFirst(todo') /\ WritesSecond(todo')
    <3>1. todo' = Push("capture", Nothing)
      BY <1>1
    <3> QED
      BY <2>1, <2>2, <3>1, PushOrders, PushAdds, NothingStands
  <2>5. /\ IsList(todo') /\ StartsLast(todo') /\ RefreshesLast(todo') /\ LandsLast(todo')
    <3>1. todo' = Push("capture", Nothing)
      BY <1>1
    <3> QED
      BY <2>1, <2>2, <3>1, PushAdds, PushEnds, NothingStands
  <2> QED
    BY <2>3, <2>4, <2>5
<1>5. /\ Falls(todo) /\ HasBegin(todo) /\ ~StopsFirst(todo)
  <2>1. "startCore" \in Steps /\ "startSidecar" \in Steps /\ IsList(t)
    BY <1>1
  <2>2. CASE todo = Push("startCore", t)
    BY <2>1, <2>2, PushAdds, PushOrders, <1>3, NothingStands
  <2>3. CASE todo = Push("startSidecar", t)
    BY <2>1, <2>3, PushAdds, PushOrders, <1>3, NothingStands
  <2> QED
    BY <1>1, <2>2, <2>3
<1>6. ListsOK'
  BY <1>1, <1>4, <1>5, <1>3, NoHandler DEF IInv, ListsOK
<1>7. ModeOK'
  BY <1>1, <1>4, <1>5, <1>3, NoHandler
     DEF IInv, ModeOK, SessionIsServices, SessionIsOld, DeadIsSidecar, RefreshHasACore,
         WritesAreLocal, Route, EndsNoService, StartsFromNone, StartSidecar
<1>8. GuardOK'
  BY <1>1, <1>4, <1>5, <1>3, NoHandler
     DEF IInv, GuardOK, GuardIsLocal, Route, RestartIsLocal, ExitsUnguarded, DropsUnguarded,
         WritesUnguarded, ServiceUnguarded, WritesAreQuiet, NoLateWrite, LandsQuietly,
         GuardKnowsLanded, StartSidecar
<1>9. LoopOK'
  <2>1. LoopsAreSound'
    BY <1>1, <1>4, <1>5, <1>3
       DEF IInv, LoopOK, LoopsAreSound, Current, StartSidecar, ModeOK, StartsFromNone,
           InvalidatedBefore, NoCurrent, EndsNoService, SessionIsOld, SessionIsServices
  <2>2. OneIsCurrent'
    BY <1>1 DEF IInv, LoopOK, OneIsCurrent, Current, StartSidecar
  <2>3. InvalidatedBefore'
    BY <1>1, <1>4, <1>5, <1>3 DEF IInv, LoopOK, InvalidatedBefore, NoCurrent, Current, StartSidecar
  <2>4. DropsInvalidated'
    BY <1>1, <1>4, <1>5, <1>3, NoHandler
       DEF IInv, LoopOK, DropsInvalidated, NoCurrent, Current, StartSidecar
  <2>5. StartsAreNew'
    BY <1>1, <1>4, <1>5, <1>3 DEF IInv, LoopOK, StartsAreNew, StartSidecar
  <2>6. WarnedIsGone'
    BY <1>1 DEF IInv, LoopOK, WarnedIsGone, NoCurrent, Current, StartSidecar
  <2> QED
    BY <2>1, <2>2, <2>3, <2>4, <2>5, <2>6 DEF LoopOK
<1>10. OffOK'
  BY <1>1, <1>4, <1>5, <1>3
     DEF IInv, OffOK, OffIsQuiet, NobodyWrites, NoCurrent, Current, WritesTheGoal, RefreshIsAsked,
         SysGoesOff, ToldOff, PacGoesOff, StartSidecar
<1> QED
  BY <1>2, <1>6, <1>7, <1>8, <1>9, <1>10 DEF IInv

LEMMA StartFailsKeeps ==
  ASSUME IInv, StartFails
  PROVE  IInv'
<1> DEFINE t == Tail(todo)
<1>1. /\ IsList(t)
      /\ \/ todo = Push("startCore", t) /\ todo' = Push("stopGuard", Push("coreStopped", onError))
              /\ onError' = Nothing
         \/ todo = Push("startSidecar", t) /\ todo'
              = Push("stopGuard", Push("coreStopped", onError)) /\ onError' = Nothing
      /\ "startCore" \in Steps /\ "startSidecar" \in Steps /\ "stopGuard" \in Steps
           /\ "coreStopped" \in Steps
  <2>1. "startCore" \in Steps /\ "startSidecar" \in Steps /\ "stopGuard" \in Steps
          /\ "coreStopped" \in Steps
    BY DEF Steps
  <2>2. IsList(t) /\ (todo = Push("startCore", t) \/ todo = Push("startSidecar", t))
    BY HeadIs DEF IInv, ListsOK, StartFails
  <2>3. \/ todo = Push("startCore", t) /\ todo' = <<"stopGuard", "coreStopped">> \o onError
             /\ onError' = Nothing
        \/ todo = Push("startSidecar", t) /\ todo' = <<"stopGuard", "coreStopped">> \o onError
             /\ onError' = Nothing
    <3>1. CASE At("startCore")
      <4>1. todo = Push("startCore", t)
        BY <3>1, HeadIs DEF IInv, ListsOK
      <4>2. todo' = <<"stopGuard", "coreStopped">> \o onError /\ onError' = Nothing
        BY <3>1 DEF At, StartFails, Nothing
      <4> QED
        BY <4>1, <4>2
    <3>2. CASE At("startSidecar")
      <4>1. todo = Push("startSidecar", t)
        BY <3>2, HeadIs DEF IInv, ListsOK
      <4>2. todo' = <<"stopGuard", "coreStopped">> \o onError /\ onError' = Nothing
        BY <3>2 DEF At, StartFails, Nothing
      <4> QED
        BY <4>1, <4>2
    <3> QED
      BY <3>1, <3>2 DEF StartFails
  <2> HIDE DEF t
  <2>4. /\ <<"stopGuard", "coreStopped">> \o onError
             = Push("stopGuard", Push("coreStopped", onError))
    <3>1. IsList(onError)
      BY HandlersAre DEF IInv, ListsOK, Bare
    <3>2. <<"stopGuard", "coreStopped">> \o onError
            = Push("stopGuard", Push("coreStopped", onError))
      <4>1. "stopGuard" \in Steps /\ "coreStopped" \in Steps
        BY <2>1
      <4> QED
        BY <4>1, <2>2, <3>1, PushTwo
    <3> QED
      BY <3>2
  <2> QED
    BY <2>1, <2>2, <2>3, <2>4, NothingStands, Zenon
<1> HIDE DEF t
<1>2. TypeOK'
  BY DEF IInv, TypeOK, StartFails, Settings
<1>3. /\ Bare(onError) /\ ~Rises(onError)
      /\ onError = Dropping \/ (UnguardsExits(onError) /\ Invalidates(onError))
      /\ onError \in Undoing \/ ~HasEnd(onError)
      /\ Nothing \notin Undoing /\ Nothing # Dropping
  BY HandlersAre, NoHandler DEF IInv, ListsOK, Bare
<1>4. /\ ~Rises(t)
      /\ t = Nothing
      /\ onError \in {Nothing, Undo}
      /\ StartsLast(t) /\ RefreshesLast(t) /\ LandsLast(t)
  BY <1>1, Behind DEF IInv
<1>5. /\ ~Rises(onError) /\ ~HasStart(onError) /\ ~HasBegin(onError) /\ ~HasLocal(onError)
      /\ ~HasAgain(onError) /\ ~HasServiceClear(onError) /\ ~HasLanded(onError)
      /\ StopsFirst(onError) /\ UnguardsClears(onError) /\ Drains(onError) /\ Waits(onError)
      /\ InvalidatesClears(onError) /\ StartsLast(onError) /\ RefreshesLast(onError)
      /\ LandsLast(onError) /\ ~HasWriting(onError) /\ ~HasWrite(onError)
      /\ ~HasRefresh(onError) /\ AppliesFirst(onError) /\ WritesFirst(onError)
      /\ WritesSecond(onError) /\ IsList(onError)
  BY <1>3, NotUp DEF Bare
<1>6. /\ ~Rises(todo') /\ ~HasStart(todo') /\ ~HasBegin(todo') /\ ~HasWriting(todo')
      /\ ~HasLocal(todo') /\ ~HasWrite(todo') /\ ~HasAgain(todo') /\ ~HasServiceClear(todo')
      /\ ~HasRefresh(todo') /\ ~HasLanded(todo') /\ StopsFirst(todo') /\ UnguardsExits(todo')
      /\ UnguardsClears(todo') /\ Drains(todo') /\ Waits(todo') /\ Invalidates(todo')
      /\ InvalidatesClears(todo') /\ AppliesFirst(todo') /\ WritesFirst(todo')
      /\ WritesSecond(todo') /\ IsList(todo') /\ StartsLast(todo') /\ RefreshesLast(todo')
      /\ LandsLast(todo')
  <2>1. "startCore" \in Steps /\ "startSidecar" \in Steps /\ "stopGuard" \in Steps
          /\ "coreStopped" \in Steps /\ IsList(t)
    BY <1>1
  <2>2. /\ IsList(Push("coreStopped", onError))
        /\ IsList(Push("stopGuard", Push("coreStopped", onError)))
    <3>1. IsList(Push("coreStopped", onError))
      BY <2>1, <1>5, PushList
    <3>2. IsList(Push("stopGuard", Push("coreStopped", onError)))
      BY <2>1, <3>1, <1>5, PushList
    <3> QED
      BY <3>1, <3>2
  <2>3. /\ ~Rises(todo') /\ ~HasStart(todo') /\ ~HasBegin(todo') /\ ~HasWriting(todo')
        /\ ~HasLocal(todo') /\ ~HasWrite(todo') /\ ~HasAgain(todo') /\ ~HasServiceClear(todo')
        /\ ~HasRefresh(todo') /\ ~HasLanded(todo')
    <3>1. todo' = Push("stopGuard", Push("coreStopped", onError))
      BY <1>1
    <3> QED
      BY <2>1, <2>2, <3>1, PushAdds, <1>5
  <2>4. /\ StopsFirst(todo') /\ UnguardsExits(todo') /\ UnguardsClears(todo') /\ Drains(todo')
        /\ Waits(todo') /\ Invalidates(todo') /\ InvalidatesClears(todo') /\ AppliesFirst(todo')
        /\ WritesFirst(todo') /\ WritesSecond(todo')
    <3>1. todo' = Push("stopGuard", Push("coreStopped", onError))
      BY <1>1
    <3> QED
      BY <2>1, <2>2, <3>1, PushOrders, PushAdds, <1>5
  <2>5. /\ IsList(todo') /\ StartsLast(todo') /\ RefreshesLast(todo') /\ LandsLast(todo')
    <3>1. todo' = Push("stopGuard", Push("coreStopped", onError))
      BY <1>1
    <3> QED
      BY <2>1, <2>2, <3>1, PushAdds, PushEnds, <1>5
  <2> QED
    BY <2>3, <2>4, <2>5
<1>7. /\ Falls(todo) /\ HasBegin(todo) /\ ~StopsFirst(todo)
  <2>1. "startCore" \in Steps /\ "startSidecar" \in Steps /\ IsList(t)
    BY <1>1
  <2>2. CASE todo = Push("startCore", t)
    BY <2>1, <2>2, PushAdds, PushOrders, <1>4, NothingStands
  <2>3. CASE todo = Push("startSidecar", t)
    BY <2>1, <2>3, PushAdds, PushOrders, <1>4, NothingStands
  <2> QED
    BY <1>1, <2>2, <2>3
<1>8. ListsOK'
  BY <1>1, <1>6, <1>7, <1>4, <1>3, NoHandler DEF IInv, ListsOK, Bare
<1>9. ModeOK'
  BY <1>1, <1>6, <1>7, <1>4, <1>3, NoHandler
     DEF IInv, ModeOK, SessionIsServices, SessionIsOld, DeadIsSidecar, RefreshHasACore, Bare,
         WritesAreLocal, Route, EndsNoService, StartsFromNone, StartFails
<1>10. GuardOK'
  BY <1>1, <1>6, <1>7, <1>4, <1>3, NoHandler
     DEF IInv, GuardOK, GuardIsLocal, Route, RestartIsLocal, Bare, ExitsUnguarded, DropsUnguarded,
         WritesUnguarded, ServiceUnguarded, WritesAreQuiet, NoLateWrite, LandsQuietly,
         GuardKnowsLanded, StartFails
<1>11. LoopOK'
  BY <1>1, <1>6, <1>7, <1>4, <1>3, NoHandler
     DEF IInv, LoopOK, LoopsAreSound, Current, OneIsCurrent, InvalidatedBefore, NoCurrent, Bare,
         DropsInvalidated, StartsAreNew, WarnedIsGone, StartFails
<1>12. OffOK'
  BY <1>1, <1>6, <1>7, <1>4, <1>3
     DEF IInv, OffOK, OffIsQuiet, NobodyWrites, NoCurrent, Current, WritesTheGoal, Bare,
         RefreshIsAsked, SysGoesOff, ToldOff, PacGoesOff, StartFails
<1> QED
  BY <1>2, <1>8, <1>9, <1>10, <1>11, <1>12 DEF IInv

LEMMA CoreStoppedKeeps ==
  ASSUME IInv, CoreStopped
  PROVE  IInv'
<1> DEFINE t == Tail(todo)
<1>1. /\ IsList(t)
      /\ todo = Push("coreStopped", t)
      /\ todo' = t /\ onError' = onError
      /\ "coreStopped" \in Steps
  <2>1. "coreStopped" \in Steps
    BY DEF Steps
  <2>2. IsList(t) /\ (todo = Push("coreStopped", t))
    BY HeadIs DEF IInv, ListsOK, CoreStopped
  <2> QED
    BY <2>1, <2>2, HeadIs, NothingStands, PushOne, PushTwo, PushThree, PushAdds
       DEF IInv, ListsOK, CoreStopped, Done, Then
<1> HIDE DEF t
<1>2. TypeOK'
  BY DEF IInv, TypeOK, CoreStopped, Settings, Stopped
<1>3. /\ ~Rises(t)
      /\ StartsLast(t) /\ RefreshesLast(t) /\ LandsLast(t)
  BY <1>1, Behind DEF IInv
<1>4. ListsOK'
  BY <1>1, ListsPop DEF IInv
<1>5. ModeOK'
  BY <1>1, PushAdds, <1>3, NotUp, NoHandler, PushOrders
     DEF IInv, ModeOK, SessionIsServices, SessionIsOld, DeadIsSidecar, RefreshHasACore,
         WritesAreLocal, Route, EndsNoService, StartsFromNone, CoreStopped, Stopped
<1>6. GuardOK'
  BY <1>1, PushAdds, <1>3, NotUp, PushOrders, NoHandler
     DEF IInv, GuardOK, GuardIsLocal, Route, RestartIsLocal, ExitsUnguarded, DropsUnguarded,
         WritesUnguarded, ServiceUnguarded, WritesAreQuiet, NoLateWrite, LandsQuietly,
         GuardKnowsLanded, CoreStopped, Stopped
<1>7. LoopOK'
  <2>1. LoopsAreSound'
    BY <1>1, PushAdds, PushOrders, <1>3, NotUp
       DEF IInv, LoopOK, LoopsAreSound, Current, CoreStopped, Stopped, ModeOK, StartsFromNone,
           InvalidatedBefore, NoCurrent, EndsNoService, SessionIsOld, SessionIsServices
  <2>2. OneIsCurrent'
    BY <1>1 DEF IInv, LoopOK, OneIsCurrent, Current, CoreStopped, Stopped
  <2>3. InvalidatedBefore'
    BY <1>1, PushOrders, <1>3, NotUp
       DEF IInv, LoopOK, InvalidatedBefore, NoCurrent, Current, CoreStopped, Stopped
  <2>4. DropsInvalidated'
    BY <1>1, PushOrders, <1>3, NotUp, NoHandler
       DEF IInv, LoopOK, DropsInvalidated, NoCurrent, Current, CoreStopped, Stopped
  <2>5. StartsAreNew'
    BY <1>1, PushAdds, <1>3, NotUp DEF IInv, LoopOK, StartsAreNew, CoreStopped, Stopped
  <2>6. WarnedIsGone'
    BY <1>1 DEF IInv, LoopOK, WarnedIsGone, NoCurrent, Current, CoreStopped, Stopped
  <2> QED
    BY <2>1, <2>2, <2>3, <2>4, <2>5, <2>6 DEF LoopOK
<1>8. OffOK'
  BY <1>1, PushAdds, <1>3, NotUp, PushOrders
     DEF IInv, OffOK, OffIsQuiet, NobodyWrites, NoCurrent, Current, WritesTheGoal, RefreshIsAsked,
         SysGoesOff, ToldOff, PacGoesOff, CoreStopped, Stopped
<1> QED
  BY <1>2, <1>4, <1>5, <1>6, <1>7, <1>8 DEF IInv

LEMMA StopSidecarKeeps ==
  ASSUME IInv, StopSidecar
  PROVE  IInv'
<1> DEFINE t == Tail(todo)
<1>1. /\ IsList(t)
      /\ todo = Push("stopCore", t)
      /\ \/ todo' = t /\ onError' = onError
         \/ todo' = onError /\ onError' = Nothing
      /\ "stopCore" \in Steps
  <2>1. "stopCore" \in Steps
    BY DEF Steps
  <2>2. IsList(t) /\ (todo = Push("stopCore", t))
    BY HeadIs DEF IInv, ListsOK, StopSidecar
  <2> QED
    BY <2>1, <2>2, HeadIs, NothingStands, PushOne, PushTwo, PushThree, PushAdds
       DEF IInv, ListsOK, StopSidecar, Done, Then, Fail, Nothing
<1> HIDE DEF t
<1>2. TypeOK'
  BY DEF IInv, TypeOK, StopSidecar, Settings, Stopped
<1>3. /\ Bare(onError) /\ ~Rises(onError)
      /\ onError = Dropping \/ (UnguardsExits(onError) /\ Invalidates(onError))
      /\ onError \in Undoing \/ ~HasEnd(onError)
      /\ Nothing \notin Undoing /\ Nothing # Dropping
  BY HandlersAre, NoHandler DEF IInv, ListsOK, Bare
<1>4. /\ ~Rises(t)
      /\ StartsLast(t) /\ RefreshesLast(t) /\ LandsLast(t)
  BY <1>1, Behind DEF IInv
<1>5. ListsOK'
  BY <1>1, ListsPop, ListsFail DEF IInv
<1>6. ModeOK'
  BY <1>1, PushAdds, <1>4, NotUp, <1>3, NoHandler, PushOrders
     DEF IInv, ModeOK, SessionIsServices, SessionIsOld, DeadIsSidecar, RefreshHasACore, Bare,
         WritesAreLocal, Route, EndsNoService, StartsFromNone, StopSidecar, Stopped
<1>7. GuardOK'
  BY <1>1, PushAdds, <1>4, NotUp, <1>3, PushOrders, NoHandler
     DEF IInv, GuardOK, GuardIsLocal, Route, RestartIsLocal, Bare, ExitsUnguarded, DropsUnguarded,
         WritesUnguarded, ServiceUnguarded, WritesAreQuiet, NoLateWrite, LandsQuietly,
         GuardKnowsLanded, StopSidecar, Stopped
<1>8. LoopOK'
  BY <1>1, PushOrders, <1>4, NotUp, <1>3, NoHandler, PushAdds
     DEF IInv, LoopOK, LoopsAreSound, Current, OneIsCurrent, InvalidatedBefore, NoCurrent, Bare,
         DropsInvalidated, StartsAreNew, WarnedIsGone, StopSidecar, Stopped
<1>9. OffOK'
  BY <1>1, PushAdds, <1>4, NotUp, <1>3, PushOrders
     DEF IInv, OffOK, OffIsQuiet, NobodyWrites, NoCurrent, Current, WritesTheGoal, Bare,
         RefreshIsAsked, SysGoesOff, ToldOff, PacGoesOff, StopSidecar, Stopped
<1> QED
  BY <1>2, <1>5, <1>6, <1>7, <1>8, <1>9 DEF IInv

LEMMA StopServiceKeeps ==
  ASSUME IInv, StopService
  PROVE  IInv'
<1> DEFINE t == Tail(todo)
<1>1. /\ IsList(t)
      /\ todo = Push("stopCore", t)
      /\ todo' = t /\ onError' = onError
      /\ "stopCore" \in Steps
  <2>1. "stopCore" \in Steps
    BY DEF Steps
  <2>2. IsList(t) /\ (todo = Push("stopCore", t))
    BY HeadIs DEF IInv, ListsOK, StopService
  <2> QED
    BY <2>1, <2>2, HeadIs, NothingStands, PushOne, PushTwo, PushThree, PushAdds
       DEF IInv, ListsOK, StopService, Done, Then
<1> HIDE DEF t
<1>2. TypeOK'
  <2>1. /\ platform' \in Platforms /\ wanted' \in Settings /\ before' \in Settings \cup {NoSetting}
        /\ mode' \in {"none", "sidecar", "service"} /\ loops' \subseteq Loops
        /\ goal' \in Settings \cup {NoSetting}
    BY DEF IInv, TypeOK, StopService, Stopped
  <2>2. /\ os' \subseteq Kinds /\ {guardType', guardWrite'} \subseteq Kinds \cup {"none"}
        /\ off' \in {"no", "written", "skipped", "late"} /\ landed' \in Targets
    BY DEF IInv, TypeOK, StopService, Stopped, Settings, Targets, Kinds
  <2>3. /\ {ready', watched', died', network', due'} \subseteq BOOLEAN
        /\ {guardOn', wasOn', drained', reached', warned'} \subseteq BOOLEAN
    BY DEF IInv, TypeOK, StopService, Stopped
  <2>4. {owner', session', lost', gen', expected', tries', ops'} \subseteq Nat
    BY DEF IInv, TypeOK, StopService, Stopped
  <2> QED
    BY <2>1, <2>2, <2>3, <2>4 DEF TypeOK
<1>3. /\ ~Rises(t)
      /\ StartsLast(t) /\ RefreshesLast(t) /\ LandsLast(t)
  BY <1>1, Behind DEF IInv
<1>4. ListsOK'
  BY <1>1, ListsPop DEF IInv
<1>5. ModeOK'
  <2>1. SessionIsServices'
    BY <1>1 DEF IInv, ModeOK, SessionIsServices, StopService, Stopped
  <2>2. SessionIsOld'
    BY <1>1, <1>2, Typed DEF IInv, ModeOK, SessionIsOld, StopService, Stopped
  <2>3. DeadIsSidecar'
    BY <1>1 DEF IInv, ModeOK, DeadIsSidecar, StopService, Stopped
  <2>4. RefreshHasACore'
    BY <1>1, PushAdds, <1>3, NotUp DEF IInv, ModeOK, RefreshHasACore, StopService, Stopped
  <2>5. WritesAreLocal'
    BY <1>1, PushAdds, <1>3, NotUp DEF IInv, ModeOK, WritesAreLocal, Route, StopService, Stopped
  <2>6. EndsNoService'
    BY <1>1, PushAdds, <1>3, NotUp, NoHandler DEF IInv, ModeOK, EndsNoService, StopService, Stopped
  <2>7. StartsFromNone'
    BY <1>1, PushOrders, <1>3, NotUp DEF IInv, ModeOK, StartsFromNone, StopService, Stopped
  <2> QED
    BY <2>1, <2>2, <2>3, <2>4, <2>5, <2>6, <2>7 DEF ModeOK
<1>6. GuardOK'
  BY <1>1, PushAdds, <1>3, NotUp, PushOrders, NoHandler
     DEF IInv, GuardOK, GuardIsLocal, Route, RestartIsLocal, ExitsUnguarded, DropsUnguarded,
         WritesUnguarded, ServiceUnguarded, WritesAreQuiet, NoLateWrite, LandsQuietly,
         GuardKnowsLanded, StopService, Stopped
<1>7. LoopOK'
  BY <1>1, PushOrders, <1>3, NotUp, NoHandler, PushAdds
     DEF IInv, LoopOK, LoopsAreSound, Current, OneIsCurrent, InvalidatedBefore, NoCurrent,
         DropsInvalidated, StartsAreNew, WarnedIsGone, StopService, Stopped
<1>8. OffOK'
  <2>1. OffIsQuiet'
    BY <1>1, PushAdds, PushOrders, <1>3, NotUp
       DEF IInv, OffOK, OffIsQuiet, NobodyWrites, NoCurrent, Current, StopService, Stopped,
           WritesTheGoal, RefreshIsAsked, GuardOK, WritesUnguarded, WritesAreQuiet, NoLateWrite,
           LoopOK, InvalidatedBefore, LoopsAreSound, ModeOK, SessionIsServices, WritesAreLocal,
           Route, LandsQuietly, ServiceUnguarded
  <2>2. WritesTheGoal'
    BY <1>1, PushAdds, <1>3, NotUp DEF IInv, OffOK, WritesTheGoal, StopService, Stopped
  <2>3. RefreshIsAsked'
    BY <1>1, PushOrders, <1>3, NotUp DEF IInv, OffOK, RefreshIsAsked, StopService, Stopped
  <2>4. SysGoesOff'
    BY <1>1, PushOrders, <1>3, NotUp DEF IInv, OffOK, SysGoesOff, ToldOff, StopService, Stopped
  <2>5. PacGoesOff'
    BY <1>1, PushOrders, <1>3, NotUp DEF IInv, OffOK, PacGoesOff, ToldOff, StopService, Stopped
  <2> QED
    BY <2>1, <2>2, <2>3, <2>4, <2>5 DEF OffOK
<1> QED
  BY <1>2, <1>4, <1>5, <1>6, <1>7, <1>8 DEF IInv

LEMMA StopServiceFailsKeeps ==
  ASSUME IInv, StopServiceFails
  PROVE  IInv'
<1> DEFINE t == Tail(todo)
<1>1. /\ IsList(t)
      /\ todo = Push("stopCore", t)
      /\ todo' = onError /\ onError' = Nothing
      /\ "stopCore" \in Steps
  <2>1. "stopCore" \in Steps
    BY DEF Steps
  <2>2. IsList(t) /\ (todo = Push("stopCore", t))
    BY HeadIs DEF IInv, ListsOK, StopServiceFails
  <2> QED
    BY <2>1, <2>2, HeadIs, NothingStands, PushOne, PushTwo, PushThree, PushAdds
       DEF IInv, ListsOK, StopServiceFails, Fail, Nothing
<1> HIDE DEF t
<1>2. TypeOK'
  BY DEF IInv, TypeOK, StopServiceFails, Settings
<1>3. /\ Bare(onError) /\ ~Rises(onError)
      /\ onError = Dropping \/ (UnguardsExits(onError) /\ Invalidates(onError))
      /\ onError \in Undoing \/ ~HasEnd(onError)
      /\ Nothing \notin Undoing /\ Nothing # Dropping
  BY HandlersAre, NoHandler DEF IInv, ListsOK, Bare
<1>4. /\ ~Rises(t)
      /\ StartsLast(t) /\ RefreshesLast(t) /\ LandsLast(t)
  BY <1>1, Behind DEF IInv
<1>5. ListsOK'
  BY <1>1, ListsFail DEF IInv
<1>6. ModeOK'
  BY <1>1, PushAdds, <1>4, NotUp, <1>3, NoHandler, PushOrders
     DEF IInv, ModeOK, SessionIsServices, SessionIsOld, DeadIsSidecar, RefreshHasACore, Bare,
         WritesAreLocal, Route, EndsNoService, StartsFromNone, StopServiceFails
<1>7. GuardOK'
  BY <1>1, PushAdds, <1>4, NotUp, <1>3, PushOrders, NoHandler
     DEF IInv, GuardOK, GuardIsLocal, Route, RestartIsLocal, Bare, ExitsUnguarded, DropsUnguarded,
         WritesUnguarded, ServiceUnguarded, WritesAreQuiet, NoLateWrite, LandsQuietly,
         GuardKnowsLanded, StopServiceFails
<1>8. LoopOK'
  BY <1>1, PushOrders, <1>4, NotUp, <1>3, NoHandler, PushAdds
     DEF IInv, LoopOK, LoopsAreSound, Current, OneIsCurrent, InvalidatedBefore, NoCurrent, Bare,
         DropsInvalidated, StartsAreNew, WarnedIsGone, StopServiceFails
<1>9. OffOK'
  BY <1>1, PushAdds, <1>4, NotUp, <1>3, PushOrders
     DEF IInv, OffOK, OffIsQuiet, NobodyWrites, NoCurrent, Current, WritesTheGoal, Bare,
         RefreshIsAsked, SysGoesOff, ToldOff, PacGoesOff, StopServiceFails
<1> QED
  BY <1>2, <1>5, <1>6, <1>7, <1>8, <1>9 DEF IInv

LEMMA StopServiceDisplacedKeeps ==
  ASSUME IInv, StopServiceDisplaced
  PROVE  IInv'
<1> DEFINE t == Tail(todo)
<1>1. /\ IsList(t)
      /\ todo = Push("stopCore", t)
      /\ \/ todo' = Push("stopGuard", Push("dropSession", Nothing)) /\ onError' = Dropping
         \/ todo' = Push("stopGuard", Push("clear", Push("dropSession", Nothing)))
              /\ onError' = Dropping
      /\ "stopCore" \in Steps /\ "stopGuard" \in Steps /\ "dropSession" \in Steps
           /\ "clear" \in Steps
  <2>1. "stopCore" \in Steps /\ "stopGuard" \in Steps /\ "dropSession" \in Steps
          /\ "clear" \in Steps
    BY DEF Steps
  <2>2. IsList(t) /\ (todo = Push("stopCore", t))
    BY HeadIs DEF IInv, ListsOK, StopServiceDisplaced
  <2>3. \/ todo' = <<"stopGuard", "dropSession">> /\ onError' = Dropping
        \/ todo' = <<"stopGuard", "clear", "dropSession">> /\ onError' = Dropping
    BY <2>1, <2>2, HeadIs DEF IInv, ListsOK, StopServiceDisplaced, Nothing, Dropping
  <2> HIDE DEF t
  <2>4. /\ <<"stopGuard", "dropSession">> = Push("stopGuard", Push("dropSession", Nothing))
        /\ <<"stopGuard", "clear", "dropSession">>
             = Push("stopGuard", Push("clear", Push("dropSession", Nothing)))
    <3>1. <<"stopGuard", "dropSession">> = Push("stopGuard", Push("dropSession", Nothing))
      <4>1. "stopGuard" \in Steps /\ "dropSession" \in Steps
        BY <2>1
      <4> QED
        BY <4>1, <2>2, PushTwo
    <3>2. <<"stopGuard", "clear", "dropSession">>
            = Push("stopGuard", Push("clear", Push("dropSession", Nothing)))
      <4>1. "stopGuard" \in Steps /\ "clear" \in Steps /\ "dropSession" \in Steps
        BY <2>1
      <4> QED
        BY <4>1, <2>2, ThreeAre
    <3> QED
      BY <3>1, <3>2
  <2> QED
    BY <2>1, <2>2, <2>3, <2>4, NothingStands, Zenon
<1> HIDE DEF t
<1>2. TypeOK'
  <2>1. /\ platform' \in Platforms /\ wanted' \in Settings /\ before' \in Settings \cup {NoSetting}
        /\ mode' \in {"none", "sidecar", "service"} /\ loops' \subseteq Loops
        /\ goal' \in Settings \cup {NoSetting}
    BY DEF IInv, TypeOK, StopServiceDisplaced
  <2>2. /\ os' \subseteq Kinds /\ {guardType', guardWrite'} \subseteq Kinds \cup {"none"}
        /\ off' \in {"no", "written", "skipped", "late"} /\ landed' \in Targets
    BY DEF IInv, TypeOK, StopServiceDisplaced, Settings, Targets, Kinds
  <2>3. /\ {ready', watched', died', network', due'} \subseteq BOOLEAN
        /\ {guardOn', wasOn', drained', reached', warned'} \subseteq BOOLEAN
    BY DEF IInv, TypeOK, StopServiceDisplaced
  <2>4. {owner', session', lost', gen', expected', tries', ops'} \subseteq Nat
    BY DEF IInv, TypeOK, StopServiceDisplaced
  <2> QED
    BY <2>1, <2>2, <2>3, <2>4 DEF TypeOK
<1>3. /\ ~Rises(t)
      /\ StartsLast(t) /\ RefreshesLast(t) /\ LandsLast(t)
  BY <1>1, Behind DEF IInv
<1>4. /\ StartsLast(t) /\ RefreshesLast(t) /\ LandsLast(t) /\ ~HasWriting(t) /\ ~HasWrite(t)
      /\ ~HasRefresh(t) /\ ~HasLanded(t) /\ AppliesFirst(t) /\ WritesFirst(t) /\ WritesSecond(t)
      /\ ~Rises(t)
  BY <1>1, <1>3, NotUp
<1>5. /\ ~Rises(todo') /\ ~HasStart(todo') /\ ~HasBegin(todo') /\ ~HasEnd(todo')
      /\ ~HasWriting(todo') /\ ~HasLocal(todo') /\ ~HasWrite(todo') /\ ~HasAgain(todo')
      /\ ~HasServiceClear(todo') /\ ~HasRefresh(todo') /\ ~HasLanded(todo')
      /\ StopsFirst(todo') /\ UnguardsExits(todo') /\ UnguardsClears(todo') /\ Drains(todo')
      /\ Waits(todo') /\ Invalidates(todo') /\ InvalidatesClears(todo') /\ AppliesFirst(todo')
      /\ WritesFirst(todo') /\ WritesSecond(todo') /\ IsList(todo') /\ StartsLast(todo')
      /\ RefreshesLast(todo') /\ LandsLast(todo')
  <2>1. "stopCore" \in Steps /\ "stopGuard" \in Steps /\ "dropSession" \in Steps
          /\ "clear" \in Steps /\ IsList(t)
    BY <1>1
  <2>2. /\ IsList(Push("dropSession", Nothing))
        /\ IsList(Push("stopGuard", Push("dropSession", Nothing)))
        /\ IsList(Push("clear", Push("dropSession", Nothing)))
        /\ IsList(Push("stopGuard", Push("clear", Push("dropSession", Nothing))))
    <3>1. IsList(Push("dropSession", Nothing))
      BY <2>1, NothingStands, PushList
    <3>2. IsList(Push("stopGuard", Push("dropSession", Nothing)))
      BY <2>1, <3>1, NothingStands, PushList
    <3>3. IsList(Push("clear", Push("dropSession", Nothing)))
      BY <2>1, <3>1, <3>2, NothingStands, PushList
    <3>4. IsList(Push("stopGuard", Push("clear", Push("dropSession", Nothing))))
      BY <2>1, <3>1, <3>2, <3>3, NothingStands, PushList
    <3> QED
      BY <3>1, <3>2, <3>3, <3>4
  <2>3. /\ ~Rises(todo') /\ ~HasStart(todo') /\ ~HasBegin(todo') /\ ~HasEnd(todo')
        /\ ~HasWriting(todo') /\ ~HasLocal(todo') /\ ~HasWrite(todo') /\ ~HasAgain(todo')
        /\ ~HasServiceClear(todo') /\ ~HasRefresh(todo') /\ ~HasLanded(todo')
    <3>1. CASE todo' = Push("stopGuard", Push("dropSession", Nothing))
      BY <2>1, <2>2, <3>1, PushAdds, NothingStands
    <3>2. CASE todo' = Push("stopGuard", Push("clear", Push("dropSession", Nothing)))
      BY <2>1, <2>2, <3>2, PushAdds, NothingStands
    <3> QED
      BY <1>1, <3>1, <3>2
  <2>4. /\ StopsFirst(todo') /\ UnguardsExits(todo') /\ UnguardsClears(todo') /\ Drains(todo')
        /\ Waits(todo') /\ Invalidates(todo') /\ InvalidatesClears(todo') /\ AppliesFirst(todo')
        /\ WritesFirst(todo') /\ WritesSecond(todo')
    <3>1. CASE todo' = Push("stopGuard", Push("dropSession", Nothing))
      BY <2>1, <2>2, <3>1, PushOrders, PushAdds, NothingStands
    <3>2. CASE todo' = Push("stopGuard", Push("clear", Push("dropSession", Nothing)))
      BY <2>1, <2>2, <3>2, PushOrders, PushAdds, NothingStands
    <3> QED
      BY <1>1, <3>1, <3>2
  <2>5. /\ IsList(todo') /\ StartsLast(todo') /\ RefreshesLast(todo') /\ LandsLast(todo')
    <3>1. CASE todo' = Push("stopGuard", Push("dropSession", Nothing))
      BY <2>1, <2>2, <3>1, PushAdds, PushEnds, NothingStands
    <3>2. CASE todo' = Push("stopGuard", Push("clear", Push("dropSession", Nothing)))
      BY <2>1, <2>2, <3>2, PushAdds, PushEnds, NothingStands
    <3> QED
      BY <1>1, <3>1, <3>2
  <2> QED
    BY <2>3, <2>4, <2>5
<1>6. /\ Falls(todo) /\ ~UnguardsExits(todo) /\ ~Invalidates(todo)
      /\ HasStart(t) => HasStart(todo)
      /\ HasBegin(t) => HasBegin(todo)
      /\ HasEnd(t) => HasEnd(todo)
      /\ HasLocal(t) => HasLocal(todo)
      /\ HasAgain(t) => HasAgain(todo)
      /\ HasServiceClear(t) => HasServiceClear(todo)
      /\ UnguardsClears(todo) => UnguardsClears(t)
      /\ Drains(todo) => Drains(t)
      /\ Waits(todo) => Waits(t)
      /\ InvalidatesClears(todo) => InvalidatesClears(t)
  <2>1. "stopCore" \in Steps /\ IsList(t)
    BY <1>1
  <2>2. todo = Push("stopCore", t)
    BY <1>1
  <2> QED
    BY <2>1, <2>2, PushAdds, PushOrders, <1>4
<1>7. ListsOK'
  BY <1>1, <1>5, <1>6, <1>3, NoHandler DEF IInv, ListsOK
<1>8. ModeOK'
  BY <1>1, <1>5, <1>6, <1>3, NoHandler
     DEF IInv, ModeOK, SessionIsServices, SessionIsOld, DeadIsSidecar, RefreshHasACore,
         WritesAreLocal, Route, EndsNoService, StartsFromNone, StopServiceDisplaced
<1>9. GuardOK'
  BY <1>1, <1>5, <1>6, <1>3, NoHandler
     DEF IInv, GuardOK, GuardIsLocal, Route, RestartIsLocal, ExitsUnguarded, DropsUnguarded,
         WritesUnguarded, ServiceUnguarded, WritesAreQuiet, NoLateWrite, LandsQuietly,
         GuardKnowsLanded, StopServiceDisplaced
<1>10. LoopOK'
  BY <1>1, <1>5, <1>6, <1>3, NoHandler
     DEF IInv, LoopOK, LoopsAreSound, Current, OneIsCurrent, InvalidatedBefore, NoCurrent,
         DropsInvalidated, StartsAreNew, WarnedIsGone, StopServiceDisplaced
<1>11. OffOK'
  BY <1>1, <1>5, <1>6, <1>3
     DEF IInv, OffOK, OffIsQuiet, NobodyWrites, NoCurrent, Current, WritesTheGoal, RefreshIsAsked,
         SysGoesOff, ToldOff, PacGoesOff, StopServiceDisplaced
<1> QED
  BY <1>2, <1>7, <1>8, <1>9, <1>10, <1>11 DEF IInv

LEMMA DropSessionKeeps ==
  ASSUME IInv, DropSession
  PROVE  IInv'
<1> DEFINE t == Tail(todo)
<1>1. /\ IsList(t)
      /\ todo = Push("dropSession", t)
      /\ todo' = Nothing /\ onError' = Nothing
      /\ "dropSession" \in Steps
  <2>1. "dropSession" \in Steps
    BY DEF Steps
  <2>2. IsList(t) /\ (todo = Push("dropSession", t))
    BY HeadIs DEF IInv, ListsOK, DropSession
  <2>3. todo' = <<>> /\ onError' = Nothing
    BY <2>1, <2>2, HeadIs DEF IInv, ListsOK, DropSession, Nothing
  <2> HIDE DEF t
  <2>4. /\ <<>> = Nothing
    <3>1. <<>> = Nothing
      BY <2>2, NothingConcat DEF Nothing
    <3> QED
      BY <3>1
  <2> QED
    BY <2>1, <2>2, <2>3, <2>4, NothingStands, Zenon
<1> HIDE DEF t
<1>2. TypeOK'
  <2>1. /\ platform' \in Platforms /\ wanted' \in Settings /\ before' \in Settings \cup {NoSetting}
        /\ mode' \in {"none", "sidecar", "service"} /\ loops' \subseteq Loops
        /\ goal' \in Settings \cup {NoSetting}
    BY DEF IInv, TypeOK, DropSession, Stopped
  <2>2. /\ os' \subseteq Kinds /\ {guardType', guardWrite'} \subseteq Kinds \cup {"none"}
        /\ off' \in {"no", "written", "skipped", "late"} /\ landed' \in Targets
    BY DEF IInv, TypeOK, DropSession, Stopped, Settings, Targets, Kinds
  <2>3. /\ {ready', watched', died', network', due'} \subseteq BOOLEAN
        /\ {guardOn', wasOn', drained', reached', warned'} \subseteq BOOLEAN
    BY DEF IInv, TypeOK, DropSession, Stopped
  <2>4. {owner', session', lost', gen', expected', tries', ops'} \subseteq Nat
    BY DEF IInv, TypeOK, DropSession, Stopped
  <2> QED
    BY <2>1, <2>2, <2>3, <2>4 DEF TypeOK
<1>3. /\ ~Rises(t)
      /\ StartsLast(t) /\ RefreshesLast(t) /\ LandsLast(t)
  BY <1>1, Behind DEF IInv
<1>4. /\ StartsLast(t) /\ RefreshesLast(t) /\ LandsLast(t) /\ ~HasWriting(t) /\ ~HasWrite(t)
      /\ ~HasRefresh(t) /\ ~HasLanded(t) /\ AppliesFirst(t) /\ WritesFirst(t) /\ WritesSecond(t)
      /\ ~Rises(t)
  BY <1>1, <1>3, NotUp
<1>5. /\ ~Rises(todo') /\ ~Falls(todo') /\ ~HasStart(todo') /\ ~HasBegin(todo')
      /\ ~HasEnd(todo') /\ ~HasWriting(todo') /\ ~HasLocal(todo') /\ ~HasWrite(todo')
      /\ ~HasAgain(todo') /\ ~HasServiceClear(todo') /\ ~HasRefresh(todo') /\ ~HasLanded(todo')
      /\ StopsFirst(todo') /\ UnguardsExits(todo') /\ UnguardsClears(todo') /\ Drains(todo')
      /\ Waits(todo') /\ Invalidates(todo') /\ InvalidatesClears(todo') /\ AppliesFirst(todo')
      /\ WritesFirst(todo') /\ WritesSecond(todo') /\ IsList(todo') /\ StartsLast(todo')
      /\ RefreshesLast(todo') /\ LandsLast(todo')
  <2>1. "dropSession" \in Steps /\ IsList(t)
    BY <1>1
  <2>2. /\ ~Rises(todo') /\ ~Falls(todo') /\ ~HasStart(todo') /\ ~HasBegin(todo')
        /\ ~HasEnd(todo') /\ ~HasWriting(todo') /\ ~HasLocal(todo') /\ ~HasWrite(todo')
        /\ ~HasAgain(todo') /\ ~HasServiceClear(todo') /\ ~HasRefresh(todo')
        /\ ~HasLanded(todo')
    <3>1. todo' = Nothing
      BY <1>1
    <3> QED
      BY <2>1, <3>1, PushAdds, NothingStands
  <2>3. /\ StopsFirst(todo') /\ UnguardsExits(todo') /\ UnguardsClears(todo') /\ Drains(todo')
        /\ Waits(todo') /\ Invalidates(todo') /\ InvalidatesClears(todo') /\ AppliesFirst(todo')
        /\ WritesFirst(todo') /\ WritesSecond(todo')
    <3>1. todo' = Nothing
      BY <1>1
    <3> QED
      BY <2>1, <3>1, PushOrders, PushAdds, NothingStands
  <2>4. /\ IsList(todo') /\ StartsLast(todo') /\ RefreshesLast(todo') /\ LandsLast(todo')
    <3>1. todo' = Nothing
      BY <1>1
    <3> QED
      BY <2>1, <3>1, PushAdds, PushEnds, NothingStands
  <2> QED
    BY <2>2, <2>3, <2>4
<1>6. /\ Falls(todo) /\ ~UnguardsExits(todo) /\ ~Invalidates(todo)
      /\ HasStart(t) => HasStart(todo)
      /\ HasBegin(t) => HasBegin(todo)
      /\ HasEnd(t) => HasEnd(todo)
      /\ HasLocal(t) => HasLocal(todo)
      /\ HasAgain(t) => HasAgain(todo)
      /\ HasServiceClear(t) => HasServiceClear(todo)
      /\ StopsFirst(todo) => StopsFirst(t)
      /\ UnguardsClears(todo) => UnguardsClears(t)
      /\ Drains(todo) => Drains(t)
      /\ Waits(todo) => Waits(t)
      /\ InvalidatesClears(todo) => InvalidatesClears(t)
  <2>1. "dropSession" \in Steps /\ IsList(t)
    BY <1>1
  <2>2. todo = Push("dropSession", t)
    BY <1>1
  <2> QED
    BY <2>1, <2>2, PushAdds, PushOrders, <1>4
<1>7. ListsOK'
  BY <1>1, <1>5, <1>6, <1>3, NoHandler DEF IInv, ListsOK
<1>8. ModeOK'
  <2>1. SessionIsServices'
    BY <1>1 DEF IInv, ModeOK, SessionIsServices, DropSession, Stopped
  <2>2. SessionIsOld'
    BY <1>1, <1>2, Typed DEF IInv, ModeOK, SessionIsOld, DropSession, Stopped
  <2>3. DeadIsSidecar'
    BY <1>1 DEF IInv, ModeOK, DeadIsSidecar, DropSession, Stopped
  <2>4. RefreshHasACore'
    BY <1>1, <1>5, <1>6, <1>3 DEF IInv, ModeOK, RefreshHasACore, DropSession, Stopped
  <2>5. WritesAreLocal'
    BY <1>1, <1>5, <1>6, <1>3 DEF IInv, ModeOK, WritesAreLocal, Route, DropSession, Stopped
  <2>6. EndsNoService'
    BY <1>1, <1>5, <1>6, <1>3, NoHandler DEF IInv, ModeOK, EndsNoService, DropSession, Stopped
  <2>7. StartsFromNone'
    BY <1>1, <1>5, <1>6, <1>3 DEF IInv, ModeOK, StartsFromNone, DropSession, Stopped
  <2> QED
    BY <2>1, <2>2, <2>3, <2>4, <2>5, <2>6, <2>7 DEF ModeOK
<1>9. GuardOK'
  BY <1>1, <1>5, <1>6, <1>3, NoHandler
     DEF IInv, GuardOK, GuardIsLocal, Route, RestartIsLocal, ExitsUnguarded, DropsUnguarded,
         WritesUnguarded, ServiceUnguarded, WritesAreQuiet, NoLateWrite, LandsQuietly,
         GuardKnowsLanded, DropSession, Stopped
<1>10. LoopOK'
  BY <1>1, <1>5, <1>6, <1>3, NoHandler
     DEF IInv, LoopOK, LoopsAreSound, Current, OneIsCurrent, InvalidatedBefore, NoCurrent,
         DropsInvalidated, StartsAreNew, WarnedIsGone, DropSession, Stopped
<1>11. OffOK'
  <2>1. OffIsQuiet'
    BY <1>1, <1>5, <1>6, <1>3
       DEF IInv, OffOK, OffIsQuiet, NobodyWrites, NoCurrent, Current, DropSession, Stopped,
           WritesTheGoal, RefreshIsAsked, GuardOK, WritesUnguarded, WritesAreQuiet, NoLateWrite,
           LoopOK, InvalidatedBefore, LoopsAreSound, ModeOK, SessionIsServices, WritesAreLocal,
           Route, LandsQuietly, ServiceUnguarded
  <2>2. WritesTheGoal'
    BY <1>1, <1>5, <1>6, <1>3 DEF IInv, OffOK, WritesTheGoal, DropSession, Stopped
  <2>3. RefreshIsAsked'
    BY <1>1, <1>5, <1>6, <1>3 DEF IInv, OffOK, RefreshIsAsked, DropSession, Stopped
  <2>4. SysGoesOff'
    BY <1>1, <1>5, <1>6, <1>3 DEF IInv, OffOK, SysGoesOff, ToldOff, DropSession, Stopped
  <2>5. PacGoesOff'
    BY <1>1, <1>5, <1>6, <1>3 DEF IInv, OffOK, PacGoesOff, ToldOff, DropSession, Stopped
  <2> QED
    BY <2>1, <2>2, <2>3, <2>4, <2>5 DEF OffOK
<1> QED
  BY <1>2, <1>7, <1>8, <1>9, <1>10, <1>11 DEF IInv

LEMMA UndoSidecarKeeps ==
  ASSUME IInv, UndoSidecar
  PROVE  IInv'
<1> DEFINE t == Tail(todo)
<1>1. /\ IsList(t)
      /\ todo = Push("undoSidecar", t)
      /\ \/ todo' = Push("clear", Push("stopCore", Push("stopGuard", Push("coreStopped", Nothing))))
              /\ onError' = Nothing /\ mode = "sidecar"
         \/ todo' = Push("stopGuard", Push("coreStopped", Nothing)) /\ onError' = Nothing
      /\ "undoSidecar" \in Steps /\ "clear" \in Steps /\ "stopCore" \in Steps
           /\ "stopGuard" \in Steps /\ "coreStopped" \in Steps
  <2>1. "undoSidecar" \in Steps /\ "clear" \in Steps /\ "stopCore" \in Steps
          /\ "stopGuard" \in Steps /\ "coreStopped" \in Steps
    BY DEF Steps
  <2>2. IsList(t) /\ (todo = Push("undoSidecar", t))
    BY HeadIs DEF IInv, ListsOK, UndoSidecar
  <2>3. \/ todo' = <<"clear", "stopCore">> \o <<"stopGuard", "coreStopped">> /\ onError' = Nothing
             /\ mode = "sidecar"
        \/ todo' = <<>> \o <<"stopGuard", "coreStopped">> /\ onError' = Nothing
    BY <2>1, <2>2, HeadIs DEF IInv, ListsOK, UndoSidecar, Nothing
  <2> HIDE DEF t
  <2>4. /\ <<"clear", "stopCore">> \o <<"stopGuard", "coreStopped">>
             = Push("clear", Push("stopCore", Push("stopGuard", Push("coreStopped", Nothing))))
        /\ <<>> \o <<"stopGuard", "coreStopped">> = Push("stopGuard", Push("coreStopped", Nothing))
    <3>1. <<"clear", "stopCore">> \o <<"stopGuard", "coreStopped">>
            = Push("clear", Push("stopCore", Push("stopGuard", Push("coreStopped", Nothing))))
      <4>1. "clear" \in Steps /\ "stopCore" \in Steps /\ "stopGuard" \in Steps
              /\ "coreStopped" \in Steps
        BY <2>1
      <4> QED
        BY <4>1, <2>2, TwoAndTwo
    <3>2. <<>> \o <<"stopGuard", "coreStopped">> = Push("stopGuard", Push("coreStopped", Nothing))
      <4>1. "stopGuard" \in Steps /\ "coreStopped" \in Steps
        BY <2>1
      <4> QED
        BY <4>1, <2>2, EmptyAnd
    <3> QED
      BY <3>1, <3>2
  <2> QED
    BY <2>1, <2>2, <2>3, <2>4, NothingStands, Zenon
<1> HIDE DEF t
<1>2. TypeOK'
  BY DEF IInv, TypeOK, UndoSidecar, Settings
<1>3. /\ ~Rises(t)
      /\ StartsLast(t) /\ RefreshesLast(t) /\ LandsLast(t)
  BY <1>1, Behind DEF IInv
<1>4. /\ StartsLast(t) /\ RefreshesLast(t) /\ LandsLast(t) /\ ~HasWriting(t) /\ ~HasWrite(t)
      /\ ~HasRefresh(t) /\ ~HasLanded(t) /\ AppliesFirst(t) /\ WritesFirst(t) /\ WritesSecond(t)
      /\ ~Rises(t)
  BY <1>1, <1>3, NotUp
<1>5. /\ ~Rises(todo') /\ ~HasStart(todo') /\ ~HasBegin(todo') /\ ~HasWriting(todo')
      /\ ~HasLocal(todo') /\ ~HasWrite(todo') /\ ~HasAgain(todo') /\ ~HasServiceClear(todo')
      /\ ~HasRefresh(todo') /\ ~HasLanded(todo') /\ StopsFirst(todo') /\ UnguardsExits(todo')
      /\ Drains(todo') /\ Waits(todo') /\ AppliesFirst(todo') /\ WritesFirst(todo')
      /\ WritesSecond(todo')
      /\ UnguardsClears(todo') \/ mode = "sidecar"
      /\ Invalidates(todo') \/ mode = "sidecar"
      /\ InvalidatesClears(todo') \/ mode = "sidecar"
      /\ IsList(todo') /\ StartsLast(todo') /\ RefreshesLast(todo') /\ LandsLast(todo')
  <2>1. "undoSidecar" \in Steps /\ "clear" \in Steps /\ "stopCore" \in Steps
          /\ "stopGuard" \in Steps /\ "coreStopped" \in Steps /\ IsList(t)
    BY <1>1
  <2>2. /\ IsList(Push("coreStopped", Nothing))
        /\ IsList(Push("stopGuard", Push("coreStopped", Nothing)))
        /\ IsList(Push("stopCore", Push("stopGuard", Push("coreStopped", Nothing))))
        /\ IsList(Push("clear", Push("stopCore", Push("stopGuard", Push("coreStopped", Nothing)))))
    <3>1. IsList(Push("coreStopped", Nothing))
      BY <2>1, NothingStands, PushList
    <3>2. IsList(Push("stopGuard", Push("coreStopped", Nothing)))
      BY <2>1, <3>1, NothingStands, PushList
    <3>3. IsList(Push("stopCore", Push("stopGuard", Push("coreStopped", Nothing))))
      BY <2>1, <3>1, <3>2, NothingStands, PushList
    <3>4. IsList(Push("clear", Push("stopCore", Push("stopGuard", Push("coreStopped", Nothing)))))
      BY <2>1, <3>1, <3>2, <3>3, NothingStands, PushList
    <3> QED
      BY <3>1, <3>2, <3>3, <3>4
  <2>3. /\ ~Rises(todo') /\ ~HasStart(todo') /\ ~HasBegin(todo') /\ ~HasWriting(todo')
        /\ ~HasLocal(todo') /\ ~HasWrite(todo') /\ ~HasAgain(todo') /\ ~HasServiceClear(todo')
        /\ ~HasRefresh(todo') /\ ~HasLanded(todo')
    <3>1. CASE todo'
                 = Push("clear", Push("stopCore", Push("stopGuard", Push("coreStopped", Nothing))))
                 /\ mode = "sidecar"
      BY <2>1, <2>2, <3>1, PushAdds, NothingStands
    <3>2. CASE todo' = Push("stopGuard", Push("coreStopped", Nothing))
      BY <2>1, <2>2, <3>2, PushAdds, NothingStands
    <3> QED
      BY <1>1, <3>1, <3>2
  <2>4. /\ StopsFirst(todo') /\ UnguardsExits(todo') /\ Drains(todo') /\ Waits(todo')
        /\ AppliesFirst(todo') /\ WritesFirst(todo') /\ WritesSecond(todo')
        /\ UnguardsClears(todo') \/ mode = "sidecar"
        /\ Invalidates(todo') \/ mode = "sidecar"
        /\ InvalidatesClears(todo') \/ mode = "sidecar"
    <3>1. CASE todo'
                 = Push("clear", Push("stopCore", Push("stopGuard", Push("coreStopped", Nothing))))
                 /\ mode = "sidecar"
      BY <2>1, <2>2, <3>1, PushOrders, PushAdds, NothingStands
    <3>2. CASE todo' = Push("stopGuard", Push("coreStopped", Nothing))
      BY <2>1, <2>2, <3>2, PushOrders, PushAdds, NothingStands
    <3> QED
      BY <1>1, <3>1, <3>2
  <2>5. /\ IsList(todo') /\ StartsLast(todo') /\ RefreshesLast(todo') /\ LandsLast(todo')
    <3>1. CASE todo'
                 = Push("clear", Push("stopCore", Push("stopGuard", Push("coreStopped", Nothing))))
                 /\ mode = "sidecar"
      BY <2>1, <2>2, <3>1, PushAdds, PushEnds, NothingStands
    <3>2. CASE todo' = Push("stopGuard", Push("coreStopped", Nothing))
      BY <2>1, <2>2, <3>2, PushAdds, PushEnds, NothingStands
    <3> QED
      BY <1>1, <3>1, <3>2
  <2> QED
    BY <2>3, <2>4, <2>5
<1>6. /\ Falls(todo) /\ HasEnd(todo)
      /\ HasStart(t) => HasStart(todo)
      /\ HasBegin(t) => HasBegin(todo)
      /\ HasLocal(t) => HasLocal(todo)
      /\ HasAgain(t) => HasAgain(todo)
      /\ HasServiceClear(t) => HasServiceClear(todo)
      /\ StopsFirst(todo) => StopsFirst(t)
      /\ UnguardsExits(todo) => UnguardsExits(t)
      /\ UnguardsClears(todo) => UnguardsClears(t)
      /\ Drains(todo) => Drains(t)
      /\ Waits(todo) => Waits(t)
      /\ Invalidates(todo) => Invalidates(t)
      /\ InvalidatesClears(todo) => InvalidatesClears(t)
  <2>1. "undoSidecar" \in Steps /\ IsList(t)
    BY <1>1
  <2>2. todo = Push("undoSidecar", t)
    BY <1>1
  <2> QED
    BY <2>1, <2>2, PushAdds, PushOrders, <1>4
<1>7. ListsOK'
  BY <1>1, <1>5, <1>6, <1>3, NoHandler DEF IInv, ListsOK
<1>8. ModeOK'
  BY <1>1, <1>5, <1>6, <1>3, NoHandler
     DEF IInv, ModeOK, SessionIsServices, SessionIsOld, DeadIsSidecar, RefreshHasACore,
         WritesAreLocal, Route, EndsNoService, StartsFromNone, UndoSidecar
<1>9. GuardOK'
  BY <1>1, <1>5, <1>6, <1>3, NoHandler
     DEF IInv, GuardOK, GuardIsLocal, Route, RestartIsLocal, ExitsUnguarded, DropsUnguarded,
         WritesUnguarded, ServiceUnguarded, WritesAreQuiet, NoLateWrite, LandsQuietly,
         GuardKnowsLanded, UndoSidecar
<1>10. LoopOK'
  BY <1>1, <1>5, <1>6, <1>3, NoHandler
     DEF IInv, LoopOK, LoopsAreSound, Current, OneIsCurrent, InvalidatedBefore, NoCurrent,
         DropsInvalidated, StartsAreNew, WarnedIsGone, UndoSidecar
<1>11. OffOK'
  BY <1>1, <1>5, <1>6, <1>3
     DEF IInv, OffOK, OffIsQuiet, NobodyWrites, NoCurrent, Current, WritesTheGoal, RefreshIsAsked,
         SysGoesOff, ToldOff, PacGoesOff, UndoSidecar
<1> QED
  BY <1>2, <1>7, <1>8, <1>9, <1>10, <1>11 DEF IInv

LEMMA CommitKeeps ==
  ASSUME IInv, Commit
  PROVE  IInv'
<1> DEFINE t == Tail(todo)
<1>1. /\ IsList(t)
      /\ todo = Push("commit", t)
      /\ todo' = t /\ onError' = onError
      /\ "commit" \in Steps
  <2>1. "commit" \in Steps
    BY DEF Steps
  <2>2. IsList(t) /\ (todo = Push("commit", t))
    BY HeadIs DEF IInv, ListsOK, Commit
  <2> QED
    BY <2>1, <2>2, HeadIs, NothingStands, PushOne, PushTwo, PushThree, PushAdds
       DEF IInv, ListsOK, Commit, Done, Then
<1> HIDE DEF t
<1>2. TypeOK'
  BY DEF IInv, TypeOK, Commit, Settings
<1>3. /\ ~Falls(t)
      /\ StartsLast(t) /\ RefreshesLast(t) /\ LandsLast(t)
  BY <1>1, Behind DEF IInv
<1>4. ListsOK'
  BY <1>1, ListsPop DEF IInv
<1>5. ModeOK'
  BY <1>1, PushAdds, <1>3, NotDown, NoHandler, PushOrders
     DEF IInv, ModeOK, SessionIsServices, SessionIsOld, DeadIsSidecar, RefreshHasACore,
         WritesAreLocal, Route, EndsNoService, StartsFromNone, Commit
<1>6. GuardOK'
  BY <1>1, PushAdds, <1>3, NotDown, PushOrders, NoHandler
     DEF IInv, GuardOK, GuardIsLocal, Route, RestartIsLocal, ExitsUnguarded, DropsUnguarded,
         WritesUnguarded, ServiceUnguarded, WritesAreQuiet, NoLateWrite, LandsQuietly,
         GuardKnowsLanded, Commit
<1>7. LoopOK'
  BY <1>1, PushOrders, <1>3, NotDown, NoHandler, PushAdds
     DEF IInv, LoopOK, LoopsAreSound, Current, OneIsCurrent, InvalidatedBefore, NoCurrent,
         DropsInvalidated, StartsAreNew, WarnedIsGone, Commit
<1>8. OffOK'
  BY <1>1, PushAdds, <1>3, NotDown, PushOrders
     DEF IInv, OffOK, OffIsQuiet, NobodyWrites, NoCurrent, Current, WritesTheGoal, RefreshIsAsked,
         SysGoesOff, ToldOff, PacGoesOff, Commit
<1> QED
  BY <1>2, <1>4, <1>5, <1>6, <1>7, <1>8 DEF IInv

LEMMA InvalidateKeeps ==
  ASSUME IInv, Invalidate
  PROVE  IInv'
<1> DEFINE t == Tail(todo)
<1>1. /\ IsList(t)
      /\ \/ todo = Push("stopGuard", t) /\ todo' = Push("lockedDrain", t) /\ onError' = onError
         \/ todo = Push("invalidate", t) /\ todo' = t /\ onError' = onError
      /\ "stopGuard" \in Steps /\ "invalidate" \in Steps /\ "lockedDrain" \in Steps
  <2>1. "stopGuard" \in Steps /\ "invalidate" \in Steps /\ "lockedDrain" \in Steps
    BY DEF Steps
  <2>2. IsList(t) /\ (todo = Push("stopGuard", t) \/ todo = Push("invalidate", t))
    BY HeadIs DEF IInv, ListsOK, Invalidate
  <2>3. \/ todo = Push("stopGuard", t) /\ todo' = <<"lockedDrain">> \o t /\ onError' = onError
        \/ todo = Push("invalidate", t) /\ todo' = <<>> \o t /\ onError' = onError
    <3>1. CASE At("stopGuard")
      <4>1. todo = Push("stopGuard", t)
        BY <3>1, HeadIs DEF IInv, ListsOK
      <4>2. todo' = <<"lockedDrain">> \o t /\ onError' = onError
        BY <3>1 DEF At, Invalidate, Then, Done
      <4> QED
        BY <4>1, <4>2
    <3>2. CASE At("invalidate")
      <4>1. todo = Push("invalidate", t)
        BY <3>2, HeadIs DEF IInv, ListsOK
      <4>2. todo' = <<>> \o t /\ onError' = onError
        BY <3>2 DEF At, Invalidate, Then, Done
      <4> QED
        BY <4>1, <4>2
    <3> QED
      BY <3>1, <3>2 DEF Invalidate
  <2> HIDE DEF t
  <2>4. /\ <<"lockedDrain">> \o t = Push("lockedDrain", t)
        /\ <<>> \o t = t
    <3>1. <<"lockedDrain">> \o t = Push("lockedDrain", t)
      <4>1. "lockedDrain" \in Steps
        BY <2>1
      <4> QED
        BY <4>1, <2>2, PushOne
    <3>2. <<>> \o t = t
      BY <2>2, NothingConcat
    <3> QED
      BY <3>1, <3>2
  <2> QED
    BY <2>1, <2>2, <2>3, <2>4, NothingStands, Zenon
<1> HIDE DEF t
<1>2. TypeOK'
  BY DEF IInv, TypeOK, Invalidate, Settings
<1>3. /\ ~HasLanded(t)
      /\ StartsLast(t) /\ RefreshesLast(t) /\ LandsLast(t)
  BY <1>1, Behind DEF IInv
<1>4. /\ StartsLast(t) /\ RefreshesLast(t) /\ LandsLast(t) /\ ~HasLanded(t) /\ WritesFirst(t)
      /\ WritesSecond(t)
  BY <1>1, <1>3, NotLanded
<1>5. /\ ~HasLanded(todo')
      /\ Rises(todo') => Rises(t)
      /\ Falls(todo') => Falls(t)
      /\ HasStart(todo') => HasStart(t)
      /\ HasBegin(todo') => HasBegin(t)
      /\ HasEnd(todo') => HasEnd(t)
      /\ HasWriting(todo') => HasWriting(t)
      /\ HasLocal(todo') => HasLocal(t)
      /\ HasWrite(todo') => HasWrite(t)
      /\ HasAgain(todo') => HasAgain(t)
      /\ HasServiceClear(todo') => HasServiceClear(t)
      /\ HasRefresh(todo') => HasRefresh(t)
      /\ WritesFirst(todo') /\ WritesSecond(todo')
      /\ StopsFirst(t) => StopsFirst(todo')
      /\ UnguardsExits(t) => UnguardsExits(todo')
      /\ UnguardsClears(t) => UnguardsClears(todo')
      /\ Drains(t) => Drains(todo')
      /\ Waits(t) => Waits(todo')
      /\ Invalidates(t) => Invalidates(todo')
      /\ InvalidatesClears(t) => InvalidatesClears(todo')
      /\ AppliesFirst(t) => AppliesFirst(todo')
      /\ IsList(todo') /\ StartsLast(todo') /\ RefreshesLast(todo') /\ LandsLast(todo')
  <2>1. "stopGuard" \in Steps /\ "invalidate" \in Steps /\ "lockedDrain" \in Steps /\ IsList(t)
    BY <1>1
  <2>2. /\ IsList(Push("lockedDrain", t))
    BY <2>1, <1>4, PushList
  <2>3. /\ ~HasLanded(todo')
        /\ Rises(todo') => Rises(t)
        /\ Falls(todo') => Falls(t)
        /\ HasStart(todo') => HasStart(t)
        /\ HasBegin(todo') => HasBegin(t)
        /\ HasEnd(todo') => HasEnd(t)
        /\ HasWriting(todo') => HasWriting(t)
        /\ HasLocal(todo') => HasLocal(t)
        /\ HasWrite(todo') => HasWrite(t)
        /\ HasAgain(todo') => HasAgain(t)
        /\ HasServiceClear(todo') => HasServiceClear(t)
        /\ HasRefresh(todo') => HasRefresh(t)
    <3>1. CASE todo' = Push("lockedDrain", t)
      BY <2>1, <2>2, <3>1, PushAdds, <1>4
    <3>2. CASE todo' = t
      BY <2>1, <2>2, <3>2, PushAdds, <1>4
    <3> QED
      BY <1>1, <3>1, <3>2
  <2>4. /\ WritesFirst(todo') /\ WritesSecond(todo')
        /\ StopsFirst(t) => StopsFirst(todo')
        /\ UnguardsExits(t) => UnguardsExits(todo')
        /\ UnguardsClears(t) => UnguardsClears(todo')
        /\ Drains(t) => Drains(todo')
        /\ Waits(t) => Waits(todo')
        /\ Invalidates(t) => Invalidates(todo')
        /\ InvalidatesClears(t) => InvalidatesClears(todo')
        /\ AppliesFirst(t) => AppliesFirst(todo')
    <3>1. CASE todo' = Push("lockedDrain", t)
      BY <2>1, <2>2, <3>1, PushOrders, PushAdds, <1>4
    <3>2. CASE todo' = t
      BY <2>1, <2>2, <3>2, PushOrders, PushAdds, <1>4
    <3> QED
      BY <1>1, <3>1, <3>2
  <2>5. /\ IsList(todo') /\ StartsLast(todo') /\ RefreshesLast(todo') /\ LandsLast(todo')
    <3>1. CASE todo' = Push("lockedDrain", t)
      BY <2>1, <2>2, <3>1, PushAdds, PushEnds, <1>4
    <3>2. CASE todo' = t
      BY <2>1, <2>2, <3>2, PushAdds, PushEnds, <1>4
    <3> QED
      BY <1>1, <3>1, <3>2
  <2> QED
    BY <2>3, <2>4, <2>5
<1>6. /\ Rises(t) => Rises(todo)
      /\ Falls(t) => Falls(todo)
      /\ HasStart(t) => HasStart(todo)
      /\ HasBegin(t) => HasBegin(todo)
      /\ HasEnd(t) => HasEnd(todo)
      /\ HasWriting(t) => HasWriting(todo)
      /\ HasLocal(t) => HasLocal(todo)
      /\ HasWrite(t) => HasWrite(todo)
      /\ HasAgain(t) => HasAgain(todo)
      /\ HasServiceClear(t) => HasServiceClear(todo)
      /\ HasRefresh(t) => HasRefresh(todo)
      /\ StopsFirst(todo) => StopsFirst(t)
      /\ Drains(todo) => Drains(t)
      /\ Waits(todo) => Waits(t)
      /\ AppliesFirst(todo) => AppliesFirst(t)
  <2>1. "stopGuard" \in Steps /\ "invalidate" \in Steps /\ IsList(t)
    BY <1>1
  <2>2. CASE todo = Push("stopGuard", t)
    BY <2>1, <2>2, PushAdds, PushOrders, <1>4
  <2>3. CASE todo = Push("invalidate", t)
    BY <2>1, <2>3, PushAdds, PushOrders, <1>4
  <2> QED
    BY <1>1, <2>2, <2>3
<1>7. ListsOK'
  BY <1>1, <1>5, <1>6, <1>3, NoHandler DEF IInv, ListsOK
<1>8. ModeOK'
  BY <1>1, <1>5, <1>6, <1>3, NoHandler
     DEF IInv, ModeOK, SessionIsServices, SessionIsOld, DeadIsSidecar, RefreshHasACore,
         WritesAreLocal, Route, EndsNoService, StartsFromNone, Invalidate
<1>9. GuardOK'
  <2>1. GuardIsLocal'
    BY <1>1 DEF IInv, GuardOK, GuardIsLocal, Route, Invalidate
  <2>2. RestartIsLocal'
    BY <1>1, <1>5, <1>6, <1>3 DEF IInv, GuardOK, RestartIsLocal, Invalidate
  <2>3. ExitsUnguarded'
    <3>1. CASE todo = Push("stopGuard", t) /\ todo' = Push("lockedDrain", t) /\ onError' = onError
      BY <3>1, <1>1, PushOrders DEF ExitsUnguarded
    <3>2. CASE todo = Push("invalidate", t) /\ todo' = t /\ onError' = onError
      BY <3>2, <1>1, PushOrders DEF IInv, GuardOK, ExitsUnguarded, Invalidate
    <3> QED
      BY <1>1, <3>1, <3>2
  <2>4. DropsUnguarded'
    <3>1. CASE todo = Push("stopGuard", t) /\ todo' = Push("lockedDrain", t) /\ onError' = onError
      BY <3>1, <1>1, PushOrders DEF DropsUnguarded
    <3>2. CASE todo = Push("invalidate", t) /\ todo' = t /\ onError' = onError
      BY <3>2, <1>1, PushOrders DEF IInv, GuardOK, DropsUnguarded, Invalidate
    <3> QED
      BY <1>1, <3>1, <3>2
  <2>5. WritesUnguarded'
    BY <1>1, <1>5, <1>6, <1>3 DEF IInv, GuardOK, WritesUnguarded, Invalidate
  <2>6. ServiceUnguarded'
    BY <1>1, <1>5, <1>6, <1>3 DEF IInv, GuardOK, ServiceUnguarded, Invalidate
  <2>7. WritesAreQuiet'
    BY <1>1, <1>5, <1>6, <1>3 DEF IInv, GuardOK, WritesAreQuiet, NoLateWrite, Invalidate
  <2>8. LandsQuietly'
    BY <1>1, <1>5, <1>6, <1>3 DEF IInv, GuardOK, LandsQuietly, NoLateWrite, Invalidate
  <2>9. GuardKnowsLanded'
    BY <1>1 DEF IInv, GuardOK, GuardKnowsLanded, Invalidate
  <2> QED
    BY <2>1, <2>2, <2>3, <2>4, <2>5, <2>6, <2>7, <2>8, <2>9 DEF GuardOK
<1>10. LoopOK'
  <2>1. LoopsAreSound'
    <3>1. gen' = gen + 1 /\ gen \in Nat /\ \A l \in loops : l.gen \in Nat
      BY Typed DEF IInv, Invalidate, Loops
    <3>2. /\ loops' = loops /\ platform' = platform /\ session' = session /\ ops' = ops
               /\ mode' = mode
      BY DEF Invalidate
    <3> QED
      BY <3>1, <3>2 DEF IInv, LoopOK, LoopsAreSound, Current
  <2>2. OneIsCurrent'
    BY <1>1, <1>5, <1>6, <1>3, <1>2, Typed
       DEF IInv, LoopOK, OneIsCurrent, Current, Invalidate, InvalidatedBefore, NoCurrent,
           LoopsAreSound
  <2>3. InvalidatedBefore'
    BY <1>1, <1>5, <1>6, <1>3, <1>2, Typed
       DEF IInv, LoopOK, InvalidatedBefore, NoCurrent, Current, Invalidate, LoopsAreSound,
           DropsInvalidated
  <2>4. DropsInvalidated'
    BY <1>1, <1>5, <1>6, <1>3, NoHandler, <1>2, Typed
       DEF IInv, LoopOK, DropsInvalidated, NoCurrent, Current, Invalidate, LoopsAreSound
  <2>5. StartsAreNew'
    BY <1>1, <1>5, <1>6, <1>3 DEF IInv, LoopOK, StartsAreNew, Invalidate
  <2>6. WarnedIsGone'
    BY <1>1, <1>5, <1>6, <1>3, <1>2, Typed
       DEF IInv, LoopOK, WarnedIsGone, NoCurrent, Current, Invalidate, OneIsCurrent, LoopsAreSound,
           GuardOK, GuardIsLocal, Route, RestartIsLocal
  <2> QED
    BY <2>1, <2>2, <2>3, <2>4, <2>5, <2>6 DEF LoopOK
<1>11. OffOK'
  <2>1. OffIsQuiet'
    BY <1>1, <1>5, <1>6, <1>3, <1>2, Typed
       DEF IInv, OffOK, OffIsQuiet, NobodyWrites, NoCurrent, Current, Invalidate, WritesTheGoal,
           RefreshIsAsked, GuardOK, WritesUnguarded, WritesAreQuiet, NoLateWrite, LoopOK,
           InvalidatedBefore, LoopsAreSound, ModeOK, SessionIsServices, WritesAreLocal, Route,
           LandsQuietly, ServiceUnguarded
  <2>2. WritesTheGoal'
    BY <1>1, <1>5, <1>6, <1>3 DEF IInv, OffOK, WritesTheGoal, Invalidate
  <2>3. RefreshIsAsked'
    BY <1>1, <1>5, <1>6, <1>3 DEF IInv, OffOK, RefreshIsAsked, Invalidate
  <2>4. SysGoesOff'
    BY <1>1, <1>5, <1>6, <1>3 DEF IInv, OffOK, SysGoesOff, ToldOff, Invalidate
  <2>5. PacGoesOff'
    BY <1>1, <1>5, <1>6, <1>3 DEF IInv, OffOK, PacGoesOff, ToldOff, Invalidate
  <2> QED
    BY <2>1, <2>2, <2>3, <2>4, <2>5 DEF OffOK
<1> QED
  BY <1>2, <1>7, <1>8, <1>9, <1>10, <1>11 DEF IInv

LEMMA ShutDownKeeps ==
  ASSUME IInv, ShutDown
  PROVE  IInv'
<1> DEFINE t == Tail(todo)
<1>1. /\ IsList(t)
      /\ \/ todo = Push("drain", t) /\ todo' = Push("wait", t) /\ onError' = onError
         \/ todo = Push("lockedDrain", t) /\ todo' = Push("lockedWait", t) /\ onError' = onError
      /\ "drain" \in Steps /\ "lockedDrain" \in Steps /\ "wait" \in Steps /\ "lockedWait" \in Steps
  <2>1. "drain" \in Steps /\ "lockedDrain" \in Steps /\ "wait" \in Steps /\ "lockedWait" \in Steps
    BY DEF Steps
  <2>2. IsList(t) /\ (todo = Push("drain", t) \/ todo = Push("lockedDrain", t))
    BY HeadIs DEF IInv, ListsOK, ShutDown
  <2>3. \/ todo = Push("drain", t) /\ todo' = <<"wait">> \o t /\ onError' = onError
        \/ todo = Push("lockedDrain", t) /\ todo' = <<"lockedWait">> \o t /\ onError' = onError
    <3>1. CASE At("drain")
      <4>1. todo = Push("drain", t)
        BY <3>1, HeadIs DEF IInv, ListsOK
      <4>2. todo' = <<"wait">> \o t /\ onError' = onError
        BY <3>1 DEF At, ShutDown, Then
      <4> QED
        BY <4>1, <4>2
    <3>2. CASE At("lockedDrain")
      <4>1. todo = Push("lockedDrain", t)
        BY <3>2, HeadIs DEF IInv, ListsOK
      <4>2. todo' = <<"lockedWait">> \o t /\ onError' = onError
        BY <3>2 DEF At, ShutDown, Then
      <4> QED
        BY <4>1, <4>2
    <3> QED
      BY <3>1, <3>2 DEF ShutDown
  <2> HIDE DEF t
  <2>4. /\ <<"wait">> \o t = Push("wait", t)
        /\ <<"lockedWait">> \o t = Push("lockedWait", t)
    <3>1. <<"wait">> \o t = Push("wait", t)
      <4>1. "wait" \in Steps
        BY <2>1
      <4> QED
        BY <4>1, <2>2, PushOne
    <3>2. <<"lockedWait">> \o t = Push("lockedWait", t)
      <4>1. "lockedWait" \in Steps
        BY <2>1
      <4> QED
        BY <4>1, <2>2, PushOne
    <3> QED
      BY <3>1, <3>2
  <2> QED
    BY <2>1, <2>2, <2>3, <2>4, NothingStands, Zenon
<1> HIDE DEF t
<1>2. TypeOK'
  BY DEF IInv, TypeOK, ShutDown, Settings
<1>3. /\ ~HasLanded(t)
      /\ StartsLast(t) /\ RefreshesLast(t) /\ LandsLast(t)
  BY <1>1, Behind DEF IInv
<1>4. /\ StartsLast(t) /\ RefreshesLast(t) /\ LandsLast(t) /\ ~HasLanded(t) /\ WritesFirst(t)
      /\ WritesSecond(t)
  BY <1>1, <1>3, NotLanded
<1>5. /\ ~HasLanded(todo')
      /\ Rises(todo') => Rises(t)
      /\ Falls(todo') => Falls(t)
      /\ HasStart(todo') => HasStart(t)
      /\ HasBegin(todo') => HasBegin(t)
      /\ HasEnd(todo') => HasEnd(t)
      /\ HasWriting(todo') => HasWriting(t)
      /\ HasLocal(todo') => HasLocal(t)
      /\ HasWrite(todo') => HasWrite(t)
      /\ HasServiceClear(todo') => HasServiceClear(t)
      /\ HasRefresh(todo') => HasRefresh(t)
      /\ WritesFirst(todo') /\ WritesSecond(todo')
      /\ StopsFirst(t) => StopsFirst(todo')
      /\ UnguardsExits(t) => UnguardsExits(todo')
      /\ UnguardsClears(t) => UnguardsClears(todo')
      /\ Waits(t) => Waits(todo')
      /\ Invalidates(t) => Invalidates(todo')
      /\ InvalidatesClears(t) => InvalidatesClears(todo')
      /\ AppliesFirst(t) => AppliesFirst(todo')
      /\ IsList(todo') /\ StartsLast(todo') /\ RefreshesLast(todo') /\ LandsLast(todo')
  <2>1. "drain" \in Steps /\ "lockedDrain" \in Steps /\ "wait" \in Steps /\ "lockedWait" \in Steps
          /\ IsList(t)
    BY <1>1
  <2>2. /\ IsList(Push("wait", t)) /\ IsList(Push("lockedWait", t))
    <3>1. IsList(Push("wait", t))
      BY <2>1, <1>4, PushList
    <3>2. IsList(Push("lockedWait", t))
      BY <2>1, <3>1, <1>4, PushList
    <3> QED
      BY <3>1, <3>2
  <2>3. /\ ~HasLanded(todo')
        /\ Rises(todo') => Rises(t)
        /\ Falls(todo') => Falls(t)
        /\ HasStart(todo') => HasStart(t)
        /\ HasBegin(todo') => HasBegin(t)
        /\ HasEnd(todo') => HasEnd(t)
        /\ HasWriting(todo') => HasWriting(t)
        /\ HasLocal(todo') => HasLocal(t)
        /\ HasWrite(todo') => HasWrite(t)
        /\ HasServiceClear(todo') => HasServiceClear(t)
        /\ HasRefresh(todo') => HasRefresh(t)
    <3>1. CASE todo' = Push("wait", t)
      BY <2>1, <2>2, <3>1, PushAdds, <1>4
    <3>2. CASE todo' = Push("lockedWait", t)
      BY <2>1, <2>2, <3>2, PushAdds, <1>4
    <3> QED
      BY <1>1, <3>1, <3>2
  <2>4. /\ WritesFirst(todo') /\ WritesSecond(todo')
        /\ StopsFirst(t) => StopsFirst(todo')
        /\ UnguardsExits(t) => UnguardsExits(todo')
        /\ UnguardsClears(t) => UnguardsClears(todo')
        /\ Waits(t) => Waits(todo')
        /\ Invalidates(t) => Invalidates(todo')
        /\ InvalidatesClears(t) => InvalidatesClears(todo')
        /\ AppliesFirst(t) => AppliesFirst(todo')
    <3>1. CASE todo' = Push("wait", t)
      BY <2>1, <2>2, <3>1, PushOrders, PushAdds, <1>4
    <3>2. CASE todo' = Push("lockedWait", t)
      BY <2>1, <2>2, <3>2, PushOrders, PushAdds, <1>4
    <3> QED
      BY <1>1, <3>1, <3>2
  <2>5. /\ IsList(todo') /\ StartsLast(todo') /\ RefreshesLast(todo') /\ LandsLast(todo')
    <3>1. CASE todo' = Push("wait", t)
      BY <2>1, <2>2, <3>1, PushAdds, PushEnds, <1>4
    <3>2. CASE todo' = Push("lockedWait", t)
      BY <2>1, <2>2, <3>2, PushAdds, PushEnds, <1>4
    <3> QED
      BY <1>1, <3>1, <3>2
  <2> QED
    BY <2>3, <2>4, <2>5
<1>6. /\ Rises(t) => Rises(todo)
      /\ Falls(t) => Falls(todo)
      /\ HasStart(t) => HasStart(todo)
      /\ HasBegin(t) => HasBegin(todo)
      /\ HasEnd(t) => HasEnd(todo)
      /\ HasWriting(t) => HasWriting(todo)
      /\ HasLocal(t) => HasLocal(todo)
      /\ HasWrite(t) => HasWrite(todo)
      /\ HasAgain(t) => HasAgain(todo)
      /\ HasServiceClear(t) => HasServiceClear(todo)
      /\ HasRefresh(t) => HasRefresh(todo)
      /\ StopsFirst(todo) => StopsFirst(t)
      /\ Invalidates(todo) => Invalidates(t)
      /\ InvalidatesClears(todo) => InvalidatesClears(t)
      /\ AppliesFirst(todo) => AppliesFirst(t)
  <2>1. "drain" \in Steps /\ "lockedDrain" \in Steps /\ IsList(t)
    BY <1>1
  <2>2. CASE todo = Push("drain", t)
    BY <2>1, <2>2, PushAdds, PushOrders, <1>4
  <2>3. CASE todo = Push("lockedDrain", t)
    BY <2>1, <2>3, PushAdds, PushOrders, <1>4
  <2> QED
    BY <1>1, <2>2, <2>3
<1>7. ListsOK'
  BY <1>1, <1>5, <1>6, <1>3, NoHandler DEF IInv, ListsOK
<1>8. ModeOK'
  BY <1>1, <1>5, <1>6, <1>3, NoHandler
     DEF IInv, ModeOK, SessionIsServices, SessionIsOld, DeadIsSidecar, RefreshHasACore,
         WritesAreLocal, Route, EndsNoService, StartsFromNone, ShutDown
<1>9. GuardOK'
  <2>1. GuardIsLocal'
    BY <1>1 DEF IInv, GuardOK, GuardIsLocal, Route, ShutDown
  <2>2. RestartIsLocal'
    BY <1>1, <1>5, <1>6, <1>3
       DEF IInv, GuardOK, RestartIsLocal, ShutDown, GuardIsLocal, Route, LoopOK, WarnedIsGone,
           NoCurrent, Current, ModeOK, WritesAreLocal, LoopsAreSound
  <2>3. ExitsUnguarded'
    BY <1>1, <1>5, <1>6, <1>3 DEF IInv, GuardOK, ExitsUnguarded, ShutDown
  <2>4. DropsUnguarded'
    BY <1>1, <1>5, <1>6, <1>3, NoHandler DEF IInv, GuardOK, DropsUnguarded, ShutDown
  <2>5. WritesUnguarded'
    BY <1>1, <1>5, <1>6, <1>3 DEF IInv, GuardOK, WritesUnguarded, ShutDown
  <2>6. ServiceUnguarded'
    BY <1>1, <1>5, <1>6, <1>3 DEF IInv, GuardOK, ServiceUnguarded, ShutDown
  <2>7. WritesAreQuiet'
    <3>1. CASE todo = Push("drain", t) /\ todo' = Push("wait", t) /\ onError' = onError
      BY <3>1, <1>1, PushOrders DEF WritesAreQuiet
    <3>2. CASE todo = Push("lockedDrain", t) /\ todo' = Push("lockedWait", t) /\ onError' = onError
      BY <3>2, <1>1, PushOrders DEF IInv, GuardOK, WritesAreQuiet, NoLateWrite, ShutDown
    <3> QED
      BY <1>1, <3>1, <3>2
  <2>8. LandsQuietly'
    BY <1>1, <1>5, <1>6, <1>3 DEF IInv, GuardOK, LandsQuietly, NoLateWrite, ShutDown
  <2>9. GuardKnowsLanded'
    BY <1>1 DEF IInv, GuardOK, GuardKnowsLanded, ShutDown
  <2> QED
    BY <2>1, <2>2, <2>3, <2>4, <2>5, <2>6, <2>7, <2>8, <2>9 DEF GuardOK
<1>10. LoopOK'
  BY <1>1, <1>5, <1>6, <1>3, NoHandler
     DEF IInv, LoopOK, LoopsAreSound, Current, OneIsCurrent, InvalidatedBefore, NoCurrent,
         DropsInvalidated, StartsAreNew, WarnedIsGone, ShutDown
<1>11. OffOK'
  BY <1>1, <1>5, <1>6, <1>3
     DEF IInv, OffOK, OffIsQuiet, NobodyWrites, NoCurrent, Current, WritesTheGoal, RefreshIsAsked,
         SysGoesOff, ToldOff, PacGoesOff, ShutDown
<1> QED
  BY <1>2, <1>7, <1>8, <1>9, <1>10, <1>11 DEF IInv

LEMMA WaitKeeps ==
  ASSUME IInv, Wait
  PROVE  IInv'
<1> DEFINE t == Tail(todo)
<1>1. /\ IsList(t)
      /\ \/ todo = Push("wait", t) /\ todo' = t /\ onError' = onError
         \/ todo = Push("lockedWait", t) /\ todo' = t /\ onError' = onError
      /\ "wait" \in Steps /\ "lockedWait" \in Steps
  <2>1. "wait" \in Steps /\ "lockedWait" \in Steps
    BY DEF Steps
  <2>2. IsList(t) /\ (todo = Push("wait", t) \/ todo = Push("lockedWait", t))
    BY HeadIs DEF IInv, ListsOK, Wait
  <2> QED
    BY <2>1, <2>2, HeadIs, NothingStands, PushOne, PushTwo, PushThree, PushAdds
       DEF IInv, ListsOK, Wait, Done, Then
<1> HIDE DEF t
<1>2. TypeOK'
  BY DEF IInv, TypeOK, Wait, Settings
<1>3. /\ ~HasLanded(t)
      /\ StartsLast(t) /\ RefreshesLast(t) /\ LandsLast(t)
  BY <1>1, Behind DEF IInv
<1>4. ListsOK'
  BY <1>1, ListsPop DEF IInv
<1>5. ModeOK'
  BY <1>1, PushAdds, <1>3, NotLanded, NoHandler, PushOrders
     DEF IInv, ModeOK, SessionIsServices, SessionIsOld, DeadIsSidecar, RefreshHasACore,
         WritesAreLocal, Route, EndsNoService, StartsFromNone, Wait
<1>6. GuardOK'
  <2>1. GuardIsLocal'
    BY <1>1 DEF IInv, GuardOK, GuardIsLocal, Route, Wait
  <2>2. RestartIsLocal'
    BY <1>1, PushAdds, <1>3, NotLanded DEF IInv, GuardOK, RestartIsLocal, Wait
  <2>3. ExitsUnguarded'
    BY <1>1, PushOrders, <1>3, NotLanded DEF IInv, GuardOK, ExitsUnguarded, Wait
  <2>4. DropsUnguarded'
    BY <1>1, PushOrders, <1>3, NotLanded, NoHandler DEF IInv, GuardOK, DropsUnguarded, Wait
  <2>5. WritesUnguarded'
    BY <1>1, PushOrders, <1>3, NotLanded DEF IInv, GuardOK, WritesUnguarded, Wait
  <2>6. ServiceUnguarded'
    BY <1>1, PushAdds, <1>3, NotLanded DEF IInv, GuardOK, ServiceUnguarded, Wait
  <2>7. WritesAreQuiet'
    BY <1>1, PushOrders, <1>3, NotLanded, <1>2, Typed
       DEF IInv, GuardOK, WritesAreQuiet, NoLateWrite, Wait, WritesUnguarded
  <2>8. LandsQuietly'
    BY <1>1, PushAdds, <1>3, NotLanded DEF IInv, GuardOK, LandsQuietly, NoLateWrite, Wait
  <2>9. GuardKnowsLanded'
    BY <1>1 DEF IInv, GuardOK, GuardKnowsLanded, Wait
  <2> QED
    BY <2>1, <2>2, <2>3, <2>4, <2>5, <2>6, <2>7, <2>8, <2>9 DEF GuardOK
<1>7. LoopOK'
  BY <1>1, PushOrders, <1>3, NotLanded, NoHandler, PushAdds
     DEF IInv, LoopOK, LoopsAreSound, Current, OneIsCurrent, InvalidatedBefore, NoCurrent,
         DropsInvalidated, StartsAreNew, WarnedIsGone, Wait
<1>8. OffOK'
  BY <1>1, PushAdds, <1>3, NotLanded, PushOrders
     DEF IInv, OffOK, OffIsQuiet, NobodyWrites, NoCurrent, Current, WritesTheGoal, RefreshIsAsked,
         SysGoesOff, ToldOff, PacGoesOff, Wait
<1> QED
  BY <1>2, <1>4, <1>5, <1>6, <1>7, <1>8 DEF IInv

LEMMA ApplyKeeps ==
  ASSUME IInv, Apply
  PROVE  IInv'
<1> DEFINE t == Tail(todo)
<1>1. /\ IsList(t)
      /\ todo = Push("apply", t)
      /\ \/ todo' = Push("drain", Push("compare", t)) /\ onError' = onError /\ Route = "local"
         \/ todo' = Push("drain", Push("invalidate", Push("serviceWrite", t))) /\ onError' = onError
              /\ Route = "service"
      /\ "apply" \in Steps /\ "drain" \in Steps /\ "compare" \in Steps /\ "invalidate" \in Steps
           /\ "serviceWrite" \in Steps
  <2>1. "apply" \in Steps /\ "drain" \in Steps /\ "compare" \in Steps /\ "invalidate" \in Steps
          /\ "serviceWrite" \in Steps
    BY DEF Steps
  <2>2. IsList(t) /\ (todo = Push("apply", t))
    BY HeadIs DEF IInv, ListsOK, Apply
  <2>3. \/ todo' = <<"drain", "compare">> \o t /\ onError' = onError /\ Route = "local"
        \/ todo' = <<"drain", "invalidate", "serviceWrite">> \o t /\ onError' = onError
             /\ Route = "service"
    BY <2>1, <2>2, HeadIs DEF IInv, ListsOK, Apply, Then, UpdateSysproxy, ApplyThroughService, Route
  <2> HIDE DEF t
  <2>4. /\ <<"drain", "compare">> \o t = Push("drain", Push("compare", t))
        /\ <<"drain", "invalidate", "serviceWrite">> \o t
             = Push("drain", Push("invalidate", Push("serviceWrite", t)))
    <3>1. <<"drain", "compare">> \o t = Push("drain", Push("compare", t))
      <4>1. "drain" \in Steps /\ "compare" \in Steps
        BY <2>1
      <4> QED
        BY <4>1, <2>2, PushTwo
    <3>2. <<"drain", "invalidate", "serviceWrite">> \o t
            = Push("drain", Push("invalidate", Push("serviceWrite", t)))
      <4>1. "drain" \in Steps /\ "invalidate" \in Steps /\ "serviceWrite" \in Steps
        BY <2>1
      <4> QED
        BY <4>1, <2>2, PushThree
    <3> QED
      BY <3>1, <3>2
  <2> QED
    BY <2>1, <2>2, <2>3, <2>4, NothingStands, Zenon
<1> HIDE DEF t
<1>2. TypeOK'
  BY DEF IInv, TypeOK, Apply, Settings
<1>3. /\ ~Falls(t)
      /\ ~HasLanded(t)
      /\ StartsLast(t) /\ RefreshesLast(t) /\ LandsLast(t)
  BY <1>1, Behind DEF IInv
<1>4. /\ StartsLast(t) /\ RefreshesLast(t) /\ LandsLast(t) /\ ~Falls(t) /\ ~HasStart(t)
      /\ ~HasBegin(t) /\ ~HasEnd(t) /\ ~HasServiceClear(t) /\ StopsFirst(t) /\ UnguardsExits(t)
      /\ UnguardsClears(t) /\ InvalidatesClears(t) /\ ~HasLanded(t) /\ WritesFirst(t)
      /\ WritesSecond(t)
  BY <1>1, <1>3, NotDown, NotLanded
<1>5. /\ ~Falls(todo') /\ ~HasStart(todo') /\ ~HasBegin(todo') /\ ~HasEnd(todo')
      /\ ~HasServiceClear(todo') /\ ~HasLanded(todo')
      /\ Rises(todo') => Route = "local" \/ Route = "service"
      /\ HasWriting(todo') => HasWriting(t) \/ Route = "local"
      /\ HasLocal(todo') => HasLocal(t) \/ Route = "local"
      /\ HasWrite(todo') => Route = "local" \/ Route = "service"
      /\ HasAgain(todo') => Route = "local" \/ Route = "service"
      /\ HasRefresh(todo') => HasRefresh(t)
      /\ StopsFirst(todo') /\ UnguardsExits(todo') /\ UnguardsClears(todo') /\ Drains(todo')
      /\ Waits(todo') /\ InvalidatesClears(todo') /\ WritesFirst(todo') /\ WritesSecond(todo')
      /\ Invalidates(t) => Invalidates(todo')
      /\ AppliesFirst(t) => AppliesFirst(todo')
      /\ IsList(todo') /\ StartsLast(todo') /\ RefreshesLast(todo') /\ LandsLast(todo')
  <2>1. "apply" \in Steps /\ "drain" \in Steps /\ "compare" \in Steps /\ "invalidate" \in Steps
          /\ "serviceWrite" \in Steps /\ IsList(t)
    BY <1>1
  <2>2. /\ IsList(Push("compare", t)) /\ IsList(Push("drain", Push("compare", t)))
        /\ IsList(Push("serviceWrite", t))
        /\ IsList(Push("invalidate", Push("serviceWrite", t)))
        /\ IsList(Push("drain", Push("invalidate", Push("serviceWrite", t))))
    <3>1. IsList(Push("compare", t))
      BY <2>1, <1>4, PushList
    <3>2. IsList(Push("drain", Push("compare", t)))
      BY <2>1, <3>1, <1>4, PushList
    <3>3. IsList(Push("serviceWrite", t))
      BY <2>1, <3>1, <3>2, <1>4, PushList
    <3>4. IsList(Push("invalidate", Push("serviceWrite", t)))
      BY <2>1, <3>1, <3>2, <3>3, <1>4, PushList
    <3>5. IsList(Push("drain", Push("invalidate", Push("serviceWrite", t))))
      BY <2>1, <3>1, <3>2, <3>3, <3>4, <1>4, PushList
    <3> QED
      BY <3>1, <3>2, <3>3, <3>4, <3>5
  <2>3. /\ ~Falls(todo') /\ ~HasStart(todo') /\ ~HasBegin(todo') /\ ~HasEnd(todo')
        /\ ~HasServiceClear(todo') /\ ~HasLanded(todo')
        /\ Rises(todo') => Route = "local" \/ Route = "service"
        /\ HasWriting(todo') => HasWriting(t) \/ Route = "local"
        /\ HasLocal(todo') => HasLocal(t) \/ Route = "local"
        /\ HasWrite(todo') => Route = "local" \/ Route = "service"
        /\ HasAgain(todo') => Route = "local" \/ Route = "service"
        /\ HasRefresh(todo') => HasRefresh(t)
    <3>1. CASE todo' = Push("drain", Push("compare", t)) /\ Route = "local"
      BY <2>1, <2>2, <3>1, PushAdds, <1>4
    <3>2. CASE todo' = Push("drain", Push("invalidate", Push("serviceWrite", t)))
                 /\ Route = "service"
      BY <2>1, <2>2, <3>2, PushAdds, <1>4
    <3> QED
      BY <1>1, <3>1, <3>2
  <2>4. /\ StopsFirst(todo') /\ UnguardsExits(todo') /\ UnguardsClears(todo') /\ Drains(todo')
        /\ Waits(todo') /\ InvalidatesClears(todo') /\ WritesFirst(todo') /\ WritesSecond(todo')
        /\ Invalidates(t) => Invalidates(todo')
        /\ AppliesFirst(t) => AppliesFirst(todo')
    <3>1. CASE todo' = Push("drain", Push("compare", t)) /\ Route = "local"
      BY <2>1, <2>2, <3>1, PushOrders, PushAdds, <1>4
    <3>2. CASE todo' = Push("drain", Push("invalidate", Push("serviceWrite", t)))
                 /\ Route = "service"
      BY <2>1, <2>2, <3>2, PushOrders, PushAdds, <1>4
    <3> QED
      BY <1>1, <3>1, <3>2
  <2>5. /\ IsList(todo') /\ StartsLast(todo') /\ RefreshesLast(todo') /\ LandsLast(todo')
    <3>1. CASE todo' = Push("drain", Push("compare", t)) /\ Route = "local"
      BY <2>1, <2>2, <3>1, PushAdds, PushEnds, <1>4
    <3>2. CASE todo' = Push("drain", Push("invalidate", Push("serviceWrite", t)))
                 /\ Route = "service"
      BY <2>1, <2>2, <3>2, PushAdds, PushEnds, <1>4
    <3> QED
      BY <1>1, <3>1, <3>2
  <2> QED
    BY <2>3, <2>4, <2>5
<1>6. /\ Rises(todo)
      /\ HasWriting(t) => HasWriting(todo)
      /\ HasLocal(t) => HasLocal(todo)
      /\ HasWrite(t) => HasWrite(todo)
      /\ HasAgain(t) => HasAgain(todo)
      /\ HasRefresh(t) => HasRefresh(todo)
      /\ Drains(todo) => Drains(t)
      /\ Waits(todo) => Waits(t)
      /\ Invalidates(todo) => Invalidates(t)
  <2>1. "apply" \in Steps /\ IsList(t)
    BY <1>1
  <2>2. todo = Push("apply", t)
    BY <1>1
  <2> QED
    BY <2>1, <2>2, PushAdds, PushOrders, <1>4
<1>7. ListsOK'
  BY <1>1, <1>5, <1>6, <1>3, NoHandler DEF IInv, ListsOK
<1>8. ModeOK'
  BY <1>1, <1>5, <1>6, <1>3, NoHandler
     DEF IInv, ModeOK, SessionIsServices, SessionIsOld, DeadIsSidecar, RefreshHasACore,
         WritesAreLocal, Route, EndsNoService, StartsFromNone, Apply
<1>9. GuardOK'
  BY <1>1, <1>5, <1>6, <1>3, NoHandler
     DEF IInv, GuardOK, GuardIsLocal, Route, RestartIsLocal, ExitsUnguarded, DropsUnguarded,
         WritesUnguarded, ServiceUnguarded, WritesAreQuiet, NoLateWrite, LandsQuietly,
         GuardKnowsLanded, Apply
<1>10. LoopOK'
  BY <1>1, <1>5, <1>6, <1>3, NoHandler
     DEF IInv, LoopOK, LoopsAreSound, Current, OneIsCurrent, InvalidatedBefore, NoCurrent,
         DropsInvalidated, StartsAreNew, WarnedIsGone, Apply
<1>11. OffOK'
  BY <1>1, <1>5, <1>6, <1>3
     DEF IInv, OffOK, OffIsQuiet, NobodyWrites, NoCurrent, Current, WritesTheGoal, RefreshIsAsked,
         SysGoesOff, ToldOff, PacGoesOff, Apply
<1> QED
  BY <1>2, <1>7, <1>8, <1>9, <1>10, <1>11 DEF IInv

LEMMA CompareKeeps ==
  ASSUME IInv, Compare
  PROVE  IInv'
<1> DEFINE t == Tail(todo)
<1>1. /\ IsList(t)
      /\ todo = Push("compare", t)
      /\ \/ todo' = t /\ onError' = onError
         \/ todo' = Push("write", Push("write2", Push("landed", t))) /\ onError' = onError
      /\ "compare" \in Steps /\ "write" \in Steps /\ "write2" \in Steps /\ "landed" \in Steps
  <2>1. "compare" \in Steps /\ "write" \in Steps /\ "write2" \in Steps /\ "landed" \in Steps
    BY DEF Steps
  <2>2. IsList(t) /\ (todo = Push("compare", t))
    BY HeadIs DEF IInv, ListsOK, Compare
  <2>3. \/ todo' = <<>> \o t /\ onError' = onError
        \/ todo' = <<"write", "write2", "landed">> \o t /\ onError' = onError
    BY <2>1, <2>2, HeadIs DEF IInv, ListsOK, Compare, Then, Done, Writes
  <2> HIDE DEF t
  <2>4. /\ <<>> \o t = t
        /\ <<"write", "write2", "landed">> \o t = Push("write", Push("write2", Push("landed", t)))
    <3>1. <<>> \o t = t
      BY <2>2, NothingConcat
    <3>2. <<"write", "write2", "landed">> \o t = Push("write", Push("write2", Push("landed", t)))
      <4>1. "write" \in Steps /\ "write2" \in Steps /\ "landed" \in Steps
        BY <2>1
      <4> QED
        BY <4>1, <2>2, PushThree
    <3> QED
      BY <3>1, <3>2
  <2> QED
    BY <2>1, <2>2, <2>3, <2>4, NothingStands, Zenon
<1> HIDE DEF t
<1>2. TypeOK'
  <2>1. goal \in Settings
    BY <1>1, PushAdds DEF IInv, OffOK, WritesTheGoal, TypeOK
  <2>2. /\ platform' \in Platforms /\ wanted' \in Settings /\ before' \in Settings \cup {NoSetting}
        /\ mode' \in {"none", "sidecar", "service"} /\ loops' \subseteq Loops
        /\ goal' \in Settings \cup {NoSetting}
    BY <2>1 DEF IInv, TypeOK, Compare, GuardOf, Target, TurnedOff, CanReach
  <2>3. /\ os' \subseteq Kinds /\ {guardType', guardWrite'} \subseteq Kinds \cup {"none"}
        /\ off' \in {"no", "written", "skipped", "late"} /\ landed' \in Targets
    BY <2>1
       DEF IInv, TypeOK, Compare, GuardOf, Target, TurnedOff, CanReach, Settings, Targets, Kinds
  <2>4. /\ {ready', watched', died', network', due'} \subseteq BOOLEAN
        /\ {guardOn', wasOn', drained', reached', warned'} \subseteq BOOLEAN
    BY <2>1 DEF IInv, TypeOK, Compare, GuardOf, Target, TurnedOff, CanReach
  <2>5. {owner', session', lost', gen', expected', tries', ops'} \subseteq Nat
    BY <2>1 DEF IInv, TypeOK, Compare, GuardOf, Target, TurnedOff, CanReach
  <2> QED
    BY <2>2, <2>3, <2>4, <2>5 DEF TypeOK
<1>3. /\ ~Falls(t)
      /\ ~HasLanded(t)
      /\ StartsLast(t) /\ RefreshesLast(t) /\ LandsLast(t)
  BY <1>1, Behind DEF IInv
<1>4. /\ StartsLast(t) /\ RefreshesLast(t) /\ LandsLast(t) /\ ~Falls(t) /\ ~HasStart(t)
      /\ ~HasBegin(t) /\ ~HasEnd(t) /\ ~HasServiceClear(t) /\ StopsFirst(t) /\ UnguardsExits(t)
      /\ UnguardsClears(t) /\ InvalidatesClears(t) /\ ~HasLanded(t) /\ WritesFirst(t)
      /\ WritesSecond(t)
  BY <1>1, <1>3, NotDown, NotLanded
<1>5. /\ ~Falls(todo') /\ ~HasStart(todo') /\ ~HasBegin(todo') /\ ~HasEnd(todo')
      /\ ~HasServiceClear(todo')
      /\ HasRefresh(todo') => HasRefresh(t)
      /\ StopsFirst(todo') /\ UnguardsExits(todo') /\ UnguardsClears(todo')
      /\ InvalidatesClears(todo') /\ WritesFirst(todo') /\ WritesSecond(todo')
      /\ Invalidates(t) => Invalidates(todo')
      /\ AppliesFirst(t) => AppliesFirst(todo')
      /\ IsList(todo') /\ StartsLast(todo') /\ RefreshesLast(todo') /\ LandsLast(todo')
  <2>1. "compare" \in Steps /\ "write" \in Steps /\ "write2" \in Steps /\ "landed" \in Steps
          /\ IsList(t)
    BY <1>1
  <2>2. /\ IsList(Push("landed", t)) /\ IsList(Push("write2", Push("landed", t)))
        /\ IsList(Push("write", Push("write2", Push("landed", t))))
    <3>1. IsList(Push("landed", t))
      BY <2>1, <1>4, PushList
    <3>2. IsList(Push("write2", Push("landed", t)))
      BY <2>1, <3>1, <1>4, PushList
    <3>3. IsList(Push("write", Push("write2", Push("landed", t))))
      BY <2>1, <3>1, <3>2, <1>4, PushList
    <3> QED
      BY <3>1, <3>2, <3>3
  <2>3. /\ ~Falls(todo') /\ ~HasStart(todo') /\ ~HasBegin(todo') /\ ~HasEnd(todo')
        /\ ~HasServiceClear(todo')
        /\ HasRefresh(todo') => HasRefresh(t)
    <3>1. CASE todo' = t
      BY <2>1, <2>2, <3>1, PushAdds, <1>4
    <3>2. CASE todo' = Push("write", Push("write2", Push("landed", t)))
      BY <2>1, <2>2, <3>2, PushAdds, <1>4
    <3> QED
      BY <1>1, <3>1, <3>2
  <2>4. /\ StopsFirst(todo') /\ UnguardsExits(todo') /\ UnguardsClears(todo')
        /\ InvalidatesClears(todo') /\ WritesFirst(todo') /\ WritesSecond(todo')
        /\ Invalidates(t) => Invalidates(todo')
        /\ AppliesFirst(t) => AppliesFirst(todo')
    <3>1. CASE todo' = t
      BY <2>1, <2>2, <3>1, PushOrders, PushAdds, <1>4
    <3>2. CASE todo' = Push("write", Push("write2", Push("landed", t)))
      BY <2>1, <2>2, <3>2, PushOrders, PushAdds, <1>4
    <3> QED
      BY <1>1, <3>1, <3>2
  <2>5. /\ IsList(todo') /\ StartsLast(todo') /\ RefreshesLast(todo') /\ LandsLast(todo')
    <3>1. CASE todo' = t
      BY <2>1, <2>2, <3>1, PushAdds, PushEnds, <1>4
    <3>2. CASE todo' = Push("write", Push("write2", Push("landed", t)))
      BY <2>1, <2>2, <3>2, PushAdds, PushEnds, <1>4
    <3> QED
      BY <1>1, <3>1, <3>2
  <2> QED
    BY <2>3, <2>4, <2>5
<1>6. /\ Rises(todo) /\ HasWriting(todo) /\ HasLocal(todo) /\ HasWrite(todo) /\ HasAgain(todo)
      /\ ~Drains(todo) /\ ~Waits(todo)
      /\ HasRefresh(t) => HasRefresh(todo)
      /\ Invalidates(todo) => Invalidates(t)
      /\ AppliesFirst(todo) => AppliesFirst(t)
  <2>1. "compare" \in Steps /\ IsList(t)
    BY <1>1
  <2>2. todo = Push("compare", t)
    BY <1>1
  <2> QED
    BY <2>1, <2>2, PushAdds, PushOrders, <1>4
<1>7. ListsOK'
  BY <1>1, <1>5, <1>6, <1>3, NoHandler DEF IInv, ListsOK
<1>8. ModeOK'
  BY <1>1, <1>5, <1>6, <1>3, NoHandler
     DEF IInv, ModeOK, SessionIsServices, SessionIsOld, DeadIsSidecar, RefreshHasACore,
         WritesAreLocal, Route, EndsNoService, StartsFromNone, Compare, GuardOf, Target, TurnedOff,
         CanReach
<1>9. GuardOK'
  BY <1>1, <1>5, <1>6, <1>3, NoHandler
     DEF IInv, GuardOK, GuardIsLocal, Route, RestartIsLocal, ExitsUnguarded, DropsUnguarded,
         WritesUnguarded, ServiceUnguarded, WritesAreQuiet, NoLateWrite, LandsQuietly,
         GuardKnowsLanded, Compare, GuardOf, Target, TurnedOff, CanReach
<1>10. LoopOK'
  BY <1>1, <1>5, <1>6, <1>3, NoHandler
     DEF IInv, LoopOK, LoopsAreSound, Current, OneIsCurrent, InvalidatedBefore, NoCurrent,
         DropsInvalidated, StartsAreNew, WarnedIsGone, Compare, GuardOf, Target, TurnedOff,
         CanReach
<1>11. OffOK'
  <2>1. OffIsQuiet'
    BY <1>1, <1>5, <1>6, <1>3
       DEF IInv, OffOK, OffIsQuiet, NobodyWrites, NoCurrent, Current, Compare, GuardOf, Target,
           TurnedOff, CanReach, WritesTheGoal, RefreshIsAsked, GuardOK, WritesUnguarded,
           WritesAreQuiet, NoLateWrite, LoopOK, InvalidatedBefore, LoopsAreSound, ModeOK,
           SessionIsServices, WritesAreLocal, Route, LandsQuietly, ServiceUnguarded
  <2>2. WritesTheGoal'
    BY <1>1, <1>5, <1>6, <1>3
       DEF IInv, OffOK, WritesTheGoal, Compare, GuardOf, Target, TurnedOff, CanReach
  <2>3. RefreshIsAsked'
    BY <1>1, <1>5, <1>6, <1>3
       DEF IInv, OffOK, RefreshIsAsked, Compare, GuardOf, Target, TurnedOff, CanReach,
           WritesTheGoal
  <2>4. SysGoesOff'
    BY <1>1, <1>5, <1>6, <1>3
       DEF IInv, OffOK, SysGoesOff, ToldOff, Compare, GuardOf, Target, TurnedOff, CanReach
  <2>5. PacGoesOff'
    BY <1>1, <1>5, <1>6, <1>3
       DEF IInv, OffOK, PacGoesOff, ToldOff, Compare, GuardOf, Target, TurnedOff, CanReach
  <2> QED
    BY <2>1, <2>2, <2>3, <2>4, <2>5 DEF OffOK
<1> QED
  BY <1>2, <1>7, <1>8, <1>9, <1>10, <1>11 DEF IInv

LEMMA WriteKeeps ==
  ASSUME IInv, Write
  PROVE  IInv'
<1> DEFINE t == Tail(todo)
<1>1. /\ IsList(t)
      /\ \/ todo = Push("write", t) /\ todo' = t /\ onError' = onError
         \/ todo = Push("write2", t) /\ todo' = t /\ onError' = onError
      /\ "write" \in Steps /\ "write2" \in Steps
  <2>1. "write" \in Steps /\ "write2" \in Steps
    BY DEF Steps
  <2>2. IsList(t) /\ (todo = Push("write", t) \/ todo = Push("write2", t))
    BY HeadIs DEF IInv, ListsOK, Write
  <2> QED
    BY <2>1, <2>2, HeadIs, NothingStands, PushOne, PushTwo, PushThree, PushAdds
       DEF IInv, ListsOK, Write, Done, Then
<1> HIDE DEF t
<1>2. TypeOK'
  <2>1. /\ platform' \in Platforms /\ wanted' \in Settings /\ before' \in Settings \cup {NoSetting}
        /\ mode' \in {"none", "sidecar", "service"} /\ loops' \subseteq Loops
        /\ goal' \in Settings \cup {NoSetting}
    BY DEF IInv, TypeOK, Write, Skipped, After, Enables, WrittenBy, CanReach
  <2>2. /\ os' \subseteq Kinds /\ {guardType', guardWrite'} \subseteq Kinds \cup {"none"}
        /\ off' \in {"no", "written", "skipped", "late"} /\ landed' \in Targets
    BY DEF IInv, TypeOK, Write, Skipped, After, Enables, WrittenBy, CanReach, Settings, Targets,
           Kinds
  <2>3. /\ {ready', watched', died', network', due'} \subseteq BOOLEAN
        /\ {guardOn', wasOn', drained', reached', warned'} \subseteq BOOLEAN
    BY DEF IInv, TypeOK, Write, Skipped, After, Enables, WrittenBy, CanReach
  <2>4. {owner', session', lost', gen', expected', tries', ops'} \subseteq Nat
    BY DEF IInv, TypeOK, Write, Skipped, After, Enables, WrittenBy, CanReach
  <2> QED
    BY <2>1, <2>2, <2>3, <2>4 DEF TypeOK
<1>3. /\ ~Falls(t)
      /\ StartsLast(t) /\ RefreshesLast(t) /\ LandsLast(t)
  BY <1>1, Behind DEF IInv
<1>4. ListsOK'
  BY <1>1, ListsPop DEF IInv
<1>5. ModeOK'
  BY <1>1, PushAdds, <1>3, NotDown, NoHandler, PushOrders
     DEF IInv, ModeOK, SessionIsServices, SessionIsOld, DeadIsSidecar, RefreshHasACore,
         WritesAreLocal, Route, EndsNoService, StartsFromNone, Write, Skipped, After, Enables,
         WrittenBy, CanReach
<1>6. GuardOK'
  BY <1>1, PushAdds, <1>3, NotDown, PushOrders, NoHandler
     DEF IInv, GuardOK, GuardIsLocal, Route, RestartIsLocal, ExitsUnguarded, DropsUnguarded,
         WritesUnguarded, ServiceUnguarded, WritesAreQuiet, NoLateWrite, LandsQuietly,
         GuardKnowsLanded, Write, Skipped, After, Enables, WrittenBy, CanReach
<1>7. LoopOK'
  BY <1>1, PushOrders, <1>3, NotDown, NoHandler, PushAdds
     DEF IInv, LoopOK, LoopsAreSound, Current, OneIsCurrent, InvalidatedBefore, NoCurrent,
         DropsInvalidated, StartsAreNew, WarnedIsGone, Write, Skipped, After, Enables, WrittenBy,
         CanReach
<1>8. OffOK'
  <2>1. OffIsQuiet'
    BY <1>1, PushAdds, PushOrders, <1>3, NotDown
       DEF IInv, OffOK, OffIsQuiet, NobodyWrites, NoCurrent, Current, Write, Skipped, After,
           Enables, WrittenBy, CanReach, WritesTheGoal, RefreshIsAsked, GuardOK, WritesUnguarded,
           WritesAreQuiet, NoLateWrite, LoopOK, InvalidatedBefore, LoopsAreSound, ModeOK,
           SessionIsServices, WritesAreLocal, Route, LandsQuietly, ServiceUnguarded
  <2>2. WritesTheGoal'
    BY <1>1, PushAdds, <1>3, NotDown
       DEF IInv, OffOK, WritesTheGoal, Write, Skipped, After, Enables, WrittenBy, CanReach
  <2>3. RefreshIsAsked'
    BY <1>1, PushOrders, <1>3, NotDown
       DEF IInv, OffOK, RefreshIsAsked, Write, Skipped, After, Enables, WrittenBy, CanReach
  <2>4. SysGoesOff'
    <3>1. CASE todo = Push("write", t) /\ todo' = t /\ onError' = onError
      <4>1. Head(todo) = "write"
        BY <3>1, <1>1, PushIsList DEF IsList
      <4>2. ASSUME goal.kind = "off", off' # "skipped"
            PROVE  "sys" \notin os'
        <5>1. WrittenBy(Head(todo)) = "sys"
          BY <4>1, <4>2 DEF WrittenBy
        <5> QED
          BY <5>1, <4>2 DEF Write, Skipped, After, Enables
      <4> QED
        BY <4>2 DEF SysGoesOff, ToldOff, Write
    <3>2. CASE todo = Push("write2", t) /\ todo' = t /\ onError' = onError
      BY <3>2, <1>1, PushOrders
         DEF IInv, OffOK, SysGoesOff, ToldOff, Write, Skipped, After, Enables, WrittenBy
    <3> QED
      BY <1>1, <3>1, <3>2
  <2>5. PacGoesOff'
    <3>1. CASE todo = Push("write", t) /\ todo' = t /\ onError' = onError
      BY <3>1, <1>1, PushOrders
         DEF IInv, OffOK, PacGoesOff, ToldOff, Write, Skipped, After, Enables, WrittenBy
    <3>2. CASE todo = Push("write2", t) /\ todo' = t /\ onError' = onError
      <4>1. Head(todo) = "write2"
        BY <3>2, <1>1, PushIsList DEF IsList
      <4>2. ASSUME goal.kind = "off", off' # "skipped"
            PROVE  "pac" \notin os'
        <5>1. WrittenBy(Head(todo)) = "pac"
          BY <4>1, <4>2 DEF WrittenBy
        <5> QED
          BY <5>1, <4>2 DEF Write, Skipped, After, Enables
      <4> QED
        BY <4>2 DEF PacGoesOff, ToldOff, Write
    <3> QED
      BY <1>1, <3>1, <3>2
  <2> QED
    BY <2>1, <2>2, <2>3, <2>4, <2>5 DEF OffOK
<1> QED
  BY <1>2, <1>4, <1>5, <1>6, <1>7, <1>8 DEF IInv

LEMMA WriteFailsKeeps ==
  ASSUME IInv, WriteFails
  PROVE  IInv'
<1> DEFINE t == Tail(todo)
<1>1. /\ IsList(t)
      /\ \/ todo = Push("write", t) /\ todo' = Push("compensate", Nothing) /\ onError' = onError
         \/ todo = Push("write", t) /\ todo' = Push("failed", Nothing) /\ onError' = onError
         \/ todo = Push("write2", t) /\ todo' = Push("compensate", Nothing) /\ onError' = onError
         \/ todo = Push("write2", t) /\ todo' = Push("failed", Nothing) /\ onError' = onError
      /\ "write" \in Steps /\ "write2" \in Steps /\ "compensate" \in Steps /\ "failed" \in Steps
  <2>1. "write" \in Steps /\ "write2" \in Steps /\ "compensate" \in Steps /\ "failed" \in Steps
    BY DEF Steps
  <2>2. IsList(t) /\ (todo = Push("write", t) \/ todo = Push("write2", t))
    BY HeadIs DEF IInv, ListsOK, WriteFails
  <2>3. \/ todo = Push("write", t) /\ todo' = <<"compensate">> /\ onError' = onError
        \/ todo = Push("write", t) /\ todo' = <<"failed">> /\ onError' = onError
        \/ todo = Push("write2", t) /\ todo' = <<"compensate">> /\ onError' = onError
        \/ todo = Push("write2", t) /\ todo' = <<"failed">> /\ onError' = onError
    <3>1. CASE At("write")
      <4>1. todo = Push("write", t)
        BY <3>1, HeadIs DEF IInv, ListsOK
      <4>2. \/ todo' = <<"compensate">> /\ onError' = onError
            \/ todo' = <<"failed">> /\ onError' = onError
        BY <3>1 DEF At, WriteFails, Nothing
      <4> QED
        BY <4>1, <4>2
    <3>2. CASE At("write2")
      <4>1. todo = Push("write2", t)
        BY <3>2, HeadIs DEF IInv, ListsOK
      <4>2. \/ todo' = <<"compensate">> /\ onError' = onError
            \/ todo' = <<"failed">> /\ onError' = onError
        BY <3>2 DEF At, WriteFails, Nothing
      <4> QED
        BY <4>1, <4>2
    <3> QED
      BY <3>1, <3>2 DEF WriteFails
  <2> HIDE DEF t
  <2>4. /\ <<"compensate">> = Push("compensate", Nothing)
        /\ <<"failed">> = Push("failed", Nothing)
    <3>1. <<"compensate">> = Push("compensate", Nothing)
      <4>1. "compensate" \in Steps
        BY <2>1
      <4> QED
        BY <4>1, <2>2, PushOne
    <3>2. <<"failed">> = Push("failed", Nothing)
      <4>1. "failed" \in Steps
        BY <2>1
      <4> QED
        BY <4>1, <2>2, PushOne
    <3> QED
      BY <3>1, <3>2
  <2> QED
    BY <2>1, <2>2, <2>3, <2>4, NothingStands, Zenon
<1> HIDE DEF t
<1>2. TypeOK'
  <2>1. /\ platform' \in Platforms /\ wanted' \in Settings /\ before' \in Settings \cup {NoSetting}
        /\ mode' \in {"none", "sidecar", "service"} /\ loops' \subseteq Loops
        /\ goal' \in Settings \cup {NoSetting}
    BY DEF IInv, TypeOK, WriteFails, Skipped, After, Enables, WrittenBy, CanReach, Unknown
  <2>2. /\ os' \subseteq Kinds /\ {guardType', guardWrite'} \subseteq Kinds \cup {"none"}
        /\ off' \in {"no", "written", "skipped", "late"} /\ landed' \in Targets
    BY DEF IInv, TypeOK, WriteFails, Skipped, After, Enables, WrittenBy, CanReach, Unknown,
           Settings, Targets, Kinds
  <2>3. /\ {ready', watched', died', network', due'} \subseteq BOOLEAN
        /\ {guardOn', wasOn', drained', reached', warned'} \subseteq BOOLEAN
    BY DEF IInv, TypeOK, WriteFails, Skipped, After, Enables, WrittenBy, CanReach, Unknown
  <2>4. {owner', session', lost', gen', expected', tries', ops'} \subseteq Nat
    BY DEF IInv, TypeOK, WriteFails, Skipped, After, Enables, WrittenBy, CanReach, Unknown
  <2> QED
    BY <2>1, <2>2, <2>3, <2>4 DEF TypeOK
<1>3. /\ ~Falls(t)
      /\ StartsLast(t) /\ RefreshesLast(t) /\ LandsLast(t)
  BY <1>1, Behind DEF IInv
<1>4. /\ StartsLast(t) /\ RefreshesLast(t) /\ LandsLast(t) /\ ~Falls(t) /\ ~HasStart(t)
      /\ ~HasBegin(t) /\ ~HasEnd(t) /\ ~HasServiceClear(t) /\ StopsFirst(t) /\ UnguardsExits(t)
      /\ UnguardsClears(t) /\ InvalidatesClears(t)
  BY <1>1, <1>3, NotDown
<1>5. /\ ~Falls(todo') /\ ~HasStart(todo') /\ ~HasBegin(todo') /\ ~HasEnd(todo')
      /\ ~HasWriting(todo') /\ ~HasLocal(todo') /\ ~HasWrite(todo') /\ ~HasAgain(todo')
      /\ ~HasServiceClear(todo') /\ ~HasRefresh(todo') /\ ~HasLanded(todo')
      /\ StopsFirst(todo') /\ UnguardsExits(todo') /\ UnguardsClears(todo') /\ Drains(todo')
      /\ Waits(todo') /\ Invalidates(todo') /\ InvalidatesClears(todo') /\ AppliesFirst(todo')
      /\ WritesFirst(todo') /\ WritesSecond(todo') /\ IsList(todo') /\ StartsLast(todo')
      /\ RefreshesLast(todo') /\ LandsLast(todo')
  <2>1. "write" \in Steps /\ "write2" \in Steps /\ "compensate" \in Steps /\ "failed" \in Steps
          /\ IsList(t)
    BY <1>1
  <2>2. /\ IsList(Push("compensate", Nothing)) /\ IsList(Push("failed", Nothing))
    <3>1. IsList(Push("compensate", Nothing))
      BY <2>1, NothingStands, PushList
    <3>2. IsList(Push("failed", Nothing))
      BY <2>1, <3>1, NothingStands, PushList
    <3> QED
      BY <3>1, <3>2
  <2>3. /\ ~Falls(todo') /\ ~HasStart(todo') /\ ~HasBegin(todo') /\ ~HasEnd(todo')
        /\ ~HasWriting(todo') /\ ~HasLocal(todo') /\ ~HasWrite(todo') /\ ~HasAgain(todo')
        /\ ~HasServiceClear(todo') /\ ~HasRefresh(todo') /\ ~HasLanded(todo')
    <3>1. CASE todo' = Push("compensate", Nothing)
      BY <2>1, <2>2, <3>1, PushAdds, NothingStands
    <3>2. CASE todo' = Push("failed", Nothing)
      BY <2>1, <2>2, <3>2, PushAdds, NothingStands
    <3> QED
      BY <1>1, <3>1, <3>2
  <2>4. /\ StopsFirst(todo') /\ UnguardsExits(todo') /\ UnguardsClears(todo') /\ Drains(todo')
        /\ Waits(todo') /\ Invalidates(todo') /\ InvalidatesClears(todo') /\ AppliesFirst(todo')
        /\ WritesFirst(todo') /\ WritesSecond(todo')
    <3>1. CASE todo' = Push("compensate", Nothing)
      BY <2>1, <2>2, <3>1, PushOrders, PushAdds, NothingStands
    <3>2. CASE todo' = Push("failed", Nothing)
      BY <2>1, <2>2, <3>2, PushOrders, PushAdds, NothingStands
    <3> QED
      BY <1>1, <3>1, <3>2
  <2>5. /\ IsList(todo') /\ StartsLast(todo') /\ RefreshesLast(todo') /\ LandsLast(todo')
    <3>1. CASE todo' = Push("compensate", Nothing)
      BY <2>1, <2>2, <3>1, PushAdds, PushEnds, NothingStands
    <3>2. CASE todo' = Push("failed", Nothing)
      BY <2>1, <2>2, <3>2, PushAdds, PushEnds, NothingStands
    <3> QED
      BY <1>1, <3>1, <3>2
  <2> QED
    BY <2>3, <2>4, <2>5
<1>6. /\ Rises(todo) /\ HasWriting(todo) /\ HasLocal(todo) /\ HasWrite(todo) /\ HasAgain(todo)
      /\ ~Drains(todo) /\ ~Waits(todo)
      /\ HasRefresh(t) => HasRefresh(todo)
      /\ HasLanded(t) => HasLanded(todo)
      /\ Invalidates(todo) => Invalidates(t)
      /\ AppliesFirst(todo) => AppliesFirst(t)
  <2>1. "write" \in Steps /\ "write2" \in Steps /\ IsList(t)
    BY <1>1
  <2>2. CASE todo = Push("write", t)
    BY <2>1, <2>2, PushAdds, PushOrders, <1>4
  <2>3. CASE todo = Push("write2", t)
    BY <2>1, <2>3, PushAdds, PushOrders, <1>4
  <2> QED
    BY <1>1, <2>2, <2>3
<1>7. ListsOK'
  BY <1>1, <1>5, <1>6, <1>3, NoHandler DEF IInv, ListsOK
<1>8. ModeOK'
  BY <1>1, <1>5, <1>6, <1>3, NoHandler
     DEF IInv, ModeOK, SessionIsServices, SessionIsOld, DeadIsSidecar, RefreshHasACore,
         WritesAreLocal, Route, EndsNoService, StartsFromNone, WriteFails, Skipped, After, Enables,
         WrittenBy, CanReach, Unknown
<1>9. GuardOK'
  <2>1. GuardIsLocal'
    BY <1>1, <1>5, <1>6, <1>3
       DEF IInv, GuardOK, GuardIsLocal, Route, WriteFails, Skipped, After, Enables, WrittenBy,
           CanReach, Unknown, RestartIsLocal, ModeOK, WritesAreLocal, RefreshHasACore,
           ExitsUnguarded, StartsFromNone
  <2>2. RestartIsLocal'
    BY <1>1, <1>5, <1>6, <1>3
       DEF IInv, GuardOK, RestartIsLocal, WriteFails, Skipped, After, Enables, WrittenBy, CanReach,
           Unknown
  <2>3. ExitsUnguarded'
    BY <1>1, <1>5, <1>6, <1>3
       DEF IInv, GuardOK, ExitsUnguarded, WriteFails, Skipped, After, Enables, WrittenBy, CanReach,
           Unknown
  <2>4. DropsUnguarded'
    BY <1>1, <1>5, <1>6, <1>3, NoHandler
       DEF IInv, GuardOK, DropsUnguarded, WriteFails, Skipped, After, Enables, WrittenBy, CanReach,
           Unknown
  <2>5. WritesUnguarded'
    BY <1>1, <1>5, <1>6, <1>3
       DEF IInv, GuardOK, WritesUnguarded, WriteFails, Skipped, After, Enables, WrittenBy,
           CanReach, Unknown
  <2>6. ServiceUnguarded'
    BY <1>1, <1>5, <1>6, <1>3
       DEF IInv, GuardOK, ServiceUnguarded, WriteFails, Skipped, After, Enables, WrittenBy,
           CanReach, Unknown
  <2>7. WritesAreQuiet'
    BY <1>1, <1>5, <1>6, <1>3
       DEF IInv, GuardOK, WritesAreQuiet, NoLateWrite, WriteFails, Skipped, After, Enables,
           WrittenBy, CanReach, Unknown
  <2>8. LandsQuietly'
    BY <1>1, <1>5, <1>6, <1>3
       DEF IInv, GuardOK, LandsQuietly, NoLateWrite, WriteFails, Skipped, After, Enables,
           WrittenBy, CanReach, Unknown
  <2>9. GuardKnowsLanded'
    BY <1>1
       DEF IInv, GuardOK, GuardKnowsLanded, WriteFails, Skipped, After, Enables, WrittenBy,
           CanReach, Unknown
  <2> QED
    BY <2>1, <2>2, <2>3, <2>4, <2>5, <2>6, <2>7, <2>8, <2>9 DEF GuardOK
<1>10. LoopOK'
  <2>1. LoopsAreSound'
    BY <1>1
       DEF IInv, LoopOK, LoopsAreSound, Current, WriteFails, Skipped, After, Enables, WrittenBy,
           CanReach, Unknown
  <2>2. OneIsCurrent'
    BY <1>1
       DEF IInv, LoopOK, OneIsCurrent, Current, WriteFails, Skipped, After, Enables, WrittenBy,
           CanReach, Unknown
  <2>3. InvalidatedBefore'
    BY <1>1, <1>5, <1>6, <1>3
       DEF IInv, LoopOK, InvalidatedBefore, NoCurrent, Current, WriteFails, Skipped, After,
           Enables, WrittenBy, CanReach, Unknown
  <2>4. DropsInvalidated'
    BY <1>1, <1>5, <1>6, <1>3, NoHandler
       DEF IInv, LoopOK, DropsInvalidated, NoCurrent, Current, WriteFails, Skipped, After, Enables,
           WrittenBy, CanReach, Unknown
  <2>5. StartsAreNew'
    BY <1>1, <1>5, <1>6, <1>3
       DEF IInv, LoopOK, StartsAreNew, WriteFails, Skipped, After, Enables, WrittenBy, CanReach,
           Unknown
  <2>6. WarnedIsGone'
    BY <1>1, <1>5, <1>6, <1>3
       DEF IInv, LoopOK, WarnedIsGone, NoCurrent, Current, WriteFails, Skipped, After, Enables,
           WrittenBy, CanReach, Unknown, OneIsCurrent, LoopsAreSound, GuardOK, GuardIsLocal, Route,
           RestartIsLocal
  <2> QED
    BY <2>1, <2>2, <2>3, <2>4, <2>5, <2>6 DEF LoopOK
<1>11. OffOK'
  BY <1>1, <1>5, <1>6, <1>3
     DEF IInv, OffOK, OffIsQuiet, NobodyWrites, NoCurrent, Current, WritesTheGoal, RefreshIsAsked,
         SysGoesOff, ToldOff, PacGoesOff, WriteFails, Skipped, After, Enables, WrittenBy, CanReach,
         Unknown
<1> QED
  BY <1>2, <1>7, <1>8, <1>9, <1>10, <1>11 DEF IInv

LEMMA CompensateKeeps ==
  ASSUME IInv, Compensate
  PROVE  IInv'
<1> DEFINE t == Tail(todo)
<1>1. /\ IsList(t)
      /\ todo = Push("compensate", t)
      /\ todo' = Push("failed", Nothing) /\ onError' = onError
      /\ "compensate" \in Steps /\ "failed" \in Steps
  <2>1. "compensate" \in Steps /\ "failed" \in Steps
    BY DEF Steps
  <2>2. IsList(t) /\ (todo = Push("compensate", t))
    BY HeadIs DEF IInv, ListsOK, Compensate
  <2>3. todo' = <<"failed">> /\ onError' = onError
    BY <2>1, <2>2, HeadIs DEF IInv, ListsOK, Compensate, Nothing
  <2> HIDE DEF t
  <2>4. /\ <<"failed">> = Push("failed", Nothing)
    <3>1. <<"failed">> = Push("failed", Nothing)
      <4>1. "failed" \in Steps
        BY <2>1
      <4> QED
        BY <4>1, <2>2, PushOne
    <3> QED
      BY <3>1
  <2> QED
    BY <2>1, <2>2, <2>3, <2>4, NothingStands, Zenon
<1> HIDE DEF t
<1>2. TypeOK'
  BY DEF IInv, TypeOK, Compensate, Settings, DisableAll
<1>3. /\ ~Falls(t)
      /\ StartsLast(t) /\ RefreshesLast(t) /\ LandsLast(t)
  BY <1>1, Behind DEF IInv
<1>4. /\ StartsLast(t) /\ RefreshesLast(t) /\ LandsLast(t) /\ ~Falls(t) /\ ~HasStart(t)
      /\ ~HasBegin(t) /\ ~HasEnd(t) /\ ~HasServiceClear(t) /\ StopsFirst(t) /\ UnguardsExits(t)
      /\ UnguardsClears(t) /\ InvalidatesClears(t)
  BY <1>1, <1>3, NotDown
<1>5. /\ ~Falls(todo') /\ ~HasStart(todo') /\ ~HasBegin(todo') /\ ~HasEnd(todo')
      /\ ~HasWriting(todo') /\ ~HasLocal(todo') /\ ~HasWrite(todo') /\ ~HasAgain(todo')
      /\ ~HasServiceClear(todo') /\ ~HasRefresh(todo') /\ ~HasLanded(todo')
      /\ StopsFirst(todo') /\ UnguardsExits(todo') /\ UnguardsClears(todo') /\ Drains(todo')
      /\ Waits(todo') /\ Invalidates(todo') /\ InvalidatesClears(todo') /\ AppliesFirst(todo')
      /\ WritesFirst(todo') /\ WritesSecond(todo') /\ IsList(todo') /\ StartsLast(todo')
      /\ RefreshesLast(todo') /\ LandsLast(todo')
  <2>1. "compensate" \in Steps /\ "failed" \in Steps /\ IsList(t)
    BY <1>1
  <2>2. /\ IsList(Push("failed", Nothing))
    BY <2>1, NothingStands, PushList
  <2>3. /\ ~Falls(todo') /\ ~HasStart(todo') /\ ~HasBegin(todo') /\ ~HasEnd(todo')
        /\ ~HasWriting(todo') /\ ~HasLocal(todo') /\ ~HasWrite(todo') /\ ~HasAgain(todo')
        /\ ~HasServiceClear(todo') /\ ~HasRefresh(todo') /\ ~HasLanded(todo')
    <3>1. todo' = Push("failed", Nothing)
      BY <1>1
    <3> QED
      BY <2>1, <2>2, <3>1, PushAdds, NothingStands
  <2>4. /\ StopsFirst(todo') /\ UnguardsExits(todo') /\ UnguardsClears(todo') /\ Drains(todo')
        /\ Waits(todo') /\ Invalidates(todo') /\ InvalidatesClears(todo') /\ AppliesFirst(todo')
        /\ WritesFirst(todo') /\ WritesSecond(todo')
    <3>1. todo' = Push("failed", Nothing)
      BY <1>1
    <3> QED
      BY <2>1, <2>2, <3>1, PushOrders, PushAdds, NothingStands
  <2>5. /\ IsList(todo') /\ StartsLast(todo') /\ RefreshesLast(todo') /\ LandsLast(todo')
    <3>1. todo' = Push("failed", Nothing)
      BY <1>1
    <3> QED
      BY <2>1, <2>2, <3>1, PushAdds, PushEnds, NothingStands
  <2> QED
    BY <2>3, <2>4, <2>5
<1>6. /\ Rises(todo)
      /\ HasWriting(t) => HasWriting(todo)
      /\ HasLocal(t) => HasLocal(todo)
      /\ HasWrite(t) => HasWrite(todo)
      /\ HasAgain(t) => HasAgain(todo)
      /\ HasRefresh(t) => HasRefresh(todo)
      /\ HasLanded(t) => HasLanded(todo)
      /\ Drains(todo) => Drains(t)
      /\ Waits(todo) => Waits(t)
      /\ Invalidates(todo) => Invalidates(t)
      /\ AppliesFirst(todo) => AppliesFirst(t)
      /\ WritesFirst(todo) => WritesFirst(t)
      /\ WritesSecond(todo) => WritesSecond(t)
  <2>1. "compensate" \in Steps /\ IsList(t)
    BY <1>1
  <2>2. todo = Push("compensate", t)
    BY <1>1
  <2> QED
    BY <2>1, <2>2, PushAdds, PushOrders, <1>4
<1>7. ListsOK'
  BY <1>1, <1>5, <1>6, <1>3, NoHandler DEF IInv, ListsOK
<1>8. ModeOK'
  BY <1>1, <1>5, <1>6, <1>3, NoHandler
     DEF IInv, ModeOK, SessionIsServices, SessionIsOld, DeadIsSidecar, RefreshHasACore,
         WritesAreLocal, Route, EndsNoService, StartsFromNone, Compensate, DisableAll
<1>9. GuardOK'
  BY <1>1, <1>5, <1>6, <1>3, NoHandler
     DEF IInv, GuardOK, GuardIsLocal, Route, RestartIsLocal, ExitsUnguarded, DropsUnguarded,
         WritesUnguarded, ServiceUnguarded, WritesAreQuiet, NoLateWrite, LandsQuietly,
         GuardKnowsLanded, Compensate, DisableAll
<1>10. LoopOK'
  BY <1>1, <1>5, <1>6, <1>3, NoHandler
     DEF IInv, LoopOK, LoopsAreSound, Current, OneIsCurrent, InvalidatedBefore, NoCurrent,
         DropsInvalidated, StartsAreNew, WarnedIsGone, Compensate, DisableAll
<1>11. OffOK'
  BY <1>1, <1>5, <1>6, <1>3
     DEF IInv, OffOK, OffIsQuiet, NobodyWrites, NoCurrent, Current, WritesTheGoal, RefreshIsAsked,
         SysGoesOff, ToldOff, PacGoesOff, Compensate, DisableAll
<1> QED
  BY <1>2, <1>7, <1>8, <1>9, <1>10, <1>11 DEF IInv

LEMMA FailedKeeps ==
  ASSUME IInv, Failed
  PROVE  IInv'
<1> DEFINE t == Tail(todo)
<1>1. /\ IsList(t)
      /\ todo = Push("failed", t)
      /\ todo' = onError /\ onError' = Nothing
      /\ "failed" \in Steps
  <2>1. "failed" \in Steps
    BY DEF Steps
  <2>2. IsList(t) /\ (todo = Push("failed", t))
    BY HeadIs DEF IInv, ListsOK, Failed
  <2> QED
    BY <2>1, <2>2, HeadIs, NothingStands, PushOne, PushTwo, PushThree, PushAdds
       DEF IInv, ListsOK, Failed, Fail, Nothing
<1> HIDE DEF t
<1>2. TypeOK'
  BY DEF IInv, TypeOK, Failed, Settings
<1>3. /\ Bare(onError) /\ ~Rises(onError)
      /\ onError = Dropping \/ (UnguardsExits(onError) /\ Invalidates(onError))
      /\ onError \in Undoing \/ ~HasEnd(onError)
      /\ Nothing \notin Undoing /\ Nothing # Dropping
  BY HandlersAre, NoHandler DEF IInv, ListsOK, Bare
<1>4. /\ ~Falls(t)
      /\ onError # Dropping
      /\ StartsLast(t) /\ RefreshesLast(t) /\ LandsLast(t)
  BY <1>1, Behind DEF IInv
<1>5. ListsOK'
  BY <1>1, ListsFail DEF IInv
<1>6. ModeOK'
  BY <1>1, PushAdds, <1>4, NotDown, <1>3, NotUp, NoHandler, PushOrders
     DEF IInv, ModeOK, SessionIsServices, SessionIsOld, DeadIsSidecar, RefreshHasACore, Bare,
         WritesAreLocal, Route, EndsNoService, StartsFromNone, Failed
<1>7. GuardOK'
  BY <1>1, PushAdds, <1>4, NotDown, <1>3, NotUp, PushOrders, NoHandler
     DEF IInv, GuardOK, GuardIsLocal, Route, RestartIsLocal, Bare, ExitsUnguarded, DropsUnguarded,
         WritesUnguarded, ServiceUnguarded, WritesAreQuiet, NoLateWrite, LandsQuietly,
         GuardKnowsLanded, Failed
<1>8. LoopOK'
  BY <1>1, PushOrders, <1>4, NotDown, <1>3, NotUp, NoHandler, PushAdds
     DEF IInv, LoopOK, LoopsAreSound, Current, OneIsCurrent, InvalidatedBefore, NoCurrent, Bare,
         DropsInvalidated, StartsAreNew, WarnedIsGone, Failed
<1>9. OffOK'
  BY <1>1, PushAdds, <1>4, NotDown, <1>3, NotUp, PushOrders
     DEF IInv, OffOK, OffIsQuiet, NobodyWrites, NoCurrent, Current, WritesTheGoal, Bare,
         RefreshIsAsked, SysGoesOff, ToldOff, PacGoesOff, Failed
<1> QED
  BY <1>2, <1>5, <1>6, <1>7, <1>8, <1>9 DEF IInv

LEMMA LandedKeeps ==
  ASSUME IInv, Landed
  PROVE  IInv'
<1> DEFINE t == Tail(todo)
<1>1. /\ IsList(t)
      /\ todo = Push("landed", t)
      /\ todo' = t /\ onError' = onError
      /\ "landed" \in Steps
  <2>1. "landed" \in Steps
    BY DEF Steps
  <2>2. IsList(t) /\ (todo = Push("landed", t))
    BY HeadIs DEF IInv, ListsOK, Landed
  <2> QED
    BY <2>1, <2>2, HeadIs, NothingStands, PushOne, PushTwo, PushThree, PushAdds
       DEF IInv, ListsOK, Landed, Done, Then
<1> HIDE DEF t
<1>2. TypeOK'
  <2>1. goal \in Settings
    BY <1>1, PushAdds DEF IInv, OffOK, WritesTheGoal, TypeOK
  <2>2. /\ platform' \in Platforms /\ wanted' \in Settings /\ before' \in Settings \cup {NoSetting}
        /\ mode' \in {"none", "sidecar", "service"} /\ loops' \subseteq Loops
        /\ goal' \in Settings \cup {NoSetting}
    BY <2>1 DEF IInv, TypeOK, Landed, GuardOf
  <2>3. /\ os' \subseteq Kinds /\ {guardType', guardWrite'} \subseteq Kinds \cup {"none"}
        /\ off' \in {"no", "written", "skipped", "late"} /\ landed' \in Targets
    BY <2>1 DEF IInv, TypeOK, Landed, GuardOf, Settings, Targets, Kinds
  <2>4. /\ {ready', watched', died', network', due'} \subseteq BOOLEAN
        /\ {guardOn', wasOn', drained', reached', warned'} \subseteq BOOLEAN
    BY <2>1 DEF IInv, TypeOK, Landed, GuardOf
  <2>5. {owner', session', lost', gen', expected', tries', ops'} \subseteq Nat
    BY <2>1 DEF IInv, TypeOK, Landed, GuardOf
  <2> QED
    BY <2>2, <2>3, <2>4, <2>5 DEF TypeOK
<1>3. /\ ~Falls(t)
      /\ StartsLast(t) /\ RefreshesLast(t) /\ LandsLast(t)
  BY <1>1, Behind DEF IInv
<1>4. ListsOK'
  BY <1>1, ListsPop DEF IInv
<1>5. ModeOK'
  BY <1>1, PushAdds, <1>3, NotDown, NoHandler, PushOrders
     DEF IInv, ModeOK, SessionIsServices, SessionIsOld, DeadIsSidecar, RefreshHasACore,
         WritesAreLocal, Route, EndsNoService, StartsFromNone, Landed, GuardOf
<1>6. GuardOK'
  BY <1>1, PushAdds, <1>3, NotDown, PushOrders, NoHandler
     DEF IInv, GuardOK, GuardIsLocal, Route, RestartIsLocal, ExitsUnguarded, DropsUnguarded,
         WritesUnguarded, ServiceUnguarded, WritesAreQuiet, NoLateWrite, LandsQuietly,
         GuardKnowsLanded, Landed, GuardOf
<1>7. LoopOK'
  BY <1>1, PushOrders, <1>3, NotDown, NoHandler, PushAdds
     DEF IInv, LoopOK, LoopsAreSound, Current, OneIsCurrent, InvalidatedBefore, NoCurrent,
         DropsInvalidated, StartsAreNew, WarnedIsGone, Landed, GuardOf
<1>8. OffOK'
  <2>1. OffIsQuiet'
    <3>1. HasLanded(todo) /\ HasLocal(todo) /\ ~WritesFirst(todo) /\ ~WritesSecond(todo)
      BY <1>1, PushAdds, PushOrders
    <3>2. NoLateWrite /\ Route = "local"
      BY <3>1 DEF IInv, GuardOK, LandsQuietly, ModeOK, WritesAreLocal
    <3>3. \A l \in loops : ~Current(l) /\ l.session # session
      <4>1. \A l \in loops : mode # "service" /\ session = 0 /\ l.session # 0
        BY <3>2 DEF IInv, Route, LoopOK, LoopsAreSound, ModeOK, SessionIsServices
      <4>2. \A l \in loops : ~Current(l)
        BY <4>1 DEF IInv, LoopOK, LoopsAreSound
      <4> QED
        BY <4>1, <4>2
    <3>4. ASSUME off' = "written"
          PROVE  os = {} /\ drained
      <4>1. drained /\ goal.kind = "off" /\ off # "skipped"
        BY <3>4 DEF Landed
      <4>2. "sys" \notin os /\ "pac" \notin os
        BY <3>1, <4>1 DEF IInv, OffOK, SysGoesOff, PacGoesOff, ToldOff
      <4> QED
        BY <4>1, <4>2 DEF IInv, TypeOK, Kinds
    <3> QED
      BY <3>2, <3>3, <3>4 DEF OffIsQuiet, NobodyWrites, NoCurrent, Current, NoLateWrite, Landed
  <2>2. WritesTheGoal'
    BY <1>1, PushAdds, <1>3, NotDown DEF IInv, OffOK, WritesTheGoal, Landed, GuardOf
  <2>3. RefreshIsAsked'
    BY <1>1, PushAdds, PushOrders, <1>3, NotDown
       DEF IInv, OffOK, RefreshIsAsked, Landed, GuardOf, WritesTheGoal
  <2>4. SysGoesOff'
    BY <1>1, PushOrders, <1>3, NotDown DEF IInv, OffOK, SysGoesOff, ToldOff, Landed, GuardOf
  <2>5. PacGoesOff'
    BY <1>1, PushOrders, <1>3, NotDown DEF IInv, OffOK, PacGoesOff, ToldOff, Landed, GuardOf
  <2> QED
    BY <2>1, <2>2, <2>3, <2>4, <2>5 DEF OffOK
<1> QED
  BY <1>2, <1>4, <1>5, <1>6, <1>7, <1>8 DEF IInv

LEMMA ServiceWriteKeeps ==
  ASSUME IInv, ServiceWrite
  PROVE  IInv'
<1> DEFINE t == Tail(todo)
<1>1. /\ IsList(t)
      /\ todo = Push("serviceWrite", t)
      /\ \/ todo' = t /\ onError' = onError
         \/ todo' = onError /\ onError' = Nothing
      /\ "serviceWrite" \in Steps
  <2>1. "serviceWrite" \in Steps
    BY DEF Steps
  <2>2. IsList(t) /\ (todo = Push("serviceWrite", t))
    BY HeadIs DEF IInv, ListsOK, ServiceWrite
  <2> QED
    BY <2>1, <2>2, HeadIs, NothingStands, PushOne, PushTwo, PushThree, PushAdds
       DEF IInv, ListsOK, ServiceWrite, Done, Then, Fail, Nothing
<1> HIDE DEF t
<1>2. TypeOK'
  <2>1. /\ platform' \in Platforms /\ wanted' \in Settings /\ before' \in Settings \cup {NoSetting}
        /\ mode' \in {"none", "sidecar", "service"} /\ loops' \subseteq Loops
        /\ goal' \in Settings \cup {NoSetting}
    BY DEF IInv, TypeOK, ServiceWrite, Target, TurnedOff, OperationLockFree, NoLoopCalls
  <2>2. /\ {guardType', guardWrite'} \subseteq Kinds \cup {"none"}
        /\ off' \in {"no", "written", "skipped", "late"} /\ landed' \in Targets
    BY DEF IInv, TypeOK, ServiceWrite, Target, TurnedOff, OperationLockFree, NoLoopCalls, Settings,
           Targets, Kinds
  <2>3. /\ {ready', watched', died', network', due'} \subseteq BOOLEAN
        /\ {guardOn', wasOn', drained', reached', warned'} \subseteq BOOLEAN
    BY DEF IInv, TypeOK, ServiceWrite, Target, TurnedOff, OperationLockFree, NoLoopCalls
  <2>4. {owner', session', lost', gen', expected', tries', ops'} \subseteq Nat
    BY DEF IInv, TypeOK, ServiceWrite, Target, TurnedOff, OperationLockFree, NoLoopCalls
  <2>5. os' \subseteq Kinds
    <3>1. goal \in Settings
      BY <1>1, PushAdds DEF IInv, OffOK, WritesTheGoal, TypeOK
    <3>2. Target \subseteq Kinds
      BY <3>1 DEF Settings, Targets, Target
    <3>3. os \subseteq Kinds
      BY Typed DEF IInv
    <3>4. os' = os \/ os' = Target \/ os' = {} \/ os' \in SUBSET Kinds
      BY DEF ServiceWrite
    <3> QED
      BY <3>2, <3>3, <3>4
  <2> QED
    BY <2>1, <2>2, <2>3, <2>4, <2>5 DEF TypeOK
<1>3. /\ Bare(onError) /\ ~Rises(onError)
      /\ onError = Dropping \/ (UnguardsExits(onError) /\ Invalidates(onError))
      /\ onError \in Undoing \/ ~HasEnd(onError)
      /\ Nothing \notin Undoing /\ Nothing # Dropping
  BY HandlersAre, NoHandler DEF IInv, ListsOK, Bare
<1>4. /\ ~Falls(t)
      /\ ~HasLanded(t)
      /\ onError # Dropping
      /\ StartsLast(t) /\ RefreshesLast(t) /\ LandsLast(t)
  BY <1>1, Behind DEF IInv
<1>5. ListsOK'
  BY <1>1, ListsPop, ListsFail DEF IInv
<1>6. ModeOK'
  BY <1>1, PushAdds, <1>4, NotDown, NotLanded, <1>3, NotUp, NoHandler, PushOrders
     DEF IInv, ModeOK, SessionIsServices, SessionIsOld, DeadIsSidecar, RefreshHasACore, Bare,
         WritesAreLocal, Route, EndsNoService, StartsFromNone, ServiceWrite, Target, TurnedOff,
         OperationLockFree, NoLoopCalls
<1>7. GuardOK'
  BY <1>1, PushAdds, <1>4, NotDown, NotLanded, <1>3, NotUp, PushOrders, NoHandler
     DEF IInv, GuardOK, GuardIsLocal, Route, RestartIsLocal, Bare, ExitsUnguarded, DropsUnguarded,
         WritesUnguarded, ServiceUnguarded, WritesAreQuiet, NoLateWrite, LandsQuietly,
         GuardKnowsLanded, ServiceWrite, Target, TurnedOff, OperationLockFree, NoLoopCalls
<1>8. LoopOK'
  BY <1>1, PushOrders, <1>4, NotDown, NotLanded, <1>3, NotUp, NoHandler, PushAdds
     DEF IInv, LoopOK, LoopsAreSound, Current, OneIsCurrent, InvalidatedBefore, NoCurrent, Bare,
         DropsInvalidated, StartsAreNew, WarnedIsGone, ServiceWrite, Target, TurnedOff,
         OperationLockFree, NoLoopCalls
<1>9. OffOK'
  <2>1. OffIsQuiet'
    BY <1>1, PushAdds, PushOrders, <1>4, NotDown, NotLanded, <1>3, NotUp
       DEF IInv, OffOK, OffIsQuiet, NobodyWrites, NoCurrent, Current, ServiceWrite, Target,
           TurnedOff, OperationLockFree, NoLoopCalls, Bare, WritesTheGoal, RefreshIsAsked, GuardOK,
           WritesUnguarded, WritesAreQuiet, NoLateWrite, LoopOK, InvalidatedBefore, LoopsAreSound,
           ModeOK, SessionIsServices, WritesAreLocal, Route, LandsQuietly, ServiceUnguarded
  <2>2. WritesTheGoal'
    BY <1>1, PushAdds, <1>4, NotDown, NotLanded, <1>3, NotUp
       DEF IInv, OffOK, WritesTheGoal, ServiceWrite, Target, TurnedOff, OperationLockFree,
           NoLoopCalls, Bare
  <2>3. RefreshIsAsked'
    BY <1>1, PushAdds, PushOrders, <1>4, NotDown, NotLanded, <1>3, NotUp
       DEF IInv, OffOK, RefreshIsAsked, ServiceWrite, Target, TurnedOff, OperationLockFree,
           NoLoopCalls, Bare, WritesTheGoal
  <2>4. SysGoesOff'
    BY <1>1, PushOrders, <1>4, NotDown, NotLanded, <1>3, NotUp
       DEF IInv, OffOK, SysGoesOff, ToldOff, ServiceWrite, Target, TurnedOff, OperationLockFree,
           NoLoopCalls, Bare
  <2>5. PacGoesOff'
    BY <1>1, PushOrders, <1>4, NotDown, NotLanded, <1>3, NotUp
       DEF IInv, OffOK, PacGoesOff, ToldOff, ServiceWrite, Target, TurnedOff, OperationLockFree,
           NoLoopCalls, Bare
  <2> QED
    BY <2>1, <2>2, <2>3, <2>4, <2>5 DEF OffOK
<1> QED
  BY <1>2, <1>5, <1>6, <1>7, <1>8, <1>9 DEF IInv

LEMMA ClearKeeps ==
  ASSUME IInv, Clear
  PROVE  IInv'
<1> DEFINE t == Tail(todo)
<1>1. /\ IsList(t)
      /\ todo = Push("clear", t)
      /\ \/ todo' = Push("drain", Push("disable", t)) /\ onError' = onError /\ Route = "local"
         \/ todo' = Push("invalidate", Push("serviceClear", t)) /\ onError' = onError
              /\ Route = "service"
      /\ "clear" \in Steps /\ "drain" \in Steps /\ "disable" \in Steps /\ "invalidate" \in Steps
           /\ "serviceClear" \in Steps
  <2>1. "clear" \in Steps /\ "drain" \in Steps /\ "disable" \in Steps /\ "invalidate" \in Steps
          /\ "serviceClear" \in Steps
    BY DEF Steps
  <2>2. IsList(t) /\ (todo = Push("clear", t))
    BY HeadIs DEF IInv, ListsOK, Clear
  <2>3. \/ todo' = <<"drain", "disable">> \o t /\ onError' = onError /\ Route = "local"
        \/ todo' = <<"invalidate", "serviceClear">> \o t /\ onError' = onError /\ Route = "service"
    BY <2>1, <2>2, HeadIs DEF IInv, ListsOK, Clear, Then, ResetSysproxy, ServiceReset, Route
  <2> HIDE DEF t
  <2>4. /\ <<"drain", "disable">> \o t = Push("drain", Push("disable", t))
        /\ <<"invalidate", "serviceClear">> \o t = Push("invalidate", Push("serviceClear", t))
    <3>1. <<"drain", "disable">> \o t = Push("drain", Push("disable", t))
      <4>1. "drain" \in Steps /\ "disable" \in Steps
        BY <2>1
      <4> QED
        BY <4>1, <2>2, PushTwo
    <3>2. <<"invalidate", "serviceClear">> \o t = Push("invalidate", Push("serviceClear", t))
      <4>1. "invalidate" \in Steps /\ "serviceClear" \in Steps
        BY <2>1
      <4> QED
        BY <4>1, <2>2, PushTwo
    <3> QED
      BY <3>1, <3>2
  <2> QED
    BY <2>1, <2>2, <2>3, <2>4, NothingStands, Zenon
<1> HIDE DEF t
<1>2. TypeOK'
  BY DEF IInv, TypeOK, Clear, Settings
<1>3. /\ ~Rises(t)
      /\ StartsLast(t) /\ RefreshesLast(t) /\ LandsLast(t)
  BY <1>1, Behind DEF IInv
<1>4. /\ StartsLast(t) /\ RefreshesLast(t) /\ LandsLast(t) /\ ~HasWriting(t) /\ ~HasWrite(t)
      /\ ~HasRefresh(t) /\ ~HasLanded(t) /\ AppliesFirst(t) /\ WritesFirst(t) /\ WritesSecond(t)
      /\ ~Rises(t)
  BY <1>1, <1>3, NotUp
<1>5. /\ ~Rises(todo') /\ ~HasWriting(todo') /\ ~HasWrite(todo') /\ ~HasRefresh(todo')
      /\ ~HasLanded(todo')
      /\ Falls(todo') => Route = "local" \/ Route = "service"
      /\ HasStart(todo') => HasStart(t)
      /\ HasBegin(todo') => HasBegin(t)
      /\ HasEnd(todo') => HasEnd(t)
      /\ HasLocal(todo') => HasLocal(t) \/ Route = "local"
      /\ HasAgain(todo') => HasAgain(t)
      /\ HasServiceClear(todo') => HasServiceClear(t) \/ Route = "service"
      /\ AppliesFirst(todo') /\ WritesFirst(todo') /\ WritesSecond(todo')
      /\ StopsFirst(t) => StopsFirst(todo')
      /\ UnguardsExits(t) => UnguardsExits(todo')
      /\ UnguardsClears(todo') \/ Route = "local" \/ Route = "service"
      /\ Drains(t) => Drains(todo')
      /\ Waits(t) => Waits(todo')
      /\ Invalidates(t) => Invalidates(todo')
      /\ InvalidatesClears(todo') \/ Route = "local" \/ Route = "service"
      /\ IsList(todo') /\ StartsLast(todo') /\ RefreshesLast(todo') /\ LandsLast(todo')
  <2>1. "clear" \in Steps /\ "drain" \in Steps /\ "disable" \in Steps /\ "invalidate" \in Steps
          /\ "serviceClear" \in Steps /\ IsList(t)
    BY <1>1
  <2>2. /\ IsList(Push("disable", t)) /\ IsList(Push("drain", Push("disable", t)))
        /\ IsList(Push("serviceClear", t))
        /\ IsList(Push("invalidate", Push("serviceClear", t)))
    <3>1. IsList(Push("disable", t))
      BY <2>1, <1>4, PushList
    <3>2. IsList(Push("drain", Push("disable", t)))
      BY <2>1, <3>1, <1>4, PushList
    <3>3. IsList(Push("serviceClear", t))
      BY <2>1, <3>1, <3>2, <1>4, PushList
    <3>4. IsList(Push("invalidate", Push("serviceClear", t)))
      BY <2>1, <3>1, <3>2, <3>3, <1>4, PushList
    <3> QED
      BY <3>1, <3>2, <3>3, <3>4
  <2>3. /\ ~Rises(todo') /\ ~HasWriting(todo') /\ ~HasWrite(todo') /\ ~HasRefresh(todo')
        /\ ~HasLanded(todo')
        /\ Falls(todo') => Route = "local" \/ Route = "service"
        /\ HasStart(todo') => HasStart(t)
        /\ HasBegin(todo') => HasBegin(t)
        /\ HasEnd(todo') => HasEnd(t)
        /\ HasLocal(todo') => HasLocal(t) \/ Route = "local"
        /\ HasAgain(todo') => HasAgain(t)
        /\ HasServiceClear(todo') => HasServiceClear(t) \/ Route = "service"
    <3>1. CASE todo' = Push("drain", Push("disable", t)) /\ Route = "local"
      BY <2>1, <2>2, <3>1, PushAdds, <1>4
    <3>2. CASE todo' = Push("invalidate", Push("serviceClear", t)) /\ Route = "service"
      BY <2>1, <2>2, <3>2, PushAdds, <1>4
    <3> QED
      BY <1>1, <3>1, <3>2
  <2>4. /\ AppliesFirst(todo') /\ WritesFirst(todo') /\ WritesSecond(todo')
        /\ StopsFirst(t) => StopsFirst(todo')
        /\ UnguardsExits(t) => UnguardsExits(todo')
        /\ UnguardsClears(todo') \/ Route = "local" \/ Route = "service"
        /\ Drains(t) => Drains(todo')
        /\ Waits(t) => Waits(todo')
        /\ Invalidates(t) => Invalidates(todo')
        /\ InvalidatesClears(todo') \/ Route = "local" \/ Route = "service"
    <3>1. CASE todo' = Push("drain", Push("disable", t)) /\ Route = "local"
      BY <2>1, <2>2, <3>1, PushOrders, PushAdds, <1>4
    <3>2. CASE todo' = Push("invalidate", Push("serviceClear", t)) /\ Route = "service"
      BY <2>1, <2>2, <3>2, PushOrders, PushAdds, <1>4
    <3> QED
      BY <1>1, <3>1, <3>2
  <2>5. /\ IsList(todo') /\ StartsLast(todo') /\ RefreshesLast(todo') /\ LandsLast(todo')
    <3>1. CASE todo' = Push("drain", Push("disable", t)) /\ Route = "local"
      BY <2>1, <2>2, <3>1, PushAdds, PushEnds, <1>4
    <3>2. CASE todo' = Push("invalidate", Push("serviceClear", t)) /\ Route = "service"
      BY <2>1, <2>2, <3>2, PushAdds, PushEnds, <1>4
    <3> QED
      BY <1>1, <3>1, <3>2
  <2> QED
    BY <2>3, <2>4, <2>5
<1>6. /\ Falls(todo) /\ ~UnguardsClears(todo) /\ ~InvalidatesClears(todo)
      /\ HasStart(t) => HasStart(todo)
      /\ HasBegin(t) => HasBegin(todo)
      /\ HasEnd(t) => HasEnd(todo)
      /\ HasLocal(t) => HasLocal(todo)
      /\ HasAgain(t) => HasAgain(todo)
      /\ HasServiceClear(t) => HasServiceClear(todo)
      /\ StopsFirst(todo) => StopsFirst(t)
      /\ Drains(todo) => Drains(t)
      /\ Waits(todo) => Waits(t)
      /\ Invalidates(todo) => Invalidates(t)
  <2>1. "clear" \in Steps /\ IsList(t)
    BY <1>1
  <2>2. todo = Push("clear", t)
    BY <1>1
  <2> QED
    BY <2>1, <2>2, PushAdds, PushOrders, <1>4
<1>7. ListsOK'
  BY <1>1, <1>5, <1>6, <1>3, NoHandler DEF IInv, ListsOK
<1>8. ModeOK'
  BY <1>1, <1>5, <1>6, <1>3, NoHandler
     DEF IInv, ModeOK, SessionIsServices, SessionIsOld, DeadIsSidecar, RefreshHasACore,
         WritesAreLocal, Route, EndsNoService, StartsFromNone, Clear
<1>9. GuardOK'
  <2>1. GuardIsLocal'
    BY <1>1 DEF IInv, GuardOK, GuardIsLocal, Route, Clear
  <2>2. RestartIsLocal'
    BY <1>1, <1>5, <1>6, <1>3 DEF IInv, GuardOK, RestartIsLocal, Clear
  <2>3. ExitsUnguarded'
    <3>1. CASE todo' = Push("drain", Push("disable", t)) /\ onError' = onError /\ Route = "local"
      <4>1. "drain" \in Steps /\ "disable" \in Steps /\ IsList(t)
        BY <1>1
      <4>2. IsList(Push("disable", t))
        BY <4>1, PushList
      <4>3. UnguardsExits(todo')
        BY <3>1, <4>1, <4>2, PushOrders
      <4> QED
        BY <4>3 DEF ExitsUnguarded
    <3>2. CASE todo' = Push("invalidate", Push("serviceClear", t)) /\ onError' = onError
                 /\ Route = "service"
      BY <3>2, <1>1, PushOrders DEF IInv, GuardOK, GuardIsLocal, ExitsUnguarded, Clear
    <3> QED
      BY <1>1, <3>1, <3>2
  <2>4. DropsUnguarded'
    BY <1>1, <1>5, <1>6, <1>3, NoHandler DEF IInv, GuardOK, DropsUnguarded, Clear
  <2>5. WritesUnguarded'
    BY <1>1, <1>5, <1>6, <1>3 DEF IInv, GuardOK, WritesUnguarded, Clear
  <2>6. ServiceUnguarded'
    BY <1>1, <1>5, <1>6, <1>3 DEF IInv, GuardOK, ServiceUnguarded, Clear, GuardIsLocal, Route
  <2>7. WritesAreQuiet'
    BY <1>1, <1>5, <1>6, <1>3 DEF IInv, GuardOK, WritesAreQuiet, NoLateWrite, Clear
  <2>8. LandsQuietly'
    BY <1>1, <1>5, <1>6, <1>3 DEF IInv, GuardOK, LandsQuietly, NoLateWrite, Clear
  <2>9. GuardKnowsLanded'
    BY <1>1 DEF IInv, GuardOK, GuardKnowsLanded, Clear
  <2> QED
    BY <2>1, <2>2, <2>3, <2>4, <2>5, <2>6, <2>7, <2>8, <2>9 DEF GuardOK
<1>10. LoopOK'
  BY <1>1, <1>5, <1>6, <1>3, NoHandler
     DEF IInv, LoopOK, LoopsAreSound, Current, OneIsCurrent, InvalidatedBefore, NoCurrent,
         DropsInvalidated, StartsAreNew, WarnedIsGone, Clear
<1>11. OffOK'
  BY <1>1, <1>5, <1>6, <1>3
     DEF IInv, OffOK, OffIsQuiet, NobodyWrites, NoCurrent, Current, WritesTheGoal, RefreshIsAsked,
         SysGoesOff, ToldOff, PacGoesOff, Clear
<1> QED
  BY <1>2, <1>7, <1>8, <1>9, <1>10, <1>11 DEF IInv

LEMMA DisableKeeps ==
  ASSUME IInv, Disable
  PROVE  IInv'
<1> DEFINE t == Tail(todo)
<1>1. /\ IsList(t)
      /\ \/ todo = Push("disable", t) /\ todo' = t /\ onError' = onError
         \/ todo = Push("disable", t) /\ todo' = onError /\ onError' = Nothing
         \/ todo = Push("disable", t) /\ todo' = Push("drain", Push("disable", t))
              /\ onError' = onError
         \/ todo = Push("disableAgain", t) /\ todo' = t /\ onError' = onError
         \/ todo = Push("disableAgain", t) /\ todo' = onError /\ onError' = Nothing
         \/ todo = Push("disableAgain", t) /\ todo' = Push("drain", Push("disable", t))
              /\ onError' = onError
         \/ todo = Push("disable", t) /\ todo' = Push("drain", Push("disableAgain", t))
              /\ onError' = onError
      /\ "disable" \in Steps /\ "disableAgain" \in Steps /\ "drain" \in Steps
  <2>1. "disable" \in Steps /\ "disableAgain" \in Steps /\ "drain" \in Steps
    BY DEF Steps
  <2>2. IsList(t) /\ (todo = Push("disable", t) \/ todo = Push("disableAgain", t))
    BY HeadIs DEF IInv, ListsOK, Disable
  <2>3. \/ todo = Push("disable", t) /\ todo' = <<>> \o t /\ onError' = onError
        \/ todo = Push("disable", t) /\ todo' = onError /\ onError' = Nothing
        \/ todo = Push("disable", t) /\ todo' = <<"drain", "disable">> \o t /\ onError' = onError
        \/ todo = Push("disableAgain", t) /\ todo' = <<>> \o t /\ onError' = onError
        \/ todo = Push("disableAgain", t) /\ todo' = onError /\ onError' = Nothing
        \/ todo = Push("disableAgain", t) /\ todo' = <<"drain", "disable">> \o t
             /\ onError' = onError
        \/ todo = Push("disable", t) /\ todo' = <<"drain", "disableAgain">> \o t
             /\ onError' = onError
    <3>1. CASE At("disable")
      <4>1. todo = Push("disable", t)
        BY <3>1, HeadIs DEF IInv, ListsOK
      <4>2. \/ todo' = <<>> \o t /\ onError' = onError
            \/ todo' = onError /\ onError' = Nothing
            \/ todo' = <<"drain", "disable">> \o t /\ onError' = onError
            \/ todo' = <<"drain", "disableAgain">> \o t /\ onError' = onError
        BY <3>1 DEF At, Disable, Then, Done, Fail, ResetSysproxy, Nothing
      <4> QED
        BY <4>1, <4>2
    <3>2. CASE At("disableAgain")
      <4>1. todo = Push("disableAgain", t)
        BY <3>2, HeadIs DEF IInv, ListsOK
      <4>2. \/ todo' = <<>> \o t /\ onError' = onError
            \/ todo' = onError /\ onError' = Nothing
            \/ todo' = <<"drain", "disable">> \o t /\ onError' = onError
        BY <3>2 DEF At, Disable, Then, Done, Fail, ResetSysproxy, Nothing
      <4> QED
        BY <4>1, <4>2
    <3> QED
      BY <3>1, <3>2 DEF Disable
  <2> HIDE DEF t
  <2>4. /\ <<>> \o t = t
        /\ <<"drain", "disable">> \o t = Push("drain", Push("disable", t))
        /\ <<"drain", "disableAgain">> \o t = Push("drain", Push("disableAgain", t))
    <3>1. IsList(onError)
      BY HandlersAre DEF IInv, ListsOK, Bare
    <3>2. <<>> \o t = t
      BY <2>2, <3>1, NothingConcat
    <3>3. <<"drain", "disable">> \o t = Push("drain", Push("disable", t))
      <4>1. "drain" \in Steps /\ "disable" \in Steps
        BY <2>1
      <4> QED
        BY <4>1, <2>2, <3>1, PushTwo
    <3>4. <<"drain", "disableAgain">> \o t = Push("drain", Push("disableAgain", t))
      <4>1. "drain" \in Steps /\ "disableAgain" \in Steps
        BY <2>1
      <4> QED
        BY <4>1, <2>2, <3>1, PushTwo
    <3> QED
      BY <3>2, <3>3, <3>4
  <2> QED
    BY <2>1, <2>2, <2>3, <2>4, NothingStands, Zenon
<1> HIDE DEF t
<1>2. TypeOK'
  BY DEF IInv, TypeOK, Disable, Settings, DisableAll, TurnedOff, CanReach
<1>3. /\ Bare(onError) /\ ~Rises(onError)
      /\ onError = Dropping \/ (UnguardsExits(onError) /\ Invalidates(onError))
      /\ onError \in Undoing \/ ~HasEnd(onError)
      /\ Nothing \notin Undoing /\ Nothing # Dropping
  BY HandlersAre, NoHandler DEF IInv, ListsOK, Bare
<1>4. /\ ~Rises(t)
      /\ StartsLast(t) /\ RefreshesLast(t) /\ LandsLast(t)
  BY <1>1, Behind DEF IInv
<1>5. /\ StartsLast(t) /\ RefreshesLast(t) /\ LandsLast(t) /\ ~HasWriting(t) /\ ~HasWrite(t)
      /\ ~HasRefresh(t) /\ ~HasLanded(t) /\ AppliesFirst(t) /\ WritesFirst(t) /\ WritesSecond(t)
      /\ ~Rises(t)
  BY <1>1, <1>4, NotUp
<1>6. /\ ~Rises(onError) /\ ~HasStart(onError) /\ ~HasBegin(onError) /\ ~HasLocal(onError)
      /\ ~HasAgain(onError) /\ ~HasServiceClear(onError) /\ ~HasLanded(onError)
      /\ StopsFirst(onError) /\ UnguardsClears(onError) /\ Drains(onError) /\ Waits(onError)
      /\ InvalidatesClears(onError) /\ StartsLast(onError) /\ RefreshesLast(onError)
      /\ LandsLast(onError) /\ ~HasWriting(onError) /\ ~HasWrite(onError)
      /\ ~HasRefresh(onError) /\ AppliesFirst(onError) /\ WritesFirst(onError)
      /\ WritesSecond(onError) /\ IsList(onError)
  BY <1>3, NotUp DEF Bare
<1>7. /\ ~Rises(todo') /\ ~HasWriting(todo') /\ ~HasWrite(todo') /\ ~HasRefresh(todo')
      /\ ~HasLanded(todo')
      /\ HasStart(todo') => HasStart(t)
      /\ HasBegin(todo') => HasBegin(t)
      /\ HasEnd(todo') => HasEnd(onError) \/ HasEnd(t)
      /\ HasAgain(todo') => HasAgain(t)
      /\ HasServiceClear(todo') => HasServiceClear(t)
      /\ AppliesFirst(todo') /\ WritesFirst(todo') /\ WritesSecond(todo')
      /\ StopsFirst(t) => StopsFirst(todo')
      /\ UnguardsExits(onError) /\ UnguardsExits(t) => UnguardsExits(todo')
      /\ Drains(t) => Drains(todo')
      /\ Waits(t) => Waits(todo')
      /\ Invalidates(onError) /\ Invalidates(t) => Invalidates(todo')
      /\ IsList(todo') /\ StartsLast(todo') /\ RefreshesLast(todo') /\ LandsLast(todo')
  <2>1. "disable" \in Steps /\ "disableAgain" \in Steps /\ "drain" \in Steps /\ IsList(t)
    BY <1>1
  <2>2. /\ IsList(Push("disable", t)) /\ IsList(Push("drain", Push("disable", t)))
        /\ IsList(Push("disableAgain", t)) /\ IsList(Push("drain", Push("disableAgain", t)))
    <3>1. IsList(Push("disable", t))
      BY <2>1, <1>5, <1>6, PushList
    <3>2. IsList(Push("drain", Push("disable", t)))
      BY <2>1, <3>1, <1>5, <1>6, PushList
    <3>3. IsList(Push("disableAgain", t))
      BY <2>1, <3>1, <3>2, <1>5, <1>6, PushList
    <3>4. IsList(Push("drain", Push("disableAgain", t)))
      BY <2>1, <3>1, <3>2, <3>3, <1>5, <1>6, PushList
    <3> QED
      BY <3>1, <3>2, <3>3, <3>4
  <2>3. /\ ~Rises(todo') /\ ~HasWriting(todo') /\ ~HasWrite(todo') /\ ~HasRefresh(todo')
        /\ ~HasLanded(todo')
        /\ HasStart(todo') => HasStart(t)
        /\ HasBegin(todo') => HasBegin(t)
        /\ HasEnd(todo') => HasEnd(onError) \/ HasEnd(t)
        /\ HasAgain(todo') => HasAgain(t)
        /\ HasServiceClear(todo') => HasServiceClear(t)
    <3>1. CASE todo' = t
      BY <2>1, <2>2, <3>1, PushAdds, <1>5
    <3>2. CASE todo' = onError
      BY <2>1, <2>2, <3>2, PushAdds, <1>6
    <3>3. CASE todo' = Push("drain", Push("disable", t))
      BY <2>1, <2>2, <3>3, PushAdds, <1>5
    <3>4. CASE todo' = Push("drain", Push("disableAgain", t))
      BY <2>1, <2>2, <3>4, PushAdds, <1>5
    <3> QED
      BY <1>1, <3>1, <3>2, <3>3, <3>4
  <2>4. /\ AppliesFirst(todo') /\ WritesFirst(todo') /\ WritesSecond(todo')
        /\ StopsFirst(t) => StopsFirst(todo')
        /\ UnguardsExits(onError) /\ UnguardsExits(t) => UnguardsExits(todo')
        /\ Drains(t) => Drains(todo')
        /\ Waits(t) => Waits(todo')
        /\ Invalidates(onError) /\ Invalidates(t) => Invalidates(todo')
    <3>1. CASE todo' = t
      BY <2>1, <2>2, <3>1, PushOrders, PushAdds, <1>5
    <3>2. CASE todo' = onError
      BY <2>1, <2>2, <3>2, PushOrders, PushAdds, <1>6
    <3>3. CASE todo' = Push("drain", Push("disable", t))
      BY <2>1, <2>2, <3>3, PushOrders, PushAdds, <1>5
    <3>4. CASE todo' = Push("drain", Push("disableAgain", t))
      BY <2>1, <2>2, <3>4, PushOrders, PushAdds, <1>5
    <3> QED
      BY <1>1, <3>1, <3>2, <3>3, <3>4
  <2>5. /\ IsList(todo') /\ StartsLast(todo') /\ RefreshesLast(todo') /\ LandsLast(todo')
    <3>1. CASE todo' = t
      BY <2>1, <2>2, <3>1, PushAdds, PushEnds, <1>5
    <3>2. CASE todo' = onError
      BY <2>1, <2>2, <3>2, PushAdds, PushEnds, <1>6
    <3>3. CASE todo' = Push("drain", Push("disable", t))
      BY <2>1, <2>2, <3>3, PushAdds, PushEnds, <1>5
    <3>4. CASE todo' = Push("drain", Push("disableAgain", t))
      BY <2>1, <2>2, <3>4, PushAdds, PushEnds, <1>5
    <3> QED
      BY <1>1, <3>1, <3>2, <3>3, <3>4
  <2> QED
    BY <2>3, <2>4, <2>5
<1>8. /\ Falls(todo) /\ HasLocal(todo) /\ ~UnguardsClears(todo) /\ ~Drains(todo)
      /\ ~Waits(todo) /\ ~InvalidatesClears(todo)
      /\ HasStart(t) => HasStart(todo)
      /\ HasBegin(t) => HasBegin(todo)
      /\ HasEnd(t) => HasEnd(todo)
      /\ HasAgain(t) => HasAgain(todo)
      /\ HasServiceClear(t) => HasServiceClear(todo)
      /\ StopsFirst(todo) => StopsFirst(t)
      /\ UnguardsExits(todo) => UnguardsExits(t)
      /\ Invalidates(todo) => Invalidates(t)
  <2>1. "disable" \in Steps /\ "disableAgain" \in Steps /\ IsList(t)
    BY <1>1
  <2>2. CASE todo = Push("disable", t)
    BY <2>1, <2>2, PushAdds, PushOrders, <1>5
  <2>3. CASE todo = Push("disableAgain", t)
    BY <2>1, <2>3, PushAdds, PushOrders, <1>5
  <2> QED
    BY <1>1, <2>2, <2>3
<1>9. ListsOK'
  BY <1>1, <1>7, <1>8, <1>4, <1>3, NoHandler DEF IInv, ListsOK, Bare
<1>10. ModeOK'
  BY <1>1, <1>7, <1>8, <1>4, <1>3, NoHandler
     DEF IInv, ModeOK, SessionIsServices, SessionIsOld, DeadIsSidecar, RefreshHasACore, Bare,
         WritesAreLocal, Route, EndsNoService, StartsFromNone, Disable, DisableAll, TurnedOff,
         CanReach
<1>11. GuardOK'
  BY <1>1, <1>7, <1>8, <1>4, <1>3, NoHandler
     DEF IInv, GuardOK, GuardIsLocal, Route, RestartIsLocal, Bare, ExitsUnguarded, DropsUnguarded,
         WritesUnguarded, ServiceUnguarded, WritesAreQuiet, NoLateWrite, LandsQuietly,
         GuardKnowsLanded, Disable, DisableAll, TurnedOff, CanReach
<1>12. LoopOK'
  BY <1>1, <1>7, <1>8, <1>4, <1>3, NoHandler
     DEF IInv, LoopOK, LoopsAreSound, Current, OneIsCurrent, InvalidatedBefore, NoCurrent, Bare,
         DropsInvalidated, StartsAreNew, WarnedIsGone, Disable, DisableAll, TurnedOff, CanReach
<1>13. OffOK'
  <2>1. OffIsQuiet'
    BY <1>1, <1>7, <1>8, <1>4, <1>3
       DEF IInv, OffOK, OffIsQuiet, NobodyWrites, NoCurrent, Current, Disable, DisableAll,
           TurnedOff, CanReach, Bare, WritesTheGoal, RefreshIsAsked, GuardOK, WritesUnguarded,
           WritesAreQuiet, NoLateWrite, LoopOK, InvalidatedBefore, LoopsAreSound, ModeOK,
           SessionIsServices, WritesAreLocal, Route, LandsQuietly, ServiceUnguarded
  <2>2. WritesTheGoal'
    BY <1>1, <1>7, <1>8, <1>4, <1>3
       DEF IInv, OffOK, WritesTheGoal, Disable, DisableAll, TurnedOff, CanReach, Bare
  <2>3. RefreshIsAsked'
    BY <1>1, <1>7, <1>8, <1>4, <1>3
       DEF IInv, OffOK, RefreshIsAsked, Disable, DisableAll, TurnedOff, CanReach, Bare
  <2>4. SysGoesOff'
    BY <1>1, <1>7, <1>8, <1>4, <1>3
       DEF IInv, OffOK, SysGoesOff, ToldOff, Disable, DisableAll, TurnedOff, CanReach, Bare
  <2>5. PacGoesOff'
    BY <1>1, <1>7, <1>8, <1>4, <1>3
       DEF IInv, OffOK, PacGoesOff, ToldOff, Disable, DisableAll, TurnedOff, CanReach, Bare
  <2> QED
    BY <2>1, <2>2, <2>3, <2>4, <2>5 DEF OffOK
<1> QED
  BY <1>2, <1>9, <1>10, <1>11, <1>12, <1>13 DEF IInv

LEMMA ServiceClearKeeps ==
  ASSUME IInv, ServiceClear
  PROVE  IInv'
<1> DEFINE t == Tail(todo)
<1>1. /\ IsList(t)
      /\ todo = Push("serviceClear", t)
      /\ \/ todo' = t /\ onError' = onError
         \/ todo' = onError /\ onError' = Nothing
         \/ todo' = Push("invalidate", Push("serviceClear", t)) /\ onError' = onError
      /\ "serviceClear" \in Steps /\ "invalidate" \in Steps
  <2>1. "serviceClear" \in Steps /\ "invalidate" \in Steps
    BY DEF Steps
  <2>2. IsList(t) /\ (todo = Push("serviceClear", t))
    BY HeadIs DEF IInv, ListsOK, ServiceClear
  <2>3. \/ todo' = <<>> \o t /\ onError' = onError
        \/ todo' = onError /\ onError' = Nothing
        \/ todo' = <<"invalidate", "serviceClear">> \o t /\ onError' = onError
    BY <2>1, <2>2, HeadIs DEF IInv, ListsOK, ServiceClear, Then, Done, Fail, ServiceReset, Nothing
  <2> HIDE DEF t
  <2>4. /\ <<>> \o t = t
        /\ <<"invalidate", "serviceClear">> \o t = Push("invalidate", Push("serviceClear", t))
    <3>1. IsList(onError)
      BY HandlersAre DEF IInv, ListsOK, Bare
    <3>2. <<>> \o t = t
      BY <2>2, <3>1, NothingConcat
    <3>3. <<"invalidate", "serviceClear">> \o t = Push("invalidate", Push("serviceClear", t))
      <4>1. "invalidate" \in Steps /\ "serviceClear" \in Steps
        BY <2>1
      <4> QED
        BY <4>1, <2>2, <3>1, PushTwo
    <3> QED
      BY <3>2, <3>3
  <2> QED
    BY <2>1, <2>2, <2>3, <2>4, NothingStands, Zenon
<1> HIDE DEF t
<1>2. TypeOK'
  BY DEF IInv, TypeOK, ServiceClear, Settings, OperationLockFree, NoLoopCalls
<1>3. /\ Bare(onError) /\ ~Rises(onError)
      /\ onError = Dropping \/ (UnguardsExits(onError) /\ Invalidates(onError))
      /\ onError \in Undoing \/ ~HasEnd(onError)
      /\ Nothing \notin Undoing /\ Nothing # Dropping
  BY HandlersAre, NoHandler DEF IInv, ListsOK, Bare
<1>4. /\ ~Rises(t)
      /\ StartsLast(t) /\ RefreshesLast(t) /\ LandsLast(t)
  BY <1>1, Behind DEF IInv
<1>5. /\ StartsLast(t) /\ RefreshesLast(t) /\ LandsLast(t) /\ ~HasWriting(t) /\ ~HasWrite(t)
      /\ ~HasRefresh(t) /\ ~HasLanded(t) /\ AppliesFirst(t) /\ WritesFirst(t) /\ WritesSecond(t)
      /\ ~Rises(t)
  BY <1>1, <1>4, NotUp
<1>6. /\ ~Rises(onError) /\ ~HasStart(onError) /\ ~HasBegin(onError) /\ ~HasLocal(onError)
      /\ ~HasAgain(onError) /\ ~HasServiceClear(onError) /\ ~HasLanded(onError)
      /\ StopsFirst(onError) /\ UnguardsClears(onError) /\ Drains(onError) /\ Waits(onError)
      /\ InvalidatesClears(onError) /\ StartsLast(onError) /\ RefreshesLast(onError)
      /\ LandsLast(onError) /\ ~HasWriting(onError) /\ ~HasWrite(onError)
      /\ ~HasRefresh(onError) /\ AppliesFirst(onError) /\ WritesFirst(onError)
      /\ WritesSecond(onError) /\ IsList(onError)
  BY <1>3, NotUp DEF Bare
<1>7. /\ ~Rises(todo') /\ ~HasWriting(todo') /\ ~HasWrite(todo') /\ ~HasRefresh(todo')
      /\ ~HasLanded(todo')
      /\ HasStart(todo') => HasStart(t)
      /\ HasBegin(todo') => HasBegin(t)
      /\ HasEnd(todo') => HasEnd(onError) \/ HasEnd(t)
      /\ HasLocal(todo') => HasLocal(t)
      /\ HasAgain(todo') => HasAgain(t)
      /\ AppliesFirst(todo') /\ WritesFirst(todo') /\ WritesSecond(todo')
      /\ StopsFirst(t) => StopsFirst(todo')
      /\ UnguardsExits(onError) /\ UnguardsExits(t) => UnguardsExits(todo')
      /\ Drains(t) => Drains(todo')
      /\ Waits(t) => Waits(todo')
      /\ Invalidates(onError) /\ Invalidates(t) => Invalidates(todo')
      /\ IsList(todo') /\ StartsLast(todo') /\ RefreshesLast(todo') /\ LandsLast(todo')
  <2>1. "serviceClear" \in Steps /\ "invalidate" \in Steps /\ IsList(t)
    BY <1>1
  <2>2. /\ IsList(Push("serviceClear", t))
        /\ IsList(Push("invalidate", Push("serviceClear", t)))
    <3>1. IsList(Push("serviceClear", t))
      BY <2>1, <1>5, <1>6, PushList
    <3>2. IsList(Push("invalidate", Push("serviceClear", t)))
      BY <2>1, <3>1, <1>5, <1>6, PushList
    <3> QED
      BY <3>1, <3>2
  <2>3. /\ ~Rises(todo') /\ ~HasWriting(todo') /\ ~HasWrite(todo') /\ ~HasRefresh(todo')
        /\ ~HasLanded(todo')
        /\ HasStart(todo') => HasStart(t)
        /\ HasBegin(todo') => HasBegin(t)
        /\ HasEnd(todo') => HasEnd(onError) \/ HasEnd(t)
        /\ HasLocal(todo') => HasLocal(t)
        /\ HasAgain(todo') => HasAgain(t)
    <3>1. CASE todo' = t
      BY <2>1, <2>2, <3>1, PushAdds, <1>5
    <3>2. CASE todo' = onError
      BY <2>1, <2>2, <3>2, PushAdds, <1>6
    <3>3. CASE todo' = Push("invalidate", Push("serviceClear", t))
      BY <2>1, <2>2, <3>3, PushAdds, <1>5
    <3> QED
      BY <1>1, <3>1, <3>2, <3>3
  <2>4. /\ AppliesFirst(todo') /\ WritesFirst(todo') /\ WritesSecond(todo')
        /\ StopsFirst(t) => StopsFirst(todo')
        /\ UnguardsExits(onError) /\ UnguardsExits(t) => UnguardsExits(todo')
        /\ Drains(t) => Drains(todo')
        /\ Waits(t) => Waits(todo')
        /\ Invalidates(onError) /\ Invalidates(t) => Invalidates(todo')
    <3>1. CASE todo' = t
      BY <2>1, <2>2, <3>1, PushOrders, PushAdds, <1>5
    <3>2. CASE todo' = onError
      BY <2>1, <2>2, <3>2, PushOrders, PushAdds, <1>6
    <3>3. CASE todo' = Push("invalidate", Push("serviceClear", t))
      BY <2>1, <2>2, <3>3, PushOrders, PushAdds, <1>5
    <3> QED
      BY <1>1, <3>1, <3>2, <3>3
  <2>5. /\ IsList(todo') /\ StartsLast(todo') /\ RefreshesLast(todo') /\ LandsLast(todo')
    <3>1. CASE todo' = t
      BY <2>1, <2>2, <3>1, PushAdds, PushEnds, <1>5
    <3>2. CASE todo' = onError
      BY <2>1, <2>2, <3>2, PushAdds, PushEnds, <1>6
    <3>3. CASE todo' = Push("invalidate", Push("serviceClear", t))
      BY <2>1, <2>2, <3>3, PushAdds, PushEnds, <1>5
    <3> QED
      BY <1>1, <3>1, <3>2, <3>3
  <2> QED
    BY <2>3, <2>4, <2>5
<1>8. /\ Falls(todo) /\ HasServiceClear(todo) /\ ~UnguardsClears(todo) /\ ~Invalidates(todo)
      /\ ~InvalidatesClears(todo)
      /\ HasStart(t) => HasStart(todo)
      /\ HasBegin(t) => HasBegin(todo)
      /\ HasEnd(t) => HasEnd(todo)
      /\ HasLocal(t) => HasLocal(todo)
      /\ HasAgain(t) => HasAgain(todo)
      /\ StopsFirst(todo) => StopsFirst(t)
      /\ UnguardsExits(todo) => UnguardsExits(t)
      /\ Drains(todo) => Drains(t)
      /\ Waits(todo) => Waits(t)
  <2>1. "serviceClear" \in Steps /\ IsList(t)
    BY <1>1
  <2>2. todo = Push("serviceClear", t)
    BY <1>1
  <2> QED
    BY <2>1, <2>2, PushAdds, PushOrders, <1>5
<1>9. ListsOK'
  BY <1>1, <1>7, <1>8, <1>4, <1>3, NoHandler DEF IInv, ListsOK, Bare
<1>10. ModeOK'
  BY <1>1, <1>7, <1>8, <1>4, <1>3, NoHandler
     DEF IInv, ModeOK, SessionIsServices, SessionIsOld, DeadIsSidecar, RefreshHasACore, Bare,
         WritesAreLocal, Route, EndsNoService, StartsFromNone, ServiceClear, OperationLockFree,
         NoLoopCalls
<1>11. GuardOK'
  BY <1>1, <1>7, <1>8, <1>4, <1>3, NoHandler
     DEF IInv, GuardOK, GuardIsLocal, Route, RestartIsLocal, Bare, ExitsUnguarded, DropsUnguarded,
         WritesUnguarded, ServiceUnguarded, WritesAreQuiet, NoLateWrite, LandsQuietly,
         GuardKnowsLanded, ServiceClear, OperationLockFree, NoLoopCalls
<1>12. LoopOK'
  BY <1>1, <1>7, <1>8, <1>4, <1>3, NoHandler
     DEF IInv, LoopOK, LoopsAreSound, Current, OneIsCurrent, InvalidatedBefore, NoCurrent, Bare,
         DropsInvalidated, StartsAreNew, WarnedIsGone, ServiceClear, OperationLockFree, NoLoopCalls
<1>13. OffOK'
  <2>1. OffIsQuiet'
    <3>1. ~guardOn /\ NoCurrent /\ \A l \in loops : l.phase # "calls"
      BY <1>8
         DEF IInv, GuardOK, ServiceUnguarded, LoopOK, InvalidatedBefore, ServiceClear,
             OperationLockFree, NoLoopCalls
    <3> QED
      BY <3>1 DEF IInv, OffOK, OffIsQuiet, NobodyWrites, ServiceClear, NoCurrent, Current
  <2>2. WritesTheGoal'
    BY <1>1, <1>7, <1>8, <1>4, <1>3
       DEF IInv, OffOK, WritesTheGoal, ServiceClear, OperationLockFree, NoLoopCalls, Bare
  <2>3. RefreshIsAsked'
    BY <1>1, <1>7, <1>8, <1>4, <1>3
       DEF IInv, OffOK, RefreshIsAsked, ServiceClear, OperationLockFree, NoLoopCalls, Bare
  <2>4. SysGoesOff'
    BY <1>1, <1>7, <1>8, <1>4, <1>3
       DEF IInv, OffOK, SysGoesOff, ToldOff, ServiceClear, OperationLockFree, NoLoopCalls, Bare
  <2>5. PacGoesOff'
    BY <1>1, <1>7, <1>8, <1>4, <1>3
       DEF IInv, OffOK, PacGoesOff, ToldOff, ServiceClear, OperationLockFree, NoLoopCalls, Bare
  <2> QED
    BY <2>1, <2>2, <2>3, <2>4, <2>5 DEF OffOK
<1> QED
  BY <1>2, <1>9, <1>10, <1>11, <1>12, <1>13 DEF IInv

LEMMA CaptureKeeps ==
  ASSUME IInv, Capture
  PROVE  IInv'
<1> DEFINE t == Tail(todo)
<1>1. /\ IsList(t)
      /\ todo = Push("capture", t)
      /\ \/ todo' = onError /\ onError' = Nothing
         \/ todo'
              = Push("apply", Push("check", Push("stopGuard", Push("refresh", Push("check", t)))))
              /\ onError' = onError /\ mode # "none"
      /\ "capture" \in Steps /\ "apply" \in Steps /\ "check" \in Steps /\ "stopGuard" \in Steps
           /\ "refresh" \in Steps
  <2>1. "capture" \in Steps /\ "apply" \in Steps /\ "check" \in Steps /\ "stopGuard" \in Steps
          /\ "refresh" \in Steps
    BY DEF Steps
  <2>2. IsList(t) /\ (todo = Push("capture", t))
    BY HeadIs DEF IInv, ListsOK, Capture
  <2>3. \/ todo' = onError /\ onError' = Nothing
        \/ todo' = (<<"apply", "check">> \o <<"stopGuard", "refresh">> \o <<"check">>) \o t
             /\ onError' = onError /\ mode # "none"
    BY <2>1, <2>2, HeadIs DEF IInv, ListsOK, Capture, Then, Fail, RefreshGuard, Nothing
  <2> HIDE DEF t
  <2>4. /\ (<<"apply", "check">> \o <<"stopGuard", "refresh">> \o <<"check">>) \o t
             = Push("apply", Push("check", Push("stopGuard", Push("refresh", Push("check", t)))))
    <3>1. IsList(onError)
      BY HandlersAre DEF IInv, ListsOK, Bare
    <3>2. (<<"apply", "check">> \o <<"stopGuard", "refresh">> \o <<"check">>) \o t
            = Push("apply", Push("check", Push("stopGuard", Push("refresh", Push("check", t)))))
      <4>1. "apply" \in Steps /\ "check" \in Steps /\ "stopGuard" \in Steps /\ "refresh" \in Steps
              /\ "check" \in Steps
        BY <2>1
      <4> QED
        BY <4>1, <2>2, <3>1, TwoTwoOne
    <3> QED
      BY <3>2
  <2> QED
    BY <2>1, <2>2, <2>3, <2>4, NothingStands, Zenon
<1> HIDE DEF t
<1>2. TypeOK'
  BY DEF IInv, TypeOK, Capture, Settings
<1>3. /\ Bare(onError) /\ ~Rises(onError)
      /\ onError = Dropping \/ (UnguardsExits(onError) /\ Invalidates(onError))
      /\ onError \in Undoing \/ ~HasEnd(onError)
      /\ Nothing \notin Undoing /\ Nothing # Dropping
  BY HandlersAre, NoHandler DEF IInv, ListsOK, Bare
<1>4. /\ ~Falls(t)
      /\ ~HasLanded(t)
      /\ ~HasAgain(t)
      /\ onError # Dropping
      /\ StartsLast(t) /\ RefreshesLast(t) /\ LandsLast(t)
  BY <1>1, Behind DEF IInv
<1>5. /\ StartsLast(t) /\ RefreshesLast(t) /\ LandsLast(t) /\ ~Falls(t) /\ ~HasStart(t)
      /\ ~HasBegin(t) /\ ~HasEnd(t) /\ ~HasServiceClear(t) /\ StopsFirst(t) /\ UnguardsExits(t)
      /\ UnguardsClears(t) /\ InvalidatesClears(t) /\ ~HasAgain(t) /\ ~HasWriting(t)
      /\ ~HasWrite(t) /\ ~HasRefresh(t) /\ ~HasLanded(t) /\ AppliesFirst(t) /\ WritesFirst(t)
      /\ WritesSecond(t) /\ Drains(t) /\ Waits(t) /\ Invalidates(t)
  BY <1>1, <1>4, NotDown, NotLanded, NotAgain
<1>6. /\ ~Rises(onError) /\ ~HasStart(onError) /\ ~HasBegin(onError) /\ ~HasLocal(onError)
      /\ ~HasAgain(onError) /\ ~HasServiceClear(onError) /\ ~HasLanded(onError)
      /\ StopsFirst(onError) /\ UnguardsClears(onError) /\ Drains(onError) /\ Waits(onError)
      /\ InvalidatesClears(onError) /\ StartsLast(onError) /\ RefreshesLast(onError)
      /\ LandsLast(onError) /\ ~HasWriting(onError) /\ ~HasWrite(onError)
      /\ ~HasRefresh(onError) /\ AppliesFirst(onError) /\ WritesFirst(onError)
      /\ WritesSecond(onError) /\ IsList(onError)
  BY <1>3, NotUp DEF Bare
<1>7. /\ ~HasStart(todo') /\ ~HasBegin(todo') /\ ~HasWriting(todo') /\ ~HasWrite(todo')
      /\ ~HasServiceClear(todo') /\ ~HasLanded(todo')
      /\ Rises(todo') => mode # "none"
      /\ Falls(todo') => Falls(onError)
      /\ HasEnd(todo') => HasEnd(onError)
      /\ HasLocal(todo') => HasLocal(t)
      /\ HasAgain(todo') => mode # "none"
      /\ HasRefresh(todo') => mode # "none"
      /\ ~Rises(todo') \/ ~Falls(todo')
      /\ StopsFirst(todo') /\ UnguardsClears(todo') /\ Drains(todo') /\ Waits(todo')
      /\ InvalidatesClears(todo') /\ AppliesFirst(todo') /\ WritesFirst(todo')
      /\ WritesSecond(todo')
      /\ UnguardsExits(onError) => UnguardsExits(todo')
      /\ Invalidates(onError) => Invalidates(todo')
      /\ IsList(todo') /\ StartsLast(todo') /\ RefreshesLast(todo') /\ LandsLast(todo')
  <2>1. "capture" \in Steps /\ "apply" \in Steps /\ "check" \in Steps /\ "stopGuard" \in Steps
          /\ "refresh" \in Steps /\ IsList(t)
    BY <1>1
  <2>2. /\ IsList(Push("check", t)) /\ IsList(Push("refresh", Push("check", t)))
        /\ IsList(Push("stopGuard", Push("refresh", Push("check", t))))
        /\ IsList(Push("check", Push("stopGuard", Push("refresh", Push("check", t)))))
        /\ IsList(Push("apply", Push("check", Push("stopGuard", Push("refresh", Push("check", t))))))
    <3>1. IsList(Push("check", t))
      BY <2>1, <1>6, <1>5, PushList
    <3>2. IsList(Push("refresh", Push("check", t)))
      BY <2>1, <3>1, <1>6, <1>5, PushList
    <3>3. IsList(Push("stopGuard", Push("refresh", Push("check", t))))
      BY <2>1, <3>1, <3>2, <1>6, <1>5, PushList
    <3>4. IsList(Push("check", Push("stopGuard", Push("refresh", Push("check", t)))))
      BY <2>1, <3>1, <3>2, <3>3, <1>6, <1>5, PushList
    <3>5. IsList(Push("apply", Push("check", Push("stopGuard", Push("refresh", Push("check", t))))))
      BY <2>1, <3>1, <3>2, <3>3, <3>4, <1>6, <1>5, PushList
    <3> QED
      BY <3>1, <3>2, <3>3, <3>4, <3>5
  <2>3. /\ ~HasStart(todo') /\ ~HasBegin(todo') /\ ~HasWriting(todo') /\ ~HasWrite(todo')
        /\ ~HasServiceClear(todo') /\ ~HasLanded(todo')
        /\ Rises(todo') => mode # "none"
        /\ Falls(todo') => Falls(onError)
        /\ HasEnd(todo') => HasEnd(onError)
        /\ HasLocal(todo') => HasLocal(t)
        /\ HasAgain(todo') => mode # "none"
        /\ HasRefresh(todo') => mode # "none"
        /\ ~Rises(todo') \/ ~Falls(todo')
    <3>1. CASE todo' = onError
      BY <2>1, <2>2, <3>1, PushAdds, <1>6
    <3>2. CASE todo'
                 = Push("apply", Push("check", Push("stopGuard", Push("refresh", Push("check", t)))))
                 /\ mode # "none"
      BY <2>1, <2>2, <3>2, PushAdds, <1>5
    <3> QED
      BY <1>1, <3>1, <3>2
  <2>4. /\ StopsFirst(todo') /\ UnguardsClears(todo') /\ Drains(todo') /\ Waits(todo')
        /\ InvalidatesClears(todo') /\ AppliesFirst(todo') /\ WritesFirst(todo')
        /\ WritesSecond(todo')
        /\ UnguardsExits(onError) => UnguardsExits(todo')
        /\ Invalidates(onError) => Invalidates(todo')
    <3>1. CASE todo' = onError
      BY <2>1, <2>2, <3>1, PushOrders, PushAdds, <1>6
    <3>2. CASE todo'
                 = Push("apply", Push("check", Push("stopGuard", Push("refresh", Push("check", t)))))
                 /\ mode # "none"
      BY <2>1, <2>2, <3>2, PushOrders, PushAdds, <1>5
    <3> QED
      BY <1>1, <3>1, <3>2
  <2>5. /\ IsList(todo') /\ StartsLast(todo') /\ RefreshesLast(todo') /\ LandsLast(todo')
    <3>1. CASE todo' = onError
      BY <2>1, <2>2, <3>1, PushAdds, PushEnds, <1>6
    <3>2. CASE todo'
                 = Push("apply", Push("check", Push("stopGuard", Push("refresh", Push("check", t)))))
                 /\ mode # "none"
      BY <2>1, <2>2, <3>2, PushAdds, PushEnds, <1>5
    <3> QED
      BY <1>1, <3>1, <3>2
  <2> QED
    BY <2>3, <2>4, <2>5
<1>8. /\ Rises(todo)
      /\ HasLocal(t) => HasLocal(todo)
  <2>1. "capture" \in Steps /\ IsList(t)
    BY <1>1
  <2>2. todo = Push("capture", t)
    BY <1>1
  <2> QED
    BY <2>1, <2>2, PushAdds, PushOrders, <1>5
<1>9. ListsOK'
  <2>1. IsList(todo') /\ onError' \in Handlers
    BY <1>1, <1>7, NoHandler DEF IInv, ListsOK
  <2>2. ~(Rises(todo') /\ Falls(todo')) /\ StartsLast(todo') /\ RefreshesLast(todo')
          /\ LandsLast(todo')
    BY <1>7
  <2>3. Rises(todo) /\ onError \in {Nothing, Undo} /\ (Rises(todo') => onError' \in {Nothing, Undo})
    BY <1>1, <1>8, <1>3 DEF IInv, ListsOK
  <2>4. (HasStart(todo') => onError' = Nothing) /\ (HasBegin(todo') => onError' \in {Nothing, Undo})
    BY <1>7, <2>3, <1>1, <1>6
  <2> QED
    BY <2>1, <2>2, <2>3, <2>4 DEF ListsOK
<1>10. ModeOK'
  BY <1>1, <1>7, <1>8, <1>4, <1>3, NoHandler
     DEF IInv, ModeOK, SessionIsServices, SessionIsOld, DeadIsSidecar, RefreshHasACore, Bare,
         WritesAreLocal, Route, EndsNoService, StartsFromNone, Capture
<1>11. GuardOK'
  BY <1>1, <1>7, <1>8, <1>4, <1>3, NoHandler
     DEF IInv, GuardOK, GuardIsLocal, Route, RestartIsLocal, Bare, ExitsUnguarded, DropsUnguarded,
         WritesUnguarded, ServiceUnguarded, WritesAreQuiet, NoLateWrite, LandsQuietly,
         GuardKnowsLanded, Capture
<1>12. LoopOK'
  BY <1>1, <1>7, <1>8, <1>4, <1>3, NoHandler
     DEF IInv, LoopOK, LoopsAreSound, Current, OneIsCurrent, InvalidatedBefore, NoCurrent, Bare,
         DropsInvalidated, StartsAreNew, WarnedIsGone, Capture
<1>13. OffOK'
  BY <1>1, <1>7, <1>8, <1>4, <1>3
     DEF IInv, OffOK, OffIsQuiet, NobodyWrites, NoCurrent, Current, WritesTheGoal, Bare,
         RefreshIsAsked, SysGoesOff, ToldOff, PacGoesOff, Capture
<1> QED
  BY <1>2, <1>9, <1>10, <1>11, <1>12, <1>13 DEF IInv

LEMMA LeaveToTheWatchKeeps ==
  ASSUME IInv, LeaveToTheWatch
  PROVE  IInv'
<1> DEFINE t == Tail(todo)
<1>1. /\ IsList(t)
      /\ todo = Push("capture", t)
      /\ todo' = t /\ onError' = onError
      /\ "capture" \in Steps
  <2>1. "capture" \in Steps
    BY DEF Steps
  <2>2. IsList(t) /\ (todo = Push("capture", t))
    BY HeadIs DEF IInv, ListsOK, LeaveToTheWatch
  <2> QED
    BY <2>1, <2>2, HeadIs, NothingStands, PushOne, PushTwo, PushThree, PushAdds
       DEF IInv, ListsOK, LeaveToTheWatch, Done, Then
<1> HIDE DEF t
<1>2. TypeOK'
  BY DEF IInv, TypeOK, LeaveToTheWatch, Settings
<1>3. /\ ~Falls(t)
      /\ ~HasLanded(t)
      /\ ~HasAgain(t)
      /\ StartsLast(t) /\ RefreshesLast(t) /\ LandsLast(t)
  BY <1>1, Behind DEF IInv
<1>4. ListsOK'
  BY <1>1, ListsPop DEF IInv
<1>5. ModeOK'
  BY <1>1, PushAdds, <1>3, NotDown, NotLanded, NotAgain, NoHandler, PushOrders
     DEF IInv, ModeOK, SessionIsServices, SessionIsOld, DeadIsSidecar, RefreshHasACore,
         WritesAreLocal, Route, EndsNoService, StartsFromNone, LeaveToTheWatch
<1>6. GuardOK'
  BY <1>1, PushAdds, <1>3, NotDown, NotLanded, NotAgain, PushOrders, NoHandler
     DEF IInv, GuardOK, GuardIsLocal, Route, RestartIsLocal, ExitsUnguarded, DropsUnguarded,
         WritesUnguarded, ServiceUnguarded, WritesAreQuiet, NoLateWrite, LandsQuietly,
         GuardKnowsLanded, LeaveToTheWatch
<1>7. LoopOK'
  BY <1>1, PushOrders, <1>3, NotDown, NotLanded, NotAgain, NoHandler, PushAdds
     DEF IInv, LoopOK, LoopsAreSound, Current, OneIsCurrent, InvalidatedBefore, NoCurrent,
         DropsInvalidated, StartsAreNew, WarnedIsGone, LeaveToTheWatch
<1>8. OffOK'
  BY <1>1, PushAdds, <1>3, NotDown, NotLanded, NotAgain, PushOrders
     DEF IInv, OffOK, OffIsQuiet, NobodyWrites, NoCurrent, Current, WritesTheGoal, RefreshIsAsked,
         SysGoesOff, ToldOff, PacGoesOff, LeaveToTheWatch
<1> QED
  BY <1>2, <1>4, <1>5, <1>6, <1>7, <1>8 DEF IInv

LEMMA CheckKeeps ==
  ASSUME IInv, Check
  PROVE  IInv'
<1> DEFINE t == Tail(todo)
<1>1. /\ IsList(t)
      /\ todo = Push("check", t)
      /\ \/ todo' = t /\ onError' = onError
         \/ todo' = Push("clear", Push("stopGuard", onError))
              /\ onError' = <<"stopGuard">> \o onError
      /\ "check" \in Steps /\ "clear" \in Steps /\ "stopGuard" \in Steps
  <2>1. "check" \in Steps /\ "clear" \in Steps /\ "stopGuard" \in Steps
    BY DEF Steps
  <2>2. IsList(t) /\ (todo = Push("check", t))
    BY HeadIs DEF IInv, ListsOK, Check
  <2>3. \/ todo' = <<>> \o t /\ onError' = onError
        \/ todo' = <<"clear", "stopGuard">> \o onError /\ onError' = <<"stopGuard">> \o onError
    BY <2>1, <2>2, HeadIs DEF IInv, ListsOK, Check, Then, Done
  <2> HIDE DEF t
  <2>4. /\ <<>> \o t = t
        /\ <<"clear", "stopGuard">> \o onError = Push("clear", Push("stopGuard", onError))
    <3>1. IsList(onError)
      BY HandlersAre DEF IInv, ListsOK, Bare
    <3>2. <<>> \o t = t
      BY <2>2, <3>1, NothingConcat
    <3>3. <<"clear", "stopGuard">> \o onError = Push("clear", Push("stopGuard", onError))
      <4>1. "clear" \in Steps /\ "stopGuard" \in Steps
        BY <2>1
      <4> QED
        BY <4>1, <2>2, <3>1, PushTwo
    <3> QED
      BY <3>2, <3>3
  <2> QED
    BY <2>1, <2>2, <2>3, <2>4, NothingStands, Zenon
<1> HIDE DEF t
<1>2. TypeOK'
  BY DEF IInv, TypeOK, Check, Settings
<1>3. /\ Bare(onError) /\ ~Rises(onError)
      /\ onError = Dropping \/ (UnguardsExits(onError) /\ Invalidates(onError))
      /\ onError \in Undoing \/ ~HasEnd(onError)
      /\ Nothing \notin Undoing /\ Nothing # Dropping
  BY HandlersAre, NoHandler DEF IInv, ListsOK, Bare
<1>4. /\ ~Falls(t)
      /\ onError # Dropping
      /\ StartsLast(t) /\ RefreshesLast(t) /\ LandsLast(t)
  BY <1>1, Behind DEF IInv
<1>5. /\ StartsLast(t) /\ RefreshesLast(t) /\ LandsLast(t) /\ ~Falls(t) /\ ~HasStart(t)
      /\ ~HasBegin(t) /\ ~HasEnd(t) /\ ~HasServiceClear(t) /\ StopsFirst(t) /\ UnguardsExits(t)
      /\ UnguardsClears(t) /\ InvalidatesClears(t)
  BY <1>1, <1>4, NotDown
<1>6. /\ ~Rises(onError) /\ ~HasStart(onError) /\ ~HasBegin(onError) /\ ~HasLocal(onError)
      /\ ~HasAgain(onError) /\ ~HasServiceClear(onError) /\ ~HasLanded(onError)
      /\ StopsFirst(onError) /\ UnguardsClears(onError) /\ Drains(onError) /\ Waits(onError)
      /\ InvalidatesClears(onError) /\ StartsLast(onError) /\ RefreshesLast(onError)
      /\ LandsLast(onError) /\ ~HasWriting(onError) /\ ~HasWrite(onError)
      /\ ~HasRefresh(onError) /\ AppliesFirst(onError) /\ WritesFirst(onError)
      /\ WritesSecond(onError) /\ IsList(onError)
  BY <1>3, NotUp DEF Bare
<1>7. /\ ~HasStart(todo') /\ ~HasBegin(todo') /\ ~HasServiceClear(todo')
      /\ Rises(todo') => Rises(t)
      /\ HasEnd(todo') => HasEnd(onError)
      /\ HasWriting(todo') => HasWriting(t)
      /\ HasLocal(todo') => HasLocal(t)
      /\ HasWrite(todo') => HasWrite(t)
      /\ HasAgain(todo') => HasAgain(t)
      /\ HasRefresh(todo') => HasRefresh(t)
      /\ HasLanded(todo') => HasLanded(t)
      /\ StopsFirst(todo') /\ UnguardsExits(todo')
      /\ Drains(t) => Drains(todo')
      /\ Waits(t) => Waits(todo')
      /\ Invalidates(t) => Invalidates(todo')
      /\ AppliesFirst(t) => AppliesFirst(todo')
      /\ WritesFirst(t) => WritesFirst(todo')
      /\ WritesSecond(t) => WritesSecond(todo')
      /\ IsList(todo') /\ StartsLast(todo') /\ RefreshesLast(todo') /\ LandsLast(todo')
  <2>1. "check" \in Steps /\ "clear" \in Steps /\ "stopGuard" \in Steps /\ IsList(t)
    BY <1>1
  <2>2. /\ IsList(Push("stopGuard", onError))
        /\ IsList(Push("clear", Push("stopGuard", onError)))
    <3>1. IsList(Push("stopGuard", onError))
      BY <2>1, <1>5, <1>6, PushList
    <3>2. IsList(Push("clear", Push("stopGuard", onError)))
      BY <2>1, <3>1, <1>5, <1>6, PushList
    <3> QED
      BY <3>1, <3>2
  <2>3. /\ ~HasStart(todo') /\ ~HasBegin(todo') /\ ~HasServiceClear(todo')
        /\ Rises(todo') => Rises(t)
        /\ HasEnd(todo') => HasEnd(onError)
        /\ HasWriting(todo') => HasWriting(t)
        /\ HasLocal(todo') => HasLocal(t)
        /\ HasWrite(todo') => HasWrite(t)
        /\ HasAgain(todo') => HasAgain(t)
        /\ HasRefresh(todo') => HasRefresh(t)
        /\ HasLanded(todo') => HasLanded(t)
    <3>1. CASE todo' = t
      BY <2>1, <2>2, <3>1, PushAdds, <1>5
    <3>2. CASE todo' = Push("clear", Push("stopGuard", onError))
      BY <2>1, <2>2, <3>2, PushAdds, <1>6
    <3> QED
      BY <1>1, <3>1, <3>2
  <2>4. /\ StopsFirst(todo') /\ UnguardsExits(todo')
        /\ Drains(t) => Drains(todo')
        /\ Waits(t) => Waits(todo')
        /\ Invalidates(t) => Invalidates(todo')
        /\ AppliesFirst(t) => AppliesFirst(todo')
        /\ WritesFirst(t) => WritesFirst(todo')
        /\ WritesSecond(t) => WritesSecond(todo')
    <3>1. CASE todo' = t
      BY <2>1, <2>2, <3>1, PushOrders, PushAdds, <1>5
    <3>2. CASE todo' = Push("clear", Push("stopGuard", onError))
      BY <2>1, <2>2, <3>2, PushOrders, PushAdds, <1>6
    <3> QED
      BY <1>1, <3>1, <3>2
  <2>5. /\ IsList(todo') /\ StartsLast(todo') /\ RefreshesLast(todo') /\ LandsLast(todo')
    <3>1. CASE todo' = t
      BY <2>1, <2>2, <3>1, PushAdds, PushEnds, <1>5
    <3>2. CASE todo' = Push("clear", Push("stopGuard", onError))
      BY <2>1, <2>2, <3>2, PushAdds, PushEnds, <1>6
    <3> QED
      BY <1>1, <3>1, <3>2
  <2> QED
    BY <2>3, <2>4, <2>5
<1>8. /\ Rises(todo)
      /\ HasWriting(t) => HasWriting(todo)
      /\ HasLocal(t) => HasLocal(todo)
      /\ HasWrite(t) => HasWrite(todo)
      /\ HasAgain(t) => HasAgain(todo)
      /\ HasRefresh(t) => HasRefresh(todo)
      /\ HasLanded(t) => HasLanded(todo)
      /\ Drains(todo) => Drains(t)
      /\ Waits(todo) => Waits(t)
      /\ Invalidates(todo) => Invalidates(t)
      /\ AppliesFirst(todo) => AppliesFirst(t)
      /\ WritesFirst(todo) => WritesFirst(t)
      /\ WritesSecond(todo) => WritesSecond(t)
  <2>1. "check" \in Steps /\ IsList(t)
    BY <1>1
  <2>2. todo = Push("check", t)
    BY <1>1
  <2> QED
    BY <2>1, <2>2, PushAdds, PushOrders, <1>5
<1>9. /\ onError \in {Nothing, Undo} /\ onError' # Dropping
      /\ \/ todo' = t /\ onError' = onError
         \/ /\ todo' = Push("clear", Push("stopGuard", onError))
            /\ \/ onError = Nothing /\ onError' = Guarding
               \/ onError = Undo /\ onError' = UndoGuarded
  <2>1. onError \in {Nothing, Undo}
    BY <1>8 DEF IInv, ListsOK
  <2>2. <<"stopGuard">> \o Nothing = Guarding /\ <<"stopGuard">> \o Undo = UndoGuarded
    <3>1. "stopGuard" \in Steps /\ "undoSidecar" \in Steps
      BY DEF Steps
    <3>2. <<"stopGuard">> \o Nothing = Guarding
      BY DEF Nothing, Guarding
    <3>3. <<"stopGuard">> \o Undo = UndoGuarded
      BY <3>1, TwoSteps DEF Undo, UndoGuarded
    <3> QED
      BY <3>2, <3>3
  <2> QED
    BY <1>1, <2>1, <2>2, NoHandler, Zenon
<1>10. ~Rises(Push("clear", Push("stopGuard", onError)))
  <2>1. "clear" \in Steps /\ "stopGuard" \in Steps /\ IsList(onError)
    BY <1>1, <1>6
  <2>2. IsList(Push("stopGuard", onError))
    BY <2>1, PushList
  <2> QED
    BY <2>1, <2>2, <1>6, PushAdds
<1>11. ListsOK'
  <2>1. onError' \in Handlers
    BY <1>9, NoHandler DEF IInv, ListsOK
  <2>2. ~(Rises(todo') /\ Falls(todo'))
    <3>1. CASE todo' = t
      BY <3>1, <1>4
    <3>2. CASE onError' # onError \/ todo' # t
      BY <3>2, <1>9, <1>10
    <3> QED
      BY <3>1, <3>2
  <2>3. Rises(todo') => onError' \in {Nothing, Undo}
    BY <1>9, <1>10
  <2> QED
    BY <2>1, <2>2, <2>3, <1>7 DEF ListsOK
<1>12. ModeOK'
  <2>1. SessionIsServices'
    BY <1>1, <1>9 DEF IInv, ModeOK, SessionIsServices, Check
  <2>2. SessionIsOld'
    BY <1>1, <1>9 DEF IInv, ModeOK, SessionIsOld, Check
  <2>3. DeadIsSidecar'
    BY <1>1, <1>9 DEF IInv, ModeOK, DeadIsSidecar, Check
  <2>4. RefreshHasACore'
    BY <1>1, <1>7, <1>8, <1>4, <1>3, <1>9 DEF IInv, ModeOK, RefreshHasACore, Check, Bare
  <2>5. WritesAreLocal'
    BY <1>1, <1>7, <1>8, <1>4, <1>3, <1>9 DEF IInv, ModeOK, WritesAreLocal, Route, Check, Bare
  <2>6. EndsNoService'
    <3>1. CASE todo' = t /\ onError' = onError
      BY <3>1, <1>5 DEF IInv, ModeOK, EndsNoService, Check
    <3>2. CASE todo' = Push("clear", Push("stopGuard", onError))
                 /\ onError' = <<"stopGuard">> \o onError
      <4>1. HasEnd(todo') \/ onError' \in Undoing => onError \in Undoing
        BY <3>2, <1>7, <1>9, <1>3, <1>6, <1>5, NoHandler
      <4> QED
        BY <4>1 DEF IInv, ModeOK, EndsNoService, Check
    <3> QED
      BY <1>1, <3>1, <3>2
  <2>7. StartsFromNone'
    BY <1>1, <1>7, <1>8, <1>4, <1>3, <1>9 DEF IInv, ModeOK, StartsFromNone, Check, Bare
  <2> QED
    BY <2>1, <2>2, <2>3, <2>4, <2>5, <2>6, <2>7 DEF ModeOK
<1>13. GuardOK'
  <2>1. GuardIsLocal'
    BY <1>1, <1>9 DEF IInv, GuardOK, GuardIsLocal, Route, Check
  <2>2. RestartIsLocal'
    BY <1>1, <1>7, <1>8, <1>4, <1>3, <1>9 DEF IInv, GuardOK, RestartIsLocal, Check, Bare
  <2>3. ExitsUnguarded'
    BY <1>1, <1>7, <1>8, <1>4, <1>3, <1>9 DEF IInv, GuardOK, ExitsUnguarded, Check, Bare
  <2>4. DropsUnguarded'
    BY <1>9 DEF DropsUnguarded
  <2>5. WritesUnguarded'
    BY <1>1, <1>7, <1>8, <1>4, <1>3, <1>9 DEF IInv, GuardOK, WritesUnguarded, Check, Bare
  <2>6. ServiceUnguarded'
    BY <1>1, <1>7, <1>8, <1>4, <1>3, <1>9 DEF IInv, GuardOK, ServiceUnguarded, Check, Bare
  <2>7. WritesAreQuiet'
    BY <1>1, <1>7, <1>8, <1>4, <1>3, <1>9
       DEF IInv, GuardOK, WritesAreQuiet, NoLateWrite, Check, Bare
  <2>8. LandsQuietly'
    BY <1>1, <1>7, <1>8, <1>4, <1>3, <1>9 DEF IInv, GuardOK, LandsQuietly, NoLateWrite, Check, Bare
  <2>9. GuardKnowsLanded'
    BY <1>1, <1>9 DEF IInv, GuardOK, GuardKnowsLanded, Check
  <2> QED
    BY <2>1, <2>2, <2>3, <2>4, <2>5, <2>6, <2>7, <2>8, <2>9 DEF GuardOK
<1>14. LoopOK'
  <2>1. LoopsAreSound'
    BY <1>1, <1>9 DEF IInv, LoopOK, LoopsAreSound, Current, Check
  <2>2. OneIsCurrent'
    BY <1>1, <1>9 DEF IInv, LoopOK, OneIsCurrent, Current, Check
  <2>3. InvalidatedBefore'
    BY <1>1, <1>7, <1>8, <1>4, <1>3, <1>9
       DEF IInv, LoopOK, InvalidatedBefore, NoCurrent, Current, Check, Bare
  <2>4. DropsInvalidated'
    BY <1>9 DEF DropsInvalidated
  <2>5. StartsAreNew'
    BY <1>1, <1>7, <1>8, <1>4, <1>3, <1>9 DEF IInv, LoopOK, StartsAreNew, Check, Bare
  <2>6. WarnedIsGone'
    BY <1>1, <1>9 DEF IInv, LoopOK, WarnedIsGone, NoCurrent, Current, Check
  <2> QED
    BY <2>1, <2>2, <2>3, <2>4, <2>5, <2>6 DEF LoopOK
<1>15. OffOK'
  BY <1>1, <1>7, <1>8, <1>4, <1>3
     DEF IInv, OffOK, OffIsQuiet, NobodyWrites, NoCurrent, Current, WritesTheGoal, Bare,
         RefreshIsAsked, SysGoesOff, ToldOff, PacGoesOff, Check
<1> QED
  BY <1>2, <1>11, <1>12, <1>13, <1>14, <1>15 DEF IInv

LEMMA RefreshLocalKeeps ==
  ASSUME IInv, RefreshLocal
  PROVE  IInv'
<1> DEFINE t == Tail(todo)
<1>1. /\ IsList(t)
      /\ todo = Push("refresh", t)
      /\ todo' = t /\ onError' = onError
      /\ "refresh" \in Steps
  <2>1. "refresh" \in Steps
    BY DEF Steps
  <2>2. IsList(t) /\ (todo = Push("refresh", t))
    BY HeadIs DEF IInv, ListsOK, RefreshLocal
  <2> QED
    BY <2>1, <2>2, HeadIs, NothingStands, PushOne, PushTwo, PushThree, PushAdds
       DEF IInv, ListsOK, RefreshLocal, Done, Then
<1> HIDE DEF t
<1>2. TypeOK'
  BY DEF IInv, TypeOK, RefreshLocal, Settings, GuardOf, Route
<1>3. /\ ~Falls(t)
      /\ ~HasAgain(t)
      /\ StartsLast(t) /\ RefreshesLast(t) /\ LandsLast(t)
  BY <1>1, Behind DEF IInv
<1>4. ListsOK'
  BY <1>1, ListsPop DEF IInv
<1>5. ModeOK'
  BY <1>1, PushAdds, <1>3, NotDown, NotAgain, NoHandler, PushOrders
     DEF IInv, ModeOK, SessionIsServices, SessionIsOld, DeadIsSidecar, RefreshHasACore,
         WritesAreLocal, Route, EndsNoService, StartsFromNone, RefreshLocal, GuardOf
<1>6. GuardOK'
  <2>1. GuardIsLocal'
    BY <1>1, PushAdds, PushOrders, <1>3, NotDown, NotAgain, <1>2, Typed
       DEF IInv, GuardOK, GuardIsLocal, Route, RefreshLocal, GuardOf, RestartIsLocal, ModeOK,
           WritesAreLocal, RefreshHasACore, ExitsUnguarded, StartsFromNone
  <2>2. RestartIsLocal'
    BY <1>1, PushAdds, <1>3, NotDown, NotAgain
       DEF IInv, GuardOK, RestartIsLocal, RefreshLocal, GuardOf, Route
  <2>3. ExitsUnguarded'
    BY <1>1, PushOrders, <1>3, NotDown, NotAgain
       DEF IInv, GuardOK, ExitsUnguarded, RefreshLocal, GuardOf, Route
  <2>4. DropsUnguarded'
    BY <1>1, PushOrders, <1>3, NotDown, NotAgain, NoHandler
       DEF IInv, GuardOK, DropsUnguarded, RefreshLocal, GuardOf, Route
  <2>5. WritesUnguarded'
    BY <1>1, PushOrders, <1>3, NotDown, NotAgain
       DEF IInv, GuardOK, WritesUnguarded, RefreshLocal, GuardOf, Route
  <2>6. ServiceUnguarded'
    BY <1>1, PushAdds, <1>3, NotDown, NotAgain
       DEF IInv, GuardOK, ServiceUnguarded, RefreshLocal, GuardOf, Route
  <2>7. WritesAreQuiet'
    BY <1>1, PushOrders, <1>3, NotDown, NotAgain
       DEF IInv, GuardOK, WritesAreQuiet, NoLateWrite, RefreshLocal, GuardOf, Route
  <2>8. LandsQuietly'
    BY <1>1, PushAdds, <1>3, NotDown, NotAgain
       DEF IInv, GuardOK, LandsQuietly, NoLateWrite, RefreshLocal, GuardOf, Route
  <2>9. GuardKnowsLanded'
    BY <1>1 DEF IInv, GuardOK, GuardKnowsLanded, RefreshLocal, GuardOf, Route
  <2> QED
    BY <2>1, <2>2, <2>3, <2>4, <2>5, <2>6, <2>7, <2>8, <2>9 DEF GuardOK
<1>7. LoopOK'
  BY <1>1, PushOrders, <1>3, NotDown, NotAgain, NoHandler, PushAdds
     DEF IInv, LoopOK, LoopsAreSound, Current, OneIsCurrent, InvalidatedBefore, NoCurrent,
         DropsInvalidated, StartsAreNew, WarnedIsGone, RefreshLocal, GuardOf, Route
<1>8. OffOK'
  <2>1. OffIsQuiet'
    BY <1>1, PushAdds, PushOrders, <1>3, NotDown, NotAgain
       DEF IInv, OffOK, OffIsQuiet, NobodyWrites, NoCurrent, Current, RefreshLocal, GuardOf, Route,
           WritesTheGoal, RefreshIsAsked, GuardOK, WritesUnguarded, WritesAreQuiet, NoLateWrite,
           LoopOK, InvalidatedBefore, LoopsAreSound, ModeOK, SessionIsServices, WritesAreLocal,
           LandsQuietly, ServiceUnguarded
  <2>2. WritesTheGoal'
    BY <1>1, PushAdds, <1>3, NotDown, NotAgain
       DEF IInv, OffOK, WritesTheGoal, RefreshLocal, GuardOf, Route
  <2>3. RefreshIsAsked'
    BY <1>1, PushOrders, <1>3, NotDown, NotAgain
       DEF IInv, OffOK, RefreshIsAsked, RefreshLocal, GuardOf, Route
  <2>4. SysGoesOff'
    BY <1>1, PushOrders, <1>3, NotDown, NotAgain
       DEF IInv, OffOK, SysGoesOff, ToldOff, RefreshLocal, GuardOf, Route
  <2>5. PacGoesOff'
    BY <1>1, PushOrders, <1>3, NotDown, NotAgain
       DEF IInv, OffOK, PacGoesOff, ToldOff, RefreshLocal, GuardOf, Route
  <2> QED
    BY <2>1, <2>2, <2>3, <2>4, <2>5 DEF OffOK
<1> QED
  BY <1>2, <1>4, <1>5, <1>6, <1>7, <1>8 DEF IInv

LEMMA RefreshServiceKeeps ==
  ASSUME IInv, RefreshService
  PROVE  IInv'
<1> DEFINE t == Tail(todo)
<1>1. /\ IsList(t)
      /\ todo = Push("refresh", t)
      /\ \/ todo' = t /\ onError' = onError
         \/ todo' = onError /\ onError' = Nothing
      /\ "refresh" \in Steps
  <2>1. "refresh" \in Steps
    BY DEF Steps
  <2>2. IsList(t) /\ (todo = Push("refresh", t))
    BY HeadIs DEF IInv, ListsOK, RefreshService
  <2> QED
    BY <2>1, <2>2, HeadIs, NothingStands, PushOne, PushTwo, PushThree, PushAdds
       DEF IInv, ListsOK, RefreshService, Done, Then, Fail, Nothing
<1> HIDE DEF t
<1>2. TypeOK'
  <2>1. /\ platform' \in Platforms /\ wanted' \in Settings /\ before' \in Settings \cup {NoSetting}
        /\ mode' \in {"none", "sidecar", "service"} /\ goal' \in Settings \cup {NoSetting}
        /\ os' \subseteq Kinds /\ {guardType', guardWrite'} \subseteq Kinds \cup {"none"}
        /\ off' \in {"no", "written", "skipped", "late"} /\ landed' \in Targets
    BY DEF IInv, TypeOK, RefreshService
  <2>2. loops' \subseteq Loops
    <3> DEFINE m == [gen |-> gen, session |-> session, target |-> wanted.kind, fails |-> 0,
                     phase |-> "sleeps"]
    <3>1. loops' \subseteq loops \cup {m} /\ (loops' # loops => wanted.kind # "off")
      BY DEF RefreshService, GuardOf
    <3>2. ASSUME wanted.kind # "off"
          PROVE  m \in Loops
      <4>1. wanted.kind \in Kinds
        BY <3>2, Typed DEF IInv, Settings, Targets
      <4>2. gen \in Nat /\ session \in Nat /\ 0 \in 0 .. MaxLoops
        BY Typed, BoundsAssumption DEF IInv
      <4> QED
        BY <4>1, <4>2 DEF Loops
    <3> HIDE DEF m
    <3>3. loops \subseteq Loops
      BY Typed DEF IInv
    <3> QED
      BY <3>1, <3>2, <3>3
  <2>3. /\ {ready', watched', died', network', due'} \subseteq BOOLEAN
        /\ {guardOn', wasOn', drained', reached', warned'} \subseteq BOOLEAN
    BY DEF IInv, TypeOK, RefreshService
  <2>4. {owner', session', lost', gen', expected', tries', ops'} \subseteq Nat
    BY DEF IInv, TypeOK, RefreshService
  <2> QED
    BY <2>1, <2>2, <2>3, <2>4 DEF TypeOK
<1>3. /\ Bare(onError) /\ ~Rises(onError)
      /\ onError = Dropping \/ (UnguardsExits(onError) /\ Invalidates(onError))
      /\ onError \in Undoing \/ ~HasEnd(onError)
      /\ Nothing \notin Undoing /\ Nothing # Dropping
  BY HandlersAre, NoHandler DEF IInv, ListsOK, Bare
<1>4. /\ ~Falls(t)
      /\ ~HasAgain(t)
      /\ onError # Dropping
      /\ StartsLast(t) /\ RefreshesLast(t) /\ LandsLast(t)
  BY <1>1, Behind DEF IInv
<1>5. ListsOK'
  BY <1>1, ListsPop, ListsFail DEF IInv
<1>6. ModeOK'
  BY <1>1, PushAdds, <1>4, NotDown, NotAgain, <1>3, NotUp, NoHandler, PushOrders
     DEF IInv, ModeOK, SessionIsServices, SessionIsOld, DeadIsSidecar, RefreshHasACore, Bare,
         WritesAreLocal, Route, EndsNoService, StartsFromNone, RefreshService, GuardOf, Current
<1>7. GuardOK'
  BY <1>1, PushAdds, <1>4, NotDown, NotAgain, <1>3, NotUp, PushOrders, NoHandler
     DEF IInv, GuardOK, GuardIsLocal, Route, RestartIsLocal, Bare, ExitsUnguarded, DropsUnguarded,
         WritesUnguarded, ServiceUnguarded, WritesAreQuiet, NoLateWrite, LandsQuietly,
         GuardKnowsLanded, RefreshService, GuardOf, Current
<1>8. LoopOK'
  <2>1. LoopsAreSound'
    <3> DEFINE m == [gen |-> gen, session |-> session, target |-> wanted.kind, fails |-> 0,
                     phase |-> "sleeps"]
    <3>1. loops' \subseteq loops \cup {m} /\ (loops' # loops => session # 0 /\ Route = "service")
      BY DEF RefreshService
    <3>2. m.gen = gen /\ m.session = session /\ m.fails = 0
      OBVIOUS
    <3> HIDE DEF m
    <3>3. \A l \in loops' : l \in loops \/ (l = m /\ session # 0 /\ Route = "service")
      BY <3>1
    <3>4. gen \in Nat /\ session \in Nat /\ session <= ops /\ ops \in Nat /\ 0 < MaxLoops
      BY BoundsAssumption, Typed DEF IInv, ModeOK, SessionIsOld
    <3>5. gen' = gen /\ session' = session /\ ops' = ops /\ mode' = mode /\ platform' = platform
      BY DEF RefreshService
    <3> QED
      BY <3>2, <3>3, <3>4, <3>5 DEF IInv, LoopOK, LoopsAreSound, Current, Route
  <2>2. OneIsCurrent'
    BY <1>1, PushOrders, <1>4, NotDown, NotAgain, <1>3, NotUp
       DEF IInv, LoopOK, OneIsCurrent, Current, RefreshService, GuardOf, Route, Bare,
           InvalidatedBefore, NoCurrent, LoopsAreSound
  <2>3. InvalidatedBefore'
    BY <1>1, PushOrders, <1>4, NotDown, NotAgain, <1>3, NotUp
       DEF IInv, LoopOK, InvalidatedBefore, NoCurrent, Current, RefreshService, GuardOf, Route,
           Bare
  <2>4. DropsInvalidated'
    BY <1>1, PushOrders, <1>4, NotDown, NotAgain, <1>3, NotUp, NoHandler
       DEF IInv, LoopOK, DropsInvalidated, NoCurrent, Current, RefreshService, GuardOf, Route, Bare
  <2>5. StartsAreNew'
    BY <1>1, PushAdds, <1>4, NotDown, NotAgain, <1>3, NotUp
       DEF IInv, LoopOK, StartsAreNew, RefreshService, GuardOf, Current, Route, Bare
  <2>6. WarnedIsGone'
    BY <1>1 DEF IInv, LoopOK, WarnedIsGone, NoCurrent, Current, RefreshService, GuardOf, Route
  <2> QED
    BY <2>1, <2>2, <2>3, <2>4, <2>5, <2>6 DEF LoopOK
<1>9. OffOK'
  BY <1>1, PushAdds, <1>4, NotDown, NotAgain, <1>3, NotUp, PushOrders
     DEF IInv, OffOK, OffIsQuiet, NobodyWrites, NoCurrent, Current, WritesTheGoal, Bare,
         RefreshIsAsked, SysGoesOff, ToldOff, PacGoesOff, RefreshService, GuardOf, Route
<1> QED
  BY <1>2, <1>5, <1>6, <1>7, <1>8, <1>9 DEF IInv

LEMMA GuardWritesKeeps ==
  ASSUME IInv, GuardWrites
  PROVE  IInv'
<1>1. todo' = todo /\ onError' = onError
  BY DEF GuardWrites
<1>2. TypeOK'
  BY DEF IInv, TypeOK, GuardWrites, Settings
<1>3. ListsOK'
  BY <1>1, ListsSame DEF IInv
<1>4. ModeOK'
  BY <1>1
     DEF IInv, ModeOK, SessionIsServices, SessionIsOld, DeadIsSidecar, RefreshHasACore,
         WritesAreLocal, Route, EndsNoService, StartsFromNone, GuardWrites
<1>5. GuardOK'
  BY <1>1
     DEF IInv, GuardOK, GuardIsLocal, Route, RestartIsLocal, ExitsUnguarded, DropsUnguarded,
         WritesUnguarded, ServiceUnguarded, WritesAreQuiet, NoLateWrite, LandsQuietly,
         GuardKnowsLanded, GuardWrites
<1>6. LoopOK'
  BY <1>1
     DEF IInv, LoopOK, LoopsAreSound, Current, OneIsCurrent, InvalidatedBefore, NoCurrent,
         DropsInvalidated, StartsAreNew, WarnedIsGone, GuardWrites
<1>7. OffOK'
  BY <1>1
     DEF IInv, OffOK, OffIsQuiet, NobodyWrites, NoCurrent, Current, WritesTheGoal, RefreshIsAsked,
         SysGoesOff, ToldOff, PacGoesOff, GuardWrites
<1> QED
  BY <1>2, <1>3, <1>4, <1>5, <1>6, <1>7 DEF IInv

LEMMA GuardWrittenKeeps ==
  ASSUME IInv, GuardWritten
  PROVE  IInv'
<1>1. todo' = todo /\ onError' = onError
  BY DEF GuardWritten
<1>2. TypeOK'
  BY DEF IInv, TypeOK, GuardWritten, Settings
<1>3. ListsOK'
  BY <1>1, ListsSame DEF IInv
<1>4. ModeOK'
  BY <1>1
     DEF IInv, ModeOK, SessionIsServices, SessionIsOld, DeadIsSidecar, RefreshHasACore,
         WritesAreLocal, Route, EndsNoService, StartsFromNone, GuardWritten
<1>5. GuardOK'
  BY <1>1
     DEF IInv, GuardOK, GuardIsLocal, Route, RestartIsLocal, ExitsUnguarded, DropsUnguarded,
         WritesUnguarded, ServiceUnguarded, WritesAreQuiet, NoLateWrite, LandsQuietly,
         GuardKnowsLanded, GuardWritten
<1>6. LoopOK'
  BY <1>1
     DEF IInv, LoopOK, LoopsAreSound, Current, OneIsCurrent, InvalidatedBefore, NoCurrent,
         DropsInvalidated, StartsAreNew, WarnedIsGone, GuardWritten
<1>7. OffOK'
  <2>1. OffIsQuiet'
    BY <1>1 DEF IInv, OffOK, OffIsQuiet, NobodyWrites, NoCurrent, Current, GuardWritten
  <2>2. WritesTheGoal'
    BY <1>1 DEF IInv, OffOK, WritesTheGoal, GuardWritten
  <2>3. RefreshIsAsked'
    BY <1>1 DEF IInv, OffOK, RefreshIsAsked, GuardWritten
  <2>4. SysGoesOff'
    <3>1. CASE HasLanded(todo)
      BY <3>1, <1>1 DEF IInv, GuardOK, LandsQuietly, NoLateWrite, SysGoesOff, ToldOff, GuardWritten
    <3>2. CASE ~HasLanded(todo)
      <4>1. WritesFirst(todo)
        BY <3>2, NotLanded DEF IInv, ListsOK
      <4> QED
        BY <4>1, <1>1 DEF SysGoesOff
    <3> QED
      BY <3>1, <3>2
  <2>5. PacGoesOff'
    <3>1. CASE HasLanded(todo)
      BY <3>1, <1>1 DEF IInv, GuardOK, LandsQuietly, NoLateWrite, PacGoesOff, ToldOff, GuardWritten
    <3>2. CASE ~HasLanded(todo)
      <4>1. WritesSecond(todo)
        BY <3>2, NotLanded DEF IInv, ListsOK
      <4> QED
        BY <4>1, <1>1 DEF PacGoesOff
    <3> QED
      BY <3>1, <3>2
  <2> QED
    BY <2>1, <2>2, <2>3, <2>4, <2>5 DEF OffOK
<1> QED
  BY <1>2, <1>3, <1>4, <1>5, <1>6, <1>7 DEF IInv

LEMMA LoopCallsKeeps ==
  ASSUME IInv, NEW l \in loops, LoopCalls(l)
  PROVE  IInv'
<1>1. todo' = todo /\ onError' = onError
  BY DEF LoopCalls
<1> DEFINE m == [l EXCEPT !.phase = "calls"]
<1>2. /\ l \in Loops /\ m \in Loops /\ m.gen = l.gen /\ m.session = l.session
      /\ m.phase = "calls" /\ m.fails = l.fails /\ l.phase = "sleeps"
      /\ \/ Current(l) /\ mode = "service" /\ loops' = (loops \ {l}) \cup {m}
         \/ loops' = loops \ {l}
  <2>1. l \in Loops
    BY DEF IInv, TypeOK
  <2>2. m = [gen |-> l.gen, session |-> l.session, target |-> l.target, fails |-> l.fails,
              phase |-> "calls"]
    BY <2>1 DEF Loops
  <2>3. /\ m \in Loops /\ m.gen = l.gen /\ m.session = l.session /\ m.phase = "calls"
             /\ m.fails = l.fails
    BY <2>1, <2>2 DEF Loops
  <2>4. /\ l.phase = "sleeps"
        /\ \/ Current(l) /\ mode = "service" /\ loops' = (loops \ {l}) \cup {m}
           \/ loops' = loops \ {l}
    BY DEF LoopCalls, Turn
  <2> QED
    BY <2>1, <2>3, <2>4
<1> HIDE DEF m
<1>3. TypeOK'
  <2>1. /\ platform' \in Platforms /\ wanted' \in Settings /\ before' \in Settings \cup {NoSetting}
        /\ mode' \in {"none", "sidecar", "service"}
        /\ goal' \in Settings \cup {NoSetting}
    BY DEF IInv, TypeOK, LoopCalls
  <2>2. /\ os' \subseteq Kinds /\ {guardType', guardWrite'} \subseteq Kinds \cup {"none"}
        /\ off' \in {"no", "written", "skipped", "late"} /\ landed' \in Targets
    BY DEF IInv, TypeOK, LoopCalls, Settings, Targets, Kinds
  <2>3. /\ {ready', watched', died', network', due'} \subseteq BOOLEAN
        /\ {guardOn', wasOn', drained', reached', warned'} \subseteq BOOLEAN
    BY DEF IInv, TypeOK, LoopCalls
  <2>4. {owner', session', lost', gen', expected', tries', ops'} \subseteq Nat
    BY DEF IInv, TypeOK, LoopCalls
  <2>5. loops' \subseteq Loops
    BY <1>2, Typed DEF IInv
  <2> QED
    BY <2>1, <2>2, <2>3, <2>4, <2>5 DEF TypeOK
<1>4. ListsOK'
  BY <1>1, ListsSame DEF IInv
<1>5. ModeOK'
  BY <1>1
     DEF IInv, ModeOK, SessionIsServices, SessionIsOld, DeadIsSidecar, RefreshHasACore,
         WritesAreLocal, Route, EndsNoService, StartsFromNone, LoopCalls, Turn, Current
<1>6. GuardOK'
  BY <1>1
     DEF IInv, GuardOK, GuardIsLocal, Route, RestartIsLocal, ExitsUnguarded, DropsUnguarded,
         WritesUnguarded, ServiceUnguarded, WritesAreQuiet, NoLateWrite, LandsQuietly,
         GuardKnowsLanded, LoopCalls, Turn, Current
<1>7. LoopOK'
  <2>1. UNCHANGED <<todo, onError, gen, mode, session, platform, ops, guardOn, warned>>
    BY DEF LoopCalls
  <2>2. m.fails < MaxLoops
    BY <1>2 DEF IInv, LoopOK, LoopsAreSound
  <2> QED
    BY <1>2, <2>1, <2>2, TurnKeeps, FewerKeeps
<1>8. OffOK'
  BY <1>1
     DEF IInv, OffOK, OffIsQuiet, NobodyWrites, NoCurrent, Current, WritesTheGoal, RefreshIsAsked,
         SysGoesOff, ToldOff, PacGoesOff, LoopCalls, Turn
<1> QED
  BY <1>3, <1>4, <1>5, <1>6, <1>7, <1>8 DEF IInv

LEMMA LoopSucceedsKeeps ==
  ASSUME IInv, NEW l \in loops, LoopSucceeds(l)
  PROVE  IInv'
<1>1. todo' = todo /\ onError' = onError
  BY DEF LoopSucceeds
<1> DEFINE m == [l EXCEPT !.phase = "sleeps", !.fails = 0]
<1>2. /\ l \in Loops /\ m \in Loops /\ m.gen = l.gen /\ m.session = l.session
      /\ m.phase = "sleeps" /\ m.fails = 0
      /\ loops' = (loops \ {l}) \cup {m}
  <2>1. l \in Loops
    BY DEF IInv, TypeOK
  <2>2. 0 \in 0 .. MaxLoops /\ "sleeps" \in {"sleeps", "calls", "reports"}
    BY <2>1, BoundsAssumption DEF IInv, LoopOK, LoopsAreSound, Loops, LoopSucceeds
  <2>3. m \in Loops
    BY <2>1, <2>2 DEF Loops
  <2>4. m.gen = l.gen /\ m.session = l.session /\ m.phase = "sleeps" /\ m.fails = 0
    BY <2>1 DEF Loops
  <2>5. loops' = (loops \ {l}) \cup {m}
    BY DEF LoopSucceeds, Turn
  <2> QED
    BY <2>1, <2>3, <2>4, <2>5
<1> HIDE DEF m
<1>3. TypeOK'
  <2>1. /\ platform' \in Platforms /\ wanted' \in Settings /\ before' \in Settings \cup {NoSetting}
        /\ mode' \in {"none", "sidecar", "service"}
        /\ goal' \in Settings \cup {NoSetting}
    BY DEF IInv, TypeOK, LoopSucceeds
  <2>2. /\ {guardType', guardWrite'} \subseteq Kinds \cup {"none"}
        /\ off' \in {"no", "written", "skipped", "late"} /\ landed' \in Targets
    BY DEF IInv, TypeOK, LoopSucceeds, Settings, Targets, Kinds
  <2>3. /\ {ready', watched', died', network', due'} \subseteq BOOLEAN
        /\ {guardOn', wasOn', drained', reached', warned'} \subseteq BOOLEAN
    BY DEF IInv, TypeOK, LoopSucceeds
  <2>4. {owner', session', lost', gen', expected', tries', ops'} \subseteq Nat
    BY DEF IInv, TypeOK, LoopSucceeds
  <2>5. loops' \subseteq Loops
    BY <1>2, Typed DEF IInv
  <2>6. os' \subseteq Kinds
    <3>1. os' = {l.target} /\ l.target \in Kinds
      BY <1>2 DEF LoopSucceeds, Loops
    <3> QED
      BY <3>1
  <2> QED
    BY <2>1, <2>2, <2>3, <2>4, <2>5, <2>6 DEF TypeOK
<1>4. ListsOK'
  BY <1>1, ListsSame DEF IInv
<1>5. ModeOK'
  BY <1>1
     DEF IInv, ModeOK, SessionIsServices, SessionIsOld, DeadIsSidecar, RefreshHasACore,
         WritesAreLocal, Route, EndsNoService, StartsFromNone, LoopSucceeds, Turn, Current
<1>6. GuardOK'
  BY <1>1
     DEF IInv, GuardOK, GuardIsLocal, Route, RestartIsLocal, ExitsUnguarded, DropsUnguarded,
         WritesUnguarded, ServiceUnguarded, WritesAreQuiet, NoLateWrite, LandsQuietly,
         GuardKnowsLanded, LoopSucceeds, Turn, Current
<1>7. LoopOK'
  <2>1. UNCHANGED <<todo, onError, gen, mode, session, platform, ops, guardOn, warned>>
    BY DEF LoopSucceeds
  <2>2. m.phase # "reports" => m.fails < MaxLoops
    BY <1>2, BoundsAssumption, SMT DEF Loops
  <2> QED
    BY <1>2, <2>1, <2>2, TurnKeeps
<1>8. OffOK'
  <2>1. OffIsQuiet'
    BY DEF IInv, OffOK, OffIsQuiet, NobodyWrites, LoopSucceeds
  <2>2. WritesTheGoal'
    BY <1>1, <1>2 DEF IInv, OffOK, WritesTheGoal, LoopSucceeds, Turn, Current
  <2>3. RefreshIsAsked'
    BY <1>1, <1>2 DEF IInv, OffOK, RefreshIsAsked, LoopSucceeds, Turn, Current
  <2>4. SysGoesOff'
    <3>1. WritesFirst(todo) /\ WritesSecond(todo)
      BY CallsMeanNoLanding DEF LoopSucceeds
    <3> QED
      BY <3>1, <1>1 DEF SysGoesOff
  <2>5. PacGoesOff'
    <3>1. WritesFirst(todo) /\ WritesSecond(todo)
      BY CallsMeanNoLanding DEF LoopSucceeds
    <3> QED
      BY <3>1, <1>1 DEF PacGoesOff
  <2> QED
    BY <2>1, <2>2, <2>3, <2>4, <2>5 DEF OffOK
<1> QED
  BY <1>3, <1>4, <1>5, <1>6, <1>7, <1>8 DEF IInv

LEMMA LoopFailsKeeps ==
  ASSUME IInv, NEW l \in loops, LoopFails(l)
  PROVE  IInv'
<1>1. todo' = todo /\ onError' = onError
  BY DEF LoopFails
<1> DEFINE m == [l EXCEPT !.fails = @ + 1,
                 !.phase = IF l.fails + 1 >= MaxLoops THEN "reports" ELSE "sleeps"]
<1>2. /\ l \in Loops /\ m \in Loops /\ m.gen = l.gen /\ m.session = l.session
      /\ m.phase = (IF l.fails + 1 >= MaxLoops THEN "reports" ELSE "sleeps")
           /\ m.fails = l.fails + 1
      /\ loops' = (loops \ {l}) \cup {m}
  <2>1. l \in Loops
    BY DEF IInv, TypeOK
  <2>2. l.fails + 1 \in 0 .. MaxLoops /\ (IF l.fails + 1 >= MaxLoops THEN "reports" ELSE "sleeps")
          \in {"sleeps", "calls", "reports"}
    BY <2>1, BoundsAssumption DEF IInv, LoopOK, LoopsAreSound, Loops, LoopFails
  <2>3. m \in Loops
    BY <2>1, <2>2 DEF Loops
  <2>4. m.gen = l.gen /\ m.session = l.session
          /\ m.phase = (IF l.fails + 1 >= MaxLoops THEN "reports" ELSE "sleeps")
          /\ m.fails = l.fails + 1
    BY <2>1 DEF Loops
  <2>5. loops' = (loops \ {l}) \cup {m}
    BY DEF LoopFails, Turn
  <2> QED
    BY <2>1, <2>3, <2>4, <2>5
<1> HIDE DEF m
<1>3. TypeOK'
  <2>1. /\ platform' \in Platforms /\ wanted' \in Settings /\ before' \in Settings \cup {NoSetting}
        /\ mode' \in {"none", "sidecar", "service"}
        /\ goal' \in Settings \cup {NoSetting}
    BY DEF IInv, TypeOK, LoopFails
  <2>2. /\ os' \subseteq Kinds /\ {guardType', guardWrite'} \subseteq Kinds \cup {"none"}
        /\ off' \in {"no", "written", "skipped", "late"} /\ landed' \in Targets
    BY DEF IInv, TypeOK, LoopFails, Settings, Targets, Kinds
  <2>3. /\ {ready', watched', died', network', due'} \subseteq BOOLEAN
        /\ {guardOn', wasOn', drained', reached', warned'} \subseteq BOOLEAN
    BY DEF IInv, TypeOK, LoopFails
  <2>4. {owner', session', lost', gen', expected', tries', ops'} \subseteq Nat
    BY DEF IInv, TypeOK, LoopFails
  <2>5. loops' \subseteq Loops
    BY <1>2, Typed DEF IInv
  <2> QED
    BY <2>1, <2>2, <2>3, <2>4, <2>5 DEF TypeOK
<1>4. ListsOK'
  BY <1>1, ListsSame DEF IInv
<1>5. ModeOK'
  BY <1>1
     DEF IInv, ModeOK, SessionIsServices, SessionIsOld, DeadIsSidecar, RefreshHasACore,
         WritesAreLocal, Route, EndsNoService, StartsFromNone, LoopFails, Turn, Current
<1>6. GuardOK'
  BY <1>1
     DEF IInv, GuardOK, GuardIsLocal, Route, RestartIsLocal, ExitsUnguarded, DropsUnguarded,
         WritesUnguarded, ServiceUnguarded, WritesAreQuiet, NoLateWrite, LandsQuietly,
         GuardKnowsLanded, LoopFails, Turn, Current
<1>7. LoopOK'
  <2>1. UNCHANGED <<todo, onError, gen, mode, session, platform, ops, guardOn, warned>>
    BY DEF LoopFails
  <2>2. m.phase # "reports" => m.fails < MaxLoops
    BY <1>2, BoundsAssumption, SMT DEF Loops
  <2> QED
    BY <1>2, <2>1, <2>2, TurnKeeps
<1>8. OffOK'
  <2>1. OffIsQuiet'
    <3>1. \A k \in loops' : k = m \/ k \in loops
      BY <1>2
    <3>2. /\ off' = off /\ os' \in {os, {}}
               /\ UNCHANGED <<guardWrite, guardOn, guardType, gen, session>>
          /\ l.phase = "calls"
      BY DEF LoopFails
    <3>3. m.phase # "calls"
      BY <1>2
    <3> QED
      BY <1>2, <3>1, <3>2, <3>3 DEF IInv, OffOK, OffIsQuiet, NobodyWrites, NoCurrent, Current
  <2>2. WritesTheGoal'
    BY <1>1, <1>2 DEF IInv, OffOK, WritesTheGoal, LoopFails, Turn, Current
  <2>3. RefreshIsAsked'
    BY <1>1, <1>2 DEF IInv, OffOK, RefreshIsAsked, LoopFails, Turn, Current
  <2>4. SysGoesOff'
    BY <1>1, <1>2 DEF IInv, OffOK, SysGoesOff, ToldOff, LoopFails, Turn, Current
  <2>5. PacGoesOff'
    BY <1>1, <1>2 DEF IInv, OffOK, PacGoesOff, ToldOff, LoopFails, Turn, Current
  <2> QED
    BY <2>1, <2>2, <2>3, <2>4, <2>5 DEF OffOK
<1> QED
  BY <1>3, <1>4, <1>5, <1>6, <1>7, <1>8 DEF IInv

LEMMA LoopReportsKeeps ==
  ASSUME IInv, NEW l \in loops, LoopReports(l)
  PROVE  IInv'
<1>1. todo' = todo /\ onError' = onError
  BY DEF LoopReports
<1>2. TypeOK'
  BY DEF IInv, TypeOK, LoopReports, Settings, Current
<1>3. ListsOK'
  BY <1>1, ListsSame DEF IInv
<1>4. ModeOK'
  BY <1>1
     DEF IInv, ModeOK, SessionIsServices, SessionIsOld, DeadIsSidecar, RefreshHasACore,
         WritesAreLocal, Route, EndsNoService, StartsFromNone, LoopReports, Current
<1>5. GuardOK'
  <2>1. GuardIsLocal'
    BY <1>1 DEF IInv, GuardOK, GuardIsLocal, Route, LoopReports, Current
  <2>2. RestartIsLocal'
    <3>1. HasWriting(todo) => Route = "local"
      BY HasLess DEF IInv, ModeOK, WritesAreLocal, HasWriting, HasLocal
    <3>2. Current(l) => Route # "local"
      BY DEF IInv, LoopOK, LoopsAreSound, Route
    <3> QED
      BY <1>1, <3>1, <3>2 DEF IInv, GuardOK, RestartIsLocal, LoopReports
  <2>3. ExitsUnguarded'
    BY <1>1 DEF IInv, GuardOK, ExitsUnguarded, LoopReports, Current
  <2>4. DropsUnguarded'
    BY <1>1 DEF IInv, GuardOK, DropsUnguarded, LoopReports, Current
  <2>5. WritesUnguarded'
    BY <1>1 DEF IInv, GuardOK, WritesUnguarded, LoopReports, Current
  <2>6. ServiceUnguarded'
    BY <1>1 DEF IInv, GuardOK, ServiceUnguarded, LoopReports, Current
  <2>7. WritesAreQuiet'
    BY <1>1 DEF IInv, GuardOK, WritesAreQuiet, NoLateWrite, LoopReports, Current
  <2>8. LandsQuietly'
    BY <1>1 DEF IInv, GuardOK, LandsQuietly, NoLateWrite, LoopReports, Current
  <2>9. GuardKnowsLanded'
    BY <1>1 DEF IInv, GuardOK, GuardKnowsLanded, LoopReports, Current
  <2> QED
    BY <2>1, <2>2, <2>3, <2>4, <2>5, <2>6, <2>7, <2>8, <2>9 DEF GuardOK
<1>6. LoopOK'
  <2>1. LoopsAreSound'
    BY <1>1 DEF IInv, LoopOK, LoopsAreSound, Current, LoopReports
  <2>2. OneIsCurrent'
    BY <1>1 DEF IInv, LoopOK, OneIsCurrent, Current, LoopReports
  <2>3. InvalidatedBefore'
    BY <1>1 DEF IInv, LoopOK, InvalidatedBefore, NoCurrent, Current, LoopReports
  <2>4. DropsInvalidated'
    BY <1>1 DEF IInv, LoopOK, DropsInvalidated, NoCurrent, Current, LoopReports
  <2>5. StartsAreNew'
    BY <1>1 DEF IInv, LoopOK, StartsAreNew, LoopReports, Current
  <2>6. WarnedIsGone'
    BY <1>1
       DEF IInv, LoopOK, WarnedIsGone, NoCurrent, Current, LoopReports, OneIsCurrent,
           LoopsAreSound, GuardOK, GuardIsLocal, Route, RestartIsLocal
  <2> QED
    BY <2>1, <2>2, <2>3, <2>4, <2>5, <2>6 DEF LoopOK
<1>7. OffOK'
  BY <1>1
     DEF IInv, OffOK, OffIsQuiet, NobodyWrites, NoCurrent, Current, WritesTheGoal, RefreshIsAsked,
         SysGoesOff, ToldOff, PacGoesOff, LoopReports
<1> QED
  BY <1>2, <1>3, <1>4, <1>5, <1>6, <1>7 DEF IInv

LEMMA LoseOwnerKeeps ==
  ASSUME IInv, LoseOwner
  PROVE  IInv'
<1>1. todo' = todo /\ onError' = onError
  BY DEF LoseOwner
<1>2. TypeOK'
  <2>1. /\ platform' \in Platforms /\ wanted' \in Settings /\ before' \in Settings \cup {NoSetting}
        /\ mode' \in {"none", "sidecar", "service"} /\ loops' \subseteq Loops
        /\ goal' \in Settings \cup {NoSetting}
    BY DEF IInv, TypeOK, LoseOwner
  <2>2. /\ os' \subseteq Kinds /\ {guardType', guardWrite'} \subseteq Kinds \cup {"none"}
        /\ off' \in {"no", "written", "skipped", "late"} /\ landed' \in Targets
    BY DEF IInv, TypeOK, LoseOwner, Settings, Targets, Kinds
  <2>3. /\ {ready', watched', died', network', due'} \subseteq BOOLEAN
        /\ {guardOn', wasOn', drained', reached', warned'} \subseteq BOOLEAN
    BY DEF IInv, TypeOK, LoseOwner
  <2>4. {owner', session', lost', gen', expected', tries', ops'} \subseteq Nat
    BY DEF IInv, TypeOK, LoseOwner
  <2> QED
    BY <2>1, <2>2, <2>3, <2>4 DEF TypeOK
<1>3. ListsOK'
  BY <1>1, ListsSame DEF IInv
<1>4. ModeOK'
  BY <1>1
     DEF IInv, ModeOK, SessionIsServices, SessionIsOld, DeadIsSidecar, RefreshHasACore,
         WritesAreLocal, Route, EndsNoService, StartsFromNone, LoseOwner
<1>5. GuardOK'
  BY <1>1
     DEF IInv, GuardOK, GuardIsLocal, Route, RestartIsLocal, ExitsUnguarded, DropsUnguarded,
         WritesUnguarded, ServiceUnguarded, WritesAreQuiet, NoLateWrite, LandsQuietly,
         GuardKnowsLanded, LoseOwner
<1>6. LoopOK'
  BY <1>1
     DEF IInv, LoopOK, LoopsAreSound, Current, OneIsCurrent, InvalidatedBefore, NoCurrent,
         DropsInvalidated, StartsAreNew, WarnedIsGone, LoseOwner
<1>7. OffOK'
  BY <1>1
     DEF IInv, OffOK, OffIsQuiet, NobodyWrites, NoCurrent, Current, WritesTheGoal, RefreshIsAsked,
         SysGoesOff, ToldOff, PacGoesOff, LoseOwner
<1> QED
  BY <1>2, <1>3, <1>4, <1>5, <1>6, <1>7 DEF IInv

LEMMA SidecarDiesKeeps ==
  ASSUME IInv, SidecarDies
  PROVE  IInv'
<1>1. todo' = todo /\ onError' = onError
  BY DEF SidecarDies
<1>2. TypeOK'
  BY DEF IInv, TypeOK, SidecarDies, Settings
<1>3. ListsOK'
  BY <1>1, ListsSame DEF IInv
<1>4. ModeOK'
  BY <1>1
     DEF IInv, ModeOK, SessionIsServices, SessionIsOld, DeadIsSidecar, RefreshHasACore,
         WritesAreLocal, Route, EndsNoService, StartsFromNone, SidecarDies
<1>5. GuardOK'
  BY <1>1
     DEF IInv, GuardOK, GuardIsLocal, Route, RestartIsLocal, ExitsUnguarded, DropsUnguarded,
         WritesUnguarded, ServiceUnguarded, WritesAreQuiet, NoLateWrite, LandsQuietly,
         GuardKnowsLanded, SidecarDies
<1>6. LoopOK'
  BY <1>1
     DEF IInv, LoopOK, LoopsAreSound, Current, OneIsCurrent, InvalidatedBefore, NoCurrent,
         DropsInvalidated, StartsAreNew, WarnedIsGone, SidecarDies
<1>7. OffOK'
  BY <1>1
     DEF IInv, OffOK, OffIsQuiet, NobodyWrites, NoCurrent, Current, WritesTheGoal, RefreshIsAsked,
         SysGoesOff, ToldOff, PacGoesOff, SidecarDies
<1> QED
  BY <1>2, <1>3, <1>4, <1>5, <1>6, <1>7 DEF IInv

LEMMA NetworkChangesKeeps ==
  ASSUME IInv, NetworkChanges
  PROVE  IInv'
<1>1. todo' = todo /\ onError' = onError
  BY DEF NetworkChanges
<1>2. TypeOK'
  BY DEF IInv, TypeOK, NetworkChanges, Settings
<1>3. ListsOK'
  BY <1>1, ListsSame DEF IInv
<1>4. ModeOK'
  BY <1>1
     DEF IInv, ModeOK, SessionIsServices, SessionIsOld, DeadIsSidecar, RefreshHasACore,
         WritesAreLocal, Route, EndsNoService, StartsFromNone, NetworkChanges
<1>5. GuardOK'
  BY <1>1
     DEF IInv, GuardOK, GuardIsLocal, Route, RestartIsLocal, ExitsUnguarded, DropsUnguarded,
         WritesUnguarded, ServiceUnguarded, WritesAreQuiet, NoLateWrite, LandsQuietly,
         GuardKnowsLanded, NetworkChanges
<1>6. LoopOK'
  BY <1>1
     DEF IInv, LoopOK, LoopsAreSound, Current, OneIsCurrent, InvalidatedBefore, NoCurrent,
         DropsInvalidated, StartsAreNew, WarnedIsGone, NetworkChanges
<1>7. OffOK'
  BY <1>1
     DEF IInv, OffOK, OffIsQuiet, NobodyWrites, NoCurrent, Current, WritesTheGoal, RefreshIsAsked,
         SysGoesOff, ToldOff, PacGoesOff, NetworkChanges
<1> QED
  BY <1>2, <1>3, <1>4, <1>5, <1>6, <1>7 DEF IInv

-----------------------------------------------------------------------------
(* The theorems *)

LEMMA InitHolds ==
  ASSUME Init
  PROVE  IInv
<1> USE DEF Init
<1>1. todo = Nothing /\ onError = Nothing
  BY DEF Nothing
<1>2. TypeOK
  <2>1. /\ platform \in Platforms /\ wanted \in Settings /\ before \in Settings \cup {NoSetting}
        /\ mode \in {"none", "sidecar", "service"} /\ goal \in Settings \cup {NoSetting}
        /\ os \subseteq Kinds /\ loops \subseteq Loops
    OBVIOUS
  <2>2. /\ {guardType, guardWrite} \subseteq Kinds \cup {"none"}
        /\ off \in {"no", "written", "skipped", "late"} /\ landed \in Targets
    BY DEF Targets
  <2>3. /\ {ready, watched, died, network, due} \subseteq BOOLEAN
        /\ {guardOn, wasOn, drained, reached, warned} \subseteq BOOLEAN
    OBVIOUS
  <2>4. {owner, session, lost, gen, expected, tries, ops} \subseteq Nat
    OBVIOUS
  <2> QED
    BY <2>1, <2>2, <2>3, <2>4 DEF TypeOK
<1>3. ListsOK
  BY <1>1, NothingStands, NoHandler DEF ListsOK
<1>4. ModeOK
  BY <1>1, NothingStands, NoHandler
     DEF ModeOK, SessionIsServices, SessionIsOld, DeadIsSidecar, RefreshHasACore, WritesAreLocal,
         EndsNoService, StartsFromNone
<1>5. GuardOK
  BY <1>1, NothingStands
     DEF GuardOK, GuardIsLocal, RestartIsLocal, ExitsUnguarded, DropsUnguarded, WritesUnguarded,
         ServiceUnguarded, WritesAreQuiet, LandsQuietly, NoLateWrite, GuardKnowsLanded
<1>6. LoopOK
  BY <1>1, NothingStands
     DEF LoopOK, LoopsAreSound, OneIsCurrent, InvalidatedBefore, DropsInvalidated, StartsAreNew,
         WarnedIsGone, NoCurrent
<1>7. OffOK
  BY <1>1, NothingStands
     DEF OffOK, OffIsQuiet, NobodyWrites, NoCurrent, WritesTheGoal, RefreshIsAsked, SysGoesOff,
         PacGoesOff
<1> QED
  BY <1>2, <1>3, <1>4, <1>5, <1>6, <1>7 DEF IInv

LEMMA StutterKeeps ==
  ASSUME IInv, UNCHANGED vars
  PROVE  IInv'
<1> USE DEF vars
<1>1. TypeOK' /\ ListsOK'
  BY ListsSame DEF IInv, TypeOK
<1>2. ModeOK'
  BY DEF IInv, ModeOK, SessionIsServices, SessionIsOld, DeadIsSidecar, RefreshHasACore,
         WritesAreLocal, EndsNoService, StartsFromNone, Route
<1>3. GuardOK'
  BY DEF IInv, GuardOK, GuardIsLocal, RestartIsLocal, ExitsUnguarded, DropsUnguarded,
         WritesUnguarded, ServiceUnguarded, WritesAreQuiet, LandsQuietly, NoLateWrite,
         GuardKnowsLanded, Route
<1>4. LoopOK'
  BY DEF IInv, LoopOK, LoopsAreSound, OneIsCurrent, InvalidatedBefore, DropsInvalidated,
         StartsAreNew, WarnedIsGone, NoCurrent, Current
<1>5. OffOK'
  BY DEF IInv, OffOK, OffIsQuiet, NobodyWrites, NoCurrent, Current, WritesTheGoal, RefreshIsAsked,
         SysGoesOff, PacGoesOff, ToldOff
<1> QED
  BY <1>1, <1>2, <1>3, <1>4, <1>5 DEF IInv

LEMMA NextKeeps ==
  ASSUME IInv, [Next]_vars
  PROVE  IInv'
<1>1. CASE UNCHANGED vars
  BY <1>1, StutterKeeps
<1>2. CASE Operations
  BY <1>2, ChangeSettingKeeps, UndoSettingKeeps, StartOrRestartKeeps, StopCoreKeeps,
     ContinueWithSidecarKeeps, ReapplyKeeps, RecoverOwnerKeeps, ClearTerminatedKeeps DEF Operations
<1>3. CASE CoreSteps
  BY <1>3, StartServiceKeeps, StartSidecarKeeps, StartFailsKeeps, CoreStoppedKeeps,
     StopSidecarKeeps, StopServiceKeeps, StopServiceFailsKeeps, StopServiceDisplacedKeeps,
     DropSessionKeeps, UndoSidecarKeeps, CommitKeeps DEF CoreSteps
<1>4. CASE ProxySteps
  BY <1>4, InvalidateKeeps, ShutDownKeeps, WaitKeeps, ApplyKeeps, CompareKeeps, WriteKeeps,
     WriteFailsKeeps, CompensateKeeps, FailedKeeps, LandedKeeps, ServiceWriteKeeps, ClearKeeps,
     DisableKeeps, ServiceClearKeeps, CaptureKeeps, LeaveToTheWatchKeeps, CheckKeeps,
     RefreshLocalKeeps, RefreshServiceKeeps DEF ProxySteps
<1>5. CASE Guards
  BY <1>5, GuardWritesKeeps, GuardWrittenKeeps, LoopCallsKeeps, LoopSucceedsKeeps, LoopFailsKeeps,
     LoopReportsKeeps DEF Guards
<1>6. CASE Environment
  BY <1>6, LoseOwnerKeeps, SidecarDiesKeeps, NetworkChangesKeeps DEF Environment
<1> QED
  BY <1>1, <1>2, <1>3, <1>4, <1>5, <1>6 DEF Next

LEMMA InvariantHolds == Spec => []IInv
<1>1. Init => IInv
  BY InitHolds
<1>2. IInv /\ [Next]_vars => IInv'
  BY NextKeeps
<1> QED
  BY <1>1, <1>2, PTL DEF Spec

(* What the operations keep of the proxy, its guards, the Core and the        *)
(* session has the values that it may have: a counter of failures never goes  *)
(* beyond the number at which a loop reports (run_guard_request).             *)
THEOREM TypeCorrect == Spec => []TypeOK
<1>1. IInv => TypeOK
  BY DEF IInv
<1> QED
  BY <1>1, InvariantHolds, PTL

(* A proxy that was turned off and written stays off until somebody asks for  *)
(* one, however the guards, the loops and the recoveries are interleaved with *)
(* the operations and whichever of their steps fail                           *)
(* (disable_until_the_last_write_is_ours, run_final_service_operation).       *)
THEOREM WhatIsOffStaysOff == Spec => []OffStaysOff
<1>1. IInv => OffStaysOff
  BY DEF IInv, OffOK, OffIsQuiet, NobodyWrites, OffStaysOff
<1> QED
  BY <1>1, InvariantHolds, PTL

(* A guard never outlives its Core or its session, and the local one never    *)
(* enforces what did not reach the operating system (stop_guard in every      *)
(* transition, the last steps of update_sysproxy, the checks of               *)
(* apply_proxy_after_start).                                                  *)
THEOREM GuardsAreGrounded == Spec => []GuardsHaveGrounds
<1>1. IInv => GuardsHaveGrounds
  BY DEF IInv, GuardOK, GuardIsLocal, GuardKnowsLanded, LoopOK, LoopsAreSound, GuardsHaveGrounds,
         GuardsNeedACore, GuardEnforcesWhatLanded
<1> QED
  BY <1>1, InvariantHolds, PTL

(* The warning that the guard has stopped is never pending while a guard      *)
(* works: a loop of before does not report it, and a new guard retires it     *)
(* (report_guard_stopped, retire_guard_failures).                             *)
THEOREM WarningsAreCurrent == Spec => []WarningIsAboutNow
<1>1. IInv => WarningIsAboutNow
  BY DEF IInv, LoopOK, WarnedIsGone, NoCurrent, WarningIsAboutNow
<1> QED
  BY <1>1, InvariantHolds, PTL

(* Any two loops that work on the same generation are one: whatever is        *)
(* restarted, the proxy is never refreshed twice at a time                    *)
(* (ServiceProxyOperations::invalidate_guard before each refresh_guard).      *)
THEOREM OneLoopIsCurrent == Spec => []OneIsCurrent
<1>1. IInv => OneIsCurrent
  BY DEF IInv, LoopOK
<1> QED
  BY <1>1, InvariantHolds, PTL
=============================================================================

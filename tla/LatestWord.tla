------------------------------ MODULE LatestWord ------------------------------
(***************************************************************************)
(* What the Run State store promises about Service health, without its     *)
(* observation counters.                                                   *)
(*                                                                         *)
(* Reading the health of the Service takes I/O, and the program goes on    *)
(* talking about the Service meanwhile.  `word` is the last thing that was *)
(* said about it.  A reading is fresh from its start until something newer *)
(* is said or another reading starts.  A fresh reading, once complete,     *)
(* becomes the word; one that is no longer fresh is dropped without a      *)
(* trace.                                                                  *)
(***************************************************************************)
EXTENDS RunStateTypes

CONSTANT Tasks

VARIABLES
  word,      \* what the program holds to be true of the Service
  reading,   \* tasks that are reading its health
  fresh      \* those among them that nothing newer has overtaken

wordVars == <<word, reading, fresh>>

\* A request for an action and an accepted Sidecar exclude each other.
Words == {w \in StoredServices : w.pending = NoAction \/ ~w.sidecarAllowed}

Init ==
  /\ word = DefaultService
  /\ reading = {}
  /\ fresh = {}

\* Something is said, or said again: either way no older reading may follow it.
Say ==
  /\ word' \in Words
  /\ fresh' = {}
  /\ UNCHANGED reading

Reserve(t) ==
  /\ t \notin reading
  /\ reading' = reading \cup {t}
  /\ fresh' = {t}
  /\ UNCHANGED word

Commit(t) ==
  /\ t \in fresh
  /\ \E h \in Healths : word' = Observed(h)
  /\ reading' = reading \ {t}
  /\ fresh' = fresh \ {t}

Discard(t) ==
  /\ t \in reading \ fresh
  /\ reading' = reading \ {t}
  /\ UNCHANGED <<word, fresh>>

Next ==
  \/ Say
  \/ \E t \in Tasks : Reserve(t) \/ Commit(t) \/ Discard(t)

Spec == Init /\ [][Next]_wordVars
==============================================================================

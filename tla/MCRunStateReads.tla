---------------------------- MODULE MCRunStateReads ----------------------------
(***************************************************************************)
(* RunStateReads on small instances.                                       *)
(***************************************************************************)
EXTENDS RunStateReads

CONSTANTS o1, o2, s1, r1, r2

OneOperator == {o1}
TwoOperators == {o1, o2}
NoSpeakers == {}
OneSpeaker == {s1}
OneReader == {r1}
NoReaders == {}
==============================================================================

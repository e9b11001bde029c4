--------------------------- MODULE MCCoreSupervisor ---------------------------
(***************************************************************************)
(* CoreSupervisor on small instances.                                      *)
(***************************************************************************)
EXTENDS CoreSupervisor

WithoutAccept == AllGoals \ {"accept"}
EveryGoal == AllGoals
==============================================================================

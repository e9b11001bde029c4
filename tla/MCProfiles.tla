----------------------------- MODULE MCProfiles -----------------------------
(***************************************************************************)
(* Three requests of Profiles on two profiles and one that may be added.   *)
(* Requests are interchangeable, so it is enough to take each choice of    *)
(* jobs in one order; only a switch and a deletion are asked for twice at  *)
(* a time.                                                                 *)
(***************************************************************************)
EXTENDS Profiles, Sequences

MCTasks == 1..3

Job(kind, uid) == [kind |-> kind, uid |-> uid]

Ranked ==
  << Job("switch", "b"), Job("switch", "b"), Job("delete", "b"), Job("delete", "b"),
     Job("delete", "a"), Job("edit", "a"), Job("import", "c"), Job("scheme", "d"),
     Job("refresh", "a"), Job("refresh", "b"), Job("update", "a"), Job("dns", "a"), Job("exit", "a"),
     Job("switch", "d"), Job("delete", "d"), Job("refresh", "d") >>

Sorted(ranks) ==
  {[t \in Tasks |-> Ranked[f[t]]] :
     f \in {g \in [Tasks -> ranks] : \A t, u \in Tasks : t < u => g[t] < g[u]}}

Book(current, items) == [current |-> current, items |-> items, edits |-> {}]
MCStarts == {Book("a", {"a", "b"}), Book(NoUid, {})}

MCRequests == Sorted(DOMAIN Ranked)
EditsAndExit == Sorted({6, 7, 13})
=============================================================================

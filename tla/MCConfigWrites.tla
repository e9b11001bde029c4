---------------------------- MODULE MCConfigWrites ----------------------------
(***************************************************************************)
(* Three requests of ConfigWrites.  Requests are interchangeable, so it is *)
(* enough to take each choice of jobs in one order.                        *)
(***************************************************************************)
EXTENDS ConfigWrites, Sequences

Ranked == <<"patch", "ports", "dns", "refresh", "restart", "settle", "legacy">>

Sorted(jobs) ==
  LET rank == {f \in [Tasks -> 1..Len(Ranked)] :
                 \A t, u \in Tasks : t < u => f[t] <= f[u]}
  IN {g \in {[t \in Tasks |-> Ranked[f[t]]] : f \in rank} :
        \A t \in Tasks : g[t] \in jobs}

MCTasks == 1..3

AnyRequests == Sorted(AllJobs)
PatchAndLegacy == Sorted({"patch", "legacy"})
SettleAndUpdates == Sorted({"settle", "refresh", "restart"})
===============================================================================

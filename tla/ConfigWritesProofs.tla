------------------------- MODULE ConfigWritesProofs -------------------------
(***************************************************************************)
(* Proofs about ConfigWrites, for every set of requests under way.         *)
(*                                                                         *)
(* The invariant says for every place of a request what it holds           *)
(* (Discipline): the write lock, the update flag, the claims on the two    *)
(* layers.  From the claims follows whose a draft is (DraftIsStaged,       *)
(* RuntimeIsTried), from that what a commit commits                        *)
(* (AcceptedMeansCommitted), and what the Core and the files may show      *)
(* meanwhile (CoreIsKnown, FilesAreKnown, PortsAreTried, ChangesAreKept).  *)
(***************************************************************************)
EXTENDS ConfigWrites, TLAPS

\* The places of a request, by what it asks for.
Routes ==
  \A t \in Tasks :
    /\ job[t] = "patch" => at[t] \in {"idle", "snapshot", "stage", "effects", "apply", "effected",
                                      "commit", "undo", "restore", "leave", "done"}
    /\ job[t] = "ports" => at[t] \in {"idle", "begin", "generate", "snapshot", "activate", "persist",
                                      "commit", "revert", "restore", "leave", "unlock", "done"}
    /\ job[t] = "dns" => at[t] \in {"idle", "begin", "update", "updateGenerate", "updateApply",
                                    "commit", "save", "undo", "unlock", "done"}
    /\ job[t] = "refresh" => at[t] \in {"idle", "updateGenerate", "updateApply", "done"}
    /\ job[t] = "restart" => at[t] \in {"idle", "start", "done"}
    /\ job[t] = "settle" => at[t] \in {"idle", "begin", "writeOff", "writeOffApply", "save",
                                       "generate", "start", "leave", "done"}
    /\ job[t] = "legacy" => at[t] \in {"idle", "persist", "save", "done"}

\* The places where a request holds the claims on the settings and on the
\* runtime, the update flag, and the write lock.
Staging(t) ==
  \/ job[t] = "patch" /\ at[t] \in {"snapshot", "stage", "effects", "apply", "effected", "commit", "undo"}
  \/ job[t] = "ports" /\ at[t] \in {"generate", "snapshot", "activate", "persist", "commit"}
  \/ job[t] = "dns" /\ at[t] \in {"update", "updateGenerate", "updateApply", "commit", "undo"}
Trying(t) ==
  \/ job[t] = "patch" /\ at[t] \in {"snapshot", "stage", "effects", "apply", "effected", "commit", "undo"}
  \/ job[t] = "ports" /\ at[t] \in {"generate", "snapshot", "activate", "persist", "commit"}
  \/ at[t] \in {"updateGenerate", "updateApply"}
Updating(t) ==
  \/ Trying(t)
  \/ job[t] \in {"patch", "ports"} /\ at[t] \in {"revert", "restore", "leave"}
  \/ job[t] = "restart" /\ at[t] = "start"
  \/ job[t] = "settle" /\ at[t] \in {"begin", "writeOff", "writeOffApply", "save", "generate", "start", "leave"}
Locked(t) ==
  \/ Staging(t)
  \/ job[t] \in {"patch", "ports"} /\ at[t] \in {"revert", "restore", "leave"}
  \/ job[t] \in {"ports", "dns"} /\ at[t] \in {"begin", "unlock"}
  \/ job[t] = "dns" /\ at[t] = "save"
  \/ job[t] = "settle" /\ at[t] \in {"writeOff", "writeOffApply", "save", "generate", "leave"}

Discipline ==
  /\ Routes
  /\ \A t \in Tasks : Locked(t) <=> writeLock = t
  /\ \A t \in Tasks : Updating(t) => updating
  /\ \A t, u \in Tasks : Updating(t) /\ Updating(u) => t = u
  /\ \A t \in Tasks : Staging(t) <=> claimed["settings"] = t
  /\ \A t \in Tasks : Trying(t) <=> claimed["runtime"] = t

\* The places where the settings show a change that is not committed.
Staged(t) == Staging(t) /\ ~(job[t] = "patch" /\ at[t] \in {"snapshot", "stage"})
WritesOff(t) == Is(t, "settle", "writeOffApply")

\* While all writers lock, the draft of the settings is the one change that is
\* staged, and there is none when no change is.
DraftIsStaged ==
  NoneAsks("legacy") =>
    /\ \A t \in Tasks : Staged(t) => draft["settings"] = committed["settings"] \cup {t}
    /\ \A t \in Tasks : WritesOff(t) => draft["settings"] = committed["settings"] \ {Tun}
    /\ (\A t \in Tasks : ~Staged(t) /\ ~WritesOff(t)) => draft["settings"] = NoDraft

\* An answer is given at the end.
AnsweredAtTheEnd == \A t \in Tasks : answer[t] # "none" => at[t] \in {"leave", "unlock", "done"}

\* The places with a runtime that is generated and neither taken nor given up.
Generating(t) ==
  \/ job[t] = "patch" /\ at[t] \in {"apply", "undo"}
  \/ job[t] = "ports" /\ at[t] \in {"snapshot", "activate", "persist", "commit"}
  \/ at[t] = "updateApply"

\* Without continue_with_sidecar the runtime's draft belongs to an update.
RuntimeIsTried ==
  NoneAsks("settle") /\ (\A t \in Tasks : ~Generating(t)) => draft["runtime"] = NoDraft

\* What the Core runs: the committed runtime, or the one that new ports try.
Moving(t) == job[t] = "ports" /\ at[t] \in {"persist", "commit", "revert"}
CoreIsKnown ==
  NoneAsks("settle") /\ "core" \notin trouble =>
    /\ (\A t \in Tasks : ~Moving(t)) => loaded \in {NotRunning, committed["runtime"]}
    /\ \A t \in Tasks : job[t] = "ports" /\ at[t] \in {"persist", "commit"} =>
         loaded \in {NotRunning, Latest("runtime")}

\* What the files show, and what a writer could put back.
Writing(t) ==
  \/ job[t] \in {"patch", "ports"} /\ at[t] \in {"commit", "revert", "restore"}
  \/ job[t] \in {"dns", "settle"} /\ at[t] = "save"
Copied(t) ==
  \/ job[t] = "patch" /\ at[t] \in {"stage", "effects", "apply", "effected", "commit", "undo", "restore"}
  \/ job[t] = "ports" /\ at[t] \in {"activate", "persist", "commit", "revert", "restore"}
FilesAreKnown ==
  NoneAsks("legacy") /\ "file" \notin trouble =>
    /\ (\A t \in Tasks : ~Writing(t)) => file = committed["settings"]
    /\ \A t \in Tasks : job[t] \in {"patch", "ports"} /\ at[t] = "commit" =>
         file = committed["settings"] \cup {t}
    /\ \A t \in Tasks : Copied(t) => copy[t] = committed["settings"]

\* Ports that are not accepted are nowhere but in the trial of their request.
PortsAreTried ==
  NoneAsks("legacy") =>
    \A t \in Tasks : job[t] = "ports" /\ answer[t] # "ok" =>
      /\ answer[t] # "unsaved"
      /\ t \notin committed["runtime"]
      /\ at[t] \notin {"snapshot", "activate", "persist", "commit"} => t \notin Latest("runtime")
      /\ at[t] \notin {"persist", "commit", "revert"} => (Runs(t) => "core" \in trouble)

\* Ports and a DNS setting stay in the settings from the staging on, and in the
\* runtime from the trial on.
Accepted(t) ==
  /\ job[t] \in {"ports", "dns"}
  /\ answer[t] \in {"ok", "unsaved"} \/ Is(t, "dns", "save")
Kept(t) ==
  \/ job[t] = "ports" /\ at[t] \in {"generate", "snapshot", "activate", "persist", "commit"}
  \/ job[t] = "dns" /\ at[t] \in {"update", "updateGenerate", "updateApply", "commit"}
  \/ Accepted(t)
InTrial(t) ==
  \/ job[t] = "ports" /\ at[t] \in {"snapshot", "activate", "persist", "commit"}
  \/ Is(t, "dns", "updateApply")
ChangeIsKept(t) ==
  /\ Kept(t) => t \in Latest("settings")
  /\ Accepted(t) => t \in committed["settings"]
  /\ InTrial(t) => draft["runtime"] # NoDraft /\ t \in draft["runtime"]
  /\ Accepted(t) \/ Is(t, "dns", "commit") => t \in committed["runtime"] /\ t \in Latest("runtime")
ChangesAreKept == \A t \in Tasks : ChangeIsKept(t)

-----------------------------------------------------------------------------
(* What a layer shows is never the empty draft slot. *)
LEMMA LatestIsContents ==
  ASSUME TypeOK
  PROVE  \A l \in Layers, t \in Tasks : Latest(l) # NoDraft /\ Latest(l) \cup {t} # NoDraft
<1>1. \A l \in Layers : Latest(l) \in Contents
  BY DEF TypeOK, Latest
<1> QED
  BY <1>1, NullsAssumption DEF Contents

(* Every step keeps the types. *)
LEMMA NextTypeOK ==
  ASSUME TypeOK, [Next]_vars
  PROVE  TypeOK'
<1> USE NullsAssumption DEF TypeOK, Places, Answers, Layers, Contents, Latest, CoreAfter,
    Takes, Outcomes, taskVars, layerVars, lockVars
<1>1. ASSUME NEW t \in Tasks, Lock(t), UNCHANGED job PROVE TypeOK'
  BY <1>1 DEF Lock, Is, Goto
<1>2. ASSUME NEW t \in Tasks, CommitAll(t), UNCHANGED job PROVE TypeOK'
  BY <1>2 DEF CommitAll, Commit, Apply, Release, Answer, Goto
<1>3. ASSUME NEW t \in Tasks, Restore(t), UNCHANGED job PROVE TypeOK'
  BY <1>3 DEF Restore, RestoreFiles, Answer, Goto
<1>4. ASSUME NEW t \in Tasks, Leave(t), UNCHANGED job PROVE TypeOK'
  BY <1>4 DEF Leave, Goto
<1>5. ASSUME NEW t \in Tasks, Unlock(t), UNCHANGED job PROVE TypeOK'
  BY <1>5 DEF Unlock, Goto
<1>6. ASSUME NEW t \in Tasks, PatchBegin(t), UNCHANGED job PROVE TypeOK'
  BY <1>6 DEF PatchBegin, Is, Claim, Claimable, Goto
<1>7. ASSUME NEW t \in Tasks, PatchRefused(t), UNCHANGED job PROVE TypeOK'
  BY <1>7 DEF PatchRefused, Is, Refuse, Goto, Answer
<1>8. ASSUME NEW t \in Tasks, PatchSnapshot(t), UNCHANGED job PROVE TypeOK'
  BY <1>8 DEF PatchSnapshot, Is, Goto
<1>9. ASSUME NEW t \in Tasks, PatchSnapshotFails(t), UNCHANGED job PROVE TypeOK'
  BY <1>9 DEF PatchSnapshotFails, Is, Rollback, Discard, Release, Answer, Goto
<1>10. ASSUME NEW t \in Tasks, PatchStage(t), UNCHANGED job PROVE TypeOK'
  BY <1>10 DEF PatchStage, Is, Edit, Goto
<1>11. ASSUME NEW t \in Tasks, PatchGenerate(t), UNCHANGED job PROVE TypeOK'
  BY <1>11 DEF PatchGenerate, Is, Edit, Generated, Goto
<1>12. ASSUME NEW t \in Tasks, NEW outcome \in Outcomes, PatchApply(t, outcome), UNCHANGED job PROVE TypeOK'
  BY <1>12 DEF PatchApply, Is, Apply, Goto
<1>13. ASSUME NEW t \in Tasks, PatchFails(t), UNCHANGED job PROVE TypeOK'
  BY <1>13 DEF PatchFails, Goto
<1>14. ASSUME NEW t \in Tasks, PatchSave(t), UNCHANGED job PROVE TypeOK'
  BY <1>14 DEF PatchSave, Goto
<1>15. ASSUME NEW t \in Tasks, PatchUndo(t), UNCHANGED job PROVE TypeOK'
  BY <1>15 DEF PatchUndo, Is, Rollback, Discard, Release, Goto
<1>16. ASSUME NEW t \in Tasks, PortsStage(t), UNCHANGED job PROVE TypeOK'
  BY <1>16 DEF PortsStage, Is, Claim, Claimable, Edit, Goto
<1>17. ASSUME NEW t \in Tasks, PortsRefused(t), UNCHANGED job PROVE TypeOK'
  BY <1>17 DEF PortsRefused, Is, Answer, Goto
<1>18. ASSUME NEW t \in Tasks, PortsGenerate(t), UNCHANGED job PROVE TypeOK'
  BY <1>18 DEF PortsGenerate, Is, Edit, Generated, Goto
<1>19. ASSUME NEW t \in Tasks, PortsRejected(t), UNCHANGED job PROVE TypeOK'
  BY <1>19 DEF PortsRejected, Rollback, Discard, Release, Answer, Goto
<1>20. ASSUME NEW t \in Tasks, PortsSnapshot(t), UNCHANGED job PROVE TypeOK'
  BY <1>20 DEF PortsSnapshot, Is, Goto
<1>21. ASSUME NEW t \in Tasks, NEW outcome \in Outcomes, PortsActivate(t, outcome), UNCHANGED job PROVE TypeOK'
  BY <1>21 DEF PortsActivate, Is, Rollback, Discard, Release, Goto
<1>22. ASSUME NEW t \in Tasks, PortsPersist(t), UNCHANGED job PROVE TypeOK'
  BY <1>22 DEF PortsPersist, Is, Goto
<1>23. ASSUME NEW t \in Tasks, PortsPersistFails(t), UNCHANGED job PROVE TypeOK'
  BY <1>23 DEF PortsPersistFails, Is, Rollback, Discard, Release, Goto
<1>24. ASSUME NEW t \in Tasks, NEW outcome \in Outcomes, PortsRevert(t, outcome), UNCHANGED job PROVE TypeOK'
  BY <1>24 DEF PortsRevert, Is, Answer, Goto
<1>25. ASSUME NEW t \in Tasks, UpdateBegin(t), UNCHANGED job PROVE TypeOK'
  BY <1>25 DEF UpdateBegin, UpdateBegins, Is, Claim, Claimable, Goto
<1>26. ASSUME NEW t \in Tasks, UpdateBusy(t), UNCHANGED job PROVE TypeOK'
  BY <1>26 DEF UpdateBusy, UpdateBegins, Is, Update, Answer, Goto
<1>27. ASSUME NEW t \in Tasks, UpdateGenerate(t), UNCHANGED job PROVE TypeOK'
  BY <1>27 DEF UpdateGenerate, Edit, Generated, Goto
<1>28. ASSUME NEW t \in Tasks, UpdateGenerateFails(t), UNCHANGED job PROVE TypeOK'
  BY <1>28 DEF UpdateGenerateFails, Rollback, Discard, Release, Update, Answer, Goto
<1>29. ASSUME NEW t \in Tasks, NEW outcome \in Outcomes, UpdateApply(t, outcome), UNCHANGED job PROVE TypeOK'
  <2>1. committed' \in [Layers -> Contents] /\ draft' \in [Layers -> Contents \cup {NoDraft}]
    BY <1>29 DEF UpdateApply, Commit, Apply, Rollback, Discard
  <2>2. claimed' \in [Layers -> Tasks \cup {Nobody}]
    BY <1>29 DEF UpdateApply, Commit, Rollback, Release
  <2>3. at' \in [Tasks -> Places] /\ answer' \in [Tasks -> Answers]
    BY <1>29 DEF UpdateApply, Update, Answer, Goto
  <2>4. loaded' \in Contents \cup {NotRunning} /\ loaded' # NoDraft
    BY <1>29 DEF UpdateApply
  <2> QED
    BY <2>1, <2>2, <2>3, <2>4, <1>29 DEF UpdateApply
<1>30. ASSUME NEW t \in Tasks, DnsStage(t), UNCHANGED job PROVE TypeOK'
  BY <1>30 DEF DnsStage, Is, Claim, Claimable, Edit, Goto
<1>31. ASSUME NEW t \in Tasks, DnsRefused(t), UNCHANGED job PROVE TypeOK'
  BY <1>31 DEF DnsRefused, Is, Answer, Goto
<1>32. ASSUME NEW t \in Tasks, DnsCommit(t), UNCHANGED job PROVE TypeOK'
  BY <1>32 DEF DnsCommit, Is, Commit, Apply, Release, Goto
<1>33. ASSUME NEW t \in Tasks, DnsSave(t), UNCHANGED job PROVE TypeOK'
  BY <1>33 DEF DnsSave, Is, Answer, Goto
<1>34. ASSUME NEW t \in Tasks, DnsUndo(t), UNCHANGED job PROVE TypeOK'
  BY <1>34 DEF DnsUndo, Is, Rollback, Discard, Release, Answer, Goto
<1>35. ASSUME NEW t \in Tasks, RestartBegin(t), UNCHANGED job PROVE TypeOK'
  BY <1>35 DEF RestartBegin, Is, Goto
<1>36. ASSUME NEW t \in Tasks, FlagRefused(t), UNCHANGED job PROVE TypeOK'
  BY <1>36 DEF FlagRefused, Refuse, Answer, Goto
<1>37. ASSUME NEW t \in Tasks, NEW outcome \in Outcomes, RestartCore(t, outcome), UNCHANGED job PROVE TypeOK'
  BY <1>37 DEF RestartCore, Is, Answer, Goto
<1>38. ASSUME NEW t \in Tasks, SettleBegin(t), UNCHANGED job PROVE TypeOK'
  BY <1>38 DEF SettleBegin, Is, Goto
<1>39. ASSUME NEW t \in Tasks, SettleWriteOff(t), UNCHANGED job PROVE TypeOK'
  BY <1>39 DEF SettleWriteOff, Is, Edit, Goto
<1>40. ASSUME NEW t \in Tasks, SettleApply(t), UNCHANGED job PROVE TypeOK'
  BY <1>40 DEF SettleApply, Is, Apply, Goto
<1>41. ASSUME NEW t \in Tasks, SettleSave(t), UNCHANGED job PROVE TypeOK'
  BY <1>41 DEF SettleSave, Is, Goto
<1>42. ASSUME NEW t \in Tasks, SettleGenerate(t), UNCHANGED job PROVE TypeOK'
  BY <1>42 DEF SettleGenerate, Is, Edit, Generated, Goto
<1>43. ASSUME NEW t \in Tasks, SettleFails(t), UNCHANGED job PROVE TypeOK'
  BY <1>43 DEF SettleFails, Answer, Goto
<1>44. ASSUME NEW t \in Tasks, SettleStart(t), UNCHANGED job PROVE TypeOK'
  BY <1>44 DEF SettleStart, Is, Answer, Goto
<1>45. ASSUME NEW t \in Tasks, LegacyEdit(t), UNCHANGED job PROVE TypeOK'
  BY <1>45 DEF LegacyEdit, Is, Edit, Goto
<1>46. ASSUME NEW t \in Tasks, LegacyApply(t), UNCHANGED job PROVE TypeOK'
  BY <1>46 DEF LegacyApply, Is, Apply, Goto
<1>47. ASSUME NEW t \in Tasks, LegacySave(t), UNCHANGED job PROVE TypeOK'
  BY <1>47 DEF LegacySave, Is, Answer, Goto
<1>48. CASE UNCHANGED vars
  BY <1>48 DEF vars
<1> HIDE NullsAssumption
<1> HIDE DEF TypeOK, Places, Answers, Layers, Contents, Latest, CoreAfter, Takes, Outcomes,
    taskVars, layerVars, lockVars
<1> QED
  BY <1>1, <1>2, <1>3, <1>4, <1>5, <1>6, <1>7, <1>8, <1>9, <1>10, <1>11, <1>12, <1>13,
      <1>14, <1>15, <1>16, <1>17, <1>18, <1>19, <1>20, <1>21, <1>22, <1>23, <1>24, <1>25,
      <1>26, <1>27, <1>28, <1>29, <1>30, <1>31, <1>32, <1>33, <1>34, <1>35, <1>36, <1>37,
      <1>38, <1>39, <1>40, <1>41, <1>42, <1>43, <1>44, <1>45, <1>46, <1>47, <1>48 DEF Next,
      Step, Patch, Ports, Refresh, Dns, Restart, Settle, Legacy, Finished

(* Every step takes, holds and gives up the locks at the places of its request. *)
LEMMA NextDiscipline ==
  ASSUME TypeOK, Discipline, [Next]_vars
  PROVE  Discipline'
<1> USE NullsAssumption DEF Discipline, Routes, Locked, Updating, Staging, Trying, TypeOK,
    Layers, taskVars, layerVars, lockVars
<1>1. ASSUME NEW t \in Tasks, Lock(t), UNCHANGED job PROVE Discipline'
  BY <1>1 DEF Lock, Is, Goto
<1>2. ASSUME NEW t \in Tasks, CommitAll(t), UNCHANGED job PROVE Discipline'
  BY <1>2 DEF CommitAll, Commit, Apply, Release, Answer, Goto
<1>3. ASSUME NEW t \in Tasks, Restore(t), UNCHANGED job PROVE Discipline'
  BY <1>3 DEF Restore, RestoreFiles, Answer, Goto
<1>4. ASSUME NEW t \in Tasks, Leave(t), UNCHANGED job PROVE Discipline'
  <2>1. job[t] \in {"patch", "ports", "settle"} /\ at[t] = "leave"
    BY <1>4 DEF Leave, AllJobs
  <2>2. Updating(t) /\ Locked(t) /\ ~Staging(t) /\ ~Trying(t)
    BY <2>1
  <2>3. \A u \in Tasks \ {t} : ~Updating(u) /\ ~Locked(u)
    <3>1. writeLock = t
      BY <2>2
    <3>2. \A u \in Tasks : Updating(u) => u = t
      BY <2>2
    <3> QED
      BY <3>1, <3>2
  <2>4. \A u \in Tasks \ {t} : at'[u] = at[u]
    BY <1>4 DEF Leave, Goto
  <2>5. at'[t] = "done"
    BY <1>4 DEF Leave, Goto
  <2>6. \A u \in Tasks : ~Locked(u)' /\ ~Updating(u)'
    BY <1>4, <2>3, <2>4, <2>5
  <2>7. \A u \in Tasks : (Staging(u)' <=> Staging(u)) /\ (Trying(u)' <=> Trying(u))
    BY <1>4, <2>2, <2>4, <2>5
  <2>8. Routes'
    BY <1>4, <2>4, <2>5
  <2> QED
    BY <1>4, <2>6, <2>7, <2>8 DEF Leave, layerVars
<1>5. ASSUME NEW t \in Tasks, Unlock(t), UNCHANGED job PROVE Discipline'
  <2>1. job[t] \in {"ports", "dns"} /\ at[t] = "unlock"
    BY <1>5 DEF Unlock, AllJobs
  <2>2. Locked(t) /\ ~Staging(t) /\ ~Trying(t) /\ ~Updating(t)
    BY <2>1
  <2>3. \A u \in Tasks \ {t} : ~Locked(u)
    BY <2>2
  <2>4. \A u \in Tasks \ {t} : at'[u] = at[u]
    BY <1>5 DEF Unlock, Goto
  <2>5. at'[t] = "done"
    BY <1>5 DEF Unlock, Goto
  <2>6. \A u \in Tasks : ~Locked(u)'
    BY <1>5, <2>3, <2>4, <2>5
  <2>7. \A u \in Tasks : /\ Staging(u)' <=> Staging(u)
                         /\ Trying(u)' <=> Trying(u)
                         /\ Updating(u)' <=> Updating(u)
    BY <1>5, <2>2, <2>4, <2>5
  <2>8. Routes'
    BY <1>5, <2>1, <2>4, <2>5
  <2>9. writeLock' = Nobody /\ updating' = updating /\ claimed' = claimed
    BY <1>5 DEF Unlock, layerVars
  <2> QED
    BY <2>6, <2>7, <2>8, <2>9
<1>6. ASSUME NEW t \in Tasks, PatchBegin(t), UNCHANGED job PROVE Discipline'
  BY <1>6 DEF PatchBegin, Is, Claim, Claimable, Goto
<1>7. ASSUME NEW t \in Tasks, PatchRefused(t), UNCHANGED job PROVE Discipline'
  BY <1>7 DEF PatchRefused, Is, Refuse, Goto, Answer
<1>8. ASSUME NEW t \in Tasks, PatchSnapshot(t), UNCHANGED job PROVE Discipline'
  BY <1>8 DEF PatchSnapshot, Is, Goto
<1>9. ASSUME NEW t \in Tasks, PatchSnapshotFails(t), UNCHANGED job PROVE Discipline'
  BY <1>9 DEF PatchSnapshotFails, Is, Rollback, Discard, Release, Answer, Goto
<1>10. ASSUME NEW t \in Tasks, PatchStage(t), UNCHANGED job PROVE Discipline'
  BY <1>10 DEF PatchStage, Is, Edit, Goto
<1>11. ASSUME NEW t \in Tasks, PatchGenerate(t), UNCHANGED job PROVE Discipline'
  BY <1>11 DEF PatchGenerate, Is, Edit, Generated, Goto
<1>12. ASSUME NEW t \in Tasks, NEW outcome \in Outcomes, PatchApply(t, outcome), UNCHANGED job PROVE Discipline'
  BY <1>12 DEF PatchApply, Is, Apply, Goto
<1>13. ASSUME NEW t \in Tasks, PatchFails(t), UNCHANGED job PROVE Discipline'
  BY <1>13 DEF PatchFails, Goto
<1>14. ASSUME NEW t \in Tasks, PatchSave(t), UNCHANGED job PROVE Discipline'
  BY <1>14 DEF PatchSave, Goto
<1>15. ASSUME NEW t \in Tasks, PatchUndo(t), UNCHANGED job PROVE Discipline'
  BY <1>15 DEF PatchUndo, Is, Rollback, Discard, Release, Goto
<1>16. ASSUME NEW t \in Tasks, PortsStage(t), UNCHANGED job PROVE Discipline'
  BY <1>16 DEF PortsStage, Is, Claim, Claimable, Edit, Goto
<1>17. ASSUME NEW t \in Tasks, PortsRefused(t), UNCHANGED job PROVE Discipline'
  BY <1>17 DEF PortsRefused, Is, Answer, Goto
<1>18. ASSUME NEW t \in Tasks, PortsGenerate(t), UNCHANGED job PROVE Discipline'
  BY <1>18 DEF PortsGenerate, Is, Edit, Generated, Goto
<1>19. ASSUME NEW t \in Tasks, PortsRejected(t), UNCHANGED job PROVE Discipline'
  BY <1>19 DEF PortsRejected, Rollback, Discard, Release, Answer, Goto
<1>20. ASSUME NEW t \in Tasks, PortsSnapshot(t), UNCHANGED job PROVE Discipline'
  BY <1>20 DEF PortsSnapshot, Is, Goto
<1>21. ASSUME NEW t \in Tasks, NEW outcome \in Outcomes, PortsActivate(t, outcome), UNCHANGED job PROVE Discipline'
  BY <1>21 DEF PortsActivate, Is, Rollback, Discard, Release, Goto
<1>22. ASSUME NEW t \in Tasks, PortsPersist(t), UNCHANGED job PROVE Discipline'
  BY <1>22 DEF PortsPersist, Is, Goto
<1>23. ASSUME NEW t \in Tasks, PortsPersistFails(t), UNCHANGED job PROVE Discipline'
  BY <1>23 DEF PortsPersistFails, Is, Rollback, Discard, Release, Goto
<1>24. ASSUME NEW t \in Tasks, NEW outcome \in Outcomes, PortsRevert(t, outcome), UNCHANGED job PROVE Discipline'
  BY <1>24 DEF PortsRevert, Is, Answer, Goto
<1>25. ASSUME NEW t \in Tasks, UpdateBegin(t), UNCHANGED job PROVE Discipline'
  BY <1>25 DEF UpdateBegin, UpdateBegins, Is, Claim, Claimable, Goto
<1>26. ASSUME NEW t \in Tasks, UpdateBusy(t), UNCHANGED job PROVE Discipline'
  BY <1>26 DEF UpdateBusy, UpdateBegins, Is, Update, Answer, Goto
<1>27. ASSUME NEW t \in Tasks, UpdateGenerate(t), UNCHANGED job PROVE Discipline'
  BY <1>27 DEF UpdateGenerate, Edit, Generated, Goto
<1>28. ASSUME NEW t \in Tasks, UpdateGenerateFails(t), UNCHANGED job PROVE Discipline'
  BY <1>28 DEF UpdateGenerateFails, Rollback, Discard, Release, Update, Answer, Goto
<1>29. ASSUME NEW t \in Tasks, NEW outcome \in Outcomes, UpdateApply(t, outcome), UNCHANGED job PROVE Discipline'
  BY <1>29 DEF UpdateApply, Commit, Apply, Rollback, Discard, Release, Update, Answer, Goto
<1>30. ASSUME NEW t \in Tasks, DnsStage(t), UNCHANGED job PROVE Discipline'
  BY <1>30 DEF DnsStage, Is, Claim, Claimable, Edit, Goto
<1>31. ASSUME NEW t \in Tasks, DnsRefused(t), UNCHANGED job PROVE Discipline'
  BY <1>31 DEF DnsRefused, Is, Answer, Goto
<1>32. ASSUME NEW t \in Tasks, DnsCommit(t), UNCHANGED job PROVE Discipline'
  BY <1>32 DEF DnsCommit, Is, Commit, Apply, Release, Goto
<1>33. ASSUME NEW t \in Tasks, DnsSave(t), UNCHANGED job PROVE Discipline'
  BY <1>33 DEF DnsSave, Is, Answer, Goto
<1>34. ASSUME NEW t \in Tasks, DnsUndo(t), UNCHANGED job PROVE Discipline'
  BY <1>34 DEF DnsUndo, Is, Rollback, Discard, Release, Answer, Goto
<1>35. ASSUME NEW t \in Tasks, RestartBegin(t), UNCHANGED job PROVE Discipline'
  BY <1>35 DEF RestartBegin, Is, Goto
<1>36. ASSUME NEW t \in Tasks, FlagRefused(t), UNCHANGED job PROVE Discipline'
  BY <1>36 DEF FlagRefused, Refuse, Answer, Goto
<1>37. ASSUME NEW t \in Tasks, NEW outcome \in Outcomes, RestartCore(t, outcome), UNCHANGED job PROVE Discipline'
  BY <1>37 DEF RestartCore, Is, Answer, Goto
<1>38. ASSUME NEW t \in Tasks, SettleBegin(t), UNCHANGED job PROVE Discipline'
  BY <1>38 DEF SettleBegin, Is, Goto
<1>39. ASSUME NEW t \in Tasks, SettleWriteOff(t), UNCHANGED job PROVE Discipline'
  BY <1>39 DEF SettleWriteOff, Is, Edit, Goto
<1>40. ASSUME NEW t \in Tasks, SettleApply(t), UNCHANGED job PROVE Discipline'
  BY <1>40 DEF SettleApply, Is, Apply, Goto
<1>41. ASSUME NEW t \in Tasks, SettleSave(t), UNCHANGED job PROVE Discipline'
  BY <1>41 DEF SettleSave, Is, Goto
<1>42. ASSUME NEW t \in Tasks, SettleGenerate(t), UNCHANGED job PROVE Discipline'
  BY <1>42 DEF SettleGenerate, Is, Edit, Generated, Goto
<1>43. ASSUME NEW t \in Tasks, SettleFails(t), UNCHANGED job PROVE Discipline'
  BY <1>43 DEF SettleFails, Answer, Goto
<1>44. ASSUME NEW t \in Tasks, SettleStart(t), UNCHANGED job PROVE Discipline'
  BY <1>44 DEF SettleStart, Is, Answer, Goto
<1>45. ASSUME NEW t \in Tasks, LegacyEdit(t), UNCHANGED job PROVE Discipline'
  BY <1>45 DEF LegacyEdit, Is, Edit, Goto
<1>46. ASSUME NEW t \in Tasks, LegacyApply(t), UNCHANGED job PROVE Discipline'
  BY <1>46 DEF LegacyApply, Is, Apply, Goto
<1>47. ASSUME NEW t \in Tasks, LegacySave(t), UNCHANGED job PROVE Discipline'
  BY <1>47 DEF LegacySave, Is, Answer, Goto
<1>48. CASE UNCHANGED vars
  BY <1>48 DEF vars
<1> HIDE NullsAssumption
<1> HIDE DEF Discipline, Routes, Locked, Updating, Staging, Trying, TypeOK, Layers,
    taskVars, layerVars, lockVars
<1> QED
  BY <1>1, <1>2, <1>3, <1>4, <1>5, <1>6, <1>7, <1>8, <1>9, <1>10, <1>11, <1>12, <1>13,
      <1>14, <1>15, <1>16, <1>17, <1>18, <1>19, <1>20, <1>21, <1>22, <1>23, <1>24, <1>25,
      <1>26, <1>27, <1>28, <1>29, <1>30, <1>31, <1>32, <1>33, <1>34, <1>35, <1>36, <1>37,
      <1>38, <1>39, <1>40, <1>41, <1>42, <1>43, <1>44, <1>45, <1>46, <1>47, <1>48 DEF Next,
      Step, Patch, Ports, Refresh, Dns, Restart, Settle, Legacy, Finished

(* A draft of the settings appears and goes with the place of its claimant. *)
LEMMA NextDraft ==
  ASSUME TypeOK, Discipline, DraftIsStaged, [Next]_vars
  PROVE  DraftIsStaged'
<1> USE NullsAssumption DEF Discipline, Routes, Locked, Updating, Staging, Trying, TypeOK,
    Layers, DraftIsStaged, NoneAsks, Staged, WritesOff, Is, Latest, Contents, taskVars,
    layerVars, lockVars
<1>1. ASSUME NEW t \in Tasks, Lock(t), UNCHANGED job PROVE DraftIsStaged'
  BY <1>1 DEF Lock, Is, Goto
<1>2. ASSUME NEW t \in Tasks, CommitAll(t), UNCHANGED job PROVE DraftIsStaged'
  BY <1>2 DEF CommitAll, Commit, Apply, Release, Answer, Goto
<1>3. ASSUME NEW t \in Tasks, Restore(t), UNCHANGED job PROVE DraftIsStaged'
  BY <1>3 DEF Restore, RestoreFiles, Answer, Goto
<1>4. ASSUME NEW t \in Tasks, Leave(t), UNCHANGED job PROVE DraftIsStaged'
  BY <1>4 DEF Leave, Goto
<1>5. ASSUME NEW t \in Tasks, Unlock(t), UNCHANGED job PROVE DraftIsStaged'
  BY <1>5 DEF Unlock, Goto
<1>6. ASSUME NEW t \in Tasks, PatchBegin(t), UNCHANGED job PROVE DraftIsStaged'
  BY <1>6 DEF PatchBegin, Is, Claim, Claimable, Goto
<1>7. ASSUME NEW t \in Tasks, PatchRefused(t), UNCHANGED job PROVE DraftIsStaged'
  BY <1>7 DEF PatchRefused, Is, Refuse, Goto, Answer
<1>8. ASSUME NEW t \in Tasks, PatchSnapshot(t), UNCHANGED job PROVE DraftIsStaged'
  BY <1>8 DEF PatchSnapshot, Is, Goto
<1>9. ASSUME NEW t \in Tasks, PatchSnapshotFails(t), UNCHANGED job PROVE DraftIsStaged'
  BY <1>9 DEF PatchSnapshotFails, Is, Rollback, Discard, Release, Answer, Goto
<1>10. ASSUME NEW t \in Tasks, PatchStage(t), UNCHANGED job PROVE DraftIsStaged'
  BY <1>10 DEF PatchStage, Is, Edit, Goto
<1>11. ASSUME NEW t \in Tasks, PatchGenerate(t), UNCHANGED job PROVE DraftIsStaged'
  BY <1>11 DEF PatchGenerate, Is, Edit, Generated, Goto
<1>12. ASSUME NEW t \in Tasks, NEW outcome \in Outcomes, PatchApply(t, outcome), UNCHANGED job PROVE DraftIsStaged'
  BY <1>12 DEF PatchApply, Is, Apply, Goto
<1>13. ASSUME NEW t \in Tasks, PatchFails(t), UNCHANGED job PROVE DraftIsStaged'
  BY <1>13 DEF PatchFails, Goto
<1>14. ASSUME NEW t \in Tasks, PatchSave(t), UNCHANGED job PROVE DraftIsStaged'
  BY <1>14 DEF PatchSave, Goto
<1>15. ASSUME NEW t \in Tasks, PatchUndo(t), UNCHANGED job PROVE DraftIsStaged'
  BY <1>15 DEF PatchUndo, Is, Rollback, Discard, Release, Goto
<1>16. ASSUME NEW t \in Tasks, PortsStage(t), UNCHANGED job PROVE DraftIsStaged'
  BY <1>16 DEF PortsStage, Is, Claim, Claimable, Edit, Goto
<1>17. ASSUME NEW t \in Tasks, PortsRefused(t), UNCHANGED job PROVE DraftIsStaged'
  BY <1>17 DEF PortsRefused, Is, Answer, Goto
<1>18. ASSUME NEW t \in Tasks, PortsGenerate(t), UNCHANGED job PROVE DraftIsStaged'
  BY <1>18 DEF PortsGenerate, Is, Edit, Generated, Goto
<1>19. ASSUME NEW t \in Tasks, PortsRejected(t), UNCHANGED job PROVE DraftIsStaged'
  BY <1>19 DEF PortsRejected, Rollback, Discard, Release, Answer, Goto
<1>20. ASSUME NEW t \in Tasks, PortsSnapshot(t), UNCHANGED job PROVE DraftIsStaged'
  BY <1>20 DEF PortsSnapshot, Is, Goto
<1>21. ASSUME NEW t \in Tasks, NEW outcome \in Outcomes, PortsActivate(t, outcome), UNCHANGED job PROVE DraftIsStaged'
  BY <1>21 DEF PortsActivate, Is, Rollback, Discard, Release, Goto
<1>22. ASSUME NEW t \in Tasks, PortsPersist(t), UNCHANGED job PROVE DraftIsStaged'
  BY <1>22 DEF PortsPersist, Is, Goto
<1>23. ASSUME NEW t \in Tasks, PortsPersistFails(t), UNCHANGED job PROVE DraftIsStaged'
  BY <1>23 DEF PortsPersistFails, Is, Rollback, Discard, Release, Goto
<1>24. ASSUME NEW t \in Tasks, NEW outcome \in Outcomes, PortsRevert(t, outcome), UNCHANGED job PROVE DraftIsStaged'
  BY <1>24 DEF PortsRevert, Is, Answer, Goto
<1>25. ASSUME NEW t \in Tasks, UpdateBegin(t), UNCHANGED job PROVE DraftIsStaged'
  BY <1>25 DEF UpdateBegin, UpdateBegins, Is, Claim, Claimable, Goto
<1>26. ASSUME NEW t \in Tasks, UpdateBusy(t), UNCHANGED job PROVE DraftIsStaged'
  BY <1>26 DEF UpdateBusy, UpdateBegins, Is, Update, Answer, Goto
<1>27. ASSUME NEW t \in Tasks, UpdateGenerate(t), UNCHANGED job PROVE DraftIsStaged'
  BY <1>27 DEF UpdateGenerate, Edit, Generated, Goto
<1>28. ASSUME NEW t \in Tasks, UpdateGenerateFails(t), UNCHANGED job PROVE DraftIsStaged'
  BY <1>28 DEF UpdateGenerateFails, Rollback, Discard, Release, Update, Answer, Goto
<1>29. ASSUME NEW t \in Tasks, NEW outcome \in Outcomes, UpdateApply(t, outcome), UNCHANGED job PROVE DraftIsStaged'
  BY <1>29 DEF UpdateApply, Commit, Apply, Rollback, Discard, Release, Update, Answer, Goto
<1>30. ASSUME NEW t \in Tasks, DnsStage(t), UNCHANGED job PROVE DraftIsStaged'
  BY <1>30 DEF DnsStage, Is, Claim, Claimable, Edit, Goto
<1>31. ASSUME NEW t \in Tasks, DnsRefused(t), UNCHANGED job PROVE DraftIsStaged'
  BY <1>31 DEF DnsRefused, Is, Answer, Goto
<1>32. ASSUME NEW t \in Tasks, DnsCommit(t), UNCHANGED job PROVE DraftIsStaged'
  BY <1>32 DEF DnsCommit, Is, Commit, Apply, Release, Goto
<1>33. ASSUME NEW t \in Tasks, DnsSave(t), UNCHANGED job PROVE DraftIsStaged'
  BY <1>33 DEF DnsSave, Is, Answer, Goto
<1>34. ASSUME NEW t \in Tasks, DnsUndo(t), UNCHANGED job PROVE DraftIsStaged'
  BY <1>34 DEF DnsUndo, Is, Rollback, Discard, Release, Answer, Goto
<1>35. ASSUME NEW t \in Tasks, RestartBegin(t), UNCHANGED job PROVE DraftIsStaged'
  BY <1>35 DEF RestartBegin, Is, Goto
<1>36. ASSUME NEW t \in Tasks, FlagRefused(t), UNCHANGED job PROVE DraftIsStaged'
  BY <1>36 DEF FlagRefused, Refuse, Answer, Goto
<1>37. ASSUME NEW t \in Tasks, NEW outcome \in Outcomes, RestartCore(t, outcome), UNCHANGED job PROVE DraftIsStaged'
  BY <1>37 DEF RestartCore, Is, Answer, Goto
<1>38. ASSUME NEW t \in Tasks, SettleBegin(t), UNCHANGED job PROVE DraftIsStaged'
  BY <1>38 DEF SettleBegin, Is, Goto
<1>39. ASSUME NEW t \in Tasks, SettleWriteOff(t), UNCHANGED job PROVE DraftIsStaged'
  BY <1>39 DEF SettleWriteOff, Is, Edit, Goto
<1>40. ASSUME NEW t \in Tasks, SettleApply(t), UNCHANGED job PROVE DraftIsStaged'
  BY <1>40 DEF SettleApply, Is, Apply, Goto
<1>41. ASSUME NEW t \in Tasks, SettleSave(t), UNCHANGED job PROVE DraftIsStaged'
  BY <1>41 DEF SettleSave, Is, Goto
<1>42. ASSUME NEW t \in Tasks, SettleGenerate(t), UNCHANGED job PROVE DraftIsStaged'
  BY <1>42 DEF SettleGenerate, Is, Edit, Generated, Goto
<1>43. ASSUME NEW t \in Tasks, SettleFails(t), UNCHANGED job PROVE DraftIsStaged'
  BY <1>43 DEF SettleFails, Answer, Goto
<1>44. ASSUME NEW t \in Tasks, SettleStart(t), UNCHANGED job PROVE DraftIsStaged'
  BY <1>44 DEF SettleStart, Is, Answer, Goto
<1>45. ASSUME NEW t \in Tasks, LegacyEdit(t), UNCHANGED job PROVE DraftIsStaged'
  BY <1>45 DEF LegacyEdit, Is, Edit, Goto
<1>46. ASSUME NEW t \in Tasks, LegacyApply(t), UNCHANGED job PROVE DraftIsStaged'
  BY <1>46 DEF LegacyApply, Is, Apply, Goto
<1>47. ASSUME NEW t \in Tasks, LegacySave(t), UNCHANGED job PROVE DraftIsStaged'
  BY <1>47 DEF LegacySave, Is, Answer, Goto
<1>48. CASE UNCHANGED vars
  BY <1>48 DEF vars
<1> HIDE NullsAssumption
<1> HIDE DEF Discipline, Routes, Locked, Updating, Staging, Trying, TypeOK, Layers,
    DraftIsStaged, NoneAsks, Staged, WritesOff, Is, Latest, Contents, taskVars, layerVars,
    lockVars
<1> QED
  BY <1>1, <1>2, <1>3, <1>4, <1>5, <1>6, <1>7, <1>8, <1>9, <1>10, <1>11, <1>12, <1>13,
      <1>14, <1>15, <1>16, <1>17, <1>18, <1>19, <1>20, <1>21, <1>22, <1>23, <1>24, <1>25,
      <1>26, <1>27, <1>28, <1>29, <1>30, <1>31, <1>32, <1>33, <1>34, <1>35, <1>36, <1>37,
      <1>38, <1>39, <1>40, <1>41, <1>42, <1>43, <1>44, <1>45, <1>46, <1>47, <1>48 DEF Next,
      Step, Patch, Ports, Refresh, Dns, Restart, Settle, Legacy, Finished

(* No step goes on after its answer. *)
LEMMA NextAnswers ==
  ASSUME TypeOK, Discipline, AnsweredAtTheEnd, [Next]_vars
  PROVE  AnsweredAtTheEnd'
<1> USE NullsAssumption DEF Routes, Discipline, TypeOK, Layers, AnsweredAtTheEnd, taskVars,
    layerVars, lockVars
<1>1. ASSUME NEW t \in Tasks, Lock(t), UNCHANGED job PROVE AnsweredAtTheEnd'
  BY <1>1 DEF Lock, Is, Goto
<1>2. ASSUME NEW t \in Tasks, CommitAll(t), UNCHANGED job PROVE AnsweredAtTheEnd'
  BY <1>2 DEF CommitAll, Commit, Apply, Release, Answer, Goto
<1>3. ASSUME NEW t \in Tasks, Restore(t), UNCHANGED job PROVE AnsweredAtTheEnd'
  BY <1>3 DEF Restore, RestoreFiles, Answer, Goto
<1>4. ASSUME NEW t \in Tasks, Leave(t), UNCHANGED job PROVE AnsweredAtTheEnd'
  BY <1>4 DEF Leave, Goto
<1>5. ASSUME NEW t \in Tasks, Unlock(t), UNCHANGED job PROVE AnsweredAtTheEnd'
  BY <1>5 DEF Unlock, Goto
<1>6. ASSUME NEW t \in Tasks, PatchBegin(t), UNCHANGED job PROVE AnsweredAtTheEnd'
  BY <1>6 DEF PatchBegin, Is, Claim, Claimable, Goto
<1>7. ASSUME NEW t \in Tasks, PatchRefused(t), UNCHANGED job PROVE AnsweredAtTheEnd'
  BY <1>7 DEF PatchRefused, Is, Refuse, Goto, Answer
<1>8. ASSUME NEW t \in Tasks, PatchSnapshot(t), UNCHANGED job PROVE AnsweredAtTheEnd'
  BY <1>8 DEF PatchSnapshot, Is, Goto
<1>9. ASSUME NEW t \in Tasks, PatchSnapshotFails(t), UNCHANGED job PROVE AnsweredAtTheEnd'
  BY <1>9 DEF PatchSnapshotFails, Is, Rollback, Discard, Release, Answer, Goto
<1>10. ASSUME NEW t \in Tasks, PatchStage(t), UNCHANGED job PROVE AnsweredAtTheEnd'
  BY <1>10 DEF PatchStage, Is, Edit, Goto
<1>11. ASSUME NEW t \in Tasks, PatchGenerate(t), UNCHANGED job PROVE AnsweredAtTheEnd'
  BY <1>11 DEF PatchGenerate, Is, Edit, Generated, Goto
<1>12. ASSUME NEW t \in Tasks, NEW outcome \in Outcomes, PatchApply(t, outcome), UNCHANGED job PROVE AnsweredAtTheEnd'
  BY <1>12 DEF PatchApply, Is, Apply, Goto
<1>13. ASSUME NEW t \in Tasks, PatchFails(t), UNCHANGED job PROVE AnsweredAtTheEnd'
  BY <1>13 DEF PatchFails, Goto
<1>14. ASSUME NEW t \in Tasks, PatchSave(t), UNCHANGED job PROVE AnsweredAtTheEnd'
  BY <1>14 DEF PatchSave, Goto
<1>15. ASSUME NEW t \in Tasks, PatchUndo(t), UNCHANGED job PROVE AnsweredAtTheEnd'
  BY <1>15 DEF PatchUndo, Is, Rollback, Discard, Release, Goto
<1>16. ASSUME NEW t \in Tasks, PortsStage(t), UNCHANGED job PROVE AnsweredAtTheEnd'
  BY <1>16 DEF PortsStage, Is, Claim, Claimable, Edit, Goto
<1>17. ASSUME NEW t \in Tasks, PortsRefused(t), UNCHANGED job PROVE AnsweredAtTheEnd'
  BY <1>17 DEF PortsRefused, Is, Answer, Goto
<1>18. ASSUME NEW t \in Tasks, PortsGenerate(t), UNCHANGED job PROVE AnsweredAtTheEnd'
  BY <1>18 DEF PortsGenerate, Is, Edit, Generated, Goto
<1>19. ASSUME NEW t \in Tasks, PortsRejected(t), UNCHANGED job PROVE AnsweredAtTheEnd'
  BY <1>19 DEF PortsRejected, Rollback, Discard, Release, Answer, Goto
<1>20. ASSUME NEW t \in Tasks, PortsSnapshot(t), UNCHANGED job PROVE AnsweredAtTheEnd'
  BY <1>20 DEF PortsSnapshot, Is, Goto
<1>21. ASSUME NEW t \in Tasks, NEW outcome \in Outcomes, PortsActivate(t, outcome), UNCHANGED job PROVE AnsweredAtTheEnd'
  BY <1>21 DEF PortsActivate, Is, Rollback, Discard, Release, Goto
<1>22. ASSUME NEW t \in Tasks, PortsPersist(t), UNCHANGED job PROVE AnsweredAtTheEnd'
  BY <1>22 DEF PortsPersist, Is, Goto
<1>23. ASSUME NEW t \in Tasks, PortsPersistFails(t), UNCHANGED job PROVE AnsweredAtTheEnd'
  BY <1>23 DEF PortsPersistFails, Is, Rollback, Discard, Release, Goto
<1>24. ASSUME NEW t \in Tasks, NEW outcome \in Outcomes, PortsRevert(t, outcome), UNCHANGED job PROVE AnsweredAtTheEnd'
  BY <1>24 DEF PortsRevert, Is, Answer, Goto
<1>25. ASSUME NEW t \in Tasks, UpdateBegin(t), UNCHANGED job PROVE AnsweredAtTheEnd'
  BY <1>25 DEF UpdateBegin, UpdateBegins, Is, Claim, Claimable, Goto
<1>26. ASSUME NEW t \in Tasks, UpdateBusy(t), UNCHANGED job PROVE AnsweredAtTheEnd'
  BY <1>26 DEF UpdateBusy, UpdateBegins, Is, Update, Answer, Goto
<1>27. ASSUME NEW t \in Tasks, UpdateGenerate(t), UNCHANGED job PROVE AnsweredAtTheEnd'
  BY <1>27 DEF UpdateGenerate, Edit, Generated, Goto
<1>28. ASSUME NEW t \in Tasks, UpdateGenerateFails(t), UNCHANGED job PROVE AnsweredAtTheEnd'
  BY <1>28 DEF UpdateGenerateFails, Rollback, Discard, Release, Update, Answer, Goto
<1>29. ASSUME NEW t \in Tasks, NEW outcome \in Outcomes, UpdateApply(t, outcome), UNCHANGED job PROVE AnsweredAtTheEnd'
  BY <1>29 DEF UpdateApply, Commit, Apply, Rollback, Discard, Release, Update, Answer, Goto
<1>30. ASSUME NEW t \in Tasks, DnsStage(t), UNCHANGED job PROVE AnsweredAtTheEnd'
  BY <1>30 DEF DnsStage, Is, Claim, Claimable, Edit, Goto
<1>31. ASSUME NEW t \in Tasks, DnsRefused(t), UNCHANGED job PROVE AnsweredAtTheEnd'
  BY <1>31 DEF DnsRefused, Is, Answer, Goto
<1>32. ASSUME NEW t \in Tasks, DnsCommit(t), UNCHANGED job PROVE AnsweredAtTheEnd'
  BY <1>32 DEF DnsCommit, Is, Commit, Apply, Release, Goto
<1>33. ASSUME NEW t \in Tasks, DnsSave(t), UNCHANGED job PROVE AnsweredAtTheEnd'
  BY <1>33 DEF DnsSave, Is, Answer, Goto
<1>34. ASSUME NEW t \in Tasks, DnsUndo(t), UNCHANGED job PROVE AnsweredAtTheEnd'
  BY <1>34 DEF DnsUndo, Is, Rollback, Discard, Release, Answer, Goto
<1>35. ASSUME NEW t \in Tasks, RestartBegin(t), UNCHANGED job PROVE AnsweredAtTheEnd'
  BY <1>35 DEF RestartBegin, Is, Goto
<1>36. ASSUME NEW t \in Tasks, FlagRefused(t), UNCHANGED job PROVE AnsweredAtTheEnd'
  BY <1>36 DEF FlagRefused, Refuse, Answer, Goto
<1>37. ASSUME NEW t \in Tasks, NEW outcome \in Outcomes, RestartCore(t, outcome), UNCHANGED job PROVE AnsweredAtTheEnd'
  BY <1>37 DEF RestartCore, Is, Answer, Goto
<1>38. ASSUME NEW t \in Tasks, SettleBegin(t), UNCHANGED job PROVE AnsweredAtTheEnd'
  BY <1>38 DEF SettleBegin, Is, Goto
<1>39. ASSUME NEW t \in Tasks, SettleWriteOff(t), UNCHANGED job PROVE AnsweredAtTheEnd'
  BY <1>39 DEF SettleWriteOff, Is, Edit, Goto
<1>40. ASSUME NEW t \in Tasks, SettleApply(t), UNCHANGED job PROVE AnsweredAtTheEnd'
  BY <1>40 DEF SettleApply, Is, Apply, Goto
<1>41. ASSUME NEW t \in Tasks, SettleSave(t), UNCHANGED job PROVE AnsweredAtTheEnd'
  BY <1>41 DEF SettleSave, Is, Goto
<1>42. ASSUME NEW t \in Tasks, SettleGenerate(t), UNCHANGED job PROVE AnsweredAtTheEnd'
  BY <1>42 DEF SettleGenerate, Is, Edit, Generated, Goto
<1>43. ASSUME NEW t \in Tasks, SettleFails(t), UNCHANGED job PROVE AnsweredAtTheEnd'
  BY <1>43 DEF SettleFails, Answer, Goto
<1>44. ASSUME NEW t \in Tasks, SettleStart(t), UNCHANGED job PROVE AnsweredAtTheEnd'
  BY <1>44 DEF SettleStart, Is, Answer, Goto
<1>45. ASSUME NEW t \in Tasks, LegacyEdit(t), UNCHANGED job PROVE AnsweredAtTheEnd'
  BY <1>45 DEF LegacyEdit, Is, Edit, Goto
<1>46. ASSUME NEW t \in Tasks, LegacyApply(t), UNCHANGED job PROVE AnsweredAtTheEnd'
  BY <1>46 DEF LegacyApply, Is, Apply, Goto
<1>47. ASSUME NEW t \in Tasks, LegacySave(t), UNCHANGED job PROVE AnsweredAtTheEnd'
  BY <1>47 DEF LegacySave, Is, Answer, Goto
<1>48. CASE UNCHANGED vars
  BY <1>48 DEF vars
<1> HIDE NullsAssumption
<1> HIDE DEF Routes, Discipline, TypeOK, Layers, AnsweredAtTheEnd, taskVars, layerVars,
    lockVars
<1> QED
  BY <1>1, <1>2, <1>3, <1>4, <1>5, <1>6, <1>7, <1>8, <1>9, <1>10, <1>11, <1>12, <1>13,
      <1>14, <1>15, <1>16, <1>17, <1>18, <1>19, <1>20, <1>21, <1>22, <1>23, <1>24, <1>25,
      <1>26, <1>27, <1>28, <1>29, <1>30, <1>31, <1>32, <1>33, <1>34, <1>35, <1>36, <1>37,
      <1>38, <1>39, <1>40, <1>41, <1>42, <1>43, <1>44, <1>45, <1>46, <1>47, <1>48 DEF Next,
      Step, Patch, Ports, Refresh, Dns, Restart, Settle, Legacy, Finished

(* A commit is of the change of the request that commits, and of no other. *)
LEMMA NextAccepted ==
  ASSUME TypeOK, Discipline, DraftIsStaged, AnsweredAtTheEnd, AcceptedMeansCommitted, [Next]_vars
  PROVE  AcceptedMeansCommitted'
<1> USE NullsAssumption DEF Discipline, Routes, Locked, Updating, Staging, Trying, TypeOK,
    Layers, NoneAsks, Is, Latest, Contents, DraftIsStaged, Staged, WritesOff,
    AnsweredAtTheEnd, AcceptedMeansCommitted, Changers, taskVars, layerVars, lockVars
<1>1. ASSUME NEW t \in Tasks, Lock(t), UNCHANGED job PROVE AcceptedMeansCommitted'
  BY <1>1 DEF Lock, Is, Goto
<1>2. ASSUME NEW t \in Tasks, CommitAll(t), UNCHANGED job PROVE AcceptedMeansCommitted'
  <2>1. CASE ~NoneAsks("legacy")
    BY <2>1, <1>2
  <2>2. CASE NoneAsks("legacy")
    <3>1. draft["settings"] = committed["settings"] \cup {t}
      BY <2>2, <1>2 DEF CommitAll
    <3>2. committed'["settings"] = committed["settings"] \cup {t}
      BY <3>1, <1>2 DEF CommitAll, Commit, Apply
    <3>3. \A u \in Tasks \ {t} : answer'[u] = answer[u] /\ at'[u] = at[u]
      BY <1>2 DEF CommitAll, Answer, Goto
    <3>4. answer'[t] = "ok"
      BY <1>2 DEF CommitAll, Answer
    <3>5. ASSUME NEW u \in Changers
          PROVE  u \in committed'["settings"] <=>
                   answer'[u] \in {"ok", "unsaved"} \/ (job[u] = "dns" /\ at'[u] = "save")
      <4>1. CASE u = t
        BY <4>1, <3>2, <3>4
      <4>2. CASE u # t
        BY <4>2, <2>2, <3>2, <3>3
      <4> QED
        BY <4>1, <4>2
    <3> QED
      BY <3>5, <1>2
  <2> QED
    BY <2>1, <2>2
<1>3. ASSUME NEW t \in Tasks, Restore(t), UNCHANGED job PROVE AcceptedMeansCommitted'
  BY <1>3 DEF Restore, RestoreFiles, Answer, Goto
<1>4. ASSUME NEW t \in Tasks, Leave(t), UNCHANGED job PROVE AcceptedMeansCommitted'
  BY <1>4 DEF Leave, Goto
<1>5. ASSUME NEW t \in Tasks, Unlock(t), UNCHANGED job PROVE AcceptedMeansCommitted'
  BY <1>5 DEF Unlock, Goto
<1>6. ASSUME NEW t \in Tasks, PatchBegin(t), UNCHANGED job PROVE AcceptedMeansCommitted'
  BY <1>6 DEF PatchBegin, Is, Claim, Claimable, Goto
<1>7. ASSUME NEW t \in Tasks, PatchRefused(t), UNCHANGED job PROVE AcceptedMeansCommitted'
  BY <1>7 DEF PatchRefused, Is, Refuse, Goto, Answer
<1>8. ASSUME NEW t \in Tasks, PatchSnapshot(t), UNCHANGED job PROVE AcceptedMeansCommitted'
  BY <1>8 DEF PatchSnapshot, Is, Goto
<1>9. ASSUME NEW t \in Tasks, PatchSnapshotFails(t), UNCHANGED job PROVE AcceptedMeansCommitted'
  BY <1>9 DEF PatchSnapshotFails, Is, Rollback, Discard, Release, Answer, Goto
<1>10. ASSUME NEW t \in Tasks, PatchStage(t), UNCHANGED job PROVE AcceptedMeansCommitted'
  BY <1>10 DEF PatchStage, Is, Edit, Goto
<1>11. ASSUME NEW t \in Tasks, PatchGenerate(t), UNCHANGED job PROVE AcceptedMeansCommitted'
  BY <1>11 DEF PatchGenerate, Is, Edit, Generated, Goto
<1>12. ASSUME NEW t \in Tasks, NEW outcome \in Outcomes, PatchApply(t, outcome), UNCHANGED job PROVE AcceptedMeansCommitted'
  BY <1>12 DEF PatchApply, Is, Apply, Goto
<1>13. ASSUME NEW t \in Tasks, PatchFails(t), UNCHANGED job PROVE AcceptedMeansCommitted'
  BY <1>13 DEF PatchFails, Goto
<1>14. ASSUME NEW t \in Tasks, PatchSave(t), UNCHANGED job PROVE AcceptedMeansCommitted'
  BY <1>14 DEF PatchSave, Goto
<1>15. ASSUME NEW t \in Tasks, PatchUndo(t), UNCHANGED job PROVE AcceptedMeansCommitted'
  BY <1>15 DEF PatchUndo, Is, Rollback, Discard, Release, Goto
<1>16. ASSUME NEW t \in Tasks, PortsStage(t), UNCHANGED job PROVE AcceptedMeansCommitted'
  BY <1>16 DEF PortsStage, Is, Claim, Claimable, Edit, Goto
<1>17. ASSUME NEW t \in Tasks, PortsRefused(t), UNCHANGED job PROVE AcceptedMeansCommitted'
  BY <1>17 DEF PortsRefused, Is, Answer, Goto
<1>18. ASSUME NEW t \in Tasks, PortsGenerate(t), UNCHANGED job PROVE AcceptedMeansCommitted'
  BY <1>18 DEF PortsGenerate, Is, Edit, Generated, Goto
<1>19. ASSUME NEW t \in Tasks, PortsRejected(t), UNCHANGED job PROVE AcceptedMeansCommitted'
  BY <1>19 DEF PortsRejected, Rollback, Discard, Release, Answer, Goto
<1>20. ASSUME NEW t \in Tasks, PortsSnapshot(t), UNCHANGED job PROVE AcceptedMeansCommitted'
  BY <1>20 DEF PortsSnapshot, Is, Goto
<1>21. ASSUME NEW t \in Tasks, NEW outcome \in Outcomes, PortsActivate(t, outcome), UNCHANGED job PROVE AcceptedMeansCommitted'
  BY <1>21 DEF PortsActivate, Is, Rollback, Discard, Release, Goto
<1>22. ASSUME NEW t \in Tasks, PortsPersist(t), UNCHANGED job PROVE AcceptedMeansCommitted'
  BY <1>22 DEF PortsPersist, Is, Goto
<1>23. ASSUME NEW t \in Tasks, PortsPersistFails(t), UNCHANGED job PROVE AcceptedMeansCommitted'
  BY <1>23 DEF PortsPersistFails, Is, Rollback, Discard, Release, Goto
<1>24. ASSUME NEW t \in Tasks, NEW outcome \in Outcomes, PortsRevert(t, outcome), UNCHANGED job PROVE AcceptedMeansCommitted'
  BY <1>24 DEF PortsRevert, Is, Answer, Goto
<1>25. ASSUME NEW t \in Tasks, UpdateBegin(t), UNCHANGED job PROVE AcceptedMeansCommitted'
  BY <1>25 DEF UpdateBegin, UpdateBegins, Is, Claim, Claimable, Goto
<1>26. ASSUME NEW t \in Tasks, UpdateBusy(t), UNCHANGED job PROVE AcceptedMeansCommitted'
  BY <1>26 DEF UpdateBusy, UpdateBegins, Is, Update, Answer, Goto
<1>27. ASSUME NEW t \in Tasks, UpdateGenerate(t), UNCHANGED job PROVE AcceptedMeansCommitted'
  BY <1>27 DEF UpdateGenerate, Edit, Generated, Goto
<1>28. ASSUME NEW t \in Tasks, UpdateGenerateFails(t), UNCHANGED job PROVE AcceptedMeansCommitted'
  BY <1>28 DEF UpdateGenerateFails, Rollback, Discard, Release, Update, Answer, Goto
<1>29. ASSUME NEW t \in Tasks, NEW outcome \in Outcomes, UpdateApply(t, outcome), UNCHANGED job PROVE AcceptedMeansCommitted'
  BY <1>29 DEF UpdateApply, Commit, Apply, Rollback, Discard, Release, Update, Answer, Goto
<1>30. ASSUME NEW t \in Tasks, DnsStage(t), UNCHANGED job PROVE AcceptedMeansCommitted'
  BY <1>30 DEF DnsStage, Is, Claim, Claimable, Edit, Goto
<1>31. ASSUME NEW t \in Tasks, DnsRefused(t), UNCHANGED job PROVE AcceptedMeansCommitted'
  BY <1>31 DEF DnsRefused, Is, Answer, Goto
<1>32. ASSUME NEW t \in Tasks, DnsCommit(t), UNCHANGED job PROVE AcceptedMeansCommitted'
  BY <1>32 DEF DnsCommit, Is, Commit, Apply, Release, Goto
<1>33. ASSUME NEW t \in Tasks, DnsSave(t), UNCHANGED job PROVE AcceptedMeansCommitted'
  BY <1>33 DEF DnsSave, Is, Answer, Goto
<1>34. ASSUME NEW t \in Tasks, DnsUndo(t), UNCHANGED job PROVE AcceptedMeansCommitted'
  BY <1>34 DEF DnsUndo, Is, Rollback, Discard, Release, Answer, Goto
<1>35. ASSUME NEW t \in Tasks, RestartBegin(t), UNCHANGED job PROVE AcceptedMeansCommitted'
  BY <1>35 DEF RestartBegin, Is, Goto
<1>36. ASSUME NEW t \in Tasks, FlagRefused(t), UNCHANGED job PROVE AcceptedMeansCommitted'
  BY <1>36 DEF FlagRefused, Refuse, Answer, Goto
<1>37. ASSUME NEW t \in Tasks, NEW outcome \in Outcomes, RestartCore(t, outcome), UNCHANGED job PROVE AcceptedMeansCommitted'
  BY <1>37 DEF RestartCore, Is, Answer, Goto
<1>38. ASSUME NEW t \in Tasks, SettleBegin(t), UNCHANGED job PROVE AcceptedMeansCommitted'
  BY <1>38 DEF SettleBegin, Is, Goto
<1>39. ASSUME NEW t \in Tasks, SettleWriteOff(t), UNCHANGED job PROVE AcceptedMeansCommitted'
  BY <1>39 DEF SettleWriteOff, Is, Edit, Goto
<1>40. ASSUME NEW t \in Tasks, SettleApply(t), UNCHANGED job PROVE AcceptedMeansCommitted'
  BY <1>40 DEF SettleApply, Is, Apply, Goto
<1>41. ASSUME NEW t \in Tasks, SettleSave(t), UNCHANGED job PROVE AcceptedMeansCommitted'
  BY <1>41 DEF SettleSave, Is, Goto
<1>42. ASSUME NEW t \in Tasks, SettleGenerate(t), UNCHANGED job PROVE AcceptedMeansCommitted'
  BY <1>42 DEF SettleGenerate, Is, Edit, Generated, Goto
<1>43. ASSUME NEW t \in Tasks, SettleFails(t), UNCHANGED job PROVE AcceptedMeansCommitted'
  BY <1>43 DEF SettleFails, Answer, Goto
<1>44. ASSUME NEW t \in Tasks, SettleStart(t), UNCHANGED job PROVE AcceptedMeansCommitted'
  BY <1>44 DEF SettleStart, Is, Answer, Goto
<1>45. ASSUME NEW t \in Tasks, LegacyEdit(t), UNCHANGED job PROVE AcceptedMeansCommitted'
  BY <1>45 DEF LegacyEdit, Is, Edit, Goto
<1>46. ASSUME NEW t \in Tasks, LegacyApply(t), UNCHANGED job PROVE AcceptedMeansCommitted'
  BY <1>46 DEF LegacyApply, Is, Apply, Goto
<1>47. ASSUME NEW t \in Tasks, LegacySave(t), UNCHANGED job PROVE AcceptedMeansCommitted'
  BY <1>47 DEF LegacySave, Is, Answer, Goto
<1>48. CASE UNCHANGED vars
  BY <1>48 DEF vars
<1> HIDE NullsAssumption
<1> HIDE DEF Discipline, Routes, Locked, Updating, Staging, Trying, TypeOK, Layers,
    NoneAsks, Is, Latest, Contents, DraftIsStaged, Staged, WritesOff, AnsweredAtTheEnd,
    AcceptedMeansCommitted, Changers, taskVars, layerVars, lockVars
<1> QED
  BY <1>1, <1>2, <1>3, <1>4, <1>5, <1>6, <1>7, <1>8, <1>9, <1>10, <1>11, <1>12, <1>13,
      <1>14, <1>15, <1>16, <1>17, <1>18, <1>19, <1>20, <1>21, <1>22, <1>23, <1>24, <1>25,
      <1>26, <1>27, <1>28, <1>29, <1>30, <1>31, <1>32, <1>33, <1>34, <1>35, <1>36, <1>37,
      <1>38, <1>39, <1>40, <1>41, <1>42, <1>43, <1>44, <1>45, <1>46, <1>47, <1>48 DEF Next,
      Step, Patch, Ports, Refresh, Dns, Restart, Settle, Legacy, Finished

(* A generated runtime is taken or given up before its update ends. *)
LEMMA NextRuntime ==
  ASSUME TypeOK, Discipline, RuntimeIsTried, [Next]_vars
  PROVE  RuntimeIsTried'
<1> USE NullsAssumption DEF Discipline, Routes, Locked, Updating, Staging, Trying, TypeOK,
    Layers, NoneAsks, Is, Latest, Contents, RuntimeIsTried, Generating, taskVars, layerVars,
    lockVars
<1>1. ASSUME NEW t \in Tasks, Lock(t), UNCHANGED job PROVE RuntimeIsTried'
  BY <1>1 DEF Lock, Is, Goto
<1>2. ASSUME NEW t \in Tasks, CommitAll(t), UNCHANGED job PROVE RuntimeIsTried'
  BY <1>2 DEF CommitAll, Commit, Apply, Release, Answer, Goto
<1>3. ASSUME NEW t \in Tasks, Restore(t), UNCHANGED job PROVE RuntimeIsTried'
  BY <1>3 DEF Restore, RestoreFiles, Answer, Goto
<1>4. ASSUME NEW t \in Tasks, Leave(t), UNCHANGED job PROVE RuntimeIsTried'
  BY <1>4 DEF Leave, Goto
<1>5. ASSUME NEW t \in Tasks, Unlock(t), UNCHANGED job PROVE RuntimeIsTried'
  BY <1>5 DEF Unlock, Goto
<1>6. ASSUME NEW t \in Tasks, PatchBegin(t), UNCHANGED job PROVE RuntimeIsTried'
  BY <1>6 DEF PatchBegin, Is, Claim, Claimable, Goto
<1>7. ASSUME NEW t \in Tasks, PatchRefused(t), UNCHANGED job PROVE RuntimeIsTried'
  BY <1>7 DEF PatchRefused, Is, Refuse, Goto, Answer
<1>8. ASSUME NEW t \in Tasks, PatchSnapshot(t), UNCHANGED job PROVE RuntimeIsTried'
  BY <1>8 DEF PatchSnapshot, Is, Goto
<1>9. ASSUME NEW t \in Tasks, PatchSnapshotFails(t), UNCHANGED job PROVE RuntimeIsTried'
  BY <1>9 DEF PatchSnapshotFails, Is, Rollback, Discard, Release, Answer, Goto
<1>10. ASSUME NEW t \in Tasks, PatchStage(t), UNCHANGED job PROVE RuntimeIsTried'
  BY <1>10 DEF PatchStage, Is, Edit, Goto
<1>11. ASSUME NEW t \in Tasks, PatchGenerate(t), UNCHANGED job PROVE RuntimeIsTried'
  BY <1>11 DEF PatchGenerate, Is, Edit, Generated, Goto
<1>12. ASSUME NEW t \in Tasks, NEW outcome \in Outcomes, PatchApply(t, outcome), UNCHANGED job PROVE RuntimeIsTried'
  <2>1. CASE Takes(outcome)
    <3>1. draft'["runtime"] = NoDraft
      BY <2>1, <1>12 DEF PatchApply, Apply
    <3> QED
      BY <3>1
  <2>2. CASE ~Takes(outcome)
    <3>1. at'[t] = "undo" /\ job'[t] = "patch"
      BY <2>2, <1>12 DEF PatchApply, Is, Goto, Takes
    <3> QED
      BY <3>1
  <2> QED
    BY <2>1, <2>2
<1>13. ASSUME NEW t \in Tasks, PatchFails(t), UNCHANGED job PROVE RuntimeIsTried'
  BY <1>13 DEF PatchFails, Goto
<1>14. ASSUME NEW t \in Tasks, PatchSave(t), UNCHANGED job PROVE RuntimeIsTried'
  BY <1>14 DEF PatchSave, Goto
<1>15. ASSUME NEW t \in Tasks, PatchUndo(t), UNCHANGED job PROVE RuntimeIsTried'
  BY <1>15 DEF PatchUndo, Is, Rollback, Discard, Release, Goto
<1>16. ASSUME NEW t \in Tasks, PortsStage(t), UNCHANGED job PROVE RuntimeIsTried'
  BY <1>16 DEF PortsStage, Is, Claim, Claimable, Edit, Goto
<1>17. ASSUME NEW t \in Tasks, PortsRefused(t), UNCHANGED job PROVE RuntimeIsTried'
  BY <1>17 DEF PortsRefused, Is, Answer, Goto
<1>18. ASSUME NEW t \in Tasks, PortsGenerate(t), UNCHANGED job PROVE RuntimeIsTried'
  BY <1>18 DEF PortsGenerate, Is, Edit, Generated, Goto
<1>19. ASSUME NEW t \in Tasks, PortsRejected(t), UNCHANGED job PROVE RuntimeIsTried'
  BY <1>19 DEF PortsRejected, Rollback, Discard, Release, Answer, Goto
<1>20. ASSUME NEW t \in Tasks, PortsSnapshot(t), UNCHANGED job PROVE RuntimeIsTried'
  BY <1>20 DEF PortsSnapshot, Is, Goto
<1>21. ASSUME NEW t \in Tasks, NEW outcome \in Outcomes, PortsActivate(t, outcome), UNCHANGED job PROVE RuntimeIsTried'
  BY <1>21 DEF PortsActivate, Is, Rollback, Discard, Release, Goto
<1>22. ASSUME NEW t \in Tasks, PortsPersist(t), UNCHANGED job PROVE RuntimeIsTried'
  BY <1>22 DEF PortsPersist, Is, Goto
<1>23. ASSUME NEW t \in Tasks, PortsPersistFails(t), UNCHANGED job PROVE RuntimeIsTried'
  BY <1>23 DEF PortsPersistFails, Is, Rollback, Discard, Release, Goto
<1>24. ASSUME NEW t \in Tasks, NEW outcome \in Outcomes, PortsRevert(t, outcome), UNCHANGED job PROVE RuntimeIsTried'
  BY <1>24 DEF PortsRevert, Is, Answer, Goto
<1>25. ASSUME NEW t \in Tasks, UpdateBegin(t), UNCHANGED job PROVE RuntimeIsTried'
  BY <1>25 DEF UpdateBegin, UpdateBegins, Is, Claim, Claimable, Goto
<1>26. ASSUME NEW t \in Tasks, UpdateBusy(t), UNCHANGED job PROVE RuntimeIsTried'
  BY <1>26 DEF UpdateBusy, UpdateBegins, Is, Update, Answer, Goto
<1>27. ASSUME NEW t \in Tasks, UpdateGenerate(t), UNCHANGED job PROVE RuntimeIsTried'
  BY <1>27 DEF UpdateGenerate, Edit, Generated, Goto
<1>28. ASSUME NEW t \in Tasks, UpdateGenerateFails(t), UNCHANGED job PROVE RuntimeIsTried'
  BY <1>28 DEF UpdateGenerateFails, Rollback, Discard, Release, Update, Answer, Goto
<1>29. ASSUME NEW t \in Tasks, NEW outcome \in Outcomes, UpdateApply(t, outcome), UNCHANGED job PROVE RuntimeIsTried'
  BY <1>29 DEF UpdateApply, Commit, Apply, Rollback, Discard, Release, Update, Answer, Goto
<1>30. ASSUME NEW t \in Tasks, DnsStage(t), UNCHANGED job PROVE RuntimeIsTried'
  BY <1>30 DEF DnsStage, Is, Claim, Claimable, Edit, Goto
<1>31. ASSUME NEW t \in Tasks, DnsRefused(t), UNCHANGED job PROVE RuntimeIsTried'
  BY <1>31 DEF DnsRefused, Is, Answer, Goto
<1>32. ASSUME NEW t \in Tasks, DnsCommit(t), UNCHANGED job PROVE RuntimeIsTried'
  BY <1>32 DEF DnsCommit, Is, Commit, Apply, Release, Goto
<1>33. ASSUME NEW t \in Tasks, DnsSave(t), UNCHANGED job PROVE RuntimeIsTried'
  BY <1>33 DEF DnsSave, Is, Answer, Goto
<1>34. ASSUME NEW t \in Tasks, DnsUndo(t), UNCHANGED job PROVE RuntimeIsTried'
  BY <1>34 DEF DnsUndo, Is, Rollback, Discard, Release, Answer, Goto
<1>35. ASSUME NEW t \in Tasks, RestartBegin(t), UNCHANGED job PROVE RuntimeIsTried'
  BY <1>35 DEF RestartBegin, Is, Goto
<1>36. ASSUME NEW t \in Tasks, FlagRefused(t), UNCHANGED job PROVE RuntimeIsTried'
  BY <1>36 DEF FlagRefused, Refuse, Answer, Goto
<1>37. ASSUME NEW t \in Tasks, NEW outcome \in Outcomes, RestartCore(t, outcome), UNCHANGED job PROVE RuntimeIsTried'
  BY <1>37 DEF RestartCore, Is, Answer, Goto
<1>38. ASSUME NEW t \in Tasks, SettleBegin(t), UNCHANGED job PROVE RuntimeIsTried'
  BY <1>38 DEF SettleBegin, Is, Goto
<1>39. ASSUME NEW t \in Tasks, SettleWriteOff(t), UNCHANGED job PROVE RuntimeIsTried'
  BY <1>39 DEF SettleWriteOff, Is, Edit, Goto
<1>40. ASSUME NEW t \in Tasks, SettleApply(t), UNCHANGED job PROVE RuntimeIsTried'
  BY <1>40 DEF SettleApply, Is, Apply, Goto
<1>41. ASSUME NEW t \in Tasks, SettleSave(t), UNCHANGED job PROVE RuntimeIsTried'
  BY <1>41 DEF SettleSave, Is, Goto
<1>42. ASSUME NEW t \in Tasks, SettleGenerate(t), UNCHANGED job PROVE RuntimeIsTried'
  BY <1>42 DEF SettleGenerate, Is, Edit, Generated, Goto
<1>43. ASSUME NEW t \in Tasks, SettleFails(t), UNCHANGED job PROVE RuntimeIsTried'
  BY <1>43 DEF SettleFails, Answer, Goto
<1>44. ASSUME NEW t \in Tasks, SettleStart(t), UNCHANGED job PROVE RuntimeIsTried'
  BY <1>44 DEF SettleStart, Is, Answer, Goto
<1>45. ASSUME NEW t \in Tasks, LegacyEdit(t), UNCHANGED job PROVE RuntimeIsTried'
  BY <1>45 DEF LegacyEdit, Is, Edit, Goto
<1>46. ASSUME NEW t \in Tasks, LegacyApply(t), UNCHANGED job PROVE RuntimeIsTried'
  BY <1>46 DEF LegacyApply, Is, Apply, Goto
<1>47. ASSUME NEW t \in Tasks, LegacySave(t), UNCHANGED job PROVE RuntimeIsTried'
  BY <1>47 DEF LegacySave, Is, Answer, Goto
<1>48. CASE UNCHANGED vars
  BY <1>48 DEF vars
<1> HIDE NullsAssumption
<1> HIDE DEF Discipline, Routes, Locked, Updating, Staging, Trying, TypeOK, Layers,
    NoneAsks, Is, Latest, Contents, RuntimeIsTried, Generating, taskVars, layerVars,
    lockVars
<1> QED
  BY <1>1, <1>2, <1>3, <1>4, <1>5, <1>6, <1>7, <1>8, <1>9, <1>10, <1>11, <1>12, <1>13,
      <1>14, <1>15, <1>16, <1>17, <1>18, <1>19, <1>20, <1>21, <1>22, <1>23, <1>24, <1>25,
      <1>26, <1>27, <1>28, <1>29, <1>30, <1>31, <1>32, <1>33, <1>34, <1>35, <1>36, <1>37,
      <1>38, <1>39, <1>40, <1>41, <1>42, <1>43, <1>44, <1>45, <1>46, <1>47, <1>48 DEF Next,
      Step, Patch, Ports, Refresh, Dns, Restart, Settle, Legacy, Finished

(* What the Core runs is committed, or on trial. *)
LEMMA NextCore ==
  ASSUME TypeOK, Discipline, RuntimeIsTried, CoreIsKnown, [Next]_vars
  PROVE  CoreIsKnown'
<1> USE NullsAssumption DEF Discipline, Routes, Locked, Updating, Staging, Trying, TypeOK,
    Layers, NoneAsks, Is, Latest, Contents, RuntimeIsTried, Generating, CoreIsKnown, Moving,
    CoreAfter, Takes, Outcomes, taskVars, layerVars, lockVars
<1>1. ASSUME NEW t \in Tasks, Lock(t), UNCHANGED job PROVE CoreIsKnown'
  BY <1>1 DEF Lock, Is, Goto
<1>2. ASSUME NEW t \in Tasks, CommitAll(t), UNCHANGED job PROVE CoreIsKnown'
  BY <1>2 DEF CommitAll, Commit, Apply, Release, Answer, Goto
<1>3. ASSUME NEW t \in Tasks, Restore(t), UNCHANGED job PROVE CoreIsKnown'
  BY <1>3 DEF Restore, RestoreFiles, Answer, Goto
<1>4. ASSUME NEW t \in Tasks, Leave(t), UNCHANGED job PROVE CoreIsKnown'
  BY <1>4 DEF Leave, Goto
<1>5. ASSUME NEW t \in Tasks, Unlock(t), UNCHANGED job PROVE CoreIsKnown'
  BY <1>5 DEF Unlock, Goto
<1>6. ASSUME NEW t \in Tasks, PatchBegin(t), UNCHANGED job PROVE CoreIsKnown'
  BY <1>6 DEF PatchBegin, Is, Claim, Claimable, Goto
<1>7. ASSUME NEW t \in Tasks, PatchRefused(t), UNCHANGED job PROVE CoreIsKnown'
  BY <1>7 DEF PatchRefused, Is, Refuse, Goto, Answer
<1>8. ASSUME NEW t \in Tasks, PatchSnapshot(t), UNCHANGED job PROVE CoreIsKnown'
  BY <1>8 DEF PatchSnapshot, Is, Goto
<1>9. ASSUME NEW t \in Tasks, PatchSnapshotFails(t), UNCHANGED job PROVE CoreIsKnown'
  BY <1>9 DEF PatchSnapshotFails, Is, Rollback, Discard, Release, Answer, Goto
<1>10. ASSUME NEW t \in Tasks, PatchStage(t), UNCHANGED job PROVE CoreIsKnown'
  BY <1>10 DEF PatchStage, Is, Edit, Goto
<1>11. ASSUME NEW t \in Tasks, PatchGenerate(t), UNCHANGED job PROVE CoreIsKnown'
  BY <1>11 DEF PatchGenerate, Is, Edit, Generated, Goto
<1>12. ASSUME NEW t \in Tasks, NEW outcome \in Outcomes, PatchApply(t, outcome), UNCHANGED job PROVE CoreIsKnown'
  BY <1>12 DEF PatchApply, Is, Apply, Goto
<1>13. ASSUME NEW t \in Tasks, PatchFails(t), UNCHANGED job PROVE CoreIsKnown'
  BY <1>13 DEF PatchFails, Goto
<1>14. ASSUME NEW t \in Tasks, PatchSave(t), UNCHANGED job PROVE CoreIsKnown'
  BY <1>14 DEF PatchSave, Goto
<1>15. ASSUME NEW t \in Tasks, PatchUndo(t), UNCHANGED job PROVE CoreIsKnown'
  BY <1>15 DEF PatchUndo, Is, Rollback, Discard, Release, Goto
<1>16. ASSUME NEW t \in Tasks, PortsStage(t), UNCHANGED job PROVE CoreIsKnown'
  BY <1>16 DEF PortsStage, Is, Claim, Claimable, Edit, Goto
<1>17. ASSUME NEW t \in Tasks, PortsRefused(t), UNCHANGED job PROVE CoreIsKnown'
  BY <1>17 DEF PortsRefused, Is, Answer, Goto
<1>18. ASSUME NEW t \in Tasks, PortsGenerate(t), UNCHANGED job PROVE CoreIsKnown'
  BY <1>18 DEF PortsGenerate, Is, Edit, Generated, Goto
<1>19. ASSUME NEW t \in Tasks, PortsRejected(t), UNCHANGED job PROVE CoreIsKnown'
  BY <1>19 DEF PortsRejected, Rollback, Discard, Release, Answer, Goto
<1>20. ASSUME NEW t \in Tasks, PortsSnapshot(t), UNCHANGED job PROVE CoreIsKnown'
  BY <1>20 DEF PortsSnapshot, Is, Goto
<1>21. ASSUME NEW t \in Tasks, NEW outcome \in Outcomes, PortsActivate(t, outcome), UNCHANGED job PROVE CoreIsKnown'
  BY <1>21 DEF PortsActivate, Is, Rollback, Discard, Release, Goto
<1>22. ASSUME NEW t \in Tasks, PortsPersist(t), UNCHANGED job PROVE CoreIsKnown'
  BY <1>22 DEF PortsPersist, Is, Goto
<1>23. ASSUME NEW t \in Tasks, PortsPersistFails(t), UNCHANGED job PROVE CoreIsKnown'
  BY <1>23 DEF PortsPersistFails, Is, Rollback, Discard, Release, Goto
<1>24. ASSUME NEW t \in Tasks, NEW outcome \in Outcomes, PortsRevert(t, outcome), UNCHANGED job PROVE CoreIsKnown'
  BY <1>24 DEF PortsRevert, Is, Answer, Goto
<1>25. ASSUME NEW t \in Tasks, UpdateBegin(t), UNCHANGED job PROVE CoreIsKnown'
  BY <1>25 DEF UpdateBegin, UpdateBegins, Is, Claim, Claimable, Goto
<1>26. ASSUME NEW t \in Tasks, UpdateBusy(t), UNCHANGED job PROVE CoreIsKnown'
  BY <1>26 DEF UpdateBusy, UpdateBegins, Is, Update, Answer, Goto
<1>27. ASSUME NEW t \in Tasks, UpdateGenerate(t), UNCHANGED job PROVE CoreIsKnown'
  BY <1>27 DEF UpdateGenerate, Edit, Generated, Goto
<1>28. ASSUME NEW t \in Tasks, UpdateGenerateFails(t), UNCHANGED job PROVE CoreIsKnown'
  BY <1>28 DEF UpdateGenerateFails, Rollback, Discard, Release, Update, Answer, Goto
<1>29. ASSUME NEW t \in Tasks, NEW outcome \in Outcomes, UpdateApply(t, outcome), UNCHANGED job PROVE CoreIsKnown'
  BY <1>29 DEF UpdateApply, Commit, Apply, Rollback, Discard, Release, Update, Answer, Goto
<1>30. ASSUME NEW t \in Tasks, DnsStage(t), UNCHANGED job PROVE CoreIsKnown'
  BY <1>30 DEF DnsStage, Is, Claim, Claimable, Edit, Goto
<1>31. ASSUME NEW t \in Tasks, DnsRefused(t), UNCHANGED job PROVE CoreIsKnown'
  BY <1>31 DEF DnsRefused, Is, Answer, Goto
<1>32. ASSUME NEW t \in Tasks, DnsCommit(t), UNCHANGED job PROVE CoreIsKnown'
  BY <1>32 DEF DnsCommit, Is, Commit, Apply, Release, Goto
<1>33. ASSUME NEW t \in Tasks, DnsSave(t), UNCHANGED job PROVE CoreIsKnown'
  BY <1>33 DEF DnsSave, Is, Answer, Goto
<1>34. ASSUME NEW t \in Tasks, DnsUndo(t), UNCHANGED job PROVE CoreIsKnown'
  BY <1>34 DEF DnsUndo, Is, Rollback, Discard, Release, Answer, Goto
<1>35. ASSUME NEW t \in Tasks, RestartBegin(t), UNCHANGED job PROVE CoreIsKnown'
  BY <1>35 DEF RestartBegin, Is, Goto
<1>36. ASSUME NEW t \in Tasks, FlagRefused(t), UNCHANGED job PROVE CoreIsKnown'
  BY <1>36 DEF FlagRefused, Refuse, Answer, Goto
<1>37. ASSUME NEW t \in Tasks, NEW outcome \in Outcomes, RestartCore(t, outcome), UNCHANGED job PROVE CoreIsKnown'
  BY <1>37 DEF RestartCore, Is, Answer, Goto
<1>38. ASSUME NEW t \in Tasks, SettleBegin(t), UNCHANGED job PROVE CoreIsKnown'
  BY <1>38 DEF SettleBegin, Is, Goto
<1>39. ASSUME NEW t \in Tasks, SettleWriteOff(t), UNCHANGED job PROVE CoreIsKnown'
  BY <1>39 DEF SettleWriteOff, Is, Edit, Goto
<1>40. ASSUME NEW t \in Tasks, SettleApply(t), UNCHANGED job PROVE CoreIsKnown'
  BY <1>40 DEF SettleApply, Is, Apply, Goto
<1>41. ASSUME NEW t \in Tasks, SettleSave(t), UNCHANGED job PROVE CoreIsKnown'
  BY <1>41 DEF SettleSave, Is, Goto
<1>42. ASSUME NEW t \in Tasks, SettleGenerate(t), UNCHANGED job PROVE CoreIsKnown'
  BY <1>42 DEF SettleGenerate, Is, Edit, Generated, Goto
<1>43. ASSUME NEW t \in Tasks, SettleFails(t), UNCHANGED job PROVE CoreIsKnown'
  BY <1>43 DEF SettleFails, Answer, Goto
<1>44. ASSUME NEW t \in Tasks, SettleStart(t), UNCHANGED job PROVE CoreIsKnown'
  BY <1>44 DEF SettleStart, Is, Answer, Goto
<1>45. ASSUME NEW t \in Tasks, LegacyEdit(t), UNCHANGED job PROVE CoreIsKnown'
  BY <1>45 DEF LegacyEdit, Is, Edit, Goto
<1>46. ASSUME NEW t \in Tasks, LegacyApply(t), UNCHANGED job PROVE CoreIsKnown'
  BY <1>46 DEF LegacyApply, Is, Apply, Goto
<1>47. ASSUME NEW t \in Tasks, LegacySave(t), UNCHANGED job PROVE CoreIsKnown'
  BY <1>47 DEF LegacySave, Is, Answer, Goto
<1>48. CASE UNCHANGED vars
  BY <1>48 DEF vars
<1> HIDE NullsAssumption
<1> HIDE DEF Discipline, Routes, Locked, Updating, Staging, Trying, TypeOK, Layers,
    NoneAsks, Is, Latest, Contents, RuntimeIsTried, Generating, CoreIsKnown, Moving,
    CoreAfter, Takes, Outcomes, taskVars, layerVars, lockVars
<1> QED
  BY <1>1, <1>2, <1>3, <1>4, <1>5, <1>6, <1>7, <1>8, <1>9, <1>10, <1>11, <1>12, <1>13,
      <1>14, <1>15, <1>16, <1>17, <1>18, <1>19, <1>20, <1>21, <1>22, <1>23, <1>24, <1>25,
      <1>26, <1>27, <1>28, <1>29, <1>30, <1>31, <1>32, <1>33, <1>34, <1>35, <1>36, <1>37,
      <1>38, <1>39, <1>40, <1>41, <1>42, <1>43, <1>44, <1>45, <1>46, <1>47, <1>48 DEF Next,
      Step, Patch, Ports, Refresh, Dns, Restart, Settle, Legacy, Finished

(* The files are written and put back under the write lock. *)
LEMMA NextFiles ==
  ASSUME TypeOK, Discipline, DraftIsStaged, FilesAreKnown, [Next]_vars
  PROVE  FilesAreKnown'
<1> USE NullsAssumption DEF Discipline, Routes, Locked, Updating, Staging, Trying, TypeOK,
    Layers, NoneAsks, Is, Latest, Contents, DraftIsStaged, Staged, WritesOff, FilesAreKnown,
    Writing, Copied, taskVars, layerVars, lockVars
<1>1. ASSUME NEW t \in Tasks, Lock(t), UNCHANGED job PROVE FilesAreKnown'
  BY <1>1 DEF Lock, Is, Goto
<1>2. ASSUME NEW t \in Tasks, CommitAll(t), UNCHANGED job PROVE FilesAreKnown'
  <2>1. CASE ~NoneAsks("legacy") \/ "file" \in trouble
    BY <2>1, <1>2 DEF CommitAll
  <2>2. CASE NoneAsks("legacy") /\ "file" \notin trouble
    <3>1. draft["settings"] = committed["settings"] \cup {t} /\ file = committed["settings"] \cup {t}
      BY <2>2, <1>2 DEF CommitAll
    <3>2. committed'["settings"] = file'
      BY <3>1, <1>2 DEF CommitAll, Commit, Apply
    <3>3. Locked(t)
      BY <1>2 DEF CommitAll
    <3>4. \A u \in Tasks \ {t} : ~Writing(u) /\ ~Copied(u) /\ at'[u] = at[u]
      BY <3>3, <1>2 DEF CommitAll, Goto
    <3>5. at'[t] = "leave"
      BY <1>2 DEF CommitAll, Goto
    <3>6. \A u \in Tasks : ~Writing(u)' /\ ~Copied(u)'
      BY <3>4, <3>5, <1>2
    <3> QED
      BY <3>2, <3>6
  <2> QED
    BY <2>1, <2>2
<1>3. ASSUME NEW t \in Tasks, Restore(t), UNCHANGED job PROVE FilesAreKnown'
  <2>1. CASE ~NoneAsks("legacy") \/ "file" \in trouble'
    BY <2>1, <1>3
  <2>2. CASE NoneAsks("legacy") /\ "file" \notin trouble'
    <3>1. job[t] \in {"patch", "ports"} /\ at[t] = "restore" /\ Copied(t) /\ Locked(t)
      BY <1>3 DEF Restore, AllJobs
    <3>2. file' = copy[t] /\ "file" \notin trouble
      BY <2>2, <1>3 DEF Restore, RestoreFiles
    <3>3. file' = committed'["settings"]
      BY <3>1, <3>2, <2>2, <1>3 DEF Restore, layerVars
    <3>4. \A u \in Tasks \ {t} : ~Writing(u) /\ ~Copied(u) /\ at'[u] = at[u]
      BY <3>1, <1>3 DEF Restore, Goto
    <3>5. at'[t] = "leave"
      BY <1>3 DEF Restore, Goto
    <3>6. \A u \in Tasks : ~Writing(u)' /\ ~Copied(u)'
      BY <3>4, <3>5, <1>3
    <3> QED
      BY <3>3, <3>6
  <2> QED
    BY <2>1, <2>2
<1>4. ASSUME NEW t \in Tasks, Leave(t), UNCHANGED job PROVE FilesAreKnown'
  BY <1>4 DEF Leave, Goto
<1>5. ASSUME NEW t \in Tasks, Unlock(t), UNCHANGED job PROVE FilesAreKnown'
  BY <1>5 DEF Unlock, Goto
<1>6. ASSUME NEW t \in Tasks, PatchBegin(t), UNCHANGED job PROVE FilesAreKnown'
  BY <1>6 DEF PatchBegin, Is, Claim, Claimable, Goto
<1>7. ASSUME NEW t \in Tasks, PatchRefused(t), UNCHANGED job PROVE FilesAreKnown'
  BY <1>7 DEF PatchRefused, Is, Refuse, Goto, Answer
<1>8. ASSUME NEW t \in Tasks, PatchSnapshot(t), UNCHANGED job PROVE FilesAreKnown'
  BY <1>8 DEF PatchSnapshot, Is, Goto
<1>9. ASSUME NEW t \in Tasks, PatchSnapshotFails(t), UNCHANGED job PROVE FilesAreKnown'
  BY <1>9 DEF PatchSnapshotFails, Is, Rollback, Discard, Release, Answer, Goto
<1>10. ASSUME NEW t \in Tasks, PatchStage(t), UNCHANGED job PROVE FilesAreKnown'
  BY <1>10 DEF PatchStage, Is, Edit, Goto
<1>11. ASSUME NEW t \in Tasks, PatchGenerate(t), UNCHANGED job PROVE FilesAreKnown'
  BY <1>11 DEF PatchGenerate, Is, Edit, Generated, Goto
<1>12. ASSUME NEW t \in Tasks, NEW outcome \in Outcomes, PatchApply(t, outcome), UNCHANGED job PROVE FilesAreKnown'
  BY <1>12 DEF PatchApply, Is, Apply, Goto
<1>13. ASSUME NEW t \in Tasks, PatchFails(t), UNCHANGED job PROVE FilesAreKnown'
  BY <1>13 DEF PatchFails, Goto
<1>14. ASSUME NEW t \in Tasks, PatchSave(t), UNCHANGED job PROVE FilesAreKnown'
  BY <1>14 DEF PatchSave, Goto
<1>15. ASSUME NEW t \in Tasks, PatchUndo(t), UNCHANGED job PROVE FilesAreKnown'
  BY <1>15 DEF PatchUndo, Is, Rollback, Discard, Release, Goto
<1>16. ASSUME NEW t \in Tasks, PortsStage(t), UNCHANGED job PROVE FilesAreKnown'
  BY <1>16 DEF PortsStage, Is, Claim, Claimable, Edit, Goto
<1>17. ASSUME NEW t \in Tasks, PortsRefused(t), UNCHANGED job PROVE FilesAreKnown'
  BY <1>17 DEF PortsRefused, Is, Answer, Goto
<1>18. ASSUME NEW t \in Tasks, PortsGenerate(t), UNCHANGED job PROVE FilesAreKnown'
  BY <1>18 DEF PortsGenerate, Is, Edit, Generated, Goto
<1>19. ASSUME NEW t \in Tasks, PortsRejected(t), UNCHANGED job PROVE FilesAreKnown'
  BY <1>19 DEF PortsRejected, Rollback, Discard, Release, Answer, Goto
<1>20. ASSUME NEW t \in Tasks, PortsSnapshot(t), UNCHANGED job PROVE FilesAreKnown'
  BY <1>20 DEF PortsSnapshot, Is, Goto
<1>21. ASSUME NEW t \in Tasks, NEW outcome \in Outcomes, PortsActivate(t, outcome), UNCHANGED job PROVE FilesAreKnown'
  BY <1>21 DEF PortsActivate, Is, Rollback, Discard, Release, Goto
<1>22. ASSUME NEW t \in Tasks, PortsPersist(t), UNCHANGED job PROVE FilesAreKnown'
  BY <1>22 DEF PortsPersist, Is, Goto
<1>23. ASSUME NEW t \in Tasks, PortsPersistFails(t), UNCHANGED job PROVE FilesAreKnown'
  BY <1>23 DEF PortsPersistFails, Is, Rollback, Discard, Release, Goto
<1>24. ASSUME NEW t \in Tasks, NEW outcome \in Outcomes, PortsRevert(t, outcome), UNCHANGED job PROVE FilesAreKnown'
  BY <1>24 DEF PortsRevert, Is, Answer, Goto
<1>25. ASSUME NEW t \in Tasks, UpdateBegin(t), UNCHANGED job PROVE FilesAreKnown'
  BY <1>25 DEF UpdateBegin, UpdateBegins, Is, Claim, Claimable, Goto
<1>26. ASSUME NEW t \in Tasks, UpdateBusy(t), UNCHANGED job PROVE FilesAreKnown'
  BY <1>26 DEF UpdateBusy, UpdateBegins, Is, Update, Answer, Goto
<1>27. ASSUME NEW t \in Tasks, UpdateGenerate(t), UNCHANGED job PROVE FilesAreKnown'
  BY <1>27 DEF UpdateGenerate, Edit, Generated, Goto
<1>28. ASSUME NEW t \in Tasks, UpdateGenerateFails(t), UNCHANGED job PROVE FilesAreKnown'
  BY <1>28 DEF UpdateGenerateFails, Rollback, Discard, Release, Update, Answer, Goto
<1>29. ASSUME NEW t \in Tasks, NEW outcome \in Outcomes, UpdateApply(t, outcome), UNCHANGED job PROVE FilesAreKnown'
  BY <1>29 DEF UpdateApply, Commit, Apply, Rollback, Discard, Release, Update, Answer, Goto
<1>30. ASSUME NEW t \in Tasks, DnsStage(t), UNCHANGED job PROVE FilesAreKnown'
  BY <1>30 DEF DnsStage, Is, Claim, Claimable, Edit, Goto
<1>31. ASSUME NEW t \in Tasks, DnsRefused(t), UNCHANGED job PROVE FilesAreKnown'
  BY <1>31 DEF DnsRefused, Is, Answer, Goto
<1>32. ASSUME NEW t \in Tasks, DnsCommit(t), UNCHANGED job PROVE FilesAreKnown'
  BY <1>32 DEF DnsCommit, Is, Commit, Apply, Release, Goto
<1>33. ASSUME NEW t \in Tasks, DnsSave(t), UNCHANGED job PROVE FilesAreKnown'
  BY <1>33 DEF DnsSave, Is, Answer, Goto
<1>34. ASSUME NEW t \in Tasks, DnsUndo(t), UNCHANGED job PROVE FilesAreKnown'
  BY <1>34 DEF DnsUndo, Is, Rollback, Discard, Release, Answer, Goto
<1>35. ASSUME NEW t \in Tasks, RestartBegin(t), UNCHANGED job PROVE FilesAreKnown'
  BY <1>35 DEF RestartBegin, Is, Goto
<1>36. ASSUME NEW t \in Tasks, FlagRefused(t), UNCHANGED job PROVE FilesAreKnown'
  BY <1>36 DEF FlagRefused, Refuse, Answer, Goto
<1>37. ASSUME NEW t \in Tasks, NEW outcome \in Outcomes, RestartCore(t, outcome), UNCHANGED job PROVE FilesAreKnown'
  BY <1>37 DEF RestartCore, Is, Answer, Goto
<1>38. ASSUME NEW t \in Tasks, SettleBegin(t), UNCHANGED job PROVE FilesAreKnown'
  BY <1>38 DEF SettleBegin, Is, Goto
<1>39. ASSUME NEW t \in Tasks, SettleWriteOff(t), UNCHANGED job PROVE FilesAreKnown'
  BY <1>39 DEF SettleWriteOff, Is, Edit, Goto
<1>40. ASSUME NEW t \in Tasks, SettleApply(t), UNCHANGED job PROVE FilesAreKnown'
  BY <1>40 DEF SettleApply, Is, Apply, Goto
<1>41. ASSUME NEW t \in Tasks, SettleSave(t), UNCHANGED job PROVE FilesAreKnown'
  BY <1>41 DEF SettleSave, Is, Goto
<1>42. ASSUME NEW t \in Tasks, SettleGenerate(t), UNCHANGED job PROVE FilesAreKnown'
  BY <1>42 DEF SettleGenerate, Is, Edit, Generated, Goto
<1>43. ASSUME NEW t \in Tasks, SettleFails(t), UNCHANGED job PROVE FilesAreKnown'
  BY <1>43 DEF SettleFails, Answer, Goto
<1>44. ASSUME NEW t \in Tasks, SettleStart(t), UNCHANGED job PROVE FilesAreKnown'
  BY <1>44 DEF SettleStart, Is, Answer, Goto
<1>45. ASSUME NEW t \in Tasks, LegacyEdit(t), UNCHANGED job PROVE FilesAreKnown'
  BY <1>45 DEF LegacyEdit, Is, Edit, Goto
<1>46. ASSUME NEW t \in Tasks, LegacyApply(t), UNCHANGED job PROVE FilesAreKnown'
  BY <1>46 DEF LegacyApply, Is, Apply, Goto
<1>47. ASSUME NEW t \in Tasks, LegacySave(t), UNCHANGED job PROVE FilesAreKnown'
  BY <1>47 DEF LegacySave, Is, Answer, Goto
<1>48. CASE UNCHANGED vars
  BY <1>48 DEF vars
<1> HIDE NullsAssumption
<1> HIDE DEF Discipline, Routes, Locked, Updating, Staging, Trying, TypeOK, Layers,
    NoneAsks, Is, Latest, Contents, DraftIsStaged, Staged, WritesOff, FilesAreKnown,
    Writing, Copied, taskVars, layerVars, lockVars
<1> QED
  BY <1>1, <1>2, <1>3, <1>4, <1>5, <1>6, <1>7, <1>8, <1>9, <1>10, <1>11, <1>12, <1>13,
      <1>14, <1>15, <1>16, <1>17, <1>18, <1>19, <1>20, <1>21, <1>22, <1>23, <1>24, <1>25,
      <1>26, <1>27, <1>28, <1>29, <1>30, <1>31, <1>32, <1>33, <1>34, <1>35, <1>36, <1>37,
      <1>38, <1>39, <1>40, <1>41, <1>42, <1>43, <1>44, <1>45, <1>46, <1>47, <1>48 DEF Next,
      Step, Patch, Ports, Refresh, Dns, Restart, Settle, Legacy, Finished

(* Ports on trial are seen by no one who commits. *)
LEMMA NextPorts ==
  ASSUME TypeOK, Discipline, DraftIsStaged, AnsweredAtTheEnd, AcceptedMeansCommitted, PortsAreTried, [Next]_vars
  PROVE  PortsAreTried'
<1> USE NullsAssumption DEF Discipline, Routes, Locked, Updating, Staging, Trying, TypeOK,
    Layers, NoneAsks, Is, Latest, Contents, DraftIsStaged, Staged, WritesOff,
    AnsweredAtTheEnd, AcceptedMeansCommitted, Changers, PortsAreTried, Runs, CoreAfter,
    Takes, Outcomes, taskVars, layerVars, lockVars
<1>1. ASSUME NEW t \in Tasks, Lock(t), UNCHANGED job PROVE PortsAreTried'
  BY <1>1 DEF Lock, Is, Goto
<1>2. ASSUME NEW t \in Tasks, CommitAll(t), UNCHANGED job PROVE PortsAreTried'
  BY <1>2 DEF CommitAll, Commit, Apply, Release, Answer, Goto
<1>3. ASSUME NEW t \in Tasks, Restore(t), UNCHANGED job PROVE PortsAreTried'
  BY <1>3 DEF Restore, RestoreFiles, Answer, Goto
<1>4. ASSUME NEW t \in Tasks, Leave(t), UNCHANGED job PROVE PortsAreTried'
  BY <1>4 DEF Leave, Goto
<1>5. ASSUME NEW t \in Tasks, Unlock(t), UNCHANGED job PROVE PortsAreTried'
  BY <1>5 DEF Unlock, Goto
<1>6. ASSUME NEW t \in Tasks, PatchBegin(t), UNCHANGED job PROVE PortsAreTried'
  BY <1>6 DEF PatchBegin, Is, Claim, Claimable, Goto
<1>7. ASSUME NEW t \in Tasks, PatchRefused(t), UNCHANGED job PROVE PortsAreTried'
  BY <1>7 DEF PatchRefused, Is, Refuse, Goto, Answer
<1>8. ASSUME NEW t \in Tasks, PatchSnapshot(t), UNCHANGED job PROVE PortsAreTried'
  BY <1>8 DEF PatchSnapshot, Is, Goto
<1>9. ASSUME NEW t \in Tasks, PatchSnapshotFails(t), UNCHANGED job PROVE PortsAreTried'
  BY <1>9 DEF PatchSnapshotFails, Is, Rollback, Discard, Release, Answer, Goto
<1>10. ASSUME NEW t \in Tasks, PatchStage(t), UNCHANGED job PROVE PortsAreTried'
  BY <1>10 DEF PatchStage, Is, Edit, Goto
<1>11. ASSUME NEW t \in Tasks, PatchGenerate(t), UNCHANGED job PROVE PortsAreTried'
  BY <1>11 DEF PatchGenerate, Is, Edit, Generated, Goto
<1>12. ASSUME NEW t \in Tasks, NEW outcome \in Outcomes, PatchApply(t, outcome), UNCHANGED job PROVE PortsAreTried'
  BY <1>12 DEF PatchApply, Is, Apply, Goto
<1>13. ASSUME NEW t \in Tasks, PatchFails(t), UNCHANGED job PROVE PortsAreTried'
  BY <1>13 DEF PatchFails, Goto
<1>14. ASSUME NEW t \in Tasks, PatchSave(t), UNCHANGED job PROVE PortsAreTried'
  BY <1>14 DEF PatchSave, Goto
<1>15. ASSUME NEW t \in Tasks, PatchUndo(t), UNCHANGED job PROVE PortsAreTried'
  BY <1>15 DEF PatchUndo, Is, Rollback, Discard, Release, Goto
<1>16. ASSUME NEW t \in Tasks, PortsStage(t), UNCHANGED job PROVE PortsAreTried'
  BY <1>16 DEF PortsStage, Is, Claim, Claimable, Edit, Goto
<1>17. ASSUME NEW t \in Tasks, PortsRefused(t), UNCHANGED job PROVE PortsAreTried'
  BY <1>17 DEF PortsRefused, Is, Answer, Goto
<1>18. ASSUME NEW t \in Tasks, PortsGenerate(t), UNCHANGED job PROVE PortsAreTried'
  BY <1>18 DEF PortsGenerate, Is, Edit, Generated, Goto
<1>19. ASSUME NEW t \in Tasks, PortsRejected(t), UNCHANGED job PROVE PortsAreTried'
  BY <1>19 DEF PortsRejected, Rollback, Discard, Release, Answer, Goto
<1>20. ASSUME NEW t \in Tasks, PortsSnapshot(t), UNCHANGED job PROVE PortsAreTried'
  BY <1>20 DEF PortsSnapshot, Is, Goto
<1>21. ASSUME NEW t \in Tasks, NEW outcome \in Outcomes, PortsActivate(t, outcome), UNCHANGED job PROVE PortsAreTried'
  BY <1>21 DEF PortsActivate, Is, Rollback, Discard, Release, Goto
<1>22. ASSUME NEW t \in Tasks, PortsPersist(t), UNCHANGED job PROVE PortsAreTried'
  BY <1>22 DEF PortsPersist, Is, Goto
<1>23. ASSUME NEW t \in Tasks, PortsPersistFails(t), UNCHANGED job PROVE PortsAreTried'
  BY <1>23 DEF PortsPersistFails, Is, Rollback, Discard, Release, Goto
<1>24. ASSUME NEW t \in Tasks, NEW outcome \in Outcomes, PortsRevert(t, outcome), UNCHANGED job PROVE PortsAreTried'
  BY <1>24 DEF PortsRevert, Is, Answer, Goto
<1>25. ASSUME NEW t \in Tasks, UpdateBegin(t), UNCHANGED job PROVE PortsAreTried'
  BY <1>25 DEF UpdateBegin, UpdateBegins, Is, Claim, Claimable, Goto
<1>26. ASSUME NEW t \in Tasks, UpdateBusy(t), UNCHANGED job PROVE PortsAreTried'
  BY <1>26 DEF UpdateBusy, UpdateBegins, Is, Update, Answer, Goto
<1>27. ASSUME NEW t \in Tasks, UpdateGenerate(t), UNCHANGED job PROVE PortsAreTried'
  BY <1>27 DEF UpdateGenerate, Edit, Generated, Goto
<1>28. ASSUME NEW t \in Tasks, UpdateGenerateFails(t), UNCHANGED job PROVE PortsAreTried'
  BY <1>28 DEF UpdateGenerateFails, Rollback, Discard, Release, Update, Answer, Goto
<1>29. ASSUME NEW t \in Tasks, NEW outcome \in Outcomes, UpdateApply(t, outcome), UNCHANGED job PROVE PortsAreTried'
  BY <1>29 DEF UpdateApply, Commit, Apply, Rollback, Discard, Release, Update, Answer, Goto
<1>30. ASSUME NEW t \in Tasks, DnsStage(t), UNCHANGED job PROVE PortsAreTried'
  BY <1>30 DEF DnsStage, Is, Claim, Claimable, Edit, Goto
<1>31. ASSUME NEW t \in Tasks, DnsRefused(t), UNCHANGED job PROVE PortsAreTried'
  BY <1>31 DEF DnsRefused, Is, Answer, Goto
<1>32. ASSUME NEW t \in Tasks, DnsCommit(t), UNCHANGED job PROVE PortsAreTried'
  BY <1>32 DEF DnsCommit, Is, Commit, Apply, Release, Goto
<1>33. ASSUME NEW t \in Tasks, DnsSave(t), UNCHANGED job PROVE PortsAreTried'
  BY <1>33 DEF DnsSave, Is, Answer, Goto
<1>34. ASSUME NEW t \in Tasks, DnsUndo(t), UNCHANGED job PROVE PortsAreTried'
  BY <1>34 DEF DnsUndo, Is, Rollback, Discard, Release, Answer, Goto
<1>35. ASSUME NEW t \in Tasks, RestartBegin(t), UNCHANGED job PROVE PortsAreTried'
  BY <1>35 DEF RestartBegin, Is, Goto
<1>36. ASSUME NEW t \in Tasks, FlagRefused(t), UNCHANGED job PROVE PortsAreTried'
  BY <1>36 DEF FlagRefused, Refuse, Answer, Goto
<1>37. ASSUME NEW t \in Tasks, NEW outcome \in Outcomes, RestartCore(t, outcome), UNCHANGED job PROVE PortsAreTried'
  BY <1>37 DEF RestartCore, Is, Answer, Goto
<1>38. ASSUME NEW t \in Tasks, SettleBegin(t), UNCHANGED job PROVE PortsAreTried'
  BY <1>38 DEF SettleBegin, Is, Goto
<1>39. ASSUME NEW t \in Tasks, SettleWriteOff(t), UNCHANGED job PROVE PortsAreTried'
  BY <1>39 DEF SettleWriteOff, Is, Edit, Goto
<1>40. ASSUME NEW t \in Tasks, SettleApply(t), UNCHANGED job PROVE PortsAreTried'
  BY <1>40 DEF SettleApply, Is, Apply, Goto
<1>41. ASSUME NEW t \in Tasks, SettleSave(t), UNCHANGED job PROVE PortsAreTried'
  BY <1>41 DEF SettleSave, Is, Goto
<1>42. ASSUME NEW t \in Tasks, SettleGenerate(t), UNCHANGED job PROVE PortsAreTried'
  BY <1>42 DEF SettleGenerate, Is, Edit, Generated, Goto
<1>43. ASSUME NEW t \in Tasks, SettleFails(t), UNCHANGED job PROVE PortsAreTried'
  BY <1>43 DEF SettleFails, Answer, Goto
<1>44. ASSUME NEW t \in Tasks, SettleStart(t), UNCHANGED job PROVE PortsAreTried'
  BY <1>44 DEF SettleStart, Is, Answer, Goto
<1>45. ASSUME NEW t \in Tasks, LegacyEdit(t), UNCHANGED job PROVE PortsAreTried'
  BY <1>45 DEF LegacyEdit, Is, Edit, Goto
<1>46. ASSUME NEW t \in Tasks, LegacyApply(t), UNCHANGED job PROVE PortsAreTried'
  BY <1>46 DEF LegacyApply, Is, Apply, Goto
<1>47. ASSUME NEW t \in Tasks, LegacySave(t), UNCHANGED job PROVE PortsAreTried'
  BY <1>47 DEF LegacySave, Is, Answer, Goto
<1>48. CASE UNCHANGED vars
  BY <1>48 DEF vars
<1> HIDE NullsAssumption
<1> HIDE DEF Discipline, Routes, Locked, Updating, Staging, Trying, TypeOK, Layers,
    NoneAsks, Is, Latest, Contents, DraftIsStaged, Staged, WritesOff, AnsweredAtTheEnd,
    AcceptedMeansCommitted, Changers, PortsAreTried, Runs, CoreAfter, Takes, Outcomes,
    taskVars, layerVars, lockVars
<1> QED
  BY <1>1, <1>2, <1>3, <1>4, <1>5, <1>6, <1>7, <1>8, <1>9, <1>10, <1>11, <1>12, <1>13,
      <1>14, <1>15, <1>16, <1>17, <1>18, <1>19, <1>20, <1>21, <1>22, <1>23, <1>24, <1>25,
      <1>26, <1>27, <1>28, <1>29, <1>30, <1>31, <1>32, <1>33, <1>34, <1>35, <1>36, <1>37,
      <1>38, <1>39, <1>40, <1>41, <1>42, <1>43, <1>44, <1>45, <1>46, <1>47, <1>48 DEF Next,
      Step, Patch, Ports, Refresh, Dns, Restart, Settle, Legacy, Finished

(* A staged change of ports or DNS stays in whatever is generated after it. *)
LEMMA NextKept ==
  ASSUME TypeOK, Discipline, AnsweredAtTheEnd, ChangesAreKept, [Next]_vars
  PROVE  ChangesAreKept'
<1> USE NullsAssumption DEF Discipline, Routes, Locked, Updating, Staging, Trying, TypeOK,
    Layers, NoneAsks, Is, Latest, Contents, AnsweredAtTheEnd, ChangesAreKept, ChangeIsKept,
    Accepted, Kept, InTrial, Takes, Outcomes, taskVars, layerVars, lockVars
<1>1. ASSUME NEW t \in Tasks, Lock(t), UNCHANGED job PROVE ChangesAreKept'
  BY <1>1 DEF Lock, Is, Goto
<1>2. ASSUME NEW t \in Tasks, CommitAll(t), UNCHANGED job PROVE ChangesAreKept'
  BY <1>2 DEF CommitAll, Commit, Apply, Release, Answer, Goto
<1>3. ASSUME NEW t \in Tasks, Restore(t), UNCHANGED job PROVE ChangesAreKept'
  BY <1>3 DEF Restore, RestoreFiles, Answer, Goto
<1>4. ASSUME NEW t \in Tasks, Leave(t), UNCHANGED job PROVE ChangesAreKept'
  BY <1>4 DEF Leave, Goto
<1>5. ASSUME NEW t \in Tasks, Unlock(t), UNCHANGED job PROVE ChangesAreKept'
  BY <1>5 DEF Unlock, Goto
<1>6. ASSUME NEW t \in Tasks, PatchBegin(t), UNCHANGED job PROVE ChangesAreKept'
  BY <1>6 DEF PatchBegin, Is, Claim, Claimable, Goto
<1>7. ASSUME NEW t \in Tasks, PatchRefused(t), UNCHANGED job PROVE ChangesAreKept'
  BY <1>7 DEF PatchRefused, Is, Refuse, Goto, Answer
<1>8. ASSUME NEW t \in Tasks, PatchSnapshot(t), UNCHANGED job PROVE ChangesAreKept'
  BY <1>8 DEF PatchSnapshot, Is, Goto
<1>9. ASSUME NEW t \in Tasks, PatchSnapshotFails(t), UNCHANGED job PROVE ChangesAreKept'
  BY <1>9 DEF PatchSnapshotFails, Is, Rollback, Discard, Release, Answer, Goto
<1>10. ASSUME NEW t \in Tasks, PatchStage(t), UNCHANGED job PROVE ChangesAreKept'
  BY <1>10 DEF PatchStage, Is, Edit, Goto
<1>11. ASSUME NEW t \in Tasks, PatchGenerate(t), UNCHANGED job PROVE ChangesAreKept'
  BY <1>11 DEF PatchGenerate, Is, Edit, Generated, Goto
<1>12. ASSUME NEW t \in Tasks, NEW outcome \in Outcomes, PatchApply(t, outcome), UNCHANGED job PROVE ChangesAreKept'
  BY <1>12 DEF PatchApply, Is, Apply, Goto
<1>13. ASSUME NEW t \in Tasks, PatchFails(t), UNCHANGED job PROVE ChangesAreKept'
  BY <1>13 DEF PatchFails, Goto
<1>14. ASSUME NEW t \in Tasks, PatchSave(t), UNCHANGED job PROVE ChangesAreKept'
  BY <1>14 DEF PatchSave, Goto
<1>15. ASSUME NEW t \in Tasks, PatchUndo(t), UNCHANGED job PROVE ChangesAreKept'
  BY <1>15 DEF PatchUndo, Is, Rollback, Discard, Release, Goto
<1>16. ASSUME NEW t \in Tasks, PortsStage(t), UNCHANGED job PROVE ChangesAreKept'
  <2>1. Latest("settings") \cup {t} # NoDraft
    BY LatestIsContents
  <2>2. draft' = [draft EXCEPT !["settings"] = Latest("settings") \cup {t}] /\ committed' = committed
    BY <1>16 DEF PortsStage, Edit
  <2>3. Latest("settings")' = Latest("settings") \cup {t} /\ Latest("runtime")' = Latest("runtime")
    BY <2>1, <2>2
  <2>4. \A u \in Tasks \ {t} : at'[u] = at[u] /\ answer'[u] = answer[u]
    BY <1>16 DEF PortsStage, Goto
  <2>5. at'[t] = "generate" /\ job[t] = "ports" /\ answer'[t] = answer[t] /\ answer[t] = "none"
    BY <1>16 DEF PortsStage, Is, Goto, Answers
  <2>6. \A u \in Tasks : /\ Kept(u)' => Kept(u) \/ u = t
                         /\ Accepted(u)' => Accepted(u) /\ Kept(u)
                         /\ InTrial(u)' => InTrial(u)
                         /\ Is(u, "dns", "commit")' => Is(u, "dns", "commit")
    BY <2>4, <2>5, <1>16
  <2> QED
    <3> SUFFICES ASSUME NEW u \in Tasks PROVE ChangeIsKept(u)'
      OBVIOUS
    <3> QED
      BY <2>2, <2>3, <2>6 DEF ChangeIsKept
<1>17. ASSUME NEW t \in Tasks, PortsRefused(t), UNCHANGED job PROVE ChangesAreKept'
  BY <1>17 DEF PortsRefused, Is, Answer, Goto
<1>18. ASSUME NEW t \in Tasks, PortsGenerate(t), UNCHANGED job PROVE ChangesAreKept'
  BY <1>18 DEF PortsGenerate, Is, Edit, Generated, Goto
<1>19. ASSUME NEW t \in Tasks, PortsRejected(t), UNCHANGED job PROVE ChangesAreKept'
  BY <1>19 DEF PortsRejected, Rollback, Discard, Release, Answer, Goto
<1>20. ASSUME NEW t \in Tasks, PortsSnapshot(t), UNCHANGED job PROVE ChangesAreKept'
  BY <1>20 DEF PortsSnapshot, Is, Goto
<1>21. ASSUME NEW t \in Tasks, NEW outcome \in Outcomes, PortsActivate(t, outcome), UNCHANGED job PROVE ChangesAreKept'
  BY <1>21 DEF PortsActivate, Is, Rollback, Discard, Release, Goto
<1>22. ASSUME NEW t \in Tasks, PortsPersist(t), UNCHANGED job PROVE ChangesAreKept'
  BY <1>22 DEF PortsPersist, Is, Goto
<1>23. ASSUME NEW t \in Tasks, PortsPersistFails(t), UNCHANGED job PROVE ChangesAreKept'
  BY <1>23 DEF PortsPersistFails, Is, Rollback, Discard, Release, Goto
<1>24. ASSUME NEW t \in Tasks, NEW outcome \in Outcomes, PortsRevert(t, outcome), UNCHANGED job PROVE ChangesAreKept'
  BY <1>24 DEF PortsRevert, Is, Answer, Goto
<1>25. ASSUME NEW t \in Tasks, UpdateBegin(t), UNCHANGED job PROVE ChangesAreKept'
  BY <1>25 DEF UpdateBegin, UpdateBegins, Is, Claim, Claimable, Goto
<1>26. ASSUME NEW t \in Tasks, UpdateBusy(t), UNCHANGED job PROVE ChangesAreKept'
  BY <1>26 DEF UpdateBusy, UpdateBegins, Is, Update, Answer, Goto
<1>27. ASSUME NEW t \in Tasks, UpdateGenerate(t), UNCHANGED job PROVE ChangesAreKept'
  <2>1. Latest("settings") # NoDraft
    BY LatestIsContents
  <2>2. draft' = [draft EXCEPT !["runtime"] = Latest("settings")] /\ committed' = committed
    BY <1>27 DEF UpdateGenerate, Edit, Generated
  <2>3. Latest("settings")' = Latest("settings") /\ Latest("runtime")' = Latest("settings")
        /\ draft'["runtime"] = Latest("settings") /\ draft'["runtime"] # NoDraft
    BY <2>1, <2>2
  <2>4. \A u \in Tasks \ {t} : at'[u] = at[u] /\ answer'[u] = answer[u]
    BY <1>27 DEF UpdateGenerate, Goto
  <2>5. at[t] = "updateGenerate" /\ at'[t] = "updateApply" /\ answer'[t] = answer[t]
    BY <1>27 DEF UpdateGenerate, Goto
  <2>6. job[t] \in {"refresh", "dns"}
    BY <2>5 DEF AllJobs
  <2>7. \A u \in Tasks : /\ Kept(u)' => Kept(u)
                         /\ Accepted(u)' => Accepted(u) /\ Kept(u)
                         /\ InTrial(u)' => Kept(u)
                         /\ Is(u, "dns", "commit")' => Is(u, "dns", "commit") /\ Kept(u)
    BY <2>4, <2>5, <2>6, <1>27
  <2> QED
    <3> SUFFICES ASSUME NEW u \in Tasks PROVE ChangeIsKept(u)'
      OBVIOUS
    <3> QED
      BY <2>2, <2>3, <2>7 DEF ChangeIsKept
<1>28. ASSUME NEW t \in Tasks, UpdateGenerateFails(t), UNCHANGED job PROVE ChangesAreKept'
  BY <1>28 DEF UpdateGenerateFails, Rollback, Discard, Release, Update, Answer, Goto
<1>29. ASSUME NEW t \in Tasks, NEW outcome \in Outcomes, UpdateApply(t, outcome), UNCHANGED job PROVE ChangesAreKept'
  BY <1>29 DEF UpdateApply, Commit, Apply, Rollback, Discard, Release, Update, Answer, Goto
<1>30. ASSUME NEW t \in Tasks, DnsStage(t), UNCHANGED job PROVE ChangesAreKept'
  <2>1. Latest("settings") \cup {t} # NoDraft
    BY LatestIsContents
  <2>2. draft' = [draft EXCEPT !["settings"] = Latest("settings") \cup {t}] /\ committed' = committed
    BY <1>30 DEF DnsStage, Edit
  <2>3. Latest("settings")' = Latest("settings") \cup {t} /\ Latest("runtime")' = Latest("runtime")
    BY <2>1, <2>2
  <2>4. \A u \in Tasks \ {t} : at'[u] = at[u] /\ answer'[u] = answer[u]
    BY <1>30 DEF DnsStage, Goto
  <2>5. at'[t] = "update" /\ job[t] = "dns" /\ answer'[t] = answer[t] /\ answer[t] = "none"
    BY <1>30 DEF DnsStage, Is, Goto, Answers
  <2>6. \A u \in Tasks : /\ Kept(u)' => Kept(u) \/ u = t
                         /\ Accepted(u)' => Accepted(u) /\ Kept(u)
                         /\ InTrial(u)' => InTrial(u)
                         /\ Is(u, "dns", "commit")' => Is(u, "dns", "commit")
    BY <2>4, <2>5, <1>30
  <2> QED
    <3> SUFFICES ASSUME NEW u \in Tasks PROVE ChangeIsKept(u)'
      OBVIOUS
    <3> QED
      BY <2>2, <2>3, <2>6 DEF ChangeIsKept
<1>31. ASSUME NEW t \in Tasks, DnsRefused(t), UNCHANGED job PROVE ChangesAreKept'
  BY <1>31 DEF DnsRefused, Is, Answer, Goto
<1>32. ASSUME NEW t \in Tasks, DnsCommit(t), UNCHANGED job PROVE ChangesAreKept'
  BY <1>32 DEF DnsCommit, Is, Commit, Apply, Release, Goto
<1>33. ASSUME NEW t \in Tasks, DnsSave(t), UNCHANGED job PROVE ChangesAreKept'
  BY <1>33 DEF DnsSave, Is, Answer, Goto
<1>34. ASSUME NEW t \in Tasks, DnsUndo(t), UNCHANGED job PROVE ChangesAreKept'
  BY <1>34 DEF DnsUndo, Is, Rollback, Discard, Release, Answer, Goto
<1>35. ASSUME NEW t \in Tasks, RestartBegin(t), UNCHANGED job PROVE ChangesAreKept'
  BY <1>35 DEF RestartBegin, Is, Goto
<1>36. ASSUME NEW t \in Tasks, FlagRefused(t), UNCHANGED job PROVE ChangesAreKept'
  BY <1>36 DEF FlagRefused, Refuse, Answer, Goto
<1>37. ASSUME NEW t \in Tasks, NEW outcome \in Outcomes, RestartCore(t, outcome), UNCHANGED job PROVE ChangesAreKept'
  BY <1>37 DEF RestartCore, Is, Answer, Goto
<1>38. ASSUME NEW t \in Tasks, SettleBegin(t), UNCHANGED job PROVE ChangesAreKept'
  BY <1>38 DEF SettleBegin, Is, Goto
<1>39. ASSUME NEW t \in Tasks, SettleWriteOff(t), UNCHANGED job PROVE ChangesAreKept'
  BY <1>39 DEF SettleWriteOff, Is, Edit, Goto
<1>40. ASSUME NEW t \in Tasks, SettleApply(t), UNCHANGED job PROVE ChangesAreKept'
  BY <1>40 DEF SettleApply, Is, Apply, Goto
<1>41. ASSUME NEW t \in Tasks, SettleSave(t), UNCHANGED job PROVE ChangesAreKept'
  BY <1>41 DEF SettleSave, Is, Goto
<1>42. ASSUME NEW t \in Tasks, SettleGenerate(t), UNCHANGED job PROVE ChangesAreKept'
  BY <1>42 DEF SettleGenerate, Is, Edit, Generated, Goto
<1>43. ASSUME NEW t \in Tasks, SettleFails(t), UNCHANGED job PROVE ChangesAreKept'
  BY <1>43 DEF SettleFails, Answer, Goto
<1>44. ASSUME NEW t \in Tasks, SettleStart(t), UNCHANGED job PROVE ChangesAreKept'
  BY <1>44 DEF SettleStart, Is, Answer, Goto
<1>45. ASSUME NEW t \in Tasks, LegacyEdit(t), UNCHANGED job PROVE ChangesAreKept'
  <2>1. Latest("settings") \cup {t} # NoDraft
    BY LatestIsContents
  <2>2. draft' = [draft EXCEPT !["settings"] = Latest("settings") \cup {t}] /\ committed' = committed
    BY <1>45 DEF LegacyEdit, Edit
  <2>3. Latest("settings")' = Latest("settings") \cup {t} /\ Latest("runtime")' = Latest("runtime")
    BY <2>1, <2>2
  <2>4. \A u \in Tasks \ {t} : at'[u] = at[u] /\ answer'[u] = answer[u]
    BY <1>45 DEF LegacyEdit, Goto
  <2>5. at'[t] = "persist" /\ job[t] = "legacy" /\ answer'[t] = answer[t] /\ answer[t] = "none"
    BY <1>45 DEF LegacyEdit, Is, Goto, Answers
  <2>6. \A u \in Tasks : /\ Kept(u)' => Kept(u) \/ u = t
                         /\ Accepted(u)' => Accepted(u) /\ Kept(u)
                         /\ InTrial(u)' => InTrial(u)
                         /\ Is(u, "dns", "commit")' => Is(u, "dns", "commit")
    BY <2>4, <2>5, <1>45
  <2> QED
    <3> SUFFICES ASSUME NEW u \in Tasks PROVE ChangeIsKept(u)'
      OBVIOUS
    <3> QED
      BY <2>2, <2>3, <2>6 DEF ChangeIsKept
<1>46. ASSUME NEW t \in Tasks, LegacyApply(t), UNCHANGED job PROVE ChangesAreKept'
  BY <1>46 DEF LegacyApply, Is, Apply, Goto
<1>47. ASSUME NEW t \in Tasks, LegacySave(t), UNCHANGED job PROVE ChangesAreKept'
  BY <1>47 DEF LegacySave, Is, Answer, Goto
<1>48. CASE UNCHANGED vars
  BY <1>48 DEF vars
<1> HIDE NullsAssumption
<1> HIDE DEF Discipline, Routes, Locked, Updating, Staging, Trying, TypeOK, Layers,
    NoneAsks, Is, Latest, Contents, AnsweredAtTheEnd, ChangesAreKept, ChangeIsKept,
    Accepted, Kept, InTrial, Takes, Outcomes, taskVars, layerVars, lockVars
<1> QED
  BY <1>1, <1>2, <1>3, <1>4, <1>5, <1>6, <1>7, <1>8, <1>9, <1>10, <1>11, <1>12, <1>13,
      <1>14, <1>15, <1>16, <1>17, <1>18, <1>19, <1>20, <1>21, <1>22, <1>23, <1>24, <1>25,
      <1>26, <1>27, <1>28, <1>29, <1>30, <1>31, <1>32, <1>33, <1>34, <1>35, <1>36, <1>37,
      <1>38, <1>39, <1>40, <1>41, <1>42, <1>43, <1>44, <1>45, <1>46, <1>47, <1>48 DEF Next,
      Step, Patch, Ports, Refresh, Dns, Restart, Settle, Legacy, Finished

-----------------------------------------------------------------------------
IInv ==
  /\ TypeOK
  /\ Discipline
  /\ DraftIsStaged
  /\ AnsweredAtTheEnd
  /\ AcceptedMeansCommitted
  /\ RuntimeIsTried
  /\ CoreIsKnown
  /\ FilesAreKnown
  /\ PortsAreTried
  /\ ChangesAreKept

(* No request is under way at first, and every layer shows the same. *)
LEMMA InitIInv == Init => IInv
<1> SUFFICES ASSUME Init PROVE IInv
  OBVIOUS
<1> USE RequestsAssumption, NullsAssumption DEF Layers, Contents
<1>1. job \in [Tasks -> AllJobs] /\ \A t \in Tasks : at[t] = "idle" /\ answer[t] = "none"
  BY DEF Init
<1>2. \A t \in Tasks : /\ ~Locked(t) /\ ~Updating(t) /\ ~Staging(t) /\ ~Trying(t)
                      /\ ~Writing(t) /\ ~Copied(t) /\ ~Moving(t) /\ ~WritesOff(t)
                      /\ ~Kept(t) /\ ~Accepted(t) /\ ~InTrial(t)
  BY <1>1 DEF Locked, Updating, Staging, Trying, Writing, Copied, Moving, WritesOff, Kept,
              Accepted, InTrial, Is
<1>3. /\ committed = [l \in Layers |-> {Tun}]
      /\ draft = [l \in Layers |-> NoDraft]
      /\ claimed = [l \in Layers |-> Nobody]
  BY DEF Init
<1>4. TypeOK
  <2>1. at \in [Tasks -> Places] /\ answer \in [Tasks -> Answers]
    BY DEF Init, Places, Answers
  <2>2. copy \in [Tasks -> Contents] /\ file \in Contents
    BY DEF Init
  <2>3. loaded \in Contents \cup {NotRunning} /\ loaded # NoDraft
    BY DEF Init
  <2>4. committed \in [Layers -> Contents] /\ draft \in [Layers -> Contents \cup {NoDraft}]
    BY <1>3
  <2>5. claimed \in [Layers -> Tasks \cup {Nobody}]
    BY <1>3
  <2>6. writeLock \in Tasks \cup {Nobody} /\ updating \in BOOLEAN /\ trouble \subseteq {"file", "core"}
    BY DEF Init
  <2> QED
    BY <1>1, <2>1, <2>2, <2>3, <2>4, <2>5, <2>6 DEF TypeOK
<1>5. Discipline
  BY <1>1, <1>2, <1>3 DEF Init, Discipline, Routes
<1>6. DraftIsStaged /\ RuntimeIsTried
  BY <1>2, <1>3 DEF DraftIsStaged, RuntimeIsTried, Staged
<1>7. AnsweredAtTheEnd
  BY <1>1 DEF AnsweredAtTheEnd
<1>8. AcceptedMeansCommitted
  BY <1>1, <1>3 DEF AcceptedMeansCommitted, Changers, Is
<1>9. CoreIsKnown
  BY <1>1, <1>3 DEF Init, CoreIsKnown
<1>10. FilesAreKnown
  BY <1>1, <1>2, <1>3 DEF Init, FilesAreKnown
<1>11. PortsAreTried
  BY <1>1, <1>3 DEF Init, PortsAreTried, Runs, Latest
<1>12. ChangesAreKept
  BY <1>1, <1>2 DEF ChangesAreKept, ChangeIsKept, Is
<1> QED
  BY <1>4, <1>5, <1>6, <1>7, <1>8, <1>9, <1>10, <1>11, <1>12 DEF IInv

(* The parts together are inductive. *)
LEMMA NextIInv == IInv /\ [Next]_vars => IInv'
<1> SUFFICES ASSUME IInv, [Next]_vars PROVE IInv'
  OBVIOUS
<1>1. TypeOK' /\ Discipline' /\ DraftIsStaged' /\ AnsweredAtTheEnd'
  BY NextTypeOK, NextDiscipline, NextDraft, NextAnswers DEF IInv
<1>2. AcceptedMeansCommitted' /\ RuntimeIsTried' /\ CoreIsKnown'
  BY NextAccepted, NextRuntime, NextCore DEF IInv
<1>3. FilesAreKnown' /\ PortsAreTried' /\ ChangesAreKept'
  BY NextFiles, NextPorts, NextKept DEF IInv
<1> QED
  BY <1>1, <1>2, <1>3 DEF IInv

(* The inductive invariant holds in every behaviour. *)
THEOREM Inductive == Spec => []IInv
<1> QED
  BY InitIInv, NextIInv, PTL DEF Spec

-----------------------------------------------------------------------------
(* Every variable keeps its type, and the Core never runs an empty slot: what *)
(* is loaded is a content or no Core at all. *)
THEOREM TypesHold == Spec => []TypeOK
<1>1. IInv => TypeOK
  BY DEF IInv
<1> QED
  BY <1>1, Inductive, PTL

(* While every writer locks, the committed settings hold exactly the changes  *)
(* that were accepted (DraftTransaction). *)
THEOREM CommittedIffAccepted == Spec => []AcceptedMeansCommitted
<1>1. IInv => AcceptedMeansCommitted
  BY DEF IInv
<1> QED
  BY <1>1, Inductive, PTL

(* A staged change is its claimant's, so that a rollback discards no other    *)
(* (DraftLayer::try_claim). *)
THEOREM DraftsAreTheirClaimants == Spec => []StagedByItsClaimant
<1>1. ASSUME IInv, NoneAsks("legacy"), NoneAsks("settle") PROVE StagedByItsClaimant
  <2>1. \A t \in Tasks : ~WritesOff(t)
    BY <1>1 DEF WritesOff, Is, NoneAsks
  <2>2. ASSUME draft["settings"] # NoDraft
        PROVE  /\ claimed["settings"] # Nobody
               /\ draft["settings"] = committed["settings"] \cup {claimed["settings"]}
    <3>1. PICK t \in Tasks : Staged(t)
      BY <1>1, <2>1, <2>2 DEF IInv, DraftIsStaged
    <3>2. claimed["settings"] = t /\ draft["settings"] = committed["settings"] \cup {t}
      BY <1>1, <3>1 DEF IInv, Discipline, DraftIsStaged, Staged
    <3> QED
      BY <3>2, NullsAssumption
  <2>3. ASSUME draft["runtime"] # NoDraft PROVE claimed["runtime"] # Nobody
    <3>1. PICK t \in Tasks : Generating(t)
      BY <1>1, <2>3 DEF IInv, RuntimeIsTried
    <3>2. Trying(t)
      BY <3>1 DEF Generating, Trying
    <3>3. claimed["runtime"] = t
      BY <1>1, <3>2 DEF IInv, Discipline
    <3> QED
      BY <3>3, NullsAssumption
  <2> QED
    BY <2>2, <2>3 DEF StagedByItsClaimant
<1>2. IInv => StagedByItsClaimant
  BY <1>1 DEF StagedByItsClaimant
<1> QED
  BY <1>2, Inductive, PTL

(* At rest the files, the committed layers and the Core say the same          *)
(* (executor::apply, rollback_proxy_ports, retain_applied_runtime). *)
THEOREM LayersAgreeAtRest == Spec => []LayersAgree
<1>1. ASSUME IInv PROVE FileHoldsTheCommitted
  <2>1. SUFFICES ASSUME NoneAsks("legacy"), writeLock = Nobody, "file" \notin trouble
                 PROVE  file = committed["settings"]
    BY DEF FileHoldsTheCommitted
  <2>2. \A t \in Tasks : ~Locked(t)
    BY <1>1, <2>1, NullsAssumption DEF IInv, Discipline
  <2>3. \A t \in Tasks : ~Writing(t)
    BY <2>2 DEF Writing, Locked, Staging
  <2> QED
    BY <1>1, <2>1, <2>3 DEF IInv, FilesAreKnown
<1>2. ASSUME IInv PROVE CoreRunsTheCommitted
  <2>1. SUFFICES ASSUME ~updating, "core" \notin trouble, NoneAsks("settle")
                 PROVE  loaded \in {NotRunning, committed["runtime"]}
    BY DEF CoreRunsTheCommitted
  <2>2. \A t \in Tasks : ~Updating(t)
    BY <1>2, <2>1 DEF IInv, Discipline
  <2>3. \A t \in Tasks : ~Moving(t)
    BY <2>2 DEF Moving, Updating, Trying
  <2> QED
    BY <1>2, <2>1, <2>3 DEF IInv, CoreIsKnown
<1>3. IInv => LayersAgree
  BY <1>1, <1>2 DEF LayersAgree
<1> QED
  BY <1>3, Inductive, PTL

(* Ports that were turned down are in no layer, and not in the Core           *)
(* (save_proxy_ports). *)
THEOREM PortsAreAllOrNothing == Spec => []PortsAllOrNothing
<1>1. ASSUME IInv PROVE PortsAllOrNothing
  <2>1. SUFFICES ASSUME NoneAsks("legacy"), NEW t \in Tasks, job[t] = "ports",
                        answer[t] = "rejected"
                 PROVE  t \notin committed["runtime"] /\ (Runs(t) => "core" \in trouble)
    BY DEF PortsAllOrNothing
  <2>2. at[t] \in {"leave", "unlock", "done"}
    BY <1>1, <2>1 DEF IInv, AnsweredAtTheEnd
  <2> QED
    BY <1>1, <2>1, <2>2 DEF IInv, PortsAreTried
<1>2. IInv => PortsAllOrNothing
  BY <1>1
<1> QED
  BY <1>2, Inductive, PTL

(* Accepted ports and an accepted DNS setting are in the committed runtime,   *)
(* whatever overlapped (update_config_checked). *)
THEOREM AcceptedIsInTheRuntime == Spec => []AcceptedReachesTheRuntime
<1>1. ASSUME IInv PROVE AcceptedReachesTheRuntime
  <2>1. SUFFICES ASSUME NEW t \in Tasks, job[t] \in {"ports", "dns"},
                        answer[t] \in {"ok", "unsaved"}
                 PROVE  t \in committed["runtime"]
    BY DEF AcceptedReachesTheRuntime
  <2>2. Accepted(t)
    BY <2>1 DEF Accepted
  <2> QED
    BY <1>1, <2>2 DEF IInv, ChangesAreKept, ChangeIsKept
<1>2. IInv => AcceptedReachesTheRuntime
  BY <1>1
<1> QED
  BY <1>2, Inductive, PTL
=============================================================================

---------------------------- MODULE ProfilesProofs ----------------------------
(***************************************************************************)
(* Proofs about Profiles, for every set of requests and every set of       *)
(* profiles: what is listed, in memory and in profiles.yaml, can be run,   *)
(* also after a crash; what was accepted stays; and once every request has *)
(* ended, profiles.yaml, the committed profiles and the Core agree.        *)
(*                                                                         *)
(* Two locks carry the first (Discipline).  Whoever writes the file or     *)
(* commits a copy has the permit of with_data_modify; whoever stages a     *)
(* draft or replaces the data without the permit has the profile lock.  A  *)
(* deletion has both from its plan to its commit, so that nobody brings    *)
(* back what it is about to remove (DeletionsAreSafe), and every book that *)
(* somebody has a copy of lists what has its file (...IsBacked).           *)
(*                                                                         *)
(* A copy is current as long as nobody has replaced the data under it      *)
(* (CopiesAreCurrent), so that what a commit changes is known              *)
(* (ChangesStay); whoever replaces them saves them later (SavesAreOwed,    *)
(* FileIsKnown).  What the Core runs is followed from the staged draft     *)
(* over the runtime that is made of it to the Core (DraftIsKnown,          *)
(* MadeIsKnown, LoadedIsKnown), up to a step that upsets it: the history   *)
(* "trouble" has those.                                                    *)
(*                                                                         *)
(* Most lemmas rest on StepsMove, which lists once and for all which steps *)
(* change what, and where a request comes from and goes on.                *)
(***************************************************************************)
EXTENDS Profiles, TLAPS

\* The types, in three parts: the control, the flags, and what is stored.
Control ==
  /\ job \in [Tasks -> Jobs]
  /\ at \in [Tasks -> Places]
  /\ answer \in [Tasks -> {"none", "ok", "unsaved", "rejected"}]
  /\ permit \in Tasks \cup {Nobody}
  /\ profileLock \in Tasks \cup {Nobody}
  /\ configLock \in Tasks \cup {Nobody}
  /\ updating \in Tasks \cup {Nobody}
Flags == replaced \in BOOLEAN /\ switching \in BOOLEAN /\ exiting \in BOOLEAN
Stored ==
  /\ committed # NoDraft
  /\ committed \in Books
  /\ draft # NoDraft => draft \in Books
  /\ local \in [Tasks -> Books]
  /\ prev \in [Tasks -> Uids \cup {NoUid}]
  /\ made \in Runtimes
  /\ loaded # NotRunning => loaded \in Runtimes
  /\ file \in Books
  /\ files \subseteq Uids
  /\ written \subseteq Tasks
  /\ trouble \subseteq Troubles

\* The places of a request, by what it asks for.
Routes ==
  \A t \in Tasks :
    /\ Kind(t) = "switch" =>
         at[t] \in {"idle", "lock", "stage", "ask", "generate", "apply", "discard", "commit", "undo",
                    "restore", "restoreApply", "saveBegin", "saveWrite", "saveEnd", "sync", "done"}
    /\ Kind(t) = "delete" =>
         at[t] \in {"lock", "plan", "ask", "generate", "apply", "write", "cleanup", "commitModify",
                    "rollback", "rollbackApply", "sync", "done"}
    /\ Kind(t) = "edit" => at[t] \in {"idle", "write", "commitModify", "done"}
    /\ Kind(t) = "import" =>
         at[t] \in {"idle", "content", "commitModify", "saveBegin", "saveWrite", "saveEnd", "done"}
    /\ Kind(t) = "scheme" =>
         at[t] \in {"idle", "append", "content", "commitModify", "saveBegin", "saveWrite", "saveEnd",
                    "adopted", "ask", "generate", "apply", "drop", "done"}
    /\ Kind(t) = "refresh" =>
         at[t] \in {"idle", "content", "write", "commitModify", "judge", "ask", "generate", "apply",
                    "sync", "done"}
    /\ Kind(t) = "update" => at[t] \in {"ask", "generate", "apply", "sync", "done"}
    /\ Kind(t) = "dns" => at[t] \in {"lock", "config", "ask", "generate", "apply", "done"}
    /\ Kind(t) = "exit" => at[t] \in {"idle", "lock", "collect", "exitSave", "exitEnd", "done"}
    /\ Kind(t) = "switch" /\ answer[t] # "none" => at[t] \in {"saveBegin", "saveWrite", "saveEnd", "done"}

\* The places where a request has the permit, the profile lock, the update.
Deleting(t) ==
  /\ Kind(t) = "delete"
  /\ at[t] \in {"ask", "generate", "apply", "write", "cleanup", "commitModify", "rollback",
                "rollbackApply"}
Modifying(t) ==
  \/ Deleting(t)
  \/ at[t] \in {"content", "write", "commitModify", "saveWrite", "saveEnd"}
Locked(t) ==
  \/ Deleting(t)
  \/ Kind(t) = "switch" /\ at[t] \in {"stage", "ask", "generate", "apply", "discard", "commit",
                                      "undo", "restore", "restoreApply", "sync"}
  \/ Kind(t) = "switch" /\ at[t] \in {"saveBegin", "saveWrite", "saveEnd"} /\ answer[t] = "none"
  \/ Kind(t) = "delete" /\ at[t] = "plan"
  \/ Kind(t) = "dns" /\ at[t] \in {"config", "ask", "generate", "apply"}
  \/ Kind(t) = "exit" /\ at[t] \in {"collect", "exitSave"}

Discipline ==
  /\ Routes
  /\ \A t \in Tasks : Modifying(t) <=> permit = t
  /\ \A t \in Tasks : Locked(t) <=> profileLock = t

Updates ==
  \A t \in Tasks : at[t] \in {"generate", "apply", "rollback", "rollbackApply"} => updating = t

\* A draft is that of a switch, which has the profile lock.
Staging(t) ==
  Kind(t) = "switch" /\ at[t] \in {"ask", "generate", "apply", "discard", "undo", "restoreApply"}
DraftIsASwitchs == draft # NoDraft => \E t \in Tasks : Staging(t)

\* The data are not replaced under a deletion.
DeletionsAreAlone == \A t \in Tasks : Deleting(t) => ~replaced

\* A book names a current profile that it has.
Whole(book) ==
  \/ book.current \in book.items
  \/ book.current = NoUid /\ book.items = {}
BooksAreWhole ==
  /\ Whole(committed) /\ Whole(file)
  /\ draft # NoDraft => Whole(draft)
  /\ \A t \in Tasks : Whole(local[t])

\* Where the files of a copy's profiles have to be there, the one excepted that
\* a download is about to write; and what a deletion leaves.
Copied(t) == Deleting(t) \/ at[t] \in {"write", "commitModify", "saveWrite", "saveEnd", "exitSave"}
Leaving(t) == Kind(t) = "delete" /\ at[t] = "commitModify"
FileIsBacked == file.items \subseteq files
CommittedIsBacked ==
  /\ (\A t \in Tasks : ~Leaving(t)) => committed.items \subseteq files
  /\ \A t \in Tasks : Leaving(t) => committed.items \ {Uid(t)} \subseteq files
DraftIsBacked == draft # NoDraft => draft.items \subseteq files
CopiesAreBacked ==
  \A t \in Tasks :
    /\ Copied(t) => local[t].items \subseteq files
    /\ at[t] = "content" => local[t].items \subseteq files \cup {Uid(t)}
DeletionsAreSafe ==
  \A t \in Tasks :
    /\ Deleting(t) => Uid(t) \notin local[t].items
    /\ Deleting(t) /\ at[t] \in {"cleanup", "commitModify"} => Uid(t) \notin file.items
    /\ Deleting(t) /\ at[t] \in {"write", "cleanup", "commitModify"} =>
         committed.current # Uid(t) \/ updating = t

-------------------------------------------------------------------------------
JobIsRequested == job \in Requests

\* An answer is the last thing a request does, but for the saving after a switch
\* was turned down.
AnswersAreLast ==
  \A t \in Tasks : answer[t] # "none" /\ Kind(t) # "switch" => at[t] = "done"

\* Whoever has the update is at one of these places.
UpdatesAreHeld ==
  \A t \in Tasks : updating = t =>
    \/ at[t] \in {"generate", "apply", "rollback", "rollbackApply"}
    \/ Kind(t) = "delete" /\ at[t] \in {"write", "cleanup", "commitModify"}

\* A switch that has begun is about a profile that is listed, or was.
SwitchesAreHeard ==
  \A s \in Tasks : Kind(s) = "switch" /\ at[s] # "idle" => Heard(Uid(s))

\* What a copy holds, as long as the committed data are those it was made of.
CopyIsCurrent(t) ==
  /\ at[t] \in {"saveWrite", "saveEnd"} => local[t] = committed
  /\ Kind(t) \in {"edit", "refresh"} /\ at[t] \in {"content", "write", "commitModify"} =>
       /\ Uid(t) \in committed.items
       /\ local[t] = [committed EXCEPT !.edits = @ \cup {t}]
  /\ Kind(t) \in Imports /\ at[t] \in {"content", "commitModify"} =>
       local[t] = AppendItem(committed, Uid(t))
  /\ Deleting(t) =>
       /\ Uid(t) \in committed.items
       /\ local[t].items = committed.items \ {Uid(t)}
       /\ local[t].edits = {u \in committed.edits : Uid(u) # Uid(t)}
       /\ committed.current \notin {Uid(t), NoUid} => local[t].current = committed.current
CopiesAreCurrent == ~replaced => \A t \in Tasks : CopyIsCurrent(t)

\* The requests whose change has been committed.
Changed(t) ==
  \/ Accepted(t)
  \/ Kind(t) = "refresh" /\ at[t] \in {"judge", "ask", "generate", "apply", "sync"}
  \/ Kind(t) \in Imports /\ at[t] \in {"saveBegin", "saveWrite", "saveEnd", "adopted", "ask",
                                       "generate", "apply"}
  \/ Kind(t) = "delete" /\ at[t] = "sync"

\* A profile that is still to be added is unknown to everybody.
Adding(t) == Kind(t) \in Imports /\ at[t] \in {"idle", "append", "content", "commitModify"}
NewUntilAdded ==
  \A i \in Tasks : Adding(i) =>
    /\ Uid(i) \notin committed.items
    /\ draft # NoDraft => Uid(i) \notin draft.items
    /\ \A t \in Tasks : Kind(t) \in {"edit", "refresh", "delete"} /\ Changed(t) => Uid(t) # Uid(i)

ChangesStay ==
  "overwritten" \notin trouble =>
    \A t \in Tasks : Changed(t) =>
      /\ Kind(t) \in {"edit", "refresh"} /\ Uid(t) \in committed.items => t \in committed.edits
      /\ Kind(t) \in Imports => Uid(t) \in committed.items \/ Deleted(Uid(t))
      /\ Kind(t) = "delete" => Uid(t) \notin committed.items

\* Whoever replaces the data under a copy saves them afterwards.
Saving == \E s \in Tasks : at[s] = "saveBegin"
SavesAreOwed == permit # Nobody /\ replaced => Saving

\* What profiles.yaml holds while nobody is about to save.
Saved(t) ==
  \/ Kind(t) \in {"edit", "refresh"} /\ at[t] = "commitModify"
  \/ Kind(t) = "delete" /\ at[t] \in {"cleanup", "commitModify"}
FileIsKnown ==
  "file" \notin trouble /\ ~Asks({"exit"}) /\ ~Saving =>
    /\ \A t \in Tasks : Saved(t) => file = local[t]
    /\ (\A t \in Tasks : ~Saved(t) /\ at[t] # "saveWrite") => file = committed

\* The profile that a switch leaves behind is the committed one.
Switching(t) ==
  Kind(t) = "switch" /\ at[t] \in {"ask", "generate", "apply", "discard", "commit", "undo",
                                   "restore", "restoreApply"}
SwitchesKeepTheirPrevious ==
  \A s \in Tasks : Switching(s) =>
    /\ prev[s] # NoUid => prev[s] = committed.current
    /\ at[s] \in {"restore", "restoreApply"} => prev[s] # NoUid
    /\ at[s] = "restoreApply" /\ draft # NoDraft => draft.current = committed.current

\* The links whose profile became the current one and is not yet on its way to
\* the Core.
Waiting(t) ==
  /\ Kind(t) = "scheme"
  /\ \/ at[t] \in {"saveBegin", "saveWrite", "saveEnd", "adopted"}
        /\ prev[t] = NoUid /\ committed.current = Uid(t)
     \/ at[t] \in {"ask", "generate"}
Behind(uid) == uid = NoUid /\ \E t \in Tasks : Waiting(t)
Arriving(uid) == uid = NoUid /\ \E t \in Tasks : Kind(t) = "scheme" /\ at[t] = "apply"

\* What a switch is about to make the current profile.
Chosen(s) == PatchConfig(committed, Uid(s)).current
Follows(uid, s) == uid = Chosen(s) \/ (Uid(s) \notin committed.items /\ Behind(uid))

Calm == trouble \cap {"core", "raced"} = {}

\* A staged draft names what the switch will commit.
DraftIsKnown ==
  Calm =>
    \A s \in Tasks : Kind(s) = "switch" /\ at[s] \in {"ask", "generate", "apply"} =>
      draft # NoDraft /\ Follows(draft.current, s)

\* Nobody else's runtime is on its way to the Core while a switch is committed.
Chosing(t) == Kind(t) = "switch" /\ at[t] \in {"discard", "commit"}
SwitchesAreAlone ==
  Calm => \A s, t \in Tasks : Chosing(s) => at[t] # "apply"

\* What the update under way will have the Core run.
MadeIsKnown ==
  Calm =>
    \A t \in Tasks :
      /\ at[t] = "apply" /\ Kind(t) = "switch" => Follows(made.current, t)
      /\ at[t] = "apply" /\ Kind(t) = "delete" => made = Enhanced(local[t])
      /\ at[t] = "apply" /\ Kind(t) \notin {"switch", "delete"} =>
           made.current = committed.current \/ Behind(made.current)
      /\ at[t] = "rollbackApply" => made = Enhanced(committed)

\* What the Core runs: a deletion's candidate, a switch's target, or the current
\* profile.
Taken(t) == Deleting(t) /\ at[t] \in {"write", "cleanup", "commitModify"} /\ updating = t
Rolling(t) == at[t] \in {"rollback", "rollbackApply"}
RunsCurrent ==
  \/ loaded.current = committed.current
  \/ Behind(loaded.current) \/ Arriving(loaded.current)
LoadedIsKnown ==
  Calm =>
    /\ loaded = NotRunning => \E t \in Tasks : Rolling(t)
    /\ \A t \in Tasks : Taken(t) => loaded = Enhanced(local[t])
    /\ \A t \in Tasks : Rolling(t) => loaded \in {NotRunning, Enhanced(local[t])} \/ RunsCurrent
    /\ \A t \in Tasks : Chosing(t) => Follows(loaded.current, t)
    /\ (\A t \in Tasks : ~Taken(t) /\ ~Rolling(t) /\ ~Chosing(t)) => RunsCurrent

\* Refreshes whose download every runtime of their profile shows.
Shown(t) == Kind(t) = "refresh" /\ (at[t] = "sync" \/ answer[t] = "ok")
Shows(runtime, t) == runtime.current = Uid(t) => t \in runtime.shows
RefreshesAreWritten ==
  \A t \in Tasks :
    Kind(t) = "refresh" /\ (Changed(t) \/ at[t] \in {"write", "commitModify"}) => t \in written
RefreshesAreShown ==
  Calm =>
    \A t \in Tasks :
      /\ Shown(t) /\ loaded # NotRunning => Shows(loaded, t)
      /\ Shown(t) => \A u \in Tasks : at[u] \in {"apply", "rollbackApply"} => Shows(made, t)
      /\ Kind(t) = "refresh" /\ at[t] = "apply" => Shows(made, t)

-------------------------------------------------------------------------------
(* A book with an item more is a book. *)
LEMMA AppendKeepsBooks ==
  ASSUME NEW book \in Books, NEW uid \in Uids
  PROVE  AppendItem(book, uid) \in Books
BY DEF AppendItem, Books

(* Some places are of one kind of request only. *)
LEMMA PlacesTellKinds ==
  ASSUME Control, Routes
  PROVE  \A t \in Tasks :
           /\ at[t] \in {"stage", "discard", "commit", "undo", "restore", "restoreApply"} =>
                Kind(t) = "switch"
           /\ at[t] \in {"plan", "cleanup", "rollback", "rollbackApply"} => Kind(t) = "delete"
           /\ at[t] = "config" => Kind(t) = "dns"
           /\ at[t] \in {"collect", "exitSave"} => Kind(t) = "exit"
           /\ at[t] = "content" => Kind(t) \in {"import", "scheme", "refresh"}
<1>1. \A t \in Tasks : Kind(t) \in Kinds
  BY DEF Control, Jobs, Kind
<1> HIDE DEF Kind
<1> QED
  BY <1>1 DEF Kinds, Routes

(* Every step keeps the types of the control. *)
LEMMA NextControl ==
  ASSUME Control, [Next]_vars
  PROVE  Control'
<1> USE HoldersAssumption, UidsAssumption DEF Control, Jobs, Kinds, Kind, Uid, Is, Places,
    taskVars, bookVars, modifyVars, lockVars, coreVars, diskVars
<1>1. ASSUME NEW t \in Tasks, UpdateBegin(t) PROVE Control'
  BY <1>1 DEF UpdateBegin, Goto
<1>2. ASSUME NEW t \in Tasks, UpdateTurnedDown(t) PROVE Control'
  BY <1>2 DEF UpdateTurnedDown, UpdateFails, Finish, Goto, Release, Unless, Upset
<1>3. ASSUME NEW t \in Tasks, UpdateGenerate(t) PROVE Control'
  BY <1>3 DEF UpdateGenerate, Given, Enhanced, CanEnhance, Goto, Upset
<1>4. ASSUME NEW t \in Tasks, UpdateInvalid(t) PROVE Control'
  BY <1>4 DEF UpdateInvalid, UpdateFails, Finish, Goto, Release, Unless, Upset
<1>5. ASSUME NEW t \in Tasks, UpdateApplied(t) PROVE Control'
  BY <1>5 DEF UpdateApplied, Finish, Goto, Release, Unless
<1>6. ASSUME NEW t \in Tasks, UpdateErrs(t) PROVE Control'
  BY <1>6 DEF UpdateErrs, CoreAfterError, UpdateFails, Finish, Goto, Release, Unless, Upset
<1>7. ASSUME NEW t \in Tasks, Sync(t) PROVE Control'
  BY <1>7 DEF Sync, Finish, Goto, Release, Unless
<1>8. ASSUME NEW t \in Tasks, SwitchBegin(t) PROVE Control'
  BY <1>8 DEF SwitchBegin, Is, Goto
<1>9. ASSUME NEW t \in Tasks, SwitchRefused(t) PROVE Control'
  BY <1>9 DEF SwitchRefused, Is, Finish, Goto
<1>10. ASSUME NEW t \in Tasks, LockProfiles(t) PROVE Control'
  BY <1>10 DEF LockProfiles, Goto
<1>11. ASSUME NEW t \in Tasks, SwitchStage(t) PROVE Control'
  BY <1>11 DEF SwitchStage, PatchConfig, Goto
<1>12. ASSUME NEW t \in Tasks, SwitchDiscard(t) PROVE Control'
  BY <1>12 DEF SwitchDiscard, Goto
<1>13. ASSUME NEW t \in Tasks, SwitchCommit(t) PROVE Control'
  BY <1>13 DEF SwitchCommit, PatchConfig, Goto
<1>14. ASSUME NEW t \in Tasks, SwitchUndo(t) PROVE Control'
  BY <1>14 DEF SwitchUndo, Finish, Goto, Release, Unless
<1>15. ASSUME NEW t \in Tasks, RestoreStage(t) PROVE Control'
  BY <1>15 DEF RestoreStage, PatchConfig, Goto
<1>16. ASSUME NEW t \in Tasks, RestoreApply(t) PROVE Control'
  BY <1>16 DEF RestoreApply, ApplyDraft, Goto, Release, Unless, Upset
<1>17. ASSUME NEW t \in Tasks, SaveBegin(t) PROVE Control'
  BY <1>17 DEF SaveBegin, BeginModify, Goto
<1>18. ASSUME NEW t \in Tasks, SaveWrite(t) PROVE Control'
  BY <1>18 DEF SaveWrite, Goto
<1>19. ASSUME NEW t \in Tasks, SaveFails(t) PROVE Control'
  BY <1>19 DEF SaveFails, SaveDone, AbandonModify, Finish, Goto
<1>20. ASSUME NEW t \in Tasks, SaveEnd(t) PROVE Control'
  BY <1>20 DEF SaveEnd, SaveDone, AbandonModify, Finish, Goto, Upset
<1>21. ASSUME NEW t \in Tasks, DeletePlan(t) PROVE Control'
  BY <1>21 DEF DeletePlan, Removals, BeginModify, Goto
<1>22. ASSUME NEW t \in Tasks, DeleteUnknown(t) PROVE Control'
  BY <1>22 DEF DeleteUnknown, Finish, Goto, Release, Unless
<1>23. ASSUME NEW t \in Tasks, DeleteWrite(t) PROVE Control'
  BY <1>23 DEF DeleteWrite, Is, Goto
<1>24. ASSUME NEW t \in Tasks, DeleteWriteFails(t) PROVE Control'
  BY <1>24 DEF DeleteWriteFails, Is, Finish, Goto, Release, Unless
<1>25. ASSUME NEW t \in Tasks, RollbackGenerate(t) PROVE Control'
  BY <1>25 DEF RollbackGenerate, Enhanced, Goto
<1>26. ASSUME NEW t \in Tasks, RollbackApplied(t) PROVE Control'
  BY <1>26 DEF RollbackApplied, DeleteRejected, Finish, Goto, Release, Unless
<1>27. ASSUME NEW t \in Tasks, RollbackFails(t) PROVE Control'
  BY <1>27 DEF RollbackFails, CoreAfterError, DeleteRejected, Upset, Finish, Goto, Release,
      Unless
<1>28. ASSUME NEW t \in Tasks, DeleteCleanup(t) PROVE Control'
  BY <1>28 DEF DeleteCleanup, Goto
<1>29. ASSUME NEW t \in Tasks, ModifyBegin(t) PROVE Control'
  BY <1>29 DEF ModifyBegin, Is, BeginModify, Goto
<1>30. ASSUME NEW t \in Tasks, ModifyUnknown(t) PROVE Control'
  BY <1>30 DEF ModifyUnknown, Is, Finish, Goto
<1>31. ASSUME NEW t \in Tasks, SchemeLook(t) PROVE Control'
  BY <1>31 DEF SchemeLook, Is, Goto
<1>32. ASSUME NEW t \in Tasks, AppendBegin(t) PROVE Control'
  BY <1>32 DEF AppendBegin, Is, AppendItem, BeginModify, Goto
<1>33. ASSUME NEW t \in Tasks, ContentWrite(t) PROVE Control'
  BY <1>33 DEF ContentWrite, Goto
<1>34. ASSUME NEW t \in Tasks, ModifyWrite(t) PROVE Control'
  BY <1>34 DEF ModifyWrite, Is, Goto
<1>35. ASSUME NEW t \in Tasks, ModifyFails(t) PROVE Control'
  BY <1>35 DEF ModifyFails, ModifyRejected, AbandonModify, Finish, Goto
<1>36. ASSUME NEW t \in Tasks, CommitModify(t) PROVE Control'
  BY <1>36 DEF CommitModify, AbandonModify, Finish, Goto, Release, Unless, Upset
<1>37. ASSUME NEW t \in Tasks, CommitRefused(t) PROVE Control'
  BY <1>37 DEF CommitRefused, AbandonModify, ModifyRejected, Finish, Goto, Release, Unless
<1>38. ASSUME NEW t \in Tasks, SchemeDrop(t) PROVE Control'
  BY <1>38 DEF SchemeDrop, Finish, Goto, Upset
<1>39. ASSUME NEW t \in Tasks, SchemeEnds(t) PROVE Control'
  BY <1>39 DEF SchemeEnds, Finish, Goto, Upset
<1>40. ASSUME NEW t \in Tasks, RefreshJudge(t) PROVE Control'
  BY <1>40 DEF RefreshJudge, Finish, Goto, Upset
<1>41. ASSUME NEW t \in Tasks, DnsConfig(t) PROVE Control'
  BY <1>41 DEF DnsConfig, Goto
<1>42. ASSUME NEW t \in Tasks, DnsRefused(t) PROVE Control'
  BY <1>42 DEF DnsRefused, Finish, Goto, Release, Unless
<1>43. ASSUME NEW t \in Tasks, ExitBegin(t) PROVE Control'
  BY <1>43 DEF ExitBegin, Is, Goto
<1>44. ASSUME NEW t \in Tasks, ExitCollect(t) PROVE Control'
  BY <1>44 DEF ExitCollect, ApplyDraft, Goto
<1>45. ASSUME NEW t \in Tasks, ExitSave(t) PROVE Control'
  BY <1>45 DEF ExitSave, Goto, Release, Unless, Upset
<1>46. ASSUME NEW t \in Tasks, ExitEnd(t) PROVE Control'
  BY <1>46 DEF ExitEnd, Finish, Goto
<1>47. CASE UNCHANGED vars
  BY <1>47 DEF vars
<1> HIDE HoldersAssumption, UidsAssumption DEF Control, Jobs, Kinds, Kind, Uid, Is, Places,
    taskVars, bookVars, modifyVars, lockVars, coreVars, diskVars
<1> QED
  BY <1>1, <1>2, <1>3, <1>4, <1>5, <1>6, <1>7, <1>8, <1>9, <1>10, <1>11, <1>12, <1>13,
      <1>14, <1>15, <1>16, <1>17, <1>18, <1>19, <1>20, <1>21, <1>22, <1>23, <1>24, <1>25,
      <1>26, <1>27, <1>28, <1>29, <1>30, <1>31, <1>32, <1>33, <1>34, <1>35, <1>36, <1>37,
      <1>38, <1>39, <1>40, <1>41, <1>42, <1>43, <1>44, <1>45, <1>46, <1>47 DEF Next, Step,
      UpdateStep, SwitchStep, SaveStep, DeleteStep, ModifyStep, OtherStep

(* Every step keeps the flags flags. *)
LEMMA NextFlags ==
  ASSUME Flags, [Next]_vars
  PROVE  Flags'
<1> USE HoldersAssumption, UidsAssumption DEF Flags, taskVars, bookVars, modifyVars,
    lockVars, coreVars, diskVars
<1>1. ASSUME NEW t \in Tasks, UpdateBegin(t) PROVE Flags'
  BY <1>1 DEF UpdateBegin, Goto
<1>2. ASSUME NEW t \in Tasks, UpdateTurnedDown(t) PROVE Flags'
  BY <1>2 DEF UpdateTurnedDown, UpdateFails, Finish, Goto, Release, Unless, Upset
<1>3. ASSUME NEW t \in Tasks, UpdateGenerate(t) PROVE Flags'
  BY <1>3 DEF UpdateGenerate, Given, Enhanced, CanEnhance, Goto, Upset
<1>4. ASSUME NEW t \in Tasks, UpdateInvalid(t) PROVE Flags'
  BY <1>4 DEF UpdateInvalid, UpdateFails, Finish, Goto, Release, Unless, Upset
<1>5. ASSUME NEW t \in Tasks, UpdateApplied(t) PROVE Flags'
  BY <1>5 DEF UpdateApplied, Finish, Goto, Release, Unless
<1>6. ASSUME NEW t \in Tasks, UpdateErrs(t) PROVE Flags'
  BY <1>6 DEF UpdateErrs, CoreAfterError, UpdateFails, Finish, Goto, Release, Unless, Upset
<1>7. ASSUME NEW t \in Tasks, Sync(t) PROVE Flags'
  BY <1>7 DEF Sync, Finish, Goto, Release, Unless
<1>8. ASSUME NEW t \in Tasks, SwitchBegin(t) PROVE Flags'
  BY <1>8 DEF SwitchBegin, Is, Goto
<1>9. ASSUME NEW t \in Tasks, SwitchRefused(t) PROVE Flags'
  BY <1>9 DEF SwitchRefused, Is, Finish, Goto
<1>10. ASSUME NEW t \in Tasks, LockProfiles(t) PROVE Flags'
  BY <1>10 DEF LockProfiles, Goto
<1>11. ASSUME NEW t \in Tasks, SwitchStage(t) PROVE Flags'
  BY <1>11 DEF SwitchStage, PatchConfig, Goto
<1>12. ASSUME NEW t \in Tasks, SwitchDiscard(t) PROVE Flags'
  BY <1>12 DEF SwitchDiscard, Goto
<1>13. ASSUME NEW t \in Tasks, SwitchCommit(t) PROVE Flags'
  BY <1>13 DEF SwitchCommit, PatchConfig, Goto
<1>14. ASSUME NEW t \in Tasks, SwitchUndo(t) PROVE Flags'
  BY <1>14 DEF SwitchUndo, Finish, Goto, Release, Unless
<1>15. ASSUME NEW t \in Tasks, RestoreStage(t) PROVE Flags'
  BY <1>15 DEF RestoreStage, PatchConfig, Goto
<1>16. ASSUME NEW t \in Tasks, RestoreApply(t) PROVE Flags'
  BY <1>16 DEF RestoreApply, ApplyDraft, Goto, Release, Unless, Upset
<1>17. ASSUME NEW t \in Tasks, SaveBegin(t) PROVE Flags'
  BY <1>17 DEF SaveBegin, BeginModify, Goto
<1>18. ASSUME NEW t \in Tasks, SaveWrite(t) PROVE Flags'
  BY <1>18 DEF SaveWrite, Goto
<1>19. ASSUME NEW t \in Tasks, SaveFails(t) PROVE Flags'
  BY <1>19 DEF SaveFails, SaveDone, AbandonModify, Finish, Goto
<1>20. ASSUME NEW t \in Tasks, SaveEnd(t) PROVE Flags'
  BY <1>20 DEF SaveEnd, SaveDone, AbandonModify, Finish, Goto, Upset
<1>21. ASSUME NEW t \in Tasks, DeletePlan(t) PROVE Flags'
  BY <1>21 DEF DeletePlan, Removals, BeginModify, Goto
<1>22. ASSUME NEW t \in Tasks, DeleteUnknown(t) PROVE Flags'
  BY <1>22 DEF DeleteUnknown, Finish, Goto, Release, Unless
<1>23. ASSUME NEW t \in Tasks, DeleteWrite(t) PROVE Flags'
  BY <1>23 DEF DeleteWrite, Is, Goto
<1>24. ASSUME NEW t \in Tasks, DeleteWriteFails(t) PROVE Flags'
  BY <1>24 DEF DeleteWriteFails, Is, Finish, Goto, Release, Unless
<1>25. ASSUME NEW t \in Tasks, RollbackGenerate(t) PROVE Flags'
  BY <1>25 DEF RollbackGenerate, Enhanced, Goto
<1>26. ASSUME NEW t \in Tasks, RollbackApplied(t) PROVE Flags'
  BY <1>26 DEF RollbackApplied, DeleteRejected, Finish, Goto, Release, Unless
<1>27. ASSUME NEW t \in Tasks, RollbackFails(t) PROVE Flags'
  BY <1>27 DEF RollbackFails, CoreAfterError, DeleteRejected, Upset, Finish, Goto, Release,
      Unless
<1>28. ASSUME NEW t \in Tasks, DeleteCleanup(t) PROVE Flags'
  BY <1>28 DEF DeleteCleanup, Goto
<1>29. ASSUME NEW t \in Tasks, ModifyBegin(t) PROVE Flags'
  BY <1>29 DEF ModifyBegin, Is, BeginModify, Goto
<1>30. ASSUME NEW t \in Tasks, ModifyUnknown(t) PROVE Flags'
  BY <1>30 DEF ModifyUnknown, Is, Finish, Goto
<1>31. ASSUME NEW t \in Tasks, SchemeLook(t) PROVE Flags'
  BY <1>31 DEF SchemeLook, Is, Goto
<1>32. ASSUME NEW t \in Tasks, AppendBegin(t) PROVE Flags'
  BY <1>32 DEF AppendBegin, Is, AppendItem, BeginModify, Goto
<1>33. ASSUME NEW t \in Tasks, ContentWrite(t) PROVE Flags'
  BY <1>33 DEF ContentWrite, Goto
<1>34. ASSUME NEW t \in Tasks, ModifyWrite(t) PROVE Flags'
  BY <1>34 DEF ModifyWrite, Is, Goto
<1>35. ASSUME NEW t \in Tasks, ModifyFails(t) PROVE Flags'
  BY <1>35 DEF ModifyFails, ModifyRejected, AbandonModify, Finish, Goto
<1>36. ASSUME NEW t \in Tasks, CommitModify(t) PROVE Flags'
  BY <1>36 DEF CommitModify, AbandonModify, Finish, Goto, Release, Unless, Upset
<1>37. ASSUME NEW t \in Tasks, CommitRefused(t) PROVE Flags'
  BY <1>37 DEF CommitRefused, AbandonModify, ModifyRejected, Finish, Goto, Release, Unless
<1>38. ASSUME NEW t \in Tasks, SchemeDrop(t) PROVE Flags'
  BY <1>38 DEF SchemeDrop, Finish, Goto, Upset
<1>39. ASSUME NEW t \in Tasks, SchemeEnds(t) PROVE Flags'
  BY <1>39 DEF SchemeEnds, Finish, Goto, Upset
<1>40. ASSUME NEW t \in Tasks, RefreshJudge(t) PROVE Flags'
  BY <1>40 DEF RefreshJudge, Finish, Goto, Upset
<1>41. ASSUME NEW t \in Tasks, DnsConfig(t) PROVE Flags'
  BY <1>41 DEF DnsConfig, Goto
<1>42. ASSUME NEW t \in Tasks, DnsRefused(t) PROVE Flags'
  BY <1>42 DEF DnsRefused, Finish, Goto, Release, Unless
<1>43. ASSUME NEW t \in Tasks, ExitBegin(t) PROVE Flags'
  BY <1>43 DEF ExitBegin, Is, Goto
<1>44. ASSUME NEW t \in Tasks, ExitCollect(t) PROVE Flags'
  BY <1>44 DEF ExitCollect, ApplyDraft, Goto
<1>45. ASSUME NEW t \in Tasks, ExitSave(t) PROVE Flags'
  BY <1>45 DEF ExitSave, Goto, Release, Unless, Upset
<1>46. ASSUME NEW t \in Tasks, ExitEnd(t) PROVE Flags'
  BY <1>46 DEF ExitEnd, Finish, Goto
<1>47. CASE UNCHANGED vars
  BY <1>47 DEF vars
<1> HIDE HoldersAssumption, UidsAssumption DEF Flags, taskVars, bookVars, modifyVars,
    lockVars, coreVars, diskVars
<1> QED
  BY <1>1, <1>2, <1>3, <1>4, <1>5, <1>6, <1>7, <1>8, <1>9, <1>10, <1>11, <1>12, <1>13,
      <1>14, <1>15, <1>16, <1>17, <1>18, <1>19, <1>20, <1>21, <1>22, <1>23, <1>24, <1>25,
      <1>26, <1>27, <1>28, <1>29, <1>30, <1>31, <1>32, <1>33, <1>34, <1>35, <1>36, <1>37,
      <1>38, <1>39, <1>40, <1>41, <1>42, <1>43, <1>44, <1>45, <1>46, <1>47 DEF Next, Step,
      UpdateStep, SwitchStep, SaveStep, DeleteStep, ModifyStep, OtherStep

(* Every step keeps the types of what is stored. *)
LEMMA NextStored ==
  ASSUME Control, Stored, [Next]_vars
  PROVE  Stored'
<1> USE HoldersAssumption, UidsAssumption DEF Control, Jobs, Kind, Uid, Stored, Books,
    Runtimes, Latest, Troubles, taskVars, bookVars, modifyVars, lockVars, coreVars, diskVars
<1>1. ASSUME NEW t \in Tasks, UpdateBegin(t) PROVE Stored'
  BY <1>1 DEF UpdateBegin, Goto
<1>2. ASSUME NEW t \in Tasks, UpdateTurnedDown(t) PROVE Stored'
  BY <1>2 DEF UpdateTurnedDown, UpdateFails, Finish, Goto, Release, Unless, Upset
<1>3. ASSUME NEW t \in Tasks, UpdateGenerate(t) PROVE Stored'
  BY <1>3 DEF UpdateGenerate, Given, Enhanced, CanEnhance, Goto, Upset
<1>4. ASSUME NEW t \in Tasks, UpdateInvalid(t) PROVE Stored'
  BY <1>4 DEF UpdateInvalid, UpdateFails, Finish, Goto, Release, Unless, Upset
<1>5. ASSUME NEW t \in Tasks, UpdateApplied(t) PROVE Stored'
  BY <1>5 DEF UpdateApplied, Finish, Goto, Release, Unless
<1>6. ASSUME NEW t \in Tasks, UpdateErrs(t) PROVE Stored'
  BY <1>6 DEF UpdateErrs, CoreAfterError, UpdateFails, Finish, Goto, Release, Unless, Upset
<1>7. ASSUME NEW t \in Tasks, Sync(t) PROVE Stored'
  BY <1>7 DEF Sync, Finish, Goto, Release, Unless
<1>8. ASSUME NEW t \in Tasks, SwitchBegin(t) PROVE Stored'
  BY <1>8 DEF SwitchBegin, Is, Goto
<1>9. ASSUME NEW t \in Tasks, SwitchRefused(t) PROVE Stored'
  BY <1>9 DEF SwitchRefused, Is, Finish, Goto
<1>10. ASSUME NEW t \in Tasks, LockProfiles(t) PROVE Stored'
  BY <1>10 DEF LockProfiles, Goto
<1>11. ASSUME NEW t \in Tasks, SwitchStage(t) PROVE Stored'
  BY <1>11 DEF SwitchStage, PatchConfig, Goto
<1>12. ASSUME NEW t \in Tasks, SwitchDiscard(t) PROVE Stored'
  BY <1>12 DEF SwitchDiscard, Goto
<1>13. ASSUME NEW t \in Tasks, SwitchCommit(t) PROVE Stored'
  <2>1. PatchConfig(committed, Uid(t)) \in Books
    BY DEF PatchConfig
  <2> QED
    BY <1>13, <2>1, HoldersAssumption DEF SwitchCommit
<1>14. ASSUME NEW t \in Tasks, SwitchUndo(t) PROVE Stored'
  BY <1>14 DEF SwitchUndo, Finish, Goto, Release, Unless
<1>15. ASSUME NEW t \in Tasks, RestoreStage(t) PROVE Stored'
  BY <1>15 DEF RestoreStage, PatchConfig, Goto
<1>16. ASSUME NEW t \in Tasks, RestoreApply(t) PROVE Stored'
  BY <1>16 DEF RestoreApply, ApplyDraft, Goto, Release, Unless, Upset
<1>17. ASSUME NEW t \in Tasks, SaveBegin(t) PROVE Stored'
  BY <1>17 DEF SaveBegin, BeginModify, Goto
<1>18. ASSUME NEW t \in Tasks, SaveWrite(t) PROVE Stored'
  BY <1>18 DEF SaveWrite, Goto
<1>19. ASSUME NEW t \in Tasks, SaveFails(t) PROVE Stored'
  BY <1>19 DEF SaveFails, SaveDone, AbandonModify, Finish, Goto
<1>20. ASSUME NEW t \in Tasks, SaveEnd(t) PROVE Stored'
  BY <1>20 DEF SaveEnd, SaveDone, AbandonModify, Finish, Goto, Upset
<1>21. ASSUME NEW t \in Tasks, DeletePlan(t) PROVE Stored'
  BY <1>21 DEF DeletePlan, Removals, BeginModify, Goto
<1>22. ASSUME NEW t \in Tasks, DeleteUnknown(t) PROVE Stored'
  BY <1>22 DEF DeleteUnknown, Finish, Goto, Release, Unless
<1>23. ASSUME NEW t \in Tasks, DeleteWrite(t) PROVE Stored'
  BY <1>23 DEF DeleteWrite, Is, Goto
<1>24. ASSUME NEW t \in Tasks, DeleteWriteFails(t) PROVE Stored'
  BY <1>24 DEF DeleteWriteFails, Is, Finish, Goto, Release, Unless
<1>25. ASSUME NEW t \in Tasks, RollbackGenerate(t) PROVE Stored'
  BY <1>25 DEF RollbackGenerate, Enhanced, Goto
<1>26. ASSUME NEW t \in Tasks, RollbackApplied(t) PROVE Stored'
  BY <1>26 DEF RollbackApplied, DeleteRejected, Finish, Goto, Release, Unless
<1>27. ASSUME NEW t \in Tasks, RollbackFails(t) PROVE Stored'
  BY <1>27 DEF RollbackFails, CoreAfterError, DeleteRejected, Upset, Finish, Goto, Release,
      Unless
<1>28. ASSUME NEW t \in Tasks, DeleteCleanup(t) PROVE Stored'
  BY <1>28 DEF DeleteCleanup, Goto
<1>29. ASSUME NEW t \in Tasks, ModifyBegin(t) PROVE Stored'
  BY <1>29 DEF ModifyBegin, Is, BeginModify, Goto
<1>30. ASSUME NEW t \in Tasks, ModifyUnknown(t) PROVE Stored'
  BY <1>30 DEF ModifyUnknown, Is, Finish, Goto
<1>31. ASSUME NEW t \in Tasks, SchemeLook(t) PROVE Stored'
  BY <1>31 DEF SchemeLook, Is, Goto
<1>32. ASSUME NEW t \in Tasks, AppendBegin(t) PROVE Stored'
  <2>1. committed \in Books /\ Uid(t) \in Uids
    OBVIOUS
  <2>2. AppendItem(committed, Uid(t)) \in Books
    BY <2>1, AppendKeepsBooks
  <2>3. local' = [local EXCEPT ![t] = AppendItem(committed, Uid(t))]
    BY <1>32 DEF AppendBegin, BeginModify
  <2>4. local' \in [Tasks -> Books]
    BY <2>2, <2>3
  <2> QED
    BY <1>32, <2>4 DEF AppendBegin
<1>33. ASSUME NEW t \in Tasks, ContentWrite(t) PROVE Stored'
  BY <1>33 DEF ContentWrite, Goto
<1>34. ASSUME NEW t \in Tasks, ModifyWrite(t) PROVE Stored'
  BY <1>34 DEF ModifyWrite, Is, Goto
<1>35. ASSUME NEW t \in Tasks, ModifyFails(t) PROVE Stored'
  BY <1>35 DEF ModifyFails, ModifyRejected, AbandonModify, Finish, Goto
<1>36. ASSUME NEW t \in Tasks, CommitModify(t) PROVE Stored'
  BY <1>36 DEF CommitModify, AbandonModify, Finish, Goto, Release, Unless, Upset
<1>37. ASSUME NEW t \in Tasks, CommitRefused(t) PROVE Stored'
  BY <1>37 DEF CommitRefused, AbandonModify, ModifyRejected, Finish, Goto, Release, Unless
<1>38. ASSUME NEW t \in Tasks, SchemeDrop(t) PROVE Stored'
  BY <1>38 DEF SchemeDrop, Finish, Goto, Upset
<1>39. ASSUME NEW t \in Tasks, SchemeEnds(t) PROVE Stored'
  BY <1>39 DEF SchemeEnds, Finish, Goto, Upset
<1>40. ASSUME NEW t \in Tasks, RefreshJudge(t) PROVE Stored'
  BY <1>40 DEF RefreshJudge, Finish, Goto, Upset
<1>41. ASSUME NEW t \in Tasks, DnsConfig(t) PROVE Stored'
  BY <1>41 DEF DnsConfig, Goto
<1>42. ASSUME NEW t \in Tasks, DnsRefused(t) PROVE Stored'
  BY <1>42 DEF DnsRefused, Finish, Goto, Release, Unless
<1>43. ASSUME NEW t \in Tasks, ExitBegin(t) PROVE Stored'
  BY <1>43 DEF ExitBegin, Is, Goto
<1>44. ASSUME NEW t \in Tasks, ExitCollect(t) PROVE Stored'
  BY <1>44 DEF ExitCollect, ApplyDraft, Goto
<1>45. ASSUME NEW t \in Tasks, ExitSave(t) PROVE Stored'
  <2>1. file' \in {file, local[t]}
    BY <1>45 DEF ExitSave
  <2>2. file' \in Books
    BY <2>1
  <2>3. trouble' \subseteq Troubles
    BY <1>45 DEF ExitSave, Upset
  <2> QED
    BY <1>45, <2>2, <2>3 DEF ExitSave
<1>46. ASSUME NEW t \in Tasks, ExitEnd(t) PROVE Stored'
  BY <1>46 DEF ExitEnd, Finish, Goto
<1>47. CASE UNCHANGED vars
  BY <1>47 DEF vars
<1> HIDE HoldersAssumption, UidsAssumption DEF Control, Jobs, Kind, Uid, Stored, Books,
    Runtimes, Latest, Troubles, taskVars, bookVars, modifyVars, lockVars, coreVars, diskVars
<1> QED
  BY <1>1, <1>2, <1>3, <1>4, <1>5, <1>6, <1>7, <1>8, <1>9, <1>10, <1>11, <1>12, <1>13,
      <1>14, <1>15, <1>16, <1>17, <1>18, <1>19, <1>20, <1>21, <1>22, <1>23, <1>24, <1>25,
      <1>26, <1>27, <1>28, <1>29, <1>30, <1>31, <1>32, <1>33, <1>34, <1>35, <1>36, <1>37,
      <1>38, <1>39, <1>40, <1>41, <1>42, <1>43, <1>44, <1>45, <1>46, <1>47 DEF Next, Step,
      UpdateStep, SwitchStep, SaveStep, DeleteStep, ModifyStep, OtherStep

(* More places that are of some kinds of request only. *)
LEMMA PlacesTellMore ==
  ASSUME Control, Routes
  PROVE  \A t \in Tasks :
           /\ at[t] \in {"append", "adopted", "drop"} => Kind(t) = "scheme"
           /\ at[t] = "judge" => Kind(t) = "refresh"
           /\ at[t] = "exitEnd" => Kind(t) = "exit"
           /\ at[t] \in {"saveBegin", "saveWrite", "saveEnd"} => Kind(t) \in {"switch"} \cup Imports
           /\ at[t] = "sync" => Kind(t) \in {"switch", "delete", "refresh", "update"}
           /\ at[t] = "write" => Kind(t) \in {"edit", "refresh", "delete"}
           /\ at[t] = "commitModify" => Kind(t) \in {"edit", "refresh", "delete"} \cup Imports
<1>1. \A t \in Tasks : Kind(t) \in Kinds
  BY DEF Control, Jobs, Kind
<1> HIDE DEF Kind
<1> QED
  BY <1>1 DEF Kinds, Imports, Routes

(* Every step takes, holds and gives up the permit and the lock at their places. *)
LEMMA NextDiscipline ==
  ASSUME Control, Discipline, [Next]_vars
  PROVE  Discipline'
<1> USE HoldersAssumption, UidsAssumption DEF Control, Jobs, Kinds, Kind, Uid, Is,
    Discipline, Routes, Modifying, Locked, Deleting, taskVars, bookVars, modifyVars,
    lockVars, coreVars, diskVars
<1>1. ASSUME NEW t \in Tasks, UpdateBegin(t) PROVE Discipline'
  BY <1>1 DEF UpdateBegin, Goto
<1>2. ASSUME NEW t \in Tasks, UpdateTurnedDown(t) PROVE Discipline'
  BY <1>2 DEF UpdateTurnedDown, UpdateFails, Finish, Goto, Release, Unless, Upset
<1>3. ASSUME NEW t \in Tasks, UpdateGenerate(t) PROVE Discipline'
  BY <1>3 DEF UpdateGenerate, Given, Enhanced, CanEnhance, Goto, Upset
<1>4. ASSUME NEW t \in Tasks, UpdateInvalid(t) PROVE Discipline'
  BY <1>4 DEF UpdateInvalid, UpdateFails, Finish, Goto, Release, Unless, Upset
<1>5. ASSUME NEW t \in Tasks, UpdateApplied(t) PROVE Discipline'
  BY <1>5 DEF UpdateApplied, Finish, Goto, Release, Unless
<1>6. ASSUME NEW t \in Tasks, UpdateErrs(t) PROVE Discipline'
  BY <1>6 DEF UpdateErrs, CoreAfterError, UpdateFails, Finish, Goto, Release, Unless, Upset
<1>7. ASSUME NEW t \in Tasks, Sync(t) PROVE Discipline'
  BY <1>7 DEF Sync, Finish, Goto, Release, Unless
<1>8. ASSUME NEW t \in Tasks, SwitchBegin(t) PROVE Discipline'
  BY <1>8 DEF SwitchBegin, Is, Goto
<1>9. ASSUME NEW t \in Tasks, SwitchRefused(t) PROVE Discipline'
  BY <1>9 DEF SwitchRefused, Is, Finish, Goto
<1>10. ASSUME NEW t \in Tasks, LockProfiles(t) PROVE Discipline'
  BY <1>10 DEF LockProfiles, Goto
<1>11. ASSUME NEW t \in Tasks, SwitchStage(t) PROVE Discipline'
  BY <1>11 DEF SwitchStage, PatchConfig, Goto
<1>12. ASSUME NEW t \in Tasks, SwitchDiscard(t) PROVE Discipline'
  BY <1>12 DEF SwitchDiscard, Goto
<1>13. ASSUME NEW t \in Tasks, SwitchCommit(t) PROVE Discipline'
  BY <1>13 DEF SwitchCommit, PatchConfig, Goto
<1>14. ASSUME NEW t \in Tasks, SwitchUndo(t) PROVE Discipline'
  BY <1>14 DEF SwitchUndo, Finish, Goto, Release, Unless
<1>15. ASSUME NEW t \in Tasks, RestoreStage(t) PROVE Discipline'
  BY <1>15 DEF RestoreStage, PatchConfig, Goto
<1>16. ASSUME NEW t \in Tasks, RestoreApply(t) PROVE Discipline'
  BY <1>16 DEF RestoreApply, ApplyDraft, Goto, Release, Unless, Upset
<1>17. ASSUME NEW t \in Tasks, SaveBegin(t) PROVE Discipline'
  BY <1>17 DEF SaveBegin, BeginModify, Goto
<1>18. ASSUME NEW t \in Tasks, SaveWrite(t) PROVE Discipline'
  BY <1>18 DEF SaveWrite, Goto
<1>19. ASSUME NEW t \in Tasks, SaveFails(t) PROVE Discipline'
  BY <1>19, SMTT(30) DEF SaveFails, SaveDone, AbandonModify, Finish, Goto
<1>20. ASSUME NEW t \in Tasks, SaveEnd(t) PROVE Discipline'
  BY <1>20, SMTT(30) DEF SaveEnd, SaveDone, AbandonModify, Finish, Goto, Upset
<1>21. ASSUME NEW t \in Tasks, DeletePlan(t) PROVE Discipline'
  BY <1>21 DEF DeletePlan, Removals, BeginModify, Goto
<1>22. ASSUME NEW t \in Tasks, DeleteUnknown(t) PROVE Discipline'
  BY <1>22 DEF DeleteUnknown, Finish, Goto, Release, Unless
<1>23. ASSUME NEW t \in Tasks, DeleteWrite(t) PROVE Discipline'
  BY <1>23 DEF DeleteWrite, Is, Goto
<1>24. ASSUME NEW t \in Tasks, DeleteWriteFails(t) PROVE Discipline'
  BY <1>24 DEF DeleteWriteFails, Is, Finish, Goto, Release, Unless
<1>25. ASSUME NEW t \in Tasks, RollbackGenerate(t) PROVE Discipline'
  BY <1>25 DEF RollbackGenerate, Enhanced, Goto
<1>26. ASSUME NEW t \in Tasks, RollbackApplied(t) PROVE Discipline'
  BY <1>26 DEF RollbackApplied, DeleteRejected, Finish, Goto, Release, Unless
<1>27. ASSUME NEW t \in Tasks, RollbackFails(t) PROVE Discipline'
  BY <1>27 DEF RollbackFails, CoreAfterError, DeleteRejected, Upset, Finish, Goto, Release,
      Unless
<1>28. ASSUME NEW t \in Tasks, DeleteCleanup(t) PROVE Discipline'
  BY <1>28 DEF DeleteCleanup, Goto
<1>29. ASSUME NEW t \in Tasks, ModifyBegin(t) PROVE Discipline'
  BY <1>29 DEF ModifyBegin, Is, BeginModify, Goto
<1>30. ASSUME NEW t \in Tasks, ModifyUnknown(t) PROVE Discipline'
  BY <1>30 DEF ModifyUnknown, Is, Finish, Goto
<1>31. ASSUME NEW t \in Tasks, SchemeLook(t) PROVE Discipline'
  BY <1>31 DEF SchemeLook, Is, Goto
<1>32. ASSUME NEW t \in Tasks, AppendBegin(t) PROVE Discipline'
  BY <1>32 DEF AppendBegin, Is, AppendItem, BeginModify, Goto
<1>33. ASSUME NEW t \in Tasks, ContentWrite(t) PROVE Discipline'
  BY <1>33 DEF ContentWrite, Goto
<1>34. ASSUME NEW t \in Tasks, ModifyWrite(t) PROVE Discipline'
  BY <1>34 DEF ModifyWrite, Is, Goto
<1>35. ASSUME NEW t \in Tasks, ModifyFails(t) PROVE Discipline'
  BY <1>35 DEF ModifyFails, ModifyRejected, AbandonModify, Finish, Goto
<1>36. ASSUME NEW t \in Tasks, CommitModify(t) PROVE Discipline'
  BY <1>36 DEF CommitModify, AbandonModify, Finish, Goto, Release, Unless, Upset
<1>37. ASSUME NEW t \in Tasks, CommitRefused(t) PROVE Discipline'
  BY <1>37 DEF CommitRefused, AbandonModify, ModifyRejected, Finish, Goto, Release, Unless
<1>38. ASSUME NEW t \in Tasks, SchemeDrop(t) PROVE Discipline'
  BY <1>38 DEF SchemeDrop, Finish, Goto, Upset
<1>39. ASSUME NEW t \in Tasks, SchemeEnds(t) PROVE Discipline'
  <2>1. Kind(t) = "scheme" /\ at[t] = "adopted"
    BY <1>39, PlacesTellMore DEF SchemeEnds
  <2>2. at' = [at EXCEPT ![t] = "ask"] \/ at' = [at EXCEPT ![t] = "done"]
    BY <1>39 DEF SchemeEnds, Finish, Goto
  <2>3. UNCHANGED <<job, permit, profileLock>> /\ \A u \in Tasks \ {t} : answer'[u] = answer[u]
    BY <1>39 DEF SchemeEnds, Finish
  <2>4. \A u \in Tasks : (Modifying(u)' <=> Modifying(u)) /\ (Locked(u)' <=> Locked(u))
    BY <2>1, <2>2, <2>3
  <2> QED
    BY <2>1, <2>2, <2>3, <2>4
<1>40. ASSUME NEW t \in Tasks, RefreshJudge(t) PROVE Discipline'
  <2>1. Kind(t) = "refresh" /\ at[t] = "judge"
    BY <1>40, PlacesTellMore DEF RefreshJudge
  <2>2. at' = [at EXCEPT ![t] = "ask"] \/ at' = [at EXCEPT ![t] = "done"]
    BY <1>40 DEF RefreshJudge, Finish, Goto
  <2>3. UNCHANGED <<job, permit, profileLock>> /\ \A u \in Tasks \ {t} : answer'[u] = answer[u]
    BY <1>40 DEF RefreshJudge, Finish
  <2>4. \A u \in Tasks : (Modifying(u)' <=> Modifying(u)) /\ (Locked(u)' <=> Locked(u))
    BY <2>1, <2>2, <2>3
  <2> QED
    BY <2>1, <2>2, <2>3, <2>4
<1>41. ASSUME NEW t \in Tasks, DnsConfig(t) PROVE Discipline'
  BY <1>41 DEF DnsConfig, Goto
<1>42. ASSUME NEW t \in Tasks, DnsRefused(t) PROVE Discipline'
  BY <1>42 DEF DnsRefused, Finish, Goto, Release, Unless
<1>43. ASSUME NEW t \in Tasks, ExitBegin(t) PROVE Discipline'
  BY <1>43 DEF ExitBegin, Is, Goto
<1>44. ASSUME NEW t \in Tasks, ExitCollect(t) PROVE Discipline'
  BY <1>44 DEF ExitCollect, ApplyDraft, Goto
<1>45. ASSUME NEW t \in Tasks, ExitSave(t) PROVE Discipline'
  BY <1>45 DEF ExitSave, Goto, Release, Unless, Upset
<1>46. ASSUME NEW t \in Tasks, ExitEnd(t) PROVE Discipline'
  BY <1>46 DEF ExitEnd, Finish, Goto
<1>47. CASE UNCHANGED vars
  BY <1>47 DEF vars
<1> HIDE HoldersAssumption, UidsAssumption DEF Control, Jobs, Kinds, Kind, Uid, Is,
    Discipline, Routes, Modifying, Locked, Deleting, taskVars, bookVars, modifyVars,
    lockVars, coreVars, diskVars
<1> QED
  BY <1>1, <1>2, <1>3, <1>4, <1>5, <1>6, <1>7, <1>8, <1>9, <1>10, <1>11, <1>12, <1>13,
      <1>14, <1>15, <1>16, <1>17, <1>18, <1>19, <1>20, <1>21, <1>22, <1>23, <1>24, <1>25,
      <1>26, <1>27, <1>28, <1>29, <1>30, <1>31, <1>32, <1>33, <1>34, <1>35, <1>36, <1>37,
      <1>38, <1>39, <1>40, <1>41, <1>42, <1>43, <1>44, <1>45, <1>46, <1>47 DEF Next, Step,
      UpdateStep, SwitchStep, SaveStep, DeleteStep, ModifyStep, OtherStep

\* What a step of a request leaves to the others, who may change what, where a
\* request comes from and where it goes on.
Alone(t) ==
  /\ job' = job
  /\ trouble \subseteq trouble'
  /\ \A u \in Tasks \ {t} :
       at'[u] = at[u] /\ answer'[u] = answer[u] /\ local'[u] = local[u] /\ prev'[u] = prev[u]
Changes(t) ==
  /\ committed' = committed
     \/ SwitchCommit(t) \/ RestoreApply(t) \/ CommitModify(t) \/ ExitCollect(t)
  /\ draft' = draft
     \/ SwitchStage(t) \/ SwitchDiscard(t) \/ SwitchUndo(t) \/ RestoreStage(t) \/ RestoreApply(t)
     \/ SchemeDrop(t) \/ ExitCollect(t)
  /\ replaced' = replaced
     \/ RestoreApply(t) \/ ExitCollect(t) \/ SaveBegin(t) \/ DeletePlan(t) \/ ModifyBegin(t)
     \/ AppendBegin(t)
  /\ local' = local
     \/ ExitCollect(t) \/ SaveBegin(t) \/ DeletePlan(t) \/ ModifyBegin(t) \/ AppendBegin(t)
  /\ prev' = prev \/ SwitchStage(t) \/ SchemeLook(t)
  /\ loaded' = loaded
     \/ UpdateApplied(t) \/ UpdateErrs(t) \/ RollbackApplied(t) \/ RollbackFails(t)
  /\ made' = made \/ UpdateGenerate(t) \/ RollbackGenerate(t)
  /\ file' = file \/ SaveWrite(t) \/ DeleteWrite(t) \/ ModifyWrite(t) \/ ExitSave(t)
  /\ files' = files \/ DeleteCleanup(t) \/ ContentWrite(t)
  /\ written' = written \/ ContentWrite(t)
  /\ updating' = updating
     \/ UpdateBegin(t) \/ UpdateInvalid(t) \/ UpdateApplied(t) \/ UpdateErrs(t)
     \/ RollbackApplied(t) \/ RollbackFails(t) \/ CommitModify(t) \/ CommitRefused(t)
Arrives(t) ==
  /\ at[t] # "done"
  /\ at'[t] \notin {"idle"}
  /\ at'[t] = "stage" => LockProfiles(t)
  /\ at'[t] = "ask" =>
       SwitchStage(t) \/ DeletePlan(t) \/ SchemeEnds(t) \/ RefreshJudge(t) \/ DnsConfig(t)
  /\ at'[t] = "generate" => UpdateBegin(t)
  /\ at'[t] = "apply" => UpdateGenerate(t)
  /\ at'[t] = "discard" => UpdateApplied(t)
  /\ at'[t] = "commit" => SwitchDiscard(t)
  /\ at'[t] = "undo" => UpdateTurnedDown(t) \/ UpdateInvalid(t) \/ UpdateErrs(t)
  /\ at'[t] = "restore" => SwitchUndo(t)
  /\ at'[t] = "restoreApply" => RestoreStage(t)
  /\ at'[t] = "content" => ModifyBegin(t) \/ AppendBegin(t)
  /\ at'[t] = "write" => UpdateApplied(t) \/ DeletePlan(t) \/ ModifyBegin(t) \/ ContentWrite(t)
  /\ at'[t] = "cleanup" => DeleteWrite(t)
  /\ at'[t] = "commitModify" => DeleteCleanup(t) \/ ContentWrite(t) \/ ModifyWrite(t)
  /\ at'[t] = "rollback" => UpdateErrs(t) \/ DeleteWriteFails(t)
  /\ at'[t] = "rollbackApply" => RollbackGenerate(t)
  /\ at'[t] = "append" => SchemeLook(t)
  /\ at'[t] = "saveBegin" => SwitchCommit(t) \/ RestoreApply(t) \/ CommitModify(t)
  /\ at'[t] = "saveWrite" => SaveBegin(t)
  /\ at'[t] = "exitSave" => ExitCollect(t)
  /\ at'[t] = "saveEnd" => SaveWrite(t)
  /\ at'[t] = "adopted" => SaveEnd(t) \/ SaveFails(t)
  /\ at'[t] = "judge" => CommitModify(t)
  /\ at'[t] = "sync" => UpdateApplied(t) \/ CommitModify(t) \/ SaveEnd(t) \/ SaveFails(t)
Leaves(t) ==
  /\ at[t] = "idle" =>
       SwitchBegin(t) \/ SwitchRefused(t) \/ ModifyBegin(t) \/ ModifyUnknown(t) \/ SchemeLook(t)
       \/ AppendBegin(t) \/ ExitBegin(t)
  /\ at[t] = "ask" => UpdateBegin(t) \/ UpdateTurnedDown(t)
  /\ at[t] = "generate" => UpdateGenerate(t) \/ UpdateInvalid(t)
  /\ at[t] = "apply" => UpdateInvalid(t) \/ UpdateApplied(t) \/ UpdateErrs(t)
  /\ at[t] = "sync" => Sync(t)
  /\ at[t] = "lock" => LockProfiles(t)
  /\ at[t] = "stage" => SwitchStage(t)
  /\ at[t] = "discard" => SwitchDiscard(t)
  /\ at[t] = "commit" => SwitchCommit(t)
  /\ at[t] = "undo" => SwitchUndo(t)
  /\ at[t] = "restore" => RestoreStage(t)
  /\ at[t] = "restoreApply" => RestoreApply(t)
  /\ at[t] = "saveBegin" => SaveBegin(t)
  /\ at[t] = "saveWrite" => SaveWrite(t) \/ SaveFails(t)
  /\ at[t] = "saveEnd" => SaveEnd(t)
  /\ at[t] = "plan" => DeletePlan(t) \/ DeleteUnknown(t)
  /\ at[t] = "content" => ContentWrite(t) \/ ModifyFails(t)
  /\ at[t] = "write" => DeleteWrite(t) \/ DeleteWriteFails(t) \/ ModifyWrite(t) \/ ModifyFails(t)
  /\ at[t] = "cleanup" => DeleteCleanup(t)
  /\ at[t] = "commitModify" => CommitModify(t) \/ CommitRefused(t)
  /\ at[t] = "rollback" => RollbackGenerate(t) \/ RollbackFails(t)
  /\ at[t] = "rollbackApply" => RollbackApplied(t) \/ RollbackFails(t)
  /\ at[t] = "append" => AppendBegin(t)
  /\ at[t] = "drop" => SchemeDrop(t)
  /\ at[t] = "adopted" => SchemeEnds(t)
  /\ at[t] = "judge" => RefreshJudge(t)
  /\ at[t] = "config" => DnsConfig(t) \/ DnsRefused(t)
  /\ at[t] = "collect" => ExitCollect(t)
  /\ at[t] = "exitSave" => ExitSave(t)
  /\ at[t] = "exitEnd" => ExitEnd(t)
Answers(t) ==
  answer' = answer
  \/ (at'[t] = "done" /\ answer'[t] # "none")
  \/ (at[t] = "restoreApply" /\ answer'[t] = "rejected")
Permits(t) ==
  permit' = permit \/ permit' = Nobody
  \/ SaveBegin(t) \/ DeletePlan(t) \/ ModifyBegin(t) \/ AppendBegin(t)
Moves(t) == Alone(t) /\ Changes(t) /\ Arrives(t) /\ Leaves(t) /\ Answers(t) /\ Permits(t)

(* A step moves one request on, and every effect and every place has its steps. *)
LEMMA StepsMove ==
  ASSUME Control, Stored, NEW t \in Tasks, Step(t)
  PROVE  Moves(t)
<1> USE DEF Control, Stored, Moves, Alone, Changes, Arrives, Leaves, Answers, Permits, taskVars, bookVars, modifyVars,
    lockVars, coreVars, diskVars
<1>1. CASE UpdateBegin(t)
  BY <1>1 DEF UpdateBegin, Goto
<1>2. CASE UpdateTurnedDown(t)
  BY <1>2 DEF UpdateTurnedDown, UpdateFails, Finish, Goto, Release, Unless, Upset
<1>3. CASE UpdateGenerate(t)
  BY <1>3 DEF UpdateGenerate, Given, Enhanced, CanEnhance, Goto, Upset
<1>4. CASE UpdateInvalid(t)
  BY <1>4 DEF UpdateInvalid, UpdateFails, Finish, Goto, Release, Unless, Upset
<1>5. CASE UpdateApplied(t)
  BY <1>5 DEF UpdateApplied, Finish, Goto, Release, Unless
<1>6. CASE UpdateErrs(t)
  BY <1>6 DEF UpdateErrs, CoreAfterError, UpdateFails, Finish, Goto, Release, Unless,
      Upset
<1>7. CASE Sync(t)
  BY <1>7 DEF Sync, Finish, Goto, Release, Unless
<1>8. CASE SwitchBegin(t)
  BY <1>8 DEF SwitchBegin, Is, Goto
<1>9. CASE SwitchRefused(t)
  BY <1>9 DEF SwitchRefused, Is, Finish, Goto
<1>10. CASE LockProfiles(t)
  BY <1>10 DEF LockProfiles, Goto
<1>11. CASE SwitchStage(t)
  BY <1>11 DEF SwitchStage, PatchConfig, Goto
<1>12. CASE SwitchDiscard(t)
  BY <1>12 DEF SwitchDiscard, Goto
<1>13. CASE SwitchCommit(t)
  BY <1>13 DEF SwitchCommit, PatchConfig, Goto
<1>14. CASE SwitchUndo(t)
  BY <1>14 DEF SwitchUndo, Finish, Goto, Release, Unless
<1>15. CASE RestoreStage(t)
  BY <1>15 DEF RestoreStage, PatchConfig, Goto
<1>16. CASE RestoreApply(t)
  BY <1>16 DEF RestoreApply, ApplyDraft, Goto, Release, Unless, Upset
<1>17. CASE SaveBegin(t)
  BY <1>17 DEF SaveBegin, BeginModify, Goto
<1>18. CASE SaveWrite(t)
  BY <1>18 DEF SaveWrite, Goto
<1>19. CASE SaveFails(t)
  BY <1>19 DEF SaveFails, SaveDone, AbandonModify, Finish, Goto
<1>20. CASE SaveEnd(t)
  BY <1>20 DEF SaveEnd, SaveDone, AbandonModify, Finish, Goto, Upset, Upset
<1>21. CASE DeletePlan(t)
  BY <1>21 DEF DeletePlan, Removals, BeginModify, Goto
<1>22. CASE DeleteUnknown(t)
  BY <1>22 DEF DeleteUnknown, Finish, Goto, Release, Unless
<1>23. CASE DeleteWrite(t)
  BY <1>23 DEF DeleteWrite, Is, Goto
<1>24. CASE DeleteWriteFails(t)
  BY <1>24 DEF DeleteWriteFails, Is, Finish, Goto, Release, Unless
<1>25. CASE RollbackGenerate(t)
  BY <1>25 DEF RollbackGenerate, Enhanced, Goto
<1>26. CASE RollbackApplied(t)
  BY <1>26 DEF RollbackApplied, DeleteRejected, Finish, Goto, Release, Unless
<1>27. CASE RollbackFails(t)
  BY <1>27 DEF RollbackFails, CoreAfterError, DeleteRejected, Upset, Finish, Goto,
      Release, Unless
<1>28. CASE DeleteCleanup(t)
  BY <1>28 DEF DeleteCleanup, Goto
<1>29. CASE ModifyBegin(t)
  BY <1>29 DEF ModifyBegin, Is, BeginModify, Goto
<1>30. CASE ModifyUnknown(t)
  BY <1>30 DEF ModifyUnknown, Is, Finish, Goto
<1>31. CASE SchemeLook(t)
  BY <1>31 DEF SchemeLook, Is, Goto
<1>32. CASE AppendBegin(t)
  BY <1>32 DEF AppendBegin, Is, AppendItem, BeginModify, Goto
<1>33. CASE ContentWrite(t)
  BY <1>33 DEF ContentWrite, Goto
<1>34. CASE ModifyWrite(t)
  BY <1>34 DEF ModifyWrite, Is, Goto
<1>35. CASE ModifyFails(t)
  BY <1>35 DEF ModifyFails, ModifyRejected, AbandonModify, Finish, Goto
<1>36. CASE CommitModify(t)
  BY <1>36 DEF CommitModify, AbandonModify, Finish, Goto, Release, Unless, Upset
<1>37. CASE CommitRefused(t)
  BY <1>37 DEF CommitRefused, AbandonModify, ModifyRejected, Finish, Goto, Release,
      Unless
<1>38. CASE SchemeDrop(t)
  BY <1>38 DEF SchemeDrop, Finish, Goto, Upset
<1>39. CASE SchemeEnds(t)
  BY <1>39 DEF SchemeEnds, Finish, Goto, Upset, Upset
<1>40. CASE RefreshJudge(t)
  BY <1>40 DEF RefreshJudge, Finish, Goto, Upset
<1>41. CASE DnsConfig(t)
  BY <1>41 DEF DnsConfig, Goto
<1>42. CASE DnsRefused(t)
  BY <1>42 DEF DnsRefused, Finish, Goto, Release, Unless
<1>43. CASE ExitBegin(t)
  BY <1>43 DEF ExitBegin, Is, Goto
<1>44. CASE ExitCollect(t)
  BY <1>44 DEF ExitCollect, ApplyDraft, Goto
<1>45. CASE ExitSave(t)
  BY <1>45 DEF ExitSave, Goto, Release, Unless, Upset
<1>46. CASE ExitEnd(t)
  BY <1>46 DEF ExitEnd, Finish, Goto
<1> HIDE DEF Control, Stored, Moves, Alone, Changes, Arrives, Leaves, Answers, Permits, taskVars, bookVars, modifyVars,
    lockVars, coreVars, diskVars
<1> QED
  BY <1>1, <1>2, <1>3, <1>4, <1>5, <1>6, <1>7, <1>8, <1>9, <1>10, <1>11, <1>12, <1>13,
      <1>14, <1>15, <1>16, <1>17, <1>18, <1>19, <1>20, <1>21, <1>22, <1>23, <1>24,
      <1>25, <1>26, <1>27, <1>28, <1>29, <1>30, <1>31, <1>32, <1>33, <1>34, <1>35,
      <1>36, <1>37, <1>38, <1>39, <1>40, <1>41, <1>42, <1>43, <1>44, <1>45, <1>46 DEF Step, UpdateStep, SwitchStep,
      SaveStep, DeleteStep, ModifyStep, OtherStep

(* One request at a time has the update, and another's step leaves it that. *)
LEMMA HoldersKeep ==
  ASSUME Control, Stored, Discipline, Updates, NEW t \in Tasks, Step(t), NEW u \in Tasks \ {t}
  PROVE  updating' = u <=> updating = u
<1>1. Moves(t)
  BY StepsMove
<1>2. updating' \in {updating, t, Nobody}
  BY <1>1 DEF Moves, Changes, UpdateBegin, UpdateInvalid, UpdateApplied, UpdateErrs,
     RollbackApplied, RollbackFails, DeleteRejected, CommitModify, CommitRefused, Unless
<1>3. updating = u => updating' = updating
  <2>1. updating = u => at[t] \notin {"generate", "apply", "rollback", "rollbackApply"}
    BY DEF Updates
  <2> QED
    BY <1>1, <2>1, HoldersAssumption DEF Moves, Changes, UpdateBegin, UpdateInvalid, UpdateApplied, UpdateErrs,
       RollbackApplied, RollbackFails, CommitModify, CommitRefused, Unless
<1> QED
  BY <1>2, <1>3, HoldersAssumption

(* An update is ended by whoever began it. *)
LEMMA NextUpdates ==
  ASSUME Control, Stored, Discipline, Updates, [Next]_vars
  PROVE  Updates'
<1>1. CASE UNCHANGED vars
  BY <1>1 DEF vars, coreVars, Updates
<1>2. ASSUME NEW t \in Tasks, Step(t), NEW u \in Tasks,
             at'[u] \in {"generate", "apply", "rollback", "rollbackApply"}
      PROVE  updating' = u
  <2>1. Moves(t)
    BY <1>2, StepsMove
  <2>2. CASE u # t
    BY <1>2, <2>1, <2>2, HoldersKeep DEF Moves, Alone, Updates
  <2>3. CASE u = t
    <3>1. at'[t] = "generate" => updating' = t
      BY <2>1 DEF Moves, Arrives, UpdateBegin
    <3>2. at'[t] = "apply" => updating' = t
      BY <2>1 DEF Moves, Arrives, UpdateGenerate, Updates
    <3>3. at'[t] = "rollback" => updating' = t
      <4>1. UpdateErrs(t) /\ at'[t] = "rollback" => updating' = updating /\ at[t] = "apply"
        BY DEF UpdateErrs, UpdateFails, Finish, Goto, Control
      <4>2. DeleteWriteFails(t) /\ at'[t] = "rollback" => updating' = updating /\ updating = t
        BY DEF DeleteWriteFails, coreVars, Finish, Goto, Control
      <4> QED
        BY <2>1, <4>1, <4>2 DEF Moves, Arrives, Updates
    <3>4. at'[t] = "rollbackApply" => updating' = t
      BY <2>1 DEF Moves, Arrives, RollbackGenerate, Updates
    <3> QED
      BY <1>2, <2>3, <3>1, <3>2, <3>3, <3>4
  <2> QED
    BY <2>2, <2>3
<1> QED
  BY <1>1, <1>2 DEF Next, Updates

(* A draft goes before its switch gives up the lock. *)
LEMMA NextDraft ==
  ASSUME Control, Stored, Discipline, DraftIsASwitchs, [Next]_vars
  PROVE  DraftIsASwitchs'
<1>1. CASE UNCHANGED vars
  BY <1>1 DEF vars, taskVars, bookVars, DraftIsASwitchs, Staging, Kind
<1>2. ASSUME NEW t \in Tasks, Step(t), draft' # NoDraft PROVE \E s \in Tasks : Staging(s)'
  <2>1. Moves(t)
    BY <1>2, StepsMove
  <2>2. job' = job /\ \A v : Kind(v)' = Kind(v)
    BY <2>1 DEF Moves, Alone, Kind
  <2>3. ~SwitchDiscard(t) /\ ~SwitchUndo(t) /\ ~RestoreApply(t) /\ ~SchemeDrop(t) /\ ~ExitCollect(t)
    BY <1>2 DEF SwitchDiscard, SwitchUndo, RestoreApply, SchemeDrop, ExitCollect, ApplyDraft
  <2>4. CASE SwitchStage(t) \/ RestoreStage(t)
    <3>1. Kind(t) = "switch" /\ at'[t] \in {"ask", "restoreApply"}
      BY <2>4, PlacesTellKinds DEF SwitchStage, RestoreStage, Goto, Discipline, Control
    <3> QED
      BY <2>2, <3>1 DEF Staging
  <2>5. CASE draft' = draft
    <3>1. PICK s \in Tasks : Staging(s)
      BY <1>2, <2>5 DEF DraftIsASwitchs
    <3>2. CASE s # t
      BY <2>1, <2>2, <3>1, <3>2 DEF Moves, Alone, Staging
    <3>3. CASE s = t
      <4>1. at[t] \in {"ask", "generate", "apply"} => at'[t] \in {"generate", "apply", "discard", "undo"}
        BY <2>1, <3>1, <3>3 DEF Moves, Leaves, Staging, UpdateBegin, UpdateTurnedDown, UpdateGenerate,
           UpdateInvalid, UpdateApplied, UpdateErrs, UpdateFails, Goto, Control
      <4>2. at[t] \notin {"discard", "undo", "restoreApply"}
        BY <2>1, <2>3 DEF Moves, Leaves
      <4>3. Kind(t) = "switch" /\ at[t] \in {"ask", "generate", "apply"}
        BY <3>1, <3>3, <4>2 DEF Staging
      <4> QED
        BY <2>2, <4>1, <4>3 DEF Staging
    <3> QED
      BY <3>2, <3>3
  <2> QED
    BY <2>1, <2>3, <2>4, <2>5 DEF Moves, Changes
<1> QED
  BY <1>1, <1>2 DEF Next, DraftIsASwitchs

(* Who has the profile lock replaces the data, and no deletion is under way. *)
LEMMA ReplacersAreAlone ==
  ASSUME Control, Discipline, NEW t \in Tasks, RestoreApply(t) \/ ExitCollect(t) \/ SwitchStage(t)
         \/ SwitchCommit(t) \/ RestoreStage(t)
  PROVE  \A u \in Tasks : ~Deleting(u)
<1>1. Kind(t) # "delete" /\ Locked(t)
  BY PlacesTellKinds DEF RestoreApply, ExitCollect, SwitchStage, SwitchCommit, RestoreStage, Discipline,
     Locked
<1>2. \A u \in Tasks : Deleting(u) => Locked(u) /\ u # t
  BY <1>1 DEF Locked, Deleting
<1> QED
  BY <1>1, <1>2 DEF Discipline

(* A deletion is under way as long as it goes from place to place, and begins *)
(* with its plan. *)
LEMMA DeletionsBegin ==
  ASSUME Control, Stored, Discipline, NEW t \in Tasks, Step(t), NEW u \in Tasks, Deleting(u)'
  PROVE  Kind(u) = "delete" /\ (Deleting(u) \/ (u = t /\ DeletePlan(t)))
<1>1. Moves(t)
  BY StepsMove
<1>2. Kind(u) = "delete"
  BY <1>1 DEF Moves, Alone, Deleting, Kind
<1>3. CASE u # t
  BY <1>1, <1>2, <1>3 DEF Moves, Alone, Deleting
<1>4. ASSUME u = t, ~Deleting(t) PROVE DeletePlan(t)
  <2>1. at[t] \in {"lock", "plan", "sync"}
    BY <1>1, <1>2, <1>4 DEF Discipline, Routes, Deleting, Moves, Arrives
  <2>2. at[t] # "lock" /\ at[t] # "sync"
    BY <1>1, <1>2, <1>4 DEF Moves, Leaves, LockProfiles, Sync, Finish, Goto, Deleting, Control
  <2>3. at'[t] # "done"
    BY <1>4 DEF Deleting
  <2> QED
    BY <1>1, <2>1, <2>2, <2>3 DEF Moves, Leaves, DeleteUnknown, Finish, Goto, Control
<1> QED
  BY <1>2, <1>3, <1>4

(* Whatever replaces the data has the profile lock, as a deletion has. *)
LEMMA NextAlone ==
  ASSUME Control, Stored, Discipline, DeletionsAreAlone, [Next]_vars
  PROVE  DeletionsAreAlone'
<1>1. CASE UNCHANGED vars
  BY <1>1 DEF vars, taskVars, modifyVars, DeletionsAreAlone, Deleting, Kind
<1>2. ASSUME NEW t \in Tasks, Step(t), NEW u \in Tasks, Deleting(u)' PROVE ~replaced'
  <2>1. Moves(t)
    BY <1>2, StepsMove
  <2>2. CASE RestoreApply(t) \/ ExitCollect(t)
    <3>1. ~Deleting(u) /\ u # t
      BY <1>2, <2>2, ReplacersAreAlone, DeletionsBegin DEF RestoreApply, ExitCollect, DeletePlan
    <3> QED
      BY <1>2, <3>1, DeletionsBegin
  <2>3. CASE SaveBegin(t) \/ DeletePlan(t) \/ ModifyBegin(t) \/ AppendBegin(t)
    BY <2>3 DEF SaveBegin, DeletePlan, ModifyBegin, AppendBegin, BeginModify
  <2>4. CASE replaced' = replaced /\ ~DeletePlan(t)
    BY <1>2, <2>4, DeletionsBegin DEF DeletionsAreAlone
  <2> QED
    BY <2>1, <2>2, <2>3, <2>4 DEF Moves, Changes
<1> QED
  BY <1>1, <1>2 DEF Next, DeletionsAreAlone

(* Every book is made of whole ones. *)
LEMMA NextBooks ==
  ASSUME Control, Stored, Discipline, BooksAreWhole, [Next]_vars
  PROVE  BooksAreWhole'
<1> USE DEF Is
<1>1. CASE UNCHANGED vars
  BY <1>1 DEF vars, bookVars, modifyVars, diskVars, BooksAreWhole
<1>2. ASSUME NEW t \in Tasks, Step(t) PROVE BooksAreWhole'
  <2>1. Moves(t)
    BY <1>2, StepsMove
  <2>2. \A book, uid : Whole(book) /\ book \in Books => Whole(PatchConfig(book, uid))
    BY DEF Whole, PatchConfig, Books
  <2>3. Whole(Latest) /\ Latest \in Books
    BY DEF BooksAreWhole, Stored, Latest
  <2>4. Whole(committed')
    <3>1. SwitchCommit(t) => committed' = PatchConfig(committed, Uid(t))
      BY DEF SwitchCommit
    <3>2. RestoreApply(t) \/ ExitCollect(t) => committed' = Latest
      BY DEF RestoreApply, ExitCollect, ApplyDraft
    <3>3. CommitModify(t) => committed' = local[t]
      BY DEF CommitModify
    <3> QED
      BY <2>1, <2>2, <2>3, <3>1, <3>2, <3>3 DEF Moves, Changes, BooksAreWhole, Stored
  <2>5. draft' # NoDraft => Whole(draft')
    <3>1. draft' \in {NoDraft, draft, PatchConfig(Latest, Uid(t)), PatchConfig(Latest, prev[t])}
      BY <2>1 DEF Moves, Changes, SwitchStage, RestoreStage, SwitchDiscard, SwitchUndo, RestoreApply,
         SchemeDrop, ExitCollect, ApplyDraft
    <3> QED
      BY <2>2, <2>3, <3>1 DEF BooksAreWhole
  <2>6. \A u \in Tasks : Whole(local'[u])
    <3>1. \A u \in Tasks \ {t} : local'[u] = local[u]
      BY <2>1 DEF Moves, Alone
    <3>2. ExitCollect(t) => local'[t] = Latest
      BY DEF ExitCollect, Stored
    <3>3. SaveBegin(t) => local'[t] = committed
      BY DEF SaveBegin, BeginModify, Stored
    <3>4. DeletePlan(t) => Whole(local'[t])
      <4>1. DeletePlan(t) => local'[t] \in Removals(committed, Uid(t))
        BY DEF DeletePlan, BeginModify, Stored
      <4>2. \A b \in Removals(committed, Uid(t)) : Whole(b)
        BY UidsAssumption DEF Removals, Whole, BooksAreWhole
      <4> QED
        BY <4>1, <4>2
    <3>5. ModifyBegin(t) => Whole(local'[t])
      <4>1. ModifyBegin(t) => local'[t] = [committed EXCEPT !.edits = @ \cup {t}]
        BY DEF ModifyBegin, BeginModify, Stored
      <4> QED
        BY <4>1 DEF Whole, BooksAreWhole, Stored, Books
    <3>6. AppendBegin(t) => Whole(local'[t])
      <4>1. AppendBegin(t) => local'[t] = AppendItem(committed, Uid(t))
        BY DEF AppendBegin, BeginModify, Stored
      <4>2. /\ AppendItem(committed, Uid(t)).items = committed.items \cup {Uid(t)}
            /\ AppendItem(committed, Uid(t)).current =
                 IF committed.current = NoUid THEN Uid(t) ELSE committed.current
        BY DEF AppendItem, Stored, Books
      <4> QED
        BY <4>1, <4>2 DEF Whole, BooksAreWhole
    <3>7. local' = local
          \/ ExitCollect(t) \/ SaveBegin(t) \/ DeletePlan(t) \/ ModifyBegin(t) \/ AppendBegin(t)
      BY <2>1 DEF Moves, Changes
    <3>8. Whole(local'[t])
      BY <2>3, <3>2, <3>3, <3>4, <3>5, <3>6, <3>7 DEF BooksAreWhole
    <3> QED
      BY <3>1, <3>8 DEF BooksAreWhole
  <2>7. Whole(file')
    <3>1. file' \in {file, local[t]}
      BY <2>1 DEF Moves, Changes, SaveWrite, DeleteWrite, ModifyWrite, ExitSave
    <3> QED
      BY <3>1 DEF BooksAreWhole
  <2> QED
    BY <2>4, <2>5, <2>6, <2>7 DEF BooksAreWhole
<1> QED
  BY <1>1, <1>2 DEF Next

(* profiles.yaml lists what has its file; the file goes after that. *)
LEMMA NextFile ==
  ASSUME Control, Stored, Discipline, DeletionsAreSafe, CopiesAreBacked, FileIsBacked, [Next]_vars
  PROVE  FileIsBacked'
<1>1. CASE UNCHANGED vars
  BY <1>1 DEF vars, diskVars, FileIsBacked
<1>2. ASSUME NEW t \in Tasks, Step(t) PROVE FileIsBacked'
  <2>1. Moves(t)
    BY <1>2, StepsMove
  <2>2. CASE SaveWrite(t) \/ DeleteWrite(t) \/ ModifyWrite(t) \/ ExitSave(t)
    <3>1. Copied(t)
      BY <2>2, PlacesTellKinds DEF SaveWrite, DeleteWrite, ModifyWrite, ExitSave, Is, Copied
    <3>2. files' = files /\ file' \in {file, local[t]}
      BY <2>2 DEF SaveWrite, DeleteWrite, ModifyWrite, ExitSave
    <3> QED
      BY <3>1, <3>2 DEF FileIsBacked, CopiesAreBacked
  <2>3. CASE DeleteCleanup(t)
    <3>1. Deleting(t) /\ at[t] = "cleanup"
      BY <2>3, PlacesTellKinds DEF DeleteCleanup, Deleting, Discipline
    <3>2. file' = file /\ files \ {Uid(t)} \subseteq files'
      BY <2>3 DEF DeleteCleanup
    <3> QED
      BY <3>1, <3>2 DEF FileIsBacked, DeletionsAreSafe
  <2>4. CASE ContentWrite(t)
    BY <2>4 DEF ContentWrite, FileIsBacked
  <2> QED
    BY <2>1, <2>2, <2>3, <2>4 DEF Moves, Changes, FileIsBacked
<1> QED
  BY <1>1, <1>2 DEF Next

(* A deletion that is about to commit has removed its file, and is alone in that. *)
LEMMA LeavingIsReached ==
  ASSUME Control, Stored, Discipline, NEW t \in Tasks, Step(t), NEW u \in Tasks
  PROVE  Leaving(u)' <=> (Leaving(u) /\ u # t) \/ (u = t /\ DeleteCleanup(t))
<1>1. Moves(t)
  BY StepsMove
<1>2. Leaving(u)' <=> Kind(u) = "delete" /\ at'[u] = "commitModify"
  BY <1>1 DEF Moves, Alone, Leaving, Kind
<1>3. CASE u # t
  BY <1>1, <1>2, <1>3 DEF Moves, Alone, Leaving
<1>4. DeleteCleanup(t) => Kind(t) = "delete" /\ at'[t] = "commitModify"
  BY PlacesTellKinds DEF DeleteCleanup, Goto, Discipline, Control
<1>5. Kind(t) = "delete" /\ at'[t] = "commitModify" => DeleteCleanup(t)
  <2>1. ContentWrite(t) \/ ModifyWrite(t) => Kind(t) # "delete"
    BY PlacesTellKinds DEF ContentWrite, ModifyWrite, Is, Discipline
  <2> QED
    BY <1>1, <2>1 DEF Moves, Arrives
<1> QED
  BY <1>2, <1>3, <1>4, <1>5

(* What is listed has its file, but for what is about to be removed from the list. *)
LEMMA NextCommitted ==
  ASSUME Control, Stored, Discipline, DeletionsAreAlone, DraftIsBacked, CopiesAreBacked,
         CommittedIsBacked, [Next]_vars
  PROVE  CommittedIsBacked'
<1>1. CASE UNCHANGED vars
  BY <1>1 DEF vars, taskVars, bookVars, diskVars, CommittedIsBacked, Leaving, Kind, Uid
<1>2. ASSUME NEW t \in Tasks, Step(t)
      PROVE  /\ (\A u \in Tasks : ~Leaving(u)') => committed'.items \subseteq files'
             /\ \A u \in Tasks : Leaving(u)' => committed'.items \ {Uid(u)} \subseteq files'
  <2>1. Moves(t)
    BY <1>2, StepsMove
  <2>2. \A u \in Tasks : Leaving(u)' <=> (Leaving(u) /\ u # t) \/ (u = t /\ DeleteCleanup(t))
    BY <1>2, LeavingIsReached
  <2>3. \A u, v \in Tasks : Leaving(u) /\ (Leaving(v) \/ at[v] \in {"cleanup", "content", "commitModify"}) => u = v
    <3>1. \A u \in Tasks : Leaving(u) \/ at[u] \in {"cleanup", "content", "commitModify"} => permit = u
      BY PlacesTellKinds DEF Leaving, Modifying, Deleting, Discipline
    <3> QED
      BY <3>1
  <2>4. CASE DeleteCleanup(t)
    <3>1. at[t] = "cleanup" /\ \A u \in Tasks : ~Leaving(u)
      BY <2>3, <2>4 DEF DeleteCleanup, Leaving
    <3>2. committed' = committed /\ files \ {Uid(t)} \subseteq files'
      BY <2>4 DEF DeleteCleanup, bookVars
    <3>3. committed.items \subseteq files
      BY <3>1 DEF CommittedIsBacked
    <3> QED
      BY <2>2, <2>4, <3>1, <3>2, <3>3
  <2>5. CASE CommitModify(t)
    <3>1. files' = files /\ committed' = local[t] /\ at[t] = "commitModify"
      BY <2>5 DEF CommitModify, diskVars
    <3>2. local[t].items \subseteq files
      BY <3>1 DEF CopiesAreBacked, Copied
    <3> QED
      BY <3>1, <3>2
  <2>6. CASE ContentWrite(t)
    BY <2>2, <2>3, <2>6 DEF ContentWrite, bookVars, CommittedIsBacked, Leaving, DeleteCleanup
  <2>7. CASE RestoreApply(t) \/ ExitCollect(t) \/ SwitchCommit(t)
    <3>1. \A u \in Tasks : ~Leaving(u)
      BY <2>7, ReplacersAreAlone DEF Leaving, Deleting
    <3>2. files' = files /\ committed'.items \in {committed.items, Latest.items}
      BY <2>7 DEF RestoreApply, ExitCollect, SwitchCommit, ApplyDraft, PatchConfig, diskVars, Stored, Books
    <3>3. committed.items \subseteq files /\ Latest.items \subseteq files
      BY <3>1 DEF CommittedIsBacked, DraftIsBacked, Latest
    <3> QED
      BY <3>2, <3>3
  <2>8. CASE committed' = committed /\ files' = files /\ ~DeleteCleanup(t) /\ ~CommitModify(t)
    <3>1. CASE Leaving(t)
      <4>1. at[t] = "commitModify" /\ \A u \in Tasks \ {t} : ~Leaving(u)
        BY <2>3, <3>1 DEF Leaving
      <4>2. CommitRefused(t)
        BY <2>1, <2>8, <4>1 DEF Moves, Leaves
      <4>3. replaced /\ Deleting(t)
        BY <3>1, <4>2 DEF CommitRefused, Leaving, Deleting
      <4> QED
        BY <4>3 DEF DeletionsAreAlone
    <3>2. CASE ~Leaving(t)
      BY <2>2, <2>8, <3>2 DEF CommittedIsBacked
    <3> QED
      BY <3>1, <3>2
  <2> QED
    BY <2>1, <2>4, <2>5, <2>6, <2>7, <2>8 DEF Moves, Changes
<1>3. ASSUME NEW t \in Tasks, Step(t) PROVE CommittedIsBacked'
  <2>1. \A v : Uid(v)' = Uid(v)
    BY <1>3, StepsMove DEF Moves, Alone, Uid
  <2> QED
    BY <1>2, <1>3, <2>1 DEF CommittedIsBacked
<1> QED
  BY <1>1, <1>3 DEF Next

(* A draft is staged, and no deletion is under way meanwhile. *)
LEMMA NextDraftBacked ==
  ASSUME Control, Stored, Discipline, DraftIsASwitchs, CommittedIsBacked, DraftIsBacked, [Next]_vars
  PROVE  DraftIsBacked'
<1>1. CASE UNCHANGED vars
  BY <1>1 DEF vars, bookVars, diskVars, DraftIsBacked
<1>2. ASSUME NEW t \in Tasks, Step(t), draft' # NoDraft PROVE draft'.items \subseteq files'
  <2>1. Moves(t)
    BY <1>2, StepsMove
  <2>2. CASE DeleteCleanup(t)
    <3>1. draft' = draft /\ Deleting(t)
      BY <2>2, PlacesTellKinds DEF DeleteCleanup, bookVars, Deleting, Discipline
    <3>2. \A u \in Tasks : ~Staging(u)
      BY <3>1 DEF Staging, Discipline, Locked, Deleting
    <3> QED
      BY <1>2, <3>1, <3>2 DEF DraftIsASwitchs
  <2>3. CASE SwitchStage(t) \/ RestoreStage(t)
    <3>1. \A u \in Tasks : ~Leaving(u)
      BY <2>3, ReplacersAreAlone DEF Leaving, Deleting
    <3>2. files' = files /\ draft'.items = Latest.items
      BY <2>3 DEF SwitchStage, RestoreStage, PatchConfig, diskVars, Latest, Stored, Books
    <3>3. Latest.items \subseteq files
      BY <3>1 DEF CommittedIsBacked, DraftIsBacked, Latest
    <3> QED
      BY <3>2, <3>3
  <2>4. CASE ContentWrite(t)
    BY <1>2, <2>4 DEF ContentWrite, bookVars, DraftIsBacked
  <2>5. CASE draft' = draft /\ files' = files
    BY <1>2, <2>5 DEF DraftIsBacked
  <2>6. ~(SwitchDiscard(t) \/ SwitchUndo(t) \/ RestoreApply(t) \/ SchemeDrop(t) \/ ExitCollect(t))
    BY <1>2 DEF SwitchDiscard, SwitchUndo, RestoreApply, SchemeDrop, ExitCollect, ApplyDraft
  <2> QED
    BY <2>1, <2>2, <2>3, <2>4, <2>5, <2>6 DEF Moves, Changes
<1> QED
  BY <1>1, <1>2 DEF Next, DraftIsBacked

(* A copy is made of what has its file, and none is removed meanwhile. *)
LEMMA NextCopies ==
  ASSUME Control, Stored, Discipline, DeletionsAreSafe, DraftIsBacked, CommittedIsBacked,
         CopiesAreBacked, [Next]_vars
  PROVE  CopiesAreBacked'
<1> USE DEF Is
<1>1. CASE UNCHANGED vars
  BY <1>1 DEF vars, taskVars, modifyVars, diskVars, CopiesAreBacked, Copied, Deleting, Kind, Uid
<1>2. ASSUME NEW t \in Tasks, Step(t), NEW u \in Tasks
      PROVE  /\ Copied(u)' => local'[u].items \subseteq files'
             /\ at'[u] = "content" => local'[u].items \subseteq files' \cup {Uid(u)}
  <2>1. Moves(t)
    BY <1>2, StepsMove
  <2>2. Copied(u)' <=> \/ Deleting(u)'
                       \/ at'[u] \in {"write", "commitModify", "saveWrite", "saveEnd", "exitSave"}
    BY DEF Copied
  <2>3. CASE u # t
    <3>1. local'[u] = local[u] /\ at'[u] = at[u] /\ (Copied(u)' <=> Copied(u))
      BY <2>1, <2>2, <2>3 DEF Moves, Alone, Copied, Deleting, Kind
    <3>2. CASE DeleteCleanup(t)
      <4>1. Deleting(t) /\ permit = t /\ profileLock = t
        BY <3>2, PlacesTellKinds DEF DeleteCleanup, Deleting, Discipline, Modifying, Locked
      <4>2. Copied(u) \/ at[u] = "content" => Modifying(u) \/ Locked(u)
        BY PlacesTellKinds DEF Copied, Modifying, Locked, Discipline
      <4>3. ~Modifying(u) /\ ~Locked(u)
        BY <2>3, <4>1 DEF Discipline
      <4> QED
        BY <3>1, <4>2, <4>3
    <3>3. CASE ~DeleteCleanup(t)
      <4>1. files \subseteq files'
        BY <2>1, <3>3 DEF Moves, Changes, ContentWrite
      <4> QED
        BY <3>1, <4>1 DEF CopiesAreBacked
    <3> QED
      BY <3>2, <3>3
  <2>4. CASE u = t /\ (SaveBegin(t) \/ DeletePlan(t) \/ ModifyBegin(t) \/ AppendBegin(t))
    <3>1. permit = Nobody /\ files' = files
      BY <2>4 DEF SaveBegin, DeletePlan, ModifyBegin, AppendBegin, BeginModify, diskVars
    <3>2. \A v \in Tasks : ~Leaving(v)
      BY <3>1, HoldersAssumption DEF Discipline, Modifying, Deleting, Leaving
    <3>3. committed.items \subseteq files
      BY <3>2 DEF CommittedIsBacked
    <3>4. SaveBegin(t) \/ ModifyBegin(t) => local'[t].items = committed.items
      BY DEF SaveBegin, ModifyBegin, BeginModify, Stored, Books
    <3>5. DeletePlan(t) => local'[t].items \subseteq committed.items
      BY DEF DeletePlan, Removals, BeginModify, Stored
    <3>6. AppendBegin(t) => local'[t].items = committed.items \cup {Uid(t)} /\ at'[t] = "content"
      BY DEF AppendBegin, AppendItem, BeginModify, Goto, Stored, Books, Control
    <3>7. ~Copied(t)' \/ at'[t] # "content"
      <4>1. at'[t] = "content" => Kind(t) # "delete"
        BY <2>1 DEF Moves, Arrives, ModifyBegin, AppendBegin, Imports
      <4>2. Deleting(t)' => Kind(t) = "delete"
        BY <2>1 DEF Moves, Alone, Deleting, Kind
      <4> QED
        BY <2>2, <2>4, <4>1, <4>2
    <3> QED
      BY <2>4, <3>1, <3>3, <3>4, <3>5, <3>6, <3>7
  <2>5. CASE u = t /\ ExitCollect(t)
    <3>1. \A v \in Tasks : ~Leaving(v)
      BY <2>5, ReplacersAreAlone DEF Leaving, Deleting
    <3>2. files' = files /\ local'[t] = Latest /\ at'[t] # "content"
      BY <2>5 DEF ExitCollect, diskVars, Stored, Goto, Control
    <3> QED
      BY <2>5, <3>1, <3>2 DEF CommittedIsBacked, DraftIsBacked, Latest
  <2>6. CASE u = t /\ DeleteCleanup(t)
    <3>1. Deleting(t) /\ at[t] = "cleanup" /\ at'[t] # "content"
      BY <2>6, PlacesTellKinds DEF DeleteCleanup, Deleting, Discipline, Goto, Control
    <3>2. local' = local /\ files \ {Uid(t)} \subseteq files'
      BY <2>6 DEF DeleteCleanup, modifyVars
    <3>3. local[t].items \subseteq files /\ Uid(t) \notin local[t].items
      BY <3>1 DEF CopiesAreBacked, DeletionsAreSafe, Copied
    <3> QED
      BY <2>6, <3>1, <3>2, <3>3
  <2>7. CASE u = t /\ ContentWrite(t)
    <3>1. local' = local /\ files' = files \cup {Uid(t)} /\ at[t] = "content"
      BY <2>7 DEF ContentWrite, modifyVars
    <3> QED
      BY <2>7, <3>1 DEF CopiesAreBacked
  <2>8. CASE u = t /\ local' = local /\ files' = files /\ ~DeleteCleanup(t) /\ ~ContentWrite(t)
             /\ ~(SaveBegin(t) \/ DeletePlan(t) \/ ModifyBegin(t) \/ AppendBegin(t) \/ ExitCollect(t))
    <3>1. at'[t] # "content"
      BY <2>1, <2>8 DEF Moves, Arrives
    <3>2. Copied(t)' => Copied(t)
      <4>1. Deleting(t)' => Deleting(t)
        BY <1>2, <2>8, DeletionsBegin
      <4>2. at'[t] = "write" => Deleting(t)
        <5>1. UpdateApplied(t) /\ at'[t] = "write" => Kind(t) = "delete" /\ at[t] = "apply"
          BY DEF UpdateApplied, Finish, Goto, Control
        <5> QED
          BY <2>1, <2>8, <5>1 DEF Moves, Arrives, Deleting
      <4>3. at'[t] = "commitModify" => at[t] = "write"
        BY <2>1, <2>8 DEF Moves, Arrives, ModifyWrite
      <4>4. at'[t] = "saveEnd" => at[t] = "saveWrite"
        BY <2>1 DEF Moves, Arrives, SaveWrite
      <4>5. at'[t] \notin {"saveWrite"}
        BY <2>1, <2>8 DEF Moves, Arrives
      <4>6. at'[t] # "exitSave"
        BY <2>1, <2>8 DEF Moves, Arrives
      <4> QED
        BY <2>2, <2>8, <4>1, <4>2, <4>3, <4>4, <4>5, <4>6 DEF Copied
    <3> QED
      BY <2>8, <3>1, <3>2 DEF CopiesAreBacked
  <2> QED
    BY <2>1, <2>3, <2>4, <2>5, <2>6, <2>7, <2>8 DEF Moves, Changes
<1>3. ASSUME NEW t \in Tasks, Step(t) PROVE CopiesAreBacked'
  <2>1. \A v : Uid(v)' = Uid(v)
    BY <1>3, StepsMove DEF Moves, Alone, Uid
  <2> QED
    BY <1>2, <1>3, <2>1 DEF CopiesAreBacked
<1> QED
  BY <1>1, <1>3 DEF Next

(* Nobody brings back what a deletion is about to remove. *)
LEMMA NextSafe ==
  ASSUME Control, Stored, Discipline, Updates, DeletionsAreAlone, DeletionsAreSafe, [Next]_vars
  PROVE  DeletionsAreSafe'
<1> USE DEF Is
<1>1. CASE UNCHANGED vars
  BY <1>1 DEF vars, taskVars, bookVars, modifyVars, coreVars, diskVars, DeletionsAreSafe, Deleting, Kind, Uid
<1>2. ASSUME NEW t \in Tasks, Step(t), NEW u \in Tasks, Deleting(u)'
      PROVE  /\ Uid(u) \notin local'[u].items
             /\ at'[u] \in {"cleanup", "commitModify"} => Uid(u) \notin file'.items
             /\ at'[u] \in {"write", "cleanup", "commitModify"} =>
                  committed'.current # Uid(u) \/ updating' = u
  <2>1. Moves(t)
    BY <1>2, StepsMove
  <2>2. Kind(u) = "delete" /\ (Deleting(u) \/ (u = t /\ DeletePlan(t)))
    BY <1>2, DeletionsBegin
  <2>3. CASE u = t /\ DeletePlan(t)
    <3>1. local'[t] \in Removals(committed, Uid(t)) /\ committed' = committed
      BY <2>3 DEF DeletePlan, BeginModify, bookVars, Stored
    <3>2. at'[t] = IF committed.current \in {Uid(t), NoUid} THEN "ask" ELSE "write"
      BY <2>3 DEF DeletePlan, Goto, Control
    <3> QED
      BY <2>3, <3>1, <3>2 DEF Removals
  <2>4. CASE Deleting(u) /\ u # t
    <3>1. ~Modifying(t) /\ ~Locked(t)
      BY <2>4 DEF Discipline, Modifying, Locked
    <3>2. at'[u] = at[u] /\ local'[u] = local[u]
      BY <2>1, <2>4 DEF Moves, Alone
    <3>3. file' = file
      <4>1. ~SaveWrite(t) /\ ~DeleteWrite(t) /\ ~ModifyWrite(t)
        BY <3>1 DEF SaveWrite, DeleteWrite, ModifyWrite, Modifying
      <4>2. ~ExitSave(t)
        BY <3>1, PlacesTellKinds DEF ExitSave, Locked, Discipline
      <4> QED
        BY <2>1, <4>1, <4>2 DEF Moves, Changes
    <3>4. committed' = committed
      <4>1. ~CommitModify(t)
        BY <3>1 DEF CommitModify, Modifying
      <4> QED
        BY <2>1, <2>4, <4>1, ReplacersAreAlone DEF Moves, Changes
    <3>5. updating = u => updating' = u
      BY <1>2, <2>4, HoldersKeep
    <3> QED
      BY <2>4, <3>2, <3>3, <3>4, <3>5 DEF DeletionsAreSafe
  <2>5. CASE Deleting(u) /\ u = t
    <3>1. Kind(t) = "delete" /\ at[t] \in {"ask", "generate", "apply", "write", "cleanup", "commitModify",
                                           "rollback", "rollbackApply"}
      BY <2>5 DEF Deleting
    <3>2. local' = local
      BY <2>1, <2>5, <3>1, ReplacersAreAlone DEF Moves, Changes, SaveBegin, DeletePlan, ModifyBegin, AppendBegin
    <3>3. at'[t] \in {"cleanup", "commitModify"} =>
            DeleteWrite(t) \/ (DeleteCleanup(t) /\ at[t] = "cleanup")
      BY <2>1, <3>1, PlacesTellKinds DEF Moves, Arrives, ContentWrite, ModifyWrite, DeleteCleanup, Discipline
    <3>4. at'[t] = "write" => UpdateApplied(t)
      BY <2>1, <3>1 DEF Moves, Arrives, DeletePlan, ModifyBegin, ContentWrite
    <3>5. at'[t] \in {"cleanup", "commitModify"} => Uid(t) \notin file'.items
      BY <2>5, <3>3 DEF DeleteWrite, DeleteCleanup, DeletionsAreSafe
    <3>6. at'[t] \in {"write", "cleanup", "commitModify"} => committed'.current # Uid(t) \/ updating' = t
      <4>1. UpdateApplied(t) => updating' = t
        BY <3>1 DEF UpdateApplied
      <4>2. DeleteWrite(t) \/ DeleteCleanup(t) => committed' = committed /\ updating' = updating
        BY DEF DeleteWrite, DeleteCleanup, bookVars, coreVars
      <4>3. DeleteWrite(t) => at[t] = "write"
        BY DEF DeleteWrite
      <4> QED
        BY <2>5, <3>3, <3>4, <4>1, <4>2, <4>3 DEF DeletionsAreSafe
    <3> QED
      BY <2>5, <3>2, <3>5, <3>6 DEF DeletionsAreSafe
  <2> QED
    BY <2>2, <2>3, <2>4, <2>5
<1>3. ASSUME NEW t \in Tasks, Step(t) PROVE DeletionsAreSafe'
  <2>1. \A v : Uid(v)' = Uid(v)
    BY <1>3, StepsMove DEF Moves, Alone, Uid
  <2> QED
    BY <1>2, <1>3, <2>1 DEF DeletionsAreSafe
<1> QED
  BY <1>1, <1>3 DEF Next

(* An import that has been listed stays so (Heard), and a switch waits for it. *)
LEMMA NextHeard ==
  ASSUME Control, Stored, Discipline, SwitchesAreHeard, [Next]_vars
  PROVE  SwitchesAreHeard'
<1> USE DEF Kind, Uid, Is, Imports
<1>1. CASE UNCHANGED vars
  BY <1>1 DEF vars, taskVars, SwitchesAreHeard, Heard
<1>2. ASSUME NEW t \in Tasks, Step(t) PROVE SwitchesAreHeard'
  <2>1. Moves(t)
    BY <1>2, StepsMove
  <2>2. job' = job /\ \A u \in Tasks \ {t} : at'[u] = at[u]
    BY <2>1 DEF Moves, Alone
  <2>3. ASSUME Kind(t) \in Imports, at'[t] \in {"idle", "append", "content", "commitModify"}
        PROVE  at[t] \in {"idle", "append", "content", "commitModify"}
    <3>1. at'[t] = "append" => at[t] = "idle"
      BY <2>1 DEF Moves, Arrives, SchemeLook
    <3>2. at'[t] = "content" => at[t] \in {"idle", "append"}
      BY <2>1, <2>3 DEF Moves, Arrives, ModifyBegin, AppendBegin
    <3>3. at'[t] = "commitModify" => at[t] = "content"
      <4>1. at[t] # "cleanup"
        BY <2>3, PlacesTellKinds DEF Discipline
      <4> QED
        BY <2>1, <2>3, <4>1 DEF Moves, Arrives, DeleteCleanup, ContentWrite, ModifyWrite
    <3> QED
      BY <2>1, <2>3, <3>1, <3>2, <3>3 DEF Moves, Arrives
  <2>4. \A uid : Heard(uid) => Heard(uid)'
    BY <2>2, <2>3 DEF Heard
  <2>5. Kind(t) = "switch" => Heard(Uid(t))
    <3>1. Kind(t) = "switch" /\ at[t] = "idle" => Heard(Uid(t))
      BY <2>1 DEF Moves, Leaves, SwitchBegin, SwitchRefused, ModifyBegin, ModifyUnknown,
         SchemeLook, AppendBegin, ExitBegin
    <3> QED
      BY <3>1 DEF SwitchesAreHeard
  <2> QED
    BY <2>2, <2>4, <2>5 DEF SwitchesAreHeard
<1> QED
  BY <1>1, <1>2 DEF Next

(* What has been answered is over. *)
LEMMA NextAnswers ==
  ASSUME Control, Stored, Discipline, AnswersAreLast, [Next]_vars
  PROVE  AnswersAreLast'
<1> USE DEF Kind, Uid, Is
<1>1. CASE UNCHANGED vars
  BY <1>1 DEF vars, taskVars, AnswersAreLast
<1>2. ASSUME NEW t \in Tasks, Step(t) PROVE AnswersAreLast'
  <2>1. Moves(t)
    BY <1>2, StepsMove
  <2>2. job' = job /\ \A u \in Tasks \ {t} : at'[u] = at[u] /\ answer'[u] = answer[u]
    BY <2>1 DEF Moves, Alone
  <2>3. Kind(t) # "switch" => answer[t] = "none"
    BY <2>1 DEF AnswersAreLast, Moves, Arrives, Control
  <2>4. answer'[t] # answer[t] /\ Kind(t) # "switch" => at'[t] = "done"
    <3>1. at[t] = "restoreApply" => Kind(t) = "switch"
      BY PlacesTellKinds DEF Discipline
    <3> QED
      BY <2>1, <3>1 DEF Moves, Answers
  <2> QED
    BY <2>2, <2>3, <2>4 DEF AnswersAreLast
<1> QED
  BY <1>1, <1>2 DEF Next

(* The update is taken when it begins, and given back on every way out of it. *)
LEMMA NextHeld ==
  ASSUME Control, Stored, Discipline, Updates, UpdatesAreHeld, [Next]_vars
  PROVE  UpdatesAreHeld'
<1> USE HoldersAssumption DEF Kind, Uid, Is
<1>1. CASE UNCHANGED vars
  BY <1>1 DEF vars, taskVars, coreVars, UpdatesAreHeld
<1>2. ASSUME NEW t \in Tasks, Step(t) PROVE UpdatesAreHeld'
  <2>1. Moves(t)
    BY <1>2, StepsMove
  <2>2. job' = job /\ \A u \in Tasks \ {t} : at'[u] = at[u]
    BY <2>1 DEF Moves, Alone
  <2>3. \A u \in Tasks \ {t} : updating' = u => updating = u
    <3>1. updating' \in {updating, t, Nobody}
      BY <2>1 DEF Moves, Changes, UpdateBegin, UpdateInvalid, UpdateApplied, UpdateErrs,
         RollbackApplied, RollbackFails, DeleteRejected, CommitModify, CommitRefused, Unless
    <3> QED
      BY <3>1
  <2>4. ASSUME updating' = t
        PROVE  \/ at'[t] \in {"generate", "apply", "rollback", "rollbackApply"}
               \/ Kind(t) = "delete" /\ at'[t] \in {"write", "cleanup", "commitModify"}
    <3>1. CASE updating # t
      BY <2>1, <2>4, <3>1 DEF Moves, Changes, UpdateBegin, UpdateInvalid, UpdateApplied, UpdateErrs,
         RollbackApplied, RollbackFails, DeleteRejected, CommitModify, CommitRefused, Unless, Goto, Control
    <3>2. CASE updating = t
      <4>1. CASE at[t] = "generate"
        BY <2>1, <2>4, <4>1 DEF Moves, Leaves, UpdateGenerate, UpdateInvalid, Goto, Control
      <4>2. CASE at[t] = "apply"
        BY <2>1, <2>4, <4>2 DEF Moves, Leaves, UpdateInvalid, UpdateApplied, UpdateErrs, Goto, Control
      <4>3. CASE at[t] \in {"rollback", "rollbackApply"}
        BY <2>1, <2>4, <4>3 DEF Moves, Leaves, RollbackGenerate, RollbackApplied, RollbackFails,
           DeleteRejected, Goto, Control
      <4>4. CASE Kind(t) = "delete" /\ at[t] \in {"write", "cleanup"}
        <5>1. at[t] = "write" => DeleteWrite(t) \/ DeleteWriteFails(t)
          BY <2>1, <4>4 DEF Moves, Leaves, ModifyWrite, ModifyFails
        <5>2. at[t] = "cleanup" => DeleteCleanup(t)
          BY <2>1 DEF Moves, Leaves
        <5>3. at' = [at EXCEPT ![t] = at'[t]] /\ at'[t] \in {"cleanup", "rollback", "commitModify"}
          BY <3>2, <4>4, <5>1, <5>2 DEF DeleteWrite, DeleteWriteFails, DeleteCleanup, Goto, Control
        <5> QED
          BY <4>4, <5>3
      <4>5. CASE Kind(t) = "delete" /\ at[t] = "commitModify"
        BY <2>1, <2>4, <4>5 DEF Moves, Leaves, CommitModify, CommitRefused, Unless
      <4> QED
        BY <3>2, <4>1, <4>2, <4>3, <4>4, <4>5 DEF UpdatesAreHeld
    <3> QED
      BY <3>1, <3>2
  <2> QED
    BY <2>2, <2>3, <2>4 DEF UpdatesAreHeld
<1> QED
  BY <1>1, <1>2 DEF Next

(* A copy is made of the committed data, and whoever commits or replaces them *)
(* has no other copy beside it that could not tell (Arc::ptr_eq). *)
LEMMA NextCopiesCurrent ==
  ASSUME Control, Flags, Stored, Discipline, CopiesAreCurrent, [Next]_vars
  PROVE  CopiesAreCurrent'
<1> USE HoldersAssumption DEF Kind, Uid, Is
<1>1. CASE UNCHANGED vars
  BY <1>1 DEF vars, taskVars, bookVars, modifyVars, CopiesAreCurrent, CopyIsCurrent, Deleting
<1>2. ASSUME NEW t \in Tasks, Step(t), ~replaced', NEW u \in Tasks PROVE CopyIsCurrent(u)'
  <2>1. Moves(t)
    BY <1>2, StepsMove
  <2>2. job' = job
    BY <2>1 DEF Moves, Alone
  <2>3. \A v \in Tasks : ~Modifying(v) => CopyIsCurrent(v)
    BY DEF Modifying, CopyIsCurrent
  <2>4. \A v \in Tasks : ~Modifying(v)' => CopyIsCurrent(v)'
    BY DEF Modifying, CopyIsCurrent
  <2>5. CASE committed' = committed /\ replaced' = replaced /\ at'[u] = at[u] /\ local'[u] = local[u]
    BY <1>2, <2>2, <2>5 DEF CopiesAreCurrent, CopyIsCurrent, Deleting
  <2>6. RestoreApply(t) \/ ExitCollect(t) =>
          committed' = committed /\ replaced' = replaced /\ at'[t] \in {"saveBegin", "exitSave"}
    BY <1>2 DEF RestoreApply, ExitCollect, ApplyDraft, Latest, Flags, Goto, Control
  <2>7. ASSUME u # t, Modifying(u) PROVE CopyIsCurrent(u)'
    <3>1. permit = u
      BY <2>7 DEF Discipline
    <3>2. ~(SaveBegin(t) \/ DeletePlan(t) \/ ModifyBegin(t) \/ AppendBegin(t) \/ SwitchCommit(t))
      BY <3>1 DEF SaveBegin, DeletePlan, ModifyBegin, AppendBegin, BeginModify, SwitchCommit
    <3>3. ~CommitModify(t)
      BY <2>7, <3>1 DEF CommitModify, Discipline, Modifying
    <3>4. at'[u] = at[u] /\ local'[u] = local[u]
      BY <2>1, <2>7 DEF Moves, Alone
    <3> QED
      BY <2>1, <2>5, <2>6, <3>2, <3>3, <3>4 DEF Moves, Changes
  <2>8. ASSUME u # t, ~Modifying(u) PROVE CopyIsCurrent(u)'
    <3>1. ~Modifying(u)'
      BY <2>1, <2>2, <2>8 DEF Moves, Alone, Modifying, Deleting
    <3> QED
      BY <2>4, <3>1
  <2>9. CASE SaveBegin(t)
    <3>1. local'[t] = committed' /\ at'[t] = "saveWrite"
      BY <2>9 DEF SaveBegin, BeginModify, Goto, Control, Stored, bookVars
    <3> QED
      BY <2>2, <2>7, <2>8, <3>1 DEF CopyIsCurrent, Deleting
  <2>10. CASE DeletePlan(t)
    <3>1. Kind(t) = "delete" /\ Uid(t) \in committed'.items
      BY <2>10, PlacesTellKinds DEF DeletePlan, Discipline, bookVars
    <3>2. local'[t] \in Removals(committed', Uid(t)) /\ at'[t] \in {"ask", "write"}
      BY <2>10 DEF DeletePlan, BeginModify, Goto, Control, Stored, bookVars
    <3>3. /\ local'[t].items = committed'.items \ {Uid(t)}
          /\ local'[t].edits = {v \in committed'.edits : Uid(v) # Uid(t)}
          /\ committed'.current \notin {Uid(t), NoUid} => local'[t].current = committed'.current
      BY <3>2 DEF Removals
    <3> QED
      BY <2>2, <2>7, <2>8, <3>1, <3>2, <3>3 DEF CopyIsCurrent, Deleting, Imports
  <2>11. CASE ModifyBegin(t)
    <3>1. /\ Kind(t) \in {"edit", "refresh"} /\ Uid(t) \in committed'.items
          /\ local'[t] = [committed' EXCEPT !.edits = @ \cup {t}] /\ at'[t] \in {"content", "write"}
      BY <2>11 DEF ModifyBegin, BeginModify, Goto, Control, Stored, bookVars
    <3> QED
      BY <2>2, <2>7, <2>8, <3>1 DEF CopyIsCurrent, Deleting, Imports
  <2>12. CASE AppendBegin(t)
    <3>1. /\ Kind(t) \in Imports /\ at'[t] = "content"
          /\ local'[t] = AppendItem(committed, Uid(t)) /\ committed' = committed
      BY <2>12 DEF AppendBegin, BeginModify, Goto, Control, Stored, bookVars, Imports
    <3>2. local'[t] = AppendItem(committed, Uid(t))'
      BY <2>2, <3>1 DEF AppendItem
    <3> QED
      BY <2>2, <2>7, <2>8, <3>1, <3>2 DEF CopyIsCurrent, Deleting, Imports
  <2>13. CASE ~(SaveBegin(t) \/ DeletePlan(t) \/ ModifyBegin(t) \/ AppendBegin(t)) /\ u = t
    <3>1. replaced' = replaced
      BY <2>1, <2>6, <2>13 DEF Moves, Changes
    <3>2. CASE SwitchCommit(t) \/ RestoreApply(t) \/ ExitCollect(t) \/ CommitModify(t)
      <4>1. at'[t] \notin {"saveWrite", "saveEnd", "content", "write", "commitModify", "ask",
                           "generate", "apply", "cleanup", "rollback", "rollbackApply"}
        BY <3>2 DEF SwitchCommit, RestoreApply, ExitCollect, CommitModify, Finish, Goto, Control
      <4> QED
        BY <2>13, <4>1 DEF CopyIsCurrent, Deleting
    <3>3. CASE ~(SwitchCommit(t) \/ RestoreApply(t) \/ ExitCollect(t) \/ CommitModify(t))
      <4>1. committed' = committed /\ local' = local
        BY <2>1, <2>13, <3>3 DEF Moves, Changes
      <4>2. CopyIsCurrent(t)
        BY <1>2, <3>1 DEF CopiesAreCurrent
      <4>3. at'[t] \in {"saveWrite", "saveEnd"} => at[t] = "saveWrite"
        BY <2>1, <2>13 DEF Moves, Arrives, SaveWrite
      <4>4. Kind(t) \in {"edit", "refresh"} /\ at'[t] \in {"content", "write", "commitModify"} =>
              at[t] \in {"content", "write"}
        <5>1. at[t] = "cleanup" => Kind(t) = "delete"
          BY PlacesTellKinds DEF Discipline
        <5>2. Kind(t) \in {"edit", "refresh"} => ~UpdateApplied(t) \/ at'[t] = "sync"
          BY DEF UpdateApplied, Goto, Control
        <5> QED
          BY <2>1, <2>13, <5>1, <5>2 DEF Moves, Arrives, ContentWrite, ModifyWrite, DeleteCleanup
      <4>5. Kind(t) \in Imports /\ at'[t] \in {"content", "commitModify"} => at[t] = "content"
        <5>1. at[t] = "cleanup" => Kind(t) = "delete"
          BY PlacesTellKinds DEF Discipline
        <5> QED
          BY <2>1, <2>13, <5>1 DEF Moves, Arrives, ContentWrite, ModifyWrite, DeleteCleanup, Imports
      <4>6. Deleting(t)' => Deleting(t)
        <5> SUFFICES ASSUME Kind(t) = "delete",
                            at'[t] \in {"ask", "generate", "apply", "write", "cleanup",
                                        "commitModify", "rollback", "rollbackApply"}
                     PROVE  Deleting(t)
          BY <2>2 DEF Deleting
        <5>1. at'[t] = "ask" => FALSE
          BY <2>1, <2>13, PlacesTellKinds, PlacesTellMore DEF Moves, Arrives, SwitchStage, SchemeEnds,
             RefreshJudge, DnsConfig, Discipline
        <5>2. at'[t] \in {"generate", "apply", "cleanup", "rollback", "rollbackApply"} => Deleting(t)
          BY <2>1 DEF Moves, Arrives, UpdateBegin, UpdateGenerate, DeleteWrite, UpdateErrs,
             DeleteWriteFails, RollbackGenerate, Deleting
        <5>3. at'[t] = "write" => Deleting(t)
          BY <2>1, <2>13, PlacesTellKinds DEF Moves, Arrives, UpdateApplied, ContentWrite, Deleting, Discipline
        <5>4. at'[t] = "commitModify" => Deleting(t)
          BY <2>1, <2>13, PlacesTellKinds DEF Moves, Arrives, DeleteCleanup, ContentWrite, ModifyWrite,
             Deleting, Discipline
        <5> QED
          BY <5>1, <5>2, <5>3, <5>4
      <4>7. CopyIsCurrent(t)'
        <5>1. at'[t] \in {"saveWrite", "saveEnd"} => local'[t] = committed'
          BY <4>1, <4>2, <4>3 DEF CopyIsCurrent
        <5>2. Kind(t) \in {"edit", "refresh"} /\ at'[t] \in {"content", "write", "commitModify"} =>
                /\ Uid(t) \in committed'.items
                /\ local'[t] = [committed' EXCEPT !.edits = @ \cup {t}]
          BY <4>1, <4>2, <4>4 DEF CopyIsCurrent
        <5>3. Kind(t) \in Imports /\ at'[t] \in {"content", "commitModify"} =>
                local'[t] = AppendItem(committed, Uid(t))'
          BY <2>2, <4>1, <4>2, <4>5 DEF CopyIsCurrent, AppendItem
        <5>4. Deleting(t)' =>
                /\ Uid(t) \in committed'.items
                /\ local'[t].items = committed'.items \ {Uid(t)}
                /\ local'[t].edits = {v \in committed'.edits : Uid(v) # Uid(t)}
                /\ committed'.current \notin {Uid(t), NoUid} => local'[t].current = committed'.current
          BY <4>1, <4>2, <4>6 DEF CopyIsCurrent
        <5> QED
          BY <2>2, <5>1, <5>2, <5>3, <5>4 DEF CopyIsCurrent
      <4> QED
        BY <2>13, <4>7
    <3> QED
      BY <3>2, <3>3
  <2> QED
    BY <2>7, <2>8, <2>9, <2>10, <2>11, <2>12, <2>13
<1> QED
  BY <1>1, <1>2 DEF Next, CopiesAreCurrent

(* A change is committed with its copy, and a deletion is for good. *)
LEMMA CommitsChange ==
  ASSUME Control, Stored, Discipline, AnswersAreLast, NEW t \in Tasks, Step(t),
         NEW u \in Tasks, Kind(u) \in {"edit", "refresh", "delete"} \cup Imports
  PROVE  /\ Changed(u)' => Changed(u) \/ (u = t /\ CommitModify(t))
         /\ Kind(u) = "delete" /\ Changed(u) => Changed(u)'
<1> USE DEF Kind, Is
<1>1. Moves(t)
  BY StepsMove
<1>2. job' = job
  BY <1>1 DEF Moves, Alone
<1>3. CASE u # t
  BY <1>1, <1>2, <1>3 DEF Moves, Alone, Changed, Accepted
<1>4. CASE u = t
  <2>1. ~Accepted(t)
    BY <1>1, <1>4 DEF Moves, Arrives, AnswersAreLast, Accepted, Imports
  <2>2. Kind(t) = Kind(u) /\ Kind(t)' = Kind(t)
    BY <1>2, <1>4
  <2>3. CASE Kind(t) = "edit"
    <3>1. Changed(t)' <=> answer'[t] \in {"ok", "unsaved"}
      BY <1>2, <2>3 DEF Changed, Accepted, Imports
    <3>2. at[t] \in {"idle", "write", "commitModify"}
      BY <1>1, <2>3 DEF Discipline, Routes, Moves, Arrives
    <3>3. ~Changed(t)
      BY <2>1, <2>3 DEF Changed, Imports
    <3>4. CASE at[t] = "idle"
      BY <1>1, <1>4, <2>1, <2>3, <3>1, <3>3, <3>4 DEF Moves, Leaves, SwitchBegin, SwitchRefused, ModifyBegin,
         ModifyUnknown, SchemeLook, AppendBegin, ExitBegin, Finish, taskVars, Accepted, Control, CommitModify
    <3>5. CASE at[t] = "write"
      BY <1>1, <1>4, <2>1, <2>3, <3>1, <3>3, <3>5 DEF Moves, Leaves, DeleteWrite, DeleteWriteFails, ModifyWrite,
         ModifyFails, ModifyRejected, Finish, taskVars, Accepted, Control, CommitModify
    <3>6. CASE at[t] = "commitModify"
      BY <1>1, <1>4, <2>1, <2>3, <3>1, <3>3, <3>6 DEF Moves, Leaves, CommitModify, CommitRefused,
         ModifyRejected, Finish, taskVars, Accepted, Control
    <3> QED
      BY <3>2, <3>4, <3>5, <3>6
  <2>4. CASE Kind(t) = "delete"
    <3>1. Changed(t)' <=> answer'[t] \in {"ok", "unsaved"} \/ at'[t] = "sync"
      BY <1>2, <2>4 DEF Changed, Accepted, Imports
    <3>2. Changed(t) <=> at[t] = "sync"
      BY <2>1, <2>4 DEF Changed, Imports
    <3>3. CASE at[t] = "sync"
      BY <1>1, <1>4, <3>1, <3>2, <3>3 DEF Moves, Leaves, Sync, Finish, Control
    <3>4. CASE at[t] = "commitModify"
      BY <1>1, <1>4, <2>1, <2>4, <3>1, <3>2, <3>4 DEF Moves, Leaves, CommitModify, CommitRefused,
         ModifyRejected, Finish, Goto, taskVars, Accepted, Control
    <3>5. CASE at[t] \notin {"sync", "commitModify"}
      <4>1. at'[t] # "sync"
        <5>1. at[t] \notin {"saveWrite", "saveEnd"}
          BY <2>4, PlacesTellMore DEF Discipline, Imports
        <5>2. ~UpdateApplied(t) \/ at'[t] = "write"
          BY <2>4 DEF UpdateApplied, Goto, Control
        <5> QED
          BY <1>1, <3>5, <5>1, <5>2 DEF Moves, Arrives, CommitModify, SaveEnd, SaveFails
      <4>2. answer'[t] \in {answer[t], "rejected"}
        <5>1. at[t] \in {"lock", "plan", "ask", "generate", "apply", "write", "cleanup", "rollback",
                         "rollbackApply"}
          BY <1>1, <2>4, <3>5 DEF Discipline, Routes, Moves, Arrives
        <5>2. CASE at[t] \in {"lock", "plan", "cleanup"}
          BY <1>1, <5>2 DEF Moves, Leaves, LockProfiles, DeletePlan, DeleteUnknown, DeleteCleanup, Finish,
             taskVars, Control
        <5>3. CASE at[t] \in {"ask", "generate"}
          BY <1>1, <2>4, <5>3 DEF Moves, Leaves, UpdateBegin, UpdateTurnedDown, UpdateGenerate, UpdateInvalid,
             UpdateFails, Finish, taskVars, Control
        <5>4. CASE at[t] = "apply"
          BY <1>1, <2>4, <5>4 DEF Moves, Leaves, UpdateApplied, UpdateErrs, UpdateInvalid,
             UpdateFails, Finish, taskVars, Control
        <5>5. CASE at[t] = "write"
          BY <1>1, <2>4, <5>5 DEF Moves, Leaves, DeleteWrite, DeleteWriteFails, ModifyWrite, ModifyFails,
             Finish, taskVars, Control
        <5>6. CASE at[t] \in {"rollback", "rollbackApply"}
          BY <1>1, <2>4, <5>6 DEF Moves, Leaves, RollbackGenerate, RollbackApplied, RollbackFails,
             DeleteRejected, Finish, taskVars, Control
        <5> QED
          BY <5>1, <5>2, <5>3, <5>4, <5>5, <5>6
      <4> QED
        BY <1>4, <2>1, <3>1, <3>2, <3>5, <4>1, <4>2 DEF Accepted, CommitModify
    <3> QED
      BY <3>3, <3>4, <3>5
  <2>5. CASE Kind(t) = "refresh"
    <3>1. Changed(t)' <=> answer'[t] \in {"ok", "unsaved"}
                          \/ at'[t] \in {"judge", "ask", "generate", "apply", "sync"}
      BY <1>2, <2>5 DEF Changed, Accepted, Imports
    <3>2. Changed(t) <=> at[t] \in {"judge", "ask", "generate", "apply", "sync"}
      BY <2>1, <2>5 DEF Changed, Imports
    <3>3. at[t] \in {"idle", "content", "write", "commitModify", "judge", "ask", "generate", "apply", "sync"}
      BY <1>1, <2>5 DEF Discipline, Routes, Moves, Arrives
    <3>4. CASE at[t] = "idle"
      BY <1>1, <1>4, <2>1, <2>5, <3>1, <3>2, <3>4 DEF Moves, Leaves, SwitchBegin, SwitchRefused, ModifyBegin,
         ModifyUnknown, SchemeLook, AppendBegin, ExitBegin, Finish, Goto, taskVars, Accepted, Control, CommitModify
    <3>5. CASE at[t] \in {"content", "write"}
      <4>1. ContentWrite(t) \/ ModifyFails(t) \/ ModifyWrite(t)
        BY <1>1, <2>5, <3>5 DEF Moves, Leaves, DeleteWrite, DeleteWriteFails
      <4> QED
        BY <1>4, <2>1, <2>5, <3>1, <3>2, <3>5, <4>1 DEF ContentWrite, ModifyFails, ModifyWrite,
           ModifyRejected, Finish, Goto, taskVars, Accepted, Control, CommitModify
    <3>6. CASE at[t] = "commitModify"
      BY <1>1, <1>4, <2>1, <2>5, <3>1, <3>2, <3>6 DEF Moves, Leaves, CommitModify, CommitRefused,
         ModifyRejected, Finish, Goto, taskVars, Accepted, Control
    <3>7. CASE at[t] \in {"judge", "sync"}
      BY <1>1, <1>4, <2>5, <3>1, <3>2, <3>7 DEF Moves, Leaves, RefreshJudge, Sync, Finish, Goto, Control
    <3>8. CASE at[t] \in {"ask", "generate"}
      BY <1>1, <1>4, <2>5, <3>1, <3>2, <3>8 DEF Moves, Leaves, UpdateBegin, UpdateTurnedDown, UpdateGenerate,
         UpdateInvalid, UpdateFails, Finish, Goto, Control
    <3>9. CASE at[t] = "apply"
      BY <1>1, <1>4, <2>5, <3>1, <3>2, <3>9 DEF Moves, Leaves, UpdateApplied, UpdateErrs, UpdateInvalid,
         UpdateFails, Finish, Goto, Control
    <3> QED
      BY <3>3, <3>4, <3>5, <3>6, <3>7, <3>8, <3>9
  <2>6. CASE Kind(t) \in Imports
    <3> DEFINE Later == {"saveBegin", "saveWrite", "saveEnd", "adopted", "ask", "generate", "apply"}
    <3>1. Changed(t)' <=> answer'[t] \in {"ok", "unsaved"} \/ at'[t] \in Later
      BY <1>2, <2>6 DEF Changed, Accepted, Imports
    <3>2. Changed(t) <=> at[t] \in Later
      BY <2>1, <2>6 DEF Changed, Imports
    <3>3. at[t] \in {"idle", "append", "content", "commitModify", "drop"} \cup Later
      BY <1>1, <2>6 DEF Discipline, Routes, Moves, Arrives, Imports
    <3>4. CASE at[t] \in Later
      BY <1>4, <2>6, <3>2, <3>4 DEF Imports
    <3>5. CASE at[t] \in {"idle", "append"}
      BY <1>1, <1>4, <2>1, <2>6, <3>1, <3>5 DEF Moves, Leaves, SwitchBegin, SwitchRefused, ModifyBegin,
         ModifyUnknown, SchemeLook, AppendBegin, ExitBegin, Goto, taskVars, Accepted, Control, Imports
    <3>6. CASE at[t] = "content"
      BY <1>1, <1>4, <2>1, <2>6, <3>1, <3>6 DEF Moves, Leaves, ContentWrite, ModifyFails,
         ModifyRejected, Finish, Goto, taskVars, Accepted, Control, Imports
    <3>7. CASE at[t] = "commitModify"
      BY <1>1, <1>4, <2>1, <2>6, <3>1, <3>7 DEF Moves, Leaves, CommitRefused,
         ModifyRejected, Finish, Goto, taskVars, Accepted, Control, Imports
    <3>8. CASE at[t] = "drop"
      BY <1>1, <1>4, <2>1, <2>6, <3>1, <3>8 DEF Moves, Leaves, SchemeDrop, Finish, Goto, Accepted, Control, Imports
    <3> QED
      BY <3>3, <3>4, <3>5, <3>6, <3>7, <3>8
  <2> QED
    BY <1>4, <2>2, <2>3, <2>4, <2>5, <2>6
<1> QED
  BY <1>3, <1>4

(* A copy that is committed is the committed data with one change. *)
LEMMA CopiesCommit ==
  ASSUME Control, Stored, Discipline, CopiesAreCurrent, NEW t \in Tasks, CommitModify(t)
  PROVE  \/ /\ Kind(t) \in {"edit", "refresh"} /\ Uid(t) \in committed.items
            /\ committed' = [committed EXCEPT !.edits = @ \cup {t}]
            /\ committed'.current = committed.current /\ committed'.items = committed.items
            /\ committed'.edits = committed.edits \cup {t}
         \/ /\ Kind(t) \in Imports /\ committed' = AppendItem(committed, Uid(t))
            /\ committed'.items = committed.items \cup {Uid(t)} /\ committed'.edits = committed.edits
            /\ committed'.current = IF committed.current = NoUid THEN Uid(t) ELSE committed.current
         \/ /\ Deleting(t) /\ Uid(t) \in committed.items
            /\ committed' = local[t] /\ committed'.items = committed.items \ {Uid(t)}
            /\ committed'.edits = {u \in committed.edits : Uid(u) # Uid(t)}
            /\ committed.current \notin {Uid(t), NoUid} => committed'.current = committed.current
<1>1. CopyIsCurrent(t) /\ committed' = local[t] /\ at[t] = "commitModify"
  BY DEF CommitModify, CopiesAreCurrent
<1>2. Kind(t) \in {"edit", "refresh"} \cup Imports \/ Deleting(t)
  BY <1>1, PlacesTellMore DEF Discipline, Deleting, Imports
<1>3. CASE Kind(t) \in {"edit", "refresh"}
  <2>1. committed' = [committed EXCEPT !.edits = @ \cup {t}] /\ Uid(t) \in committed.items
    BY <1>1, <1>3 DEF CopyIsCurrent
  <2> QED
    BY <1>3, <2>1 DEF Stored, Books
<1>4. CASE Kind(t) \in Imports
  <2>1. committed' = AppendItem(committed, Uid(t))
    BY <1>1, <1>4 DEF CopyIsCurrent
  <2> QED
    BY <1>4, <2>1 DEF AppendItem, Stored, Books
<1>5. CASE Deleting(t)
  BY <1>1, <1>5 DEF CopyIsCurrent
<1> QED
  BY <1>2, <1>3, <1>4, <1>5

(* What a step does to the committed data. *)
LEMMA CommitsAre ==
  ASSUME Control, Stored, Discipline, DraftIsASwitchs, NEW t \in Tasks, Step(t)
  PROVE  \/ committed' = committed
         \/ SwitchCommit(t) /\ committed' = PatchConfig(committed, Uid(t))
         \/ RestoreApply(t) /\ draft # NoDraft /\ committed' = draft
         \/ CommitModify(t)
<1>1. Moves(t)
  BY StepsMove
<1>2. CASE SwitchCommit(t)
  BY <1>2 DEF SwitchCommit
<1>3. CASE RestoreApply(t)
  BY <1>3 DEF RestoreApply, ApplyDraft, Latest
<1>4. CASE ExitCollect(t)
  <2>1. profileLock = t /\ Kind(t) = "exit"
    BY <1>4, PlacesTellKinds DEF ExitCollect, Discipline, Locked
  <2>2. \A s \in Tasks : ~Staging(s)
    BY <2>1 DEF Discipline, Locked, Staging
  <2> QED
    BY <1>4, <2>2 DEF ExitCollect, ApplyDraft, Latest, DraftIsASwitchs
<1> QED
  BY <1>1, <1>2, <1>3, <1>4 DEF Moves, Changes

(* A profile gets listed by its own import only. *)
LEMMA NextNew ==
  ASSUME Control, Stored, Discipline, JobIsRequested, AnswersAreLast, DeletionsAreAlone,
         DraftIsASwitchs, CopiesAreCurrent, NewUntilAdded, [Next]_vars
  PROVE  NewUntilAdded'
<1> USE DEF Is
<1>1. CASE UNCHANGED vars
  BY <1>1 DEF vars, taskVars, bookVars, NewUntilAdded, Adding, Changed, Accepted, Kind, Uid
<1>2. ASSUME NEW t \in Tasks, Step(t), NEW i \in Tasks, Adding(i)'
      PROVE  /\ Uid(i) \notin committed'.items
             /\ draft' # NoDraft => Uid(i) \notin draft'.items
             /\ \A u \in Tasks :
                  Kind(u) \in {"edit", "refresh", "delete"} /\ Changed(u)' => Uid(u) # Uid(i)
  <2>1. Moves(t)
    BY <1>2, StepsMove
  <2>2. job' = job
    BY <2>1 DEF Moves, Alone
  <2>3. Adding(i)
    <3>1. Kind(i) \in Imports /\ at'[i] \in {"idle", "append", "content", "commitModify"}
      BY <1>2, <2>2 DEF Adding, Kind
    <3>2. CASE i # t
      BY <2>1, <3>1, <3>2 DEF Moves, Alone, Adding
    <3>3. CASE i = t
      <4>1. at'[t] = "append" => at[t] = "idle"
        BY <2>1 DEF Moves, Arrives, SchemeLook
      <4>2. at'[t] = "content" => at[t] \in {"idle", "append"}
        BY <2>1, <3>1, <3>3 DEF Moves, Arrives, ModifyBegin, AppendBegin, Imports
      <4>3. at'[t] = "commitModify" => at[t] = "content"
        <5>1. at[t] # "cleanup"
          BY <3>1, <3>3, PlacesTellKinds DEF Discipline, Imports
        <5> QED
          BY <2>1, <3>1, <3>3, <5>1 DEF Moves, Arrives, DeleteCleanup, ContentWrite, ModifyWrite, Imports
      <4> QED
        BY <2>1, <3>1, <3>3, <4>1, <4>2, <4>3 DEF Moves, Arrives, Adding
    <3> QED
      BY <3>2, <3>3
  <2>4. /\ Uid(i) \notin committed.items
        /\ draft # NoDraft => Uid(i) \notin draft.items
        /\ \A u \in Tasks : Kind(u) \in {"edit", "refresh", "delete"} /\ Changed(u) => Uid(u) # Uid(i)
    BY <2>3 DEF NewUntilAdded
  <2>5. Uid(i) \notin committed'.items
    <3>1. PatchConfig(committed, Uid(t)).items = committed.items
      BY DEF PatchConfig, Stored, Books
    <3>3. CommitModify(t) /\ Kind(t) \in Imports => Uid(i) # Uid(t)
      <4>1. CommitModify(t) => t # i
        BY <1>2, <2>2 DEF CommitModify, Adding, Kind, Imports, Goto, Control
      <4> QED
        BY <2>3, <4>1, ImportsAssumption DEF JobIsRequested, Adding, Kind, Uid
    <3>4. CASE CommitModify(t)
      BY <2>4, <3>3, <3>4, CopiesCommit
    <3>5. CASE ~CommitModify(t)
      BY <1>2, <2>4, <3>1, <3>5, CommitsAre
    <3> QED
      BY <3>4, <3>5
  <2>6. draft' # NoDraft => Uid(i) \notin draft'.items
    <3>1. draft' = draft \/ draft' = NoDraft \/ \E uid : draft' = PatchConfig(Latest, uid)
      BY <2>1 DEF Moves, Changes, SwitchStage, SwitchDiscard, SwitchUndo, RestoreStage, RestoreApply,
         SchemeDrop, ExitCollect, ApplyDraft
    <3>2. \A uid : PatchConfig(Latest, uid).items = Latest.items
      BY DEF PatchConfig, Latest, Stored, Books
    <3> QED
      BY <2>4, <3>1, <3>2 DEF Latest
  <2>7. ASSUME NEW u \in Tasks, Kind(u) \in {"edit", "refresh", "delete"}, Changed(u)'
        PROVE  Uid(u) # Uid(i)
    <3>1. Changed(u) \/ (u = t /\ CommitModify(t))
      BY <1>2, <2>7, CommitsChange
    <3>2. CASE u = t /\ CommitModify(t)
      <4>1. Uid(t) \in committed.items
        BY <2>7, <3>2, PlacesTellMore DEF CommitModify, CopiesAreCurrent, CopyIsCurrent, Deleting
      <4> QED
        BY <2>4, <3>2, <4>1
    <3> QED
      BY <2>4, <2>7, <3>1, <3>2
  <2> QED
    BY <2>5, <2>6, <2>7
<1>3. ASSUME NEW t \in Tasks, Step(t) PROVE NewUntilAdded'
  <2>1. job' = job
    BY <1>3, StepsMove DEF Moves, Alone
  <2> QED
    BY <1>2, <1>3, <2>1 DEF NewUntilAdded, Kind, Uid
<1> QED
  BY <1>1, <1>3 DEF Next

(* What was changed stays as its request has left it. *)
LEMMA NextChanges ==
  ASSUME Control, Stored, Discipline, AnswersAreLast, DeletionsAreAlone,
         DraftIsASwitchs, CopiesAreCurrent, NewUntilAdded, ChangesStay, [Next]_vars
  PROVE  ChangesStay'
<1> DEFINE DeletedNext(uid) ==
      \E d \in Tasks : job'[d] = [kind |-> "delete", uid |-> uid] /\ (at'[d] = "sync" \/ Accepted(d)')
<1> HIDE DEF DeletedNext
<1>1. CASE UNCHANGED vars
  BY <1>1 DEF vars, taskVars, bookVars, ChangesStay, Changed, Accepted, Deleted, Kind, Uid
<1>2. ASSUME NEW t \in Tasks, Step(t), "overwritten" \notin trouble',
             NEW u \in Tasks, Changed(u)'
      PROVE  /\ Kind(u) \in {"edit", "refresh"} /\ Uid(u) \in committed'.items => u \in committed'.edits
             /\ Kind(u) \in Imports => Uid(u) \in committed'.items \/ DeletedNext(Uid(u))
             /\ Kind(u) = "delete" => Uid(u) \notin committed'.items
  <2> SUFFICES ASSUME Kind(u) \in {"edit", "refresh", "delete"} \cup Imports
               PROVE  /\ Kind(u) \in {"edit", "refresh"} /\ Uid(u) \in committed'.items => u \in committed'.edits
                      /\ Kind(u) \in Imports => Uid(u) \in committed'.items \/ DeletedNext(Uid(u))
                      /\ Kind(u) = "delete" => Uid(u) \notin committed'.items
    OBVIOUS
  <2>1. Moves(t)
    BY <1>2, StepsMove
  <2>2. job' = job /\ "overwritten" \notin trouble
    BY <1>2, <2>1 DEF Moves, Alone
  <2>3. Changed(u) \/ (u = t /\ CommitModify(t))
    BY <1>2, CommitsChange
  <2>4. Changed(u) =>
          /\ Kind(u) \in {"edit", "refresh"} /\ Uid(u) \in committed.items => u \in committed.edits
          /\ Kind(u) \in Imports => Uid(u) \in committed.items \/ Deleted(Uid(u))
          /\ Kind(u) = "delete" => Uid(u) \notin committed.items
    BY <2>2 DEF ChangesStay
  <2>5. \A uid : Deleted(uid) => DeletedNext(uid)
    <3> SUFFICES ASSUME NEW uid, Deleted(uid) PROVE DeletedNext(uid)
      OBVIOUS
    <3>1. PICK d \in Tasks : job[d] = [kind |-> "delete", uid |-> uid] /\ (at[d] = "sync" \/ Accepted(d))
      BY DEF Deleted
    <3>2. Kind(d) = "delete" /\ Changed(d)
      BY <3>1 DEF Kind, Changed
    <3>3. Changed(d)' /\ Kind(d)' = "delete"
      BY <1>2, <2>2, <3>2, CommitsChange DEF Kind
    <3>4. at'[d] = "sync" \/ Accepted(d)'
      BY <3>3 DEF Changed, Imports
    <3> QED
      BY <2>2, <3>1, <3>4 DEF DeletedNext
  <2>6. CASE ~CommitModify(t)
    <3>1. PatchConfig(committed, Uid(t)).items = committed.items
          /\ PatchConfig(committed, Uid(t)).edits = committed.edits
      BY DEF PatchConfig, Stored, Books
    <3>2. RestoreApply(t) => committed' = committed
      BY <1>2 DEF RestoreApply, ApplyDraft, Upset
    <3>3. committed'.items = committed.items /\ committed'.edits = committed.edits
      BY <1>2, <2>6, <3>1, <3>2, CommitsAre
    <3> QED
      BY <2>3, <2>4, <2>5, <2>6, <3>3
  <2>7. CASE CommitModify(t) /\ Kind(t) \in {"edit", "refresh"}
    <3>2. committed'.items = committed.items /\ committed'.edits = committed.edits \cup {t}
      BY <2>7, CopiesCommit DEF Deleting, Imports
    <3> QED
      BY <2>3, <2>4, <2>5, <2>7, <3>2 DEF Imports
  <2>8. CASE CommitModify(t) /\ Kind(t) \in Imports
    <3>2. committed'.items = committed.items \cup {Uid(t)} /\ committed'.edits = committed.edits
      BY <2>8, CopiesCommit DEF Deleting, Imports
    <3>3. Adding(t)
      BY <2>8 DEF Adding, CommitModify
    <3>4. Changed(u) /\ Kind(u) \in {"edit", "refresh", "delete"} => Uid(u) # Uid(t)
      BY <3>3 DEF NewUntilAdded
    <3> QED
      BY <2>3, <2>4, <2>5, <2>8, <3>2, <3>4 DEF Imports
  <2>9. CASE CommitModify(t) /\ Deleting(t)
    <3>1. /\ committed'.items = committed.items \ {Uid(t)}
          /\ committed'.edits = {v \in committed.edits : Uid(v) # Uid(t)}
      BY <2>9, CopiesCommit DEF Deleting, Imports
    <3>2. DeletedNext(Uid(t))
      <4>1. at'[t] = "sync" \/ Accepted(t)'
        BY <2>9 DEF CommitModify, Deleting, Finish, Goto, Accepted, Control
      <4>2. job'[t] = [kind |-> "delete", uid |-> Uid(t)]
        BY <2>2, <2>9 DEF Deleting, Kind, Uid, Control, Jobs
      <4> QED
        BY <4>1, <4>2 DEF DeletedNext
    <3>3. Kind(t) = "delete"
      BY <2>9 DEF Deleting
    <3>4. Uid(u) # Uid(t) => (Uid(u) \in committed'.items <=> Uid(u) \in committed.items)
      BY <3>1
    <3>5. CASE Uid(u) = Uid(t)
      BY <2>3, <3>1, <3>2, <3>5
    <3>6. CASE Uid(u) # Uid(t)
      <4>1. Changed(u)
        BY <2>3, <3>6
      <4>2. u \in committed.edits => u \in committed'.edits
        BY <3>1, <3>6
      <4>3. Deleted(Uid(u)) => DeletedNext(Uid(u))
        BY <2>5
      <4> QED
        BY <2>4, <3>4, <3>6, <4>1, <4>2, <4>3
    <3> QED
      BY <3>5, <3>6
  <2> QED
    BY <2>6, <2>7, <2>8, <2>9, PlacesTellMore DEF CommitModify, Discipline, Deleting
<1>3. ASSUME NEW t \in Tasks, Step(t) PROVE ChangesStay'
  <2>1. job' = job
    BY <1>3, StepsMove DEF Moves, Alone
  <2> QED
    BY <1>2, <1>3, <2>1 DEF ChangesStay, Kind, Uid, Deleted, DeletedNext
<1> QED
  BY <1>1, <1>3 DEF Next

(* Whoever replaces the data under a copy saves them once the copy is given up. *)
LEMMA NextOwed ==
  ASSUME Control, Flags, Stored, Discipline, DraftIsASwitchs, SavesAreOwed, [Next]_vars
  PROVE  SavesAreOwed'
<1>1. CASE UNCHANGED vars
  BY <1>1 DEF vars, modifyVars, SavesAreOwed, Saving
<1>2. ASSUME NEW t \in Tasks, Step(t), permit' # Nobody, replaced' PROVE \E s \in Tasks : at'[s] = "saveBegin"
  <2>1. Moves(t)
    BY <1>2, StepsMove
  <2>2. ~(SaveBegin(t) \/ DeletePlan(t) \/ ModifyBegin(t) \/ AppendBegin(t))
    BY <1>2 DEF SaveBegin, DeletePlan, ModifyBegin, AppendBegin, BeginModify
  <2>3. CASE RestoreApply(t)
    BY <2>3 DEF RestoreApply, Goto, Control
  <2>4. CASE ~RestoreApply(t)
    <3>1. ExitCollect(t) => replaced' = replaced
      <4>1. ExitCollect(t) => profileLock = t /\ Kind(t) = "exit"
        BY PlacesTellKinds DEF ExitCollect, Discipline, Locked
      <4>2. ExitCollect(t) => draft = NoDraft
        BY <4>1 DEF Discipline, Locked, Staging, DraftIsASwitchs
      <4> QED
        BY <4>2 DEF ExitCollect, ApplyDraft, Flags
    <3>2. replaced
      BY <1>2, <2>1, <2>2, <2>4, <3>1 DEF Moves, Changes
    <3>3. permit # Nobody
      BY <1>2, <2>1, <2>2 DEF Moves, Permits
    <3>4. PICK s \in Tasks : at[s] = "saveBegin"
      BY <3>2, <3>3 DEF SavesAreOwed, Saving
    <3>5. s # t
      BY <2>1, <2>2, <3>4 DEF Moves, Leaves
    <3> QED
      BY <2>1, <3>4, <3>5 DEF Moves, Alone
  <2> QED
    BY <2>3, <2>4
<1>3. ASSUME NEW t \in Tasks, Step(t) PROVE SavesAreOwed'
  BY <1>2, <1>3 DEF SavesAreOwed, Saving
<1> QED
  BY <1>1, <1>3 DEF Next

(* Whoever writes profiles.yaml has the permit; what is written is committed *)
(* next, or somebody is about to save. *)
LEMMA NextFileKnown ==
  ASSUME Control, Stored, Discipline, CopiesAreCurrent, DraftIsASwitchs, SavesAreOwed, FileIsKnown, [Next]_vars
  PROVE  FileIsKnown'
<1> USE HoldersAssumption DEF Is
<1>1. CASE UNCHANGED vars
  BY <1>1 DEF vars, taskVars, bookVars, modifyVars, diskVars, FileIsKnown, Asks, Saving, Saved, Kind
<1>2. ASSUME NEW t \in Tasks, Step(t), "file" \notin trouble', \A s \in Tasks : Kind(s) # "exit",
             \A s \in Tasks : at'[s] # "saveBegin"
      PROVE  /\ \A u \in Tasks : Saved(u)' => file' = local'[u]
             /\ (\A u \in Tasks : ~Saved(u)' /\ at'[u] # "saveWrite") => file' = committed'
  <2>1. Moves(t)
    BY <1>2, StepsMove
  <2>2. job' = job /\ "file" \notin trouble
    BY <1>2, <2>1 DEF Moves, Alone
  <2>3. \A u \in Tasks \ {t} : at'[u] = at[u] /\ local'[u] = local[u] /\ (Saved(u)' <=> Saved(u))
    BY <2>1, <2>2 DEF Moves, Alone, Saved, Kind
  <2>4. \A u \in Tasks : Saved(u) \/ at[u] = "saveWrite" => permit = u
    BY DEF Saved, Discipline, Modifying, Deleting
  <2>5. ~(SwitchCommit(t) \/ RestoreApply(t) \/ ExitCollect(t) \/ ExitSave(t) \/ SaveFails(t))
    BY <1>2, PlacesTellKinds DEF SwitchCommit, RestoreApply, ExitCollect, ExitSave, SaveFails, Goto, Control,
       Discipline
  <2>6. CASE SaveBegin(t)
    <3>1. permit = Nobody /\ at'[t] = "saveWrite"
      BY <2>6 DEF SaveBegin, BeginModify, Goto, Control
    <3>2. ~Saved(t)'
      BY <2>2, <3>1 DEF Saved
    <3> QED
      BY <2>3, <2>4, <3>1, <3>2
  <2>7. ASSUME ~SaveBegin(t)
        PROVE  /\ \A u \in Tasks : Saved(u) => file = local[u]
               /\ (\A u \in Tasks : ~Saved(u) /\ at[u] # "saveWrite") => file = committed
               /\ permit # Nobody => ~replaced
    <3>1. ~Saving
      BY <1>2, <2>1, <2>3, <2>7 DEF Saving, Moves, Leaves
    <3> QED
      BY <1>2, <2>2, <3>1 DEF FileIsKnown, SavesAreOwed, Asks
  <2>8. CASE SaveWrite(t)
    <3>1. permit = t /\ at[t] = "saveWrite"
      BY <2>8 DEF SaveWrite, Discipline, Modifying
    <3>2. ~replaced /\ local[t] = committed
      BY <2>7, <2>8, <3>1 DEF CopiesAreCurrent, CopyIsCurrent, SaveBegin
    <3>3. file' = committed' /\ ~Saved(t)'
      BY <2>2, <2>8, <3>2 DEF SaveWrite, Saved, Goto, Control, bookVars
    <3> QED
      BY <2>3, <2>4, <3>1, <3>3
  <2>9. CASE DeleteWrite(t) \/ ModifyWrite(t)
    <3>1. permit = t /\ Saved(t)' /\ file' = local'[t]
      BY <2>2, <2>9 DEF DeleteWrite, ModifyWrite, Discipline, Modifying, Saved, Goto, Control, modifyVars, Kind
    <3> QED
      BY <2>3, <2>4, <3>1
  <2>10. CASE CommitModify(t)
    <3>1. permit = t /\ Saved(t)
      BY <1>2, <2>10, PlacesTellMore DEF CommitModify, Discipline, Modifying, Saved, Imports, Goto, Control
    <3>2. committed' = local[t] /\ file' = file /\ ~SaveBegin(t)
      BY <2>10 DEF CommitModify, diskVars, SaveBegin
    <3>3. at'[t] # "commitModify" /\ at'[t] # "cleanup"
      BY <2>10 DEF CommitModify, Finish, Goto, Control
    <3>4. ~Saved(t)'
      BY <3>3 DEF Saved
    <3> QED
      BY <2>3, <2>4, <2>7, <3>1, <3>2, <3>4
  <2>11. CASE ~(SaveBegin(t) \/ SaveWrite(t) \/ DeleteWrite(t) \/ ModifyWrite(t) \/ CommitModify(t))
    <3>1. file' = file /\ committed' = committed
      BY <2>1, <2>5, <2>11 DEF Moves, Changes
    <3>2. Saved(t)' => Saved(t) /\ local'[t] = local[t]
      <4>1. Saved(t)' => DeleteCleanup(t)
        <5>1. Saved(t)' => \/ Kind(t) \in {"edit", "refresh"} /\ at'[t] = "commitModify"
                           \/ at'[t] \in {"cleanup", "commitModify"} /\ Kind(t) = "delete"
          BY <2>2 DEF Saved, Kind
        <5> QED
          BY <2>1, <2>11, <5>1, PlacesTellKinds DEF Moves, Arrives, ContentWrite, Goto, Control, Discipline
      <4> QED
        BY <4>1, PlacesTellKinds DEF DeleteCleanup, Saved, modifyVars, Discipline
    <3>3. at[t] # "saveWrite"
      BY <2>1, <2>5, <2>11 DEF Moves, Leaves
    <3>4. Saved(t) => Saved(t)'
      <4>1. Saved(t) => at[t] = "cleanup" \/ CommitRefused(t)
        BY <2>1, <2>11 DEF Saved, Moves, Leaves
      <4>2. ~(Saved(t) /\ CommitRefused(t))
        BY <2>4, <2>7, <2>11 DEF CommitRefused
      <4>3. at[t] = "cleanup" => Saved(t)'
        BY <2>1, <2>2, PlacesTellKinds DEF Moves, Leaves, DeleteCleanup, Saved, Kind, Goto, Control, Discipline
      <4> QED
        BY <4>1, <4>2, <4>3
    <3> QED
      BY <2>3, <2>7, <2>11, <3>1, <3>2, <3>3, <3>4
  <2> QED
    BY <2>6, <2>8, <2>9, <2>10, <2>11
<1>3. ASSUME NEW t \in Tasks, Step(t) PROVE FileIsKnown'
  <2>1. job' = job
    BY <1>3, StepsMove DEF Moves, Alone
  <2> QED
    BY <1>2, <1>3, <2>1 DEF FileIsKnown, Asks, Saving, Kind
<1> QED
  BY <1>1, <1>3 DEF Next

(* The profile that a switch leaves stays the committed one until it ends. *)
LEMMA NextPrevious ==
  ASSUME Control, Stored, Discipline, DraftIsASwitchs, CopiesAreCurrent,
         SwitchesKeepTheirPrevious, [Next]_vars
  PROVE  SwitchesKeepTheirPrevious'
<1> USE HoldersAssumption DEF Is
<1>1. CASE UNCHANGED vars
  BY <1>1 DEF vars, taskVars, bookVars, modifyVars, SwitchesKeepTheirPrevious, Switching, Kind
<1>2. ASSUME NEW t \in Tasks, Step(t), NEW s \in Tasks, Switching(s)'
      PROVE  /\ prev'[s] # NoUid => prev'[s] = committed'.current
             /\ at'[s] \in {"restore", "restoreApply"} => prev'[s] # NoUid
             /\ at'[s] = "restoreApply" /\ draft' # NoDraft => draft'.current = committed'.current
  <2>1. Moves(t)
    BY <1>2, StepsMove
  <2>2. job' = job /\ Kind(s) = "switch"
    BY <1>2, <2>1 DEF Moves, Alone, Switching, Kind
  <2>3. CASE s = t
    <3>1. Switching(t) \/ SwitchStage(t)
      <4>1. at'[t] \in {"ask", "generate", "apply", "discard", "commit", "undo", "restore", "restoreApply"}
        BY <1>2, <2>2, <2>3 DEF Switching, Kind
      <4>2. at'[t] = "ask" => SwitchStage(t)
        BY <2>1, <2>2, <2>3, PlacesTellKinds, PlacesTellMore DEF Moves, Arrives, DeletePlan, SchemeEnds,
           RefreshJudge, DnsConfig, Discipline
      <4>3. at'[t] # "ask" => at[t] \in {"ask", "generate", "apply", "discard", "undo", "restore"}
        BY <2>1, <4>1 DEF Moves, Arrives, UpdateBegin, UpdateGenerate, UpdateApplied, SwitchDiscard,
           UpdateTurnedDown, UpdateInvalid, UpdateErrs, SwitchUndo, RestoreStage
      <4> QED
        BY <2>2, <2>3, <4>1, <4>2, <4>3 DEF Switching
    <3>2. CASE SwitchStage(t)
      BY <1>2, <2>3, <3>2 DEF SwitchStage, Goto, Control, Stored
    <3>3. CASE Switching(t) /\ ~SwitchStage(t)
      <4>1. committed' = committed
        <5>1. at'[t] # "saveBegin" /\ Kind(t) # "exit" /\ at[t] # "commitModify"
          BY <1>2, <2>2, <2>3, <3>3 DEF Switching
        <5> QED
          BY <1>2, <5>1, CommitsAre DEF SwitchCommit, RestoreApply, CommitModify, Goto, Control
      <4>2. prev' = prev
        BY <2>1, <2>2, <2>3, <3>3 DEF Moves, Changes, SchemeLook
      <4>3. at'[t] = "restore" => prev[t] # NoUid
        BY <2>1 DEF Moves, Arrives, SwitchUndo, Finish, Goto, Control
      <4>4. at'[t] = "restoreApply" => RestoreStage(t) /\ at[t] = "restore"
        BY <2>1 DEF Moves, Arrives, RestoreStage
      <4>5. RestoreStage(t) => draft = NoDraft
        <5>1. at[t] = "restore" => profileLock = t
          BY <2>2, <2>3 DEF Discipline, Locked
        <5> QED
          BY <2>3, <5>1 DEF RestoreStage, DraftIsASwitchs, Staging, Discipline, Locked
      <4>6. RestoreStage(t) => draft'.current = committed.current
        <5>1. RestoreStage(t) => draft' = PatchConfig(committed, prev[t]) /\ prev[t] = committed.current
          BY <2>3, <3>3, <4>5 DEF RestoreStage, Latest, SwitchesKeepTheirPrevious
        <5> QED
          BY <5>1 DEF PatchConfig, Stored, Books
      <4> QED
        BY <2>3, <3>3, <4>1, <4>2, <4>3, <4>4, <4>6 DEF SwitchesKeepTheirPrevious
    <3> QED
      BY <3>1, <3>2, <3>3
  <2>4. CASE s # t
    <3>1. Switching(s) /\ prev'[s] = prev[s] /\ at'[s] = at[s]
      BY <1>2, <2>1, <2>2, <2>4 DEF Moves, Alone, Switching, Kind
    <3>2. profileLock = s
      BY <3>1 DEF Switching, Discipline, Locked
    <3>3. prev[s] # NoUid => committed'.current = committed.current
      <4>1. ~SwitchCommit(t) /\ ~RestoreApply(t) /\ ~Deleting(t)
        BY <2>4, <3>2, PlacesTellKinds DEF SwitchCommit, RestoreApply, Discipline, Locked
      <4>2. CommitModify(t) /\ committed.current # NoUid => committed'.current = committed.current
        BY <4>1, CopiesCommit
      <4> QED
        BY <1>2, <3>1, <4>1, <4>2, CommitsAre DEF SwitchesKeepTheirPrevious
    <3>4. draft' = draft \/ draft' = NoDraft
      BY <2>1, <2>4, <3>2, PlacesTellKinds DEF Moves, Changes, SwitchStage, SwitchDiscard, SwitchUndo,
         RestoreStage, RestoreApply, SchemeDrop, ExitCollect, ApplyDraft, Discipline, Locked
    <3> QED
      BY <3>1, <3>3, <3>4 DEF SwitchesKeepTheirPrevious
  <2> QED
    BY <2>3, <2>4
<1>3. ASSUME NEW t \in Tasks, Step(t) PROVE SwitchesKeepTheirPrevious'
  BY <1>2, <1>3 DEF SwitchesKeepTheirPrevious
<1> QED
  BY <1>1, <1>3 DEF Next

(* A link whose profile became the current one gets on its way to the Core, or *)
(* something has been upset. *)
LEMMA WaitersGoOn ==
  ASSUME Control, Stored, Discipline, DraftIsASwitchs, NEW t \in Tasks, Step(t), Calm',
         committed'.current = committed.current, NEW w \in Tasks, Waiting(w)
  PROVE  Waiting(w)' \/ (w = t /\ UpdateGenerate(t))
<1> USE DEF Is
<1>1. Moves(t)
  BY StepsMove
<1>2. job' = job /\ Kind(w) = "scheme"
  BY <1>1 DEF Moves, Alone, Waiting
<1>3. CASE w # t
  BY <1>1, <1>2, <1>3 DEF Moves, Alone, Waiting, Kind, Uid
<1>4. ASSUME w = t, ~UpdateGenerate(t),
             \/ at'[t] \in {"saveBegin", "saveWrite", "saveEnd", "adopted"} /\ prev[t] = NoUid
                /\ committed.current = Uid(t)
             \/ at'[t] \in {"ask", "generate"}
      PROVE  Waiting(w)'
  <2>1. prev' = prev
    BY <1>1, <1>2, <1>4, PlacesTellKinds DEF Moves, Changes, SwitchStage, SchemeLook, Waiting, Discipline
  <2> QED
    BY <1>2, <1>4, <2>1 DEF Waiting, Kind, Uid
<1>5. ASSUME w = t, at[t] \in {"saveBegin", "saveWrite", "saveEnd", "adopted"}
      PROVE  /\ at'[t] \in {"saveBegin", "saveWrite", "saveEnd", "adopted", "ask", "generate"}
             /\ prev[t] = NoUid /\ committed.current = Uid(t)
  <2>1. prev[t] = NoUid /\ committed.current = Uid(t)
    BY <1>5 DEF Waiting
  <2>2. Adopts(t)
    BY <1>2, <1>5, <2>1 DEF Adopts
  <2>3. CASE at[t] = "saveBegin"
    BY <1>1, <2>1, <2>3 DEF Moves, Leaves, SaveBegin, Goto, Control
  <2>4. CASE at[t] = "saveWrite"
    BY <1>1, <2>1, <2>2, <2>4 DEF Moves, Leaves, SaveWrite, SaveFails, Goto, Control, Calm
  <2>5. CASE at[t] = "saveEnd"
    <3>1. SaveEnd(t)
      BY <1>1, <2>5 DEF Moves, Leaves
    <3>2. ~replaced
      BY <2>2, <3>1 DEF SaveEnd, Upset, Calm
    <3> QED
      BY <1>2, <1>5, <2>1, <3>1, <3>2 DEF SaveEnd, SaveDone, Goto, Control
  <2>6. CASE at[t] = "adopted"
    <3>1. SchemeEnds(t)
      BY <1>1, <2>6 DEF Moves, Leaves
    <3>2. draft = NoDraft
      <4>1. ~Unsettled(t)
        BY <2>1, <3>1 DEF SchemeEnds, Upset, Calm
      <4>2. \A s \in Tasks : ~Staging(s)
        BY <1>2, <1>5, <4>1 DEF Unsettled, Staging
      <4> QED
        BY <4>2 DEF DraftIsASwitchs
    <3> QED
      BY <2>1, <3>1, <3>2 DEF SchemeEnds, SchemeAdopted, Latest, Goto, Control
  <2> QED
    BY <1>5, <2>3, <2>4, <2>5, <2>6
<1>6. ASSUME w = t, ~UpdateGenerate(t), at[t] \in {"ask", "generate"}
      PROVE  at'[t] \in {"ask", "generate"}
  BY <1>1, <1>2, <1>6 DEF Moves, Leaves, UpdateBegin, UpdateTurnedDown, UpdateInvalid, Upset, Calm,
     Goto, Control
<1> QED
  BY <1>3, <1>4, <1>5, <1>6 DEF Waiting

(* How the current profile changes. *)
LEMMA CurrentChanges ==
  ASSUME Control, Stored, Discipline, DraftIsASwitchs, BooksAreWhole, DeletionsAreSafe,
         CopiesAreCurrent, SwitchesKeepTheirPrevious, NEW t \in Tasks, Step(t), Calm'
  PROVE  \/ committed'.current = committed.current
         \/ SwitchCommit(t)
         \/ CommitModify(t) /\ Taken(t)
         \/ /\ CommitModify(t) /\ Kind(t) = "scheme" /\ Waiting(t)'
            /\ committed.current = NoUid /\ committed.items = {} /\ committed'.items = {Uid(t)}
<1>1. CASE RestoreApply(t) /\ draft # NoDraft /\ committed' = draft
  <2>1. Switching(t) /\ at[t] = "restoreApply"
    BY <1>1, PlacesTellKinds DEF RestoreApply, Switching, Discipline
  <2> QED
    BY <1>1, <2>1 DEF SwitchesKeepTheirPrevious
<1>2. CASE CommitModify(t) /\ Kind(t) \in Imports /\ committed.current = NoUid
  <2>1. committed.items = {} /\ committed'.items = {Uid(t)} /\ committed'.current = Uid(t)
    <3>1. committed.items = {}
      BY <1>2, UidsAssumption DEF BooksAreWhole, Whole, Stored, Books
    <3> QED
      BY <1>2, <3>1, CopiesCommit DEF Deleting, Imports
  <2>2. Kind(t) = "scheme" /\ prev[t] = NoUid
    BY <1>2 DEF CommitModify, Upset, Calm, Imports
  <2>3. job' = job /\ prev' = prev /\ at'[t] = "saveBegin"
    <3>1. job' = job /\ prev' = prev
      BY <1>2, StepsMove DEF Moves, Alone, Changes, CommitModify, SwitchStage, SchemeLook, Is
    <3> QED
      BY <1>2, <2>2, <3>1 DEF CommitModify, Goto, Control
  <2> QED
    BY <1>2, <2>1, <2>2, <2>3 DEF Waiting, Kind, Uid
<1>3. CASE CommitModify(t) /\ Deleting(t) /\ ~Taken(t)
  <2>1. Uid(t) \in committed.items
    BY <1>3, CopiesCommit DEF Deleting, Imports
  <2>2. committed.current # Uid(t)
    BY <1>3 DEF DeletionsAreSafe, CommitModify, Taken
  <2>3. committed.current # NoUid
    BY <2>1, UidsAssumption DEF BooksAreWhole, Whole, Stored, Books
  <2> QED
    BY <1>3, <2>2, <2>3, CopiesCommit DEF Deleting, Imports
<1>4. CASE CommitModify(t) /\ ~Deleting(t) /\ ~(Kind(t) \in Imports /\ committed.current = NoUid)
  BY <1>4, CopiesCommit
<1> QED
  BY <1>1, <1>2, <1>3, <1>4, CommitsAre

(* What a switch has staged, or had the Core take, remains what it will choose. *)
LEMMA FollowersGoOn ==
  ASSUME Control, Stored, Discipline, DraftIsASwitchs, BooksAreWhole, DeletionsAreSafe,
         CopiesAreCurrent, SwitchesKeepTheirPrevious, SwitchesAreHeard,
         NEW t \in Tasks, Step(t), Calm', NEW s \in Tasks \ {t}, Kind(s) = "switch",
         at[s] \in {"ask", "generate", "apply", "discard", "commit"}, NEW uid, Follows(uid, s)
  PROVE  Follows(uid, s)'
<1>1. job' = job
  BY StepsMove DEF Moves, Alone
<1>2. profileLock = s
  BY DEF Discipline, Locked
<1>3. ~SwitchCommit(t) /\ ~Deleting(t) /\ ~RestoreApply(t)
  BY <1>2, PlacesTellKinds DEF SwitchCommit, RestoreApply, Discipline, Locked
<1>4. Uid(s) \in committed'.items <=> Uid(s) \in committed.items
  <2>1. CommitModify(t) /\ Kind(t) \in Imports => Uid(t) # Uid(s)
    BY DEF SwitchesAreHeard, Heard, CommitModify
  <2>2. CommitModify(t) => (Uid(s) \in committed'.items <=> Uid(s) \in committed.items)
    BY <1>3, <2>1, CopiesCommit
  <2> QED
    BY <1>3, <2>2, CommitsAre
<1>5. Uid(s)' = Uid(s)
  BY <1>1 DEF Uid
<1>6. \A book : book \in Books => PatchConfig(book, Uid(s)).current =
                                    IF Uid(s) \in book.items THEN Uid(s) ELSE book.current
  BY DEF PatchConfig, Books
<1>7. committed' \in Books
  BY NextStored DEF Stored, Next
<1>8. Chosen(s) = IF Uid(s) \in committed.items THEN Uid(s) ELSE committed.current
  BY <1>6 DEF Chosen, Stored
<1>9. Chosen(s)' = IF Uid(s) \in committed'.items THEN Uid(s) ELSE committed'.current
  BY <1>5, <1>6, <1>7 DEF Chosen, PatchConfig
<1>10. CASE committed'.current = committed.current
  <2>1. Behind(uid) => Behind(uid)'
    <3>1. UpdateGenerate(t) => Kind(t) # "scheme"
      <4>1. Kind(t) # "switch" => Unsettled(t)
        BY DEF Unsettled, Is
      <4> QED
        BY <4>1 DEF UpdateGenerate, Upset, Calm
    <3>2. \A w \in Tasks : Waiting(w) => Waiting(w)'
      BY <1>10, <3>1, WaitersGoOn DEF Waiting
    <3> QED
      BY <3>2 DEF Behind
  <2> QED
    BY <1>4, <1>5, <1>8, <1>9, <1>10, <2>1 DEF Follows
<1>11. CASE /\ CommitModify(t) /\ Kind(t) = "scheme" /\ Waiting(t)'
            /\ committed.current = NoUid /\ committed.items = {} /\ committed'.items = {Uid(t)}
  <2>1. uid = NoUid
    BY <1>8, <1>11 DEF Follows, Behind
  <2> QED
    BY <1>4, <1>5, <1>11, <2>1 DEF Follows, Behind
<1> QED
  BY <1>3, <1>10, <1>11, CurrentChanges DEF Taken

(* A draft names what its switch will commit. *)
LEMMA NextDraftKnown ==
  ASSUME Control, Stored, Discipline, DraftIsASwitchs, BooksAreWhole, DeletionsAreSafe, CopiesAreCurrent,
         SwitchesKeepTheirPrevious, SwitchesAreHeard, DraftIsKnown, [Next]_vars
  PROVE  DraftIsKnown'
<1> USE DEF Is
<1>1. CASE UNCHANGED vars
  BY <1>1 DEF vars, taskVars, bookVars, modifyVars, DraftIsKnown, Calm, Follows, Chosen, PatchConfig,
     Behind, Waiting, Kind, Uid
<1>2. ASSUME NEW t \in Tasks, Step(t), Calm', NEW s \in Tasks, Kind(s) = "switch",
             at'[s] \in {"ask", "generate", "apply"}
      PROVE  draft' # NoDraft /\ Follows(draft.current, s)'
  <2>1. Moves(t)
    BY <1>2, StepsMove
  <2>2. Calm /\ job' = job
    BY <1>2, <2>1 DEF Moves, Alone, Calm
  <2>3. CASE SwitchStage(t) /\ s = t
    <3>1. draft = NoDraft
      <4>1. at[t] = "stage" /\ profileLock = t
        BY <1>2, <2>3 DEF SwitchStage, Discipline, Locked
      <4>2. \A v \in Tasks : ~Staging(v)
        BY <4>1 DEF Staging, Discipline, Locked
      <4> QED
        BY <4>2 DEF DraftIsASwitchs
    <3>2. draft' = PatchConfig(committed, Uid(t)) /\ committed' = committed
      BY <2>3, <3>1 DEF SwitchStage, Latest
    <3>3. draft' # NoDraft
      BY <3>2, HoldersAssumption DEF PatchConfig, Stored, Books
    <3>4. draft'.current = Chosen(t)'
      BY <2>2, <3>2 DEF Chosen, PatchConfig, Uid
    <3> QED
      BY <2>3, <3>3, <3>4 DEF Follows
  <2>4. CASE ~SwitchStage(t) /\ s = t
    <3>1. at[t] \in {"ask", "generate"}
      BY <1>2, <2>1, <2>4, PlacesTellKinds, PlacesTellMore DEF Moves, Arrives, DeletePlan, SchemeEnds, RefreshJudge,
         DnsConfig, UpdateBegin, UpdateGenerate, Discipline
    <3>2. draft' = draft /\ committed' = committed
      BY <2>1, <3>1 DEF Moves, Changes, SwitchStage, SwitchDiscard, SwitchUndo, RestoreStage, RestoreApply,
         SchemeDrop, ExitCollect, SwitchCommit, CommitModify
    <3>3. draft # NoDraft /\ Follows(draft.current, t)
      BY <1>2, <2>2, <2>4, <3>1 DEF DraftIsKnown
    <3>4. Chosen(t)' = Chosen(t) /\ Uid(t)' = Uid(t)
      BY <2>2, <3>2 DEF Chosen, PatchConfig, Uid
    <3>5. Behind(draft.current) => Behind(draft.current)'
      <4>1. \A w \in Tasks : Waiting(w) => Waiting(w)'
        BY <1>2, <2>4, <3>2, WaitersGoOn DEF Waiting
      <4> QED
        BY <3>2, <4>1 DEF Behind
    <3> QED
      BY <2>4, <3>2, <3>3, <3>4, <3>5 DEF Follows
  <2>5. CASE s # t
    <3>1. at[s] \in {"ask", "generate", "apply"}
      BY <1>2, <2>1, <2>5 DEF Moves, Alone
    <3>2. profileLock = s
      BY <1>2, <3>1 DEF Discipline, Locked
    <3>3. draft # NoDraft /\ Follows(draft.current, s)
      BY <1>2, <2>2, <3>1 DEF DraftIsKnown
    <3>4. draft' = draft
      <4>1. ~SchemeDrop(t)
        BY <1>2, <3>3 DEF SchemeDrop, Upset, Calm
      <4> QED
        BY <2>1, <2>5, <3>2, <4>1, PlacesTellKinds DEF Moves, Changes, SwitchStage, SwitchDiscard, SwitchUndo,
           RestoreStage, RestoreApply, ExitCollect, Discipline, Locked
    <3>5. Follows(draft.current, s)'
      <4>1. \A uid : Follows(uid, s) =>
              \/ uid = Chosen(s)'
              \/ Uid(s)' \notin committed'.items /\ uid = NoUid /\ \E w \in Tasks : Waiting(w)'
        BY <1>2, <2>5, <3>1, FollowersGoOn DEF Follows, Behind
      <4> QED
        BY <3>3, <3>4, <4>1 DEF Follows, Behind
    <3> QED
      BY <3>3, <3>4, <3>5
  <2> QED
    BY <2>3, <2>4, <2>5
<1>3. ASSUME NEW t \in Tasks, Step(t) PROVE DraftIsKnown'
  <2>1. job' = job
    BY <1>3, StepsMove DEF Moves, Alone
  <2> QED
    BY <1>2, <1>3, <2>1 DEF DraftIsKnown, Kind
<1> QED
  BY <1>1, <1>3 DEF Next

(* While a switch is committed nobody generates, and nobody is about to apply. *)
LEMMA NextSwitchesAlone ==
  ASSUME Control, Stored, Discipline, Updates, SwitchesAreAlone, [Next]_vars
  PROVE  SwitchesAreAlone'
<1> USE DEF Is
<1>1. CASE UNCHANGED vars
  BY <1>1 DEF vars, taskVars, SwitchesAreAlone, Calm, Chosing, Kind
<1>2. ASSUME NEW t \in Tasks, Step(t), Calm', NEW s \in Tasks, Kind(s) = "switch",
             at'[s] \in {"discard", "commit"}, NEW u \in Tasks, at'[u] = "apply"
      PROVE  FALSE
  <2>1. Moves(t)
    BY <1>2, StepsMove
  <2>2. Calm
    BY <1>2, <2>1 DEF Moves, Alone, Calm
  <2>3. CASE s = t
    <3>1. u # t /\ at[u] = "apply"
      BY <1>2, <2>1, <2>3 DEF Moves, Alone
    <3>2. UpdateApplied(t) \/ Chosing(t)
      BY <1>2, <2>1, <2>3 DEF Moves, Arrives, SwitchDiscard, Chosing
    <3>3. ~UpdateApplied(t)
      BY <3>1 DEF UpdateApplied, Updates
    <3> QED
      BY <2>2, <3>1, <3>2, <3>3 DEF SwitchesAreAlone
  <2>4. CASE s # t
    <3>1. Chosing(s) /\ profileLock = s
      BY <1>2, <2>1, <2>4 DEF Moves, Alone, Chosing, Discipline, Locked
    <3>2. u = t
      BY <1>2, <2>1, <2>2, <3>1 DEF Moves, Alone, SwitchesAreAlone
    <3>3. UpdateGenerate(t)
      BY <1>2, <2>1, <3>2 DEF Moves, Arrives
    <3>4. Kind(t) = "switch"
      <4>1. Unsettled(t)
        BY <2>4, <3>1 DEF Unsettled, Chosing
      <4> QED
        BY <1>2, <3>3, <4>1 DEF UpdateGenerate, Upset, Calm
    <3> QED
      BY <2>4, <3>1, <3>3, <3>4 DEF UpdateGenerate, Discipline, Locked
  <2> QED
    BY <2>3, <2>4
<1>3. ASSUME NEW t \in Tasks, Step(t) PROVE SwitchesAreAlone'
  <2>1. job' = job
    BY <1>3, StepsMove DEF Moves, Alone
  <2> QED
    BY <1>2, <1>3, <2>1 DEF SwitchesAreAlone, Chosing, Kind
<1> QED
  BY <1>1, <1>3 DEF Next

(* What is generated is made of the profiles that its task goes by. *)
LEMMA NextMade ==
  ASSUME Control, Stored, Discipline, Updates, DraftIsASwitchs, BooksAreWhole, DeletionsAreSafe,
         CopiesAreCurrent, SwitchesKeepTheirPrevious, SwitchesAreHeard, DraftIsKnown,
         SwitchesAreAlone, MadeIsKnown, [Next]_vars
  PROVE  MadeIsKnown'
<1> USE DEF Is
<1>1. CASE UNCHANGED vars
  BY <1>1 DEF vars, taskVars, bookVars, modifyVars, coreVars, diskVars, MadeIsKnown, Calm, Follows,
     Chosen, PatchConfig, Behind, Waiting, Enhanced, Kind, Uid
<1>2. ASSUME NEW t \in Tasks, Step(t), Calm', NEW u \in Tasks
      PROVE  /\ at'[u] = "apply" /\ Kind(u) = "switch" => Follows(made.current, u)'
             /\ at'[u] = "apply" /\ Kind(u) = "delete" => made' = Enhanced(local[u])'
             /\ at'[u] = "apply" /\ Kind(u) \notin {"switch", "delete"} =>
                  made'.current = committed'.current \/ Behind(made.current)'
             /\ at'[u] = "rollbackApply" => made' = Enhanced(committed)'
  <2>1. Moves(t)
    BY <1>2, StepsMove
  <2>2. Calm /\ job' = job /\ \A v : Kind(v)' = Kind(v) /\ Uid(v)' = Uid(v)
    BY <1>2, <2>1 DEF Moves, Alone, Calm, Kind, Uid
  <2>3. ASSUME u = t, UpdateGenerate(t)
        PROVE  /\ Kind(t) = "switch" => Follows(made.current, t)'
               /\ Kind(t) = "delete" => made' = Enhanced(local[t])'
               /\ Kind(t) \notin {"switch", "delete"} => made'.current = committed'.current
    <3>1. committed' = committed /\ draft' = draft /\ local' = local /\ written' = written
      BY <2>3 DEF UpdateGenerate, bookVars, modifyVars, diskVars
    <3>2. CASE Kind(t) = "switch"
      <4>1. draft # NoDraft /\ Follows(draft.current, t)
        BY <1>2, <2>2, <2>3, <3>2 DEF UpdateGenerate, DraftIsKnown
      <4>2. made'.current = draft.current
        BY <2>3, <3>2, <4>1 DEF UpdateGenerate, Given, Latest, Enhanced
      <4>3. \A w \in Tasks : Waiting(w) => Waiting(w)'
        BY <1>2, <2>3, <3>1, <3>2, WaitersGoOn DEF Waiting
      <4>4. Chosen(t)' = Chosen(t)
        BY <2>2, <3>1 DEF Chosen, PatchConfig
      <4> QED
        BY <2>2, <3>1, <3>2, <4>1, <4>2, <4>3, <4>4 DEF Follows, Behind
    <3>3. CASE Kind(t) = "delete"
      BY <2>2, <2>3, <3>1, <3>3 DEF UpdateGenerate, Given, Enhanced
    <3>4. CASE Kind(t) \notin {"switch", "delete"}
      <4>1. draft = NoDraft
        <5>1. ~Unsettled(t)
          BY <1>2, <2>3, <3>4 DEF UpdateGenerate, Upset, Calm
        <5>2. \A s \in Tasks : ~Staging(s)
          BY <3>4, <5>1 DEF Unsettled, Staging
        <5> QED
          BY <5>2 DEF DraftIsASwitchs
      <4> QED
        BY <2>3, <3>1, <3>4, <4>1 DEF UpdateGenerate, Given, Latest, Enhanced
    <3> QED
      BY <3>2, <3>3, <3>4
  <2>4. ASSUME u = t, RollbackGenerate(t) PROVE made' = Enhanced(committed)'
    BY <2>2, <2>4 DEF RollbackGenerate, Enhanced, bookVars, diskVars
  <2>5. at'[t] = "apply" => UpdateGenerate(t)
    BY <2>1 DEF Moves, Arrives
  <2>6. at'[t] = "rollbackApply" => RollbackGenerate(t)
    BY <2>1 DEF Moves, Arrives
  <2>7. CASE u = t
    BY <2>3, <2>4, <2>5, <2>6, <2>7, PlacesTellKinds DEF UpdateGenerate, RollbackGenerate, Goto, Control
  <2>8. CASE u # t
    <3>1. at'[u] = at[u] /\ local'[u] = local[u]
      BY <2>1, <2>8 DEF Moves, Alone
    <3>2. at[u] \in {"apply", "rollbackApply"} => updating = u /\ made' = made
      BY <2>1, <2>8 DEF Updates, Moves, Changes, UpdateGenerate, RollbackGenerate
    <3>3. ASSUME at[u] = "apply", Kind(u) = "switch" PROVE Follows(made.current, u)'
      <4>1. Follows(made.current, u)
        BY <2>2, <3>3 DEF MadeIsKnown
      <4>2. \A uid : Follows(uid, u) =>
              \/ uid = Chosen(u)'
              \/ Uid(u)' \notin committed'.items /\ uid = NoUid /\ \E w \in Tasks : Waiting(w)'
        BY <1>2, <2>8, <3>3, FollowersGoOn DEF Follows, Behind
      <4> QED
        BY <3>2, <3>3, <4>1, <4>2 DEF Follows, Behind
    <3>4. ASSUME at[u] = "apply" \/ at[u] = "rollbackApply", permit = u PROVE written' = written
      BY <2>1, <2>8, <3>4 DEF Moves, Changes, ContentWrite, Discipline, Modifying
    <3>5. ASSUME at[u] = "apply", Kind(u) = "delete" PROVE made' = Enhanced(local[u])'
      <4>1. permit = u
        BY <3>5 DEF Discipline, Modifying, Deleting
      <4> QED
        BY <2>2, <3>1, <3>2, <3>4, <3>5, <4>1 DEF MadeIsKnown, Enhanced
    <3>6. ASSUME at[u] = "apply", Kind(u) \notin {"switch", "delete"}
          PROVE  made'.current = committed'.current \/ Behind(made.current)'
      <4>1. made.current = committed.current \/ Behind(made.current)
        BY <2>2, <3>6 DEF MadeIsKnown
      <4>2. ~SwitchCommit(t)
        BY <2>2, <3>6, PlacesTellKinds DEF SwitchCommit, SwitchesAreAlone, Chosing, Discipline
      <4>3. ~Taken(t)
        BY <2>8, <3>2, <3>6 DEF Taken
      <4>4. CASE committed'.current = committed.current
        <5>1. ~UpdateGenerate(t)
          BY <2>8, <3>2, <3>6 DEF UpdateGenerate, Updates
        <5>2. \A w \in Tasks : Waiting(w) => Waiting(w)'
          BY <1>2, <4>4, <5>1, WaitersGoOn
        <5> QED
          BY <3>2, <3>6, <4>1, <4>4, <5>2 DEF Behind
      <4>5. CASE Waiting(t)' /\ committed.current = NoUid
        BY <3>2, <3>6, <4>1, <4>5 DEF Behind
      <4> QED
        BY <1>2, <4>2, <4>3, <4>4, <4>5, CurrentChanges
    <3>7. ASSUME at[u] = "rollbackApply" PROVE made' = Enhanced(committed)'
      <4>1. Deleting(u)
        BY <3>7, PlacesTellKinds DEF Deleting, Discipline
      <4>2. permit = u /\ profileLock = u
        BY <4>1 DEF Discipline, Modifying, Locked
      <4>3. committed' = committed
        BY <1>2, <2>8, <4>2, PlacesTellKinds, CommitsAre DEF SwitchCommit, RestoreApply, CommitModify,
           Discipline, Modifying, Locked
      <4> QED
        BY <2>2, <3>2, <3>4, <3>7, <4>2, <4>3 DEF MadeIsKnown, Enhanced
    <3> QED
      BY <3>1, <3>3, <3>5, <3>6, <3>7
  <2> QED
    BY <2>7, <2>8
<1>3. ASSUME NEW t \in Tasks, Step(t) PROVE MadeIsKnown'
  <2>1. \A v \in Tasks : Kind(v)' = Kind(v)
    BY <1>3, StepsMove DEF Moves, Alone, Kind
  <2> QED
    BY <1>2, <1>3, <2>1 DEF MadeIsKnown
<1> QED
  BY <1>1, <1>3 DEF Next

(* The Core goes on running what it runs, unless a step has it take another. *)
LEMMA RunningGoesOn ==
  ASSUME Control, Stored, Discipline, DraftIsASwitchs, NEW t \in Tasks, Step(t), Calm',
         committed'.current = committed.current, loaded' = loaded,
         ~UpdateApplied(t) \/ Kind(t) # "scheme", RunsCurrent
  PROVE  RunsCurrent'
<1>1. Moves(t)
  BY StepsMove
<1>2. job' = job
  BY <1>1 DEF Moves, Alone
<1>3. CASE loaded.current = committed.current
  BY <1>3 DEF RunsCurrent
<1>4. CASE Behind(loaded.current)
  <2>1. PICK w \in Tasks : Waiting(w) /\ loaded.current = NoUid
    BY <1>4 DEF Behind
  <2>2. CASE Waiting(w)'
    BY <2>1, <2>2 DEF RunsCurrent, Behind
  <2>3. CASE w = t /\ UpdateGenerate(t)
    <3>1. Kind(t)' = "scheme" /\ at'[t] = "apply"
      BY <1>2, <2>1, <2>3 DEF Waiting, UpdateGenerate, Goto, Control, Kind
    <3> QED
      BY <2>1, <3>1 DEF RunsCurrent, Arriving
  <2> QED
    BY <2>1, <2>2, <2>3, WaitersGoOn
<1>5. CASE Arriving(loaded.current)
  <2>1. PICK w \in Tasks : Kind(w) = "scheme" /\ at[w] = "apply" /\ loaded.current = NoUid
    BY <1>5 DEF Arriving
  <2>2. w # t
    BY <1>1, <2>1 DEF Moves, Leaves, UpdateInvalid, UpdateErrs, Upset, Calm
  <2>3. Kind(w)' = "scheme" /\ at'[w] = "apply"
    BY <1>1, <1>2, <2>1, <2>2 DEF Moves, Alone, Kind
  <2> QED
    BY <2>1, <2>3 DEF RunsCurrent, Arriving
<1> QED
  BY <1>3, <1>4, <1>5 DEF RunsCurrent

(* What the Core runs, step by step. *)
LEMMA NextLoaded ==
  ASSUME Control, Stored, Discipline, Updates, UpdatesAreHeld, DraftIsASwitchs, DeletionsAreAlone,
         BooksAreWhole, DeletionsAreSafe, CopiesAreCurrent, SwitchesKeepTheirPrevious,
         SwitchesAreHeard, SwitchesAreAlone, MadeIsKnown, LoadedIsKnown, [Next]_vars
  PROVE  LoadedIsKnown'
<1> USE DEF Is
<1>1. CASE UNCHANGED vars
  BY <1>1 DEF vars, taskVars, bookVars, modifyVars, coreVars, diskVars, LoadedIsKnown, Calm, Follows,
     Chosen, PatchConfig, Behind, Arriving, Waiting, RunsCurrent, Taken, Rolling, Chosing, Deleting,
     Enhanced, Kind, Uid
<1>2. ASSUME NEW t \in Tasks, Step(t), Calm' PROVE LoadedIsKnown'
  <2>1. Moves(t)
    BY <1>2, StepsMove
  <2>2. Calm /\ job' = job /\ \A v : Kind(v)' = Kind(v) /\ Uid(v)' = Uid(v)
    BY <1>2, <2>1 DEF Moves, Alone, Calm, Kind, Uid
  <2>3. \A u \in Tasks \ {t} : /\ at'[u] = at[u] /\ local'[u] = local[u]
                               /\ (Taken(u)' <=> Taken(u)) /\ (Rolling(u)' <=> Rolling(u))
                               /\ (Chosing(u)' <=> Chosing(u))
    <3>1. \A u \in Tasks \ {t} : at'[u] = at[u] /\ local'[u] = local[u]
      BY <2>1 DEF Moves, Alone
    <3>2. \A u \in Tasks \ {t} : updating' = u <=> updating = u
      BY <1>2, HoldersKeep
    <3> QED
      BY <2>2, <3>1, <3>2 DEF Taken, Deleting, Rolling, Chosing
  <2>4. ASSUME at[t] \in {"apply", "rollbackApply"}, NEW u \in Tasks \ {t}
        PROVE  ~Taken(u) /\ ~Rolling(u) /\ ~Chosing(u)
    <3>1. updating = t
      BY <2>4 DEF Updates
    <3>2. ~Taken(u) /\ ~Rolling(u)
      BY <3>1 DEF Taken, Rolling, Updates
    <3>3. ~Chosing(u)
      <4>1. CASE at[t] = "apply"
        BY <2>2, <4>1 DEF SwitchesAreAlone
      <4>2. CASE at[t] = "rollbackApply"
        BY <4>2, PlacesTellKinds DEF Chosing, Deleting, Discipline, Locked
      <4> QED
        BY <2>4, <4>1, <4>2
    <3> QED
      BY <3>2, <3>3
  <2>5. CASE UpdateApplied(t)
    <3>1. /\ at[t] = "apply" /\ loaded' = made /\ committed' = committed /\ local' = local
          /\ written' = written
      BY <2>5 DEF UpdateApplied, bookVars, modifyVars, diskVars
    <3>2. loaded' # NotRunning
      BY <3>1, NotRunningAssumption DEF Stored
    <3>3. \A u \in Tasks \ {t} : ~Taken(u)' /\ ~Rolling(u)' /\ ~Chosing(u)'
      BY <2>3, <2>4, <3>1
    <3>4. \A w \in Tasks : Waiting(w) => Waiting(w)'
      BY <1>2, <2>5, <3>1, WaitersGoOn DEF UpdateApplied, UpdateGenerate
    <3>5. CASE Kind(t) = "switch"
      <4>1. at'[t] = "discard"
        BY <2>5, <3>5 DEF UpdateApplied, Goto, Control
      <4>2. Follows(made.current, t)
        BY <2>2, <3>1, <3>5 DEF MadeIsKnown
      <4>3. Follows(loaded.current, t)'
        BY <2>2, <3>1, <3>4, <4>2 DEF Follows, Behind, Chosen, PatchConfig
      <4>4. Chosing(t)' /\ ~Taken(t)' /\ ~Rolling(t)'
        BY <2>2, <3>5, <4>1 DEF Chosing, Taken, Rolling
      <4> QED
        BY <3>2, <3>3, <4>3, <4>4 DEF LoadedIsKnown
    <3>6. CASE Kind(t) = "delete"
      <4>1. at'[t] = "write" /\ updating' = t
        BY <2>5, <3>6 DEF UpdateApplied, Goto, Control
      <4>2. loaded' = Enhanced(local[t])'
        BY <2>2, <3>1, <3>6 DEF MadeIsKnown, Enhanced
      <4>3. Taken(t)' /\ ~Chosing(t)' /\ ~Rolling(t)'
        BY <2>2, <3>6, <4>1 DEF Chosing, Taken, Rolling, Deleting
      <4> QED
        BY <3>2, <3>3, <4>2, <4>3 DEF LoadedIsKnown
    <3>7. CASE Kind(t) \notin {"switch", "delete"}
      <4>1. at'[t] \in {"sync", "done"}
        BY <2>5, <3>7 DEF UpdateApplied, Finish, Goto, Control
      <4>2. made.current = committed.current \/ Behind(made.current)
        BY <2>2, <3>1, <3>7 DEF MadeIsKnown
      <4>3. RunsCurrent'
        BY <3>1, <3>4, <4>2 DEF RunsCurrent, Behind
      <4>4. ~Taken(t)' /\ ~Rolling(t)' /\ ~Chosing(t)'
        BY <4>1 DEF Chosing, Taken, Rolling
      <4> QED
        BY <3>2, <3>3, <4>3, <4>4 DEF LoadedIsKnown
    <3> QED
      BY <3>5, <3>6, <3>7
  <2>6. CASE UpdateErrs(t)
    <3>1. at[t] = "apply" /\ committed' = committed /\ local' = local /\ written' = written
      BY <2>6 DEF UpdateErrs, bookVars, diskVars
    <3>2. \A u \in Tasks \ {t} : ~Taken(u)' /\ ~Rolling(u)' /\ ~Chosing(u)'
      BY <2>3, <2>4, <3>1
    <3>3. RunsCurrent /\ loaded # NotRunning
      <4>1. \A u \in Tasks : ~Taken(u) /\ ~Rolling(u) /\ ~Chosing(u)
        BY <2>4, <3>1 DEF Taken, Rolling, Chosing
      <4> QED
        BY <2>2, <4>1 DEF LoadedIsKnown
    <3>4. loaded' = loaded => RunsCurrent'
      BY <1>2, <2>6, <3>1, <3>3, RunningGoesOn DEF UpdateErrs, UpdateApplied, Upset, Calm
    <3>5. CASE Kind(t) = "delete"
      <4>1. at'[t] = "rollback"
        BY <2>6, <3>5 DEF UpdateErrs, Goto, Control
      <4>2. loaded' \in {loaded, made, NotRunning}
        BY <2>6 DEF UpdateErrs, CoreAfterError
      <4>3. made = Enhanced(local[t])'
        BY <2>2, <3>1, <3>5 DEF MadeIsKnown, Enhanced
      <4>4. loaded' \in {NotRunning, Enhanced(local[t])'} \/ RunsCurrent'
        BY <3>4, <4>2, <4>3
      <4>5. Rolling(t)' /\ ~Taken(t)' /\ ~Chosing(t)'
        BY <4>1 DEF Rolling, Taken, Chosing
      <4> QED
        BY <3>2, <4>4, <4>5 DEF LoadedIsKnown
    <3>6. CASE Kind(t) # "delete"
      <4>1. at'[t] \in {"undo", "done"}
        BY <2>6, <3>6 DEF UpdateErrs, UpdateFails, Finish, Goto, Control
      <4>2. loaded' = loaded \/ (loaded' = made /\ Kind(t) # "switch" /\ Kind(t) # "scheme")
        BY <1>2, <2>6, <3>6 DEF UpdateErrs, CoreAfterError, Upset, Calm
      <4>3. loaded' # NotRunning
        BY <3>3, <4>2, NotRunningAssumption DEF Stored
      <4>4. ASSUME loaded' = made, Kind(t) # "switch" PROVE RunsCurrent'
        <5>1. made.current = committed.current \/ Behind(made.current)
          BY <2>2, <3>1, <3>6, <4>4 DEF MadeIsKnown
        <5>2. \A w \in Tasks : Waiting(w) => Waiting(w)'
          BY <1>2, <2>6, <3>1, WaitersGoOn DEF UpdateErrs, UpdateGenerate
        <5> QED
          BY <3>1, <4>4, <5>1, <5>2 DEF RunsCurrent, Behind
      <4>5. ~Taken(t)' /\ ~Rolling(t)' /\ ~Chosing(t)'
        BY <4>1 DEF Chosing, Taken, Rolling
      <4> QED
        BY <3>2, <3>4, <4>2, <4>3, <4>4, <4>5 DEF LoadedIsKnown
    <3> QED
      BY <3>5, <3>6
  <2>7. CASE RollbackApplied(t)
    <3>1. at[t] = "rollbackApply" /\ loaded' = made /\ committed' = committed /\ at'[t] = "done"
      BY <2>7 DEF RollbackApplied, DeleteRejected, Finish, Goto, Control, bookVars
    <3>2. made = Enhanced(committed)
      BY <2>2, <3>1 DEF MadeIsKnown
    <3>3. RunsCurrent'
      BY <3>1, <3>2 DEF RunsCurrent, Enhanced
    <3>4. loaded' # NotRunning
      BY <3>1, NotRunningAssumption DEF Stored
    <3>5. \A u \in Tasks : ~Taken(u)' /\ ~Rolling(u)' /\ ~Chosing(u)'
      BY <2>3, <2>4, <3>1 DEF Taken, Rolling, Chosing
    <3> QED
      BY <3>3, <3>4, <3>5 DEF LoadedIsKnown
  <2>8. CASE RollbackFails(t)
    BY <1>2, <2>8 DEF RollbackFails, Upset, Calm
  <2>9. CASE ~(UpdateApplied(t) \/ UpdateErrs(t) \/ RollbackApplied(t) \/ RollbackFails(t))
    <3>1. loaded' = loaded
      BY <2>1, <2>9 DEF Moves, Changes
    <3>2. committed'.current = committed.current /\ RunsCurrent => RunsCurrent'
      BY <1>2, <2>9, <3>1, RunningGoesOn
    <3>3. \A u \in Tasks : permit = u => ~ContentWrite(t) \/ u = t
      BY DEF ContentWrite, Discipline, Modifying
    <3>4. ASSUME NEW u \in Tasks, Rolling(u)
          PROVE  committed'.current = committed.current /\ written' = written /\ permit = u
      <4>1. Deleting(u)
        BY <3>4, PlacesTellKinds DEF Rolling, Deleting, Discipline
      <4>2. permit = u /\ profileLock = u
        BY <4>1 DEF Discipline, Modifying, Locked
      <4>3. committed' = committed
        BY <1>2, <3>4, <4>1, <4>2, PlacesTellKinds, CommitsAre DEF SwitchCommit, RestoreApply, CommitModify,
           Discipline, Modifying, Locked, Rolling
      <4>4. ~ContentWrite(t)
        BY <3>3, <3>4, <4>2 DEF ContentWrite, Rolling
      <4> QED
        BY <2>1, <4>2, <4>3, <4>4 DEF Moves, Changes
    <3>5. loaded' = NotRunning => \E u \in Tasks : Rolling(u)'
      <4> SUFFICES ASSUME loaded' = NotRunning PROVE \E u \in Tasks : Rolling(u)'
        OBVIOUS
      <4>1. PICK u \in Tasks : Rolling(u)
        BY <2>2, <3>1 DEF LoadedIsKnown
      <4>2. CASE u = t
        BY <2>1, <2>9, <4>1, <4>2 DEF Rolling, Moves, Leaves, RollbackGenerate, Goto, Control
      <4> QED
        BY <2>3, <4>1, <4>2
    <3>6. ASSUME NEW u \in Tasks, Taken(u)' PROVE loaded' = Enhanced(local[u])'
      <4>1. Taken(u) /\ local'[u] = local[u]
        <5>1. CASE u # t
          BY <2>3, <3>6, <5>1
        <5>2. CASE u = t
          <6>1. Kind(t) = "delete" /\ updating' = t /\ at'[t] \in {"write", "cleanup", "commitModify"}
            BY <2>2, <3>6, <5>2 DEF Taken, Deleting
          <6>2. at'[t] # "write"
            <7>1. at'[t] = "write" => DeletePlan(t)
              BY <2>1, <2>9, <6>1, PlacesTellKinds DEF Moves, Arrives, ModifyBegin, ContentWrite, Discipline
            <7>2. ~DeletePlan(t)
              BY <6>1 DEF DeletePlan, coreVars, UpdatesAreHeld
            <7> QED
              BY <7>1, <7>2
          <6>3. DeleteWrite(t) \/ DeleteCleanup(t)
            BY <2>1, <6>1, <6>2, PlacesTellKinds DEF Moves, Arrives, ContentWrite, ModifyWrite, Discipline
          <6> QED
            BY <5>2, <6>1, <6>3 DEF DeleteWrite, DeleteCleanup, Taken, Deleting, coreVars, modifyVars
        <5> QED
          BY <5>1, <5>2
      <4>2. written' = written
        <5>1. permit = u
          BY <4>1 DEF Taken, Discipline, Modifying
        <5>2. ~ContentWrite(t)
          BY <3>3, <4>1, <5>1, PlacesTellKinds DEF ContentWrite, Taken, Deleting, Discipline
        <5> QED
          BY <2>1, <5>2 DEF Moves, Changes
      <4>3. loaded = Enhanced(local[u])
        BY <2>2, <4>1 DEF LoadedIsKnown
      <4> QED
        BY <2>2, <3>1, <4>1, <4>2, <4>3 DEF Enhanced
    <3>7. ASSUME NEW u \in Tasks, Rolling(u)'
          PROVE  loaded' \in {NotRunning, Enhanced(local[u])'} \/ RunsCurrent'
      <4>1. CASE Rolling(u)
        <5>1. committed'.current = committed.current /\ written' = written
          BY <3>4, <4>1
        <5>2. local'[u] = local[u]
          <6>1. CASE u # t
            BY <2>3, <6>1
          <6>2. CASE u = t
            BY <2>1, <4>1, <6>2 DEF Rolling, Moves, Leaves, Changes, RollbackGenerate, RollbackFails,
               RollbackApplied, modifyVars
          <6> QED
            BY <6>1, <6>2
        <5>3. loaded \in {NotRunning, Enhanced(local[u])} \/ RunsCurrent
          BY <2>2, <4>1 DEF LoadedIsKnown
        <5>4. Enhanced(local[u])' = Enhanced(local[u])
          BY <2>2, <5>1, <5>2 DEF Enhanced
        <5> QED
          BY <3>1, <3>2, <5>1, <5>3, <5>4
      <4>2. CASE ~Rolling(u)
        <5>1. u = t /\ DeleteWriteFails(t) /\ at'[t] = "rollback"
          BY <2>1, <2>3, <2>9, <3>7, <4>2 DEF Moves, Arrives, Rolling, RollbackGenerate
        <5>2. Taken(t) /\ local' = local /\ written' = written
          BY <5>1 DEF DeleteWriteFails, Finish, Goto, Control, Taken, Deleting, diskVars
        <5>3. loaded = Enhanced(local[t])
          BY <2>2, <5>2 DEF LoadedIsKnown
        <5> QED
          BY <2>2, <3>1, <5>1, <5>2, <5>3 DEF Enhanced
      <4> QED
        BY <4>1, <4>2
    <3>8. ASSUME NEW u \in Tasks, Chosing(u)' PROVE Follows(loaded.current, u)'
      <4>1. Chosing(u)
        BY <2>1, <2>2, <2>3, <2>9, <3>8 DEF Chosing, Moves, Arrives, SwitchDiscard
      <4>2. Follows(loaded.current, u)
        BY <2>2, <4>1 DEF LoadedIsKnown
      <4>3. CASE u # t
        <5>1. \A uid : Follows(uid, u) =>
                \/ uid = Chosen(u)'
                \/ Uid(u)' \notin committed'.items /\ uid = NoUid /\ \E w \in Tasks : Waiting(w)'
          BY <1>2, <4>1, <4>3, FollowersGoOn DEF Follows, Behind, Chosing
        <5> QED
          BY <3>1, <4>2, <5>1 DEF Follows, Behind
      <4>4. CASE u = t
        <5>1. SwitchDiscard(t)
          BY <2>1, <2>9, <3>8, <4>1, <4>4 DEF Chosing, Moves, Arrives
        <5>2. committed' = committed
          BY <5>1 DEF SwitchDiscard
        <5>3. \A w \in Tasks : Waiting(w) => Waiting(w)'
          BY <1>2, <5>1, <5>2, WaitersGoOn DEF SwitchDiscard, UpdateGenerate
        <5> QED
          BY <2>2, <3>1, <4>2, <5>2, <5>3 DEF Follows, Behind, Chosen, PatchConfig
      <4> QED
        BY <4>3, <4>4
    <3>9. ASSUME \A u \in Tasks : ~Taken(u)' /\ ~Rolling(u)' /\ ~Chosing(u)' PROVE RunsCurrent'
      <4>1. \A u \in Tasks \ {t} : ~Taken(u) /\ ~Rolling(u) /\ ~Chosing(u)
        BY <2>3, <3>9
      <4>2. CASE Taken(t)
        <5>1. CommitModify(t)
          <6>1. ~DeleteWrite(t) /\ ~DeleteCleanup(t)
            BY <2>2, <3>9, <4>2 DEF Taken, Deleting, DeleteWrite, DeleteCleanup, Goto, Control, coreVars
          <6>2. ~DeleteWriteFails(t)
            BY <3>9, <4>2 DEF Taken, Rolling, DeleteWriteFails, Goto, Control
          <6>3. ~CommitRefused(t)
            BY <4>2 DEF Taken, CommitRefused, DeletionsAreAlone
          <6> QED
            BY <2>1, <4>2, <6>1, <6>2, <6>3 DEF Taken, Deleting, Moves, Leaves, ModifyWrite, ModifyFails
        <5>2. loaded = Enhanced(local[t]) /\ committed' = local[t]
          BY <2>2, <4>2, <5>1 DEF LoadedIsKnown, CommitModify
        <5> QED
          BY <3>1, <5>2 DEF RunsCurrent, Enhanced
      <4>3. ~Rolling(t)
        BY <2>1, <2>9, <3>9 DEF Rolling, Moves, Leaves, RollbackGenerate, Goto, Control
      <4>4. CASE Chosing(t)
        <5>1. SwitchCommit(t)
          BY <2>1, <2>2, <3>9, <4>4 DEF Chosing, Moves, Leaves, SwitchDiscard, Goto, Control
        <5>2. Follows(loaded.current, t)
          BY <2>2, <4>4 DEF LoadedIsKnown
        <5>3. committed' = PatchConfig(committed, Uid(t))
          BY <5>1 DEF SwitchCommit
        <5>4. CASE loaded.current = Chosen(t)
          BY <3>1, <5>3, <5>4 DEF Chosen, RunsCurrent
        <5>5. CASE Uid(t) \notin committed.items /\ Behind(loaded.current)
          BY <3>2, <5>3, <5>5 DEF PatchConfig, RunsCurrent
        <5> QED
          BY <5>2, <5>4, <5>5 DEF Follows
      <4>5. CASE ~Taken(t) /\ ~Chosing(t)
        <5>1. RunsCurrent
          BY <2>2, <4>1, <4>3, <4>5 DEF LoadedIsKnown
        <5>2. ~SwitchCommit(t)
          BY <4>5, PlacesTellKinds DEF SwitchCommit, Chosing, Discipline
        <5>3. CASE Waiting(t)' /\ committed.current = NoUid
          BY <3>1, <5>1, <5>3 DEF RunsCurrent, Behind, Arriving
        <5> QED
          BY <1>2, <3>2, <4>5, <5>1, <5>2, <5>3, CurrentChanges
      <4> QED
        BY <4>2, <4>4, <4>5
    <3> QED
      BY <3>5, <3>6, <3>7, <3>8, <3>9 DEF LoadedIsKnown
  <2> QED
    BY <2>5, <2>6, <2>7, <2>8, <2>9
<1> QED
  BY <1>1, <1>2 DEF Next, LoadedIsKnown

(* A download is on disk before the copy that lists it is committed. *)
LEMMA NextWritten ==
  ASSUME Control, Stored, Discipline, AnswersAreLast, RefreshesAreWritten, [Next]_vars
  PROVE  RefreshesAreWritten'
<1> USE DEF Is
<1>1. CASE UNCHANGED vars
  BY <1>1 DEF vars, taskVars, diskVars, RefreshesAreWritten, Changed, Accepted, Kind
<1>2. ASSUME NEW t \in Tasks, Step(t), NEW u \in Tasks, Kind(u) = "refresh",
             Changed(u)' \/ at'[u] \in {"write", "commitModify"}
      PROVE  u \in written'
  <2>1. Moves(t)
    BY <1>2, StepsMove
  <2>2. written \subseteq written'
    BY <2>1 DEF Moves, Changes, ContentWrite
  <2>3. CASE ContentWrite(t) /\ u = t
    BY <1>2, <2>3 DEF ContentWrite
  <2>4. CASE ~(ContentWrite(t) /\ u = t)
    <3>1. at'[u] \in {"write", "commitModify"} => at[u] \in {"write", "commitModify"}
      <4>1. CASE u # t
        BY <2>1, <4>1 DEF Moves, Alone
      <4>2. CASE u = t
        <5>1. at'[t] = "write" => FALSE
          BY <1>2, <2>1, <2>4, <4>2, PlacesTellKinds DEF Moves, Arrives, UpdateApplied, DeletePlan, ModifyBegin,
             Discipline, Goto, Control
        <5>2. at'[t] = "commitModify" => at[t] = "write"
          BY <1>2, <2>1, <2>4, <4>2, PlacesTellKinds DEF Moves, Arrives, DeleteCleanup, ModifyWrite, Discipline
        <5> QED
          BY <4>2, <5>1, <5>2
      <4> QED
        BY <4>1, <4>2
    <3>2. Changed(u)' => Changed(u) \/ at[u] = "commitModify"
      BY <1>2, CommitsChange DEF CommitModify
    <3> QED
      BY <1>2, <2>2, <3>1, <3>2 DEF RefreshesAreWritten
  <2> QED
    BY <2>3, <2>4
<1>3. ASSUME NEW t \in Tasks, Step(t) PROVE RefreshesAreWritten'
  <2>1. \A v : Kind(v)' = Kind(v)
    BY <1>3, StepsMove DEF Moves, Alone, Kind
  <2> QED
    BY <1>2, <1>3, <2>1 DEF RefreshesAreWritten
<1> QED
  BY <1>1, <1>3 DEF Next

(* Whatever is generated shows the downloads that have been written. *)
LEMMA NextShown ==
  ASSUME Control, Stored, Discipline, Updates, AnswersAreLast, DraftIsASwitchs, RefreshesAreWritten,
         SwitchesAreAlone, MadeIsKnown, LoadedIsKnown, RefreshesAreShown, [Next]_vars
  PROVE  RefreshesAreShown'
<1> USE DEF Is
<1>1. CASE UNCHANGED vars
  BY <1>1 DEF vars, taskVars, coreVars, RefreshesAreShown, Calm, Shown, Shows, Kind, Uid
<1>2. ASSUME NEW t \in Tasks, Step(t), Calm', NEW r \in Tasks, Kind(r) = "refresh"
      PROVE  /\ Shown(r)' /\ loaded' # NotRunning => Shows(loaded', r)
             /\ Shown(r)' => \A u \in Tasks : at'[u] \in {"apply", "rollbackApply"} => Shows(made', r)
             /\ at'[r] = "apply" => Shows(made', r)
  <2>1. Moves(t)
    BY <1>2, StepsMove
  <2>2. Calm /\ job' = job
    BY <1>2, <2>1 DEF Moves, Alone, Calm
  <2>3. \A book : r \in written => Shows(Enhanced(book), r)
    BY DEF Shows, Enhanced
  <2>4. Shown(r) =>
          /\ loaded # NotRunning => Shows(loaded, r)
          /\ \A u \in Tasks : at[u] \in {"apply", "rollbackApply"} => Shows(made, r)
    BY <2>2 DEF RefreshesAreShown
  <2>5. at[r] = "apply" => Shows(made, r)
    BY <1>2, <2>2 DEF RefreshesAreShown
  <2>6. at[r] \in {"judge", "generate", "apply", "sync"} \/ answer[r] = "ok" => r \in written
    BY <1>2 DEF RefreshesAreWritten, Changed, Accepted
  <2>7. UpdateGenerate(t) \/ RollbackGenerate(t) => \E book : made' = Enhanced(book)
    BY DEF UpdateGenerate, RollbackGenerate
  <2>8. Shown(r)' => Shown(r) \/ (r = t /\ (UpdateApplied(t) \/ (RefreshJudge(t) /\ Latest.current # Uid(t))))
    <3>1. CASE r # t
      BY <1>2, <2>1, <2>2, <3>1 DEF Moves, Alone, Shown, Kind
    <3>2. CASE r = t
      <4>1. at'[t] = "sync" => UpdateApplied(t)
        BY <1>2, <2>1, <3>2, PlacesTellMore DEF Moves, Arrives, CommitModify, SaveEnd, SaveFails, Imports,
           Discipline, Goto, Finish, Control
      <4>2. ASSUME answer'[t] = "ok", answer[t] # "ok"
            PROVE  at[t] = "sync" \/ (RefreshJudge(t) /\ Latest.current # Uid(t))
        <5>1. at[t] \in {"idle", "content", "write", "commitModify", "judge", "ask", "generate", "apply", "sync"}
          BY <1>2, <2>1, <3>2 DEF Discipline, Routes, Moves, Arrives
        <5>2. at[t] # "idle"
          BY <1>2, <2>1, <3>2, <4>2 DEF Moves, Leaves, SwitchBegin, SwitchRefused, ModifyBegin,
             ModifyUnknown, SchemeLook, AppendBegin, ExitBegin, Finish, taskVars, Control
        <5>3. at[t] \notin {"content", "write", "commitModify"}
          BY <1>2, <2>1, <3>2, <4>2 DEF Moves, Leaves, ContentWrite, ModifyFails, DeleteWrite, DeleteWriteFails,
             ModifyWrite, CommitModify, CommitRefused, ModifyRejected, Finish, taskVars, Control
        <5>4. at[t] \notin {"ask", "generate"}
          BY <1>2, <2>1, <3>2, <4>2 DEF Moves, Leaves, UpdateBegin, UpdateTurnedDown, UpdateGenerate,
             UpdateInvalid, UpdateFails, Finish, taskVars, Control
        <5>5. at[t] # "apply"
          BY <1>2, <2>1, <3>2, <4>2 DEF Moves, Leaves, UpdateApplied, UpdateErrs,
             UpdateInvalid, UpdateFails, Finish, taskVars, Control
        <5>6. at[t] = "judge" => RefreshJudge(t) /\ Latest.current # Uid(t)
          BY <2>1, <4>2 DEF Moves, Leaves, RefreshJudge, taskVars
        <5> QED
          BY <5>1, <5>2, <5>3, <5>4, <5>5, <5>6
      <4>3. Shown(r)' => Kind(t) = "refresh" /\ (at'[t] = "sync" \/ answer'[t] = "ok")
        BY <2>2, <3>2 DEF Shown, Kind
      <4>4. Kind(t) = "refresh" /\ (at[t] = "sync" \/ answer[t] = "ok") => Shown(r)
        BY <3>2 DEF Shown
      <4> QED
        BY <3>2, <4>1, <4>2, <4>3, <4>4
    <3> QED
      BY <3>1, <3>2
  <2>9. ASSUME UpdateApplied(t), r = t
        PROVE  Shows(loaded', r) /\ \A u \in Tasks : at'[u] \notin {"apply", "rollbackApply"}
    <3>1. loaded' = made /\ at[t] = "apply" /\ updating = t
      BY <2>9 DEF UpdateApplied, Updates
    <3>2. at'[t] \notin {"apply", "rollbackApply"}
      BY <2>1, <2>9 DEF Moves, Arrives, UpdateApplied, UpdateGenerate, RollbackGenerate
    <3>3. \A u \in Tasks \ {t} : at'[u] \notin {"apply", "rollbackApply"}
      BY <2>1, <3>1 DEF Moves, Alone, Updates
    <3> QED
      BY <2>5, <2>9, <3>1, <3>2, <3>3
  <2>10. ASSUME RefreshJudge(t), Latest.current # Uid(t), r = t
         PROVE  /\ loaded' # NotRunning => Shows(loaded', r)
                /\ \A u \in Tasks : at'[u] \in {"apply", "rollbackApply"} => Shows(made', r)
    <3>1. loaded' = loaded /\ made' = made /\ at[t] = "judge" /\ \A u \in Tasks \ {t} : at'[u] = at[u]
      BY <2>1, <2>10 DEF RefreshJudge, coreVars, Moves, Alone
    <3>2. ~Unsettled(t)
      BY <1>2, <2>10 DEF RefreshJudge, Upset, Calm
    <3>3. committed.current # Uid(t) /\ NoUid # Uid(t)
      <4>1. \A s \in Tasks : ~Staging(s)
        BY <1>2, <2>10, <3>2 DEF Unsettled, Staging
      <4>2. Latest = committed
        BY <4>1 DEF DraftIsASwitchs, Latest
      <4> QED
        BY <2>10, <4>2, UidsAssumption DEF Control, Jobs, Uid
    <3>4. \A u \in Tasks : ~Chosing(u) /\ ~(Kind(u) = "switch" /\ at[u] = "apply")
      BY <1>2, <2>10, <3>2 DEF Unsettled, Chosing
    <3>5. r \in written
      BY <2>6, <2>10, <3>1
    <3>6. loaded # NotRunning => Shows(loaded, r)
      <4>1. RunsCurrent => Shows(loaded, r)
        BY <2>10, <3>3 DEF RunsCurrent, Behind, Arriving, Shows
      <4>2. ASSUME NEW u \in Tasks, Taken(u) \/ Rolling(u), loaded # NotRunning PROVE Shows(loaded, r)
        <5>1. loaded = Enhanced(local[u]) \/ RunsCurrent
          BY <2>2, <4>2 DEF LoadedIsKnown
        <5> QED
          BY <2>3, <3>5, <4>1, <5>1
      <4>3. (\A u \in Tasks : ~Taken(u) /\ ~Rolling(u)) => RunsCurrent
        BY <2>2, <3>4 DEF LoadedIsKnown
      <4> QED
        BY <4>1, <4>2, <4>3
    <3>7. ASSUME NEW u \in Tasks, at'[u] \in {"apply", "rollbackApply"} PROVE Shows(made, r)
      <4>1. at[u] \in {"apply", "rollbackApply"}
        BY <2>1, <2>10, <3>1, <3>7 DEF Moves, Arrives, RefreshJudge, UpdateGenerate, RollbackGenerate
      <4>2. CASE at[u] = "apply" /\ Kind(u) \notin {"switch", "delete"}
        BY <2>2, <2>10, <3>3, <4>2 DEF MadeIsKnown, Behind, Shows
      <4>3. CASE at[u] = "rollbackApply" \/ Kind(u) = "delete"
        <5>1. made = Enhanced(local[u]) \/ made = Enhanced(committed)
          BY <2>2, <4>1, <4>3 DEF MadeIsKnown
        <5> QED
          BY <2>3, <3>5, <5>1
      <4> QED
        BY <3>4, <4>1, <4>2, <4>3
    <3> QED
      BY <3>1, <3>6, <3>7
  <2>11. ASSUME Shown(r), loaded' # NotRunning PROVE Shows(loaded', r)
    <3>1. loaded' = loaded \/ (loaded' = made /\ at[t] \in {"apply", "rollbackApply"})
          \/ RollbackFails(t)
      BY <2>1, <2>11 DEF Moves, Changes, UpdateApplied, UpdateErrs, RollbackApplied, CoreAfterError
    <3>2. ~RollbackFails(t)
      BY <1>2 DEF RollbackFails, Upset, Calm
    <3> QED
      BY <2>4, <2>11, <3>1, <3>2
  <2>12. ASSUME NEW u \in Tasks, at'[u] \in {"apply", "rollbackApply"}, Shown(r) PROVE Shows(made', r)
    <3>1. r \in written
      BY <2>6, <2>12 DEF Shown
    <3>2. CASE UpdateGenerate(t) \/ RollbackGenerate(t)
      BY <2>3, <2>7, <3>1, <3>2
    <3>3. CASE ~(UpdateGenerate(t) \/ RollbackGenerate(t))
      BY <2>1, <2>4, <2>12, <3>3 DEF Moves, Changes, Arrives, Alone
    <3> QED
      BY <3>2, <3>3
  <2>13. ASSUME at'[r] = "apply" PROVE Shows(made', r)
    <3>1. CASE r = t
      BY <2>1, <2>3, <2>6, <2>7, <2>13, <3>1 DEF Moves, Arrives, UpdateGenerate
    <3>2. CASE r # t
      <4>1. at[r] = "apply"
        BY <2>1, <2>13, <3>2 DEF Moves, Alone
      <4>2. made' = made
        BY <2>1, <3>2, <4>1 DEF Moves, Changes, UpdateGenerate, RollbackGenerate, Updates
      <4> QED
        BY <2>5, <4>1, <4>2
    <3> QED
      BY <3>1, <3>2
  <2> QED
    BY <2>8, <2>9, <2>10, <2>11, <2>12, <2>13
<1>3. ASSUME NEW t \in Tasks, Step(t) PROVE RefreshesAreShown'
  <2>1. \A v : Kind(v)' = Kind(v) /\ Uid(v)' = Uid(v)
    BY <1>3, StepsMove DEF Moves, Alone, Kind, Uid
  <2>2. \A v : Shown(v)' => Kind(v) = "refresh"
    BY <2>1 DEF Shown
  <2> QED
    BY <1>2, <1>3, <2>1, <2>2 DEF RefreshesAreShown, Shows
<1> QED
  BY <1>1, <1>3 DEF Next

-------------------------------------------------------------------------------
\* The inductive invariant: the types, who has what, the files, and what the
\* requests have done to the profiles, to profiles.yaml and to the Core.
Held ==
  /\ Control /\ Flags /\ Stored
  /\ JobIsRequested /\ Discipline /\ AnswersAreLast /\ Updates /\ UpdatesAreHeld
  /\ DraftIsASwitchs /\ DeletionsAreAlone /\ SwitchesAreHeard /\ SwitchesAreAlone
Backed ==
  /\ BooksAreWhole /\ DeletionsAreSafe
  /\ FileIsBacked /\ CommittedIsBacked /\ DraftIsBacked /\ CopiesAreBacked
Kept ==
  /\ CopiesAreCurrent /\ NewUntilAdded /\ ChangesStay
  /\ SavesAreOwed /\ FileIsKnown /\ SwitchesKeepTheirPrevious
Running ==
  /\ DraftIsKnown /\ MadeIsKnown /\ LoadedIsKnown
  /\ RefreshesAreWritten /\ RefreshesAreShown
IInv == Held /\ Backed /\ Kept /\ Running

(* No request is under way at first, every profile has its file, and the Core *)
(* runs the current one. *)
LEMMA InitIInv == Init => IInv
<1> SUFFICES ASSUME Init PROVE IInv
  OBVIOUS
<1> USE UidsAssumption, StartsAssumption, HoldersAssumption
<1>1. job \in [Tasks -> Jobs] /\ job \in Requests
  BY RequestsAssumption DEF Init
<1>2. \A t \in Tasks : Kind(t) \in Kinds
  BY <1>1 DEF Jobs, Kind
<1>3. \A t \in Tasks :
        /\ Kind(t) \in {"delete", "dns"} => at[t] = "lock"
        /\ Kind(t) = "update" => at[t] = "ask"
        /\ Kind(t) \notin {"delete", "dns", "update"} => at[t] = "idle"
  BY DEF Init, Beginning
<1>4. \A t \in Tasks : at[t] \in {"idle", "lock", "ask"} /\ answer[t] = "none"
  <2> SUFFICES ASSUME NEW t \in Tasks PROVE at[t] \in {"idle", "lock", "ask"} /\ answer[t] = "none"
    OBVIOUS
  <2>1. answer[t] = "none"
    BY DEF Init
  <2> QED
    BY ONLY <1>3, <2>1, t \in Tasks
<1>5. \A t \in Tasks : ~Modifying(t) /\ ~Locked(t) /\ ~Deleting(t) /\ ~Copied(t) /\ ~Leaving(t)
  <2> SUFFICES ASSUME NEW t \in Tasks
               PROVE  ~Modifying(t) /\ ~Locked(t) /\ ~Deleting(t) /\ ~Copied(t) /\ ~Leaving(t)
    OBVIOUS
  <2>1. /\ Kind(t) = "delete" => at[t] = "lock"
        /\ Kind(t) = "dns" => at[t] = "lock"
        /\ Kind(t) = "switch" => at[t] = "idle"
        /\ at[t] \in {"idle", "lock", "ask"}
    BY <1>3, <1>4
  <2> QED
    BY ONLY <2>1 DEF Modifying, Locked, Deleting, Copied, Leaving
<1>6. committed \in Books /\ file = committed /\ \A t \in Tasks : local[t] = committed
  BY DEF Init, Books
<1>7. \A t \in Tasks : Kind(t) \in {"switch", "edit", "refresh"} \cup Imports => at[t] = "idle"
  BY <1>3 DEF Imports
<1>8. \A t \in Tasks : ~Changed(t) /\ ~Saved(t) /\ ~Waiting(t) /\ ~Rolling(t) /\ ~Taken(t) /\ ~Shown(t)
  <2> SUFFICES ASSUME NEW t \in Tasks
               PROVE  ~Changed(t) /\ ~Saved(t) /\ ~Waiting(t) /\ ~Rolling(t) /\ ~Taken(t) /\ ~Shown(t)
    OBVIOUS
  <2>1. ~Changed(t)
    BY <1>4, <1>7 DEF Changed, Accepted
  <2>2. ~Waiting(t)
    BY <1>7 DEF Waiting, Imports
  <2> QED
    BY <1>4, <2>1, <2>2 DEF Saved, Rolling, Taken, Shown
<1>9. Held
  <2>1. Control
    <3>1. at \in [Tasks -> Places]
      BY <1>4 DEF Init, Places
    <3> QED
      BY <1>1, <3>1 DEF Init, Control
  <2>2. Flags
    BY DEF Init, Flags
  <2>3. Stored
    <3>1. committed # NoDraft /\ local \in [Tasks -> Books] /\ committed.current \in Uids \cup {NoUid}
      BY <1>6 DEF Init, Books
    <3>2. loaded \in Runtimes /\ files \subseteq Uids
      BY <1>6 DEF Init, Runtimes, Books
    <3> QED
      BY <1>6, <3>1, <3>2 DEF Init, Stored
  <2>4. Discipline
    <3>1. \A t \in Tasks : answer[t] = "none"
      BY <1>4
    <3>2. \A t \in Tasks : Kind(t) \in {"switch", "edit", "import", "scheme", "refresh", "exit"} => at[t] = "idle"
      BY <1>3
    <3>3. \A t \in Tasks : Kind(t) \in {"delete", "dns"} => at[t] = "lock"
      BY <1>3
    <3>4. \A t \in Tasks : Kind(t) = "update" => at[t] = "ask"
      BY <1>3
    <3>5. Routes
      BY ONLY <3>1, <3>2, <3>3, <3>4 DEF Routes
    <3> QED
      BY <1>5, <3>5 DEF Init, Discipline
  <2>5. JobIsRequested /\ AnswersAreLast
    BY <1>1, <1>4 DEF JobIsRequested, AnswersAreLast
  <2>6. Updates /\ UpdatesAreHeld
    BY <1>4 DEF Init, Updates, UpdatesAreHeld
  <2>7. DraftIsASwitchs /\ DeletionsAreAlone
    BY <1>5 DEF Init, DraftIsASwitchs, DeletionsAreAlone
  <2>8. SwitchesAreHeard /\ SwitchesAreAlone
    BY <1>4, <1>7 DEF SwitchesAreHeard, SwitchesAreAlone, Chosing
  <2> QED
    BY <2>1, <2>2, <2>3, <2>4, <2>5, <2>6, <2>7, <2>8 DEF Held
<1>10. Backed
  <2>1. BooksAreWhole
    BY <1>6 DEF Init, BooksAreWhole, Whole
  <2>2. FileIsBacked /\ CommittedIsBacked /\ DraftIsBacked /\ CopiesAreBacked /\ DeletionsAreSafe
    BY <1>4, <1>5, <1>6 DEF Init, FileIsBacked, CommittedIsBacked, DraftIsBacked, CopiesAreBacked, DeletionsAreSafe
  <2> QED
    BY <2>1, <2>2 DEF Backed
<1>11. Kept
  <2>1. CopiesAreCurrent
    BY <1>4, <1>5 DEF CopiesAreCurrent, CopyIsCurrent
  <2>2. NewUntilAdded
    <3>1. \A i \in Tasks : Kind(i) \in Imports => Uid(i) \notin committed.items
      BY <1>1, ImportsAssumption DEF Init, Kind, Uid
    <3> QED
      BY <1>8, <3>1 DEF Init, NewUntilAdded, Adding
  <2>3. ChangesStay
    BY <1>8 DEF ChangesStay
  <2>4. SavesAreOwed /\ FileIsKnown
    BY <1>6, <1>8 DEF Init, SavesAreOwed, FileIsKnown
  <2>5. SwitchesKeepTheirPrevious
    BY <1>7 DEF SwitchesKeepTheirPrevious, Switching
  <2> QED
    BY <2>1, <2>2, <2>3, <2>4, <2>5 DEF Kept
<1>12. Running
  <2>1. DraftIsKnown /\ MadeIsKnown
    BY <1>4, <1>7 DEF DraftIsKnown, MadeIsKnown
  <2>2. LoadedIsKnown
    <3>1. loaded.current = committed.current /\ loaded # NotRunning
      <4>1. loaded = [current |-> committed.current, shows |-> {}]
        BY DEF Init
      <4>2. loaded \in Runtimes
        BY <1>6, <4>1 DEF Runtimes, Books
      <4> QED
        BY <4>1, <4>2, NotRunningAssumption
    <3>2. \A t \in Tasks : ~Chosing(t)
      BY <1>7 DEF Chosing
    <3> QED
      BY <1>8, <3>1, <3>2 DEF LoadedIsKnown, RunsCurrent
  <2>3. RefreshesAreWritten /\ RefreshesAreShown
    BY <1>4, <1>8 DEF RefreshesAreWritten, RefreshesAreShown
  <2> QED
    BY <2>1, <2>2, <2>3 DEF Running
<1> QED
  BY <1>9, <1>10, <1>11, <1>12 DEF IInv

(* The parts together are inductive. *)
LEMMA NextIInv == IInv /\ [Next]_vars => IInv'
<1> SUFFICES ASSUME IInv, [Next]_vars PROVE IInv'
  OBVIOUS
<1>1. Held /\ Backed /\ Kept /\ Running
  BY DEF IInv
<1>2. Held'
  <2>1. Control' /\ Flags' /\ Stored'
    BY <1>1, NextControl, NextFlags, NextStored DEF Held
  <2>2. JobIsRequested'
    <3>1. job' = job
      <4>1. CASE UNCHANGED vars
        BY <4>1 DEF vars, taskVars
      <4>2. ASSUME NEW t \in Tasks, Step(t) PROVE job' = job
        BY <1>1, <4>2, StepsMove DEF Held, Moves, Alone
      <4> QED
        BY <4>1, <4>2 DEF Next
    <3> QED
      BY <1>1, <3>1 DEF Held, JobIsRequested
  <2>3. Discipline' /\ AnswersAreLast' /\ Updates' /\ UpdatesAreHeld'
    BY <1>1, NextDiscipline, NextAnswers, NextUpdates, NextHeld DEF Held
  <2>4. DraftIsASwitchs' /\ DeletionsAreAlone' /\ SwitchesAreHeard' /\ SwitchesAreAlone'
    BY <1>1, NextDraft, NextAlone, NextHeard, NextSwitchesAlone DEF Held
  <2> QED
    BY <2>1, <2>2, <2>3, <2>4 DEF Held
<1>3. Backed'
  BY <1>1, NextBooks, NextSafe, NextFile, NextCommitted, NextDraftBacked, NextCopies DEF Held, Backed
<1>4. Kept'
  <2>1. CopiesAreCurrent' /\ NewUntilAdded' /\ ChangesStay'
    BY <1>1, NextCopiesCurrent, NextNew, NextChanges DEF Held, Kept
  <2>2. SavesAreOwed' /\ FileIsKnown' /\ SwitchesKeepTheirPrevious'
    BY <1>1, NextOwed, NextFileKnown, NextPrevious DEF Held, Kept
  <2> QED
    BY <2>1, <2>2 DEF Kept
<1>5. Running'
  <2>1. DraftIsKnown' /\ MadeIsKnown'
    BY <1>1, NextDraftKnown, NextMade DEF Held, Backed, Kept, Running
  <2>2. LoadedIsKnown'
    BY <1>1, NextLoaded DEF Held, Backed, Kept, Running
  <2>3. RefreshesAreWritten' /\ RefreshesAreShown'
    BY <1>1, NextWritten, NextShown DEF Held, Backed, Kept, Running
  <2> QED
    BY <2>1, <2>2, <2>3 DEF Running
<1> QED
  BY <1>2, <1>3, <1>4, <1>5 DEF IInv

(* The inductive invariant holds in every behaviour. *)
THEOREM Inductive == Spec => []IInv
<1> QED
  BY InitIInv, NextIInv, PTL DEF Spec

-------------------------------------------------------------------------------
(* Every variable keeps its type, and the committed profiles are never an     *)
(* empty draft slot (Draft::apply). *)
THEOREM TypesHold == Spec => []TypeOK
<1>1. IInv => TypeOK
  BY DEF IInv, Held, Control, Flags, Stored, TypeOK
<1> QED
  BY <1>1, Inductive, PTL

(* Whatever a switch, a deletion and the saves do to one another, the current *)
(* profile is one that there is, and what is listed has its file              *)
(* (plan_delete_item, ProfileDeletePlan::cleanup, append_item). *)
THEOREM ListedProfilesCanBeRun == Spec => []ProfilesCanBeRun
<1>1. ASSUME IInv PROVE ProfilesCanBeRun
  <2> USE <1>1 DEF IInv, Backed
  <2>1. CurrentExists
    BY DEF BooksAreWhole, Whole, CurrentExists
  <2>2. file.items \subseteq files
    BY DEF FileIsBacked
  <2>3. committed.current \in files \cup {NoUid} \/ updating # Nobody
    <3>1. CASE \A t \in Tasks : ~Leaving(t)
      BY <3>1 DEF BooksAreWhole, Whole, CommittedIsBacked
    <3>2. CASE \E t \in Tasks : Leaving(t)
      <4>1. PICK t \in Tasks : Leaving(t)
        BY <3>2
      <4>2. committed.items \ {Uid(t)} \subseteq files
        BY <4>1 DEF CommittedIsBacked
      <4>3. committed.current # Uid(t) \/ updating = t
        BY <4>1 DEF DeletionsAreSafe, Leaving, Deleting
      <4> QED
        BY <4>2, <4>3, HoldersAssumption DEF BooksAreWhole, Whole
    <3> QED
      BY <3>1, <3>2
  <2> QED
    BY <2>1, <2>2, <2>3 DEF ProfilesCanBeRun, ListedProfilesHaveFiles
<1>2. IInv => ProfilesCanBeRun
  BY <1>1
<1> QED
  BY <1>2, Inductive, PTL

(* What a request was told is done stays so: an edit as long as its profile   *)
(* is listed, an addition until a deletion was taken, and a deletion          *)
(* (commit_current_profile, which does not commit the draft it has staged). *)
THEOREM AcceptedChangesStay == Spec => []NothingAcceptedIsLost
<1>1. IInv => NothingAcceptedIsLost
  BY DEF IInv, Kept, ChangesStay, Changed, NothingAcceptedIsLost
<1> QED
  BY <1>1, Inductive, PTL

(* At rest profiles.yaml holds what is committed, and the Core runs the       *)
(* current profile (restore_previous_profile, restore_profile_config). *)
THEOREM LayersAgreeAtRest == Spec => []LayersAgree
<1>1. ASSUME IInv, AtRest PROVE \A t \in Tasks : ~Saved(t) /\ ~Waiting(t) /\ ~Rolling(t) /\ ~Taken(t) /\ ~Chosing(t)
  BY <1>1 DEF AtRest, Saved, Waiting, Rolling, Taken, Chosing
<1>2. ASSUME IInv PROVE FileHoldsTheCommitted
  <2>1. AtRest => ~Saving
    BY DEF AtRest, Saving
  <2> QED
    BY <1>1, <1>2, <2>1 DEF IInv, Kept, FileIsKnown, FileHoldsTheCommitted, AtRest
<1>3. ASSUME IInv PROVE CoreRunsCurrent
  <2>1. AtRest /\ Calm => RunsCurrent
    BY <1>1, <1>3 DEF IInv, Running, LoadedIsKnown
  <2>2. AtRest => \A uid : ~Behind(uid) /\ ~Arriving(uid)
    BY <1>1, <1>3 DEF Behind, Arriving, AtRest
  <2> QED
    BY <2>1, <2>2 DEF RunsCurrent, CoreRunsCurrent, Calm
<1>4. IInv => LayersAgree
  BY <1>2, <1>3 DEF LayersAgree
<1> QED
  BY <1>4, Inductive, PTL

(* A refresh that was answered as done is in what the Core runs of its        *)
(* profile (RefreshJudge, update_config_with_force). *)
THEOREM RefreshesReachTheCore == Spec => []RefreshedReachesTheCore
<1>1. ASSUME IInv PROVE RefreshedReachesTheCore
  <2>1. SUFFICES ASSUME AtRest, Calm, NEW t \in Tasks, Kind(t) = "refresh", answer[t] = "ok",
                        loaded.current = Uid(t)
                 PROVE  t \in loaded.shows
    BY DEF RefreshedReachesTheCore, Calm
  <2>2. loaded # NotRunning
    BY <1>1, <2>1 DEF IInv, Running, LoadedIsKnown, Rolling, AtRest
  <2> QED
    BY <1>1, <2>1, <2>2 DEF IInv, Running, RefreshesAreShown, Shown, Shows
<1>2. IInv => RefreshedReachesTheCore
  BY <1>1
<1> QED
  BY <1>2, Inductive, PTL
===============================================================================

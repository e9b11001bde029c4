------------------------------ MODULE Profiles ------------------------------
(***************************************************************************)
(* The profiles and the one that the Core runs (cmd/profile.rs,            *)
(* config/profiles.rs, feat/profile.rs, clash-orbit-draft, and the callers *)
(* in utils/resolve/scheme.rs, feat/dns.rs and config/config.rs).          *)
(*                                                                         *)
(* A switch stages its target in the draft of the profiles, has the Core   *)
(* take it, and then commits it or restores the previous one.  A deletion  *)
(* keeps its candidate to itself for as long as the Core tries it.  Every  *)
(* other change is a with_data_modify: a permit, a copy of the committed   *)
(* data, a closure that awaits, and a commit that is refused when the      *)
(* committed data were replaced meanwhile.                                 *)
(*                                                                         *)
(* Every task makes one request; a step ends where the code awaits.  What  *)
(* an item holds is abstracted to the tasks that have changed it, and the  *)
(* contents of the files of the profiles to the refreshes that wrote them. *)
(* An update of the Core is what ConfigWrites details; the runtime that it *)
(* makes is a profile and the refreshes which that profile's file shows.   *)
(***************************************************************************)
EXTENDS Naturals, FiniteSets

CONSTANTS
  Tasks,       \* the requests under way
  Uids,        \* the names of profiles
  Starts,      \* the profiles.yaml that the application may start with
  Requests,    \* what is asked: functions from Tasks to Jobs
  NoUid,       \* no current profile
  Nobody,      \* no holder
  NoDraft,     \* an empty draft slot
  NotRunning   \* no Core

Kinds == {"switch", "delete", "edit", "import", "scheme", "refresh", "update", "dns", "exit"}
Jobs == [kind : Kinds, uid : Uids]
Books == [current : Uids \cup {NoUid}, items : SUBSET Uids, edits : SUBSET Tasks]
Runtimes == [current : Uids \cup {NoUid}, shows : SUBSET Tasks]

Imports == {"import", "scheme"}

ASSUME RequestsAssumption == Requests \subseteq [Tasks -> Jobs]
ASSUME UidsAssumption == NoUid \notin Uids
ASSUME StartsAssumption ==
  /\ Starts \subseteq Books
  /\ \A book \in Starts :
       /\ book.current \in book.items \/ (book.current = NoUid /\ book.items = {})
       /\ book.edits = {}
\* A profile that is added gets a uid of its own (PrfItem::from_url, get_uid).
ASSUME ImportsAssumption ==
  \A jobs \in Requests, t \in Tasks : jobs[t].kind \in Imports =>
    /\ \A book \in Starts : jobs[t].uid \notin book.items
    /\ \A u \in Tasks \ {t} : jobs[u].kind \in Imports => jobs[u].uid # jobs[t].uid
ASSUME HoldersAssumption == Nobody \notin Tasks /\ NoDraft \notin Books
ASSUME NotRunningAssumption == NotRunning \notin Runtimes

VARIABLES
  job,         \* what each task asks for
  at,          \* where each task is
  answer,      \* what it answered
  committed,   \* Draft's data
  draft,       \* Draft's draft
  permit,      \* who has the permit of with_data_modify
  replaced,    \* the data were replaced since they were copied (Arc::ptr_eq fails)
  local,       \* the copy that a task works on
  prev,        \* the current profile as a task read it
  profileLock, \* who holds PROFILE_WRITE_LOCK
  configLock,  \* who holds CONFIG_WRITE_LOCK
  switching,   \* CURRENT_SWITCHING_PROFILE
  updating,    \* who has config_update_in_progress
  exiting,     \* Handle::is_exiting
  made,        \* the runtime of the update under way
  loaded,      \* the runtime the Core runs
  file,        \* profiles.yaml
  files,       \* the profiles whose file exists
  written,     \* the refreshes whose download is in such a file
  trouble      \* history: what has been upset, see below

taskVars == <<job, answer>>
bookVars == <<committed, draft>>
modifyVars == <<permit, replaced, local, prev>>
lockVars == <<profileLock, configLock, switching>>
coreVars == <<updating, exiting, made, loaded>>
diskVars == <<file, files, written>>
vars == <<taskVars, at, bookVars, modifyVars, lockVars, coreVars, diskVars, trouble>>

Kind(t) == job[t].kind
Uid(t) == job[t].uid

Places == {"idle", "lock", "stage", "ask", "generate", "apply", "discard", "commit", "undo",
           "restore", "restoreApply", "plan", "content", "write", "cleanup", "commitModify",
           "rollback", "rollbackApply", "drop", "append", "saveBegin", "saveWrite", "saveEnd", "adopted",
           "judge", "config", "sync", "collect", "exitSave", "exitEnd", "done"}

(* "file": a save failed that nothing takes back.                              *)
(* "core": the Core could not be brought to the committed profile, or the      *)
(*         import that made it the current one has failed after that.          *)
(* "raced": something read the profiles between the staging of a switch and    *)
(*          its end, or the draft of a switch was dropped by another task.     *)
(* "overwritten": a restored draft has replaced data committed after its copy. *)
Troubles == {"file", "core", "raced", "overwritten"}

TypeOK ==
  /\ job \in [Tasks -> Jobs]
  /\ at \in [Tasks -> Places]
  /\ answer \in [Tasks -> {"none", "ok", "unsaved", "rejected"}]
  /\ committed # NoDraft
  /\ committed \in Books
  /\ draft # NoDraft => draft \in Books
  /\ permit \in Tasks \cup {Nobody}
  /\ replaced \in BOOLEAN
  /\ local \in [Tasks -> Books]
  /\ prev \in [Tasks -> Uids \cup {NoUid}]
  /\ profileLock \in Tasks \cup {Nobody}
  /\ configLock \in Tasks \cup {Nobody}
  /\ switching \in BOOLEAN
  /\ updating \in Tasks \cup {Nobody}
  /\ exiting \in BOOLEAN
  /\ made \in Runtimes
  /\ loaded # NotRunning => loaded \in Runtimes
  /\ file \in Books
  /\ files \subseteq Uids
  /\ written \subseteq Tasks
  /\ trouble \subseteq Troubles

Beginning(kind) ==
  CASE kind \in {"delete", "dns"} -> "lock"
    [] kind = "update" -> "ask"
    [] OTHER -> "idle"

(* The application runs its Core with the current profile, if there is one. *)
Init ==
  /\ job \in Requests
  /\ committed \in Starts
  /\ at = [t \in Tasks |-> Beginning(Kind(t))]
  /\ answer = [t \in Tasks |-> "none"]
  /\ loaded = [current |-> committed.current, shows |-> {}]
  /\ draft = NoDraft
  /\ permit = Nobody
  /\ replaced = FALSE
  /\ local = [t \in Tasks |-> committed]
  /\ prev = [t \in Tasks |-> NoUid]
  /\ profileLock = Nobody
  /\ configLock = Nobody
  /\ switching = FALSE
  /\ updating = Nobody
  /\ exiting = FALSE
  /\ made = loaded
  /\ file = committed
  /\ files = committed.items
  /\ written = {}
  /\ trouble = {}

-----------------------------------------------------------------------------
(* Tasks, locks and the Draft *)

Goto(t, place) == at' = [at EXCEPT ![t] = place]
Is(t, kinds, place) == Kind(t) \in kinds /\ at[t] = place

Finish(t, value) ==
  /\ Goto(t, "done")
  /\ answer' = [answer EXCEPT ![t] = value]
  /\ UNCHANGED job

Unless(holder, t) == IF holder = t THEN Nobody ELSE holder

(* The guards that a request holds are dropped with it. *)
Release(t) ==
  /\ profileLock' = Unless(profileLock, t)
  /\ configLock' = Unless(configLock, t)
  /\ switching' = (switching /\ Kind(t) # "switch")

Latest == IF draft = NoDraft THEN committed ELSE draft

(* Mutant: whether there is such a profile is not looked at. *)
MutantPatchConfig(book, uid) == [book EXCEPT !.current = uid]

(* patch_config: only a profile that there is becomes the current one. *)
PatchConfig(book, uid) ==
  IF uid \in book.items THEN [book EXCEPT !.current = uid] ELSE book

(* Mutant: the slot is taken, empty or not. *)
MutantApplyDraft ==
  /\ committed' = draft
  /\ draft' = NoDraft
  /\ replaced' = (replaced \/ draft # NoDraft)

(* The draft becomes the committed data, in a new allocation. *)
ApplyDraft ==
  /\ committed' = Latest
  /\ draft' = NoDraft
  /\ replaced' = (replaced \/ draft # NoDraft)

(* with_data_modify: up to the first await of its closure ... *)
BeginModify(t, book) ==
  /\ permit = Nobody
  /\ permit' = t
  /\ replaced' = FALSE
  /\ local' = [local EXCEPT ![t] = book]

(* ... and when its closure has failed. *)
AbandonModify == permit' = Nobody /\ UNCHANGED <<replaced, local>>

(* Between its staging and its end a switch has others read its target, or *)
(* the profile that it is about to leave.                                  *)
Unsettled(t) ==
  \E s \in Tasks \ {t} :
    Is(s, {"switch"}, at[s]) /\ at[s] \in {"ask", "generate", "apply", "discard", "commit",
                                           "undo", "restore", "restoreApply"}

Upset(condition, what) == trouble' = IF condition THEN trouble \cup {what} ELSE trouble

-----------------------------------------------------------------------------
(* Updates of the Core *)

(* What enhance() makes of the profiles; it fails without the current one's file. *)
Enhanced(book) ==
  [current |-> book.current, shows |-> {t \in written : Uid(t) = book.current}]
CanEnhance(book) == book.current \in (book.items \cap files) \cup {NoUid}

(* The profiles that the update of a task is generated from. *)
Given(t) == IF Kind(t) = "delete" THEN local[t] ELSE Latest

UpdateBegin(t) ==
  /\ at[t] = "ask"
  /\ ~exiting
  /\ updating = Nobody
  /\ updating' = t
  /\ Goto(t, "generate")
  /\ UNCHANGED <<taskVars, bookVars, modifyVars, lockVars, exiting, made, loaded, diskVars,
                 trouble>>

(* Where a task goes on without a valid outcome; the update is over. *)
UpdateFails(t) ==
  \/ /\ Kind(t) = "switch" /\ Goto(t, "undo")
     /\ UNCHANGED <<taskVars, permit, lockVars>>
  \/ /\ Kind(t) \in {"delete", "update", "dns"}
     /\ Finish(t, "rejected")
     /\ permit' = Unless(permit, t)
     /\ Release(t)
  \/ /\ Kind(t) = "refresh"
     /\ Finish(t, "unsaved") /\ UNCHANGED <<permit, lockVars>>
  \/ /\ Kind(t) = "scheme"
     /\ Finish(t, "ok") /\ UNCHANGED <<permit, lockVars>>

(* Mutant: a refresh that finds the Core busy is done all the same. *)
MutantUpdateTurnedDown(t) ==
  /\ at[t] = "ask"
  /\ exiting \/ updating # Nobody
  /\ \/ Kind(t) # "refresh" /\ UpdateFails(t)
     \/ Kind(t) = "refresh" /\ Finish(t, "ok") /\ UNCHANGED <<permit, lockVars>>
  /\ Upset(Kind(t) = "scheme", "core")
  /\ UNCHANGED <<bookVars, replaced, local, prev, coreVars, diskVars>>

(* Another update is under way, or the application is exiting. *)
UpdateTurnedDown(t) ==
  /\ at[t] = "ask"
  /\ exiting \/ updating # Nobody
  /\ UpdateFails(t)
  /\ Upset(Kind(t) = "scheme", "core")
  /\ UNCHANGED <<bookVars, replaced, local, prev, coreVars, diskVars>>

UpdateGenerate(t) ==
  /\ at[t] = "generate"
  /\ CanEnhance(Given(t))
  /\ made' = Enhanced(Given(t))
  /\ Goto(t, "apply")
  /\ Upset(Kind(t) # "switch" /\ Unsettled(t), "raced")
  /\ UNCHANGED <<taskVars, bookVars, modifyVars, lockVars, updating, exiting, loaded, diskVars>>

(* It cannot be generated, or it is not valid. *)
UpdateInvalid(t) ==
  /\ \/ at[t] = "generate"
     \/ at[t] = "apply"
  /\ updating' = Nobody
  /\ UpdateFails(t)
  /\ Upset(Kind(t) = "scheme", "core")
  /\ UNCHANGED <<bookVars, replaced, local, prev, exiting, made, loaded, diskVars>>

UpdateApplied(t) ==
  /\ at[t] = "apply"
  /\ loaded' = made
  /\ updating' = IF Kind(t) = "delete" THEN t ELSE Nobody
  /\ \/ Kind(t) = "switch" /\ Goto(t, "discard") /\ UNCHANGED <<taskVars, lockVars>>
     \/ Kind(t) = "delete" /\ Goto(t, "write") /\ UNCHANGED <<taskVars, lockVars>>
     \/ Kind(t) \in {"refresh", "update"} /\ Goto(t, "sync") /\ UNCHANGED <<taskVars, lockVars>>
     \/ Kind(t) \in {"dns", "scheme"} /\ Finish(t, "ok") /\ Release(t)
  /\ UNCHANGED <<bookVars, modifyVars, exiting, made, diskVars, trouble>>

(* The Core refuses it, or is gone, or takes it although the update fails  *)
(* (the system proxy could not be restored).                               *)
CoreAfterError == {loaded, made, NotRunning}

(* Mutant: a deletion does not roll the Core back. *)
MutantUpdateErrs(t) ==
  /\ at[t] = "apply"
  /\ loaded' \in CoreAfterError
  /\ updating' = Nobody
  /\ UpdateFails(t)
  /\ Upset(Kind(t) # "delete" /\ loaded' # loaded, "core")
  /\ UNCHANGED <<bookVars, replaced, local, prev, exiting, made, diskVars>>

(* A deletion has the Core take the profiles as they were. *)
UpdateErrs(t) ==
  /\ at[t] = "apply"
  /\ loaded' \in CoreAfterError
  /\ \/ Kind(t) # "delete" /\ updating' = Nobody /\ UpdateFails(t)
     \/ Kind(t) = "delete" /\ Goto(t, "rollback") /\ UNCHANGED <<taskVars, permit, lockVars, updating>>
  /\ Upset(\/ Kind(t) = "switch" /\ loaded' # loaded
           \/ Kind(t) # "delete" /\ loaded' = NotRunning
           \/ Kind(t) = "scheme", "core")
  /\ UNCHANGED <<bookVars, replaced, local, prev, exiting, made, diskVars>>

(* The end of sync_dns_override, which waits for the lock of the settings. *)
Sync(t) ==
  /\ at[t] = "sync"
  /\ configLock = Nobody
  /\ Finish(t, "ok")
  /\ Release(t)
  /\ UNCHANGED <<bookVars, modifyVars, coreVars, diskVars, trouble>>

-----------------------------------------------------------------------------
(* Switching the current profile: patch_profiles_config *)

(* Nobody asks for a profile before its import has listed it. *)
Heard(uid) ==
  \A t \in Tasks : Kind(t) \in Imports /\ Uid(t) = uid =>
    at[t] \notin {"idle", "append", "content", "commitModify"}

SwitchBegin(t) ==
  /\ Is(t, {"switch"}, "idle")
  /\ Heard(Uid(t))
  /\ ~switching
  /\ switching' = TRUE
  /\ Goto(t, "lock")
  /\ UNCHANGED <<taskVars, bookVars, modifyVars, profileLock, configLock, coreVars, diskVars,
                 trouble>>

SwitchRefused(t) ==
  /\ Is(t, {"switch"}, "idle")
  /\ Heard(Uid(t))
  /\ switching
  /\ Finish(t, "rejected")
  /\ UNCHANGED <<bookVars, modifyVars, lockVars, coreVars, diskVars, trouble>>

(* PROFILE_WRITE_LOCK is the first lock of whoever needs several. *)
LockProfiles(t) ==
  /\ at[t] = "lock"
  /\ profileLock = Nobody
  /\ profileLock' = t
  /\ \/ Kind(t) = "switch" /\ Goto(t, "stage")
     \/ Kind(t) = "delete" /\ Goto(t, "plan")
     \/ Kind(t) = "dns" /\ Goto(t, "config")
     \/ Kind(t) = "exit" /\ Goto(t, "collect")
  /\ UNCHANGED <<taskVars, bookVars, modifyVars, configLock, switching, coreVars, diskVars,
                 trouble>>

SwitchStage(t) ==
  /\ at[t] = "stage"
  /\ prev' = [prev EXCEPT ![t] = committed.current]
  /\ draft' = PatchConfig(Latest, Uid(t))
  /\ Goto(t, "ask")
  /\ UNCHANGED <<taskVars, committed, permit, replaced, local, lockVars, coreVars, diskVars,
                 trouble>>

(* Mutant: the draft is committed as it was staged. *)
MutantSwitchDiscard(t) ==
  /\ at[t] = "discard"
  /\ ApplyDraft
  /\ Goto(t, "commit")
  /\ UNCHANGED <<taskVars, permit, local, prev, lockVars, coreVars, diskVars, trouble>>

(* commit_current_profile: the draft is dropped, and only the choice of the *)
(* profile is made again on the committed data.                             *)
SwitchDiscard(t) ==
  /\ at[t] = "discard"
  /\ draft' = NoDraft
  /\ Goto(t, "commit")
  /\ UNCHANGED <<taskVars, committed, modifyVars, lockVars, coreVars, diskVars, trouble>>

SwitchCommit(t) ==
  /\ at[t] = "commit"
  /\ permit = Nobody
  /\ committed' = PatchConfig(committed, Uid(t))
  /\ Goto(t, "saveBegin")
  /\ UNCHANGED <<taskVars, draft, modifyVars, lockVars, coreVars, diskVars, trouble>>

(* discard_and_restore *)
SwitchUndo(t) ==
  /\ at[t] = "undo"
  /\ draft' = NoDraft
  /\ \/ prev[t] # NoUid /\ Goto(t, "restore") /\ UNCHANGED <<taskVars, lockVars>>
     \/ prev[t] = NoUid /\ Finish(t, "rejected") /\ Release(t)
  /\ UNCHANGED <<committed, modifyVars, coreVars, diskVars, trouble>>

(* restore_previous_profile edits the draft, *)
RestoreStage(t) ==
  /\ at[t] = "restore"
  /\ draft' = PatchConfig(Latest, prev[t])
  /\ Goto(t, "restoreApply")
  /\ UNCHANGED <<taskVars, committed, modifyVars, lockVars, coreVars, diskVars, trouble>>

(* Mutant: what was restored is not saved. *)
MutantRestoreApply(t) ==
  /\ at[t] = "restoreApply"
  /\ ApplyDraft
  /\ Finish(t, "rejected")
  /\ Release(t)
  /\ Upset(Latest # committed, "overwritten")
  /\ UNCHANGED <<permit, local, prev, coreVars, diskVars>>

(* applies it, and leaves the saving to a task that outlives the request. *)
RestoreApply(t) ==
  /\ at[t] = "restoreApply"
  /\ ApplyDraft
  /\ answer' = [answer EXCEPT ![t] = "rejected"]
  /\ Goto(t, "saveBegin")
  /\ Release(t)
  /\ Upset(Latest # committed, "overwritten")
  /\ UNCHANGED <<job, permit, local, prev, coreVars, diskVars>>

-----------------------------------------------------------------------------
(* profiles_save_file_safe, after a switch and after an import *)

SaveBegin(t) ==
  /\ at[t] = "saveBegin"
  /\ BeginModify(t, committed)
  /\ Goto(t, "saveWrite")
  /\ UNCHANGED <<taskVars, bookVars, prev, lockVars, coreVars, diskVars, trouble>>

SaveWrite(t) ==
  /\ at[t] = "saveWrite"
  /\ file' = local[t]
  /\ Goto(t, "saveEnd")
  /\ UNCHANGED <<taskVars, bookVars, modifyVars, lockVars, coreVars, files, written, trouble>>

(* An imported link has the Core run its profile if that became the current one. *)
SchemeAdopted(t) == prev[t] = NoUid /\ Latest.current = Uid(t)
Adopts(t) == Kind(t) = "scheme" /\ prev[t] = NoUid /\ committed.current = Uid(t)

(* A switch only warns, an import that could not be saved is an error. *)
SaveDone(t, saved) ==
  \/ /\ Kind(t) = "switch" /\ answer[t] = "none"
     /\ Goto(t, "sync") /\ UNCHANGED taskVars
  \/ /\ Kind(t) = "switch" /\ answer[t] # "none"
     /\ Goto(t, "done") /\ UNCHANGED taskVars
  \/ Kind(t) = "import" /\ Finish(t, IF saved THEN "ok" ELSE "rejected")
  \/ Kind(t) = "scheme" /\ saved /\ Goto(t, "adopted") /\ UNCHANGED taskVars
  \/ Kind(t) = "scheme" /\ ~saved /\ Finish(t, "rejected")

SaveFails(t) ==
  /\ at[t] = "saveWrite"
  /\ SaveDone(t, FALSE)
  /\ AbandonModify
  /\ trouble' = trouble \cup {"file"} \cup {c \in {"core"} : Adopts(t)}
  /\ UNCHANGED <<bookVars, prev, lockVars, coreVars, diskVars>>

(* The copy is committed again as it is, or was replaced meanwhile. *)
SaveEnd(t) ==
  /\ at[t] = "saveEnd"
  /\ SaveDone(t, ~replaced)
  /\ AbandonModify
  /\ Upset(replaced /\ Adopts(t), "core")
  /\ UNCHANGED <<bookVars, prev, lockVars, coreVars, diskVars>>

-----------------------------------------------------------------------------
(* Deleting a profile: delete_profile *)

Removals(book, uid) ==
  {b \in Books :
     /\ b.items = book.items \ {uid}
     /\ b.edits = {t \in book.edits : Uid(t) # uid}
     /\ IF book.current \notin {uid, NoUid} THEN b.current = book.current
        ELSE b.current \in b.items \/ (b.items = {} /\ b.current = NoUid)}

(* Mutant: the files go before the candidate was tried and saved. *)
MutantDeletePlan(t) ==
  /\ at[t] = "plan"
  /\ Uid(t) \in committed.items
  /\ \E candidate \in Removals(committed, Uid(t)) : BeginModify(t, candidate)
  /\ files' = files \ {Uid(t)}
  /\ Goto(t, IF committed.current \in {Uid(t), NoUid} THEN "ask" ELSE "write")
  /\ UNCHANGED <<taskVars, bookVars, prev, lockVars, coreVars, file, written, trouble>>

DeletePlan(t) ==
  /\ at[t] = "plan"
  /\ Uid(t) \in committed.items
  /\ \E candidate \in Removals(committed, Uid(t)) : BeginModify(t, candidate)
  /\ Goto(t, IF committed.current \in {Uid(t), NoUid} THEN "ask" ELSE "write")
  /\ UNCHANGED <<taskVars, bookVars, prev, lockVars, coreVars, diskVars, trouble>>

DeleteUnknown(t) ==
  /\ at[t] = "plan"
  /\ permit = Nobody
  /\ Uid(t) \notin committed.items
  /\ Finish(t, "rejected")
  /\ Release(t)
  /\ UNCHANGED <<bookVars, modifyVars, coreVars, diskVars, trouble>>

DeleteWrite(t) ==
  /\ Is(t, {"delete"}, "write")
  /\ file' = local[t]
  /\ Goto(t, "cleanup")
  /\ UNCHANGED <<taskVars, bookVars, modifyVars, lockVars, coreVars, files, written, trouble>>

(* A deletion that the Core has taken is rolled back on the Core. *)
DeleteWriteFails(t) ==
  /\ Is(t, {"delete"}, "write")
  /\ \/ updating = t /\ Goto(t, "rollback") /\ UNCHANGED <<taskVars, permit, lockVars>>
     \/ updating # t /\ Finish(t, "rejected") /\ permit' = Nobody /\ Release(t)
  /\ UNCHANGED <<bookVars, replaced, local, prev, coreVars, diskVars, trouble>>

(* restore_profile_config: the runtime of the profiles as they were. *)
RollbackGenerate(t) ==
  /\ at[t] = "rollback"
  /\ CanEnhance(committed)
  /\ made' = Enhanced(committed)
  /\ Goto(t, "rollbackApply")
  /\ UNCHANGED <<taskVars, bookVars, modifyVars, lockVars, updating, exiting, loaded, diskVars,
                 trouble>>

DeleteRejected(t) ==
  /\ Finish(t, "rejected")
  /\ permit' = Nobody
  /\ Release(t)
  /\ updating' = Nobody

RollbackApplied(t) ==
  /\ at[t] = "rollbackApply"
  /\ loaded' = made
  /\ DeleteRejected(t)
  /\ UNCHANGED <<bookVars, replaced, local, prev, exiting, made, diskVars, trouble>>

RollbackFails(t) ==
  /\ at[t] \in {"rollback", "rollbackApply"}
  /\ loaded' \in IF at[t] = "rollback" THEN {loaded} ELSE CoreAfterError
  /\ DeleteRejected(t)
  /\ Upset(TRUE, "core")
  /\ UNCHANGED <<bookVars, replaced, local, prev, exiting, made, diskVars>>

(* A file that cannot be removed stays. *)
DeleteCleanup(t) ==
  /\ at[t] = "cleanup"
  /\ files' \in {files \ {Uid(t)}, files}
  /\ Goto(t, "commitModify")
  /\ UNCHANGED <<taskVars, bookVars, modifyVars, lockVars, coreVars, file, written, trouble>>

-----------------------------------------------------------------------------
(* Changing, adding and refreshing an item *)

(* patch_item, reorder, a recorded selection; update_item is alike. *)
ModifyBegin(t) ==
  /\ Is(t, {"edit", "refresh"}, "idle")
  /\ Uid(t) \in committed.items
  /\ BeginModify(t, [committed EXCEPT !.edits = @ \cup {t}])
  /\ Goto(t, IF Kind(t) = "edit" THEN "write" ELSE "content")
  /\ UNCHANGED <<taskVars, bookVars, prev, lockVars, coreVars, diskVars, trouble>>

ModifyUnknown(t) ==
  /\ Is(t, {"edit", "refresh"}, "idle")
  /\ permit = Nobody
  /\ Uid(t) \notin committed.items
  /\ Finish(t, "rejected")
  /\ UNCHANGED <<bookVars, modifyVars, lockVars, coreVars, diskVars, trouble>>

(* The first profile that is added becomes the current one. *)
AppendItem(book, uid) ==
  [book EXCEPT !.items = @ \cup {uid},
               !.current = IF @ = NoUid THEN uid ELSE @]

(* import_subscription, for a link, looks first whether there is a current one. *)
SchemeLook(t) ==
  /\ Is(t, {"scheme"}, "idle")
  /\ prev' = [prev EXCEPT ![t] = Latest.current]
  /\ Goto(t, "append")
  /\ UNCHANGED <<taskVars, bookVars, permit, replaced, local, lockVars, coreVars, diskVars,
                 trouble>>

(* import_profile, create_profile *)
AppendBegin(t) ==
  /\ Is(t, {"import"}, "idle") \/ Is(t, {"scheme"}, "append")
  /\ BeginModify(t, AppendItem(committed, Uid(t)))
  /\ Goto(t, "content")
  /\ UNCHANGED <<taskVars, bookVars, prev, lockVars, coreVars, diskVars, trouble>>

(* The profile's own file comes first. *)
ContentWrite(t) ==
  /\ at[t] = "content"
  /\ files' = files \cup {Uid(t)}
  /\ \/ Kind(t) = "refresh" /\ written' = written \cup {t} /\ Goto(t, "write")
     \/ Kind(t) # "refresh" /\ Goto(t, "commitModify") /\ UNCHANGED written
  /\ UNCHANGED <<taskVars, bookVars, modifyVars, lockVars, coreVars, file, trouble>>

ModifyWrite(t) ==
  /\ Is(t, {"edit", "refresh"}, "write")
  /\ file' = local[t]
  /\ Goto(t, "commitModify")
  /\ UNCHANGED <<taskVars, bookVars, modifyVars, lockVars, coreVars, files, written, trouble>>

ModifyRejected(t) ==
  \/ Kind(t) # "scheme" /\ Finish(t, "rejected")
  \/ Kind(t) = "scheme" /\ Goto(t, "drop") /\ UNCHANGED taskVars

(* Mutant: a failed closure keeps the permit. *)
MutantModifyFails(t) ==
  /\ at[t] \in {"content", "write"} /\ Kind(t) # "delete"
  /\ ModifyRejected(t)
  /\ UNCHANGED <<bookVars, modifyVars, lockVars, coreVars, diskVars, trouble>>

ModifyFails(t) ==
  /\ at[t] \in {"content", "write"} /\ Kind(t) # "delete"
  /\ ModifyRejected(t)
  /\ AbandonModify
  /\ UNCHANGED <<bookVars, prev, lockVars, coreVars, diskVars, trouble>>

(* The data that were copied are still the committed ones. *)
CommitModify(t) ==
  /\ at[t] = "commitModify"
  /\ ~replaced
  /\ committed' = local[t]
  /\ AbandonModify
  /\ Release(t)
  /\ updating' = Unless(updating, t)
  /\ \/ Kind(t) = "edit" /\ Finish(t, "ok")
     \/ Kind(t) = "delete" /\ updating = t /\ Goto(t, "sync") /\ UNCHANGED taskVars
     \/ Kind(t) = "delete" /\ updating # t /\ Finish(t, "ok")
     \/ Kind(t) \in {"import", "scheme"} /\ Goto(t, "saveBegin") /\ UNCHANGED taskVars
     \/ Kind(t) = "refresh" /\ Goto(t, "judge") /\ UNCHANGED taskVars
  /\ Upset(/\ Kind(t) = "import" \/ (Kind(t) = "scheme" /\ prev[t] # NoUid)
           /\ committed.current = NoUid, "core")
  /\ UNCHANGED <<draft, prev, exiting, made, loaded, diskVars>>

CommitRefused(t) ==
  /\ at[t] = "commitModify"
  /\ replaced
  /\ AbandonModify
  /\ Release(t)
  /\ updating' = Unless(updating, t)
  /\ ModifyRejected(t)
  /\ UNCHANGED <<bookVars, prev, exiting, made, loaded, diskVars, trouble>>

(* import_subscription drops whatever draft there is. *)
SchemeDrop(t) ==
  /\ at[t] = "drop"
  /\ draft' = NoDraft
  /\ Finish(t, "rejected")
  /\ Upset(draft # NoDraft, "raced")
  /\ UNCHANGED <<committed, modifyVars, lockVars, coreVars, diskVars>>

SchemeEnds(t) ==
  /\ at[t] = "adopted"
  /\ \/ SchemeAdopted(t) /\ Goto(t, "ask") /\ UNCHANGED taskVars
     \/ ~SchemeAdopted(t) /\ Finish(t, "ok")
  /\ Upset(prev[t] = NoUid /\ Unsettled(t), "raced")
  /\ UNCHANGED <<bookVars, modifyVars, lockVars, coreVars, diskVars>>

(* A refresh of the current profile has the Core take it. *)
RefreshJudge(t) ==
  /\ at[t] = "judge"
  /\ \/ Latest.current = Uid(t) /\ Goto(t, "ask") /\ UNCHANGED taskVars
     \/ Latest.current # Uid(t) /\ Finish(t, "ok")
  /\ Upset(Unsettled(t), "raced")
  /\ UNCHANGED <<bookVars, modifyVars, lockVars, coreVars, diskVars>>

-----------------------------------------------------------------------------
(* set_dns_override as far as its locks go, and the saving at exit *)

DnsConfig(t) ==
  /\ at[t] = "config"
  /\ configLock = Nobody
  /\ committed.current = Uid(t)
  /\ configLock' = t
  /\ Goto(t, "ask")
  /\ UNCHANGED <<taskVars, bookVars, modifyVars, profileLock, switching, coreVars, diskVars,
                 trouble>>

(* The setting was asked for another profile. *)
DnsRefused(t) ==
  /\ at[t] = "config"
  /\ configLock = Nobody
  /\ committed.current # Uid(t)
  /\ Finish(t, "rejected")
  /\ Release(t)
  /\ UNCHANGED <<bookVars, modifyVars, coreVars, diskVars, trouble>>

ExitBegin(t) ==
  /\ Is(t, {"exit"}, "idle")
  /\ exiting' = TRUE
  /\ Goto(t, "lock")
  /\ UNCHANGED <<taskVars, bookVars, modifyVars, lockVars, updating, made, loaded, diskVars,
                 trouble>>

(* apply_all_and_save_file takes no permit. *)
ExitCollect(t) ==
  /\ at[t] = "collect"
  /\ ApplyDraft
  /\ local' = [local EXCEPT ![t] = Latest]
  /\ Goto(t, "exitSave")
  /\ UNCHANGED <<taskVars, permit, prev, lockVars, coreVars, diskVars, trouble>>

ExitSave(t) ==
  /\ at[t] = "exitSave"
  /\ \/ file' = local[t] /\ UNCHANGED trouble
     \/ UNCHANGED file /\ Upset(TRUE, "file")
  /\ Release(t)
  /\ Goto(t, "exitEnd")
  /\ UNCHANGED <<taskVars, bookVars, modifyVars, coreVars, files, written>>

(* The exit is given up when the Core cannot be stopped. *)
ExitEnd(t) ==
  /\ at[t] = "exitEnd"
  /\ exiting' \in BOOLEAN
  /\ Finish(t, "ok")
  /\ UNCHANGED <<bookVars, modifyVars, lockVars, updating, made, loaded, diskVars, trouble>>

-----------------------------------------------------------------------------
UpdateStep(t) ==
  \/ UpdateBegin(t) \/ UpdateTurnedDown(t) \/ UpdateGenerate(t) \/ UpdateInvalid(t)
  \/ UpdateApplied(t) \/ UpdateErrs(t) \/ Sync(t)

SwitchStep(t) ==
  \/ SwitchBegin(t) \/ SwitchRefused(t) \/ LockProfiles(t) \/ SwitchStage(t)
  \/ SwitchDiscard(t) \/ SwitchCommit(t) \/ SwitchUndo(t) \/ RestoreStage(t) \/ RestoreApply(t)

SaveStep(t) == SaveBegin(t) \/ SaveWrite(t) \/ SaveFails(t) \/ SaveEnd(t)

DeleteStep(t) ==
  \/ DeletePlan(t) \/ DeleteUnknown(t) \/ DeleteWrite(t) \/ DeleteWriteFails(t)
  \/ RollbackGenerate(t) \/ RollbackApplied(t) \/ RollbackFails(t) \/ DeleteCleanup(t)

ModifyStep(t) ==
  \/ ModifyBegin(t) \/ ModifyUnknown(t) \/ SchemeLook(t) \/ AppendBegin(t) \/ ContentWrite(t)
  \/ ModifyWrite(t) \/ ModifyFails(t) \/ CommitModify(t) \/ CommitRefused(t) \/ SchemeDrop(t)
  \/ SchemeEnds(t) \/ RefreshJudge(t)

OtherStep(t) ==
  \/ DnsConfig(t) \/ DnsRefused(t)
  \/ ExitBegin(t) \/ ExitCollect(t) \/ ExitSave(t) \/ ExitEnd(t)

Step(t) ==
  UpdateStep(t) \/ SwitchStep(t) \/ SaveStep(t) \/ DeleteStep(t) \/ ModifyStep(t) \/ OtherStep(t)

Next == \E t \in Tasks : Step(t)

Spec == Init /\ [][Next]_vars

-----------------------------------------------------------------------------
(* Properties *)

AtRest == \A t \in Tasks : at[t] = "done"
Asks(kinds) == \E t \in Tasks : Kind(t) \in kinds
Accepted(t) == answer[t] \in {"ok", "unsaved"}

(* The current profile is one that there is, in memory and in profiles.yaml;  *)
(* there is none only when there are no profiles.  A target may be deleted    *)
(* while its switch waits for the lock (patch_config, plan_delete_item).      *)
CurrentExists ==
  \A book \in {committed, file} :
    \/ book.current \in book.items
    \/ book.current = NoUid /\ book.items = {}

(* After a crash at any point the profiles that are listed have their files:  *)
(* a file is written before its item is listed and removed only after the     *)
(* list without it was saved (append_item, ProfileDeletePlan::cleanup).  The  *)
(* file of the current profile goes while no other update can be generated    *)
(* from it (ConfigUpdateGuard).                                               *)
ListedProfilesHaveFiles ==
  /\ file.items \subseteq files
  /\ committed.current \in files \cup {NoUid} \/ updating # Nobody

(* What memory and profiles.yaml list can be run, also after a crash.         *)
ProfilesCanBeRun == CurrentExists /\ ListedProfilesHaveFiles

(* A change that was accepted stays, whatever a switch that began before it   *)
(* does with its older draft: an edit as long as its profile is listed, a     *)
(* profile that was added until a deletion of it was taken, and a deletion    *)
(* for good.  Only the restoration of a previous profile overwrites what is   *)
(* committed between its two steps                                            *)
(* (committing_profile_switch_preserves_profiles_added_after_draft_creation). *)
Deleted(uid) ==
  \E t \in Tasks :
    job[t] = [kind |-> "delete", uid |-> uid] /\ (at[t] = "sync" \/ Accepted(t))

NothingAcceptedIsLost ==
  "overwritten" \notin trouble =>
    \A t \in Tasks : Accepted(t) =>
      /\ Kind(t) \in {"edit", "refresh"} /\ Uid(t) \in committed.items => t \in committed.edits
      /\ Kind(t) \in Imports => Uid(t) \in committed.items \/ Deleted(Uid(t))
      /\ Kind(t) = "delete" => Uid(t) \notin committed.items

(* Once every request has ended, profiles.yaml shows the profiles that are    *)
(* committed, those included whose closure saved them and then found the data *)
(* replaced (with_data_modify, restore_previous_profile).                     *)
FileHoldsTheCommitted ==
  AtRest /\ "file" \notin trouble /\ ~Asks({"exit"}) => file = committed

(* Exit saves what was committed: "Commits drafts during exit/restart/        *)
(* shutdown so user changes are not lost" (apply_all_and_save_file).          *)
ExitSavesTheChanges == AtRest /\ "file" \notin trouble => file = committed

(* Once every request has ended, the Core runs the current profile: after a   *)
(* switch or a deletion that was turned down, the previous one.  The          *)
(* exceptions are what read the profiles while a switch was staged, and a     *)
(* Core that could not be brought back (perform_config_update,                *)
(* restore_profile_config).                                                   *)
CoreRunsCurrent ==
  AtRest /\ trouble \cap {"core", "raced"} = {} => loaded.current = committed.current

(* At rest profiles.yaml, the committed profiles and the Core agree.          *)
LayersAgree == FileHoldsTheCommitted /\ CoreRunsCurrent

(* A refresh that was answered as done is what the Core runs once its profile *)
(* is the current one (update_profile, update_config_with_force).             *)
RefreshedReachesTheCore ==
  AtRest /\ trouble \cap {"core", "raced"} = {} =>
    \A t \in Tasks :
      Kind(t) = "refresh" /\ answer[t] = "ok" /\ loaded.current = Uid(t) => t \in loaded.shows

(* No request waits for ever: the profile lock is taken before the permit,    *)
(* the lock of the settings and the update flag by all that need several of   *)
(* them, and each is given back on every way out.  A request takes finitely   *)
(* many steps, so it ends as long as some request can go on.                  *)
SomeRequestGoesOn == AtRest \/ ENABLED Next
=============================================================================

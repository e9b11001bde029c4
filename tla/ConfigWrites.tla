---------------------------- MODULE ConfigWrites ----------------------------
(***************************************************************************)
(* How a change of the settings is staged, tried on the Core, and kept or  *)
(* given up (clash-orbit-draft, config/config.rs, feat/executor.rs,        *)
(* feat/dns.rs, feat/listener.rs, core/manager/config.rs).                 *)
(*                                                                         *)
(* Two draft layers take part: `settings` (orbit.yaml; the Clash settings  *)
(* are treated the same way) and `runtime`, what the Core is started with  *)
(* or reloads.  A layer is its committed data and one slot for a draft.    *)
(* What a layer holds is abstracted to the set of changes that it shows,   *)
(* a change being named by the task that makes it, and Tun standing for    *)
(* the preference that TUN is on.                                          *)
(*                                                                         *)
(* Every task makes one request; a step ends where the code awaits.        *)
(***************************************************************************)
EXTENDS Naturals, FiniteSets

CONSTANTS
  Tasks,       \* the requests under way
  Requests,    \* what they ask for: functions from Tasks to AllJobs
  Tun,         \* the preference that TUN is on
  Nobody,      \* no holder
  NoDraft,     \* an empty draft slot
  NotRunning   \* no Core

Layers == {"settings", "runtime"}
Contents == SUBSET (Tasks \cup {Tun})
AllJobs == {"patch", "ports", "dns", "refresh", "restart", "settle", "legacy"}

ASSUME RequestsAssumption == Requests \subseteq [Tasks -> AllJobs]
ASSUME NullsAssumption ==
  /\ Nobody \notin Tasks /\ Tun \notin Tasks /\ NoDraft # NotRunning
  /\ \A c \in Contents : c # NoDraft /\ c # NotRunning

VARIABLES
  job,         \* what each task asks for
  at,          \* where each task is
  answer,      \* what it answered
  committed,   \* of each layer, Draft's data
  draft,       \* of each layer, Draft's draft
  claimed,     \* of each layer, who staged it by a DraftTransaction
  writeLock,   \* who holds CONFIG_WRITE_LOCK
  updating,    \* config_update_in_progress
  loaded,      \* the runtime the Core runs
  file,        \* what the files of the settings show
  copy,        \* what a task keeps of the settings to write them to the file
  trouble      \* history: what a failed write or a failed rollback has upset

taskVars == <<at, answer>>
layerVars == <<committed, draft, claimed>>
lockVars == <<writeLock, updating>>
vars == <<job, taskVars, layerVars, lockVars, loaded, file, copy, trouble>>

Places == {"idle", "begin", "snapshot", "stage", "effects", "apply", "effected", "commit",
           "undo", "restore", "revert", "activate", "persist", "update", "updateGenerate",
           "updateApply", "writeOff", "writeOffApply", "save", "generate", "start",
           "leave", "unlock", "done"}
Answers == {"none", "ok", "unsaved", "rejected"}

Changers == {t \in Tasks : job[t] \in {"patch", "ports", "dns", "legacy"}}

TypeOK ==
  /\ job \in [Tasks -> AllJobs]
  /\ at \in [Tasks -> Places]
  /\ answer \in [Tasks -> Answers]
  /\ committed \in [Layers -> Contents]
  /\ draft \in [Layers -> Contents \cup {NoDraft}]
  /\ claimed \in [Layers -> Tasks \cup {Nobody}]
  /\ writeLock \in Tasks \cup {Nobody}
  /\ updating \in BOOLEAN
  /\ loaded # NoDraft
  /\ loaded \in Contents \cup {NotRunning}
  /\ file \in Contents
  /\ copy \in [Tasks -> Contents]
  /\ trouble \subseteq {"file", "core"}

(* The application has started its Core, or not yet; TUN is on. *)
Init ==
  /\ job \in Requests
  /\ at = [t \in Tasks |-> "idle"]
  /\ answer = [t \in Tasks |-> "none"]
  /\ committed = [l \in Layers |-> {Tun}]
  /\ draft = [l \in Layers |-> NoDraft]
  /\ claimed = [l \in Layers |-> Nobody]
  /\ writeLock = Nobody
  /\ updating = FALSE
  /\ loaded \in {{Tun}, NotRunning}
  /\ file = {Tun}
  /\ copy = [t \in Tasks |-> {}]
  /\ trouble = {}

-----------------------------------------------------------------------------
(* Draft *)

Latest(l) == IF draft[l] = NoDraft THEN committed[l] ELSE draft[l]

Edit(l, content) == draft' = [draft EXCEPT ![l] = content]

Apply(ls) == 
  /\ committed' = [l \in Layers |-> IF l \in ls THEN Latest(l) ELSE committed[l]]
  /\ draft' = [l \in Layers |-> IF l \in ls THEN NoDraft ELSE draft[l]]

Discard(ls) == draft' = [l \in Layers |-> IF l \in ls THEN NoDraft ELSE draft[l]]

Claimable(ls) == \A l \in ls : claimed[l] = Nobody

Claim(t, ls) == claimed' = [l \in Layers |-> IF l \in ls THEN t ELSE claimed[l]]

Release(ls) == claimed' = [l \in Layers |-> IF l \in ls THEN Nobody ELSE claimed[l]]

Commit(ls) == Apply(ls) /\ Release(ls)

Rollback(ls) == Discard(ls) /\ Release(ls) /\ UNCHANGED committed

(* What generate() makes of the settings, drafts included. *)
Generated == Latest("settings")

-----------------------------------------------------------------------------
(* Tasks *)

Goto(t, place) == at' = [at EXCEPT ![t] = place]
Answer(t, value) == answer' = [answer EXCEPT ![t] = value]
Is(t, j, place) == job[t] = j /\ at[t] = place

(* The task ends without having changed anything. *)
Refuse(t) ==
  /\ Goto(t, "done")
  /\ Answer(t, "rejected")
  /\ UNCHANGED <<layerVars, lockVars, loaded, file, copy, trouble>>

(* The guards of a request are dropped: of one that holds the write lock and  *)
(* the update, and of one that holds the write lock only.                     *)
Leave(t) ==
  /\ at[t] = "leave"
  /\ Goto(t, "done")
  /\ writeLock' = Nobody
  /\ updating' = FALSE
  /\ UNCHANGED <<answer, layerVars, loaded, file, copy, trouble>>

Unlock(t) ==
  /\ at[t] = "unlock"
  /\ Goto(t, "done")
  /\ writeLock' = Nobody
  /\ UNCHANGED <<answer, layerVars, updating, loaded, file, copy, trouble>>

(* Mutant: the Sidecar is settled on without the write lock. *)
LockNotToSettle(t) ==
  /\ \/ /\ job[t] \in {"ports", "dns"} /\ at[t] = "idle" /\ Goto(t, "begin")
        /\ writeLock = Nobody
        /\ writeLock' = t
     \/ Is(t, "settle", "begin") /\ Goto(t, "writeOff") /\ UNCHANGED writeLock
  /\ UNCHANGED <<answer, layerVars, updating, loaded, file, copy, trouble>>

(* Jobs that wait for the write lock. *)
Lock(t) ==
  /\ \/ job[t] \in {"ports", "dns"} /\ at[t] = "idle" /\ Goto(t, "begin")
     \/ Is(t, "settle", "begin") /\ Goto(t, "writeOff")
  /\ writeLock = Nobody
  /\ writeLock' = t
  /\ UNCHANGED <<answer, layerVars, updating, loaded, file, copy, trouble>>

(* Once every layer is accepted. *)
CommitAll(t) ==
  /\ job[t] \in {"patch", "ports"} /\ at[t] = "commit"
  /\ Commit(Layers)
  /\ Answer(t, "ok")
  /\ Goto(t, "leave")
  /\ UNCHANGED <<lockVars, loaded, file, copy, trouble>>

(* The files are put back as they were captured, or that fails too. *)
RestoreFiles(t) ==
  \/ file' = copy[t] /\ UNCHANGED trouble
  \/ trouble' = trouble \cup {"file"} /\ UNCHANGED file

Restore(t) ==
  /\ at[t] = "restore"
  /\ RestoreFiles(t)
  /\ Answer(t, "rejected")
  /\ Goto(t, "leave")
  /\ UNCHANGED <<layerVars, lockVars, loaded, copy>>

-----------------------------------------------------------------------------
(* The runtime is tried on the Core: it takes it; it takes it, but the system *)
(* proxy cannot be restored; it refuses it; its replacement does not start.   *)
Outcomes == {"applied", "unproxied", "refused", "down"}

Takes(outcome) == outcome \in {"applied", "unproxied"}

(* Mutant: a start reads the draft slot, empty or not. *)
CoreAfterDraft(outcome) ==
  CASE Takes(outcome) -> draft["runtime"]
    [] outcome = "refused" -> loaded
    [] outcome = "down" -> NotRunning

CoreAfter(outcome) ==
  CASE Takes(outcome) -> Latest("runtime")
    [] outcome = "refused" -> loaded
    [] outcome = "down" -> NotRunning

-----------------------------------------------------------------------------
(* patch: patch_orbit, patch_clash *)

PatchBegin(t) ==
  /\ Is(t, "patch", "idle")
  /\ writeLock = Nobody /\ ~updating /\ Claimable(Layers)
  /\ writeLock' = t /\ updating' = TRUE /\ Claim(t, Layers)
  /\ Goto(t, "snapshot")
  /\ UNCHANGED <<answer, committed, draft, loaded, file, copy, trouble>>

PatchRefused(t) ==
  /\ Is(t, "patch", "idle")
  /\ writeLock # Nobody \/ updating \/ ~Claimable(Layers)
  /\ Refuse(t)

PatchSnapshot(t) ==
  /\ Is(t, "patch", "snapshot")
  /\ copy' = [copy EXCEPT ![t] = file]
  /\ Goto(t, "stage")
  /\ UNCHANGED <<answer, layerVars, lockVars, loaded, file, trouble>>

PatchSnapshotFails(t) ==
  /\ Is(t, "patch", "snapshot")
  /\ Rollback(Layers)
  /\ Answer(t, "rejected")
  /\ Goto(t, "leave")
  /\ UNCHANGED <<lockVars, loaded, file, copy, trouble>>

PatchStage(t) ==
  /\ Is(t, "patch", "stage")
  /\ Edit("settings", Latest("settings") \cup {t})
  /\ Goto(t, "effects")
  /\ UNCHANGED <<answer, committed, claimed, lockVars, loaded, file, copy, trouble>>

(* Mutant: the runtime is kept only if everything succeeded. *)
PatchApplyWithoutRetain(t, outcome) ==
  /\ Is(t, "patch", "apply")
  /\ loaded' = CoreAfter(outcome)
  /\ IF outcome = "applied" THEN Apply({"runtime"}) ELSE UNCHANGED <<committed, draft>>
  /\ Goto(t, IF outcome = "applied" THEN "effected" ELSE "undo")
  /\ UNCHANGED <<answer, claimed, lockVars, file, copy, trouble>>

(* Its effects, in the order of Effect; only some of them need the Core. *)
PatchGenerate(t) ==
  /\ Is(t, "patch", "effects")
  /\ Edit("runtime", Generated)
  /\ Goto(t, "apply")
  /\ UNCHANGED <<answer, committed, claimed, lockVars, loaded, file, copy, trouble>>

PatchApply(t, outcome) ==
  /\ Is(t, "patch", "apply")
  /\ loaded' = CoreAfter(outcome)
  /\ \/ Takes(outcome) /\ Apply({"runtime"})
     \/ ~Takes(outcome) /\ UNCHANGED <<committed, draft>>
  /\ Goto(t, IF outcome = "applied" THEN "effected" ELSE "undo")
  /\ UNCHANGED <<answer, claimed, lockVars, file, copy, trouble>>

(* Another effect fails, or the settings cannot be saved. *)
PatchFails(t) ==
  /\ job[t] = "patch" /\ at[t] \in {"effects", "effected"}
  /\ Goto(t, "undo")
  /\ UNCHANGED <<answer, layerVars, lockVars, loaded, file, copy, trouble>>

PatchSave(t) ==
  /\ job[t] = "patch" /\ at[t] \in {"effects", "effected"}
  /\ file' = Latest("settings")
  /\ Goto(t, "commit")
  /\ UNCHANGED <<answer, layerVars, lockVars, loaded, copy, trouble>>

PatchUndo(t) ==
  /\ Is(t, "patch", "undo")
  /\ Rollback(Layers)
  /\ Goto(t, "restore")
  /\ UNCHANGED <<answer, lockVars, loaded, file, copy, trouble>>

-----------------------------------------------------------------------------
(* ports: save_proxy_ports *)

PortsStage(t) ==
  /\ Is(t, "ports", "begin")
  /\ ~updating /\ Claimable(Layers)
  /\ updating' = TRUE /\ Claim(t, Layers)
  /\ Edit("settings", Latest("settings") \cup {t})
  /\ Goto(t, "generate")
  /\ UNCHANGED <<answer, committed, writeLock, loaded, file, copy, trouble>>

PortsRefused(t) ==
  /\ Is(t, "ports", "begin")
  /\ updating \/ ~Claimable(Layers)
  /\ Answer(t, "rejected")
  /\ Goto(t, "unlock")
  /\ UNCHANGED <<layerVars, lockVars, loaded, file, copy, trouble>>

PortsGenerate(t) ==
  /\ Is(t, "ports", "generate")
  /\ Edit("runtime", Generated)
  /\ Goto(t, "snapshot")
  /\ UNCHANGED <<answer, committed, claimed, lockVars, loaded, file, copy, trouble>>

(* A port is taken, or the candidate is not valid, or it cannot be written. *)
PortsRejected(t) ==
  /\ job[t] = "ports" /\ at[t] \in {"generate", "snapshot"}
  /\ Rollback(Layers)
  /\ Answer(t, "rejected")
  /\ Goto(t, "leave")
  /\ UNCHANGED <<lockVars, loaded, file, copy, trouble>>

(* Mutant: the runtime is kept if the new Core is up, as a patch would. *)
PortsActivateRetains(t, outcome) ==
  /\ Is(t, "ports", "activate")
  /\ loaded' = CoreAfter(outcome)
  /\ IF outcome = "applied"
       THEN Goto(t, "persist") /\ UNCHANGED layerVars
       ELSE /\ Goto(t, "revert")
            /\ IF Takes(outcome) THEN Commit({"runtime"}) ELSE Rollback(Layers)
  /\ UNCHANGED <<answer, lockVars, file, copy, trouble>>

PortsSnapshot(t) ==
  /\ Is(t, "ports", "snapshot")
  /\ copy' = [copy EXCEPT ![t] = file]
  /\ Goto(t, IF loaded = NotRunning THEN "persist" ELSE "activate")
  /\ UNCHANGED <<answer, layerVars, lockVars, loaded, file, trouble>>

PortsActivate(t, outcome) ==
  /\ Is(t, "ports", "activate")
  /\ loaded' = CoreAfter(outcome)
  /\ \/ outcome = "applied" /\ Goto(t, "persist") /\ UNCHANGED layerVars
     \/ outcome # "applied" /\ Goto(t, "revert") /\ Rollback(Layers)
  /\ UNCHANGED <<answer, lockVars, file, copy, trouble>>

PortsPersist(t) ==
  /\ Is(t, "ports", "persist")
  /\ file' = Latest("settings")
  /\ Goto(t, "commit")
  /\ UNCHANGED <<answer, layerVars, lockVars, loaded, copy, trouble>>

(* Some of the files may have been written already. *)
PortsPersistFails(t) ==
  /\ Is(t, "ports", "persist")
  /\ file' \in {file, Latest("settings")}
  /\ Rollback(Layers)
  /\ Goto(t, IF loaded = NotRunning THEN "restore" ELSE "revert")
  /\ UNCHANGED <<answer, lockVars, loaded, copy, trouble>>

(* The previous Core is brought back, or that fails too. *)
PortsRevert(t, outcome) ==
  /\ Is(t, "ports", "revert")
  /\ loaded' = CoreAfter(outcome)
  /\ \E fileKept \in BOOLEAN :
       /\ file' = IF fileKept THEN file ELSE copy[t]
       /\ trouble' = trouble \cup (IF fileKept THEN {"file"} ELSE {})
                             \cup (IF outcome = "refused" THEN {"core"} ELSE {})
  /\ Answer(t, "rejected")
  /\ Goto(t, "leave")
  /\ UNCHANGED <<layerVars, lockVars, copy>>

-----------------------------------------------------------------------------
(* refresh: update_config_forced, by itself or inside set_dns_override *)

Update(t, ended) ==
  \/ /\ job[t] = "refresh"
     /\ Goto(t, "done") /\ Answer(t, IF ended THEN "ok" ELSE "rejected")
  \/ /\ job[t] # "refresh"
     /\ Goto(t, IF ended THEN "commit" ELSE "undo") /\ UNCHANGED answer

UpdateBegins(t) == Is(t, "refresh", "idle") \/ Is(t, "dns", "update")

(* Mutants: Busy is taken for success; Busy makes set_dns_override wait. *)
UpdateBusySucceeds(t) ==
  /\ UpdateBegins(t)
  /\ updating \/ ~Claimable({"runtime"})
  /\ Update(t, TRUE)
  /\ UNCHANGED <<layerVars, lockVars, loaded, file, copy, trouble>>

UpdateBusyWaits(t) ==
  /\ UpdateBegins(t)
  /\ updating \/ ~Claimable({"runtime"})
  /\ IF job[t] = "dns" THEN UNCHANGED taskVars ELSE Update(t, FALSE)
  /\ UNCHANGED <<layerVars, lockVars, loaded, file, copy, trouble>>

UpdateBegin(t) ==
  /\ UpdateBegins(t)
  /\ ~updating /\ Claimable({"runtime"})
  /\ updating' = TRUE /\ Claim(t, {"runtime"})
  /\ Goto(t, "updateGenerate")
  /\ UNCHANGED <<answer, committed, draft, writeLock, loaded, file, copy, trouble>>

UpdateBusy(t) ==
  /\ UpdateBegins(t)
  /\ updating \/ ~Claimable({"runtime"})
  /\ Update(t, FALSE)
  /\ UNCHANGED <<layerVars, lockVars, loaded, file, copy, trouble>>

UpdateGenerate(t) ==
  /\ at[t] = "updateGenerate"
  /\ Edit("runtime", Generated)
  /\ Goto(t, "updateApply")
  /\ UNCHANGED <<answer, committed, claimed, lockVars, loaded, file, copy, trouble>>

UpdateGenerateFails(t) ==
  /\ at[t] = "updateGenerate"
  /\ Rollback({"runtime"})
  /\ updating' = FALSE
  /\ Update(t, FALSE)
  /\ UNCHANGED <<writeLock, loaded, file, copy, trouble>>

UpdateApply(t, outcome) ==
  /\ at[t] = "updateApply"
  /\ loaded' = CoreAfter(outcome)
  /\ \/ Takes(outcome) /\ Commit({"runtime"})
     \/ ~Takes(outcome) /\ Rollback({"runtime"})
  /\ updating' = FALSE
  /\ Update(t, outcome = "applied")
  /\ UNCHANGED <<writeLock, file, copy, trouble>>

(* Mutant: the layer is edited without a claim. *)
DnsStageUnclaimed(t) ==
  /\ Is(t, "dns", "begin")
  /\ Edit("settings", Latest("settings") \cup {t})
  /\ Goto(t, "update")
  /\ UNCHANGED <<answer, committed, claimed, lockVars, loaded, file, copy, trouble>>

-----------------------------------------------------------------------------
(* dns: set_dns_override *)

DnsStage(t) ==
  /\ Is(t, "dns", "begin")
  /\ Claimable({"settings"})
  /\ Claim(t, {"settings"})
  /\ Edit("settings", Latest("settings") \cup {t})
  /\ Goto(t, "update")
  /\ UNCHANGED <<answer, committed, lockVars, loaded, file, copy, trouble>>

(* The profile has changed, or the user has to confirm first. *)
DnsRefused(t) ==
  /\ Is(t, "dns", "begin")
  /\ Answer(t, "rejected")
  /\ Goto(t, "unlock")
  /\ UNCHANGED <<layerVars, lockVars, loaded, file, copy, trouble>>

DnsCommit(t) ==
  /\ Is(t, "dns", "commit")
  /\ Commit({"settings"})
  /\ Goto(t, "save")
  /\ UNCHANGED <<answer, lockVars, loaded, file, copy, trouble>>

DnsSave(t) ==
  /\ Is(t, "dns", "save")
  /\ \/ file' = committed["settings"] /\ Answer(t, "ok") /\ UNCHANGED trouble
     \/ trouble' = trouble \cup {"file"} /\ Answer(t, "unsaved") /\ UNCHANGED file
  /\ Goto(t, "unlock")
  /\ UNCHANGED <<layerVars, lockVars, loaded, copy>>

DnsUndo(t) ==
  /\ Is(t, "dns", "undo")
  /\ Rollback({"settings"})
  /\ Answer(t, "rejected")
  /\ Goto(t, "unlock")
  /\ UNCHANGED <<lockVars, loaded, file, copy, trouble>>

-----------------------------------------------------------------------------
(* restart: restart_core *)

RestartBegin(t) ==
  /\ Is(t, "restart", "idle")
  /\ ~updating
  /\ updating' = TRUE
  /\ Goto(t, "start")
  /\ UNCHANGED <<answer, layerVars, writeLock, loaded, file, copy, trouble>>

FlagRefused(t) ==
  /\ job[t] \in {"restart", "settle"} /\ at[t] = "idle"
  /\ updating
  /\ Refuse(t)

(* The Core is started with the latest runtime; the stop or the start may fail. *)
RestartCore(t, outcome) ==
  /\ Is(t, "restart", "start")
  /\ loaded' = CoreAfter(outcome)
  /\ Answer(t, IF outcome = "applied" THEN "ok" ELSE "rejected")
  /\ updating' = FALSE
  /\ Goto(t, "done")
  /\ UNCHANGED <<layerVars, writeLock, file, copy, trouble>>

-----------------------------------------------------------------------------
(* settle: continue_with_sidecar, of a user who is not elevated *)

SettleBegin(t) ==
  /\ Is(t, "settle", "idle")
  /\ ~updating
  /\ updating' = TRUE
  /\ Goto(t, "begin")
  /\ UNCHANGED <<answer, layerVars, writeLock, loaded, file, copy, trouble>>

(* Mutant: the preference is written off, but not saved. *)
SettleApplyUnsaved(t) ==
  /\ Is(t, "settle", "writeOffApply")
  /\ Apply({"settings"})
  /\ Goto(t, "generate")
  /\ UNCHANGED <<answer, claimed, lockVars, loaded, file, copy, trouble>>

SettleWriteOff(t) ==
  /\ Is(t, "settle", "writeOff")
  /\ Tun \in Latest("settings")
  /\ Edit("settings", Latest("settings") \ {Tun})
  /\ Goto(t, "writeOffApply")
  /\ UNCHANGED <<answer, committed, claimed, lockVars, loaded, file, copy, trouble>>

SettleApply(t) ==
  /\ Is(t, "settle", "writeOffApply")
  /\ Apply({"settings"})
  /\ Goto(t, "save")
  /\ UNCHANGED <<answer, claimed, lockVars, loaded, file, copy, trouble>>

SettleSave(t) ==
  /\ Is(t, "settle", "save")
  /\ file' = committed["settings"]
  /\ Goto(t, "generate")
  /\ UNCHANGED <<answer, layerVars, lockVars, loaded, copy, trouble>>

SettleGenerate(t) ==
  /\ \/ Is(t, "settle", "generate")
     \/ Is(t, "settle", "writeOff") /\ Tun \notin Latest("settings")
  /\ Edit("runtime", Generated)
  /\ writeLock' = Nobody
  /\ Goto(t, "start")
  /\ UNCHANGED <<answer, committed, claimed, updating, loaded, file, copy, trouble>>

(* The Sidecar may not be allowed, the save may fail, or generate() may. *)
SettleFails(t) ==
  /\ job[t] = "settle" /\ at[t] \in {"writeOff", "save", "generate"}
  /\ trouble' = trouble \cup (IF at[t] = "save" THEN {"file"} ELSE {})
  /\ Answer(t, "rejected")
  /\ Goto(t, "leave")
  /\ UNCHANGED <<layerVars, lockVars, loaded, file, copy>>

(* A Core that runs is left alone; a failure ends with none. *)
SettleStart(t) ==
  /\ Is(t, "settle", "start")
  /\ \/ loaded' = (IF loaded = NotRunning THEN Latest("runtime") ELSE loaded) /\ Answer(t, "ok")
     \/ loaded' = NotRunning /\ Answer(t, "rejected")
  /\ updating' = FALSE
  /\ Goto(t, "done")
  /\ UNCHANGED <<layerVars, writeLock, file, copy, trouble>>

LegacyEdit(t) ==
  /\ Is(t, "legacy", "idle")
  /\ Edit("settings", Latest("settings") \cup {t})
  /\ Goto(t, "persist")
  /\ UNCHANGED <<answer, committed, claimed, lockVars, loaded, file, copy, trouble>>

LegacyApply(t) ==
  /\ Is(t, "legacy", "persist")
  /\ Apply({"settings"})
  /\ copy' = [copy EXCEPT ![t] = Latest("settings")]
  /\ Goto(t, "save")
  /\ UNCHANGED <<answer, claimed, lockVars, loaded, file, trouble>>

LegacySave(t) ==
  /\ Is(t, "legacy", "save")
  /\ \/ file' = copy[t] /\ Answer(t, "ok") /\ UNCHANGED trouble
     \/ trouble' = trouble \cup {"file"} /\ Answer(t, "unsaved") /\ UNCHANGED file
  /\ Goto(t, "done")
  /\ UNCHANGED <<layerVars, lockVars, loaded, copy>>

-----------------------------------------------------------------------------
Patch(t) ==
  \/ PatchBegin(t) \/ PatchRefused(t)
  \/ PatchSnapshot(t) \/ PatchSnapshotFails(t) \/ PatchStage(t)
  \/ PatchGenerate(t) \/ \E outcome \in Outcomes : PatchApply(t, outcome)
  \/ PatchSave(t) \/ PatchFails(t) \/ PatchUndo(t)

Ports(t) ==
  \/ PortsStage(t) \/ PortsRefused(t) \/ PortsGenerate(t) \/ PortsRejected(t)
  \/ PortsSnapshot(t) \/ \E outcome \in Outcomes : PortsActivate(t, outcome)
  \/ PortsPersist(t) \/ PortsPersistFails(t)
  \/ \E outcome \in Outcomes : PortsRevert(t, outcome)

Refresh(t) ==
  \/ UpdateBegin(t) \/ UpdateBusy(t) \/ UpdateGenerate(t) \/ UpdateGenerateFails(t)
  \/ \E outcome \in Outcomes : UpdateApply(t, outcome)

Dns(t) == DnsStage(t) \/ DnsRefused(t) \/ DnsCommit(t) \/ DnsSave(t) \/ DnsUndo(t)

Restart(t) ==
  \/ RestartBegin(t) \/ FlagRefused(t)
  \/ \E outcome \in Outcomes : RestartCore(t, outcome)

Settle(t) ==
  \/ SettleBegin(t) \/ SettleWriteOff(t) \/ SettleApply(t) \/ SettleSave(t)
  \/ SettleGenerate(t) \/ SettleFails(t) \/ SettleStart(t)

Legacy(t) == LegacyEdit(t) \/ LegacyApply(t) \/ LegacySave(t)

Step(t) ==
  /\ \/ Lock(t) \/ CommitAll(t) \/ Restore(t) \/ Leave(t) \/ Unlock(t)
     \/ Patch(t) \/ Ports(t) \/ Refresh(t) \/ Dns(t) \/ Restart(t) \/ Settle(t) \/ Legacy(t)
  /\ UNCHANGED job

Finished == (\A t \in Tasks : at[t] = "done") /\ UNCHANGED vars

Next == (\E t \in Tasks : Step(t)) \/ Finished

Spec == Init /\ [][Next]_vars

(* A spawned task is polled until it ends; what it awaits is bounded by a     *)
(* timeout, or is the write lock.                                             *)
FairSpec == Spec /\ \A t \in Tasks : WF_vars(Step(t))

-----------------------------------------------------------------------------
NoneAsks(j) == \A t \in Tasks : job[t] # j

(* While every writer takes the locks, a change is in the committed settings  *)
(* exactly if its request was accepted or has only its save before it: nobody *)
(* commits a change for somebody else, and nobody's rollback or stale draft   *)
(* takes one back (DraftTransaction; the write lock of continue_with_sidecar). *)
AcceptedMeansCommitted ==
  NoneAsks("legacy") =>
    \A t \in Changers :
      t \in committed["settings"] <=>
        answer[t] \in {"ok", "unsaved"} \/ Is(t, "dns", "save")

(* A change that was turned down is not in the committed settings             *)
(* (clash-orbit-draft: rolls them all back unless committed).                 *)
RejectedIsRolledBack ==
  \A t \in Changers : answer[t] = "rejected" => t \notin committed["settings"]

(* Unless a write failed, the files show the committed settings whenever none *)
(* of the writers that take the write lock holds it (executor::apply,         *)
(* disable_tun_and_persist, rollback_proxy_ports).                            *)
FileHoldsTheCommitted ==
  NoneAsks("legacy") /\ writeLock = Nobody /\ "file" \notin trouble
    => file = committed["settings"]

(* Whenever no update is under way, the Core runs the committed runtime, also *)
(* after an update that the Core took before the rest of it failed; only      *)
(* continue_with_sidecar leaves it a draft (retain_applied_runtime,           *)
(* rollback_proxy_ports).                                                     *)
CoreRunsTheCommitted ==
  ~updating /\ "core" \notin trouble /\ NoneAsks("settle")
    => loaded \in {NotRunning, committed["runtime"]}

(* At rest the files, the committed layers and the Core say the same.         *)
LayersAgree == FileHoldsTheCommitted /\ CoreRunsTheCommitted

(* While every writer claims what it stages, a staged change is its           *)
(* claimant's and no one else's, so that a rollback discards no other         *)
(* (DraftLayer::try_claim).                                                   *)
StagedByItsClaimant ==
  NoneAsks("legacy") /\ NoneAsks("settle") =>
    /\ draft["settings"] # NoDraft =>
         /\ claimed["settings"] # Nobody
         /\ draft["settings"] = committed["settings"] \cup {claimed["settings"]}
    /\ draft["runtime"] # NoDraft => claimed["runtime"] # Nobody

Runs(change) == loaded # NotRunning /\ change \in loaded

(* Saving the ports is all or nothing: ports that were turned down are in no  *)
(* layer, and the Core listens on none of them unless bringing the previous   *)
(* Core back failed as well (save_proxy_ports).                               *)
PortsAllOrNothing ==
  NoneAsks("legacy") =>
    \A t \in Tasks :
      job[t] = "ports" /\ answer[t] = "rejected" =>
        /\ t \notin committed["runtime"]
        /\ Runs(t) => "core" \in trouble

(* Accepted ports and an accepted DNS setting are in the runtime, whatever    *)
(* updates overlapped with them (update_config_checked under the claim).      *)
AcceptedReachesTheRuntime ==
  \A t \in Tasks :
    job[t] \in {"ports", "dns"} /\ answer[t] \in {"ok", "unsaved"} => t \in committed["runtime"]

(* Once continuing with the Sidecar has written TUN off and succeeded, no     *)
(* Core is started with TUN (continue_with_sidecar).                          *)
NoCoreStartsWithTun ==
  [][/\ \E t \in Tasks : job[t] = "settle" /\ answer[t] = "ok"
     /\ loaded' # loaded
     => ~Runs(Tun)']_vars

(* Every request ends, whatever it waits for behind the others: the write     *)
(* lock and the update flag are never each held by one that waits for the     *)
(* other.                                                                     *)
EveryRequestEnds == <>(\A t \in Tasks : at[t] = "done")
=============================================================================

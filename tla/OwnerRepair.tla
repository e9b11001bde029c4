------------------------------ MODULE OwnerRepair ------------------------------
\* The owner of the data directory on Windows (core/owner_identity.rs): before
\* anything opens a file there, a directory that belongs to another account is
\* taken over, or rebuilt: set aside, made anew, and filled from what was set
\* aside. Then the owner token the Service compares is loaded or made.
EXTENDS Naturals

CONSTANTS
  Data,         \* the entries of the directory that are the user's
  Loaders,      \* the threads that ask for the owner token
  MaxRepairs,   \* bound: starts of the application
  MaxTokens     \* bound: owner tokens made

VARIABLES
  repair,       \* where the repair is
  rootOwner,    \* who owns the directory: "me", "other", "absent"
  inRoot, inStale,  \* the entries in it, and in the one set aside
  stray,        \* the entries in directories that earlier processes set aside
  reserved, staleReserved,  \* [Reserved -> who owns the file, or "absent"]
  lockLive,     \* another instance of this user has the lock file open
  repaired,     \* what the last repair returned
  token,        \* the owner token: 0 (an empty file) or its value
  loading,      \* [Loaders -> 0, or the value it is about to write]
  made,         \* the tokens made so far
  loaded,       \* the values that loads returned since the file was made
  unrestored,   \* history: the way back failed, or the process was killed
  torn,         \* history: an earlier process ended with entries set aside
  repairs

root == <<rootOwner, inRoot, reserved>>
aside == <<inStale, staleReserved>>
tokens == <<token, loading, made, loaded>>
repairVars == <<repair, root, aside, stray, lockLive, repaired, tokens, unrestored, torn, repairs>>

Reserved == {"token", "record", "lock"}
Owners == {"me", "other", "absent"}
RepairSteps == {"idle", "inspecting", "settingAside", "creating", "owning", "moving", "restoring",
                "renamingBack", "dropping"}
TypeOK ==
  /\ repair \in RepairSteps /\ rootOwner \in Owners /\ {torn, unrestored, lockLive} \subseteq BOOLEAN
  /\ inRoot \subseteq Data /\ inStale \subseteq Data /\ stray \subseteq Data
  /\ reserved \in [Reserved -> Owners] /\ staleReserved \in [Reserved -> Owners]
  /\ repaired \in {"none", "ok", "failed"} /\ repairs \in 0..MaxRepairs
  /\ token \in 0..MaxTokens /\ made \in 1..MaxTokens
  /\ loading \in [Loaders -> 0..MaxTokens] /\ loaded \subseteq 1..MaxTokens

Absent == [f \in Reserved |-> "absent"]
\* An earlier account or an elevated process left the directory and its files.
InitRepair ==
  /\ repair = "idle" /\ rootOwner \in {"me", "other"} /\ inRoot = Data /\ inStale = {} /\ stray = {}
  /\ reserved \in [Reserved -> Owners] /\ staleReserved = Absent
  /\ lockLive \in (IF reserved["lock"] = "me" THEN BOOLEAN ELSE {FALSE})
  /\ repaired = "none" /\ token = 1 /\ made = 1 /\ loading = [l \in Loaders |-> 0] /\ loaded = {}
  /\ unrestored = FALSE /\ torn = FALSE /\ repairs = 0

Goto(s) == repair' = s
Failed == Goto("idle") /\ repaired' = "failed"
Undone == Failed /\ UNCHANGED unrestored
Split == Failed /\ unrestored' = TRUE
-----------------------------------------------------------------------------
(* repair_root_owner                                                          *)

\* The directory is made if it is not there; an elevated process does not own it.
BeginRepair ==
  /\ repair = "idle" /\ repairs < MaxRepairs /\ repairs' = repairs + 1 /\ Goto("inspecting")
  /\ rootOwner' \in (IF rootOwner = "absent" THEN {"me", "other"} ELSE {rootOwner})
  /\ stray' = stray \cup inStale /\ inStale' = {} /\ staleReserved' = Absent /\ repaired' = "none"
  /\ loading' = [l \in Loaders |-> 0] /\ loaded' = {}
  /\ torn' = (torn \/ inStale # {}) /\ unrestored' = FALSE
  /\ UNCHANGED <<inRoot, reserved, lockLive, token, made>>

\* take_directory_ownership: only a takeover that is refused leads to a rebuild.
Inspect ==
  /\ repair = "inspecting"
  /\ \/ rootOwner = "me" /\ Goto("dropping") /\ UNCHANGED <<rootOwner, repaired, unrestored>>
     \/ rootOwner = "other" /\ Goto("dropping") /\ rootOwner' = "me" /\ UNCHANGED <<repaired, unrestored>>
     \/ rootOwner = "other" /\ Goto("settingAside") /\ UNCHANGED <<rootOwner, repaired, unrestored>>
     \/ Undone /\ UNCHANGED rootOwner
  /\ UNCHANGED <<inRoot, reserved, aside, stray, lockLive, tokens, torn, repairs>>

\* Mutant: the lock file is opened so that it can be deleted and renamed.
AnyLockMoves == TRUE
\* open_or_create_lock_file: a live lock is opened without FILE_SHARE_DELETE.
LockMoves == ~lockLive

SetRootAside ==
  /\ repair = "settingAside"
  /\ \/ /\ LockMoves /\ Goto("creating") /\ rootOwner' = "absent"
        /\ inStale' = inRoot /\ inRoot' = {} /\ staleReserved' = reserved /\ reserved' = Absent
        /\ UNCHANGED <<repaired, unrestored>>
     \/ Undone /\ UNCHANGED <<root, aside>>
  /\ UNCHANGED <<stray, lockLive, tokens, torn, repairs>>

PutBackWhole == rootOwner' = "other" /\ inRoot' = inStale /\ inStale' = {}
                /\ reserved' = staleReserved /\ staleReserved' = Absent
CreateRoot ==
  /\ repair = "creating"
  /\ \/ Goto("owning") /\ rootOwner' \in {"me", "other"} /\ UNCHANGED <<inRoot, reserved, aside, repaired, unrestored>>
     \/ PutBackWhole /\ Undone
     \/ UNCHANGED <<root, aside>> /\ Split
  /\ UNCHANGED <<stray, lockLive, tokens, torn, repairs>>

\* repopulate_root: the new directory is taken over too.
OwnRoot ==
  /\ repair = "owning"
  /\ \/ Goto("moving") /\ rootOwner' = "me"
     \/ Goto("restoring") /\ UNCHANGED rootOwner
  /\ UNCHANGED <<inRoot, reserved, aside, stray, lockLive, repaired, tokens, unrestored, torn, repairs>>

\* Mutant: an entry that cannot be moved is passed over.
MoveWhatMoves ==
  /\ repair = "moving"
  /\ \E d \in SUBSET inStale : inRoot' = inRoot \cup d /\ inStale' = inStale \ d
  /\ Goto("dropping") /\ staleReserved' = Absent
  /\ UNCHANGED <<rootOwner, reserved, stray, lockLive, repaired, tokens, unrestored, torn, repairs>>
\* Mutant: what was set aside is removed though an entry failed to move.
RemoveAnyway ==
  /\ repair = "moving" /\ inStale' = {} /\ staleReserved' = Absent
  /\ \E d \in SUBSET inStale : inRoot' = inRoot \cup d
  /\ Goto("dropping")
  /\ UNCHANGED <<rootOwner, reserved, stray, lockLive, repaired, tokens, unrestored, torn, repairs>>
\* One entry after another, the reserved files stay; what was set aside is removed
\* when it holds nothing else.
MoveEntry ==
  /\ repair = "moving"
  /\ \/ \E d \in inStale : inRoot' = inRoot \cup {d} /\ inStale' = inStale \ {d} /\ UNCHANGED <<repair, staleReserved>>
     \/ inStale # {} /\ Goto("restoring") /\ UNCHANGED <<inRoot, aside>>
     \/ inStale = {} /\ Goto("dropping") /\ staleReserved' = Absent /\ UNCHANGED <<inRoot, inStale>>
  /\ UNCHANGED <<rootOwner, reserved, stray, lockLive, repaired, tokens, unrestored, torn, repairs>>

\* Mutant: a rebuild that failed leaves what it has.
RestoreNothing ==
  /\ repair = "restoring" /\ UNCHANGED <<root, aside>> /\ Undone
  /\ UNCHANGED <<stray, lockLive, tokens, torn, repairs>>
\* restore_root, one entry after another; a failure of its own is reported.
RestoreEntry ==
  /\ repair = "restoring"
  /\ \/ \E d \in inRoot : inStale' = inStale \cup {d} /\ inRoot' = inRoot \ {d} /\ UNCHANGED <<repair, rootOwner, repaired, unrestored>>
     \/ inRoot = {} /\ Goto("renamingBack") /\ rootOwner' = "absent" /\ UNCHANGED <<inRoot, inStale, repaired, unrestored>>
     \/ UNCHANGED <<rootOwner, inRoot, inStale>> /\ Split
  /\ UNCHANGED <<reserved, staleReserved, stray, lockLive, tokens, torn, repairs>>
RenameBack ==
  /\ repair = "renamingBack"
  /\ (PutBackWhole /\ Undone) \/ (UNCHANGED <<root, aside>> /\ Split)
  /\ UNCHANGED <<stray, lockLive, tokens, torn, repairs>>

\* Mutant: only the token is compared.
DropToken ==
  /\ repair = "dropping" /\ Goto("idle") /\ repaired' = "ok"
  /\ reserved' = [reserved EXCEPT !["token"] = IF @ = "other" THEN "absent" ELSE @]
  /\ UNCHANGED <<rootOwner, inRoot, aside, stray, lockLive, tokens, unrestored, torn, repairs>>
\* drop_files_owned_by_others: a file that cannot be inspected goes too, but for
\* the lock; one that cannot be dropped fails the repair.
DropFiles ==
  /\ repair = "dropping"
  /\ \E unread \in SUBSET {"token", "record"} :
       LET stale == {f \in Reserved : reserved[f] = "other"} \cup unread
           Drop(gone) == reserved' = [f \in Reserved |-> IF f \in gone THEN "absent" ELSE reserved[f]]
       IN \/ Drop(stale) /\ Goto("idle") /\ repaired' = "ok" /\ UNCHANGED unrestored
          \/ Undone /\ \E gone \in SUBSET stale : Drop(gone)
  /\ UNCHANGED <<rootOwner, inRoot, aside, stray, lockLive, tokens, torn, repairs>>

\* The process is killed within the repair.
KilledInRepair ==
  /\ repair # "idle" /\ Goto("idle") /\ UNCHANGED <<root, aside>>
  /\ UNCHANGED <<stray, lockLive, repaired, tokens, unrestored, torn, repairs>>
-----------------------------------------------------------------------------
(* load_or_create_token                                                       *)

Working == repair = "idle" /\ repaired # "none" /\ rootOwner # "absent"

\* Mutant: a token that is there is made again.
MakeAgain(l) ==
  /\ Working /\ loading[l] = 0 /\ made < MaxTokens /\ made' = made + 1
  /\ reserved' = [reserved EXCEPT !["token"] = "me"] /\ token' = 0
  /\ loading' = [loading EXCEPT ![l] = made + 1]
  /\ UNCHANGED <<repair, rootOwner, inRoot, aside, stray, lockLive, repaired, loaded, unrestored, torn, repairs>>
\* CREATE_NEW: one thread makes the file, and writes it afterwards.
MakeToken(l) ==
  /\ Working /\ loading[l] = 0 /\ reserved["token"] = "absent" /\ made < MaxTokens /\ made' = made + 1
  /\ reserved' = [reserved EXCEPT !["token"] = "me"] /\ token' = 0
  /\ loading' = [loading EXCEPT ![l] = made + 1]
  /\ UNCHANGED <<repair, rootOwner, inRoot, aside, stray, lockLive, repaired, loaded, unrestored, torn, repairs>>
WriteToken(l) ==
  /\ loading[l] # 0 /\ repair = "idle" /\ token' = loading[l] /\ loaded' = loaded \cup {loading[l]}
  /\ loading' = [loading EXCEPT ![l] = 0]
  /\ UNCHANGED <<repair, root, aside, stray, lockLive, repaired, made, unrestored, torn, repairs>>
\* validate_private_file, validate_token_file: another owner's is refused.
Validated(f) == reserved[f] = "me"
\* An empty file fails to be read.
LoadToken(l) ==
  /\ Working /\ loading[l] = 0 /\ Validated("token") /\ token # 0
  /\ loaded' = loaded \cup {token}
  /\ UNCHANGED <<repair, root, aside, stray, lockLive, repaired, token, loading, made, unrestored, torn, repairs>>

NextRepair ==
  \/ BeginRepair \/ Inspect \/ SetRootAside \/ CreateRoot \/ OwnRoot \/ MoveEntry \/ RestoreEntry
  \/ RenameBack \/ DropFiles \/ KilledInRepair
  \/ \E l \in Loaders : MakeToken(l) \/ WriteToken(l) \/ LoadToken(l)
-----------------------------------------------------------------------------
(* Properties                                                                 *)

\* No entry of the user is lost, whatever fails and wherever the process is
\* killed: it is in the directory, or in one that was set aside (rebuild_root).
NoDataIsLost == inRoot \cup inStale \cup stray = Data

\* A repair that succeeded leaves the whole of the data in a directory of the
\* user, with no file of another account that would be compared. An earlier
\* process that died over a rebuild is told apart: its data stays aside.
RepairedMeansWhole ==
  repaired = "ok" => /\ rootOwner = "me" /\ (inRoot = Data \/ torn)
                     /\ \A f \in Reserved : reserved[f] # "other"

\* A rebuild that failed is put back: a directory that is half filled would read
\* as a fresh installation. Failing over that is reported and told apart.
FailedRebuildsAreUndone == (repaired = "failed" /\ ~unrestored) => inRoot = Data \/ torn

\* The lock file another instance has open stays: a second one beside it would
\* let two instances run (open_or_create_lock_file).
LiveLocksStay == lockLive => reserved["lock"] = "me"

\* All loads of one start return the token that is in the file: the Service
\* compares that one (load_or_create_token).
TokensAgree == loaded \subseteq {token}
=============================================================================

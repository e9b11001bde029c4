------------------------------ MODULE LaunchGuard ------------------------------
\* The move to the Applications folder on macOS, before anything else runs
\* (utils/macos_launch_guard.rs): a copy beside the destination, a swap of two
\* renames, a start of the copy, and the way back. Every step may fail and the
\* process may be killed between any two.
\*
\* A bundle is "new" (the one that was started), "old" (the one installed
\* before), "part" (a copy or a removal that did not end) or "none".
EXTENDS Naturals

CONSTANTS
  MaxMoves      \* bound: starts of the application from outside the folder

VARIABLES
  moving,       \* where the guard is
  source,       \* the bundle that was started
  destination, staging, backup,
  orphans,      \* the backups of processes that ended: their names have other pids
  hadDestination,  \* activate_staged_bundle set one aside
  moved,        \* what the last start was told: "none", "failed", "moved", "kept"
  before,       \* history: the destination when the move began
  installed,    \* history: the destination at first
  relaunched,   \* history: a move opened the destination
  unreturned,   \* history: a rename of the way back failed
  moves

bundles == <<source, destination, staging, backup, orphans>>
moveHistory == <<moved, before, installed, relaunched, unreturned, moves>>
guardVars == <<moving, bundles, hadDestination, moveHistory>>

Bundles == {"new", "old", "part", "none"}
GuardSteps == {"idle", "asking", "copying", "activating", "swapping", "opening", "returning",
               "puttingBack", "clearing", "tidying", "removing"}
TypeOK ==
  /\ moving \in GuardSteps /\ {source, destination, staging, backup, before, installed} \subseteq Bundles
  /\ hadDestination \in BOOLEAN /\ moved \in {"none", "failed", "moved", "kept"}
  /\ orphans \subseteq Bundles /\ relaunched \in BOOLEAN /\ unreturned \in BOOLEAN /\ moves \in 0..MaxMoves

InitGuard ==
  /\ moving = "idle" /\ source = "new" /\ destination \in {"old", "none"}
  /\ staging = "none" /\ backup = "none" /\ orphans = {} /\ hadDestination = FALSE
  /\ moved = "none" /\ before = destination /\ installed = destination /\ relaunched = FALSE /\ unreturned = FALSE /\ moves = 0

Step(s) == moving' = s
Told(s) == Step("idle") /\ moved' = s
-----------------------------------------------------------------------------
(* enforce_before_initialization                                              *)

\* evaluate_install_location, move_decision: a start from a folder that is
\* allowed goes on, a translocated one and one without a bundle only tell.
Start ==
  /\ moving = "idle" /\ moves < MaxMoves /\ moves' = moves + 1 /\ source = "new"
  /\ before' = destination /\ unreturned' = FALSE
  /\ Step("asking") \/ Step("idle")
  /\ orphans' = orphans \cup {backup} /\ backup' = "none" /\ staging' = "none"
  /\ moved' = "none" /\ UNCHANGED <<source, destination, hadDestination, installed, relaunched>>

\* The user may decline, and the folder may be one that cannot be made. What a
\* process of the same pid left is removed.
Confirm ==
  /\ moving = "asking"
  /\ \/ Told("kept") /\ UNCHANGED <<staging, backup>>
     \/ Step("copying") /\ staging' = "part" /\ backup' = "none" /\ UNCHANGED moved
  /\ UNCHANGED <<source, destination, orphans, hadDestination, before, installed, relaunched, unreturned, moves>>

\* ditto; a copy that failed is removed.
Copy ==
  /\ moving = "copying"
  /\ \/ staging' = source /\ Step("activating") /\ UNCHANGED moved
     \/ staging' = "none" /\ Told("failed")
  /\ UNCHANGED <<source, destination, backup, orphans, hadDestination, before, installed, relaunched, unreturned, moves>>

\* Mutant: the installed bundle is removed to make room.
DeleteOld ==
  /\ moving = "activating" /\ Step("swapping") /\ hadDestination' = FALSE
  /\ destination' = "none"
  /\ UNCHANGED <<source, staging, backup, orphans, moveHistory>>
\* activate_staged_bundle: what is there is set aside.
SetAside ==
  /\ moving = "activating"
  /\ \/ /\ destination = "none" /\ hadDestination' = FALSE /\ Step("swapping")
        /\ UNCHANGED <<destination, staging, backup, moved>>
     \/ /\ destination # "none" /\ hadDestination' = TRUE /\ Step("swapping")
        /\ backup' = destination /\ destination' = "none" /\ UNCHANGED <<staging, moved>>
     \/ Told("failed") /\ staging' = "none" /\ UNCHANGED <<destination, backup, hadDestination>>
  /\ UNCHANGED <<source, orphans, before, installed, relaunched, unreturned, moves>>

\* Mutant: the swap that failed leaves the old bundle aside.
SwapOrLeave ==
  /\ moving = "swapping"
  /\ \/ destination' = staging /\ Step("opening") /\ UNCHANGED <<backup, moved>>
     \/ Told("failed") /\ UNCHANGED <<destination, backup>>
  /\ staging' = "none"
  /\ UNCHANGED <<source, orphans, hadDestination, before, installed, relaunched, unreturned, moves>>
\* The copy takes its place; when it cannot, the old bundle is put back.
Swap ==
  /\ moving = "swapping"
  /\ \/ destination' = staging /\ Step("opening") /\ UNCHANGED <<backup, moved, unreturned>>
     \/ /\ Told("failed")
        /\ \/ hadDestination /\ destination' = backup /\ backup' = "none" /\ UNCHANGED unreturned
           \/ hadDestination /\ unreturned' = TRUE /\ UNCHANGED <<destination, backup>>
           \/ ~hadDestination /\ UNCHANGED <<destination, backup, unreturned>>
  /\ staging' = "none"
  /\ UNCHANGED <<source, orphans, hadDestination, before, installed, relaunched, moves>>

\* Mutant: the bundle that was started goes before the copy was opened.
OpenLast ==
  /\ moving = "opening" /\ source' = "none"
  /\ \/ Step("tidying") /\ relaunched' = TRUE /\ UNCHANGED moved
     \/ hadDestination /\ Step("returning") /\ UNCHANGED <<moved, relaunched>>
     \/ ~hadDestination /\ Told("failed") /\ UNCHANGED relaunched
  /\ UNCHANGED <<destination, staging, backup, orphans, hadDestination, before, installed, unreturned, moves>>

\* open -n.
Open ==
  /\ moving = "opening"
  /\ \/ Step("tidying") /\ relaunched' = TRUE /\ UNCHANGED moved
     \/ hadDestination /\ Step("returning") /\ UNCHANGED <<moved, relaunched>>
     \/ ~hadDestination /\ Told("failed") /\ UNCHANGED relaunched
  /\ UNCHANGED <<bundles, hadDestination, before, installed, unreturned, moves>>
-----------------------------------------------------------------------------
(* The way back, and the way on                                               *)

Return ==
  /\ moving = "returning"
  /\ \/ staging' = destination /\ destination' = "none" /\ Step("puttingBack") /\ UNCHANGED <<moved, unreturned>>
     \/ Told("failed") /\ unreturned' = TRUE /\ UNCHANGED <<staging, destination>>
  /\ UNCHANGED <<source, backup, orphans, hadDestination, before, installed, relaunched, moves>>

PutBack ==
  /\ moving = "puttingBack" /\ Step("clearing")
  /\ \/ destination' = backup /\ backup' = "none" /\ UNCHANGED unreturned
     \/ unreturned' = TRUE /\ UNCHANGED <<destination, backup>>
  /\ UNCHANGED <<source, staging, orphans, hadDestination, moved, before, installed, relaunched, moves>>

ClearStaging ==
  /\ moving = "clearing" /\ Told("failed") /\ staging' \in {"none", "part"}
  /\ UNCHANGED <<source, destination, backup, orphans, hadDestination, before, installed, relaunched, unreturned, moves>>

RemoveBackup ==
  /\ moving = "tidying" /\ Step("removing") /\ backup' \in {"none"} \cup (IF backup = "none" THEN {} ELSE {"part"})
  /\ UNCHANGED <<source, destination, staging, orphans, hadDestination, moveHistory>>
RemoveSource ==
  /\ moving = "removing" /\ Told("moved") /\ source' \in {"none", "part", source}
  /\ UNCHANGED <<destination, staging, backup, orphans, hadDestination, before, installed, relaunched, unreturned, moves>>

\* The process is killed; the next one has siblings of its own.
Killed ==
  /\ moving # "idle" /\ Step("idle") /\ moved' = "none"
  /\ orphans' = orphans \cup {backup} /\ backup' = "none" /\ staging' = "none"
  /\ UNCHANGED <<source, destination, hadDestination, before, installed, relaunched, unreturned, moves>>

NextGuard ==
  \/ Start \/ Confirm \/ Copy \/ SetAside \/ Swap \/ Open \/ Return \/ PutBack \/ ClearStaging
  \/ RemoveBackup \/ RemoveSource \/ Killed
-----------------------------------------------------------------------------
(* Properties                                                                 *)

\* Whatever fails and wherever the process is killed, a whole bundle can be
\* started: the one that was, or one in the folder (move_and_relaunch).
ABundleStays ==
  /\ source = "new" \/ destination \in {"old", "new"}
  /\ destination # "part"

\* The installed bundle is not given up before the new one was opened.
InstallationIsKept ==
  (installed = "old" /\ ~relaunched) => ("old" \in {destination, backup} \cup orphans)

\* A move that is reported as failed leaves the bundle that was installed, unless
\* the file system refuses the way back as well (activate_staged_bundle).
FailedMovesAreUndone ==
  (moved = "failed" /\ ~unreturned /\ before = "old") => destination = "old"
=============================================================================

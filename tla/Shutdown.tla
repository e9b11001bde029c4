------------------------------ MODULE Shutdown ------------------------------
\* Leaving the application: quit, restart_app, the signal and developer latches,
\* the ExitRequested and Exit events of the main loop (feat/window.rs,
\* feat/clash.rs, lib.rs, clash-orbit-signal).
\*
\* Nothing keeps two quits apart: the latch covers the signals and the
\* developer endpoint, each for itself, and the menu, the hotkey, a restart and
\* the main loop call quit directly. They share one flag, is_exiting.
EXTENDS Naturals

CONSTANTS
  Quitters,     \* the ways a quit starts: "signal", "menu", "restart", "loop"
  MaxAttempts   \* bound: quits begun over a behaviour

VARIABLES
  stage,        \* [Quitters -> where its quit is]
  latch,        \* SHUTDOWN_LATCH
  exiting,      \* Handle::is_exiting
  core, dns,    \* the Core, and the resolver setting that belongs to it
  server,       \* the embedded server answers other instances
  light,        \* lightweight mode: no window, and no exit for want of one
  posted,       \* an exit with a code waits in the main loop
  app,          \* "running", "leaving" (the loop is gone), "exited"
  unheard,      \* a cancelled quit whose notice was dropped
  overlapped,   \* a quit cleared is_exiting under another one
  abandoned,    \* the session ended before the clean-up did
  unrestored,   \* the script that gives the resolver setting back failed
  attempts

flags == <<latch, exiting>>
kept == <<server, light, posted, app>>
history == <<unheard, overlapped, abandoned, unrestored, attempts>>
shutdownVars == <<stage, flags, core, dns, kept, history>>

Stages == {"idle", "saving", "stopping", "stopped", "clean", "failed", "cleared", "done"}
TypeOK ==
  /\ stage \in [Quitters -> Stages] /\ latch \in BOOLEAN /\ exiting \in BOOLEAN
  /\ core \in {"running", "stopped"} /\ dns \in {"core", "public"}
  /\ server \in BOOLEAN /\ light \in BOOLEAN /\ posted \in BOOLEAN
  /\ app \in {"running", "leaving", "exited"}
  /\ unheard \in BOOLEAN /\ overlapped \in BOOLEAN /\ abandoned \in BOOLEAN
  /\ unrestored \in BOOLEAN /\ attempts \in 0..MaxAttempts

InitShutdown ==
  /\ stage = [q \in Quitters |-> "idle"] /\ latch = FALSE /\ exiting = FALSE
  /\ core = "running" /\ dns = "core" /\ server = TRUE /\ light \in BOOLEAN
  /\ posted = FALSE /\ app = "running"
  /\ unheard = FALSE /\ overlapped = FALSE /\ abandoned = FALSE /\ unrestored = FALSE
  /\ attempts = 0

InProgress(q) == stage[q] \notin {"idle", "done"}
\* The main loop runs its own quit to the end before it looks at anything else.
LoopIsFree == "loop" \notin Quitters \/ ~InProgress("loop")
Move(q, s) == stage' = [stage EXCEPT ![q] = s]
-----------------------------------------------------------------------------
(* A quit                                                                     *)

\* ShutdownLatch::try_begin: the signals ask the latch, the others do not.
Latched(q) == q = "signal"
\* The loop quits by itself only for a last window closed outside lightweight mode.
MayBegin(q) ==
  /\ Latched(q) => ~latch
  /\ q = "loop" => ~light /\ ~exiting

\* set_is_exiting, before the settings are saved.
Begin(q) ==
  /\ app = "running" /\ attempts < MaxAttempts
  /\ stage[q] = "idle" /\ MayBegin(q)
  /\ Move(q, "saving") /\ exiting' = TRUE /\ latch' = (latch \/ Latched(q))
  /\ attempts' = attempts + 1
  /\ UNCHANGED <<core, dns, kept, unheard, overlapped, abandoned, unrestored>>

\* Config::apply_all_and_save_file.
Saved(q) ==
  /\ app # "exited" /\ stage[q] = "saving" /\ Move(q, "stopping")
  /\ UNCHANGED <<flags, core, dns, kept, history>>

\* clean_async: the Core first; the resolver goes back only when it stopped. A
\* stop that failed may have stopped it all the same.
StopCore(q) ==
  /\ app # "exited" /\ stage[q] = "stopping"
  /\ \/ core' = "stopped" /\ Move(q, "stopped")
     \/ core' \in {core, "stopped"} /\ Move(q, "failed")
  /\ UNCHANGED <<flags, dns, kept, history>>

\* The script that gives the setting back may fail; the exit goes on without it.
GiveBack ==
  \/ dns' = "public" /\ UNCHANGED unrestored
  \/ unrestored' = TRUE /\ UNCHANGED dns

RestoreDns(q) ==
  /\ app # "exited" /\ stage[q] = "stopped" /\ Move(q, "clean")
  /\ GiveBack
  /\ UNCHANGED <<flags, core, kept, unheard, overlapped, abandoned, attempts>>

\* Mutant: a quit that is called off forgets the flag.
ClearNothing(q) ==
  /\ app # "exited" /\ stage[q] = "failed" /\ Move(q, "cleared")
  /\ UNCHANGED <<flags, core, dns, kept, history>>

\* The Core did not stop: the exit is off, is_exiting is cleared for everybody.
ClearExiting(q) ==
  /\ app # "exited" /\ stage[q] = "failed" /\ Move(q, "cleared")
  /\ exiting' = FALSE
  /\ overlapped' = (overlapped \/ \E p \in Quitters \ {q} : InProgress(p) \/ posted)
  /\ UNCHANGED <<latch, core, dns, kept, unheard, abandoned, unrestored, attempts>>

\* Mutant: the latch stays closed.
CanceledLatched(q) ==
  /\ app # "exited" /\ stage[q] = "cleared" /\ Move(q, "idle")
  /\ UNCHANGED <<flags, core, dns, kept, history>>

\* Mutant: the resolver setting of a Core that did stop is left.
CanceledOnly(q) ==
  /\ app # "exited" /\ stage[q] = "cleared" /\ Move(q, "idle")
  /\ latch' = (latch /\ ~Latched(q))
  /\ UNCHANGED <<exiting, core, dns, kept, history>>

\* A Core that stopped all the same loses the resolver setting, unless another
\* quit sees to it (sync_public_dns). The user is told, and the latch takes the
\* next signal. An event of an application that is exiting is dropped.
Canceled(q) ==
  /\ app # "exited" /\ stage[q] = "cleared" /\ Move(q, "idle")
  /\ latch' = (latch /\ ~Latched(q))
  /\ unheard' = (unheard \/ (exiting /\ ~\E p \in Quitters \ {q} : InProgress(p) \/ stage[p] = "done"))
  /\ IF core = "stopped" /\ ~exiting THEN GiveBack ELSE UNCHANGED <<dns, unrestored>>
  /\ UNCHANGED <<exiting, core, kept, overlapped, abandoned, attempts>>

\* The server closes and the loop is asked to exit with a code.
Commit(q) ==
  /\ app # "exited" /\ stage[q] = "clean" /\ Move(q, "done")
  /\ server' = FALSE /\ posted' = TRUE
  /\ UNCHANGED <<flags, core, dns, light, app, history>>
-----------------------------------------------------------------------------
(* The main loop                                                              *)

\* Mutant: an application in lightweight mode is kept, exiting or not.
LoopKeepsLightweight ==
  /\ app = "running" /\ posted /\ LoopIsFree /\ posted' = FALSE
  /\ IF light THEN UNCHANGED app ELSE app' = "leaving"
  /\ UNCHANGED <<stage, flags, core, dns, server, light, history>>

\* ExitRequested: lightweight mode keeps an application that is not exiting.
LoopExits ==
  /\ app = "running" /\ posted /\ LoopIsFree /\ posted' = FALSE
  /\ IF light /\ ~exiting THEN UNCHANGED app ELSE app' = "leaving"
  /\ UNCHANGED <<stage, flags, core, dns, server, light, history>>

\* A session that ends takes the loop away without asking.
SessionEnds ==
  /\ app = "running" /\ LoopIsFree /\ app' = "leaving"
  /\ UNCHANGED <<stage, flags, core, dns, server, light, posted, history>>

\* Exit: an application nobody quit stops its Core within a hard deadline; one
\* that is exiting trusts the quit that made it so.
LeaveQuietly ==
  /\ app = "leaving" /\ exiting /\ app' = "exited"
  /\ abandoned' = (abandoned \/ \A q \in Quitters : stage[q] # "done")
  /\ UNCHANGED <<stage, flags, core, dns, server, light, posted, unheard, overlapped, unrestored,
                 attempts>>

\* Mutant: leaving does not clean up.
LeaveUnclean ==
  /\ app = "leaving" /\ ~exiting /\ exiting' = TRUE /\ app' = "exited"
  /\ UNCHANGED <<stage, latch, core, dns, server, light, posted, history>>

CleanAndLeave ==
  /\ app = "leaving" /\ ~exiting /\ exiting' = TRUE /\ app' = "exited"
  /\ \/ core' = "stopped" /\ dns' = "public" /\ UNCHANGED abandoned
     \/ core' = "stopped" /\ UNCHANGED dns /\ abandoned' = TRUE
     \/ UNCHANGED <<core, dns>> /\ abandoned' = TRUE
  /\ UNCHANGED <<stage, latch, server, light, posted, unheard, overlapped, unrestored, attempts>>

\* Mutant: nobody asks whether the application is exiting.
CoreStartsAnyway ==
  /\ app = "running" /\ core = "stopped"
  /\ core' = "running" /\ dns' = "core"
  /\ UNCHANGED <<stage, flags, kept, history>>

\* Recoveries and configuration changes start a Core that is not running, and
\* refuse to while the application is exiting.
CoreStarts ==
  /\ app = "running" /\ core = "stopped" /\ ~exiting
  /\ core' = "running" /\ dns' = "core"
  /\ UNCHANGED <<stage, flags, kept, history>>

ToggleLightweight ==
  /\ app = "running" /\ light' = ~light
  /\ UNCHANGED <<stage, flags, core, dns, server, posted, app, history>>

NextShutdown ==
  \/ \E q \in Quitters :
       \/ Begin(q) \/ Saved(q) \/ StopCore(q) \/ RestoreDns(q)
       \/ ClearExiting(q) \/ Canceled(q) \/ Commit(q)
  \/ LoopExits \/ SessionEnds \/ LeaveQuietly \/ CleanAndLeave
  \/ CoreStarts \/ ToggleLightweight

SpecShutdown == InitShutdown /\ [][NextShutdown]_shutdownVars
-----------------------------------------------------------------------------
(* Properties                                                                 *)

\* An application that left by itself left no Core running and gave the resolver
\* setting back (feat/window.rs quit, clean_async), however a quit, a restart of
\* the Core and the end of the session interleave. Two cases are excepted: the
\* session gave the clean-up no time, and a quit that failed cleared is_exiting
\* under one that went on.
ExitLeavesNothing ==
  app = "exited" /\ ~abandoned /\ ~overlapped =>
    core = "stopped" /\ (dns = "public" \/ unrestored)

\* A quit that went through ends the application (lib.rs ExitRequested): it is
\* never kept by lightweight mode, with its Core stopped and its server closed.
CommittedQuitsGoThrough ==
  (\E q \in Quitters : stage[q] = "done") /\ ~overlapped /\ app = "running" => posted

\* A quit that was called off leaves the application as it was: not exiting, with
\* its server, and open to the next signal. The user has been told of it, and the
\* resolver setting is the one the Core that was left asks for.
CanceledQuitsAreUndone ==
  app = "running" /\ (\A q \in Quitters : stage[q] = "idle") =>
    /\ ~exiting /\ ~latch /\ server /\ ~unheard
    /\ dns = (IF core = "running" THEN "core" ELSE "public") \/ unrestored
=============================================================================

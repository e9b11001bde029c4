----------------------------- MODULE EdgesProofs -----------------------------
(***************************************************************************)
(* Proofs about the components of Edges, for every value of their          *)
(* constants that the module's assumptions allow: any callers of a quit,   *)
(* requests, crashes, overrides, lists of members, versions of a cache,    *)
(* providers, instances, entries of the data directory, and keys.          *)
(*                                                                         *)
(* Each component has an invariant of its own, with three lemmas: that it  *)
(* starts in it, that each of its steps keeps it, and what it shows.  The  *)
(* composition at the end puts them together.                              *)
(***************************************************************************)
EXTENDS Edges, FiniteSetTheorems, SequenceTheorems, TLAPS

BeforeN == {p \in Nat \X Nat : p[1] < p[2]}

(* Of several numbers there is a least one. *)
LEMMA LeastNumber ==
  ASSUME NEW S, S \subseteq Nat, S # {}
  PROVE  \E x \in S : \A y \in S : x <= y
<1>1. IsWellFoundedOn(BeforeN, Nat)
  BY NatLessThanWellFounded DEF OpToRel, BeforeN
<1>2. PICK x \in S : \A y \in S : ~(<<y, x>> \in BeforeN)
  BY <1>1, WFMin
<1>3. ASSUME NEW y \in S
      PROVE  x <= y
  <2>1. y \in Nat /\ x \in Nat /\ <<y, x>> \in Nat \X Nat /\ <<y, x>> \notin BeforeN
    BY <1>2
  <2>2. ~(<<y, x>>[1] < <<y, x>>[2])
    BY <2>1, Zenon DEF BeforeN
  <2>. QED
    BY <2>1, <2>2
<1>. QED
  BY <1>3

-----------------------------------------------------------------------------
(* Leaving the application.  A quit that is past its stop of the Core keeps    *)
(* is_exiting set, and with it every Core from starting, unless another quit   *)
(* cleared it: LeavingHeld.  LeavingOwed names the quit that answers for each  *)
(* thing that is not as it was.                                                *)

LeavingTypes ==
  /\ stage \in [Quitters -> Leaving!Stages]
  /\ core \in {"running", "stopped"} /\ dns \in {"core", "public"}
  /\ app \in {"running", "leaving", "exited"} /\ attempts \in 0..MaxAttempts
LeavingFlags ==
  {latch, exiting, server, light, posted, unheard, overlapped, abandoned, unrestored} \subseteq BOOLEAN

LeavingHeld ==
  ~overlapped =>
    \A q \in Quitters :
      /\ stage[q] \in {"saving", "stopping", "stopped", "clean", "failed"} => exiting
      /\ stage[q] = "done" /\ app = "running" => exiting /\ posted
      /\ stage[q] \in {"stopped", "clean", "done"} => core = "stopped"
      /\ stage[q] \in {"clean", "done"} => dns = "public" \/ unrestored

LeavingOwed ==
  /\ app # "exited" /\ exiting =>
       \E q \in Quitters : stage[q] \in {"saving", "stopping", "stopped", "clean", "failed", "done"}
  /\ latch => \E q \in Quitters : Leaving!Latched(q) /\ stage[q] # "idle"
  /\ posted \/ ~server => \E q \in Quitters : stage[q] = "done"
  /\ ~unheard
DnsOwed ==
  app # "exited" /\ ~unrestored =>
    /\ core = "stopped" /\ dns = "core" => \E q \in Quitters : stage[q] # "idle"
    /\ core = "running" /\ dns = "public" => \E q \in Quitters : stage[q] \in {"clean", "done"}

LeavingInv ==
  /\ LeavingTypes /\ LeavingFlags /\ LeavingHeld /\ LeavingOwed /\ DnsOwed
  /\ Leaving!ExitLeavesNothing

(* The application runs, and nobody quits. *)
LEMMA LeavingInit == Leaving!InitShutdown => LeavingInv
<1>. SUFFICES ASSUME Leaving!InitShutdown PROVE LeavingInv
  OBVIOUS
<1>. USE LeavingAssumption DEF Leaving!InitShutdown
<1>1. LeavingTypes
  BY DEF LeavingTypes, Leaving!Stages
<1>2. LeavingFlags
  BY DEF LeavingFlags
<1>3. LeavingHeld /\ LeavingOwed /\ DnsOwed /\ Leaving!ExitLeavesNothing
  BY DEF LeavingHeld, LeavingOwed, DnsOwed, Leaving!ExitLeavesNothing
<1>. QED
  BY <1>1, <1>2, <1>3 DEF LeavingInv

(* Every step of a quit, of the main loop and of the Core keeps the invariant. *)
LEMMA LeavingNext ==
  ASSUME LeavingInv, Leaving!NextShutdown \/ UNCHANGED Leaving!shutdownVars
  PROVE  LeavingInv'
<1>. USE LeavingAssumption DEF LeavingInv, Leaving!shutdownVars, Leaving!flags, Leaving!kept, Leaving!history
<1>1. ASSUME NEW q \in Quitters, Leaving!Begin(q) PROVE LeavingInv'
  <2>1. /\ stage[q] = "idle" /\ stage'[q] = "saving"
          /\ \A p \in Quitters \ {q} : stage'[p] = stage[p]
    BY <1>1 DEF Leaving!Begin, Leaving!Move, Leaving!MayBegin, Leaving!Latched, LeavingTypes
  <2>2. app = "running" /\ exiting' = TRUE /\ latch' = (latch \/ Leaving!Latched(q))
    BY <1>1 DEF Leaving!Begin, Leaving!Move, Leaving!MayBegin, Leaving!Latched
  <2>3. UNCHANGED <<core, dns, server, posted, app, unheard, overlapped, unrestored>>
    BY <1>1 DEF Leaving!Begin, Leaving!Move, Leaving!MayBegin, Leaving!Latched, Leaving!kept
  <2>4. LeavingTypes' /\ LeavingFlags'
    BY <1>1, <2>1, <2>2, <2>3
       DEF Leaving!Begin, Leaving!Move, Leaving!MayBegin, Leaving!Latched, LeavingTypes,
          LeavingFlags, Leaving!Stages
  <2>5. LeavingHeld'
    BY <2>1, <2>2, <2>3 DEF LeavingHeld, LeavingTypes, LeavingOwed
  <2>6. LeavingOwed'
    BY <2>1, <2>2, <2>3 DEF LeavingOwed, LeavingTypes
  <2>7. DnsOwed'
    BY <2>1, <2>2, <2>3 DEF DnsOwed, LeavingOwed, LeavingTypes
  <2>8. Leaving!ExitLeavesNothing'
    BY <1>1, <2>1, <2>2, <2>3
       DEF Leaving!Begin, Leaving!Move, Leaving!MayBegin, Leaving!Latched,
          Leaving!ExitLeavesNothing, LeavingHeld
  <2>. QED
    BY <2>4, <2>5, <2>6, <2>7, <2>8
<1>2. ASSUME NEW q \in Quitters, Leaving!Saved(q) PROVE LeavingInv'
  <2>1. /\ stage[q] = "saving" /\ stage'[q] = "stopping"
          /\ \A p \in Quitters \ {q} : stage'[p] = stage[p]
    BY <1>2 DEF Leaving!Saved, Leaving!Move, LeavingTypes
  <2>2. UNCHANGED <<latch, exiting, core, dns, server, posted, app, unheard, overlapped, unrestored>>
    BY <1>2 DEF Leaving!Saved, Leaving!Move, Leaving!kept, Leaving!flags, Leaving!history
  <2>3. LeavingTypes' /\ LeavingFlags'
    BY <1>2, <2>1, <2>2
       DEF Leaving!Saved, Leaving!Move, LeavingTypes, LeavingFlags, Leaving!Stages
  <2>4. LeavingHeld'
    BY <2>1, <2>2 DEF LeavingHeld, LeavingTypes, LeavingOwed
  <2>5. LeavingOwed'
    BY <2>1, <2>2 DEF LeavingOwed, LeavingTypes
  <2>6. DnsOwed'
    BY <2>1, <2>2 DEF DnsOwed, LeavingOwed, LeavingTypes
  <2>7. Leaving!ExitLeavesNothing'
    BY <1>2, <2>1, <2>2
       DEF Leaving!Saved, Leaving!Move, Leaving!ExitLeavesNothing, LeavingHeld
  <2>. QED
    BY <2>3, <2>4, <2>5, <2>6, <2>7
<1>3. ASSUME NEW q \in Quitters, Leaving!StopCore(q) PROVE LeavingInv'
  <2>1. /\ \A p \in Quitters \ {q} : stage'[p] = stage[p]
        /\ stage[q] = "stopping"
        /\ (stage'[q] = "stopped" /\ core' = "stopped") \/ (stage'[q] = "failed" /\ core' \in {core, "stopped"})
    BY <1>3 DEF Leaving!StopCore, Leaving!Move, LeavingTypes
  <2>2. UNCHANGED <<latch, exiting, dns, server, posted, app, unheard, overlapped, unrestored>>
    BY <1>3 DEF Leaving!StopCore, Leaving!Move, Leaving!kept, Leaving!flags, Leaving!history
  <2>3. LeavingTypes' /\ LeavingFlags'
    BY <1>3, <2>1, <2>2
       DEF Leaving!StopCore, Leaving!Move, LeavingTypes, LeavingFlags, Leaving!Stages
  <2>4. LeavingHeld'
    BY <2>1, <2>2 DEF LeavingHeld, LeavingTypes, LeavingOwed
  <2>5. LeavingOwed'
    BY <2>1, <2>2 DEF LeavingOwed, LeavingTypes
  <2>6. DnsOwed'
    BY <2>1, <2>2 DEF DnsOwed, LeavingOwed, LeavingTypes
  <2>7. Leaving!ExitLeavesNothing'
    BY <1>3, <2>1, <2>2
       DEF Leaving!StopCore, Leaving!Move, Leaving!ExitLeavesNothing, LeavingHeld
  <2>. QED
    BY <2>3, <2>4, <2>5, <2>6, <2>7
<1>4. ASSUME NEW q \in Quitters, Leaving!RestoreDns(q) PROVE LeavingInv'
  <2>1. /\ stage[q] = "stopped" /\ stage'[q] = "clean"
          /\ \A p \in Quitters \ {q} : stage'[p] = stage[p]
    BY <1>4 DEF Leaving!RestoreDns, Leaving!Move, Leaving!GiveBack, LeavingTypes
  <2>2. (dns' = "public" /\ unrestored' = unrestored) \/ (unrestored' = TRUE /\ dns' = dns)
    BY <1>4 DEF Leaving!RestoreDns, Leaving!Move, Leaving!GiveBack
  <2>3. UNCHANGED <<latch, exiting, core, server, posted, app, unheard, overlapped>>
    BY <1>4
       DEF Leaving!RestoreDns, Leaving!Move, Leaving!GiveBack, Leaving!kept, Leaving!flags
  <2>4. LeavingTypes' /\ LeavingFlags'
    BY <1>4, <2>1, <2>2, <2>3
       DEF Leaving!RestoreDns, Leaving!Move, Leaving!GiveBack, LeavingTypes, LeavingFlags,
          Leaving!Stages
  <2>5. LeavingHeld'
    BY <2>1, <2>2, <2>3 DEF LeavingHeld, LeavingTypes, LeavingOwed
  <2>6. LeavingOwed'
    BY <2>1, <2>2, <2>3 DEF LeavingOwed, LeavingTypes
  <2>7. DnsOwed'
    BY <2>1, <2>2, <2>3 DEF DnsOwed, LeavingOwed, LeavingTypes
  <2>8. Leaving!ExitLeavesNothing'
    BY <1>4, <2>1, <2>2, <2>3
       DEF Leaving!RestoreDns, Leaving!Move, Leaving!GiveBack, Leaving!ExitLeavesNothing,
          LeavingHeld
  <2>. QED
    BY <2>4, <2>5, <2>6, <2>7, <2>8
<1>5. ASSUME NEW q \in Quitters, Leaving!ClearExiting(q) PROVE LeavingInv'
  <2>1. /\ stage[q] = "failed" /\ stage'[q] = "cleared"
          /\ \A p \in Quitters \ {q} : stage'[p] = stage[p]
    BY <1>5 DEF Leaving!ClearExiting, Leaving!Move, Leaving!InProgress, LeavingTypes
  <2>2. /\ exiting' = FALSE
        /\ overlapped' = (overlapped \/ \E p \in Quitters \ {q} : stage[p] \notin {"idle", "done"} \/ posted)
    BY <1>5 DEF Leaving!ClearExiting, Leaving!Move, Leaving!InProgress
  <2>3. UNCHANGED <<latch, core, dns, server, posted, app, unheard, unrestored>>
    BY <1>5 DEF Leaving!ClearExiting, Leaving!Move, Leaving!InProgress, Leaving!kept
  <2>4. LeavingTypes' /\ LeavingFlags'
    BY <1>5, <2>1, <2>2, <2>3
       DEF Leaving!ClearExiting, Leaving!Move, Leaving!InProgress, LeavingTypes,
          LeavingFlags, Leaving!Stages
  <2>5. LeavingHeld'
    BY <2>1, <2>2, <2>3 DEF LeavingHeld, LeavingTypes, LeavingOwed
  <2>6. LeavingOwed'
    BY <2>1, <2>2, <2>3 DEF LeavingOwed, LeavingTypes
  <2>7. DnsOwed'
    BY <2>1, <2>2, <2>3 DEF DnsOwed, LeavingOwed, LeavingTypes
  <2>8. Leaving!ExitLeavesNothing'
    BY <1>5, <2>1, <2>2, <2>3
       DEF Leaving!ClearExiting, Leaving!Move, Leaving!InProgress,
          Leaving!ExitLeavesNothing, LeavingHeld
  <2>. QED
    BY <2>4, <2>5, <2>6, <2>7, <2>8
<1>6. ASSUME NEW q \in Quitters, Leaving!Canceled(q) PROVE LeavingInv'
  <2>1. /\ stage[q] = "cleared" /\ stage'[q] = "idle"
          /\ \A p \in Quitters \ {q} : stage'[p] = stage[p]
    BY <1>6
       DEF Leaving!Canceled, Leaving!Move, Leaving!GiveBack, Leaving!InProgress,
          LeavingTypes
  <2>2. /\ latch' = (latch /\ ~Leaving!Latched(q)) /\ app # "exited"
        /\ unheard' = (unheard \/ (exiting /\ ~\E p \in Quitters \ {q} : stage[p] # "idle"))
        /\ \/ dns' = "public" /\ unrestored' = unrestored /\ core = "stopped"
           \/ unrestored' = TRUE /\ dns' = dns /\ core = "stopped"
           \/ unrestored' = unrestored /\ dns' = dns /\ (core # "stopped" \/ exiting)
    BY <1>6 DEF Leaving!Canceled, Leaving!Move, Leaving!GiveBack, Leaving!InProgress
  <2>3. UNCHANGED <<exiting, core, server, posted, app, overlapped>>
    BY <1>6
       DEF Leaving!Canceled, Leaving!Move, Leaving!GiveBack, Leaving!InProgress,
          Leaving!kept
  <2>4. LeavingTypes' /\ LeavingFlags'
    BY <1>6, <2>1, <2>2, <2>3
       DEF Leaving!Canceled, Leaving!Move, Leaving!GiveBack, Leaving!InProgress,
          LeavingTypes, LeavingFlags, Leaving!Stages
  <2>5. LeavingHeld'
    BY <2>1, <2>2, <2>3 DEF LeavingHeld, LeavingTypes, LeavingOwed
  <2>6. LeavingOwed'
    BY <2>1, <2>2, <2>3 DEF LeavingOwed, LeavingTypes
  <2>7. DnsOwed'
    BY <2>1, <2>2, <2>3 DEF DnsOwed, LeavingOwed, LeavingTypes
  <2>8. Leaving!ExitLeavesNothing'
    BY <1>6, <2>1, <2>2, <2>3
       DEF Leaving!Canceled, Leaving!Move, Leaving!GiveBack, Leaving!InProgress,
          Leaving!ExitLeavesNothing, LeavingHeld
  <2>. QED
    BY <2>4, <2>5, <2>6, <2>7, <2>8
<1>7. ASSUME NEW q \in Quitters, Leaving!Commit(q) PROVE LeavingInv'
  <2>1. /\ stage[q] = "clean" /\ stage'[q] = "done"
          /\ \A p \in Quitters \ {q} : stage'[p] = stage[p]
    BY <1>7 DEF Leaving!Commit, Leaving!Move, LeavingTypes
  <2>2. server' = FALSE /\ posted' = TRUE
    BY <1>7 DEF Leaving!Commit, Leaving!Move
  <2>3. UNCHANGED <<latch, exiting, core, dns, app, unheard, overlapped, unrestored>>
    BY <1>7 DEF Leaving!Commit, Leaving!Move, Leaving!flags, Leaving!history
  <2>4. LeavingTypes' /\ LeavingFlags'
    BY <1>7, <2>1, <2>2, <2>3
       DEF Leaving!Commit, Leaving!Move, LeavingTypes, LeavingFlags, Leaving!Stages
  <2>5. LeavingHeld'
    BY <2>1, <2>2, <2>3 DEF LeavingHeld, LeavingTypes, LeavingOwed
  <2>6. LeavingOwed'
    BY <2>1, <2>2, <2>3 DEF LeavingOwed, LeavingTypes
  <2>7. DnsOwed'
    BY <2>1, <2>2, <2>3 DEF DnsOwed, LeavingOwed, LeavingTypes
  <2>8. Leaving!ExitLeavesNothing'
    BY <1>7, <2>1, <2>2, <2>3
       DEF Leaving!Commit, Leaving!Move, Leaving!ExitLeavesNothing, LeavingHeld
  <2>. QED
    BY <2>4, <2>5, <2>6, <2>7, <2>8
<1>8. CASE Leaving!LoopExits
  <2>1. LeavingTypes' /\ LeavingFlags'
    BY <1>8 DEF Leaving!LoopExits, LeavingTypes, LeavingFlags, Leaving!Stages
  <2>2. LeavingHeld'
    BY <1>8 DEF Leaving!LoopExits, LeavingHeld, LeavingTypes, LeavingOwed
  <2>3. LeavingOwed'
    BY <1>8 DEF Leaving!LoopExits, LeavingOwed, LeavingTypes
  <2>4. DnsOwed'
    BY <1>8 DEF Leaving!LoopExits, DnsOwed, LeavingOwed, LeavingTypes
  <2>5. Leaving!ExitLeavesNothing'
    BY <1>8 DEF Leaving!LoopExits, Leaving!ExitLeavesNothing, LeavingHeld
  <2>. QED
    BY <2>1, <2>2, <2>3, <2>4, <2>5
<1>9. CASE Leaving!SessionEnds
  <2>1. LeavingTypes' /\ LeavingFlags'
    BY <1>9 DEF Leaving!SessionEnds, LeavingTypes, LeavingFlags, Leaving!Stages
  <2>2. LeavingHeld'
    BY <1>9 DEF Leaving!SessionEnds, LeavingHeld, LeavingTypes, LeavingOwed
  <2>3. LeavingOwed'
    BY <1>9 DEF Leaving!SessionEnds, LeavingOwed, LeavingTypes
  <2>4. DnsOwed'
    BY <1>9 DEF Leaving!SessionEnds, DnsOwed, LeavingOwed, LeavingTypes
  <2>5. Leaving!ExitLeavesNothing'
    BY <1>9 DEF Leaving!SessionEnds, Leaving!ExitLeavesNothing, LeavingHeld
  <2>. QED
    BY <2>1, <2>2, <2>3, <2>4, <2>5
<1>10. CASE Leaving!LeaveQuietly
  <2>1. LeavingTypes' /\ LeavingFlags'
    BY <1>10 DEF Leaving!LeaveQuietly, LeavingTypes, LeavingFlags, Leaving!Stages
  <2>2. LeavingHeld'
    BY <1>10 DEF Leaving!LeaveQuietly, LeavingHeld, LeavingTypes, LeavingOwed
  <2>3. LeavingOwed'
    BY <1>10 DEF Leaving!LeaveQuietly, LeavingOwed, LeavingTypes
  <2>4. DnsOwed'
    BY <1>10 DEF Leaving!LeaveQuietly, DnsOwed, LeavingOwed, LeavingTypes
  <2>5. Leaving!ExitLeavesNothing'
    BY <1>10 DEF Leaving!LeaveQuietly, Leaving!ExitLeavesNothing, LeavingHeld
  <2>. QED
    BY <2>1, <2>2, <2>3, <2>4, <2>5
<1>11. CASE Leaving!CleanAndLeave
  <2>1. LeavingTypes' /\ LeavingFlags'
    BY <1>11 DEF Leaving!CleanAndLeave, LeavingTypes, LeavingFlags, Leaving!Stages
  <2>2. LeavingHeld'
    BY <1>11 DEF Leaving!CleanAndLeave, LeavingHeld, LeavingTypes, LeavingOwed
  <2>3. LeavingOwed'
    BY <1>11 DEF Leaving!CleanAndLeave, LeavingOwed, LeavingTypes
  <2>4. DnsOwed'
    BY <1>11 DEF Leaving!CleanAndLeave, DnsOwed, LeavingOwed, LeavingTypes
  <2>5. Leaving!ExitLeavesNothing'
    BY <1>11 DEF Leaving!CleanAndLeave, Leaving!ExitLeavesNothing, LeavingHeld
  <2>. QED
    BY <2>1, <2>2, <2>3, <2>4, <2>5
<1>12. CASE Leaving!CoreStarts
  <2>1. LeavingTypes' /\ LeavingFlags'
    BY <1>12 DEF Leaving!CoreStarts, LeavingTypes, LeavingFlags, Leaving!Stages
  <2>2. LeavingHeld'
    BY <1>12 DEF Leaving!CoreStarts, LeavingHeld, LeavingTypes, LeavingOwed
  <2>3. LeavingOwed'
    BY <1>12 DEF Leaving!CoreStarts, LeavingOwed, LeavingTypes
  <2>4. DnsOwed'
    BY <1>12 DEF Leaving!CoreStarts, DnsOwed, LeavingOwed, LeavingTypes
  <2>5. Leaving!ExitLeavesNothing'
    BY <1>12 DEF Leaving!CoreStarts, Leaving!ExitLeavesNothing, LeavingHeld
  <2>. QED
    BY <2>1, <2>2, <2>3, <2>4, <2>5
<1>13. CASE Leaving!ToggleLightweight
  <2>1. LeavingTypes' /\ LeavingFlags'
    BY <1>13 DEF Leaving!ToggleLightweight, LeavingTypes, LeavingFlags, Leaving!Stages
  <2>2. LeavingHeld'
    BY <1>13 DEF Leaving!ToggleLightweight, LeavingHeld, LeavingTypes, LeavingOwed
  <2>3. LeavingOwed'
    BY <1>13 DEF Leaving!ToggleLightweight, LeavingOwed, LeavingTypes
  <2>4. DnsOwed'
    BY <1>13 DEF Leaving!ToggleLightweight, DnsOwed, LeavingOwed, LeavingTypes
  <2>5. Leaving!ExitLeavesNothing'
    BY <1>13 DEF Leaving!ToggleLightweight, Leaving!ExitLeavesNothing, LeavingHeld
  <2>. QED
    BY <2>1, <2>2, <2>3, <2>4, <2>5
<1>14. CASE UNCHANGED Leaving!shutdownVars
  <2>1. LeavingTypes' /\ LeavingFlags'
    BY <1>14 DEF LeavingTypes, LeavingFlags, Leaving!Stages
  <2>2. LeavingHeld'
    BY <1>14 DEF LeavingHeld, LeavingTypes, LeavingOwed
  <2>3. LeavingOwed'
    BY <1>14 DEF LeavingOwed, LeavingTypes
  <2>4. DnsOwed'
    BY <1>14 DEF DnsOwed, LeavingOwed, LeavingTypes
  <2>5. Leaving!ExitLeavesNothing'
    BY <1>14 DEF Leaving!ExitLeavesNothing, LeavingHeld
  <2>. QED
    BY <2>1, <2>2, <2>3, <2>4, <2>5
<1>. QED
  BY <1>1, <1>2, <1>3, <1>4, <1>5, <1>6, <1>7, <1>8, <1>9, <1>10, <1>11, <1>12, <1>13, <1>14
     DEF Leaving!NextShutdown

(* What the invariant shows. *)
LEMMA LeavingShows ==
  LeavingInv => /\ Leaving!TypeOK /\ Leaving!ExitLeavesNothing
                /\ Leaving!CanceledQuitsAreUndone /\ Leaving!CommittedQuitsGoThrough
<1>. SUFFICES ASSUME LeavingInv
     PROVE Leaving!TypeOK /\ Leaving!CanceledQuitsAreUndone /\ Leaving!CommittedQuitsGoThrough
  BY DEF LeavingInv
<1>1. Leaving!TypeOK
  BY DEF LeavingInv, LeavingTypes, LeavingFlags, Leaving!TypeOK
<1>2. Leaving!CanceledQuitsAreUndone
  BY DEF LeavingInv, LeavingTypes, LeavingFlags, LeavingOwed, DnsOwed, Leaving!CanceledQuitsAreUndone
<1>3. Leaving!CommittedQuitsGoThrough
  BY DEF LeavingInv, LeavingHeld, Leaving!CommittedQuitsGoThrough
<1>. QED
  BY <1>1, <1>2, <1>3

-----------------------------------------------------------------------------
(* Lightweight mode.  WindowInUse says that a window that has the focus has no *)
(* timer, EntriesClaim that an entry that is under way has the mode, unless a  *)
(* request took it back, and DyingPages that a page that was killed while it   *)
(* was hidden is looked at again before its window is used.                    *)

LightTypes ==
  /\ lmode \in {"normal", "in", "exiting"} /\ slot \in 0..MaxTimers
  /\ leave \in {"no", "claimed", "written", "shown"} /\ window \in {"none", "hidden", "shown"}
  /\ page \in {"loading", "ready", "dead"} /\ dying \in {"no", "hidden", "shown"}
  /\ requests \in 0..MaxRequests /\ deaths \in 0..MaxDeaths
EntryTypes == entry \in [Light!Entries -> Light!EntryStages]
LightFlags ==
  {arming, listens, focusing, marker, lastClosed, quits, usedUp, late, crossed} \subseteq BOOLEAN

WindowInUse ==
  window = "shown" /\ ~focusing /\ ~late =>
    ~arming /\ \A t \in 1..MaxTimers : entry[t] \in {"unset", "over"}
Claimed(e) == entry[e] \in {"claimed", "written", "destroyed"}
EntriesClaim ==
  ~crossed =>
    /\ leave # "no" => lmode = "exiting" /\ ~lastClosed /\ \A e \in 0..MaxTimers : ~Claimed(e)
    /\ leave = "no" /\ (lastClosed \/ \E e \in 0..MaxTimers : Claimed(e)) => lmode = "in"
DyingPages == dying = "hidden" /\ page = "dead" /\ window = "shown" => focusing

LightInv ==
  /\ LightTypes /\ EntryTypes /\ LightFlags
  /\ WindowInUse /\ EntriesClaim /\ DyingPages
  /\ Light!TimersAreCancellable /\ Light!WindowsInUseStay /\ Light!EnteringNeverQuits
  /\ Light!DeadPagesAreReloaded

(* The entries are the timers and the one by hand. *)
LEMMA LightEntries == Light!Entries = 0..MaxTimers /\ Light!Timers = 1..MaxTimers
BY LightAssumption DEF Light!Entries, Light!Timers, Light!Hand

(* The window is hidden until its page has loaded. *)
LEMMA LightInit == Light!InitLight => LightInv
<1>. SUFFICES ASSUME Light!InitLight PROVE LightInv
  OBVIOUS
<1>. USE LightAssumption, LightEntries DEF Light!InitLight
<1>1. LightTypes /\ EntryTypes
  BY DEF LightTypes, EntryTypes, Light!EntryStages
<1>2. LightFlags
  BY DEF LightFlags
<1>3. WindowInUse /\ EntriesClaim /\ DyingPages
  BY DEF WindowInUse, EntriesClaim, DyingPages, Claimed
<1>4. Light!TimersAreCancellable
  BY DEF Light!TimersAreCancellable
<1>5. Light!WindowsInUseStay /\ Light!EnteringNeverQuits /\ Light!DeadPagesAreReloaded
  BY DEF Light!WindowsInUseStay, Light!EnteringNeverQuits, Light!DeadPagesAreReloaded
<1>. QED
  BY <1>1, <1>2, <1>3, <1>4, <1>5 DEF LightInv

(* Every step of the timers, the entries, the window and its page keeps the invariant. *)
LEMMA LightNext ==
  ASSUME LightInv, Light!NextLight \/ UNCHANGED Light!lightVars
  PROVE  LightInv'
<1>. USE LightAssumption, LightEntries DEF LightInv, Light!lightVars, Light!modeVars, Light!windowVars, Light!storyVars, Light!Step
<1>1. CASE Light!CloseWindow
  <2>1. LightTypes'
    BY <1>1 DEF Light!CloseWindow, Light!MainThreadIsFree, LightTypes
  <2>2. EntryTypes'
    BY <1>1 DEF Light!CloseWindow, Light!MainThreadIsFree, EntryTypes, Light!EntryStages
  <2>3. LightFlags'
    BY <1>1 DEF Light!CloseWindow, Light!MainThreadIsFree, LightFlags
  <2>4. WindowInUse'
    BY <1>1
       DEF Light!CloseWindow, Light!MainThreadIsFree, WindowInUse, EntryTypes,
          Light!EntryStages
  <2>5. EntriesClaim'
    BY <1>1 DEF Light!CloseWindow, Light!MainThreadIsFree, EntriesClaim, Claimed, EntryTypes
  <2>6. DyingPages' /\ Light!DeadPagesAreReloaded'
    BY <1>1
       DEF Light!CloseWindow, Light!MainThreadIsFree, DyingPages,
          Light!DeadPagesAreReloaded, LightTypes
  <2>7. Light!TimersAreCancellable'
    BY <1>1
       DEF Light!CloseWindow, Light!MainThreadIsFree, Light!TimersAreCancellable,
          EntryTypes, LightTypes
  <2>8. Light!WindowsInUseStay'
    BY <1>1
       DEF Light!CloseWindow, Light!MainThreadIsFree, Light!WindowsInUseStay, WindowInUse,
          Light!Hand
  <2>9. Light!EnteringNeverQuits'
    BY <1>1
       DEF Light!CloseWindow, Light!MainThreadIsFree, Light!EnteringNeverQuits, EntriesClaim
  <2>. QED
    BY <2>1, <2>2, <2>3, <2>4, <2>5, <2>6, <2>7, <2>8, <2>9
<1>2. CASE Light!SetTimer
  <2>1. LightTypes'
    BY <1>2 DEF Light!SetTimer, LightTypes
  <2>2. EntryTypes'
    BY <1>2 DEF Light!SetTimer, EntryTypes, Light!EntryStages
  <2>3. LightFlags'
    BY <1>2 DEF Light!SetTimer, LightFlags
  <2>4. WindowInUse'
    BY <1>2 DEF Light!SetTimer, WindowInUse, EntryTypes, Light!EntryStages
  <2>5. EntriesClaim'
    BY <1>2 DEF Light!SetTimer, EntriesClaim, Claimed, EntryTypes
  <2>6. DyingPages' /\ Light!DeadPagesAreReloaded'
    BY <1>2 DEF Light!SetTimer, DyingPages, Light!DeadPagesAreReloaded, LightTypes
  <2>7. Light!TimersAreCancellable'
    BY <1>2 DEF Light!SetTimer, Light!TimersAreCancellable, EntryTypes, LightTypes
  <2>8. Light!WindowsInUseStay'
    BY <1>2 DEF Light!SetTimer, Light!WindowsInUseStay, WindowInUse, Light!Hand
  <2>9. Light!EnteringNeverQuits'
    BY <1>2 DEF Light!SetTimer, Light!EnteringNeverQuits, EntriesClaim
  <2>. QED
    BY <2>1, <2>2, <2>3, <2>4, <2>5, <2>6, <2>7, <2>8, <2>9
<1>3. CASE Light!AskByHand
  <2>1. LightTypes'
    BY <1>3 DEF Light!AskByHand, Light!Hand, LightTypes
  <2>2. EntryTypes'
    BY <1>3 DEF Light!AskByHand, Light!Hand, EntryTypes, Light!EntryStages
  <2>3. LightFlags'
    BY <1>3 DEF Light!AskByHand, Light!Hand, LightFlags
  <2>4. WindowInUse'
    BY <1>3 DEF Light!AskByHand, Light!Hand, WindowInUse, EntryTypes, Light!EntryStages
  <2>5. EntriesClaim'
    BY <1>3 DEF Light!AskByHand, Light!Hand, EntriesClaim, Claimed, EntryTypes
  <2>6. DyingPages' /\ Light!DeadPagesAreReloaded'
    BY <1>3
       DEF Light!AskByHand, Light!Hand, DyingPages, Light!DeadPagesAreReloaded, LightTypes
  <2>7. Light!TimersAreCancellable'
    BY <1>3
       DEF Light!AskByHand, Light!Hand, Light!TimersAreCancellable, EntryTypes, LightTypes
  <2>8. Light!WindowsInUseStay'
    BY <1>3 DEF Light!AskByHand, Light!Hand, Light!WindowsInUseStay, WindowInUse
  <2>9. Light!EnteringNeverQuits'
    BY <1>3 DEF Light!AskByHand, Light!Hand, Light!EnteringNeverQuits, EntriesClaim
  <2>. QED
    BY <2>1, <2>2, <2>3, <2>4, <2>5, <2>6, <2>7, <2>8, <2>9
<1>4. CASE Light!LoopRunsDry
  <2>1. LightTypes'
    BY <1>4 DEF Light!LoopRunsDry, Light!MainThreadIsFree, LightTypes
  <2>2. EntryTypes'
    BY <1>4 DEF Light!LoopRunsDry, Light!MainThreadIsFree, EntryTypes, Light!EntryStages
  <2>3. LightFlags'
    BY <1>4 DEF Light!LoopRunsDry, Light!MainThreadIsFree, LightFlags
  <2>4. WindowInUse'
    BY <1>4
       DEF Light!LoopRunsDry, Light!MainThreadIsFree, WindowInUse, EntryTypes,
          Light!EntryStages
  <2>5. EntriesClaim'
    BY <1>4 DEF Light!LoopRunsDry, Light!MainThreadIsFree, EntriesClaim, Claimed, EntryTypes
  <2>6. DyingPages' /\ Light!DeadPagesAreReloaded'
    BY <1>4
       DEF Light!LoopRunsDry, Light!MainThreadIsFree, DyingPages,
          Light!DeadPagesAreReloaded, LightTypes
  <2>7. Light!TimersAreCancellable'
    BY <1>4
       DEF Light!LoopRunsDry, Light!MainThreadIsFree, Light!TimersAreCancellable,
          EntryTypes, LightTypes
  <2>8. Light!WindowsInUseStay'
    BY <1>4
       DEF Light!LoopRunsDry, Light!MainThreadIsFree, Light!WindowsInUseStay, WindowInUse,
          Light!Hand
  <2>9. Light!EnteringNeverQuits'
    BY <1>4
       DEF Light!LoopRunsDry, Light!MainThreadIsFree, Light!EnteringNeverQuits, EntriesClaim
  <2>. QED
    BY <2>1, <2>2, <2>3, <2>4, <2>5, <2>6, <2>7, <2>8, <2>9
<1>5. ASSUME NEW t \in 1..MaxTimers, Light!Expire(t) PROVE LightInv'
  <2>1. LightTypes'
    BY <1>5 DEF Light!Expire, LightTypes
  <2>2. EntryTypes'
    BY <1>5 DEF Light!Expire, EntryTypes, Light!EntryStages
  <2>3. LightFlags'
    BY <1>5 DEF Light!Expire, LightFlags
  <2>4. WindowInUse'
    BY <1>5 DEF Light!Expire, WindowInUse, EntryTypes, Light!EntryStages
  <2>5. EntriesClaim'
    BY <1>5 DEF Light!Expire, EntriesClaim, Claimed, EntryTypes
  <2>6. DyingPages' /\ Light!DeadPagesAreReloaded'
    BY <1>5 DEF Light!Expire, DyingPages, Light!DeadPagesAreReloaded, LightTypes
  <2>7. Light!TimersAreCancellable'
    BY <1>5 DEF Light!Expire, Light!TimersAreCancellable, EntryTypes, LightTypes
  <2>8. Light!WindowsInUseStay'
    BY <1>5 DEF Light!Expire, Light!WindowsInUseStay, WindowInUse, Light!Hand
  <2>9. Light!EnteringNeverQuits'
    BY <1>5 DEF Light!Expire, Light!EnteringNeverQuits, EntriesClaim
  <2>. QED
    BY <2>1, <2>2, <2>3, <2>4, <2>5, <2>6, <2>7, <2>8, <2>9
<1>6. ASSUME NEW t \in 1..MaxTimers, Light!ClearSlot(t) PROVE LightInv'
  <2>1. LightTypes'
    BY <1>6 DEF Light!ClearSlot, Light!Cancelled, LightTypes
  <2>2. EntryTypes'
    BY <1>6 DEF Light!ClearSlot, Light!Cancelled, EntryTypes, Light!EntryStages
  <2>3. LightFlags'
    BY <1>6 DEF Light!ClearSlot, Light!Cancelled, LightFlags
  <2>4. WindowInUse'
    BY <1>6 DEF Light!ClearSlot, Light!Cancelled, WindowInUse, EntryTypes, Light!EntryStages
  <2>5. EntriesClaim'
    BY <1>6 DEF Light!ClearSlot, Light!Cancelled, EntriesClaim, Claimed, EntryTypes
  <2>6. DyingPages' /\ Light!DeadPagesAreReloaded'
    BY <1>6
       DEF Light!ClearSlot, Light!Cancelled, DyingPages, Light!DeadPagesAreReloaded,
          LightTypes
  <2>7. Light!TimersAreCancellable'
    BY <1>6
       DEF Light!ClearSlot, Light!Cancelled, Light!TimersAreCancellable, EntryTypes,
          LightTypes
  <2>8. Light!WindowsInUseStay'
    BY <1>6
       DEF Light!ClearSlot, Light!Cancelled, Light!WindowsInUseStay, WindowInUse, Light!Hand
  <2>9. Light!EnteringNeverQuits'
    BY <1>6 DEF Light!ClearSlot, Light!Cancelled, Light!EnteringNeverQuits, EntriesClaim
  <2>. QED
    BY <2>1, <2>2, <2>3, <2>4, <2>5, <2>6, <2>7, <2>8, <2>9
<1>7. ASSUME NEW e \in 0..MaxTimers, Light!Enter(e) PROVE LightInv'
  <2>1. LightTypes'
    BY <1>7 DEF Light!Enter, LightTypes
  <2>2. EntryTypes'
    BY <1>7 DEF Light!Enter, EntryTypes, Light!EntryStages
  <2>3. LightFlags'
    BY <1>7 DEF Light!Enter, LightFlags
  <2>4. WindowInUse'
    BY <1>7 DEF Light!Enter, WindowInUse, EntryTypes, Light!EntryStages
  <2>5. EntriesClaim'
    BY <1>7 DEF Light!Enter, EntriesClaim, Claimed, EntryTypes
  <2>6. DyingPages' /\ Light!DeadPagesAreReloaded'
    BY <1>7 DEF Light!Enter, DyingPages, Light!DeadPagesAreReloaded, LightTypes
  <2>7. Light!TimersAreCancellable'
    BY <1>7 DEF Light!Enter, Light!TimersAreCancellable, EntryTypes, LightTypes
  <2>8. Light!WindowsInUseStay'
    BY <1>7 DEF Light!Enter, Light!WindowsInUseStay, WindowInUse, Light!Hand
  <2>9. Light!EnteringNeverQuits'
    BY <1>7 DEF Light!Enter, Light!EnteringNeverQuits, EntriesClaim
  <2>. QED
    BY <2>1, <2>2, <2>3, <2>4, <2>5, <2>6, <2>7, <2>8, <2>9
<1>8. ASSUME NEW e \in 0..MaxTimers, Light!WriteIn(e) PROVE LightInv'
  <2>1. LightTypes'
    BY <1>8 DEF Light!WriteIn, LightTypes
  <2>2. EntryTypes'
    BY <1>8 DEF Light!WriteIn, EntryTypes, Light!EntryStages
  <2>3. LightFlags'
    BY <1>8 DEF Light!WriteIn, LightFlags
  <2>4. WindowInUse'
    BY <1>8 DEF Light!WriteIn, WindowInUse, EntryTypes, Light!EntryStages
  <2>5. EntriesClaim'
    BY <1>8 DEF Light!WriteIn, EntriesClaim, Claimed, EntryTypes
  <2>6. DyingPages' /\ Light!DeadPagesAreReloaded'
    BY <1>8 DEF Light!WriteIn, DyingPages, Light!DeadPagesAreReloaded, LightTypes
  <2>7. Light!TimersAreCancellable'
    BY <1>8 DEF Light!WriteIn, Light!TimersAreCancellable, EntryTypes, LightTypes
  <2>8. Light!WindowsInUseStay'
    BY <1>8 DEF Light!WriteIn, Light!WindowsInUseStay, WindowInUse, Light!Hand
  <2>9. Light!EnteringNeverQuits'
    BY <1>8 DEF Light!WriteIn, Light!EnteringNeverQuits, EntriesClaim
  <2>. QED
    BY <2>1, <2>2, <2>3, <2>4, <2>5, <2>6, <2>7, <2>8, <2>9
<1>9. ASSUME NEW e \in 0..MaxTimers, Light!DestroyWindow(e) PROVE LightInv'
  <2>1. LightTypes'
    BY <1>9 DEF Light!DestroyWindow, LightTypes
  <2>2. EntryTypes'
    BY <1>9 DEF Light!DestroyWindow, EntryTypes, Light!EntryStages
  <2>3. LightFlags'
    BY <1>9 DEF Light!DestroyWindow, LightFlags
  <2>4. WindowInUse'
    BY <1>9 DEF Light!DestroyWindow, WindowInUse, EntryTypes, Light!EntryStages
  <2>5. EntriesClaim'
    BY <1>9 DEF Light!DestroyWindow, EntriesClaim, Claimed, EntryTypes
  <2>6. DyingPages' /\ Light!DeadPagesAreReloaded'
    BY <1>9 DEF Light!DestroyWindow, DyingPages, Light!DeadPagesAreReloaded, LightTypes
  <2>7. Light!TimersAreCancellable'
    BY <1>9 DEF Light!DestroyWindow, Light!TimersAreCancellable, EntryTypes, LightTypes
  <2>8. Light!WindowsInUseStay'
    <3>3. late' = late /\ usedUp' = (usedUp \/ (e # 0 /\ window = "shown" /\ ~focusing))
      BY <1>9 DEF Light!DestroyWindow, Light!Hand
    <3>4. e # 0 => e \in 1..MaxTimers
      BY <1>9
    <3>1. late' = late /\ (usedUp' => usedUp \/ (e \in 1..MaxTimers /\ window = "shown" /\ ~focusing))
      BY <3>3, <3>4, Zenon
    <3>2. entry[e] = "written"
      BY <1>9 DEF Light!DestroyWindow
    <3>. QED
      BY <3>1, <3>2 DEF Light!WindowsInUseStay, WindowInUse
  <2>9. Light!EnteringNeverQuits'
    BY <1>9 DEF Light!DestroyWindow, Light!EnteringNeverQuits, EntriesClaim
  <2>. QED
    BY <2>1, <2>2, <2>3, <2>4, <2>5, <2>6, <2>7, <2>8, <2>9
<1>10. ASSUME NEW e \in 0..MaxTimers, Light!Entered(e) PROVE LightInv'
  <2>1. LightTypes'
    BY <1>10 DEF Light!Entered, Light!Cancelled, LightTypes
  <2>2. EntryTypes'
    BY <1>10 DEF Light!Entered, Light!Cancelled, EntryTypes, Light!EntryStages
  <2>3. LightFlags'
    BY <1>10 DEF Light!Entered, Light!Cancelled, LightFlags
  <2>4. WindowInUse'
    BY <1>10 DEF Light!Entered, Light!Cancelled, WindowInUse, EntryTypes, Light!EntryStages
  <2>5. EntriesClaim'
    BY <1>10 DEF Light!Entered, Light!Cancelled, EntriesClaim, Claimed, EntryTypes
  <2>6. DyingPages' /\ Light!DeadPagesAreReloaded'
    BY <1>10
       DEF Light!Entered, Light!Cancelled, DyingPages, Light!DeadPagesAreReloaded,
          LightTypes
  <2>7. Light!TimersAreCancellable'
    BY <1>10
       DEF Light!Entered, Light!Cancelled, Light!TimersAreCancellable, EntryTypes,
          LightTypes
  <2>8. Light!WindowsInUseStay'
    BY <1>10
       DEF Light!Entered, Light!Cancelled, Light!WindowsInUseStay, WindowInUse, Light!Hand
  <2>9. Light!EnteringNeverQuits'
    BY <1>10 DEF Light!Entered, Light!Cancelled, Light!EnteringNeverQuits, EntriesClaim
  <2>. QED
    BY <2>1, <2>2, <2>3, <2>4, <2>5, <2>6, <2>7, <2>8, <2>9
<1>11. CASE Light!Request
  <2>1. LightTypes'
    BY <1>11
       DEF Light!Request, Light!Show, Light!Create, Light!Activate, Light!Entering,
          LightTypes
  <2>2. EntryTypes'
    BY <1>11
       DEF Light!Request, Light!Show, Light!Create, Light!Activate, Light!Entering,
          EntryTypes, Light!EntryStages
  <2>3. LightFlags'
    BY <1>11, Zenon
       DEF Light!Request, Light!Show, Light!Create, Light!Activate, Light!Entering,
          LightFlags
  <2>4. WindowInUse'
    BY <1>11
       DEF Light!Request, Light!Show, Light!Create, Light!Activate, Light!Entering,
          WindowInUse, EntryTypes, Light!EntryStages
  <2>5. EntriesClaim'
    BY <1>11
       DEF Light!Request, Light!Show, Light!Create, Light!Activate, Light!Entering,
          EntriesClaim, Claimed, EntryTypes
  <2>6. DyingPages' /\ Light!DeadPagesAreReloaded'
    BY <1>11
       DEF Light!Request, Light!Show, Light!Create, Light!Activate, Light!Entering,
          DyingPages, Light!DeadPagesAreReloaded, LightTypes
  <2>7. Light!TimersAreCancellable'
    BY <1>11
       DEF Light!Request, Light!Show, Light!Create, Light!Activate, Light!Entering,
          Light!TimersAreCancellable, EntryTypes, LightTypes
  <2>8. Light!WindowsInUseStay'
    BY <1>11
       DEF Light!Request, Light!Show, Light!Create, Light!Activate, Light!Entering,
          Light!WindowsInUseStay, WindowInUse, Light!Hand
  <2>9. Light!EnteringNeverQuits'
    BY <1>11
       DEF Light!Request, Light!Show, Light!Create, Light!Activate, Light!Entering,
          Light!EnteringNeverQuits, EntriesClaim
  <2>. QED
    BY <2>1, <2>2, <2>3, <2>4, <2>5, <2>6, <2>7, <2>8, <2>9
<1>12. CASE Light!WriteExiting
  <2>1. LightTypes'
    BY <1>12 DEF Light!WriteExiting, LightTypes
  <2>2. EntryTypes'
    BY <1>12 DEF Light!WriteExiting, EntryTypes, Light!EntryStages
  <2>3. LightFlags'
    BY <1>12 DEF Light!WriteExiting, LightFlags
  <2>4. WindowInUse'
    BY <1>12 DEF Light!WriteExiting, WindowInUse, EntryTypes, Light!EntryStages
  <2>5. EntriesClaim'
    BY <1>12 DEF Light!WriteExiting, EntriesClaim, Claimed, EntryTypes
  <2>6. DyingPages' /\ Light!DeadPagesAreReloaded'
    BY <1>12 DEF Light!WriteExiting, DyingPages, Light!DeadPagesAreReloaded, LightTypes
  <2>7. Light!TimersAreCancellable'
    BY <1>12 DEF Light!WriteExiting, Light!TimersAreCancellable, EntryTypes, LightTypes
  <2>8. Light!WindowsInUseStay'
    BY <1>12 DEF Light!WriteExiting, Light!WindowsInUseStay, WindowInUse, Light!Hand
  <2>9. Light!EnteringNeverQuits'
    BY <1>12 DEF Light!WriteExiting, Light!EnteringNeverQuits, EntriesClaim
  <2>. QED
    BY <2>1, <2>2, <2>3, <2>4, <2>5, <2>6, <2>7, <2>8, <2>9
<1>13. CASE Light!LeaveShows
  <2>1. LightTypes'
    BY <1>13 DEF Light!LeaveShows, Light!Show, Light!Create, Light!Activate, LightTypes
  <2>2. EntryTypes'
    BY <1>13
       DEF Light!LeaveShows, Light!Show, Light!Create, Light!Activate, EntryTypes,
          Light!EntryStages
  <2>3. LightFlags'
    BY <1>13 DEF Light!LeaveShows, Light!Show, Light!Create, Light!Activate, LightFlags
  <2>4. WindowInUse'
    BY <1>13
       DEF Light!LeaveShows, Light!Show, Light!Create, Light!Activate, WindowInUse,
          EntryTypes, Light!EntryStages
  <2>5. EntriesClaim'
    BY <1>13
       DEF Light!LeaveShows, Light!Show, Light!Create, Light!Activate, EntriesClaim,
          Claimed, EntryTypes
  <2>6. DyingPages' /\ Light!DeadPagesAreReloaded'
    BY <1>13
       DEF Light!LeaveShows, Light!Show, Light!Create, Light!Activate, DyingPages,
          Light!DeadPagesAreReloaded, LightTypes
  <2>7. Light!TimersAreCancellable'
    BY <1>13
       DEF Light!LeaveShows, Light!Show, Light!Create, Light!Activate,
          Light!TimersAreCancellable, EntryTypes, LightTypes
  <2>8. Light!WindowsInUseStay'
    BY <1>13
       DEF Light!LeaveShows, Light!Show, Light!Create, Light!Activate,
          Light!WindowsInUseStay, WindowInUse, Light!Hand
  <2>9. Light!EnteringNeverQuits'
    BY <1>13
       DEF Light!LeaveShows, Light!Show, Light!Create, Light!Activate,
          Light!EnteringNeverQuits, EntriesClaim
  <2>. QED
    BY <2>1, <2>2, <2>3, <2>4, <2>5, <2>6, <2>7, <2>8, <2>9
<1>14. CASE Light!Left
  <2>1. LightTypes'
    BY <1>14 DEF Light!Left, Light!CancelTimer, Light!Cancelled, LightTypes
  <2>2. EntryTypes'
    BY <1>14
       DEF Light!Left, Light!CancelTimer, Light!Cancelled, EntryTypes, Light!EntryStages
  <2>3. LightFlags'
    BY <1>14 DEF Light!Left, Light!CancelTimer, Light!Cancelled, LightFlags
  <2>4. WindowInUse'
    BY <1>14
       DEF Light!Left, Light!CancelTimer, Light!Cancelled, WindowInUse, EntryTypes,
          Light!EntryStages
  <2>5. EntriesClaim'
    BY <1>14
       DEF Light!Left, Light!CancelTimer, Light!Cancelled, EntriesClaim, Claimed, EntryTypes
  <2>6. DyingPages' /\ Light!DeadPagesAreReloaded'
    BY <1>14
       DEF Light!Left, Light!CancelTimer, Light!Cancelled, DyingPages,
          Light!DeadPagesAreReloaded, LightTypes
  <2>7. Light!TimersAreCancellable'
    BY <1>14
       DEF Light!Left, Light!CancelTimer, Light!Cancelled, Light!TimersAreCancellable,
          EntryTypes, LightTypes
  <2>8. Light!WindowsInUseStay'
    BY <1>14
       DEF Light!Left, Light!CancelTimer, Light!Cancelled, Light!WindowsInUseStay,
          WindowInUse, Light!Hand
  <2>9. Light!EnteringNeverQuits'
    BY <1>14
       DEF Light!Left, Light!CancelTimer, Light!Cancelled, Light!EnteringNeverQuits,
          EntriesClaim
  <2>. QED
    BY <2>1, <2>2, <2>3, <2>4, <2>5, <2>6, <2>7, <2>8, <2>9
<1>15. CASE Light!PageLoads
  <2>1. LightTypes'
    BY <1>15 DEF Light!PageLoads, LightTypes
  <2>2. EntryTypes'
    BY <1>15 DEF Light!PageLoads, EntryTypes, Light!EntryStages
  <2>3. LightFlags'
    BY <1>15 DEF Light!PageLoads, LightFlags
  <2>4. WindowInUse'
    BY <1>15 DEF Light!PageLoads, WindowInUse, EntryTypes, Light!EntryStages
  <2>5. EntriesClaim'
    BY <1>15 DEF Light!PageLoads, EntriesClaim, Claimed, EntryTypes
  <2>6. DyingPages' /\ Light!DeadPagesAreReloaded'
    BY <1>15 DEF Light!PageLoads, DyingPages, Light!DeadPagesAreReloaded, LightTypes
  <2>7. Light!TimersAreCancellable'
    BY <1>15 DEF Light!PageLoads, Light!TimersAreCancellable, EntryTypes, LightTypes
  <2>8. Light!WindowsInUseStay'
    BY <1>15 DEF Light!PageLoads, Light!WindowsInUseStay, WindowInUse, Light!Hand
  <2>9. Light!EnteringNeverQuits'
    BY <1>15 DEF Light!PageLoads, Light!EnteringNeverQuits, EntriesClaim
  <2>. QED
    BY <2>1, <2>2, <2>3, <2>4, <2>5, <2>6, <2>7, <2>8, <2>9
<1>16. CASE Light!Focus
  <2>1. LightTypes'
    BY <1>16
       DEF Light!Focus, Light!CancelTimer, Light!Cancelled, Light!MainThreadIsFree,
          Light!EntryStages, LightTypes
  <2>2. EntryTypes'
    BY <1>16
       DEF Light!Focus, Light!CancelTimer, Light!Cancelled, Light!MainThreadIsFree,
          Light!EntryStages, EntryTypes
  <2>3. LightFlags'
    BY <1>16
       DEF Light!Focus, Light!CancelTimer, Light!Cancelled, Light!MainThreadIsFree,
          Light!EntryStages, LightFlags
  <2>4. WindowInUse'
    <3>. SUFFICES ASSUME ~late' PROVE WindowInUse'
      BY DEF WindowInUse
    <3>5. ~arming /\ listens /\ ~\E t \in Light!Timers : entry[t] \in Light!EntryStages \ {"unset", "waiting", "over"}
      BY <1>16, Zenon DEF Light!Focus
    <3>1. listens /\ ~arming /\ \A t \in 1..MaxTimers : entry[t] \in {"unset", "waiting", "over"}
      BY <3>5 DEF EntryTypes
    <3>2. arming' = arming /\ entry' = Light!Cancelled(slot)
      BY <1>16, <3>1 DEF Light!Focus, Light!CancelTimer
    <3>3. \A t \in 1..MaxTimers : entry[t] = "waiting" => slot = t
      BY DEF Light!TimersAreCancellable
    <3>4. \A t \in 1..MaxTimers : Light!Cancelled(slot)[t] \in {"unset", "over"}
      BY <3>1, <3>3 DEF Light!Cancelled, EntryTypes
    <3>. QED
      BY <3>1, <3>2, <3>4 DEF WindowInUse
  <2>5. EntriesClaim'
    BY <1>16
       DEF Light!Focus, Light!CancelTimer, Light!Cancelled, Light!MainThreadIsFree,
          Light!EntryStages, EntriesClaim, Claimed, EntryTypes
  <2>6. DyingPages' /\ Light!DeadPagesAreReloaded'
    BY <1>16
       DEF Light!Focus, Light!CancelTimer, Light!Cancelled, Light!MainThreadIsFree,
          Light!EntryStages, DyingPages, Light!DeadPagesAreReloaded, LightTypes
  <2>7. Light!TimersAreCancellable'
    BY <1>16
       DEF Light!Focus, Light!CancelTimer, Light!Cancelled, Light!MainThreadIsFree,
          Light!EntryStages, Light!TimersAreCancellable, EntryTypes, LightTypes
  <2>8. Light!WindowsInUseStay'
    BY <1>16
       DEF Light!Focus, Light!CancelTimer, Light!Cancelled, Light!MainThreadIsFree,
          Light!EntryStages, Light!WindowsInUseStay, WindowInUse, Light!Hand
  <2>9. Light!EnteringNeverQuits'
    BY <1>16
       DEF Light!Focus, Light!CancelTimer, Light!Cancelled, Light!MainThreadIsFree,
          Light!EntryStages, Light!EnteringNeverQuits, EntriesClaim
  <2>. QED
    BY <2>1, <2>2, <2>3, <2>4, <2>5, <2>6, <2>7, <2>8, <2>9
<1>17. CASE Light!PageDies
  <2>1. LightTypes'
    BY <1>17 DEF Light!PageDies, Light!MainThreadIsFree, LightTypes
  <2>2. EntryTypes'
    BY <1>17 DEF Light!PageDies, Light!MainThreadIsFree, EntryTypes, Light!EntryStages
  <2>3. LightFlags'
    BY <1>17 DEF Light!PageDies, Light!MainThreadIsFree, LightFlags
  <2>4. WindowInUse'
    BY <1>17
       DEF Light!PageDies, Light!MainThreadIsFree, WindowInUse, EntryTypes,
          Light!EntryStages
  <2>5. EntriesClaim'
    BY <1>17 DEF Light!PageDies, Light!MainThreadIsFree, EntriesClaim, Claimed, EntryTypes
  <2>6. DyingPages' /\ Light!DeadPagesAreReloaded'
    BY <1>17
       DEF Light!PageDies, Light!MainThreadIsFree, DyingPages, Light!DeadPagesAreReloaded,
          LightTypes
  <2>7. Light!TimersAreCancellable'
    BY <1>17
       DEF Light!PageDies, Light!MainThreadIsFree, Light!TimersAreCancellable, EntryTypes,
          LightTypes
  <2>8. Light!WindowsInUseStay'
    BY <1>17
       DEF Light!PageDies, Light!MainThreadIsFree, Light!WindowsInUseStay, WindowInUse,
          Light!Hand
  <2>9. Light!EnteringNeverQuits'
    BY <1>17
       DEF Light!PageDies, Light!MainThreadIsFree, Light!EnteringNeverQuits, EntriesClaim
  <2>. QED
    BY <2>1, <2>2, <2>3, <2>4, <2>5, <2>6, <2>7, <2>8, <2>9
<1>18. CASE Light!SeeToPage
  <2>1. LightTypes'
    BY <1>18 DEF Light!SeeToPage, LightTypes
  <2>2. EntryTypes'
    BY <1>18 DEF Light!SeeToPage, EntryTypes, Light!EntryStages
  <2>3. LightFlags'
    BY <1>18 DEF Light!SeeToPage, LightFlags
  <2>4. WindowInUse'
    BY <1>18 DEF Light!SeeToPage, WindowInUse, EntryTypes, Light!EntryStages
  <2>5. EntriesClaim'
    BY <1>18 DEF Light!SeeToPage, EntriesClaim, Claimed, EntryTypes
  <2>6. DyingPages' /\ Light!DeadPagesAreReloaded'
    BY <1>18 DEF Light!SeeToPage, DyingPages, Light!DeadPagesAreReloaded, LightTypes
  <2>7. Light!TimersAreCancellable'
    BY <1>18 DEF Light!SeeToPage, Light!TimersAreCancellable, EntryTypes, LightTypes
  <2>8. Light!WindowsInUseStay'
    BY <1>18 DEF Light!SeeToPage, Light!WindowsInUseStay, WindowInUse, Light!Hand
  <2>9. Light!EnteringNeverQuits'
    BY <1>18 DEF Light!SeeToPage, Light!EnteringNeverQuits, EntriesClaim
  <2>. QED
    BY <2>1, <2>2, <2>3, <2>4, <2>5, <2>6, <2>7, <2>8, <2>9
<1>19. CASE UNCHANGED Light!lightVars
  <2>1. LightTypes'
    BY <1>19 DEF LightTypes
  <2>2. EntryTypes'
    BY <1>19 DEF EntryTypes, Light!EntryStages
  <2>3. LightFlags'
    BY <1>19 DEF LightFlags
  <2>4. WindowInUse'
    BY <1>19 DEF WindowInUse, EntryTypes, Light!EntryStages
  <2>5. EntriesClaim'
    BY <1>19 DEF EntriesClaim, Claimed, EntryTypes
  <2>6. DyingPages' /\ Light!DeadPagesAreReloaded'
    BY <1>19 DEF DyingPages, Light!DeadPagesAreReloaded, LightTypes
  <2>7. Light!TimersAreCancellable'
    BY <1>19 DEF Light!TimersAreCancellable, EntryTypes, LightTypes
  <2>8. Light!WindowsInUseStay'
    BY <1>19 DEF Light!WindowsInUseStay, WindowInUse, Light!Hand
  <2>9. Light!EnteringNeverQuits'
    BY <1>19 DEF Light!EnteringNeverQuits, EntriesClaim
  <2>. QED
    BY <2>1, <2>2, <2>3, <2>4, <2>5, <2>6, <2>7, <2>8, <2>9
<1>. QED
  BY <1>1, <1>2, <1>3, <1>4, <1>5, <1>6, <1>7, <1>8, <1>9, <1>10, <1>11, <1>12, <1>13,
     <1>14, <1>15, <1>16, <1>17, <1>18, <1>19
     DEF Light!NextLight

(* What the invariant shows. *)
LEMMA LightShows ==
  LightInv => /\ Light!TypeOK /\ Light!TimersAreCancellable /\ Light!DeadPagesAreReloaded
              /\ Light!WindowsInUseStay /\ Light!EnteringNeverQuits
<1>. SUFFICES ASSUME LightInv PROVE Light!TypeOK
  BY DEF LightInv
<1>. QED
  BY DEF LightInv, LightTypes, EntryTypes, LightFlags, Light!TypeOK

-----------------------------------------------------------------------------
(* The upgrade of the Core.  UpgradePlaces says where the old Core and the new *)
(* one are at every step, and CoreIsKept that a Core that could run is there   *)
(* at every step, so that an application that is killed finds it.              *)

UpgradeTypes ==
  /\ upgrade \in Upgrading!UpgradeStages /\ target \in Upgrading!Files /\ staged \in Upgrading!Files
  /\ rollback \in Upgrading!Files /\ displaced \in Upgrading!Files /\ approved \in Upgrading!Files
  /\ installed \in Upgrading!Files /\ began \in Upgrading!Files
UpgradeRunning ==
  /\ coreMode \in {"service", "sidecar", "down"} /\ runs \in {"old", "new", "none"}
  /\ staging \in {"notAttempted", "succeeded", "refused"}
  /\ outcome \in {"none", "nothing", "upgraded", "failed"}
  /\ upgrades \in 0..MaxUpgrades /\ coreFaults \in 0..MaxFaults
UpgradeFlags == {windows, restorable, wasService, stuck} \subseteq BOOLEAN

UpgradePlaces ==
  /\ upgrade \in {"linking", "deciding", "publishing", "aside"} => staged = "new"
  /\ upgrade = "verifying" => staged \in {"new", "broken"}
  /\ upgrade \in {"reading", "resolving", "unpacking", "verifying", "linking", "deciding", "publishing"} =>
       target = began
  /\ upgrade \in {"resolving", "unpacking", "verifying", "linking"} =>
       installed = (IF Upgrading!Runnable(began) THEN began ELSE "none")
  /\ upgrade \in {"resolving", "unpacking", "verifying", "linking"} => ~restorable
  /\ upgrade \in {"deciding", "publishing", "aside", "handing", "restarting", "recovering"} =>
       IF restorable THEN rollback = began /\ Upgrading!Runnable(began) ELSE rollback = "none"
  /\ upgrade = "aside" => windows /\ target = "none" /\ displaced = began
  /\ upgrade \in {"handing", "restarting", "finishing"} => target = "new"
  /\ upgrade \in {"restaging", "restartingBack"} => target = began
UpgradeTold ==
  /\ upgrade \in {"resolving", "unpacking", "verifying", "linking", "deciding", "publishing", "aside", "handing"} =>
       staging = "notAttempted"
  /\ upgrade # "idle" => outcome = "none"
  /\ upgrade \in {"restarting", "finishing"} /\ wasService => approved = "new" /\ staging = "succeeded"
  /\ upgrade = "recovering" /\ wasService /\ target = "new" /\ began = "old" =>
       staging = "refused" \/ approved = "new"
  /\ upgrade = "failing" /\ wasService /\ restorable /\ ~stuck /\ began = "old" /\ target = "new" =>
       approved = "new"
CoreIsKept ==
  /\ upgrade # "idle" => \/ target \in {"new", began}
                         \/ windows /\ target = "none" /\ (displaced = began \/ rollback = began)
  /\ upgrade = "recovering" => target \in {"new", began} \/ displaced = began
  /\ upgrade = "failing" /\ ~stuck => target \in {"new", began} \/ (displaced = began /\ ~restorable)

UpgradeInv ==
  /\ UpgradeTypes /\ UpgradeRunning /\ UpgradeFlags /\ UpgradePlaces /\ UpgradeTold /\ CoreIsKept
  /\ Upgrading!ARunnableCoreStays /\ Upgrading!ReportedMeansUpgraded /\ Upgrading!FailedCanBeRetried

(* The Core runs, or the updater of the Core has broken its file. *)
LEMMA UpgradingInit == Upgrading!InitUpgrade => UpgradeInv
<1>. SUFFICES ASSUME Upgrading!InitUpgrade PROVE UpgradeInv
  OBVIOUS
<1>. USE UpgradingAssumption DEF Upgrading!InitUpgrade
<1>1. UpgradeTypes
  BY DEF UpgradeTypes, Upgrading!Files, Upgrading!UpgradeStages
<1>2. UpgradeRunning
  BY DEF UpgradeRunning
<1>5. UpgradeFlags
  BY DEF UpgradeFlags
<1>3. UpgradePlaces /\ UpgradeTold /\ CoreIsKept
  BY DEF UpgradePlaces, UpgradeTold, CoreIsKept
<1>4. /\ Upgrading!ARunnableCoreStays /\ Upgrading!ReportedMeansUpgraded
      /\ Upgrading!FailedCanBeRetried
  BY DEF Upgrading!ARunnableCoreStays, Upgrading!ReportedMeansUpgraded, Upgrading!FailedCanBeRetried
<1>. QED
  BY <1>1, <1>2, <1>3, <1>4, <1>5 DEF UpgradeInv

(* Every step of the upgrade and of the world keeps the invariant. *)
LEMMA UpgradingNext ==
  ASSUME UpgradeInv, Upgrading!NextUpgrade \/ UNCHANGED Upgrading!upgradeVars
  PROVE  UpgradeInv'
<1>. USE UpgradingAssumption DEF UpgradeInv, Upgrading!upgradeVars, Upgrading!files, Upgrading!running,
          Upgrading!decisions, Upgrading!told, Upgrading!counted, Upgrading!Go
<1>1. CASE Upgrading!Upgrade
  <2>1. UpgradeTypes'
    BY <1>1 DEF Upgrading!Upgrade, UpgradeTypes, Upgrading!Files, Upgrading!UpgradeStages
  <2>2. UpgradeRunning' /\ UpgradeFlags'
    <3>1. UpgradeRunning'
      BY <1>1 DEF Upgrading!Upgrade, UpgradeRunning, UpgradeTypes, Upgrading!Runnable
    <3>2. UpgradeFlags'
      BY <1>1 DEF Upgrading!Upgrade, UpgradeFlags
    <3>. QED
      BY <3>1, <3>2
  <2>3. UpgradePlaces'
    BY <1>1
       DEF Upgrading!Upgrade, UpgradePlaces, UpgradeTypes, UpgradeFlags, CoreIsKept,
          Upgrading!Runnable
  <2>4. UpgradeTold'
    BY <1>1
       DEF Upgrading!Upgrade, UpgradeTold, UpgradePlaces, UpgradeFlags, CoreIsKept,
          Upgrading!WorthRestoring
  <2>5. CoreIsKept'
    BY <1>1
       DEF Upgrading!Upgrade, CoreIsKept, UpgradePlaces, UpgradeFlags,
          Upgrading!WorthRestoring, Upgrading!Runnable
  <2>6. Upgrading!ARunnableCoreStays'
    BY <1>1
       DEF Upgrading!Upgrade, Upgrading!ARunnableCoreStays, CoreIsKept, UpgradePlaces,
          UpgradeFlags, Upgrading!Runnable
  <2>7. Upgrading!ReportedMeansUpgraded' /\ Upgrading!FailedCanBeRetried'
    BY <1>1
       DEF Upgrading!Upgrade, Upgrading!ReportedMeansUpgraded, Upgrading!FailedCanBeRetried,
          UpgradeTold, UpgradePlaces
  <2>. QED
    BY <2>1, <2>2, <2>3, <2>4, <2>5, <2>6, <2>7
<1>2. CASE Upgrading!ReadInstalled
  <2>1. UpgradeTypes'
    BY <1>2
       DEF Upgrading!ReadInstalled, UpgradeTypes, Upgrading!Files, Upgrading!UpgradeStages
  <2>2. UpgradeRunning' /\ UpgradeFlags'
    BY <1>2
       DEF Upgrading!ReadInstalled, UpgradeRunning, UpgradeFlags, UpgradeTypes,
          Upgrading!Runnable
  <2>3. UpgradePlaces'
    BY <1>2
       DEF Upgrading!ReadInstalled, UpgradePlaces, UpgradeTypes, UpgradeFlags, CoreIsKept,
          Upgrading!Runnable
  <2>4. UpgradeTold'
    BY <1>2
       DEF Upgrading!ReadInstalled, UpgradeTold, UpgradePlaces, UpgradeFlags, CoreIsKept,
          Upgrading!WorthRestoring
  <2>5. CoreIsKept'
    BY <1>2
       DEF Upgrading!ReadInstalled, CoreIsKept, UpgradePlaces, UpgradeFlags,
          Upgrading!WorthRestoring, Upgrading!Runnable
  <2>6. Upgrading!ARunnableCoreStays'
    BY <1>2
       DEF Upgrading!ReadInstalled, Upgrading!ARunnableCoreStays, CoreIsKept, UpgradePlaces,
          UpgradeFlags, Upgrading!Runnable
  <2>7. Upgrading!ReportedMeansUpgraded' /\ Upgrading!FailedCanBeRetried'
    BY <1>2
       DEF Upgrading!ReadInstalled, Upgrading!ReportedMeansUpgraded,
          Upgrading!FailedCanBeRetried, UpgradeTold, UpgradePlaces
  <2>. QED
    BY <2>1, <2>2, <2>3, <2>4, <2>5, <2>6, <2>7
<1>3. CASE Upgrading!Resolve
  <2>1. UpgradeTypes'
    BY <1>3 DEF Upgrading!Resolve, UpgradeTypes, Upgrading!Files, Upgrading!UpgradeStages
  <2>2. UpgradeRunning' /\ UpgradeFlags'
    BY <1>3
       DEF Upgrading!Resolve, UpgradeRunning, UpgradeFlags, UpgradeTypes, Upgrading!Runnable
  <2>3. UpgradePlaces'
    BY <1>3
       DEF Upgrading!Resolve, UpgradePlaces, UpgradeTypes, UpgradeFlags, CoreIsKept,
          Upgrading!Runnable
  <2>4. UpgradeTold'
    BY <1>3
       DEF Upgrading!Resolve, UpgradeTold, UpgradePlaces, UpgradeFlags, CoreIsKept,
          Upgrading!WorthRestoring
  <2>5. CoreIsKept'
    BY <1>3
       DEF Upgrading!Resolve, CoreIsKept, UpgradePlaces, UpgradeFlags,
          Upgrading!WorthRestoring, Upgrading!Runnable
  <2>6. Upgrading!ARunnableCoreStays'
    BY <1>3
       DEF Upgrading!Resolve, Upgrading!ARunnableCoreStays, CoreIsKept, UpgradePlaces,
          UpgradeFlags, Upgrading!Runnable
  <2>7. Upgrading!ReportedMeansUpgraded' /\ Upgrading!FailedCanBeRetried'
    BY <1>3
       DEF Upgrading!Resolve, Upgrading!ReportedMeansUpgraded, Upgrading!FailedCanBeRetried,
          UpgradeTold, UpgradePlaces
  <2>. QED
    BY <2>1, <2>2, <2>3, <2>4, <2>5, <2>6, <2>7
<1>4. CASE Upgrading!Unpack
  <2>1. UpgradeTypes'
    BY <1>4 DEF Upgrading!Unpack, UpgradeTypes, Upgrading!Files, Upgrading!UpgradeStages
  <2>2. UpgradeRunning' /\ UpgradeFlags'
    BY <1>4
       DEF Upgrading!Unpack, UpgradeRunning, UpgradeFlags, UpgradeTypes, Upgrading!Runnable
  <2>3. UpgradePlaces'
    BY <1>4
       DEF Upgrading!Unpack, UpgradePlaces, UpgradeTypes, UpgradeFlags, CoreIsKept,
          Upgrading!Runnable
  <2>4. UpgradeTold'
    BY <1>4
       DEF Upgrading!Unpack, UpgradeTold, UpgradePlaces, UpgradeFlags, CoreIsKept,
          Upgrading!WorthRestoring
  <2>5. CoreIsKept'
    BY <1>4
       DEF Upgrading!Unpack, CoreIsKept, UpgradePlaces, UpgradeFlags,
          Upgrading!WorthRestoring, Upgrading!Runnable
  <2>6. Upgrading!ARunnableCoreStays'
    BY <1>4
       DEF Upgrading!Unpack, Upgrading!ARunnableCoreStays, CoreIsKept, UpgradePlaces,
          UpgradeFlags, Upgrading!Runnable
  <2>7. Upgrading!ReportedMeansUpgraded' /\ Upgrading!FailedCanBeRetried'
    BY <1>4
       DEF Upgrading!Unpack, Upgrading!ReportedMeansUpgraded, Upgrading!FailedCanBeRetried,
          UpgradeTold, UpgradePlaces
  <2>. QED
    BY <2>1, <2>2, <2>3, <2>4, <2>5, <2>6, <2>7
<1>5. CASE Upgrading!Verify
  <2>1. UpgradeTypes'
    BY <1>5 DEF Upgrading!Verify, UpgradeTypes, Upgrading!Files, Upgrading!UpgradeStages
  <2>2. UpgradeRunning' /\ UpgradeFlags'
    BY <1>5
       DEF Upgrading!Verify, UpgradeRunning, UpgradeFlags, UpgradeTypes, Upgrading!Runnable
  <2>3. UpgradePlaces'
    BY <1>5
       DEF Upgrading!Verify, UpgradePlaces, UpgradeTypes, UpgradeFlags, CoreIsKept,
          Upgrading!Runnable
  <2>4. UpgradeTold'
    BY <1>5
       DEF Upgrading!Verify, UpgradeTold, UpgradePlaces, UpgradeFlags, CoreIsKept,
          Upgrading!WorthRestoring
  <2>5. CoreIsKept'
    BY <1>5
       DEF Upgrading!Verify, CoreIsKept, UpgradePlaces, UpgradeFlags,
          Upgrading!WorthRestoring, Upgrading!Runnable
  <2>6. Upgrading!ARunnableCoreStays'
    BY <1>5
       DEF Upgrading!Verify, Upgrading!ARunnableCoreStays, CoreIsKept, UpgradePlaces,
          UpgradeFlags, Upgrading!Runnable
  <2>7. Upgrading!ReportedMeansUpgraded' /\ Upgrading!FailedCanBeRetried'
    BY <1>5
       DEF Upgrading!Verify, Upgrading!ReportedMeansUpgraded, Upgrading!FailedCanBeRetried,
          UpgradeTold, UpgradePlaces
  <2>. QED
    BY <2>1, <2>2, <2>3, <2>4, <2>5, <2>6, <2>7
<1>6. CASE Upgrading!Link
  <2>1. UpgradeTypes'
    BY <1>6 DEF Upgrading!Link, UpgradeTypes, Upgrading!Files, Upgrading!UpgradeStages
  <2>2. UpgradeRunning' /\ UpgradeFlags'
    BY <1>6
       DEF Upgrading!Link, UpgradeRunning, UpgradeFlags, UpgradeTypes, Upgrading!Runnable
  <2>3. UpgradePlaces'
    BY <1>6
       DEF Upgrading!Link, UpgradePlaces, UpgradeTypes, UpgradeFlags, CoreIsKept,
          Upgrading!Runnable
  <2>4. UpgradeTold'
    BY <1>6
       DEF Upgrading!Link, UpgradeTold, UpgradePlaces, UpgradeFlags, CoreIsKept,
          Upgrading!WorthRestoring
  <2>5. CoreIsKept'
    BY <1>6
       DEF Upgrading!Link, CoreIsKept, UpgradePlaces, UpgradeFlags,
          Upgrading!WorthRestoring, Upgrading!Runnable
  <2>6. Upgrading!ARunnableCoreStays'
    BY <1>6
       DEF Upgrading!Link, Upgrading!ARunnableCoreStays, CoreIsKept, UpgradePlaces,
          UpgradeFlags, Upgrading!Runnable
  <2>7. Upgrading!ReportedMeansUpgraded' /\ Upgrading!FailedCanBeRetried'
    BY <1>6
       DEF Upgrading!Link, Upgrading!ReportedMeansUpgraded, Upgrading!FailedCanBeRetried,
          UpgradeTold, UpgradePlaces
  <2>. QED
    BY <2>1, <2>2, <2>3, <2>4, <2>5, <2>6, <2>7
<1>7. CASE Upgrading!Decide
  <2>1. UpgradeTypes'
    BY <1>7 DEF Upgrading!Decide, UpgradeTypes, Upgrading!Files, Upgrading!UpgradeStages
  <2>2. UpgradeRunning' /\ UpgradeFlags'
    BY <1>7
       DEF Upgrading!Decide, UpgradeRunning, UpgradeFlags, UpgradeTypes, Upgrading!Runnable
  <2>3. UpgradePlaces'
    BY <1>7
       DEF Upgrading!Decide, UpgradePlaces, UpgradeTypes, UpgradeFlags, CoreIsKept,
          Upgrading!Runnable
  <2>4. UpgradeTold'
    BY <1>7
       DEF Upgrading!Decide, UpgradeTold, UpgradePlaces, UpgradeFlags, CoreIsKept,
          Upgrading!WorthRestoring
  <2>5. CoreIsKept'
    BY <1>7
       DEF Upgrading!Decide, CoreIsKept, UpgradePlaces, UpgradeFlags,
          Upgrading!WorthRestoring, Upgrading!Runnable
  <2>6. Upgrading!ARunnableCoreStays'
    BY <1>7
       DEF Upgrading!Decide, Upgrading!ARunnableCoreStays, CoreIsKept, UpgradePlaces,
          UpgradeFlags, Upgrading!Runnable
  <2>7. Upgrading!ReportedMeansUpgraded' /\ Upgrading!FailedCanBeRetried'
    BY <1>7
       DEF Upgrading!Decide, Upgrading!ReportedMeansUpgraded, Upgrading!FailedCanBeRetried,
          UpgradeTold, UpgradePlaces
  <2>. QED
    BY <2>1, <2>2, <2>3, <2>4, <2>5, <2>6, <2>7
<1>8. CASE Upgrading!Publish
  <2>1. UpgradeTypes'
    BY <1>8 DEF Upgrading!Publish, UpgradeTypes, Upgrading!Files, Upgrading!UpgradeStages
  <2>2. UpgradeRunning' /\ UpgradeFlags'
    BY <1>8
       DEF Upgrading!Publish, UpgradeRunning, UpgradeFlags, UpgradeTypes, Upgrading!Runnable
  <2>3. UpgradePlaces'
    BY <1>8
       DEF Upgrading!Publish, UpgradePlaces, UpgradeTypes, UpgradeFlags, CoreIsKept,
          Upgrading!Runnable
  <2>4. UpgradeTold'
    BY <1>8
       DEF Upgrading!Publish, UpgradeTold, UpgradePlaces, UpgradeFlags, CoreIsKept,
          Upgrading!WorthRestoring
  <2>5. CoreIsKept'
    BY <1>8
       DEF Upgrading!Publish, CoreIsKept, UpgradePlaces, UpgradeFlags,
          Upgrading!WorthRestoring, Upgrading!Runnable
  <2>6. Upgrading!ARunnableCoreStays'
    BY <1>8
       DEF Upgrading!Publish, Upgrading!ARunnableCoreStays, CoreIsKept, UpgradePlaces,
          UpgradeFlags, Upgrading!Runnable
  <2>7. Upgrading!ReportedMeansUpgraded' /\ Upgrading!FailedCanBeRetried'
    BY <1>8
       DEF Upgrading!Publish, Upgrading!ReportedMeansUpgraded, Upgrading!FailedCanBeRetried,
          UpgradeTold, UpgradePlaces
  <2>. QED
    BY <2>1, <2>2, <2>3, <2>4, <2>5, <2>6, <2>7
<1>9. CASE Upgrading!PublishAside
  <2>1. UpgradeTypes'
    BY <1>9
       DEF Upgrading!PublishAside, UpgradeTypes, Upgrading!Files, Upgrading!UpgradeStages
  <2>2. UpgradeRunning' /\ UpgradeFlags'
    BY <1>9
       DEF Upgrading!PublishAside, UpgradeRunning, UpgradeFlags, UpgradeTypes,
          Upgrading!Runnable
  <2>3. UpgradePlaces'
    BY <1>9
       DEF Upgrading!PublishAside, UpgradePlaces, UpgradeTypes, UpgradeFlags, CoreIsKept,
          Upgrading!Runnable
  <2>4. UpgradeTold'
    BY <1>9
       DEF Upgrading!PublishAside, UpgradeTold, UpgradePlaces, UpgradeFlags, CoreIsKept,
          Upgrading!WorthRestoring
  <2>5. CoreIsKept'
    BY <1>9
       DEF Upgrading!PublishAside, CoreIsKept, UpgradePlaces, UpgradeFlags,
          Upgrading!WorthRestoring, Upgrading!Runnable
  <2>6. Upgrading!ARunnableCoreStays'
    BY <1>9
       DEF Upgrading!PublishAside, Upgrading!ARunnableCoreStays, CoreIsKept, UpgradePlaces,
          UpgradeFlags, Upgrading!Runnable
  <2>7. Upgrading!ReportedMeansUpgraded' /\ Upgrading!FailedCanBeRetried'
    BY <1>9
       DEF Upgrading!PublishAside, Upgrading!ReportedMeansUpgraded,
          Upgrading!FailedCanBeRetried, UpgradeTold, UpgradePlaces
  <2>. QED
    BY <2>1, <2>2, <2>3, <2>4, <2>5, <2>6, <2>7
<1>10. CASE Upgrading!HandOver
  <2>1. UpgradeTypes'
    BY <1>10 DEF Upgrading!HandOver, UpgradeTypes, Upgrading!Files, Upgrading!UpgradeStages
  <2>2. UpgradeRunning' /\ UpgradeFlags'
    BY <1>10
       DEF Upgrading!HandOver, UpgradeRunning, UpgradeFlags, UpgradeTypes,
          Upgrading!Runnable
  <2>3. UpgradePlaces'
    BY <1>10
       DEF Upgrading!HandOver, UpgradePlaces, UpgradeTypes, UpgradeFlags, CoreIsKept,
          Upgrading!Runnable
  <2>4. UpgradeTold'
    BY <1>10
       DEF Upgrading!HandOver, UpgradeTold, UpgradePlaces, UpgradeFlags, CoreIsKept,
          Upgrading!WorthRestoring
  <2>5. CoreIsKept'
    BY <1>10
       DEF Upgrading!HandOver, CoreIsKept, UpgradePlaces, UpgradeFlags,
          Upgrading!WorthRestoring, Upgrading!Runnable
  <2>6. Upgrading!ARunnableCoreStays'
    BY <1>10
       DEF Upgrading!HandOver, Upgrading!ARunnableCoreStays, CoreIsKept, UpgradePlaces,
          UpgradeFlags, Upgrading!Runnable
  <2>7. Upgrading!ReportedMeansUpgraded' /\ Upgrading!FailedCanBeRetried'
    BY <1>10
       DEF Upgrading!HandOver, Upgrading!ReportedMeansUpgraded,
          Upgrading!FailedCanBeRetried, UpgradeTold, UpgradePlaces
  <2>. QED
    BY <2>1, <2>2, <2>3, <2>4, <2>5, <2>6, <2>7
<1>11. CASE Upgrading!Restart
  <2>1. UpgradeTypes'
    BY <1>11
       DEF Upgrading!Restart, Upgrading!Started, Upgrading!ModeAsked, Upgrading!Executes,
          UpgradeTypes, Upgrading!Files, Upgrading!UpgradeStages
  <2>2. UpgradeRunning' /\ UpgradeFlags'
    BY <1>11
       DEF Upgrading!Restart, Upgrading!Started, Upgrading!ModeAsked, Upgrading!Executes,
          UpgradeRunning, UpgradeFlags, UpgradeTypes, Upgrading!Runnable
  <2>3. UpgradePlaces'
    BY <1>11
       DEF Upgrading!Restart, Upgrading!Started, Upgrading!ModeAsked, Upgrading!Executes,
          UpgradePlaces, UpgradeTypes, UpgradeFlags, CoreIsKept, Upgrading!Runnable
  <2>4. UpgradeTold'
    BY <1>11
       DEF Upgrading!Restart, Upgrading!Started, Upgrading!ModeAsked, Upgrading!Executes,
          UpgradeTold, UpgradePlaces, UpgradeFlags, CoreIsKept, Upgrading!WorthRestoring
  <2>5. CoreIsKept'
    BY <1>11
       DEF Upgrading!Restart, Upgrading!Started, Upgrading!ModeAsked, Upgrading!Executes,
          CoreIsKept, UpgradePlaces, UpgradeFlags, Upgrading!WorthRestoring,
          Upgrading!Runnable
  <2>6. Upgrading!ARunnableCoreStays'
    BY <1>11
       DEF Upgrading!Restart, Upgrading!Started, Upgrading!ModeAsked, Upgrading!Executes,
          Upgrading!ARunnableCoreStays, CoreIsKept, UpgradePlaces, UpgradeFlags,
          Upgrading!Runnable
  <2>7. Upgrading!ReportedMeansUpgraded' /\ Upgrading!FailedCanBeRetried'
    BY <1>11
       DEF Upgrading!Restart, Upgrading!Started, Upgrading!ModeAsked, Upgrading!Executes,
          Upgrading!ReportedMeansUpgraded, Upgrading!FailedCanBeRetried, UpgradeTold,
          UpgradePlaces
  <2>. QED
    BY <2>1, <2>2, <2>3, <2>4, <2>5, <2>6, <2>7
<1>12. CASE Upgrading!Finish
  <2>1. UpgradeTypes'
    BY <1>12 DEF Upgrading!Finish, UpgradeTypes, Upgrading!Files, Upgrading!UpgradeStages
  <2>2. UpgradeRunning' /\ UpgradeFlags'
    BY <1>12
       DEF Upgrading!Finish, UpgradeRunning, UpgradeFlags, UpgradeTypes, Upgrading!Runnable
  <2>3. UpgradePlaces'
    BY <1>12
       DEF Upgrading!Finish, UpgradePlaces, UpgradeTypes, UpgradeFlags, CoreIsKept,
          Upgrading!Runnable
  <2>4. UpgradeTold'
    BY <1>12
       DEF Upgrading!Finish, UpgradeTold, UpgradePlaces, UpgradeFlags, CoreIsKept,
          Upgrading!WorthRestoring
  <2>5. CoreIsKept'
    BY <1>12
       DEF Upgrading!Finish, CoreIsKept, UpgradePlaces, UpgradeFlags,
          Upgrading!WorthRestoring, Upgrading!Runnable
  <2>6. Upgrading!ARunnableCoreStays'
    BY <1>12
       DEF Upgrading!Finish, Upgrading!ARunnableCoreStays, CoreIsKept, UpgradePlaces,
          UpgradeFlags, Upgrading!Runnable
  <2>7. Upgrading!ReportedMeansUpgraded' /\ Upgrading!FailedCanBeRetried'
    BY <1>12
       DEF Upgrading!Finish, Upgrading!ReportedMeansUpgraded, Upgrading!FailedCanBeRetried,
          UpgradeTold, UpgradePlaces
  <2>. QED
    BY <2>1, <2>2, <2>3, <2>4, <2>5, <2>6, <2>7
<1>13. CASE Upgrading!Restore
  <2>1. UpgradeTypes'
    BY <1>13
       DEF Upgrading!Restore, Upgrading!AfterRestore, Upgrading!WorthRestoring,
          UpgradeTypes, Upgrading!Files, Upgrading!UpgradeStages
  <2>2. UpgradeRunning' /\ UpgradeFlags'
    BY <1>13
       DEF Upgrading!Restore, Upgrading!AfterRestore, Upgrading!WorthRestoring,
          UpgradeRunning, UpgradeFlags, UpgradeTypes, Upgrading!Runnable
  <2>3. UpgradePlaces'
    BY <1>13
       DEF Upgrading!Restore, Upgrading!AfterRestore, Upgrading!WorthRestoring,
          UpgradePlaces, UpgradeTypes, UpgradeFlags, CoreIsKept, Upgrading!Runnable
  <2>4. UpgradeTold'
    BY <1>13
       DEF Upgrading!Restore, Upgrading!AfterRestore, Upgrading!WorthRestoring, UpgradeTold,
          UpgradePlaces, UpgradeFlags, CoreIsKept
  <2>5. CoreIsKept'
    BY <1>13
       DEF Upgrading!Restore, Upgrading!AfterRestore, Upgrading!WorthRestoring, CoreIsKept,
          UpgradePlaces, UpgradeFlags, Upgrading!Runnable
  <2>6. Upgrading!ARunnableCoreStays'
    BY <1>13
       DEF Upgrading!Restore, Upgrading!AfterRestore, Upgrading!WorthRestoring,
          Upgrading!ARunnableCoreStays, CoreIsKept, UpgradePlaces, UpgradeFlags,
          Upgrading!Runnable
  <2>7. Upgrading!ReportedMeansUpgraded' /\ Upgrading!FailedCanBeRetried'
    BY <1>13
       DEF Upgrading!Restore, Upgrading!AfterRestore, Upgrading!WorthRestoring,
          Upgrading!ReportedMeansUpgraded, Upgrading!FailedCanBeRetried, UpgradeTold,
          UpgradePlaces
  <2>. QED
    BY <2>1, <2>2, <2>3, <2>4, <2>5, <2>6, <2>7
<1>14. CASE Upgrading!Restage
  <2>1. UpgradeTypes'
    BY <1>14 DEF Upgrading!Restage, UpgradeTypes, Upgrading!Files, Upgrading!UpgradeStages
  <2>2. UpgradeRunning' /\ UpgradeFlags'
    BY <1>14
       DEF Upgrading!Restage, UpgradeRunning, UpgradeFlags, UpgradeTypes, Upgrading!Runnable
  <2>3. UpgradePlaces'
    BY <1>14
       DEF Upgrading!Restage, UpgradePlaces, UpgradeTypes, UpgradeFlags, CoreIsKept,
          Upgrading!Runnable
  <2>4. UpgradeTold'
    BY <1>14
       DEF Upgrading!Restage, UpgradeTold, UpgradePlaces, UpgradeFlags, CoreIsKept,
          Upgrading!WorthRestoring
  <2>5. CoreIsKept'
    BY <1>14
       DEF Upgrading!Restage, CoreIsKept, UpgradePlaces, UpgradeFlags,
          Upgrading!WorthRestoring, Upgrading!Runnable
  <2>6. Upgrading!ARunnableCoreStays'
    BY <1>14
       DEF Upgrading!Restage, Upgrading!ARunnableCoreStays, CoreIsKept, UpgradePlaces,
          UpgradeFlags, Upgrading!Runnable
  <2>7. Upgrading!ReportedMeansUpgraded' /\ Upgrading!FailedCanBeRetried'
    BY <1>14
       DEF Upgrading!Restage, Upgrading!ReportedMeansUpgraded, Upgrading!FailedCanBeRetried,
          UpgradeTold, UpgradePlaces
  <2>. QED
    BY <2>1, <2>2, <2>3, <2>4, <2>5, <2>6, <2>7
<1>15. CASE Upgrading!RestartBack
  <2>1. UpgradeTypes'
    BY <1>15
       DEF Upgrading!RestartBack, Upgrading!Started, Upgrading!ModeAsked,
          Upgrading!Executes, UpgradeTypes, Upgrading!Files, Upgrading!UpgradeStages
  <2>2. UpgradeRunning' /\ UpgradeFlags'
    BY <1>15
       DEF Upgrading!RestartBack, Upgrading!Started, Upgrading!ModeAsked,
          Upgrading!Executes, UpgradeRunning, UpgradeFlags, UpgradeTypes, Upgrading!Runnable
  <2>3. UpgradePlaces'
    BY <1>15
       DEF Upgrading!RestartBack, Upgrading!Started, Upgrading!ModeAsked,
          Upgrading!Executes, UpgradePlaces, UpgradeTypes, UpgradeFlags, CoreIsKept,
          Upgrading!Runnable
  <2>4. UpgradeTold'
    BY <1>15
       DEF Upgrading!RestartBack, Upgrading!Started, Upgrading!ModeAsked,
          Upgrading!Executes, UpgradeTold, UpgradePlaces, UpgradeFlags, CoreIsKept,
          Upgrading!WorthRestoring
  <2>5. CoreIsKept'
    BY <1>15
       DEF Upgrading!RestartBack, Upgrading!Started, Upgrading!ModeAsked,
          Upgrading!Executes, CoreIsKept, UpgradePlaces, UpgradeFlags,
          Upgrading!WorthRestoring, Upgrading!Runnable
  <2>6. Upgrading!ARunnableCoreStays'
    BY <1>15
       DEF Upgrading!RestartBack, Upgrading!Started, Upgrading!ModeAsked,
          Upgrading!Executes, Upgrading!ARunnableCoreStays, CoreIsKept, UpgradePlaces,
          UpgradeFlags, Upgrading!Runnable
  <2>7. Upgrading!ReportedMeansUpgraded' /\ Upgrading!FailedCanBeRetried'
    BY <1>15
       DEF Upgrading!RestartBack, Upgrading!Started, Upgrading!ModeAsked,
          Upgrading!Executes, Upgrading!ReportedMeansUpgraded, Upgrading!FailedCanBeRetried,
          UpgradeTold, UpgradePlaces
  <2>. QED
    BY <2>1, <2>2, <2>3, <2>4, <2>5, <2>6, <2>7
<1>16. CASE Upgrading!Fail
  <2>1. UpgradeTypes'
    BY <1>16 DEF Upgrading!Fail, UpgradeTypes, Upgrading!Files, Upgrading!UpgradeStages
  <2>2. UpgradeRunning' /\ UpgradeFlags'
    BY <1>16
       DEF Upgrading!Fail, UpgradeRunning, UpgradeFlags, UpgradeTypes, Upgrading!Runnable
  <2>3. UpgradePlaces'
    BY <1>16
       DEF Upgrading!Fail, UpgradePlaces, UpgradeTypes, UpgradeFlags, CoreIsKept,
          Upgrading!Runnable
  <2>4. UpgradeTold'
    BY <1>16
       DEF Upgrading!Fail, UpgradeTold, UpgradePlaces, UpgradeFlags, CoreIsKept,
          Upgrading!WorthRestoring
  <2>5. CoreIsKept'
    BY <1>16
       DEF Upgrading!Fail, CoreIsKept, UpgradePlaces, UpgradeFlags,
          Upgrading!WorthRestoring, Upgrading!Runnable
  <2>6. Upgrading!ARunnableCoreStays'
    BY <1>16
       DEF Upgrading!Fail, Upgrading!ARunnableCoreStays, CoreIsKept, UpgradePlaces,
          UpgradeFlags, Upgrading!Runnable
  <2>7. Upgrading!ReportedMeansUpgraded' /\ Upgrading!FailedCanBeRetried'
    BY <1>16
       DEF Upgrading!Fail, Upgrading!ReportedMeansUpgraded, Upgrading!FailedCanBeRetried,
          UpgradeTold, UpgradePlaces
  <2>. QED
    BY <2>1, <2>2, <2>3, <2>4, <2>5, <2>6, <2>7
<1>17. CASE Upgrading!CoreDies
  <2>1. UpgradeTypes'
    BY <1>17 DEF Upgrading!CoreDies, UpgradeTypes, Upgrading!Files, Upgrading!UpgradeStages
  <2>2. UpgradeRunning' /\ UpgradeFlags'
    BY <1>17
       DEF Upgrading!CoreDies, UpgradeRunning, UpgradeFlags, UpgradeTypes,
          Upgrading!Runnable
  <2>3. UpgradePlaces'
    BY <1>17
       DEF Upgrading!CoreDies, UpgradePlaces, UpgradeTypes, UpgradeFlags, CoreIsKept,
          Upgrading!Runnable
  <2>4. UpgradeTold'
    BY <1>17
       DEF Upgrading!CoreDies, UpgradeTold, UpgradePlaces, UpgradeFlags, CoreIsKept,
          Upgrading!WorthRestoring
  <2>5. CoreIsKept'
    BY <1>17
       DEF Upgrading!CoreDies, CoreIsKept, UpgradePlaces, UpgradeFlags,
          Upgrading!WorthRestoring, Upgrading!Runnable
  <2>6. Upgrading!ARunnableCoreStays'
    BY <1>17
       DEF Upgrading!CoreDies, Upgrading!ARunnableCoreStays, CoreIsKept, UpgradePlaces,
          UpgradeFlags, Upgrading!Runnable
  <2>7. Upgrading!ReportedMeansUpgraded' /\ Upgrading!FailedCanBeRetried'
    BY <1>17
       DEF Upgrading!CoreDies, Upgrading!ReportedMeansUpgraded,
          Upgrading!FailedCanBeRetried, UpgradeTold, UpgradePlaces
  <2>. QED
    BY <2>1, <2>2, <2>3, <2>4, <2>5, <2>6, <2>7
<1>18. CASE Upgrading!ApplicationDies
  <2>1. UpgradeTypes'
    BY <1>18
       DEF Upgrading!ApplicationDies, Upgrading!Executes, UpgradeTypes, Upgrading!Files,
          Upgrading!UpgradeStages
  <2>2. UpgradeRunning' /\ UpgradeFlags'
    <3>1. UpgradeRunning'
      BY <1>18 DEF Upgrading!ApplicationDies, Upgrading!Executes, UpgradeRunning, UpgradeTypes, Upgrading!Runnable
    <3>2. UpgradeFlags'
      BY <1>18 DEF Upgrading!ApplicationDies, UpgradeFlags
    <3>. QED
      BY <3>1, <3>2
  <2>3. UpgradePlaces'
    BY <1>18
       DEF Upgrading!ApplicationDies, Upgrading!Executes, UpgradePlaces, UpgradeTypes,
          UpgradeFlags, CoreIsKept, Upgrading!Runnable
  <2>4. UpgradeTold'
    BY <1>18
       DEF Upgrading!ApplicationDies, Upgrading!Executes, UpgradeTold, UpgradePlaces,
          UpgradeFlags, CoreIsKept, Upgrading!WorthRestoring
  <2>5. CoreIsKept'
    BY <1>18
       DEF Upgrading!ApplicationDies, Upgrading!Executes, CoreIsKept, UpgradePlaces,
          UpgradeFlags, Upgrading!WorthRestoring, Upgrading!Runnable
  <2>6. Upgrading!ARunnableCoreStays'
    BY <1>18
       DEF Upgrading!ApplicationDies, Upgrading!Executes, Upgrading!ARunnableCoreStays,
          CoreIsKept, UpgradePlaces, UpgradeFlags, Upgrading!Runnable
  <2>7. Upgrading!ReportedMeansUpgraded' /\ Upgrading!FailedCanBeRetried'
    BY <1>18
       DEF Upgrading!ApplicationDies, Upgrading!Executes, Upgrading!ReportedMeansUpgraded,
          Upgrading!FailedCanBeRetried, UpgradeTold, UpgradePlaces
  <2>. QED
    BY <2>1, <2>2, <2>3, <2>4, <2>5, <2>6, <2>7
<1>19. CASE UNCHANGED Upgrading!upgradeVars
  <2>1. UpgradeTypes'
    BY <1>19 DEF UpgradeTypes, Upgrading!Files, Upgrading!UpgradeStages
  <2>2. UpgradeRunning' /\ UpgradeFlags'
    BY <1>19 DEF UpgradeRunning, UpgradeFlags, UpgradeTypes, Upgrading!Runnable
  <2>3. UpgradePlaces'
    BY <1>19 DEF UpgradePlaces, UpgradeTypes, UpgradeFlags, CoreIsKept, Upgrading!Runnable
  <2>4. UpgradeTold'
    BY <1>19
       DEF UpgradeTold, UpgradePlaces, UpgradeFlags, CoreIsKept, Upgrading!WorthRestoring
  <2>5. CoreIsKept'
    BY <1>19
       DEF CoreIsKept, UpgradePlaces, UpgradeFlags, Upgrading!WorthRestoring,
          Upgrading!Runnable
  <2>6. Upgrading!ARunnableCoreStays'
    BY <1>19
       DEF Upgrading!ARunnableCoreStays, CoreIsKept, UpgradePlaces, UpgradeFlags,
          Upgrading!Runnable
  <2>7. Upgrading!ReportedMeansUpgraded' /\ Upgrading!FailedCanBeRetried'
    BY <1>19
       DEF Upgrading!ReportedMeansUpgraded, Upgrading!FailedCanBeRetried, UpgradeTold,
          UpgradePlaces
  <2>. QED
    BY <2>1, <2>2, <2>3, <2>4, <2>5, <2>6, <2>7
<1>. QED
  BY <1>1, <1>2, <1>3, <1>4, <1>5, <1>6, <1>7, <1>8, <1>9, <1>10, <1>11, <1>12, <1>13,
     <1>14, <1>15, <1>16, <1>17, <1>18, <1>19
     DEF Upgrading!NextUpgrade

(* What the invariant shows. *)
LEMMA UpgradingShows ==
  UpgradeInv => /\ Upgrading!TypeOK /\ Upgrading!ARunnableCoreStays
                /\ Upgrading!ReportedMeansUpgraded /\ Upgrading!FailedCanBeRetried
<1>. SUFFICES ASSUME UpgradeInv PROVE Upgrading!TypeOK
  BY DEF UpgradeInv
<1>1. {target, staged, rollback, displaced, approved, installed, began} \subseteq Upgrading!Files
  BY DEF UpgradeInv, UpgradeTypes, Upgrading!Files
<1>. QED
  BY <1>1 DEF UpgradeInv, UpgradeTypes, UpgradeRunning, UpgradeFlags, Upgrading!TypeOK

-----------------------------------------------------------------------------
(* The configuration that is generated.  What the application derives is in    *)
(* the configuration before the overrides (StagesInv), is what it owns         *)
(* afterwards, and is in the configuration again at the end.  NoticeInv and    *)
(* NotesInv say what becomes of the keys that an override lost.                *)

SettingKeys == Enhancing!Control \cup (IF Enhancing!On("mtu") THEN {"tun.mtu"} ELSE {})
PageKeys ==
  IF ~Enhancing!On("page") THEN {}
  ELSE {"dns.nameserver", "dns.ipv6"} \cup (IF Enhancing!On("hosts") THEN {"hosts"} ELSE {})
OwnedKeys == Enhancing!Control \cup {"tun.enable"} \cup SettingKeys \cup PageKeys

HasSettings(f) == \A k \in SettingKeys \ {"mode"} : f[k] = Enhancing!Settings[k]
HasMode(f) ==
  f["mode"] = (IF Enhancing!On("script") /\ ~Enhancing!On("guard") THEN "script" ELSE "rule")
HasTun(f) == f["tun.enable"] = Enhancing!Flag("tun")
HasPage(f) == \A k \in PageKeys : f[k] = Enhancing!PageFields[k]

\* Keys of the application that are not what the application wrote.
Lost == {k \in DOMAIN owned : config[k] # owned[k]}

StagesInv ==
  /\ generating \in {"builtin", "tun", "dns", "capture"} => HasSettings(config)
  /\ generating = "builtin" => config["mode"] = Enhancing!Settings["mode"]
  /\ generating \in {"tun", "dns", "capture"} => HasMode(config)
  /\ generating \in {"dns", "capture"} => HasTun(config)
  /\ generating = "capture" => HasPage(config)
  /\ generating = "dns" /\ Enhancing!On("tun") /\ config["dns.ipv6"] = "on"
     /\ config["dns.enhanced-mode"] \in {"absent", "fake-ip"} =>
       config["dns.fake-ip-range6"] # "absent"
  /\ generating \in Enhancing!LayerNames \cup {"notify", "enforce", "lan", "done"} =>
       DOMAIN owned = OwnedKeys /\ HasSettings(owned) /\ HasMode(owned) /\ HasTun(owned) /\ HasPage(owned)
  /\ generating \in {"lan", "done"} => \A k \in OwnedKeys : config[k] = owned[k]

\* The last notice that was due is waiting or was taken.
NoticeInv ==
  /\ lastKeys # {} => pendingKeys = lastKeys \/ lastKeys \in toldKeys
  /\ generating \in {"enforce", "lan", "done"} => lastKeys = discarded

NotesInv ==
  Enhancing!On("own") =>
    /\ generating = "globalMerge" => Lost = {}
    /\ generating = "globalScript" => Lost \subseteq notes["globalMerge"]
    /\ generating = "profileMerge" => Lost \subseteq notes["globalMerge"] \cup notes["globalScript"]
    /\ generating = "profileScript" =>
         Lost \subseteq notes["globalMerge"] \cup notes["globalScript"] \cup notes["profileMerge"]
    /\ generating = "notify" =>
         Lost \subseteq notes["globalMerge"] \cup notes["globalScript"] \cup notes["profileMerge"]
                        \cup notes["profileScript"]
    /\ generating \in {"enforce", "lan", "done"} =>
         discarded \subseteq notes["globalMerge"] \cup notes["globalScript"] \cup notes["profileMerge"]
                             \cup notes["profileScript"]

\* What the global script wrote, which may run again.
IsWrite(w) == w = Enhancing!Nothing \/ w.value \in {"foreign", "off", "absent"}

EnhanceInv ==
  /\ Enhancing!TypeOK /\ IsWrite(globalWrite) /\ StagesInv /\ NoticeInv /\ NotesInv
  /\ Enhancing!LanIsServed /\ Enhancing!FakeIpHasARange

(* The layers by name. *)
LEMMA LayersAre ==
  /\ Enhancing!Layers[1] = "globalMerge" /\ Enhancing!Layers[2] = "globalScript"
  /\ Enhancing!Layers[3] = "profileMerge" /\ Enhancing!Layers[4] = "profileScript"
  /\ Enhancing!LayerNames = {"globalMerge", "globalScript", "profileMerge", "profileScript"}
<1>1. /\ Enhancing!Layers[1] = "globalMerge" /\ Enhancing!Layers[2] = "globalScript"
      /\ Enhancing!Layers[3] = "profileMerge" /\ Enhancing!Layers[4] = "profileScript"
  BY DEF Enhancing!Layers
<1>2. 1..4 = {1, 2, 3, 4}
  OBVIOUS
<1>. QED
  BY <1>1, <1>2 DEF Enhancing!LayerNames

(* What the settings and the DNS page write, and where. *)
LEMMA SettingsAre ==
  /\ DOMAIN Enhancing!Settings = SettingKeys /\ SettingKeys \subseteq Enhancing!Keys
  /\ "mode" \in SettingKeys /\ "allow-lan" \in SettingKeys
  /\ \A k \in SettingKeys : Enhancing!Settings[k] \in Enhancing!Values
  /\ Enhancing!Settings["mode"] = (IF Enhancing!On("script") THEN "script" ELSE "rule")
  /\ Enhancing!Settings["allow-lan"] = Enhancing!Flag("lan")
BY DEF Enhancing!Settings, SettingKeys, Enhancing!Control, Enhancing!Keys, Enhancing!TunKeys,
       Enhancing!DnsKeys, Enhancing!Values, Enhancing!Flag

LEMMA PageIs ==
  /\ DOMAIN Enhancing!PageFields = PageKeys /\ PageKeys \subseteq Enhancing!Keys
  /\ \A k \in PageKeys : Enhancing!PageFields[k] \in Enhancing!Values
BY DEF Enhancing!PageFields, PageKeys, Enhancing!Keys, Enhancing!DnsKeys, Enhancing!Values

(* The switches stay, and with them what is derived from them. *)
LEMMA DerivedStays ==
  ASSUME on' = on
  PROVE  /\ SettingKeys' = SettingKeys /\ PageKeys' = PageKeys /\ OwnedKeys' = OwnedKeys
         /\ Enhancing!Settings' = Enhancing!Settings /\ Enhancing!PageFields' = Enhancing!PageFields
         /\ \A s : Enhancing!On(s)' = Enhancing!On(s) /\ Enhancing!Flag(s)' = Enhancing!Flag(s)
BY DEF SettingKeys, PageKeys, OwnedKeys, Enhancing!Settings, Enhancing!PageFields, Enhancing!On,
       Enhancing!Flag

LEMMA EnhancingInit ==
  ASSUME Enhancing!InitEnhance
  PROVE  EnhanceInv
<1>. USE EnhancingAssumption DEF Enhancing!InitEnhance
<1>1. generating = "profile" /\ on \subseteq Enhancing!Switches
  OBVIOUS
<1>2. config \in [Enhancing!Keys -> Enhancing!Values]
  <2>1. \A k \in Enhancing!Keys : Enhancing!Foreign(k) \in Enhancing!Values
    BY DEF Enhancing!Foreign, Enhancing!Values
  <2>2. "absent" \in Enhancing!Values
    BY DEF Enhancing!Values
  <2>. QED
    BY <2>1, <2>2
<1>3. DOMAIN owned = {} /\ writes \in 0..MaxWrites /\ notes \in [Enhancing!LayerNames -> SUBSET Enhancing!Keys]
  OBVIOUS
<1>4. /\ discarded \subseteq Enhancing!Keys /\ pendingKeys \subseteq Enhancing!Keys
      /\ lastKeys \subseteq Enhancing!Keys /\ toldKeys \subseteq SUBSET Enhancing!Keys
  BY DEF Enhancing!Keys, Enhancing!Control
<1>5. Enhancing!TypeOK
  BY <1>1, <1>2, <1>3, <1>4 DEF Enhancing!TypeOK, Enhancing!EnhanceStages
<1>6. StagesInv /\ NotesInv /\ Enhancing!LanIsServed /\ Enhancing!FakeIpHasARange
  BY <1>1, LayersAre DEF StagesInv, NotesInv, Enhancing!LanIsServed, Enhancing!FakeIpHasARange
<1>7. NoticeInv /\ IsWrite(globalWrite)
  BY <1>1 DEF NoticeInv, IsWrite
<1>. QED
  BY <1>5, <1>6, <1>7 DEF EnhanceInv

(* The settings over the profile, the built-in scripts, the TUN switch.        *)
LEMMA DerivingKeeps ==
  ASSUME EnhanceInv, Enhancing!MergeDefaults \/ Enhancing!ApplyBuiltin \/ Enhancing!UseTun
  PROVE  EnhanceInv'
<1>. USE DEF EnhanceInv
<1>1. /\ on' = on /\ owned' = owned /\ globalWrite' = globalWrite /\ writes' = writes /\ notes' = notes
      /\ discarded' = discarded /\ pendingKeys' = pendingKeys /\ lastKeys' = lastKeys
      /\ toldKeys' = toldKeys
  BY DEF Enhancing!MergeDefaults, Enhancing!ApplyBuiltin, Enhancing!UseTun, Enhancing!layered,
         Enhancing!noticed
<1>2. /\ generating \in {"profile", "builtin", "tun"} /\ generating' \in {"builtin", "tun", "dns"}
  BY DEF Enhancing!MergeDefaults, Enhancing!ApplyBuiltin, Enhancing!UseTun, Enhancing!Go
<1>3. config \in [Enhancing!Keys -> Enhancing!Values]
  BY DEF Enhancing!TypeOK
<1>4. ASSUME config' \in [Enhancing!Keys -> Enhancing!Values]
      PROVE  /\ Enhancing!TypeOK' /\ IsWrite(globalWrite)' /\ NoticeInv' /\ NotesInv'
             /\ Enhancing!LanIsServed' /\ Enhancing!FakeIpHasARange'
  <2>1. Enhancing!TypeOK'
    BY <1>1, <1>2, <1>4 DEF Enhancing!TypeOK, Enhancing!EnhanceStages
  <2>2. NoticeInv' /\ NotesInv' /\ Enhancing!LanIsServed' /\ Enhancing!FakeIpHasARange'
    BY <1>1, <1>2, DerivedStays DEF NoticeInv, NotesInv, Enhancing!LanIsServed, Enhancing!FakeIpHasARange
  <2>3. IsWrite(globalWrite)'
    BY <1>1 DEF IsWrite, Enhancing!Nothing
  <2>. QED
    BY <2>1, <2>2, <2>3
<1>5. CASE Enhancing!MergeDefaults
  <2>1. /\ generating' = "builtin" /\ config' = Enhancing!Over(config, Enhancing!Settings)
    BY <1>5 DEF Enhancing!MergeDefaults, Enhancing!Go
  <2>2. /\ config' \in [Enhancing!Keys -> Enhancing!Values]
        /\ \A k \in SettingKeys : config'[k] = Enhancing!Settings[k]
    BY <1>3, <2>1, SettingsAre DEF Enhancing!Over
  <2>3. StagesInv'
    BY <1>1, <2>1, <2>2, DerivedStays, SettingsAre, LayersAre DEF StagesInv, HasSettings
  <2>. QED
    BY <1>4, <2>2, <2>3
<1>6. CASE Enhancing!ApplyBuiltin
  <2>1. /\ generating = "builtin" /\ generating' = "tun"
        /\ config' = IF Enhancing!On("guard") /\ config["mode"] = "script"
                     THEN [config EXCEPT !["mode"] = "rule"] ELSE config
    BY <1>6 DEF Enhancing!ApplyBuiltin, Enhancing!Go
  <2>2. /\ config' \in [Enhancing!Keys -> Enhancing!Values]
        /\ \A k \in SettingKeys \ {"mode"} : config'[k] = config[k]
        /\ config'["mode"] = IF Enhancing!On("guard") /\ config["mode"] = "script" THEN "rule"
                             ELSE config["mode"]
    BY <1>3, <2>1, SettingsAre DEF Enhancing!Values
  <2>3. HasSettings(config) /\ config["mode"] = Enhancing!Settings["mode"]
    BY <2>1 DEF StagesInv
  <2>4. HasSettings(config)' /\ HasMode(config)'
    BY <1>1, <2>2, <2>3, DerivedStays, SettingsAre DEF HasSettings, HasMode
  <2>5. StagesInv'
    BY <1>1, <2>1, <2>4, LayersAre DEF StagesInv
  <2>. QED
    BY <1>4, <2>2, <2>5
<1>7. CASE Enhancing!UseTun
  <2>. DEFINE fakeIp == config["dns.enhanced-mode"] \in {"absent", "fake-ip"}
              c == IF Enhancing!On("tun") /\ fakeIp THEN Enhancing!Over(config, Enhancing!TunDns) ELSE config
  <2>1. /\ generating = "tun" /\ generating' = "dns" /\ config' = [c EXCEPT !["tun.enable"] = Enhancing!Flag("tun")]
    BY <1>7 DEF Enhancing!UseTun, Enhancing!Go
  <2>2. HasSettings(config) /\ HasMode(config)
    BY <2>1 DEF StagesInv
  <2>3. /\ DOMAIN Enhancing!TunDns = {"dns.enhanced-mode", "dns.ipv6", "dns.fake-ip-range6"}
        /\ Enhancing!TunDns["dns.enhanced-mode"] = "fake-ip"
        /\ Enhancing!TunDns["dns.ipv6"] = config["ipv6"]
        /\ Enhancing!TunDns["dns.fake-ip-range6"] =
             IF config["ipv6"] = "on" /\ config["dns.fake-ip-range6"] = "absent" THEN "app"
             ELSE config["dns.fake-ip-range6"]
    BY DEF Enhancing!TunDns
  <2>4. /\ {"dns.enhanced-mode", "dns.ipv6", "dns.fake-ip-range6", "tun.enable", "ipv6"} \subseteq Enhancing!Keys
        /\ SettingKeys \subseteq Enhancing!Keys \ {"dns.enhanced-mode", "dns.ipv6", "dns.fake-ip-range6", "tun.enable"}
        /\ "app" \in Enhancing!Values /\ "fake-ip" \in Enhancing!Values /\ Enhancing!Flag("tun") \in Enhancing!Values
    BY DEF Enhancing!Keys, Enhancing!Control, Enhancing!DnsKeys, Enhancing!TunKeys, SettingKeys,
           Enhancing!Values, Enhancing!Flag
  <2>5. /\ c \in [Enhancing!Keys -> Enhancing!Values]
        /\ \A k \in SettingKeys : c[k] = config[k]
        /\ Enhancing!On("tun") /\ c["dns.ipv6"] = "on" /\ c["dns.enhanced-mode"] \in {"absent", "fake-ip"} =>
             c["dns.fake-ip-range6"] # "absent"
    <3>1. CASE Enhancing!On("tun") /\ fakeIp
      <4>1. c = Enhancing!Over(config, Enhancing!TunDns)
        BY <3>1
      <4>2. /\ c \in [Enhancing!Keys -> Enhancing!Values]
            /\ \A k \in SettingKeys : c[k] = config[k]
        BY <1>3, <2>3, <2>4, <4>1 DEF Enhancing!Over
      <4>3. /\ c["dns.ipv6"] = config["ipv6"]
            /\ c["dns.fake-ip-range6"] =
                 IF config["ipv6"] = "on" /\ config["dns.fake-ip-range6"] = "absent" THEN "app"
                 ELSE config["dns.fake-ip-range6"]
        BY <2>3, <2>4, <4>1 DEF Enhancing!Over
      <4>. HIDE DEF c
      <4>. QED
        BY <4>2, <4>3
    <3>2. CASE ~(Enhancing!On("tun") /\ fakeIp)
      BY <1>3, <3>2
    <3>. QED
      BY <3>1, <3>2
  <2>. HIDE DEF c
  <2>6. /\ config' \in [Enhancing!Keys -> Enhancing!Values]
        /\ \A k \in SettingKeys : config'[k] = c[k]
        /\ config'["tun.enable"] = Enhancing!Flag("tun")
        /\ \A k \in {"dns.enhanced-mode", "dns.ipv6", "dns.fake-ip-range6"} : config'[k] = c[k]
    BY <2>1, <2>4, <2>5
  <2>7. HasSettings(config)' /\ HasMode(config)' /\ HasTun(config)'
    BY <1>1, <2>2, <2>5, <2>6, DerivedStays, SettingsAre DEF HasSettings, HasMode, HasTun
  <2>8. StagesInv'
    BY <1>1, <2>1, <2>5, <2>6, <2>7, DerivedStays, LayersAre DEF StagesInv
  <2>. QED
    BY <1>4, <2>6, <2>8
<1>. QED
  BY <1>5, <1>6, <1>7

(* The DNS page, and the copy of what the application owns.                    *)
LEMMA CaptureKeeps ==
  ASSUME EnhanceInv, Enhancing!ApplyDnsSettings \/ Enhancing!Capture
  PROVE  EnhanceInv'
<1>. USE DEF EnhanceInv
<1>1. /\ on' = on /\ globalWrite' = globalWrite /\ writes' = writes /\ notes' = notes
      /\ discarded' = discarded /\ pendingKeys' = pendingKeys /\ lastKeys' = lastKeys
      /\ toldKeys' = toldKeys
  BY DEF Enhancing!ApplyDnsSettings, Enhancing!Capture, Enhancing!layered, Enhancing!noticed
<1>2. config \in [Enhancing!Keys -> Enhancing!Values] /\ IsWrite(globalWrite)'
  BY <1>1 DEF Enhancing!TypeOK, IsWrite, Enhancing!Nothing
<1>3. CASE Enhancing!ApplyDnsSettings
  <2>. DEFINE c == Enhancing!Over(config, Enhancing!PageFields)
  <2>1. generating = "dns" /\ generating' = "capture" /\ config' = Enhancing!WithRange6(c) /\ owned' = owned
    BY <1>3 DEF Enhancing!ApplyDnsSettings, Enhancing!Go
  <2>2. HasSettings(config) /\ HasMode(config) /\ HasTun(config)
    BY <2>1 DEF StagesInv
  <2>3. /\ {"dns.enhanced-mode", "dns.ipv6", "dns.fake-ip-range6", "tun.enable"} \subseteq Enhancing!Keys
        /\ SettingKeys \subseteq Enhancing!Keys /\ "mode" \in SettingKeys
        /\ PageKeys \subseteq Enhancing!Keys \ {"dns.fake-ip-range6"}
        /\ (SettingKeys \cup {"tun.enable"}) \cap PageKeys = {} /\ "dns.fake-ip-range6" \notin SettingKeys
        /\ "app" \in Enhancing!Values
    BY DEF Enhancing!Keys, Enhancing!Control, Enhancing!DnsKeys, Enhancing!TunKeys, SettingKeys, PageKeys,
           Enhancing!Values
  <2>4. /\ c \in [Enhancing!Keys -> Enhancing!Values]
        /\ \A k \in PageKeys : c[k] = Enhancing!PageFields[k]
        /\ \A k \in Enhancing!Keys \ PageKeys : c[k] = config[k]
    BY <1>2, <2>3, PageIs DEF Enhancing!Over
  <2>5. ~Enhancing!On("page") => PageKeys = {}
    BY DEF PageKeys
  <2>. HIDE DEF c
  <2>6. /\ config' \in [Enhancing!Keys -> Enhancing!Values]
        /\ \A k \in Enhancing!Keys \ {"dns.fake-ip-range6"} : config'[k] = c[k]
        /\ ~Enhancing!On("page") => config' = c
        /\ /\ Enhancing!On("page") /\ c["dns.ipv6"] = "on"
           /\ c["dns.enhanced-mode"] \in {"absent", "fake-ip"}
           => config'["dns.fake-ip-range6"] \notin {"absent", "blank"}
    BY <2>1, <2>3, <2>4 DEF Enhancing!WithRange6
  <2>7. HasSettings(config)' /\ HasMode(config)' /\ HasTun(config)' /\ HasPage(config)'
    <3>1. HasSettings(config)' /\ HasMode(config)'
      BY <1>1, <2>2, <2>3, <2>4, <2>6, DerivedStays DEF HasSettings, HasMode
    <3>2. HasTun(config)' /\ HasPage(config)'
      BY <1>1, <2>2, <2>3, <2>4, <2>6, DerivedStays DEF HasTun, HasPage
    <3>. QED
      BY <3>1, <3>2
  <2>8. Enhancing!FakeIpHasARange'
    <3>1. CASE Enhancing!On("page")
      BY <1>1, <2>1, <2>3, <2>6, <3>1, DerivedStays DEF Enhancing!FakeIpHasARange
    <3>2. CASE ~Enhancing!On("page")
      <4>1. \A k \in {"dns.enhanced-mode", "dns.ipv6", "dns.fake-ip-range6"} : config'[k] = config[k]
        BY <2>3, <2>4, <2>5, <2>6, <3>2
      <4>2. Enhancing!On("tun") /\ config["dns.ipv6"] = "on" /\ config["dns.enhanced-mode"] \in {"absent", "fake-ip"}
              => config["dns.fake-ip-range6"] # "absent"
        BY <2>1 DEF StagesInv
      <4>. QED
        BY <1>1, <2>1, <3>2, <4>1, <4>2, DerivedStays DEF Enhancing!FakeIpHasARange
    <3>. QED
      BY <3>1, <3>2
  <2>9. StagesInv'
    BY <1>1, <2>1, <2>7, LayersAre DEF StagesInv
  <2>10. Enhancing!TypeOK'
    BY <1>1, <2>1, <2>6 DEF Enhancing!TypeOK, Enhancing!EnhanceStages
  <2>11. NoticeInv' /\ NotesInv' /\ Enhancing!LanIsServed'
    BY <1>1, <2>1, DerivedStays DEF NoticeInv, NotesInv, Enhancing!LanIsServed
  <2>. QED
    BY <1>2, <2>8, <2>9, <2>10, <2>11
<1>4. CASE Enhancing!Capture
  <2>1. generating = "capture" /\ generating' = "globalMerge" /\ owned' = Enhancing!Owned /\ config' = config
    BY <1>4, LayersAre DEF Enhancing!Capture, Enhancing!Go
  <2>2. HasSettings(config) /\ HasMode(config) /\ HasTun(config) /\ HasPage(config)
    BY <2>1 DEF StagesInv
  <2>3. DOMAIN owned' = OwnedKeys /\ \A k \in OwnedKeys : owned'[k] = config[k]
    BY <2>1, SettingsAre, PageIs DEF Enhancing!Owned, OwnedKeys
  <2>4. /\ OwnedKeys \subseteq Enhancing!Keys /\ SettingKeys \subseteq OwnedKeys /\ PageKeys \subseteq OwnedKeys
        /\ "mode" \in OwnedKeys /\ "tun.enable" \in OwnedKeys
    BY SettingsAre, PageIs DEF OwnedKeys, Enhancing!Keys, Enhancing!TunKeys
  <2>5. HasSettings(owned)' /\ HasMode(owned)' /\ HasTun(owned)' /\ HasPage(owned)'
    BY <1>1, <2>2, <2>3, <2>4, DerivedStays DEF HasSettings, HasMode, HasTun, HasPage
  <2>6. StagesInv'
    BY <1>1, <2>1, <2>3, <2>5, DerivedStays DEF StagesInv
  <2>7. Enhancing!TypeOK'
    <3>1. DOMAIN owned' \subseteq Enhancing!Keys /\ \A k \in DOMAIN owned' : owned'[k] \in Enhancing!Values
      BY <1>2, <2>3, <2>4
    <3>. QED
      BY <1>1, <2>1, <3>1, LayersAre DEF Enhancing!TypeOK, Enhancing!EnhanceStages
  <2>8. Lost' = {}
    BY <2>1, <2>3 DEF Lost
  <2>9. NoticeInv' /\ NotesInv' /\ Enhancing!LanIsServed' /\ Enhancing!FakeIpHasARange'
    BY <1>1, <2>1, <2>8, DerivedStays DEF NoticeInv, NotesInv, Enhancing!LanIsServed, Enhancing!FakeIpHasARange
  <2>. QED
    BY <1>2, <2>6, <2>7, <2>9
<1>. QED
  BY <1>3, <1>4

(* An override.  Under a profile with its own script no layer writes its notes *)
(* twice, so that what is lost after it was lost before or is in its notes.    *)
LEMMA OverrideKeeps ==
  ASSUME EnhanceInv, NEW l \in 1..4, Enhancing!Override(l)
  PROVE  EnhanceInv'
<1>. USE EnhancingAssumption DEF EnhanceInv
<1>. DEFINE first == Enhancing!Layers[IF Enhancing!Repeats(l) THEN 2 ELSE l]
<1>1. /\ on' = on /\ owned' = owned /\ discarded' = discarded /\ pendingKeys' = pendingKeys
      /\ lastKeys' = lastKeys /\ toldKeys' = toldKeys
      /\ generating = Enhancing!Layers[l] /\ generating' = Enhancing!Then(l)
  BY DEF Enhancing!Override, Enhancing!Go, Enhancing!noticed
<1>. DEFINE ws == IF l \in {2, 4} THEN Enhancing!ScriptWrites ELSE Enhancing!MergeWrites
<1>2. PICK w \in {Enhancing!Nothing, globalWrite} \cup ws :
         /\ config' = Enhancing!Write(config, w)
         /\ notes' = [notes EXCEPT ![first] = Enhancing!Overridden(config, Enhancing!Write(config, w))]
         /\ \/ writes' = writes
            \/ writes < MaxWrites /\ writes' = writes + 1
         /\ globalWrite' \in {w, globalWrite}
  BY DEF Enhancing!Override
<1>3. IsWrite(w) /\ IsWrite(globalWrite')
  <2>1. \A v \in ws : v.value \in {"foreign", "off", "absent"}
    BY DEF Enhancing!MergeWrites, Enhancing!ScriptWrites
  <2>. HIDE DEF ws
  <2>2. IsWrite(w)
    BY <1>2, <2>1 DEF IsWrite
  <2>. QED
    BY <1>2, <2>2
<1>. HIDE DEF ws
<1>4. /\ config \in [Enhancing!Keys -> Enhancing!Values] /\ notes \in [Enhancing!LayerNames -> SUBSET Enhancing!Keys]
      /\ DOMAIN owned \subseteq Enhancing!Keys /\ writes \in 0..MaxWrites
  BY DEF Enhancing!TypeOK
<1>5. config' \in [Enhancing!Keys -> Enhancing!Values]
  <2>1. \A k \in Enhancing!Keys : Enhancing!Foreign(k) \in Enhancing!Values
    BY DEF Enhancing!Foreign, Enhancing!Values
  <2>2. w # Enhancing!Nothing => w.value \in Enhancing!Values
    BY <1>3 DEF IsWrite, Enhancing!Values
  <2>. QED
    BY <1>2, <1>4, <2>1, <2>2 DEF Enhancing!Write
<1>. DEFINE lost == Enhancing!Overridden(config, config')
<1>6. /\ lost \subseteq Enhancing!Keys /\ first \in Enhancing!LayerNames
      /\ notes' = [notes EXCEPT ![first] = lost] /\ Lost' \subseteq Lost \cup lost
  <2>1. lost \subseteq Enhancing!Keys
    BY <1>4 DEF Enhancing!Overridden
  <2>2. first \in Enhancing!LayerNames
    BY DEF Enhancing!LayerNames
  <2>3. Lost' \subseteq Lost \cup lost
    BY <1>1 DEF Lost, Enhancing!Overridden
  <2>. QED
    BY <1>2, <2>1, <2>2, <2>3
<1>7. Enhancing!On("own") => first = Enhancing!Layers[l]
  BY DEF Enhancing!Repeats
<1>. HIDE DEF lost, first
<1>8. \/ generating = "globalMerge" /\ generating' = "globalScript" /\ l = 1
      \/ generating = "globalScript" /\ generating' = "profileMerge" /\ l = 2
      \/ generating = "profileMerge" /\ generating' = "profileScript" /\ l = 3
      \/ generating = "profileScript" /\ generating' = "notify" /\ l = 4
  BY <1>1, LayersAre DEF Enhancing!Then
<1>9. Enhancing!TypeOK'
  <2>1. notes' \in [Enhancing!LayerNames -> SUBSET Enhancing!Keys]
    BY <1>4, <1>6
  <2>2. writes' \in 0..MaxWrites
    BY <1>2, <1>4
  <2>3. generating' \in Enhancing!EnhanceStages
    BY <1>8, LayersAre DEF Enhancing!EnhanceStages
  <2>4. DOMAIN owned' \subseteq Enhancing!Keys /\ \A k \in DOMAIN owned' : owned'[k] \in Enhancing!Values
    BY <1>1 DEF Enhancing!TypeOK
  <2>. QED
    BY <1>1, <1>5, <2>1, <2>2, <2>3, <2>4 DEF Enhancing!TypeOK
<1>10. StagesInv'
  <2>1. DOMAIN owned = OwnedKeys /\ HasSettings(owned) /\ HasMode(owned) /\ HasTun(owned) /\ HasPage(owned)
    BY <1>8, LayersAre DEF StagesInv
  <2>2. HasSettings(owned)' /\ HasMode(owned)' /\ HasTun(owned)' /\ HasPage(owned)'
    BY <1>1, <2>1, DerivedStays DEF HasSettings, HasMode, HasTun, HasPage
  <2>. QED
    BY <1>1, <1>8, <2>1, <2>2, DerivedStays DEF StagesInv
<1>11. NoticeInv' /\ Enhancing!LanIsServed' /\ Enhancing!FakeIpHasARange'
  BY <1>1, <1>8 DEF NoticeInv, Enhancing!LanIsServed, Enhancing!FakeIpHasARange
<1>12. NotesInv'
  <2>1. SUFFICES ASSUME Enhancing!On("own") PROVE NotesInv'
    BY <1>1, DerivedStays DEF NotesInv
  <2>2. CASE l = 1
    <3>1. Lost = {} /\ notes'["globalMerge"] = lost
      BY <1>4, <1>6, <1>7, <1>8, <2>1, <2>2, LayersAre DEF NotesInv
    <3>. QED
      BY <1>6, <1>8, <2>2, <3>1 DEF NotesInv
  <2>3. CASE l = 2
    <3>1. /\ Lost \subseteq notes["globalMerge"] /\ notes'["globalScript"] = lost
          /\ notes'["globalMerge"] = notes["globalMerge"]
      BY <1>4, <1>6, <1>7, <1>8, <2>1, <2>3, LayersAre DEF NotesInv
    <3>. QED
      BY <1>6, <1>8, <2>3, <3>1 DEF NotesInv
  <2>4. CASE l = 3
    <3>1. /\ Lost \subseteq notes["globalMerge"] \cup notes["globalScript"] /\ notes'["profileMerge"] = lost
          /\ notes'["globalMerge"] = notes["globalMerge"] /\ notes'["globalScript"] = notes["globalScript"]
      BY <1>4, <1>6, <1>7, <1>8, <2>1, <2>4, LayersAre DEF NotesInv
    <3>. QED
      BY <1>6, <1>8, <2>4, <3>1 DEF NotesInv
  <2>5. CASE l = 4
    <3>1. /\ Lost \subseteq notes["globalMerge"] \cup notes["globalScript"] \cup notes["profileMerge"]
          /\ notes'["profileScript"] = lost /\ notes'["profileMerge"] = notes["profileMerge"]
          /\ notes'["globalMerge"] = notes["globalMerge"] /\ notes'["globalScript"] = notes["globalScript"]
      BY <1>4, <1>6, <1>7, <1>8, <2>1, <2>5, LayersAre DEF NotesInv
    <3>. QED
      BY <1>6, <1>8, <2>5, <3>1 DEF NotesInv
  <2>. QED
    BY <1>8, <2>2, <2>3, <2>4, <2>5
<1>. QED
  BY <1>3, <1>9, <1>10, <1>11, <1>12

(* The notice, what is put back, and the LAN. *)
LEMMA EnforcingKeeps ==
  ASSUME EnhanceInv,
         Enhancing!NotifyDiscarded \/ Enhancing!Enforce \/ Enhancing!EnsureLan
  PROVE  EnhanceInv'
<1>. USE DEF EnhanceInv
<1>1. /\ on' = on /\ owned' = owned /\ globalWrite' = globalWrite /\ writes' = writes /\ notes' = notes
      /\ toldKeys' = toldKeys
  BY DEF Enhancing!NotifyDiscarded, Enhancing!Enforce, Enhancing!EnsureLan, Enhancing!layered,
         Enhancing!noticed
<1>2. /\ generating \in {"notify", "enforce", "lan"} /\ generating' \in {"enforce", "lan", "done"}
  BY DEF Enhancing!NotifyDiscarded, Enhancing!Enforce, Enhancing!EnsureLan, Enhancing!Go
<1>3. config \in [Enhancing!Keys -> Enhancing!Values] /\ IsWrite(globalWrite)'
  BY <1>1 DEF Enhancing!TypeOK, IsWrite, Enhancing!Nothing
<1>4. DOMAIN owned = OwnedKeys /\ HasSettings(owned) /\ HasMode(owned) /\ HasTun(owned) /\ HasPage(owned)
  BY <1>2 DEF StagesInv
<1>5. HasSettings(owned)' /\ HasMode(owned)' /\ HasTun(owned)' /\ HasPage(owned)' /\ DOMAIN owned' = OwnedKeys'
  BY <1>1, <1>4, DerivedStays DEF HasSettings, HasMode, HasTun, HasPage
<1>6. Enhancing!FakeIpHasARange'
  BY <1>2 DEF Enhancing!FakeIpHasARange
<1>7. \A k \in OwnedKeys : owned[k] \in Enhancing!Values
  BY <1>4 DEF Enhancing!TypeOK
<1>8. CASE Enhancing!NotifyDiscarded
  <2>1. /\ generating = "notify" /\ generating' = "enforce" /\ config' = config
        /\ discarded' = Lost /\ lastKeys' = Lost
        /\ pendingKeys' = IF Lost \in {lastKeys, {}} THEN pendingKeys ELSE Lost
    BY <1>8 DEF Enhancing!NotifyDiscarded, Enhancing!Go, Lost
  <2>2. Lost \subseteq Enhancing!Keys
    BY DEF Lost, Enhancing!TypeOK
  <2>3. Enhancing!TypeOK'
    <3>1. DOMAIN owned' \subseteq Enhancing!Keys /\ \A k \in DOMAIN owned' : owned'[k] \in Enhancing!Values
      BY <1>1 DEF Enhancing!TypeOK
    <3>2. pendingKeys' \subseteq Enhancing!Keys
      BY <2>1, <2>2 DEF Enhancing!TypeOK
    <3>. QED
      BY <1>1, <2>1, <2>2, <3>1, <3>2 DEF Enhancing!TypeOK, Enhancing!EnhanceStages
  <2>4. NoticeInv'
    BY <1>1, <2>1 DEF NoticeInv
  <2>5. StagesInv' /\ Enhancing!LanIsServed'
    BY <1>5, <2>1 DEF StagesInv, Enhancing!LanIsServed
  <2>6. NotesInv'
    BY <1>1, <2>1, DerivedStays DEF NotesInv
  <2>. QED
    BY <1>3, <1>6, <2>3, <2>4, <2>5, <2>6
<1>9. CASE Enhancing!Enforce \/ Enhancing!EnsureLan
  <2>1. UNCHANGED <<discarded, pendingKeys, lastKeys, toldKeys>> /\ generating' \in {"lan", "done"}
        /\ generating \in {"enforce", "lan"}
    BY <1>9 DEF Enhancing!Enforce, Enhancing!EnsureLan, Enhancing!layered, Enhancing!noticed, Enhancing!Go
  <2>2. /\ config' \in [Enhancing!Keys -> Enhancing!Values]
        /\ \A k \in OwnedKeys : config'[k] = owned[k]
        /\ Enhancing!LanIsServed'
    <3>1. OwnedKeys \subseteq Enhancing!Keys /\ "bind-address" \notin OwnedKeys /\ "allow-lan" \in SettingKeys
          /\ "allow-lan" \in OwnedKeys /\ "bind-address" \in Enhancing!Keys
      BY SettingsAre, PageIs DEF OwnedKeys, SettingKeys, PageKeys, Enhancing!Keys, Enhancing!TunKeys,
         Enhancing!Control
    <3>2. CASE Enhancing!Enforce
      <4>1. config' = Enhancing!Over(config, owned) /\ generating' = "lan"
        BY <3>2 DEF Enhancing!Enforce, Enhancing!Go
      <4>. QED
        BY <1>3, <1>4, <1>7, <3>1, <4>1 DEF Enhancing!Over, Enhancing!LanIsServed
    <3>3. CASE Enhancing!EnsureLan
      <4>1. /\ generating = "lan"
            /\ config' = IF config["allow-lan"] = "on" /\ config["bind-address"] = "loopback"
                         THEN [config EXCEPT !["bind-address"] = "*"] ELSE config
        BY <3>3 DEF Enhancing!EnsureLan, Enhancing!Go
      <4>2. \A k \in OwnedKeys : config[k] = owned[k]
        BY <4>1 DEF StagesInv
      <4>3. config["allow-lan"] = Enhancing!Flag("lan")
        BY <1>4, <3>1, <4>2, SettingsAre DEF HasSettings
      <4>4. "*" \in Enhancing!Values
        BY DEF Enhancing!Values
      <4>5. /\ config' \in [Enhancing!Keys -> Enhancing!Values]
            /\ \A k \in OwnedKeys : config'[k] = owned[k]
        BY <1>3, <3>1, <4>1, <4>2, <4>4
      <4>6. Enhancing!On("lan") => config'["bind-address"] # "loopback"
        BY <1>3, <3>1, <4>1, <4>3 DEF Enhancing!Flag
      <4>. QED
        BY <1>1, <4>5, <4>6, DerivedStays DEF Enhancing!LanIsServed
    <3>. QED
      BY <1>9, <3>2, <3>3
  <2>3. StagesInv'
    BY <1>1, <1>5, <2>1, <2>2, DerivedStays DEF StagesInv
  <2>4. Enhancing!TypeOK'
    <3>1. DOMAIN owned' \subseteq Enhancing!Keys /\ \A k \in DOMAIN owned' : owned'[k] \in Enhancing!Values
      BY <1>1 DEF Enhancing!TypeOK
    <3>. QED
      BY <1>1, <2>1, <2>2, <3>1 DEF Enhancing!TypeOK, Enhancing!EnhanceStages
  <2>5. NoticeInv' /\ NotesInv'
    BY <1>1, <2>1, DerivedStays DEF NoticeInv, NotesInv
  <2>. QED
    BY <1>3, <1>6, <2>2, <2>3, <2>4, <2>5
<1>. QED
  BY <1>8, <1>9

LEMMA EnhancingNext ==
  ASSUME EnhanceInv, [Enhancing!NextEnhance]_(Enhancing!enhanceVars)
  PROVE  EnhanceInv'
<1>1. CASE Enhancing!TakeNotice
  <2>. USE DEF EnhanceInv
  <2>1. /\ UNCHANGED <<generating, on, config, owned, globalWrite, writes, notes, discarded, lastKeys>>
        /\ pendingKeys' = {} /\ toldKeys' = toldKeys \cup {pendingKeys}
    BY <1>1 DEF Enhancing!TakeNotice, Enhancing!layered
  <2>2. Enhancing!TypeOK'
    BY <2>1 DEF Enhancing!TypeOK
  <2>3. NoticeInv' /\ IsWrite(globalWrite)' /\ NotesInv'
    <3>1. Lost' = Lost /\ IsWrite(globalWrite)'
      BY <2>1 DEF Lost, IsWrite, Enhancing!Nothing
    <3>. QED
      BY <2>1, <3>1, DerivedStays DEF NoticeInv, NotesInv
  <2>4. StagesInv' /\ Enhancing!LanIsServed' /\ Enhancing!FakeIpHasARange'
    <3>1. /\ (HasSettings(config)' <=> HasSettings(config)) /\ (HasMode(config)' <=> HasMode(config))
          /\ (HasTun(config)' <=> HasTun(config)) /\ (HasPage(config)' <=> HasPage(config))
          /\ (HasSettings(owned)' <=> HasSettings(owned)) /\ (HasMode(owned)' <=> HasMode(owned))
          /\ (HasTun(owned)' <=> HasTun(owned)) /\ (HasPage(owned)' <=> HasPage(owned))
      BY <2>1, DerivedStays DEF HasSettings, HasMode, HasTun, HasPage
    <3>. QED
      BY <2>1, <3>1, DerivedStays, LayersAre DEF StagesInv, Enhancing!LanIsServed, Enhancing!FakeIpHasARange
  <2>. QED
    BY <2>2, <2>3, <2>4
<1>2. CASE UNCHANGED Enhancing!enhanceVars
  <2>. USE DEF EnhanceInv, Enhancing!enhanceVars
  <2>1. Enhancing!TypeOK' /\ NoticeInv' /\ IsWrite(globalWrite)'
    BY <1>2 DEF Enhancing!TypeOK, NoticeInv, IsWrite, Enhancing!Nothing
  <2>2. NotesInv'
    BY <1>2, DerivedStays DEF NotesInv, Lost
  <2>3. StagesInv' /\ Enhancing!LanIsServed' /\ Enhancing!FakeIpHasARange'
    BY <1>2, DerivedStays, LayersAre DEF StagesInv, HasSettings, HasMode, HasTun, HasPage,
       Enhancing!LanIsServed, Enhancing!FakeIpHasARange
  <2>. QED
    BY <2>1, <2>2, <2>3
<1>. QED
  BY <1>1, <1>2, DerivingKeeps, CaptureKeeps, OverrideKeeps, EnforcingKeeps DEF Enhancing!NextEnhance

LEMMA EnhancingShows ==
  ASSUME EnhanceInv
  PROVE  /\ Enhancing!TypeOK /\ Enhancing!SettingsWin /\ Enhancing!LanIsServed
         /\ Enhancing!DiscardedKeysAreTold /\ Enhancing!FakeIpHasARange
<1>. USE DEF EnhanceInv
<1>1. Enhancing!SettingsWin
  <2>1. SUFFICES ASSUME generating = "done" PROVE Enhancing!SettingsWin
    BY DEF Enhancing!SettingsWin
  <2>2. /\ HasSettings(owned) /\ HasMode(owned) /\ HasTun(owned) /\ HasPage(owned)
        /\ \A k \in OwnedKeys : config[k] = owned[k]
    BY <2>1 DEF StagesInv
  <2>3. SettingKeys \subseteq OwnedKeys /\ PageKeys \subseteq OwnedKeys /\ "mode" \in OwnedKeys /\ "tun.enable" \in OwnedKeys
    BY SettingsAre DEF OwnedKeys
  <2>. QED
    BY <2>2, <2>3, SettingsAre, PageIs DEF Enhancing!SettingsWin, HasSettings, HasMode, HasTun, HasPage
<1>2. Enhancing!DiscardedKeysAreTold
  <2>1. UNION {notes[l] : l \in Enhancing!LayerNames} =
          notes["globalMerge"] \cup notes["globalScript"] \cup notes["profileMerge"] \cup notes["profileScript"]
    BY LayersAre
  <2>. QED
    BY <2>1 DEF Enhancing!DiscardedKeysAreTold, NoticeInv, NotesInv
<1>. QED
  BY <1>1, <1>2

-----------------------------------------------------------------------------
(* The groups.  A list is picked from by counting the places before each       *)
(* place; the rest says of a step what it makes of the lists.                  *)

Names == Grouping!Names
Group == [name : Names, selector : BOOLEAN, list : Seq(Names) \cup {Grouping!NoList},
          use : SUBSET {"r", "ghost"}]
GroupInv ==
  /\ arranging \in {"profile", "proxies", "groups", "overrides", "cleaned"}
  /\ proxies \subseteq Names /\ providers \subseteq {"r"}
  /\ groups \in Seq(Group) /\ firstSelector \in 0..Len(groups)
  /\ added \in {<<>>, <<"a">>, <<"p", "a">>}
  /\ Grouping!ReferencesResolve /\ Grouping!AddedCanBeChosen

(* The instance counts as everybody does. *)
LEMMA GroupingCounts == \A S : Grouping!Cardinality(S) = Cardinality(S)
BY Zenon DEF Grouping!Cardinality, Cardinality

(* Each number up to the size of a set of places is the number of one of them. *)
LEMMA NthIs ==
  ASSUME NEW N \in Nat, NEW P \in SUBSET (1..N)
  PROVE  /\ IsFiniteSet(P) /\ Cardinality(P) \in Nat
         /\ \A n \in 1..Cardinality(P) :
              /\ Grouping!Nth(P, n) \in P
              /\ Cardinality({q \in P : q <= Grouping!Nth(P, n)}) = n
<1>1. IsFiniteSet(P)
  <2>1. 1 \in Int /\ N \in Int
    OBVIOUS
  <2>2. IsFiniteSet(1..N)
    BY <2>1, FS_Interval
  <2>. QED
    BY <2>2, FS_Subset
<1>. DEFINE c == Cardinality(P)
            upTo(p) == {q \in P : q <= p}
            rank(p) == Cardinality(upTo(p))
<1>2. c \in Nat
  BY <1>1, FS_CardinalityType
<1>3. \A p \in P : IsFiniteSet(upTo(p)) /\ rank(p) \in 1..c
  <2>1. TAKE p \in P
  <2>. DEFINE U == upTo(p)
  <2>2. U \in SUBSET P /\ U # {}
    OBVIOUS
  <2>. HIDE DEF U
  <2>3. IsFiniteSet(U) /\ Cardinality(U) <= c
    BY <1>1, <2>2, FS_Subset
  <2>4. Cardinality(U) \in Nat /\ Cardinality(U) # 0
    BY <2>2, <2>3, FS_CardinalityType, FS_EmptySet
  <2>5. Cardinality(U) \in 1..c
    BY <1>2, <2>3, <2>4
  <2>. QED
    BY <2>3, <2>5 DEF U
<1>4. \A p, q \in P : p < q => rank(p) # rank(q)
  <2>1. TAKE p, q \in P
  <2>. DEFINE U == upTo(p)
              V == upTo(q)
  <2>2. SUFFICES ASSUME p < q PROVE rank(p) # rank(q)
    OBVIOUS
  <2>3. U \in SUBSET V /\ U # V
    <3>1. p \in Nat /\ q \in Nat /\ P \subseteq Nat
      OBVIOUS
    <3>2. \A x \in P : x <= p => x <= q
      BY <2>2, <3>1
    <3>3. q \in V /\ q \notin U
      BY <2>2, <3>1
    <3>. QED
      BY <3>2, <3>3
  <2>4. IsFiniteSet(V)
    BY <1>3
  <2>5. Cardinality(V) # Cardinality(U)
    <3>. HIDE DEF U, V
    <3>. QED
      BY <2>3, <2>4, FS_Subset
  <2>. QED
    BY <2>5
<1>5. \A n \in 1..c : \E p \in P : rank(p) = n
  <2>1. TAKE n \in 1..c
  <2>2. SUFFICES ASSUME \A p \in P : rank(p) # n PROVE FALSE
    OBVIOUS
  <2>. DEFINE T == (1..c) \ {n}
              f == [p \in P |-> rank(p)]
  <2>3. IsFiniteSet(T) /\ Cardinality(T) = c - 1
    <3>1. 1 \in Int /\ c \in Int
      BY <1>2
    <3>. HIDE DEF c
    <3>2. IsFiniteSet(1..c) /\ Cardinality(1..c) = c
      BY <1>2, <3>1, FS_Interval
    <3>. QED
      BY <3>2, FS_RemoveElement
  <2>4. f \in [P -> T]
    <3>. HIDE DEF rank
    <3>. QED
      BY <1>3, <2>2
  <2>5. Cardinality(T) < Cardinality(P)
    BY <1>2, <2>3
  <2>. HIDE DEF f, T
  <2>6. PICK x, y \in P : x # y /\ f[x] = f[y]
    BY <1>1, <2>3, <2>4, <2>5, FS_PigeonHole
  <2>7. rank(x) = rank(y)
    <3>. HIDE DEF rank
    <3>. QED
      BY <2>6 DEF f
  <2>8. x < y \/ y < x
    BY <2>6
  <2>. HIDE DEF rank
  <2>. QED
    BY <1>4, <2>7, <2>8
<1>6. \A n \in 1..c : Grouping!Nth(P, n) \in P /\ rank(Grouping!Nth(P, n)) = n
  <2>1. TAKE n \in 1..c
  <2>2. \E p \in P : Grouping!Cardinality({q \in P : q <= p}) = n
    BY <1>5, GroupingCounts
  <2>3. Grouping!Nth(P, n) \in P /\ Grouping!Cardinality({q \in P : q <= Grouping!Nth(P, n)}) = n
    BY <2>2, Zenon DEF Grouping!Nth
  <2>. QED
    BY <2>3, GroupingCounts
<1>. QED
  BY <1>1, <1>2, <1>6

(* What is picked from a list: its elements, each from a place of its own. *)
LEMMA PickedIs ==
  ASSUME NEW S, NEW l \in Seq(S), NEW P \in SUBSET (DOMAIN l)
  PROVE  LET r == Grouping!Picked(l, P)
         IN /\ r \in Seq(S) /\ Len(r) \in Nat /\ DOMAIN r = 1..Len(r)
            /\ \A n \in DOMAIN r : \E p \in P : r[n] = l[p]
            /\ \A m, n \in DOMAIN r : m # n => \E p, q \in P : p # q /\ r[m] = l[p] /\ r[n] = l[q]
<1>. DEFINE r == Grouping!Picked(l, P)
            c == Cardinality(P)
            nth(n) == Grouping!Nth(P, n)
<1>1. DOMAIN l = 1..Len(l) /\ Len(l) \in Nat /\ \A p \in DOMAIN l : l[p] \in S
  OBVIOUS
<1>2. c \in Nat /\ \A n \in 1..c : nth(n) \in P
  BY <1>1, NthIs
<1>. DEFINE rank(p) == Cardinality({q \in P : q <= p})
<1>3. \A m, n \in 1..c : nth(m) = nth(n) => m = n
  <2>1. \A n \in 1..c : rank(nth(n)) = n
    BY <1>1, NthIs
  <2>. HIDE DEF rank, nth
  <2>. QED
    BY <2>1
<1>4. r = [n \in 1..c |-> l[nth(n)]]
  BY GroupingCounts DEF Grouping!Picked
<1>. HIDE DEF c, nth, r, rank
<1>5. r \in [1..c -> S] /\ DOMAIN r = 1..c
  BY <1>1, <1>2, <1>4
<1>6. r \in Seq(S) /\ Len(r) = c
  BY <1>2, <1>5
<1>7. \A n \in DOMAIN r : nth(n) \in P /\ r[n] = l[nth(n)]
  BY <1>2, <1>4, <1>5
<1>8. \A m, n \in DOMAIN r : m # n => nth(m) # nth(n)
  BY <1>3, <1>5
<1>. QED
  BY <1>2, <1>5, <1>6, <1>7, <1>8 DEF r

LEMMA GroupingInit ==
  ASSUME Grouping!InitGroups
  PROVE  GroupInv
<1>. USE GroupingAssumption
<1>1. /\ arranging = "profile" /\ proxies \subseteq Names /\ providers \subseteq {"r"}
      /\ added \in {<<>>, <<"a">>, <<"p", "a">>} /\ firstSelector = 0
  BY DEF Grouping!InitGroups, Names, Grouping!Names, Grouping!Proxies0
<1>2. PICK n \in GroupCounts :
        groups \in [1..n -> [name : {"g1", "g2"}, selector : BOOLEAN,
                             list : GroupLists \cup {Grouping!NoList}, use : {{}, {"r"}}]]
  BY DEF Grouping!InitGroups
<1>3. [name : {"g1", "g2"}, selector : BOOLEAN, list : GroupLists \cup {Grouping!NoList}, use : {{}, {"r"}}]
        \subseteq Group
  BY DEF Group, Names, Grouping!Names
<1>. HIDE DEF Group
<1>5. n \in Nat
  OBVIOUS
<1>7. groups \in Seq(Group) /\ Len(groups) = n
  BY <1>2, <1>3, <1>5
<1>. QED
  BY <1>1, <1>5, <1>7 DEF GroupInv, Grouping!ReferencesResolve, Grouping!AddedCanBeChosen

(* The edit of the proxies finds the first selector. *)
LEMMA EditProxiesKeeps ==
  ASSUME GroupInv, Grouping!EditProxies
  PROVE  GroupInv'
<1>. USE DEF GroupInv
<1>. DEFINE s == {i \in DOMAIN groups : groups[i].selector}
            least == CHOOSE i \in s : \A j \in s : i <= j
<1>1. /\ arranging' = "proxies" /\ proxies' = (proxies \ deleted) \cup Grouping!Range0(added)
      /\ groups' = groups /\ providers' = providers /\ added' = added /\ deleted' = deleted
  BY DEF Grouping!EditProxies, Grouping!Go
<1>2. firstSelector' = IF s = {} THEN 0 ELSE least
  BY DEF Grouping!EditProxies
<1>3. s \subseteq 1..Len(groups) /\ Len(groups) \in Nat
  OBVIOUS
<1>. HIDE DEF s, GroupInv
<1>4. s # {} => least \in s
  <2>1. s \subseteq Nat
    BY <1>3
  <2>2. s # {} => \E i \in s : \A j \in s : i <= j
    BY ONLY <2>1, LeastNumber
  <2>. QED
    BY <2>2
<1>. HIDE DEF least
<1>5. firstSelector' \in 0..Len(groups)
  BY <1>2, <1>3, <1>4
<1>6. proxies' \subseteq Names
  <2>1. Grouping!Range0(added) \subseteq {"a", "p"}
    BY DEF Grouping!Range0, GroupInv
  <2>2. {"a", "p"} \subseteq Names
    BY DEF Names, Grouping!Names, Grouping!Proxies0
  <2>. QED
    BY <1>1, <2>1, <2>2 DEF GroupInv
<1>. QED
  BY <1>1, <1>5, <1>6 DEF GroupInv, Grouping!ReferencesResolve, Grouping!AddedCanBeChosen

(* A list without what is gone, with what was added in front, once. *)
LEMMA WithoutIs ==
  ASSUME NEW l \in Seq(Names), NEW gone
  PROVE  LET r == Grouping!Without(l, gone)
         IN /\ r \in Seq(Names) /\ \A n \in DOMAIN r : r[n] \notin gone
            /\ \A n \in DOMAIN r : \E p \in DOMAIN l : r[n] = l[p]
<1>. DEFINE P == {i \in DOMAIN l : l[i] \notin gone}
<1>1. Grouping!Without(l, gone) = Grouping!Picked(l, P)
  BY DEF Grouping!Without
<1>2. P \in SUBSET (DOMAIN l) /\ \A p \in P : l[p] \notin gone
  OBVIOUS
<1>. HIDE DEF P
<1>. QED
  BY <1>1, <1>2, PickedIs

LEMMA FirstOfIs ==
  ASSUME NEW l \in Seq(Names)
  PROVE  LET r == Grouping!FirstOf(l)
         IN /\ r \in Seq(Names)
            /\ \A n \in DOMAIN r : \E p \in DOMAIN l : r[n] = l[p]
            /\ \A m, n \in DOMAIN r : r[m] = r[n] => m = n
<1>. DEFINE P == {i \in DOMAIN l : \A j \in 1..(i - 1) : l[j] # l[i]}
<1>1. Grouping!FirstOf(l) = Grouping!Picked(l, P)
  BY DEF Grouping!FirstOf
<1>2. P \in SUBSET (DOMAIN l) /\ \A p, q \in P : p # q => l[p] # l[q]
  <2>1. DOMAIN l = 1..Len(l) /\ Len(l) \in Nat
    OBVIOUS
  <2>2. \A p, q \in P : p < q => l[p] # l[q]
    BY <2>1
  <2>3. \A p, q \in P : p \in Int /\ q \in Int
    BY <2>1
  <2>4. P \in SUBSET (DOMAIN l)
    OBVIOUS
  <2>. HIDE DEF P
  <2>. QED
    BY <2>2, <2>3, <2>4
<1>. HIDE DEF P
<1>. DEFINE r == Grouping!FirstOf(l)
<1>3. /\ r \in Seq(Names) /\ \A n \in DOMAIN r : \E p \in P : r[n] = l[p]
      /\ \A m, n \in DOMAIN r : m # n => \E p, q \in P : p # q /\ r[m] = l[p] /\ r[n] = l[q]
  BY <1>1, <1>2, PickedIs
<1>. HIDE DEF r
<1>. QED
  BY <1>2, <1>3 DEF r

(* A list in front of another one that shares no element with it. *)
LEMMA InFrontIs ==
  ASSUME NEW a \in Seq(Names), NEW v \in Seq(Names),
         \A m, n \in DOMAIN a : a[m] = a[n] => m = n, \A m, n \in DOMAIN v : v[m] = v[n] => m = n,
         \A m \in DOMAIN a, n \in DOMAIN v : a[m] # v[n]
  PROVE  LET r == a \o v
         IN /\ r \in Seq(Names) /\ Grouping!InFront(a, r) /\ Grouping!Distinct(r)
            /\ \A n \in DOMAIN r : (\E m \in DOMAIN a : r[n] = a[m]) \/ \E m \in DOMAIN v : r[n] = v[m]
<1>. DEFINE r == a \o v
            k == Len(a)
            l == Len(v)
<1>1. /\ k \in Nat /\ l \in Nat /\ DOMAIN a = 1..k /\ DOMAIN v = 1..l
      /\ \A n \in 1..k : a[n] \in Names
  BY LenProperties
<1>2. /\ r \in Seq(Names) /\ Len(r) = k + l /\ DOMAIN r = 1..(k + l)
      /\ \A i \in 1..(k + l) : r[i] = IF i <= k THEN a[i] ELSE v[i - k]
  BY ConcatProperties, LenProperties
<1>. HIDE DEF r
<1>3. Grouping!Distinct(r)
  <2>1. SUFFICES ASSUME NEW i \in 1..(k + l), NEW j \in 1..(k + l), r[i] = r[j]
                 PROVE  i = j
    BY <1>2 DEF Grouping!Distinct
  <2>. HIDE DEF k, l
  <2>2. CASE i <= k /\ j <= k
    <3>1. i \in 1..k /\ j \in 1..k
      BY <1>1, <2>2
    <3>. QED
      BY <1>1, <1>2, <2>1, <2>2, <3>1
  <2>3. CASE i > k /\ j > k
    <3>1. i - k \in 1..l /\ j - k \in 1..l /\ ~(i <= k) /\ ~(j <= k)
      BY <1>1, <2>3
    <3>2. i - k = j - k
      BY <1>1, <1>2, <2>1, <3>1
    <3>. QED
      BY <1>1, <3>2
  <2>4. CASE i <= k /\ j > k
    <3>1. i \in 1..k /\ j - k \in 1..l /\ ~(j <= k)
      BY <1>1, <2>4
    <3>. QED
      BY <1>1, <1>2, <2>1, <2>4, <3>1
  <2>5. CASE i > k /\ j <= k
    <3>1. j \in 1..k /\ i - k \in 1..l /\ ~(i <= k)
      BY <1>1, <2>5
    <3>. QED
      BY <1>1, <1>2, <2>1, <2>5, <3>1, Zenon
  <2>. QED
    BY <1>1, <2>2, <2>3, <2>4, <2>5
<1>4. Grouping!InFront(a, r)
  <2>. HIDE DEF k, l
  <2>. QED
    BY <1>1, <1>2, LenProperties DEF Grouping!InFront, k
<1>5. \A n \in DOMAIN r : (\E m \in DOMAIN a : r[n] = a[m]) \/ \E m \in DOMAIN v : r[n] = v[m]
  <2>1. TAKE n \in DOMAIN r
  <2>. HIDE DEF k, l
  <2>2. CASE n <= k
    BY <1>1, <1>2, <2>2
  <2>3. CASE n > k
    <3>1. n - k \in 1..l /\ ~(n <= k)
      BY <1>1, <1>2, <2>3
    <3>. QED
      BY <1>1, <1>2, <3>1
  <2>. QED
    BY <1>1, <1>2, <2>2, <2>3
<1>. QED
  BY <1>2, <1>3, <1>4, <1>5 DEF r

(* What is added comes first, and nothing after it is what is before it. *)
LEMMA OfferingIs ==
  ASSUME added \in {<<>>, <<"a">>, <<"p", "a">>}, NEW l \in Seq(Names) \cup {Grouping!NoList}
  PROVE  LET r == Grouping!Offering(l)
         IN /\ r \in Seq(Names) /\ Grouping!InFront(added, r) /\ Grouping!Distinct(r)
            /\ \A gone : (l = Grouping!NoList \/ \A n \in DOMAIN l : l[n] \notin gone) =>
                 \A n \in DOMAIN r : r[n] \notin gone \ Grouping!Range0(added)
<1>. DEFINE b == IF l = Grouping!NoList THEN <<>> ELSE l
            w == Grouping!Without(b, Grouping!Range0(added))
            v == Grouping!FirstOf(w)
            r == added \o v
<1>0. <<>> \in Seq(Names)
  OBVIOUS
<1>1. b \in Seq(Names)
  BY <1>0
<1>2. /\ w \in Seq(Names) /\ \A n \in DOMAIN w : w[n] \notin Grouping!Range0(added)
      /\ \A n \in DOMAIN w : \E p \in DOMAIN b : w[n] = b[p]
  <2>. HIDE DEF b
  <2>. QED
    BY <1>1, WithoutIs
<1>3. /\ v \in Seq(Names) /\ \A n \in DOMAIN v : \E p \in DOMAIN w : v[n] = w[p]
      /\ \A m, n \in DOMAIN v : v[m] = v[n] => m = n
  <2>. HIDE DEF w
  <2>. QED
    BY <1>2, FirstOfIs
<1>4. r = Grouping!Offering(l)
  BY DEF Grouping!Offering
<1>5. l # Grouping!NoList => b = l
  OBVIOUS
<1>6. l = Grouping!NoList => b = <<>>
  OBVIOUS
<1>. HIDE DEF b, w, v
<1>7. /\ added \in Seq(Names) /\ \A m, n \in DOMAIN added : added[m] = added[n] => m = n
  <2>1. {"a", "p"} \subseteq Names
    BY DEF Names, Grouping!Names, Grouping!Proxies0
  <2>2. CASE added = <<>>
    BY <1>0, <2>2
  <2>3. CASE added = <<"a">>
    BY <2>1, <2>3
  <2>4. CASE added = <<"p", "a">>
    <3>1. added \in Seq(Names)
      BY <2>1, <2>4
    <3>2. DOMAIN added = {1, 2} /\ added[1] = "p" /\ added[2] = "a"
      BY <2>4
    <3>. QED
      BY <3>1, <3>2
  <2>. QED
    BY <2>2, <2>3, <2>4
<1>8. \A n \in DOMAIN v : v[n] \notin Grouping!Range0(added)
  BY <1>2, <1>3
<1>9. \A m \in DOMAIN added, n \in DOMAIN v : added[m] # v[n]
  BY <1>8 DEF Grouping!Range0
<1>10. /\ r \in Seq(Names) /\ Grouping!InFront(added, r) /\ Grouping!Distinct(r)
       /\ \A n \in DOMAIN r : (\E m \in DOMAIN added : r[n] = added[m]) \/ \E m \in DOMAIN v : r[n] = v[m]
  BY <1>3, <1>7, <1>9, InFrontIs
<1>. HIDE DEF r
<1>11. ASSUME NEW gone, l = Grouping!NoList \/ \A n \in DOMAIN l : l[n] \notin gone
       PROVE  \A n \in DOMAIN r : r[n] \notin gone \ Grouping!Range0(added)
  <2>1. \A p \in DOMAIN b : b[p] \notin gone
    BY <1>5, <1>6, <1>11
  <2>2. \A n \in DOMAIN v : v[n] \notin gone
    BY <1>2, <1>3, <2>1
  <2>3. \A m \in DOMAIN added : added[m] \in Grouping!Range0(added)
    BY DEF Grouping!Range0
  <2>. QED
    BY <1>10, <2>2, <2>3
<1>. QED
  BY <1>4, <1>10, <1>11

(* The groups after a step that gives each one a list of names and the providers it has. *)
LEMMA GroupsStay ==
  ASSUME NEW h, groups \in Seq(Group), groups' = [i \in DOMAIN groups |-> h[i]],
         \A i \in DOMAIN groups : h[i] \in Group
  PROVE  groups' \in Seq(Group) /\ DOMAIN groups' = DOMAIN groups /\ Len(groups') = Len(groups)
<1>1. DOMAIN groups = 1..Len(groups) /\ Len(groups) \in Nat
  BY LenProperties
<1>. DEFINE n == Len(groups)
<1>2. n \in Nat /\ groups' \in [1..n -> Group]
  BY <1>1
<1>. HIDE DEF n
<1>3. groups' \in Seq(Group) /\ Len(groups') = n /\ DOMAIN groups' = 1..n
  BY <1>2
<1>. QED
  BY <1>1, <1>3 DEF n

LEMMA EditMembersKeeps ==
  ASSUME GroupInv, Grouping!EditMembers
  PROVE  GroupInv'
<1>. USE DEF GroupInv
<1>. DEFINE kept(i) == IF groups[i].list = Grouping!NoList THEN Grouping!NoList
                       ELSE Grouping!Without(groups[i].list, deleted)
            list(i) == IF i = firstSelector /\ added # <<>> THEN Grouping!Offering(kept(i)) ELSE kept(i)
            h == [i \in DOMAIN groups |-> [groups[i] EXCEPT !.list = list(i)]]
<1>1. /\ arranging' = "groups" /\ groups' = [i \in DOMAIN groups |-> [groups[i] EXCEPT !.list = list(i)]]
      /\ proxies' = proxies /\ providers' = providers /\ added' = added /\ deleted' = deleted
      /\ firstSelector' = firstSelector
  BY DEF Grouping!EditMembers, Grouping!Go
<1>2. \A i \in DOMAIN groups : groups[i] \in Group
  OBVIOUS
<1>3. \A i \in DOMAIN groups :
        /\ kept(i) \in Seq(Names) \cup {Grouping!NoList}
        /\ kept(i) = Grouping!NoList \/ \A n \in DOMAIN kept(i) : kept(i)[n] \notin deleted
  <2>1. TAKE i \in DOMAIN groups
  <2>2. groups[i].list \in Seq(Names) \cup {Grouping!NoList}
    BY <1>2 DEF Group
  <2>. HIDE DEF GroupInv
  <2>3. CASE groups[i].list = Grouping!NoList
    BY <2>3
  <2>4. CASE groups[i].list # Grouping!NoList
    <3>. DEFINE l == groups[i].list
                r == Grouping!Without(l, deleted)
    <3>1. l \in Seq(Names) /\ kept(i) = r
      BY <2>2, <2>4
    <3>. HIDE DEF l
    <3>2. r \in Seq(Names) /\ \A n \in DOMAIN r : r[n] \notin deleted
      BY <3>1, WithoutIs
    <3>. HIDE DEF r, kept
    <3>. QED
      BY <3>1, <3>2
  <2>. QED
    BY <2>3, <2>4
<1>. HIDE DEF kept
<1>4. \A i \in DOMAIN groups :
        LET r == Grouping!Offering(kept(i))
        IN /\ r \in Seq(Names) /\ Grouping!InFront(added, r) /\ Grouping!Distinct(r)
           /\ \A n \in DOMAIN r : r[n] \notin deleted \ Grouping!Range0(added)
  <2>1. TAKE i \in DOMAIN groups
  <2>. DEFINE l == kept(i)
              r == Grouping!Offering(l)
  <2>2. l \in Seq(Names) \cup {Grouping!NoList} /\ (l = Grouping!NoList \/ \A n \in DOMAIN l : l[n] \notin deleted)
    BY <1>3
  <2>. HIDE DEF l
  <2>3. r \in Seq(Names) /\ Grouping!InFront(added, r) /\ Grouping!Distinct(r)
    BY <2>2, OfferingIs
  <2>4. \A n \in DOMAIN r : r[n] \notin deleted \ Grouping!Range0(added)
    BY <2>2, OfferingIs
  <2>. QED
    BY <2>3, <2>4 DEF l
<1>5. \A i \in DOMAIN groups :
        /\ list(i) \in Seq(Names) \cup {Grouping!NoList}
        /\ list(i) = Grouping!NoList \/ \A n \in DOMAIN list(i) : list(i)[n] \notin deleted \ Grouping!Range0(added)
        /\ i = firstSelector /\ added # <<>> =>
             Grouping!InFront(added, list(i)) /\ Grouping!Distinct(list(i))
  <2>1. TAKE i \in DOMAIN groups
  <2>2. CASE i = firstSelector /\ added # <<>>
    BY <1>4, <2>2
  <2>3. CASE ~(i = firstSelector /\ added # <<>>)
    BY <1>3, <2>3
  <2>. QED
    BY <2>2, <2>3
<1>. HIDE DEF list
<1>6. /\ groups' \in Seq(Group) /\ DOMAIN groups' = DOMAIN groups /\ Len(groups') = Len(groups)
  <2>1. \A i \in DOMAIN groups : h[i] \in Group
    BY <1>2, <1>5 DEF Group
  <2>2. groups' = [i \in DOMAIN groups |-> h[i]]
    BY <1>1
  <2>. HIDE DEF h
  <2>. QED
    BY <2>1, <2>2, GroupsStay
<1>7. \A i \in DOMAIN groups : groups'[i].list = list(i)
  BY <1>1, <1>2 DEF Group
<1>8. firstSelector # 0 => firstSelector \in DOMAIN groups
  OBVIOUS
<1>. DEFINE lost == deleted \ Grouping!Range0(added)
<1>9. \A i \in DOMAIN groups : list(i) # Grouping!NoList => Grouping!Range0(list(i)) \cap lost = {}
  <2>1. \A s, X : (\A n \in DOMAIN s : s[n] \notin X) => Grouping!Range0(s) \cap X = {}
    BY DEF Grouping!Range0
  <2>. HIDE DEF GroupInv
  <2>. QED
    BY <1>5, <2>1
<1>. HIDE DEF GroupInv, h
<1>10. lost' = lost
  BY <1>1
<1>. HIDE DEF lost
<1>11. Grouping!AddedCanBeChosen'
  <2>1. firstSelector' # 0 /\ added' # <<>> =>
          Grouping!InFront(added', groups'[firstSelector'].list) /\ Grouping!Distinct(groups'[firstSelector'].list)
    BY <1>1, <1>5, <1>7, <1>8
  <2>2. \A i \in DOMAIN groups' : groups'[i].list # Grouping!NoList => Grouping!Range0(groups'[i].list) \cap lost' = {}
    BY <1>6, <1>7, <1>9, <1>10
  <2>. QED
    BY <2>1, <2>2 DEF Grouping!AddedCanBeChosen, lost
<1>. QED
  BY <1>1, <1>6, <1>11 DEF GroupInv, Grouping!ReferencesResolve

LEMMA EditGroupsKeeps ==
  ASSUME GroupInv, Grouping!EditGroups
  PROVE  GroupInv'
<1>. USE DEF GroupInv
<1>. DEFINE k == Grouping!Group("k", TRUE, <<"q">>, {})
            new0 == <<k>>
<1>1. /\ arranging' = "overrides" /\ proxies' = proxies /\ providers' = providers /\ added' = added
      /\ firstSelector' = 0
  BY DEF Grouping!EditGroups, Grouping!Go
<1>2. PICK gone \in SUBSET {"g1"}, new \in {<<>>, new0} :
        groups' = new \o Grouping!Picked(groups, {i \in DOMAIN groups : groups[i].name \notin gone})
  BY DEF Grouping!EditGroups
<1>3. new \in Seq(Group)
  <2>1. k \in Group
    BY DEF Grouping!Group, Group, Names, Grouping!Names, Grouping!Proxies0
  <2>. HIDE DEF k, Group, GroupInv
  <2>2. <<k>> \in Seq(Group) /\ <<>> \in Seq(Group)
    BY <2>1
  <2>. QED
    BY <2>2
<1>. HIDE DEF k, new0, GroupInv
<1>. DEFINE P == {i \in DOMAIN groups : groups[i].name \notin gone}
            r == Grouping!Picked(groups, P)
<1>4. r \in Seq(Group)
  <2>1. P \in SUBSET (DOMAIN groups) /\ groups \in Seq(Group)
    BY DEF GroupInv
  <2>. HIDE DEF P
  <2>. QED
    BY <2>1, PickedIs
<1>. HIDE DEF r
<1>5. groups' \in Seq(Group) /\ Len(groups') \in Nat
  BY <1>2, <1>3, <1>4, ConcatProperties, LenProperties DEF r
<1>. QED
  BY <1>1, <1>5 DEF GroupInv, Grouping!ReferencesResolve, Grouping!AddedCanBeChosen

LEMMA OverrideGroupsKeeps ==
  ASSUME GroupInv, Grouping!OverrideGroups
  PROVE  GroupInv'
<1>. USE DEF GroupInv
<1>1. /\ arranging = "overrides" /\ arranging' = "overrides" /\ added' = added /\ firstSelector' = firstSelector
      /\ proxies' \subseteq proxies /\ providers' \subseteq providers
  BY DEF Grouping!OverrideGroups
<1>2. groups' \in Seq(Group) /\ Len(groups') = Len(groups)
  <2>1. CASE groups' = groups
    BY <2>1
  <2>2. CASE groups' # groups
    <3>1. PICK i \in DOMAIN groups :
            /\ groups[i].list # Grouping!NoList
            /\ groups' = [groups EXCEPT ![i].list = Append(@, "ghost"), ![i].use = @ \cup {"ghost"}]
      BY <2>2 DEF Grouping!OverrideGroups
    <3>. DEFINE g == [[groups[i] EXCEPT !.list = Append(groups[i].list, "ghost")]
                        EXCEPT !.use = groups[i].use \cup {"ghost"}]
    <3>2. groups[i] \in Group /\ groups[i].list \in Seq(Names)
      <4>1. groups[i] \in Group
        OBVIOUS
      <4>. HIDE DEF GroupInv, g
      <4>. QED
        BY <3>1, <4>1 DEF Group
    <3>3. Append(groups[i].list, "ghost") \in Seq(Names)
      BY <3>2 DEF Names, Grouping!Names
    <3>4. g \in Group
      BY <3>2, <3>3 DEF Group
    <3>5. groups' = [groups EXCEPT ![i] = g]
      BY <3>1, <3>2
    <3>. HIDE DEF g
    <3>. QED
      BY <3>4, <3>5
  <2>. QED
    BY <2>1, <2>2
<1>. QED
  BY <1>1, <1>2 DEF Grouping!ReferencesResolve, Grouping!AddedCanBeChosen

LEMMA CleanupKeeps ==
  ASSUME GroupInv, Grouping!CleanupProxyGroups
  PROVE  GroupInv'
<1>. USE DEF GroupInv
<1>. DEFINE h == [i \in DOMAIN groups |-> Grouping!Cleaned(groups[i])]
<1>1. /\ arranging' = "cleaned" /\ groups' = [i \in DOMAIN groups |-> Grouping!Cleaned(groups[i])]
      /\ proxies' = proxies /\ providers' = providers /\ added' = added /\ firstSelector' = firstSelector
  BY DEF Grouping!CleanupProxyGroups, Grouping!Go
<1>2. ASSUME NEW i \in DOMAIN groups
      PROVE  LET g == groups[i]  c == Grouping!Cleaned(g)
             IN /\ c \in Group /\ c.name = g.name /\ c.use = g.use \cap providers
                /\ c.list = Grouping!NoList \/ c.use # {} \/ \A n \in DOMAIN c.list : c.list[n] \in Grouping!Allowed
  <2>. DEFINE g == groups[i]
              w == Grouping!Within(g.list, Grouping!Allowed)
              l == IF g.list = Grouping!NoList \/ g.use \cap providers # {} THEN g.list ELSE w
              c == Grouping!Cleaned(g)
  <2>1. g \in Group
    OBVIOUS
  <2>2. g.list # Grouping!NoList => w \in Seq(Names) /\ \A n \in DOMAIN w : w[n] \in Grouping!Allowed
    <3>1. SUFFICES ASSUME g.list # Grouping!NoList
                   PROVE  w \in Seq(Names) /\ \A n \in DOMAIN w : w[n] \in Grouping!Allowed
      OBVIOUS
    <3>. DEFINE b == g.list
                P == {k \in DOMAIN b : b[k] \in Grouping!Allowed}
    <3>2. b \in Seq(Names) /\ w = Grouping!Picked(b, P)
      BY <2>1, <3>1 DEF Group, Grouping!Within
    <3>. HIDE DEF b, w
    <3>3. P \in SUBSET (DOMAIN b) /\ \A p \in P : b[p] \in Grouping!Allowed
      OBVIOUS
    <3>. HIDE DEF P
    <3>. QED
      BY <3>2, <3>3, PickedIs
  <2>3. c = [[g EXCEPT !.use = g.use \cap providers] EXCEPT !.list = l]
    BY <2>1 DEF Grouping!Cleaned, Group
  <2>4. l \in Seq(Names) \cup {Grouping!NoList}
    <3>. HIDE DEF w
    <3>. QED
      BY <2>1, <2>2 DEF Group
  <2>5. l = Grouping!NoList \/ g.use \cap providers # {} \/ \A n \in DOMAIN l : l[n] \in Grouping!Allowed
    <3>. HIDE DEF w
    <3>. QED
      BY <2>2
  <2>. HIDE DEF l, g, c
  <2>6. /\ c \in Group /\ c.name = g.name /\ c.use = g.use \cap providers /\ c.list = l
    BY <2>1, <2>3, <2>4 DEF Group
  <2>. QED
    BY <2>5, <2>6 DEF g, c
<1>3. \A i \in DOMAIN groups : h[i] = Grouping!Cleaned(groups[i]) /\ h[i] \in Group
  BY <1>2
<1>4. groups' = [i \in DOMAIN groups |-> h[i]]
  BY <1>1
<1>. HIDE DEF h
<1>5. groups' \in Seq(Group) /\ DOMAIN groups' = DOMAIN groups /\ Len(groups') = Len(groups)
  BY <1>3, <1>4, GroupsStay
<1>6. \A i \in DOMAIN groups' :
        /\ groups'[i].name = groups[i].name /\ groups'[i].use = groups[i].use \cap providers
        /\ groups'[i].list = Grouping!NoList \/ groups'[i].use # {}
           \/ \A n \in DOMAIN groups'[i].list : groups'[i].list[n] \in Grouping!Allowed
  BY <1>1, <1>2, <1>5
<1>7. Grouping!Allowed' = Grouping!Allowed
  BY <1>1, <1>5, <1>6 DEF Grouping!Allowed
<1>8. Grouping!ReferencesResolve'
  BY <1>1, <1>6, <1>7 DEF Grouping!ReferencesResolve, Grouping!Range0
<1>. QED
  BY <1>1, <1>5, <1>8 DEF Grouping!AddedCanBeChosen

LEMMA GroupingNext ==
  ASSUME GroupInv, [Grouping!NextGroups]_(Grouping!groupVars)
  PROVE  GroupInv'
<1>1. CASE UNCHANGED Grouping!groupVars
  BY <1>1 DEF Grouping!groupVars, GroupInv, Grouping!ReferencesResolve, Grouping!AddedCanBeChosen,
     Grouping!Allowed
<1>. QED
  BY <1>1, EditProxiesKeeps, EditMembersKeeps, EditGroupsKeeps, OverrideGroupsKeeps, CleanupKeeps
  DEF Grouping!NextGroups

LEMMA GroupingShows ==
  ASSUME GroupInv
  PROVE  Grouping!TypeOK /\ Grouping!ReferencesResolve /\ Grouping!AddedCanBeChosen
<1>. USE DEF GroupInv
<1>1. \A i \in DOMAIN groups : groups[i] \in Group
  OBVIOUS
<1>2. \A l \in Seq(Names) : \A n \in DOMAIN l : l[n] \in Names
  OBVIOUS
<1>3. \A i \in DOMAIN groups :
        /\ groups[i].name \in Names /\ groups[i].use \subseteq {"r", "ghost"}
        /\ groups[i].list = Grouping!NoList \/ \A n \in DOMAIN groups[i].list : groups[i].list[n] \in Names
  BY <1>1, <1>2 DEF Group
<1>. QED
  BY <1>3 DEF Grouping!TypeOK, Names

-----------------------------------------------------------------------------
(* The caches that are copied back.  CacheShape says what the Core's file is   *)
(* while it is written and after, and how its times tell the two apart;        *)
(* PassShape and CopyShape that a file with the identity and the load time     *)
(* that were caught is the one that was read, and read to its end.             *)

SyncTimes ==
  /\ now \in 1..MaxTicks /\ mtime \in 0..MaxTicks /\ updatedAt \in 0..MaxTicks
  /\ declared \in 1..(MaxApplies + 1) /\ session \in 0..(MaxApplies + 1)
  /\ applies \in 0..MaxApplies /\ declared <= applies + 1 /\ syncs \in 0..MaxSyncs
SyncTasks ==
  /\ task \in [Syncing!Tasks -> {"none", "waiting", "retrying"}] /\ tries \in [Syncing!Tasks -> 0..Attempts]
  /\ syncing \in Syncing!Tasks \cup {0} /\ pass \in Syncing!Passes
CaughtTypes ==
  caught \in [session : Nat, declared : Nat, loaded : Nat, mtime : Nat, len : Nat]
SyncFlags == {writing, queued, owed, stray} \subseteq BOOLEAN
SyncQueues ==
  /\ file \in Seq(Syncing!Version) /\ local \in Seq(Syncing!Version) /\ copy \in Seq(Syncing!Version)
  /\ madeFor \in Seq(Nat) /\ Len(madeFor) <= MaxVersions

CacheShape ==
  /\ mtime <= now /\ updatedAt <= now
  /\ writing => Len(file) = 1
  /\ ~writing => Len(file) \in {0, 2}
  /\ Len(file) = 0 => updatedAt = 0
  /\ Len(file) # 0 => file[1] = Len(madeFor) /\ Len(madeFor) # 0 /\ madeFor[Len(madeFor)] = declared
  /\ Len(file) = 2 => file[2] = file[1] /\ updatedAt # 0
  /\ writing /\ updatedAt = 0 => now < mtime + Settle
  /\ writing /\ updatedAt # 0 => mtime > updatedAt + Settle

PassShape ==
  /\ syncing = 0 <=> pass = "none"
  /\ syncing # 0 => task[syncing] # "none"
  /\ caught.len \in 0..2 /\ Len(copy) <= caught.len /\ caught.declared <= declared
  /\ caught.len # 0 => caught.mtime + Settle <= now /\ caught.mtime <= mtime
  /\ caught.len # 0 /\ mtime = caught.mtime /\ Len(file) # 0 => Len(file) = caught.len
  /\ pass \in {"comparing", "verifying", "publishing"} => Len(copy) = caught.len /\ caught.len # 0
  /\ pass = "verifying" /\ mtime = caught.mtime /\ Len(file) = caught.len => caught.len = 2
  /\ pass = "publishing" => caught.len = 2

CopyShape ==
  /\ \A i \in 1..Len(copy) : copy[i] \in 1..Len(madeFor)
  /\ declared = caught.declared => \A i \in 1..Len(copy) : madeFor[copy[i]] = declared
  /\ caught.len = 2 => \A i \in 1..Len(copy) : copy[i] = copy[1]
  /\ mtime = caught.mtime /\ Len(file) # 0 => \A i \in 1..Len(copy) : copy[i] = file[1]

TaskShape ==
  /\ owed => queued
  /\ queued => \E t \in Syncing!Tasks : task[t] = "waiting" /\ syncing # t
  /\ \A t \in Syncing!Tasks : task[t] = "waiting" /\ syncing # t => tries[t] = 0
  /\ \A t \in Syncing!Tasks : task[t] = "retrying" /\ syncing # t => tries[t] < Attempts

LocalShape ==
  /\ stray = FALSE
  /\ Len(local) # 0 => Len(local) = 2 /\ local[2] = local[1]

SyncInv ==
  /\ SyncTimes /\ SyncTasks /\ CaughtTypes /\ SyncFlags /\ SyncQueues
  /\ CacheShape /\ PassShape /\ CopyShape /\ TaskShape /\ LocalShape

(* Nothing was downloaded yet, and no copy was asked for. *)
LEMMA SyncingInit == Syncing!InitSync => SyncInv
<1>. SUFFICES ASSUME Syncing!InitSync PROVE SyncInv
  OBVIOUS
<1>. USE SyncingAssumption DEF Syncing!InitSync, Syncing!NoFile, Syncing!Never, Syncing!NotCaught
<1>1. SyncTimes /\ SyncTasks /\ CaughtTypes
  BY DEF SyncTimes, SyncTasks, CaughtTypes, Syncing!Tasks, Syncing!Passes
<1>2. SyncFlags /\ SyncQueues
  <2>1. SyncFlags
    BY DEF SyncFlags
  <2>. QED
    BY <2>1 DEF SyncQueues
<1>3. CacheShape /\ TaskShape /\ LocalShape
  BY DEF CacheShape, TaskShape, LocalShape
<1>4. PassShape /\ CopyShape
  BY DEF PassShape, CopyShape
<1>. QED
  BY <1>1, <1>2, <1>3, <1>4 DEF SyncInv

(* Every step of the Core, the configuration and the tasks keeps the invariant. *)
LEMMA SyncingNext ==
  ASSUME SyncInv, Syncing!NextSync \/ UNCHANGED Syncing!syncVars
  PROVE  SyncInv'
<1>. USE SyncingAssumption DEF SyncInv, Syncing!syncVars, Syncing!cacheVars, Syncing!appVars, Syncing!taskVars,
          Syncing!passVars
<1>0. /\ now \in Nat /\ mtime \in Nat /\ updatedAt \in Nat /\ declared \in Nat
      /\ caught.len \in Nat /\ caught.mtime \in Nat /\ caught.declared \in Nat
      /\ Len(file) \in Nat /\ Len(copy) \in Nat /\ Len(local) \in Nat /\ Len(madeFor) \in Nat
      /\ Settle \in Nat /\ Settle > 0 /\ 0 \notin Syncing!Tasks /\ syncing \in Syncing!Tasks \cup {0}
      /\ writing \in BOOLEAN /\ queued \in BOOLEAN /\ owed \in BOOLEAN /\ stray \in BOOLEAN
  <2>1. /\ now \in Nat /\ mtime \in Nat /\ updatedAt \in Nat /\ declared \in Nat
        /\ caught.len \in Nat /\ caught.mtime \in Nat /\ caught.declared \in Nat
    BY DEF SyncTimes, CaughtTypes
  <2>2. Len(file) \in Nat /\ Len(copy) \in Nat /\ Len(local) \in Nat /\ Len(madeFor) \in Nat
    BY DEF SyncQueues
  <2>3. syncing \in Syncing!Tasks \cup {0} /\ 0 \notin Syncing!Tasks
    BY DEF SyncTasks, Syncing!Tasks
  <2>4. writing \in BOOLEAN /\ queued \in BOOLEAN /\ owed \in BOOLEAN /\ stray \in BOOLEAN
    BY DEF SyncFlags
  <2>. QED
    BY <2>1, <2>2, <2>3, <2>4
<1>1. CASE Syncing!Tick
  <2>1. now' = now + 1 /\ (writing /\ updatedAt = 0 => now + 1 < mtime + Settle)
    BY <1>1 DEF Syncing!Tick, Syncing!NoFile, Syncing!Never
  <2>2. UNCHANGED <<file, mtime, updatedAt, writing, madeFor, declared, session, local, queued, task, tries, syncing, pass, caught, copy, owed, stray>>
    BY <1>1
       DEF Syncing!Tick, Syncing!NoFile, Syncing!Never, Syncing!cacheVars, Syncing!appVars,
          Syncing!taskVars, Syncing!passVars
  <2>3. SyncTimes'
    BY <1>1, <2>1, <2>2 DEF Syncing!Tick, Syncing!NoFile, Syncing!Never, SyncTimes
  <2>4. SyncTasks'
    BY <1>1, <2>1, <2>2
       DEF Syncing!Tick, Syncing!NoFile, Syncing!Never, SyncTasks, TaskShape, PassShape,
          Syncing!Passes
  <2>5. CaughtTypes'
    BY <1>1, <2>1, <2>2, <1>0
       DEF Syncing!Tick, Syncing!NoFile, Syncing!Never, CaughtTypes, SyncTimes
  <2>6. SyncFlags'
    BY <1>1, <2>1, <2>2 DEF Syncing!Tick, Syncing!NoFile, Syncing!Never, SyncFlags
  <2>7. SyncQueues'
    BY <1>1, <2>1, <2>2
       DEF Syncing!Tick, Syncing!NoFile, Syncing!Never, SyncQueues, SyncTimes,
          Syncing!Version
  <2>8. CacheShape'
    BY <2>1, <2>2, <1>0 DEF CacheShape
  <2>9. PassShape'
    BY <2>1, <2>2, <1>0 DEF PassShape, CacheShape
  <2>10. CopyShape'
    BY <2>1, <2>2, <1>0 DEF CopyShape, PassShape, CacheShape
  <2>11. TaskShape'
    BY <2>1, <2>2, <1>0 DEF TaskShape, PassShape
  <2>12. LocalShape'
    BY <2>1, <2>2, <1>0 DEF LocalShape, CopyShape, PassShape
  <2>. QED
    BY <2>3, <2>4, <2>5, <2>6, <2>7, <2>8, <2>9, <2>10, <2>11, <2>12
<1>2. CASE Syncing!WriteBegins
  <2>1. ~writing /\ (Len(file) = 0 \/ now > updatedAt + Settle)
    BY <1>2 DEF Syncing!WriteBegins, Syncing!NoFile, Syncing!Never, SyncQueues
  <2>2. /\ Len(madeFor') = Len(madeFor) + 1 /\ madeFor'[Len(madeFor) + 1] = declared
        /\ \A i \in 1..Len(madeFor) : madeFor'[i] = madeFor[i]
    BY <1>2
       DEF Syncing!WriteBegins, Syncing!NoFile, Syncing!Never, SyncQueues, SyncTimes,
          CaughtTypes
  <2>3. Len(file') = 1 /\ file'[1] = Len(madeFor) + 1 /\ mtime' = now /\ writing' = TRUE
    BY <1>2 DEF Syncing!WriteBegins, Syncing!NoFile, Syncing!Never
  <2>4. UNCHANGED <<now, updatedAt, declared, session, local, queued, task, tries, syncing, pass, caught, copy, owed, stray>>
    BY <1>2
       DEF Syncing!WriteBegins, Syncing!NoFile, Syncing!Never, Syncing!cacheVars,
          Syncing!appVars, Syncing!taskVars, Syncing!passVars
  <2>5. SyncTimes'
    BY <1>2, <2>1, <2>2, <2>3, <2>4
       DEF Syncing!WriteBegins, Syncing!NoFile, Syncing!Never, SyncTimes
  <2>6. SyncTasks'
    BY <1>2, <2>1, <2>2, <2>3, <2>4
       DEF Syncing!WriteBegins, Syncing!NoFile, Syncing!Never, SyncTasks, TaskShape,
          PassShape, Syncing!Passes
  <2>7. CaughtTypes'
    BY <1>2, <2>1, <2>2, <2>3, <2>4, <1>0
       DEF Syncing!WriteBegins, Syncing!NoFile, Syncing!Never, CaughtTypes, SyncTimes
  <2>8. SyncFlags'
    BY <1>2, <2>1, <2>2, <2>3, <2>4
       DEF Syncing!WriteBegins, Syncing!NoFile, Syncing!Never, SyncFlags
  <2>9. SyncQueues'
    <3>1. Len(madeFor') <= MaxVersions /\ Len(madeFor) + 1 \in Syncing!Version
      BY <1>2, <2>1, <2>2, <2>3, <2>4, <1>0 DEF Syncing!WriteBegins, Syncing!Version
    <3>2. madeFor' \in Seq(Nat)
      BY <1>2, <1>0 DEF Syncing!WriteBegins, SyncQueues
    <3>3. file' = <<Len(madeFor) + 1>>
      BY <1>2 DEF Syncing!WriteBegins
    <3>4. file' \in Seq(Syncing!Version)
      BY <3>1, <3>3
    <3>. QED
      BY <2>1, <2>2, <2>3, <2>4, <3>1, <3>2, <3>4 DEF SyncQueues
  <2>10. CacheShape'
    BY <2>1, <2>2, <2>3, <2>4, <1>0 DEF CacheShape
  <2>11. PassShape'
    <3>1. caught.len # 0 => caught.mtime < now
      BY <1>0 DEF PassShape
    <3>. QED
      BY <2>1, <2>2, <2>3, <2>4, <3>1, <1>0, SMTT(30) DEF PassShape, CacheShape
  <2>12. CopyShape'
    <3>1. caught.len # 0 => mtime' # caught.mtime
      BY <2>1, <2>2, <2>3, <2>4, <1>0, SMTT(30) DEF PassShape
    <3>2. caught.len = 0 => Len(copy) = 0
      BY <1>0 DEF PassShape
    <3>3. \A i \in 1..Len(copy) : copy[i] \in 1..Len(madeFor') /\ madeFor'[copy[i]] = madeFor[copy[i]]
      <4>. SUFFICES ASSUME NEW i \in 1..Len(copy)
           PROVE copy[i] \in 1..Len(madeFor') /\ madeFor'[copy[i]] = madeFor[copy[i]]
        OBVIOUS
      <4>1. copy[i] \in 1..Len(madeFor)
        BY DEF CopyShape
      <4>. QED
        BY <2>2, <4>1, <1>0
    <3>4. /\ \A i \in 1..Len(copy') : copy'[i] \in 1..Len(madeFor')
          /\ declared' = caught'.declared => \A i \in 1..Len(copy') : madeFor'[copy'[i]] = declared'
      BY <2>4, <3>3 DEF CopyShape
    <3>5. mtime' = caught'.mtime => Len(copy') = 0
      BY <2>4, <3>1, <3>2
    <3>6. caught'.len = 2 => \A i \in 1..Len(copy') : copy'[i] = copy'[1]
      BY <2>4 DEF CopyShape
    <3>. QED
      BY <3>4, <3>5, <3>6 DEF CopyShape
  <2>13. TaskShape'
    BY <2>1, <2>2, <2>3, <2>4, <1>0 DEF TaskShape, PassShape
  <2>14. LocalShape'
    BY <2>1, <2>2, <2>3, <2>4, <1>0 DEF LocalShape, CopyShape, PassShape
  <2>. QED
    BY <2>5, <2>6, <2>7, <2>8, <2>9, <2>10, <2>11, <2>12, <2>13, <2>14
<1>3. CASE Syncing!WriteEnds
  <2>1. writing /\ writing' = FALSE /\ mtime' = now /\ updatedAt' = now
    BY <1>3 DEF Syncing!WriteEnds
  <2>2. Len(file) = 1 => Len(file') = 2 /\ file'[1] = file[1] /\ file'[2] = Len(madeFor)
    <3>0. (\A i \in 1..Len(file) : file[i] \in Syncing!Version) /\ file \in Seq(Syncing!Version)
      BY DEF SyncQueues
    <3>1. Len(file) = 1 => Len(madeFor) \in Syncing!Version
      <4>1. Len(file) = 1 => 1 \in 1..Len(file) /\ Len(madeFor) = file[1]
        BY DEF CacheShape
      <4>. QED
        BY <3>0, <4>1
    <3>2. file' = Append(file, Len(madeFor))
      BY <1>3 DEF Syncing!WriteEnds
    <3>. DEFINE v == Len(madeFor)  V == Syncing!Version
    <3>. HIDE DEF v, V
    <3>3. /\ file \in Seq(V) /\ file' = Append(file, v) /\ (Len(file) = 1 => v \in V)
      BY <3>0, <3>1, <3>2 DEF v, V
    <3>4. v \in V => /\ Len(file') = Len(file) + 1 /\ file'[Len(file) + 1] = v
                     /\ \A i \in 1..Len(file) : file'[i] = file[i]
      BY <3>3, AppendProperties
    <3>5. Len(file) = 1 => 1 \in 1..Len(file) /\ Len(file) + 1 = 2
      OBVIOUS
    <3>. QED
      BY <3>3, <3>4, <3>5 DEF v
  <2>3. UNCHANGED <<now, madeFor, declared, session, local, queued, task, tries, syncing, pass, caught, copy, owed, stray>>
    BY <1>3
       DEF Syncing!WriteEnds, Syncing!cacheVars, Syncing!appVars, Syncing!taskVars,
          Syncing!passVars
  <2>4. SyncTimes'
    BY <1>3, <2>1, <2>2, <2>3 DEF Syncing!WriteEnds, SyncTimes
  <2>5. SyncTasks'
    BY <1>3, <2>1, <2>2, <2>3
       DEF Syncing!WriteEnds, SyncTasks, TaskShape, PassShape, Syncing!Passes
  <2>6. CaughtTypes'
    BY <1>3, <2>1, <2>2, <2>3, <1>0 DEF Syncing!WriteEnds, CaughtTypes, SyncTimes
  <2>7. SyncFlags'
    BY <1>3, <2>1, <2>2, <2>3 DEF Syncing!WriteEnds, SyncFlags
  <2>8. SyncQueues'
    BY <1>3, <2>1, <2>2, <2>3 DEF Syncing!WriteEnds, SyncQueues, SyncTimes, Syncing!Version
  <2>9. CacheShape'
    <3>1. Len(file) = 1 /\ updatedAt' # 0 /\ Len(file') = 2
      BY <2>1, <2>2, <2>3, <1>0 DEF CacheShape, SyncTimes
    <3>. QED
      BY <2>1, <2>2, <2>3, <3>1, <1>0 DEF CacheShape
  <2>10. PassShape'
    <3>1. caught.len # 0 => caught.mtime < now
      BY <1>0 DEF PassShape
    <3>. QED
      BY <2>1, <2>2, <2>3, <3>1, <1>0, SMTT(30) DEF PassShape, CacheShape
  <2>11. CopyShape'
    <3>1. caught.len # 0 => mtime' # caught.mtime
      BY <2>1, <2>2, <2>3, <1>0 DEF PassShape
    <3>2. caught.len = 0 => Len(copy) = 0
      BY <1>0 DEF PassShape
    <3>. QED
      BY <2>1, <2>2, <2>3, <3>1, <3>2, <1>0 DEF CopyShape
  <2>12. TaskShape'
    BY <2>1, <2>2, <2>3, <1>0 DEF TaskShape, PassShape
  <2>13. LocalShape'
    BY <2>1, <2>2, <2>3, <1>0 DEF LocalShape, CopyShape, PassShape
  <2>. QED
    BY <2>4, <2>5, <2>6, <2>7, <2>8, <2>9, <2>10, <2>11, <2>12, <2>13
<1>4. CASE Syncing!Apply
  <2>1. Len(file') = 0 /\ writing' = FALSE /\ updatedAt' = 0
    BY <1>4 DEF Syncing!Apply, Syncing!NoFile, Syncing!Never
  <2>2. declared' = declared \/ declared' = declared + 1
    BY <1>4 DEF Syncing!Apply, Syncing!NoFile, Syncing!Never
  <2>3. UNCHANGED <<now, mtime, madeFor, local, queued, task, tries, syncing, pass, caught, copy, owed, stray>>
    BY <1>4
       DEF Syncing!Apply, Syncing!NoFile, Syncing!Never, Syncing!cacheVars, Syncing!appVars,
          Syncing!taskVars, Syncing!passVars
  <2>4. SyncTimes'
    <3>1. applies' = applies + 1 /\ applies < MaxApplies /\ UNCHANGED <<now, mtime, syncs>> /\ updatedAt' = 0
      BY <1>4 DEF Syncing!Apply, Syncing!Never
    <3>2. \/ declared' = declared + 1 /\ session' = session
          \/ declared' = declared /\ session' \in {0, applies + 1}
      BY <1>4 DEF Syncing!Apply
    <3>. QED
      BY <3>1, <3>2 DEF SyncTimes
  <2>5. SyncTasks'
    BY <1>4, <2>1, <2>2, <2>3
       DEF Syncing!Apply, Syncing!NoFile, Syncing!Never, SyncTasks, TaskShape, PassShape,
          Syncing!Passes
  <2>6. CaughtTypes'
    BY <1>4, <2>1, <2>2, <2>3, <1>0
       DEF Syncing!Apply, Syncing!NoFile, Syncing!Never, CaughtTypes, SyncTimes
  <2>7. SyncFlags'
    BY <1>4, <2>1, <2>2, <2>3 DEF Syncing!Apply, Syncing!NoFile, Syncing!Never, SyncFlags
  <2>8. SyncQueues'
    BY <1>4, <2>1, <2>2, <2>3
       DEF Syncing!Apply, Syncing!NoFile, Syncing!Never, SyncQueues, SyncTimes,
          Syncing!Version
  <2>9. CacheShape'
    BY <2>1, <2>2, <2>3, <1>0 DEF CacheShape
  <2>10. PassShape'
    BY <2>1, <2>2, <2>3, <1>0 DEF PassShape, CacheShape
  <2>11. CopyShape'
    <3>1. declared' = caught.declared => declared' = declared
      BY <2>1, <2>2, <2>3, <1>0 DEF PassShape
    <3>. QED
      BY <2>1, <2>2, <2>3, <3>1 DEF CopyShape
  <2>12. TaskShape'
    BY <2>1, <2>2, <2>3, <1>0 DEF TaskShape, PassShape
  <2>13. LocalShape'
    BY <2>1, <2>2, <2>3, <1>0 DEF LocalShape, CopyShape, PassShape
  <2>. QED
    BY <2>4, <2>5, <2>6, <2>7, <2>8, <2>9, <2>10, <2>11, <2>12, <2>13
<1>5. CASE Syncing!Request
  <2>1. owed' = TRUE /\ queued' = TRUE
    BY <1>5 DEF Syncing!Request
  <2>2. \/ queued /\ task' = task /\ tries' = tries
        \/ \E t \in Syncing!Tasks : /\ task[t] = "none" /\ task'[t] = "waiting" /\ tries'[t] = 0
                                   /\ \A u \in Syncing!Tasks \ {t} : task'[u] = task[u] /\ tries'[u] = tries[u]
    BY <1>5 DEF Syncing!Request, SyncTasks
  <2>3. UNCHANGED <<now, file, mtime, updatedAt, writing, madeFor, declared, session, local, syncing, pass, caught, copy, stray>>
    BY <1>5
       DEF Syncing!Request, Syncing!cacheVars, Syncing!appVars, Syncing!taskVars,
          Syncing!passVars
  <2>4. SyncTimes'
    BY <1>5, <2>1, <2>2, <2>3 DEF Syncing!Request, SyncTimes
  <2>5. SyncTasks'
    BY <1>5, <2>1, <2>2, <2>3
       DEF Syncing!Request, SyncTasks, TaskShape, PassShape, Syncing!Passes
  <2>6. CaughtTypes'
    BY <1>5, <2>1, <2>2, <2>3, <1>0 DEF Syncing!Request, CaughtTypes, SyncTimes
  <2>7. SyncFlags'
    BY <1>5, <2>1, <2>2, <2>3 DEF Syncing!Request, SyncFlags
  <2>8. SyncQueues'
    BY <1>5, <2>1, <2>2, <2>3 DEF Syncing!Request, SyncQueues, SyncTimes, Syncing!Version
  <2>9. CacheShape'
    BY <2>1, <2>2, <2>3, <1>0 DEF CacheShape
  <2>10. PassShape'
    BY <2>1, <2>2, <2>3, <1>0 DEF PassShape, CacheShape
  <2>11. CopyShape'
    BY <2>1, <2>2, <2>3, <1>0 DEF CopyShape, PassShape, CacheShape
  <2>12. TaskShape'
    BY <2>1, <2>2, <2>3, <1>0 DEF TaskShape, PassShape
  <2>13. LocalShape'
    BY <2>1, <2>2, <2>3, <1>0 DEF LocalShape, CopyShape, PassShape
  <2>. QED
    BY <2>4, <2>5, <2>6, <2>7, <2>8, <2>9, <2>10, <2>11, <2>12, <2>13
<1>6. ASSUME NEW t \in Syncing!Tasks, Syncing!PassBegins(t) PROVE SyncInv'
  <2>1. task[t] # "none" /\ syncing = 0 /\ syncing' = t /\ pass' = "reading" /\ Len(copy') = 0 /\ t # 0
    BY <1>6 DEF Syncing!PassBegins, Syncing!Caught, Syncing!Tasks
  <2>2. caught'.len = 0 /\ caught'.declared = declared /\ caught'.mtime = 0
    BY <1>6 DEF Syncing!PassBegins, Syncing!Caught
  <2>3. /\ queued' = (queued /\ task[t] # "waiting") /\ owed' = (owed /\ task[t] # "waiting")
    BY <1>6 DEF Syncing!PassBegins, Syncing!Caught
  <2>4. \A u \in Syncing!Tasks \ {t} : tries'[u] = tries[u]
    BY <1>6 DEF Syncing!PassBegins, Syncing!Caught, SyncTasks
  <2>5. UNCHANGED <<now, file, mtime, updatedAt, writing, madeFor, declared, session, local, task, stray>>
    BY <1>6
       DEF Syncing!PassBegins, Syncing!Caught, Syncing!cacheVars, Syncing!appVars,
          Syncing!taskVars, Syncing!passVars
  <2>6. SyncTimes'
    BY <1>6, <2>1, <2>2, <2>3, <2>4, <2>5 DEF Syncing!PassBegins, Syncing!Caught, SyncTimes
  <2>7. SyncTasks'
    BY <1>6, <2>1, <2>2, <2>3, <2>4, <2>5
       DEF Syncing!PassBegins, Syncing!Caught, SyncTasks, TaskShape, PassShape,
          Syncing!Passes
  <2>8. CaughtTypes'
    BY <1>6, <2>1, <2>2, <2>3, <2>4, <2>5, <1>0
       DEF Syncing!PassBegins, Syncing!Caught, CaughtTypes, SyncTimes
  <2>9. SyncFlags'
    BY <1>6, <2>1, <2>2, <2>3, <2>4, <2>5 DEF Syncing!PassBegins, Syncing!Caught, SyncFlags
  <2>10. SyncQueues'
    BY <1>6, <2>1, <2>2, <2>3, <2>4, <2>5
       DEF Syncing!PassBegins, Syncing!Caught, SyncQueues, SyncTimes, Syncing!Version
  <2>11. CacheShape'
    BY <2>1, <2>2, <2>3, <2>4, <2>5, <1>0 DEF CacheShape
  <2>12. PassShape'
    BY <2>1, <2>2, <2>3, <2>4, <2>5, <1>0 DEF PassShape, CacheShape
  <2>13. CopyShape'
    BY <2>1, <2>2, <2>3, <2>4, <2>5, <1>0 DEF CopyShape, PassShape, CacheShape
  <2>14. TaskShape'
    BY <2>1, <2>2, <2>3, <2>4, <2>5, <1>0 DEF TaskShape, PassShape
  <2>15. LocalShape'
    BY <2>1, <2>2, <2>3, <2>4, <2>5, <1>0 DEF LocalShape, CopyShape, PassShape
  <2>. QED
    BY <2>6, <2>7, <2>8, <2>9, <2>10, <2>11, <2>12, <2>13, <2>14, <2>15
<1>7. ASSUME NEW t \in Syncing!Tasks, Syncing!NothingToRead(t) PROVE SyncInv'
  <2>1. syncing = 0 /\ task'[t] = "none" /\ (\A u \in Syncing!Tasks \ {t} : task'[u] = task[u])
    BY <1>7 DEF Syncing!NothingToRead, SyncTasks
  <2>2. /\ queued' = (queued /\ task[t] # "waiting") /\ owed' = (owed /\ task[t] # "waiting")
    BY <1>7 DEF Syncing!NothingToRead
  <2>3. UNCHANGED <<now, file, mtime, updatedAt, writing, madeFor, declared, session, local, tries, syncing, pass, caught, copy, stray>>
    BY <1>7
       DEF Syncing!NothingToRead, Syncing!cacheVars, Syncing!appVars, Syncing!taskVars,
          Syncing!passVars
  <2>4. SyncTimes'
    BY <1>7, <2>1, <2>2, <2>3 DEF Syncing!NothingToRead, SyncTimes
  <2>5. SyncTasks'
    BY <1>7, <2>1, <2>2, <2>3
       DEF Syncing!NothingToRead, SyncTasks, TaskShape, PassShape, Syncing!Passes
  <2>6. CaughtTypes'
    BY <1>7, <2>1, <2>2, <2>3, <1>0 DEF Syncing!NothingToRead, CaughtTypes, SyncTimes
  <2>7. SyncFlags'
    BY <1>7, <2>1, <2>2, <2>3 DEF Syncing!NothingToRead, SyncFlags
  <2>8. SyncQueues'
    BY <1>7, <2>1, <2>2, <2>3
       DEF Syncing!NothingToRead, SyncQueues, SyncTimes, Syncing!Version
  <2>9. CacheShape'
    BY <2>1, <2>2, <2>3, <1>0 DEF CacheShape
  <2>10. PassShape'
    BY <2>1, <2>2, <2>3, <1>0 DEF PassShape, CacheShape
  <2>11. CopyShape'
    BY <2>1, <2>2, <2>3, <1>0 DEF CopyShape, PassShape, CacheShape
  <2>12. TaskShape'
    BY <2>1, <2>2, <2>3, <1>0 DEF TaskShape, PassShape
  <2>13. LocalShape'
    BY <2>1, <2>2, <2>3, <1>0 DEF LocalShape, CopyShape, PassShape
  <2>. QED
    BY <2>4, <2>5, <2>6, <2>7, <2>8, <2>9, <2>10, <2>11, <2>12, <2>13
<1>8. CASE Syncing!ReadChunk
  <2>1. pass = "reading" /\ Len(file) # 0 /\ now - mtime >= Settle
    BY <1>8
       DEF Syncing!ReadChunk, Syncing!Go, Syncing!SameIdentity, Syncing!HasSettled,
          Syncing!NoFile, Syncing!Never, SyncQueues
  <2>2. caught.len = 0 \/ (caught.len = Len(file) /\ caught.mtime = mtime)
    BY <1>8
       DEF Syncing!ReadChunk, Syncing!Go, Syncing!SameIdentity, Syncing!HasSettled,
          Syncing!NoFile, Syncing!Never
  <2>3. \/ Len(copy) >= Len(file) /\ pass' = "comparing" /\ copy' = copy
           /\ caught'.len = caught.len /\ caught'.mtime = caught.mtime /\ caught'.declared = caught.declared
        \/ /\ Len(copy) < Len(file) /\ pass' = pass /\ Len(copy') = Len(copy) + 1
           /\ copy'[Len(copy) + 1] = file[Len(copy) + 1] /\ (\A i \in 1..Len(copy) : copy'[i] = copy[i])
           /\ caught'.mtime = mtime /\ caught'.len = Len(file) /\ caught'.declared = caught.declared
    <3>1. CASE Len(copy) >= Len(file)
      BY <1>8, <3>1, <1>0 DEF Syncing!ReadChunk, Syncing!Go
    <3>2. CASE Len(copy) < Len(file)
      <4>1. /\ pass' = pass /\ copy' = Append(copy, file[Len(copy) + 1])
            /\ caught' = [caught EXCEPT !.mtime = mtime, !.len = Len(file)]
        BY <1>8, <3>2, <1>0 DEF Syncing!ReadChunk
      <4>2. caught'.mtime = mtime /\ caught'.len = Len(file) /\ caught'.declared = caught.declared
        BY <4>1 DEF CaughtTypes
      <4>3. file[Len(copy) + 1] \in Syncing!Version /\ copy \in Seq(Syncing!Version)
        BY <3>2, <1>0 DEF SyncQueues
      <4>4. /\ Len(copy') = Len(copy) + 1 /\ copy'[Len(copy) + 1] = file[Len(copy) + 1]
            /\ \A i \in 1..Len(copy) : copy'[i] = copy[i]
        BY <4>1, <4>3
      <4>. QED
        BY <3>2, <4>1, <4>2, <4>4
    <3>. QED
      BY <3>1, <3>2, <1>0
  <2>4. UNCHANGED <<now, file, mtime, updatedAt, writing, madeFor, declared, session, local, queued, task, tries, syncing, owed, stray>>
    BY <1>8
       DEF Syncing!ReadChunk, Syncing!Go, Syncing!SameIdentity, Syncing!HasSettled,
          Syncing!NoFile, Syncing!Never, Syncing!cacheVars, Syncing!appVars,
          Syncing!taskVars, Syncing!passVars
  <2>5. SyncTimes'
    BY <1>8, <2>1, <2>2, <2>3, <2>4
       DEF Syncing!ReadChunk, Syncing!Go, Syncing!SameIdentity, Syncing!HasSettled,
          Syncing!NoFile, Syncing!Never, SyncTimes
  <2>6. SyncTasks'
    BY <1>8, <2>1, <2>2, <2>3, <2>4
       DEF Syncing!ReadChunk, Syncing!Go, Syncing!SameIdentity, Syncing!HasSettled,
          Syncing!NoFile, Syncing!Never, SyncTasks, TaskShape, PassShape, Syncing!Passes
  <2>7. CaughtTypes'
    BY <1>8, <2>1, <2>2, <2>3, <2>4, <1>0
       DEF Syncing!ReadChunk, Syncing!Go, Syncing!SameIdentity, Syncing!HasSettled,
          Syncing!NoFile, Syncing!Never, CaughtTypes, SyncTimes
  <2>8. SyncFlags'
    BY <1>8, <2>1, <2>2, <2>3, <2>4
       DEF Syncing!ReadChunk, Syncing!Go, Syncing!SameIdentity, Syncing!HasSettled,
          Syncing!NoFile, Syncing!Never, SyncFlags
  <2>9. SyncQueues'
    <3>1. copy' \in Seq(Syncing!Version)
      <4>1. CASE copy' = copy
        BY <4>1 DEF SyncQueues
      <4>2. CASE Len(copy) < Len(file) /\ copy' = Append(copy, file[Len(copy) + 1])
        <5>1. file[Len(copy) + 1] \in Syncing!Version
          BY <4>2, <1>0 DEF SyncQueues
        <5>. QED
          BY <4>2, <5>1 DEF SyncQueues
      <4>3. copy' = copy \/ (Len(copy) < Len(file) /\ copy' = Append(copy, file[Len(copy) + 1]))
        BY <1>8, <1>0, SMTT(30) DEF Syncing!ReadChunk
      <4>. QED
        BY <4>1, <4>2, <4>3
    <3>. QED
      BY <2>1, <2>2, <2>3, <2>4, <3>1 DEF SyncQueues
  <2>10. CacheShape'
    BY <2>1, <2>2, <2>3, <2>4, <1>0 DEF CacheShape
  <2>11. PassShape'
    <3>1. CASE Len(copy) >= Len(file) /\ copy' = copy /\ pass' = "comparing" /\ caught'.len = caught.len
               /\ caught'.mtime = caught.mtime /\ caught'.declared = caught.declared
      <4>1. caught.len = Len(file) /\ Len(copy) = caught.len
        BY <2>1, <2>2, <2>3, <2>4, <3>1, <1>0 DEF PassShape
      <4>. QED
        BY <2>1, <2>2, <2>3, <2>4, <3>1, <4>1, <1>0 DEF PassShape
    <3>2. CASE /\ Len(copy) < Len(file) /\ pass' = pass /\ Len(copy') = Len(copy) + 1 /\ caught'.mtime = mtime
               /\ caught'.len = Len(file) /\ caught'.declared = caught.declared
      <4>1. /\ pass' = "reading" /\ Len(copy') <= Len(file) /\ caught'.mtime = mtime /\ caught'.declared = caught.declared
            /\ Len(file) \in 1..2
        <5>1. Len(file) \in 1..2
          BY <2>1, <1>0 DEF CacheShape
        <5>. QED
          BY <2>1, <3>2, <5>1, <1>0
      <4>. QED
        BY <2>1, <2>2, <2>3, <2>4, <3>2, <4>1, <1>0 DEF PassShape
    <3>. QED
      BY <2>3, <3>1, <3>2
  <2>12. CopyShape'
    <3>1. CASE copy' = copy /\ caught'.len = caught.len /\ caught'.mtime = caught.mtime
               /\ caught'.declared = caught.declared
      BY <2>1, <2>2, <2>3, <2>4, <3>1, <1>0 DEF CopyShape
    <3>2. CASE Len(copy') = Len(copy) + 1
      <4>1. file[Len(copy) + 1] = file[1] /\ file[1] = Len(madeFor) /\ Len(madeFor) # 0 /\ madeFor[Len(madeFor)] = declared
        <5>1. Len(copy) < Len(file) /\ (Len(file) = 1 \/ Len(file) = 2)
          BY <2>1, <2>2, <2>3, <2>4, <3>2, <1>0 DEF CacheShape
        <5>. DEFINE c == Len(copy)  f == Len(file)
        <5>2. c < f /\ (f = 1 \/ f = 2) /\ c \in Nat
          BY <5>1, <1>0
        <5>3. (f = 1 => file[1] = Len(madeFor)) /\ (f = 2 => file[1] = Len(madeFor) /\ file[2] = file[1])
          BY DEF CacheShape
        <5>4. f # 0 => file[1] = Len(madeFor) /\ Len(madeFor) # 0 /\ madeFor[Len(madeFor)] = declared
          BY DEF CacheShape
        <5>. HIDE DEF c, f
        <5>5. file[c + 1] = file[1]
          <6>1. c = 0 \/ (c = 1 /\ f = 2)
            BY <5>2
          <6>. QED
            BY <5>3, <6>1
        <5>6. f # 0
          BY <5>2
        <5>. QED
          BY <5>4, <5>5, <5>6 DEF c
      <4>2. \A i \in 1..Len(copy) : copy[i] = file[1]
        BY <2>1, <2>2, <2>3, <2>4, <1>0, SMTT(30) DEF CopyShape, PassShape
      <4>3. \A i \in 1..Len(copy') : copy'[i] = file[1]
        <5>. SUFFICES ASSUME NEW i \in 1..Len(copy') PROVE copy'[i] = file[1]
          OBVIOUS
        <5>1. CASE i = Len(copy) + 1
          BY <2>3, <3>2, <4>1, <5>1, <1>0, SMTT(30)
        <5>2. CASE i # Len(copy) + 1
          <6>1. i \in 1..Len(copy)
            BY <3>2, <5>2, <1>0
          <6>. QED
            BY <2>3, <3>2, <4>2, <6>1, <1>0
        <5>. QED
          BY <5>1, <5>2
      <4>4. caught'.mtime = mtime /\ caught'.declared = caught.declared /\ 1 \in 1..Len(copy')
        BY <2>3, <3>2, <1>0
      <4>0. Len(madeFor) \in 1..Len(madeFor)
        BY <4>1, <1>0
      <4>5. \A i \in 1..Len(copy') : copy'[i] \in 1..Len(madeFor') /\ madeFor'[copy'[i]] = declared'
        <5>. SUFFICES ASSUME NEW i \in 1..Len(copy')
             PROVE copy'[i] \in 1..Len(madeFor') /\ madeFor'[copy'[i]] = declared'
          OBVIOUS
        <5>1. copy'[i] = Len(madeFor)
          BY <4>1, <4>3
        <5>2. madeFor' = madeFor /\ declared' = declared
          BY <2>4
        <5>. QED
          BY <4>0, <4>1, <5>1, <5>2
      <4>6. \A i \in 1..Len(copy') : copy'[i] = copy'[1] /\ copy'[i] = file'[1]
        BY <2>4, <4>3, <4>4
      <4>. QED
        BY <4>5, <4>6 DEF CopyShape
    <3>. QED
      BY <2>3, <3>1, <3>2
  <2>13. TaskShape'
    BY <2>1, <2>2, <2>3, <2>4, <1>0 DEF TaskShape, PassShape
  <2>14. LocalShape'
    BY <2>1, <2>2, <2>3, <2>4, <1>0 DEF LocalShape, CopyShape, PassShape
  <2>. QED
    BY <2>5, <2>6, <2>7, <2>8, <2>9, <2>10, <2>11, <2>12, <2>13, <2>14
<1>9. CASE Syncing!ReadNotReady
  <2>1. syncing \in Syncing!Tasks
    BY <1>9
       DEF Syncing!ReadNotReady, Syncing!PassEnds, Syncing!NotCaught, SyncTasks, PassShape
  <2>2. pass' = "none"
    BY <1>9 DEF Syncing!ReadNotReady, Syncing!PassEnds, Syncing!NotCaught
  <2>3. pass' = "none" => syncing' = 0 /\ caught'.len = 0 /\ caught'.declared = 0 /\ Len(copy') = 0 /\ caught'.mtime = 0
    BY <1>9 DEF Syncing!ReadNotReady, Syncing!PassEnds, Syncing!NotCaught
  <2>4. pass' = "none" =>
        /\ task'[syncing] \in {"none", "retrying"} /\ (task'[syncing] = "retrying" => tries[syncing] < Attempts)
        /\ \A t \in Syncing!Tasks \ {syncing} : task'[t] = task[t]
    BY <1>9, <2>1 DEF Syncing!ReadNotReady, Syncing!PassEnds, Syncing!NotCaught, SyncTasks
  <2>5. UNCHANGED <<now, file, mtime, updatedAt, writing, madeFor, declared, session, local, queued, tries, owed, stray>>
    BY <1>9
       DEF Syncing!ReadNotReady, Syncing!PassEnds, Syncing!NotCaught, Syncing!cacheVars,
          Syncing!appVars, Syncing!taskVars, Syncing!passVars
  <2>6. SyncTimes'
    BY <1>9, <2>1, <2>2, <2>3, <2>4, <2>5
       DEF Syncing!ReadNotReady, Syncing!PassEnds, Syncing!NotCaught, SyncTimes
  <2>7. SyncTasks'
    BY <1>9, <2>1, <2>2, <2>3, <2>4, <2>5
       DEF Syncing!ReadNotReady, Syncing!PassEnds, Syncing!NotCaught, SyncTasks, TaskShape,
          PassShape, Syncing!Passes
  <2>8. CaughtTypes'
    BY <1>9, <2>1, <2>2, <2>3, <2>4, <2>5, <1>0
       DEF Syncing!ReadNotReady, Syncing!PassEnds, Syncing!NotCaught, CaughtTypes, SyncTimes
  <2>9. SyncFlags'
    BY <1>9, <2>1, <2>2, <2>3, <2>4, <2>5
       DEF Syncing!ReadNotReady, Syncing!PassEnds, Syncing!NotCaught, SyncFlags
  <2>10. SyncQueues'
    BY <1>9, <2>1, <2>2, <2>3, <2>4, <2>5
       DEF Syncing!ReadNotReady, Syncing!PassEnds, Syncing!NotCaught, SyncQueues, SyncTimes,
          Syncing!Version
  <2>11. CacheShape'
    BY <2>1, <2>2, <2>3, <2>4, <2>5, <1>0 DEF CacheShape
  <2>12. PassShape'
    <3>1. CASE pass' = "none"
      <4>1. /\ syncing' = 0 /\ caught'.len = 0 /\ caught'.declared = 0 /\ caught'.mtime = 0 /\ Len(copy') = 0
            /\ declared' \in Nat
        BY <2>1, <2>2, <2>3, <2>4, <2>5, <3>1, <1>0
      <4>. QED
        BY <3>1, <4>1 DEF PassShape
    <3>2. CASE pass' # "none"
      BY <2>1, <2>2, <2>3, <2>4, <2>5, <3>2, <1>0 DEF PassShape, CacheShape
    <3>. QED
      BY <3>1, <3>2
  <2>13. CopyShape'
    <3>1. CASE pass' = "none"
      <4>1. /\ syncing' = 0 /\ caught'.len = 0 /\ caught'.declared = 0 /\ caught'.mtime = 0 /\ Len(copy') = 0
            /\ declared' \in Nat
        BY <2>1, <2>2, <2>3, <2>4, <2>5, <3>1, <1>0
      <4>. QED
        BY <3>1, <4>1 DEF CopyShape
    <3>2. CASE pass' # "none"
      BY <2>1, <2>2, <2>3, <2>4, <2>5, <3>2, <1>0 DEF CopyShape
    <3>. QED
      BY <3>1, <3>2
  <2>14. TaskShape'
    BY <2>1, <2>2, <2>3, <2>4, <2>5, <1>0 DEF TaskShape, PassShape
  <2>15. LocalShape'
    BY <2>1, <2>2, <2>3, <2>4, <2>5, <1>0 DEF LocalShape, CopyShape, PassShape
  <2>. QED
    BY <2>6, <2>7, <2>8, <2>9, <2>10, <2>11, <2>12, <2>13, <2>14, <2>15
<1>10. CASE Syncing!SessionLost
  <2>1. syncing \in Syncing!Tasks
    BY <1>10
       DEF Syncing!SessionLost, Syncing!PassEnds, Syncing!NotCaught, SyncTasks, PassShape
  <2>2. pass' = "none"
    BY <1>10 DEF Syncing!SessionLost, Syncing!PassEnds, Syncing!NotCaught
  <2>3. pass' = "none" => syncing' = 0 /\ caught'.len = 0 /\ caught'.declared = 0 /\ Len(copy') = 0 /\ caught'.mtime = 0
    BY <1>10 DEF Syncing!SessionLost, Syncing!PassEnds, Syncing!NotCaught
  <2>4. pass' = "none" =>
        /\ task'[syncing] \in {"none", "retrying"} /\ (task'[syncing] = "retrying" => tries[syncing] < Attempts)
        /\ \A t \in Syncing!Tasks \ {syncing} : task'[t] = task[t]
    BY <1>10, <2>1 DEF Syncing!SessionLost, Syncing!PassEnds, Syncing!NotCaught, SyncTasks
  <2>5. UNCHANGED <<now, file, mtime, updatedAt, writing, madeFor, declared, session, local, queued, tries, owed, stray>>
    BY <1>10
       DEF Syncing!SessionLost, Syncing!PassEnds, Syncing!NotCaught, Syncing!cacheVars,
          Syncing!appVars, Syncing!taskVars, Syncing!passVars
  <2>6. SyncTimes'
    BY <1>10, <2>1, <2>2, <2>3, <2>4, <2>5
       DEF Syncing!SessionLost, Syncing!PassEnds, Syncing!NotCaught, SyncTimes
  <2>7. SyncTasks'
    BY <1>10, <2>1, <2>2, <2>3, <2>4, <2>5
       DEF Syncing!SessionLost, Syncing!PassEnds, Syncing!NotCaught, SyncTasks, TaskShape,
          PassShape, Syncing!Passes
  <2>8. CaughtTypes'
    BY <1>10, <2>1, <2>2, <2>3, <2>4, <2>5, <1>0
       DEF Syncing!SessionLost, Syncing!PassEnds, Syncing!NotCaught, CaughtTypes, SyncTimes
  <2>9. SyncFlags'
    BY <1>10, <2>1, <2>2, <2>3, <2>4, <2>5
       DEF Syncing!SessionLost, Syncing!PassEnds, Syncing!NotCaught, SyncFlags
  <2>10. SyncQueues'
    BY <1>10, <2>1, <2>2, <2>3, <2>4, <2>5
       DEF Syncing!SessionLost, Syncing!PassEnds, Syncing!NotCaught, SyncQueues, SyncTimes,
          Syncing!Version
  <2>11. CacheShape'
    BY <2>1, <2>2, <2>3, <2>4, <2>5, <1>0 DEF CacheShape
  <2>12. PassShape'
    <3>1. CASE pass' = "none"
      <4>1. /\ syncing' = 0 /\ caught'.len = 0 /\ caught'.declared = 0 /\ caught'.mtime = 0 /\ Len(copy') = 0
            /\ declared' \in Nat
        BY <2>1, <2>2, <2>3, <2>4, <2>5, <3>1, <1>0
      <4>. QED
        BY <3>1, <4>1 DEF PassShape
    <3>2. CASE pass' # "none"
      BY <2>1, <2>2, <2>3, <2>4, <2>5, <3>2, <1>0 DEF PassShape, CacheShape
    <3>. QED
      BY <3>1, <3>2
  <2>13. CopyShape'
    <3>1. CASE pass' = "none"
      <4>1. /\ syncing' = 0 /\ caught'.len = 0 /\ caught'.declared = 0 /\ caught'.mtime = 0 /\ Len(copy') = 0
            /\ declared' \in Nat
        BY <2>1, <2>2, <2>3, <2>4, <2>5, <3>1, <1>0
      <4>. QED
        BY <3>1, <4>1 DEF CopyShape
    <3>2. CASE pass' # "none"
      BY <2>1, <2>2, <2>3, <2>4, <2>5, <3>2, <1>0 DEF CopyShape
    <3>. QED
      BY <3>1, <3>2
  <2>14. TaskShape'
    BY <2>1, <2>2, <2>3, <2>4, <2>5, <1>0 DEF TaskShape, PassShape
  <2>15. LocalShape'
    BY <2>1, <2>2, <2>3, <2>4, <2>5, <1>0 DEF LocalShape, CopyShape, PassShape
  <2>. QED
    BY <2>6, <2>7, <2>8, <2>9, <2>10, <2>11, <2>12, <2>13, <2>14, <2>15
<1>11. CASE Syncing!CompareLoadTimes
  <2>1. syncing \in Syncing!Tasks
    BY <1>11
       DEF Syncing!CompareLoadTimes, Syncing!Go, Syncing!Loaded, Syncing!NoFile,
          Syncing!Never, Syncing!PassEnds, Syncing!NotCaught, SyncTasks, PassShape
  <2>2. pass = "comparing" /\ (pass' = "none" \/ (pass' = "verifying" /\ caught'.len = caught.len /\ caught'.mtime = caught.mtime /\ caught'.declared = caught.declared
            /\ copy' = copy /\ syncing' = syncing /\ task' = task))
    BY <1>11
       DEF Syncing!CompareLoadTimes, Syncing!Go, Syncing!Loaded, Syncing!NoFile,
          Syncing!Never, Syncing!PassEnds, Syncing!NotCaught
  <2>3. pass' # "none" => updatedAt = 0 \/ mtime <= updatedAt + Settle
    BY <1>11
       DEF Syncing!CompareLoadTimes, Syncing!Go, Syncing!Loaded, Syncing!NoFile,
          Syncing!Never, Syncing!PassEnds, Syncing!NotCaught
  <2>4. pass' = "none" => syncing' = 0 /\ caught'.len = 0 /\ caught'.declared = 0 /\ Len(copy') = 0 /\ caught'.mtime = 0
    BY <1>11
       DEF Syncing!CompareLoadTimes, Syncing!Go, Syncing!Loaded, Syncing!NoFile,
          Syncing!Never, Syncing!PassEnds, Syncing!NotCaught
  <2>5. pass' = "none" =>
        /\ task'[syncing] \in {"none", "retrying"} /\ (task'[syncing] = "retrying" => tries[syncing] < Attempts)
        /\ \A t \in Syncing!Tasks \ {syncing} : task'[t] = task[t]
    BY <1>11, <2>1
       DEF Syncing!CompareLoadTimes, Syncing!Go, Syncing!Loaded, Syncing!NoFile,
          Syncing!Never, Syncing!PassEnds, Syncing!NotCaught, SyncTasks
  <2>6. UNCHANGED <<now, file, mtime, updatedAt, writing, madeFor, declared, session, local, queued, tries, owed, stray>>
    BY <1>11
       DEF Syncing!CompareLoadTimes, Syncing!Go, Syncing!Loaded, Syncing!NoFile,
          Syncing!Never, Syncing!PassEnds, Syncing!NotCaught, Syncing!cacheVars,
          Syncing!appVars, Syncing!taskVars, Syncing!passVars
  <2>7. SyncTimes'
    BY <1>11, <2>1, <2>2, <2>3, <2>4, <2>5, <2>6
       DEF Syncing!CompareLoadTimes, Syncing!Go, Syncing!Loaded, Syncing!NoFile,
          Syncing!Never, Syncing!PassEnds, Syncing!NotCaught, SyncTimes
  <2>8. SyncTasks'
    BY <1>11, <2>1, <2>2, <2>3, <2>4, <2>5, <2>6
       DEF Syncing!CompareLoadTimes, Syncing!Go, Syncing!Loaded, Syncing!NoFile,
          Syncing!Never, Syncing!PassEnds, Syncing!NotCaught, SyncTasks, TaskShape,
          PassShape, Syncing!Passes
  <2>9. CaughtTypes'
    <3>1. caught' = caught \/ caught' = Syncing!NotCaught
      BY <1>11 DEF Syncing!CompareLoadTimes, Syncing!PassEnds
    <3>. QED
      BY <3>1 DEF CaughtTypes, Syncing!NotCaught
  <2>10. SyncFlags'
    BY <1>11, <2>1, <2>2, <2>3, <2>4, <2>5, <2>6
       DEF Syncing!CompareLoadTimes, Syncing!Go, Syncing!Loaded, Syncing!NoFile,
          Syncing!Never, Syncing!PassEnds, Syncing!NotCaught, SyncFlags
  <2>11. SyncQueues'
    <3>1. copy' = copy \/ copy' = <<>>
      BY <1>11 DEF Syncing!CompareLoadTimes, Syncing!PassEnds
    <3>2. UNCHANGED <<file, local, madeFor>>
      BY <1>11 DEF Syncing!CompareLoadTimes, Syncing!PassEnds
    <3>3. copy \in Seq(Syncing!Version) /\ <<>> \in Seq(Syncing!Version)
      BY DEF SyncQueues
    <3>4. copy' \in Seq(Syncing!Version)
      BY <3>1, <3>3
    <3>. QED
      BY <3>2, <3>4 DEF SyncQueues
  <2>12. CacheShape'
    BY <2>1, <2>2, <2>3, <2>4, <2>5, <2>6, <1>0 DEF CacheShape
  <2>13. PassShape'
    <3>1. CASE pass' = "none"
      <4>1. /\ syncing' = 0 /\ caught'.len = 0 /\ caught'.declared = 0 /\ caught'.mtime = 0 /\ Len(copy') = 0
            /\ declared' \in Nat
        BY <2>1, <2>2, <2>3, <2>4, <2>5, <2>6, <3>1, <1>0
      <4>. QED
        BY <3>1, <4>1 DEF PassShape
    <3>2. CASE pass' # "none"
      <4>1. /\ pass' = "verifying" /\ caught'.len = caught.len /\ caught'.mtime = caught.mtime
            /\ caught'.declared = caught.declared /\ copy' = copy /\ syncing' = syncing /\ task' = task
        BY <2>2, <3>2
      <4>2. Len(copy) = caught.len /\ caught.len # 0 /\ caught.len \in 0..2 /\ caught.mtime + Settle <= now
        BY <2>2 DEF PassShape
      <4>3. mtime = caught.mtime /\ Len(file) = caught.len => caught.len = 2
        <5>. SUFFICES ASSUME mtime = caught.mtime, Len(file) = caught.len, caught.len = 1 PROVE FALSE
          BY <4>2
        <5>1. writing
          BY <1>0 DEF CacheShape
        <5>2. CASE updatedAt = 0
          BY <4>2, <5>1, <5>2, <1>0 DEF CacheShape
        <5>3. CASE updatedAt # 0
          BY <2>3, <3>2, <5>1, <5>3, <1>0 DEF CacheShape
        <5>. QED
          BY <5>2, <5>3
      <4>4. syncing # 0 /\ task[syncing] # "none" /\ pass # "none"
        BY <2>1, <2>2, <1>0 DEF PassShape
      <4>5. caught.declared <= declared /\ caught.mtime <= mtime /\ (mtime = caught.mtime /\ Len(file) # 0 => Len(file) = caught.len)
        BY <4>2 DEF PassShape
      <4>6. UNCHANGED <<declared, file, mtime, now>>
        BY <2>6
      <4>. QED
        BY <4>1, <4>2, <4>3, <4>4, <4>5, <4>6, <1>0 DEF PassShape
    <3>. QED
      BY <3>1, <3>2
  <2>14. CopyShape'
    <3>1. CASE pass' = "none"
      <4>1. /\ syncing' = 0 /\ caught'.len = 0 /\ caught'.declared = 0 /\ caught'.mtime = 0 /\ Len(copy') = 0
            /\ declared' \in Nat
        BY <2>1, <2>2, <2>3, <2>4, <2>5, <2>6, <3>1, <1>0
      <4>. QED
        BY <3>1, <4>1 DEF CopyShape
    <3>2. CASE pass' # "none"
      BY <2>1, <2>2, <2>3, <2>4, <2>5, <2>6, <3>2, <1>0 DEF CopyShape
    <3>. QED
      BY <3>1, <3>2
  <2>15. TaskShape'
    BY <2>1, <2>2, <2>3, <2>4, <2>5, <2>6, <1>0 DEF TaskShape, PassShape
  <2>16. LocalShape'
    BY <2>1, <2>2, <2>3, <2>4, <2>5, <2>6, <1>0 DEF LocalShape, CopyShape, PassShape
  <2>. QED
    BY <2>7, <2>8, <2>9, <2>10, <2>11, <2>12, <2>13, <2>14, <2>15, <2>16
<1>12. CASE Syncing!Recheck
  <2>1. syncing \in Syncing!Tasks
    BY <1>12
       DEF Syncing!Recheck, Syncing!Go, Syncing!PassEnds, Syncing!NotCaught, SyncTasks,
          PassShape
  <2>2. /\ pass = "verifying"
        /\ \/ pass' = "none"
           \/ /\ pass' = "publishing" /\ caught'.len = caught.len /\ caught'.mtime = caught.mtime /\ caught'.declared = caught.declared
              /\ copy' = copy /\ syncing' = syncing /\ task' = task
              /\ mtime = caught.mtime /\ Len(file) = caught.len
    BY <1>12 DEF Syncing!Recheck, Syncing!Go, Syncing!PassEnds, Syncing!NotCaught
  <2>3. pass' = "none" => syncing' = 0 /\ caught'.len = 0 /\ caught'.declared = 0 /\ Len(copy') = 0 /\ caught'.mtime = 0
    BY <1>12 DEF Syncing!Recheck, Syncing!Go, Syncing!PassEnds, Syncing!NotCaught
  <2>4. pass' = "none" =>
        /\ task'[syncing] \in {"none", "retrying"} /\ (task'[syncing] = "retrying" => tries[syncing] < Attempts)
        /\ \A t \in Syncing!Tasks \ {syncing} : task'[t] = task[t]
    BY <1>12, <2>1
       DEF Syncing!Recheck, Syncing!Go, Syncing!PassEnds, Syncing!NotCaught, SyncTasks
  <2>5. UNCHANGED <<now, file, mtime, updatedAt, writing, madeFor, declared, session, local, queued, tries, owed, stray>>
    BY <1>12
       DEF Syncing!Recheck, Syncing!Go, Syncing!PassEnds, Syncing!NotCaught,
          Syncing!cacheVars, Syncing!appVars, Syncing!taskVars, Syncing!passVars
  <2>6. SyncTimes'
    BY <1>12, <2>1, <2>2, <2>3, <2>4, <2>5
       DEF Syncing!Recheck, Syncing!Go, Syncing!PassEnds, Syncing!NotCaught, SyncTimes
  <2>7. SyncTasks'
    BY <1>12, <2>1, <2>2, <2>3, <2>4, <2>5
       DEF Syncing!Recheck, Syncing!Go, Syncing!PassEnds, Syncing!NotCaught, SyncTasks,
          TaskShape, PassShape, Syncing!Passes
  <2>8. CaughtTypes'
    <3>1. caught' = caught \/ caught' = Syncing!NotCaught
      BY <1>12 DEF Syncing!Recheck, Syncing!PassEnds
    <3>. QED
      BY <3>1 DEF CaughtTypes, Syncing!NotCaught
  <2>9. SyncFlags'
    BY <1>12, <2>1, <2>2, <2>3, <2>4, <2>5
       DEF Syncing!Recheck, Syncing!Go, Syncing!PassEnds, Syncing!NotCaught, SyncFlags
  <2>10. SyncQueues'
    <3>1. copy' = copy \/ copy' = <<>>
      BY <1>12 DEF Syncing!Recheck, Syncing!PassEnds
    <3>2. UNCHANGED <<file, local, madeFor>>
      BY <1>12 DEF Syncing!Recheck, Syncing!PassEnds
    <3>3. copy \in Seq(Syncing!Version) /\ <<>> \in Seq(Syncing!Version)
      BY DEF SyncQueues
    <3>4. copy' \in Seq(Syncing!Version)
      BY <3>1, <3>3
    <3>. QED
      BY <3>2, <3>4 DEF SyncQueues
  <2>11. CacheShape'
    BY <2>1, <2>2, <2>3, <2>4, <2>5, <1>0 DEF CacheShape
  <2>12. PassShape'
    <3>1. CASE pass' = "none"
      <4>1. /\ syncing' = 0 /\ caught'.len = 0 /\ caught'.declared = 0 /\ caught'.mtime = 0 /\ Len(copy') = 0
            /\ declared' \in Nat
        BY <2>1, <2>2, <2>3, <2>4, <2>5, <3>1, <1>0
      <4>. QED
        BY <3>1, <4>1 DEF PassShape
    <3>2. CASE pass' # "none"
      BY <2>1, <2>2, <2>3, <2>4, <2>5, <3>2, <1>0 DEF PassShape, CacheShape
    <3>. QED
      BY <3>1, <3>2
  <2>13. CopyShape'
    <3>1. CASE pass' = "none"
      <4>1. /\ syncing' = 0 /\ caught'.len = 0 /\ caught'.declared = 0 /\ caught'.mtime = 0 /\ Len(copy') = 0
            /\ declared' \in Nat
        BY <2>1, <2>2, <2>3, <2>4, <2>5, <3>1, <1>0
      <4>. QED
        BY <3>1, <4>1 DEF CopyShape
    <3>2. CASE pass' # "none"
      BY <2>1, <2>2, <2>3, <2>4, <2>5, <3>2, <1>0 DEF CopyShape
    <3>. QED
      BY <3>1, <3>2
  <2>14. TaskShape'
    BY <2>1, <2>2, <2>3, <2>4, <2>5, <1>0 DEF TaskShape, PassShape
  <2>15. LocalShape'
    BY <2>1, <2>2, <2>3, <2>4, <2>5, <1>0 DEF LocalShape, CopyShape, PassShape
  <2>. QED
    BY <2>6, <2>7, <2>8, <2>9, <2>10, <2>11, <2>12, <2>13, <2>14, <2>15
<1>13. CASE Syncing!Publish
  <2>1. syncing \in Syncing!Tasks
    BY <1>13 DEF Syncing!Publish, Syncing!PassEnds, Syncing!NotCaught, SyncTasks, PassShape
  <2>2. pass = "publishing" /\ pass' = "none"
    BY <1>13 DEF Syncing!Publish, Syncing!PassEnds, Syncing!NotCaught
  <2>3. pass' = "none" => syncing' = 0 /\ caught'.len = 0 /\ caught'.declared = 0 /\ Len(copy') = 0 /\ caught'.mtime = 0
    BY <1>13 DEF Syncing!Publish, Syncing!PassEnds, Syncing!NotCaught
  <2>4. pass' = "none" =>
        /\ task'[syncing] \in {"none", "retrying"} /\ (task'[syncing] = "retrying" => tries[syncing] < Attempts)
        /\ \A t \in Syncing!Tasks \ {syncing} : task'[t] = task[t]
    BY <1>13, <2>1 DEF Syncing!Publish, Syncing!PassEnds, Syncing!NotCaught, SyncTasks
  <2>5. \/ local' = local /\ stray' = stray
        \/ /\ declared = caught.declared /\ local' = copy
           /\ stray' = (stray \/ \E i \in DOMAIN copy : madeFor[copy[i]] # declared)
    BY <1>13 DEF Syncing!Publish, Syncing!PassEnds, Syncing!NotCaught, Syncing!StillDeclared
  <2>6. DOMAIN copy = 1..Len(copy)
    BY DEF SyncQueues
  <2>7. UNCHANGED <<now, file, mtime, updatedAt, writing, madeFor, declared, session, queued, tries, owed>>
    BY <1>13
       DEF Syncing!Publish, Syncing!PassEnds, Syncing!NotCaught, Syncing!cacheVars,
          Syncing!appVars, Syncing!taskVars, Syncing!passVars
  <2>8. SyncTimes'
    BY <1>13, <2>1, <2>2, <2>3, <2>4, <2>5, <2>6, <2>7
       DEF Syncing!Publish, Syncing!PassEnds, Syncing!NotCaught, SyncTimes
  <2>9. SyncTasks'
    BY <1>13, <2>1, <2>2, <2>3, <2>4, <2>5, <2>6, <2>7
       DEF Syncing!Publish, Syncing!PassEnds, Syncing!NotCaught, SyncTasks, TaskShape,
          PassShape, Syncing!Passes
  <2>10. CaughtTypes'
    BY <1>13, <2>1, <2>2, <2>3, <2>4, <2>5, <2>6, <2>7, <1>0, SMTT(30)
       DEF Syncing!Publish, Syncing!PassEnds, Syncing!NotCaught, CaughtTypes, SyncTimes
  <2>11. SyncFlags'
    BY <1>13, <2>1, <2>2, <2>3, <2>4, <2>5, <2>6, <2>7
       DEF Syncing!Publish, Syncing!PassEnds, Syncing!NotCaught, SyncFlags
  <2>12. SyncQueues'
    BY <1>13, <2>1, <2>2, <2>3, <2>4, <2>5, <2>6, <2>7
       DEF Syncing!Publish, Syncing!PassEnds, Syncing!NotCaught, SyncQueues, SyncTimes,
          Syncing!Version
  <2>13. CacheShape'
    BY <2>1, <2>2, <2>3, <2>4, <2>5, <2>6, <2>7, <1>0 DEF CacheShape
  <2>14. PassShape'
    <3>1. CASE pass' = "none"
      <4>1. /\ syncing' = 0 /\ caught'.len = 0 /\ caught'.declared = 0 /\ caught'.mtime = 0 /\ Len(copy') = 0
            /\ declared' \in Nat
        BY <2>1, <2>2, <2>3, <2>4, <2>5, <2>6, <2>7, <3>1, <1>0
      <4>. QED
        BY <3>1, <4>1 DEF PassShape
    <3>2. CASE pass' # "none"
      BY <2>1, <2>2, <2>3, <2>4, <2>5, <2>6, <2>7, <3>2, <1>0 DEF PassShape, CacheShape
    <3>. QED
      BY <3>1, <3>2
  <2>15. CopyShape'
    <3>1. CASE pass' = "none"
      <4>1. /\ syncing' = 0 /\ caught'.len = 0 /\ caught'.declared = 0 /\ caught'.mtime = 0 /\ Len(copy') = 0
            /\ declared' \in Nat
        BY <2>1, <2>2, <2>3, <2>4, <2>5, <2>6, <2>7, <3>1, <1>0
      <4>. QED
        BY <3>1, <4>1 DEF CopyShape
    <3>2. CASE pass' # "none"
      BY <2>1, <2>2, <2>3, <2>4, <2>5, <2>6, <2>7, <3>2, <1>0 DEF CopyShape
    <3>. QED
      BY <3>1, <3>2
  <2>16. TaskShape'
    BY <2>1, <2>2, <2>3, <2>4, <2>5, <2>6, <2>7, <1>0 DEF TaskShape, PassShape
  <2>17. LocalShape'
    <3>1. CASE local' = local /\ stray' = stray
      BY <3>1 DEF LocalShape
    <3>2. CASE /\ declared = caught.declared /\ local' = copy
               /\ stray' = (stray \/ \E i \in DOMAIN copy : madeFor[copy[i]] # declared)
      <4>0. Len(copy) = 2 /\ caught.len = 2
        BY <2>2, <1>0 DEF PassShape
      <4>1. Len(copy) = 2 /\ 1 \in 1..Len(copy) /\ 2 \in 1..Len(copy) /\ copy[2] = copy[1]
        BY <4>0 DEF CopyShape
      <4>2. ~\E i \in DOMAIN copy : madeFor[copy[i]] # declared
        BY <2>6, <3>2 DEF CopyShape
      <4>3. stray' = FALSE
        BY <3>2, <4>2 DEF LocalShape
      <4>. QED
        BY <3>2, <4>1, <4>3 DEF LocalShape
    <3>. QED
      BY <2>5, <3>1, <3>2
  <2>. QED
    BY <2>8, <2>9, <2>10, <2>11, <2>12, <2>13, <2>14, <2>15, <2>16, <2>17
<1>14. CASE UNCHANGED Syncing!syncVars
  <2>1. SyncTimes'
    BY <1>14 DEF SyncTimes
  <2>2. SyncTasks'
    BY <1>14 DEF SyncTasks, TaskShape, PassShape, Syncing!Passes
  <2>3. CaughtTypes'
    BY <1>14, <1>0 DEF CaughtTypes, SyncTimes
  <2>4. SyncFlags'
    BY <1>14 DEF SyncFlags
  <2>5. SyncQueues'
    BY <1>14 DEF SyncQueues, SyncTimes, Syncing!Version
  <2>6. CacheShape'
    BY <1>14, <1>0 DEF CacheShape
  <2>7. PassShape'
    BY <1>14, <1>0 DEF PassShape, CacheShape
  <2>8. CopyShape'
    BY <1>14, <1>0 DEF CopyShape, PassShape, CacheShape
  <2>9. TaskShape'
    BY <1>14, <1>0 DEF TaskShape, PassShape
  <2>10. LocalShape'
    BY <1>14, <1>0 DEF LocalShape, CopyShape, PassShape
  <2>. QED
    BY <2>1, <2>2, <2>3, <2>4, <2>5, <2>6, <2>7, <2>8, <2>9, <2>10
<1>. QED
  BY <1>1, <1>2, <1>3, <1>4, <1>5, <1>6, <1>7, <1>8, <1>9, <1>10, <1>11, <1>12, <1>13, <1>14
     DEF Syncing!NextSync

(* What the invariant shows. *)
LEMMA SyncingShows ==
  SyncInv => Syncing!TypeOK /\ Syncing!PublishedCachesAreWhole /\ Syncing!NoSyncIsLost
<1>. SUFFICES ASSUME SyncInv
     PROVE Syncing!TypeOK /\ Syncing!PublishedCachesAreWhole /\ Syncing!NoSyncIsLost
  OBVIOUS
<1>. USE SyncingAssumption DEF SyncInv
<1>1. Syncing!TypeOK
  <2>1. Len(copy) <= 2
    <3>1. Len(copy) \in Nat
      BY DEF SyncQueues
    <3>. QED
      BY <3>1 DEF PassShape
  <2>2. writing \in BOOLEAN /\ queued \in BOOLEAN /\ owed \in BOOLEAN /\ stray \in BOOLEAN
    BY DEF SyncFlags
  <2>3. now \in 0..MaxTicks
    BY DEF SyncTimes
  <2>4. file \in Seq(Syncing!Version) /\ local \in Seq(Syncing!Version)
    BY DEF SyncQueues
  <2>. QED
    BY <2>1, <2>2, <2>3, <2>4 DEF SyncTimes, SyncTasks, Syncing!TypeOK, Syncing!Chunks
<1>2. Syncing!PublishedCachesAreWhole
  <2>1. DOMAIN local = 1..Len(local) /\ Len(local) \in Nat /\ (local # <<>> => Len(local) # 0)
    BY DEF SyncQueues
  <2>. QED
    BY <2>1 DEF LocalShape, Syncing!NoFile, Syncing!Chunks, Syncing!PublishedCachesAreWhole
<1>3. Syncing!NoSyncIsLost
  BY DEF TaskShape, Syncing!NoSyncIsLost
<1>. QED
  BY <1>1, <1>2, <1>3

-----------------------------------------------------------------------------
(* The bundle.  EntriesShape says where a provider is: at the path it was      *)
(* declared with, or, once its path was found to have several sources, at one  *)
(* that is its source's.  ClaimShape ties a claimed place to the provider that *)
(* claimed it, so that a refusal finds the one that names no source.           *)

Each == 1..ProviderCount
AllPaths == Paths \cup {<<q[1], u, n>> : q \in Paths, u \in Bundling!Urls, n \in Nat}
Provider == [remote : BOOLEAN, url : Bundling!Urls \cup {"none"}, there : BOOLEAN, path : AllPaths]
BundleTypes ==
  /\ bundling \in {"resolving", "collecting", "geo", "bundled", "refused"} /\ geoThere \in BOOLEAN
  /\ at \in 1..(ProviderCount + 1)
  /\ declaredProviders \in [Each -> Bundling!Kinds]
  /\ entries \in [Each -> Provider]
  /\ IsFiniteSet(reserved) /\ conflicts \subseteq reserved

\* A provider whose path has several sources, and has been looked at.
Moved(i) == Bundling!Conflict(declaredProviders[i].path) /\ declaredProviders[i].path \notin conflicts
EntriesShape ==
  /\ \A i \in Each : /\ entries[i].url = declaredProviders[i].url
                     /\ entries[i].remote = declaredProviders[i].remote
                     /\ entries[i].there = declaredProviders[i].there
  /\ \A i \in Each : declaredProviders[i].path \in reserved
  /\ \A i \in Each : ~Moved(i) => entries[i].path = declaredProviders[i].path
  /\ \A i \in Each : Moved(i) =>
       /\ \E n \in Nat : entries[i].path = <<declaredProviders[i].path[1], entries[i].url, n>>
       /\ \A k \in Each : entries[i].path # declaredProviders[k].path
       /\ \A j \in Each : declaredProviders[j].path = declaredProviders[i].path =>
            (entries[i].path = entries[j].path <=> entries[i].url = entries[j].url)

ClaimShape ==
  /\ bundling = "resolving" => destinations = {} /\ copied = {} /\ downloaded = {}
  /\ bundling # "resolving" => conflicts = {}
  /\ bundling = "refused" => at \in Each
  /\ copied \subseteq destinations /\ downloaded \subseteq destinations \X Bundling!Urls
  /\ \A d, e \in downloaded : d[1] = e[1] => d = e
  /\ \A d \in downloaded : d[1] \notin copied
  /\ \A d \in downloaded : \E i \in Each : entries[i].path = d[1] /\ entries[i].url = d[2]
  /\ bundling # "bundled" =>
       \A q \in destinations : \E i \in Each :
         entries[i].path = q /\ (entries[i].url = "none" \/ <<q, entries[i].url>> \in downloaded)

BundleInv == BundleTypes /\ EntriesShape /\ ClaimShape /\ Bundling!OnlyLocalConflictsRefuse

(* The source of an allocated path. *)
LEMMA SecondIs == \A a, u, n, q : q = <<a, u, n>> => q[2] = u
OBVIOUS

(* The instance counts as everybody does. *)
LEMMA BundlingCounts == \A S : Bundling!Cardinality(S) = Cardinality(S)
BY Zenon DEF Bundling!Cardinality, Cardinality

(* Of more candidates than are in use there is a first one that is free. *)
LEMMA OneIsFree ==
  ASSUME NEW a, NEW u, IsFiniteSet(reserved)
  PROVE  \E n \in 0..Cardinality(reserved) :
           <<a, u, n>> \notin reserved /\ \A k \in 0..(n - 1) : <<a, u, k>> \in reserved
<1>. DEFINE N == Cardinality(reserved)
            T == {n \in 0..N : <<a, u, n>> \notin reserved}
<1>1. N \in Nat
  BY FS_CardinalityType
<1>2. T # {}
  <2>. SUFFICES ASSUME T = {} PROVE FALSE
    OBVIOUS
  <2>. DEFINE f == [n \in 0..N |-> <<a, u, n>>]
  <2>1. f \in [0..N -> reserved]
    OBVIOUS
  <2>2. \A m, n \in 0..N : f[m] = f[n] => m = n
    OBVIOUS
  <2>. HIDE DEF f
  <2>3. f \in Injection(0..N, reserved)
    BY <2>1, <2>2 DEF Injection, IsInjective
  <2>4. Cardinality(0..N) <= Cardinality(reserved)
    BY <2>3, FS_Injection
  <2>5. Cardinality(0..N) = N + 1
    <3>1. 0 \in Int /\ N \in Int /\ ~(0 > N) /\ N - 0 + 1 = N + 1
      BY <1>1
    <3>. HIDE DEF N
    <3>. QED
      BY <3>1, FS_Interval
  <2>. QED
    BY <1>1, <2>4, <2>5
<1>3. PICK n \in T : \A m \in T : n <= m
  <2>1. T \subseteq Nat
    BY <1>1
  <2>. QED
    BY <1>2, <2>1, LeastNumber
<1>4. \A k \in 0..(n - 1) : <<a, u, k>> \in reserved
  BY <1>1, <1>3
<1>. QED
  BY <1>3, <1>4

(* What is allocated is the source's, and nobody's before. *)
LEMMA AllocatedIsFree ==
  ASSUME BundleTypes, NEW p, NEW u
  PROVE  /\ \E n \in Nat : Bundling!Allocated(p, u) = <<p[1], u, n>>
         /\ Bundling!Allocated(p, u) \notin reserved
<1>. DEFINE First(n) == <<p[1], u, n>> \notin reserved /\ \A k \in 0..(n - 1) : <<p[1], u, k>> \in reserved
<1>1. \E n \in 0..Cardinality(reserved) : First(n)
  BY OneIsFree DEF BundleTypes
<1>2. Cardinality(reserved) \in Nat
  BY FS_CardinalityType DEF BundleTypes
<1>. DEFINE c == CHOOSE n \in 0..Cardinality(reserved) : First(n)
<1>3. c \in 0..Cardinality(reserved) /\ First(c)
  <2>. HIDE DEF First
  <2>. QED
    BY <1>1
<1>4. Bundling!Allocated(p, u) = <<p[1], u, c>>
  BY BundlingCounts, Zenon DEF Bundling!Allocated
<1>5. c \in Nat
  BY <1>2, <1>3
<1>. HIDE DEF c
<1>. QED
  BY <1>3, <1>4, <1>5

(* A function on the providers has finitely many values. *)
LEMMA PathsAreFinite ==
  ASSUME NEW f, NEW T, T = {f[i].path : i \in Each}
  PROVE  IsFiniteSet(T)
<1>. DEFINE g == [i \in Each |-> f[i].path]
<1>1. g \in [Each -> T] /\ \A y \in T : \E i \in Each : g[i] = y
  OBVIOUS
<1>. HIDE DEF g
<1>2. g \in Surjection(Each, T)
  BY <1>1 DEF Surjection
<1>3. IsFiniteSet(Each)
  BY BundlingAssumption, FS_Interval DEF Each
<1>. QED
  BY <1>2, <1>3, FS_Surjection

(* Two sources are more than one. *)
LEMMA TwoSources ==
  ASSUME NEW S, IsFiniteSet(S), NEW a \in S, NEW b \in S, a # b
  PROVE  Cardinality(S) > 1
<1>1. IsFiniteSet({a}) /\ Cardinality({a}) = 1
  BY FS_Singleton
<1>2. IsFiniteSet({a} \cup {b}) /\ Cardinality({a} \cup {b}) = 2
  BY <1>1, FS_AddElement, SMTT(30)
<1>3. Cardinality({a} \cup {b}) <= Cardinality(S) /\ Cardinality(S) \in Nat
  BY FS_Subset, FS_CardinalityType
<1>. QED
  BY <1>2, <1>3

(* Every provider is at the path it was declared with. *)
LEMMA BundlingInit == Bundling!InitBundle => BundleInv
<1>. SUFFICES ASSUME Bundling!InitBundle PROVE BundleInv
  OBVIOUS
<1>. USE BundlingAssumption DEF Bundling!InitBundle
<1>1. IsFiniteSet(reserved)
  <2>1. IsFiniteSet(Bundling!PathsOf(declaredProviders))
    BY PathsAreFinite DEF Bundling!PathsOf, Each
  <2>2. IsFiniteSet({Bundling!Geo})
    BY FS_Singleton
  <2>. QED
    BY <2>1, <2>2, FS_Union
<1>2. BundleTypes
  <2>1. declaredProviders \in [Each -> Bundling!Kinds] /\ entries = declaredProviders
    BY DEF Each
  <2>2. Bundling!Kinds \subseteq Provider
    <3>1. Paths \subseteq AllPaths
      BY DEF AllPaths
    <3>. QED
      BY <3>1 DEF Bundling!Kinds, Provider
  <2>3. entries \in [Each -> Provider]
    BY <2>1, <2>2
  <2>. QED
    BY <1>1, <2>1, <2>3 DEF BundleTypes
<1>3. \A i \in Each : declaredProviders[i].path \in Bundling!PathsOf(declaredProviders)
  BY DEF Each, Bundling!PathsOf
<1>4. EntriesShape
  BY <1>3 DEF EntriesShape, Moved
<1>5. ClaimShape /\ Bundling!OnlyLocalConflictsRefuse
  BY DEF ClaimShape, Bundling!OnlyLocalConflictsRefuse
<1>. QED
  BY <1>2, <1>4, <1>5 DEF BundleInv

(* A provider that was moved is at a place of its source. *)
LEMMA MovedPlace ==
  ASSUME EntriesShape, NEW i \in Each, Moved(i)
  PROVE  entries[i].path[2] = entries[i].url
<1>. DEFINE Places(q, u, a) == \E n \in Nat : q = <<a, u, n>>
<1>1. \A q, u, a : Places(q, u, a) => q[2] = u
  OBVIOUS
<1>2. Places(entries[i].path, entries[i].url, declaredProviders[i].path[1])
  BY DEF EntriesShape
<1>. HIDE DEF Places
<1>. QED
  BY <1>1, <1>2

(* Remote providers of one place with two sources share it with one that names none. *)
LEMMA SharedWithALocal ==
  ASSUME BundleTypes, EntriesShape, conflicts = {},
         NEW i \in Each, NEW j \in Each, entries[i].path = entries[j].path,
         entries[i].url # "none", entries[j].url # "none", entries[i].url # entries[j].url
  PROVE  \E k \in Each : entries[k].path = entries[i].path /\ entries[k].url = "none"
<1>. DEFINE d == declaredProviders
<1>0. Each = 1..ProviderCount
  BY DEF Each
<1>1. d[i].url # "none" /\ d[j].url # "none" /\ d[i].url # d[j].url
  BY DEF EntriesShape
<1>2. CASE Moved(i) /\ Moved(j)
  <2>3. entries[i].path[2] = entries[i].url /\ entries[j].path[2] = entries[j].url
    BY <1>2, MovedPlace
  <2>4. entries[i].url = entries[j].url
    BY <2>3
  <2>. QED
    BY <2>4
<1>3. CASE ~(Moved(i) <=> Moved(j))
  BY <1>3 DEF EntriesShape
<1>4. CASE ~Moved(i) /\ ~Moved(j)
  <2>1. d[i].path = d[j].path /\ entries[i].path = d[i].path
    BY <1>4 DEF EntriesShape
  <2>. DEFINE p == d[i].path
  <2>2. ~Bundling!Conflict(p)
    BY <1>4 DEF Moved
  <2>3. i \in Bundling!Users(p) /\ j \in Bundling!Users(p)
    BY <1>0, <2>1 DEF Bundling!Users
  <2>4. d[i].url \in Bundling!Sources(p) /\ d[j].url \in Bundling!Sources(p)
    BY <2>3 DEF Bundling!Sources
  <2>5. IsFiniteSet(Bundling!Sources(p))
    <3>1. Bundling!Sources(p) \subseteq {"u1", "u2", "none"}
      BY <1>0 DEF BundleTypes, Bundling!Sources, Bundling!Users, Bundling!Kinds, Bundling!Urls
    <3>2. IsFiniteSet({"u1"})
      BY FS_Singleton
    <3>3. IsFiniteSet({"u1"} \cup {"u2"})
      BY <3>2, FS_AddElement
    <3>4. IsFiniteSet(({"u1"} \cup {"u2"}) \cup {"none"})
      BY <3>3, FS_AddElement
    <3>5. ({"u1"} \cup {"u2"}) \cup {"none"} = {"u1", "u2", "none"}
      OBVIOUS
    <3>. QED
      BY <3>1, <3>4, <3>5, FS_Subset
  <2>6. Bundling!Cardinality(Bundling!Sources(p)) > 1
    BY <1>1, <2>4, <2>5, TwoSources, BundlingCounts
  <2>7. Bundling!Local(p)
    BY <2>2, <2>6 DEF Bundling!Conflict
  <2>8. PICK k \in Bundling!Users(p) : ~d[k].remote \/ d[k].url = "none"
    BY <2>7 DEF Bundling!Local
  <2>9. k \in Each /\ d[k].path = p
    BY <1>0, <2>8 DEF Bundling!Users
  <2>10. d[k].url = "none"
    BY <2>8, <2>9 DEF BundleTypes, Bundling!Kinds
  <2>11. ~Moved(k)
    BY <2>2, <2>9 DEF Moved
  <2>. QED
    BY <2>1, <2>9, <2>10, <2>11 DEF EntriesShape
<1>. QED
  BY <1>2, <1>3, <1>4

(* A conflict that is resolved moves the providers of its path. *)
LEMMA ResolveKeeps ==
  ASSUME BundleInv, NEW p \in conflicts, Bundling!Resolve(p)
  PROVE  BundleInv'
<1>. USE BundlingAssumption DEF BundleInv
<1>. DEFINE d == declaredProviders
            Moves(i) == Bundling!Conflict(p) /\ d[i].path = p
            new == [i \in Each |-> IF Moves(i)
                      THEN [entries[i] EXCEPT !.path = Bundling!Allocated(p, entries[i].url)] ELSE entries[i]]
<1>1. /\ bundling = "resolving" /\ conflicts' = conflicts \ {p}
      /\ UNCHANGED <<bundling, geoThere, declaredProviders, at, destinations, copied, downloaded>>
  BY DEF Bundling!Resolve
<1>2. entries' = new
  <2>1. \A i \in Each : i \in Bundling!Users(p) <=> d[i].path = p
    BY DEF Bundling!Users, Each
  <2>. QED
    BY <2>1 DEF Bundling!Resolve, Each
<1>3. reserved' = reserved \cup {entries'[i].path : i \in Each}
  BY DEF Bundling!Resolve, Bundling!PathsOf, Each
<1>4. \A i \in Each : entries[i] \in Provider
  BY DEF BundleTypes
<1>5. ASSUME NEW i \in Each, Moves(i)
      PROVE  /\ entries[i].url \in Bundling!Urls
             /\ entries'[i].path = Bundling!Allocated(p, entries[i].url)
             /\ entries'[i].url = entries[i].url /\ entries'[i].remote = entries[i].remote
             /\ entries'[i].there = entries[i].there /\ entries'[i] \in Provider
  <2>1. i \in Bundling!Users(p) /\ ~Bundling!Local(p)
    BY <1>5 DEF Bundling!Users, Bundling!Conflict, Each
  <2>2. d[i].url # "none" /\ d[i].url = entries[i].url
    BY <2>1 DEF Bundling!Local, EntriesShape
  <2>3. entries[i].url \in Bundling!Urls
    BY <1>4, <2>2 DEF Provider
  <2>4. entries'[i] = [entries[i] EXCEPT !.path = Bundling!Allocated(p, entries[i].url)]
    BY <1>2, <1>5
  <2>5. p \in Paths
    BY <1>5 DEF BundleTypes, Bundling!Kinds
  <2>6. Bundling!Allocated(p, entries[i].url) \in AllPaths
    <3>1. PICK n \in Nat : Bundling!Allocated(p, entries[i].url) = <<p[1], entries[i].url, n>>
      BY AllocatedIsFree
    <3>. QED
      BY <2>3, <2>5, <3>1 DEF AllPaths
  <2>7. /\ entries'[i].path = Bundling!Allocated(p, entries[i].url)
        /\ entries'[i].url = entries[i].url /\ entries'[i].remote = entries[i].remote
        /\ entries'[i].there = entries[i].there
    BY <1>4, <2>4 DEF Provider
  <2>8. entries'[i] \in Provider
    BY <1>4, <2>4, <2>6 DEF Provider
  <2>. QED
    BY <2>3, <2>7, <2>8
<1>6. \A i \in Each : ~Moves(i) => entries'[i] = entries[i]
  BY <1>2
<1>. HIDE DEF new
<1>7. \A i \in Each : entries'[i].url = entries[i].url /\ entries'[i] \in Provider
  BY <1>4, <1>5, <1>6
<1>8. BundleTypes'
  <2>1. entries' \in [Each -> Provider]
    BY <1>2, <1>7 DEF new
  <2>2. IsFiniteSet(reserved')
    BY <1>3, PathsAreFinite, FS_Union DEF BundleTypes
  <2>3. conflicts' \subseteq reserved'
    BY <1>1, <1>3 DEF BundleTypes
  <2>. QED
    BY <1>1, <2>1, <2>2, <2>3 DEF BundleTypes
<1>9. \A q : Bundling!Conflict(q)' <=> Bundling!Conflict(q)
  BY <1>1 DEF Bundling!Conflict, Bundling!Local, Bundling!Users, Bundling!Sources
<1>10. \A i \in Each : Moved(i)' <=> (Moved(i) \/ Moves(i))
  BY <1>1, <1>9 DEF Moved
<1>11. \A i \in Each : Moves(i) => ~Moved(i)
  BY DEF Moved
<1>12. EntriesShape'
  <2>1. \A i \in Each : /\ entries'[i].url = d'[i].url /\ entries'[i].remote = d'[i].remote
                        /\ entries'[i].there = d'[i].there
    BY <1>1, <1>5, <1>6 DEF EntriesShape
  <2>2. \A i \in Each : d'[i].path \in reserved'
    BY <1>1, <1>3 DEF EntriesShape
  <2>3. \A i \in Each : ~Moved(i)' => entries'[i].path = d'[i].path
    BY <1>1, <1>6, <1>10 DEF EntriesShape
  <2>4. ASSUME NEW i \in Each, Moved(i)'
        PROVE  /\ \E n \in Nat : entries'[i].path = <<d[i].path[1], entries'[i].url, n>>
               /\ \A k \in Each : entries'[i].path # d[k].path
               /\ \A j \in Each : d[j].path = d[i].path =>
                    (entries'[i].path = entries'[j].path <=> entries'[i].url = entries'[j].url)
    <3>1. CASE Moves(i)
      <4>1. PICK n \in Nat : entries'[i].path = <<p[1], entries[i].url, n>>
        BY <1>5, <3>1, AllocatedIsFree
      <4>2. \A k \in Each : entries'[i].path # d[k].path
        BY <1>5, <3>1, AllocatedIsFree DEF EntriesShape
      <4>3. ASSUME NEW j \in Each, d[j].path = d[i].path
            PROVE  entries'[i].path = entries'[j].path <=> entries'[i].url = entries'[j].url
        <5>1. Moves(j)
          BY <3>1, <4>3
        <5>2. PICK m \in Nat : entries'[j].path = <<p[1], entries[j].url, m>>
          BY <1>5, <5>1, AllocatedIsFree
        <5>3. entries'[i].path[2] = entries[i].url /\ entries'[j].path[2] = entries[j].url
          BY <4>1, <5>2, SecondIs
        <5>4. entries'[i].path = entries'[j].path => entries[i].url = entries[j].url
          BY <5>3
        <5>5. entries[i].url = entries[j].url => entries'[i].path = entries'[j].path
          BY <1>5, <3>1, <5>1
        <5>. QED
          BY <1>7, <5>4, <5>5
      <4>. QED
        BY <1>7, <3>1, <4>1, <4>2, <4>3
    <3>2. CASE ~Moves(i)
      <4>1. Moved(i) /\ entries'[i] = entries[i]
        BY <1>6, <1>10, <2>4, <3>2
      <4>2. \A j \in Each : d[j].path = d[i].path => entries'[j] = entries[j]
        BY <1>6, <3>2
      <4>. QED
        BY <4>1, <4>2 DEF EntriesShape
    <3>. QED
      BY <3>1, <3>2
  <2>5. d' = d
    BY <1>1
  <2>. QED
    BY <2>1, <2>2, <2>3, <2>4, <2>5 DEF EntriesShape
<1>13. ClaimShape'
  <2>1. destinations = {} /\ downloaded = {} /\ copied = {}
    BY <1>1 DEF ClaimShape
  <2>. QED
    BY <1>1, <2>1 DEF ClaimShape
<1>14. Bundling!OnlyLocalConflictsRefuse'
  BY <1>1 DEF Bundling!OnlyLocalConflictsRefuse
<1>. QED
  BY <1>8, <1>12, <1>13, <1>14

(* Whoever is collected has a place of its own, or shares it with the same source. *)
LEMMA CollectKeeps ==
  ASSUME BundleInv, Bundling!Collect
  PROVE  BundleInv'
<1>. USE BundlingAssumption DEF BundleInv
<1>1. /\ bundling = "collecting" /\ at <= ProviderCount
      /\ UNCHANGED <<geoThere, declaredProviders, entries, reserved, conflicts>>
  BY DEF Bundling!Collect
<1>2. at \in Each /\ at + 1 \in 1..(ProviderCount + 1) /\ entries[at] \in Provider
  BY <1>1 DEF BundleTypes, Each
<1>3. EntriesShape'
  <2>1. \A q : Bundling!Conflict(q)' <=> Bundling!Conflict(q)
    BY <1>1 DEF Bundling!Conflict, Bundling!Local, Bundling!Users, Bundling!Sources
  <2>2. \A i : Moved(i)' <=> Moved(i)
    BY <1>1, <2>1 DEF Moved
  <2>. QED
    BY <1>1, <2>2 DEF EntriesShape
<1>. DEFINE p == entries[at].path
            u == entries[at].url
<1>4. CASE Bundling!CollectRemote
  <2>1. u \in Bundling!Urls /\ u # "none" /\ copied' = copied
    BY <1>2, <1>4 DEF Bundling!CollectRemote, Provider
  <2>2. CASE p \notin destinations \/ Bundling!Declared(p) = {<<p, u>>}
    <3>1. /\ at' = at + 1 /\ bundling' = bundling /\ destinations' = destinations \cup {p}
          /\ downloaded' = downloaded \cup {<<p, u>>}
      BY <1>4, <2>2 DEF Bundling!CollectRemote, Bundling!Next1
    <3>2. BundleTypes'
      BY <1>1, <1>2, <3>1 DEF BundleTypes
    <3>3. \A e \in downloaded : e[1] = p => e = <<p, u>>
      <4>1. CASE p \notin destinations
        BY <4>1 DEF ClaimShape
      <4>2. CASE Bundling!Declared(p) = {<<p, u>>}
        BY <4>2 DEF Bundling!Declared
      <4>. QED
        BY <2>2, <4>1, <4>2
    <3>4. p \notin copied
      <4>1. CASE p \notin destinations
        BY <4>1 DEF ClaimShape
      <4>2. CASE Bundling!Declared(p) = {<<p, u>>}
        <5>1. <<p, u>> \in downloaded
          BY <4>2 DEF Bundling!Declared
        <5>. QED
          BY <5>1 DEF ClaimShape
      <4>. QED
        BY <2>2, <4>1, <4>2
    <3>5. ClaimShape'
      <4>1. \A e, f \in downloaded' : e[1] = f[1] => e = f
        BY <3>1, <3>3 DEF ClaimShape
      <4>2. \A e \in downloaded' : e[1] \notin copied'
        BY <2>1, <3>1, <3>4 DEF ClaimShape
      <4>3. \A e \in downloaded' : \E i \in Each : entries'[i].path = e[1] /\ entries'[i].url = e[2]
        BY <1>1, <1>2, <3>1 DEF ClaimShape
      <4>4. \A q \in destinations' : \E i \in Each :
              entries'[i].path = q /\ (entries'[i].url = "none" \/ <<q, entries'[i].url>> \in downloaded')
        BY <1>1, <1>2, <3>1 DEF ClaimShape
      <4>5. copied' \subseteq destinations' /\ downloaded' \subseteq destinations' \X Bundling!Urls
        BY <2>1, <3>1 DEF ClaimShape
      <4>6. bundling' = "collecting" /\ conflicts' = {}
        BY <1>1, <3>1 DEF ClaimShape
      <4>. QED
        BY <4>1, <4>2, <4>3, <4>4, <4>5, <4>6 DEF ClaimShape
    <3>6. Bundling!OnlyLocalConflictsRefuse'
      BY <1>1, <3>1 DEF Bundling!OnlyLocalConflictsRefuse
    <3>. QED
      BY <1>3, <3>2, <3>5, <3>6
  <2>3. CASE p \in destinations /\ Bundling!Declared(p) # {<<p, u>>}
    <3>1. bundling' = "refused" /\ UNCHANGED <<at, destinations, downloaded>>
      BY <1>4, <2>3 DEF Bundling!CollectRemote
    <3>2. BundleTypes'
      BY <1>1, <3>1 DEF BundleTypes
    <3>3. ClaimShape'
      BY <1>1, <1>2, <2>1, <3>1 DEF ClaimShape
    <3>4. \E k \in Each : entries[k].path = p /\ entries[k].url = "none"
      <4>1. PICK i \in Each : entries[i].path = p /\ (entries[i].url = "none" \/ <<p, entries[i].url>> \in downloaded)
        BY <1>1, <2>3 DEF ClaimShape
      <4>2. CASE entries[i].url = "none"
        BY <4>1, <4>2
      <4>3. CASE <<p, entries[i].url>> \in downloaded
        <5>1. <<p, entries[i].url>> \in Bundling!Declared(p)
          BY <4>3 DEF Bundling!Declared
        <5>2. PICK e \in Bundling!Declared(p) : e # <<p, u>>
          BY <2>3, <5>1
        <5>3. e \in downloaded /\ e[1] = p
          BY <5>2 DEF Bundling!Declared
        <5>4. e \in destinations \X Bundling!Urls
          BY <5>3 DEF ClaimShape
        <5>5. e = <<p, e[2]>> /\ e[2] \in Bundling!Urls
          BY <5>3, <5>4
        <5>6. e[2] # u /\ e[2] # "none"
          BY <5>2, <5>5 DEF Bundling!Urls
        <5>7. PICK j \in Each : entries[j].path = p /\ entries[j].url = e[2]
          BY <5>3 DEF ClaimShape
        <5>8. conflicts = {}
          BY <1>1 DEF ClaimShape
        <5>. QED
          BY <1>2, <2>1, <5>6, <5>7, <5>8, SharedWithALocal
      <4>. QED
        BY <4>1, <4>2, <4>3
    <3>5. Bundling!OnlyLocalConflictsRefuse'
      BY <1>1, <3>1, <3>4 DEF Bundling!OnlyLocalConflictsRefuse, Each
    <3>. QED
      BY <1>3, <3>2, <3>3, <3>5
  <2>. QED
    BY <2>2, <2>3
<1>5. CASE Bundling!CollectLocal
  <2>1. /\ ~entries[at].remote /\ at' = at + 1 /\ bundling' = bundling /\ downloaded' = downloaded
        /\ destinations' = destinations \cup {p}
        /\ copied' = IF p \in destinations THEN copied ELSE copied \cup {p}
    BY <1>5 DEF Bundling!CollectLocal, Bundling!Next1
  <2>2. entries[at].url = "none"
    <3>1. declaredProviders[at].url = entries[at].url /\ declaredProviders[at].remote = entries[at].remote
      BY <1>2 DEF EntriesShape
    <3>2. declaredProviders[at] \in Bundling!Kinds
      BY <1>2 DEF BundleTypes
    <3>3. \A d \in Bundling!Kinds : ~d.remote => d.url = "none"
      BY DEF Bundling!Kinds
    <3>. QED
      BY <2>1, <3>1, <3>2, <3>3
  <2>3. BundleTypes'
    BY <1>1, <1>2, <2>1 DEF BundleTypes
  <2>4. ClaimShape'
    <3>1. \A e \in downloaded' : e[1] \notin copied'
      BY <2>1 DEF ClaimShape
    <3>2. \A q \in destinations' : \E i \in Each :
            entries'[i].path = q /\ (entries'[i].url = "none" \/ <<q, entries'[i].url>> \in downloaded')
      BY <1>1, <1>2, <2>1, <2>2 DEF ClaimShape
    <3>3. copied' \subseteq destinations' /\ downloaded' \subseteq destinations' \X Bundling!Urls
      BY <2>1 DEF ClaimShape
    <3>4. /\ \A e, f \in downloaded' : e[1] = f[1] => e = f
          /\ \A e \in downloaded' : \E i \in Each : entries'[i].path = e[1] /\ entries'[i].url = e[2]
      BY <1>1, <2>1 DEF ClaimShape
    <3>5. bundling' = "collecting" /\ conflicts' = {}
      BY <1>1, <2>1 DEF ClaimShape
    <3>. QED
      BY <3>1, <3>2, <3>3, <3>4, <3>5 DEF ClaimShape
  <2>5. Bundling!OnlyLocalConflictsRefuse'
    BY <1>1, <2>1 DEF Bundling!OnlyLocalConflictsRefuse
  <2>. QED
    BY <1>3, <2>3, <2>4, <2>5
<1>6. CASE Bundling!LeaveToCore
  <2>1. at' = at + 1 /\ UNCHANGED <<bundling, destinations, copied, downloaded>>
    BY <1>6 DEF Bundling!LeaveToCore, Bundling!Next1
  <2>2. BundleTypes' /\ ClaimShape' /\ Bundling!OnlyLocalConflictsRefuse'
    BY <1>1, <1>2, <2>1 DEF BundleTypes, ClaimShape, Bundling!OnlyLocalConflictsRefuse
  <2>. QED
    BY <1>3, <2>2
<1>. QED
  BY <1>4, <1>5, <1>6 DEF Bundling!Collect

(* Every step of the bundle keeps the invariant. *)
LEMMA BundlingNext ==
  ASSUME BundleInv, Bundling!NextBundle \/ UNCHANGED Bundling!bundleVars
  PROVE  BundleInv'
<1>. USE BundlingAssumption DEF BundleInv
<1>1. ASSUME NEW p \in conflicts, Bundling!Resolve(p) PROVE BundleInv'
  BY <1>1, ResolveKeeps
<1>2. CASE Bundling!Collect
  BY <1>2, CollectKeeps
<1>3. ASSUME UNCHANGED <<geoThere, declaredProviders, entries, reserved, conflicts>>
      PROVE  EntriesShape'
  <2>1. \A q : Bundling!Conflict(q)' <=> Bundling!Conflict(q)
    BY <1>3 DEF Bundling!Conflict, Bundling!Local, Bundling!Users, Bundling!Sources
  <2>2. \A i : Moved(i)' <=> Moved(i)
    BY <1>3, <2>1 DEF Moved
  <2>. QED
    BY <1>3, <2>2 DEF EntriesShape
<1>4. CASE Bundling!Resolved
  <2>1. EntriesShape'
    BY <1>3, <1>4 DEF Bundling!Resolved
  <2>2. BundleTypes'
    BY <1>4 DEF Bundling!Resolved, BundleTypes
  <2>3. ClaimShape' /\ Bundling!OnlyLocalConflictsRefuse'
    BY <1>4 DEF Bundling!Resolved, ClaimShape, Bundling!OnlyLocalConflictsRefuse
  <2>. QED
    BY <2>1, <2>2, <2>3
<1>5. CASE Bundling!CollectGeo
  <2>1. EntriesShape'
    BY <1>3, <1>5 DEF Bundling!CollectGeo
  <2>2. BundleTypes'
    BY <1>5 DEF Bundling!CollectGeo, BundleTypes
  <2>3. /\ bundling = "collecting" /\ bundling' = "bundled"
        /\ \/ copied' = copied \cup {Bundling!Geo} /\ destinations' = destinations \cup {Bundling!Geo}
              /\ Bundling!Geo \notin destinations
           \/ copied' = copied /\ destinations' = destinations
        /\ UNCHANGED <<declaredProviders, entries, conflicts, downloaded>>
    BY <1>5 DEF Bundling!CollectGeo
  <2>4. \A e \in downloaded' : e[1] \notin copied'
    BY <2>3 DEF ClaimShape
  <2>5. copied' \subseteq destinations' /\ downloaded' \subseteq destinations' \X Bundling!Urls
    BY <2>3 DEF ClaimShape
  <2>6. ClaimShape' /\ Bundling!OnlyLocalConflictsRefuse'
    BY <2>3, <2>4, <2>5 DEF ClaimShape, Bundling!OnlyLocalConflictsRefuse
  <2>. QED
    BY <2>1, <2>2, <2>6
<1>6. CASE UNCHANGED Bundling!bundleVars
  <2>1. UNCHANGED <<bundling, geoThere, declaredProviders, entries, reserved, conflicts, at,
                    destinations, copied, downloaded>>
    BY <1>6 DEF Bundling!bundleVars
  <2>2. EntriesShape'
    BY <1>3, <2>1
  <2>. QED
    BY <2>1, <2>2 DEF BundleTypes, ClaimShape, Bundling!OnlyLocalConflictsRefuse
<1>. QED
  BY <1>1, <1>2, <1>4, <1>5, <1>6 DEF Bundling!NextBundle

(* What the invariant shows. *)
LEMMA BundlingShows ==
  BundleInv => Bundling!TypeOK /\ Bundling!OnlyLocalConflictsRefuse /\ Bundling!CachesHaveOneSource
<1>. SUFFICES ASSUME BundleInv
     PROVE Bundling!TypeOK /\ Bundling!CachesHaveOneSource
  BY DEF BundleInv
<1>. USE BundlingAssumption DEF BundleInv
<1>1. Bundling!TypeOK
  <2>1. Len(entries) = ProviderCount /\ Len(declaredProviders) = ProviderCount
    BY DEF BundleTypes, Each
  <2>2. \A i \in 1..ProviderCount : entries[i].url \in Bundling!Urls \cup {"none"} /\ entries[i].remote \in BOOLEAN
    BY DEF BundleTypes, Each, Provider
  <2>3. conflicts \subseteq reserved /\ copied \subseteq destinations /\ downloaded \subseteq destinations \X Bundling!Urls
    BY DEF BundleTypes, ClaimShape
  <2>. QED
    BY <2>1, <2>2, <2>3 DEF BundleTypes, Bundling!TypeOK
<1>2. Bundling!CachesHaveOneSource
  <2>. SUFFICES ASSUME bundling = "bundled"
       PROVE /\ \A e, f \in downloaded : e[1] = f[1] => e = f
             /\ \A e \in downloaded : e[1] \notin copied
             /\ \A i, j \in 1..ProviderCount :
                  declaredProviders[i].path = declaredProviders[j].path
                    /\ Bundling!Conflict(declaredProviders[i].path) =>
                      /\ entries[i].path # declaredProviders[i].path
                      /\ (entries[i].path = entries[j].path <=> entries[i].url = entries[j].url)
    BY DEF Bundling!CachesHaveOneSource
  <2>1. \A i \in Each : Bundling!Conflict(declaredProviders[i].path) => Moved(i)
    BY DEF ClaimShape, Moved
  <2>. QED
    BY <2>1 DEF ClaimShape, EntriesShape, Each
<1>. QED
  BY <1>1, <1>2

-----------------------------------------------------------------------------
(* One instance.  OnePrimary is not inductive: it does not say why the others  *)
(* are not primary.  OwnersHoldTheLock does, and with it the record, which     *)
(* only an instance that holds the lock writes, stays the one of the instance  *)
(* that wrote it.                                                              *)

Starters == {"owning", "bound", "recorded", "serving", "leaving"}

(* Whoever is past the lock holds it. *)
OwnersHoldTheLock == \A i \in Instances : phase[i] \in Starters => lock = i

(* The record is the owner's from the write on, before the server runs. *)
RecordOfTheOwner ==
  \A i \in Instances : phase[i] \in {"recorded", "serving"} =>
    record = [port |-> boundTo[i], owner |-> i]

(* Whoever asks has a try left. *)
AskersHaveTries == \A i \in Instances : phase[i] = "asking" => lockTries[i] < MaxTries

(* No try finds the lock free and leaves it. *)
NobodyMissed == missed = {}

StartingInv ==
  /\ Starting!TypeOK /\ OwnersHoldTheLock /\ RecordOfTheOwner /\ Starting!SecondariesAreShown
  /\ AskersHaveTries /\ NobodyMissed

(* At first nobody runs. *)
LEMMA StartingInit ==
  Starting!InitInstances => StartingInv
<1>. SUFFICES ASSUME Starting!InitInstances PROVE StartingInv
  OBVIOUS
<1>. USE StartingAssumption DEF Starting!InitInstances
<1>1. record \in Starting!Records /\ saw \in [Instances -> Starting!Records]
  BY DEF Starting!Records, Starting!NoRecord
<1>2. lockTries \in [Instances -> 0..MaxTries]
  OBVIOUS
<1>3. Starting!TypeOK
  BY <1>1, <1>2 DEF Starting!TypeOK
<1>4. OwnersHoldTheLock /\ RecordOfTheOwner /\ Starting!SecondariesAreShown /\ AskersHaveTries /\ NobodyMissed
  BY DEF OwnersHoldTheLock, RecordOfTheOwner, Starting!SecondariesAreShown, AskersHaveTries,
        NobodyMissed, Starters
<1>. QED
  BY <1>3, <1>4 DEF StartingInv

(* What every way to end a process does to the invariant: it takes the lock from
   nobody else. *)
LEMMA StartingEnd ==
  ASSUME StartingInv,
         NEW i \in Instances, NEW s \in {"gone", "failed"}, Starting!End(i, s)
  PROVE  StartingInv'
<1>. USE StartingAssumption DEF Starting!End, Starting!To, StartingInv
<1>1. Starting!TypeOK'
  BY DEF Starting!TypeOK, Starting!Live, Starting!Ended
<1>2. \A j \in Instances : phase'[j] = IF j = i THEN s ELSE phase[j]
  BY DEF Starting!TypeOK
<1>3. OwnersHoldTheLock'
  BY <1>2 DEF OwnersHoldTheLock, Starters, Starting!TypeOK
<1>4. \A j \in Instances \ {i} : boundTo'[j] = boundTo[j]
  BY DEF Starting!TypeOK
<1>5. RecordOfTheOwner'
  BY <1>2, <1>4 DEF RecordOfTheOwner, Starting!TypeOK
<1>6. Starting!SecondariesAreShown' /\ AskersHaveTries' /\ NobodyMissed'
  BY <1>2 DEF Starting!SecondariesAreShown, AskersHaveTries, NobodyMissed
<1>. QED
  BY <1>1, <1>3, <1>5, <1>6

(* Every step keeps the invariant. *)
LEMMA StartingNext ==
  ASSUME StartingInv, Starting!NextInstances \/ UNCHANGED Starting!instanceVars
  PROVE  StartingInv'
<1>. USE StartingAssumption DEF StartingInv
<1>. DEFINE Inv2 == /\ OwnersHoldTheLock /\ RecordOfTheOwner /\ Starting!SecondariesAreShown
                  /\ AskersHaveTries /\ NobodyMissed
<1>1. ASSUME NEW i \in Instances, Starting!Launch(i) PROVE StartingInv'
  <2>1. Starting!TypeOK'
    BY <1>1 DEF Starting!Launch, Starting!To, Starting!TypeOK, Starting!Live
  <2>2. Inv2'
    BY <1>1
       DEF Starting!Launch, Starting!To, Starting!TypeOK, OwnersHoldTheLock, RecordOfTheOwner,
          Starting!SecondariesAreShown, AskersHaveTries, NobodyMissed, Starters
  <2>. QED
    BY <2>1, <2>2
<1>2. ASSUME NEW i \in Instances, Starting!TryLock(i) PROVE StartingInv'
  <2>1. Starting!TypeOK'
    BY <1>2 DEF Starting!TryLock, Starting!To, Starting!TypeOK, Starting!Live
  <2>2. Inv2'
    BY <1>2
       DEF Starting!TryLock, Starting!To, Starting!TypeOK, OwnersHoldTheLock,
          RecordOfTheOwner, Starting!SecondariesAreShown, AskersHaveTries, NobodyMissed,
          Starters
  <2>. QED
    BY <2>1, <2>2
<1>3. ASSUME NEW i \in Instances, Starting!Retry(i) PROVE StartingInv'
  <2>1. Starting!TypeOK'
    BY <1>3 DEF Starting!Retry, Starting!To, Starting!Try, Starting!TypeOK, Starting!Live
  <2>2. Inv2'
    BY <1>3
       DEF Starting!Retry, Starting!To, Starting!Try, Starting!TypeOK, OwnersHoldTheLock,
          RecordOfTheOwner, Starting!SecondariesAreShown, AskersHaveTries, NobodyMissed,
          Starters
  <2>. QED
    BY <2>1, <2>2
<1>4. ASSUME NEW i \in Instances, Starting!GiveUp(i) PROVE StartingInv'
  <2>1. Starting!TypeOK'
    BY <1>4 DEF Starting!GiveUp, Starting!To, Starting!TypeOK, Starting!Ended
  <2>2. Inv2'
    BY <1>4
       DEF Starting!GiveUp, Starting!To, Starting!TypeOK, OwnersHoldTheLock, RecordOfTheOwner,
          Starting!SecondariesAreShown, AskersHaveTries, NobodyMissed, Starters
  <2>. QED
    BY <2>1, <2>2
<1>5. ASSUME NEW i \in Instances, Starting!Ask(i) PROVE StartingInv'
  <2>1. /\ \/ phase' = [phase EXCEPT ![i] = "secondary"] /\ i \in shown'
           \/ phase' = [phase EXCEPT ![i] = "waiting"]
        /\ shown \subseteq shown' /\ shown' \subseteq Instances
    BY <1>5 DEF Starting!Ask, Starting!Answers, Starting!To, Starting!TypeOK
  <2>2. lockTries' \in [Instances -> 0..MaxTries]
    BY <1>5 DEF Starting!Ask, Starting!Try, Starting!TypeOK, AskersHaveTries
  <2>3. UNCHANGED <<lock, record, boundTo, ready, saw, missed>>
    BY <1>5 DEF Starting!Ask
  <2>4. Starting!TypeOK'
    BY <2>1, <2>2, <2>3 DEF Starting!TypeOK, Starting!Live, Starting!Ended
  <2>5. \A j \in Instances : phase'[j] = "asking" => phase[j] = "asking" /\ lockTries'[j] = lockTries[j]
    BY <1>5, <2>1 DEF Starting!Ask, Starting!Try, Starting!TypeOK
  <2>6. Inv2'
    BY <2>1, <2>3, <2>5
       DEF Starting!TypeOK, OwnersHoldTheLock, RecordOfTheOwner, Starting!SecondariesAreShown,
          AskersHaveTries, NobodyMissed, Starters
  <2>. QED
    BY <2>4, <2>6
<1>6. ASSUME NEW i \in Instances, Starting!Bind(i) PROVE StartingInv'
  <2>1. Starting!TypeOK'
    BY <1>6 DEF Starting!Bind, Starting!To, Starting!TypeOK, Starting!Live
  <2>2. Inv2'
    BY <1>6
       DEF Starting!Bind, Starting!To, Starting!TypeOK, OwnersHoldTheLock, RecordOfTheOwner,
          Starting!SecondariesAreShown, AskersHaveTries, NobodyMissed, Starters
  <2>. QED
    BY <2>1, <2>2
<1>7. ASSUME NEW i \in Instances, Starting!WriteRecord(i) PROVE StartingInv'
  <2>1. Starting!TypeOK'
    BY <1>7 DEF Starting!WriteRecord, Starting!To, Starting!TypeOK, Starting!Records, Starting!Live
  <2>2. \A j \in Instances : phase[j] \in Starters => j = i
    BY <1>7 DEF Starting!WriteRecord, OwnersHoldTheLock, Starters
  <2>3. Inv2'
    BY <1>7, <2>2
       DEF Starting!WriteRecord, Starting!To, Starting!TypeOK, OwnersHoldTheLock,
          RecordOfTheOwner, Starting!SecondariesAreShown, AskersHaveTries, NobodyMissed,
          Starters
  <2>. QED
    BY <2>1, <2>3
<1>8. ASSUME NEW i \in Instances, Starting!Serve(i) PROVE StartingInv'
  <2>1. Starting!TypeOK'
    BY <1>8 DEF Starting!Serve, Starting!To, Starting!TypeOK, Starting!Live
  <2>2. Inv2'
    BY <1>8
       DEF Starting!Serve, Starting!To, Starting!TypeOK, OwnersHoldTheLock, RecordOfTheOwner,
          Starting!SecondariesAreShown, AskersHaveTries, NobodyMissed, Starters
  <2>. QED
    BY <2>1, <2>2
<1>9. ASSUME NEW i \in Instances, Starting!Ready(i) PROVE StartingInv'
  BY <1>9
     DEF Starting!Ready, Starting!TypeOK, OwnersHoldTheLock, RecordOfTheOwner,
        Starting!SecondariesAreShown, AskersHaveTries, NobodyMissed
<1>10. ASSUME NEW i \in Instances, Starting!CloseServer(i) PROVE StartingInv'
  <2>1. Starting!TypeOK'
    BY <1>10 DEF Starting!CloseServer, Starting!To, Starting!TypeOK, Starting!Live
  <2>2. Inv2'
    BY <1>10
       DEF Starting!CloseServer, Starting!To, Starting!TypeOK, OwnersHoldTheLock,
          RecordOfTheOwner, Starting!SecondariesAreShown, AskersHaveTries, NobodyMissed,
          Starters
  <2>. QED
    BY <2>1, <2>2
<1>11. ASSUME NEW i \in Instances, Starting!Exit(i) \/ Starting!StartupFails(i) PROVE StartingInv'
  BY <1>11, StartingEnd DEF Starting!Exit, Starting!StartupFails
<1>12. CASE UNCHANGED Starting!instanceVars
  BY <1>12
     DEF Starting!instanceVars, Starting!TypeOK, OwnersHoldTheLock, RecordOfTheOwner,
        Starting!SecondariesAreShown, AskersHaveTries, NobodyMissed
<1>. QED
  BY <1>1, <1>2, <1>3, <1>4, <1>5, <1>6, <1>7, <1>8, <1>9, <1>10, <1>11, <1>12
     DEF Starting!NextInstances

(* What the invariant shows. *)
LEMMA StartingShows ==
  StartingInv => /\ Starting!TypeOK /\ Starting!OnePrimary /\ Starting!RecordNamesThePrimary
                 /\ Starting!SecondariesAreShown /\ Starting!GivingUpHasACause
<1>. SUFFICES ASSUME StartingInv
     PROVE /\ Starting!TypeOK /\ Starting!OnePrimary /\ Starting!RecordNamesThePrimary
           /\ Starting!SecondariesAreShown /\ Starting!GivingUpHasACause
  OBVIOUS
<1>. USE DEF StartingInv
<1>1. Starting!OnePrimary
  BY DEF OwnersHoldTheLock, Starters, Starting!OnePrimary
<1>2. Starting!RecordNamesThePrimary
  BY DEF RecordOfTheOwner, Starting!RecordNamesThePrimary
<1>3. Starting!GivingUpHasACause
  BY DEF NobodyMissed, Starting!GivingUpHasACause
<1>. QED
  BY <1>1, <1>2, <1>3

-----------------------------------------------------------------------------
(* The move to the Applications folder.  MovingPlaces says where the bundles  *)
(* are at every step: until the swap the destination is the one of before,    *)
(* from then on it is the copy, and on the way back the backup has the other. *)

MovingTypes ==
  /\ moving \in Moving!GuardSteps /\ source \in Moving!Bundles /\ stagingBundle \in Moving!Bundles
  /\ backup \in Moving!Bundles /\ installedFirst \in Moving!Bundles
  /\ destination \in {"new", "old", "none"} /\ before \in {"new", "old", "none"}
  /\ orphans \subseteq Moving!Bundles /\ moved \in {"none", "failed", "moved", "kept"}
  /\ moves \in 0..MaxMoves
MovingFlags == {hadDestination, relaunched, unreturned} \subseteq BOOLEAN

MovingPlaces ==
  /\ moving # "idle" => moved = "none" /\ source = "new"
  /\ source # "new" => destination = "new"
  /\ moving \in {"asking", "copying", "activating"} => backup = "none" /\ destination = before
  /\ moving \in {"activating", "swapping"} => stagingBundle = "new"
  /\ moving \in {"swapping", "puttingBack"} => destination = "none"
  /\ moving \in {"opening", "returning", "tidying", "removing"} => destination = "new"
  /\ moving \in {"returning", "puttingBack"} => hadDestination
  /\ moving \in {"swapping", "opening", "returning", "puttingBack"} =>
       (hadDestination /\ backup = before) \/ (~hadDestination /\ before = "none")
  /\ moving \in {"tidying", "removing"} => relaunched
  /\ moving = "clearing" /\ ~unreturned => destination = before

MovingInv ==
  /\ MovingTypes /\ MovingFlags /\ MovingPlaces
  /\ Moving!InstallationIsKept /\ Moving!FailedMovesAreUndone

(* The application is started where it is. *)
LEMMA MovingInit == Moving!InitGuard => MovingInv
<1>. SUFFICES ASSUME Moving!InitGuard PROVE MovingInv
  OBVIOUS
<1>. USE MovingAssumption DEF Moving!InitGuard
<1>1. MovingTypes
  BY DEF MovingTypes, Moving!GuardSteps, Moving!Bundles
<1>2. MovingFlags
  BY DEF MovingFlags
<1>3. MovingPlaces /\ Moving!InstallationIsKept /\ Moving!FailedMovesAreUndone
  BY DEF MovingPlaces, Moving!InstallationIsKept, Moving!FailedMovesAreUndone
<1>. QED
  BY <1>1, <1>2, <1>3 DEF MovingInv

(* Every step of the guard keeps the invariant. *)
LEMMA MovingNext ==
  ASSUME MovingInv, Moving!NextGuard \/ UNCHANGED Moving!guardVars
  PROVE  MovingInv'
<1>. USE MovingAssumption DEF MovingInv, Moving!guardVars, Moving!bundles, Moving!moveHistory, Moving!Step,
          Moving!Told
<1>1. CASE Moving!Start
  <2>1. MovingTypes'
    BY <1>1 DEF Moving!Start, MovingTypes, MovingPlaces, Moving!GuardSteps, Moving!Bundles
  <2>2. MovingFlags'
    BY <1>1 DEF Moving!Start, MovingFlags
  <2>3. MovingPlaces'
    BY <1>1 DEF Moving!Start, MovingPlaces, MovingTypes
  <2>4. Moving!InstallationIsKept'
    BY <1>1 DEF Moving!Start, Moving!InstallationIsKept, MovingPlaces
  <2>5. Moving!FailedMovesAreUndone'
    BY <1>1 DEF Moving!Start, Moving!FailedMovesAreUndone, MovingPlaces
  <2>. QED
    BY <2>1, <2>2, <2>3, <2>4, <2>5
<1>2. CASE Moving!Confirm
  <2>1. MovingTypes'
    BY <1>2 DEF Moving!Confirm, MovingTypes, MovingPlaces, Moving!GuardSteps, Moving!Bundles
  <2>2. MovingFlags'
    BY <1>2 DEF Moving!Confirm, MovingFlags
  <2>3. MovingPlaces'
    BY <1>2 DEF Moving!Confirm, MovingPlaces, MovingTypes
  <2>4. Moving!InstallationIsKept'
    BY <1>2 DEF Moving!Confirm, Moving!InstallationIsKept, MovingPlaces
  <2>5. Moving!FailedMovesAreUndone'
    BY <1>2 DEF Moving!Confirm, Moving!FailedMovesAreUndone, MovingPlaces
  <2>. QED
    BY <2>1, <2>2, <2>3, <2>4, <2>5
<1>3. CASE Moving!Copy
  <2>1. MovingTypes'
    BY <1>3 DEF Moving!Copy, MovingTypes, MovingPlaces, Moving!GuardSteps, Moving!Bundles
  <2>2. MovingFlags'
    BY <1>3 DEF Moving!Copy, MovingFlags
  <2>3. MovingPlaces'
    BY <1>3 DEF Moving!Copy, MovingPlaces, MovingTypes
  <2>4. Moving!InstallationIsKept'
    BY <1>3 DEF Moving!Copy, Moving!InstallationIsKept, MovingPlaces
  <2>5. Moving!FailedMovesAreUndone'
    BY <1>3 DEF Moving!Copy, Moving!FailedMovesAreUndone, MovingPlaces
  <2>. QED
    BY <2>1, <2>2, <2>3, <2>4, <2>5
<1>4. CASE Moving!SetAside
  <2>1. MovingTypes'
    BY <1>4
       DEF Moving!SetAside, MovingTypes, MovingPlaces, Moving!GuardSteps, Moving!Bundles
  <2>2. MovingFlags'
    BY <1>4 DEF Moving!SetAside, MovingFlags
  <2>3. MovingPlaces'
    BY <1>4 DEF Moving!SetAside, MovingPlaces, MovingTypes
  <2>4. Moving!InstallationIsKept'
    BY <1>4 DEF Moving!SetAside, Moving!InstallationIsKept, MovingPlaces
  <2>5. Moving!FailedMovesAreUndone'
    BY <1>4 DEF Moving!SetAside, Moving!FailedMovesAreUndone, MovingPlaces
  <2>. QED
    BY <2>1, <2>2, <2>3, <2>4, <2>5
<1>5. CASE Moving!Swap
  <2>1. MovingTypes'
    BY <1>5 DEF Moving!Swap, MovingTypes, MovingPlaces, Moving!GuardSteps, Moving!Bundles
  <2>2. MovingFlags'
    BY <1>5 DEF Moving!Swap, MovingFlags
  <2>3. MovingPlaces'
    BY <1>5 DEF Moving!Swap, MovingPlaces, MovingTypes
  <2>4. Moving!InstallationIsKept'
    BY <1>5 DEF Moving!Swap, Moving!InstallationIsKept, MovingPlaces
  <2>5. Moving!FailedMovesAreUndone'
    BY <1>5 DEF Moving!Swap, Moving!FailedMovesAreUndone, MovingPlaces
  <2>. QED
    BY <2>1, <2>2, <2>3, <2>4, <2>5
<1>6. CASE Moving!Open
  <2>1. MovingTypes'
    BY <1>6 DEF Moving!Open, MovingTypes, MovingPlaces, Moving!GuardSteps, Moving!Bundles
  <2>2. MovingFlags'
    BY <1>6 DEF Moving!Open, MovingFlags
  <2>3. MovingPlaces'
    BY <1>6 DEF Moving!Open, MovingPlaces, MovingTypes
  <2>4. Moving!InstallationIsKept'
    BY <1>6 DEF Moving!Open, Moving!InstallationIsKept, MovingPlaces
  <2>5. Moving!FailedMovesAreUndone'
    BY <1>6 DEF Moving!Open, Moving!FailedMovesAreUndone, MovingPlaces
  <2>. QED
    BY <2>1, <2>2, <2>3, <2>4, <2>5
<1>7. CASE Moving!Return
  <2>1. MovingTypes'
    BY <1>7 DEF Moving!Return, MovingTypes, MovingPlaces, Moving!GuardSteps, Moving!Bundles
  <2>2. MovingFlags'
    BY <1>7 DEF Moving!Return, MovingFlags
  <2>3. MovingPlaces'
    BY <1>7 DEF Moving!Return, MovingPlaces, MovingTypes
  <2>4. Moving!InstallationIsKept'
    BY <1>7 DEF Moving!Return, Moving!InstallationIsKept, MovingPlaces
  <2>5. Moving!FailedMovesAreUndone'
    BY <1>7 DEF Moving!Return, Moving!FailedMovesAreUndone, MovingPlaces
  <2>. QED
    BY <2>1, <2>2, <2>3, <2>4, <2>5
<1>8. CASE Moving!PutBack
  <2>1. MovingTypes'
    BY <1>8 DEF Moving!PutBack, MovingTypes, MovingPlaces, Moving!GuardSteps, Moving!Bundles
  <2>2. MovingFlags'
    BY <1>8 DEF Moving!PutBack, MovingFlags
  <2>3. MovingPlaces'
    BY <1>8 DEF Moving!PutBack, MovingPlaces, MovingTypes
  <2>4. Moving!InstallationIsKept'
    BY <1>8 DEF Moving!PutBack, Moving!InstallationIsKept, MovingPlaces
  <2>5. Moving!FailedMovesAreUndone'
    BY <1>8 DEF Moving!PutBack, Moving!FailedMovesAreUndone, MovingPlaces
  <2>. QED
    BY <2>1, <2>2, <2>3, <2>4, <2>5
<1>9. CASE Moving!ClearStaging
  <2>1. MovingTypes'
    BY <1>9
       DEF Moving!ClearStaging, MovingTypes, MovingPlaces, Moving!GuardSteps, Moving!Bundles
  <2>2. MovingFlags'
    BY <1>9 DEF Moving!ClearStaging, MovingFlags
  <2>3. MovingPlaces'
    BY <1>9 DEF Moving!ClearStaging, MovingPlaces, MovingTypes
  <2>4. Moving!InstallationIsKept'
    BY <1>9 DEF Moving!ClearStaging, Moving!InstallationIsKept, MovingPlaces
  <2>5. Moving!FailedMovesAreUndone'
    BY <1>9 DEF Moving!ClearStaging, Moving!FailedMovesAreUndone, MovingPlaces
  <2>. QED
    BY <2>1, <2>2, <2>3, <2>4, <2>5
<1>10. CASE Moving!RemoveBackup
  <2>1. MovingTypes'
    BY <1>10
       DEF Moving!RemoveBackup, MovingTypes, MovingPlaces, Moving!GuardSteps, Moving!Bundles
  <2>2. MovingFlags'
    BY <1>10 DEF Moving!RemoveBackup, MovingFlags
  <2>3. MovingPlaces'
    BY <1>10 DEF Moving!RemoveBackup, MovingPlaces, MovingTypes
  <2>4. Moving!InstallationIsKept'
    BY <1>10 DEF Moving!RemoveBackup, Moving!InstallationIsKept, MovingPlaces
  <2>5. Moving!FailedMovesAreUndone'
    BY <1>10 DEF Moving!RemoveBackup, Moving!FailedMovesAreUndone, MovingPlaces
  <2>. QED
    BY <2>1, <2>2, <2>3, <2>4, <2>5
<1>11. CASE Moving!RemoveSource
  <2>1. MovingTypes'
    BY <1>11
       DEF Moving!RemoveSource, MovingTypes, MovingPlaces, Moving!GuardSteps, Moving!Bundles
  <2>2. MovingFlags'
    BY <1>11 DEF Moving!RemoveSource, MovingFlags
  <2>3. MovingPlaces'
    BY <1>11 DEF Moving!RemoveSource, MovingPlaces, MovingTypes
  <2>4. Moving!InstallationIsKept'
    BY <1>11 DEF Moving!RemoveSource, Moving!InstallationIsKept, MovingPlaces
  <2>5. Moving!FailedMovesAreUndone'
    BY <1>11 DEF Moving!RemoveSource, Moving!FailedMovesAreUndone, MovingPlaces
  <2>. QED
    BY <2>1, <2>2, <2>3, <2>4, <2>5
<1>12. CASE Moving!Killed
  <2>1. MovingTypes'
    BY <1>12 DEF Moving!Killed, MovingTypes, MovingPlaces, Moving!GuardSteps, Moving!Bundles
  <2>2. MovingFlags'
    BY <1>12 DEF Moving!Killed, MovingFlags
  <2>3. MovingPlaces'
    BY <1>12 DEF Moving!Killed, MovingPlaces, MovingTypes
  <2>4. Moving!InstallationIsKept'
    BY <1>12 DEF Moving!Killed, Moving!InstallationIsKept, MovingPlaces
  <2>5. Moving!FailedMovesAreUndone'
    BY <1>12 DEF Moving!Killed, Moving!FailedMovesAreUndone, MovingPlaces
  <2>. QED
    BY <2>1, <2>2, <2>3, <2>4, <2>5
<1>13. CASE UNCHANGED Moving!guardVars
  <2>1. MovingTypes'
    BY <1>13 DEF MovingTypes, MovingPlaces, Moving!GuardSteps, Moving!Bundles
  <2>2. MovingFlags'
    BY <1>13 DEF MovingFlags
  <2>3. MovingPlaces'
    BY <1>13 DEF MovingPlaces, MovingTypes
  <2>4. Moving!InstallationIsKept'
    BY <1>13 DEF Moving!InstallationIsKept, MovingPlaces
  <2>5. Moving!FailedMovesAreUndone'
    BY <1>13 DEF Moving!FailedMovesAreUndone, MovingPlaces
  <2>. QED
    BY <2>1, <2>2, <2>3, <2>4, <2>5
<1>. QED
  BY <1>1, <1>2, <1>3, <1>4, <1>5, <1>6, <1>7, <1>8, <1>9, <1>10, <1>11, <1>12, <1>13
     DEF Moving!NextGuard

(* What the invariant shows. *)
LEMMA MovingShows ==
  MovingInv => /\ Moving!TypeOK /\ Moving!ABundleStays
               /\ Moving!InstallationIsKept /\ Moving!FailedMovesAreUndone
<1>. SUFFICES ASSUME MovingInv PROVE Moving!TypeOK /\ Moving!ABundleStays
  BY DEF MovingInv
<1>1. Moving!ABundleStays
  BY DEF MovingInv, MovingTypes, MovingPlaces, Moving!ABundleStays
<1>2. {stagingBundle, backup, installedFirst, source, destination, before} \subseteq Moving!Bundles
  BY DEF MovingInv, MovingTypes, Moving!Bundles
<1>. QED
  BY <1>1, <1>2 DEF MovingInv, MovingTypes, MovingFlags, Moving!TypeOK

-----------------------------------------------------------------------------
(* The repair of the data directory.  OwningPlaces says at which step the      *)
(* entries are in the directory and at which they are set aside; OwningTokens  *)
(* that a thread makes a token only where none was loaded.                     *)

OwningTypes ==
  /\ repair \in Owning!RepairSteps /\ rootOwner \in Owning!Owners
  /\ inRoot \subseteq Data /\ inStale \subseteq Data /\ strayData \subseteq Data
  /\ repaired \in {"none", "ok", "failed"} /\ repairs \in 0..MaxRepairs
OwningFlags == {torn, rootUnrestored, lockLive} \subseteq BOOLEAN
OwningFiles ==
  reservedFiles \in [Owning!Reserved -> Owning!Owners] /\ staleReserved \in [Owning!Reserved -> Owning!Owners]
TokenTypes ==
  /\ token \in 0..MaxTokens /\ made \in 1..MaxTokens
  /\ loading \in [Loaders -> 0..MaxTokens] /\ loaded \subseteq 1..MaxTokens

OwningPlaces ==
  /\ repair # "idle" => repaired = "none"
  /\ ~torn => strayData = {}
  /\ repair \in {"inspecting", "settingAside", "dropping"} => inStale = {}
  /\ repair \in {"creating", "owning", "renamingBack"} => inRoot = {}
  /\ repair \in {"moving", "dropping"} => rootOwner = "me"
  /\ repair \in {"creating", "owning", "moving", "restoring", "renamingBack"} => ~lockLive

OwningTokens ==
  /\ repair # "idle" => loaded = {} /\ \A l \in Loaders : loading[l] = 0
  /\ \A l \in Loaders : loading[l] # 0 => token = 0 /\ reservedFiles["token"] = "me" /\ loaded = {}
  /\ \A l, m \in Loaders : loading[l] # 0 /\ loading[m] # 0 => l = m
  /\ loaded # {} => reservedFiles["token"] = "me"
  /\ Owning!TokensAgree

OwningInv ==
  /\ OwningTypes /\ OwningFlags /\ OwningFiles /\ TokenTypes
  /\ OwningPlaces /\ OwningTokens
  /\ Owning!NoDataIsLost /\ Owning!RepairedMeansWhole /\ Owning!FailedRebuildsAreUndone
  /\ Owning!LiveLocksStay

(* Whoever left the directory, the data is in it. *)
LEMMA OwningInit == Owning!InitRepair => OwningInv
<1>. SUFFICES ASSUME Owning!InitRepair PROVE OwningInv
  OBVIOUS
<1>. USE OwningAssumption DEF Owning!InitRepair
<1>1. OwningTypes
  BY DEF OwningTypes, Owning!RepairSteps, Owning!Owners
<1>2. OwningFlags
  <2>1. lockLive \in BOOLEAN
    BY Zenon
  <2>. QED
    BY <2>1 DEF OwningFlags
<1>3. OwningFiles
  BY DEF OwningFiles, Owning!Absent, Owning!Reserved, Owning!Owners
<1>4. TokenTypes
  BY DEF TokenTypes
<1>5. OwningPlaces /\ OwningTokens
  BY DEF OwningPlaces, OwningTokens, Owning!TokensAgree
<1>6. Owning!LiveLocksStay
  BY Zenon DEF Owning!LiveLocksStay
<1>7. Owning!NoDataIsLost /\ Owning!RepairedMeansWhole /\ Owning!FailedRebuildsAreUndone
  BY DEF Owning!NoDataIsLost, Owning!RepairedMeansWhole, Owning!FailedRebuildsAreUndone
<1>. QED
  BY <1>1, <1>2, <1>3, <1>4, <1>5, <1>6, <1>7 DEF OwningInv

(* Every step of the repair and of the loads keeps the invariant. *)
LEMMA OwningNext ==
  ASSUME OwningInv, Owning!NextRepair \/ UNCHANGED Owning!repairVars
  PROVE  OwningInv'
<1>. USE OwningAssumption DEF OwningInv, Owning!repairVars, Owning!root, Owning!aside, Owning!tokens, Owning!Goto
<1>1. CASE Owning!BeginRepair
  <2>1. OwningTypes' /\ OwningFlags'
    <3>1. OwningTypes'
      BY <1>1 DEF Owning!BeginRepair, OwningTypes, Owning!RepairSteps, Owning!Owners
    <3>2. torn' \in BOOLEAN /\ rootUnrestored' = FALSE /\ lockLive' = lockLive
      BY <1>1, Zenon DEF Owning!BeginRepair, OwningFlags
    <3>3. OwningFlags'
      BY <3>2 DEF OwningFlags
    <3>. QED
      BY <3>1, <3>3
  <2>2. OwningFiles'
    BY <1>1
       DEF Owning!BeginRepair, OwningFiles, Owning!Reserved, Owning!Owners, Owning!Absent
  <2>3. TokenTypes'
    BY <1>1 DEF Owning!BeginRepair, TokenTypes
  <2>4. OwningPlaces'
    BY <1>1 DEF Owning!BeginRepair, OwningPlaces, OwningFlags
  <2>5. OwningTokens'
    BY <1>1
       DEF Owning!BeginRepair, OwningTokens, Owning!TokensAgree, OwningFiles, TokenTypes,
          Owning!Reserved
  <2>6. Owning!NoDataIsLost'
    BY <1>1 DEF Owning!BeginRepair, Owning!NoDataIsLost, OwningPlaces, OwningTypes
  <2>7. Owning!RepairedMeansWhole'
    BY <1>1
       DEF Owning!BeginRepair, Owning!RepairedMeansWhole, Owning!NoDataIsLost, OwningFiles,
          OwningPlaces, OwningTypes, OwningFlags, Owning!Reserved, Owning!Owners
  <2>8. Owning!FailedRebuildsAreUndone'
    BY <1>1
       DEF Owning!BeginRepair, Owning!FailedRebuildsAreUndone, Owning!NoDataIsLost,
          OwningPlaces, OwningTypes, OwningFlags
  <2>9. Owning!LiveLocksStay'
    BY <1>1
       DEF Owning!BeginRepair, Owning!LiveLocksStay, OwningFiles, OwningPlaces,
          Owning!Reserved
  <2>. QED
    BY <2>1, <2>2, <2>3, <2>4, <2>5, <2>6, <2>7, <2>8, <2>9
<1>2. CASE Owning!Inspect
  <2>1. OwningTypes' /\ OwningFlags'
    BY <1>2
       DEF Owning!Inspect, Owning!Undone, Owning!Failed, OwningTypes, OwningFlags,
          Owning!RepairSteps, Owning!Owners
  <2>2. OwningFiles'
    BY <1>2
       DEF Owning!Inspect, Owning!Undone, Owning!Failed, OwningFiles, Owning!Reserved,
          Owning!Owners, Owning!Absent
  <2>3. TokenTypes'
    BY <1>2 DEF Owning!Inspect, Owning!Undone, Owning!Failed, TokenTypes
  <2>4. OwningPlaces'
    BY <1>2 DEF Owning!Inspect, Owning!Undone, Owning!Failed, OwningPlaces, OwningFlags
  <2>5. OwningTokens'
    BY <1>2
       DEF Owning!Inspect, Owning!Undone, Owning!Failed, OwningTokens, Owning!TokensAgree,
          OwningFiles, TokenTypes, Owning!Reserved
  <2>6. Owning!NoDataIsLost'
    BY <1>2
       DEF Owning!Inspect, Owning!Undone, Owning!Failed, Owning!NoDataIsLost, OwningPlaces,
          OwningTypes
  <2>7. Owning!RepairedMeansWhole'
    BY <1>2
       DEF Owning!Inspect, Owning!Undone, Owning!Failed, Owning!RepairedMeansWhole,
          Owning!NoDataIsLost, OwningFiles, OwningPlaces, OwningTypes, OwningFlags,
          Owning!Reserved, Owning!Owners
  <2>8. Owning!FailedRebuildsAreUndone'
    BY <1>2
       DEF Owning!Inspect, Owning!Undone, Owning!Failed, Owning!FailedRebuildsAreUndone,
          Owning!NoDataIsLost, OwningPlaces, OwningTypes, OwningFlags
  <2>9. Owning!LiveLocksStay'
    BY <1>2
       DEF Owning!Inspect, Owning!Undone, Owning!Failed, Owning!LiveLocksStay, OwningFiles,
          OwningPlaces, Owning!Reserved
  <2>. QED
    BY <2>1, <2>2, <2>3, <2>4, <2>5, <2>6, <2>7, <2>8, <2>9
<1>3. CASE Owning!SetRootAside
  <2>1. OwningTypes' /\ OwningFlags'
    BY <1>3
       DEF Owning!SetRootAside, Owning!LockMoves, Owning!Undone, Owning!Failed, OwningTypes,
          OwningFlags, Owning!RepairSteps, Owning!Owners
  <2>2. OwningFiles'
    BY <1>3
       DEF Owning!SetRootAside, Owning!LockMoves, Owning!Undone, Owning!Failed, OwningFiles,
          Owning!Reserved, Owning!Owners, Owning!Absent
  <2>3. TokenTypes'
    BY <1>3
       DEF Owning!SetRootAside, Owning!LockMoves, Owning!Undone, Owning!Failed, TokenTypes
  <2>4. OwningPlaces'
    BY <1>3
       DEF Owning!SetRootAside, Owning!LockMoves, Owning!Undone, Owning!Failed,
          OwningPlaces, OwningFlags
  <2>5. OwningTokens'
    BY <1>3
       DEF Owning!SetRootAside, Owning!LockMoves, Owning!Undone, Owning!Failed,
          OwningTokens, Owning!TokensAgree, OwningFiles, TokenTypes, Owning!Reserved
  <2>6. Owning!NoDataIsLost'
    BY <1>3
       DEF Owning!SetRootAside, Owning!LockMoves, Owning!Undone, Owning!Failed,
          Owning!NoDataIsLost, OwningPlaces, OwningTypes
  <2>7. Owning!RepairedMeansWhole'
    BY <1>3
       DEF Owning!SetRootAside, Owning!LockMoves, Owning!Undone, Owning!Failed,
          Owning!RepairedMeansWhole, Owning!NoDataIsLost, OwningFiles, OwningPlaces,
          OwningTypes, OwningFlags, Owning!Reserved, Owning!Owners
  <2>8. Owning!FailedRebuildsAreUndone'
    BY <1>3
       DEF Owning!SetRootAside, Owning!LockMoves, Owning!Undone, Owning!Failed,
          Owning!FailedRebuildsAreUndone, Owning!NoDataIsLost, OwningPlaces, OwningTypes,
          OwningFlags
  <2>9. Owning!LiveLocksStay'
    BY <1>3
       DEF Owning!SetRootAside, Owning!LockMoves, Owning!Undone, Owning!Failed,
          Owning!LiveLocksStay, OwningFiles, OwningPlaces, Owning!Reserved
  <2>. QED
    BY <2>1, <2>2, <2>3, <2>4, <2>5, <2>6, <2>7, <2>8, <2>9
<1>4. CASE Owning!CreateRoot
  <2>1. OwningTypes' /\ OwningFlags'
    BY <1>4
       DEF Owning!CreateRoot, Owning!PutBackWhole, Owning!Undone, Owning!Split,
          Owning!Failed, OwningTypes, OwningFlags, Owning!RepairSteps, Owning!Owners
  <2>2. OwningFiles'
    BY <1>4
       DEF Owning!CreateRoot, Owning!PutBackWhole, Owning!Undone, Owning!Split,
          Owning!Failed, OwningFiles, Owning!Reserved, Owning!Owners, Owning!Absent
  <2>3. TokenTypes'
    BY <1>4
       DEF Owning!CreateRoot, Owning!PutBackWhole, Owning!Undone, Owning!Split,
          Owning!Failed, TokenTypes
  <2>4. OwningPlaces'
    BY <1>4
       DEF Owning!CreateRoot, Owning!PutBackWhole, Owning!Undone, Owning!Split,
          Owning!Failed, OwningPlaces, OwningFlags
  <2>5. OwningTokens'
    BY <1>4
       DEF Owning!CreateRoot, Owning!PutBackWhole, Owning!Undone, Owning!Split,
          Owning!Failed, OwningTokens, Owning!TokensAgree, OwningFiles, TokenTypes,
          Owning!Reserved
  <2>6. Owning!NoDataIsLost'
    BY <1>4
       DEF Owning!CreateRoot, Owning!PutBackWhole, Owning!Undone, Owning!Split,
          Owning!Failed, Owning!NoDataIsLost, OwningPlaces, OwningTypes
  <2>7. Owning!RepairedMeansWhole'
    BY <1>4
       DEF Owning!CreateRoot, Owning!PutBackWhole, Owning!Undone, Owning!Split,
          Owning!Failed, Owning!RepairedMeansWhole, Owning!NoDataIsLost, OwningFiles,
          OwningPlaces, OwningTypes, OwningFlags, Owning!Reserved, Owning!Owners
  <2>8. Owning!FailedRebuildsAreUndone'
    BY <1>4
       DEF Owning!CreateRoot, Owning!PutBackWhole, Owning!Undone, Owning!Split,
          Owning!Failed, Owning!FailedRebuildsAreUndone, Owning!NoDataIsLost, OwningPlaces,
          OwningTypes, OwningFlags
  <2>9. Owning!LiveLocksStay'
    BY <1>4
       DEF Owning!CreateRoot, Owning!PutBackWhole, Owning!Undone, Owning!Split,
          Owning!Failed, Owning!LiveLocksStay, OwningFiles, OwningPlaces, Owning!Reserved
  <2>. QED
    BY <2>1, <2>2, <2>3, <2>4, <2>5, <2>6, <2>7, <2>8, <2>9
<1>5. CASE Owning!OwnRoot
  <2>1. OwningTypes' /\ OwningFlags'
    BY <1>5 DEF Owning!OwnRoot, OwningTypes, OwningFlags, Owning!RepairSteps, Owning!Owners
  <2>2. OwningFiles'
    BY <1>5 DEF Owning!OwnRoot, OwningFiles, Owning!Reserved, Owning!Owners, Owning!Absent
  <2>3. TokenTypes'
    BY <1>5 DEF Owning!OwnRoot, TokenTypes
  <2>4. OwningPlaces'
    BY <1>5 DEF Owning!OwnRoot, OwningPlaces, OwningFlags
  <2>5. OwningTokens'
    BY <1>5
       DEF Owning!OwnRoot, OwningTokens, Owning!TokensAgree, OwningFiles, TokenTypes,
          Owning!Reserved
  <2>6. Owning!NoDataIsLost'
    BY <1>5 DEF Owning!OwnRoot, Owning!NoDataIsLost, OwningPlaces, OwningTypes
  <2>7. Owning!RepairedMeansWhole'
    BY <1>5
       DEF Owning!OwnRoot, Owning!RepairedMeansWhole, Owning!NoDataIsLost, OwningFiles,
          OwningPlaces, OwningTypes, OwningFlags, Owning!Reserved, Owning!Owners
  <2>8. Owning!FailedRebuildsAreUndone'
    BY <1>5
       DEF Owning!OwnRoot, Owning!FailedRebuildsAreUndone, Owning!NoDataIsLost,
          OwningPlaces, OwningTypes, OwningFlags
  <2>9. Owning!LiveLocksStay'
    BY <1>5
       DEF Owning!OwnRoot, Owning!LiveLocksStay, OwningFiles, OwningPlaces, Owning!Reserved
  <2>. QED
    BY <2>1, <2>2, <2>3, <2>4, <2>5, <2>6, <2>7, <2>8, <2>9
<1>6. CASE Owning!MoveEntry
  <2>1. OwningTypes' /\ OwningFlags'
    BY <1>6
       DEF Owning!MoveEntry, OwningTypes, OwningFlags, Owning!RepairSteps, Owning!Owners
  <2>2. OwningFiles'
    BY <1>6 DEF Owning!MoveEntry, OwningFiles, Owning!Reserved, Owning!Owners, Owning!Absent
  <2>3. TokenTypes'
    BY <1>6 DEF Owning!MoveEntry, TokenTypes
  <2>4. OwningPlaces'
    BY <1>6 DEF Owning!MoveEntry, OwningPlaces, OwningFlags
  <2>5. OwningTokens'
    BY <1>6
       DEF Owning!MoveEntry, OwningTokens, Owning!TokensAgree, OwningFiles, TokenTypes,
          Owning!Reserved
  <2>6. Owning!NoDataIsLost'
    BY <1>6 DEF Owning!MoveEntry, Owning!NoDataIsLost, OwningPlaces, OwningTypes
  <2>7. Owning!RepairedMeansWhole'
    BY <1>6
       DEF Owning!MoveEntry, Owning!RepairedMeansWhole, Owning!NoDataIsLost, OwningFiles,
          OwningPlaces, OwningTypes, OwningFlags, Owning!Reserved, Owning!Owners
  <2>8. Owning!FailedRebuildsAreUndone'
    BY <1>6
       DEF Owning!MoveEntry, Owning!FailedRebuildsAreUndone, Owning!NoDataIsLost,
          OwningPlaces, OwningTypes, OwningFlags
  <2>9. Owning!LiveLocksStay'
    BY <1>6
       DEF Owning!MoveEntry, Owning!LiveLocksStay, OwningFiles, OwningPlaces,
          Owning!Reserved
  <2>. QED
    BY <2>1, <2>2, <2>3, <2>4, <2>5, <2>6, <2>7, <2>8, <2>9
<1>7. CASE Owning!RestoreEntry
  <2>1. OwningTypes' /\ OwningFlags'
    BY <1>7
       DEF Owning!RestoreEntry, Owning!Split, Owning!Failed, OwningTypes, OwningFlags,
          Owning!RepairSteps, Owning!Owners
  <2>2. OwningFiles'
    BY <1>7
       DEF Owning!RestoreEntry, Owning!Split, Owning!Failed, OwningFiles, Owning!Reserved,
          Owning!Owners, Owning!Absent
  <2>3. TokenTypes'
    BY <1>7 DEF Owning!RestoreEntry, Owning!Split, Owning!Failed, TokenTypes
  <2>4. OwningPlaces'
    BY <1>7 DEF Owning!RestoreEntry, Owning!Split, Owning!Failed, OwningPlaces, OwningFlags
  <2>5. OwningTokens'
    BY <1>7
       DEF Owning!RestoreEntry, Owning!Split, Owning!Failed, OwningTokens,
          Owning!TokensAgree, OwningFiles, TokenTypes, Owning!Reserved
  <2>6. Owning!NoDataIsLost'
    BY <1>7
       DEF Owning!RestoreEntry, Owning!Split, Owning!Failed, Owning!NoDataIsLost,
          OwningPlaces, OwningTypes
  <2>7. Owning!RepairedMeansWhole'
    BY <1>7
       DEF Owning!RestoreEntry, Owning!Split, Owning!Failed, Owning!RepairedMeansWhole,
          Owning!NoDataIsLost, OwningFiles, OwningPlaces, OwningTypes, OwningFlags,
          Owning!Reserved, Owning!Owners
  <2>8. Owning!FailedRebuildsAreUndone'
    BY <1>7
       DEF Owning!RestoreEntry, Owning!Split, Owning!Failed, Owning!FailedRebuildsAreUndone,
          Owning!NoDataIsLost, OwningPlaces, OwningTypes, OwningFlags
  <2>9. Owning!LiveLocksStay'
    BY <1>7
       DEF Owning!RestoreEntry, Owning!Split, Owning!Failed, Owning!LiveLocksStay,
          OwningFiles, OwningPlaces, Owning!Reserved
  <2>. QED
    BY <2>1, <2>2, <2>3, <2>4, <2>5, <2>6, <2>7, <2>8, <2>9
<1>8. CASE Owning!RenameBack
  <2>1. OwningTypes' /\ OwningFlags'
    BY <1>8
       DEF Owning!RenameBack, Owning!PutBackWhole, Owning!Undone, Owning!Split,
          Owning!Failed, OwningTypes, OwningFlags, Owning!RepairSteps, Owning!Owners
  <2>2. OwningFiles'
    BY <1>8
       DEF Owning!RenameBack, Owning!PutBackWhole, Owning!Undone, Owning!Split,
          Owning!Failed, OwningFiles, Owning!Reserved, Owning!Owners, Owning!Absent
  <2>3. TokenTypes'
    BY <1>8
       DEF Owning!RenameBack, Owning!PutBackWhole, Owning!Undone, Owning!Split,
          Owning!Failed, TokenTypes
  <2>4. OwningPlaces'
    BY <1>8
       DEF Owning!RenameBack, Owning!PutBackWhole, Owning!Undone, Owning!Split,
          Owning!Failed, OwningPlaces, OwningFlags
  <2>5. OwningTokens'
    BY <1>8
       DEF Owning!RenameBack, Owning!PutBackWhole, Owning!Undone, Owning!Split,
          Owning!Failed, OwningTokens, Owning!TokensAgree, OwningFiles, TokenTypes,
          Owning!Reserved
  <2>6. Owning!NoDataIsLost'
    BY <1>8
       DEF Owning!RenameBack, Owning!PutBackWhole, Owning!Undone, Owning!Split,
          Owning!Failed, Owning!NoDataIsLost, OwningPlaces, OwningTypes
  <2>7. Owning!RepairedMeansWhole'
    BY <1>8
       DEF Owning!RenameBack, Owning!PutBackWhole, Owning!Undone, Owning!Split,
          Owning!Failed, Owning!RepairedMeansWhole, Owning!NoDataIsLost, OwningFiles,
          OwningPlaces, OwningTypes, OwningFlags, Owning!Reserved, Owning!Owners
  <2>8. Owning!FailedRebuildsAreUndone'
    BY <1>8
       DEF Owning!RenameBack, Owning!PutBackWhole, Owning!Undone, Owning!Split,
          Owning!Failed, Owning!FailedRebuildsAreUndone, Owning!NoDataIsLost, OwningPlaces,
          OwningTypes, OwningFlags
  <2>9. Owning!LiveLocksStay'
    BY <1>8
       DEF Owning!RenameBack, Owning!PutBackWhole, Owning!Undone, Owning!Split,
          Owning!Failed, Owning!LiveLocksStay, OwningFiles, OwningPlaces, Owning!Reserved
  <2>. QED
    BY <2>1, <2>2, <2>3, <2>4, <2>5, <2>6, <2>7, <2>8, <2>9
<1>9. CASE Owning!DropFiles
  <2>1. OwningTypes' /\ OwningFlags'
    BY <1>9
       DEF Owning!DropFiles, Owning!Undone, Owning!Failed, OwningTypes, OwningFlags,
          Owning!RepairSteps, Owning!Owners
  <2>2. OwningFiles'
    BY <1>9
       DEF Owning!DropFiles, Owning!Undone, Owning!Failed, OwningFiles, Owning!Reserved,
          Owning!Owners, Owning!Absent
  <2>3. TokenTypes'
    BY <1>9 DEF Owning!DropFiles, Owning!Undone, Owning!Failed, TokenTypes
  <2>4. OwningPlaces'
    BY <1>9 DEF Owning!DropFiles, Owning!Undone, Owning!Failed, OwningPlaces, OwningFlags
  <2>5. OwningTokens'
    BY <1>9
       DEF Owning!DropFiles, Owning!Undone, Owning!Failed, OwningTokens, Owning!TokensAgree,
          OwningFiles, TokenTypes, Owning!Reserved
  <2>6. Owning!NoDataIsLost'
    BY <1>9
       DEF Owning!DropFiles, Owning!Undone, Owning!Failed, Owning!NoDataIsLost,
          OwningPlaces, OwningTypes
  <2>7. Owning!RepairedMeansWhole'
    BY <1>9
       DEF Owning!DropFiles, Owning!Undone, Owning!Failed, Owning!RepairedMeansWhole,
          Owning!NoDataIsLost, OwningFiles, OwningPlaces, OwningTypes, OwningFlags,
          Owning!Reserved, Owning!Owners
  <2>8. Owning!FailedRebuildsAreUndone'
    BY <1>9
       DEF Owning!DropFiles, Owning!Undone, Owning!Failed, Owning!FailedRebuildsAreUndone,
          Owning!NoDataIsLost, OwningPlaces, OwningTypes, OwningFlags
  <2>9. Owning!LiveLocksStay'
    BY <1>9
       DEF Owning!DropFiles, Owning!Undone, Owning!Failed, Owning!LiveLocksStay,
          OwningFiles, OwningPlaces, Owning!Reserved
  <2>. QED
    BY <2>1, <2>2, <2>3, <2>4, <2>5, <2>6, <2>7, <2>8, <2>9
<1>10. CASE Owning!KilledInRepair
  <2>1. OwningTypes' /\ OwningFlags'
    BY <1>10
       DEF Owning!KilledInRepair, OwningTypes, OwningFlags, Owning!RepairSteps,
          Owning!Owners
  <2>2. OwningFiles'
    BY <1>10
       DEF Owning!KilledInRepair, OwningFiles, Owning!Reserved, Owning!Owners, Owning!Absent
  <2>3. TokenTypes'
    BY <1>10 DEF Owning!KilledInRepair, TokenTypes
  <2>4. OwningPlaces'
    BY <1>10 DEF Owning!KilledInRepair, OwningPlaces, OwningFlags
  <2>5. OwningTokens'
    BY <1>10
       DEF Owning!KilledInRepair, OwningTokens, Owning!TokensAgree, OwningFiles, TokenTypes,
          Owning!Reserved
  <2>6. Owning!NoDataIsLost'
    BY <1>10 DEF Owning!KilledInRepair, Owning!NoDataIsLost, OwningPlaces, OwningTypes
  <2>7. Owning!RepairedMeansWhole'
    BY <1>10
       DEF Owning!KilledInRepair, Owning!RepairedMeansWhole, Owning!NoDataIsLost,
          OwningFiles, OwningPlaces, OwningTypes, OwningFlags, Owning!Reserved,
          Owning!Owners
  <2>8. Owning!FailedRebuildsAreUndone'
    BY <1>10
       DEF Owning!KilledInRepair, Owning!FailedRebuildsAreUndone, Owning!NoDataIsLost,
          OwningPlaces, OwningTypes, OwningFlags
  <2>9. Owning!LiveLocksStay'
    BY <1>10
       DEF Owning!KilledInRepair, Owning!LiveLocksStay, OwningFiles, OwningPlaces,
          Owning!Reserved
  <2>. QED
    BY <2>1, <2>2, <2>3, <2>4, <2>5, <2>6, <2>7, <2>8, <2>9
<1>11. ASSUME NEW l \in Loaders, Owning!MakeToken(l) PROVE OwningInv'
  <2>1. OwningTypes' /\ OwningFlags'
    BY <1>11
       DEF Owning!MakeToken, Owning!Working, OwningTypes, OwningFlags, Owning!RepairSteps,
          Owning!Owners
  <2>2. OwningFiles'
    BY <1>11
       DEF Owning!MakeToken, Owning!Working, OwningFiles, Owning!Reserved, Owning!Owners,
          Owning!Absent
  <2>3. TokenTypes'
    BY <1>11 DEF Owning!MakeToken, Owning!Working, TokenTypes
  <2>4. OwningPlaces'
    BY <1>11 DEF Owning!MakeToken, Owning!Working, OwningPlaces, OwningFlags
  <2>5. OwningTokens'
    BY <1>11
       DEF Owning!MakeToken, Owning!Working, OwningTokens, Owning!TokensAgree, OwningFiles,
          TokenTypes, Owning!Reserved
  <2>6. Owning!NoDataIsLost'
    BY <1>11
       DEF Owning!MakeToken, Owning!Working, Owning!NoDataIsLost, OwningPlaces, OwningTypes
  <2>7. Owning!RepairedMeansWhole'
    BY <1>11
       DEF Owning!MakeToken, Owning!Working, Owning!RepairedMeansWhole, Owning!NoDataIsLost,
          OwningFiles, OwningPlaces, OwningTypes, OwningFlags, Owning!Reserved,
          Owning!Owners
  <2>8. Owning!FailedRebuildsAreUndone'
    BY <1>11
       DEF Owning!MakeToken, Owning!Working, Owning!FailedRebuildsAreUndone,
          Owning!NoDataIsLost, OwningPlaces, OwningTypes, OwningFlags
  <2>9. Owning!LiveLocksStay'
    BY <1>11
       DEF Owning!MakeToken, Owning!Working, Owning!LiveLocksStay, OwningFiles,
          OwningPlaces, Owning!Reserved
  <2>. QED
    BY <2>1, <2>2, <2>3, <2>4, <2>5, <2>6, <2>7, <2>8, <2>9
<1>12. ASSUME NEW l \in Loaders, Owning!WriteToken(l) PROVE OwningInv'
  <2>1. OwningTypes' /\ OwningFlags'
    BY <1>12
       DEF Owning!WriteToken, OwningTypes, OwningFlags, Owning!RepairSteps, Owning!Owners
  <2>2. OwningFiles'
    BY <1>12
       DEF Owning!WriteToken, OwningFiles, Owning!Reserved, Owning!Owners, Owning!Absent
  <2>3. TokenTypes'
    <3>1. loading[l] \in 1..MaxTokens
      BY <1>12 DEF Owning!WriteToken, TokenTypes
    <3>2. loading' \in [Loaders -> 0..MaxTokens]
      BY <1>12 DEF Owning!WriteToken, TokenTypes
    <3>3. token' \in 0..MaxTokens /\ loaded' \subseteq 1..MaxTokens /\ made' \in 1..MaxTokens
      BY <1>12, <3>1 DEF Owning!WriteToken, TokenTypes
    <3>. QED
      BY <3>2, <3>3 DEF TokenTypes
  <2>4. OwningPlaces'
    BY <1>12 DEF Owning!WriteToken, OwningPlaces, OwningFlags
  <2>5. OwningTokens'
    BY <1>12
       DEF Owning!WriteToken, OwningTokens, Owning!TokensAgree, OwningFiles, TokenTypes,
          Owning!Reserved
  <2>6. Owning!NoDataIsLost'
    BY <1>12 DEF Owning!WriteToken, Owning!NoDataIsLost, OwningPlaces, OwningTypes
  <2>7. Owning!RepairedMeansWhole'
    BY <1>12
       DEF Owning!WriteToken, Owning!RepairedMeansWhole, Owning!NoDataIsLost, OwningFiles,
          OwningPlaces, OwningTypes, OwningFlags, Owning!Reserved, Owning!Owners
  <2>8. Owning!FailedRebuildsAreUndone'
    BY <1>12
       DEF Owning!WriteToken, Owning!FailedRebuildsAreUndone, Owning!NoDataIsLost,
          OwningPlaces, OwningTypes, OwningFlags
  <2>9. Owning!LiveLocksStay'
    BY <1>12
       DEF Owning!WriteToken, Owning!LiveLocksStay, OwningFiles, OwningPlaces,
          Owning!Reserved
  <2>. QED
    BY <2>1, <2>2, <2>3, <2>4, <2>5, <2>6, <2>7, <2>8, <2>9
<1>13. ASSUME NEW l \in Loaders, Owning!LoadToken(l) PROVE OwningInv'
  <2>1. OwningTypes' /\ OwningFlags'
    BY <1>13
       DEF Owning!LoadToken, Owning!Working, Owning!Validated, OwningTypes, OwningFlags,
          Owning!RepairSteps, Owning!Owners
  <2>2. OwningFiles'
    BY <1>13
       DEF Owning!LoadToken, Owning!Working, Owning!Validated, OwningFiles, Owning!Reserved,
          Owning!Owners, Owning!Absent
  <2>3. TokenTypes'
    BY <1>13 DEF Owning!LoadToken, Owning!Working, Owning!Validated, TokenTypes
  <2>4. OwningPlaces'
    BY <1>13
       DEF Owning!LoadToken, Owning!Working, Owning!Validated, OwningPlaces, OwningFlags
  <2>5. OwningTokens'
    <3>1. loaded' = {token} /\ reservedFiles["token"] = "me" /\ repair = "idle" /\ loading[l] = 0
      BY <1>13 DEF Owning!LoadToken, Owning!Working, Owning!Validated, OwningTokens, Owning!TokensAgree
    <3>2. \A m \in Loaders : loading[m] = 0
      BY <1>13 DEF Owning!LoadToken, OwningTokens, Owning!TokensAgree, TokenTypes
    <3>. QED
      BY <1>13, <3>1, <3>2 DEF Owning!LoadToken, OwningTokens, Owning!TokensAgree
  <2>6. Owning!NoDataIsLost'
    BY <1>13
       DEF Owning!LoadToken, Owning!Working, Owning!Validated, Owning!NoDataIsLost,
          OwningPlaces, OwningTypes
  <2>7. Owning!RepairedMeansWhole'
    BY <1>13
       DEF Owning!LoadToken, Owning!Working, Owning!Validated, Owning!RepairedMeansWhole,
          Owning!NoDataIsLost, OwningFiles, OwningPlaces, OwningTypes, OwningFlags,
          Owning!Reserved, Owning!Owners
  <2>8. Owning!FailedRebuildsAreUndone'
    BY <1>13
       DEF Owning!LoadToken, Owning!Working, Owning!Validated,
          Owning!FailedRebuildsAreUndone, Owning!NoDataIsLost, OwningPlaces, OwningTypes,
          OwningFlags
  <2>9. Owning!LiveLocksStay'
    BY <1>13
       DEF Owning!LoadToken, Owning!Working, Owning!Validated, Owning!LiveLocksStay,
          OwningFiles, OwningPlaces, Owning!Reserved
  <2>. QED
    BY <2>1, <2>2, <2>3, <2>4, <2>5, <2>6, <2>7, <2>8, <2>9
<1>14. CASE UNCHANGED Owning!repairVars
  <2>1. OwningTypes' /\ OwningFlags'
    BY <1>14 DEF OwningTypes, OwningFlags, Owning!RepairSteps, Owning!Owners
  <2>2. OwningFiles'
    BY <1>14 DEF OwningFiles, Owning!Reserved, Owning!Owners, Owning!Absent
  <2>3. TokenTypes'
    BY <1>14 DEF TokenTypes
  <2>4. OwningPlaces'
    BY <1>14 DEF OwningPlaces, OwningFlags
  <2>5. OwningTokens'
    BY <1>14 DEF OwningTokens, Owning!TokensAgree, OwningFiles, TokenTypes, Owning!Reserved
  <2>6. Owning!NoDataIsLost'
    BY <1>14 DEF Owning!NoDataIsLost, OwningPlaces, OwningTypes
  <2>7. Owning!RepairedMeansWhole'
    BY <1>14
       DEF Owning!RepairedMeansWhole, Owning!NoDataIsLost, OwningFiles, OwningPlaces,
          OwningTypes, OwningFlags, Owning!Reserved, Owning!Owners
  <2>8. Owning!FailedRebuildsAreUndone'
    BY <1>14
       DEF Owning!FailedRebuildsAreUndone, Owning!NoDataIsLost, OwningPlaces, OwningTypes,
          OwningFlags
  <2>9. Owning!LiveLocksStay'
    BY <1>14 DEF Owning!LiveLocksStay, OwningFiles, OwningPlaces, Owning!Reserved
  <2>. QED
    BY <2>1, <2>2, <2>3, <2>4, <2>5, <2>6, <2>7, <2>8, <2>9
<1>. QED
  BY <1>1, <1>2, <1>3, <1>4, <1>5, <1>6, <1>7, <1>8, <1>9, <1>10, <1>11, <1>12, <1>13, <1>14
     DEF Owning!NextRepair

(* What the invariant shows. *)
LEMMA OwningShows ==
  OwningInv => /\ Owning!TypeOK /\ Owning!NoDataIsLost /\ Owning!FailedRebuildsAreUndone
               /\ Owning!LiveLocksStay /\ Owning!RepairedMeansWhole /\ Owning!TokensAgree
<1>. SUFFICES ASSUME OwningInv PROVE Owning!TypeOK
  BY DEF OwningInv, OwningTokens
<1>. QED
  BY DEF OwningInv, OwningTypes, OwningFlags, OwningFiles, TokenTypes, Owning!TypeOK

-----------------------------------------------------------------------------
(* The shortcuts.  KeysAreKnown holds at every time: a key that is registered  *)
(* is one of the list, or one that the update is about to take away.           *)
(* KeysAreThere holds while the shortcuts are due: a key of the list is        *)
(* registered, or the update is about to add it.                               *)

Shortcuts == Functions \cup {"none"}
PressTypes ==
  /\ hotkeys \in Pressing!Lists /\ current \in Pressing!Lists /\ foreign \subseteq ShortcutKeys
  /\ bound \in [ShortcutKeys \cup {"cmd"} -> Functions \cup {"none", "quit"}]
  /\ presses \subseteq ShortcutKeys /\ focusChanges \in 0..MaxFocus /\ updates \in 0..MaxUpdates
UpdateTypes ==
  update \in [at : {"idle", "deleting", "adding"}, list : Pressing!Lists, todo : SUBSET ShortcutKeys,
              del : SUBSET ShortcutKeys]
PressFlags == {mac, global, focus, focusCrossed, unbound} \subseteq BOOLEAN
RanTypes == ran \in [focused : BOOLEAN, global : BOOLEAN]
FocusTypes == focusTasks \subseteq [on : BOOLEAN, n : 1..MaxFocus, at : {"begun", "global", "window"}]

FocusTold ==
  /\ \A t \in focusTasks : (t.at = "global" => global) /\ (t.at = "window" => ~global)
  /\ ~focusCrossed => \A t \in focusTasks : t.on = focus /\ focusTasks = {t}

InOrder == ~focusCrossed /\ ~unbound
KeysAreDue == global \/ (focus /\ focusTasks = {})
KeysAreKnown ==
  InOrder =>
    /\ update.at = "idle" =>
         /\ \A k \in ShortcutKeys : bound[k] \in {"none", hotkeys[k]}
         /\ \/ \A k \in ShortcutKeys : current[k] = hotkeys[k]
            \/ \A k \in ShortcutKeys : current[k] = "none" /\ bound[k] = "none"
    /\ update.at = "deleting" =>
         \A k \in ShortcutKeys : bound[k] \in {"none", update.list[k]} \/ k \in update.del
    /\ update.at = "adding" => \A k \in ShortcutKeys : bound[k] \in {"none", update.list[k]}
    /\ \A k \in update.del : update.list[k] # "none" => update.at = "adding" \/ k \in update.todo
KeysAreThere ==
  InOrder /\ KeysAreDue =>
    /\ update.at = "idle" =>
         /\ \A k \in ShortcutKeys : current[k] = hotkeys[k]
         /\ \A k \in ShortcutKeys \ foreign : bound[k] = hotkeys[k]
    /\ update.at = "deleting" =>
         \A k \in ShortcutKeys \ foreign : k \in update.todo \/ k \in update.del \/ bound[k] = update.list[k]
    /\ update.at = "adding" =>
         \A k \in ShortcutKeys \ foreign : k \in update.todo \/ bound[k] = update.list[k]

PressInv ==
  /\ PressTypes /\ UpdateTypes /\ PressFlags /\ RanTypes /\ FocusTypes /\ FocusTold
  /\ KeysAreKnown /\ KeysAreThere /\ Pressing!WindowKeysNeedTheWindow

(* No update is under way. *)
LEMMA PressingIdle ==
  /\ Pressing!Idle \in [at : {"idle", "deleting", "adding"}, list : Pressing!Lists,
                       todo : SUBSET ShortcutKeys, del : SUBSET ShortcutKeys]
  /\ Pressing!Idle.at = "idle" /\ Pressing!Idle.del = {}
BY DEF Pressing!Idle, Pressing!Lists, Pressing!Nothing

(* At the start the list is registered, or nothing is. *)
LEMMA PressingInit == Pressing!InitHotkeys => PressInv
<1>. SUFFICES ASSUME Pressing!InitHotkeys PROVE PressInv
  OBVIOUS
<1>. USE PressingAssumption DEF Pressing!InitHotkeys
<1>1. \A k \in ShortcutKeys :
        /\ bound[k] = IF global /\ hotkeys[k] # "none" /\ k \notin foreign THEN hotkeys[k] ELSE "none"
        /\ current[k] = IF global THEN hotkeys[k] ELSE "none"
  BY DEF Pressing!Registered, Pressing!Nothing
<1>2. PressTypes
  <2>1. hotkeys \in Pressing!Lists /\ current \in Pressing!Lists
    BY DEF Pressing!Lists, Pressing!Nothing
  <2>2. bound \in [ShortcutKeys \cup {"cmd"} -> Functions \cup {"none", "quit"}]
    BY <2>1 DEF Pressing!Registered, Pressing!Lists
  <2>. QED
    BY <2>1, <2>2 DEF PressTypes
<1>3. UpdateTypes /\ update.at = "idle" /\ update.del = {}
  BY DEF UpdateTypes, Pressing!Idle, Pressing!Lists, Pressing!Nothing
<1>4. PressFlags
  <2>1. mac \in BOOLEAN /\ global \in BOOLEAN
    OBVIOUS
  <2>. QED
    BY <2>1 DEF PressFlags
<1>5. RanTypes /\ Pressing!WindowKeysNeedTheWindow
  <2>1. global \in BOOLEAN
    OBVIOUS
  <2>. QED
    BY <2>1 DEF RanTypes, Pressing!WindowKeysNeedTheWindow
<1>6. FocusTypes /\ FocusTold
  BY DEF FocusTypes, FocusTold
<1>7. KeysAreKnown
  BY <1>1, <1>3 DEF KeysAreKnown, PressTypes
<1>8. KeysAreThere
  <2>1. KeysAreDue => global
    BY DEF KeysAreDue
  <2>2. global => \A k \in ShortcutKeys \ foreign : bound[k] = hotkeys[k]
    BY <1>1
  <2>. QED
    BY <1>1, <1>3, <2>1, <2>2 DEF KeysAreThere
<1>. QED
  BY <1>2, <1>3, <1>4, <1>5, <1>6, <1>7, <1>8 DEF PressInv

(* Every step of the focus, of an update and of a press keeps the invariant. *)
LEMMA PressingNext ==
  ASSUME PressInv, Pressing!NextHotkeys \/ UNCHANGED Pressing!hotkeyVars
  PROVE  PressInv'
<1>. USE PressingAssumption DEF PressInv, Pressing!hotkeyVars, Pressing!fixed, Pressing!binding, Pressing!window,
          Pressing!spent
<1>0. update.del \subseteq ShortcutKeys /\ update.at \in {"idle", "deleting", "adding"}
  BY DEF UpdateTypes
<1>1. CASE Pressing!Focus
  <2>1. UNCHANGED <<hotkeys, current, foreign, bound, update, unbound, global>>
    BY <1>1
       DEF Pressing!Focus, Pressing!binding, Pressing!fixed, Pressing!window, Pressing!spent
  <2>2. (focusCrossed' = FALSE => focusCrossed = FALSE) /\ focusTasks' # {}
    BY <1>1 DEF Pressing!Focus, PressFlags
  <2>3. PressTypes'
    BY <1>1, <2>1, <2>2 DEF Pressing!Focus, PressTypes, UpdateTypes, Pressing!Lists
  <2>4. UpdateTypes'
    BY <1>1, <2>1, <2>2, PressingIdle DEF Pressing!Focus, UpdateTypes
  <2>5. PressFlags'
    BY <1>1, <2>1, <2>2 DEF Pressing!Focus, PressFlags
  <2>6. RanTypes' /\ Pressing!WindowKeysNeedTheWindow'
    BY <1>1, <2>1, <2>2 DEF Pressing!Focus, RanTypes, Pressing!WindowKeysNeedTheWindow
  <2>7. FocusTypes'
    <3> DEFINE Rec == [on : BOOLEAN, n : 1..MaxFocus, at : {"begun", "global", "window"}]
               begun == [on |-> ~focus, n |-> focusChanges + 1, at |-> "begun"]
    <3>1. focusChanges + 1 \in 1..MaxFocus
      BY <1>1 DEF Pressing!Focus, PressTypes
    <3>4. (~focus) \in BOOLEAN
      OBVIOUS
    <3>2. begun \in Rec
      BY <3>1, <3>4
    <3>3. focusTasks' = focusTasks \cup {begun}
      BY <1>1 DEF Pressing!Focus
    <3> HIDE DEF begun
    <3>. QED
      BY <3>2, <3>3 DEF FocusTypes
  <2>8. FocusTold'
    <3>1. PICK t \in focusTasks' : /\ t.on = ~focus /\ t.at = "begun"
                                 /\ focusTasks' = focusTasks \cup {t}
      BY <1>1 DEF Pressing!Focus
    <3>2. focus' = ~focus /\ (focusCrossed' = FALSE => focusTasks = {}) /\ global' = global
      BY <1>1 DEF Pressing!Focus
    <3>3. focusCrossed' \in BOOLEAN
      BY <1>1 DEF Pressing!Focus, PressFlags
    <3>. QED
      BY <3>1, <3>2, <3>3 DEF FocusTold
  <2>9. KeysAreKnown'
    BY <2>1, <2>2, <1>0 DEF KeysAreKnown, InOrder
  <2>10. KeysAreThere'
    BY <2>1, <2>2, <1>0 DEF KeysAreThere, KeysAreKnown, KeysAreDue, InOrder
  <2>. QED
    BY <2>3, <2>4, <2>5, <2>6, <2>7, <2>8, <2>9, <2>10
<1>2. CASE Pressing!Delete
  <2>1. /\ update.at = "deleting" /\ update'.at = "adding" /\ update'.list = update.list
        /\ update'.todo = update.todo /\ update'.del = update.del
    BY <1>2 DEF Pressing!Delete, UpdateTypes
  <2>2. \A k \in ShortcutKeys : bound'[k] = IF k \in update.del THEN "none" ELSE bound[k]
    BY <1>2 DEF Pressing!Delete, PressTypes
  <2>3. UNCHANGED <<hotkeys, current, foreign, focusCrossed, unbound, global, focus, focusTasks>>
    BY <1>2
       DEF Pressing!Delete, Pressing!binding, Pressing!fixed, Pressing!window,
          Pressing!spent
  <2>4. PressTypes'
    BY <1>2, <2>1, <2>2, <2>3 DEF Pressing!Delete, PressTypes, UpdateTypes, Pressing!Lists
  <2>5. UpdateTypes'
    BY <1>2, <2>1, <2>2, <2>3, PressingIdle DEF Pressing!Delete, UpdateTypes
  <2>6. PressFlags'
    BY <1>2, <2>1, <2>2, <2>3 DEF Pressing!Delete, PressFlags
  <2>7. RanTypes' /\ Pressing!WindowKeysNeedTheWindow'
    BY <1>2, <2>1, <2>2, <2>3
       DEF Pressing!Delete, RanTypes, Pressing!WindowKeysNeedTheWindow
  <2>8. FocusTypes'
    BY <1>2, <2>1, <2>2, <2>3 DEF Pressing!Delete, FocusTypes, PressTypes, PressFlags
  <2>9. FocusTold'
    BY <1>2, <2>1, <2>2, <2>3 DEF Pressing!Delete, FocusTold, FocusTypes
  <2>10. KeysAreKnown'
    BY <2>1, <2>2, <2>3, <1>0 DEF KeysAreKnown, InOrder
  <2>11. KeysAreThere'
    BY <2>1, <2>2, <2>3, <1>0 DEF KeysAreThere, KeysAreKnown, KeysAreDue, InOrder
  <2>. QED
    BY <2>4, <2>5, <2>6, <2>7, <2>8, <2>9, <2>10, <2>11
<1>3. CASE Pressing!EndUpdate
  <2>1. /\ update.at = "adding" /\ update.todo = {} /\ update'.at = "idle" /\ update'.del = {}
        /\ current' = update.list /\ hotkeys' = update.list
    BY <1>3, PressingIdle DEF Pressing!EndUpdate
  <2>2. UNCHANGED <<bound, foreign, focusCrossed, unbound, global, focus, focusTasks>>
    BY <1>3
       DEF Pressing!EndUpdate, Pressing!binding, Pressing!fixed, Pressing!window,
          Pressing!spent
  <2>3. PressTypes'
    BY <1>3, <2>1, <2>2 DEF Pressing!EndUpdate, PressTypes, UpdateTypes, Pressing!Lists
  <2>4. UpdateTypes'
    BY <1>3, <2>1, <2>2, PressingIdle DEF Pressing!EndUpdate, UpdateTypes
  <2>5. PressFlags'
    BY <1>3, <2>1, <2>2 DEF Pressing!EndUpdate, PressFlags
  <2>6. RanTypes' /\ Pressing!WindowKeysNeedTheWindow'
    BY <1>3, <2>1, <2>2 DEF Pressing!EndUpdate, RanTypes, Pressing!WindowKeysNeedTheWindow
  <2>7. FocusTypes'
    BY <1>3, <2>1, <2>2 DEF Pressing!EndUpdate, FocusTypes, PressTypes, PressFlags
  <2>8. FocusTold'
    BY <1>3, <2>1, <2>2 DEF Pressing!EndUpdate, FocusTold, FocusTypes
  <2>9. KeysAreKnown'
    BY <2>1, <2>2, <1>0 DEF KeysAreKnown, InOrder
  <2>10. KeysAreThere'
    BY <2>1, <2>2, <1>0 DEF KeysAreThere, KeysAreKnown, KeysAreDue, InOrder
  <2>. QED
    BY <2>3, <2>4, <2>5, <2>6, <2>7, <2>8, <2>9, <2>10
<1>4. CASE Pressing!Switch
  <2>1. focus /\ focusTasks = {} /\ update.at = "idle"
    BY <1>4 DEF Pressing!Switch
  <2>2. UNCHANGED <<hotkeys, current, foreign, bound, update, unbound, focusCrossed, focus, focusTasks>>
    BY <1>4
       DEF Pressing!Switch, Pressing!binding, Pressing!fixed, Pressing!window,
          Pressing!spent
  <2>3. PressTypes'
    BY <1>4, <2>1, <2>2 DEF Pressing!Switch, PressTypes, UpdateTypes, Pressing!Lists
  <2>4. UpdateTypes'
    BY <1>4, <2>1, <2>2, PressingIdle DEF Pressing!Switch, UpdateTypes
  <2>5. PressFlags'
    BY <1>4, <2>1, <2>2 DEF Pressing!Switch, PressFlags
  <2>6. RanTypes' /\ Pressing!WindowKeysNeedTheWindow'
    BY <1>4, <2>1, <2>2 DEF Pressing!Switch, RanTypes, Pressing!WindowKeysNeedTheWindow
  <2>7. FocusTypes'
    BY <1>4, <2>1, <2>2 DEF Pressing!Switch, FocusTypes, PressTypes, PressFlags
  <2>8. FocusTold'
    BY <1>4, <2>1, <2>2 DEF Pressing!Switch, FocusTold, FocusTypes
  <2>9. KeysAreKnown'
    BY <2>1, <2>2, <1>0 DEF KeysAreKnown, InOrder
  <2>10. KeysAreThere'
    BY <2>1, <2>2, <1>0 DEF KeysAreThere, KeysAreKnown, KeysAreDue, InOrder
  <2>. QED
    BY <2>3, <2>4, <2>5, <2>6, <2>7, <2>8, <2>9, <2>10
<1>5. ASSUME NEW t \in focusTasks, Pressing!TaskReads(t) PROVE PressInv'
  <2>1. UNCHANGED <<hotkeys, current, foreign, bound, update, unbound, focusCrossed, global, focus>>
    BY <1>5
       DEF Pressing!TaskReads, Pressing!binding, Pressing!fixed, Pressing!window,
          Pressing!spent
  <2>2. focusTasks' # {} /\ focusTasks # {}
    BY <1>5 DEF Pressing!TaskReads
  <2>3. PressTypes'
    BY <1>5, <2>1, <2>2 DEF Pressing!TaskReads, PressTypes, UpdateTypes, Pressing!Lists
  <2>4. UpdateTypes'
    BY <1>5, <2>1, <2>2, PressingIdle DEF Pressing!TaskReads, UpdateTypes
  <2>5. PressFlags'
    BY <1>5, <2>1, <2>2 DEF Pressing!TaskReads, PressFlags
  <2>6. RanTypes' /\ Pressing!WindowKeysNeedTheWindow'
    BY <1>5, <2>1, <2>2 DEF Pressing!TaskReads, RanTypes, Pressing!WindowKeysNeedTheWindow
  <2>7. FocusTypes'
    BY <1>5, <2>1, <2>2 DEF Pressing!TaskReads, FocusTypes, PressTypes, PressFlags
  <2>8. FocusTold'
    BY <1>5, <2>1, <2>2 DEF Pressing!TaskReads, FocusTold, FocusTypes
  <2>9. KeysAreKnown'
    BY <2>1, <2>2, <1>0 DEF KeysAreKnown, InOrder
  <2>10. KeysAreThere'
    BY <2>1, <2>2, <1>0 DEF KeysAreThere, KeysAreKnown, KeysAreDue, InOrder
  <2>. QED
    BY <2>3, <2>4, <2>5, <2>6, <2>7, <2>8, <2>9, <2>10
<1>6. ASSUME NEW t \in focusTasks, Pressing!TaskRegisters(t) PROVE PressInv'
  <2>1. ~global => t.at = "window"
    BY <1>6
       DEF Pressing!TaskRegisters, Pressing!Registered, Pressing!WithCommand,
          Pressing!Latest, FocusTypes, FocusTold
  <2>2. global => t.at = "global"
    BY <1>6
       DEF Pressing!TaskRegisters, Pressing!Registered, Pressing!WithCommand,
          Pressing!Latest, FocusTypes, FocusTold
  <2>3. ~global => bound' = Pressing!Registered(Pressing!Latest, Pressing!WithCommand(bound)) /\ current' = Pressing!Latest
    BY <1>6, <2>1 DEF Pressing!TaskRegisters
  <2>4. global => current' = current /\ bound' = Pressing!WithCommand(bound)
    BY <1>6, <2>2 DEF Pressing!TaskRegisters
  <2>5. /\ DOMAIN Pressing!WithCommand(bound) = ShortcutKeys \cup {"cmd"}
        /\ \A k \in ShortcutKeys : Pressing!WithCommand(bound)[k] = bound[k]
    BY DEF Pressing!WithCommand, PressTypes
  <2>6. ~global => \A k \in ShortcutKeys :
            bound'[k] = IF Pressing!Latest[k] # "none" /\ k \notin foreign THEN Pressing!Latest[k] ELSE bound[k]
    BY <2>3, <2>5 DEF Pressing!Registered
  <2>7. global => \A k \in ShortcutKeys : bound'[k] = bound[k]
    BY <2>4, <2>5
  <2>8. focusTasks # {} /\ global \in BOOLEAN
    BY <1>6
       DEF Pressing!TaskRegisters, Pressing!Registered, Pressing!WithCommand,
          Pressing!Latest, PressFlags
  <2>9. UNCHANGED <<hotkeys, foreign, update, unbound, focusCrossed, global, focus>>
    BY <1>6
       DEF Pressing!TaskRegisters, Pressing!Registered, Pressing!WithCommand,
          Pressing!Latest, Pressing!binding, Pressing!fixed, Pressing!window, Pressing!spent
  <2>10. Pressing!Latest = IF update.at = "idle" THEN hotkeys ELSE update.list
    BY DEF Pressing!Latest
  <2>11. PressTypes'
    BY <1>6, <2>1, <2>2, <2>3, <2>4, <2>5, <2>6, <2>7, <2>8, <2>9, <2>10
       DEF Pressing!TaskRegisters, Pressing!Registered, Pressing!WithCommand,
          Pressing!Latest, PressTypes, UpdateTypes, Pressing!Lists
  <2>12. UpdateTypes'
    BY <1>6, <2>1, <2>2, <2>3, <2>4, <2>5, <2>6, <2>7, <2>8, <2>9, <2>10, PressingIdle
       DEF Pressing!TaskRegisters, Pressing!Registered, Pressing!WithCommand,
          Pressing!Latest, UpdateTypes
  <2>13. PressFlags'
    BY <1>6, <2>1, <2>2, <2>3, <2>4, <2>5, <2>6, <2>7, <2>8, <2>9, <2>10
       DEF Pressing!TaskRegisters, Pressing!Registered, Pressing!WithCommand,
          Pressing!Latest, PressFlags
  <2>14. RanTypes' /\ Pressing!WindowKeysNeedTheWindow'
    BY <1>6, <2>1, <2>2, <2>3, <2>4, <2>5, <2>6, <2>7, <2>8, <2>9, <2>10
       DEF Pressing!TaskRegisters, Pressing!Registered, Pressing!WithCommand,
          Pressing!Latest, RanTypes, Pressing!WindowKeysNeedTheWindow
  <2>15. FocusTypes'
    BY <1>6, <2>1, <2>2, <2>3, <2>4, <2>5, <2>6, <2>7, <2>8, <2>9, <2>10
       DEF Pressing!TaskRegisters, Pressing!Registered, Pressing!WithCommand,
          Pressing!Latest, FocusTypes, PressTypes, PressFlags
  <2>16. FocusTold'
    BY <1>6, <2>1, <2>2, <2>3, <2>4, <2>5, <2>6, <2>7, <2>8, <2>9, <2>10
       DEF Pressing!TaskRegisters, Pressing!Registered, Pressing!WithCommand,
          Pressing!Latest, FocusTold, FocusTypes
  <2>17. KeysAreKnown'
    BY <2>1, <2>2, <2>3, <2>4, <2>5, <2>6, <2>7, <2>8, <2>9, <2>10, <1>0
       DEF KeysAreKnown, InOrder
  <2>18. KeysAreThere'
    BY <2>1, <2>2, <2>3, <2>4, <2>5, <2>6, <2>7, <2>8, <2>9, <2>10, <1>0
       DEF KeysAreThere, KeysAreKnown, KeysAreDue, InOrder
  <2>. QED
    BY <2>11, <2>12, <2>13, <2>14, <2>15, <2>16, <2>17, <2>18
<1>7. ASSUME NEW t \in focusTasks, Pressing!TaskUnregisters(t) PROVE PressInv'
  <2>1. \A k \in ShortcutKeys : bound'[k] = IF global THEN bound[k] ELSE "none"
    BY <1>7 DEF Pressing!TaskUnregisters, PressTypes, FocusTold, FocusTypes
  <2>2. ~focusCrossed => ~focus
    BY <1>7 DEF Pressing!TaskUnregisters, FocusTold
  <2>3. UNCHANGED <<hotkeys, current, foreign, update, unbound, focusCrossed, global, focus>>
    BY <1>7
       DEF Pressing!TaskUnregisters, Pressing!binding, Pressing!fixed, Pressing!window,
          Pressing!spent
  <2>4. PressTypes'
    BY <1>7, <2>1, <2>2, <2>3
       DEF Pressing!TaskUnregisters, PressTypes, UpdateTypes, Pressing!Lists
  <2>5. UpdateTypes'
    BY <1>7, <2>1, <2>2, <2>3, PressingIdle DEF Pressing!TaskUnregisters, UpdateTypes
  <2>6. PressFlags'
    BY <1>7, <2>1, <2>2, <2>3 DEF Pressing!TaskUnregisters, PressFlags
  <2>7. RanTypes' /\ Pressing!WindowKeysNeedTheWindow'
    BY <1>7, <2>1, <2>2, <2>3
       DEF Pressing!TaskUnregisters, RanTypes, Pressing!WindowKeysNeedTheWindow
  <2>8. FocusTypes'
    BY <1>7, <2>1, <2>2, <2>3
       DEF Pressing!TaskUnregisters, FocusTypes, PressTypes, PressFlags
  <2>9. FocusTold'
    BY <1>7, <2>1, <2>2, <2>3 DEF Pressing!TaskUnregisters, FocusTold, FocusTypes
  <2>10. KeysAreKnown'
    BY <2>1, <2>2, <2>3, <1>0 DEF KeysAreKnown, InOrder
  <2>11. KeysAreThere'
    BY <2>1, <2>2, <2>3, <1>0 DEF KeysAreThere, KeysAreKnown, KeysAreDue, InOrder
  <2>. QED
    BY <2>4, <2>5, <2>6, <2>7, <2>8, <2>9, <2>10, <2>11
<1>8. ASSUME NEW new \in Pressing!Lists, Pressing!BeginUpdate(new) PROVE PressInv'
  <2>1. update.at = "idle" /\ update'.at = "deleting" /\ update'.list = new
    BY <1>8 DEF Pressing!BeginUpdate, Pressing!Added, Pressing!Gone
  <2>2. /\ update'.todo = {k \in ShortcutKeys : new[k] # "none" /\ current[k] # new[k]}
        /\ update'.del = {k \in ShortcutKeys : current[k] # "none" /\ current[k] # new[k]}
    BY <1>8 DEF Pressing!BeginUpdate, Pressing!Added, Pressing!Gone
  <2>3. UNCHANGED <<hotkeys, current, foreign, bound, unbound, focusCrossed, global, focus, focusTasks>>
    BY <1>8
       DEF Pressing!BeginUpdate, Pressing!Added, Pressing!Gone, Pressing!binding,
          Pressing!fixed, Pressing!window, Pressing!spent
  <2>4. PressTypes'
    BY <1>8, <2>1, <2>2, <2>3
       DEF Pressing!BeginUpdate, Pressing!Added, Pressing!Gone, PressTypes, UpdateTypes,
          Pressing!Lists
  <2>5. UpdateTypes'
    BY <1>8, <2>1, <2>2, <2>3, PressingIdle
       DEF Pressing!BeginUpdate, Pressing!Added, Pressing!Gone, UpdateTypes
  <2>6. PressFlags'
    BY <1>8, <2>1, <2>2, <2>3
       DEF Pressing!BeginUpdate, Pressing!Added, Pressing!Gone, PressFlags
  <2>7. RanTypes' /\ Pressing!WindowKeysNeedTheWindow'
    BY <1>8, <2>1, <2>2, <2>3
       DEF Pressing!BeginUpdate, Pressing!Added, Pressing!Gone, RanTypes,
          Pressing!WindowKeysNeedTheWindow
  <2>8. FocusTypes'
    BY <1>8, <2>1, <2>2, <2>3
       DEF Pressing!BeginUpdate, Pressing!Added, Pressing!Gone, FocusTypes, PressTypes,
          PressFlags
  <2>9. FocusTold'
    BY <1>8, <2>1, <2>2, <2>3
       DEF Pressing!BeginUpdate, Pressing!Added, Pressing!Gone, FocusTold, FocusTypes
  <2>10. KeysAreKnown'
    <3>. SUFFICES ASSUME InOrder PROVE KeysAreKnown'
      BY <2>3 DEF KeysAreKnown, InOrder
    <3>1. \A k \in ShortcutKeys : bound[k] \in {"none", new[k]} \/ (current[k] # "none" /\ current[k] # new[k])
      BY <2>1 DEF KeysAreKnown
    <3>2. \A k \in ShortcutKeys : bound'[k] \in {"none", update'.list[k]} \/ k \in update'.del
      BY <2>1, <2>2, <2>3, <3>1
    <3>3. \A k \in update'.del : update'.list[k] # "none" => k \in update'.todo
      BY <2>1, <2>2
    <3>. QED
      BY <2>1, <3>2, <3>3 DEF KeysAreKnown
  <2>11. KeysAreThere'
    <3>. SUFFICES ASSUME InOrder, KeysAreDue PROVE KeysAreThere'
      BY <2>3 DEF KeysAreThere, InOrder, KeysAreDue
    <3>1. \A k \in ShortcutKeys \ foreign :
            \/ new[k] # "none" /\ current[k] # new[k]
            \/ current[k] # "none" /\ current[k] # new[k]
            \/ bound[k] = new[k]
      BY <2>1 DEF KeysAreThere
    <3>2. \A k \in ShortcutKeys \ foreign :
            k \in update'.todo \/ k \in update'.del \/ bound'[k] = update'.list[k]
      BY <2>1, <2>2, <2>3, <3>1
    <3>. QED
      BY <2>1, <2>3, <3>2 DEF KeysAreThere
  <2>. QED
    BY <2>4, <2>5, <2>6, <2>7, <2>8, <2>9, <2>10, <2>11
<1>9. ASSUME NEW k \in ShortcutKeys, Pressing!Add(k) PROVE PressInv'
  <2>1. update.at = "adding" /\ k \in update.todo
    BY <1>9 DEF Pressing!Add
  <2>2. \/ unbound' = TRUE
        \/ /\ unbound' = unbound /\ bound'[k] = update.list[k] /\ \A j \in ShortcutKeys \ {k} : bound'[j] = bound[j]
           /\ update'.at = "adding" /\ update'.list = update.list /\ update'.todo = update.todo \ {k}
           /\ update'.del = update.del
    BY <1>9 DEF Pressing!Add, PressTypes, UpdateTypes
  <2>3. UNCHANGED <<hotkeys, current, foreign, focusCrossed, global, focus, focusTasks>>
    BY <1>9
       DEF Pressing!Add, Pressing!binding, Pressing!fixed, Pressing!window, Pressing!spent
  <2>4. PressTypes'
    BY <1>9, <2>1, <2>2, <2>3 DEF Pressing!Add, PressTypes, UpdateTypes, Pressing!Lists
  <2>5. UpdateTypes'
    BY <1>9, <2>1, <2>2, <2>3, PressingIdle DEF Pressing!Add, UpdateTypes
  <2>6. PressFlags'
    BY <1>9, <2>1, <2>2, <2>3 DEF Pressing!Add, PressFlags
  <2>7. RanTypes' /\ Pressing!WindowKeysNeedTheWindow'
    BY <1>9, <2>1, <2>2, <2>3 DEF Pressing!Add, RanTypes, Pressing!WindowKeysNeedTheWindow
  <2>8. FocusTypes'
    BY <1>9, <2>1, <2>2, <2>3 DEF Pressing!Add, FocusTypes, PressTypes, PressFlags
  <2>9. FocusTold'
    BY <1>9, <2>1, <2>2, <2>3 DEF Pressing!Add, FocusTold, FocusTypes
  <2>10. KeysAreKnown'
    BY <2>1, <2>2, <2>3, <1>0 DEF KeysAreKnown, InOrder
  <2>11. KeysAreThere'
    BY <2>1, <2>2, <2>3, <1>0 DEF KeysAreThere, KeysAreKnown, KeysAreDue, InOrder
  <2>. QED
    BY <2>4, <2>5, <2>6, <2>7, <2>8, <2>9, <2>10, <2>11
<1>10. ASSUME NEW k \in ShortcutKeys, Pressing!Press(k) PROVE PressInv'
  <2>1. UNCHANGED <<hotkeys, current, foreign, bound, update, unbound, focusCrossed, global, focus, focusTasks>>
    BY <1>10
       DEF Pressing!Press, Pressing!binding, Pressing!fixed, Pressing!window, Pressing!spent
  <2>2. PressTypes'
    BY <1>10, <2>1 DEF Pressing!Press, PressTypes, UpdateTypes, Pressing!Lists
  <2>3. UpdateTypes'
    BY <1>10, <2>1, PressingIdle DEF Pressing!Press, UpdateTypes
  <2>4. PressFlags'
    BY <1>10, <2>1 DEF Pressing!Press, PressFlags
  <2>5. RanTypes' /\ Pressing!WindowKeysNeedTheWindow'
    BY <1>10, <2>1 DEF Pressing!Press, RanTypes, Pressing!WindowKeysNeedTheWindow
  <2>6. FocusTypes'
    BY <1>10, <2>1 DEF Pressing!Press, FocusTypes, PressTypes, PressFlags
  <2>7. FocusTold'
    BY <1>10, <2>1 DEF Pressing!Press, FocusTold, FocusTypes
  <2>8. KeysAreKnown'
    BY <2>1, <1>0 DEF KeysAreKnown, InOrder
  <2>9. KeysAreThere'
    BY <2>1, <1>0 DEF KeysAreThere, KeysAreKnown, KeysAreDue, InOrder
  <2>. QED
    BY <2>2, <2>3, <2>4, <2>5, <2>6, <2>7, <2>8, <2>9
<1>11. ASSUME NEW k \in ShortcutKeys, Pressing!Run(k) PROVE PressInv'
  <2>1. UNCHANGED <<hotkeys, current, foreign, bound, update, unbound, focusCrossed, global, focus, focusTasks>>
    BY <1>11
       DEF Pressing!Run, Pressing!binding, Pressing!fixed, Pressing!window, Pressing!spent
  <2>2. PressTypes'
    BY <1>11, <2>1 DEF Pressing!Run, PressTypes, UpdateTypes, Pressing!Lists
  <2>3. UpdateTypes'
    BY <1>11, <2>1, PressingIdle DEF Pressing!Run, UpdateTypes
  <2>4. PressFlags'
    BY <1>11, <2>1 DEF Pressing!Run, PressFlags
  <2>5. RanTypes' /\ Pressing!WindowKeysNeedTheWindow'
    <3>1. global \in BOOLEAN /\ focus \in BOOLEAN
      BY DEF PressFlags
    <3>2. CASE global \/ focus
      <4>1. ran' = [focused |-> focus, global |-> global]
        BY <1>11, <3>2 DEF Pressing!Run
      <4>. QED
        BY <3>1, <3>2, <4>1 DEF RanTypes, Pressing!WindowKeysNeedTheWindow
    <3>3. CASE ~(global \/ focus)
      BY <1>11, <3>3 DEF Pressing!Run, RanTypes, Pressing!WindowKeysNeedTheWindow
    <3>. QED
      BY <3>2, <3>3
  <2>6. FocusTypes'
    BY <1>11, <2>1 DEF Pressing!Run, FocusTypes, PressTypes, PressFlags
  <2>7. FocusTold'
    BY <1>11, <2>1 DEF Pressing!Run, FocusTold, FocusTypes
  <2>8. KeysAreKnown'
    BY <2>1, <1>0 DEF KeysAreKnown, InOrder
  <2>9. KeysAreThere'
    BY <2>1, <1>0 DEF KeysAreThere, KeysAreKnown, KeysAreDue, InOrder
  <2>. QED
    BY <2>2, <2>3, <2>4, <2>5, <2>6, <2>7, <2>8, <2>9
<1>12. CASE UNCHANGED Pressing!hotkeyVars
  <2>1. PressTypes'
    BY <1>12 DEF PressTypes, UpdateTypes, Pressing!Lists
  <2>2. UpdateTypes'
    BY <1>12, PressingIdle DEF UpdateTypes
  <2>3. PressFlags'
    BY <1>12 DEF PressFlags
  <2>4. RanTypes' /\ Pressing!WindowKeysNeedTheWindow'
    BY <1>12 DEF RanTypes, Pressing!WindowKeysNeedTheWindow
  <2>5. FocusTypes'
    BY <1>12 DEF FocusTypes, PressTypes, PressFlags
  <2>6. FocusTold'
    BY <1>12 DEF FocusTold, FocusTypes
  <2>7. KeysAreKnown'
    BY <1>12, <1>0 DEF KeysAreKnown, InOrder
  <2>8. KeysAreThere'
    BY <1>12, <1>0 DEF KeysAreThere, KeysAreKnown, KeysAreDue, InOrder
  <2>. QED
    BY <2>1, <2>2, <2>3, <2>4, <2>5, <2>6, <2>7, <2>8
<1>. QED
  BY <1>1, <1>2, <1>3, <1>4, <1>5, <1>6, <1>7, <1>8, <1>9, <1>10, <1>11, <1>12, <1>0
     DEF Pressing!NextHotkeys

(* What the invariant shows. *)
LEMMA PressingShows ==
  PressInv => /\ Pressing!TypeOK /\ Pressing!KeysDoWhatTheListSays
              /\ Pressing!WindowKeysNeedTheWindow
<1>. SUFFICES ASSUME PressInv PROVE Pressing!TypeOK /\ Pressing!KeysDoWhatTheListSays
  BY DEF PressInv
<1>1. Pressing!TypeOK
  <2>1. update.at \in {"idle", "deleting", "adding"} /\ update.list \in Pressing!Lists
        /\ update.todo \subseteq ShortcutKeys
    BY DEF PressInv, UpdateTypes
  <2>. QED
    BY <2>1 DEF PressInv, PressTypes, PressFlags, RanTypes, FocusTypes, Pressing!TypeOK
<1>2. Pressing!KeysDoWhatTheListSays
  BY DEF PressInv, KeysAreThere, KeysAreDue, InOrder, Pressing!Quiet, Pressing!KeysDoWhatTheListSays
<1>. QED
  BY <1>1, <1>2

-----------------------------------------------------------------------------
(* The whole.  A behaviour is one of one component: its invariant is the one  *)
(* that counts.                                                               *)

EdgesInv ==
  /\ part \in {"leaving", "light", "upgrading", "enhancing", "grouping",
                "syncingPart", "bundle", "starting", "movingPart", "owning",
                "pressing"}
  /\ part = "leaving" => LeavingInv
  /\ part = "light" => LightInv
  /\ part = "upgrading" => UpgradeInv
  /\ part = "enhancing" => EnhanceInv
  /\ part = "grouping" => GroupInv
  /\ part = "syncingPart" => SyncInv
  /\ part = "bundle" => BundleInv
  /\ part = "starting" => StartingInv
  /\ part = "movingPart" => MovingInv
  /\ part = "owning" => OwningInv
  /\ part = "pressing" => PressInv

(* A behaviour starts in the invariant of its part.                        *)
LEMMA EdgesInit == Init => EdgesInv
<1>. SUFFICES ASSUME Init PROVE EdgesInv
  OBVIOUS
<1>1. Leaving!InitShutdown => LeavingInv
  BY LeavingInit
<1>2. Light!InitLight => LightInv
  BY LightInit
<1>3. Upgrading!InitUpgrade => UpgradeInv
  BY UpgradingInit
<1>4. Enhancing!InitEnhance => EnhanceInv
  BY EnhancingInit
<1>5. Grouping!InitGroups => GroupInv
  BY GroupingInit
<1>6. Syncing!InitSync => SyncInv
  BY SyncingInit
<1>7. Bundling!InitBundle => BundleInv
  BY BundlingInit
<1>8. Starting!InitInstances => StartingInv
  BY StartingInit
<1>9. Moving!InitGuard => MovingInv
  BY MovingInit
<1>10. Owning!InitRepair => OwningInv
  BY OwningInit
<1>11. Pressing!InitHotkeys => PressInv
  BY PressingInit
<1>. QED
  BY <1>1, <1>2, <1>3, <1>4, <1>5, <1>6, <1>7, <1>8, <1>9, <1>10, <1>11 DEF Init, EdgesInv

(* A step is one of the part the behaviour is of, or of nobody.            *)
LEMMA EdgesKeeps == EdgesInv /\ [Next]_vars => EdgesInv'
<1>. SUFFICES ASSUME EdgesInv, [Next]_vars PROVE EdgesInv'
  OBVIOUS
<1>1. part' = part
  BY DEF Next, vars, LeavingSteps, LightSteps, UpgradingSteps, EnhancingSteps,
     GroupingSteps, SyncingSteps, BundlingSteps, StartingSteps, MovingSteps,
     OwningSteps, PressingSteps
<1>2. CASE part = "leaving"
  <2>1. Leaving!NextShutdown \/ UNCHANGED vars
    BY <1>2 DEF Next, LeavingSteps, LightSteps, UpgradingSteps, EnhancingSteps,
       GroupingSteps, SyncingSteps, BundlingSteps, StartingSteps, MovingSteps,
       OwningSteps, PressingSteps
  <2>2. UNCHANGED vars => UNCHANGED Leaving!shutdownVars
    BY DEF vars, leavingVars, Leaving!shutdownVars, Leaving!flags, Leaving!kept,
       Leaving!history
  <2>3. LeavingInv
    BY <1>2 DEF EdgesInv
  <2>4. LeavingInv'
    BY <2>1, <2>2, <2>3, LeavingNext
  <2>. QED
    BY <1>1, <1>2, <2>4 DEF EdgesInv
<1>3. CASE part = "light"
  <2>1. Light!NextLight \/ UNCHANGED vars
    BY <1>3 DEF Next, LeavingSteps, LightSteps, UpgradingSteps, EnhancingSteps,
       GroupingSteps, SyncingSteps, BundlingSteps, StartingSteps, MovingSteps,
       OwningSteps, PressingSteps
  <2>2. UNCHANGED vars => UNCHANGED Light!lightVars
    BY DEF vars, lightVars, Light!lightVars, Light!modeVars, Light!windowVars,
       Light!storyVars
  <2>3. LightInv
    BY <1>3 DEF EdgesInv
  <2>4. LightInv'
    BY <2>1, <2>2, <2>3, LightNext
  <2>. QED
    BY <1>1, <1>3, <2>4 DEF EdgesInv
<1>4. CASE part = "upgrading"
  <2>1. Upgrading!NextUpgrade \/ UNCHANGED vars
    BY <1>4 DEF Next, LeavingSteps, LightSteps, UpgradingSteps, EnhancingSteps,
       GroupingSteps, SyncingSteps, BundlingSteps, StartingSteps, MovingSteps,
       OwningSteps, PressingSteps
  <2>2. UNCHANGED vars => UNCHANGED Upgrading!upgradeVars
    BY DEF vars, upgradingVars, Upgrading!upgradeVars, Upgrading!files,
       Upgrading!running, Upgrading!decisions, Upgrading!told, Upgrading!counted
  <2>3. UpgradeInv
    BY <1>4 DEF EdgesInv
  <2>4. UpgradeInv'
    BY <2>1, <2>2, <2>3, UpgradingNext
  <2>. QED
    BY <1>1, <1>4, <2>4 DEF EdgesInv
<1>5. CASE part = "enhancing"
  <2>1. Enhancing!NextEnhance \/ UNCHANGED vars
    BY <1>5 DEF Next, LeavingSteps, LightSteps, UpgradingSteps, EnhancingSteps,
       GroupingSteps, SyncingSteps, BundlingSteps, StartingSteps, MovingSteps,
       OwningSteps, PressingSteps
  <2>2. UNCHANGED vars => UNCHANGED Enhancing!enhanceVars
    BY DEF vars, enhancingVars, Enhancing!enhanceVars
  <2>3. EnhanceInv
    BY <1>5 DEF EdgesInv
  <2>4. EnhanceInv'
    BY <2>1, <2>2, <2>3, EnhancingNext
  <2>. QED
    BY <1>1, <1>5, <2>4 DEF EdgesInv
<1>6. CASE part = "grouping"
  <2>1. Grouping!NextGroups \/ UNCHANGED vars
    BY <1>6 DEF Next, LeavingSteps, LightSteps, UpgradingSteps, EnhancingSteps,
       GroupingSteps, SyncingSteps, BundlingSteps, StartingSteps, MovingSteps,
       OwningSteps, PressingSteps
  <2>2. UNCHANGED vars => UNCHANGED Grouping!groupVars
    BY DEF vars, groupingVars, Grouping!groupVars
  <2>3. GroupInv
    BY <1>6 DEF EdgesInv
  <2>4. GroupInv'
    BY <2>1, <2>2, <2>3, GroupingNext
  <2>. QED
    BY <1>1, <1>6, <2>4 DEF EdgesInv
<1>7. CASE part = "syncingPart"
  <2>1. Syncing!NextSync \/ UNCHANGED vars
    BY <1>7 DEF Next, LeavingSteps, LightSteps, UpgradingSteps, EnhancingSteps,
       GroupingSteps, SyncingSteps, BundlingSteps, StartingSteps, MovingSteps,
       OwningSteps, PressingSteps
  <2>2. UNCHANGED vars => UNCHANGED Syncing!syncVars
    BY DEF vars, syncingPartVars, Syncing!syncVars, Syncing!cacheVars,
       Syncing!appVars, Syncing!taskVars, Syncing!passVars
  <2>3. SyncInv
    BY <1>7 DEF EdgesInv
  <2>4. SyncInv'
    BY <2>1, <2>2, <2>3, SyncingNext
  <2>. QED
    BY <1>1, <1>7, <2>4 DEF EdgesInv
<1>8. CASE part = "bundle"
  <2>1. Bundling!NextBundle \/ UNCHANGED vars
    BY <1>8 DEF Next, LeavingSteps, LightSteps, UpgradingSteps, EnhancingSteps,
       GroupingSteps, SyncingSteps, BundlingSteps, StartingSteps, MovingSteps,
       OwningSteps, PressingSteps
  <2>2. UNCHANGED vars => UNCHANGED Bundling!bundleVars
    BY DEF vars, bundleVars, Bundling!bundleVars
  <2>3. BundleInv
    BY <1>8 DEF EdgesInv
  <2>4. BundleInv'
    BY <2>1, <2>2, <2>3, BundlingNext
  <2>. QED
    BY <1>1, <1>8, <2>4 DEF EdgesInv
<1>9. CASE part = "starting"
  <2>1. Starting!NextInstances \/ UNCHANGED vars
    BY <1>9 DEF Next, LeavingSteps, LightSteps, UpgradingSteps, EnhancingSteps,
       GroupingSteps, SyncingSteps, BundlingSteps, StartingSteps, MovingSteps,
       OwningSteps, PressingSteps
  <2>2. UNCHANGED vars => UNCHANGED Starting!instanceVars
    BY DEF vars, startingVars, Starting!instanceVars
  <2>3. StartingInv
    BY <1>9 DEF EdgesInv
  <2>4. StartingInv'
    BY <2>1, <2>2, <2>3, StartingNext
  <2>. QED
    BY <1>1, <1>9, <2>4 DEF EdgesInv
<1>10. CASE part = "movingPart"
  <2>1. Moving!NextGuard \/ UNCHANGED vars
    BY <1>10 DEF Next, LeavingSteps, LightSteps, UpgradingSteps, EnhancingSteps,
       GroupingSteps, SyncingSteps, BundlingSteps, StartingSteps, MovingSteps,
       OwningSteps, PressingSteps
  <2>2. UNCHANGED vars => UNCHANGED Moving!guardVars
    BY DEF vars, movingPartVars, Moving!guardVars, Moving!bundles, Moving!moveHistory
  <2>3. MovingInv
    BY <1>10 DEF EdgesInv
  <2>4. MovingInv'
    BY <2>1, <2>2, <2>3, MovingNext
  <2>. QED
    BY <1>1, <1>10, <2>4 DEF EdgesInv
<1>11. CASE part = "owning"
  <2>1. Owning!NextRepair \/ UNCHANGED vars
    BY <1>11 DEF Next, LeavingSteps, LightSteps, UpgradingSteps, EnhancingSteps,
       GroupingSteps, SyncingSteps, BundlingSteps, StartingSteps, MovingSteps,
       OwningSteps, PressingSteps
  <2>2. UNCHANGED vars => UNCHANGED Owning!repairVars
    BY DEF vars, owningVars, Owning!repairVars, Owning!root, Owning!aside,
       Owning!tokens
  <2>3. OwningInv
    BY <1>11 DEF EdgesInv
  <2>4. OwningInv'
    BY <2>1, <2>2, <2>3, OwningNext
  <2>. QED
    BY <1>1, <1>11, <2>4 DEF EdgesInv
<1>12. CASE part = "pressing"
  <2>1. Pressing!NextHotkeys \/ UNCHANGED vars
    BY <1>12 DEF Next, LeavingSteps, LightSteps, UpgradingSteps, EnhancingSteps,
       GroupingSteps, SyncingSteps, BundlingSteps, StartingSteps, MovingSteps,
       OwningSteps, PressingSteps
  <2>2. UNCHANGED vars => UNCHANGED Pressing!hotkeyVars
    BY DEF vars, pressingVars, Pressing!hotkeyVars, Pressing!binding,
       Pressing!window, Pressing!fixed, Pressing!spent
  <2>3. PressInv
    BY <1>12 DEF EdgesInv
  <2>4. PressInv'
    BY <2>1, <2>2, <2>3, PressingNext
  <2>. QED
    BY <1>1, <1>12, <2>4 DEF EdgesInv
<1>13. part \in {"leaving", "light", "upgrading", "enhancing", "grouping", "syncingPart",
               "bundle", "starting", "movingPart", "owning", "pressing"}
  BY DEF EdgesInv
<1>. QED
  BY <1>2, <1>3, <1>4, <1>5, <1>6, <1>7, <1>8, <1>9, <1>10, <1>11, <1>12, <1>13

(* Every behaviour keeps the invariant of its part, for any number of         *)
(* requests, crashes and failures.                                            *)
THEOREM EveryPartStays == Spec => []EdgesInv
<1>1. EdgesInv /\ [Next]_vars => EdgesInv'
  BY EdgesKeeps
<1>2. QED
  BY <1>1, EdgesInit, PTL DEF Spec

(* What each part shows, of the part a behaviour is of.                    *)
LEMMA PartsShow == EdgesInv => TypeOK /\ NothingIsLeftBehind /\ WhatIsTakenIsWhole
<1>. SUFFICES ASSUME EdgesInv PROVE TypeOK /\ NothingIsLeftBehind /\ WhatIsTakenIsWhole
  OBVIOUS
<1>1. part = "leaving" =>
        /\ Leaving!TypeOK /\ Leaving!ExitLeavesNothing
        /\ Leaving!CanceledQuitsAreUndone /\ Leaving!CommittedQuitsGoThrough
  BY LeavingShows DEF EdgesInv
<1>2. part = "light" =>
        /\ Light!TypeOK /\ Light!TimersAreCancellable /\ Light!DeadPagesAreReloaded
        /\ Light!WindowsInUseStay /\ Light!EnteringNeverQuits
  BY LightShows DEF EdgesInv
<1>3. part = "upgrading" =>
        /\ Upgrading!TypeOK /\ Upgrading!ARunnableCoreStays
        /\ Upgrading!FailedCanBeRetried /\ Upgrading!ReportedMeansUpgraded
  BY UpgradingShows DEF EdgesInv
<1>4. part = "enhancing" =>
        /\ Enhancing!TypeOK /\ Enhancing!SettingsWin /\ Enhancing!LanIsServed
        /\ Enhancing!DiscardedKeysAreTold /\ Enhancing!FakeIpHasARange
  BY EnhancingShows DEF EdgesInv
<1>5. part = "grouping" =>
        /\ Grouping!TypeOK /\ Grouping!ReferencesResolve /\ Grouping!AddedCanBeChosen
  BY GroupingShows DEF EdgesInv
<1>6. part = "syncingPart" =>
        /\ Syncing!TypeOK /\ Syncing!PublishedCachesAreWhole /\ Syncing!NoSyncIsLost
  BY SyncingShows DEF EdgesInv
<1>7. part = "bundle" =>
        /\ Bundling!TypeOK /\ Bundling!OnlyLocalConflictsRefuse
        /\ Bundling!CachesHaveOneSource
  BY BundlingShows DEF EdgesInv
<1>8. part = "starting" =>
        /\ Starting!TypeOK /\ Starting!OnePrimary /\ Starting!RecordNamesThePrimary
        /\ Starting!SecondariesAreShown /\ Starting!GivingUpHasACause
  BY StartingShows DEF EdgesInv
<1>9. part = "movingPart" =>
        /\ Moving!TypeOK /\ Moving!ABundleStays /\ Moving!InstallationIsKept
        /\ Moving!FailedMovesAreUndone
  BY MovingShows DEF EdgesInv
<1>10. part = "owning" =>
        /\ Owning!TypeOK /\ Owning!NoDataIsLost /\ Owning!FailedRebuildsAreUndone
        /\ Owning!LiveLocksStay /\ Owning!RepairedMeansWhole /\ Owning!TokensAgree
  BY OwningShows DEF EdgesInv
<1>11. part = "pressing" =>
        /\ Pressing!TypeOK /\ Pressing!KeysDoWhatTheListSays
        /\ Pressing!WindowKeysNeedTheWindow
  BY PressingShows DEF EdgesInv
<1>12. TypeOK
  BY <1>1, <1>2, <1>3, <1>4, <1>5, <1>6, <1>7, <1>8, <1>9, <1>10, <1>11,
     Zenon DEF TypeOK
<1>13. NothingIsLeftBehind
  BY <1>1, <1>2, <1>3, <1>6, <1>8, <1>9, <1>10, <1>11, Zenon DEF NothingIsLeftBehind
<1>14. WhatIsTakenIsWhole
  BY <1>1, <1>2, <1>3, <1>4, <1>5, <1>6, <1>7, <1>8, <1>10, <1>11,
     Zenon DEF WhatIsTakenIsWhole
<1>. QED
  BY <1>12, <1>13, <1>14

-----------------------------------------------------------------------------
(* The step and the place of every part are ones the code has, and every      *)
(* count, list and configuration has the values the code can give it.         *)
THEOREM TypesHold == Spec => []TypeOK
<1>1. EdgesInv => TypeOK
  BY PartsShow
<1>2. QED
  BY <1>1, EveryPartStays, PTL

(* Whatever ends, fails or is called off leaves nothing behind: no Core and   *)
(* no resolver setting (window.rs), a Core that runs (core_upgrade.rs), a     *)
(* page that is loaded again (resolve/window.rs), no request lost             *)
(* (service.rs), a bundle that starts (macos_launch_guard.rs), every entry    *)
(* of the data directory (owner_identity.rs) and no shortcut too many         *)
(* (hotkey.rs).                                                               *)
THEOREM NothingStays == Spec => []NothingIsLeftBehind
<1>1. EdgesInv => NothingIsLeftBehind
  BY PartsShow
<1>2. QED
  BY <1>1, EveryPartStays, PTL

(* What is told, shown, published or handed over is the whole of it: the      *)
(* settings over whatever the overrides write (enhance/mod.rs), groups that   *)
(* name what is there (seq.rs), whole caches of one source (service.rs,       *)
(* runtime_bundle.rs), one user of the data directory (server.rs), the owner  *)
(* token of the file (owner_identity.rs).                                     *)
THEOREM WhatIsTakenStaysWhole == Spec => []WhatIsTakenIsWhole
<1>1. EdgesInv => WhatIsTakenIsWhole
  BY PartsShow
<1>2. QED
  BY <1>1, EveryPartStays, PTL

(* Two instances never use the data directory at a time (check_singleton):    *)
(* the lock alone decides.  The record names the one that serves, and nobody  *)
(* leaves for an instance that did not raise its window.                      *)
THEOREM OneInstanceAtATime ==
  Spec => [](part = "starting" => /\ Starting!OnePrimary /\ Starting!RecordNamesThePrimary
                                  /\ Starting!SecondariesAreShown)
<1>1. EdgesInv => (part = "starting" => /\ Starting!OnePrimary /\ Starting!RecordNamesThePrimary
                                        /\ Starting!SecondariesAreShown)
  BY StartingShows DEF EdgesInv
<1>2. QED
  BY <1>1, EveryPartStays, PTL
=============================================================================

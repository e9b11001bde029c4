---------------------------- MODULE NodeSelection ----------------------------
(***************************************************************************)
(* The nodes that a profile has recorded for its groups, and how they are  *)
(* put back into a Core that has just started or switched profiles (the    *)
(* second half of config/profiles.rs).  A restoration looks at the Core,   *)
(* asks it for each recorded node, looks again when something was missing, *)
(* and then either prunes the records that no longer fit (a switch) or     *)
(* keeps on asking (a start).  Any newer restoration or choice supersedes  *)
(* it.                                                                     *)
(***************************************************************************)
EXTENDS Naturals, Sequences

CONSTANTS
  Groups, Nodes,
  None,         \* no node
  MaxReloads,   \* starts and switches
  MaxChoices    \* choices of the user

VARIABLES
  records,      \* the node recorded for each group by the current profile
  content,      \* the nodes of each group in the configuration that was loaded
  former,       \* and in the configuration before it
  view,         \* what the Core shows: the former groups, groups still empty, or all
  now,          \* the node that each group is on
  generation,   \* ACTIVATE_SELECTED_GENERATION
  waiting,      \* restorations, the running one first; each awaits the one before it
  work,         \* how far the running one is
  choosing,     \* choices that the Core has taken and nobody has recorded yet
  settled,      \* no start, switch or choice since a restoration saw all groups and ended
  misjudged,    \* history: a prune took a record whose node the configuration has
  reloads, choices

core == <<content, former, view, now>>
task == <<waiting, work>>
bounds == <<reloads, choices>>
nodeVars == <<records, core, generation, task, choosing, settled, misjudged, bounds>>

Records == [Groups -> Nodes \cup {None}]
Nodeless == [g \in Groups |-> None]
(* What the Core lists for a group: a group may be there and still be empty. *)
Listed(g) == CASE view = "old" -> former[g] [] view = "empty" -> {} [] OTHER -> content[g]
Snapshot == [g \in Groups |-> [all |-> Listed(g), now |-> now[g]]]
NoSnapshot == [g \in Groups |-> [all |-> {}, now |-> None]]

Idle == [step |-> "begin", selected |-> Nodeless, first |-> NoSnapshot, plan |-> Nodeless,
         todo |-> {}, asking |-> None, full |-> FALSE]

Init ==
  /\ records \in Records
  /\ content \in [Groups -> SUBSET Nodes \ {{}}] /\ former = content
  /\ now = Nodeless /\ view = "loaded"
  /\ generation = 0 /\ waiting = <<>> /\ work = Idle
  /\ choosing = {} /\ settled = FALSE /\ misjudged = FALSE /\ reloads = 0 /\ choices = 0

-----------------------------------------------------------------------------
(* The Core, and who starts a restoration *)

(* activate_selected_nodes_with, after the Core was given a configuration: a  *)
(* switch brings the records of another profile and prunes, a start restores. *)
Reload(repair) ==
  /\ reloads < MaxReloads
  /\ reloads' = reloads + 1
  /\ former' = content /\ content' \in [Groups -> SUBSET Nodes \ {{}}]
  /\ view' = "old" /\ now' = Nodeless
  /\ IF repair = "Prune" THEN records' \in Records ELSE UNCHANGED records
  /\ generation' = generation + 1
  /\ waiting' = Append(waiting, [gen |-> generation', repair |-> repair])
  /\ settled' = FALSE
  /\ UNCHANGED <<work, choosing, misjudged, choices>>

Switch == Reload("Prune")
Start == Reload("KeepRecords")

(* The groups of the new configuration appear, and their providers load. *)
CoreLoads ==
  /\ view # "loaded"
  /\ view' \in {"empty", "loaded"} \ {view}
  /\ UNCHANGED <<records, content, former, now, generation, task, choosing, settled, misjudged, bounds>>

-----------------------------------------------------------------------------
(* Choices: the Core first, the record and the end of the restoration later *)

(* switch_proxy_node, select_node_for_group *)
Choose(g, n) ==
  /\ choices < MaxChoices /\ choosing = {}
  /\ n \in Listed(g)
  /\ now' = [now EXCEPT ![g] = n]
  /\ choosing' = {<<g, n>>}
  /\ choices' = choices + 1 /\ settled' = FALSE
  /\ UNCHANGED <<records, content, former, view, generation, task, misjudged, reloads>>

(* Wrong on purpose: what is recorded does not supersede the restoration. *)
RecordChoiceQuietly ==
  /\ \E c \in choosing : records' = [records EXCEPT ![c[1]] = c[2]]
  /\ choosing' = {}
  /\ UNCHANGED <<core, generation, task, settled, misjudged, bounds>>

(* record_selected_node: what is recorded already supersedes nothing. *)
RecordChoice ==
  /\ \E c \in choosing :
       /\ records' = [records EXCEPT ![c[1]] = c[2]]
       /\ generation' = IF records[c[1]] = c[2] THEN generation ELSE generation + 1
  /\ choosing' = {}
  /\ UNCHANGED <<core, task, settled, misjudged, bounds>>

(* forget_selected_node *)
ForgetChoice(g) ==
  /\ choices < MaxChoices /\ records[g] # None
  /\ records' = [records EXCEPT ![g] = None]
  /\ generation' = generation + 1
  /\ choices' = choices + 1 /\ settled' = FALSE
  /\ UNCHANGED <<core, task, choosing, misjudged, reloads>>

-----------------------------------------------------------------------------
(* The restoration *)

Running == waiting # <<>>
Repair == Head(waiting).repair
(* is_activation_current *)
NotSuperseded == Head(waiting).gen = generation

At(step) == Running /\ work.step = step
Others == UNCHANGED <<records, core, generation, choosing, misjudged, bounds>>
Finish == waiting' = Tail(waiting) /\ work' = Idle
GoOn(w) == work' = w /\ UNCHANGED waiting
(* Superseded, it ends; otherwise it goes on as w. *)
Unless(w) == IF NotSuperseded THEN GoOn(w) ELSE Finish

(* selected_nodes_need_confirmation *)
NeedsConfirmation(s) ==
  \E g \in Groups : work.selected[g] # None /\ work.selected[g] \notin s[g].all

Activations(s) ==
  {g \in Groups : work.selected[g] # None /\ work.selected[g] \in s[g].all
                    /\ s[g].now # work.selected[g]}

(* A group that does not list the node must have listed others before, too. *)
MissingWasConfirmed(g, s, first) ==
  first[g].all # {} /\ work.selected[g] \notin first[g].all

(* reconcile_selected_nodes: the record that is left for a group. *)
Reconciled(g, s, first) ==
  LET node == work.selected[g]
  IN IF node = None \/ s[g].all = {} \/ node \in s[g].all \/ ~MissingWasConfirmed(g, s, first)
     THEN node
     ELSE IF s[g].now \in s[g].all THEN s[g].now ELSE None
Plan(s, first) == [g \in Groups |-> Reconciled(g, s, first)]

Begin ==
  /\ At("begin")
  /\ IF ~NotSuperseded \/ records = Nodeless THEN Finish
     ELSE GoOn([Idle EXCEPT !.step = "look", !.selected = records])
  /\ Others /\ UNCHANGED settled

LookOnce ==
  /\ At("look")
  /\ Unless([work EXCEPT !.step = "ask", !.first = Snapshot, !.todo = Activations(Snapshot),
                         !.plan = Plan(Snapshot, NoSnapshot), !.full = view = "loaded"])
  /\ Others /\ UNCHANGED settled

(* The Core has left the former configuration when the second look comes. *)
LookAgain ==
  /\ At("look again")
  /\ view # "old"
  /\ Unless([work EXCEPT !.step = "ask again", !.todo = Activations(Snapshot),
                         !.plan = Plan(Snapshot, work.first), !.full = view = "loaded"])
  /\ Others /\ UNCHANGED settled

Asks == {"ask", "ask again", "ask on"}
NextStep ==
  IF work.step = "ask" /\ NeedsConfirmation(work.first) THEN "look again"
  ELSE IF work.step = "ask on" \/ Repair = "KeepRecords" THEN "settle" ELSE "prune"

(* apply_activations: it asks only while it is current ... *)
CheckBeforeAsking ==
  /\ Running /\ work.step \in Asks /\ work.asking = None
  /\ IF work.todo = {} THEN Unless([work EXCEPT !.step = NextStep])
     ELSE IF NotSuperseded THEN \E g \in work.todo : GoOn([work EXCEPT !.asking = g])
     ELSE Finish
  /\ Others /\ UNCHANGED settled

(* ... and the Core may take the node, or refuse; newer or not by then. *)
SelectNode ==
  /\ Running /\ work.asking # None
  /\ LET g == work.asking
         after == [work EXCEPT !.asking = None, !.todo = @ \ {g}]
     IN \/ /\ work.selected[g] \in Listed(g)
           /\ now' = [now EXCEPT ![g] = work.selected[g]]
           /\ Unless(after)
        \/ Unless([after EXCEPT !.full = FALSE]) /\ UNCHANGED now
  /\ UNCHANGED <<records, content, former, view, generation, choosing, settled, misjudged, bounds>>

Judged == misjudged' = (misjudged \/ \E g \in Groups : records'[g] # records[g] /\ records[g] \in content[g])

(* Wrong on purpose: what is pruned is not compared with what was read. *)
PruneUnread ==
  /\ At("prune")
  /\ records' = work.plan
  /\ settled' = work.full /\ Judged
  /\ Finish
  /\ UNCHANGED <<core, generation, choosing, bounds>>

(* persist_reconciled_selected, under the lock of the profiles. *)
Prune ==
  /\ At("prune")
  /\ records' = IF NotSuperseded /\ records = work.selected THEN work.plan ELSE records
  /\ settled' = (NotSuperseded /\ work.full /\ choosing = {}) /\ Judged
  /\ Finish
  /\ UNCHANGED <<core, generation, choosing, bounds>>

(* settle_pending_selections, until nothing is left or the deadline passes. *)
Unsettled == {g \in Groups : work.selected[g] \notin {None, now[g]}}
Settle ==
  /\ At("settle")
  /\ view # "old"
  /\ \/ /\ ~NotSuperseded \/ Unsettled = {}
        /\ settled' = (NotSuperseded /\ choosing = {})
        /\ Finish
     \/ /\ NotSuperseded /\ Unsettled # {}
        /\ \/ GoOn([work EXCEPT !.step = "ask on", !.todo = Activations(Snapshot)])
           \/ Finish   \* the deadline
        /\ UNCHANGED settled
  /\ Others

Restoration ==
  Begin \/ LookOnce \/ LookAgain \/ CheckBeforeAsking \/ SelectNode \/ Prune \/ Settle

Next ==
  \/ Switch \/ Start \/ CoreLoads \/ RecordChoice
  \/ \E g \in Groups : ForgetChoice(g) \/ \E n \in Nodes : Choose(g, n)
  \/ Restoration

-----------------------------------------------------------------------------
(* Properties *)

TypeOK ==
  /\ records \in Records /\ now \in Records
  /\ content \in [Groups -> SUBSET Nodes] /\ choosing \subseteq Groups \X Nodes
  /\ {settled, misjudged} \subseteq BOOLEAN

(* A record whose node the configuration has is never pruned: neither because *)
(* the groups of the former configuration were still shown, nor because a     *)
(* provider had not loaded, nor because the user chose while it was decided.  *)
AvailableRecordsSurvive == ~misjudged

(* A restoration that ended with all groups in sight has put each node back   *)
(* that can be there: what the profile records is what the Core is on.        *)
SelectionsComeBack ==
  settled => \A g \in Groups : records[g] \in content[g] => now[g] = records[g]
=============================================================================

------------------------------ MODULE TrayMenu ------------------------------
\* The groups in the tray menu (core/tray/mod.rs, core/tray/latency.rs): a menu
\* is rebuilt by the loop that requests share (cmd/proxy.rs) and by other
\* callers; a pointer over the icon refreshes the items in place; a latency test
\* changes the label of its group. Items change on the main thread only.
EXTENDS Naturals, Sequences

CONSTANTS
  Choices,      \* the nodes of the group
  MaxChanges,   \* bound: selections, tests, pointers and direct rebuilds
  MaxPosts      \* bound: calls that wait for the main thread

VARIABLES
  now,          \* the node the Core has selected
  items,        \* the group's items in the menu, or NoItems
  holder,       \* who has menu_update
  rebuild,      \* [loop, direct -> where the rebuild is and what it built]
  syncRunning, syncPending,  \* TRAY_SYNC_RUNNING and TRAY_SYNC_PENDING
  asks, tells,  \* requests before the exchange, and before the store
  hover,        \* a refresh in place: "off", "reads", "posted"
  test,         \* the latency test: "off", "runs", "synced"
  testing,      \* RUNNING holds the group
  mainThread,   \* what waits for the main thread
  unasked,      \* history: the Core's selection changed and nobody read it since
  slipped,      \* history: a request was stored when the loop had left
  changes

NoItems == [shown |-> "none", providers |-> "none", testing |-> FALSE]
sync == <<syncRunning, syncPending, asks, tells, slipped>>
latency == <<test, testing>>
menuVars == <<now, items, holder, rebuild, sync, hover, latency, mainThread, unasked, changes>>

Provided == {"known", "fallback"}
Items == [shown : Choices, providers : Provided, testing : BOOLEAN] \cup {NoItems}
AtRest == [at |-> "off", built |-> NoItems]
Steps == {"off", "bare", "lock", "make", "swap", "ask", "clear", "again"}
LabelCall == [call |-> "label", view |-> NoItems]
TypeOK ==
  /\ now \in Choices /\ items \in Items /\ holder \in {"none", "loop", "direct", "hover"}
  /\ DOMAIN rebuild = {"loop", "direct"}
  /\ \A r \in DOMAIN rebuild : rebuild[r].at \in Steps /\ rebuild[r].built \in Items
  /\ {syncRunning, syncPending, testing, unasked, slipped} \subseteq BOOLEAN
  /\ asks \in Nat /\ tells \in Nat /\ changes \in 0..MaxChanges
  /\ hover \in {"off", "reads", "posted"} /\ test \in {"off", "runs", "synced"}
  /\ mainThread \in Seq([call : {"label", "apply"}, view : Items])

InitMenu ==
  /\ now \in Choices /\ items = NoItems /\ holder = "none"
  /\ rebuild = [r \in {"loop", "direct"} |-> AtRest]
  /\ syncRunning = FALSE /\ syncPending = FALSE /\ asks = 0 /\ tells = 0
  /\ hover = "off" /\ test = "off" /\ testing = FALSE /\ mainThread = <<>>
  /\ unasked = TRUE /\ slipped = FALSE /\ changes = 0

Change == changes < MaxChanges /\ changes' = changes + 1
Room == Len(mainThread) < MaxPosts
At(r, step) == rebuild' = [rebuild EXCEPT ![r].at = step]
-----------------------------------------------------------------------------
(* The selection                                                             *)

\* A selection in the window is followed by a request; one in the menu
\* (switch_proxy_node) by a rebuild of its own.
Select(n) ==
  /\ Change /\ n # now /\ now' = n
  /\ \/ asks' = asks + 1 /\ UNCHANGED rebuild
     \/ rebuild["direct"].at = "off" /\ At("direct", "lock") /\ UNCHANGED asks
  /\ UNCHANGED <<items, holder, syncRunning, syncPending, tells, slipped, hover, latency, mainThread, unasked>>
\* The Core selects by itself, of a group that tests its nodes.
CoreSelects(n) ==
  /\ Change /\ n # now /\ now' = n /\ unasked' = TRUE
  /\ UNCHANGED <<items, holder, rebuild, sync, hover, latency, mainThread>>
-----------------------------------------------------------------------------
(* The requests and their loop                                               *)

\* compare_exchange(false, true): the first spawns the loop.
Ask ==
  /\ asks > 0 /\ asks' = asks - 1
  /\ \/ ~syncRunning /\ syncRunning' = TRUE /\ At("loop", "lock") /\ UNCHANGED tells
     \/ syncRunning /\ tells' = tells + 1 /\ UNCHANGED <<syncRunning, rebuild>>
  /\ UNCHANGED <<now, items, holder, syncPending, slipped, hover, latency, mainThread, unasked, changes>>
Tell ==
  /\ tells > 0 /\ tells' = tells - 1 /\ syncPending' = TRUE
  /\ slipped' = (slipped \/ rebuild["loop"].at = "off")
  /\ UNCHANGED <<now, items, holder, rebuild, syncRunning, asks, hover, latency, mainThread, unasked, changes>>

\* The loop after a rebuild: again for a request that was stored.
LoopLooks ==
  /\ rebuild["loop"].at = "ask" /\ syncPending' = FALSE
  /\ At("loop", IF syncPending THEN "lock" ELSE "clear")
  /\ UNCHANGED <<now, items, holder, syncRunning, asks, tells, slipped, hover, latency, mainThread, unasked, changes>>
\* Mutant: the flag is cleared and that is all.
ClearAndLeave ==
  /\ rebuild["loop"].at = "clear" /\ syncRunning' = FALSE /\ At("loop", "off")
  /\ UNCHANGED <<now, items, holder, syncPending, asks, tells, slipped, hover, latency, mainThread, unasked, changes>>
LoopClears ==
  /\ rebuild["loop"].at = "clear" /\ syncRunning' = FALSE /\ At("loop", "again")
  /\ UNCHANGED <<now, items, holder, syncPending, asks, tells, slipped, hover, latency, mainThread, unasked, changes>>
\* The second look, for what was stored before the flag was cleared. With a
\* request in between another loop has begun: this one is done.
LoopLooksAgain ==
  /\ rebuild["loop"].at = "again" /\ syncPending' = FALSE
  /\ \/ syncPending /\ ~syncRunning /\ syncRunning' = TRUE /\ At("loop", "lock")
     \/ ~(syncPending /\ ~syncRunning) /\ At("loop", "off") /\ UNCHANGED syncRunning
  /\ UNCHANGED <<now, items, holder, asks, tells, slipped, hover, latency, mainThread, unasked, changes>>
-----------------------------------------------------------------------------
(* A rebuild                                                                 *)

\* update_menu of another caller; update_part first builds one without groups.
Update(bare) ==
  /\ Change /\ rebuild["direct"].at = "off" /\ At("direct", IF bare THEN "bare" ELSE "lock")
  /\ UNCHANGED <<now, items, holder, sync, hover, latency, mainThread, unasked>>
UpdateBare ==
  /\ rebuild["direct"].at = "bare" /\ holder = "none" /\ At("direct", "lock") /\ items' = NoItems
  /\ UNCHANGED <<now, holder, sync, hover, latency, mainThread, unasked, changes>>
Lock(r) ==
  /\ rebuild[r].at = "lock" /\ holder = "none" /\ holder' = r /\ At(r, "make")
  /\ UNCHANGED <<now, items, sync, hover, latency, mainThread, unasked, changes>>
\* create_tray_menu: a Core that does not answer in time gives no groups, one
\* that is slow with its providers a view without them.
Make(r) ==
  /\ rebuild[r].at = "make"
  /\ \/ \E p \in Provided :
          /\ rebuild' = [rebuild EXCEPT ![r] = [at |-> "swap",
                           built |-> [shown |-> now, providers |-> p, testing |-> testing]]]
          /\ unasked' = FALSE
     \/ rebuild' = [rebuild EXCEPT ![r] = [at |-> "swap", built |-> NoItems]] /\ UNCHANGED unasked
  /\ UNCHANGED <<now, items, holder, sync, hover, latency, mainThread, changes>>
Done(r) == rebuild' = [rebuild EXCEPT ![r] = [at |-> IF r = "loop" THEN "ask" ELSE "off", built |-> NoItems]]
\* Mutant: the labels are those of when the items were made.
SwapOnly(r) ==
  /\ rebuild[r].at = "swap" /\ items' = rebuild[r].built /\ holder' = "none" /\ Done(r)
  /\ UNCHANGED <<now, sync, hover, latency, mainThread, unasked, changes>>
\* The new items, then their labels once more.
Swap(r) ==
  /\ rebuild[r].at = "swap" /\ items' = rebuild[r].built /\ holder' = "none" /\ Done(r)
  /\ \/ items' = NoItems /\ UNCHANGED mainThread
     \/ items' # NoItems /\ Room /\ mainThread' = Append(mainThread, LabelCall)
  /\ UNCHANGED <<now, sync, hover, latency, unasked, changes>>
-----------------------------------------------------------------------------
(* A refresh in place                                                        *)

Hover ==
  /\ Change /\ hover = "off" /\ holder = "none" /\ items # NoItems
  /\ holder' = "hover" /\ hover' = "reads"
  /\ UNCHANGED <<now, items, rebuild, sync, latency, mainThread, unasked>>
HoverFails ==
  /\ hover = "reads" /\ hover' = "off" /\ holder' = "none"
  /\ UNCHANGED <<now, items, rebuild, sync, latency, mainThread, unasked, changes>>
Snapshot(p) == [shown |-> now, providers |-> p, testing |-> FALSE]
Posts(p) == Room /\ mainThread' = Append(mainThread, [call |-> "apply", view |-> Snapshot(p)])
\* Mutant: the menu is let go before the items have their snapshot.
ReadAndLetGo(p) ==
  /\ hover = "reads" /\ unasked' = FALSE /\ holder' = "none"
  /\ \/ p = items.providers /\ Posts(p) /\ hover' = "posted" /\ UNCHANGED asks
     \/ p # items.providers /\ hover' = "off" /\ asks' = asks + 1 /\ UNCHANGED mainThread
  /\ UNCHANGED <<now, items, rebuild, syncRunning, syncPending, tells, slipped, latency, changes>>
\* Mutant: the items are refreshed from whatever view there is.
ReadAndPost(p) ==
  /\ hover = "reads" /\ unasked' = FALSE /\ Posts(p) /\ hover' = "posted"
  /\ UNCHANGED <<now, items, holder, rebuild, sync, latency, changes>>
\* A view of other providers has other members: the menu is rebuilt instead.
HoverReads(p) ==
  /\ hover = "reads" /\ unasked' = FALSE
  /\ \/ p = items.providers /\ Posts(p) /\ hover' = "posted" /\ UNCHANGED <<holder, asks>>
     \/ /\ p # items.providers /\ hover' = "off" /\ holder' = "none" /\ asks' = asks + 1
        /\ UNCHANGED mainThread
  /\ UNCHANGED <<now, items, rebuild, syncRunning, syncPending, tells, slipped, latency, changes>>

\* The members of the view and of the items are the same.
Matches(view) == items.providers = view.providers
\* The main thread: a label as RUNNING has it then, or the items of the snapshot.
MainLabel ==
  /\ mainThread # <<>> /\ Head(mainThread).call = "label" /\ mainThread' = Tail(mainThread)
  /\ items' = IF items = NoItems THEN items ELSE [items EXCEPT !.testing = testing]
  /\ UNCHANGED <<now, holder, rebuild, sync, hover, latency, unasked, changes>>
MainApplies ==
  /\ mainThread # <<>> /\ Head(mainThread).call = "apply" /\ mainThread' = Tail(mainThread)
  /\ items' = IF Matches(Head(mainThread).view) THEN [items EXCEPT !.shown = Head(mainThread).view.shown] ELSE items
  /\ hover' = "off" /\ holder' = IF holder = "hover" THEN "none" ELSE holder
  /\ UNCHANGED <<now, rebuild, sync, latency, unasked, changes>>
-----------------------------------------------------------------------------
(* A latency test                                                            *)

TestBegins ==
  /\ Change /\ ~testing /\ Room /\ testing' = TRUE /\ test' = "runs"
  /\ mainThread' = Append(mainThread, LabelCall)
  /\ UNCHANGED <<now, items, holder, rebuild, sync, hover, unasked>>
TestSyncs ==
  /\ test = "runs" /\ test' = "synced" /\ asks' = asks + 1
  /\ UNCHANGED <<now, items, holder, rebuild, syncRunning, syncPending, tells, slipped, hover, testing, mainThread, unasked, changes>>
\* The guard of the test, also when there is no view or no group.
TestEnds ==
  /\ test # "off" /\ Room /\ test' = "off" /\ testing' = FALSE
  /\ mainThread' = Append(mainThread, LabelCall)
  /\ UNCHANGED <<now, items, holder, rebuild, sync, hover, unasked, changes>>

NextMenu ==
  \/ \E n \in Choices : Select(n) \/ CoreSelects(n)
  \/ Ask \/ Tell \/ LoopLooks \/ LoopClears \/ LoopLooksAgain
  \/ UpdateBare \/ (\E bare \in BOOLEAN : Update(bare))
  \/ \E r \in DOMAIN rebuild : Lock(r) \/ Make(r) \/ Swap(r)
  \/ Hover \/ HoverFails \/ (\E p \in Provided : HoverReads(p))
  \/ MainLabel \/ MainApplies \/ TestBegins \/ TestSyncs \/ TestEnds
-----------------------------------------------------------------------------
(* Properties                                                                *)

Settled ==
  /\ asks = 0 /\ tells = 0 /\ \A r \in DOMAIN rebuild : rebuild[r].at = "off"
  /\ hover = "off" /\ test = "off" /\ mainThread = <<>> /\ holder = "none"
\* Once nothing is under way the menu marks the node the Core has, if every
\* change was followed by a request or a refresh: no request is lost between the
\* loop's last look and its end, and no refresh writes an old view into a newer
\* menu. A request that is stored after the loop has left is told apart.
MenuShowsTheSelection == (Settled /\ ~unasked /\ ~slipped /\ items # NoItems) => items.shown = now

\* Once the main thread is through, the item of a group says that it is tested
\* exactly while it is, though the menu was rebuilt when the test began or ended.
LabelsTellTheTest ==
  (mainThread = <<>> /\ items # NoItems) => items.testing = testing
=============================================================================

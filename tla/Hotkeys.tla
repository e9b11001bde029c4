------------------------------- MODULE Hotkeys -------------------------------
\* The global shortcuts (core/hotkey.rs) and the focus of the window (lib.rs):
\* an update registers the difference to the list it knows; with the global
\* hotkeys turned off the shortcuts are registered while the window has the
\* focus, by tasks that every change of the focus starts.
EXTENDS Naturals, FiniteSets

CONSTANTS
  Keys, Functions,  \* what a user may bind; "quit" is the function of CMD+Q
  MaxFocus,     \* bound: changes of the focus
  MaxUpdates    \* bound: updates of the list, changes of the switch

VARIABLES
  mac,          \* the platform: CMD+Q and CMD+W belong to the focused window
  global,       \* enable_global_hotkey
  hotkeys,      \* [Keys -> function or "none"], as committed
  current,      \* the same, as the Hotkey singleton knows it
  bound,        \* [Keys and "cmd" -> the function the shortcut runs, or "none"]
  foreign,      \* the keys that another application has registered
  focus,        \* the window has the focus
  focusTasks,   \* the tasks that changes of the focus started
  update,       \* the update under way: where it is, the list, what is to be added
  presses,      \* the keys whose press is looked at
  ran,          \* history: [focused, global] when the last function was run
  crossed,      \* history: two tasks of the focus were under way at a time
  unbound,      \* history: an update failed over a key
  focusChanges, updates

binding == <<hotkeys, current, bound>>
window == <<focus, focusTasks>>
fixed == <<mac, foreign>>
spent == <<focusChanges, updates>>
hotkeyVars == <<fixed, global, binding, window, update, presses, ran, crossed, unbound, spent>>

Lists == [Keys -> Functions \cup {"none"}]
Nothing == [k \in Keys |-> "none"]
Idle == [at |-> "idle", list |-> Nothing, todo |-> {}, del |-> {}]
TypeOK ==
  /\ {mac, global, focus, crossed, unbound} \subseteq BOOLEAN /\ foreign \subseteq Keys
  /\ hotkeys \in Lists /\ current \in Lists
  /\ bound \in [Keys \cup {"cmd"} -> Functions \cup {"none", "quit"}]
  /\ focusTasks \subseteq [on : BOOLEAN, n : 1..MaxFocus, at : {"begun", "global", "window"}]
  /\ update.at \in {"idle", "deleting", "adding"} /\ update.list \in Lists /\ update.todo \subseteq Keys
  /\ presses \subseteq Keys /\ ran \in [focused : BOOLEAN, global : BOOLEAN]
  /\ focusChanges \in 0..MaxFocus /\ updates \in 0..MaxUpdates

\* Registering a key that is taken elsewhere fails.
Registered(list, b) ==
  [k \in DOMAIN b |-> IF k # "cmd" /\ list[k] # "none" /\ k \notin foreign THEN list[k] ELSE b[k]]
\* Hotkey::init at start-up: skipped while the hotkeys belong to the window.
InitHotkeys ==
  /\ mac \in BOOLEAN /\ global \in BOOLEAN /\ foreign \in SUBSET Keys /\ Cardinality(foreign) <= 1
  /\ hotkeys \in Lists /\ current = (IF global THEN hotkeys ELSE Nothing)
  /\ bound = (IF global THEN Registered(hotkeys, [k \in Keys \cup {"cmd"} |-> "none"])
              ELSE [k \in Keys \cup {"cmd"} |-> "none"])
  /\ focus = FALSE /\ focusTasks = {} /\ update = Idle /\ presses = {}
  /\ ran = [focused |-> TRUE, global |-> global]
  /\ crossed = FALSE /\ unbound = FALSE /\ focusChanges = 0 /\ updates = 0
-----------------------------------------------------------------------------
(* The focus                                                                  *)

\* handle_window_focus, handle_window_destroyed: a task each, in no order.
Focus ==
  /\ focusChanges < MaxFocus /\ focusChanges' = focusChanges + 1
  /\ focus' = ~focus /\ crossed' = (crossed \/ focusTasks # {})
  /\ focusTasks' = focusTasks \cup {[on |-> ~focus, n |-> focusChanges + 1, at |-> "begun"]}
  /\ UNCHANGED <<fixed, global, binding, update, presses, ran, unbound, updates>>

TaskReads(t) ==
  /\ t \in focusTasks /\ t.at = "begun"
  /\ focusTasks' = (focusTasks \ {t}) \cup {[t EXCEPT !.at = IF global THEN "global" ELSE "window"]}
  /\ UNCHANGED <<fixed, global, binding, focus, update, presses, ran, crossed, unbound, spent>>

\* The list with the patch that is staged.
Latest == IF update.at = "idle" THEN hotkeys ELSE update.list
WithCommand(b) == IF mac THEN [b EXCEPT !["cmd"] = "quit"] ELSE b
\* Mutant: the list that was registered is not kept.
RegisterOnly(t) ==
  /\ t \in focusTasks /\ t.on /\ t.at # "begun" /\ focusTasks' = focusTasks \ {t}
  /\ bound' = IF t.at = "window" THEN Registered(Latest, WithCommand(bound)) ELSE WithCommand(bound)
  /\ UNCHANGED <<fixed, global, hotkeys, current, focus, update, presses, ran, crossed, unbound, spent>>
\* The system hotkeys, then init(false) for hotkeys that belong to the window.
TaskRegisters(t) ==
  /\ t \in focusTasks /\ t.on /\ t.at # "begun" /\ focusTasks' = focusTasks \ {t}
  /\ \/ t.at = "window" /\ bound' = Registered(Latest, WithCommand(bound)) /\ current' = Latest
     \/ t.at = "global" /\ bound' = WithCommand(bound) /\ UNCHANGED current
  /\ UNCHANGED <<fixed, global, hotkeys, focus, update, presses, ran, crossed, unbound, spent>>

\* The system hotkeys go, and with the window's hotkeys all of them (reset).
TaskUnregisters(t) ==
  /\ t \in focusTasks /\ ~t.on /\ t.at # "begun" /\ focusTasks' = focusTasks \ {t}
  /\ bound' = [k \in DOMAIN bound |->
                 IF t.at = "window" \/ (mac /\ k = "cmd") THEN "none" ELSE bound[k]]
  /\ UNCHANGED <<fixed, global, hotkeys, current, focus, update, presses, ran, crossed, unbound, spent>>
-----------------------------------------------------------------------------
(* The list                                                                   *)

Gone(new) == {k \in Keys : current[k] # "none" /\ current[k] # new[k]}
\* Mutant: a key that only changed its function is not added.
AddedKeys(new) == {k \in Keys : new[k] # "none" /\ current[k] = "none"}
\* get_diff, over the two maps (get_map_from_vec).
Added(new) == {k \in Keys : new[k] # "none" /\ current[k] # new[k]}
\* Hotkey::update, for a patch that is staged.
BeginUpdate(new) ==
  /\ update.at = "idle" /\ updates < MaxUpdates /\ updates' = updates + 1
  /\ update' = [at |-> "deleting", list |-> new, todo |-> Added(new), del |-> Gone(new)]
  /\ UNCHANGED <<fixed, global, binding, window, presses, ran, crossed, unbound, focusChanges>>
Delete ==
  /\ update.at = "deleting" /\ update' = [update EXCEPT !.at = "adding"]
  /\ bound' = [k \in DOMAIN bound |-> IF k \in update.del THEN "none" ELSE bound[k]]
  /\ UNCHANGED <<fixed, global, hotkeys, current, window, presses, ran, crossed, unbound, spent>>
\* A key that cannot be registered ends the update where it is: the patch is
\* discarded, what was unregistered stays so.
Add(k) ==
  /\ update.at = "adding" /\ k \in update.todo
  /\ \/ /\ k \notin foreign /\ bound' = [bound EXCEPT ![k] = update.list[k]]
        /\ update' = [update EXCEPT !.todo = @ \ {k}] /\ UNCHANGED unbound
     \/ k \in foreign /\ update' = Idle /\ unbound' = TRUE /\ UNCHANGED bound
  /\ UNCHANGED <<fixed, global, hotkeys, current, window, presses, ran, crossed, spent>>
EndUpdate ==
  /\ update.at = "adding" /\ update.todo = {} /\ update' = Idle
  /\ current' = update.list /\ hotkeys' = update.list
  /\ UNCHANGED <<fixed, global, bound, window, presses, ran, crossed, unbound, spent>>

\* The switch is in the window, and has no effect of its own (effects.rs).
Switch ==
  /\ focus /\ focusTasks = {} /\ update.at = "idle" /\ updates < MaxUpdates
  /\ updates' = updates + 1 /\ global' = ~global
  /\ UNCHANGED <<fixed, binding, window, update, presses, ran, crossed, unbound, focusChanges>>
-----------------------------------------------------------------------------
(* A press                                                                    *)

Press(k) ==
  /\ bound[k] # "none" /\ presses = {} /\ presses' = {k}
  /\ UNCHANGED <<fixed, global, binding, window, update, ran, crossed, unbound, spent>>

\* Mutant: being registered is enough.
RunAnyway(k) ==
  /\ k \in presses /\ presses' = {} /\ ran' = [focused |-> focus, global |-> global]
  /\ UNCHANGED <<fixed, global, binding, window, update, crossed, unbound, spent>>
\* The switch and the focus are looked at when the key is pressed, whatever the
\* registrations say.
Run(k) ==
  /\ k \in presses /\ presses' = {}
  /\ ran' = IF global \/ focus THEN [focused |-> focus, global |-> global] ELSE ran
  /\ UNCHANGED <<fixed, global, binding, window, update, crossed, unbound, spent>>

NextHotkeys ==
  \/ Focus \/ Delete \/ EndUpdate \/ Switch
  \/ \E t \in focusTasks : TaskReads(t) \/ TaskRegisters(t) \/ TaskUnregisters(t)
  \/ \E new \in Lists : BeginUpdate(new)
  \/ \E k \in Keys : Add(k) \/ Press(k) \/ Run(k)
-----------------------------------------------------------------------------
(* Properties                                                                 *)

Quiet == focusTasks = {} /\ update.at = "idle" /\ ~crossed /\ ~unbound
\* Once nothing is under way, every key does what the list says and no other key
\* does anything, whichever of the start-up, the focus and the updates registered
\* it. Two changes of the focus that cross, and an update that failed over a key
\* another application has, are told apart.
KeysDoWhatTheListSays ==
  (Quiet /\ (global \/ focus)) => \A k \in Keys \ foreign : bound[k] = hotkeys[k]

\* With the global hotkeys turned off no function runs for a window that is not
\* in front, even when a crossed change of the focus left the keys registered.
WindowKeysNeedTheWindow == ran.global \/ ran.focused
=============================================================================

---------------------------- MODULE Lightweight ----------------------------
\* Lightweight mode and the main window (core/lightweight.rs,
\* utils/window_manager.rs, utils/resolve/window.rs, the window events of lib.rs),
\* as macOS builds them: the application gives its window up after a while in
\* the background and stays in the tray.
\*
\* The mode is one atomic value that an entry claims (Normal to In) and an exit
\* claims (In to Exiting); after its claim each writes the value again without
\* looking. The timer is a task that a sender in one slot cancels. Events of the
\* window arrive on the main thread, requests on the others.
EXTENDS Naturals

CONSTANTS
  Auto,        \* enable_auto_light_weight_mode
  MaxTimers,   \* bound: timers set over a behaviour
  MaxRequests, \* bound: requests for the window, and entries by hand
  MaxDeaths    \* bound: pages the system kills

Timers == 1..MaxTimers
Hand == 0                                \* an entry the user asked for
Entries == Timers \cup {Hand}

VARIABLES
  lmode,       \* LIGHTWEIGHT_STATE
  slot,        \* CANCEL_TX: the timer it cancels, 0 when empty
  entry,       \* [Entries -> where the task is]
  arming,      \* a close that has not set its timer yet
  leave,       \* a request that is leaving the mode
  window,      \* "none", "hidden", "shown"
  listens,     \* the close and focus listeners are on this window
  focusing,    \* a Focused(true) event on its way to the main thread
  page,        \* "loading", "ready", "dead"
  marker,      \* WEBVIEW_NEEDS_RELOAD
  dying,       \* what the handler of a killed page saw: "no", "hidden", "shown"
  lastClosed,  \* ExitRequested, raised by the destruction of the window
  quits,       \* the main loop began a quit for want of a window
  usedUp,      \* a timer took away a window in use
  late,        \* a focus came while a timer was being set, or had run out
  crossed,     \* a request for the window crossed an entry
  requests, deaths

modeVars == <<lmode, slot, entry, arming, leave>>
windowVars == <<window, listens, focusing, page, marker, dying>>
storyVars == <<quits, usedUp, late, crossed, requests, deaths>>
lightVars == <<modeVars, windowVars, lastClosed, storyVars>>

EntryStages == {"unset", "waiting", "expired", "asking", "claimed", "written", "destroyed", "over"}
TypeOK ==
  /\ lmode \in {"normal", "in", "exiting"} /\ slot \in 0..MaxTimers
  /\ entry \in [Entries -> EntryStages] /\ arming \in BOOLEAN
  /\ leave \in {"no", "claimed", "written", "shown"}
  /\ window \in {"none", "hidden", "shown"} /\ listens \in BOOLEAN /\ focusing \in BOOLEAN
  /\ page \in {"loading", "ready", "dead"} /\ marker \in BOOLEAN
  /\ dying \in {"no", "hidden", "shown"} /\ lastClosed \in BOOLEAN
  /\ quits \in BOOLEAN /\ usedUp \in BOOLEAN /\ late \in BOOLEAN /\ crossed \in BOOLEAN
  /\ requests \in 0..MaxRequests /\ deaths \in 0..MaxDeaths

InitLight ==
  /\ lmode = "normal" /\ slot = 0 /\ entry = [e \in Entries |-> "unset"]
  /\ arming = FALSE /\ leave = "no"
  /\ window = "hidden" /\ listens = Auto /\ focusing = FALSE /\ page = "loading"
  /\ marker = FALSE /\ dying = "no" /\ lastClosed = FALSE
  /\ quits = FALSE /\ usedUp = FALSE /\ late = FALSE /\ crossed = FALSE
  /\ requests = 0 /\ deaths = 0

Step(e, s) == entry' = [entry EXCEPT ![e] = s]
Entering == \E e \in Entries : entry[e] \in {"asking", "claimed", "written", "destroyed"}
MainThreadIsFree == dying = "no"
-----------------------------------------------------------------------------
(* The timer                                                                  *)

\* CloseRequested and hide: the window is hidden, and a task sets the timer when
\* the mode is automatic.
CloseWindow ==
  /\ MainThreadIsFree /\ window = "shown" /\ ~focusing
  /\ window' = "hidden" /\ arming' = (arming \/ listens)
  /\ UNCHANGED <<lmode, slot, entry, leave, listens, focusing, page, marker, dying,
                 lastClosed, storyVars>>

\* setup_light_weight_timer: one timer at a time.
SetTimer ==
  /\ arming /\ arming' = FALSE
  /\ \/ /\ slot # 0 /\ UNCHANGED <<slot, entry>>
     \/ /\ slot = 0
        /\ \E t \in Timers : entry[t] = "unset" /\ Step(t, "waiting") /\ slot' = t
  /\ UNCHANGED <<lmode, leave, windowVars, lastClosed, storyVars>>

\* A dropped sender ends its task as a sent one does; a timer that ran out no
\* longer listens.
Cancelled(t) == IF t # 0 /\ entry[t] = "waiting" THEN [entry EXCEPT ![t] = "over"] ELSE entry
CancelTimer == slot' = 0 /\ entry' = Cancelled(slot)

Expire(t) ==
  /\ entry[t] = "waiting" /\ Step(t, "expired")
  /\ UNCHANGED <<lmode, slot, arming, leave, windowVars, lastClosed, storyVars>>

\* Mutant: a timer that ran out leaves its sender in the slot.
KeepSlot(t) ==
  /\ entry[t] = "expired" /\ Step(t, "asking")
  /\ UNCHANGED <<lmode, slot, arming, leave, windowVars, lastClosed, storyVars>>

\* Whatever sender is in the slot by now is dropped.
ClearSlot(t) ==
  /\ entry[t] = "expired" /\ slot' = 0
  /\ entry' = [Cancelled(slot) EXCEPT ![t] = "asking"]
  /\ UNCHANGED <<lmode, arming, leave, windowVars, lastClosed, storyVars>>
-----------------------------------------------------------------------------
(* entry_lightweight_mode                                                     *)

AskByHand ==
  /\ entry[Hand] \in {"unset", "over"} /\ requests < MaxRequests
  /\ Step(Hand, "asking") /\ requests' = requests + 1
  /\ UNCHANGED <<lmode, slot, arming, leave, windowVars, lastClosed, quits, usedUp, late,
                 crossed, deaths>>

\* Mutant: an entry destroys the window before it claims the mode.
EnterUnclaimed(e) ==
  /\ entry[e] = "asking"
  /\ IF lmode = "normal" THEN Step(e, "written") ELSE Step(e, "over")
  /\ UNCHANGED <<lmode, slot, arming, leave, windowVars, lastClosed, storyVars>>

Enter(e) ==
  /\ entry[e] = "asking"
  /\ IF lmode = "normal" THEN lmode' = "in" /\ Step(e, "claimed")
     ELSE UNCHANGED lmode /\ Step(e, "over")
  /\ UNCHANGED <<slot, arming, leave, windowVars, lastClosed, storyVars>>

\* The mode is written once more, whoever has claimed it since.
WriteIn(e) ==
  /\ entry[e] = "claimed" /\ lmode' = "in" /\ Step(e, "written")
  /\ UNCHANGED <<slot, arming, leave, windowVars, lastClosed, storyVars>>

DestroyWindow(e) ==
  /\ entry[e] = "written" /\ Step(e, "destroyed")
  /\ window' = "none" /\ listens' = FALSE /\ focusing' = FALSE
  /\ lastClosed' = (lastClosed \/ window # "none")
  /\ usedUp' = (usedUp \/ (e # Hand /\ window = "shown" /\ ~focusing))
  /\ UNCHANGED <<lmode, slot, arming, leave, page, marker, dying, quits, late, crossed,
                 requests, deaths>>

Entered(e) ==
  /\ entry[e] = "destroyed"
  /\ slot' = 0 /\ entry' = [Cancelled(slot) EXCEPT ![e] = "over"]
  /\ UNCHANGED <<lmode, arming, leave, windowVars, lastClosed, storyVars>>

\* ExitRequested without a code: lightweight mode keeps the application.
LoopRunsDry ==
  /\ MainThreadIsFree /\ lastClosed /\ lastClosed' = FALSE
  /\ quits' = (quits \/ (window = "none" /\ lmode # "in"))
  /\ UNCHANGED <<modeVars, windowVars, usedUp, late, crossed, requests, deaths>>
-----------------------------------------------------------------------------
(* Showing the window                                                         *)

\* build_new_window: hidden until its page has loaded, and a marker of the old
\* page is taken back.
Create ==
  /\ window' = "hidden" /\ listens' = FALSE /\ page' = "loading" /\ marker' = FALSE
  /\ UNCHANGED <<focusing, dying>>

\* activate_window: a page that was killed is loaded again and shown by its load.
Activate ==
  \/ /\ marker /\ marker' = FALSE /\ page' = "loading"
     /\ UNCHANGED <<window, listens, focusing, dying>>
  \/ /\ ~marker /\ window' = "shown" /\ focusing' = TRUE
     /\ UNCHANGED <<listens, page, marker, dying>>

\* show_main_window; one that comes too soon after another does nothing.
Show ==
  \/ UNCHANGED windowVars
  \/ window = "none" /\ Create
  \/ window = "hidden" /\ Activate
  \/ window = "shown" /\ UNCHANGED windowVars

\* A request for the window: from lightweight mode it leaves the mode first. In
\* any other it goes to the window as it is.
Request ==
  /\ requests < MaxRequests /\ requests' = requests + 1
  /\ crossed' = (crossed \/ Entering \/ lastClosed)
  /\ \/ /\ lmode = "in" /\ leave = "no" /\ lmode' = "exiting" /\ leave' = "claimed"
        /\ UNCHANGED windowVars
     \/ /\ lmode # "in" /\ Show /\ UNCHANGED <<lmode, leave>>
  /\ UNCHANGED <<slot, entry, arming, lastClosed, quits, usedUp, late, deaths>>

WriteExiting ==
  /\ leave = "claimed" /\ lmode' = "exiting" /\ leave' = "written"
  /\ UNCHANGED <<slot, entry, arming, windowVars, lastClosed, storyVars>>

LeaveShows ==
  /\ leave = "written" /\ Show /\ leave' = "shown"
  /\ UNCHANGED <<lmode, slot, entry, arming, lastClosed, storyVars>>

\* The listeners go on the window there is, the timer is cancelled, and the mode
\* is normal whatever it became meanwhile.
Left ==
  /\ leave = "shown" /\ leave' = "no" /\ lmode' = "normal" /\ CancelTimer
  /\ listens' = (listens \/ (Auto /\ window # "none"))
  /\ UNCHANGED <<arming, window, focusing, page, marker, dying, lastClosed, storyVars>>

\* on_page_load: shown and focused, the first time and after every reload.
PageLoads ==
  /\ window # "none" /\ page = "loading" /\ page' = "ready"
  /\ window' = "shown" /\ focusing' = TRUE
  /\ UNCHANGED <<modeVars, listens, marker, dying, lastClosed, storyVars>>

\* Mutant: a focus leaves the timer running.
FocusOnly ==
  /\ MainThreadIsFree /\ window = "shown" /\ focusing /\ focusing' = FALSE
  /\ late' = (late \/ arming \/ ~listens \/ \E t \in Timers : entry[t] \in EntryStages \ {"unset", "waiting", "over"})
  /\ IF marker THEN marker' = FALSE /\ page' = "loading" ELSE UNCHANGED <<marker, page>>
  /\ UNCHANGED <<modeVars, window, listens, dying, lastClosed, quits, usedUp, crossed, requests, deaths>>

\* Mutant: a window that is shown by somebody else is not looked at again.
FocusKeepsMarker ==
  /\ MainThreadIsFree /\ window = "shown" /\ focusing /\ focusing' = FALSE
  /\ late' = (late \/ arming \/ ~listens \/ \E t \in Timers : entry[t] \in EntryStages \ {"unset", "waiting", "over"})
  /\ IF listens THEN CancelTimer ELSE UNCHANGED <<slot, entry>>
  /\ UNCHANGED <<lmode, arming, leave, window, listens, page, marker, dying, lastClosed, quits,
                 usedUp, crossed, requests, deaths>>

\* Focused(true): the focus listener cancels the timer, and a killed page that
\* was shown without an activation is loaded again.
Focus ==
  /\ MainThreadIsFree /\ window = "shown" /\ focusing /\ focusing' = FALSE
  /\ late' = (late \/ arming \/ ~listens \/ \E t \in Timers : entry[t] \in EntryStages \ {"unset", "waiting", "over"})
  /\ IF listens THEN CancelTimer ELSE UNCHANGED <<slot, entry>>
  /\ IF marker THEN marker' = FALSE /\ page' = "loading" ELSE UNCHANGED <<marker, page>>
  /\ UNCHANGED <<lmode, arming, leave, window, listens, dying, lastClosed, quits, usedUp,
                 crossed, requests, deaths>>

-----------------------------------------------------------------------------
(* on_web_content_process_terminated                                          *)

\* The system kills the page of the window; the handler reads whether it shows.
PageDies ==
  /\ MainThreadIsFree /\ window # "none" /\ page = "ready" /\ deaths < MaxDeaths
  /\ page' = "dead" /\ dying' = window /\ deaths' = deaths + 1
  /\ UNCHANGED <<modeVars, window, listens, focusing, marker, lastClosed, quits, usedUp, late,
                 crossed, requests>>

\* A visible page is loaded again at once, a hidden one when it is next shown.
SeeToPage ==
  /\ dying # "no" /\ dying' = "no"
  /\ \/ dying = "hidden" /\ marker' = TRUE /\ UNCHANGED page
     \/ /\ dying = "shown" /\ UNCHANGED marker
        /\ page' = IF window = "none" THEN page ELSE "loading"
  /\ UNCHANGED <<modeVars, window, listens, focusing, lastClosed, storyVars>>

NextLight ==
  \/ CloseWindow \/ SetTimer \/ AskByHand \/ LoopRunsDry
  \/ \E t \in Timers : Expire(t) \/ ClearSlot(t)
  \/ \E e \in Entries : Enter(e) \/ WriteIn(e) \/ DestroyWindow(e) \/ Entered(e)
  \/ Request \/ WriteExiting \/ LeaveShows \/ Left
  \/ PageLoads \/ Focus \/ PageDies \/ SeeToPage

SpecLight == InitLight /\ [][NextLight]_lightVars
-----------------------------------------------------------------------------
(* Properties                                                                 *)

\* A timer that is counting can be cancelled (lightweight.rs CANCEL_TX): its
\* sender is in the slot. And a sender in the slot has a timer: otherwise no
\* timer would ever be set again.
TimersAreCancellable ==
  /\ \A t \in Timers : entry[t] = "waiting" => slot = t
  /\ slot # 0 => entry[slot] \in {"waiting", "expired"}

\* The timer does not take away a window in use: the focus that made it so has
\* cancelled it. Excepted are a window that no listener watches, and a focus
\* that comes while the timer is being set or has just run out.
WindowsInUseStay == usedUp => late

\* Destroying the last window never quits the application (lib.rs ExitRequested):
\* the entry has claimed the mode before. Excepted is a request that takes the
\* mode back before the entry has destroyed the window.
EnteringNeverQuits == quits => crossed

\* A page the system killed is never shown for good (resolve/window.rs): whoever
\* shows the window finds the marker, or the handler loads the page itself.
DeadPagesAreReloaded ==
  page = "dead" /\ dying = "no" =>
    (window = "hidden" => marker) /\ (window = "shown" => marker /\ focusing)
=============================================================================

------------------------------ MODULE Updater ------------------------------
\* The silent updater (core/updater.rs): a background task downloads an update
\* into a cache for the next start, the update dialog installs one by hand, and
\* turning the automatic check off throws away what is pending.
\*
\* The cache is two files written one after the other; the installer runs with
\* more rights than the user who can write the cache. A version is a number, a
\* cached installer the version it was signed for, or Foul.
EXTENDS Naturals

CONSTANTS
  Current,      \* the version that runs
  Versions,     \* what the server may offer
  MaxChecks,    \* bound: background cycles
  MaxPatches,   \* bound: times the switch is turned
  MaxInstalls   \* bound: installs from the dialog

Nothing == 0
Foul == 99                               \* bytes no signature fits

VARIABLES
  starting,     \* the start has not looked at the cache yet
  auto,         \* auto_check_update, committed
  writing,      \* who holds the config write lock: "no", "patch", "background"
  bin, meta,    \* pending_update.bin, and the version in pending_update.json
  ready,        \* update_ready
  bgToken,      \* background_cancel: "none", "armed", "cancelled"
  bg, bgUpdate, \* the background task, and the update it found
  manual, want, \* an install from the dialog, and the version it is for
  manualToken, manualBytes,
  offered,      \* the version the server offers
  installed,    \* what an installer was started for: <<bytes, version>> or <<>>
  againstWill,  \* history: an installer started after a cancel took effect
  checks, patches, installs

cache == <<bin, meta>>
bgVars == <<bgToken, bg, bgUpdate>>
manualVars == <<manual, want, manualToken, manualBytes>>
ends == <<installed, againstWill>>
counters == <<checks, patches, installs>>
updaterVars == <<starting, auto, writing, cache, ready, bgVars, manualVars, offered, ends, counters>>

TypeOK ==
  /\ starting \in BOOLEAN /\ auto \in BOOLEAN /\ writing \in {"no", "patch", "background"}
  /\ bin \in Versions \cup {Nothing, Foul} /\ meta \in Versions \cup {Nothing}
  /\ ready \in BOOLEAN /\ bgToken \in {"none", "armed", "cancelled"}
  /\ bg \in {"asleep", "armed", "checking", "found", "downloaded", "half written", "cached", "locked"}
  /\ bgUpdate \in Versions \cup {Nothing}
  /\ manual \in {"no", "checking", "fetching", "prepared", "taken", "installing"}
  /\ want \in Versions \cup {Nothing} /\ manualToken \in {"none", "armed", "cancelled"}
  /\ manualBytes \in Versions \cup {Nothing}
  /\ offered \in Versions \cup {Nothing} /\ againstWill \in BOOLEAN
  /\ checks \in 0..MaxChecks /\ patches \in 0..MaxPatches /\ installs \in 0..MaxInstalls

\* The cache an earlier session left, which its user may have written to.
InitUpdater ==
  /\ starting = TRUE /\ auto \in BOOLEAN /\ writing = "no"
  /\ bin \in Versions \cup {Nothing, Foul} /\ meta \in Versions \cup {Nothing}
  /\ ready = FALSE /\ bgToken = "none" /\ bg = "asleep" /\ bgUpdate = Nothing
  /\ manual = "no" /\ want = Nothing /\ manualToken = "none" /\ manualBytes = Nothing
  /\ offered \in {v \in Versions : v > Current} \cup {Nothing} /\ installed = <<>> /\ againstWill = FALSE
  /\ checks = 0 /\ patches = 0 /\ installs = 0

DeleteCache == bin' = Nothing /\ meta' = Nothing
\* Mutant: the bytes are not verified again.
UsableUnverified(v) == meta = v /\ bin # Nothing
\* verified_cache: the version asked for, with the signature of that version.
Usable(v) == meta = v /\ bin = v
-----------------------------------------------------------------------------
(* The background cycle                                                       *)

\* The token is registered before the switch is read.
Wake ==
  /\ ~starting /\ bg = "asleep" /\ checks < MaxChecks /\ checks' = checks + 1
  /\ bg' = "armed" /\ bgToken' = "armed" /\ bgUpdate' = Nothing
  /\ UNCHANGED <<starting, auto, writing, cache, ready, manualVars, offered, ends, patches, installs>>

ReadSwitch ==
  /\ bg = "armed" /\ bg' = IF auto /\ ~ready THEN "checking" ELSE "asleep"
  /\ UNCHANGED <<starting, auto, writing, cache, ready, bgToken, bgUpdate, manualVars, offered, ends, counters>>

\* Nothing offered, no answer, or an update to be installed by hand end the cycle.
Check ==
  /\ bg = "checking"
  /\ \/ bg' = "asleep" /\ UNCHANGED bgUpdate
     \/ offered # Nothing /\ bgUpdate' = offered /\ bg' = "found"
  /\ UNCHANGED <<starting, auto, writing, cache, ready, bgToken, manualVars, offered, ends, counters>>

\* A cache that fits is kept, one that does not is deleted; a download is raced
\* against the token and may fail.
Download ==
  /\ bg = "found"
  /\ \/ Usable(bgUpdate) /\ bg' = "cached" /\ UNCHANGED cache
     \/ /\ ~Usable(bgUpdate) /\ bg' \in {"downloaded", "asleep"}
        /\ (bgToken = "cancelled" => bg' = "asleep")
        /\ IF meta = Nothing THEN UNCHANGED cache ELSE DeleteCache
  /\ UNCHANGED <<starting, auto, writing, ready, bgToken, bgUpdate, manualVars, offered, ends, counters>>

\* write_cache: the installer, then its version. The task may be killed or fail
\* between the two.
WriteBin ==
  /\ bg = "downloaded" /\ bin' = bgUpdate /\ bg' \in {"half written", "asleep"}
  /\ UNCHANGED <<starting, auto, writing, meta, ready, bgToken, bgUpdate, manualVars, offered, ends, counters>>

WriteMeta ==
  /\ bg = "half written" /\ meta' = bgUpdate /\ bg' = "cached"
  /\ UNCHANGED <<starting, auto, writing, bin, ready, bgToken, bgUpdate, manualVars, offered, ends, counters>>

LockConfig ==
  /\ bg = "cached" /\ writing = "no" /\ writing' = "background" /\ bg' = "locked"
  /\ UNCHANGED <<starting, auto, cache, ready, bgToken, bgUpdate, manualVars, offered, ends, counters>>

\* Mutant: what was downloaded is announced without a second look at the switch.
AnnounceAlways ==
  /\ bg = "locked" /\ writing' = "no" /\ bg' = "asleep" /\ ready' = TRUE
  /\ UNCHANGED <<starting, auto, cache, bgToken, bgUpdate, manualVars, offered, ends, counters>>

\* Serialized with the patch that turns the switch off.
Announce ==
  /\ bg = "locked" /\ writing' = "no" /\ bg' = "asleep"
  /\ \/ /\ bgToken = "cancelled" \/ ~auto
        /\ DeleteCache /\ UNCHANGED ready
     \/ /\ bgToken # "cancelled" /\ auto
        /\ ready' = TRUE /\ UNCHANGED cache
  /\ UNCHANGED <<starting, auto, bgToken, bgUpdate, manualVars, offered, ends, counters>>
-----------------------------------------------------------------------------
(* The switch                                                                 *)

Patch ==
  /\ writing = "no" /\ patches < MaxPatches /\ patches' = patches + 1
  /\ auto' = ~auto /\ writing' = IF auto THEN "patch" ELSE "no"
  /\ UNCHANGED <<starting, cache, ready, bgVars, manualVars, offered, ends, checks, installs>>

\* discard_pending, under the lock of the patch that turned the switch off.
Discard ==
  /\ writing = "patch" /\ writing' = "no" /\ ready' = FALSE /\ DeleteCache
  /\ bgToken' = IF bgToken = "armed" THEN "cancelled" ELSE bgToken
  /\ UNCHANGED <<starting, auto, bg, bgUpdate, manualVars, offered, ends, counters>>
-----------------------------------------------------------------------------
(* An install from the dialog                                                 *)

Ask(v) ==
  /\ manual = "no" /\ installs < MaxInstalls /\ installs' = installs + 1
  /\ manual' = "checking" /\ want' = v /\ manualToken' = "armed" /\ manualBytes' = Nothing
  /\ UNCHANGED <<starting, auto, writing, cache, ready, bgVars, offered, ends, checks, patches>>

\* The dialog is about one version; another one ends it.
CheckAsked ==
  /\ manual = "checking" /\ manual' = IF offered = want THEN "fetching" ELSE "no"
  /\ UNCHANGED <<starting, auto, writing, cache, ready, bgVars, want, manualToken, manualBytes, offered, ends,
                 counters>>

\* From the cache, or by a download, whose bytes the plugin verifies.
Fetch ==
  /\ manual = "fetching"
  /\ \/ /\ Usable(want) /\ manualBytes' = bin /\ manual' = "prepared" /\ UNCHANGED cache
     \/ /\ ~Usable(want)
        /\ IF meta = Nothing THEN UNCHANGED cache ELSE DeleteCache
        /\ \/ manualBytes' = want /\ manual' = "prepared"
           \/ manual' = "no" /\ UNCHANGED manualBytes
  /\ UNCHANGED <<starting, auto, writing, ready, bgVars, want, manualToken, offered, ends, counters>>

\* cancel_download takes the token, under the lock the install takes it under.
CancelAsked ==
  /\ manual \in {"checking", "fetching", "prepared"} /\ manualToken = "armed"
  /\ manualToken' = "cancelled"
  /\ UNCHANGED <<starting, auto, writing, cache, ready, bgVars, manual, want, manualBytes, offered, ends, counters>>

\* Mutant: a cancel that came while the last step ran is not seen.
TakeBlindly ==
  /\ manual = "prepared" /\ manual' = "taken"
  /\ UNCHANGED <<starting, auto, writing, cache, ready, bgVars, want, manualToken, manualBytes, offered, ends,
                 counters>>

\* Once the token is taken back its state is final.
Take ==
  /\ manual = "prepared" \/ (manual \in {"checking", "fetching"} /\ manualToken = "cancelled")
  /\ manual' = IF manualToken = "cancelled" THEN "no" ELSE "taken"
  /\ UNCHANGED <<starting, auto, writing, cache, ready, bgVars, want, manualToken, manualBytes, offered, ends,
                 counters>>

Install ==
  /\ manual = "taken" /\ manual' = "installing" /\ installed' = <<manualBytes, want>>
  /\ againstWill' = (againstWill \/ manualToken = "cancelled")
  /\ UNCHANGED <<starting, auto, writing, cache, ready, bgVars, want, manualToken, manualBytes, offered, counters>>

Installed ==
  /\ manual = "installing" /\ manual' = "no"
  /\ DeleteCache \/ UNCHANGED cache       \* the installer failed
  /\ UNCHANGED <<starting, auto, writing, ready, bgVars, want, manualToken, manualBytes, offered, ends, counters>>
-----------------------------------------------------------------------------
(* try_install_on_startup, before the background cycle                        *)

\* An older cache, or any with the switch off, is deleted; the user may put a
\* newer one off; the server must still offer what the cache holds.
Startup ==
  /\ starting /\ starting' = FALSE
  /\ \/ auto /\ (meta = Nothing \/ meta > Current) /\ UNCHANGED <<cache, installed>>
     \/ ~auto /\ DeleteCache /\ UNCHANGED installed
     \/ auto /\ meta \in 1..Current /\ DeleteCache /\ UNCHANGED installed
     \/ /\ auto /\ meta > Current /\ offered = Nothing /\ DeleteCache /\ UNCHANGED installed
     \/ /\ auto /\ meta > Current /\ offered # Nothing
        /\ \/ ~Usable(offered) /\ DeleteCache /\ UNCHANGED installed
           \/ Usable(offered) /\ installed' = <<bin, offered>> /\ DeleteCache
           \/ Usable(offered) /\ installed' = <<bin, offered>> /\ UNCHANGED cache
  /\ UNCHANGED <<auto, writing, ready, bgVars, manualVars, offered, againstWill, counters>>

\* The next start: nothing in memory survives.
Relaunch ==
  /\ writing = "no" /\ installed = <<>> /\ checks > 0
  /\ starting' = TRUE /\ checks' = 0 /\ ready' = FALSE /\ bgToken' = "none" /\ bg' = "asleep" /\ bgUpdate' = Nothing
  /\ manual' = "no" /\ want' = Nothing /\ manualToken' = "none" /\ manualBytes' = Nothing
  /\ patches' = MaxPatches /\ installs' = MaxInstalls
  /\ UNCHANGED <<auto, writing, cache, offered, ends>>

\* The server offers a later version than the one it did.
Publish ==
  /\ \E v \in Versions : v > offered /\ v > Current /\ offered' = v
  /\ UNCHANGED <<starting, auto, writing, cache, ready, bgVars, manualVars, ends, counters>>

NextUpdater ==
  \/ Wake \/ ReadSwitch \/ Check \/ Download \/ WriteBin \/ WriteMeta \/ LockConfig \/ Announce
  \/ Patch \/ Discard
  \/ \E v \in Versions : Ask(v)
  \/ CheckAsked \/ Fetch \/ CancelAsked \/ Take \/ Install \/ Installed
  \/ Startup \/ Relaunch \/ Publish

SpecUpdater == InitUpdater /\ [][NextUpdater]_updaterVars
-----------------------------------------------------------------------------
(* Properties                                                                 *)

\* With the automatic check off nothing is pending (updater.rs discard_pending):
\* not a file that the next start would offer, nor an update announced as ready,
\* however the download in the background was caught.
OffMeansNothingPending ==
  ~auto /\ ~starting /\ writing # "patch" => ~ready /\ (bg = "asleep" => meta = Nothing)

\* The installer is started only on bytes that are signed for the version the
\* server offers, and that is newer than the one that runs, whatever became of
\* the two files of the cache.
OnlySignedUpdates ==
  installed # <<>> => installed[1] = installed[2]

\* A cancel that was accepted is obeyed: no installer is started after it.
CancelsAreObeyed == ~againstWill
=============================================================================

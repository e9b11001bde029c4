------------------------------ MODULE MixedPort ------------------------------
(***************************************************************************)
(* Which port the proxy is on: the port that was chosen (config.yaml and   *)
(* orbit.yaml), the port a start borrows when the chosen one is occupied   *)
(* (config/port.rs, config/mixed_port.rs), the port the Core serves, and   *)
(* the port PAC and the system proxy tell others to use.  A save of the    *)
(* ports (feat/listener.rs) may fail at every step of it.  The locks that  *)
(* order starts and saves are those of ConfigWrites; how a port is probed  *)
(* is Listeners'.                                                          *)
(***************************************************************************)
EXTENDS Naturals, FiniteSetsExt

CONSTANTS
  Ports,        \* 1..n, in the order in which they are tried
  Reserved,     \* ports of the other listeners and of the controller
  MaxSaves,     \* saves looked at
  MaxTaken      \* how often other programs take a port

VARIABLES
  chosen,       \* the committed port
  staged,       \* the port of the drafts; NoPort without
  fallback,     \* SESSION_FALLBACK
  runtime,      \* mixed-port of the committed Runtime Configuration
  candidate,    \* and of its draft
  taken,        \* the ports that other programs hold
  core,         \* the port that the Core serves
  pac,          \* PAC_AVAILABLE
  boot,         \* where the startup of the Core stands
  retries,      \* port fallbacks that this startup has tried
  notice,       \* PENDING_FALLBACK_NOTICE
  save,         \* where the save stands
  borrowed,     \* the fallback that a failing save puts back
  ran,          \* whether a Core ran when the save began to probe (was_running)
  settling,     \* what core_start_settled has read of the mode, before it opens PAC
  saves, takes

NoPort == 0
ports == <<chosen, staged, fallback, runtime, candidate>>
startup == <<boot, retries, notice>>
request == <<borrowed, ran, saves>>
saving == <<save, request, settling>>
world == <<taken, takes>>
portVars == <<ports, core, pac, startup, saving, world>>

Or(a, b) == IF a # NoPort THEN a ELSE b
(* resolve_desired: the drafts count as soon as they are staged. *)
Desired == Or(fallback, Or(staged, chosen))
Selected == Or(fallback, chosen)

(* find_next_available_port: the next one, from the first again at the end. *)
NextAvailable(current) ==
  LET free == Ports \ (Reserved \cup taken \cup {current})
      above == {p \in free : p > current}
  IN IF free = {} THEN NoPort ELSE Min(IF above # {} THEN above ELSE free)

Init ==
  /\ chosen \in Ports /\ staged = NoPort /\ fallback = NoPort
  /\ runtime = NoPort /\ candidate = NoPort
  /\ taken \in {{}, {chosen}} /\ takes = 0
  /\ core = NoPort /\ pac = FALSE
  /\ boot = "resolve" /\ retries = 0 /\ notice = <<>>
  /\ save = "idle" /\ borrowed = NoPort /\ ran = FALSE /\ saves = 0 /\ settling = FALSE

-----------------------------------------------------------------------------
(* Other programs *)

TakePort ==
  /\ takes < MaxTaken
  /\ \E p \in Ports \ (taken \cup {core}) : taken' = taken \cup {p}
  /\ takes' = takes + 1
  /\ UNCHANGED <<ports, core, pac, startup, saving>>

-----------------------------------------------------------------------------
(* The startup: a port is borrowed before the Core starts, and again after a *)
(* start that failed, as long as nobody saves (the configuration write lock). *)

(* Wrong on purpose: the notice tells the last move only. *)
NotedLast(old, new) == <<old, new>>

(* record_fallback *)
Noted(old, new) == IF notice = <<>> THEN <<old, new>> ELSE <<notice[1], new>>

(* apply_startup_mixed_port_fallback *)
Borrow(new, next) ==
  /\ fallback' = new /\ runtime' = new /\ candidate' = NoPort
  /\ notice' = Noted(Selected, new)
  /\ boot' = next

(* resolve_startup_mixed_port: only a proven conflict moves the port, and a   *)
(* generation that fails leaves the previous one.                             *)
Resolve(kept, next) ==
  /\ save = "idle"
  /\ \/ boot' = kept /\ UNCHANGED <<fallback, runtime, candidate, notice>>
     \/ /\ Selected \in taken
        /\ LET new == NextAvailable(Selected)
           IN \/ new # NoPort /\ Borrow(new, next)
              \/ boot' = "blocked" /\ UNCHANGED <<fallback, runtime, candidate, notice>>
  /\ UNCHANGED <<chosen, staged, core, pac, saving, world>>

InitRuntimeConfig ==
  /\ boot = "resolve"
  /\ Resolve("generate", "start")
  /\ UNCHANGED retries

(* Generation may fail; what was staged is committed either way. *)
GenerateFirst ==
  /\ boot = "generate"
  /\ runtime' \in {Selected, runtime}
  /\ boot' = "start"
  /\ UNCHANGED <<chosen, staged, fallback, candidate, core, pac, retries, notice, saving, world>>

Serves(p) == p # NoPort /\ p \notin taken

(* start_core by CoreManager::init; it fails when its port is occupied, and   *)
(* for any other reason.                                                      *)
StartCore ==
  /\ boot = "start"
  /\ save = "idle"
  /\ \/ /\ core # NoPort \/ Serves(runtime)
        /\ core' = Or(core, runtime) /\ pac' = TRUE
        /\ boot' = "done" /\ notice' = <<>>
     \/ core = NoPort /\ boot' = "failed" /\ pac' = FALSE /\ UNCHANGED <<core, notice>>
  /\ UNCHANGED <<ports, retries, saving, world>>

(* Wrong on purpose: a start that fails is tried again without end. *)
RetryWithoutEnd ==
  /\ boot = "failed"
  /\ IF core # NoPort THEN boot' = "done" /\ notice' = <<>> /\ UNCHANGED <<ports, core, pac, retries, saving, world>>
     ELSE Resolve("done", "start") /\ retries' = retries + 1

(* A failed start borrows again, at most three times, unless a Core runs.     *)
RetryStart ==
  /\ boot = "failed"
  /\ IF core # NoPort \/ retries = 3
     THEN boot' = "done" /\ notice' = <<>> /\ UNCHANGED <<ports, core, pac, retries, saving, world>>
     ELSE Resolve("done", "start") /\ retries' = retries + 1

-----------------------------------------------------------------------------
(* save_proxy_ports, from the claim of the drafts to the last exit *)

Serving == core # NoPort

SaveBegins ==
  /\ save = "idle" /\ saves < MaxSaves
  /\ boot # "resolve" /\ runtime # NoPort
  /\ \E p \in Ports \ {chosen} : staged' = p
  /\ save' = "generate" /\ saves' = saves + 1
  /\ pac' = FALSE
  /\ borrowed' = fallback /\ fallback' = NoPort
  /\ UNCHANGED <<chosen, runtime, candidate, core, ran, settling, startup, world>>

SaveGenerates ==
  /\ save = "generate"
  /\ candidate' = Desired
  /\ save' = "probe" /\ ran' = Serving
  /\ UNCHANGED <<chosen, staged, fallback, runtime, core, pac, borrowed, saves, settling, startup, world>>

(* Wrong on purpose: the borrowed port is forgotten. *)
GiveUpOnly(next) ==
  /\ staged' = NoPort /\ candidate' = NoPort
  /\ save' = next
  /\ UNCHANGED fallback

(* The drafts are gone and the borrowed port is back. *)
GiveUp(next) ==
  /\ staged' = NoPort /\ candidate' = NoPort
  /\ fallback' = borrowed
  /\ save' = next

(* A conflict, a configuration that is not valid, a write that fails.         *)
SaveRejected ==
  /\ save \in {"generate", "probe", "write"}
  /\ GiveUp("settle")
  /\ UNCHANGED <<chosen, runtime, core, pac, request, settling, startup, world>>

SaveProbes ==
  /\ save = "probe"
  /\ candidate \notin taken
  /\ save' = "write"
  /\ UNCHANGED <<ports, core, pac, request, settling, startup, world>>

(* Wrong on purpose: the drafts are committed before the Core restarts. *)
SaveActivatesEarly ==
  /\ save = "write"
  /\ pac' = Serving
  /\ save' = "persist"
  /\ UNCHANGED <<ports, core, request, settling, startup, world>>

(* The candidate file is written, and a Core that runs is restarted with it.  *)
SaveActivates ==
  /\ save = "write"
  /\ IF ~ran THEN save' = "persist" /\ UNCHANGED <<core, pac>>
     ELSE \/ Serves(candidate) /\ core' = candidate /\ pac' = TRUE /\ save' = "persist"
          \/ core' = NoPort /\ pac' = FALSE /\ save' = "revert"
  /\ UNCHANGED <<ports, request, settling, startup, world>>

SavePersists ==
  /\ save = "persist"
  /\ \/ /\ chosen' = staged /\ runtime' = candidate
        /\ staged' = NoPort /\ candidate' = NoPort
        /\ save' = "settle"
     \/ save' = "revert" /\ UNCHANGED <<chosen, runtime, staged, candidate>>
  /\ UNCHANGED <<fallback, core, pac, request, settling, startup, world>>

(* The drafts are discarded first; PAC stays open when the Core was not lost. *)
SaveReverts ==
  /\ save = "revert"
  /\ GiveUp("restart")
  /\ UNCHANGED <<chosen, runtime, core, pac, request, settling, startup, world>>

(* rollback_proxy_ports: a Core that ran is started or restarted. *)
SaveRestarts ==
  /\ save = "restart"
  /\ \/ ran /\ Serves(runtime) /\ core' = runtime /\ pac' = TRUE
     \/ ran /\ core' = NoPort /\ pac' = FALSE
     \/ ~ran /\ UNCHANGED <<core, pac>>
  /\ save' = "settle"
  /\ UNCHANGED <<ports, request, settling, startup, world>>

(* core_start_settled reads the running mode and then sets PAC, without a lock. *)
SettleReads ==
  /\ save = "settle"
  /\ settling' = Serving
  /\ save' = "open"
  /\ UNCHANGED <<ports, core, pac, request, startup, world>>

SettleOpens ==
  /\ save = "open"
  /\ pac' = settling
  /\ save' = "idle" /\ settling' = FALSE
  /\ UNCHANGED <<ports, core, request, startup, world>>

-----------------------------------------------------------------------------
(* The Core is stopped, or lost, whatever else goes on; and started again. *)
CoreStops ==
  /\ Serving
  /\ core' = NoPort /\ pac' = FALSE
  /\ UNCHANGED <<ports, startup, saving, world>>

CoreStartsAgain ==
  /\ ~Serving /\ boot = "done" /\ save = "idle"
  /\ Serves(runtime)
  /\ core' = runtime /\ pac' = TRUE
  /\ UNCHANGED <<ports, startup, saving, world>>

Next ==
  \/ TakePort \/ InitRuntimeConfig \/ GenerateFirst \/ StartCore \/ RetryStart
  \/ SaveBegins \/ SaveGenerates \/ SaveRejected \/ SaveProbes \/ SaveActivates
  \/ SavePersists \/ SaveReverts \/ SaveRestarts \/ SettleReads \/ SettleOpens
  \/ CoreStops \/ CoreStartsAgain

-----------------------------------------------------------------------------
(* Properties *)

TypeOK ==
  /\ {staged, fallback, runtime, candidate, core, borrowed} \subseteq Ports \cup {NoPort}
  /\ chosen \in Ports /\ taken \subseteq Ports
  /\ {pac, settling, ran} \subseteq BOOLEAN
  /\ retries \in 0..3

(* Whoever follows PAC reaches the proxy: while PAC is served and a Core      *)
(* runs, the port it names is the port that the Core serves, in the middle of *)
(* a save, after each way in which it can fail, and on a borrowed port.  Not   *)
(* so while a save that could not be stored goes back: its drafts are gone     *)
(* before the Core that serves them is.                                        *)
PacNamesWhatIsServed == pac /\ Serving /\ save # "restart" => Desired = core

(* A borrowed port collides with no other listener of this program, and until *)
(* somebody saves, the notice names the port that was asked for and the one in *)
(* use now, however many times the startup had to move.                       *)
BorrowedForTheSession ==
  /\ fallback # NoPort => fallback \notin Reserved
  /\ notice # <<>> /\ save = "idle" /\ saves = 0 => notice = <<chosen, fallback>>
=============================================================================

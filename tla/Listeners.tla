------------------------------ MODULE Listeners ------------------------------
(***************************************************************************)
(* Whether the ports of the proxy listeners are free (core/listener.rs):   *)
(* the sockets a configuration asks for, and the probe that tries to bind  *)
(* them, on Linux and on macOS.  One state is one question: a              *)
(* configuration that the Core has and one that it is to get, with what    *)
(* other programs hold.  The address of a claim is one of a few classes.   *)
(***************************************************************************)
EXTENDS Naturals

CONSTANTS
  PortNumbers   \* ports; 0 is none of them

VARIABLES
  platform,     \* "linux" or "macos"
  scope,        \* allow-lan, bind-address and ipv6
  current,      \* the port of each listener in the Core's configuration, 0 without
  wanted,       \* and in the candidate
  coreRuns,     \* whether the Core holds what current asks for
  held,         \* sockets of other programs
  verdict       \* the outcome of the probe

question == <<platform, scope, current, wanted, coreRuns, held>>
listenerVars == <<question, verdict>>

(* PROXY_LISTENERS, of which two show what they can do to each other. *)
Transports == [mixed |-> {"tcp", "udp"}, http |-> {"tcp"}]
Kinds == DOMAIN Transports

Loopback == "127.0.0.1"
Lan == "192.168.1.2"
Any4 == "0.0.0.0"
Any6 == "::"
Addresses == {Loopback, Lan, Any4, Any6}
Unspecified == {Any4, Any6}
IsIpv4(a) == a # Any6

Claim(a, p, t) == [address |-> a, port |-> p, transport |-> t]
Claims == [address : Addresses, port : PortNumbers, transport : {"tcp", "udp"}]
(* A connection that lingers: nobody listens, but its address is not free. *)
Lingering == [address : {Loopback, Lan}, port : PortNumbers, transport : {"lingering"}]
Sockets == Claims \cup Lingering

(* proxy_bind_addresses *)
BindAddresses(s) ==
  IF ~s.allowLan THEN {Loopback}
  ELSE IF s.bind = "*" THEN {Any4} \cup (IF s.ipv6 THEN {Any6} ELSE {})
  ELSE {s.bind}

(* proxy_claims *)
ClaimsOf(ports) ==
  UNION {{Claim(a, ports[k], t) : a \in BindAddresses(scope), t \in Transports[k]} :
           k \in {l \in Kinds : ports[l] # 0}}

(* Wrong on purpose: a wildcard overlaps nothing but itself. *)
OverlapExact(c, d) == c = d

Overlap(c, d) ==
  /\ c.port = d.port /\ c.transport = d.transport
  /\ IsIpv4(c.address) = IsIpv4(d.address)
  /\ c.address = d.address \/ {c.address, d.address} \cap Unspecified # {}

(* internal_conflict: no two listeners ask for the same socket. *)
InternalConflict(ports) ==
  \E k, l \in {j \in Kinds : ports[j] # 0} :
    k # l /\ ports[k] = ports[l] /\ Transports[k] \cap Transports[l] # {}

Serving(c) == \E h \in held : Overlap(h, c)

(* Wrong on purpose: a refusal is a conflict, whether somebody answers or not. *)
NobodyIsAsked(c) == FALSE

(* nothing_is_serving: a wildcard cannot be asked, a UDP socket has no rest. *)
NothingIsServing(c) ==
  c.transport = "tcp" /\ c.address \notin Unspecified /\ ~Serving(c)

(* bind_socket: Linux refuses whatever overlaps; macOS lets a wildcard and an *)
(* address of it share a TCP port, but keeps one that another user's           *)
(* connection has just left.                                                  *)
Refused(c) ==
  IF platform = "linux" \/ c.transport = "udp" THEN Serving(c)
  ELSE \/ c \in held
       \/ [c EXCEPT !.transport = "lingering"] \in held

(* Wrong on purpose: the other forms of the address are not asked about. *)
GuardsNone(c) == {}

(* The other forms of the address, which macOS needs to be asked about. *)
Guards(c) ==
  IF platform # "macos" \/ c.transport # "tcp" THEN {}
  ELSE {[c EXCEPT !.address = a] :
          a \in IF c.address = Any4 THEN {Loopback, Lan}
                ELSE IF c.address = Any6 THEN {} ELSE {Any4}}

(* bind_claim, and what probe_claims makes of a refusal. *)
BindClaim(c) ==
  LET stale == {g \in Guards(c) : Refused(g) /\ NothingIsServing(g)}
  IN /\ \A g \in Guards(c) \ stale : ~Refused(g)
     /\ stale # {} \/ ~Refused(c)
IsFree(c) == BindClaim(c) \/ NothingIsServing(c)

(* probe_proxy_port_change: a running Core gives its own sockets back. *)
ProbeProxyPortChange ==
  LET own == IF coreRuns THEN ClaimsOf(current) ELSE {}
      asked == {c \in ClaimsOf(wanted) : \A o \in own : ~Overlap(o, c)}
  IN IF InternalConflict(wanted) \/ \E c \in asked : ~IsFree(c) THEN "conflict" ELSE "available"

(* The Core could bind its listeners, so nobody else holds what it has. *)
CoreHoldsItsOwn == coreRuns => \A c \in ClaimsOf(current) : ~Serving(c)

Scopes ==
  {s \in [allowLan : BOOLEAN, bind : {"*", Loopback, Lan}, ipv6 : BOOLEAN] :
     (~s.allowLan => s.bind = "*") /\ (~s.allowLan \/ s.bind # "*" => s.ipv6)}
PortsOf == {p \in [Kinds -> PortNumbers \cup {0}] : p.mixed # 0}
Init ==
  /\ platform \in {"linux", "macos"}
  /\ scope \in Scopes
  /\ current \in PortsOf /\ wanted \in PortsOf
  /\ coreRuns \in BOOLEAN
  /\ held \in {{}} \cup {{a, b} : a \in Sockets, b \in Sockets}   \* two at most
  /\ ~InternalConflict(current) /\ CoreHoldsItsOwn
  /\ verdict = "unknown"

Probe ==
  /\ verdict = "unknown"
  /\ verdict' = ProbeProxyPortChange
  /\ UNCHANGED question

Next == Probe

-----------------------------------------------------------------------------
(* Properties *)

(* A candidate is accepted only when the Core can have all of it: nobody else *)
(* listens on a socket that it asks for, in any form of the address, on       *)
(* either platform; and two of its own listeners do not ask for the same.     *)
AcceptedPortsAreFree ==
  verdict = "available" =>
    /\ \A c \in ClaimsOf(wanted) : \A h \in held :
         ~( /\ h.port = c.port /\ h.transport = c.transport
            /\ h.address = c.address \/ (Any4 \in {h.address, c.address}
                                           /\ Any6 \notin {h.address, c.address}))
    /\ wanted.mixed # wanted.http

(* And free ports are not refused: a conflict is somebody's listener or a     *)
(* second listener of the configuration, never what a connection of the Core  *)
(* has left behind at the address that is asked for.                          *)
ConflictsAreReal ==
  verdict = "conflict" =>
    \/ wanted.mixed = wanted.http
    \/ \E c \in ClaimsOf(wanted), h \in held : h.port = c.port /\ h.transport = c.transport
=============================================================================

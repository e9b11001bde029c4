------------------------------ MODULE Enhance ------------------------------
\* One generation of the configuration the Core is given (enhance/mod.rs): the
\* application's own settings over the profile, the TUN switch, the DNS page, four
\* overrides of the user, and what the application owns put back.
\*
\* A configuration is a function from the keys that the stages tell apart to what
\* is written there, "absent" when nothing is.
EXTENDS Naturals, FiniteSets

CONSTANTS
  Touched,      \* bound: the keys the overrides write
  MaxSwitches,  \* bound: settings that are on
  MaxProfile,   \* bound: keys the profile sets
  MaxWrites     \* bound: overrides that write something

Control == {"mode", "port", "external-controller", "allow-lan", "ipv6"}
TunKeys == {"tun.enable", "tun.mtu"}
DnsKeys == {"dns.enhanced-mode", "dns.nameserver", "dns.ipv6", "dns.fake-ip-range6"}
Keys == Control \cup TunKeys \cup DnsKeys \cup {"hosts", "bind-address"}

\* The switches of the settings. "mtu" is a TUN field that was saved, "hosts" a
\* list of hosts on the DNS page, "script" a mode the user chose, "guard" the
\* built-in scripts on a Core that has them, "own" a profile with its own script.
Switches == {"http", "controller", "tun", "mtu", "page", "hosts", "lan", "ipv6", "script", "guard", "own"}
Layers == <<"globalMerge", "globalScript", "profileMerge", "profileScript">>

OnOff == {"allow-lan", "ipv6", "tun.enable", "dns.ipv6"}
\* What a profile or an override writes under a key: never what the application
\* would.
Foreign(k) ==
  CASE k \in OnOff -> "on" [] k = "mode" -> "script" [] k = "bind-address" -> "loopback"
    [] k = "dns.enhanced-mode" -> "redir-host" [] k = "dns.fake-ip-range6" -> "blank"
    [] OTHER -> "foreign"

VARIABLES
  generating,  \* the stage of this generation
  on,          \* the switches that are on
  config,
  owned,       \* AuthoritativeFields: [owned keys -> what the application wrote]
  globalWrite, \* what the global script writes, for a profile that runs it again
  writes,      \* overrides that wrote something
  notes,       \* [layer -> keys it is told it may not write]
  discarded,   \* keys that were put back at the end of the generation
  pendingKeys, lastKeys,  \* DISCARDED_KEYS_NOTICE
  toldKeys     \* history: the sets of keys the window has taken

enhanceVars == <<generating, on, config, owned, globalWrite, writes, notes, discarded,
                 pendingKeys, lastKeys, toldKeys>>

EnhanceStages == {"profile", "defaults", "builtin", "tun", "dns", "capture"}
                 \cup {"notify", "enforce", "lan", "done"} \cup {Layers[i] : i \in 1..4}
LayerNames == {Layers[i] : i \in 1..4}
Nothing == [keys |-> {}, value |-> "nothing"]
On(s) == s \in on
Flag(s) == IF On(s) THEN "on" ELSE "off"
Over(c, f) == [k \in Keys |-> IF k \in DOMAIN f THEN f[k] ELSE c[k]]
Go(s) == generating' = s
Then(l) == IF l = 4 THEN "notify" ELSE Layers[l + 1]

Values == {"absent", "app", "blank", "foreign", "on", "off", "rule", "script",
           "loopback", "*", "redir-host", "fake-ip"}
TypeOK ==
  /\ generating \in EnhanceStages /\ on \subseteq Switches /\ config \in [Keys -> Values]
  /\ DOMAIN owned \subseteq Keys /\ \A k \in DOMAIN owned : owned[k] \in Values
  /\ writes \in 0..MaxWrites /\ notes \in [LayerNames -> SUBSET Keys]
  /\ discarded \subseteq Keys /\ pendingKeys \subseteq Keys /\ lastKeys \subseteq Keys
  /\ toldKeys \subseteq SUBSET Keys

\* The notice of an earlier generation is still waiting, or was taken.
InitEnhance ==
  /\ generating = "profile" /\ on \in {s \in SUBSET Switches : Cardinality(s) <= MaxSwitches}
  /\ \E ks \in {s \in SUBSET Keys : Cardinality(s) <= MaxProfile} :
       config = [k \in Keys |-> IF k \in ks THEN Foreign(k) ELSE "absent"]
  /\ owned = [k \in {} |-> "absent"] /\ globalWrite = Nothing /\ writes = 0
  /\ notes = [l \in LayerNames |-> {}] /\ discarded = {}
  /\ lastKeys \in {{}, {"mode"}} /\ pendingKeys \in {{}, lastKeys}
  /\ toldKeys = {lastKeys} \ {pendingKeys}

layered == <<globalWrite, writes, notes>>
noticed == <<discarded, pendingKeys, lastKeys, toldKeys>>
-----------------------------------------------------------------------------
(* What the application derives                                               *)

\* The settings of the Core. A listener that is off is removed, an external
\* controller that is off is blanked; of TUN only the saved fields are there.
Settings ==
  [k \in Control \cup (IF On("mtu") THEN {"tun.mtu"} ELSE {}) |->
    CASE k = "mode" -> (IF On("script") THEN "script" ELSE "rule")
      [] k = "port" -> (IF On("http") THEN "app" ELSE "absent")
      [] k = "external-controller" -> (IF On("controller") THEN "app" ELSE "blank")
      [] k = "allow-lan" -> Flag("lan") [] k = "ipv6" -> Flag("ipv6")
      [] OTHER -> "app"]

MergeDefaults ==
  /\ generating = "profile" /\ Go("builtin") /\ config' = Over(config, Settings)
  /\ UNCHANGED <<on, owned, layered, noticed>>

\* builtin_meta_guard: a Core without script mode gets rule mode.
ApplyBuiltin ==
  /\ generating = "builtin" /\ Go("tun")
  /\ config' = IF On("guard") /\ config["mode"] = "script"
               THEN [config EXCEPT !["mode"] = "rule"] ELSE config
  /\ UNCHANGED <<on, owned, layered, noticed>>

\* use_tun: TUN needs a DNS that answers, unless the mode was chosen.
TunDns ==
  [k \in {"dns.enhanced-mode", "dns.ipv6", "dns.fake-ip-range6"} |->
    CASE k = "dns.enhanced-mode" -> "fake-ip" [] k = "dns.ipv6" -> config["ipv6"]
      [] OTHER -> IF config["ipv6"] = "on" /\ config[k] = "absent" THEN "app" ELSE config[k]]

UseTun ==
  /\ generating = "tun" /\ Go("dns")
  /\ LET fakeIp == config["dns.enhanced-mode"] \in {"absent", "fake-ip"}
         dns == IF On("tun") /\ fakeIp THEN Over(config, TunDns) ELSE config
     IN config' = [dns EXCEPT !["tun.enable"] = Flag("tun")]
  /\ UNCHANGED <<on, owned, layered, noticed>>

\* The fields of the DNS page that are set; a blank one keeps the profile's.
PageFields ==
  IF ~On("page") THEN [k \in {} |-> "app"]
  ELSE [k \in {"dns.nameserver", "dns.ipv6"} \cup (IF On("hosts") THEN {"hosts"} ELSE {}) |->
         IF k = "dns.ipv6" THEN "on" ELSE "app"]

\* Mutant: a range that is there but blank counts.
WithRangeThere(c) ==
  IF /\ On("page") /\ c["dns.ipv6"] = "on"
     /\ c["dns.enhanced-mode"] \in {"absent", "fake-ip"} /\ c["dns.fake-ip-range6"] = "absent"
  THEN [c EXCEPT !["dns.fake-ip-range6"] = "app"] ELSE c

\* ensure_fake_ip_range6: without a range no AAAA query is answered.
WithRange6(c) ==
  IF /\ On("page") /\ c["dns.ipv6"] = "on"
     /\ c["dns.enhanced-mode"] \in {"absent", "fake-ip"}
     /\ c["dns.fake-ip-range6"] \in {"absent", "blank"}
  THEN [c EXCEPT !["dns.fake-ip-range6"] = "app"] ELSE c

ApplyDnsSettings ==
  /\ generating = "dns" /\ Go("capture") /\ config' = WithRange6(Over(config, PageFields))
  /\ UNCHANGED <<on, owned, layered, noticed>>
-----------------------------------------------------------------------------
(* The overrides                                                              *)

\* Mutant: the DNS page is forgotten.
OwnedWithoutDns == [k \in Control \cup {"tun.enable"} \cup DOMAIN Settings |-> config[k]]

\* AuthoritativeFields::capture. A field of TUN is the application's when it was
\* saved, one of DNS when the page sets it.
Owned ==
  [k \in Control \cup {"tun.enable"} \cup DOMAIN Settings \cup DOMAIN PageFields |-> config[k]]

Capture ==
  /\ generating = "capture" /\ Go(Layers[1]) /\ owned' = Owned
  /\ UNCHANGED <<on, config, layered, noticed>>

\* overridden: owned keys a layer moved to a value that is not the application's.
Overridden(before, after) ==
  {k \in DOMAIN owned : before[k] # after[k] /\ after[k] # owned[k]}

\* A merge writes keys, a script may also remove them, or a section; a script
\* that fails, or runs for too long, writes nothing.
MergeWrites == {[keys |-> {k}, value |-> v] : k \in Touched, v \in {"foreign", "off"}}
ScriptWrites == MergeWrites \cup {[keys |-> ks, value |-> "absent"] : ks \in {TunKeys, Control, {"hosts"}}}
Write(c, w) ==
  IF w = Nothing THEN c
  ELSE [k \in Keys |-> IF k \notin w.keys THEN c[k]
                       ELSE IF w.value = "foreign" THEN Foreign(k) ELSE w.value]

\* A profile without a script of its own runs the global one again.
Repeats(l) == l = 4 /\ ~On("own")

\* use_merge and use_script, with the notes of the layer; those of a script that is
\* run again take the place of the first ones.
Override(l) ==
  /\ generating = Layers[l] /\ Go(Then(l))
  /\ \E w \in {Nothing, globalWrite} \cup (IF l \in {2, 4} THEN ScriptWrites ELSE MergeWrites) :
       /\ IF Repeats(l) THEN w = globalWrite /\ UNCHANGED writes
          ELSE \/ w = Nothing /\ UNCHANGED writes
               \/ /\ w # Nothing /\ writes < MaxWrites /\ writes' = writes + 1
                  /\ w.value = "off" => w.keys \subseteq OnOff
       /\ globalWrite' = IF l = 2 /\ ~On("own") THEN w ELSE globalWrite
       /\ config' = Write(config, w)
       /\ notes' = [notes EXCEPT ![Layers[IF Repeats(l) THEN 2 ELSE l]] =
                     Overridden(config, Write(config, w))]
  /\ UNCHANGED <<on, owned, noticed>>
-----------------------------------------------------------------------------
(* What the application owns is put back                                      *)

\* Mutant: a generation without discarded keys is not remembered.
NotifyOnly ==
  /\ generating = "notify" /\ Go("enforce")
  /\ discarded' = {k \in DOMAIN owned : config[k] # owned[k]}
  /\ lastKeys' = IF discarded' = {} THEN lastKeys ELSE discarded'
  /\ pendingKeys' = IF discarded' \in {lastKeys, {}} THEN pendingKeys ELSE discarded'
  /\ UNCHANGED <<on, config, owned, layered, toldKeys>>

\* notify_discarded_keys: one notice for each distinct set of keys.
NotifyDiscarded ==
  /\ generating = "notify" /\ Go("enforce")
  /\ discarded' = {k \in DOMAIN owned : config[k] # owned[k]}
  /\ lastKeys' = discarded'
  /\ pendingKeys' = IF discarded' \in {lastKeys, {}} THEN pendingKeys ELSE discarded'
  /\ UNCHANGED <<on, config, owned, layered, toldKeys>>

\* Mutant: a key the application left out is not removed.
EnforceWritten ==
  /\ generating = "enforce" /\ Go("lan")
  /\ config' = Over(config, [k \in {o \in DOMAIN owned : owned[o] # "absent"} |-> owned[k]])
  /\ UNCHANGED <<on, owned, layered, noticed>>

\* A key the application left out is removed, the others get its value again.
Enforce ==
  /\ generating = "enforce" /\ Go("lan") /\ config' = Over(config, owned)
  /\ UNCHANGED <<on, owned, layered, noticed>>

\* ensure_lan_bind_address.
EnsureLan ==
  /\ generating = "lan" /\ Go("done")
  /\ config' = IF config["allow-lan"] = "on" /\ config["bind-address"] = "loopback"
               THEN [config EXCEPT !["bind-address"] = "*"] ELSE config
  /\ UNCHANGED <<on, owned, layered, noticed>>

\* take_discarded_keys_notice, whenever the window asks.
TakeNotice ==
  /\ pendingKeys # {} /\ pendingKeys' = {} /\ toldKeys' = toldKeys \cup {pendingKeys}
  /\ UNCHANGED <<generating, on, config, owned, layered, discarded, lastKeys>>

NextEnhance ==
  \/ MergeDefaults \/ ApplyBuiltin \/ UseTun \/ ApplyDnsSettings \/ Capture
  \/ \E l \in 1..4 : Override(l)
  \/ NotifyDiscarded \/ Enforce \/ EnsureLan \/ TakeNotice

SpecEnhance == InitEnhance /\ [][NextEnhance]_enhanceVars
-----------------------------------------------------------------------------
(* Properties                                                                 *)

\* The settings win over the profile and over every override, in whatever stage
\* and by whatever removal it moved a key (enhance/mod.rs AuthoritativeFields):
\* listeners that are off are not in the configuration, a field the settings do
\* not have is left to the profile, and no Core with the guard gets script mode.
SettingsWin ==
  generating = "done" =>
    /\ \A k \in DOMAIN Settings \ {"mode"} : config[k] = Settings[k]
    /\ config["mode"] = (IF On("script") /\ ~On("guard") THEN "script" ELSE "rule")
    /\ config["tun.enable"] = Flag("tun")
    /\ \A k \in DOMAIN PageFields : config[k] = PageFields[k]

\* A proxy that is offered to the LAN listens there, also when an override set the
\* loopback address or allow-lan was put back after it (ensure_lan_bind_address).
LanIsServed == generating = "done" /\ On("lan") => config["bind-address"] # "loopback"

\* What an override lost is told: the window has been told of the set of keys or
\* a notice of it waits, the next generation compares with this one, and each key
\* is in the notes of a layer, save where the same script ran twice.
DiscardedKeysAreTold ==
  generating = "done" =>
    /\ lastKeys = discarded
    /\ discarded # {} => pendingKeys = discarded \/ discarded \in toldKeys
    /\ On("own") => discarded \subseteq UNION {notes[l] : l \in LayerNames}

\* A name that resolves to a fake IPv6 address has a range to take it from
\* (ensure_fake_ip_range6): when the DNS page turns IPv6 on, in fake-ip mode, and
\* also when TUN chose the mode, the configuration before the overrides has one.
FakeIpHasARange ==
  /\ generating = "capture"
  /\ On("page") \/ (On("tun") /\ config["dns.fake-ip-range6"] # "blank")
  /\ config["dns.ipv6"] = "on" /\ config["dns.enhanced-mode"] \in {"absent", "fake-ip"}
  => config["dns.fake-ip-range6"] \notin {"absent", "blank"}
=============================================================================

---------------------------- MODULE RuntimeBundle --------------------------
\* The files that go with a configuration to the Service (core/runtime_bundle.rs):
\* providers that write to one cache are told apart, then every provider is given
\* its place in the bundle.
\*
\* A path is a sequence: <<"x">> for one of the profile, <<"x", url, n>> for the one
\* that is allocated for a source, n being the suffix that makes it free.
EXTENDS Naturals, Sequences, FiniteSets

CONSTANTS
  Entries,   \* bound: how many providers the configuration declares
  Paths      \* bound: the paths they may declare

Urls == {"u1", "u2"}
Geo == <<"Country.mmdb">>   \* one of GEO_ASSETS
Kinds == [remote : {TRUE}, url : Urls \cup {"none"}, there : {TRUE}, path : Paths]
         \cup [remote : {FALSE}, url : {"none"}, there : BOOLEAN, path : Paths]

VARIABLES
  bundling,   \* "resolving", "collecting", "geo", "bundled", "refused"
  geoThere,   \* the home directory has the geo file
  declaredProviders,  \* history: as the profile declares them
  entries,    \* the providers, in the order of their sections
  reserved,   \* paths that are not allocated
  conflicts,  \* destinations that are still to be looked at
  at,         \* the provider that is collected next
  destinations, copied, downloaded  \* claimed, and by whom

bundleVars == <<bundling, geoThere, declaredProviders, entries, reserved, conflicts, at,
                destinations, copied, downloaded>>

TypeOK ==
  /\ bundling \in {"resolving", "collecting", "geo", "bundled", "refused"} /\ geoThere \in BOOLEAN
  /\ Len(entries) = Entries /\ Len(declaredProviders) = Entries /\ at \in 1..(Entries + 1)
  /\ \A i \in 1..Entries : entries[i].url \in Urls \cup {"none"} /\ entries[i].remote \in BOOLEAN
  /\ conflicts \subseteq reserved /\ copied \subseteq destinations /\ downloaded \subseteq destinations \X Urls

PathsOf(ps) == {ps[i].path : i \in 1..Entries}
InitBundle ==
  /\ bundling = "resolving" /\ geoThere \in BOOLEAN
  /\ declaredProviders \in [1..Entries -> Kinds] /\ entries = declaredProviders
  /\ reserved = PathsOf(declaredProviders) \cup {Geo} /\ conflicts = PathsOf(declaredProviders)
  /\ at = 1 /\ destinations = {} /\ copied = {} /\ downloaded = {}
-----------------------------------------------------------------------------
(* resolve_provider_path_conflicts                                            *)

Users(p) == {i \in 1..Entries : declaredProviders[i].path = p}
\* A path that a local provider uses is left alone, as one of a remote provider
\* that names no source is.
Local(p) == \E i \in Users(p) : ~declaredProviders[i].remote \/ declaredProviders[i].url = "none"
Sources(p) == {declaredProviders[i].url : i \in Users(p)}
Conflict(p) == ~Local(p) /\ Cardinality(Sources(p)) > 1

\* Mutant: a path is allocated whether or not it is free.
AllocatedFirst(p, u) == <<p[1], u, 0>>
\* allocate_provider_destination: the first one that nothing else uses, of more
\* than are in use.
Allocated(p, u) ==
  <<p[1], u, CHOOSE n \in 0..Cardinality(reserved) :
               <<p[1], u, n>> \notin reserved /\ \A k \in 0..(n - 1) : <<p[1], u, k>> \in reserved>>

\* Mutant: the first source keeps the cache.
ResolveOthers(p) ==
  /\ bundling = "resolving" /\ p \in conflicts /\ conflicts' = conflicts \ {p}
  /\ entries' = [i \in 1..Entries |->
       IF Conflict(p) /\ i \in Users(p) /\ \E j \in Users(p) : j < i /\ declaredProviders[j].url # declaredProviders[i].url
       THEN [entries[i] EXCEPT !.path = Allocated(p, entries[i].url)] ELSE entries[i]]
  /\ reserved' = reserved \cup PathsOf(entries')
  /\ UNCHANGED <<bundling, geoThere, declaredProviders, at, destinations, copied, downloaded>>

\* Every source of a conflict gets a cache of its own, so that none owns the one
\* that was declared.
Resolve(p) ==
  /\ bundling = "resolving" /\ p \in conflicts /\ conflicts' = conflicts \ {p}
  /\ entries' = [i \in 1..Entries |->
       IF Conflict(p) /\ i \in Users(p)
       THEN [entries[i] EXCEPT !.path = Allocated(p, entries[i].url)] ELSE entries[i]]
  /\ reserved' = reserved \cup PathsOf(entries')
  /\ UNCHANGED <<bundling, geoThere, declaredProviders, at, destinations, copied, downloaded>>

Resolved ==
  /\ bundling = "resolving" /\ conflicts = {} /\ bundling' = "collecting"
  /\ UNCHANGED <<geoThere, declaredProviders, entries, reserved, conflicts, at, destinations,
                 copied, downloaded>>
-----------------------------------------------------------------------------
(* collect_runtime_parts                                                      *)

Next1 == at' = at + 1
Declared(p) == {d \in downloaded : d[1] = p}

\* A source that downloads claims its place, unless the same source has it.
CollectRemote ==
  /\ entries[at].remote /\ entries[at].url # "none" /\ UNCHANGED copied
  /\ LET p == entries[at].path
         free == p \notin destinations
     IN \/ /\ free \/ Declared(p) = {<<p, entries[at].url>>}
           /\ Next1 /\ UNCHANGED bundling
           /\ destinations' = destinations \cup {p}
           /\ downloaded' = downloaded \cup {<<p, entries[at].url>>}
        \/ /\ ~free /\ Declared(p) # {<<p, entries[at].url>>}
           /\ bundling' = "refused" /\ UNCHANGED <<at, destinations, downloaded>>

\* A file that is there is copied, once; a place that is claimed is shared.
CollectLocal ==
  /\ ~entries[at].remote /\ entries[at].there /\ Next1 /\ UNCHANGED <<bundling, downloaded>>
  /\ LET p == entries[at].path
     IN /\ destinations' = destinations \cup {p}
        /\ copied' = IF p \in destinations THEN copied ELSE copied \cup {p}

\* Without a source, or without the file, the path is left to the Core.
LeaveToCore ==
  /\ IF entries[at].remote THEN entries[at].url = "none" ELSE ~entries[at].there
  /\ Next1 /\ UNCHANGED <<bundling, destinations, copied, downloaded>>

Collect ==
  /\ bundling = "collecting" /\ at <= Entries
  /\ CollectRemote \/ CollectLocal \/ LeaveToCore
  /\ UNCHANGED <<geoThere, declaredProviders, entries, reserved, conflicts>>

CollectGeo ==
  /\ bundling = "collecting" /\ at > Entries /\ bundling' = "bundled"
  /\ IF geoThere /\ Geo \notin destinations
     THEN copied' = copied \cup {Geo} /\ destinations' = destinations \cup {Geo}
     ELSE UNCHANGED <<copied, destinations>>
  /\ UNCHANGED <<geoThere, declaredProviders, entries, reserved, conflicts, at, downloaded>>

NextBundle == (\E p \in conflicts : Resolve(p)) \/ Resolved \/ Collect \/ CollectGeo

SpecBundle == InitBundle /\ [][NextBundle]_bundleVars
-----------------------------------------------------------------------------
(* Properties                                                                 *)

\* A bundle is refused only for a cache that a remote provider shares with a local
\* one, or with one that names no source: sources that were declared for one cache
\* have been told apart, also when the path that is allocated for one of them is
\* declared by another.
OnlyLocalConflictsRefuse ==
  bundling = "refused" =>
    \E i \in 1..Entries : entries[i].path = entries[at].path /\ entries[i].url = "none"

\* No cache has two sources, and none is copied and downloaded; of sources that
\* share a declared path, none keeps it, in whatever order they are declared.
CachesHaveOneSource ==
  bundling = "bundled" =>
    /\ \A d, e \in downloaded : d[1] = e[1] => d = e
    /\ \A d \in downloaded : d[1] \notin copied
    /\ \A i, j \in 1..Entries :
         declaredProviders[i].path = declaredProviders[j].path /\ Conflict(declaredProviders[i].path) =>
           /\ entries[i].path # declaredProviders[i].path
           /\ (entries[i].path = entries[j].path <=> entries[i].url = entries[j].url)
=============================================================================

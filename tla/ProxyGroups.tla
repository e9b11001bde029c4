---------------------------- MODULE ProxyGroups ----------------------------
\* What becomes of the proxies and the groups of a profile on the way to the Core:
\* the profile's own edits (enhance/seq.rs), whatever the overrides do to them,
\* and the clean-up of references to what is gone (enhance/mod.rs).
EXTENDS Naturals, Sequences, FiniteSets

CONSTANTS
  GroupCounts,  \* bound: how many groups a profile has
  Lists         \* bound: the member lists a group of the profile may have

Proxies0 == {"p", "q"}        \* what a profile may hold
Names == Proxies0 \cup {"a", "g1", "g2", "k", "r", "ghost", "DIRECT"}
NoList == <<"noList">>         \* a group that only uses providers

VARIABLES
  arranging,  \* "profile", "proxies", "groups", "overrides", "cleaned"
  proxies,    \* the names of the proxies
  groups,     \* the groups in their order
  providers,  \* the names of the proxy providers
  added, deleted,  \* the edit of the proxies
  firstSelector    \* history: the place of the first selector, 0 without one

groupVars == <<arranging, proxies, groups, providers, added, deleted, firstSelector>>

Group(n, sel, l, u) == [name |-> n, selector |-> sel, list |-> l, use |-> u]
TypeOK ==
  /\ arranging \in {"profile", "proxies", "groups", "overrides", "cleaned"}
  /\ proxies \subseteq Names /\ providers \subseteq {"r"}
  /\ \A i \in DOMAIN groups :
       /\ groups[i].name \in Names /\ groups[i].use \subseteq {"r", "ghost"}
       /\ groups[i].list = NoList \/ \A n \in DOMAIN groups[i].list : groups[i].list[n] \in Names
  /\ firstSelector \in 0..Len(groups)

InitGroups ==
  /\ arranging = "profile" /\ proxies \in SUBSET Proxies0 /\ providers \in SUBSET {"r"}
  /\ \E n \in GroupCounts :
       /\ groups \in [1..n -> [name : {"g1", "g2"}, selector : BOOLEAN,
                               list : Lists \cup {NoList}, use : {{}, {"r"}}]]
       /\ \A i \in 1..n : groups[i].name = (IF i = 1 THEN "g1" ELSE "g2")
  /\ added \in {<<>>, <<"a">>, <<"p", "a">>} /\ deleted \in SUBSET {"p", "q"}
  /\ firstSelector = 0

Go(s) == arranging' = s
Range0(s) == {s[i] : i \in DOMAIN s}
\* The members of a list at some of its places, in their order.
Nth(places, n) == CHOOSE p \in places : Cardinality({q \in places : q <= p}) = n
Picked(l, places) == [n \in 1..Cardinality(places) |-> l[Nth(places, n)]]
Without(l, gone) == Picked(l, {i \in DOMAIN l : l[i] \notin gone})
Within(l, there) == Picked(l, {i \in DOMAIN l : l[i] \in there})
-----------------------------------------------------------------------------
\* use_seq, the proxies: added ones before or behind the ones that are kept.
EditProxies ==
  /\ arranging = "profile" /\ Go("proxies")
  /\ proxies' = (proxies \ deleted) \cup Range0(added)
  /\ firstSelector' = (LET s == {i \in DOMAIN groups : groups[i].selector}
                       IN IF s = {} THEN 0 ELSE CHOOSE i \in s : \A j \in s : i <= j)
  /\ UNCHANGED <<groups, providers, added, deleted>>

\* The first selector offers what was added, each name once.
FirstOf(l) == Picked(l, {i \in DOMAIN l : \A j \in 1..(i - 1) : l[j] # l[i]})
Offering(l) == added \o FirstOf(Without(IF l = NoList THEN <<>> ELSE l, Range0(added)))

\* Mutant: the names that were there keep their place.
EditMembersTwice ==
  /\ arranging = "proxies" /\ Go("groups")
  /\ groups' = [i \in DOMAIN groups |->
       [groups[i] EXCEPT !.list = IF i = firstSelector /\ added # <<>> THEN added \o @ ELSE @]]
  /\ UNCHANGED <<proxies, providers, added, deleted, firstSelector>>

\* use_seq, the members of the groups: a proxy that was deleted leaves them.
EditMembers ==
  /\ arranging = "proxies" /\ Go("groups")
  /\ groups' = [i \in DOMAIN groups |->
       LET kept == IF groups[i].list = NoList THEN NoList ELSE Without(groups[i].list, deleted)
       IN [groups[i] EXCEPT !.list = IF i = firstSelector /\ added # <<>> THEN Offering(kept) ELSE kept]]
  /\ UNCHANGED <<proxies, providers, added, deleted, firstSelector>>

\* use_seq, the groups: some are deleted, one is put in front. Members of other
\* groups stay as they are.
EditGroups ==
  /\ arranging = "groups" /\ Go("overrides")
  /\ \E gone \in SUBSET {"g1"}, new \in {<<>>, <<Group("k", TRUE, <<"q">>, {})>>} :
       /\ groups' = new \o Picked(groups, {i \in DOMAIN groups : groups[i].name \notin gone})
       /\ firstSelector' = 0
  /\ UNCHANGED <<proxies, providers, added, deleted>>

\* A merge or a script takes proxies and providers away, or names what is not
\* there.
OverrideGroups ==
  /\ arranging = "overrides"
  /\ \/ \E n \in proxies : proxies' = proxies \ {n} /\ UNCHANGED <<groups, providers>>
     \/ providers # {} /\ providers' = {} /\ UNCHANGED <<proxies, groups>>
     \/ /\ \E i \in DOMAIN groups : groups[i].list # NoList /\ "ghost" \notin Range0(groups[i].list)
             /\ groups' = [groups EXCEPT ![i].list = Append(@, "ghost"), ![i].use = @ \cup {"ghost"}]
        /\ UNCHANGED <<proxies, providers>>
  /\ UNCHANGED <<arranging, added, deleted, firstSelector>>

Allowed == proxies \cup {groups[i].name : i \in DOMAIN groups} \cup providers \cup {"DIRECT"}

\* Mutant: a provider that is not there keeps the members of a group.
CleanedByAnyProvider(g) ==
  [g EXCEPT !.use = @ \cap providers,
            !.list = IF @ = NoList \/ g.use # {} THEN @ ELSE Within(@, Allowed)]

\* A group with a provider that is there may name what the provider brings.
Cleaned(g) ==
  [g EXCEPT !.use = @ \cap providers,
            !.list = IF @ = NoList \/ g.use \cap providers # {} THEN @
                     ELSE Within(@, Allowed)]

CleanupProxyGroups ==
  /\ arranging = "overrides" /\ Go("cleaned")
  /\ groups' = [i \in DOMAIN groups |-> Cleaned(groups[i])]
  /\ UNCHANGED <<proxies, providers, added, deleted, firstSelector>>

NextGroups ==
  \/ EditProxies \/ EditMembers \/ EditGroups \/ OverrideGroups \/ CleanupProxyGroups

SpecGroups == InitGroups /\ [][NextGroups]_groupVars
-----------------------------------------------------------------------------
(* Properties                                                                 *)

\* No group names what is not there, whatever edit or override took it away: the
\* Core refuses such a configuration. A group may name what a provider that is
\* there brings (cleanup_proxy_groups).
ReferencesResolve ==
  arranging = "cleaned" =>
    \A i \in DOMAIN groups :
      /\ groups[i].use \subseteq providers
      /\ groups[i].use = {} /\ groups[i].list # NoList => Range0(groups[i].list) \subseteq Allowed

InFront(s, t) == Len(s) <= Len(t) /\ \A i \in DOMAIN s : t[i] = s[i]
Distinct(s) == \A i, j \in DOMAIN s : s[i] = s[j] => i = j

\* A proxy that was added can be chosen: the first selector of the profile offers
\* it, before the others, once, also when the profile had it or deletes it
\* (use_seq). A deleted proxy that is not added is in no group.
AddedCanBeChosen ==
  arranging = "groups" =>
    /\ firstSelector # 0 /\ added # <<>> =>
         /\ InFront(added, groups[firstSelector].list)
         /\ Distinct(groups[firstSelector].list)
    /\ \A i \in DOMAIN groups : groups[i].list # NoList =>
         Range0(groups[i].list) \cap (deleted \ Range0(added)) = {}
=============================================================================

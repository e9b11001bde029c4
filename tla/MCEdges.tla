------------------------------ MODULE MCEdges ------------------------------
(***************************************************************************)
(* The instance of Edges that TLC checks: the constants that a             *)
(* configuration cannot write down.                                        *)
(***************************************************************************)
EXTENDS Edges

\* The member lists a group of the profile may have; one names a proxy twice.
MemberLists == {<<"q", "p", "q">>, <<"g1", "DIRECT">>, <<"r">>}
\* Of the paths, one looks like an allocated one and one is a geo asset's.
BundlePaths == {<<"x">>, <<"x", "u1", 0>>, <<"Country.mmdb">>}
=============================================================================

----------------------------- MODULE MCGeeCache -----------------------------
(***************************************************************************)
(* Instantiation of GeeCache for TLC: three nodes, keys as model values,   *)
(* a ring owner given by a per-key preference order over the nodes.        *)
(***************************************************************************)
EXTENDS GeeCache

CONSTANTS n1, n2, n3, k1, k2

MCNodes == {n1, n2, n3}

(* The order in which the ring's points for a key meet the nodes: the     *)
(* owner in a ring of peer set S is the first node of the order in S.     *)
(* Removing a node only moves the keys it owned, as on a hash ring.       *)
Pref == (k1 :> <<n2, n1, n3>>) @@ (k2 :> <<n3, n2, n1>>)

MCRingOwner(S, k) == SelectSeq(Pref[k], LAMBDA x : x \in S)[1]

(* Every node called HTTPPool.Set with the same list of all nodes.        *)
SameViews == [n \in MCNodes |-> MCNodes]

(* n2 built its pool from a discovery snapshot taken before it registered  *)
(* itself (startCacheServerWithDiscovery creates the pool before           *)
(* RegisterService), so its ring lacks n2; the others see all three.      *)
SelfMissingView == [n \in MCNodes |-> IF n = n2 THEN {n1, n3} ELSE MCNodes]

=============================================================================

----------------------------- MODULE MCDiscovery -----------------------------
(* Two GeeCache nodes started with -etcd against one etcd.                  *)
EXTENDS Discovery

CONSTANTS n1, n2

MCNodes == {n1, n2}

(* One node: its own registration against its own watch and registry.     *)
MCOneNode == {n1}
=============================================================================

--------------------------- MODULE MCMemoryStorage ---------------------------
(* Two client goroutines and two keys against one MemoryStorage.          *)
EXTENDS MemoryStorage

CONSTANTS c1, c2, k1, k2

MCClients == {c1, c2}
MCKeys == {k1, k2}

ClientSymmetry == Permutations(MCClients)
=============================================================================

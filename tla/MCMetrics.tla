------------------------------ MODULE MCMetrics ------------------------------
(* Three goroutines recording a hit counter and the Get latency histogram. *)
EXTENDS Metrics, TLC

CONSTANTS c1, c2, c3

MCCallers == {c1, c2, c3}

MCUsed == {<<"counter", "cache_hit">>, <<"histogram", "cache_get_latency">>}

CallerSymmetry == Permutations(MCCallers)
=============================================================================

------------------------------- MODULE Metrics -------------------------------
(***************************************************************************)
(* The Prometheus metrics collector (src/metrics/prometheus.go) driven by  *)
(* CacheMetrics (src/metrics/metrics.go).                                  *)
(*                                                                         *)
(* Every Record* call of CacheMetrics is an IncCounter, SetGauge or        *)
(* ObserveHistogram of a fixed name, which gets the metric vector for the  *)
(* name with getCounter / getGauge / getHistogram and updates it.  A       *)
(* getter creates the vector on first use by double-checked locking: look  *)
(* the name up under c.mu.RLock; if it is missing, take c.mu.Lock, look    *)
(* again, and only then create the vector, MustRegister it with the        *)
(* registry and store it in the map of its kind.                           *)
(*                                                                         *)
(* A vector is an id; the registry maps a metric name to the vector        *)
(* registered under it.  MustRegister of a second vector under a name     *)
(* panics.  A read-locked section excludes only the writer, and it is one *)
(* step here.                                                              *)
(***************************************************************************)
EXTENDS Naturals, FiniteSets

CONSTANTS
  Callers,      \* goroutines calling CacheMetrics
  Used,         \* the <<kind, name>> pairs the program records
  MaxCalls,     \* bound: Record* calls
  None          \* no vector / lock free

Kinds == {"counter", "gauge", "histogram"}

(* The metric each Record* / Time* method of CacheMetrics updates.         *)
CacheMetricsUses ==
  {<<"counter", "cache_hit">>, <<"counter", "cache_miss">>,
   <<"counter", "cache_eviction">>, <<"counter", "cache_expiration">>,
   <<"gauge", "cache_size">>, <<"gauge", "cache_item_count">>,
   <<"histogram", "cache_get_latency">>, <<"histogram", "cache_set_latency">>,
   <<"histogram", "cache_delete_latency">>}

Names == {u[2] : u \in CacheMetricsUses}

ASSUME Used \subseteq CacheMetricsUses

VecIds == 1..MaxCalls

VARIABLES
  vecs,         \* [Kinds -> [Names -> vector or None]]: c.counters, c.gauges, c.histograms
  registry,     \* [Names -> vector or None]: what c.registry holds
  writer,       \* the goroutine holding c.mu exclusively, or None
  pc,           \* [Callers -> point of execution]
  want,         \* [Callers -> the <<kind, name>> being recorded, or None]
  held,         \* [Callers -> the vector the getter returned, or None]
  created,      \* vectors created so far
  calls         \* Record* calls made

vars == <<vecs, registry, writer, pc, want, held, created, calls>>

PCs == {"idle", "lookup", "lock", "create", "update", "panic"}

TypeOK ==
  /\ vecs \in [Kinds -> [Names -> VecIds \cup {None}]]
  /\ registry \in [Names -> VecIds \cup {None}]
  /\ writer \in Callers \cup {None}
  /\ pc \in [Callers -> PCs]
  /\ want \in [Callers -> Used \cup {None}]
  /\ held \in [Callers -> VecIds \cup {None}]
  /\ created \in 0..MaxCalls
  /\ calls \in 0..MaxCalls

(* NewPrometheusCollector: a fresh registry and three empty maps.          *)
Init ==
  /\ vecs = [k \in Kinds |-> [n \in Names |-> None]]
  /\ registry = [n \in Names |-> None]
  /\ writer = None
  /\ pc = [c \in Callers |-> "idle"]
  /\ want = [c \in Callers |-> None]
  /\ held = [c \in Callers |-> None]
  /\ created = 0
  /\ calls = 0

(* A Record* method calls IncCounter / SetGauge / ObserveHistogram, which *)
(* enters the getter of its kind.                                          *)
Record(c, u) ==
  /\ pc[c] = "idle"
  /\ calls < MaxCalls
  /\ calls' = calls + 1
  /\ pc' = [pc EXCEPT ![c] = "lookup"]
  /\ want' = [want EXCEPT ![c] = u]
  /\ held' = [held EXCEPT ![c] = None]
  /\ UNCHANGED <<vecs, registry, writer, created>>

(* The getter's fast path: RLock, look the name up, RUnlock; a vector found *)
(* is returned.                                                             *)
Lookup(c) ==
  /\ pc[c] = "lookup"
  /\ writer = None
  /\ LET v == vecs[want[c][1]][want[c][2]] IN
       /\ pc' = [pc EXCEPT ![c] = IF v = None THEN "lock" ELSE "update"]
       /\ held' = [held EXCEPT ![c] = v]
  /\ UNCHANGED <<vecs, registry, writer, want, created, calls>>

(* c.mu.Lock().                                                            *)
Lock(c) ==
  /\ pc[c] = "lock"
  /\ writer = None
  /\ writer' = c
  /\ pc' = [pc EXCEPT ![c] = "create"]
  /\ UNCHANGED <<vecs, registry, want, held, created, calls>>

(* Variant of Recheck that returns the vector without unlocking.           *)
RecheckKeepingLock(c) ==
  LET v == vecs[want[c][1]][want[c][2]] IN
  /\ pc[c] = "create"
  /\ v # None
  /\ held' = [held EXCEPT ![c] = v]
  /\ pc' = [pc EXCEPT ![c] = "update"]
  /\ UNCHANGED <<vecs, registry, writer, want, created, calls>>

(* Under the lock the name is looked up again: another goroutine created   *)
(* it meanwhile; the deferred Unlock runs as the getter returns it.        *)
Recheck(c) ==
  LET v == vecs[want[c][1]][want[c][2]] IN
  /\ pc[c] = "create"
  /\ v # None
  /\ held' = [held EXCEPT ![c] = v]
  /\ writer' = None
  /\ pc' = [pc EXCEPT ![c] = "update"]
  /\ UNCHANGED <<vecs, registry, want, created, calls>>

(* Variant of Create that does not look again under the lock.              *)
CreateUnchecked(c) ==
  LET k == want[c][1]  n == want[c][2]  v == created + 1 IN
  /\ pc[c] = "create"
  /\ created' = v
  /\ IF registry[n] # None
       THEN /\ pc' = [pc EXCEPT ![c] = "panic"]
            /\ UNCHANGED <<vecs, registry, writer, held>>
       ELSE /\ registry' = [registry EXCEPT ![n] = v]
            /\ vecs' = [vecs EXCEPT ![k][n] = v]
            /\ held' = [held EXCEPT ![c] = v]
            /\ writer' = None
            /\ pc' = [pc EXCEPT ![c] = "update"]
  /\ UNCHANGED <<want, calls>>

(* The name is still missing: NewCounterVec (or Gauge, Histogram),         *)
(* c.registry.MustRegister, which panics on a name already registered,    *)
(* store in the map, and the deferred Unlock.                             *)
Create(c) ==
  LET k == want[c][1]  n == want[c][2]  v == created + 1 IN
  /\ pc[c] = "create"
  /\ vecs[k][n] = None
  /\ created' = v
  /\ IF registry[n] # None
       THEN /\ pc' = [pc EXCEPT ![c] = "panic"]
            /\ UNCHANGED <<vecs, registry, writer, held>>
       ELSE /\ registry' = [registry EXCEPT ![n] = v]
            /\ vecs' = [vecs EXCEPT ![k][n] = v]
            /\ held' = [held EXCEPT ![c] = v]
            /\ writer' = None
            /\ pc' = [pc EXCEPT ![c] = "update"]
  /\ UNCHANGED <<want, calls>>

(* counter.With(labels).Add / gauge...Set / histogram...Observe, and the   *)
(* Record* call returns.                                                   *)
Update(c) ==
  /\ pc[c] = "update"
  /\ pc' = [pc EXCEPT ![c] = "idle"]
  /\ UNCHANGED <<vecs, registry, writer, want, held, created, calls>>

(* The program has made its calls and they have all returned.              *)
Done ==
  /\ calls = MaxCalls
  /\ \A c \in Callers : pc[c] = "idle"
  /\ UNCHANGED vars

Next ==
  \/ \E c \in Callers :
       \/ \E u \in Used : Record(c, u)
       \/ Lookup(c) \/ Lock(c) \/ Recheck(c) \/ Create(c) \/ Update(c)
  \/ Done

(* Every step of a goroutine in a call is weakly fair: the Go scheduler    *)
(* runs it, and sync.Mutex hands the lock to a waiter once it is free.     *)
Fairness ==
  \A c \in Callers :
    /\ WF_vars(Lookup(c)) /\ WF_vars(Lock(c)) /\ WF_vars(Recheck(c))
    /\ WF_vars(Create(c)) /\ WF_vars(Update(c))

Spec == Init /\ [][Next]_vars /\ Fairness

-----------------------------------------------------------------------------
(* However getters of one name interleave, at most one vector is created  *)
(* and registered for it: no MustRegister panics, and the vector every     *)
(* caller updates is the one the registry exports under its name (an      *)
(* update to any other would never be scraped).                           *)
OneVectorPerName ==
  \A c \in Callers :
    /\ pc[c] # "panic"
    /\ pc[c] = "update" => held[c] = registry[want[c][2]]

(* Every Record* call returns: the lock a getter takes is always released, *)
(* so no goroutine waits for c.mu for ever.                                *)
AllCallsReturn ==
  \A c \in Callers : pc[c] # "idle" ~> pc[c] = "idle"

=============================================================================

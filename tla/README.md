# TLA+ models of GeeCache

Models of the distributed read-through cache in `src/`, checked with TLC.

## The system

* **Group** (`src/geecache.go`). `Group.Get` looks in the local cache
  (`mainCache`). On a miss, `Group.load` runs a loader under the
  single-flight coalescer (`singleflight.Group.Do`). The loader works as follows:
  - It classifies the key with `recordAccess`, the hot-spot tracker.
  - A hot key is asked of up to `backupCount` peers at once (`getFromPeers`),
    which race a 500 ms timer.
  - A cold key is asked of the ring owner (`getFromPeer`).
  - If no peer was chosen, or the peers failed, the loader calls the user's
    getter (`getLocally`) and fills the cache (`populateCache`).
  - A hot key loaded locally is pushed to backup peers with HTTP PUTs
    (`syncToBackupPeers`).
  - A cleaner goroutine, spawned by `recordAccess` after 10 minutes, halves
    the access counts and recomputes the hot set (`CleanExpiredHotSpot`).
* **HTTPPool** (`src/http.go`). It is both the peer picker and the node server:
  - `PickPeer` returns the ring owner unless it is the node itself.
  - `PickPeers` returns the owner plus random draws.
  - `ServeHTTP` GET runs the *full* `Group.Get` of the receiving node, so a
    peer request can itself miss, lead a flight and call further peers.
  - `ServeHTTP` PUT adds the pushed value to the cache.
  - `httpGetter.Get` and `httpGetter.Set` are the client side.
* **Discovery binding** (`src/http_pool_discovery.go`) and **etcd registry**
  (`src/registry/`). They rebuild the peer list from etcd, through a snapshot,
  a watch and a 10 s refresh loop. They keep a node registered, with a leased
  key, a keep-alive goroutine that re-registers when the stream ends, and
  `Deregister` at shutdown.
* **MemoryStorage** (`src/storage/memory.go`). It is a byte-limited map with
  per-key expiry and a cleanup goroutine.
* **CppStorage** (`src/storage/cpp_storage.go`). It is a cgo wrapper that
  passes a C handle to a C++ engine and frees it in `Close`, which the
  constructors also set as the object's finalizer.
* **Metrics** (`src/metrics/`). `CacheMetrics` turns each `Record*` and
  `Time*` call into an `IncCounter`, `SetGauge` or `ObserveHistogram` of a
  fixed name. The Prometheus collector creates a metric vector on first use,
  registers it with its registry and keeps it in a map guarded by an
  `RWMutex`. The InfluxDB and OpenTelemetry collectors are empty stubs.
* **Compression** is a set of optional codecs.
* **`cmd/main.go`** is the demo wiring. Its `/api` handler and its
  start-up and shutdown order are modelled. `startAPIServer` and the test
  client start before `startCacheServer` reaches `Group.RegisterPeers`, so a
  node serves Gets, and is asked by peers, before it has a peer picker.
* Code outside `src/` is modelled from `spec.md`: `singleflight`, `lru`/`cache.go`,
  `consistenthash` and `ByteView`.

## Modules

### `GeeCache.tla`: the read path of a cluster of nodes

A request is one goroutine running `Group.Get`. Its record holds:
* the node and the key;
* a program counter `pc`;
* the request it serves (`parent`: the racing or peer-calling request on
  the calling node);
* the flight leader it waits on;
* its peer callee or raced sub-requests;
* the one-slot `resultChan` (`buf`);
* its result.

Shared state is kept per node: `cache`, `hits`/`misses`, `accessCount`,
`hotKeys`, `cleanDue` (10 minutes have passed since `lastCleanTime`),
`cleaners` (spawned cleaner goroutines) and the single-flight map `flight`.
`syncs` and `puts` are bags of pending `syncToBackupPeers` goroutines and
PUT requests.

| code | action |
|---|---|
| `/api` handler (`cmd/main.go`) | `ClientGet` |
| `Group.Get`, hit | `GetHit` (includes `recordAccess`) |
| `Group.Get`, miss + `loader.Do` | `GetMiss` (join or lead) |
| loader: `recordAccess`, `PickPeers`/`PickPeer`, RPC send | `Lead` |
| `getFromPeer` returns | `PeerReturn` |
| `getFromPeers` select: value / closed channel / timer | `RaceWin` / `RaceClosed` / `RaceTimeout` |
| `getLocally` + `populateCache` + load's sync spawn | `LoadLocal` |
| waiter of `Do` returns | `WaitReturn` |
| `syncToBackupPeers` goroutine | `SyncToBackupPeers` |
| `ServeHTTP` PUT / `httpGetter.Set` failing | `ServePut` / `PutLost` |
| 10 minutes elapse / spawned cleaner runs | `Tick` / `Clean` |
| `Group.RegisterPeers` (in `startCacheServer`) | `RegisterPeers` |

Abstractions:
* The getter's bytes are one value per key, `SourceValue(k)`. Keys outside
  `Stored` make the getter fail.
* The consistent-hash ring is the constant operator `RingOwner(S, k)`:
  the first member of `S` in a per-key preference order.
* Each node's ring is built from `PeerSet[n]`, the list passed to
  `HTTPPool.Set`.
* `mainCache.add` may evict any set of other keys, standing for the byte budget.
* `PickPeers` yields every outcome its `rand.Intn` draws can produce.
* `registered` is the set of nodes that have called `RegisterPeers`. An
  unregistered node's Gets load locally (`g.peers == nil`), and it is not
  yet listening, so every GET or PUT sent to it fails.
* A peer RPC to a registered node may fail in transport (`Deliverable`)
  only when `Unreliable` is set. When the request bound would be exceeded,
  the RPC fails.

### `MemoryStorage.tla`: the in-memory storage back-end

`src/storage/memory.go` keeps `data`, `expiries` and a byte counter `size`
under one `sync.RWMutex`, and runs a cleanup goroutine stopped through the
unbuffered channel `stopCleanup`. In the model:
* the mutex is `writer` (the goroutine holding it exclusively, or `None`)
  and `readers` (the set holding it shared);
* client goroutines in `Clients` each make calls, with their point of
  execution in `pc` and the key in `arg`; `ops` counts calls, bounded by
  `MaxOps`;
* a value is its length (from `Lens`), so `size` adds `KeyLen + len`, as
  `len(key)+len(value)` does;
* `now` is a clock in whole cleanup intervals (bounded by `MaxTime`), and an
  expiry is `now + e` for `e` in `Expires` (0 means no expiry);
* `cleaner` is the cleanup goroutine: waiting in its `select`, blocked on
  the lock inside `cleanExpired`, or exited.

| code | action |
|---|---|
| `Get` / `Has` / `Keys`: `RLock` | `ReadLock` |
| `Get` / `Has`: look-up, `RUnlock` | `ReadBody` |
| `Keys`: iterate `data`, `RUnlock` | `KeysBody` |
| `Get` / `Has`: delete of an expired key (under `RLock`) | `ReadExpire` |
| `Set` / `SetWithExpire` (limit check, store, expiry) | `SetWithExpire` |
| `Delete` / `Clear` | `Delete` / `Clear` |
| `Close` → `stopCleanupTimer`: lock, send, unlock; then `Clear` | `CloseCall`, `CloseLock`, `CloseSend`, `CloseClear` |
| ticker fires in the cleanup goroutine / `cleanExpired` | `TickerFires` / `CleanExpired` |
| time passes | `Advance` |

`ExpiryDeletesOnlyExpired` is an action property: in every step in which
a Get or Has finishes deleting the key it found expired, or `cleanExpired`
sweeps, each entry that leaves `data` is expired at that moment. It is
what the lock held from the expiry check to the delete buys (a fresh `Set`
of the key cannot come between them), and its mutant releases the lock
in between.

No refinement of the `Storage` interface is checked. The repository's own
test `TestMemoryStorageEdgeCases` (`storage_test.go:147-163`) expects a
`Set` over `MaxSize` to succeed and evict the older key, while
`SetWithExpire` (`memory.go:78-80`) refuses it; a map that may refuse any
write would accept the code and hide that disagreement, and a map that
evicts is not what the code does. Running the test shows the
disagreement directly, so no run is spent on it.

### `CppStorage.tla`: the Go side of the cgo storage

The C++ engine is not in the repository, so the model keeps what the Go
code decides: `handle` (`s.handle`, live or nil), `engine` (the
`storage_t` it points to: open, closed, freed), and each caller's point of
execution. `reachable` says whether the program still holds the
`*CppStorage` for later calls, and `finalizer` whether the collector has
queued `Close`. `s.handle` is read and written without a lock; a read is
taken to return the value before or after a concurrent write.

| code | action |
|---|---|
| `NewCpp*Storage` + `runtime.SetFinalizer` | `Init` |
| a program calls a method / drops its last reference | `Invoke` / `Drop` |
| `if s.handle == nil` opening every method | `Check` |
| the C call of `Get`, `Set`, `SetWithExpire`, `Delete`, `Has`, `Keys`, `Clear` | `EngineCall` |
| `Close`: `storage_close` / `storage_free` and `s.handle = nil` | `CloseEngine` / `FreeHandle` |
| the collector runs the finalizer (`Close`) | `RunFinalizer` |

A method does not use `s` after it has read `s.handle`, and there is no
`runtime.KeepAlive(s)`, so the object is unreachable, and may be
finalized, while its last call is inside C. `RunFinalizer` is enabled
then, and not while a caller is still about to read `s.handle`.

### `Discovery.tla`: etcd registration and the discovery-driven ring

One node per member of `Nodes` runs the start-up and shutdown order of
`cmd/main.go` (`main`: `init` → `pool` → `register` → `serving` →
`deregister` → `exiting` → `exited`). In `startCacheServerWithDiscovery`,
`NewHTTPPoolWithDiscovery` (snapshot, watch and first `refreshPeers`) runs
before `RegisterService`. The environment is etcd:
* `etcd` is the set of live service keys;
* `events[n]` is node `n`'s watch stream, and `watching[n]` records whether
  the watch goroutine has subscribed yet;
* `LeaseLost` is a running node losing etcd for longer than the TTL
  (`leaseLost`), bounded by `MaxLosses`. Two steps follow in either order:
  etcd deletes the key (`LeaseExpire`, which also expires the lease of a
  node that exited) and the clientv3 keep-alive loop closes the channel
  it gave `Register` (`KeepAliveLost`).

`services[n]` is `ServiceDiscovery.services`, and `ring[n]` is the peer list
last passed to `HTTPPool.Set`. The `EtcdRegistry` is modelled as:
* `registered`, the registry's flag;
* `regMu`, the goroutine holding `e.mu`;
* `stopClosed`, whether `stopSignal` is closed;
* `ka`, the keepAlive goroutine;
* `kaOpen`, its keep-alive channel.

| code | action |
|---|---|
| `NewServiceDiscovery` → `fetchServices` | `Fetch` |
| `watchServices`: `client.Watch` / event loop | `WatchStart` / `Deliver` |
| `NewHTTPPoolWithDiscovery` (first `refreshPeers`) / `refreshPeersLoop` | `NewPool` / `Refresh` |
| `HTTPPool.Set` (the ring replaced under `p.mu`) | `SetPeers`, used by both |
| `ServiceDiscovery.GetServicesByPrefix` (read by `refreshPeers`) | `GetServicesByPrefix` |
| `Register` (lease, put, keep-alive, goroutine) | `Register` |
| `Register` returns an error (Grant, Put or KeepAlive); main's `log.Fatalf` | `RegisterFail` |
| `keepAlive`: `stopSignal` / channel closed → `reRegister` | `KeepAliveStop` / `KeepAliveClosed` |
| `reRegister` (locks `e.mu`, then `Register` locks it again) | `ReRegister` |
| signal received / `Deregister` / main returns | `Signal` / `Deregister` / `Exit` |

`refreshPeers` skips an empty list, which `Refreshed` keeps.
`Deregister`'s `Revoke` may fail, and always fails once the lease is lost:
it then returns with `registered` still TRUE.

`LostRegistrationNoticed` is a liveness property: once the key of a
running node that the registry holds as registered is gone from etcd,
`registered` eventually becomes FALSE or the process exits. It takes the
channel close, `keepAlive`'s select and `reRegister` (which clears the flag
before it blocks); its mutant is a `reRegister` that leaves the flag.

### `Metrics.tla`: the Prometheus collector under concurrent callers

Each caller is a goroutine calling a `CacheMetrics` method. `vecs` holds the
three maps `c.counters`, `c.gauges`, `c.histograms`, with a vector as an id;
`registry` maps a metric name to the vector registered under it (the
Prometheus registry refuses a second collector of one name whatever its
kind). `writer` is the holder of `c.mu` in write mode. A read-locked
section only excludes the writer, so it is one step.

| code (`src/metrics/`) | action |
|---|---|
| `NewPrometheusCollector` (`prometheus.go:26-58`) | `Init` |
| `RecordHit` … `TimeDelete` (`metrics.go:79-137`) | the pairs `CacheMetricsUses` |
| `IncCounter` / `SetGauge` / `ObserveHistogram` / `StartTimer` | `Record` |
| getter: `RLock`, lookup, `RUnlock`, return if found | `Lookup` |
| getter: `c.mu.Lock()` (`defer Unlock`) | `Lock` |
| getter: lookup again, return if found (deferred Unlock) | `Recheck` |
| getter: `New*Vec`, `MustRegister` (panics on a taken name), store | `Create` |
| `With(labels).Add` / `Set` / `Observe` | `Update` |

`getGauge` and `getHistogram` are the code of `getCounter` on another map;
the actions take the kind from the call. `Done` lets the finished program
stutter.

## Runs

| run | cfg | expect | checks |
|---|---|---|---|
| core | `MCGeeCache.cfg` | pass | TypeOK, CacheHoldsSourceValues, HotIffOverThreshold, AllGetsReturn, with failing RPCs and registration after Gets start |
| empty_race | `MCGeeCacheEmpty.cfg` | violation | GetReturnsSourceValue |
| self_missing | `MCGeeCacheSelfMissing.cfg` | violation | AllGetsReturn |
| storage | `MCMemoryStorage.cfg` | pass | TypeOK, ExpiriesTrackData, ExpiryDeletesOnlyExpired |
| read_race | `MCMemoryStorageReadRace.cfg` | violation | MapAccessExclusive |
| size_leak | `MCMemoryStorageSizeLeak.cfg` | violation | SizeMatchesData |
| cpp_finalizer | `MCCppStorageFinalizer.cfg` (module `CppStorage`) | violation | EngineNotFreedInUse |
| close_deadlock | `MCMemoryStorageCloseDeadlock.cfg` | violation | CloseReturns |
| discovery | `MCDiscovery.cfg` | pass | TypeOK, LostRegistrationNoticed |
| lease_loss | `MCDiscoveryLeaseLoss.cfg` | violation | ShutdownCompletes |
| watch_gap | `MCDiscoveryWatchGap.cfg` | violation | SelfJoinsRing |
| metrics | `MCMetrics.cfg` (module `MCMetrics`) | pass | OneVectorPerName, AllCallsReturn |

The metrics run shows that the double-checked get-or-create is right: however
three goroutines interleave first uses of a name, one vector is created and
registered for it, `MustRegister` never panics, every caller updates the
vector the registry exports, and every call returns (the lock is released on
both exits). Its mutants show what each part is for: without the re-check a
second vector is created and `MustRegister` panics; a re-check that returned
without the deferred `Unlock` would leave later calls blocked.

Bounds: three nodes and two keys, with key `k1` in the source and `k2` not.
The rings give the two keys different owners. These bounds are enough for:
* a peer request to be served by a node that itself misses and forwards;
* a race of two peers (BackupCount 2);
* concurrent client and server misses on one node;
* Gets and peer RPCs before, between and after the nodes' `RegisterPeers`.

Metrics is checked with three goroutines and four calls on a counter and a
histogram: two goroutines can miss the same name together while a third
waits for the lock, and a later call takes the fast path. Symmetry is not
used because the run checks liveness.

`MaxReqs` caps the total of client and server goroutines; `MaxGets` caps
client calls. `MaxTicks` lets the cleaning interval elapse once, which is
enough to reach a cleaning between two accesses.

MemoryStorage is checked with two client goroutines (symmetric), two keys,
values of length 1 or 2, and a limit of 5 bytes. Two entries of 2 or 3 bytes
can then reach, pass or stay under the limit, so refused writes happen. The run makes 5 calls with
expiry 0 or 1 over a clock of 2 intervals, which is enough for a key to
expire, be read, be cleaned, be overwritten and be closed over. Discovery
is checked with two nodes and one lease loss. Each node's snapshot, watch
and registration then interleave with the other's, and the lost-lease path
(key expiry and channel close in both orders, `keepAlive` → `reRegister`)
is reached, with or without a shutdown signal in between. The Discovery violation runs use
one node, which is enough for their traces. CppStorage is checked with one
client goroutine and two calls: the smallest program whose trace needs no
concurrency of its own, so the trace shows the finalizer rather than a
racing `Close`.

### What the violations show

* **empty_race.** When every raced peer fails, `getFromPeers` returns
  `ByteView{}` with a nil error. The cause is that `wg.Wait()` closes
  `resultChan` (`geecache.go:345-354`), so the hot Get "succeeds" with an
  empty value.
* **self_missing.** With the rings of a discovery cluster, the PUT/GET cycle
  blocks. `cmd/main.go` builds the pool before `RegisterService`, so a node's
  own ring may lack itself. A cold Get then travels n1 → n2 → n1, joins
  n1's own flight and waits forever, because `getFromPeer` has no timeout.
* **size_leak.** `Get` and `Has` delete an expired entry without
  subtracting its bytes (`memory.go:47-48`, `119-120`). `size` then counts
  bytes that no entry holds, and a store with a limit refuses writes too
  early. Once the leak reaches the limit, it refuses them for good.
* **close_deadlock.** Once the ticker has fired, the cleanup goroutine waits
  for `s.mu` in `cleanExpired`. `stopCleanupTimer` holds `s.mu` while it
  sends on the unbuffered `stopCleanup` (`memory.go:195-201`). Neither moves,
  and `Close` never returns.
* **lease_loss.** After the keep-alive channel closes, `reRegister` locks
  `e.mu` and calls `Register`, which locks `e.mu` again
  (`etcd.go:127-133`). The goroutine blocks for ever holding the mutex. The
  node stays out of etcd, and at shutdown `Deregister` blocks on the same
  mutex, so the process never exits.
* **watch_gap.** `watchServices` subscribes in a goroutine after
  `fetchServices`, with no start revision (`etcd.go:237-240`). A node's own
  `Register` can land between the snapshot and the subscription. The node
  then never sees its own key, so it never enters its own ring; this is
  the start of the self_missing cycle.
* **cpp_finalizer.** One goroutine, no concurrency in the program: it
  calls `Get` and never uses the storage again. While `storage_get` runs
  (`cpp_storage.go:83`), the `*CppStorage` is unreachable, the collector
  runs the finalizer, and `Close` calls `storage_close` and `storage_free`
  on the handle the call is using. The fix is `runtime.KeepAlive(s)` after
  each C call. With two client goroutines, the same invariant fails
  through a `Close` between another goroutine's nil check and its C call
  (or two `Close`s), since no lock guards `s.handle`.
* **read_race.** `Get` and `Has` delete an expired key holding only
  `s.mu.RLock()` (`memory.go:42-49`). A `Keys` call holds the same shared lock
  and iterates `s.data` meanwhile. Go aborts the process ("concurrent map
  iteration and map write"); two Gets of the same expired key do the same.

## Fairness

Every step of a started goroutine is weakly fair. This covers requests,
sync goroutines, PUT deliveries and cleaners. The Go scheduler runs
runnable goroutines, and the 500 ms timer of `getFromPeers` always fires
(`RaceTimeout` stays enabled while the race waits). Client arrivals and the
passage of 10 minutes are not fair: a system may stay idle. Each node's
`RegisterPeers` is weakly fair: `startCacheServer` runs straight through to
it. `Idle` lets a
quiescent system stutter, so deadlock checking reports only real blocking.

In MemoryStorage, the steps of a started call are weakly fair, and so are
the steps of `Close` and `cleanExpired` once the ticker has fired. New calls,
ticker firings and the clock are not fair. In Discovery, every goroutine step
is weakly fair, including the watch subscription, event delivery, refresh
the TTL of a lease no longer renewed (etcd deletes the key), and the
clientv3 keep-alive loop closing the channel of a lease it has not renewed
within the TTL (its deadline timer always fires). The two external events, a shutdown
signal and a lost lease, are not fair: a node may serve for ever, and etcd
may never fail. In Metrics, every step of a goroutine inside a call is
weakly fair, and `sync.RWMutex` hands the free lock to a waiter; new calls
are not fair.

## Not modelled (yet)

* **Compression.** These are pure byte transformations.
* **TLS and client construction.** `NewHTTPPool` leaves `client` nil and
  `newTLSClient` does not compile. These are build defects, not behaviours.
* **The C++ engine of CppStorage.** `cpp/storage_wrapper.h` is not in the
  repository: what its calls do with data, and whether it locks, cannot
  be read, so `CppStorage.tla` keeps only the handle's lifecycle.
* **Metrics, beyond get-or-create.** The exporters never feed back into
  the cache. The scrape HTTP server, `Close`, label handling and the stub
  collectors are not modelled. One sequential defect is out of a state
  model's scope: every vector is created with `getLabelNames(nil)`, so
  `With(labels)` panics for any non-empty label map.
* **The data race on `g.peers`.** `RegisterPeers` writes it without
  synchronisation while API Gets read it. The model treats the read as
  atomic (one of the two values).
* **PickPeers against spec invariant 4.** `PickPeers` (`http.go:212-226`)
  draws `count-1` backups from all non-self peers, the main peer among
  them, and skips a duplicate. A node of four with `backupCount` 2 can
  return the main peer alone, where `spec.md` asks for
  `min(count, non-self peers)` peers. This is a property of one pure draw;
  `GeeCache.tla` models the draw as the code makes it, and no run checks
  it against the spec.
* **`NewStorage`** in `storage.go` is a factory switch.
* **The double backup push.** A hot key loaded from the source spawns
  `syncToBackupPeers` twice, from `populateCache` (`geecache.go:281`) and
  from `load` (line 261), against spec 4.1 step 3. `LoadLocal` adds both
  to `syncs`, as the code does. Every hot local load does this, so a unit
  test that counts PUTs shows it, and no run is spent on it.
* **`HTTPPoolWithDiscovery.Close`, the registry `Close` methods,
  `SetRefreshInterval`, `GetService`, `GetServices`.** `cmd/main.go` never calls them. A
  second `Close` would panic on the closed `stopSignal`.
* **Ring churn in GeeCache.** `Discovery` models `HTTPPool.Set` replacing a
  ring; `GeeCache` keeps each node's ring constant while requests are in
  flight.
* **The single-flight coalescer.** `singleflight` is not under `src/`; it
  is modelled from the spec (`flight`, joined by `GetMiss`, left on every
  exit), so no property is stated about it: it would check that model
  rather than the code. A miss after the leader left the flight starts a
  second, sequential load, which singleflight allows.

------------------------------ MODULE Discovery ------------------------------
(***************************************************************************)
(* Service registration and discovery of GeeCache nodes started with      *)
(* -etcd (src/cmd/main.go startCacheServerWithDiscovery), over etcd:       *)
(*   - ServiceDiscovery (src/registry/etcd.go): a snapshot of the service  *)
(*     keys, then a watch goroutine that applies put/delete events;        *)
(*   - HTTPPoolWithDiscovery (src/http_pool_discovery.go): refreshPeers    *)
(*     rebuilds the ring from the discovered services, at creation and on  *)
(*     every tick of refreshPeersLoop;                                     *)
(*   - EtcdRegistry (src/registry/etcd.go): Register grants a lease, puts  *)
(*     the node's key and starts keepAlive; when the keep-alive channel    *)
(*     closes, keepAlive calls reRegister; Deregister revokes the lease.   *)
(* etcd itself is the environment: it holds the keys with live leases and *)
(* streams each change to the watchers that are subscribed.                *)
(***************************************************************************)
EXTENDS Naturals, Sequences, FiniteSets

CONSTANTS
  Nodes,       \* node addresses; the service key of n is <prefix><n>
  MaxLosses,   \* bound: leases of running nodes that etcd lets expire
  None         \* no holder of EtcdRegistry.mu

ASSUME MaxLosses \in Nat

VARIABLES
  etcd,        \* the nodes whose service key is in etcd (lease alive)
  watching,    \* [Nodes -> {"off", "spawned", "on"}]: the watchServices goroutine
  events,      \* [Nodes -> Seq of <<"put" | "del", node>>]: undelivered watch events
  services,    \* [Nodes -> SUBSET Nodes]: ServiceDiscovery.services
  ring,        \* [Nodes -> SUBSET Nodes]: the peers of the last HTTPPool.Set
  main,        \* [Nodes -> phase of main]
  registered,  \* [Nodes -> BOOLEAN]: EtcdRegistry.registered
  regMu,       \* [Nodes -> None or "keepalive"]: a goroutine parked holding EtcdRegistry.mu
  stopClosed,  \* [Nodes -> BOOLEAN]: EtcdRegistry.stopSignal is closed
  ka,          \* [Nodes -> state of the keepAlive goroutine]
  kaOpen,      \* [Nodes -> BOOLEAN]: the lease keep-alive channel is open
  leaseLost,   \* [Nodes -> BOOLEAN]: the node's lease is no longer renewed
  losses       \* number of LeaseLost steps taken

vars == <<etcd, watching, events, services, ring, main, registered, regMu,
          stopClosed, ka, kaOpen, leaseLost, losses>>

Phases == {"init", "pool", "register", "serving", "deregister", "exiting",
           "exited"}
KaStates == {"none", "loop", "rereg", "blocked", "done"}
Event == {"put", "del"} \X Nodes

(* The process is running (its goroutines with it).                        *)
Alive(n) == main[n] # "exited"

(* etcd sends a change of m's key to every subscribed, running watcher.    *)
Emit(kind, m) ==
  events' = [w \in Nodes |->
               IF watching[w] = "on" /\ Alive(w)
                 THEN Append(events[w], <<kind, m>>) ELSE events[w]]

(* ServiceDiscovery.GetServicesByPrefix(DefaultServicePrefix): the cached  *)
(* services whose key has the prefix, under sd.mu; every key the cache    *)
(* holds was read under that prefix.                                       *)
GetServicesByPrefix(n) == services[n]

(* refreshPeers: an empty service list leaves the ring as it is.           *)
Refreshed(n) ==
  IF GetServicesByPrefix(n) = {} THEN ring[n] ELSE GetServicesByPrefix(n)

(* HTTPPool.Set: under p.mu the ring and the getters are rebuilt from the  *)
(* given list, replacing the old ones.                                     *)
SetPeers(n, peers) == ring' = [ring EXCEPT ![n] = peers]

-----------------------------------------------------------------------------
Init ==
  /\ etcd = {}
  /\ watching = [n \in Nodes |-> "off"]
  /\ events = [n \in Nodes |-> <<>>]
  /\ services = [n \in Nodes |-> {}]
  /\ ring = [n \in Nodes |-> {}]
  /\ main = [n \in Nodes |-> "init"]
  /\ registered = [n \in Nodes |-> FALSE]
  /\ regMu = [n \in Nodes |-> None]
  /\ stopClosed = [n \in Nodes |-> FALSE]
  /\ ka = [n \in Nodes |-> "none"]
  /\ kaOpen = [n \in Nodes |-> FALSE]
  /\ leaseLost = [n \in Nodes |-> FALSE]
  /\ losses = 0

(* NewServiceDiscovery: fetchServices copies the keys under the prefix,    *)
(* then the watch goroutine is spawned (it subscribes later).              *)
Fetch(n) ==
  /\ main[n] = "init"
  /\ services' = [services EXCEPT ![n] = etcd]
  /\ watching' = [watching EXCEPT ![n] = "spawned"]
  /\ main' = [main EXCEPT ![n] = "pool"]
  /\ UNCHANGED <<etcd, events, ring, registered, regMu, stopClosed, ka,
                 kaOpen, leaseLost, losses>>

(* watchServices calls client.Watch: events from now on are streamed to    *)
(* this node; changes made before are not replayed.                        *)
WatchStart(n) ==
  /\ watching[n] = "spawned"
  /\ Alive(n)
  /\ watching' = [watching EXCEPT ![n] = "on"]
  /\ UNCHANGED <<etcd, events, services, ring, main, registered, regMu,
                 stopClosed, ka, kaOpen, leaseLost, losses>>

(* watchServices applies the next event to the service cache.              *)
Deliver(n) ==
  /\ Alive(n)
  /\ events[n] # <<>>
  /\ LET ev == Head(events[n]) IN
       services' = [services EXCEPT ![n] =
                      IF ev[1] = "put" THEN @ \cup {ev[2]} ELSE @ \ {ev[2]}]
  /\ events' = [events EXCEPT ![n] = Tail(@)]
  /\ UNCHANGED <<etcd, watching, ring, main, registered, regMu, stopClosed,
                 ka, kaOpen, leaseLost, losses>>

(* NewHTTPPoolWithDiscovery: refreshPeers once, then refreshPeersLoop runs; *)
(* main goes on to RegisterPeers and the registry.                         *)
NewPool(n) ==
  /\ main[n] = "pool"
  /\ SetPeers(n, Refreshed(n))
  /\ main' = [main EXCEPT ![n] = "register"]
  /\ UNCHANGED <<etcd, watching, events, services, registered, regMu,
                 stopClosed, ka, kaOpen, leaseLost, losses>>

(* refreshPeersLoop: a tick of the refresh ticker runs refreshPeers.       *)
Refresh(n) ==
  /\ main[n] \in {"register", "serving", "deregister", "exiting"}
  /\ SetPeers(n, Refreshed(n))
  /\ UNCHANGED <<etcd, watching, events, services, main, registered, regMu,
                 stopClosed, ka, kaOpen, leaseLost, losses>>

(* RegisterService -> EtcdRegistry.Register under e.mu: grant a lease, put *)
(* the key with it, start the keep-alive stream and the keepAlive          *)
(* goroutine.                                                              *)
Register(n) ==
  /\ main[n] = "register"
  /\ regMu[n] = None
  /\ etcd' = etcd \cup {n}
  /\ Emit("put", n)
  /\ registered' = [registered EXCEPT ![n] = TRUE]
  /\ kaOpen' = [kaOpen EXCEPT ![n] = TRUE]
  /\ ka' = [ka EXCEPT ![n] = "loop"]
  /\ main' = [main EXCEPT ![n] = "serving"]
  /\ UNCHANGED <<watching, services, ring, regMu, stopClosed, leaseLost, losses>>

(* Register fails: Grant, Put or KeepAlive returns an error (the key is   *)
(* in etcd when only KeepAlive failed), startCacheServerWithDiscovery     *)
(* returns it and main ends in log.Fatalf: the process exits.  The lease  *)
(* of a key it put is never renewed.                                       *)
RegisterFail(n) ==
  /\ main[n] = "register"
  /\ regMu[n] = None
  /\ \/ UNCHANGED <<etcd, events>>
     \/ /\ etcd' = etcd \cup {n}
        /\ Emit("put", n)
  /\ main' = [main EXCEPT ![n] = "exited"]
  /\ UNCHANGED <<watching, services, ring, registered, regMu, stopClosed, ka,
                 kaOpen, leaseLost, losses>>

(* A running node loses etcd for longer than the TTL: its keep-alive      *)
(* requests no longer renew the lease.                                     *)
LeaseLost(n) ==
  /\ losses < MaxLosses
  /\ Alive(n) /\ n \in etcd /\ kaOpen[n] /\ ~leaseLost[n]
  /\ leaseLost' = [leaseLost EXCEPT ![n] = TRUE]
  /\ losses' = losses + 1
  /\ UNCHANGED <<etcd, watching, events, services, ring, main, registered,
                 regMu, stopClosed, ka, kaOpen>>

(* The clientv3 keep-alive loop sees no renewal within the TTL and closes *)
(* the channel Register got from KeepAlive, before or after etcd deletes   *)
(* the key.                                                                *)
KeepAliveLost(n) ==
  /\ Alive(n) /\ leaseLost[n] /\ kaOpen[n]
  /\ kaOpen' = [kaOpen EXCEPT ![n] = FALSE]
  /\ UNCHANGED <<etcd, watching, events, services, ring, main, registered,
                 regMu, stopClosed, ka, leaseLost, losses>>

(* etcd expires a lease that is no longer renewed, the node's having been *)
(* lost or its process having exited, and deletes the key.                 *)
LeaseExpire(n) ==
  /\ ~Alive(n) \/ leaseLost[n]
  /\ n \in etcd
  /\ etcd' = etcd \ {n}
  /\ Emit("del", n)
  /\ UNCHANGED <<watching, services, ring, main, registered, regMu,
                 stopClosed, ka, kaOpen, leaseLost, losses>>

(* keepAlive's select takes stopSignal: the goroutine returns.             *)
KeepAliveStop(n) ==
  /\ Alive(n) /\ ka[n] = "loop" /\ stopClosed[n]
  /\ ka' = [ka EXCEPT ![n] = "done"]
  /\ UNCHANGED <<etcd, watching, events, services, ring, main, registered,
                 regMu, stopClosed, kaOpen, leaseLost, losses>>

(* keepAlive's select finds the keep-alive channel closed and calls        *)
(* reRegister.                                                             *)
KeepAliveClosed(n) ==
  /\ Alive(n) /\ ka[n] = "loop" /\ ~kaOpen[n]
  /\ ka' = [ka EXCEPT ![n] = "rereg"]
  /\ UNCHANGED <<etcd, watching, events, services, ring, main, registered,
                 regMu, stopClosed, kaOpen, leaseLost, losses>>

(* Variant of reRegister that leaves e.registered as it was.              *)
ReRegisterKeepingFlag(n) ==
  /\ Alive(n) /\ ka[n] = "rereg"
  /\ regMu[n] = None
  /\ regMu' = [regMu EXCEPT ![n] = "keepalive"]
  /\ ka' = [ka EXCEPT ![n] = "blocked"]
  /\ UNCHANGED <<etcd, watching, events, services, ring, main, registered,
                 stopClosed, kaOpen, leaseLost, losses>>

(* reRegister locks e.mu, clears registered and calls Register, whose      *)
(* e.mu.Lock() waits on the mutex this goroutine holds (sync.Mutex is not  *)
(* reentrant): the goroutine stays blocked holding e.mu.                   *)
ReRegister(n) ==
  /\ Alive(n) /\ ka[n] = "rereg"
  /\ regMu[n] = None
  /\ regMu' = [regMu EXCEPT ![n] = "keepalive"]
  /\ registered' = [registered EXCEPT ![n] = FALSE]
  /\ ka' = [ka EXCEPT ![n] = "blocked"]
  /\ UNCHANGED <<etcd, watching, events, services, ring, main, stopClosed,
                 kaOpen, leaseLost, losses>>

(* SIGINT or SIGTERM reaches main, which calls reg.Deregister().           *)
Signal(n) ==
  /\ main[n] = "serving"
  /\ main' = [main EXCEPT ![n] = "deregister"]
  /\ UNCHANGED <<etcd, watching, events, services, ring, registered, regMu,
                 stopClosed, ka, kaOpen, leaseLost, losses>>

(* Variant of Deregister that returns the Revoke error without unlocking   *)
(* e.mu.                                                                   *)
DeregisterLeavingLocked(n) ==
  /\ main[n] = "deregister"
  /\ regMu[n] = None
  /\ main' = [main EXCEPT ![n] = "exiting"]
  /\ IF registered[n]
       THEN /\ stopClosed' = [stopClosed EXCEPT ![n] = TRUE]
            /\ \/ /\ ~leaseLost[n]
                  /\ etcd' = etcd \ {n}
                  /\ Emit("del", n)
                  /\ registered' = [registered EXCEPT ![n] = FALSE]
                  /\ UNCHANGED regMu
               \/ /\ UNCHANGED <<etcd, events, registered>>
                  /\ regMu' = [regMu EXCEPT ![n] = "main"]
       ELSE UNCHANGED <<stopClosed, etcd, events, registered, regMu>>
  /\ UNCHANGED <<watching, services, ring, ka, kaOpen, leaseLost, losses>>

(* Deregister under e.mu: nothing to do when not registered; otherwise     *)
(* close stopSignal and revoke the lease, which deletes the key.  A failed *)
(* Revoke (always, once the lease is lost) returns its error with          *)
(* registered still set and the key left to expire.                       *)
Deregister(n) ==
  /\ main[n] = "deregister"
  /\ regMu[n] = None
  /\ main' = [main EXCEPT ![n] = "exiting"]
  /\ IF registered[n]
       THEN /\ stopClosed' = [stopClosed EXCEPT ![n] = TRUE]
            /\ \/ /\ ~leaseLost[n]
                  /\ etcd' = etcd \ {n}
                  /\ Emit("del", n)
                  /\ registered' = [registered EXCEPT ![n] = FALSE]
               \/ UNCHANGED <<etcd, events, registered>>
       ELSE UNCHANGED <<stopClosed, etcd, events, registered>>
  /\ UNCHANGED <<watching, services, ring, regMu, ka, kaOpen, leaseLost, losses>>

(* main logs the outcome of Deregister and returns: the process exits and *)
(* its goroutines with it.                                                 *)
Exit(n) ==
  /\ main[n] = "exiting"
  /\ main' = [main EXCEPT ![n] = "exited"]
  /\ UNCHANGED <<etcd, watching, events, services, ring, registered, regMu,
                 stopClosed, ka, kaOpen, leaseLost, losses>>

(* Every process has exited and etcd is empty.                             *)
Over == \A n \in Nodes : ~Alive(n) /\ etcd = {}

Idle == Over /\ UNCHANGED vars

Next ==
  \/ \E n \in Nodes :
       \/ Fetch(n) \/ WatchStart(n) \/ Deliver(n) \/ NewPool(n) \/ Refresh(n)
       \/ Register(n) \/ RegisterFail(n) \/ KeepAliveStop(n) \/ KeepAliveClosed(n)
       \/ ReRegister(n) \/ Signal(n) \/ Deregister(n) \/ Exit(n)
       \/ LeaseLost(n) \/ KeepAliveLost(n) \/ LeaseExpire(n)
  \/ Idle

(* The goroutines of a running process are scheduled, etcd expires a      *)
(* lease no longer renewed after the TTL, the clientv3 keep-alive loop     *)
(* closes the channel of a lease it cannot renew, and the refresh ticker   *)
(* keeps firing.                                                           *)
(* Signals and lease losses of running nodes are not assumed.              *)
Fairness ==
  \A n \in Nodes :
    /\ WF_vars(Fetch(n)) /\ WF_vars(WatchStart(n)) /\ WF_vars(Deliver(n))
    /\ WF_vars(NewPool(n)) /\ WF_vars(Refresh(n)) /\ WF_vars(Register(n))
    /\ WF_vars(KeepAliveStop(n)) /\ WF_vars(KeepAliveClosed(n))
    /\ WF_vars(ReRegister(n)) /\ WF_vars(Deregister(n)) /\ WF_vars(Exit(n))
    /\ WF_vars(LeaseExpire(n)) /\ WF_vars(KeepAliveLost(n))

Spec == Init /\ [][Next]_vars /\ Fairness

-----------------------------------------------------------------------------
TypeOK ==
  /\ etcd \subseteq Nodes
  /\ watching \in [Nodes -> {"off", "spawned", "on"}]
  /\ events \in [Nodes -> Seq(Event)]
  /\ services \in [Nodes -> SUBSET Nodes] /\ ring \in [Nodes -> SUBSET Nodes]
  /\ main \in [Nodes -> Phases]
  /\ registered \in [Nodes -> BOOLEAN] /\ stopClosed \in [Nodes -> BOOLEAN]
  /\ regMu \in [Nodes -> {None, "keepalive"}]
  /\ ka \in [Nodes -> KaStates] /\ kaOpen \in [Nodes -> BOOLEAN]
  /\ leaseLost \in [Nodes -> BOOLEAN]
  /\ losses \in 0..MaxLosses

(* A registration etcd has dropped is noticed: once the key of a running   *)
(* node that EtcdRegistry holds registered is gone, the keep-alive channel *)
(* closes, keepAlive's select takes it, and reRegister clears registered  *)
(* (or the process exits).  The registry does not report a lost lease as  *)
(* live for ever.                                                          *)
LostRegistrationNoticed ==
  \A n \in Nodes :
    Alive(n) /\ registered[n] /\ n \notin etcd
      ~> ~registered[n] \/ ~Alive(n)

(* A node told to shut down gets through reg.Deregister() and exits, and   *)
(* its key leaves etcd: main's graceful shutdown always completes.         *)
ShutdownCompletes ==
  \A n \in Nodes : main[n] = "deregister" ~> ~Alive(n)

(* A registered node comes to route to itself: once its key is in etcd,    *)
(* its own ring eventually contains it (unless the key goes or the node    *)
(* stops), through the watch event and the next refreshPeers.              *)
SelfJoinsRing ==
  \A n \in Nodes :
    main[n] = "serving" /\ n \in etcd
      ~> n \in ring[n] \/ n \notin etcd \/ main[n] # "serving"

=============================================================================

------------------------------- MODULE GeeCache -------------------------------
(***************************************************************************)
(* The read path of a fleet of GeeCache nodes serving one Group            *)
(* (src/geecache.go, src/http.go).                                          *)
(*                                                                         *)
(* Every node runs the same pipeline: Group.Get looks in the local cache;  *)
(* on a miss the single-flight coalescer (singleflight.Group.Do) elects    *)
(* one leader per key that classifies the key with recordAccess, fetches  *)
(* it from peers (one owner for a cold key, a race of several peers for a *)
(* hot key), and otherwise calls the source getter and populates the      *)
(* local cache.  A hot key loaded from the source is pushed to backup      *)
(* peers by PUT requests.  A peer GET is served by the full Group.Get of   *)
(* the receiving node, so requests form trees across nodes.               *)
(*                                                                         *)
(* A request is one goroutine executing Group.Get; its program counter    *)
(* names the point of Group.Get / Group.load where it is blocked.         *)
(*                                                                         *)
(* cmd/main.go serves the /api endpoint before startCacheServer calls      *)
(* Group.RegisterPeers: until a node has registered, its Gets load         *)
(* locally and it refuses the connections of its peers.                   *)
(***************************************************************************)
EXTENDS Integers, FiniteSets, Sequences, SequencesExt, BagsExt

CONSTANTS
  Nodes,            \* base URLs of the cache nodes (HTTPPool.self)
  Keys,             \* keys clients ask for
  Stored,           \* keys the source getter (the user's DB) can load
  PeerSet,          \* [Nodes -> SUBSET Nodes]: the list each node passed to HTTPPool.Set
  RingOwner(_, _),  \* consistenthash.Map.Get: the owner of a key in a ring built from a peer set
  Threshold,        \* hotSpot.threshold
  BackupCount,      \* hotSpot.backupCount
  Unreliable,       \* peer RPCs (GET and PUT) may fail in transport
  MaxGets,          \* bound: client calls of Group.Get
  MaxReqs,          \* bound: goroutines executing Group.Get, client and server side
  MaxTicks,         \* bound: times the 10 minute clean interval elapses
  NoValue,          \* sentinel: no cache entry
  None,             \* sentinel: no leader / empty result channel
  ErrResult,        \* a Get that returned a non-nil error
  EmptyView         \* ByteView{}: the zero value of a ByteView

ASSUME Stored \subseteq Keys
ASSUME PeerSet \in [Nodes -> SUBSET Nodes]
ASSUME \A S \in SUBSET Nodes \ {{}}, k \in Keys : RingOwner(S, k) \in S
ASSUME Unreliable \in BOOLEAN
ASSUME Threshold \in Nat /\ BackupCount \in Int
ASSUME {MaxGets, MaxReqs, MaxTicks} \subseteq Nat

VARIABLES
  cache,        \* [Nodes -> [Keys -> value or NoValue]]: g.mainCache
  hits,         \* [Nodes -> Nat]: g.stats.hits
  misses,       \* [Nodes -> Nat]: g.stats.misses
  accessCount,  \* [Nodes -> function from a set of keys to Nat]: g.hotSpot.accessCount
  hotKeys,      \* [Nodes -> SUBSET Keys]: g.hotSpot.hotKeys
  cleanDue,     \* [Nodes -> BOOLEAN]: time.Since(lastCleanTime) > 10*time.Minute
  cleaners,     \* [Nodes -> Nat]: spawned CleanExpiredHotSpot goroutines not yet run
  flight,       \* [Nodes -> [Keys -> request id or None]]: singleflight.Group.m
  reqs,         \* sequence of requests (goroutines running Group.Get), by id
  syncs,        \* bag of <<node, key>>: syncToBackupPeers goroutines not yet run
  puts,         \* bag of <<peer, key>>: PUT requests (httpGetter.Set) in flight
  ticks,        \* number of Tick steps taken (bounded by MaxTicks)
  registered    \* nodes whose Group has its PeerPicker (g.peers != nil) and
                \* whose HTTP server is listening

vars == <<cache, hits, misses, accessCount, hotKeys, cleanDue, cleaners,
          flight, reqs, syncs, puts, ticks, registered>>

(* The bytes the source getter returns for a stored key.                   *)
SourceValue(k) == <<"value", k>>
Values == {SourceValue(k) : k \in Keys} \cup {EmptyView}

ReqIds == 1..MaxReqs
PCs == {"get", "wait", "leader", "peer", "race", "local", "done"}

(* A new goroutine entering Group.Get(k) on node n; parent is the request *)
(* whose peer RPC this serves (0 for a client call).                       *)
NewReq(n, k, p) ==
  [node |-> n, key |-> k, pc |-> "get", parent |-> p, leader |-> 0,
   hot |-> FALSE, callee |-> 0, subs |-> {}, buf |-> None, res |-> None]

Req == [node : Nodes, key : Keys, pc : PCs, parent : 0..MaxReqs,
        leader : 0..MaxReqs, hot : BOOLEAN, callee : 0..MaxReqs,
        subs : SUBSET ReqIds, buf : Values \cup {None},
        res : Values \cup {ErrResult, None}]

-----------------------------------------------------------------------------
(***************************************************************************)
(* Peer selection (HTTPPool.PickPeer, HTTPPool.PickPeers).                 *)
(***************************************************************************)

(* Variant of PickPeer without the peer != p.self test: a node may pick   *)
(* itself and call its own server.                                         *)
PickPeerWithSelf(n, k) ==
  IF PeerSet[n] = {} THEN {} ELSE {RingOwner(PeerSet[n], k)}

(* PickPeer: the owner of k in n's ring, when the ring exists and the     *)
(* owner is not n itself; otherwise no peer (ok = false).                  *)
PickPeer(n, k) ==
  IF PeerSet[n] = {} THEN {}
  ELSE LET owner == RingOwner(PeerSet[n], k)
       IN IF owner = n THEN {} ELSE {owner}

(* PickPeers: every result the random choice of rand.Intn can produce.    *)
(* The empty set stands for ok = false.  When more than count non-self    *)
(* peers exist, the main peer is taken and count-1 draws without          *)
(* replacement are made from all non-self peers, a draw of the main peer  *)
(* adding nothing.                                                         *)
PickPeers(n, k, count) ==
  IF PeerSet[n] = {} THEN {{}}
  ELSE LET mainPeer == RingOwner(PeerSet[n], k)
           available == PeerSet[n] \ {n}
       IN IF mainPeer = n THEN {{}}
          ELSE IF Cardinality(available) <= count THEN {available}
          ELSE {{mainPeer} \cup drawn :
                  drawn \in kSubset(IF count >= 1 THEN count - 1 ELSE 0, available)}

-----------------------------------------------------------------------------
(***************************************************************************)
(* Hot-spot tracker (Group.recordAccess, Group.CleanExpiredHotSpot).      *)
(***************************************************************************)

CountOf(n, k) == IF k \in DOMAIN accessCount[n] THEN accessCount[n][k] ELSE 0

(* The value recordAccess(k) returns on node n.                            *)
AccessIsHot(n, k) == k \in hotKeys[n] \/ CountOf(n, k) + 1 >= Threshold

(* The state change of recordAccess(k): an already hot key is returned at  *)
(* once; otherwise its count is incremented and it turns hot at the       *)
(* threshold; a cold access after the clean interval spawns a cleaner.    *)
RecordAccess(n, k) ==
  \/ /\ k \in hotKeys[n]
     /\ UNCHANGED <<accessCount, hotKeys, cleanDue, cleaners>>
  \/ /\ k \notin hotKeys[n]
     /\ accessCount' = [accessCount EXCEPT ![n] = (k :> CountOf(n, k) + 1) @@ @]
     /\ \/ /\ CountOf(n, k) + 1 >= Threshold
           /\ hotKeys' = [hotKeys EXCEPT ![n] = @ \cup {k}]
           /\ UNCHANGED <<cleanDue, cleaners>>
        \/ /\ CountOf(n, k) + 1 < Threshold
           /\ UNCHANGED hotKeys
           /\ IF cleanDue[n]
                THEN /\ cleanDue' = [cleanDue EXCEPT ![n] = FALSE]
                     /\ cleaners' = [cleaners EXCEPT ![n] = @ + 1]
                ELSE UNCHANGED <<cleanDue, cleaners>>

(* Variant of the cleaning that halves the counts but keeps the old hot    *)
(* set instead of recomputing it.                                          *)
CleanKeepingHotSet(n) ==
  LET ac == [k \in {k \in DOMAIN accessCount[n] :
                      k \in hotKeys[n] \/ accessCount[n][k] > Threshold \div 2}
               |-> accessCount[n][k] \div 2]
  IN /\ accessCount' = [accessCount EXCEPT ![n] = ac]
     /\ UNCHANGED hotKeys
     /\ cleanDue' = [cleanDue EXCEPT ![n] = FALSE]

(* CleanExpiredHotSpot: keep hot keys and keys above threshold/2, halving *)
(* their counts, then recompute the hot set from the halved counts.       *)
Decayed(n) ==
  LET ac == accessCount[n]
      kept == {k \in DOMAIN ac : k \in hotKeys[n] \/ ac[k] > Threshold \div 2}
  IN [k \in kept |-> ac[k] \div 2]

CleanExpiredHotSpot(n) ==
  LET ac == Decayed(n)
  IN /\ accessCount' = [accessCount EXCEPT ![n] = ac]
     /\ hotKeys' = [hotKeys EXCEPT ![n] = {k \in DOMAIN ac : ac[k] >= Threshold}]
     /\ cleanDue' = [cleanDue EXCEPT ![n] = FALSE]

-----------------------------------------------------------------------------
(***************************************************************************)
(* Helpers shared by the steps of a request.                               *)
(***************************************************************************)

(* mainCache.add: insert or replace k; the byte budget may evict any other *)
(* entries (their sizes are abstracted away).                              *)
CacheAdd(n, k, v) ==
  \E evicted \in SUBSET (Keys \ {k}) :
    cache' = [cache EXCEPT ![n] = [j \in Keys |->
                IF j = k THEN v ELSE IF j \in evicted THEN NoValue ELSE @[j]]]

(* Request r returns v.  A server request's value reaches its caller: a   *)
(* successful answer to a racing getFromPeers goroutine is sent on the    *)
(* one-slot resultChan if the race still waits and the slot is empty.     *)
Finished(r, v) ==
  LET p == reqs[r].parent
      IntoRace(i) == /\ i = p
                     /\ reqs[p].pc = "race"
                     /\ reqs[p].buf = None
                     /\ v # ErrResult
  IN [i \in DOMAIN reqs |->
        IF i = r THEN [reqs[r] EXCEPT !.pc = "done", !.res = v]
        ELSE IF IntoRace(i) THEN [reqs[i] EXCEPT !.buf = v]
        ELSE reqs[i]]

(* singleflight: after fn returns, the leader's entry leaves the map.      *)
LeaveFlight(r) ==
  flight' = [flight EXCEPT ![reqs[r].node][reqs[r].key] = None]

(* Server-side Group.Get goroutines for the peers in targets, as far as    *)
(* their RPCs are delivered; each is appended to reqs.  An RPC to a node  *)
(* whose server is not listening yet is refused at once.  Ids of the new  *)
(* requests are returned by ChildIds.                                      *)
Deliverable(targets) ==
  LET up == targets \cap registered IN
  {d \in SUBSET up :
     /\ Len(reqs) + Cardinality(d) <= MaxReqs
     /\ (Unreliable \/ d = up \/ Len(reqs) + Cardinality(up) > MaxReqs)}

ChildIds(d) == (Len(reqs) + 1)..(Len(reqs) + Cardinality(d))

Children(r, d) ==
  LET s == SetToSeq(d)
  IN [i \in 1..Len(s) |-> NewReq(s[i], reqs[r].key, r)]

Bump(f, n) == [f EXCEPT ![n] = @ + 1]

-----------------------------------------------------------------------------
(***************************************************************************)
(* Steps.                                                                  *)
(***************************************************************************)

Init ==
  /\ cache = [n \in Nodes |-> [k \in Keys |-> NoValue]]
  /\ hits = [n \in Nodes |-> 0]
  /\ misses = [n \in Nodes |-> 0]
  /\ accessCount = [n \in Nodes |-> <<>>]
  /\ hotKeys = [n \in Nodes |-> {}]
  /\ cleanDue = [n \in Nodes |-> FALSE]
  /\ cleaners = [n \in Nodes |-> 0]
  /\ flight = [n \in Nodes |-> [k \in Keys |-> None]]
  /\ reqs = <<>>
  /\ syncs = EmptyBag
  /\ puts = EmptyBag
  /\ ticks = 0
  /\ registered = {}

(* A client (the API handler) calls Group.Get(k) on node n.                *)
ClientGet(n, k) ==
  /\ Cardinality({i \in DOMAIN reqs : reqs[i].parent = 0}) < MaxGets
  /\ Len(reqs) < MaxReqs
  /\ reqs' = Append(reqs, NewReq(n, k, 0))
  /\ UNCHANGED <<cache, hits, misses, accessCount, hotKeys, cleanDue,
                 cleaners, flight, syncs, puts, ticks, registered>>

(* Group.Get, hit: count the hit, record the access, return the entry.     *)
GetHit(r) ==
  LET n == reqs[r].node  k == reqs[r].key IN
  /\ reqs[r].pc = "get"
  /\ cache[n][k] # NoValue
  /\ hits' = Bump(hits, n)
  /\ RecordAccess(n, k)
  /\ reqs' = Finished(r, cache[n][k])
  /\ UNCHANGED <<cache, misses, flight, syncs, puts, ticks, registered>>

(* Group.Get, miss: count the miss and enter g.loader.Do(key): join the    *)
(* call in flight for the key, or become its leader.                       *)
GetMiss(r) ==
  LET n == reqs[r].node  k == reqs[r].key IN
  /\ reqs[r].pc = "get"
  /\ cache[n][k] = NoValue
  /\ misses' = Bump(misses, n)
  /\ \/ /\ flight[n][k] # None
        /\ reqs' = [reqs EXCEPT ![r].pc = "wait", ![r].leader = flight[n][k]]
        /\ UNCHANGED flight
     \/ /\ flight[n][k] = None
        /\ flight' = [flight EXCEPT ![n][k] = r]
        /\ reqs' = [reqs EXCEPT ![r].pc = "leader"]
  /\ UNCHANGED <<cache, hits, accessCount, hotKeys, cleanDue, cleaners,
                 syncs, puts, ticks, registered>>

(* The leader runs the loader function of Group.load: recordAccess        *)
(* classifies the key; a hot key is raced on the peers of PickPeers, a     *)
(* cold key is asked of the owner PickPeer names; with no peer chosen, or *)
(* every RPC failing at once, it goes on to the source.                   *)
Lead(r) ==
  LET n == reqs[r].node  k == reqs[r].key  hot == AccessIsHot(n, k) IN
  /\ reqs[r].pc = "leader"
  /\ RecordAccess(n, k)
  /\ \/ /\ n \notin registered
        /\ reqs' = [reqs EXCEPT ![r].pc = "local", ![r].hot = hot]
     \/ /\ n \in registered /\ hot
        /\ \E chosen \in PickPeers(n, k, BackupCount) :
             \/ /\ chosen = {}
                /\ reqs' = [reqs EXCEPT ![r].pc = "local", ![r].hot = TRUE]
             \/ /\ chosen # {}
                /\ \E d \in Deliverable(chosen) :
                     reqs' = [reqs EXCEPT ![r].pc = "race", ![r].hot = TRUE,
                                          ![r].subs = ChildIds(d)]
                             \o Children(r, d)
     \/ /\ n \in registered /\ ~hot
        /\ \/ /\ PickPeer(n, k) = {}
              /\ reqs' = [reqs EXCEPT ![r].pc = "local"]
           \/ /\ PickPeer(n, k) # {}
              /\ \E d \in Deliverable(PickPeer(n, k)) :
                   IF d = {}
                     THEN reqs' = [reqs EXCEPT ![r].pc = "local"]
                     ELSE reqs' = [reqs EXCEPT ![r].pc = "peer",
                                               ![r].callee = Len(reqs) + 1]
                                  \o Children(r, d)
  /\ UNCHANGED <<cache, hits, misses, flight, syncs, puts, ticks, registered>>

(* getFromPeer returns: a value ends the load, an error (the peer's 500)   *)
(* falls through to the source.                                            *)
PeerReturn(r) ==
  LET c == reqs[r].callee IN
  /\ reqs[r].pc = "peer"
  /\ reqs[c].pc = "done"
  /\ \/ /\ reqs[c].res # ErrResult
        /\ reqs' = Finished(r, reqs[c].res)
        /\ LeaveFlight(r)
     \/ /\ reqs[c].res = ErrResult
        /\ reqs' = [reqs EXCEPT ![r].pc = "local"]
        /\ UNCHANGED flight
  /\ UNCHANGED <<cache, hits, misses, accessCount, hotKeys, cleanDue,
                 cleaners, syncs, puts, ticks, registered>>

(* getFromPeers: the select receives the value in resultChan.              *)
RaceWin(r) ==
  /\ reqs[r].pc = "race"
  /\ reqs[r].buf # None
  /\ reqs' = Finished(r, reqs[r].buf)
  /\ LeaveFlight(r)
  /\ UNCHANGED <<cache, hits, misses, accessCount, hotKeys, cleanDue,
                 cleaners, syncs, puts, ticks, registered>>

(* getFromPeers: every goroutine finished without a value, wg.Wait()       *)
(* returned and resultChan was closed; the receive from the closed        *)
(* channel yields ByteView{} with a nil error.                             *)
RaceClosed(r) ==
  /\ reqs[r].pc = "race"
  /\ reqs[r].buf = None
  /\ \A c \in reqs[r].subs : reqs[c].pc = "done"
  /\ reqs' = Finished(r, EmptyView)
  /\ LeaveFlight(r)
  /\ UNCHANGED <<cache, hits, misses, accessCount, hotKeys, cleanDue,
                 cleaners, syncs, puts, ticks, registered>>

(* getFromPeers: time.After(500ms) fires; the error makes the load fall    *)
(* through to the source.                                                  *)
RaceTimeout(r) ==
  /\ reqs[r].pc = "race"
  /\ reqs' = [reqs EXCEPT ![r].pc = "local"]
  /\ UNCHANGED <<cache, hits, misses, accessCount, hotKeys, cleanDue,
                 cleaners, flight, syncs, puts, ticks, registered>>

(* Variant of getLocally that wraps the getter's result in a ByteView and  *)
(* caches it before looking at the error.                                  *)
LoadLocalCachingErrors(r) ==
  LET n == reqs[r].node  k == reqs[r].key
      nsync == (IF n \in registered /\ k \in hotKeys[n] THEN 1 ELSE 0)
               + (IF n \in registered /\ reqs[r].hot THEN 1 ELSE 0)
  IN
  /\ reqs[r].pc = "local"
  /\ LeaveFlight(r)
  /\ \/ /\ k \in Stored
        /\ CacheAdd(n, k, SourceValue(k))
        /\ syncs' = IF nsync = 0 THEN syncs
                    ELSE syncs (+) [t \in {<<n, k>>} |-> nsync]
        /\ reqs' = Finished(r, SourceValue(k))
     \/ /\ k \notin Stored
        /\ CacheAdd(n, k, EmptyView)
        /\ reqs' = Finished(r, ErrResult)
        /\ UNCHANGED syncs
  /\ UNCHANGED <<hits, misses, accessCount, hotKeys, cleanDue, cleaners,
                 puts, ticks, registered>>

(* getLocally: the getter's bytes go into the local cache; populateCache   *)
(* spawns syncToBackupPeers if the key is hot now, and load spawns it      *)
(* again if recordAccess found the key hot.  A getter error is returned.   *)
LoadLocal(r) ==
  LET n == reqs[r].node  k == reqs[r].key
      nsync == (IF n \in registered /\ k \in hotKeys[n] THEN 1 ELSE 0)
               + (IF n \in registered /\ reqs[r].hot THEN 1 ELSE 0)
  IN
  /\ reqs[r].pc = "local"
  /\ LeaveFlight(r)
  /\ \/ /\ k \in Stored
        /\ CacheAdd(n, k, SourceValue(k))
        /\ syncs' = IF nsync = 0 THEN syncs
                    ELSE syncs (+) [t \in {<<n, k>>} |-> nsync]
        /\ reqs' = Finished(r, SourceValue(k))
     \/ /\ k \notin Stored
        /\ reqs' = Finished(r, ErrResult)
        /\ UNCHANGED <<cache, syncs>>
  /\ UNCHANGED <<hits, misses, accessCount, hotKeys, cleanDue, cleaners,
                 puts, ticks, registered>>

(* Variant of the coalescer that releases its waiters only when the call  *)
(* succeeded.                                                              *)
WaitReturnOnSuccess(r) ==
  LET l == reqs[r].leader IN
  /\ reqs[r].pc = "wait"
  /\ reqs[l].pc = "done"
  /\ reqs[l].res # ErrResult
  /\ reqs' = Finished(r, reqs[l].res)
  /\ UNCHANGED <<cache, hits, misses, accessCount, hotKeys, cleanDue,
                 cleaners, flight, syncs, puts, ticks, registered>>

(* A caller that joined a call in flight returns the leader's result.      *)
WaitReturn(r) ==
  LET l == reqs[r].leader IN
  /\ reqs[r].pc = "wait"
  /\ reqs[l].pc = "done"
  /\ reqs' = Finished(r, reqs[l].res)
  /\ UNCHANGED <<cache, hits, misses, accessCount, hotKeys, cleanDue,
                 cleaners, flight, syncs, puts, ticks, registered>>

(* A syncToBackupPeers goroutine picks backup peers and sends each a PUT.  *)
SyncToBackupPeers(t) ==
  /\ BagIn(t, syncs)
  /\ syncs' = BagRemove(syncs, t)
  /\ \E chosen \in PickPeers(t[1], t[2], BackupCount) :
       puts' = puts (+) [p \in {<<m, t[2]>> : m \in chosen} |-> 1]
  /\ UNCHANGED <<cache, hits, misses, accessCount, hotKeys, cleanDue,
                 cleaners, flight, reqs, ticks, registered>>

(* ServeHTTP, PUT: the decoded value is added to the peer's cache.         *)
ServePut(t) ==
  /\ t[1] \in registered
  /\ BagIn(t, puts)
  /\ puts' = BagRemove(puts, t)
  /\ CacheAdd(t[1], t[2], SourceValue(t[2]))
  /\ UNCHANGED <<hits, misses, accessCount, hotKeys, cleanDue, cleaners,
                 flight, reqs, syncs, ticks, registered>>

(* httpGetter.Set fails in transport, or is refused by a node not         *)
(* listening yet; the error is only logged.                               *)
PutLost(t) ==
  /\ Unreliable \/ t[1] \notin registered
  /\ BagIn(t, puts)
  /\ puts' = BagRemove(puts, t)
  /\ UNCHANGED <<cache, hits, misses, accessCount, hotKeys, cleanDue,
                 cleaners, flight, reqs, syncs, ticks, registered>>

(* A node starts its cache server (startCacheServer in cmd/main.go):       *)
(* HTTPPool.Set, Group.RegisterPeers, then ListenAndServe.  Until then    *)
(* its Group (already serving the API) has no peers.                      *)
RegisterPeers(n) ==
  /\ n \notin registered
  /\ registered' = registered \cup {n}
  /\ UNCHANGED <<cache, hits, misses, accessCount, hotKeys, cleanDue,
                 cleaners, flight, reqs, syncs, puts, ticks>>

(* Ten minutes pass since node n's lastCleanTime.                          *)
Tick(n) ==
  /\ ticks < MaxTicks
  /\ ~cleanDue[n]
  /\ cleanDue' = [cleanDue EXCEPT ![n] = TRUE]
  /\ ticks' = ticks + 1
  /\ UNCHANGED <<cache, hits, misses, accessCount, hotKeys, cleaners,
                 flight, reqs, syncs, puts, registered>>

(* Variant of Clean that runs without a spawned goroutine to account for. *)
CleanUnguarded(n) ==
  /\ cleaners' = [cleaners EXCEPT ![n] = @ - 1]
  /\ CleanExpiredHotSpot(n)
  /\ UNCHANGED <<cache, hits, misses, flight, reqs, syncs, puts, ticks, registered>>

(* A goroutine spawned by recordAccess runs CleanExpiredHotSpot.           *)
Clean(n) ==
  /\ cleaners[n] > 0
  /\ cleaners' = [cleaners EXCEPT ![n] = @ - 1]
  /\ CleanExpiredHotSpot(n)
  /\ UNCHANGED <<cache, hits, misses, flight, reqs, syncs, puts, ticks, registered>>

(* The bounded workload is over and no goroutine is left.                  *)
Quiescent ==
  /\ \A i \in DOMAIN reqs : reqs[i].pc = "done"
  /\ syncs = EmptyBag /\ puts = EmptyBag
  /\ \A n \in Nodes : cleaners[n] = 0

Idle == Quiescent /\ UNCHANGED vars

RequestStep(r) ==
  \/ GetHit(r) \/ GetMiss(r) \/ Lead(r) \/ PeerReturn(r) \/ RaceWin(r)
  \/ RaceClosed(r) \/ RaceTimeout(r) \/ LoadLocal(r) \/ WaitReturn(r)

Next ==
  \/ \E n \in Nodes, k \in Keys : ClientGet(n, k)
  \/ \E r \in DOMAIN reqs : RequestStep(r)
  \/ \E t \in DOMAIN syncs : SyncToBackupPeers(t)
  \/ \E t \in DOMAIN puts : ServePut(t) \/ PutLost(t)
  \/ \E n \in Nodes : RegisterPeers(n) \/ Tick(n) \/ Clean(n)
  \/ Idle

(* Goroutines are scheduled by the Go runtime and the 500ms timer fires:  *)
(* every step of a started goroutine is weakly fair, and so is each node's *)
(* start-up reaching RegisterPeers.  Client arrivals and the passage of    *)
(* time are not.                                                           *)
Fairness ==
  /\ \A r \in ReqIds : WF_vars(r \in DOMAIN reqs /\ RequestStep(r))
  /\ WF_vars(\E t \in DOMAIN syncs : SyncToBackupPeers(t))
  /\ WF_vars(\E t \in DOMAIN puts : ServePut(t) \/ PutLost(t))
  /\ \A n \in Nodes : WF_vars(Clean(n)) /\ WF_vars(RegisterPeers(n))

Spec == Init /\ [][Next]_vars /\ Fairness

-----------------------------------------------------------------------------
(***************************************************************************)
(* Properties.                                                             *)
(***************************************************************************)

TypeOK ==
  /\ cache \in [Nodes -> [Keys -> Values \cup {NoValue}]]
  /\ hits \in [Nodes -> Nat] /\ misses \in [Nodes -> Nat]
  /\ \A n \in Nodes : DOMAIN accessCount[n] \subseteq Keys
                      /\ \A k \in DOMAIN accessCount[n] : accessCount[n][k] \in Nat
  /\ hotKeys \in [Nodes -> SUBSET Keys]
  /\ cleanDue \in [Nodes -> BOOLEAN] /\ cleaners \in [Nodes -> Nat]
  /\ flight \in [Nodes -> [Keys -> ReqIds \cup {None}]]
  /\ Len(reqs) <= MaxReqs /\ \A i \in DOMAIN reqs : reqs[i] \in Req
  /\ DOMAIN syncs \subseteq Nodes \X Keys /\ DOMAIN puts \subseteq Nodes \X Keys
  /\ ticks \in 0..MaxTicks
  /\ registered \subseteq Nodes

(* No node ever caches a value the source did not produce: local loads    *)
(* (getLocally/populateCache) and backup pushes (ServeHTTP PUT) install   *)
(* only getter bytes, and whatever a peer fetch or a failed race returns   *)
(* is never written to the cache.                                          *)
CacheHoldsSourceValues ==
  \A n \in Nodes, k \in Keys :
    cache[n][k] \in {NoValue} \cup {SourceValue(j) : j \in Stored \cap {k}}

(* The hot-spot tracker's rule: on each node a key is hot exactly when     *)
(* its recorded access count has reached the threshold, after any mix of   *)
(* recordAccess calls (hits and loads) and asynchronous cleanings.         *)
HotIffOverThreshold ==
  \A n \in Nodes :
    /\ hotKeys[n] \subseteq DOMAIN accessCount[n]
    /\ \A k \in DOMAIN accessCount[n] :
         k \in hotKeys[n] <=> accessCount[n][k] >= Threshold

(* Every Group.Get, a client's or one serving a peer, eventually returns: *)
(* no chain of peer requests and single-flight waits blocks for ever.     *)
AllGetsReturn ==
  \A i \in ReqIds :
    i \in DOMAIN reqs ~> i \in DOMAIN reqs /\ reqs[i].pc = "done"

(* A Get that succeeds returns the bytes the source holds for the key     *)
(* (spec: a failed race falls through to the source loader; loader errors *)
(* are returned to the caller).                                            *)
GetReturnsSourceValue ==
  \A i \in DOMAIN reqs :
    reqs[i].pc = "done" /\ reqs[i].res # ErrResult =>
      /\ reqs[i].key \in Stored
      /\ reqs[i].res = SourceValue(reqs[i].key)

=============================================================================

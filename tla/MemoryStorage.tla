---------------------------- MODULE MemoryStorage ----------------------------
(***************************************************************************)
(* The in-memory storage engine (src/storage/memory.go): a map guarded by *)
(* a sync.RWMutex, a byte counter kept against MaxSize, per-key expiry     *)
(* times, and a cleanup goroutine that a ticker wakes every               *)
(* cleanupInterval and that stopCleanupTimer stops over an unbuffered     *)
(* channel.                                                                *)
(*                                                                         *)
(* Clients are goroutines calling the Storage methods.  A method that      *)
(* takes the write lock and never waits while holding it is one step; the *)
(* read methods (Get, Has), which write the map under the read lock, and   *)
(* Close, which sends on a channel while holding the write lock, are      *)
(* split at those points.  A value is represented by its length, the only *)
(* thing the size accounting sees.                                         *)
(***************************************************************************)
EXTENDS Integers, FiniteSets, Functions, TLC

CONSTANTS
  Clients,      \* goroutines calling the storage
  Keys,         \* keys they use
  Lens,         \* lengths of the values they store
  KeyLen,       \* len(key) of every key
  MaxSize,      \* options.MaxSize (0: unlimited)
  Expires,      \* expire durations passed to SetWithExpire (0: none, Set)
  MaxTime,      \* bound: the clock
  MaxOps,       \* bound: method calls
  None          \* no lock holder

ASSUME Lens \subseteq Nat \ {0} /\ KeyLen \in Nat \ {0}
ASSUME MaxSize \in Nat /\ Expires \subseteq Nat /\ {MaxTime, MaxOps} \subseteq Nat

VARIABLES
  data,            \* s.data, a function from the stored keys to value lengths
  expiries,        \* s.expiries, a function from keys to expiry times
  size,            \* s.size
  cleanupRunning,  \* s.cleanupRunning
  cleaner,         \* the cleanup goroutine: "select", "lock" (ticker fired) or "exited"
  writer,          \* holder of s.mu's write lock, or None
  readers,         \* holders of s.mu's read lock
  pc,              \* [Clients -> point in the method being executed]
  arg,             \* [Clients -> the key of the read in progress]
  now,             \* time.Now(), a discrete clock
  ops              \* number of method calls made

vars == <<data, expiries, size, cleanupRunning, cleaner, writer, readers,
          pc, arg, now, ops>>

PCs == {"idle", "get", "has", "keys", "expire", "close", "close_send", "close_clear"}

(* Bytes an entry counts for: len(key) + len(value).                       *)
EntrySize(len) == KeyLen + len

(* The map minus key k (Go's delete).                                      *)
Without(f, k) == Restrict(f, DOMAIN f \ {k})

LockFree == writer = None /\ readers = {}

(* time.Now().After(expiry) for a key with an expiry time.                 *)
Expired(k) == k \in DOMAIN expiries /\ now > expiries[k]

Call(c) ==
  /\ pc[c] = "idle"
  /\ ops < MaxOps
  /\ ops' = ops + 1

-----------------------------------------------------------------------------
(* NewMemoryStorage: empty maps, and startCleanupTimer (cleanupInterval is *)
(* 5 minutes, so the goroutine is started).                               *)
Init ==
  /\ data = <<>> /\ expiries = <<>> /\ size = 0
  /\ cleanupRunning = TRUE /\ cleaner = "select"
  /\ writer = None /\ readers = {}
  /\ pc = [c \in Clients |-> "idle"] /\ arg = [c \in Clients |-> CHOOSE k \in Keys : TRUE]
  /\ now = 0 /\ ops = 0

(* Get, Has or Keys: take the read lock.                                   *)
ReadLock(c, k, m) ==
  /\ Call(c)
  /\ writer = None
  /\ readers' = readers \cup {c}
  /\ pc' = [pc EXCEPT ![c] = m]
  /\ arg' = [arg EXCEPT ![c] = k]
  /\ UNCHANGED <<data, expiries, size, cleanupRunning, cleaner, writer, now>>

(* Variant of the read that releases the read lock before deleting an    *)
(* expired key.                                                            *)
ReadBodyUnlocking(c) ==
  /\ pc[c] \in {"get", "has"}
  /\ readers' = readers \ {c}
  /\ pc' = [pc EXCEPT ![c] = IF Expired(arg[c]) THEN "expire" ELSE "idle"]
  /\ UNCHANGED <<data, expiries, size, cleanupRunning, cleaner, writer, arg,
                 now, ops>>

(* Get or Has under the read lock: a live or absent key is answered and   *)
(* the lock released; an expired key goes on to be deleted.                *)
ReadBody(c) ==
  /\ pc[c] \in {"get", "has"}
  /\ IF Expired(arg[c])
       THEN /\ pc' = [pc EXCEPT ![c] = "expire"]
            /\ UNCHANGED readers
       ELSE /\ pc' = [pc EXCEPT ![c] = "idle"]
            /\ readers' = readers \ {c}
  /\ UNCHANGED <<data, expiries, size, cleanupRunning, cleaner, writer, arg,
                 now, ops>>

(* Get or Has, expired key: delete(s.data, key), delete(s.expiries, key)   *)
(* while holding only the read lock; s.size is left as it was.            *)
ReadExpire(c) ==
  LET k == arg[c] IN
  /\ pc[c] = "expire"
  /\ data' = Without(data, k)
  /\ expiries' = Without(expiries, k)
  /\ readers' = readers \ {c}
  /\ pc' = [pc EXCEPT ![c] = "idle"]
  /\ UNCHANGED <<size, cleanupRunning, cleaner, writer, arg, now, ops>>

(* Keys under the read lock: the map is iterated, skipping expired keys   *)
(* (the result is not modelled), and the lock released.                    *)
KeysBody(c) ==
  /\ pc[c] = "keys"
  /\ readers' = readers \ {c}
  /\ pc' = [pc EXCEPT ![c] = "idle"]
  /\ UNCHANGED <<data, expiries, size, cleanupRunning, cleaner, writer, arg,
                 now, ops>>

(* Variant of the limit check that compares only the new entry's size.    *)
SetWithExpireEntryOnly(c, k, len, e) ==
  /\ Call(c)
  /\ LockFree
  /\ \/ /\ MaxSize > 0 /\ EntrySize(len) > MaxSize
        /\ UNCHANGED <<data, expiries, size>>
     \/ /\ MaxSize = 0 \/ EntrySize(len) <= MaxSize
        /\ size' = IF MaxSize > 0 THEN size + EntrySize(len) ELSE size
        /\ data' = (k :> len) @@ data
        /\ expiries' = IF e > 0 THEN (k :> now + e) @@ expiries
                       ELSE Without(expiries, k)
  /\ UNCHANGED <<cleanupRunning, cleaner, writer, readers, pc, arg, now>>

(* SetWithExpire (Set is SetWithExpire with 0), under the write lock.  With *)
(* a limit, the old entry's bytes are subtracted first; if the new total  *)
(* exceeds MaxSize the call fails, keeping the subtracted size.            *)
SetWithExpire(c, k, len, e) ==
  LET base == IF k \in DOMAIN data THEN size - EntrySize(data[k]) ELSE size
      newSize == base + EntrySize(len)
  IN
  /\ Call(c)
  /\ LockFree
  /\ \/ /\ MaxSize > 0 /\ newSize > MaxSize
        /\ size' = base
        /\ UNCHANGED <<data, expiries>>
     \/ /\ MaxSize = 0 \/ newSize <= MaxSize
        /\ size' = IF MaxSize > 0 THEN newSize ELSE size
        /\ data' = (k :> len) @@ data
        /\ expiries' = IF e > 0 THEN (k :> now + e) @@ expiries
                       ELSE Without(expiries, k)
  /\ UNCHANGED <<cleanupRunning, cleaner, writer, readers, pc, arg, now>>

(* Variant of Delete that stores an empty value (s.data[key] = nil)        *)
(* instead of deleting the key.                                            *)
DeleteNilValue(c, k) ==
  /\ Call(c)
  /\ LockFree
  /\ IF k \in DOMAIN data
       THEN /\ size' = size - EntrySize(data[k])
            /\ data' = [data EXCEPT ![k] = 0]
            /\ expiries' = Without(expiries, k)
       ELSE UNCHANGED <<size, data, expiries>>
  /\ UNCHANGED <<cleanupRunning, cleaner, writer, readers, pc, arg, now>>

(* Variant of Delete that leaves the key's expiry behind.                  *)
DeleteKeepingExpiry(c, k) ==
  /\ Call(c)
  /\ LockFree
  /\ IF k \in DOMAIN data
       THEN /\ size' = size - EntrySize(data[k])
            /\ data' = Without(data, k)
       ELSE UNCHANGED <<size, data>>
  /\ UNCHANGED <<expiries, cleanupRunning, cleaner, writer, readers, pc, arg, now>>

(* Delete, under the write lock.                                           *)
Delete(c, k) ==
  /\ Call(c)
  /\ LockFree
  /\ IF k \in DOMAIN data
       THEN /\ size' = size - EntrySize(data[k])
            /\ data' = Without(data, k)
            /\ expiries' = Without(expiries, k)
       ELSE UNCHANGED <<size, data, expiries>>
  /\ UNCHANGED <<cleanupRunning, cleaner, writer, readers, pc, arg, now>>

(* Clear, under the write lock.                                            *)
Clear(c) ==
  /\ Call(c)
  /\ LockFree
  /\ data' = <<>> /\ expiries' = <<>> /\ size' = 0
  /\ UNCHANGED <<cleanupRunning, cleaner, writer, readers, pc, arg, now>>


(* Close is called.                                                        *)
CloseCall(c) ==
  /\ Call(c)
  /\ pc' = [pc EXCEPT ![c] = "close"]
  /\ UNCHANGED <<data, expiries, size, cleanupRunning, cleaner, writer,
                 readers, arg, now>>

(* stopCleanupTimer takes the write lock; with the goroutine running it    *)
(* goes on to send on stopCleanup while holding the lock, otherwise it     *)
(* unlocks at once.                                                        *)
CloseLock(c) ==
  /\ pc[c] = "close"
  /\ LockFree
  /\ IF cleanupRunning
       THEN /\ writer' = c
            /\ pc' = [pc EXCEPT ![c] = "close_send"]
       ELSE /\ pc' = [pc EXCEPT ![c] = "close_clear"]
            /\ UNCHANGED writer
  /\ UNCHANGED <<data, expiries, size, cleanupRunning, cleaner, readers, arg,
                 now, ops>>

(* s.stopCleanup <- struct{}{}: the unbuffered send completes only when    *)
(* the cleanup goroutine is in its select; then cleanupRunning = false and *)
(* the lock is released.                                                   *)
CloseSend(c) ==
  /\ pc[c] = "close_send"
  /\ cleaner = "select"
  /\ cleaner' = "exited"
  /\ cleanupRunning' = FALSE
  /\ writer' = None
  /\ pc' = [pc EXCEPT ![c] = "close_clear"]
  /\ UNCHANGED <<data, expiries, size, readers, arg, now, ops>>

(* Close then calls Clear, which takes the write lock again.               *)
CloseClear(c) ==
  /\ pc[c] = "close_clear"
  /\ LockFree
  /\ data' = <<>> /\ expiries' = <<>> /\ size' = 0
  /\ pc' = [pc EXCEPT ![c] = "idle"]
  /\ UNCHANGED <<cleanupRunning, cleaner, writer, readers, arg, now, ops>>

(* The ticker fires: the cleanup goroutine leaves its select to call       *)
(* cleanExpired, which waits for the write lock.                           *)
TickerFires ==
  /\ cleaner = "select"
  /\ cleaner' = "lock"
  /\ UNCHANGED <<data, expiries, size, cleanupRunning, writer, readers, pc,
                 arg, now, ops>>

(* cleanExpired, under the write lock: every expired key leaves both maps  *)
(* and the bytes of those still in data are subtracted.                    *)
CleanExpired ==
  LET gone == {k \in DOMAIN expiries : now > expiries[k]}
      freed == {k \in gone : k \in DOMAIN data}
  IN
  /\ cleaner = "lock"
  /\ LockFree
  /\ data' = Restrict(data, DOMAIN data \ gone)
  /\ expiries' = Restrict(expiries, DOMAIN expiries \ gone)
  /\ size' = size - SumFunction([k \in freed |-> EntrySize(data[k])])
  /\ cleaner' = "select"
  /\ UNCHANGED <<cleanupRunning, writer, readers, pc, arg, now, ops>>

(* Time passes.                                                            *)
Advance ==
  /\ now < MaxTime
  /\ now' = now + 1
  /\ UNCHANGED <<data, expiries, size, cleanupRunning, cleaner, writer,
                 readers, pc, arg, ops>>

(* Every call has been made and has returned.                              *)
Finished == ops = MaxOps /\ \A c \in Clients : pc[c] = "idle"

Idle == Finished /\ UNCHANGED vars

Next ==
  \/ \E c \in Clients :
       \/ \E k \in Keys, m \in {"get", "has", "keys"} : ReadLock(c, k, m)
       \/ ReadBody(c) \/ ReadExpire(c) \/ KeysBody(c)
       \/ \E k \in Keys, len \in Lens, e \in Expires : SetWithExpire(c, k, len, e)
       \/ \E k \in Keys : Delete(c, k)
       \/ Clear(c)
       \/ CloseCall(c) \/ CloseLock(c) \/ CloseSend(c) \/ CloseClear(c)
  \/ TickerFires \/ CleanExpired \/ Advance
  \/ Idle

(* A goroutine that has entered a method keeps running it, and the        *)
(* runtime eventually grants a free lock.  The ticker and the clock are not *)
(* assumed to progress.                                                    *)
Fairness ==
  /\ \A c \in Clients : WF_vars(ReadBody(c) \/ ReadExpire(c) \/ KeysBody(c))
  /\ \A c \in Clients : WF_vars(CloseLock(c) \/ CloseSend(c) \/ CloseClear(c))
  /\ WF_vars(CleanExpired)

Spec == Init /\ [][Next]_vars /\ Fairness

-----------------------------------------------------------------------------
TypeOK ==
  /\ DOMAIN data \subseteq Keys /\ \A k \in DOMAIN data : data[k] \in Lens
  /\ DOMAIN expiries \subseteq Keys /\ \A k \in DOMAIN expiries : expiries[k] \in Nat
  /\ size \in Int
  /\ cleanupRunning \in BOOLEAN /\ cleaner \in {"select", "lock", "exited"}
  /\ writer \in Clients \cup {None} /\ readers \subseteq Clients
  /\ pc \in [Clients -> PCs] /\ arg \in [Clients -> Keys]
  /\ now \in 0..MaxTime /\ ops \in 0..MaxOps

(* Every key with an expiry time is a stored key: Delete, the expiring     *)
(* reads and cleanExpired remove the expiry together with the entry.       *)
ExpiriesTrackData == DOMAIN expiries \subseteq DOMAIN data

(* With a limit set, s.size is the number of bytes the stored entries take *)
(* (the accounting SetWithExpire and Delete rely on to enforce MaxSize).   *)
SizeMatchesData ==
  MaxSize > 0 => size = SumFunction([k \in DOMAIN data |-> EntrySize(data[k])])

(* A goroutine that writes the map holds s.mu alone: when Get or Has       *)
(* deletes an expired key, no other goroutine is reading the map under    *)
(* the shared lock (Go aborts on a concurrent map write).                 *)
MapAccessExclusive ==
  \A c \in Clients : pc[c] = "expire" => readers = {c}

(* Only Delete, Clear and the Clear of Close remove a live entry: when a  *)
(* Get or Has deletes the key it found expired, or cleanExpired sweeps,    *)
(* every entry that leaves the map is expired at that moment.  Get and Has *)
(* hold the lock from the expiry check to the delete, so a Set of the key *)
(* in between cannot have its fresh value removed.                         *)
ExpiryDeletesOnlyExpired ==
  [][ (\/ \E c \in Clients : pc[c] = "expire" /\ pc'[c] = "idle"
       \/ cleaner = "lock" /\ cleaner' = "select")
      => \A k \in DOMAIN data \ DOMAIN data' : Expired(k) ]_vars

(* Close returns: stopCleanupTimer's send reaches the cleanup goroutine    *)
(* and Clear gets the lock.                                                *)
CloseReturns ==
  \A c \in Clients : pc[c] = "close" ~> pc[c] = "idle"

=============================================================================

------------------------------ MODULE CppStorage ------------------------------
(***************************************************************************)
(* The Go side of the cgo storage wrapper (src/storage/cpp_storage.go).   *)
(*                                                                         *)
(* A CppStorage holds one C handle.  Every method reads s.handle, returns *)
(* "storage is closed" when it is nil, and otherwise passes the handle to *)
(* a C function.  Close calls storage_close and storage_free on the handle *)
(* and then sets s.handle to nil.  The constructors register Close as the *)
(* finalizer of the *CppStorage: the garbage collector runs it once the    *)
(* object is unreachable.                                                  *)
(*                                                                         *)
(* The C++ engine (cpp/storage_wrapper.h) is not in the repository; it is  *)
(* the lifecycle of the handle: open, closed, freed.  What a C call does  *)
(* with the data, and whether it succeeds, is left open.                  *)
(*                                                                         *)
(* s.handle is read and written without a lock: a read returns the value  *)
(* before or after a concurrent write (one pointer word).                 *)
(***************************************************************************)
EXTENDS Naturals

CONSTANTS
  Clients,      \* goroutines holding the *CppStorage and calling it
  Finalizer,    \* the goroutine that runs finalizers
  MaxCalls      \* bound: method calls by the clients

ASSUME Finalizer \notin Clients

Callers == Clients \cup {Finalizer}

VARIABLES
  handle,       \* s.handle: "live" or "nil"
  engine,       \* the C storage_t it points to: "open", "closed", "freed"
  pc,           \* [Callers -> point of execution]
  op,           \* [Callers -> the method being run]
  reachable,    \* a client still holds the *CppStorage for later calls
  finalizer,    \* "armed", or "run" once the finalizer has been queued
  calls         \* method calls made

vars == <<handle, engine, pc, op, reachable, finalizer, calls>>

Methods == {"data", "close"}   \* Get, Set, SetWithExpire, Delete, Has, Keys, Clear / Close

(* The points after the nil check where the handle read is being used.    *)
InEngine == {"call", "close", "free"}

TypeOK ==
  /\ handle \in {"live", "nil"}
  /\ engine \in {"open", "closed", "freed"}
  /\ pc \in [Callers -> {"idle", "check"} \cup InEngine]
  /\ op \in [Callers -> Methods]
  /\ reachable \in BOOLEAN
  /\ finalizer \in {"armed", "run"}
  /\ calls \in 0..MaxCalls

(* NewCppMemoryStorage (or the LevelDB / RocksDB variants) succeeded: the  *)
(* handle is live and Close is set as the finalizer.                      *)
Init ==
  /\ handle = "live"
  /\ engine = "open"
  /\ pc = [c \in Callers |-> "idle"]
  /\ op = [c \in Callers |-> "close"]
  /\ reachable = TRUE
  /\ finalizer = "armed"
  /\ calls = 0

(* A client calls a method on the storage it still holds.                 *)
Invoke(c, m) ==
  /\ reachable
  /\ pc[c] = "idle"
  /\ calls < MaxCalls
  /\ pc' = [pc EXCEPT ![c] = "check"]
  /\ op' = [op EXCEPT ![c] = m]
  /\ calls' = calls + 1
  /\ UNCHANGED <<handle, engine, reachable, finalizer>>

(* The last use of the storage by the program: no further calls follow.  *)
Drop ==
  /\ reachable
  /\ reachable' = FALSE
  /\ UNCHANGED <<handle, engine, pc, op, finalizer, calls>>

(* `if s.handle == nil`: return an error (nil for Close); otherwise the    *)
(* handle is passed to the C function.  After this read, s itself is no   *)
(* longer used by the method.                                              *)
Check(c) ==
  /\ pc[c] = "check"
  /\ pc' = [pc EXCEPT ![c] =
              IF handle = "nil" THEN "idle"
              ELSE IF op[c] = "close" THEN "close" ELSE "call"]
  /\ UNCHANGED <<handle, engine, op, reachable, finalizer, calls>>

(* storage_get / set / set_with_expire / delete / has / keys / clear on    *)
(* the handle; the Go side copies the result and returns.                  *)
EngineCall(c) ==
  /\ pc[c] = "call"
  /\ pc' = [pc EXCEPT ![c] = "idle"]
  /\ UNCHANGED <<handle, engine, op, reachable, finalizer, calls>>

(* Close: storage_close(s.handle).                                         *)
CloseEngine(c) ==
  /\ pc[c] = "close"
  /\ engine' = IF engine = "freed" THEN "freed" ELSE "closed"
  /\ pc' = [pc EXCEPT ![c] = "free"]
  /\ UNCHANGED <<handle, op, reachable, finalizer, calls>>

(* Close: storage_free(s.handle); s.handle = nil.                          *)
FreeHandle(c) ==
  /\ pc[c] = "free"
  /\ engine' = "freed"
  /\ handle' = "nil"
  /\ pc' = [pc EXCEPT ![c] = "idle"]
  /\ UNCHANGED <<op, reachable, finalizer, calls>>

(* The collector finds the *CppStorage unreachable: no client holds it for *)
(* a later call and none is about to read s.handle.  A client inside a C  *)
(* call does not keep it alive (there is no runtime.KeepAlive(s)).  The   *)
(* finalizer goroutine then runs Close.                                    *)
RunFinalizer ==
  /\ finalizer = "armed"
  /\ ~reachable
  /\ \A c \in Clients : pc[c] # "check"
  /\ finalizer' = "run"
  /\ pc' = [pc EXCEPT ![Finalizer] = "check"]
  /\ op' = [op EXCEPT ![Finalizer] = "close"]
  /\ UNCHANGED <<handle, engine, reachable, calls>>

Next ==
  \/ \E c \in Clients, m \in Methods : Invoke(c, m)
  \/ Drop
  \/ \E c \in Callers :
       Check(c) \/ EngineCall(c) \/ CloseEngine(c) \/ FreeHandle(c)
  \/ RunFinalizer

Spec == Init /\ [][Next]_vars

-----------------------------------------------------------------------------
(* A goroutine that has read a live s.handle and passes it to the C       *)
(* library (a data call, storage_close or storage_free) never does so     *)
(* after another goroutine's Close has freed it: no use after free and no *)
(* double free of the storage_t.                                           *)
EngineNotFreedInUse ==
  \A c \in Callers : pc[c] \in InEngine => engine # "freed"

=============================================================================

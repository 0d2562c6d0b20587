\* One goroutine uses a CppStorage and drops it while its last call is in C.
SPECIFICATION Spec
CONSTANTS
  Clients = {c1}
  Finalizer = fin
  MaxCalls = 2
INVARIANT EngineNotFreedInUse
\* The program stops once the storage is dropped and finalized.
CHECK_DEADLOCK FALSE

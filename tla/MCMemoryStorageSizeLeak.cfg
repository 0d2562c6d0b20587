CONSTANTS
  c1 = c1
  c2 = c2
  k1 = k1
  k2 = k2
  None = None
  Clients <- MCClients
  Keys <- MCKeys
  Lens = {1, 2}
  KeyLen = 1
  MaxSize = 6
  Expires = {0, 1}
  MaxTime = 2
  MaxOps = 3
SPECIFICATION Spec
SYMMETRY ClientSymmetry
\* stopCleanupTimer can block for ever against a cleanup goroutine waiting
\* for the lock (run close_deadlock): the system really may stop.
CHECK_DEADLOCK FALSE
INVARIANT SizeMatchesData

CONSTANTS
  n1 = n1
  n2 = n2
  n3 = n3
  k1 = k1
  k2 = k2
  Nodes <- MCNodes
  Keys = {k1}
  Stored = {}
  PeerSet <- SameViews
  RingOwner <- MCRingOwner
  Threshold = 1
  BackupCount = 2
  Unreliable = FALSE
  MaxGets = 1
  MaxReqs = 3
  MaxTicks = 0
  NoValue = NoValue
  None = None
  ErrResult = ErrResult
  EmptyView = EmptyView
SPECIFICATION Spec
INVARIANT GetReturnsSourceValue

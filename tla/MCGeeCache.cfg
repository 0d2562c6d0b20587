CONSTANTS
  n1 = n1
  n2 = n2
  n3 = n3
  k1 = k1
  k2 = k2
  Nodes <- MCNodes
  Keys = {k1, k2}
  Stored = {k1}
  PeerSet <- SameViews
  RingOwner <- MCRingOwner
  Threshold = 2
  BackupCount = 2
  Unreliable = TRUE
  MaxGets = 2
  MaxReqs = 5
  MaxTicks = 1
  NoValue = NoValue
  None = None
  ErrResult = ErrResult
  EmptyView = EmptyView
SPECIFICATION Spec
INVARIANT TypeOK
INVARIANT CacheHoldsSourceValues
INVARIANT HotIffOverThreshold
PROPERTY AllGetsReturn

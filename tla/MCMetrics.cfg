\* Three goroutines make four Record* calls on two metrics of two kinds.
CONSTANTS
  c1 = c1
  c2 = c2
  c3 = c3
  None = None
  Callers <- MCCallers
  Used <- MCUsed
  MaxCalls = 4

SPECIFICATION Spec

INVARIANT OneVectorPerName
PROPERTY AllCallsReturn

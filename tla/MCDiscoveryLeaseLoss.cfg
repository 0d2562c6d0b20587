CONSTANTS
  n1 = n1
  n2 = n2
  None = None
  Nodes <- MCOneNode
  MaxLosses = 1

SPECIFICATION Spec

\* The keepAlive goroutine blocks for ever in reRegister: the node may stop.
CHECK_DEADLOCK FALSE

PROPERTY ShutdownCompletes

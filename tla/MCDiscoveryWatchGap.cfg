CONSTANTS
  n1 = n1
  n2 = n2
  None = None
  Nodes <- MCOneNode
  MaxLosses = 0

SPECIFICATION Spec


PROPERTY SelfJoinsRing

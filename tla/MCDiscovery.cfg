CONSTANTS
  n1 = n1
  n2 = n2
  None = None
  Nodes <- MCNodes
  MaxLosses = 1

SPECIFICATION Spec

INVARIANT TypeOK
PROPERTY LostRegistrationNoticed

SPECIFICATION Spec
CONSTANTS
  Setups <- MCSetups
  PtrBytes = 4
INVARIANTS
  ArenaSuffices
  ResidueStaysInPlane

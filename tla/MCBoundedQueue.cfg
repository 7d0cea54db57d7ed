SPECIFICATION Spec
CONSTANTS
  T = {a, b}
  Capacity = 3
  MovedFrom = MovedFrom
INVARIANTS
  RingInv
  AccessInBounds
PROPERTIES
  ImplementsFifo

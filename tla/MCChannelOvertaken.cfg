SPECIFICATION Spec
CONSTANTS
  Readers = {r1, r2, r3}
  Writers = {w1, w2, w3}
  Null = Null
  Capacity = 2
  MaxWaiters = 2
  MaxRunQueue = 3
SYMMETRY Symmetry
INVARIANTS
  WokenCallSucceeds

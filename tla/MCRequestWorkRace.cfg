SPECIFICATION Spec
CONSTANTS
  Ops = {o1, o2}
SYMMETRY Symmetry
INVARIANT
  WorkerMemoryAlive

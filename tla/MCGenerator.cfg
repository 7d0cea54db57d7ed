SPECIFICATION FairSpec
CONSTANTS
  Readers = {r1, r2}
  Gen = Gen
  Null = Null
  T = {v1, v2}
  Exc = Exc
  MaxYields = 3
  MaxAwaits = 2
  DropRegistered = FALSE
INVARIANTS
  TypeOK
  QueuedAreSuspended
  ReadsAreServed
PROPERTIES
  EndOnlyAtEnd
  ImplementsFifo
  ReadEnds
CHECK_DEADLOCK FALSE

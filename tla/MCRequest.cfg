SPECIFICATION FairSpec
CONSTANTS
  Ops = {o1, o2}
INVARIANTS
  TypeOK
  AwaiterAlive
  RequestAlive
  SocketClosedOnce
PROPERTIES
  RequestsSettle

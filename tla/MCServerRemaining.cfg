SPECIFICATION Spec
CONSTANTS
  Null = Null
  Relaxed = {}
  Promises = {p1, p2, p3}
  Selector = S
  Tasks = {t1, t2, t3}
  Waiters = {w1, w2}
  Reads = {r1, r2}
  Writes = {x1}
  Shutdowns = {h1}
  Receivers = {u1, u2}
  Sends = {v1}
  PacketQueue = 2
  Listeners = {l1, l2}
  MaxConnections = 4
  Reserved = 2
  Watches = {f1, f2}
  MaxEvents = 4
  EventQueue = 2
  Sleeps = {z1}
  Tickings = {k1, k2}
  Count = 2
  Downloads = {d1, d2}
  Sockets = {o1, o2}
  MaxChunks = 2
PROPERTY RemainingAreKept
CHECK_DEADLOCK FALSE

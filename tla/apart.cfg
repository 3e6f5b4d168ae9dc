SPECIFICATION BothFair
CONSTANTS
  p1 = p1
  p2 = p2
  Peers = {p1, p2}
  Resource <- NodeResource
  Threads = {t1, t2}
  Objects = {d1, d2, d3}
  Retries = 1
  NONE = NONE
  Clients = {u1, u2}
  Sockets = {f1, f2}
  Dests = {x1, x2}
  NSlots = 2
  Timeout = 1
  Latencies = {0}
  MaxRetries = 1
INVARIANTS DeadIsMonitored NoDangling OneOwner RightDestination
PROPERTY PeerRevived

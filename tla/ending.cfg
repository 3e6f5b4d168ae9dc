SPECIFICATION BothFair
CONSTANTS
  Threads = {t1, t2}
  Keys = {k1}
  Ctxs = {c1}
  Sweeper = Sweeper
  NONE = NONE
  Handlers = {"types", "select"}
  BadParameters = TRUE
  Clients = {u1, u2}
  Sockets = {f1}
  Dests = {d1}
  NSlots = 1
  Timeout = 1
  Latencies = {0}
  MaxRetries = 0
  Sharing = TRUE
PROPERTIES SweepEnds StaleIsReclaimed WatchedIsClosed

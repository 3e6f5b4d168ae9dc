SPECIFICATION Spec
CONSTANTS
  Threads = {t1, t2}
  Sockets = {f1, f2, f3}
  Dests = {d1}
  NSlots = 2
  Timeout = 1
  Latencies = {0}
  MaxRetries = 1
  Sharing = TRUE
  NONE = NONE
SYMMETRY Symmetry
INVARIANTS SocketHeldOnce IdleIsUnheld AssertsHold CleanReuse

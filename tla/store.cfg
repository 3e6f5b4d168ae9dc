SPECIFICATION Spec
CONSTANTS
  Threads = {t1, t2}
  Sweeper = Sweeper
  Peers = {p1}
  Keys = {k1, k2}
  Caches = {c1, c2}
  Recs = {r1, r2}
  Callers = {"records"}
  NONE = NONE
SYMMETRY Symmetry
CHECK_DEADLOCK FALSE
INVARIANTS DustIsExact IndexIsLive NotBothDeleted

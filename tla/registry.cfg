SPECIFICATION Spec
CONSTANTS
  Threads = {t1, t2}
  Keys = {k1}
  Ctxs = {c1, c2}
  Sweeper = Sweeper
  NONE = NONE
  Handlers = {"select", "clusterize", "post", "delquery"}
  BadParameters = TRUE
SYMMETRY Symmetry
INVARIANTS ActiveIsLive DustIsExact

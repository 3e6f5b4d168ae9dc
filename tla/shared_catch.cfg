SPECIFICATION Spec
CONSTANTS
  Threads = {t1, t2}
  Keys = {k1}
  Ctxs = {c1}
  Sweeper = Sweeper
  NONE = NONE
  Handlers = {"search"}
  BadParameters = TRUE
SYMMETRY Symmetry
INVARIANT CaughtIsLive

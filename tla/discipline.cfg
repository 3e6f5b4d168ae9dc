SPECIFICATION Spec
CONSTANTS
  Threads = {t1, t2}
  Keys = {k1}
  Ctxs = {c1, c2}
  Sweeper = Sweeper
  NONE = NONE
  Handlers = {"search", "snippet", "words", "wordsnippet", "similarity", "title", "urls", "types", "cache", "recent", "suggestion", "recommendation", "delurl"}
  BadParameters = FALSE
SYMMETRY Symmetry
INVARIANTS WorkIsExclusive
PROPERTY DestroyedLocked

SPECIFICATION Spec
CONSTANTS
  ab = ab
  a = a
  fab = fab
  fa = fa
  u = u
  h = h
  i = i
  j = j
  Queries = {ab, a}
  Urls = {u, h}
  Fragments = {fab, fa}
  Uris = {i, j}
  Halo <- SmallHalo
  Exact <- SmallExact
  NONE = NONE
  Threads = {t1, t2}
  Sweepers = {t1, t2}
  Retention = 1
  MaxTime = 2
  MaxCalls = 2
  Word = 8
  Hosts = {j}
  Files <- SmallFiles
  Amounts <- SmallAmounts
INVARIANTS CountsAgree PruneIsComplete
PROPERTY IsBook
SYMMETRY Symmetry

SPECIFICATION Fair
CONSTANTS
  a=a A=A ax=ax b=b B=B bad=bad u=u us=us ub=ub uc=uc ka=ka kA=kA kb=kb kB=kB kx=kx i=i NONE=NONE
  Queries = {a, A, ax, b, B, bad}
  Urls = {u, us, ub, uc}
  Keys = {ka, kA, kb, kB, kx}
  Uris = {i}
  Unreadable = {kx}
  Chomped <- SmallChomped
  Lowered <- SmallLowered
  Unslashed <- SmallUnslashed
  Readable = {a, A, ax, b, B}
  Converted <- SmallConverted
  WordsOf <- SmallWordsOf
  WordsUnder <- SmallWordsUnder
  Radius <- SmallRadius
  OldFiles <- OldSmall
  MaxCrashes = 1
  Threads = {t1, t2}
  Objects = {"websearch", "query-capture", "cf", "img-websearch", "proxy"}
  Contents = {x, y}
  MaxCalls = 2
  MaxEdits = 2
  DEFAULT = DEFAULT
  NOBODY = NOBODY
  Names = {0, 1, 2, 3}
  Addresses = {1}
  SEEKS = 0
  DUMMY = 3
  Calls = {c1, c2}
  Peers = {p}
  OWN = OWN
  Searches <- SmallSearches
  MaxExpansions = 2
  MaxSearches = 1
  BAD = BAD
  NOCALL = NOCALL
INVARIANTS RepairSafe  ExpansionSafe AllPagesAsked
PROPERTIES  ChangesEnd
CHECK_DEADLOCK FALSE

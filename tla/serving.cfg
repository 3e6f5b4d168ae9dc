SPECIFICATION Fair
CONSTANTS
  Clients = {c1, c2, c3, c4}
  Main = main
  Servers = {}
  MaxClients = 2
  HEAD = HEAD
  NONE = NONE
  LineEnds = {0, 2, 3}
  Answers <- SmallAnswers
  Asked <- SmallAsked
  NoTracking = TRUE
  MarkerSize = 2
  BufferLimit = 2
  MaxRequests = 2
INVARIANTS UsedIsLive CapHolds ExchangeSafe HeadersAgree FilterPipeline UrlsAndPlugins PagesSafe DoorsSafe SocketsSafe ResultsSafe
PROPERTIES Reclaimed ExchangeEnds

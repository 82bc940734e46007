CONSTANTS
  h1 = h1  g1 = g1
  HttpRequests <- OneHttp  GrpcRequests <- OneGrpc  MaxConns = 1
SPECIFICATION FairSpec
INVARIANTS TypeOK LogTellsReplies HealthTrue PanicsContained
PROPERTIES EveryRequestEnds EventuallyHealthy

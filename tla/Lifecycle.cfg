CONSTANTS
  h1 = h1  g1 = g1  g2 = g2  s1 = s1  s2 = s2
  Postgres = postgres  Instances <- TwoInstances
  HttpRequests <- OneHttp  GrpcRequests <- TwoGrpc
  RedisEnabled = TRUE  Shards <- TwoShards  MaxRetries = 3
SPECIFICATION FairSpec
INVARIANTS TypeOK CutOffOnlyByDeadline ServesOnlyConnected ShutdownProceeds
PROPERTIES SignalStops EventuallyServes

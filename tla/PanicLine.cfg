CONSTANTS
  h1 = h1  g1 = g1
  HttpRequests <- OneHttp  GrpcRequests <- OneGrpc  MaxConns = 1
SPECIFICATION Spec
INVARIANT PanicLinesNamed

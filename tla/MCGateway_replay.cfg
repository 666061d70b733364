\* Each response the client reads answers its own request; SockCap 4 leaves no room for truncation.
CONSTANTS
  Clients = {c1}
  Listen = Lsn
  MaxReqs = 2
  ReqKinds <- MCReqKindsBounded
  SockCap = 4
SPECIFICATION Spec
INVARIANT ReplyIsForRequest
CHECK_DEADLOCK FALSE

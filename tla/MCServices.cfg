\* Session store, tool registry, upstream handlers, terminal parser, O_NONBLOCK chardev threads with a reader that closes its file, the gateway loop with two clients, the two directions of a WebSocket, and the route table, each from its own initial state.
CONSTANTS
  s1 = s1  s2 = s2  None = None
  SessionIds = {s1, s2}
  MaxRows = 3
  MaxTime = 2
  Limits = {0, 1}
  n1 = n1  n2 = n2  d1 = d1  d2 = d2  d3 = d3
  Names = {n1, n2}
  Defs = {d1, d2, d3}
  c1 = c1  c2 = c2  mClaude = mClaude  mGpt = mGpt  mOther = mOther
  Contents = {c1, c2}
  Models = {mClaude, mGpt, mOther}
  ChunkLens = {1, 4095, 4096}
  MaxChunks = 2
  MaxMsgs = 2
  Cols = 4
  Rows = 3
  OutputSize = 8
  w1 = w1  w2 = w2  r1 = r1  r2 = r2  Null = Null
  MsgLen = 2
  MaxSignals = 1
  gc1 = gc1  gc2 = gc2  Lsn = Lsn
  MaxReqs = 2
  SockCap = 1
SYMMETRY MCSymmetry
SPECIFICATION Spec
INVARIANT RegistryTypeOK
INVARIANT CountMatches
INVARIANT HandlersTypeOK
INVARIANT PromptIsLastUserMessage
INVARIANT BufferHoldsText
INVARIANT TermTypeOK
INVARIANT CursorInGrid
INVARIANT MutualExclusion
PROPERTY FifoRefinement
INVARIANT GwTypeOK
INVARIANT ActiveMatchesOpen
INVARIANT DispatchOnlyWholeRequests
INVARIANT ClientReadsSentTexts
INVARIANT ServerReadsClientFrames
INVARIANT RoutedAsRegistered
CHECK_DEADLOCK FALSE

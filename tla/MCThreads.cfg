\* The blocking chardev ring, the gateway loop and the terminal panel, each from its own initial state, with their fairness.
CONSTANTS
  w1 = w1  r1 = r1  Null = Null
  MsgLen = 2
  MaxSignals = 1
  gc1 = gc1  Lsn = Lsn
  MaxReqs = 2
  SockCap = 2
  Cols = 4
  Rows = 3
  OutputSize = 8
SPECIFICATION Spec
INVARIANT TypeOK
PROPERTY FifoRefinement
PROPERTY MessageDelivered
PROPERTY WriterWoken
PROPERTY RequestServed
PROPERTY ShutdownCompletes
CHECK_DEADLOCK FALSE

\* Two blocking writers: after the wait the second re-locks and stores without re-checking for room.
CONSTANTS
  w1 = w1  w2 = w2  r1 = r1  r2 = r2  Null = Null
  Writers = {w1, w2}
  Readers = {r1}
  NonBlock = {}
  RingSize = 2
  MaxMsgs = 2
  MsgLen = 2
  MaxSignals = 1
  Closers = {}
  BadBuffers = {}
SPECIFICATION Spec
PROPERTY FifoRefinement
CHECK_DEADLOCK FALSE

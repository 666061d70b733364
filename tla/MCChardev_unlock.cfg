\* A blocking writer on a full ring unlocks ring_lock twice, releasing a reader's lock.
CONSTANTS
  w1 = w1  w2 = w2  r1 = r1  r2 = r2  Null = Null
  Writers = {w1}
  Readers = {r1}
  NonBlock = {}
  RingSize = 2
  MaxMsgs = 2
  MsgLen = 2
  MaxSignals = 1
  Closers = {}
  BadBuffers = {}
SPECIFICATION Spec
INVARIANT MutualExclusion
CHECK_DEADLOCK FALSE

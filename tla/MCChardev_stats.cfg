\* Two readers copy a message each and race on st->messages_processed++.
CONSTANTS
  w1 = w1  r1 = r1  r2 = r2  Null = Null
  Writers = {w1}
  Readers = {r1, r2}
  NonBlock = {}
  RingSize = 3
  MaxMsgs = 2
  MsgLen = 1
  MaxSignals = 0
  Closers = {}
  BadBuffers = {}
SPECIFICATION Spec
INVARIANT StatsCountCopies
CHECK_DEADLOCK FALSE

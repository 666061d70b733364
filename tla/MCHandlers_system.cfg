\* Two system messages in one request: the handler sends the second, the spec says the first.
CONSTANTS
  c1 = c1  c2 = c2  mClaude = mClaude  mGpt = mGpt  mOther = mOther  None = None
  Contents = {c1, c2}
  Models = {mClaude, mGpt, mOther}
  Family <- MCFamily
  CfgModel <- MCCfgModel
  ChunkLens = {1, 4095, 4096}
  MaxChunks = 2
  MaxMsgs = 3
SPECIFICATION HandlersSpec
INVARIANT SystemIsFirstSystemMessage

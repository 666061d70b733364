\* A 200 reply holds every chunk the upstream streamed, whatever realloc does.
CONSTANTS
  c1 = c1  c2 = c2  mClaude = mClaude  mGpt = mGpt  mOther = mOther  None = None
  Contents = {c1, c2}
  Models = {mClaude, mGpt, mOther}
  Family <- MCFamily
  CfgModel <- MCCfgModel
  ChunkLens = {1, 4095, 4096}
  MaxChunks = 2
  MaxMsgs = 2
SPECIFICATION HandlersSpec
INVARIANT ReplyHasWholeText

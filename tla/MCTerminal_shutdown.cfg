\* The shell exits and is reaped before shutdown: pty_active is clear, so the reader is not joined.
CONSTANTS
  Cols = 4
  Rows = 3
  Chunks <- MCShutdownChunks
  OutputSize = 8
SPECIFICATION TermSpec
INVARIANT ChunkParsedUnderLiveLock
CHECK_DEADLOCK FALSE

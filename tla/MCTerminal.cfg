\* A cursor movement by a parameter near INT_MAX wraps the cursor negative.
CONSTANTS
  Cols = 4
  Rows = 3
  Chunks <- MCChunks
  OutputSize = 8
SPECIFICATION TermSpec
INVARIANT CursorInGrid
CHECK_DEADLOCK FALSE

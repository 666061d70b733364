\* A reply still being revealed when the transcript is cleared or shifted.
CONSTANTS
  MaxChat = 3
  MaxReqs = 2
  MaxLen = 2
  None = None
  Names = {1, 2, 3}
  DirPaths <- MCDirPaths
  FilePaths <- MCFilePaths
  MaxEntries = 2
  VisRows = 1
  ScreenRows = 2
SPECIFICATION Spec
INVARIANT StreamTargetsOwnReply
CHECK_DEADLOCK FALSE

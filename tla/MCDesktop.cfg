\* The panels, the AI control, the chat panel with its response thread and
\* the file browser.
CONSTANTS
  MaxChat = 3
  MaxReqs = 2
  MaxLen = 2
  None = None
  Names = {1, 2, 3}
  DirPaths <- MCDirPaths
  FilePaths <- MCFilePaths
  MaxEntries = 2
  VisRows = 1
  ScreenRows = 2
SPECIFICATION Spec
INVARIANT TypeOK
INVARIANT FocusConsistent
INVARIANT SelectionInListing
CHECK_DEADLOCK FALSE

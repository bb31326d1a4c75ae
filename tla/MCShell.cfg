SPECIFICATION Spec
CONSTANTS
  MAX_CMD_LEN = 4
  MAX_ARGS = 3
  MAX_CMD_HISTORY = 2
  Letters = {"a"}
  Width = 3
  Rows = 2
  BannerRows = 0
  OutputRows = 1
  MaxBlanks = 1
INVARIANTS
  ShellTypeOK
  LineEnds
PROPERTIES
  ScreenShowsLine
  ImplementsEditor

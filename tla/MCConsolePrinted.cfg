SPECIFICATION Spec
CONSTANTS
  VGA_WIDTH = 2
  VGA_HEIGHT = 2
  TTY_COUNT = 2
  HISTORY_SIZE = 2
  ColModulus = 4
  Letters = {"a"}
PROPERTY
  PrintedIsShown

\* The sizes of the source.  poll() may panic, which ends the program.
SPECIFICATION Spec
CONSTANTS
  RX_BUF = 512
  LINE_BUF = 288
  CHUNK = 256
  MAX_LINE = 266
  Lines <- MCLines
  Reads <- MCReads
  Totals <- MCTotals
  Cuts <- MCCuts
  Wholes <- MCWholes
INVARIANT SizingTypeOK
PROPERTIES LossOnlyInLongLine OverlongNeedsHole
CHECK_DEADLOCK FALSE

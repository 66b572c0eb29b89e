\* Every call has a deadline: violated.
SPECIFICATION FairTokioSpec
CONSTANTS
  RX_BUF = 16
  TX_BUF = 2
  LINE_BUF = 16
  CHUNK = 3
  CMD_CAP = 1
  EVENT_CAP = 1
  MaxCalls = 3
  MaxRcv = 2
  Ops = {"GetAddress"}
  JustBooted = FALSE
  MaxLost = 0
  MaxFaults = 0
  Commands <- MCCommands
  EncodedLen <- Lens
  Vals <- MCVals
  Inputs <- NoInputs
PROPERTY CallsReturn
CHECK_DEADLOCK FALSE

\* Queued events are surfaced: violated.
SPECIFICATION ListeningSpec
CONSTANTS
  RX_BUF = 16
  TX_BUF = 2
  LINE_BUF = 16
  CHUNK = 6
  CMD_CAP = 1
  EVENT_CAP = 1
  MaxCalls = 1
  MaxRcv = 1
  Ops = {"GetAddress"}
  JustBooted = FALSE
  MaxLost = 0
  MaxFaults = 0
  Commands <- MCCommands
  EncodedLen <- Lens
  Vals <- MCVals
  Inputs <- NoInputs
PROPERTY EventsDelivered
CHECK_DEADLOCK FALSE

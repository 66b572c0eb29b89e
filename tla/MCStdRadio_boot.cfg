\* A module that powered up as the port was opened: events are missed.
SPECIFICATION FairStdSpec
CONSTANTS
  RX_BUF = 16
  TX_BUF = 2
  LINE_BUF = 16
  CHUNK = 3
  MaxCalls = 1
  MaxRcv = 1
  MaxLost = 0
  MaxFaults = 0
  Ops = {"GetAddress", "SetAddress", "FactoryReset"}
  JustBooted = TRUE
  Commands <- MCCommands
  EncodedLen <- Lens
  Vals <- MCVals
  Inputs <- NoInputs
PROPERTY EventsDelivered

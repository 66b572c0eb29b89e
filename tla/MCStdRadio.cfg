\* Late and lost answers, ports that fail, and what fairness buys.
SPECIFICATION FairStdSpec
CONSTANTS
  RX_BUF = 16
  TX_BUF = 2
  LINE_BUF = 16
  CHUNK = 3
  MaxCalls = 3
  MaxRcv = 2
  MaxLost = 1
  MaxFaults = 1
  Ops = {"GetAddress", "SetAddress", "FactoryReset"}
  JustBooted = FALSE
  Commands <- MCCommands
  EncodedLen <- Lens
  Vals <- MCVals
  Inputs <- NoInputs
INVARIANTS StdTypeOK NoEventLost
PROPERTIES KeepsPromise CallsReturn SlotIsFreed EventsDelivered

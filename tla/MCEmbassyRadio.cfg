\* Late and lost answers, UART errors, futures dropped halfway.
SPECIFICATION FairEmbassySpec
CONSTANTS
  RX_BUF = 16
  TX_BUF = 4
  LINE_BUF = 16
  CHUNK = 3
  MaxCalls = 3
  MaxRcv = 2
  MaxLost = 1
  MaxFaults = 1
  Ops = {"GetAddress", "SetAddress", "FactoryReset"}
  JustBooted = FALSE
  Commands <- MCCommands
  EncodedLen <- Lens
  Vals <- MCVals
  Inputs <- NoInputs
INVARIANTS EmbassyTypeOK EventsOnceInOrder NothingBehindHalf
PROPERTIES KeepsPromise CallsReturn SlotIsFreed

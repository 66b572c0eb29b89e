\* Late and lost answers, failing port, dropped handle.
SPECIFICATION FairTokioSpec
CONSTANTS
  RX_BUF = 16
  TX_BUF = 2
  LINE_BUF = 16
  CHUNK = 3
  CMD_CAP = 1
  EVENT_CAP = 1
  MaxCalls = 2
  MaxRcv = 2
  Ops = {"GetAddress", "FactoryReset"}
  JustBooted = FALSE
  MaxLost = 1
  MaxFaults = 1
  Commands <- MCCommands
  EncodedLen <- Lens
  Vals <- MCVals
  Inputs <- NoInputs
INVARIANTS TokioTypeOK AnswersMatchCalls NoEventLost
PROPERTIES QueuedCallsReturn TaskEnds
CHECK_DEADLOCK FALSE

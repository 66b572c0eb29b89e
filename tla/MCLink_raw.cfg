\* Payloads that hold a CR.
SPECIFICATION LinkSpec
CONSTANTS
  RX_BUF = 42
  ReadSizes = {1, 5, 12}
  MaxLines = 2
  MaxNoise = 0
  Payloads <- RawPayloads
  Signals <- MCSignals
  Settings <- MCSettings
CHECK_DEADLOCK FALSE
INVARIANT EveryPayloadArrives

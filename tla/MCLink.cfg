\* Any payload without CR, read in pieces, on a wire that may lose a byte.
SPECIFICATION LinkSpec
CONSTANTS
  RX_BUF = 42
  ReadSizes = {1, 5, 12}
  MaxLines = 2
  MaxNoise = 1
  Payloads <- MCPayloads
  Signals <- MCSignals
  Settings <- MCSettings
CHECK_DEADLOCK FALSE
INVARIANTS LinkTypeOK PayloadsWhole EveryPayloadArrives SettingsReadBack

\* The driver under every order of calls.
SPECIFICATION TraceSpec
CONSTANTS
  RX_BUF = 4
  TX_BUF = 3
  LINE_BUF = 1
  MaxUnits = 4
  Commands <- MCCommands
  EncodedLen <- Lens
  Vals <- Zero
  Inputs <- FewInputs
INVARIANTS TypeOK SlotInv WireInv
PROPERTY DrainTerminates
CHECK_DEADLOCK FALSE

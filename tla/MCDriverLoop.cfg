\* The driver under the caller its documentation asks for.
SPECIFICATION LoopSpec
CONSTANTS
  RX_BUF = 6
  TX_BUF = 2
  LINE_BUF = 4
  Commands <- MCCommands
  EncodedLen <- Lens
  Vals <- Zero
  Inputs <- MoreInputs
INVARIANT LoopInv
PROPERTY SlotSpec

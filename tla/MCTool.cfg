\* Session after session, killed and failing anywhere, on a module that may lag.
SPECIFICATION FairToolSpec
CONSTANTS
  Ports = {"cu.usbserial-A1", "cu.usbserial-B2", "ttyS0"}
  UsbSerial = {"cu.usbserial-A1", "cu.usbserial-B2"}
  Requests <- MCRequests
  Vals <- MCVals
INVARIANTS ToolTypeOK SeenIsStored SuccessMeansStored
PROPERTY SessionsEnd

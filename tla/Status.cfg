SPECIFICATION FairSpec
CONSTANTS
  N = 3
  StatOf <- Aliases
  Throws = {1, 2, 3}
  MayFail = {"is_CaptureStatus", "captureErrorCallback", "IS_EVENT_CMD_WAIT"}
  MaxErrors = 4
INVARIANTS
  NoErrorMissed
PROPERTIES
  EveryErrorReported

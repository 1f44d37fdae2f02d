SPECIFICATION FairSpec
CONSTANTS
  Concurrency = 2
  Addresses = {1, 2}
  IDs = {1, 2}
  MayFail = {"is_InitCamera", "is_GetDuration", "upload", "is_ExitCamera", "is_ResetToDefault",
             "sensor_info", "color_mode", "display_mode", "init_events", "enable_events",
             "defaults", "captureErrorCallback", "IS_EVENT_CMD_WAIT",
             "is_AllocImageMem", "is_AddToSequence", "is_FreeImageMem", "is_ClearSequence"}
  UploadRetries = 3
  CloseRetries = 3
  SetNeedsInit = FALSE
  MaxStatus = 2
INVARIANTS
  FailureCloses
  NothingLeftBehind
  ClosedLast
  ProgressStateAlive
PROPERTIES
  CallsEnd
  InitialStatusHandled

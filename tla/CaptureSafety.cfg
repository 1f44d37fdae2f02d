SPECIFICATION Spec
CONSTANTS
  Concurrency = 3
  Workers = {w1, w2, w3}
  Kinds = {"LIVE", "TRIGGER"}
  Scaling = FALSE
  MayFail = {"is_GetActSeqBuf", "is_LockSeqBuf", "is_GetImageInfo", "is_UnlockSeqBuf",
             "imageCallback", "is_SetExternalTrigger", "is_CaptureVideo", "is_StopLiveVideo",
             "IS_EVENT_CMD_WAIT"}
  FrameFirst = FALSE
  MaxFrames = 4
  MaxHandles = 2
SYMMETRY WorkerSymmetry
INVARIANTS
  CallbackExclusive
  ImageMatchesInfo
  OrderedDispatch
  QuietWhenDestroyed
  DispatcherAlive
PROPERTIES
  ImplementsLease

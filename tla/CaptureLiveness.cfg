SPECIFICATION FairSpec
CONSTANTS
  Concurrency = 2
  Workers = {w1, w2}
  Kinds = {"LIVE", "TRIGGER"}
  Scaling = FALSE
  MayFail = {"is_CaptureVideo"}
  FrameFirst = TRUE
  MaxFrames = 3
  MaxHandles = 2
INVARIANTS
  AllUnlocked
  NoStaleFrame
  NewestShown
PROPERTIES
  DestructionCompletes
  LocksAreReturned

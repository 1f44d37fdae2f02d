SPECIFICATION Spec
CONSTANTS
  Concurrency = 2
  Workers = {w1, w2}
  Kinds = {"LIVE", "TRIGGER"}
  Scaling = TRUE
  MayFail = {}
  FrameFirst = TRUE
  MaxFrames = 3
  MaxHandles = 2
INVARIANT
  ScaledOnce

SPECIFICATION FairSpec
CONSTANTS
  B = 2
  Cameras = {c1, c2}
  Kinds <- MCKinds
  Changes = TRUE
  MaxCalls = 1
  MaxMask = 10
  MayFail = {"is_GetNumberOfCameras", "is_GetCameraList", "is_IpConfig"}
INVARIANTS
  ListInv
  FreedButForConnections
  TextRight
PROPERTIES
  CallEnds
CHECK_DEADLOCK FALSE

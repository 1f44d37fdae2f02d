SPECIFICATION Spec
CONSTANTS
  Concurrency = 3
  Addresses = {1, 2, 3}
  IDs = {1, 2, 3}
  MayFail = {"is_AllocImageMem", "is_AddToSequence", "is_FreeImageMem", "is_ClearSequence"}
INVARIANTS
  DeliveredManaged
  AllocatedManaged
  AllFreed

SPECIFICATION CallSpec
CONSTANTS
  Threads = {application, dispatcher, observer}
  MaxFailed = 4
SYMMETRY Symmetry
INVARIANTS
  ApiInv

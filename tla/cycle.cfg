CONSTANTS
  a = a
  b = b
  c = c
  MaxNodes = 3
  MaxDate = 3
  Names <- OneName
  Codes = {}
  BaseKinds = {"CREATE", "MOVE"}
  FixKinds = {}
  CreateKeys = {}
  UpdateKeys = {}
  PatchKeys = {}
  MaxEvents = 5
  MaxWaiting = 0
SPECIFICATION Spec
SYMMETRY Symmetry
INVARIANTS
  NoCycle
CHECK_DEADLOCK FALSE

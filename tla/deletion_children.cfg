CONSTANTS
  a = a
  b = b
  c = c
  MaxNodes = 5
  MaxDate = 2
  Names <- OneName
  Codes = {}
  BaseKinds = {"CREATE", "MOVE"}
  FixKinds = {"RESCIND_ORG"}
  CreateKeys = {}
  UpdateKeys = {}
  PatchKeys = {}
  MaxEvents = 7
  MaxWaiting = 0
SPECIFICATION Spec
SYMMETRY Symmetry
INVARIANTS
  DeletedLeavesNoChildren
CHECK_DEADLOCK FALSE

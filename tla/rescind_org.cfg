CONSTANTS
  a = a
  b = b
  c = c
  MaxNodes = 3
  MaxDate = 3
  Names <- OneName
  Codes = {}
  BaseKinds = {"CREATE", "RENAME"}
  FixKinds = {"RESCIND_ORG"}
  CreateKeys = {}
  UpdateKeys = {}
  PatchKeys = {}
  MaxEvents = 5
  MaxWaiting = 0
SPECIFICATION Spec
SYMMETRY Symmetry
INVARIANTS
  RescindOrgReplays
CHECK_DEADLOCK FALSE

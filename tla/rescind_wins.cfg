CONSTANTS
  a = a
  b = b
  c = c
  MaxNodes = 1
  MaxDate = 3
  Names <- OneName
  Codes = {}
  BaseKinds = {"CREATE", "RENAME"}
  FixKinds = {"CORRECT_EVENT", "RESCIND_EVENT"}
  CreateKeys = {}
  UpdateKeys = {}
  PatchKeys = {"effective_date"}
  MaxEvents = 4
  MaxWaiting = 1
SPECIFICATION Spec
SYMMETRY Symmetry
INVARIANTS
  RescindIsFinal
CHECK_DEADLOCK FALSE

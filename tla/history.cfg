CONSTANTS
  a = a
  b = b
  c = c
  MaxNodes = 2
  MaxDate = 2
  Names <- TwoNames
  Codes = {}
  BaseKinds = {"CREATE", "RENAME", "SET_BUSINESS_UNIT"}
  FixKinds = {"CORRECT_EVENT", "RESCIND_EVENT"}
  CreateKeys = {}
  UpdateKeys = {}
  PatchKeys = {"effective_date", "new_name"}
  MaxEvents = 4
  MaxWaiting = 1
SPECIFICATION Spec
SYMMETRY Symmetry
INVARIANTS
  HistoryShown
  BackdatingSafe
CHECK_DEADLOCK FALSE

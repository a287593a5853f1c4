CONSTANTS
  a = a
  b = b
  c = c
  MaxNodes = 2
  MaxDate = 2
  Names <- TwoNames
  Codes = {}
  BaseKinds = {"CREATE", "UPDATE", "MOVE", "ENABLE", "DISABLE"}
  FixKinds = {"CORRECT_EVENT", "RESCIND_EVENT", "CORRECT_STATUS"}
  CreateKeys = {"is_business_unit","status"}
  UpdateKeys = {"name", "parent_org_node_key", "status", "is_business_unit"}
  PatchKeys = {"name", "status", "is_business_unit", "new_parent_org_node_key"}
  MaxEvents = 3
  MaxWaiting = 0
SPECIFICATION Spec
SYMMETRY Symmetry
INVARIANTS
  HistoryShown
CHECK_DEADLOCK FALSE

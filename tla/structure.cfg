CONSTANTS
  a = a
  b = b
  c = c
  MaxNodes = 4
  MaxDate = 3
  Names <- TwoNames
  Codes = {}
  BaseKinds = {"CREATE", "MOVE", "RENAME", "ENABLE"}
  FixKinds = {"CORRECT_EVENT", "RESCIND_EVENT"}
  CreateKeys = {}
  UpdateKeys = {}
  PatchKeys = {"effective_date", "new_parent_org_node_key", "parent_org_node_key"}
  MaxEvents = 5
  MaxWaiting = 0
SPECIFICATION Spec
SYMMETRY Symmetry
INVARIANTS
  TypeOK
  VersionsWellFormed
  PathEndsWithParent
  RootIsBusinessUnit
  PathsCurrent
  FullNamesCurrent
  RescindIsFinal
PROPERTIES
  RootKept
  LedgerSpec
CHECK_DEADLOCK FALSE

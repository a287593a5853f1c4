CONSTANTS
  a = a
  b = b
  c = c
  MaxNodes = 3
  MaxDate = 3
  Names <- OneName
  Codes <- ThreeCodes
  BaseKinds = {"CREATE", "MOVE"}
  FixKinds = {"RESCIND_ORG", "RESCIND_EVENT", "CORRECT_EVENT"}
  CreateKeys = {}
  UpdateKeys = {}
  PatchKeys = {"effective_date"}
  MaxEvents = 5
  MaxWaiting = 0
SPECIFICATION FairSpec
INVARIANTS
  CodesFollowUnits
  ParentsExist
PROPERTIES
  LockReleased
CHECK_DEADLOCK FALSE

\* Every page that keeps state, three or four user actions deep.
CONSTANTS
  Views = {1, 2}
  Keywords = {0, 1}
  Ancestors <- PathToUnit
  Codes = {1, 2}
  UnitsBudget = 4
  CoreFields = {"name"}
  Name = "name"
  Unclearable = {"name"}
  PlainFields = {"x_note"}
  Values = {0, 1, 2, 3}
  Trimmed <- BlanksOff
  FirstValue = 1
  OthersValues = {0, 3}
  ExtDays = {2}
  LastDay = 4
  FirstRecords = {1, 4}
  LinkDays = {3}
  UnitBudget = 3
  MaxAudit = 3
  ReleaseBudget = 8
  MaxEdition = 3
  RoleSlugs = {"admin", "clerk", "editor"}
  SystemRoles = {"admin"}
  ScopedRoles = {"clerk"}
  FirstRoles = {"admin", "clerk"}
  Capabilities = {"read", "write"}
  Principals = {"ann", "bob"}
  AuthzBudget = 4
  ConfigKeys = {"short_name", "d_org_type", "x_note"}
  ValueTypes = {"text", "int"}
  ColumnCount <- SomeColumns
  Labels = {"", "own", "dict 1", "dict 2"}
  ConfigRequestIDs = {1, 2}
  FieldModes <- SomeModes
  BuiltinType = "text"
  ListDays = {3}
  RowFilters = {{"pending", "disabled"}}
  LastConfigDate = 3
  ConfigBudget = 4
  PickerTrees <- SomeTrees
  FirstTree <- TreeBefore
  PickerBudget = 3
SPECIFICATION WebSpec
INVARIANTS
  OneUnitPerDialog
  TreeIsCurrent
  AcceptedDateIsFree
  ReleaseWasPreviewed
  BusyHasRequest
  ColumnsDistinct
  ConfigsFollowEvents
  RequestNamesOneChange
  RefusedOnlyIfOvertaken
  HighlightIsDraft
PROPERTIES
  OnlyEditedFieldsWritten
  OnlyTouchedPartsReplaced
  OnlyTouchedRowsReplaced
  PastIsKept
  AddressesSettle
  AddressesNearRest
CHECK_DEADLOCK FALSE

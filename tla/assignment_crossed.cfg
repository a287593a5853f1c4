\* A save is answered after another principal was selected.
CONSTANTS
  RoleSlugs = {"admin", "clerk", "editor"}
  SystemRoles = {"admin"}
  ScopedRoles = {"clerk"}
  FirstRoles = {"admin", "clerk"}
  Capabilities = {"read", "write"}
  Principals = {"ann", "bob"}
  AuthzBudget = 4
SPECIFICATION AuthzSpec
PROPERTY ScopesStayWithTheirUser
CHECK_DEADLOCK FALSE

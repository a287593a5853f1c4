\* The server with any clients: both flows, two turns, two conversations.
CONSTANTS
  Conversations <- TwoConversations
  Flows = {"provider", "query"}
  Budget = 3
  MaxTurns = 2
  MaxDeltas = 1
  MaxUnread = 0
  Requests = {1, 2}
  Drafts = {1}
SPECIFICATION Spec
INVARIANTS
  ServerTypeOK
  OneOutcome
  DeltasFirst
  RegistryFollowsTurns
PROPERTY TurnEnds
CHECK_DEADLOCK FALSE

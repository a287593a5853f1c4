\* The panel, its provider and the server: two conversations, two turns, two clicks.
CONSTANTS
  Conversations <- TwoConversations
  Flows = {"provider"}
  Budget = 2
  MaxTurns = 2
  MaxDeltas = 1
  MaxUnread = 0
  Drafts = {1}
  MaxCalls = 1
  Requests <- TwelveNumbers
SPECIFICATION Spec
INVARIANTS
  TypeOK
  StreamingIsRead
  LiveIsReplay
PROPERTY TurnsSpec
CHECK_DEADLOCK FALSE

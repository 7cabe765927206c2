SPECIFICATION Spec
CONSTANTS
  MaxBytes = 12
  ResponseBytes = 2
  MetadataBytes = 1
  SnapshotBytes = {1, 4}
  Ttl = 1
  MaxNow = 2
  MaxResponses = 1
  MaxConversations = 1
  MaxItems = 2
INVARIANT ConversationTtl

SPECIFICATION LiveSpec
CONSTANTS
  Clients = {c1, c2}
  Replies = {"info", "error", "garbled", "garbled_error"}
  MaxScans = 2
INVARIANTS
  BridgeInv
  NeverTelescopeAddress
PROPERTIES
  RealInfoKept
  InfoLearned

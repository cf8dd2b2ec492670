SPECIFICATION Spec
CONSTANTS
  Clients = {c1, c2}
  OrigIds = {o1}
  Slots = {s1, s2}
  FirstId = 1
  MaxIds = 2
  MaxBeats = 1
  MaxPending = 1
  RespCap = 1
  UpCap = 1
  EvCap = 1
  HooksOn = FALSE
  Transparent = FALSE
  AnonOn = FALSE
  Anon = Anon
  NoSlot = NoSlot
  NoReq = NoReq
SYMMETRY Symmetry
INVARIANTS
  ProxyInv
  RoutedToOwner
  PendingBounded
  AtMostOneReply
  NoOrphan
  BroadcastUntracked
  UpFlagHonest

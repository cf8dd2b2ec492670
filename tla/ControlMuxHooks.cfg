SPECIFICATION Spec
CONSTANTS
  Clients = {c1}
  OrigIds = {o1, o2}
  Slots = {s1}
  FirstId = 1
  MaxIds = 2
  MaxBeats = 1
  MaxPending = 2
  RespCap = 1
  UpCap = 1
  EvCap = 1
  HooksOn = TRUE
  Transparent = FALSE
  AnonOn = TRUE
  Anon = Anon
  NoSlot = NoSlot
  NoReq = NoReq
SYMMETRY Symmetry
PROPERTIES
  LedgerSpec

SPECIFICATION LiveSpec
CONSTANTS
  Clients = {c1}
  OrigIds = {o1}
  Slots = {s1}
  FirstId = 1
  MaxIds = 2
  MaxBeats = 1
  MaxPending = 1
  RespCap = 1
  UpCap = 1
  EvCap = 1
  HooksOn = FALSE
  Transparent = FALSE
  AnonOn = FALSE
  Anon = Anon
  NoSlot = NoSlot
  NoReq = NoReq
  Stalled = {}
PROPERTIES
  RequestSettles
  HandlerReturns

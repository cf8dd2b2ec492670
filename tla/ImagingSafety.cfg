SPECIFICATION Spec
CONSTANTS
  Clients = {c1, c2}
  Slots = {s1, s2}
  RingCap = 1
  UpCap = 2
  MaxFrames = 2
  Talkers = {c1}
  MaxLines = 2
  Transparent = TRUE
  Beat = Beat
  NoSlot = NoSlot
  Stalled = {}
SYMMETRY SlotSymmetry
CHECK_DEADLOCK FALSE
INVARIANTS
  FanoutInv
  NothingMissed
  LinesInOrder
PROPERTIES
  FeedSpec

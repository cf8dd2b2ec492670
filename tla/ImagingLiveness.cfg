SPECIFICATION LiveSpec
CONSTANTS
  Clients = {c1, c2}
  Slots = {s1}
  RingCap = 1
  UpCap = 1
  MaxFrames = 2
  Talkers = {c1}
  MaxLines = 1
  Transparent = FALSE
  Beat = Beat
  NoSlot = NoSlot
  Stalled = {c2}
PROPERTIES
  FramesArrive
  LineForwarded

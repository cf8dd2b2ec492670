SPECIFICATION Spec
CONSTANTS
  Readers = {e1, e2}
  Talkers = {t1, t2}
  Base = 2
  Width = 2
  MaxFrames = 3
  MaxLines = 2
  MaxSessions = 2
  None = None
SYMMETRY Symmetry
CHECK_DEADLOCK FALSE
INVARIANTS
  DirInv
  ExactFrames
  ExactControl

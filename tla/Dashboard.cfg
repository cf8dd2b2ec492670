SPECIFICATION StatusSpec
CONSTANTS
  Loggers = {1, 2}
  Pages = {p1}
  LogCap = 2
  MaxSeq = 3
  MaxRuns = 2
  None = None
  MaxConns = 2
  Events = {"Stack", "ScopeHome_working"}
INVARIANTS
  DashboardInv
  NoEntryTwice
  HookSeesEvent
  NoStaleFlag
  CopiesAgree
PROPERTIES
  PageIsCurrent

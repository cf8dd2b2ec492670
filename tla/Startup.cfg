\* Settings, start-up, keys on disk and restarts.
SPECIFICATION Spec
CONSTANTS
  Setups <- MCSetups
  MaxStarts = 3
INVARIANTS
  StartupInv
  QrSurvivesRestart
PROPERTY GetsToRun
CHECK_DEADLOCK FALSE

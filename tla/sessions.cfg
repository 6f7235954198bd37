SPECIFICATION FairSpec
CONSTANTS
  r1 = r1
  a = a
  b = b
  c = c
  d = d
  NoOne = NoOne
  Earlier = Earlier
  Router = {r1}
  Name = {a, b, c, d}
  Names <- Gpus
  Prefixed <- Gpus
  KillExisting = TRUE
  Left = {c, d}
  MaxSignals = 2
INVARIANTS CleanExit OrphansNeedBadStart
PROPERTIES KeepsBackends SignalEnds
CHECK_DEADLOCK FALSE

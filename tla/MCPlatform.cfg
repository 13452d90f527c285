CONSTANTS
  ClassSize = 2
  NumVectors = 8
  Apics = {0, 1}
  LvtChoices <- Lvts
  Tprs = {0, 4}
  IpiVectors = {0, 2, 5, 6}
  IpiDests <- Dests
  ApicCfg <- Flat
  ClusterBits = 2
  ApicOps = 6
  Pins = {0, 1}
  PinVectors = {4, 5}
  PinDests <- IoDests
  MaxAcnt = 2
  PinOps = 3
  Counts = {0, 1, 2}
  Divisors = {1, 2}
  MaxLag = 3
  TimerOps = 6
SPECIFICATION PlatformSpec
INVARIANT TypeOK
INVARIANT IsrStackOk
INVARIANT LevelsTracked
INVARIANT TimerExact
PROPERTY SwallowedOnlyInWindow
PROPERTY LevelServiced
PROPERTY TimerFires
CHECK_DEADLOCK FALSE

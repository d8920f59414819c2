SPECIFICATION Spec
CONSTANTS
  kbd = kbd  mouse = mouse  mouse2 = mouse2  NoDev = NoDev
  Devs <- MCDevs
  Keyboards <- MCKeyboards
  Reliable <- MCReliable
  Mice <- MCMice
  BT_MAX_DEV = 2
  FoundLen = 1
  MaxGap = 1
INVARIANTS TableSound RadioRests
PROPERTY DeviceComesBack
CHECK_DEADLOCK FALSE

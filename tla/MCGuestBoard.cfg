SPECIFICATION Spec
CONSTANTS
  Event = {"FLAMES", "ITIMER", "KEYBOARD", "PICMASK"}
  MaxClock = 20
  Levels = 4
  KbBuf = 1
  KbCtr = 2
  Byte = {0, 1, 2}
  Reply = {9}
  DispClock = 3
  VsyncClock = 1
  Period = 4
  LongPeriod = 5
  MaskClock = 1
  XferClock = 1
  Multiples = {1, 2}
  Costs = {1}
  IntCost = 1
  Masks <- MCMasks
  Rotations = {FALSE, TRUE}
  Modes = {FALSE}
  Device = {0}
  Off = Off
  Longest = 7
  Latest = 3
  MaxNest = 1
  MaxSetups = 1
INVARIANTS TypeOK KeysInOrder NoStrandedKey InService Prompt VsyncKept
PROPERTIES InterruptsLegal AlarmsSpec

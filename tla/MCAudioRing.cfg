SPECIFICATION Spec
CONSTANTS
  RingBytes = 24
  RxBytes = 8
  BlockFrames = 3
  MaxFrames = 30
INVARIANTS TypeOK InOrder PhaseKept DropsCounted
PROPERTIES RingDrains
CHECK_DEADLOCK FALSE

SPECIFICATION Spec
CONSTANTS
  Clk = 5
  Hz = 2
  Samples = 2
  Reserve = 4
  Guard = 8
  Sane = 6
  OneFrame = 4
  MaxFrame = 7
INVARIANTS InOrder NothingOwed
CHECK_DEADLOCK FALSE

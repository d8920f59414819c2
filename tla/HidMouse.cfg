SPECIFICATION Spec
CONSTANTS
  UsbMice = {u1}
  BleMice = {b1}
  NoMouse = NoMouse
  Retries = 5
  MaxPlugs = 3
INVARIANT PairedMouseWorks
CHECK_DEADLOCK FALSE

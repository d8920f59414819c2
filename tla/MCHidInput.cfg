SPECIFICATION Spec
CONSTANTS
  usbKbd = usbKbd  btKbd = btKbd  usb = usb  bt = bt
  lshift = lshift  rshift = rshift  esc = esc  f11 = f11
  nShift = nShift  nEsc = nEsc  none = none
  Devices <- MCDevices
  Sources <- MCSources
  SrcOf <- MCSrcOf
  ModTable <- MCModTable
  Keys <- MCKeys
  MenuKeys <- MCMenuKeys
  NKeyOf <- MCNKeyOf
  NoKey = none
  Esc = nEsc
  QueueLen = 3
  MaxReports = 2
INVARIANTS TypeOK NoStuckKey HeldKeysDown
PROPERTIES MenuOpens EventsDrain
CHECK_DEADLOCK FALSE

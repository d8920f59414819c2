----------------------------- MODULE MCHidInput -----------------------------
(* Model of HidInput for TLC: a USB keyboard and a BLE keyboard, one       *)
(* modifier, two keys (one of them the ESC that leaves the menu) and a     *)
(* menu key.                                                               *)
EXTENDS HidInput, TLC

CONSTANTS usbKbd, btKbd, usb, bt, lshift, rshift, esc, f11, nShift, nEsc, none

MCDevices == {usbKbd, btKbd}
MCSources == {usb, bt}
MCSrcOf == (usbKbd :> usb) @@ (btKbd :> bt)
MCModTable == <<lshift, rshift>>
MCKeys == {esc, f11}
MCMenuKeys == {f11}
MCNKeyOf == (lshift :> nShift) @@ (rshift :> nShift) @@ (esc :> nEsc) @@ (f11 :> none)
=============================================================================

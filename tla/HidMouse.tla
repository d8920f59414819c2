------------------------------ MODULE HidMouse ------------------------------
(***************************************************************************)
(* Which mice are there: g_umouse_present, which counts them across USB    *)
(* and Bluetooth, and the three tasks that write it without a lock.  The   *)
(* USB driver's task queues CONNECTED for hid_task and handles             *)
(* DISCONNECTED itself; hid_task opens and starts what was connected, with *)
(* retries; the event loop of esp_hidh handles what opens and closes over  *)
(* Bluetooth.  Movement and buttons are left out.                          *)
(***************************************************************************)
EXTENDS Integers, Sequences

CONSTANTS
  UsbMice, BleMice,   \* sets of mice
  NoMouse,
  Retries,            \* tries of hid_host_device_start(): 5
  MaxPlugs            \* bound on mice plugged in

Task == {"driver", "hid_task", "hidh"}

VARIABLES
  g_umouse_present,
  at,           \* what each task does with the count: an instruction, or idle
  seen,         \* what it read
  usb,          \* [UsbMice -> out, in, open]
  s_hid_evtq,   \* CONNECTED events, one for each mouse that was plugged in
  starting,     \* the mouse hid_task starts, or NoMouse
  tries,        \* how often it tried
  ble,          \* [BleMice -> off, link, open, closed]: open once handle_open() saw it
  plugs         \* bounded by MaxPlugs

vars == <<g_umouse_present, at, seen, usb, s_hid_evtq, starting, tries, ble, plugs>>
count == <<g_umouse_present, at, seen>>

Init ==
  /\ g_umouse_present = 0
  /\ at = [t \in Task |-> "idle"] /\ seen = [t \in Task |-> 0]
  /\ usb = [m \in UsbMice |-> "out"] /\ ble = [m \in BleMice |-> "off"]
  /\ s_hid_evtq = <<>> /\ starting = NoMouse /\ tries = 0
  /\ plugs = 0

Calls(t, what) == at[t] = "idle" /\ at' = [at EXCEPT ![t] = what]

-----------------------------------------------------------------------------
(* hid_mouse_attach() and hid_mouse_detach(), memory access by memory access. *)

Test(t) ==
  /\ at[t] = "test"
  /\ at' = [at EXCEPT ![t] = IF g_umouse_present > 0 THEN "dec" ELSE "idle"]
  /\ UNCHANGED <<g_umouse_present, seen, usb, s_hid_evtq, starting, tries, ble, plugs>>

Read(t) ==
  /\ at[t] \in {"inc", "dec"}
  /\ seen' = [seen EXCEPT ![t] = g_umouse_present]
  /\ at' = [at EXCEPT ![t] = IF @ = "inc" THEN "put inc" ELSE "put dec"]
  /\ UNCHANGED <<g_umouse_present, usb, s_hid_evtq, starting, tries, ble, plugs>>

Write(t) ==
  /\ at[t] \in {"put inc", "put dec"}
  /\ g_umouse_present' = IF at[t] = "put inc" THEN seen[t] + 1 ELSE seen[t] - 1
  /\ at' = [at EXCEPT ![t] = "idle"]
  /\ UNCHANGED <<seen, usb, s_hid_evtq, starting, tries, ble, plugs>>

-----------------------------------------------------------------------------
(* USB. *)

(* hid_dev_cb(), on the driver's task. *)
Plug(m) ==
  /\ at["driver"] = "idle"
  /\ usb[m] = "out" /\ plugs < MaxPlugs
  /\ usb' = [usb EXCEPT ![m] = "in"] /\ plugs' = plugs + 1
  /\ s_hid_evtq' = Append(s_hid_evtq, m)
  /\ UNCHANGED <<count, starting, tries, ble>>

(* hid_iface_cb() with DISCONNECTED, which only an opened device sends. *)
Unplug(m) ==
  /\ usb[m] # "out"
  /\ usb' = [usb EXCEPT ![m] = "out"]
  /\ IF usb[m] = "open" THEN Calls("driver", "test") ELSE at["driver"] = "idle" /\ UNCHANGED at
  /\ UNCHANGED <<g_umouse_present, seen, s_hid_evtq, starting, tries, ble, plugs>>

(* hid_dev_event(): hid_host_device_get_params() fails for a mouse that is *)
(* gone, and hid_host_device_open() finds one that is there.               *)
Open ==
  /\ at["hid_task"] = "idle" /\ starting = NoMouse
  /\ s_hid_evtq # <<>>
  /\ s_hid_evtq' = Tail(s_hid_evtq)
  /\ LET m == Head(s_hid_evtq)
     IN  IF usb[m] = "in"
         THEN usb' = [usb EXCEPT ![m] = "open"] /\ starting' = m /\ tries' = 0
         ELSE UNCHANGED <<usb, starting, tries>>
  /\ UNCHANGED <<count, ble, plugs>>

(* hid_host_device_start() may fail, for a mouse that is gone it does. *)
Start ==
  /\ starting # NoMouse
  /\ usb[starting] = "open"
  /\ Calls("hid_task", "inc")
  /\ starting' = NoMouse
  /\ UNCHANGED <<g_umouse_present, seen, usb, s_hid_evtq, tries, ble, plugs>>

StartFails ==
  /\ starting # NoMouse
  /\ tries' = tries + 1
  /\ starting' = IF tries' = Retries THEN NoMouse ELSE starting
  /\ UNCHANGED <<count, usb, s_hid_evtq, ble, plugs>>

-----------------------------------------------------------------------------
(* Bluetooth. *)

Connect(m) ==
  /\ ble[m] = "off" /\ plugs < MaxPlugs
  /\ ble' = [ble EXCEPT ![m] = "link"] /\ plugs' = plugs + 1
  /\ UNCHANGED <<count, usb, s_hid_evtq, starting, tries>>

(* handle_open() *)
HandleOpen(m) ==
  /\ ble[m] = "link"
  /\ Calls("hidh", "inc")
  /\ ble' = [ble EXCEPT ![m] = "open"]
  /\ UNCHANGED <<g_umouse_present, seen, usb, s_hid_evtq, starting, tries, plugs>>

LinkLost(m) ==
  /\ ble[m] = "open"
  /\ ble' = [ble EXCEPT ![m] = "closed"]
  /\ UNCHANGED <<count, usb, s_hid_evtq, starting, tries, plugs>>

(* handle_close() *)
HandleClose(m) ==
  /\ ble[m] = "closed"
  /\ Calls("hidh", "test")
  /\ ble' = [ble EXCEPT ![m] = "off"]
  /\ UNCHANGED <<g_umouse_present, seen, usb, s_hid_evtq, starting, tries, plugs>>

Next ==
  \/ \E t \in Task : Test(t) \/ Read(t) \/ Write(t)
  \/ \E m \in UsbMice : Plug(m) \/ Unplug(m)
  \/ Open \/ Start \/ StartFails
  \/ \E m \in BleMice : Connect(m) \/ HandleOpen(m) \/ LinkLost(m) \/ HandleClose(m)

Spec == Init /\ [][Next]_vars

-----------------------------------------------------------------------------
(* What hid_input.h:40-42 says of the count: a USB mouse unplugged while a *)
(* Bluetooth one is still paired keeps working, that is mousemng_getstat() *)
(* does not report the neutral state.                                      *)
PairedMouseWorks ==
  /\ \A t \in Task : at[t] = "idle"
  /\ \E m \in BleMice : ble[m] = "open"
  => g_umouse_present # 0
=============================================================================

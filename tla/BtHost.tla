------------------------------- MODULE BtHost -------------------------------
(***************************************************************************)
(* The Bluetooth LE host of bt_hid.cpp.  Three tasks share its state: the  *)
(* worker, which opens scan windows and connects; the GAP callback, which  *)
(* gets scan results and the ends of scans; and the event loop of          *)
(* esp_hidh, which gets devices opened and closed and keeps the table.     *)
(* Around them are the peripherals, which come and go, and the radio.      *)
(*                                                                         *)
(* Reports, descriptors, pairing and the bond list are left out.  Callbacks*)
(* may be late, but a sleep of the worker, two seconds at least, outlasts  *)
(* those that are due.                                                     *)
(***************************************************************************)
EXTENDS Integers, Sequences, FiniteSets

CONSTANTS
  Devs,         \* the peripherals around
  Keyboards,    \* those that send keyboard reports
  Mice,         \* those whose descriptor has both axes
  Reliable,     \* those that are heard and answer in the end
  NoDev,
  BT_MAX_DEV,
  FoundLen,     \* length of s_found_q: 8
  MaxGap        \* bound on scan results on their way to the callback

ASSUME BtAssumption ==
  /\ Keyboards \cup Mice = Devs /\ NoDev \notin Devs
  /\ Reliable \subseteq Devs
  /\ BT_MAX_DEV \in Nat \ {0} /\ FoundLen \in Nat \ {0} /\ MaxGap \in Nat \ {0}
  /\ {"cmpl", "stopped"} \cap Devs = {}

VARIABLES
  worker,       \* where bt_worker is
  f,            \* the peripheral it connects to
  s_scanning,
  radio,        \* whether the controller scans
  gap,          \* GAP events on their way to bt_gap_cb
  s_found_q,
  link,         \* what each peripheral does: off, adv(ertising) or up
  hidh,         \* esp_hidh events on their way to bt_hidh_cb
  s_dev,        \* the table: the device of each slot, or NoDev
  g_umouse_present,
  grace         \* esp_timer_get_time() < s_scan_until

vars == <<worker, f, s_scanning, radio, gap, s_found_q, link, hidh, s_dev,
          g_umouse_present, grace>>
table == <<s_dev, g_umouse_present>>

Slots == 1 .. BT_MAX_DEV
Sleeps == {"idle", "slow", "slowKbd", "pause"}

Attached == {s_dev[i] : i \in Slots} \ {NoDev}
dev_count == Cardinality({i \in Slots : s_dev[i] # NoDev})
dev_known_bda(d) == d \in Attached
s_have_kbd_now == Attached \cap Keyboards # {}
have_everything == s_have_kbd_now /\ Attached \cap Mice # {}

Init ==
  /\ worker = "boot" /\ f = NoDev
  /\ s_scanning = FALSE /\ radio = FALSE
  /\ gap = << >> /\ s_found_q = << >> /\ hidh = << >>
  /\ link \in [Devs -> {"off", "adv"}]
  /\ s_dev = [i \in Slots |-> NoDev] /\ g_umouse_present = 0
  /\ grace = TRUE

-----------------------------------------------------------------------------
(* The peripherals, the radio and the clock.                               *)

Power(d) ==
  /\ link[d] \in {"off", "adv"}
  /\ link' = [link EXCEPT ![d] = IF @ = "off" THEN "adv" ELSE "off"]
  /\ UNCHANGED <<worker, f, s_scanning, radio, gap, s_found_q, hidh, table, grace>>

LinkLost(d) ==
  /\ link[d] = "up"
  /\ \E s \in {"off", "adv"} : link' = [link EXCEPT ![d] = s]
  /\ hidh' = Append(hidh, [event |-> "close", dev |-> d])
  /\ UNCHANGED <<worker, f, s_scanning, radio, gap, s_found_q, table, grace>>

(* An advertisement is heard, and a scan result is under way. *)
Heard(d) ==
  /\ radio /\ link[d] = "adv" /\ Len(gap) < MaxGap
  /\ gap' = Append(gap, d)
  /\ UNCHANGED <<worker, f, s_scanning, radio, s_found_q, link, hidh, table, grace>>

(* The scan window has passed. *)
WindowEnds ==
  /\ radio /\ radio' = FALSE /\ gap' = Append(gap, "cmpl")
  /\ UNCHANGED <<worker, f, s_scanning, s_found_q, link, hidh, table, grace>>

GraceEnds ==
  /\ grace /\ worker # "boot" /\ grace' = FALSE
  /\ UNCHANGED <<worker, f, s_scanning, radio, gap, s_found_q, link, hidh, table>>

-----------------------------------------------------------------------------
(* The GAP callback.                                                       *)

Result ==
  /\ gap # << >> /\ Head(gap) \in Devs /\ gap' = Tail(gap)
  /\ s_found_q' = IF dev_known_bda(Head(gap)) \/ Len(s_found_q) = FoundLen
                    THEN s_found_q ELSE Append(s_found_q, Head(gap))
  /\ UNCHANGED <<worker, f, s_scanning, radio, link, hidh, table, grace>>

(* INQ_CMPL and SCAN_STOP_COMPLETE. *)
ScanOver ==
  /\ gap # << >> /\ Head(gap) \in {"cmpl", "stopped"} /\ gap' = Tail(gap)
  /\ s_scanning' = FALSE
  /\ UNCHANGED <<worker, f, radio, s_found_q, link, hidh, table, grace>>

-----------------------------------------------------------------------------
(* The event loop of esp_hidh.                                             *)

IfMouse(d) == IF d \in Mice THEN 1 ELSE 0

(* A device without a slot is closed again, and says so. *)
handle_open ==
  LET d == Head(hidh).dev
      free == {i \in Slots : s_dev[i] = NoDev}
  IN /\ hidh # << >> /\ Head(hidh).event = "open"
     /\ IF free = {}
          THEN /\ link' = [link EXCEPT ![d] = IF @ = "up" THEN "adv" ELSE @]
               /\ hidh' = IF link[d] = "up"
                            THEN Append(Tail(hidh), [event |-> "close", dev |-> d])
                            ELSE Tail(hidh)
               /\ UNCHANGED <<table, grace>>
          ELSE /\ hidh' = Tail(hidh)
               /\ s_dev' = [s_dev EXCEPT ![CHOOSE i \in free : TRUE] = d]
               /\ g_umouse_present' = g_umouse_present + IfMouse(d)
               /\ grace' = TRUE /\ UNCHANGED link
     /\ UNCHANGED <<worker, f, s_scanning, radio, gap, s_found_q>>

(* Mutant: the slot is freed, the mouse still counts. *)
HandleCloseCounted ==
  LET d == Head(hidh).dev IN
    /\ hidh # << >> /\ Head(hidh).event = "close" /\ hidh' = Tail(hidh)
    /\ s_dev' = [i \in Slots |-> IF s_dev[i] = d THEN NoDev ELSE s_dev[i]]
    /\ UNCHANGED <<worker, f, s_scanning, radio, gap, s_found_q, link,
                   g_umouse_present, grace>>

handle_close ==
  LET d == Head(hidh).dev
      was == IF dev_known_bda(d) THEN IfMouse(d) ELSE 0
  IN /\ hidh # << >> /\ Head(hidh).event = "close" /\ hidh' = Tail(hidh)
     /\ s_dev' = [i \in Slots |-> IF s_dev[i] = d THEN NoDev ELSE s_dev[i]]
     /\ g_umouse_present' = IF was <= g_umouse_present
                              THEN g_umouse_present - was ELSE g_umouse_present
     /\ UNCHANGED <<worker, f, s_scanning, radio, gap, s_found_q, link, grace>>

-----------------------------------------------------------------------------
(* The worker.                                                             *)

(* esp_ble_gap_stop_scanning(): the event that answers it comes later. *)
StopScanning == radio' = FALSE /\ gap' = Append(gap, "stopped")

StackUp ==
  /\ worker = "boot"
  /\ worker' \in {"top", "dead"}       \* dead: no memory, or no scan parameters
  /\ UNCHANGED <<f, s_scanning, radio, gap, s_found_q, link, hidh, table, grace>>

(* Mutant: with a keyboard in and the grace period over, it gives up. *)
TopGivesUp ==
  /\ worker = "top"
  /\ worker' = IF have_everything \/ dev_count >= BT_MAX_DEV
                    \/ (s_have_kbd_now /\ ~grace) THEN "idle"
               ELSE IF dev_count = 0 /\ ~grace THEN "slow"
               ELSE "start"
  /\ UNCHANGED <<f, s_scanning, radio, gap, s_found_q, link, hidh, table, grace>>

(* Whether to scan at all, now or after a long sleep. *)
Top ==
  /\ worker = "top"
  /\ worker' = IF have_everything \/ dev_count >= BT_MAX_DEV THEN "idle"
               ELSE IF dev_count = 0 /\ ~grace THEN "slow"
               ELSE IF s_have_kbd_now /\ ~grace THEN "slowKbd"
               ELSE "start"
  /\ UNCHANGED <<f, s_scanning, radio, gap, s_found_q, link, hidh, table, grace>>

(* The sleeps outlast the callbacks that are due. *)
Wake ==
  /\ worker \in Sleeps /\ gap = << >> /\ hidh = << >>
  /\ worker' = CASE worker = "slow" -> "start"
                 [] worker = "slowKbd" ->
                      IF have_everything \/ dev_count >= BT_MAX_DEV
                        THEN "top" ELSE "start"
                 [] OTHER -> "top"
  /\ UNCHANGED <<f, s_scanning, radio, gap, s_found_q, link, hidh, table, grace>>

SetScanning ==
  /\ worker = "start" /\ worker' = "scan" /\ s_scanning' = TRUE
  /\ UNCHANGED <<f, radio, gap, s_found_q, link, hidh, table, grace>>

StartScanning ==
  /\ worker = "scan" /\ worker' = "window" /\ radio' = TRUE
  /\ UNCHANGED <<f, s_scanning, gap, s_found_q, link, hidh, table, grace>>

StartFails ==
  /\ worker = "scan" /\ worker' = "pause" /\ s_scanning' = FALSE
  /\ UNCHANGED <<f, radio, gap, s_found_q, link, hidh, table, grace>>

(* Mutant: the window is left open. *)
ReceiveOpen ==
  /\ worker = "window" /\ s_found_q # << >>
  /\ f' = Head(s_found_q) /\ s_found_q' = Tail(s_found_q)
  /\ worker' = IF dev_known_bda(f') THEN "window" ELSE "stopping"
  /\ UNCHANGED <<s_scanning, radio, gap, link, hidh, table, grace>>

(* A hit ends the window, unless the device is in by now. *)
Receive ==
  /\ worker = "window" /\ s_found_q # << >>
  /\ f' = Head(s_found_q) /\ s_found_q' = Tail(s_found_q)
  /\ IF dev_known_bda(f')
       THEN worker' = "window" /\ UNCHANGED <<radio, gap>>
       ELSE /\ worker' = "stopping"
            /\ IF s_scanning THEN StopScanning ELSE UNCHANGED <<radio, gap>>
  /\ UNCHANGED <<s_scanning, link, hidh, table, grace>>

(* No hit in 200 ms; has the window expired? *)
NoHit ==
  /\ worker = "window" /\ s_found_q = << >> /\ worker' = "check"
  /\ UNCHANGED <<f, s_scanning, radio, gap, s_found_q, link, hidh, table, grace>>
Check ==
  /\ worker = "check" /\ worker' = IF s_scanning THEN "window" ELSE "close"
  /\ UNCHANGED <<f, s_scanning, radio, gap, s_found_q, link, hidh, table, grace>>

(* The deadline is two seconds behind the window: a hit is out by then. *)
Deadline ==
  /\ worker = "window" /\ ~radio /\ s_found_q = << >> /\ worker' = "close"
  /\ UNCHANGED <<f, s_scanning, radio, gap, s_found_q, link, hidh, table, grace>>

(* The scan has stopped, or half a second has passed. *)
Settle ==
  /\ worker = "stopping" /\ worker' = "open" /\ s_scanning' = FALSE
  /\ UNCHANGED <<f, radio, gap, s_found_q, link, hidh, table, grace>>

(* esp_hidh_dev_open() returns with the link up, the event posted, or not; *)
(* it waits for the answer from the task that runs the GAP callback.       *)
Opened(d) ==
  /\ worker = "open" /\ f = d /\ link[d] = "adv" /\ gap = << >>
  /\ link' = [link EXCEPT ![d] = "up"]
  /\ hidh' = Append(hidh, [event |-> "open", dev |-> d])
  /\ worker' = "close"
  /\ UNCHANGED <<f, s_scanning, radio, gap, s_found_q, table, grace>>

NotOpened ==
  /\ worker = "open" /\ gap = << >> /\ worker' = "close"
  /\ UNCHANGED <<f, s_scanning, radio, gap, s_found_q, link, hidh, table, grace>>

Close ==
  /\ worker = "close" /\ worker' = IF have_everything THEN "top" ELSE "pause"
  /\ IF s_scanning THEN StopScanning ELSE UNCHANGED <<radio, gap>>
  /\ s_found_q' = << >> /\ f' = NoDev
  /\ UNCHANGED <<s_scanning, link, hidh, table, grace>>

-----------------------------------------------------------------------------
Worker ==
  \/ StackUp \/ Top \/ Wake \/ SetScanning \/ StartScanning \/ StartFails
  \/ Receive \/ NoHit \/ Check \/ Deadline \/ Settle
  \/ (\E d \in Devs : Opened(d)) \/ NotOpened \/ Close
GapCb == Result \/ ScanOver
HidhCb == handle_open \/ handle_close
World == (\E d \in Devs : Power(d) \/ LinkLost(d) \/ Heard(d)) \/ WindowEnds \/ GraceEnds

Next == Worker \/ GapCb \/ HidhCb \/ World

(* The tasks are scheduled, scan windows pass, and scans can be started.   *)
(* A reliable peripheral that keeps advertising is at times the first that *)
(* is heard in a window, while the worker waits, and at times it answers.  *)
Waiting == worker = "window" /\ s_found_q = << >>
HeardFirst(d) == Waiting /\ gap = << >> /\ Heard(d)
HitInTime(d) == Waiting /\ gap # << >> /\ Head(gap) = d /\ Result
Fairness ==
  /\ WF_vars(Worker) /\ WF_vars(GapCb) /\ WF_vars(HidhCb) /\ WF_vars(WindowEnds)
  /\ SF_vars(StartScanning)
  /\ \A d \in Reliable :
       SF_vars(HeardFirst(d)) /\ SF_vars(HitInTime(d)) /\ SF_vars(Opened(d))

Spec == Init /\ [][Next]_vars /\ Fairness

-----------------------------------------------------------------------------
(* Every variable has the shape the code gives it. *)
TypeOK ==
  /\ worker \in {"boot", "dead", "top", "start", "scan", "window", "check",
                 "stopping", "open", "close"} \cup Sleeps
  /\ f \in Devs \cup {NoDev}
  /\ s_scanning \in BOOLEAN /\ radio \in BOOLEAN /\ grace \in BOOLEAN
  /\ gap \in Seq(Devs \cup {"cmpl", "stopped"}) /\ Len(gap) <= MaxGap + 2
  /\ s_found_q \in Seq(Devs) /\ Len(s_found_q) <= FoundLen
  /\ link \in [Devs -> {"off", "adv", "up"}]
  /\ hidh \in Seq([event : {"open", "close"}, dev : Devs])
  /\ s_dev \in [Slots -> Devs \cup {NoDev}]
  /\ g_umouse_present \in 0 .. Cardinality(Mice)

(* The table is the links: when no event of esp_hidh is under way, the     *)
(* devices in it are those whose link is up, each in one slot, and the     *)
(* mice among them are those that count as present.                        *)
TableSound ==
  /\ \A i, j \in Slots : s_dev[i] = s_dev[j] /\ s_dev[i] # NoDev => i = j
  /\ g_umouse_present = Cardinality(Attached \cap Mice)
  /\ hidh = << >> => Attached = {d \in Devs : link[d] = "up"}

(* While the worker sleeps or connects, the radio does not scan: the       *)
(* comments say that scanning disturbs the panel and the SD card, and that *)
(* connecting during a scan upsets the controller.                         *)
RadioRests == worker \in Sleeps \cup {"open"} => ~radio

(* A reliable peripheral that is there is in the table again and again,    *)
(* unless there is nothing left to scan for or Bluetooth never came up:    *)
(* the comment says that a mouse switched on late must still be found.     *)
DeviceComesBack ==
  \A d \in Reliable :
    <>[](link[d] # "off") =>
      []<>(d \in Attached \/ have_everything \/ dev_count = BT_MAX_DEV
           \/ worker = "dead")
=============================================================================

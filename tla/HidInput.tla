------------------------------ MODULE HidInput ------------------------------
(***************************************************************************)
(* Keyboard input: HID reports of USB and BLE keyboards, diffed against    *)
(* the previous report of the same transport (hid_kbd_report), queued as   *)
(* key events (kq_push), and drained by the emulator loop into the PC-98   *)
(* key matrix, or by the disk menu, which keeps nothing of what it does    *)
(* not understand.                                                         *)
(*                                                                         *)
(* One report is diffed by one task without interleaving on its own        *)
(* prevkeys, but its events enter the queue one at a time, between those   *)
(* of the other transport and the pops of the loop.                        *)
(***************************************************************************)
EXTENDS Naturals, Sequences, FiniteSets

CONSTANTS
  Devices,        \* keyboards
  Sources,        \* transports: HID_SRC_USB, HID_SRC_BT
  SrcOf,          \* the transport of each keyboard
  ModTable,       \* the modifier usages in the order hid_kbd_report tests them
  Keys,           \* the other usages, the menu keys included
  MenuKeys,       \* Pause, F11, F12
  NKeyOf,         \* s_hid2nkey and the nkeys of the modifiers
  NoKey,          \* 0xff
  Esc,            \* NK_ESC
  QueueLen,       \* 64 in the code
  MaxReports      \* bound on the number of reports and returns of a keyboard

Mods == {ModTable[i] : i \in DOMAIN ModTable}
NKeys == {NKeyOf[u] : u \in Mods \cup Keys} \ {NoKey}

ASSUME HidAssumption ==
  /\ IsFiniteSet(Devices) /\ SrcOf \in [Devices -> Sources]
  /\ ModTable \in Seq(Mods)
  /\ MenuKeys \subseteq Keys
  /\ Mods \cap Keys = {}
  /\ DOMAIN NKeyOf = Mods \cup Keys
  /\ IsFiniteSet(Mods \cup Keys)
  /\ \A u \in MenuKeys : NKeyOf[u] = NoKey
  /\ \A u \in Mods : NKeyOf[u] # NoKey
  /\ QueueLen \in Nat \ {0}
  /\ MaxReports \in Nat

VARIABLES
  plugged,        \* the keyboards that are connected
  held,           \* what each keyboard's last report said
  prev,           \* s_prevmod and s_prevkeys, per transport
  pend,           \* what the report being handled has still to push
  s_kq,           \* the key event queue
  g_menu_req,
  loop,           \* where the emulator loop is: top, drain, menu
  ref,            \* keystat.ref: the keys down in the PC-98 matrix
  reports,        \* number of reports and returns so far
  lost,           \* history: the keys whose last event found the queue full
  ate,            \* history: the keys whose last event out of the queue went
                  \* to the menu
  clash           \* history: two holders of one key, or two keyboards of one
                  \* transport at once, or a key that changed hands

vars == <<plugged, held, prev, pend, s_kq, g_menu_req, loop, ref, reports,
          lost, ate, clash>>

Event == [key : NKeys, down : BOOLEAN]

(* What a report asks for: a key event, or, with no key, the menu. *)
Request == [key : NKeys \cup {NoKey}, down : BOOLEAN]

Init ==
  /\ plugged = Devices
  /\ held = [d \in Devices |-> {}]
  /\ prev = [s \in Sources |-> {}]
  /\ pend = [s \in Sources |-> << >>]
  /\ s_kq = << >>
  /\ g_menu_req = FALSE
  /\ loop = "top"
  /\ ref = {}
  /\ reports = 0
  /\ lost = {} /\ ate = {} /\ clash = FALSE

-----------------------------------------------------------------------------
(* hid_kbd_report() *)

(* What the report changes: modifiers and keys with an nkey, and menu keys *)
(* that go down; the release of a menu key has no nkey and pushes nothing. *)
Changed(was, now) ==
  {u \in (was \ now) \cup (now \ was) : NKeyOf[u] # NoKey \/ u \in MenuKeys \cap now}

(* Modifiers first, bit by bit in the order of the table, then the keys    *)
(* that went up, then the ones that went down, each in some slot order.    *)
Rank(u, now) ==
  IF u \in Mods THEN CHOOSE i \in DOMAIN ModTable : ModTable[i] = u
  ELSE IF u \in now THEN Len(ModTable) + 2 ELSE Len(ModTable) + 1

Orders(was, now) ==
  LET C == Changed(was, now)
  IN  {order \in [1 .. Cardinality(C) -> C] :
         /\ \A u \in C : \E i \in DOMAIN order : order[i] = u
         /\ \A i, j \in DOMAIN order : i < j => Rank(order[i], now) <= Rank(order[j], now)}

EventOf(u, now) == [key |-> NKeyOf[u], down |-> u \in now]

EventSeqs(was, now) ==
  {[i \in DOMAIN order |-> EventOf(order[i], now)] : order \in Orders(was, now)}

HeldBy(h, k) ==
  {p \in Devices \X (Mods \cup Keys) : p[2] \in h[p[1]] /\ NKeyOf[p[2]] = k}

KeysOf(usages) == {NKeyOf[u] : u \in usages} \ {NoKey}

(* An event of the key is still to be pushed by the other transport. *)
InFlight(s, k) == \E i \in DOMAIN pend[s] : pend[s][i].key = k

(* The key passes from one usage to another whose press comes before the   *)
(* first one's release: from Right Shift to Left Shift, say.               *)
Handover(was, now) ==
  \E u \in was \ now, v \in now \ was :
    NKeyOf[u] = NKeyOf[v] /\ NKeyOf[u] # NoKey /\ Rank(v, now) < Rank(u, now)

Report(d, now) ==
  LET s == SrcOf[d]
      h == [held EXCEPT ![d] = now]
  IN  /\ pend[s] = << >>
      /\ held' = h
      /\ prev' = [prev EXCEPT ![s] = now]
      /\ \E events \in EventSeqs(prev[s], now) : pend' = [pend EXCEPT ![s] = events]
      /\ clash' = \/ clash
                  \/ \E k \in NKeys : Cardinality(HeldBy(h, k)) > 1
                  \/ \E e \in Devices \ {d} : SrcOf[e] = s /\ h[e] # {}
                  \/ Handover(prev[s], now)
                  \/ \E k \in KeysOf(prev[s] \cup now), t \in Sources \ {s} : InFlight(t, k)
      /\ UNCHANGED <<s_kq, g_menu_req, loop, ref, lost, ate>>

(* A keyboard sends a report: any set of modifiers and keys. *)
KeyReport(d) ==
  /\ d \in plugged
  /\ reports < MaxReports
  /\ reports' = reports + 1
  /\ \E now \in SUBSET (Mods \cup Keys) : Report(d, now)
  /\ UNCHANGED plugged

(* Mutant: nothing is released for a keyboard that goes away. *)
UnplugSilently(d) ==
  /\ d \in plugged
  /\ plugged' = plugged \ {d}
  /\ held' = [held EXCEPT ![d] = {}]
  /\ UNCHANGED <<prev, pend, s_kq, g_menu_req, loop, ref, reports, lost, ate, clash>>

(* The keyboard goes away: hid_iface_cb(DISCONNECTED) and handle_close()   *)
(* feed an all-zero report on its behalf.                                  *)
Unplug(d) ==
  /\ d \in plugged
  /\ plugged' = plugged \ {d}
  /\ Report(d, {})
  /\ UNCHANGED reports

(* It comes back: nothing of the previous reports is looked at. *)
Plug(d) ==
  /\ d \in Devices \ plugged
  /\ reports < MaxReports
  /\ plugged' = plugged \cup {d}
  /\ reports' = reports + 1
  /\ UNCHANGED <<held, prev, pend, s_kq, g_menu_req, loop, ref, lost, ate, clash>>

(* Mutant: the queue has no end. *)
PushUnbounded(s) ==
  LET e == Head(pend[s])
  IN  /\ pend[s] # << >>
      /\ pend' = [pend EXCEPT ![s] = Tail(@)]
      /\ IF e.key = NoKey
         THEN g_menu_req' = TRUE /\ UNCHANGED s_kq
         ELSE s_kq' = Append(s_kq, e) /\ UNCHANGED g_menu_req
      /\ UNCHANGED <<plugged, held, prev, loop, ref, reports, lost, ate, clash>>

(* kq_push(): no wait, and a full queue drops the event. *)
Push(s) ==
  LET e == Head(pend[s])
  IN  /\ pend[s] # << >>
      /\ pend' = [pend EXCEPT ![s] = Tail(@)]
      /\ IF e.key = NoKey
         THEN g_menu_req' = TRUE /\ UNCHANGED <<s_kq, lost>>
         ELSE IF Len(s_kq) < QueueLen
         THEN /\ s_kq' = Append(s_kq, e)
              /\ lost' = lost \ {e.key}
              /\ UNCHANGED g_menu_req
         ELSE lost' = lost \cup {e.key} /\ UNCHANGED <<s_kq, g_menu_req>>
      /\ UNCHANGED <<plugged, held, prev, loop, ref, reports, ate, clash>>

-----------------------------------------------------------------------------
(* The emulator loop. *)

(* Mutant: the request is cleared and not acted on. *)
LoopTopForgets ==
  /\ loop = "top"
  /\ loop' = "drain"
  /\ g_menu_req' = FALSE
  /\ UNCHANGED <<plugged, held, prev, pend, s_kq, ref, reports, lost, ate, clash>>

LoopTop ==
  /\ loop = "top"
  /\ loop' = IF g_menu_req THEN "menu" ELSE "drain"
  /\ g_menu_req' = FALSE
  /\ UNCHANGED <<plugged, held, prev, pend, s_kq, ref, reports, lost, ate, clash>>

(* keystat_keydown() / keystat_keyup(): down again while down stays down,  *)
(* up of a key that is up does nothing.  (The locking CAPS and KANA, which *)
(* change at each press, are left out: they are no Keys.)                  *)
Keystat(e) == IF e.down THEN ref \cup {e.key} ELSE ref \ {e.key}

(* Mutant: one event per frame, the rest of the queue is flushed. *)
DrainPopFlushes ==
  /\ loop = "drain"
  /\ s_kq # << >>
  /\ ref' = Keystat(Head(s_kq))
  /\ s_kq' = << >>
  /\ ate' = ate \ {Head(s_kq).key}
  /\ UNCHANGED <<plugged, held, prev, pend, g_menu_req, loop, reports, lost, clash>>

(* while (usb_kbd_pop(&nk, &dn)) ... *)
DrainPop ==
  /\ loop = "drain"
  /\ s_kq # << >>
  /\ ref' = Keystat(Head(s_kq))
  /\ s_kq' = Tail(s_kq)
  /\ ate' = ate \ {Head(s_kq).key}
  /\ UNCHANGED <<plugged, held, prev, pend, g_menu_req, loop, reports, lost, clash>>

(* The queue is empty: pccore_exec() runs, and the loop comes round. *)
DrainEnd ==
  /\ loop = "drain"
  /\ s_kq = << >>
  /\ loop' = "top"
  /\ UNCHANGED <<plugged, held, prev, pend, s_kq, g_menu_req, ref, reports, lost,
                 ate, clash>>

(* Mutant: the menu takes presses only. *)
MenuPopPresses ==
  /\ loop = "menu"
  /\ s_kq # << >>
  /\ Head(s_kq).down
  /\ s_kq' = Tail(s_kq)
  /\ ate' = ate \cup {Head(s_kq).key}
  /\ \/ UNCHANGED loop
     \/ Head(s_kq).key = Esc /\ loop' = "drain"
  /\ UNCHANGED <<plugged, held, prev, pend, g_menu_req, ref, reports, lost, clash>>

(* The menu's loops pop every event; only a press means anything to them,  *)
(* and ESC leaves the menu or one of its lists.  The loop then goes on to  *)
(* the drain, with whatever is left in the queue.                          *)
MenuPop ==
  /\ loop = "menu"
  /\ s_kq # << >>
  /\ s_kq' = Tail(s_kq)
  /\ ate' = ate \cup {Head(s_kq).key}
  /\ \/ UNCHANGED loop
     \/ Head(s_kq).down /\ Head(s_kq).key = Esc /\ loop' = "drain"
  /\ UNCHANGED <<plugged, held, prev, pend, g_menu_req, ref, reports, lost, clash>>

-----------------------------------------------------------------------------
Next ==
  \/ \E d \in Devices : KeyReport(d) \/ Unplug(d) \/ Plug(d)
  \/ \E s \in Sources : Push(s)
  \/ LoopTop \/ DrainPop \/ DrainEnd \/ MenuPop

(* The HID tasks finish the report they handle, and the loop keeps going   *)
(* round, in the menu as outside.  Nobody has to press a key.              *)
Fairness ==
  /\ \A s \in Sources : WF_vars(Push(s))
  /\ WF_vars(LoopTop \/ DrainPop \/ DrainEnd \/ MenuPop)

Spec == Init /\ [][Next]_vars /\ Fairness

-----------------------------------------------------------------------------
TypeOK ==
  /\ plugged \subseteq Devices
  /\ held \in [Devices -> SUBSET (Mods \cup Keys)]
  /\ prev \in [Sources -> SUBSET (Mods \cup Keys)]
  /\ pend \in [Sources -> Seq(Request)]
  /\ s_kq \in Seq(Event) /\ Len(s_kq) <= QueueLen
  /\ g_menu_req \in BOOLEAN
  /\ loop \in {"top", "drain", "menu"}
  /\ ref \subseteq NKeys
  /\ reports \in 0 .. MaxReports
  /\ lost \subseteq NKeys /\ ate \subseteq NKeys /\ clash \in BOOLEAN

(* Nothing is on its way between the keyboards and the matrix. *)
Quiet == s_kq = << >> /\ \A s \in Sources : pend[s] = << >>

HeldKeys == KeysOf(UNION {held[d] : d \in Devices})

(* Whatever the order in which reports, unplugs, pushes and pops happen,   *)
(* once nothing is in flight no key is down in the matrix that no keyboard *)
(* holds.  A release that finds the queue full, or that the menu takes, is *)
(* never repeated: such a key may stay down, but no other does, and its    *)
(* own next event that gets through puts it right.                         *)
NoStuckKey == Quiet => ref \ (lost \cup ate) \subseteq HeldKeys

(* And every held key is down, with the same exception, as long as no two  *)
(* keyboards or usages shared a key, and no usage took a key over that was *)
(* released after it.                                                      *)
HeldKeysDown == (Quiet /\ ~clash) => HeldKeys \ (lost \cup ate) \subseteq ref

(* A menu key always opens the menu, and a silent keyboard leaves nothing  *)
(* behind in the queue.                                                    *)
MenuOpens == (g_menu_req /\ loop # "menu") ~> (loop = "menu")

EventsDrain == <>[]Quiet

(* usb_kbd.cpp and bt_hid.cpp say of the all-zero report on disconnect     *)
(* that it keeps a key from staying down for good: with every keyboard     *)
(* gone, no key is down.                                                   *)
NoKeyWithoutKeyboard ==
  (plugged = {} /\ Quiet /\ lost = {}) => ref = {}
=============================================================================

----------------------------- MODULE GuestBoard -----------------------------
(***************************************************************************)
(* The emulated machine around its CPU: pccore_exec()'s loop, the event    *)
(* list (Nevent), the interrupt controllers (Pic), the keyboard interface  *)
(* (Keybrd), the system timer and the vertical sync, under a guest program *)
(* that may do what programs do with them.  The emulator loop sends keys   *)
(* and changes the CPU's clock between frames.                             *)
(*                                                                         *)
(* Clocks are scaled to small numbers; the bytes of keys are numbered      *)
(* modulo Ids, which is more than the interface holds.                     *)
(***************************************************************************)
EXTENDS Nevent, Pic, Keybrd

CONSTANTS
  DispClock, VsyncClock,  \* gdc.dispclock, gdc.vsyncclock, at multiple 1
  Period,         \* the period the guest gives the system timer
  LongPeriod,     \* the one of a count of 0
  MaskClock,      \* after that a tick nobody may take is forgotten
  XferClock,      \* keybrd.xferclock
  Multiples,      \* pccore.multiple: the rows of the menu
  Costs,          \* clocks of an ordinary instruction
  IntCost,        \* clocks of taking an interrupt
  Masks,          \* what the guest masks: a set of [Chip -> SUBSET Lines]
  Rotations,      \* whether its ends of interrupt rotate: a set of BOOLEAN
  Modes,          \* whether the guest makes the timer a rate generator: a set of BOOLEAN
  Device,         \* lines of the slave that a device raises
  Off,            \* no time at all
  Longest,        \* clocks of the longest step of the CPU
  Latest,         \* clocks an event is late at most
  MaxNest,        \* bound on handlers in one another
  MaxSetups     \* bound on what the guest and the menu set up anew

Ids == KbBuf + 2

ASSUME BoardAssumption ==
  /\ Event = {"FLAMES", "ITIMER", "KEYBOARD", "PICMASK"}
  /\ {DispClock, VsyncClock, Period, LongPeriod, MaskClock, XferClock, IntCost} \subseteq Nat \ {0}
  /\ Multiples \subseteq Nat \ {0} /\ Multiples # {}
  /\ Costs \subseteq Nat \ {0}
  /\ Masks \subseteq [Chip -> SUBSET Lines]
  /\ Rotations \subseteq BOOLEAN /\ Modes \subseteq BOOLEAN
  /\ Device \subseteq Lines
  /\ Byte = 0 .. Ids - 1 /\ Reply \cap Byte = {} /\ Reply # {}
  /\ Off \notin Int
  /\ MaxNest \in Nat /\ MaxSetups \in Nat

VARIABLES
  phase,          \* host, irq, exec, progress, call: where the loop is
  nev, pic, kbd,
  pit,            \* channel 0: i is PIT_FLAG_I, rate whether it is a rate generator
  vsyncint,       \* gdc.vsyncint: the guest wants an interrupt at the next vertical sync
  flames,         \* the callback of NEVENT_FLAMES: screenvsync or screendisp
  disp,           \* pcstat.screendispflag: the frame goes on
  multiple,       \* pccore.multiple
  ei,             \* CPU_isEI
  handlers,       \* the guest's interrupt handlers, the running one last
  sti,            \* the last instruction was STI
  prolonged,      \* history: the one after it set the next event, and the CPU runs up to it
  next, heard,    \* history: number of the next byte to accept, to be read
  wanted,         \* history: the guest asked for a vertical sync and got none yet
  wiped,          \* history: ICW1 dropped the request for a byte
  setups          \* bounded by MaxSetups

guest == <<ei, handlers>>
history == <<next, heard, wanted, wiped, setups>>
vars == <<phase, nev, pic, kbd, pit, vsyncint, flames, disp, multiple, guest, sti, prolonged,
          history>>

MasterIrr == pic["master"].irr

(* The machine as its BIOS leaves it: the timer runs, some lines are masked. *)
Init ==
  /\ phase = "host"
  /\ multiple = CHOOSE m \in Multiples : \A k \in Multiples : m <= k
  /\ nev = SetAbsolute(NeventAllReset, "ITIMER", multiple * Period)
  /\ pic \in {PicReset(m) : m \in Masks}
  /\ kbd = KeyboardReset(CHOOSE r \in Reply : TRUE)
  /\ pit = [i |-> TRUE, rate |-> TRUE]
  /\ vsyncint = FALSE /\ flames = "vsync" /\ disp = FALSE
  /\ ei = FALSE /\ handlers = <<>> /\ sti = FALSE
  /\ next = 0 /\ heard = 0 /\ wanted = FALSE /\ wiped = FALSE
  /\ prolonged = FALSE /\ setups = 0

Setup == setups < MaxSetups /\ setups' = setups + 1

-----------------------------------------------------------------------------
(* The emulator loop, between frames. *)

(* keyboard_send() and keyboard_ctrl() make sure that the event is set. *)
KeyboardArmed(n) ==
  IF NeventIsWork(n, "KEYBOARD") THEN n ELSE SetAbsolute(n, "KEYBOARD", multiple * XferClock)

HostKey ==
  /\ phase = "host"
  /\ kbd' = KeyboardSend(kbd, next)
  /\ nev' = IF KeyboardAccepts(kbd) THEN KeyboardArmed(nev) ELSE nev
  /\ next' = IF KeyboardAccepts(kbd) THEN (next + 1) % Ids ELSE next
  /\ UNCHANGED <<phase, pic, pit, vsyncint, flames, disp, multiple, guest, sti,
                 prolonged, heard, wanted, wiped, setups>>

HostSpeed(m) ==
  /\ phase = "host"
  /\ m # multiple
  /\ Setup
  /\ nev' = NeventChangeClock(nev, multiple, m)
  /\ multiple' = m
  /\ UNCHANGED <<phase, pic, kbd, pit, vsyncint, flames, disp, guest, sti,
                 prolonged, next, heard, wanted, wiped>>

(* pccore_exec() begins. *)
HostFrame ==
  /\ phase = "host"
  /\ disp' = TRUE /\ flames' = "vsync"
  /\ nev' = SetRelative(nev, "FLAMES", multiple * DispClock)
  /\ phase' = "irq"
  /\ UNCHANGED <<pic, kbd, pit, vsyncint, multiple, guest, sti, prolonged, history>>

-----------------------------------------------------------------------------
(* The loop: pic_irq(), CPU_EXEC() while clocks remain, nevent_progress(). *)

Spend(n, cost) == [n EXCEPT !.rem = @ - cost]

(* Nobody reads the clock of an event that is neither set nor to be called, *)
(* save that of FLAMES, from which the next frame starts.                   *)
Forgets(n) ==
  [n EXCEPT !.clock = [x \in Event |->
     IF x = "FLAMES" \/ NeventIsWork(n, x) \/ x \in ToSet(n.wait) THEN @[x] ELSE 0]]

Runs(n) ==
  /\ nev' = Forgets(n)
  /\ phase' = IF n.rem > 0 THEN "exec" ELSE "progress"
  /\ prolonged' = (prolonged /\ phase' = "exec")

(* An instruction that sets an event: nevent_set() makes the slice as long *)
(* as the time to the event when that is the next, whatever STI had made it. *)
RunsOn(n) ==
  /\ nev' = Forgets(n)
  /\ phase' = IF n.rem > 0 THEN "exec" ELSE "progress"
  /\ prolonged' = ((prolonged \/ sti) /\ phase' = "exec")

Taken == IF ei THEN PicIrq(pic) ELSE NoIrq

Irq ==
  /\ phase = "irq"
  /\ IF Taken = NoIrq
     THEN Runs(nev) /\ UNCHANGED <<pic, guest>>
     ELSE /\ Runs(Spend(IF Taken = SystemTimer THEN NeventReset(nev, "PICMASK") ELSE nev, IntCost))
          /\ pic' = PicTake(pic, Taken)
          /\ ei' = FALSE
          /\ handlers' = Append(handlers, [irq |-> Taken,
               step |-> IF Taken = Keyboard THEN "serve" ELSE "eoi"])
  /\ wanted' = (wanted /\ Taken # Crtv)
  /\ sti' = FALSE
  /\ UNCHANGED <<kbd, pit, vsyncint, flames, disp, multiple, next, heard, wiped, setups>>

(* Where the loop goes when n is the list, and d whether the frame goes on. *)
Goes(n, d) ==
  /\ nev' = Forgets(n) /\ disp' = d
  /\ phase' = IF n.wait # <<>> THEN "call" ELSE IF d THEN "irq" ELSE "host"

(* A frame without the event that ends it would never end: it ends here. *)
Progress ==
  /\ phase = "progress"
  /\ Goes(NeventProgress(nev), disp /\ NeventIsWork(nev, "FLAMES"))
  /\ sti' = FALSE
  /\ UNCHANGED <<pic, kbd, pit, vsyncint, flames, multiple, guest, prolonged, history>>

-----------------------------------------------------------------------------
(* The callbacks of nevent_execute().  May(x): x still has NEVENT_SETEVENT. *)

Calls(x) == phase = "call" /\ Head(nev.wait) = x
Acts(x) == x \in nev.setevent

(* pic_setirq(0): a tick that the guest masks is forgotten after a while. *)
MaskedTick(n) ==
  IF SystemTimer \in pic["master"].imr /\ pit.rate
  THEN SetAbsolute(n, "PICMASK", multiple * MaskClock) ELSE n

(* No other callback sets ITIMER: it always acts. *)
Systimer ==
  /\ Calls("ITIMER") /\ Acts("ITIMER")
  /\ LET n == IF pit.i THEN MaskedTick(nev) ELSE nev
         period == multiple * (IF pit.rate THEN Period ELSE LongPeriod)
     IN  Goes(NeventCalled(SetRelative(n, "ITIMER", period)), disp)
  /\ pic' = IF pit.i THEN SetIrq(pic, SystemTimer) ELSE pic
  /\ pit' = [pit EXCEPT !.i = pit.rate]
  /\ UNCHANGED <<kbd, vsyncint, flames, multiple, guest, sti, prolonged, history>>

Picmask ==
  /\ Calls("PICMASK")
  /\ Goes(NeventCalled(nev), disp)
  /\ pic' = IF Acts("PICMASK") /\ SystemTimer \in pic["master"].imr
            THEN ResetIrq(pic, SystemTimer) ELSE pic
  /\ UNCHANGED <<kbd, pit, vsyncint, flames, multiple, guest, sti, prolonged, history>>

(* Mutant: no further call once the last byte is out. *)
KeyboardCallbackOnce ==
  /\ Calls("KEYBOARD")
  /\ IF Acts("KEYBOARD") /\ ~KeyboardIdle(kbd)
     THEN /\ kbd' = Receive(kbd)
          /\ pic' = SetIrq(pic, Keyboard)
          /\ Goes(NeventCalled(nev), disp)
          /\ wiped' = FALSE
     ELSE Goes(NeventCalled(nev), disp) /\ UNCHANGED <<kbd, pic, wiped>>
  /\ UNCHANGED <<pit, vsyncint, flames, multiple, guest, sti, prolonged, next, heard,
                 wanted, setups>>

KeyboardCallback ==
  /\ Calls("KEYBOARD")
  /\ IF Acts("KEYBOARD") /\ ~KeyboardIdle(kbd)
     THEN /\ kbd' = Receive(kbd)
          /\ pic' = SetIrq(pic, Keyboard)
          /\ Goes(NeventCalled(SetRelative(nev, "KEYBOARD", multiple * XferClock)), disp)
          /\ wiped' = FALSE
     ELSE Goes(NeventCalled(nev), disp) /\ UNCHANGED <<kbd, pic, wiped>>
  /\ UNCHANGED <<pit, vsyncint, flames, multiple, guest, sti, prolonged, next, heard,
                 wanted, setups>>

(* screenvsync(): a vertical sync that finds one in service is asked for again. *)
Screenvsync ==
  /\ Calls("FLAMES") /\ flames = "vsync"
  /\ pic' = IF vsyncint THEN SetIrq(pic, Crtv) ELSE pic
  /\ vsyncint' = (vsyncint /\ Crtv \in pic["master"].isr)
  /\ flames' = "disp"
  /\ Goes(NeventCalled(SetRelative(nev, "FLAMES", multiple * VsyncClock)), disp)
  /\ UNCHANGED <<kbd, pit, multiple, guest, sti, prolonged, history>>

(* Mutant: the request nobody took is dropped. *)
ScreendispDrops ==
  /\ Calls("FLAMES") /\ flames = "disp"
  /\ pic' = ResetIrq(pic, Crtv)
  /\ Goes(NeventCalled(nev), FALSE)
  /\ UNCHANGED <<kbd, pit, vsyncint, flames, multiple, guest, sti, prolonged, history>>

(* screendisp(): the sync is over; what nobody took waits for the next. *)
Screendisp ==
  /\ Calls("FLAMES") /\ flames = "disp"
  /\ pic' = ResetIrq(pic, Crtv)
  /\ vsyncint' = (vsyncint \/ Crtv \in MasterIrr)
  /\ Goes(NeventCalled(nev), FALSE)
  /\ UNCHANGED <<kbd, pit, flames, multiple, guest, sti, prolonged, history>>

Callback == Systimer \/ Picmask \/ KeyboardCallback \/ Screenvsync \/ Screendisp

-----------------------------------------------------------------------------
(* The guest's instructions. *)

Executes == phase = "exec"
Handler == handlers[Len(handlers)]
Board == <<pit, flames, disp, multiple>>

Run(cost) ==
  /\ Executes
  /\ handlers = <<>>
  /\ Runs(Spend(nev, cost))
  /\ sti' = FALSE
  /\ UNCHANGED <<pic, kbd, vsyncint, Board, guest, history>>

(* HLT: the slice is over.  Until an interrupt comes the CPU finds the same *)
(* HLT again, which is one of the programs the guest may run.               *)
Hlt ==
  /\ Executes
  /\ handlers = <<>>
  /\ Runs([nev EXCEPT !.rem = -1])
  /\ sti' = FALSE
  /\ UNCHANGED <<pic, kbd, vsyncint, Board, guest, history>>

Cli ==
  /\ Executes
  /\ ei
  /\ Runs(Spend(nev, 1))
  /\ ei' = FALSE /\ sti' = FALSE
  /\ UNCHANGED <<pic, kbd, vsyncint, Board, handlers, history>>

PicExistIntr ==
  \E c \in Chip : pic[c].irr \ pic[c].imr # {}

MayNest == Len(handlers) <= MaxNest /\ (handlers # <<>> => Handler.step # "eoi master")

(* Mutant: the CPU does not look for what waits. *)
StiLate ==
  /\ Executes
  /\ ~sti /\ MayNest
  /\ Runs(NextOpcode(Spend(nev, 1)))
  /\ ei' = TRUE /\ sti' = TRUE
  /\ UNCHANGED <<pic, kbd, vsyncint, Board, handlers, history>>

(* STI: the CPU executes one more instruction and then looks at what waits. *)
(* A guest that executes nothing but STI keeps it from ever looking; the    *)
(* guard leaves such a guest out, and one that enables interrupts between   *)
(* its two ends of an interrupt of the slave.                               *)
Sti ==
  /\ Executes
  /\ ~sti /\ MayNest
  /\ Runs(IF ~ei /\ PicExistIntr THEN RemainAdjust(Spend(nev, 1))
          ELSE NextOpcode(Spend(nev, 1)))
  /\ ei' = TRUE /\ sti' = TRUE
  /\ UNCHANGED <<pic, kbd, vsyncint, Board, handlers, history>>

(* pic_o02(): the CPU stops to look when a request becomes free. *)
OutMask(c, dat) ==
  /\ Executes
  /\ handlers = <<>>
  /\ pic' = SetMask(pic, c, dat)
  /\ Runs(IF ei /\ Unmasks(pic, c, dat) THEN NeventForceExit(Spend(nev, 1)) ELSE Spend(nev, 1))
  /\ sti' = FALSE
  /\ UNCHANGED <<kbd, vsyncint, Board, guest, history>>

(* ICW1 to ICW4 of the master, which a guest writes with interrupts off. *)
OutIcw ==
  /\ Executes
  /\ handlers = <<>> /\ ~ei
  /\ Setup
  /\ pic' = Icw1(pic, "master")
  /\ Runs(NeventForceExit(Spend(nev, 1)))
  /\ wanted' = (wanted /\ vsyncint)
  /\ wiped' = (wiped \/ Keyboard \in MasterIrr)
  /\ sti' = FALSE
  /\ UNCHANGED <<kbd, vsyncint, Board, guest, next, heard>>

(* gdc_o64() *)
OutVsync ==
  /\ Executes
  /\ handlers = <<>>
  /\ vsyncint' = TRUE /\ wanted' = TRUE
  /\ Runs(Spend(nev, 1))
  /\ sti' = FALSE
  /\ UNCHANGED <<pic, kbd, Board, guest, next, heard, wiped, setups>>

(* pit_o77() and pit_o71(): a new mode and count for the system timer.     *)
(* Without a rate generator there is one tick, and empty rounds after it.  *)
OutTimer(rate) ==
  /\ Executes
  /\ handlers = <<>>
  /\ Setup
  /\ pit' = [i |-> TRUE, rate |-> rate]
  /\ pic' = ResetIrq(pic, SystemTimer)
  /\ RunsOn(SetAbsolute(Spend(nev, 1), "ITIMER", multiple * Period))
  /\ sti' = FALSE
  /\ UNCHANGED <<kbd, vsyncint, flames, disp, multiple, guest, next, heard, wanted, wiped>>

(* An instruction at whose I/O a device on the slave raises its line. *)
OutDevice(line) ==
  /\ Executes
  /\ handlers = <<>>
  /\ Setup
  /\ pic' = SetIrq(pic, Levels + line)
  /\ Runs(Spend(nev, 1))
  /\ sti' = FALSE
  /\ UNCHANGED <<kbd, vsyncint, Board, guest, next, heard, wanted, wiped>>

(* keyboard_o41(): a command, answered with one, two or three bytes.  The  *)
(* parameter of one that answers nothing to it is an OUT like any other.   *)
OutCommand(reply) ==
  /\ Executes
  /\ handlers = <<>>
  /\ Setup
  /\ kbd' = KeyboardCtrl(kbd, reply)
  /\ RunsOn(KeyboardArmed(Spend(nev, 1)))
  /\ sti' = FALSE
  /\ UNCHANGED <<pic, vsyncint, Board, guest, next, heard, wanted, wiped>>

(* keyboard_o43(), the falling reset line: everything is forgotten, and    *)
(* keystat_resendstat() sends again what is held, here a key or none.      *)
OutKeyReset(held) ==
  LET k == KeyboardResetSignal(kbd)
      n == NeventReset(Spend(nev, 1), "KEYBOARD")
  IN  /\ Executes
      /\ handlers = <<>>
      /\ Setup
      /\ IF held
         THEN /\ kbd' = KeyboardSend(k, next)
              /\ RunsOn(KeyboardArmed(n))
              /\ next' = (next + 1) % Ids
         ELSE kbd' = k /\ Runs(n) /\ next' = next
      /\ heard' = next
      /\ sti' = FALSE
      /\ UNCHANGED <<pic, vsyncint, Board, guest, wanted, wiped>>

(* keyboard_i41() *)
ReadData ==
  /\ kbd' = DataRead(kbd)
  /\ pic' = ResetIrq(pic, Keyboard)
  /\ heard' = IF kbd.ready /\ kbd.data \in Byte THEN (heard + 1) % Ids ELSE heard
  /\ wiped' = FALSE

(* The guest polls the keyboard. *)
InData ==
  /\ Executes
  /\ handlers = <<>>
  /\ kbd.ready
  /\ ReadData
  /\ Runs(Spend(nev, 1))
  /\ sti' = FALSE
  /\ UNCHANGED <<vsyncint, Board, guest, next, wanted, setups>>

-----------------------------------------------------------------------------
(* The guest's handlers: a byte is read first, then the interrupt is ended *)
(* at its controller.  For one of the slave that is done with interrupts   *)
(* off, and if nothing else is in service there it is then ended at the    *)
(* master too.  Then the handler returns.                                  *)
Handles(step) == Executes /\ handlers # <<>> /\ Handler.step = step
NextStep(step) == handlers' = [handlers EXCEPT ![Len(handlers)].step = step]

HandlerRead ==
  /\ Handles("serve")
  /\ ReadData
  /\ Runs(Spend(nev, 1))
  /\ NextStep("eoi")
  /\ sti' = FALSE
  /\ UNCHANGED <<vsyncint, Board, ei, next, wanted, setups>>

Rotates(rotate) == IF rotate THEN Setup ELSE UNCHANGED setups

HandlerEoi(rotate) ==
  LET c == IF Handler.irq >= Levels THEN "slave" ELSE "master"
  IN  /\ Handles("eoi")
      /\ c = "slave" => ~ei
      /\ Rotates(rotate)
      /\ pic' = EndOfInterrupt(pic, c, rotate)
      /\ Runs(IF pic[c].isr = {} THEN Spend(nev, 1) ELSE NeventForceExit(Spend(nev, 1)))
      /\ NextStep(IF c = "slave" /\ pic'["slave"].isr = {} THEN "eoi master" ELSE "iret")
      /\ sti' = FALSE
      /\ UNCHANGED <<kbd, vsyncint, Board, ei, next, heard, wanted, wiped>>

HandlerEoiMaster(rotate) ==
  /\ Handles("eoi master")
  /\ Rotates(rotate)
  /\ pic' = EndOfInterrupt(pic, "master", rotate)
  /\ Runs(IF pic["master"].isr = {} THEN Spend(nev, 1) ELSE NeventForceExit(Spend(nev, 1)))
  /\ NextStep("iret")
  /\ sti' = FALSE
  /\ UNCHANGED <<kbd, vsyncint, Board, ei, next, heard, wanted, wiped>>

(* IRET: interrupts were on when the handler was entered. *)
HandlerIret ==
  /\ Handles("iret")
  /\ Runs(IF PicExistIntr THEN NeventForceExit(Spend(nev, 1)) ELSE Spend(nev, 1))
  /\ handlers' = SubSeq(handlers, 1, Len(handlers) - 1)
  /\ ei' = TRUE /\ sti' = FALSE
  /\ UNCHANGED <<pic, kbd, vsyncint, Board, history>>

HandlerStep ==
  \/ HandlerRead \/ HandlerIret
  \/ \E rotate \in Rotations : HandlerEoi(rotate) \/ HandlerEoiMaster(rotate)

Program ==
  \/ \E cost \in Costs : Run(cost)
  \/ Hlt \/ Cli \/ Sti \/ OutIcw \/ OutVsync \/ InData
  \/ \E m \in Masks, c \in Chip : OutMask(c, m[c])
  \/ \E rate \in Modes : OutTimer(rate)
  \/ \E line \in Device : OutDevice(line)
  \/ \E r \in Reply, n \in 1 .. 3 : OutCommand([i \in 1 .. n |-> r])
  \/ \E held \in BOOLEAN : OutKeyReset(held)

Next ==
  \/ HostKey \/ HostFrame \/ \E m \in Multiples : HostSpeed(m)
  \/ Irq \/ Progress \/ Callback
  \/ Program \/ HandlerStep

Spec == Init /\ [][Next]_vars

-----------------------------------------------------------------------------
(* The state has its type. *)
TypeOK ==
  /\ phase \in {"host", "irq", "exec", "progress", "call"}
  /\ nev \in NeventType /\ kbd \in KeybrdType /\ pic \in [Chip -> PicItem]
  /\ pit \in [i : BOOLEAN, rate : BOOLEAN]
  /\ {vsyncint, disp, ei, sti, prolonged, wanted, wiped} \subseteq BOOLEAN
  /\ flames \in {"vsync", "disp"} /\ multiple \in Multiples
  /\ handlers \in Seq([irq : Irqs, step : {"serve", "eoi", "eoi master", "iret"}])
  /\ next \in 0 .. Ids - 1 /\ heard \in 0 .. Ids - 1 /\ setups \in 0 .. MaxSetups

(* The event list, with its differences, its cut slices and its callbacks  *)
(* that set events while others wait, keeps what Alarms promises: all      *)
(* events advance alike whatever the CPU does to its counters, they go off *)
(* in the order in which they are due and at most Latest late, a callback  *)
(* that is superseded is not called, and a late periodic event does not    *)
(* drift.                                                                  *)
Ringing == ToSet(nev.wait) \cap nev.setevent
A == INSTANCE Alarms WITH
  Alarm   <- Event,
  Delay   <- [x \in Event |->
                {m * d : m \in Multiples,
                         d \in CASE x = "ITIMER" -> {Period, LongPeriod}
                                 [] x = "KEYBOARD" -> {XferClock}
                                 [] x = "FLAMES" -> {VsyncClock}
                                 [] OTHER -> {}}],
  left    <- [x \in Event |-> IF NeventIsWork(nev, x) THEN nev.clock[x] - NeventNow(nev) ELSE Off],
  ringing <- [x \in Ringing |-> nev.clock[x] - NeventNow(nev)],
  grace   <- sti \/ phase = "irq",
  rate    <- multiple
AlarmsSpec == A!Spec

(* The guest reads the bytes of keys in the order in which they were       *)
(* pressed, none of them twice and none lost between the buffer, the data  *)
(* register and a reader that polls or answers an interrupt, late or early.*)
KeysInOrder ==
  LET unread == (IF kbd.ready /\ kbd.data \in Byte THEN <<kbd.data>> ELSE <<>>) \o kbd.buf
  IN  /\ unread = [i \in 1 .. Len(unread) |-> (heard + i - 1) % Ids]
      /\ next = (heard + Len(unread)) % Ids

(* While bytes wait for the guest something is under way that tells it:    *)
(* the event, the request or the handler that will read them.  Only ICW1,  *)
(* which forgets the request, can leave one behind.                        *)
NoStrandedKey ==
  kbd.ready \/ ~KeyboardIdle(kbd) =>
    \/ NeventIsWork(nev, "KEYBOARD") \/ "KEYBOARD" \in Ringing
    \/ Keyboard \in MasterIrr
    \/ \E i \in 1 .. Len(handlers) : handlers[i].step = "serve"
    \/ wiped

(* The CPU is interrupted when, and only when, some request may be served, *)
(* and then by the one that comes before all others, whatever is in        *)
(* service, masked or rotated.                                             *)
InterruptsLegal ==
  [][phase = "irq" =>
       IF ei /\ May(pic) # {}
       THEN \E irq \in May(pic) : ComesFirst(pic, irq) /\ Len(handlers') = Len(handlers) + 1
                                  /\ handlers'[Len(handlers')].irq = irq
       ELSE handlers' = handlers]_vars

(* What is in service is what the handlers that run have not ended yet: an *)
(* end of interrupt names no line, and still always ends the interrupt of  *)
(* the handler that sends it.                                              *)
InService ==
  LET unended(lo) == {i \in 1 .. Len(handlers) :
                        /\ handlers[i].irq >= lo
                        /\ handlers[i].step \in {"serve", "eoi"}}
      cascaded == {i \in 1 .. Len(handlers) :
                     handlers[i].irq >= Levels /\ handlers[i].step # "iret"}
  IN  /\ pic["slave"].isr = {handlers[i].irq - Levels : i \in unended(Levels)}
      /\ pic["master"].isr = {handlers[i].irq : i \in unended(0) \ unended(Levels)}
                             \cup {Cascade : i \in cascaded}

(* A request of the master that may be served is not kept waiting until    *)
(* the next event: however it became free, by STI, by the end of another   *)
(* interrupt, by IRET or by a mask, the CPU executes at most the one       *)
(* instruction after an STI before it takes it.  Only if that instruction  *)
(* sets an event that is then the next does it run up to the event.        *)
Prompt == phase = "exec" /\ ei /\ MasterMay(pic) # {} => sti \/ prolonged

(* A guest that asked for an interrupt at the vertical sync gets one: the  *)
(* request of a sync that nobody took waits for the next one.  Only an     *)
(* ICW1, which wipes the controller's requests, takes it back; the guest   *)
(* that sends one has to ask again.                                        *)
VsyncKept == wanted => vsyncint \/ Crtv \in MasterIrr
=============================================================================

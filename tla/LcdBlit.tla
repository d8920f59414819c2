------------------------------- MODULE LcdBlit -------------------------------
(***************************************************************************)
(* The framebuffer handshake between the emulator loop (emu_task, core 1)  *)
(* and the blit task (core 0): main.cpp's loop with its two                *)
(* `while (lcd_blit_busy())` guards, and lcd_blit() / blit_task() of       *)
(* lcd_st7789.cpp, one action per shared access.                           *)
(*                                                                         *)
(* Both cores see s_fb and s_blit_busy as volatile words; the compiler     *)
(* keeps the order of the statements, and the model assumes the stores of  *)
(* one core reach the other in that order.  The task notification is a     *)
(* flag: ulTaskNotifyTake(pdTRUE) clears the whole count.                  *)
(***************************************************************************)
EXTENDS Naturals

CONSTANT MaxFrames          \* bound on the number of composited frames

ASSUME MaxFramesAssumption == MaxFrames \in Nat

VARIABLES
  fb,           \* the frame the framebuffer holds (contents, as a number)
  panel,        \* what the panel shows: a frame, Menu, or Torn
  canBlit,      \* lcd_init() started the task and the framebuffer exists
  g_menu_req,   \* set by the HID tasks, taken by the loop
  s_fb,         \* the handed-over pointer is non-null
  s_blit_busy,
  notified,     \* the blit task's notification value is non-zero
  snap,         \* the frame do_blit() started to read
  pc1, ret1,    \* the emulator loop, and where lcd_blit() returns to
  pc0           \* the blit task

loopVars == <<pc1, ret1, g_menu_req>>
taskVars == <<pc0, snap>>
vars == <<fb, panel, canBlit, g_menu_req, s_fb, s_blit_busy, notified, snap,
          pc1, ret1, pc0>>

Frames == 0 .. MaxFrames

Menu == MaxFrames + 1       \* the disk menu's text is on the panel
Torn == MaxFrames + 2       \* a mixture of frames, or of a frame and the menu

InBlitCall == {"blit_busy", "blit_fb", "blit_give"}

Pc1 == {"top", "menu_wait", "menu", "sched", "render_wait", "draw", "exec"}
         \cup InBlitCall

Pc0 == {"take", "check", "null", "blit", "clear", "recheck"}

Init ==
  /\ fb = 0 /\ panel = 0
  /\ canBlit \in BOOLEAN
  /\ g_menu_req = FALSE
  /\ s_fb = FALSE /\ s_blit_busy = FALSE /\ notified = FALSE
  /\ snap = 0
  /\ pc1 = "top" /\ ret1 = "top" /\ pc0 = "take"

-----------------------------------------------------------------------------
(* The emulator loop, core 1. *)

(* A HID task sees a menu key in a report, at any time. *)
MenuKey ==
  /\ ~g_menu_req
  /\ g_menu_req' = TRUE
  /\ UNCHANGED <<fb, panel, canBlit, s_fb, s_blit_busy, notified, snap, pc1,
                 ret1, pc0>>

LoopTop ==
  /\ pc1 = "top"
  /\ g_menu_req' = FALSE
  /\ pc1' = IF g_menu_req THEN "menu_wait" ELSE "sched"
  /\ UNCHANGED <<fb, panel, canBlit, s_fb, s_blit_busy, notified, ret1, taskVars>>

(* Mutant: the menu opens without waiting for the blit. *)
MenuOpenUnguarded ==
  /\ pc1 = "menu_wait"
  /\ pc1' = "menu"
  /\ panel' = Menu
  /\ UNCHANGED <<fb, canBlit, g_menu_req, s_fb, s_blit_busy, notified, ret1,
                 taskVars>>

(* while (lcd_blit_busy()) vTaskDelay(1); menu_disk_run() draws. *)
MenuOpen ==
  /\ pc1 = "menu_wait"
  /\ ~s_blit_busy
  /\ pc1' = "menu"
  /\ panel' = Menu
  /\ UNCHANGED <<fb, canBlit, g_menu_req, s_fb, s_blit_busy, notified, ret1,
                 taskVars>>

(* lcd_blit() returns at once without a task or a framebuffer. *)
CallBlit(ret) ==
  IF canBlit THEN pc1' = "blit_busy" /\ ret1' = ret
             ELSE pc1' = ret /\ UNCHANGED ret1

(* Mutant: after the menu's blit the loop falls back into the menu. *)
MenuCloseStays ==
  /\ pc1 = "menu"
  /\ CallBlit("menu")
  /\ UNCHANGED <<fb, panel, canBlit, g_menu_req, s_fb, s_blit_busy, notified,
                 taskVars>>

MenuClose ==
  /\ pc1 = "menu"
  /\ CallBlit("sched")
  /\ UNCHANGED <<fb, panel, canBlit, g_menu_req, s_fb, s_blit_busy, notified,
                 taskVars>>

(* The render decision depends on the clock and the frame count. *)
Schedule ==
  /\ pc1 = "sched"
  /\ \E render \in BOOLEAN : pc1' = IF render THEN "render_wait" ELSE "exec"
  /\ UNCHANGED <<fb, panel, canBlit, g_menu_req, s_fb, s_blit_busy, notified,
                 ret1, taskVars>>

(* pccore_exec(FALSE): drawscreen() leaves the framebuffer alone. *)
ExecNoDraw ==
  /\ pc1 = "exec"
  /\ pc1' = "top"
  /\ UNCHANGED <<fb, panel, canBlit, g_menu_req, s_fb, s_blit_busy, notified,
                 ret1, taskVars>>

(* Mutant: drawscreen() runs while the blit may still read. *)
RenderStartUnguarded ==
  /\ pc1 = "render_wait"
  /\ pc1' = "draw"
  /\ UNCHANGED <<fb, panel, canBlit, g_menu_req, s_fb, s_blit_busy, notified,
                 ret1, taskVars>>

(* The tear-free guard; from here to the end of Draw or Skip the           *)
(* framebuffer is being rewritten.                                         *)
RenderStart ==
  /\ pc1 = "render_wait"
  /\ ~s_blit_busy
  /\ pc1' = "draw"
  /\ UNCHANGED <<fb, panel, canBlit, g_menu_req, s_fb, s_blit_busy, notified,
                 ret1, taskVars>>

(* pccore_exec(TRUE) composited a frame, or render_boot_text() wrote one.  *)
Draw ==
  /\ pc1 = "draw"
  /\ fb < MaxFrames
  /\ fb' = fb + 1
  /\ CallBlit("top")
  /\ UNCHANGED <<panel, canBlit, g_menu_req, s_fb, s_blit_busy, notified, taskVars>>

(* drawcount did not move: the screen is static and nothing is pushed.     *)
Skip ==
  /\ pc1 = "draw"
  /\ pc1' = "top"
  /\ UNCHANGED <<fb, panel, canBlit, g_menu_req, s_fb, s_blit_busy, notified,
                 ret1, taskVars>>

(* Mutant: lcd_blit() forgets to raise busy. *)
BlitSetBusyMissing ==
  /\ pc1 = "blit_busy"
  /\ pc1' = "blit_fb"
  /\ UNCHANGED <<fb, panel, canBlit, g_menu_req, s_fb, s_blit_busy, notified, ret1,
                 taskVars>>

(* lcd_blit(): three stores to shared state, in this order. *)
BlitSetBusy ==
  /\ pc1 = "blit_busy"
  /\ s_blit_busy' = TRUE
  /\ pc1' = "blit_fb"
  /\ UNCHANGED <<fb, panel, canBlit, g_menu_req, s_fb, notified, ret1, taskVars>>

BlitSetFb ==
  /\ pc1 = "blit_fb"
  /\ s_fb' = TRUE
  /\ pc1' = "blit_give"
  /\ UNCHANGED <<fb, panel, canBlit, g_menu_req, s_blit_busy, notified, ret1,
                 taskVars>>

(* Mutant: lcd_blit() does not wake the task. *)
BlitGiveMissing ==
  /\ pc1 = "blit_give"
  /\ pc1' = ret1
  /\ UNCHANGED <<fb, panel, canBlit, g_menu_req, s_fb, s_blit_busy, notified, ret1,
                 taskVars>>

BlitGive ==
  /\ pc1 = "blit_give"
  /\ notified' = TRUE
  /\ pc1' = ret1
  /\ UNCHANGED <<fb, panel, canBlit, g_menu_req, s_fb, s_blit_busy, ret1, taskVars>>

-----------------------------------------------------------------------------
(* blit_task(), core 0. *)

Take ==
  /\ canBlit
  /\ pc0 = "take"
  /\ notified
  /\ notified' = FALSE
  /\ pc0' = "check"
  /\ UNCHANGED <<fb, panel, canBlit, s_fb, s_blit_busy, snap, loopVars>>

(* Mutant: the task clears busy without draining s_fb. *)
CheckFbSkipped ==
  /\ pc0 = "check"
  /\ pc0' = "clear"
  /\ UNCHANGED <<fb, panel, canBlit, s_fb, s_blit_busy, notified, snap, loopVars>>

(* while (s_fb) { fb = s_fb; ... *)
CheckFb ==
  /\ pc0 = "check"
  /\ pc0' = IF s_fb THEN "null" ELSE "clear"
  /\ UNCHANGED <<fb, panel, canBlit, s_fb, s_blit_busy, notified, snap, loopVars>>

(* s_fb = nullptr; do_blit(fb) starts to read.  What it reads while the    *)
(* loop is drawing is a mixture of frames.                                 *)
NullFb ==
  /\ pc0 = "null"
  /\ s_fb' = FALSE
  /\ snap' = IF pc1 = "draw" THEN Torn ELSE fb
  /\ pc0' = "blit"
  /\ UNCHANGED <<fb, panel, canBlit, s_blit_busy, notified, loopVars>>

(* do_blit() has sent the last band. *)
BlitDone ==
  /\ pc0 = "blit"
  /\ panel' = IF snap = fb /\ pc1 \notin {"draw", "menu"} THEN snap ELSE Torn
  /\ pc0' = "check"
  /\ UNCHANGED <<fb, canBlit, s_fb, s_blit_busy, notified, snap, loopVars>>

(* Mutant: busy is never lowered. *)
ClearBusyMissing ==
  /\ pc0 = "clear"
  /\ pc0' = "recheck"
  /\ UNCHANGED <<fb, panel, canBlit, s_fb, s_blit_busy, notified, snap, loopVars>>

ClearBusy ==
  /\ pc0 = "clear"
  /\ s_blit_busy' = FALSE
  /\ pc0' = "recheck"
  /\ UNCHANGED <<fb, panel, canBlit, s_fb, notified, snap, loopVars>>

(* if (s_fb) s_blit_busy = 1; *)
Recheck ==
  /\ pc0 = "recheck"
  /\ s_blit_busy' = (s_blit_busy \/ s_fb)
  /\ pc0' = "take"
  /\ UNCHANGED <<fb, panel, canBlit, s_fb, notified, snap, loopVars>>

-----------------------------------------------------------------------------
Loop == LoopTop \/ MenuOpen \/ Schedule \/ ExecNoDraw \/ RenderStart
          \/ Draw \/ Skip \/ BlitSetBusy \/ BlitSetFb \/ BlitGive

Task == Take \/ CheckFb \/ NullFb \/ BlitDone \/ ClearBusy \/ Recheck

Next == MenuKey \/ MenuClose \/ Loop \/ Task

SafeSpec == Init /\ [][Next]_vars

(* Each core runs its task: the loop yields only in its own waits and the  *)
(* audio task that outranks the blit task blocks on its buffer.  Nobody    *)
(* makes the user press a menu key or leave the menu.                      *)
Fairness == WF_vars(Loop) /\ WF_vars(Task)

Spec == SafeSpec /\ Fairness

-----------------------------------------------------------------------------
TypeOK ==
  /\ fb \in Frames
  /\ panel \in Frames \cup {Menu, Torn}
  /\ snap \in Frames \cup {Torn}
  /\ canBlit \in BOOLEAN /\ g_menu_req \in BOOLEAN
  /\ s_fb \in BOOLEAN /\ s_blit_busy \in BOOLEAN /\ notified \in BOOLEAN
  /\ pc1 \in Pc1 /\ ret1 \in {"top", "sched"} /\ pc0 \in Pc0

(* While the blit task reads the framebuffer and drives the panel, the     *)
(* emulator neither rewrites the framebuffer nor lets the menu drive the   *)
(* panel: the guards of main.cpp, with blit_task()'s order of clearing     *)
(* busy, exclude each other.                                               *)
TearFree == pc0 = "blit" => pc1 \notin {"draw", "menu"}

(* So every picture that reaches the panel is one whole frame. *)
WholeFrames == panel # Torn

(* No lost wake-up: once lcd_blit() has returned, a frame still in s_fb    *)
(* has a notification behind it or a blit task that will look again, and   *)
(* busy keeps the loop out of the framebuffer until then.                  *)
NoStrandedFrame ==
  (s_fb /\ pc1 \notin InBlitCall) =>
     /\ s_blit_busy
     /\ notified \/ pc0 \in {"check", "null"}

(* Every frame handed to lcd_blit() reaches the panel. *)
FrameShown ==
  \A n \in Frames : (pc1 = "blit_busy" /\ fb = n) ~> (panel = n)

(* The loop is never left waiting for the blit: a frame it decided to      *)
(* render is rendered, and a menu the user asked for opens.                *)
GuardsOpen ==
  /\ pc1 = "render_wait" ~> pc1 = "draw"
  /\ pc1 = "menu_wait" ~> pc1 = "menu"

(* The abstract handoff this implements: a frame is pending from the store *)
(* to s_fb until do_blit() has sent it.                                    *)
Handoff == INSTANCE FrameHandoff
             WITH pending <- s_fb \/ pc0 \in {"null", "blit"}

HandoffSpec == Handoff!Spec
=============================================================================

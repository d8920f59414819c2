---------------------------- MODULE LcdBlitProofs ----------------------------
(***************************************************************************)
(* Proofs about LcdBlit, for every number of frames: types, the inductive  *)
(* invariant of the busy handshake, mutual exclusion of the emulator and   *)
(* the blit task, no lost wake-up, and the refinement of FrameHandoff.     *)
(* Then about LcdPanel, whose steps the first part justifies: pixels are   *)
(* sent in the controller's format, the margin stays clean, and a boot     *)
(* brings back what was saved, for every number of boots.                  *)
(***************************************************************************)
EXTENDS LcdBlit, LcdPanel, TLAPS

(* The loop is past a guard and has not finished handing over: it owns the *)
(* framebuffer and the panel.                                              *)
Own == {"menu", "draw"} \cup InBlitCall

(* While the loop owns the framebuffer the blit task sleeps, or is about   *)
(* to, with nothing to take.                                               *)
LoopOwns ==
  /\ pc0 \in {"take", "recheck"}
  /\ ~notified
  /\ s_fb <=> (pc1 = "blit_give")
  /\ s_blit_busy <=> (pc1 \in {"blit_fb", "blit_give"})

(* Otherwise busy says exactly whether the frame is still with core 0: on  *)
(* its way there, being drained, or drained and not yet reported.          *)
TaskOwns ==
  /\ notified => s_fb
  /\ s_fb => s_blit_busy
  /\ pc0 \in {"take", "recheck"} => (s_fb <=> notified) /\ (s_blit_busy <=> notified)
  /\ pc0 \in {"check", "null", "blit", "clear"} => s_blit_busy /\ ~notified
  /\ pc0 = "null" => s_fb
  /\ pc0 \in {"blit", "clear"} => ~s_fb
  /\ pc0 = "blit" => snap = fb

HandshakeInv ==
  /\ pc1 \in Own => LoopOwns
  /\ pc1 \notin Own => TaskOwns
  /\ panel # Torn
  /\ pc1 \in InBlitCall => canBlit

Inv == TypeOK /\ HandshakeInv

(***************************************************************************)
(* Type correctness of the loop's and the task's shared words: every run   *)
(* of emu_task and blit_task keeps them in their ranges.                   *)
(***************************************************************************)
THEOREM TypeCorrect == SafeSpec => []TypeOK
<1>1. Init => TypeOK
  <2> SUFFICES ASSUME Init PROVE TypeOK
    OBVIOUS
  <2>1. 0 \in Frames
    BY MaxFramesAssumption DEF Frames
  <2>2. QED
    BY <2>1 DEF Init, TypeOK, Pc1, Pc0
<1>2. TypeOK /\ [Next]_vars => TypeOK'
  <2> SUFFICES ASSUME TypeOK, [Next]_vars PROVE TypeOK'
    OBVIOUS
  <2> USE MaxFramesAssumption DEF TypeOK, Frames, Menu, Torn, Pc1, Pc0, InBlitCall
  <2>1. CASE MenuKey
    BY <2>1 DEF MenuKey
  <2>2. CASE MenuClose
    BY <2>2 DEF MenuClose, CallBlit, taskVars
  <2>3. CASE LoopTop
    BY <2>3 DEF LoopTop, taskVars
  <2>4. CASE MenuOpen
    BY <2>4 DEF MenuOpen, taskVars
  <2>5. CASE Schedule
    BY <2>5 DEF Schedule, taskVars
  <2>6. CASE ExecNoDraw
    BY <2>6 DEF ExecNoDraw, taskVars
  <2>7. CASE RenderStart
    BY <2>7 DEF RenderStart, taskVars
  <2>8. CASE Draw
    BY <2>8 DEF Draw, CallBlit, taskVars
  <2>9. CASE Skip
    BY <2>9 DEF Skip, taskVars
  <2>10. CASE BlitSetBusy
    BY <2>10 DEF BlitSetBusy, taskVars
  <2>11. CASE BlitSetFb
    BY <2>11 DEF BlitSetFb, taskVars
  <2>12. CASE BlitGive
    BY <2>12 DEF BlitGive, taskVars
  <2>13. CASE Take
    BY <2>13 DEF Take, loopVars
  <2>14. CASE CheckFb
    BY <2>14 DEF CheckFb, loopVars
  <2>15. CASE NullFb
    BY <2>15 DEF NullFb, loopVars
  <2>16. CASE BlitDone
    BY <2>16 DEF BlitDone, loopVars
  <2>17. CASE ClearBusy
    BY <2>17 DEF ClearBusy, loopVars
  <2>18. CASE Recheck
    BY <2>18 DEF Recheck, loopVars
  <2>19. CASE UNCHANGED vars
    BY <2>19 DEF vars
  <2>20. QED
    BY <2>1, <2>2, <2>3, <2>4, <2>5, <2>6, <2>7, <2>8, <2>9, <2>10, <2>11, <2>12, <2>13, <2>14, <2>15, <2>16, <2>17, <2>18, <2>19 DEF Next, Loop, Task
<1>3. QED
  BY <1>1, <1>2, PTL DEF SafeSpec

(***************************************************************************)
(* The handshake invariant: either the loop owns the framebuffer and the   *)
(* blit task sleeps, or busy tells exactly where the frame is.  It is what *)
(* lcd_blit()'s order of stores and blit_task()'s drain-before-clear keep. *)
(***************************************************************************)
THEOREM HandshakeCorrect == SafeSpec => []Inv
<1>1. Init => HandshakeInv
  <2>1. 0 # Torn
    BY MaxFramesAssumption DEF Torn
  <2>2. QED
    BY <2>1 DEF Init, HandshakeInv, Own, InBlitCall, TaskOwns, LoopOwns
<1>2. Inv /\ [Next]_vars => HandshakeInv'
  <2> SUFFICES ASSUME Inv, [Next]_vars PROVE HandshakeInv'
    OBVIOUS
  <2> USE MaxFramesAssumption DEF Inv, TypeOK, Frames, Menu, Torn, Pc1, Pc0,
      InBlitCall, HandshakeInv, Own, TaskOwns, LoopOwns
  <2>1. CASE MenuKey
    BY <2>1 DEF MenuKey
  <2>2. CASE MenuClose
    BY <2>2 DEF MenuClose, CallBlit, taskVars
  <2>3. CASE LoopTop
    BY <2>3 DEF LoopTop, taskVars
  <2>4. CASE MenuOpen
    BY <2>4 DEF MenuOpen, taskVars
  <2>5. CASE Schedule
    BY <2>5 DEF Schedule, taskVars
  <2>6. CASE ExecNoDraw
    BY <2>6 DEF ExecNoDraw, taskVars
  <2>7. CASE RenderStart
    BY <2>7 DEF RenderStart, taskVars
  <2>8. CASE Draw
    BY <2>8 DEF Draw, CallBlit, taskVars
  <2>9. CASE Skip
    BY <2>9 DEF Skip, taskVars
  <2>10. CASE BlitSetBusy
    BY <2>10 DEF BlitSetBusy, taskVars
  <2>11. CASE BlitSetFb
    BY <2>11 DEF BlitSetFb, taskVars
  <2>12. CASE BlitGive
    BY <2>12 DEF BlitGive, taskVars
  <2>13. CASE Take
    BY <2>13 DEF Take, loopVars
  <2>14. CASE CheckFb
    BY <2>14 DEF CheckFb, loopVars
  <2>15. CASE NullFb
    BY <2>15 DEF NullFb, loopVars
  <2>16. CASE BlitDone
    BY <2>16 DEF BlitDone, loopVars
  <2>17. CASE ClearBusy
    BY <2>17 DEF ClearBusy, loopVars
  <2>18. CASE Recheck
    BY <2>18 DEF Recheck, loopVars
  <2>19. CASE UNCHANGED vars
    BY <2>19 DEF vars
  <2>20. QED
    BY <2>1, <2>2, <2>3, <2>4, <2>5, <2>6, <2>7, <2>8, <2>9, <2>10, <2>11, <2>12, <2>13, <2>14, <2>15, <2>16, <2>17, <2>18, <2>19 DEF Next, Loop, Task
<1>3. QED
  BY <1>1, <1>2, TypeCorrect, PTL DEF SafeSpec, Inv

(***************************************************************************)
(* Mutual exclusion on the framebuffer and on the panel: what the two      *)
(* `while (lcd_blit_busy())` guards of main.cpp are there for.             *)
(***************************************************************************)
THEOREM TearFreeHolds == SafeSpec => []TearFree
<1>1. Inv => TearFree
  BY DEF Inv, TypeOK, HandshakeInv, Own, InBlitCall, LoopOwns, TearFree
<1>2. QED
  BY <1>1, HandshakeCorrect, PTL

(***************************************************************************)
(* No picture made of two frames, or of a frame and the menu, ever reaches *)
(* the panel.                                                              *)
(***************************************************************************)
THEOREM WholeFramesHold == SafeSpec => []WholeFrames
<1>1. Inv => WholeFrames
  BY DEF Inv, HandshakeInv, WholeFrames
<1>2. QED
  BY <1>1, HandshakeCorrect, PTL

(***************************************************************************)
(* No lost wake-up: a frame left in s_fb has a notification behind it or a *)
(* blit task that will look again.                                         *)
(***************************************************************************)
THEOREM NoStrandedFrameHolds == SafeSpec => []NoStrandedFrame
<1>1. Inv => NoStrandedFrame
  BY DEF Inv, TypeOK, HandshakeInv, Own, InBlitCall, LoopOwns, TaskOwns, Pc0,
     NoStrandedFrame
<1>2. QED
  BY <1>1, HandshakeCorrect, PTL

(***************************************************************************)
(* Refinement: every step of the two tasks is a step of FrameHandoff, or   *)
(* none, with a frame pending from the store to s_fb to the last band.     *)
(***************************************************************************)
THEOREM RefinesHandoff == SafeSpec => Handoff!SafeSpec
<1>1. Init => Handoff!Init
  BY DEF Init, Handoff!Init
<1>2. Inv /\ [Next]_vars => [Handoff!Next]_Handoff!vars
  <2> SUFFICES ASSUME Inv, [Next]_vars PROVE [Handoff!Next]_Handoff!vars
    OBVIOUS
  <2> USE MaxFramesAssumption DEF Inv, TypeOK, Pc1, Pc0, InBlitCall,
      HandshakeInv, Own, TaskOwns, LoopOwns, Handoff!Next, Handoff!vars,
      Handoff!Draw, Handoff!Submit, Handoff!Show, Handoff!DrawMenu,
      Handoff!Menu, Menu
  <2>1. CASE MenuKey
    BY <2>1 DEF MenuKey
  <2>2. CASE MenuClose
    BY <2>2 DEF MenuClose, CallBlit, taskVars
  <2>3. CASE LoopTop
    BY <2>3 DEF LoopTop, taskVars
  <2>4. CASE MenuOpen
    BY <2>4 DEF MenuOpen, taskVars
  <2>5. CASE Schedule
    BY <2>5 DEF Schedule, taskVars
  <2>6. CASE ExecNoDraw
    BY <2>6 DEF ExecNoDraw, taskVars
  <2>7. CASE RenderStart
    BY <2>7 DEF RenderStart, taskVars
  <2>8. CASE Draw
    BY <2>8 DEF Draw, CallBlit, taskVars
  <2>9. CASE Skip
    BY <2>9 DEF Skip, taskVars
  <2>10. CASE BlitSetBusy
    BY <2>10 DEF BlitSetBusy, taskVars
  <2>11. CASE BlitSetFb
    BY <2>11 DEF BlitSetFb, taskVars
  <2>12. CASE BlitGive
    BY <2>12 DEF BlitGive, taskVars
  <2>13. CASE Take
    BY <2>13 DEF Take, loopVars
  <2>14. CASE CheckFb
    BY <2>14 DEF CheckFb, loopVars
  <2>15. CASE NullFb
    BY <2>15 DEF NullFb, loopVars
  <2>16. CASE BlitDone
    BY <2>16 DEF BlitDone, loopVars
  <2>17. CASE ClearBusy
    BY <2>17 DEF ClearBusy, loopVars
  <2>18. CASE Recheck
    BY <2>18 DEF Recheck, loopVars
  <2>19. CASE UNCHANGED vars
    BY <2>19 DEF vars
  <2>20. QED
    BY <2>1, <2>2, <2>3, <2>4, <2>5, <2>6, <2>7, <2>8, <2>9, <2>10, <2>11, <2>12, <2>13, <2>14, <2>15, <2>16, <2>17, <2>18, <2>19 DEF Next, Loop, Task
<1>3. QED
  BY <1>1, <1>2, HandshakeCorrect, PTL DEF SafeSpec, Handoff!SafeSpec
-----------------------------------------------------------------------------
(***************************************************************************)
(* The other half of lcd_st7789.cpp.  LcdPanel takes each drawing call and *)
(* each row of the menu for one step: that it may is TearFree above.       *)
(***************************************************************************)
(* The driver's settings and the controller have their fields. *)
PanelTypes == lcd \in Lcds /\ glass \in Glasses

(* The driver knows the controller's format.                               *)
FormatKnown(g) == g.colmod = g.s_panel12 /\ ~g.garbled

(* The margin shows something only as long as what put it there is on the  *)
(* panel: an unscaled picture, whose scaler can only be changed in the     *)
(* menu, or the header of the ROM browser, which cannot be left without a  *)
(* fill.  A panel that was lost was lost with a clean margin.              *)
MarginOwed ==
  \/ glass.margin = "black"
  \/ /\ glass.margin = "1x" /\ glass.last = "1x" /\ lcd.scaler = SCALE_1X
     /\ phase = "run" /\ CanDraw(glass)
  \/ /\ glass.margin = "header" /\ glass.last = "header"
     /\ phase = "menu" /\ CanDraw(glass)

PanelInv == PanelTypes /\ FormatKnown(glass) /\ MarginOwed

LEMMA PanelInit == SettingsInit => PanelInv
<1> SUFFICES ASSUME SettingsInit PROVE PanelInv
  OBVIOUS
<1> USE DEF SettingsInit, Dark, PowerOn
<1>1. PanelTypes
  BY DEF PanelTypes, Lcds, Panels, PANEL_COUNT, ST7789, SCALE_COUNT,
         SCALE_AVG, SPI_MHZ_COUNT, SPI_MHZ_DEFAULT, Glasses
<1>2. FormatKnown(glass) /\ MarginOwed
  BY DEF FormatKnown, MarginOwed
<1> QED  BY <1>1, <1>2 DEF PanelInv

(* Drawing makes and frees nothing.                                        *)
SameParts(h, g) ==
  h.s_io = g.s_io /\ h.s_band = g.s_band /\ h.s_img = g.s_img

(* A fill keeps the format known and blackens the margin.                  *)
LEMMA FillKeeps ==
  ASSUME NEW g \in Glasses, FormatKnown(g)
  PROVE  /\ fill_rect(g) \in Glasses /\ FormatKnown(fill_rect(g))
         /\ SameParts(fill_rect(g), g)
         /\ CanDraw(g) => fill_rect(g).margin = "black" /\ fill_rect(g).last = "fill"
         /\ ~CanDraw(g) => fill_rect(g) = g
BY DEF fill_rect, set_colmod, Glasses, FormatKnown, CanDraw, SameParts

(* After set_colmod() the controller and the driver have the format asked  *)
(* for, and nothing else changed.                                          *)
LEMMA ColmodSent ==
  ASSUME NEW g \in Glasses, FormatKnown(g), NEW want \in {0, 1}
  PROVE  \E c \in Glasses :
           /\ set_colmod(g, want) = c
           /\ c.colmod = want /\ c.s_panel12 = want /\ ~c.garbled
           /\ SameParts(c, g) /\ c.margin = g.margin /\ c.last = g.last
<1> DEFINE c == set_colmod(g, want)
<1>1. c \in Glasses
  BY DEF set_colmod, Glasses
<1>2. /\ c.colmod = want /\ c.s_panel12 = want /\ ~c.garbled
      /\ SameParts(c, g) /\ c.margin = g.margin /\ c.last = g.last
  BY DEF set_colmod, Glasses, FormatKnown, SameParts
<1> HIDE DEF c
<1> QED  BY <1>1, <1>2 DEF c

(* What a drawing call makes of the controller g, when there is one.       *)
Shows(h, g, what, margin) ==
  /\ h \in Glasses /\ FormatKnown(h) /\ SameParts(h, g)
  /\ CanDraw(g) => h.last = what /\ h.margin = margin
  /\ ~CanDraw(g) => h = g

LEMMA PushInside ==
  ASSUME NEW g \in Glasses, FormatKnown(g), NEW use12 \in {0, 1},
         NEW what \in {"menu", "header", "1x", "box"}
  PROVE  Shows(push_rect(g, use12, what, FALSE), g, what, g.margin)
<1> DEFINE h == push_rect(g, use12, what, FALSE)
<1>1. PICK c \in Glasses :
           /\ set_colmod(g, use12) = c
           /\ c.colmod = use12 /\ c.s_panel12 = use12 /\ ~c.garbled
           /\ SameParts(c, g) /\ c.margin = g.margin /\ c.last = g.last
  BY ColmodSent
<1>2. h = IF ~CanDraw(g) THEN g ELSE [c EXCEPT !.garbled = c.colmod # use12, !.last = what,
                                           !.margin = IF FALSE THEN what ELSE @]
  BY <1>1 DEF push_rect
<1> HIDE DEF h
<1>3. CASE ~CanDraw(g)
  BY <1>2, <1>3 DEF Shows, SameParts, h
<1>4. CASE CanDraw(g)
  <2>1. h = [c EXCEPT !.garbled = c.colmod # use12, !.last = what, !.margin = c.margin]
    BY <1>2, <1>4
  <2>2. h \in Glasses
    BY <1>1, <2>1 DEF Glasses
  <2>3. /\ h.colmod = c.colmod /\ h.s_panel12 = c.s_panel12 /\ h.garbled = FALSE
        /\ SameParts(h, c) /\ h.last = what /\ h.margin = c.margin
    BY <1>1, <2>1 DEF Glasses, SameParts
  <2>4. Shows(h, g, what, g.margin)
    BY <1>1, <1>4, <2>2, <2>3 DEF Shows, FormatKnown, SameParts
  <2> QED  BY <2>4 DEF h
<1> QED  BY <1>3, <1>4

LEMMA PushOver ==
  ASSUME NEW g \in Glasses, FormatKnown(g), NEW use12 \in {0, 1},
         NEW what \in {"header", "1x"}
  PROVE  Shows(push_rect(g, use12, what, TRUE), g, what, what)
<1> DEFINE h == push_rect(g, use12, what, TRUE)
<1>1. PICK c \in Glasses :
           /\ set_colmod(g, use12) = c
           /\ c.colmod = use12 /\ c.s_panel12 = use12 /\ ~c.garbled
           /\ SameParts(c, g) /\ c.margin = g.margin /\ c.last = g.last
  BY ColmodSent
<1>2. h = IF ~CanDraw(g) THEN g ELSE [c EXCEPT !.garbled = c.colmod # use12, !.last = what,
                                           !.margin = IF TRUE THEN what ELSE @]
  BY <1>1 DEF push_rect
<1> HIDE DEF h
<1>3. CASE ~CanDraw(g)
  BY <1>2, <1>3 DEF Shows, SameParts, h
<1>4. CASE CanDraw(g)
  <2>1. h = [c EXCEPT !.garbled = c.colmod # use12, !.last = what, !.margin = what]
    BY <1>2, <1>4
  <2>2. h \in Glasses
    BY <1>1, <2>1 DEF Glasses
  <2>3. /\ h.colmod = c.colmod /\ h.s_panel12 = c.s_panel12 /\ h.garbled = FALSE
        /\ SameParts(h, c) /\ h.last = what /\ h.margin = what
    BY <1>1, <2>1 DEF Glasses, SameParts
  <2>4. Shows(h, g, what, what)
    BY <1>1, <1>4, <2>2, <2>3 DEF Shows, FormatKnown, SameParts
  <2> QED  BY <2>4 DEF h
<1> QED  BY <1>3, <1>4

(* The drive list wipes the margin, the ROM browser writes in it.          *)
LEMMA DrivesKeep ==
  ASSUME NEW g \in Glasses, FormatKnown(g), NEW l, l.rgb444 \in {0, 1}
  PROVE  \E what \in {"fill", "menu"} : Shows(draw_drives(g, l), g, what, "black")
<1> DEFINE f == fill_rect(g)
           h == lcd_menu_line(f, l, "menu", FALSE)
<1>1. /\ f \in Glasses /\ FormatKnown(f) /\ SameParts(f, g)
      /\ CanDraw(g) => f.margin = "black" /\ f.last = "fill"
      /\ ~CanDraw(g) => f = g
  BY FillKeeps
<1>2. draw_drives(g, l) = h
  BY DEF draw_drives
<1> HIDE DEF f
<1>3. /\ f.s_img => Shows(h, f, "menu", f.margin)
      /\ ~f.s_img => h = f
  <2>1. Shows(push_rect(f, l.rgb444, "menu", FALSE), f, "menu", f.margin)
    BY <1>1, PushInside
  <2>2. h = IF f.s_img THEN push_rect(f, l.rgb444, "menu", FALSE) ELSE f
    BY DEF lcd_menu_line
  <2> QED  BY <2>1, <2>2
<1> HIDE DEF h
<1>4. CanDraw(f) = CanDraw(g)
  BY <1>1 DEF SameParts, CanDraw
<1>5. CASE f.s_img
  <2>1. Shows(h, g, "menu", "black")
    BY <1>1, <1>3, <1>4, <1>5 DEF Shows, SameParts
  <2> QED  BY <1>2, <2>1
<1>6. CASE ~f.s_img
  <2>1. Shows(h, g, "fill", "black")
    BY <1>1, <1>3, <1>6 DEF Shows
  <2> QED  BY <1>2, <2>1
<1> QED  BY <1>5, <1>6

LEMMA RomsKeep ==
  ASSUME NEW g \in Glasses, FormatKnown(g), NEW l, l.rgb444 \in {0, 1}
  PROVE  \/ Shows(draw_roms(g, l), g, "header", "header")
         \/ Shows(draw_roms(g, l), g, "fill", "black")
<1> DEFINE f == fill_rect(g)
           h == lcd_menu_line(f, l, "header", TRUE)
<1>1. /\ f \in Glasses /\ FormatKnown(f) /\ SameParts(f, g)
      /\ CanDraw(g) => f.margin = "black" /\ f.last = "fill"
      /\ ~CanDraw(g) => f = g
  BY FillKeeps
<1>2. draw_roms(g, l) = h
  BY DEF draw_roms
<1> HIDE DEF f
<1>3. /\ f.s_img => Shows(h, f, "header", "header")
      /\ ~f.s_img => h = f
  <2>1. Shows(push_rect(f, l.rgb444, "header", TRUE), f, "header", "header")
    BY <1>1, PushOver
  <2>2. h = IF f.s_img THEN push_rect(f, l.rgb444, "header", TRUE) ELSE f
    BY DEF lcd_menu_line
  <2> QED  BY <2>1, <2>2
<1> HIDE DEF h
<1>4. CanDraw(f) = CanDraw(g)
  BY <1>1 DEF SameParts, CanDraw
<1>5. CASE f.s_img
  <2>1. Shows(h, g, "header", "header")
    BY <1>1, <1>3, <1>4, <1>5 DEF Shows, SameParts
  <2> QED  BY <1>2, <2>1
<1>6. CASE ~f.s_img
  <2>1. Shows(h, g, "fill", "black")
    BY <1>1, <1>3, <1>6 DEF Shows
  <2> QED  BY <1>2, <2>1
<1> QED  BY <1>5, <1>6

(* A frame covers the margin when it is unscaled; a scaled one needs a     *)
(* buffer, and without it only the wipe is done, if one is pending.        *)
LEMMA FrameKeeps ==
  ASSUME NEW g \in Glasses, FormatKnown(g), NEW l, l.rgb444 \in {0, 1}
  PROVE  IF l.scaler = SCALE_1X
         THEN Shows(do_blit(g, l), g, "1x", "1x")
         ELSE \/ \E m \in {"black", g.margin} : Shows(do_blit(g, l), g, "box", m)
              \/ Shows(do_blit(g, l), g, "fill", "black")
              \/ do_blit(g, l) = g
<1> DEFINE f == IF l.s_clear_req = 1 THEN fill_rect(g) ELSE g
           h == do_blit(g, l)
<1>1. /\ f \in Glasses /\ FormatKnown(f) /\ SameParts(f, g)
      /\ CanDraw(g) => f.margin \in {"black", g.margin}
      /\ ~CanDraw(g) => f = g
      /\ f = g \/ Shows(f, g, "fill", "black")
  BY FillKeeps DEF SameParts, Shows
<1>2. h = CASE l.scaler = SCALE_1X -> push_rect(f, l.rgb444, "1x", TRUE)
            [] l.scaler # SCALE_1X /\ g.s_img -> push_rect(f, l.rgb444, "box", FALSE)
            [] OTHER -> f
  BY DEF do_blit
<1> HIDE DEF f, h
<1>3. CanDraw(f) = CanDraw(g)
  BY <1>1 DEF SameParts, CanDraw
<1>4. CASE l.scaler = SCALE_1X
  <2>1. Shows(push_rect(f, l.rgb444, "1x", TRUE), f, "1x", "1x")
    BY <1>1, PushOver
  <2>2. h = push_rect(f, l.rgb444, "1x", TRUE)
    BY <1>2, <1>4
  <2>3. Shows(h, g, "1x", "1x")
    BY <1>1, <1>3, <2>1, <2>2 DEF Shows, SameParts
  <2> QED  BY <1>4, <2>3 DEF h
<1>5. CASE l.scaler # SCALE_1X /\ g.s_img
  <2>1. Shows(push_rect(f, l.rgb444, "box", FALSE), f, "box", f.margin)
    BY <1>1, PushInside
  <2>2. h = push_rect(f, l.rgb444, "box", FALSE)
    BY <1>2, <1>5
  <2>3. \E m \in {"black", g.margin} : Shows(h, g, "box", m)
    BY <1>1, <1>3, <2>1, <2>2 DEF Shows, SameParts
  <2> QED  BY <1>5, <2>3 DEF h
<1>6. CASE l.scaler # SCALE_1X /\ ~g.s_img
  <2>1. h = f
    BY <1>2, <1>6
  <2> QED  BY <1>1, <1>6, <2>1 DEF h
<1> QED  BY <1>4, <1>5, <1>6

(* The loop's frame, when it draws one, leaves the margin owed.            *)
LEMMA BlitKeeps ==
  ASSUME PanelInv, BlitIfInited, phase' = "run",
         phase = "run" \/ glass.margin = "black"
  PROVE  PanelInv'
<1> USE DEF PanelInv, PanelTypes, Lcds
<1>1. lcd.rgb444 \in {0, 1} /\ glass \in Glasses /\ FormatKnown(glass)
  OBVIOUS
<1>2. CASE ~glass.s_blit_task
  <2>1. UNCHANGED <<glass, lcd>>
    BY <1>2 DEF BlitIfInited
  <2> QED  BY <1>2, <2>1 DEF MarginOwed, FormatKnown
<1>3. CASE glass.s_blit_task
  <2>1. glass' = do_blit(glass, lcd) /\ lcd' = [lcd EXCEPT !.s_clear_req = 0]
    BY <1>3 DEF BlitIfInited
  <2>2. lcd' \in Lcds /\ lcd'.scaler = lcd.scaler
    BY <2>1
  <2>3. CASE lcd.scaler = SCALE_1X
    <3>1. Shows(glass', glass, "1x", "1x")
      BY <1>1, <2>1, <2>3, FrameKeeps
    <3>2. CanDraw(glass') = CanDraw(glass)
      BY <3>1 DEF Shows, SameParts, CanDraw
    <3>3. MarginOwed'
      BY <2>2, <2>3, <3>1, <3>2 DEF Shows, MarginOwed
    <3> QED  BY <2>2, <3>1, <3>3 DEF Shows, FormatKnown
  <2>4. CASE lcd.scaler # SCALE_1X
    <3>1. \/ \E m \in {"black", glass.margin} : Shows(glass', glass, "box", m)
          \/ Shows(glass', glass, "fill", "black")
          \/ glass' = glass
      BY <1>1, <2>1, <2>4, FrameKeeps
    <3>2. glass.margin = "black"
      BY <2>4 DEF MarginOwed
    <3>3. glass' \in Glasses /\ FormatKnown(glass') /\ glass'.margin = "black"
      BY <1>1, <3>1, <3>2 DEF Shows
    <3> QED  BY <2>2, <3>3 DEF MarginOwed, FormatKnown
  <2> QED  BY <2>3, <2>4
<1> QED  BY <1>2, <1>3

(* Rows of the menu: whatever the settings become, the list is drawn.      *)
LEMMA RowKeeps ==
  ASSUME PanelInv, lcd' \in Lcds,
         NEW g \in Glasses, FormatKnown(g), ~CanDraw(g) => g.margin = "black",
         glass' = draw_drives(g, lcd')
  PROVE  PanelInv'
<1>1. lcd'.rgb444 \in {0, 1}
  BY DEF Lcds
<1>2. PICK what \in {"fill", "menu"} : Shows(glass', g, what, "black")
  BY <1>1, DrivesKeep
<1>3. glass' \in Glasses /\ FormatKnown(glass') /\ glass'.margin = "black"
  BY <1>2 DEF Shows
<1> QED  BY <1>3 DEF PanelInv, PanelTypes, MarginOwed, FormatKnown

LEMMA PowerOnTypes == PowerOn \in Lcds
BY DEF Lcds, PowerOn, Panels, PANEL_COUNT, ST7789, SCALE_COUNT,
       SCALE_AVG, SPI_MHZ_COUNT, SPI_MHZ_DEFAULT

LEMMA DarkIs ==
  Dark \in Glasses /\ FormatKnown(Dark) /\ Dark.margin = "black"
BY DEF Dark, Glasses, FormatKnown, Panels, PANEL_COUNT, ST7789

-----------------------------------------------------------------------------
(***************************************************************************)
(* What NVS holds, key by key, against what the user may find.             *)
(***************************************************************************)
LEMMA ShownIs ==
  ASSUME NEW l
  PROVE  /\ DOMAIN Shown(l) = Keys
         /\ Shown(l)["scaler"] = l.scaler /\ Shown(l)["spiidx"] = l.spiidx
         /\ Shown(l)["rgb444"] = l.rgb444 /\ Shown(l)["panel"] = l.panel
BY DEF Shown, Keys

LEMMA ValuesAre ==
  /\ Values("scaler") = 0 .. SCALE_COUNT - 1
  /\ Values("spiidx") = 0 .. SPI_MHZ_COUNT - 1
  /\ Values("rgb444") = {0, 1} /\ Values("panel") = Panels
  /\ \A k \in Keys : Unset \notin Values(k) /\ Values(k) \subseteq Int
BY DEF Values, Keys, Unset, Panels, PANEL_COUNT, SCALE_COUNT, SPI_MHZ_COUNT

LEMMA ShownTypes ==
  ASSUME NEW l \in Lcds, NEW k \in Keys
  PROVE  Shown(l)[k] \in Values(k) /\ Shown(l)[k] # Unset /\ Shown(l)[k] \in Int
<1>1. /\ l.scaler \in 0 .. SCALE_COUNT - 1 /\ l.spiidx \in 0 .. SPI_MHZ_COUNT - 1
      /\ l.rgb444 \in {0, 1} /\ l.panel \in Panels
  BY DEF Lcds
<1>2. Shown(l)[k] \in Values(k)
  <2>1. CASE k = "scaler"
    BY <1>1, <2>1, ShownIs, ValuesAre
  <2>2. CASE k = "spiidx"
    BY <1>1, <2>2, ShownIs, ValuesAre
  <2>3. CASE k = "rgb444"
    BY <1>1, <2>3, ShownIs, ValuesAre
  <2>4. CASE k = "panel"
    BY <1>1, <2>4, ShownIs, ValuesAre
  <2> QED  BY <2>1, <2>2, <2>3, <2>4 DEF Keys
<1> QED  BY <1>2, ValuesAre

(* save_settings() stores every key.                                       *)
LEMMA OrderCovers ==
  /\ \A i \in 1 .. SaveDone - 1 : SaveOrder[i] \in Keys
  /\ \A k \in Keys : \E i \in 1 .. SaveDone - 1 : SaveOrder[i] = k
BY DEF SaveOrder, SaveDone, Keys

(* A step of a save is open to failure until it has returned: what the     *)
(* menu shows is then one of the things the user may find, and as long as  *)
(* nothing has failed the keys behind the step hold it.                    *)
StoreInv ==
  /\ nvs \in [Keys -> Int] /\ \A k \in Keys : nvs[k] \in Values(k) \cup {Unset}
  /\ kept \in [Keys -> SUBSET Int]
  /\ \A k \in Keys : Loaded[k] \in kept[k]
  /\ step \in 1 .. SaveDone /\ whole \in BOOLEAN
  /\ Saving /\ step # SaveDone => \A k \in Keys : Shown(lcd)[k] \in kept[k]
  /\ Saving /\ whole => \A i \in 1 .. step - 1 : nvs[SaveOrder[i]] = Shown(lcd)[SaveOrder[i]]

LEMMA LoadedIs ==
  ASSUME StoreInv
  PROVE  \A k \in Keys :
           /\ Loaded[k] = IF nvs[k] = Unset THEN Shown(PowerOn)[k] ELSE nvs[k]
           /\ Loaded[k] \in Values(k) /\ Loaded[k] \in kept[k]
BY PowerOnTypes, ShownTypes DEF StoreInv, Loaded

(* What a boot makes of it: 12 bit only where the panel has it.            *)
LEMMA LoadBack ==
  ASSUME StoreInv
  PROVE  LET l == LoadScaler(lcd_load_nvs)
         IN  /\ l \in Lcds /\ lcd_load_nvs \in Lcds
             /\ \A k \in Keys \ {"rgb444"} : Shown(l)[k] = Loaded[k]
             /\ l.panel = Loaded["panel"]
             /\ l.rgb444 = IF has_rgb444(Loaded["panel"]) THEN Loaded["rgb444"] ELSE 0
<1> DEFINE b == IF has_rgb444(Loaded["panel"]) THEN Loaded["rgb444"] ELSE 0
           s == Loaded["spiidx"]
           p == Loaded["panel"]
           c == Loaded["scaler"]
           l == lcd_load_nvs
           m == LoadScaler(l)
<1>1. /\ s \in 0 .. SPI_MHZ_COUNT - 1 /\ p \in Panels
      /\ c \in 0 .. SCALE_COUNT - 1 /\ b \in {0, 1}
  BY LoadedIs, ValuesAre DEF Keys
<1>2. l = [PowerOn EXCEPT !.spiidx = s, !.panel = p, !.rgb444 = b]
  BY DEF lcd_load_nvs
<1>3. m = [l EXCEPT !.s_clear_req = IF c # l.scaler THEN 1 ELSE @, !.scaler = c]
  BY DEF LoadScaler, lcd_set_scale_mode
<1> HIDE DEF b, s, p, c, l, m
<1>4. /\ l \in Lcds
      /\ l.panel = p /\ l.spiidx = s /\ l.rgb444 = b
  BY <1>1, <1>2, PowerOnTypes DEF Lcds
<1>5. /\ m \in Lcds /\ m.scaler = c
      /\ m.panel = p /\ m.spiidx = s /\ m.rgb444 = b
  BY <1>1, <1>3, <1>4 DEF Lcds
<1>6. \A k \in Keys \ {"rgb444"} : Shown(m)[k] = Loaded[k]
  BY <1>5, ShownIs DEF Keys, c, s, p
<1> QED  BY <1>4, <1>5, <1>6 DEF m, b, l, p

LEMMA StoreInit == SettingsInit => StoreInv
<1> SUFFICES ASSUME SettingsInit PROVE StoreInv
  OBVIOUS
<1>1. nvs = [k \in Keys |-> Unset] /\ kept = JustOne(PowerOn)
  BY DEF SettingsInit
<1>2. \A k \in Keys : Shown(PowerOn)[k] \in Int
  BY PowerOnTypes, ShownTypes
<1>3. \A k \in Keys : Loaded[k] = Shown(PowerOn)[k] /\ kept[k] = {Shown(PowerOn)[k]}
  BY <1>1 DEF Loaded, JustOne
<1>4. nvs \in [Keys -> Int] /\ \A k \in Keys : nvs[k] \in Values(k) \cup {Unset}
  BY <1>1 DEF Unset
<1>5. kept \in [Keys -> SUBSET Int]
  BY <1>1, <1>2 DEF JustOne
<1> QED  BY <1>3, <1>4, <1>5 DEF SettingsInit, StoreInv, Saving, SaveDone

(* As long as no key and no expectation changes, and no save is under way. *)
LEMMA StoreStays ==
  ASSUME StoreInv, UNCHANGED <<nvs, kept>>, ~Saving',
         step' \in 1 .. SaveDone, whole' \in BOOLEAN
  PROVE  StoreInv'
<1>1. Loaded' = Loaded
  BY DEF Loaded
<1> QED  BY <1>1 DEF StoreInv

LEMMA StoreStep == PanelInv /\ StoreInv /\ [SettingsNext]_settingsVars => StoreInv'
<1> SUFFICES ASSUME PanelInv, StoreInv, [SettingsNext]_settingsVars PROVE StoreInv'
  OBVIOUS
<1>0. lcd \in Lcds
  BY DEF PanelInv, PanelTypes
<1>1. CASE EraseNvs
  <2>1. /\ nvs' = [k \in Keys |-> Unset] /\ kept' = JustOne(PowerOn)
        /\ ~Saving' /\ UNCHANGED <<step, whole>>
    BY <1>1 DEF EraseNvs, Saving
  <2>2. \A k \in Keys : Shown(PowerOn)[k] \in Int
    BY PowerOnTypes, ShownTypes
  <2>3. \A k \in Keys : Loaded'[k] = Shown(PowerOn)[k] /\ kept'[k] = {Shown(PowerOn)[k]}
    BY <2>1 DEF Loaded, JustOne
  <2>4. nvs' \in [Keys -> Int] /\ \A k \in Keys : nvs'[k] \in Values(k) \cup {Unset}
    BY <2>1 DEF Unset
  <2>5. kept' \in [Keys -> SUBSET Int]
    BY <2>1, <2>2 DEF JustOne
  <2> QED  BY <2>1, <2>3, <2>4, <2>5 DEF StoreInv
<1>2. CASE Boot
  <2>1. /\ lcd' = LoadScaler(lcd_load_nvs)
        /\ kept' = [JustOne(lcd') EXCEPT
                      !["rgb444"] = IF has_rgb444(lcd'.panel) THEN @ ELSE kept["rgb444"]]
        /\ ~Saving' /\ UNCHANGED <<nvs, step, whole>>
    BY <1>2 DEF Boot, Saving
  <2>2. /\ lcd' \in Lcds
        /\ \A k \in Keys \ {"rgb444"} : Shown(lcd')[k] = Loaded[k]
        /\ lcd'.panel = Loaded["panel"]
        /\ lcd'.rgb444 = IF has_rgb444(Loaded["panel"]) THEN Loaded["rgb444"] ELSE 0
    BY <2>1, LoadBack
  <2>3. Loaded' = Loaded
    BY <2>1 DEF Loaded
  <2>4. \A k \in Keys : Shown(lcd')[k] \in Int
    BY <2>2, ShownTypes
  <2>5. \A k \in Keys \ {"rgb444"} : kept'[k] = {Shown(lcd')[k]}
    BY <2>1 DEF JustOne
  <2>6. kept'["rgb444"] = IF has_rgb444(lcd'.panel) THEN {Shown(lcd')["rgb444"]}
                                                    ELSE kept["rgb444"]
    BY <2>1 DEF JustOne, Keys
  <2>7. kept' \in [Keys -> SUBSET Int]
    <3>1. \A k \in Keys : kept'[k] \in SUBSET Int
      BY <2>4, <2>5, <2>6 DEF StoreInv, Keys
    <3>2. kept' = [k \in Keys |-> kept'[k]]
      BY <2>1 DEF JustOne
    <3> QED  BY <3>1, <3>2
  <2>8. \A k \in Keys : Loaded[k] \in kept'[k]
    <3>1. Loaded["rgb444"] \in kept["rgb444"]
      BY DEF StoreInv, Keys
    <3>2. Loaded["rgb444"] \in kept'["rgb444"]
      BY <2>2, <2>6, <3>1, ShownIs
    <3> QED  BY <2>2, <2>5, <3>2
  <2> QED  BY <2>1, <2>3, <2>7, <2>8 DEF StoreInv
<1>3. CASE CloseMenu \/ Reset
  <2>1. PICK opened \in BOOLEAN :
          /\ step' = IF opened THEN 1 ELSE SaveDone
          /\ whole' = opened
          /\ kept' = IF opened THEN [k \in Keys |-> kept[k] \cup {Shown(lcd)[k]}] ELSE kept
    BY <1>3 DEF CloseMenu, Reset, save_settings
  <2>2. UNCHANGED <<lcd, nvs>>
    BY <1>3 DEF CloseMenu, Reset, save_settings
  <2>3. Loaded' = Loaded /\ Shown(lcd)' = Shown(lcd)
    BY <2>2 DEF Loaded, Shown
  <2>4. \A k \in Keys : Shown(lcd)[k] \in Int
    BY <1>0, ShownTypes
  <2>5. CASE opened
    <3>1. \A k \in Keys : kept'[k] = kept[k] \cup {Shown(lcd)[k]}
      BY <2>1, <2>5
    <3>2. kept' \in [Keys -> SUBSET Int]
      BY <2>1, <2>4, <2>5 DEF StoreInv
    <3>3. step' = 1 /\ whole'
      BY <2>1, <2>5
    <3> QED  BY <2>2, <2>3, <3>1, <3>2, <3>3 DEF StoreInv, SaveDone
  <2>6. CASE ~opened
    <3>1. kept' = kept /\ step' = SaveDone /\ whole' = FALSE
      BY <2>1, <2>6
    <3>2. step' \in 1 .. SaveDone
      BY <3>1 DEF SaveDone
    <3>4. whole' \in BOOLEAN /\ ~whole'
      BY <3>1, Zenon
    <3>3. \A k \in Keys : Loaded'[k] \in kept'[k]
      BY <2>3, <3>1 DEF StoreInv
    <3> QED  BY <2>2, <3>1, <3>2, <3>3, <3>4 DEF StoreInv
  <2> QED  BY <2>5, <2>6
<1>4. CASE nvs_set_u8
  <2> DEFINE k0 == SaveOrder[step]
  <2>1. PICK ok \in BOOLEAN :
          /\ nvs' = IF ok THEN [nvs EXCEPT ![k0] = Shown(lcd)[k0]] ELSE nvs
          /\ whole' = (whole /\ ok)
    BY <1>4 DEF nvs_set_u8
  <2>2. /\ Saving /\ step # SaveDone /\ step' = step + 1
        /\ UNCHANGED <<phase, lcd, kept>>
    BY <1>4 DEF nvs_set_u8
  <2>3. step \in 1 .. SaveDone - 1 /\ step' \in 1 .. SaveDone
    BY <2>2 DEF StoreInv, SaveDone
  <2>4. k0 \in Keys
    BY <2>3, OrderCovers
  <2> HIDE DEF k0
  <2>5. Shown(lcd)' = Shown(lcd)
    BY <2>2 DEF Shown
  <2>6. \A k \in Keys : /\ Shown(lcd)[k] \in Values(k) /\ Shown(lcd)[k] # Unset
                        /\ Shown(lcd)[k] \in Int /\ Shown(lcd)[k] \in kept[k]
    BY <1>0, <2>2, ShownTypes DEF StoreInv
  <2>7. \A k \in Keys : nvs'[k] = IF ok /\ k = k0 THEN Shown(lcd)[k] ELSE nvs[k]
    BY <2>1, <2>4 DEF StoreInv
  <2>8. nvs' \in [Keys -> Int]
    BY <2>1, <2>4, <2>6 DEF StoreInv
  <2>9. \A k \in Keys : nvs'[k] \in Values(k) \cup {Unset}
    BY <2>6, <2>7 DEF StoreInv
  <2>10. \A k \in Keys : Loaded'[k] \in kept[k]
    <3>1. \A k \in Keys : /\ Loaded'[k] = IF nvs'[k] = Unset THEN Shown(PowerOn)[k] ELSE nvs'[k]
                          /\ Loaded[k] = IF nvs[k] = Unset THEN Shown(PowerOn)[k] ELSE nvs[k]
      BY DEF Loaded
    <3> QED  BY <2>6, <2>7, <3>1 DEF StoreInv
  <2>11. whole' => \A i \in 1 .. step' - 1 : nvs'[SaveOrder[i]] = Shown(lcd)[SaveOrder[i]]
    <3> SUFFICES ASSUME whole', NEW i \in 1 .. step' - 1
                 PROVE  nvs'[SaveOrder[i]] = Shown(lcd)[SaveOrder[i]]
      OBVIOUS
    <3>1. whole /\ ok
      BY <2>1
    <3>2. i \in 1 .. SaveDone - 1 /\ (i = step \/ i \in 1 .. step - 1)
      BY <2>2, <2>3 DEF SaveDone
    <3>3. SaveOrder[i] \in Keys
      BY <3>2, OrderCovers
    <3>4. CASE i = step
      BY <2>7, <3>1, <3>3, <3>4 DEF k0
    <3>5. CASE i \in 1 .. step - 1
      <4>1. nvs[SaveOrder[i]] = Shown(lcd)[SaveOrder[i]]
        BY <2>2, <3>1, <3>5 DEF StoreInv
      <4> QED  BY <2>7, <3>3, <4>1
    <3> QED  BY <3>2, <3>4, <3>5
  <2> QED  BY <2>1, <2>2, <2>3, <2>5, <2>6, <2>8, <2>9, <2>10, <2>11 DEF StoreInv
<1>5. CASE SaveReturns
  <2>1. /\ Saving /\ step = SaveDone /\ step' = 1 /\ whole' = TRUE
        /\ kept' = IF whole THEN JustOne(lcd) ELSE kept
        /\ nvs' = nvs /\ ~Saving'
    BY <1>5 DEF SaveReturns, Saving
  <2>2. Loaded' = Loaded
    BY <2>1 DEF Loaded
  <2>3. CASE ~whole
    <3>1. kept' = kept
      BY <2>1, <2>3
    <3> QED  BY <2>1, <3>1, StoreStays DEF SaveDone
  <2>4. CASE whole
    <3>1. \A k \in Keys : nvs[k] = Shown(lcd)[k]
      <4> TAKE k \in Keys
      <4>1. PICK i \in 1 .. SaveDone - 1 : SaveOrder[i] = k
        BY OrderCovers
      <4> QED  BY <2>1, <2>4, <4>1 DEF StoreInv
    <3>2. \A k \in Keys : Shown(lcd)[k] # Unset /\ Shown(lcd)[k] \in Int
      BY <1>0, ShownTypes
    <3>3. \A k \in Keys : Loaded[k] = Shown(lcd)[k]
      BY <3>1, <3>2 DEF Loaded
    <3>4. kept' \in [Keys -> SUBSET Int] /\ \A k \in Keys : kept'[k] = {Shown(lcd)[k]}
      BY <2>1, <2>4, <3>2 DEF JustOne
    <3>5. \A k \in Keys : Loaded'[k] \in kept'[k]
      BY <2>2, <3>3, <3>4
    <3>6. step' \in 1 .. SaveDone /\ whole' \in BOOLEAN
      BY <2>1 DEF SaveDone
    <3> QED  BY <2>1, <3>4, <3>5, <3>6 DEF StoreInv
  <2> QED  BY <2>3, <2>4
<1>6. CASE PowerCut
  BY <1>6, StoreStays DEF PowerCut, Saving, SaveDone
<1>7. CASE Blit \/ OpenMenu
  <2>1. UNCHANGED <<nvs, kept, step, whole>> /\ ~Saving'
    BY <1>7 DEF Blit, OpenMenu, store, ghosts, Saving
  <2> QED  BY <2>1, StoreStays DEF StoreInv
<1>8. CASE AdjustDisplay \/ AdjustSpi \/ AdjustRgb444 \/ BrowseRom \/ Redraw
  <2>1. UNCHANGED <<nvs, kept, step, whole>> /\ ~Saving'
    BY <1>8 DEF AdjustDisplay, AdjustSpi, AdjustRgb444, BrowseRom, Redraw, InMenu,
                store, ghosts, Saving
  <2> QED  BY <2>1, StoreStays DEF StoreInv
<1>9. CASE UNCHANGED settingsVars
  <2>1. UNCHANGED <<nvs, kept, step, whole, lcd, phase>>
    BY <1>9 DEF settingsVars, store, ghosts
  <2>2. Loaded' = Loaded /\ Shown(lcd)' = Shown(lcd) /\ Saving' = Saving
    BY <2>1 DEF Loaded, Shown, Saving
  <2> QED  BY <2>1, <2>2 DEF StoreInv
<1> QED  BY <1>1, <1>2, <1>3, <1>4, <1>5, <1>6, <1>7, <1>8, <1>9 DEF SettingsNext

LEMMA PanelStep == PanelInv /\ StoreInv /\ [SettingsNext]_settingsVars => PanelInv'
<1> SUFFICES ASSUME PanelInv, StoreInv, [SettingsNext]_settingsVars PROVE PanelInv'
  OBVIOUS
<1>0. /\ lcd \in Lcds /\ glass \in Glasses /\ FormatKnown(glass)
      /\ ~CanDraw(glass) => glass.margin = "black"
      /\ glass.last # "header" /\ phase = "menu" => glass.margin = "black"
      /\ Saving \/ phase = "off" => glass.margin = "black"
  BY DEF PanelInv, PanelTypes, MarginOwed, Saving
<1>1. CASE EraseNvs
  BY <1>1 DEF EraseNvs, PanelInv, PanelTypes, MarginOwed, FormatKnown
<1>2. CASE Boot
  <2>1. PICK got : glass' = lcd_init(lcd_load_nvs, got)
    BY <1>2 DEF Boot
  <2>2. lcd' \in Lcds /\ lcd_load_nvs \in Lcds
    BY <1>2, LoadBack DEF Boot
  <2> DEFINE l == lcd_load_nvs
             band == "band0" \in got
             img == "img" \in got
             task == "task" \in got
             io == [Dark EXCEPT !.s_io = TRUE, !.s_band = band]
             d == panel_init([io EXCEPT !.s_img = img, !.s_blit_task = task], l.panel)
  <2>3. glass' = Dark \/ glass' = io \/ glass' = fill_rect(d)
    BY <2>1 DEF lcd_init
  <2>4. l.panel \in Panels
    BY <2>2 DEF Lcds
  <2>8. band \in BOOLEAN /\ img \in BOOLEAN /\ task \in BOOLEAN
    OBVIOUS
  <2> HIDE DEF l, band, img, task
  <2>5. io \in Glasses /\ FormatKnown(io) /\ io.margin = "black"
    BY <2>8, DarkIs DEF Glasses, FormatKnown
  <2>6. d \in Glasses /\ FormatKnown(d) /\ d.margin = "black"
    <3>1. d = [[io EXCEPT !.s_img = img, !.s_blit_task = task]
                 EXCEPT !.init = l.panel, !.colmod = 0, !.s_panel12 = 0]
      BY DEF panel_init
    <3> HIDE DEF io
    <3> QED  BY <2>8, <2>4, <2>5, <3>1 DEF Glasses, FormatKnown
  <2> HIDE DEF d, io
  <2>7. glass' \in Glasses /\ FormatKnown(glass') /\ glass'.margin = "black"
    BY <2>3, <2>5, <2>6, FillKeeps, DarkIs
  <2> QED  BY <2>2, <2>7 DEF PanelInv, PanelTypes, MarginOwed, FormatKnown
<1>3. CASE Blit
  BY <1>3, BlitKeeps DEF Blit
<1>4. CASE OpenMenu
  <2>1. glass' = draw_drives(glass, lcd') /\ lcd' = lcd
    BY <1>4 DEF OpenMenu
  <2> QED  BY <1>0, <2>1, RowKeeps
<1>5. CASE AdjustDisplay
  <2>1. PICK idx \in Stepped(lcd.panel * SCALE_COUNT + lcd.scaler,
                                    PANEL_COUNT * SCALE_COUNT, 1) :
          LET l == lcd_set_scale_mode(
                     [lcd EXCEPT !.panel = idx \div SCALE_COUNT], idx % SCALE_COUNT)
          IN  lcd' = l /\ glass' = draw_drives(glass, l)
    BY <1>5 DEF AdjustDisplay
  <2>2. idx \in 0 .. 7
    BY <1>0 DEF Lcds, Stepped, SCALE_COUNT, PANEL_COUNT, Panels
  <2>3. idx \div SCALE_COUNT \in Panels
        /\ idx % SCALE_COUNT \in 0 .. SCALE_COUNT - 1
    BY <2>2 DEF SCALE_COUNT, PANEL_COUNT, Panels
  <2> DEFINE p == idx \div SCALE_COUNT
             s == idx % SCALE_COUNT
  <2>4. lcd' = [[lcd EXCEPT !.panel = p] EXCEPT
                 !.s_clear_req = IF s # [lcd EXCEPT !.panel = p].scaler THEN 1 ELSE @,
                 !.scaler = s]
    BY <2>1 DEF lcd_set_scale_mode
  <2>5. glass' = draw_drives(glass, lcd')
    BY <2>1
  <2> HIDE DEF p, s
  <2>6. lcd' \in Lcds
    BY <1>0, <2>3, <2>4 DEF Lcds, p, s
  <2> QED  BY <1>0, <2>5, <2>6, RowKeeps
<1>6. CASE AdjustSpi
  <2>1. PICK i \in Stepped(lcd.spiidx, SPI_MHZ_COUNT, -1), ok \in BOOLEAN :
          LET l == [lcd EXCEPT !.spiidx = i,
                               !.s_clear_req = IF glass.s_io /\ ok THEN 1 ELSE @]
              g == IF glass.s_io THEN lcd_apply_spi_clock(glass, l, ok) ELSE glass
          IN  lcd' = l /\ glass' = draw_drives(g, l)
    BY <1>6 DEF AdjustSpi
  <2> DEFINE g == IF glass.s_io THEN lcd_apply_spi_clock(glass, lcd', ok) ELSE glass
  <2>2. i \in 0 .. SPI_MHZ_COUNT - 1
    BY <1>0 DEF Lcds, Stepped, SPI_MHZ_COUNT
  <2>3. lcd' = [lcd EXCEPT !.spiidx = i, !.s_clear_req = IF glass.s_io /\ ok THEN 1 ELSE @]
        /\ glass' = draw_drives(g, lcd')
    BY <2>1
  <2>4. lcd' \in Lcds
    BY <1>0, <2>2, <2>3 DEF Lcds
  <2>5. phase = "menu" /\ glass.last # "header"
    BY <1>6 DEF AdjustSpi, InMenu, Browsing
  <2>6. glass.margin = "black"
    BY <1>0, <2>5
  <2>7. g \in Glasses /\ FormatKnown(g) /\ g.margin = "black"
    <3>1. CASE ~glass.s_io
      BY <1>0, <2>6, <3>1
    <3>2. CASE glass.s_io /\ ~ok
      <4>1. g = [glass EXCEPT !.s_io = FALSE]
        BY <3>2 DEF lcd_apply_spi_clock
      <4> QED  BY <1>0, <2>6, <4>1 DEF Glasses, FormatKnown
    <3>3. CASE glass.s_io /\ ok
      <4>1. g = [glass EXCEPT !.init = lcd'.panel, !.colmod = 0, !.s_panel12 = 0]
        BY <3>3 DEF lcd_apply_spi_clock, panel_init
      <4>2. lcd'.panel \in Panels
        BY <2>4 DEF Lcds
      <4> HIDE DEF g
      <4> QED  BY <1>0, <2>6, <4>1, <4>2 DEF Glasses, FormatKnown
    <3> QED  BY <3>1, <3>2, <3>3
  <2> HIDE DEF g
  <2> QED  BY <2>3, <2>4, <2>7, RowKeeps
<1>7. CASE AdjustRgb444
  <2>1. lcd' = (IF has_rgb444(lcd.panel)
                THEN [lcd EXCEPT !.rgb444 = 1 - @, !.s_clear_req = 1] ELSE lcd)
        /\ glass' = draw_drives(glass, lcd')
    BY <1>7 DEF AdjustRgb444
  <2>2. lcd' \in Lcds
    <3>1. 1 - lcd.rgb444 \in {0, 1}
      BY <1>0 DEF Lcds
    <3>2. lcd' = [lcd EXCEPT !.rgb444 = 1 - lcd.rgb444, !.s_clear_req = 1] \/ lcd' = lcd
      BY <2>1
    <3> QED  BY <1>0, <3>1, <3>2 DEF Lcds
  <2> QED  BY <1>0, <2>1, <2>2, RowKeeps
<1>8. CASE BrowseRom
  <2>1. /\ phase = "menu" /\ phase' = phase /\ glass' = draw_roms(glass, lcd) /\ lcd' = lcd
    BY <1>8 DEF BrowseRom, InMenu
  <2>2. \/ Shows(glass', glass, "header", "header")
        \/ Shows(glass', glass, "fill", "black")
    BY <1>0, <2>1, RomsKeep DEF Lcds
  <2>3. /\ glass' \in Glasses /\ FormatKnown(glass')
        /\ CanDraw(glass') = CanDraw(glass)
        /\ CanDraw(glass) => \/ glass'.margin = "header" /\ glass'.last = "header"
                             \/ glass'.margin = "black"
        /\ ~CanDraw(glass) => glass' = glass
    BY <2>2 DEF Shows, SameParts, CanDraw
  <2>4. MarginOwed'
    BY <1>0, <2>1, <2>3 DEF MarginOwed
  <2> QED  BY <1>0, <2>1, <2>3, <2>4 DEF PanelInv, PanelTypes, FormatKnown
<1>9. CASE Redraw
  BY <1>0, <1>9, RowKeeps DEF Redraw
<1>10. CASE CloseMenu \/ Reset
  <2>1. UNCHANGED <<lcd, glass>> /\ phase = "menu" /\ glass.last # "header"
    BY <1>10 DEF CloseMenu, Reset, save_settings, Browsing
  <2> QED  BY <1>0, <2>1 DEF PanelInv, PanelTypes, MarginOwed, FormatKnown
<1>11. CASE nvs_set_u8
  BY <1>11 DEF nvs_set_u8, PanelInv, PanelTypes, MarginOwed, FormatKnown
<1>12. CASE SaveReturns
  <2>1. CASE phase' = "run" /\ BlitIfInited
    BY <1>0, <1>12, <2>1, BlitKeeps DEF SaveReturns
  <2>2. CASE lcd' = PowerOn /\ glass' = Dark
    BY <2>2, PowerOnTypes, DarkIs DEF PanelInv, PanelTypes, MarginOwed, FormatKnown
  <2> QED  BY <1>12, <2>1, <2>2 DEF SaveReturns
<1>13. CASE PowerCut
  <2>1. lcd' = PowerOn /\ glass' = Dark
    BY <1>13 DEF PowerCut
  <2> QED  BY <2>1, PowerOnTypes, DarkIs DEF PanelInv, PanelTypes, MarginOwed, FormatKnown
<1>14. CASE UNCHANGED settingsVars
  BY <1>14 DEF settingsVars, PanelInv, PanelTypes, MarginOwed, FormatKnown
<1> QED  BY <1>1, <1>2, <1>3, <1>4, <1>5, <1>6, <1>7, <1>8, <1>9, <1>10, <1>11, <1>12, <1>13, <1>14 DEF SettingsNext

(***************************************************************************)
(* PixelsDecoded: what push_rect() and fill_rect() send is in the format   *)
(* set_colmod() last gave the controller, for any number of boots and any  *)
(* order of menu rows, failures included.                                  *)
(***************************************************************************)
THEOREM PixelsDecodedHolds == SettingsSpec => []PixelsDecoded
<1>1. PanelInv => PixelsDecoded
  BY DEF PanelInv, FormatKnown, PixelsDecoded
<1> QED  BY <1>1, PanelInit, StoreInit, PanelStep, StoreStep, PTL DEF SettingsSpec

(***************************************************************************)
(* MarginBlack: no frame is left with pixels of the menu or of an unscaled *)
(* picture around it.  The invariant says why do_blit()'s own wipe is      *)
(* never what does it: the menu leaves a clean margin by itself.           *)
(***************************************************************************)
THEOREM MarginBlackHolds == SettingsSpec => []MarginBlack
<1>1. PanelInv => MarginBlack
  BY DEF PanelInv, MarginOwed, MarginBlack
<1> QED  BY <1>1, PanelInit, StoreInit, PanelStep, StoreStep, PTL DEF SettingsSpec

(***************************************************************************)
(* SettingsSurvive: whatever becomes of the calls of save_settings() and   *)
(* wherever the power is cut between them, lcd_load_nvs() and emu_task     *)
(* bring up for each setting a value the user was shown since the last     *)
(* save that went through, that save's alone if there was none since, and  *)
(* no panel in a format it has not got.  For any number of saves and boots.*)
(***************************************************************************)
THEOREM SettingsSurviveHolds == SettingsSpec => SettingsSurvive
<1> DEFINE Back ==
      Boot =>
        /\ \A k \in Keys \ {"rgb444"} : Shown(lcd')[k] \in kept[k]
        /\ IF has_rgb444(lcd'.panel) THEN lcd'.rgb444 \in kept["rgb444"]
                                     ELSE lcd'.rgb444 = 0
<1>1. PanelInv /\ StoreInv /\ [SettingsNext]_settingsVars => [Back]_settingsVars
  <2> SUFFICES ASSUME StoreInv, Boot PROVE Back
    OBVIOUS
  <2>1. lcd' = LoadScaler(lcd_load_nvs)
    BY DEF Boot
  <2>2. /\ \A k \in Keys \ {"rgb444"} : Shown(lcd')[k] = Loaded[k]
        /\ lcd'.panel = Loaded["panel"]
        /\ lcd'.rgb444 = IF has_rgb444(Loaded["panel"]) THEN Loaded["rgb444"] ELSE 0
    BY <2>1, LoadBack
  <2>3. \A k \in Keys : Loaded[k] \in kept[k]
    BY DEF StoreInv
  <2>4. Loaded["rgb444"] \in kept["rgb444"]
    BY <2>3 DEF Keys
  <2> QED  BY <2>2, <2>3, <2>4
<1> QED  BY <1>1, PanelInit, StoreInit, PanelStep, StoreStep, PTL DEF SettingsSpec, SettingsSurvive
=============================================================================

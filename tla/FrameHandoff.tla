---------------------------- MODULE FrameHandoff ----------------------------
(***************************************************************************)
(* What the LCD path promises the emulator loop, without the handshake     *)
(* that delivers it: one framebuffer, passed back and forth.  The emulator *)
(* draws into it only while no frame is pending; a submitted frame is put  *)
(* on the panel whole, exactly as it was submitted; the disk menu writes   *)
(* on the panel only while no frame is pending.                            *)
(***************************************************************************)
EXTENDS Naturals

CONSTANT MaxFrames          \* bound on the number of composited frames

VARIABLES fb,               \* number of the frame the framebuffer holds
          panel,            \* what the panel shows: a frame number or Menu
          pending           \* a frame has been submitted and not yet shown

vars == <<fb, panel, pending>>

Menu == MaxFrames + 1      \* not a frame number

Init == fb = 0 /\ panel = 0 /\ pending = FALSE

Draw == ~pending /\ fb < MaxFrames /\ fb' = fb + 1 /\ UNCHANGED <<panel, pending>>

Submit == ~pending /\ pending' = TRUE /\ UNCHANGED <<fb, panel>>

Show == pending /\ panel' = fb /\ pending' = FALSE /\ UNCHANGED fb

DrawMenu == ~pending /\ panel' = Menu /\ UNCHANGED <<fb, pending>>

Next == Draw \/ Submit \/ Show \/ DrawMenu

SafeSpec == Init /\ [][Next]_vars

Spec == SafeSpec /\ WF_vars(Show)
=============================================================================

---------------------------- MODULE MCGuestBoard ----------------------------
EXTENDS GuestBoard

(* The guest masks nothing, or the timer and the keyboard. *)
MCMasks ==
  {[c \in Chip |-> IF c = "master" THEN m ELSE {}] : m \in {{}, {SystemTimer, Keyboard}}}
=============================================================================

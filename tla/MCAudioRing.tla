----------------------------- MODULE MCAudioRing -----------------------------
(* Model of AudioRing for TLC.  Blocks of 3 frames, a receive buffer of 2,  *)
(* and a ring of two blocks, or a byte less.                                *)
EXTENDS AudioRing
=============================================================================

------------------------------ MODULE MCLcdBlit ------------------------------
(* Model of LcdBlit for TLC: three composited frames. *)
EXTENDS LcdBlit
=============================================================================

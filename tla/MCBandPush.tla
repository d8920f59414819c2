----------------------------- MODULE MCBandPush -----------------------------
(* Five rows and two to a band: a full call takes two whole bands and a    *)
(* short one, an odd number, so that the buffers' parity changes.          *)
EXTENDS BandPush
=============================================================================

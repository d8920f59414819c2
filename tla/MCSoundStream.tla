---------------------------- MODULE MCSoundStream ----------------------------
(* Model of SoundStream for TLC.  As in the program the reserve is twice a  *)
(* block and a frame is a little less than one; the longest sane frame is   *)
(* what the reserve holds.                                                  *)
EXTENDS SoundStream
=============================================================================

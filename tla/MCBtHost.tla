------------------------------ MODULE MCBtHost ------------------------------
(* Model of BtHost for TLC: a keyboard and two mice for two slots, the     *)
(* second mouse of the kind that may advertise and never answer.           *)
EXTENDS BtHost
CONSTANTS kbd, mouse, mouse2
MCDevs == {kbd, mouse, mouse2}
MCKeyboards == {kbd}
MCMice == {mouse, mouse2}
MCReliable == {kbd, mouse}
=============================================================================

----------------------------- MODULE MCLcdPanel -----------------------------
(* LcdPanel with two boots, one to change the settings and one to read     *)
(* them; two menus, so that a save can go wrong over an earlier one; and   *)
(* one NVS call that fails, besides the power cuts.                        *)
EXTENDS LcdPanel
=============================================================================

------------------------------- MODULE BandPush -------------------------------
(***************************************************************************)
(* How lcd_st7789.cpp gets a rectangle onto the panel: packed band by band *)
(* into two buffers used in turn, each band handed to the SPI driver,      *)
(* which returns while its DMA is still reading the band.                  *)
(*                                                                         *)
(* The caller (the blit task, or the menu on the other core) is one        *)
(* sequential process: module LcdBlit shows that the two exclude each      *)
(* other.  The DMA is the other process; it moves a row at a time.  With   *)
(* trans_queue_depth = 1 every call of the panel IO first waits for the    *)
(* transfer in flight.                                                     *)
(***************************************************************************)
EXTENDS Integers, Sequences, SequencesExt

CONSTANTS
  Rows,         \* rows of the panel
  RowsPerBand,  \* rows that fit a band buffer
  MaxOps        \* bound on the number of drawing calls

ASSUME SizesAssumption ==
  Rows \in Nat \ {0} /\ RowsPerBand \in Nat \ {0} /\ MaxOps \in Nat

VARIABLES
  pc,           \* where the caller is
  op,           \* the call under way: its kind, first row, rows and picture
  r0,           \* rows of it already handed over
  s_band,       \* the two buffers, each a sequence of packed rows
  s_band_cur,
  wire,         \* the transfer in flight: its buffer, rows, and rows moved
  window,       \* the controller's address window, and its write pointer
  panel,        \* what each row of the panel shows
  want,         \* ghost: what the calls so far asked each row to show
  ops

vars == <<pc, op, r0, s_band, s_band_cur, wire, window, panel, want, ops>>

RowIds == 0 .. Rows - 1

Black == <<0, 0>>
Cell(pic, row) == <<pic, row>>
Cells == (0 .. MaxOps) \X RowIds

InFlight == wire.n > 0

Init ==
  /\ pc = "idle"
  /\ op = [kind |-> "fill", y |-> 0, h |-> Rows, pic |-> 0]
  /\ r0 = 0
  /\ s_band = [b \in {0, 1} |-> << >>]
  /\ s_band_cur = 0
  /\ wire = [buf |-> 0, n |-> 0, at |-> 0]
  /\ window = [y |-> 0, h |-> Rows, ptr |-> 0]
  /\ panel = [r \in RowIds |-> Black] /\ want = panel
  /\ ops = 0

-----------------------------------------------------------------------------
Smaller(a, b) == IF a < b THEN a ELSE b

(* Rows of the band that starts at r0. *)
nrows == Smaller(RowsPerBand, op.h - r0)

(* push_rect() is called for a picture, of any place and height. *)
push_rect ==
  /\ pc = "idle" /\ ops < MaxOps
  /\ \E y \in RowIds, h \in 1 .. Rows :
       /\ y + h <= Rows
       /\ op' = [kind |-> "push", y |-> y, h |-> h, pic |-> ops + 1]
       /\ want' = [r \in RowIds |-> IF r \in y .. y + h - 1
                                    THEN Cell(ops + 1, r) ELSE want[r]]
  /\ ops' = ops + 1 /\ r0' = 0
  /\ pc' = "window"
  /\ UNCHANGED <<s_band, s_band_cur, wire, window, panel>>

(* fill_rect(), always of the whole panel: buffer 0 is packed at once, and *)
(* only then is the panel IO called for the first time.                    *)
fill_rect ==
  /\ pc = "idle" /\ ops < MaxOps
  /\ op' = [kind |-> "fill", y |-> 0, h |-> Rows, pic |-> 0]
  /\ want' = [r \in RowIds |-> Black]
  /\ ops' = ops + 1 /\ r0' = 0
  /\ s_band' = [s_band EXCEPT ![0] =
                  [i \in 1 .. Smaller(RowsPerBand, Rows) |-> Black]]
  /\ pc' = "window"
  /\ UNCHANGED <<s_band_cur, wire, window, panel>>

(* Mutant: the window is moved under a transfer in flight. *)
SetWindowNoWait ==
  /\ pc = "window"
  /\ window' = [y |-> op.y, h |-> op.h, ptr |-> window.ptr % op.h]
  /\ pc' = IF op.kind = "push" THEN "pack" ELSE "push"
  /\ UNCHANGED <<op, r0, s_band, s_band_cur, wire, panel, want, ops>>

(* set_colmod() and set_window(): parameters wait for the transfer. *)
set_window ==
  /\ pc = "window" /\ ~InFlight
  /\ window' = [y |-> op.y, h |-> op.h, ptr |-> 0]
  /\ pc' = IF op.kind = "push" THEN "pack" ELSE "push"
  /\ UNCHANGED <<op, r0, s_band, s_band_cur, wire, panel, want, ops>>

(* The next band is packed while the one before it may be in flight. *)
Pack ==
  /\ pc = "pack"
  /\ s_band' = [s_band EXCEPT ![s_band_cur] =
                  [i \in 1 .. nrows |-> Cell(op.pic, op.y + r0 + i - 1)]]
  /\ s_band_cur' = 1 - s_band_cur
  /\ pc' = "push"
  /\ UNCHANGED <<op, r0, wire, window, panel, want, ops>>

(* The buffer push_band() is given: the one just packed, or the fill's. *)
Packed == IF op.kind = "push" THEN 1 - s_band_cur ELSE 0

(* Mutant: a last, short band is not sent. *)
PushBandWhole ==
  /\ pc = "push" /\ ~InFlight
  /\ wire' = [buf |-> Packed, n |-> nrows, at |-> 0]
  /\ window' = [window EXCEPT !.ptr = IF r0 = 0 THEN 0 ELSE @]
  /\ r0' = r0 + nrows
  /\ pc' = IF r0' + RowsPerBand > op.h THEN "idle"
           ELSE IF op.kind = "push" THEN "pack" ELSE "push"
  /\ UNCHANGED <<op, s_band, s_band_cur, panel, want, ops>>

(* push_band(): RAMWR for the first band, RAMWR_CONTINUE for the others.   *)
push_band ==
  /\ pc = "push" /\ ~InFlight
  /\ wire' = [buf |-> Packed, n |-> nrows, at |-> 0]
  /\ window' = [window EXCEPT !.ptr = IF r0 = 0 THEN 0 ELSE @]
  /\ r0' = r0 + nrows
  /\ pc' = IF r0' >= op.h THEN "idle"
           ELSE IF op.kind = "push" THEN "pack" ELSE "push"
  /\ UNCHANGED <<op, s_band, s_band_cur, panel, want, ops>>

(* The DMA moves a row; the controller's pointer wraps in the window. *)
WireRow ==
  /\ InFlight
  /\ panel' = [panel EXCEPT ![window.y + window.ptr] =
                 s_band[wire.buf][wire.at + 1]]
  /\ window' = [window EXCEPT !.ptr = (@ + 1) % window.h]
  /\ wire' = IF wire.at + 1 = wire.n THEN [wire EXCEPT !.n = 0, !.at = 0]
             ELSE [wire EXCEPT !.at = @ + 1]
  /\ UNCHANGED <<pc, op, r0, s_band, s_band_cur, want, ops>>

(* A clock change from the menu: the IO is deleted, which waits for the    *)
(* transfer, and built again.                                              *)
lcd_apply_spi_clock ==
  /\ pc = "idle" /\ ops < MaxOps
  /\ pc' = "del" /\ ops' = ops + 1
  /\ UNCHANGED <<op, r0, s_band, s_band_cur, wire, window, panel, want>>

Deleted ==
  /\ pc = "del" /\ ~InFlight
  /\ pc' = "idle"
  /\ UNCHANGED <<op, r0, s_band, s_band_cur, wire, window, panel, want, ops>>

Caller == set_window \/ Pack \/ push_band \/ Deleted

Next == push_rect \/ fill_rect \/ lcd_apply_spi_clock \/ Caller \/ WireRow

(* A call once begun runs on, and a transfer once started completes. *)
Fairness == WF_vars(Caller) /\ WF_vars(WireRow)

Spec == Init /\ [][Next]_vars /\ Fairness

-----------------------------------------------------------------------------
(* Types; a band buffer never holds more rows than fit it. *)
TypeOK ==
  /\ pc \in {"idle", "window", "pack", "push", "del"}
  /\ op \in [kind : {"push", "fill"}, y : RowIds, h : 1 .. Rows, pic : 0 .. MaxOps]
  /\ r0 \in 0 .. Rows
  /\ s_band \in [{0, 1} -> BoundedSeq(Cells, RowsPerBand)]
  /\ s_band_cur \in {0, 1}
  /\ wire \in [buf : {0, 1}, n : 0 .. RowsPerBand, at : 0 .. RowsPerBand]
  /\ window \in [y : RowIds, h : 1 .. Rows, ptr : RowIds]
  /\ panel \in [RowIds -> Cells] /\ want \in [RowIds -> Cells]
  /\ ops \in 0 .. MaxOps

(* Once the calls have returned and the wire is still, every row shows     *)
(* what was last asked of it: no band was lost, sent twice, sent to the    *)
(* wrong place or overwritten before it was out.                           *)
PictureWhole == pc = "idle" /\ ~InFlight => panel = want

(* Every drawing call ends with the picture on the panel (for the last of  *)
(* a burst, which MaxOps makes of every call: a next call may follow at    *)
(* once).                                                                  *)
PictureArrives == pc # "idle" ~> pc = "idle" /\ panel = want

=============================================================================

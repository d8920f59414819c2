--------------------------- MODULE BandPushProofs ---------------------------
(***************************************************************************)
(* Whatever the sizes of panel, bands and pictures, and however calls and  *)
(* the DMA interleave, what was drawn is what the panel shows.             *)
(***************************************************************************)
EXTENDS BandPush, TLAPS

(* What row r shows once the transfer in flight is through. *)
First == window.y + window.ptr
Left == wire.n - wire.at
Moving(r) == InFlight /\ First <= r /\ r < First + Left
Shown(r) == IF Moving(r) THEN s_band[wire.buf][wire.at + 1 + (r - First)] ELSE panel[r]

(* The rows the call under way has not handed over, and what it wants there. *)
Draws == pc \in {"window", "pack", "push"}
Remains(r) == Draws /\ op.y + r0 <= r /\ r < op.y + op.h
Asked(r) == IF op.kind = "push" THEN Cell(op.pic, r) ELSE Black

Typed ==
  /\ pc \in {"idle", "window", "pack", "push", "del"}
  /\ op \in [kind : {"push", "fill"}, y : Nat, h : Nat, pic : Nat]
  /\ op.h > 0 /\ window.h > 0
  /\ op.y + op.h <= Rows
  /\ op.kind = "fill" => op.y = 0 /\ op.h = Rows
  /\ r0 \in Nat /\ ops \in Nat
  /\ s_band \in [{0, 1} -> Seq(Nat \X Nat)]
  /\ s_band_cur \in {0, 1}
  /\ wire \in [buf : {0, 1}, n : Nat, at : Nat]
  /\ window \in [y : Nat, h : Nat, ptr : Nat]
  /\ window.y + window.h <= Rows
  /\ panel \in [RowIds -> Nat \X Nat] /\ want \in [RowIds -> Nat \X Nat]

(* A transfer stays within its buffer and within the window. *)
WireFits ==
  InFlight =>
    /\ wire.at < wire.n
    /\ wire.n <= RowsPerBand /\ wire.n <= Rows
    /\ wire.n <= Len(s_band[wire.buf])
    /\ window.ptr + Left <= window.h

(* A call that has set its window goes on where the wire will have come to, *)
(* and packs the buffer that is not in flight.                              *)
CallFits ==
  /\ Draws => r0 < op.h
  /\ pc = "window" => r0 = 0
  /\ pc = "pack" => op.kind = "push" /\ (InFlight => wire.buf = 1 - s_band_cur)
  /\ pc \in {"pack", "push"} =>
       /\ window.y = op.y /\ window.h = op.h
       /\ window.ptr + (IF InFlight THEN Left ELSE 0) = r0

(* The buffer to be handed over holds the rows that come next. *)
BandPacked ==
  /\ pc = "push" =>
       /\ nrows <= Len(s_band[Packed])
       /\ \A i \in 1 .. nrows : s_band[Packed][i] = Asked(op.y + r0 + i - 1)
  /\ Draws /\ op.kind = "fill" =>
       /\ Len(s_band[0]) = Smaller(RowsPerBand, Rows)
       /\ \A i \in 1 .. Len(s_band[0]) : s_band[0][i] = Black

(* What was handed over will be shown, and what was not is still to come. *)
Ahead ==
  \A r \in RowIds : want[r] = IF Remains(r) THEN Asked(r) ELSE Shown(r)

Inv == Typed /\ WireFits /\ CallFits /\ BandPacked /\ Ahead

-----------------------------------------------------------------------------
(* A pointer that stays below the height does not wrap. *)
LEMMA NoWrap ==
  ASSUME NEW h \in Nat \ {0}, NEW p \in Nat
  PROVE  /\ p % h \in Nat
         /\ p < h => p % h = p
OBVIOUS

(* The smaller of two numbers. *)
LEMMA SmallerIs ==
  ASSUME NEW a \in Int, NEW b \in Int
  PROVE  /\ Smaller(a, b) \in {a, b} /\ Smaller(a, b) <= a /\ Smaller(a, b) <= b
BY DEF Smaller

(* The rows of the next band. *)
LEMMA Band ==
  ASSUME Inv, Draws
  PROVE  nrows \in Nat \ {0} /\ nrows <= RowsPerBand /\ r0 + nrows <= op.h /\ nrows <= Rows
<1>1. op.h \in Nat /\ r0 \in Nat /\ r0 < op.h /\ op.y \in Nat /\ op.y + op.h <= Rows
  BY DEF Inv, Typed, CallFits
<1>2. op.h <= Rows /\ op.h - r0 \in Nat \ {0}
  BY <1>1, SizesAssumption
<1>3. nrows \in {RowsPerBand, op.h - r0} /\ nrows <= RowsPerBand /\ nrows <= op.h - r0
  BY <1>1, <1>2, SizesAssumption, SmallerIs DEF nrows
<1>4. QED
  BY <1>1, <1>2, <1>3, SizesAssumption

(* The empty machine. *)
LEMMA InvInit == Init => Inv
<1> SUFFICES ASSUME Init PROVE Inv
  OBVIOUS
<1>1. Typed
  BY SizesAssumption DEF Init, Typed, RowIds, Black
<1>2. WireFits /\ CallFits /\ BandPacked
  BY DEF Init, WireFits, CallFits, BandPacked, InFlight, Draws
<1>3. Ahead
  BY DEF Init, Ahead, Remains, Draws, Shown, Moving, InFlight, RowIds
<1>4. QED
  BY <1>1, <1>2, <1>3 DEF Inv

(* A call for a picture: its rows are to come, the others as they were. *)
LEMMA PushKeepsInv == Inv /\ push_rect => Inv'
<1> SUFFICES ASSUME Inv, push_rect PROVE Inv'
  OBVIOUS
<1>1. PICK y \in RowIds, h \in 1 .. Rows :
        /\ y + h <= Rows
        /\ op' = [kind |-> "push", y |-> y, h |-> h, pic |-> ops + 1]
        /\ want' = [r \in RowIds |-> IF r \in y .. y + h - 1 THEN Cell(ops + 1, r) ELSE want[r]]
  BY DEF push_rect
<1>2. /\ pc = "idle" /\ pc' = "window" /\ ops' = ops + 1 /\ r0' = 0
      /\ UNCHANGED <<s_band, s_band_cur, wire, window, panel>>
  BY DEF push_rect
<1>3. y \in Nat /\ h \in Nat \ {0} /\ ops \in Nat
  BY <1>1, SizesAssumption DEF RowIds, Inv, Typed
<1>4. Typed'
  <2>1. want' \in [RowIds -> Nat \X Nat]
    <3>1. \A r \in RowIds : Cell(ops + 1, r) \in Nat \X Nat
      BY <1>3, SizesAssumption DEF Cell, RowIds
    <3>2. want \in [RowIds -> Nat \X Nat]
      BY DEF Inv, Typed
    <3>3. QED
      BY <1>1, <3>1, <3>2
  <2>2. op' \in [kind : {"push", "fill"}, y : Nat, h : Nat, pic : Nat]
    BY <1>1, <1>3
  <2>3. op'.y = y /\ op'.h = h /\ op'.kind = "push" /\ h > 0
    BY <1>1, <1>3
  <2>4. QED
    BY <1>1, <1>2, <1>3, <2>1, <2>2, <2>3 DEF Inv, Typed
<1>5. WireFits' /\ CallFits' /\ BandPacked'
  BY <1>1, <1>2, <1>3 DEF Inv, WireFits, CallFits, BandPacked, InFlight, Left, Draws
<1>6. ASSUME NEW r \in RowIds PROVE (want[r] = IF Remains(r) THEN Asked(r) ELSE Shown(r))'
  <2>1. want[r] = Shown(r) /\ Shown(r)' = Shown(r)
    BY <1>2, <1>6 DEF Inv, Ahead, Remains, Draws, Shown, Moving, InFlight, First, Left
  <2>2. Remains(r)' <=> r \in y .. y + h - 1
    BY <1>1, <1>2, <1>3, <1>6 DEF Remains, Draws, RowIds
  <2>3. Remains(r)' => Asked(r)' = Cell(ops + 1, r)
    BY <1>1 DEF Asked, Cell
  <2>4. QED
    BY <1>1, <1>6, <2>1, <2>2, <2>3
<1>7. QED
  BY <1>2, <1>4, <1>5, <1>6 DEF Inv, Ahead, RowIds

(* fill_rect() may pack over the band in flight: all its rows are to come. *)
LEMMA FillKeepsInv == Inv /\ fill_rect => Inv'
<1> SUFFICES ASSUME Inv, fill_rect PROVE Inv'
  OBVIOUS
<1> DEFINE n == Smaller(RowsPerBand, Rows)
<1>1. /\ pc = "idle" /\ pc' = "window" /\ ops' = ops + 1 /\ r0' = 0
      /\ op' = [kind |-> "fill", y |-> 0, h |-> Rows, pic |-> 0]
      /\ want' = [r \in RowIds |-> Black]
      /\ s_band' = [s_band EXCEPT ![0] = [i \in 1 .. n |-> Black]]
      /\ UNCHANGED <<s_band_cur, wire, window, panel>>
  BY DEF fill_rect
<1>2. n \in Nat /\ n \in {RowsPerBand, Rows} /\ n <= RowsPerBand /\ n <= Rows
  BY SmallerIs, SizesAssumption
<1> HIDE DEF n
<1>3. /\ [i \in 1 .. n |-> Black] \in Seq(Nat \X Nat)
      /\ Len([i \in 1 .. n |-> Black]) = n
      /\ Black \in Nat \X Nat
  BY <1>2 DEF Black
<1>4. /\ s_band'[0] = [i \in 1 .. n |-> Black]
      /\ s_band'[1] = s_band[1]
      /\ s_band' \in [{0, 1} -> Seq(Nat \X Nat)]
  BY <1>1, <1>3 DEF Inv, Typed
<1>5. Typed'
  BY <1>1, <1>3, <1>4, SizesAssumption DEF Inv, Typed
<1>6. WireFits'
  BY <1>1, <1>2, <1>3, <1>4 DEF Inv, Typed, WireFits, InFlight, Left
<1>7. CallFits'
  BY <1>1, SizesAssumption DEF CallFits, Draws
<1>8. BandPacked'
  BY <1>1, <1>3, <1>4 DEF BandPacked, n
<1>9. ASSUME NEW r \in RowIds PROVE (want[r] = IF Remains(r) THEN Asked(r) ELSE Shown(r))'
  BY <1>1, <1>9, SizesAssumption DEF Remains, Draws, Asked, RowIds
<1>10. QED
  BY <1>5, <1>6, <1>7, <1>8, <1>9 DEF Inv, Ahead, RowIds

(* Steps that move no row and no band. *)
LEMMA WindowKeepsInv == Inv /\ set_window => Inv'
<1> SUFFICES ASSUME Inv, set_window PROVE Inv'
  OBVIOUS
<1>1. /\ pc = "window" /\ ~InFlight
      /\ window' = [y |-> op.y, h |-> op.h, ptr |-> 0]
      /\ pc' = IF op.kind = "push" THEN "pack" ELSE "push"
      /\ UNCHANGED <<op, r0, s_band, s_band_cur, wire, panel, want, ops>>
  BY DEF set_window
<1>2. Typed' /\ WireFits' /\ CallFits' /\ ~InFlight'
  BY <1>1 DEF Inv, Typed, WireFits, CallFits, InFlight, Draws
<1>3. BandPacked'
  <2>1. CASE op.kind = "push"
    BY <1>1, <2>1 DEF BandPacked
  <2>2. CASE op.kind = "fill"
    <3>1. /\ Len(s_band[0]) = Smaller(RowsPerBand, Rows)
          /\ \A i \in 1 .. Len(s_band[0]) : s_band[0][i] = Black
      BY <1>1, <2>2 DEF Inv, BandPacked, Draws
    <3>2. nrows = Len(s_band[0])
      BY <1>1, <2>2, <3>1 DEF nrows, Inv, Typed, CallFits, Smaller
    <3>3. QED
      BY <1>1, <2>2, <3>1, <3>2 DEF BandPacked, nrows, Packed, Asked
  <2>3. QED
    BY <2>1, <2>2 DEF Inv, Typed
<1>4. ASSUME NEW r \in RowIds PROVE (want[r] = IF Remains(r) THEN Asked(r) ELSE Shown(r))'
  BY <1>1, <1>2, <1>4 DEF Inv, Ahead, Remains, Draws, Asked, Shown, Moving
<1>5. QED
  BY <1>2, <1>3, <1>4 DEF Inv, Ahead, RowIds

(* Packing touches the other buffer than the one in flight. *)
LEMMA PackKeepsInv == Inv /\ Pack => Inv'
<1> SUFFICES ASSUME Inv, Pack PROVE Inv'
  OBVIOUS
<1> DEFINE band == [i \in 1 .. nrows |-> Cell(op.pic, op.y + r0 + i - 1)]
<1>1. /\ pc = "pack" /\ pc' = "push"
      /\ s_band' = [s_band EXCEPT ![s_band_cur] = band]
      /\ s_band_cur' = 1 - s_band_cur
      /\ UNCHANGED <<op, r0, wire, window, panel, want, ops>>
  BY DEF Pack
<1>2. nrows \in Nat \ {0} /\ op.kind = "push"
  BY <1>1, Band DEF Draws, Inv, CallFits
<1>3. \A i \in 1 .. nrows : Cell(op.pic, op.y + r0 + i - 1) \in Nat \X Nat
  BY <1>2 DEF Cell, Inv, Typed
<1>4. band \in Seq(Nat \X Nat) /\ Len(band) = nrows
  BY <1>2, <1>3
<1> HIDE DEF band
<1>5. /\ s_band' \in [{0, 1} -> Seq(Nat \X Nat)]
      /\ s_band'[s_band_cur] = band
      /\ s_band'[1 - s_band_cur] = s_band[1 - s_band_cur]
  BY <1>1, <1>4 DEF Inv, Typed
<1>6. Typed'
  BY <1>1, <1>5 DEF Inv, Typed
<1>7. InFlight => s_band'[wire.buf] = s_band[wire.buf]
  BY <1>1, <1>5 DEF Inv, CallFits
<1>8. WireFits' /\ CallFits'
  BY <1>1, <1>7 DEF Inv, WireFits, CallFits, InFlight, Left, Draws
<1>9. BandPacked'
  <2>1. nrows' = nrows /\ Packed' = s_band_cur
    BY <1>1, <1>2 DEF nrows, Packed, Inv, Typed
  <2>2. \A i \in 1 .. nrows : band[i] = Asked(op.y + r0 + i - 1)'
    BY <1>1, <1>2 DEF band, Asked
  <2>3. QED
    BY <1>1, <1>2, <1>4, <1>5, <2>1, <2>2 DEF BandPacked
<1>10. ASSUME NEW r \in RowIds PROVE (want[r] = IF Remains(r) THEN Asked(r) ELSE Shown(r))'
  <2>1. Shown(r)' = Shown(r)
    BY <1>1, <1>7 DEF Shown, Moving, InFlight, First, Left
  <2>2. (Remains(r)' <=> Remains(r)) /\ Asked(r)' = Asked(r)
    BY <1>1 DEF Remains, Draws, Asked
  <2>3. QED
    BY <1>1, <1>10, <2>1, <2>2 DEF Inv, Ahead
<1>11. QED
  BY <1>6, <1>8, <1>9, <1>10 DEF Inv, Ahead, RowIds

(* The band handed over becomes what its rows will show. *)
LEMMA BandKeepsInv == Inv /\ push_band => Inv'
<1> SUFFICES ASSUME Inv, push_band PROVE Inv'
  OBVIOUS
<1>1. /\ pc = "push" /\ ~InFlight
      /\ wire' = [buf |-> Packed, n |-> nrows, at |-> 0]
      /\ window' = [window EXCEPT !.ptr = IF r0 = 0 THEN 0 ELSE @]
      /\ r0' = r0 + nrows
      /\ pc' = IF r0' >= op.h THEN "idle"
               ELSE IF op.kind = "push" THEN "pack" ELSE "push"
      /\ UNCHANGED <<op, s_band, s_band_cur, panel, want, ops>>
  BY DEF push_band
<1>2. nrows \in Nat \ {0} /\ nrows <= RowsPerBand /\ r0 + nrows <= op.h /\ nrows <= Rows
  BY <1>1, Band DEF Draws
<1>3. window.ptr = r0 /\ window.y = op.y /\ window.h = op.h
  BY <1>1 DEF Inv, CallFits, Typed
<1>4. window' = window
  BY <1>1, <1>3 DEF Inv, Typed
<1>5. /\ Packed \in {0, 1}
      /\ op.kind = "push" => Packed = 1 - s_band_cur
      /\ op.kind = "fill" => Packed = 0
  BY DEF Packed, Inv, Typed
<1>6. /\ nrows <= Len(s_band[Packed])
      /\ \A i \in 1 .. nrows : s_band[Packed][i] = Asked(op.y + r0 + i - 1)
  BY <1>1 DEF Inv, BandPacked
<1>7. /\ wire'.buf = Packed /\ wire'.n = nrows /\ wire'.at = 0
      /\ InFlight' /\ Left' = nrows /\ First' = op.y + r0
  BY <1>1, <1>2, <1>3, <1>4 DEF InFlight, Left, First
<1>8. Typed'
  <2>1. r0' \in Nat
    BY <1>1, <1>2 DEF Inv, Typed
  <2>2. wire' \in [buf : {0, 1}, n : Nat, at : Nat]
    BY <1>1, <1>2, <1>5
  <2>3. QED
    BY <1>1, <1>4, <2>1, <2>2 DEF Inv, Typed
<1>9. WireFits'
  BY <1>1, <1>2, <1>3, <1>4, <1>6, <1>7 DEF WireFits
<1>10. CallFits'
  BY <1>1, <1>2, <1>3, <1>4, <1>5, <1>7 DEF CallFits, Draws, Inv, Typed
<1>11. BandPacked'
  <2>1. CASE op.kind = "push"
    BY <1>1, <2>1 DEF BandPacked
  <2>2. CASE op.kind = "fill"
    <3>1. /\ Len(s_band[0]) = Smaller(RowsPerBand, Rows)
          /\ \A i \in 1 .. Len(s_band[0]) : s_band[0][i] = Black
          /\ op.h = Rows
      BY <1>1, <2>2 DEF Inv, Typed, BandPacked, Draws
    <3>2. /\ nrows' = Smaller(RowsPerBand, Rows - (r0 + nrows))
          /\ r0 + nrows \in Nat
      BY <1>1, <1>2, <3>1 DEF nrows, Inv, Typed
    <3>3. nrows' \in Int /\ nrows' <= Len(s_band[0])
      BY <3>1, <3>2, SizesAssumption DEF Smaller
    <3>4. QED
      BY <1>1, <2>2, <3>1, <3>3 DEF BandPacked, Packed, Asked
  <2>3. QED
    BY <2>1, <2>2 DEF Inv, Typed
<1>12. ASSUME NEW r \in RowIds PROVE (want[r] = IF Remains(r) THEN Asked(r) ELSE Shown(r))'
  <2>0. r \in Int /\ op.y \in Nat /\ r0 \in Nat /\ op.h \in Nat
    BY <1>12 DEF RowIds, Inv, Typed
  <2>1. want'[r] = IF Remains(r) THEN Asked(r) ELSE panel[r]
    BY <1>1, <1>12 DEF Inv, Ahead, Shown, Moving
  <2>2. Remains(r)' <=> op.y + r0 + nrows <= r /\ r < op.y + op.h
    BY <1>1, <1>2, <2>0 DEF Remains, Draws
  <2>3. Remains(r) <=> op.y + r0 <= r /\ r < op.y + op.h
    BY <1>1 DEF Remains, Draws
  <2>4. Moving(r)' <=> op.y + r0 <= r /\ r < op.y + r0 + nrows
    BY <1>7, <2>0, <1>2 DEF Moving
  <2>5. Asked(r)' = Asked(r) /\ panel' = panel
    BY <1>1 DEF Asked
  <2>6. CASE Moving(r)'
    <3>1. Shown(r)' = s_band[Packed][1 + (r - (op.y + r0))]
      BY <1>1, <1>7, <2>6, <2>0 DEF Shown
    <3>2. 1 + (r - (op.y + r0)) \in 1 .. nrows
          /\ op.y + r0 + (1 + (r - (op.y + r0))) - 1 = r
      BY <2>0, <2>4, <2>6, <1>2
    <3>3. Shown(r)' = Asked(r)
      BY <1>6, <3>1, <3>2
    <3>4. QED
      BY <1>2, <2>0, <2>1, <2>2, <2>3, <2>4, <2>6, <3>3
  <2>7. CASE ~Moving(r)'
    <3>1. Shown(r)' = panel[r]
      BY <2>5, <2>7 DEF Shown
    <3>2. QED
      BY <1>2, <2>0, <2>1, <2>2, <2>3, <2>4, <2>5, <2>7, <3>1
  <2>8. QED
    BY <2>6, <2>7
<1>13. QED
  BY <1>8, <1>9, <1>10, <1>11, <1>12 DEF Inv, Ahead, RowIds

(* The row the DMA moves is the first of those it was to move. *)
LEMMA WireKeepsInv == Inv /\ WireRow => Inv'
<1> SUFFICES ASSUME Inv, WireRow PROVE Inv'
  OBVIOUS
<1> DEFINE last == wire.at + 1 = wire.n
           row == s_band[wire.buf][wire.at + 1]
<1>1. /\ InFlight
      /\ panel' = [panel EXCEPT ![First] = row]
      /\ window' = [window EXCEPT !.ptr = (@ + 1) % window.h]
      /\ wire' = IF last THEN [wire EXCEPT !.n = 0, !.at = 0] ELSE [wire EXCEPT !.at = @ + 1]
      /\ UNCHANGED <<pc, op, r0, s_band, s_band_cur, want, ops>>
  BY DEF WireRow, First
<1>2. wire.at < wire.n /\ window.ptr + Left <= window.h
  BY <1>1 DEF Inv, WireFits
<1>3. /\ wire.at \in Nat /\ wire.n \in Nat /\ window.ptr \in Nat /\ window.y \in Nat
      /\ window.h \in Nat /\ window.h > 0 /\ r0 \in Nat
  BY DEF Inv, Typed
<1>4. First \in RowIds /\ row \in Nat \X Nat
  <2>1. wire.n <= Len(s_band[wire.buf]) /\ s_band[wire.buf] \in Seq(Nat \X Nat)
    BY <1>1 DEF Inv, Typed, WireFits
  <2>2. wire.at + 1 \in 1 .. Len(s_band[wire.buf])
    BY <1>2, <1>3, <2>1
  <2>3. window.y + window.h <= Rows /\ Rows \in Nat
    BY SizesAssumption DEF Inv, Typed
  <2>4. First \in RowIds
    BY <1>2, <1>3, <2>3 DEF First, RowIds, Left
  <2>5. QED
    BY <2>1, <2>2, <2>4
<1>5. /\ window'.y = window.y /\ window'.h = window.h
      /\ window'.ptr \in Nat
      /\ window.ptr + 1 < window.h => window'.ptr = window.ptr + 1
  <2>1. window' = [window EXCEPT !.ptr = (window.ptr + 1) % window.h]
    BY <1>1
  <2>2. /\ (window.ptr + 1) % window.h \in Nat
        /\ window.ptr + 1 < window.h => (window.ptr + 1) % window.h = window.ptr + 1
    BY <1>3, NoWrap
  <2>3. /\ window'.y = window.y /\ window'.h = window.h
        /\ window'.ptr = (window.ptr + 1) % window.h
    BY <2>1 DEF Inv, Typed
  <2>4. QED
    BY <2>2, <2>3
<1>6. /\ last => ~InFlight'
      /\ ~last => /\ InFlight' /\ wire'.at = wire.at + 1 /\ wire'.n = wire.n
                  /\ wire'.buf = wire.buf /\ window'.ptr = window.ptr + 1
                  /\ Left' = Left - 1 /\ First' = First + 1
  <2>1. CASE last
    <3>1. wire'.n = 0
      BY <1>1, <2>1 DEF Inv, Typed
    <3>2. QED
      BY <2>1, <3>1 DEF InFlight
  <2>2. CASE ~last
    <3>1. wire'.at = wire.at + 1 /\ wire'.n = wire.n /\ wire'.buf = wire.buf
      BY <1>1, <2>2 DEF Inv, Typed
    <3>2. window.ptr + 1 < window.h
      BY <1>2, <1>3, <2>2 DEF Left
    <3>3. window'.ptr = window.ptr + 1 /\ window'.y = window.y
      BY <1>5, <3>2
    <3>4. wire'.n > 0 /\ wire'.n - wire'.at = (wire.n - wire.at) - 1
      BY <1>2, <1>3, <3>1
    <3>5. window'.y + window'.ptr = (window.y + window.ptr) + 1
      BY <1>3, <3>3
    <3>6. QED
      BY <2>2, <3>1, <3>3, <3>4, <3>5 DEF InFlight, Left, First
  <2>3. QED
    BY <2>1, <2>2
<1>7. Typed'
  <2>1. panel' \in [RowIds -> Nat \X Nat]
    BY <1>1, <1>4 DEF Inv, Typed
  <2>2. window' \in [y : Nat, h : Nat, ptr : Nat]
    BY <1>1, <1>3, <1>5 DEF Inv, Typed
  <2>3. wire' \in [buf : {0, 1}, n : Nat, at : Nat]
    <3>1. wire \in [buf : {0, 1}, n : Nat, at : Nat]
      BY DEF Inv, Typed
    <3>2. CASE last
      BY <1>1, <3>1, <3>2
    <3>3. CASE ~last
      BY <1>1, <1>3, <3>1, <3>3
    <3>4. QED
      BY <3>2, <3>3
  <2>4. QED
    BY <1>1, <1>5, <2>1, <2>2, <2>3 DEF Inv, Typed
<1>8. WireFits'
  <2>1. SUFFICES ASSUME ~last
                 PROVE  /\ wire'.at < wire'.n
                        /\ wire'.n <= RowsPerBand /\ wire'.n <= Rows
                        /\ wire'.n <= Len(s_band'[wire'.buf])
                        /\ window'.ptr + Left' <= window'.h
    BY <1>6 DEF WireFits
  <2>2. wire'.n <= RowsPerBand /\ wire'.n <= Rows /\ wire'.n <= Len(s_band'[wire'.buf])
    BY <1>1, <1>6, <2>1 DEF Inv, WireFits
  <2>3. wire'.at < wire'.n
    BY <1>2, <1>3, <1>6, <2>1
  <2>4. window'.ptr + Left' <= window'.h
    BY <1>2, <1>3, <1>5, <1>6, <2>1 DEF Left
  <2>5. QED
    BY <2>2, <2>3, <2>4
<1>9. CallFits'
  <2>1. ASSUME pc \in {"pack", "push"}
        PROVE  window'.ptr + (IF InFlight' THEN Left' ELSE 0) = r0
    <3>1. window.ptr + Left = r0 /\ r0 < window.h
      BY <1>1, <2>1 DEF Inv, CallFits, Draws
    <3>2. Left \in Nat \ {0} /\ (last => Left = 1)
      BY <1>2, <1>3 DEF Left
    <3>3. window'.ptr = window.ptr + 1
      BY <1>3, <1>5, <3>1, <3>2
    <3>4. QED
      BY <1>3, <1>6, <3>1, <3>2, <3>3
  <2>2. InFlight' => wire'.buf = wire.buf
    BY <1>6
  <2>3. QED
    BY <1>1, <1>5, <2>1, <2>2 DEF CallFits, Draws, Inv
<1>10. BandPacked'
  BY <1>1 DEF Inv, BandPacked, nrows, Packed, Asked, Draws
<1>11. ASSUME NEW r \in RowIds PROVE (want[r] = IF Remains(r) THEN Asked(r) ELSE Shown(r))'
  <2>1. Left \in Nat \ {0} /\ First \in Nat /\ r \in Nat /\ (last => Left = 1)
    BY <1>2, <1>3, <1>11 DEF Left, First, RowIds
  <2>2. panel'[r] = IF r = First THEN row ELSE panel[r]
    BY <1>1, <1>4, <1>11 DEF Inv, Typed
  <2>3. Shown(r)' = Shown(r)
    <3>1. CASE r = First
      <4>1. Moving(r) /\ ~Moving(r)'
        BY <1>1, <1>6, <2>1, <3>1 DEF Moving
      <4>2. Shown(r) = row /\ Shown(r)' = panel'[r]
        BY <4>1, <3>1, <1>3, <2>1 DEF Shown
      <4>3. QED
        BY <4>2, <2>2, <3>1
    <3>2. CASE r # First /\ Moving(r)
      <4>1. ~last /\ Moving(r)'
        BY <1>1, <1>6, <2>1, <3>2 DEF Moving
      <4>2. wire'.at + 1 + (r - First') = wire.at + 1 + (r - First)
        BY <1>3, <1>6, <2>1, <4>1
      <4>3. QED
        BY <1>1, <1>6, <4>1, <4>2, <3>2 DEF Shown
    <3>3. CASE r # First /\ ~Moving(r)
      <4>1. ~Moving(r)'
        BY <1>1, <1>6, <2>1, <3>3 DEF Moving
      <4>2. QED
        BY <2>2, <4>1, <3>3 DEF Shown
    <3>4. QED
      BY <3>1, <3>2, <3>3
  <2>4. (Remains(r)' <=> Remains(r)) /\ Asked(r)' = Asked(r) /\ want' = want
    BY <1>1 DEF Remains, Draws, Asked
  <2>5. QED
    BY <1>11, <2>3, <2>4 DEF Inv, Ahead
<1>12. QED
  BY <1>7, <1>8, <1>9, <1>10, <1>11 DEF Inv, Ahead, RowIds

(* A change of the clock moves nothing. *)
LEMMA ClockKeepsInv == Inv /\ (lcd_apply_spi_clock \/ Deleted) => Inv'
<1> SUFFICES ASSUME Inv, lcd_apply_spi_clock \/ Deleted PROVE Inv'
  OBVIOUS
<1>1. /\ pc \in {"idle", "del"} /\ pc' \in {"idle", "del"} /\ ops' \in Nat
      /\ UNCHANGED <<op, r0, s_band, s_band_cur, wire, window, panel, want>>
  BY DEF lcd_apply_spi_clock, Deleted, Inv, Typed
<1>2. Typed' /\ WireFits' /\ CallFits' /\ BandPacked'
  BY <1>1 DEF Inv, Typed, WireFits, CallFits, BandPacked, InFlight, Left, Draws
<1>3. ASSUME NEW r \in RowIds PROVE (want[r] = IF Remains(r) THEN Asked(r) ELSE Shown(r))'
  BY <1>1, <1>3 DEF Inv, Ahead, Remains, Draws, Shown, Moving, InFlight, First, Left
<1>4. QED
  BY <1>2, <1>3 DEF Inv, Ahead, RowIds

(* Each step of the caller and of the wire keeps the invariant. *)
LEMMA InvStep == Inv /\ [Next]_vars => Inv'
<1> SUFFICES ASSUME Inv, [Next]_vars PROVE Inv'
  OBVIOUS
<1>1. CASE UNCHANGED vars
  BY <1>1 DEF vars, Inv, Typed, WireFits, CallFits, BandPacked, Ahead, InFlight, Left, Draws,
              nrows, Packed, Asked, Remains, Shown, Moving, First
<1>2. CASE Next
  BY <1>2, PushKeepsInv, FillKeepsInv, WindowKeepsInv, PackKeepsInv, BandKeepsInv, WireKeepsInv,
     ClockKeepsInv DEF Next, Caller
<1>3. QED
  BY <1>1, <1>2

(***************************************************************************)
(* Once the calls have returned and the wire is still, the panel shows     *)
(* what was drawn last, row by row: no band is lost, sent twice, out of    *)
(* place, or overwritten before it is out.                                 *)
(***************************************************************************)
THEOREM PictureWholeHolds == Spec => []PictureWhole
<1>1. Inv => PictureWhole
  <2>1. SUFFICES ASSUME Inv, pc = "idle", ~InFlight PROVE panel = want
    BY DEF PictureWhole
  <2>2. \A r \in RowIds : want[r] = panel[r]
    BY <2>1 DEF Inv, Ahead, Remains, Draws, Shown, Moving
  <2>3. QED
    BY <2>1, <2>2 DEF Inv, Typed
<1>2. QED
  BY <1>1, InvInit, InvStep, PTL DEF Spec
=============================================================================

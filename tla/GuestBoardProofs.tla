--------------------------- MODULE GuestBoardProofs ---------------------------
(***************************************************************************)
(* What the guest's handlers have not ended is what is in service, for any *)
(* number of lines, handlers, masks, devices and rotations; therefore the  *)
(* CPU is interrupted when it should be and promptly, and no request for a *)
(* vertical sync is lost.  The bytes of keys are read in order, and none   *)
(* is left behind, for which the list of events must keep the keyboard's.  *)
(* When events are due plays no part in that.  The last part is about it:  *)
(* the event list implements Alarms.                                       *)
(***************************************************************************)
EXTENDS GuestBoard, SequenceTheorems, FiniteSetTheorems, WellFoundedInduction, TLAPS

-----------------------------------------------------------------------------
(* The interrupt controllers, for any number of lines: the scan finds the  *)
(* line with the highest priority, a rotation keeps the order of what      *)
(* stays in service, and the request that pic_irq() takes is the one that  *)
(* may be served before all others.                                        *)

(* The remainder of what is near zero. *)
LEMMA Mod ==
  ASSUME NEW n \in Nat \ {0}, NEW x \in 1 - n .. n - 1
  PROVE  x % n = IF x >= 0 THEN x ELSE x + n
<1>1. CASE x >= 0
  <2>1. x \in 0 .. n - 1
    BY <1>1
  <2> QED  BY <1>1, <2>1, SMT
<1>2. CASE x < 0
  <2>1. x \in 1 - n .. -1
    BY <1>2
  <2>2. x % n = x + n
    BY <2>1, SMT
  <2> QED  BY <1>2, <2>2
<1> QED  BY <1>1, <1>2

(* The distance from the line with the highest priority. *)
LEMMA RankValue ==
  ASSUME NEW item \in PicItem, NEW l \in Lines
  PROVE  /\ Rank(item, l) \in Lines /\ Rank(item, l) \in Nat
         /\ Rank(item, l) = IF l >= item.pry THEN l - item.pry ELSE l - item.pry + Levels
<1>1. item.pry \in 0 .. Levels - 1 /\ Levels \in Nat \ {0}
  BY PicAssumption DEF PicItem, Lines
<1>2. l - item.pry \in 1 - Levels .. Levels - 1
  BY <1>1 DEF Lines
<1>3. (l - item.pry) % Levels = IF l - item.pry >= 0 THEN l - item.pry
                                ELSE l - item.pry + Levels
  BY <1>1, <1>2, Mod
<1> QED  BY <1>1, <1>3 DEF Rank, Lines

(* Two lines have different priorities. *)
LEMMA RankOneToOne ==
  ASSUME NEW item \in PicItem, NEW l \in Lines, NEW k \in Lines,
         Rank(item, l) = Rank(item, k)
  PROVE  l = k
<1>1. item.pry \in 0 .. Levels - 1 /\ Levels \in Nat \ {0}
  BY PicAssumption DEF PicItem, Lines
<1> QED  BY <1>1, RankValue DEF Lines

(* The scan finds a line, and the one with the highest priority. *)
LEMMA FirstIsFirst ==
  ASSUME NEW item \in PicItem, NEW S \in SUBSET Lines, S # {}
  PROVE  /\ First(S, item) \in S
         /\ \A k \in S : Rank(item, First(S, item)) <= Rank(item, k)
         /\ \A k \in S \ {First(S, item)} : Rank(item, First(S, item)) < Rank(item, k)
<1> DEFINE T == {Rank(item, l) : l \in S}
<1>1. \A l \in S : Rank(item, l) \in Nat
  BY RankValue
<1>2. T \subseteq Nat /\ T # {}
  BY <1>1
<1>3. PICK m \in T : \A t \in T : ~(t < m)
  <2>1. PICK m \in T : \A t \in T : <<t, m>> \notin OpToRel(<, Nat)
    BY <1>2, WFMin, NatLessThanWellFounded, Zenon
  <2>2. \A t \in T : ~(t < m)
    BY <1>2, <2>1, Zenon DEF OpToRel
  <2> QED  BY <2>2
<1>4. PICK l \in S : m = Rank(item, l)
  BY <1>3
<1>5. \A k \in S : Rank(item, l) <= Rank(item, k)
  <2> TAKE k \in S
  <2>1. ~(Rank(item, k) < Rank(item, l))
    BY <1>3, <1>4
  <2> QED  BY <2>1, <1>1
<1>6. /\ First(S, item) \in S
      /\ \A k \in S : Rank(item, First(S, item)) <= Rank(item, k)
  BY <1>5 DEF First
<1>7. \A k \in S \ {First(S, item)} : Rank(item, First(S, item)) # Rank(item, k)
  BY <1>6, RankOneToOne
<1>8. \A k \in S \ {First(S, item)} : Rank(item, First(S, item)) < Rank(item, k)
  <2> TAKE k \in S \ {First(S, item)}
  <2>1. Rank(item, k) \in Nat /\ Rank(item, First(S, item)) \in Nat
    BY <1>1, <1>6
  <2>2. Rank(item, First(S, item)) <= Rank(item, k) /\ Rank(item, First(S, item)) # Rank(item, k)
    BY <1>6, <1>7
  <2> QED  BY <2>1, <2>2
<1> QED  BY <1>6, <1>8

(* What comes before all others in S is what the scan of S finds. *)
LEMMA FirstIs ==
  ASSUME NEW item \in PicItem, NEW S \in SUBSET Lines, NEW l \in S,
         \A k \in S \ {l} : Rank(item, l) < Rank(item, k)
  PROVE  First(S, item) = l
<1>1. First(S, item) \in S /\ Rank(item, First(S, item)) <= Rank(item, l)
  BY FirstIsFirst
<1>2. Rank(item, l) \in Nat /\ Rank(item, First(S, item)) \in Nat
  BY <1>1, RankValue
<1>3. ~(Rank(item, l) < Rank(item, First(S, item)))
  BY <1>1, <1>2
<1> QED  BY <1>1, <1>3

(* The end of an interrupt may make its line the last; of the lines that   *)
(* come after it, which are all that stay in service, the order stays.     *)
LEMMA RotationKeepsOrder ==
  ASSUME NEW item \in PicItem, NEW after \in PicItem,
         NEW level \in Lines, NEW l \in Lines, NEW k \in Lines,
         after.pry = (level + 1) % Levels,
         Rank(item, level) < Rank(item, l), Rank(item, l) < Rank(item, k)
  PROVE  Rank(after, l) < Rank(after, k)
<1>1. item.pry \in 0 .. Levels - 1 /\ Levels \in Nat \ {0} /\ Levels >= 4
  BY PicAssumption DEF PicItem, Lines
<1>2. after.pry = IF level = Levels - 1 THEN 0 ELSE level + 1
  <2>1. CASE level = Levels - 1
    BY <2>1, <1>1, SMT
  <2>2. CASE level # Levels - 1
    <3>1. level + 1 \in 1 - Levels .. Levels - 1 /\ level + 1 >= 0
      BY <2>2, <1>1 DEF Lines
    <3> QED  BY <2>2, <3>1, <1>1, Mod
  <2> QED  BY <2>1, <2>2
<1>3. /\ Rank(item, level) = IF level >= item.pry THEN level - item.pry ELSE level - item.pry + Levels
      /\ Rank(item, l) = IF l >= item.pry THEN l - item.pry ELSE l - item.pry + Levels
      /\ Rank(item, k) = IF k >= item.pry THEN k - item.pry ELSE k - item.pry + Levels
      /\ Rank(after, l) = IF l >= after.pry THEN l - after.pry ELSE l - after.pry + Levels
      /\ Rank(after, k) = IF k >= after.pry THEN k - after.pry ELSE k - after.pry + Levels
  BY RankValue
<1> QED  BY <1>1, <1>2, <1>3 DEF Lines

-----------------------------------------------------------------------------
(* How the pair is when the guest ends what it was interrupted for: what   *)
(* is in service at the slave holds up the slave's line at the master,     *)
(* which is never requested itself, nor masked while it is in service.     *)
Wired(p) ==
  /\ p \in [Chip -> PicItem]
  /\ p["slave"].isr # {} => Cascade \in p["master"].isr
  /\ Cascade \notin p["master"].irr
  /\ Cascade \in p["master"].isr => Cascade \notin p["master"].imr

(* The lines, and what of them pends. *)
LEMMA Pending ==
  ASSUME NEW p \in [Chip -> PicItem]
  PROVE  /\ p["master"] \in PicItem /\ p["slave"] \in PicItem
         /\ Cascade \in Lines /\ Lines \subseteq Nat
         /\ MasterPending(p) \subseteq Lines /\ SlavePending(p) \subseteq Lines
         /\ p["master"].isr \subseteq Lines /\ p["slave"].isr \subseteq Lines
<1>1. p["master"] \in PicItem /\ p["slave"] \in PicItem
  BY DEF Chip
<1>2. Cascade \in Lines /\ Lines \subseteq Nat
  BY PicAssumption DEF Cascade, Lines
<1>3. /\ p["master"].isr \subseteq Lines /\ p["slave"].isr \subseteq Lines
      /\ p["master"].irr \subseteq Lines /\ p["slave"].irr \subseteq Lines
  BY <1>1 DEF PicItem
<1> QED  BY <1>1, <1>2, <1>3 DEF MasterPending, SlavePending

(* pic_irq() takes a request when one may be served, and then the one that *)
(* comes before all others.                                                *)
THEOREM PicIrqIsRight ==
  ASSUME NEW p, Wired(p)
  PROVE  \/ PicIrq(p) = NoIrq /\ May(p) = {}
         \/ PicIrq(p) \in May(p) /\ PicIrq(p) \in Irqs /\ ComesFirst(p, PicIrq(p))
<1> DEFINE MP == MasterPending(p)
           SP == SlavePending(p)
           mi == p["master"].isr
           si == p["slave"].isr
           m  == First(MP \cup mi, p["master"])
           s  == First(SP \cup si, p["slave"])
           R(l, k) == Rank(p["master"], l) < Rank(p["master"], k)
           Q(l, k) == Rank(p["slave"], l) < Rank(p["slave"], k)
<1>1. /\ p["master"] \in PicItem /\ p["slave"] \in PicItem
      /\ Cascade \in Lines /\ Lines \subseteq Nat
      /\ MP \subseteq Lines /\ SP \subseteq Lines /\ mi \subseteq Lines /\ si \subseteq Lines
  BY Pending DEF Wired
<1>2. \A l, k \in Lines : ~(R(l, k) /\ R(k, l)) /\ ~(Q(l, k) /\ Q(k, l))
  <2> TAKE l, k \in Lines
  <2>1. /\ Rank(p["master"], l) \in Nat /\ Rank(p["master"], k) \in Nat
        /\ Rank(p["slave"], l) \in Nat /\ Rank(p["slave"], k) \in Nat
    BY <1>1, RankValue
  <2> QED  BY <2>1
<1>3. MP # {} => m \in MP \cup mi /\ \A k \in (MP \cup mi) \ {m} : R(m, k)
  BY <1>1, FirstIsFirst
<1>4. SP # {} => s \in SP \cup si /\ \A k \in (SP \cup si) \ {s} : Q(s, k)
  BY <1>1, FirstIsFirst
<1>5. \A l \in Lines :
        /\ l < Levels /\ ~(l >= Levels) /\ l \in Irqs
        /\ ~(Levels + l < Levels) /\ Levels + l >= Levels
        /\ (Levels + l) - Levels = l /\ Levels + l \in Irqs
  BY PicAssumption DEF Lines, Irqs
<1>6. PicIrq(p) = IF MP = {} THEN NoIrq
                  ELSE IF m = Cascade THEN IF SP = {} \/ s \in si THEN NoIrq ELSE Levels + s
                  ELSE IF m \in mi THEN NoIrq ELSE m
  BY Zenon DEF PicIrq
<1>7. \A l \in MasterMay(p) :
        l \in MP /\ l \in Lines /\ l # Cascade /\ \A k \in mi : R(l, k)
  BY Zenon DEF MasterMay, MasterPending
<1>8. \A l \in SlaveMay(p) :
        /\ l \in SP /\ l \in Lines /\ Cascade \in MP
        /\ \A k \in si : Q(l, k)
        /\ \A k \in mi \ {Cascade} : R(Cascade, k)
  BY Zenon DEF SlaveMay, MasterPending, SlavePending
<1>9. \A other \in May(p) :
        \/ other \in MasterMay(p)
        \/ \E l \in SlaveMay(p) : other = Levels + l
  BY DEF May
<1>10. \A irq \in Lines :
         irq \in MasterMay(p)
         => irq \in May(p) /\ (ComesFirst(p, irq) <=>
              \A other \in May(p) \ {irq} : R(irq, IF other < Levels THEN other ELSE Cascade))
  <2> TAKE irq \in Lines
  <2>1. irq < Levels /\ ~(irq >= Levels)
    BY <1>5
  <2> QED  BY <2>1, Zenon DEF ComesFirst, May
<1>11. \A l \in Lines :
         l \in SlaveMay(p)
         => Levels + l \in May(p) /\ (ComesFirst(p, Levels + l) <=>
              \A other \in May(p) \ {Levels + l} :
                \/ R(Cascade, IF other < Levels THEN other ELSE Cascade)
                \/ other >= Levels /\ Q(l, other - Levels))
  BY <1>5 DEF ComesFirst, May
<1>12. /\ Cascade \in MP => SP # {} /\ Cascade \notin p["master"].imr
       /\ Cascade \in mi => Cascade \notin p["master"].imr
       /\ si # {} => Cascade \in mi
  BY DEF MasterPending, Wired
<1>13. /\ \A l \in MP \ {Cascade} : l \in p["master"].irr \ p["master"].imr
       /\ \A l \in SP : l \in p["slave"].irr \ p["slave"].imr
  BY Zenon DEF MasterPending, SlavePending
<1>14. /\ \A l \in MP \ {Cascade} : (\A k \in mi : R(l, k)) => l \in MasterMay(p)
       /\ \A l \in SP : /\ Cascade \notin p["master"].imr
                        /\ \A k \in si : Q(l, k)
                        /\ \A k \in mi \ {Cascade} : R(Cascade, k)
                        => l \in SlaveMay(p)
  BY <1>1, <1>13, Zenon DEF MasterMay, SlaveMay
<1> HIDE DEF MP, SP, mi, si, m, s, R, Q
<1>20. CASE MP = {}
  <2>1. MasterMay(p) = {} /\ SlaveMay(p) = {}
    BY <1>7, <1>8, <1>20, Zenon
  <2> QED  BY <2>1, <1>6, <1>9, <1>20, Zenon
<1>21. CASE MP # {} /\ m = Cascade /\ (SP = {} \/ s \in si)
  <2>1. Cascade \in mi
    BY <1>3, <1>12, <1>21, Zenon
  <2>2. MasterMay(p) = {}
    <3> SUFFICES ASSUME NEW l \in MasterMay(p) PROVE FALSE
      OBVIOUS
    <3>1. R(l, Cascade) /\ R(Cascade, l)
      BY <2>1, <1>3, <1>7, <1>21, Zenon
    <3> QED  BY <3>1, <1>1, <1>2, <1>7, Zenon
  <2>3. SlaveMay(p) = {}
    <3> SUFFICES ASSUME NEW l \in SlaveMay(p) PROVE FALSE
      OBVIOUS
    <3>1. l \in SP /\ l \in Lines /\ s \in si /\ s \in Lines /\ Q(l, s)
      BY <1>1, <1>8, <1>21, Zenon
    <3>2. l = s \/ Q(s, l)
      BY <3>1, <1>4, Zenon
    <3> QED  BY <3>1, <3>2, <1>2, Zenon
  <2> QED  BY <2>2, <2>3, <1>6, <1>9, <1>21, Zenon
<1>22. CASE MP # {} /\ m = Cascade /\ ~(SP = {} \/ s \in si)
  <2>1. PicIrq(p) = Levels + s /\ s \in SP /\ s \in Lines
    BY <1>1, <1>4, <1>6, <1>22, Zenon
  <2>2. s \in SlaveMay(p)
    <3>1. \A k \in si : Q(s, k)
      BY <1>4, <1>22, Zenon
    <3>2. \A k \in mi \ {Cascade} : R(Cascade, k)
      BY <1>3, <1>22, Zenon
    <3>3. Cascade \notin p["master"].imr
      BY <1>3, <1>12, <1>22, Zenon
    <3> QED  BY <2>1, <3>1, <3>2, <3>3, <1>14, Zenon
  <2>3. ComesFirst(p, Levels + s)
    <3> SUFFICES ASSUME NEW other \in May(p) \ {Levels + s}
                 PROVE  \/ R(Cascade, IF other < Levels THEN other ELSE Cascade)
                        \/ other >= Levels /\ Q(s, other - Levels)
      BY <2>1, <2>2, <1>11, Zenon
    <3>1. CASE other \in MasterMay(p)
      BY <3>1, <1>3, <1>5, <1>7, <1>22, Zenon
    <3>2. CASE \E l \in SlaveMay(p) : other = Levels + l
      BY <3>2, <1>4, <1>5, <1>8, <1>22, Zenon
    <3> QED  BY <3>1, <3>2, <1>9, Zenon
  <2> QED  BY <2>1, <2>2, <2>3, <1>5, <1>11, Zenon
<1>23. CASE MP # {} /\ m # Cascade /\ m \in mi
  <2>1. MasterMay(p) = {}
    <3> SUFFICES ASSUME NEW l \in MasterMay(p) PROVE FALSE
      OBVIOUS
    <3>1. R(l, m) /\ (l = m \/ R(m, l))
      BY <1>3, <1>7, <1>23, Zenon
    <3> QED  BY <3>1, <1>1, <1>2, <1>7, <1>23, Zenon
  <2>2. SlaveMay(p) = {}
    <3> SUFFICES ASSUME NEW l \in SlaveMay(p) PROVE FALSE
      OBVIOUS
    <3>1. m \in mi \ {Cascade} /\ Cascade \in (MP \cup mi) \ {m}
      BY <1>8, <1>23
    <3>2. R(Cascade, m) /\ R(m, Cascade)
      BY <3>1, <1>3, <1>8, <1>23, Zenon
    <3> QED  BY <3>2, <1>1, <1>2, <1>23, Zenon
  <2> QED  BY <2>1, <2>2, <1>6, <1>9, <1>23, Zenon
<1>24. CASE MP # {} /\ m # Cascade /\ m \notin mi
  <2>1. PicIrq(p) = m /\ m \in MP /\ m \in Lines
    BY <1>1, <1>3, <1>6, <1>24, Zenon
  <2>2. m \in MasterMay(p)
    BY <2>1, <1>3, <1>14, <1>24, Zenon
  <2>3. ComesFirst(p, m)
    <3> SUFFICES ASSUME NEW other \in May(p) \ {m}
                 PROVE  R(m, IF other < Levels THEN other ELSE Cascade)
      BY <2>1, <2>2, <1>10, Zenon
    <3>1. CASE other \in MasterMay(p)
      BY <3>1, <1>3, <1>5, <1>7, <1>24, Zenon
    <3>2. CASE \E l \in SlaveMay(p) : other = Levels + l
      BY <3>2, <1>3, <1>5, <1>8, <1>24, Zenon
    <3> QED  BY <3>1, <3>2, <1>9, Zenon
  <2> QED  BY <2>1, <2>2, <2>3, <1>5, <1>10, Zenon
<1> QED  BY <1>20, <1>21, <1>22, <1>23, <1>24, Zenon

-----------------------------------------------------------------------------
(* The board. *)

HandlerType == [irq : Irqs \ {Cascade}, step : {"serve", "eoi", "eoi master", "iret"}]

(* The line of the master that a handler keeps in service, and whether it *)
(* does; and whether it keeps its line of the slave in service.           *)
Line(h) == IF h.irq < Levels THEN h.irq ELSE Cascade
Holds(h) == IF h.irq < Levels THEN h.step \in {"serve", "eoi"} ELSE h.step \in {"eoi", "eoi master"}
AtSlave(h) == h.irq >= Levels /\ h.step = "eoi"

(* A handler that waits to end its interrupt at the master runs with       *)
(* interrupts off, when nothing is in service at the slave.                *)
Handling(p, hs, e) ==
  /\ hs \in Seq(HandlerType)
  /\ e \in BOOLEAN
  /\ \A i \in 1 .. Len(hs) :
       /\ hs[i].irq >= Levels => hs[i].step # "serve"
       /\ hs[i].step = "eoi master" =>
            i = Len(hs) /\ ~e /\ p["slave"].isr = {} /\ hs[i].irq >= Levels

(* InService, line by line. *)
Serves(p, hs) ==
  \A l \in Lines :
    /\ l \in p["slave"].isr
       <=> \E i \in 1 .. Len(hs) : AtSlave(hs[i]) /\ hs[i].irq = Levels + l
    /\ l \in p["master"].isr
       <=> \E i \in 1 .. Len(hs) : Holds(hs[i]) /\ Line(hs[i]) = l

(* A handler was entered because its line comes before all that were in    *)
(* service: the last one is the one that an end of interrupt ends.         *)
Nested(p, hs) ==
  \A i, j \in 1 .. Len(hs) : i < j =>
    /\ Holds(hs[i]) /\ Holds(hs[j]) =>
         \/ hs[i].irq >= Levels /\ hs[j].irq >= Levels
         \/ Rank(p["master"], Line(hs[j])) < Rank(p["master"], Line(hs[i]))
    /\ AtSlave(hs[i]) /\ AtSlave(hs[j]) =>
         Rank(p["slave"], hs[j].irq - Levels) < Rank(p["slave"], hs[i].irq - Levels)

Sound(p, hs, e) == Wired(p) /\ Handling(p, hs, e) /\ Serves(p, hs) /\ Nested(p, hs)

(* q differs from p in requests only. *)
Quiet(p, q) ==
  /\ q \in [Chip -> PicItem]
  /\ \A c \in Chip : q[c].isr = p[c].isr /\ q[c].imr = p[c].imr /\ q[c].pry = p[c].pry
  /\ Cascade \in q["master"].irr => Cascade \in p["master"].irr

-----------------------------------------------------------------------------
(* The numbers of lines. *)
LEMMA Numbers ==
  /\ Levels \in Nat /\ Levels >= 4
  /\ SystemTimer \in Lines /\ Keyboard \in Lines /\ Crtv \in Lines /\ Cascade \in Lines
  /\ SystemTimer < Levels /\ Keyboard < Levels /\ Crtv < Levels
  /\ Cascade # SystemTimer /\ Cascade # Keyboard /\ Cascade # Crtv
  /\ SystemTimer # Crtv /\ Keyboard # Crtv
  /\ NoIrq \notin Irqs
  /\ \A l \in Lines : l < Levels /\ Levels + l >= Levels /\ Levels + l \in Irqs /\ l \in Irqs
  /\ \A irq \in Irqs : irq \in Nat /\ (irq < Levels <=> ~(irq >= Levels))
  /\ \A irq \in Irqs : irq < Levels => irq \in Lines /\ irq % Levels = irq
  /\ \A irq \in Irqs : irq >= Levels =>
       /\ irq - Levels \in Lines /\ irq % Levels = irq - Levels
       /\ irq = Levels + (irq - Levels) /\ irq # Cascade
<1>1. Levels \in Nat /\ Levels >= 4
  BY PicAssumption
<1>2. \A irq \in Irqs : irq < Levels => irq \in Lines /\ irq % Levels = irq
  BY <1>1 DEF Irqs, Lines
<1>3. \A irq \in Irqs : irq >= Levels => irq - Levels \in Lines /\ irq % Levels = irq - Levels
  <2> TAKE irq \in Irqs
  <2> HAVE irq >= Levels
  <2>1. irq - Levels \in 0 .. Levels - 1
    BY <1>1 DEF Irqs
  <2>2. irq = (irq - Levels) + Levels
    BY <1>1 DEF Irqs
  <2>3. irq % Levels = irq - Levels
    BY <1>1, <2>1, <2>2 DEF Irqs
  <2> QED  BY <1>1, <2>1, <2>2, <2>3 DEF Lines, Cascade, Irqs
<1> QED  BY <1>1, <1>2, <1>3 DEF SystemTimer, Keyboard, Crtv, Cascade, Lines, Irqs, NoIrq

(* The lines of a handler. *)
LEMMA HandlerLine ==
  ASSUME NEW h \in HandlerType
  PROVE  /\ h.irq \in Irqs /\ Line(h) \in Lines
         /\ h.irq < Levels => Line(h) = h.irq /\ Line(h) # Cascade /\ ~AtSlave(h)
         /\ ~(h.irq < Levels) => h.irq >= Levels /\ Line(h) = Cascade /\ h.irq - Levels \in Lines
         /\ h.irq = Levels + (h.irq - Levels)
         /\ AtSlave(h) => h.irq >= Levels /\ Holds(h)
<1>1. h.irq \in Irqs \ {Cascade}
  BY DEF HandlerType
<1>2. h.irq \in Nat /\ (h.irq < Levels <=> ~(h.irq >= Levels))
  BY <1>1, Numbers
<1>3. h.irq = Levels + (h.irq - Levels)
  BY <1>2, Numbers
<1> QED  BY <1>1, <1>2, <1>3, Numbers DEF Line, Holds, AtSlave

(* What may be served comes from the master or from the slave. *)
LEMMA MayIs ==
  ASSUME NEW p, NEW irq \in May(p), irq \in Irqs
  PROVE  /\ irq # Cascade
         /\ irq < Levels => irq \in MasterMay(p)
         /\ irq >= Levels => irq - Levels \in SlaveMay(p)
<1>1. CASE irq \in MasterMay(p)
  <2>1. irq \in Lines /\ irq # Cascade
    BY <1>1 DEF MasterMay
  <2> QED  BY <1>1, <2>1, Numbers
<1>2. CASE irq \notin MasterMay(p)
  <2>1. PICK k \in SlaveMay(p) : irq = Levels + k
    BY <1>2 DEF May
  <2>2. k \in Lines
    BY DEF SlaveMay
  <2>3. irq - Levels = k /\ irq >= Levels
    BY <2>1, <2>2, Numbers DEF Lines
  <2> QED  BY <2>1, <2>3, Numbers
<1> QED  BY <1>1, <1>2

(* Requests that come and go leave what is in service. *)
LEMMA SetIrqQuiet ==
  ASSUME NEW p \in [Chip -> PicItem], NEW irq \in Irqs \ {Cascade}
  PROVE  Quiet(p, SetIrq(p, irq))
<1>1. p["master"] \in PicItem /\ p["slave"] \in PicItem
  BY DEF Chip
<1>2. CASE irq >= Levels
  BY <1>1, <1>2, Numbers DEF SetIrq, Quiet, PicItem, Chip
<1>3. CASE irq < Levels
  BY <1>1, <1>3, Numbers DEF SetIrq, Quiet, PicItem, Chip
<1> QED  BY <1>2, <1>3, Numbers DEF Irqs

(* So do those that are withdrawn. *)
LEMMA ResetIrqQuiet ==
  ASSUME NEW p \in [Chip -> PicItem], NEW irq \in Lines
  PROVE  Quiet(p, ResetIrq(p, irq))
<1>1. p["master"] \in PicItem /\ p["slave"] \in PicItem
  BY DEF Chip
<1> QED  BY <1>1 DEF ResetIrq, Quiet, PicItem, Chip

(* With other requests, and interrupts switched, what was sound still is. *)
LEMMA QuietKeepsSound ==
  ASSUME NEW p, NEW q, NEW hs, NEW e, NEW f \in BOOLEAN,
         Sound(p, hs, e), Quiet(p, q),
         f => e \/ hs = <<>> \/ hs[Len(hs)].step # "eoi master"
  PROVE  Sound(q, hs, f)
<1>1. /\ p["master"] \in PicItem /\ p["slave"] \in PicItem
      /\ q["master"] \in PicItem /\ q["slave"] \in PicItem
  BY Pending DEF Sound, Wired, Quiet
<1>2. \A l : /\ Rank(q["master"], l) = Rank(p["master"], l)
             /\ Rank(q["slave"], l) = Rank(p["slave"], l)
  BY DEF Rank, Quiet, Chip
<1>3. Wired(q)
  BY DEF Sound, Wired, Quiet, Chip
<1>4. Handling(q, hs, f)
  <2>1. hs \in Seq(HandlerType)
    BY DEF Sound, Handling
  <2>2. SUFFICES ASSUME NEW i \in 1 .. Len(hs), hs[i].step = "eoi master" PROVE ~f /\ q["slave"].isr = {}
    BY <2>1 DEF Sound, Handling
  <2>3. i = Len(hs) /\ ~e /\ p["slave"].isr = {}
    BY <2>2 DEF Sound, Handling
  <2>4. hs # <<>>
    <3> SUFFICES ASSUME hs = <<>> PROVE FALSE
      OBVIOUS
    <3>1. Len(hs) = 0
      OBVIOUS
    <3> QED  BY <3>1
  <2> QED  BY <2>2, <2>3, <2>4 DEF Quiet, Chip
<1>5. Serves(q, hs)
  BY DEF Sound, Serves, Quiet, Chip
<1>6. Nested(q, hs)
  BY <1>2 DEF Sound, Nested
<1> QED  BY <1>3, <1>4, <1>5, <1>6 DEF Sound

(* One controller takes a line into service. *)
Take(item, l) == [item EXCEPT !.isr = @ \cup {l}, !.irr = @ \ {l}]

(* The line is in service, and requests it no longer; masks and order stay. *)
LEMMA ItemTakes ==
  ASSUME NEW item \in PicItem, NEW l \in Lines
  PROVE  /\ Take(item, l) \in PicItem
         /\ Take(item, l).isr = item.isr \cup {l} /\ Take(item, l).irr = item.irr \ {l}
         /\ Take(item, l).imr = item.imr /\ Take(item, l).pry = item.pry
<1>1. /\ item.isr \cup {l} \in SUBSET Lines /\ item.irr \ {l} \in SUBSET Lines
  BY DEF PicItem
<1>2. /\ Take(item, l).isr = item.isr \cup {l} /\ Take(item, l).irr = item.irr \ {l}
      /\ Take(item, l).imr = item.imr /\ Take(item, l).pry = item.pry
  BY DEF PicItem, Take
<1>3. Take(item, l) \in PicItem
  BY <1>1 DEF PicItem, Take
<1> QED  BY <1>2, <1>3

(* The CPU takes an interrupt: one that comes before all in service. *)
LEMMA TakeKeepsSound ==
  ASSUME NEW p, NEW hs, Sound(p, hs, TRUE), NEW irq \in May(p), irq \in Irqs,
         NEW step \in {"serve", "eoi"}, irq >= Levels => step = "eoi"
  PROVE  Sound(PicTake(p, irq), Append(hs, [irq |-> irq, step |-> step]), FALSE)
<1> DEFINE h == [irq |-> irq, step |-> step]
           gs == Append(hs, h)
           q  == PicTake(p, irq)
           n  == Len(hs)
<1>1. /\ p \in [Chip -> PicItem] /\ p["master"] \in PicItem /\ p["slave"] \in PicItem
      /\ hs \in Seq(HandlerType) /\ n \in Nat
  <2>1. p \in [Chip -> PicItem] /\ hs \in Seq(HandlerType)
    BY DEF Sound, Wired, Handling
  <2> QED  BY <2>1, Pending
<1>2. /\ irq # Cascade
      /\ irq < Levels => irq \in MasterMay(p)
      /\ irq >= Levels => irq - Levels \in SlaveMay(p) /\ Cascade \notin p["master"].imr
  BY MayIs DEF SlaveMay
<1>3. h \in HandlerType /\ h.irq = irq /\ h.step = step
  BY <1>2 DEF HandlerType
<1>4. /\ gs \in Seq(HandlerType) /\ Len(gs) = n + 1 /\ gs[n + 1] = h
      /\ \A i \in 1 .. n : gs[i] = hs[i]
  BY <1>1, <1>3
<1>5. Line(h) = (IF irq < Levels THEN irq ELSE Cascade) /\ Line(h) \in Lines
      /\ Holds(h) /\ (AtSlave(h) <=> irq >= Levels)
  BY <1>3, HandlerLine, Numbers DEF Line, Holds, AtSlave
<1>6. /\ q \in [Chip -> PicItem]
      /\ q["master"].isr = p["master"].isr \cup {Line(h)}
      /\ q["master"].irr = p["master"].irr \ {Line(h)}
      /\ q["master"].imr = p["master"].imr /\ q["master"].pry = p["master"].pry
      /\ q["slave"].pry = p["slave"].pry
      /\ q["slave"].isr = IF irq < Levels THEN p["slave"].isr
                          ELSE p["slave"].isr \cup {irq - Levels}
  <2>1. q["master"] = Take(p["master"], Line(h))
    BY <1>5, Numbers DEF PicTake, Chip, Take
  <2>2. q["slave"] = IF irq < Levels THEN p["slave"] ELSE Take(p["slave"], irq - Levels)
    BY Numbers DEF PicTake, Chip, Take
  <2>3. irq >= Levels => irq - Levels \in Lines /\ ~(irq < Levels)
    BY Numbers
  <2> HIDE DEF h, q
  <2>4. /\ q["master"] \in PicItem
        /\ q["master"].isr = p["master"].isr \cup {Line(h)}
        /\ q["master"].irr = p["master"].irr \ {Line(h)}
        /\ q["master"].imr = p["master"].imr /\ q["master"].pry = p["master"].pry
    BY <2>1, <1>1, <1>5, ItemTakes
  <2>5. CASE irq < Levels
    <3>1. q["slave"] = p["slave"]
      BY <2>2, <2>5
    <3>2. q \in [Chip -> PicItem]
      BY <2>4, <3>1, <1>1 DEF PicTake, Chip, q
    <3> QED  BY <2>4, <2>5, <3>1, <3>2
  <2>6. CASE irq >= Levels
    <3>1. /\ q["slave"] \in PicItem /\ q["slave"].pry = p["slave"].pry
          /\ q["slave"].isr = p["slave"].isr \cup {irq - Levels}
      <4>1. q["slave"] = Take(p["slave"], irq - Levels)
        BY <2>2, <2>3, <2>6, Zenon
      <4> QED  BY <2>3, <2>6, <4>1, <1>1, ItemTakes
    <3>2. q \in [Chip -> PicItem]
      BY <2>4, <3>1 DEF PicTake, Chip, q
    <3> QED  BY <2>3, <2>4, <2>6, <3>1, <3>2
  <2> QED  BY <2>5, <2>6, Numbers
<1>7. \A l : /\ Rank(q["master"], l) = Rank(p["master"], l)
             /\ Rank(q["slave"], l) = Rank(p["slave"], l)
  BY <1>6 DEF Rank
<1>8. \A i \in 1 .. n : hs[i].step # "eoi master"
  BY DEF Sound, Handling
<1> HIDE DEF h, gs, q, n
<1>9. Wired(q)
  <2>1. q["slave"].isr # {} => Cascade \in q["master"].isr
    BY <1>5, <1>6, Numbers DEF Sound, Wired
  <2> QED  BY <1>2, <1>5, <1>6, <2>1, Numbers DEF Sound, Wired
<1>10. Handling(q, gs, FALSE)
  <2>1. \A i \in 1 .. n : hs[i].irq >= Levels => hs[i].step # "serve"
    BY DEF Sound, Handling, n
  <2>2. \A i \in 1 .. n + 1 : i = n + 1 \/ i \in 1 .. n
    BY <1>1
  <2>3. \A i \in 1 .. n + 1 : /\ gs[i].irq >= Levels => gs[i].step # "serve"
                              /\ gs[i].step # "eoi master"
    BY <1>3, <1>4, <1>8, <2>1, <2>2
  <2> QED  BY <1>4, <2>3 DEF Handling
<1>11. Serves(q, gs)
  <2> SUFFICES ASSUME NEW l \in Lines
               PROVE  /\ l \in q["slave"].isr
                         <=> \E i \in 1 .. n + 1 : AtSlave(gs[i]) /\ gs[i].irq = Levels + l
                      /\ l \in q["master"].isr
                         <=> \E i \in 1 .. n + 1 : Holds(gs[i]) /\ Line(gs[i]) = l
    BY <1>4 DEF Serves
  <2>1. \A i \in 1 .. n + 1 : i = n + 1 \/ i \in 1 .. n
    BY <1>1
  <2>2. /\ l \in p["slave"].isr <=> \E i \in 1 .. n : AtSlave(hs[i]) /\ hs[i].irq = Levels + l
        /\ l \in p["master"].isr <=> \E i \in 1 .. n : Holds(hs[i]) /\ Line(hs[i]) = l
    BY DEF Sound, Serves, n
  <2>3. n + 1 \in 1 .. n + 1 /\ \A i \in 1 .. n : i \in 1 .. n + 1
    BY <1>1
  <2>4. l \in q["slave"].isr <=> l \in p["slave"].isr \/ (AtSlave(h) /\ h.irq = Levels + l)
    BY <1>5, <1>6, Numbers DEF h, Irqs, Lines
  <2>5. l \in q["master"].isr <=> l \in p["master"].isr \/ (Holds(h) /\ Line(h) = l)
    BY <1>5, <1>6
  <2> QED  BY <1>4, <2>1, <2>2, <2>3, <2>4, <2>5
<1>12. Nested(q, gs)
  <2> SUFFICES ASSUME NEW i \in 1 .. n + 1, NEW j \in 1 .. n + 1, i < j
               PROVE  /\ Holds(gs[i]) /\ Holds(gs[j]) =>
                           \/ gs[i].irq >= Levels /\ gs[j].irq >= Levels
                           \/ Rank(p["master"], Line(gs[j])) < Rank(p["master"], Line(gs[i]))
                      /\ AtSlave(gs[i]) /\ AtSlave(gs[j]) =>
                           Rank(p["slave"], gs[j].irq - Levels) < Rank(p["slave"], gs[i].irq - Levels)
    BY <1>4, <1>7 DEF Nested
  <2>1. i \in 1 .. n /\ gs[i] = hs[i]
    BY <1>1, <1>4
  <2>2. CASE j \in 1 .. n
    BY <1>4, <2>1, <2>2 DEF Sound, Nested, n
  <2>3. CASE j = n + 1
    <3> DEFINE R(l, k) == Rank(p["master"], l) < Rank(p["master"], k)
               Q(l, k) == Rank(p["slave"], l) < Rank(p["slave"], k)
    <3>1. gs[j] = h
      BY <1>4, <2>3
    <3>2. hs[i] \in HandlerType
      BY <1>1, <2>1 DEF n
    <3>3. Holds(hs[i]) => Line(hs[i]) \in p["master"].isr
      BY <2>1, <3>2, HandlerLine DEF Sound, Serves, n
    <3>4. AtSlave(hs[i]) => hs[i].irq - Levels \in p["slave"].isr
      BY <2>1, <3>2, HandlerLine DEF Sound, Serves, n
    <3>5. irq < Levels => \A k \in p["master"].isr : R(irq, k)
      BY <1>2 DEF MasterMay
    <3>6. irq >= Levels => /\ \A k \in p["slave"].isr : Q(irq - Levels, k)
                           /\ \A k \in p["master"].isr \ {Cascade} : R(Cascade, k)
      BY <1>2 DEF SlaveMay
    <3> HIDE DEF R, Q
    <3>7. Holds(hs[i]) => \/ hs[i].irq >= Levels /\ irq >= Levels
                          \/ R(Line(h), Line(hs[i]))
      BY <3>2, <3>3, <3>5, <3>6, <1>5, HandlerLine, Numbers
    <3>8. AtSlave(hs[i]) /\ irq >= Levels => Q(irq - Levels, hs[i].irq - Levels)
      BY <3>4, <3>6
    <3> QED  BY <2>1, <3>1, <3>7, <3>8, <1>3, <1>5 DEF R, Q
  <2> QED  BY <1>1, <2>2, <2>3
<1> QED  BY <1>9, <1>10, <1>11, <1>12 DEF Sound, h, gs, q

-----------------------------------------------------------------------------
(* One controller ends what comes first, and the order of the rest stays. *)
Before(item, level) ==
  level \in item.isr /\ \A k \in item.isr \ {level} : Rank(item, level) < Rank(item, k)

Ended(p, q, c, level) ==
  /\ q \in [Chip -> PicItem]
  /\ q[c].isr = p[c].isr \ {level} /\ q[c].irr = p[c].irr /\ q[c].imr = p[c].imr
  /\ \A d \in Chip \ {c} : q[d] = p[d]
  /\ \A l, k \in Lines :
       Rank(p[c], level) < Rank(p[c], l) /\ Rank(p[c], l) < Rank(p[c], k)
       => Rank(q[c], l) < Rank(q[c], k)

(* pic_o00() ends what comes before all in service. *)
LEMMA ControllerEnds ==
  ASSUME NEW p \in [Chip -> PicItem], NEW c \in Chip, NEW rotate \in BOOLEAN,
         NEW level, Before(p[c], level)
  PROVE  Ended(p, EndOfInterrupt(p, c, rotate), c, level)
<1> DEFINE q == EndOfInterrupt(p, c, rotate)
           pry == IF rotate THEN (level + 1) % Levels ELSE p[c].pry
<1>1. p[c] \in PicItem /\ p[c].isr \in SUBSET Lines /\ p[c].pry \in Lines
  <2>1. p[c] \in PicItem
    OBVIOUS
  <2> QED  BY <2>1 DEF PicItem
<1>2. level \in Lines /\ First(p[c].isr, p[c]) = level /\ p[c].isr # {}
  <2>1. level \in p[c].isr /\ \A k \in p[c].isr \ {level} : Rank(p[c], level) < Rank(p[c], k)
    BY DEF Before
  <2> QED  BY <1>1, <2>1, FirstIs
<1>3. pry \in Lines
  <2>1. (level + 1) % Levels \in Lines
    BY <1>2, PicAssumption DEF Lines
  <2> QED  BY <2>1, <1>1
<1>4. q = [p EXCEPT ![c] = [p[c] EXCEPT !.isr = p[c].isr \ {level}, !.pry = pry]]
  BY <1>2 DEF EndOfInterrupt
<1> HIDE DEF q, pry
<1>5. q[c] = [p[c] EXCEPT !.isr = p[c].isr \ {level}, !.pry = pry]
  BY <1>4
<1>6. q[c] \in PicItem
  BY <1>1, <1>3, <1>5 DEF PicItem
<1>7. /\ q[c].isr = p[c].isr \ {level} /\ q[c].irr = p[c].irr
      /\ q[c].imr = p[c].imr /\ q[c].pry = pry
  BY <1>1, <1>5 DEF PicItem
<1>8. q \in [Chip -> PicItem] /\ \A d \in Chip \ {c} : q[d] = p[d]
  BY <1>4, <1>5, <1>6
<1>9. ASSUME NEW l \in Lines, NEW k \in Lines,
             Rank(p[c], level) < Rank(p[c], l), Rank(p[c], l) < Rank(p[c], k)
      PROVE  Rank(q[c], l) < Rank(q[c], k)
  <2>1. CASE rotate
    <3>1. q[c].pry = (level + 1) % Levels
      BY <1>7, <2>1 DEF pry
    <3> QED  BY <1>1, <1>2, <1>6, <1>9, <3>1, RotationKeepsOrder
  <2>2. CASE ~rotate
    <3>1. q[c].pry = p[c].pry
      BY <1>7, <2>2 DEF pry
    <3> QED  BY <1>9, <3>1 DEF Rank
  <2> QED  BY <2>1, <2>2
<1> QED  BY <1>7, <1>8, <1>9 DEF q, Ended

(* A sequence that is not empty has a last element. *)
LEMMA LastOf ==
  ASSUME NEW S, NEW s \in Seq(S), s # <<>>
  PROVE  Len(s) \in Nat /\ Len(s) \in 1 .. Len(s)
<1>1. Len(s) \in Nat
  BY LenProperties
<1>2. CASE Len(s) = 0
  <2>1. <<>> \in Seq(S) /\ Len(<<>>) = 0
    BY EmptySeq
  <2>2. 1 .. Len(s) = {}
    BY <1>2
  <2>3. s = <<>>
    BY <1>2, <2>1, <2>2, SeqEqual
  <2> QED  BY <2>3
<1>3. CASE Len(s) # 0
  BY <1>1, <1>3
<1> QED  BY <1>2, <1>3

(* A range from 1 has one end. *)
LEMMA SameBounds ==
  ASSUME NEW m \in Nat, NEW n \in Nat, 1 .. m = 1 .. n
  PROVE  m = n
<1>1. m <= n
  <2>1. m # 0 => m \in 1 .. m
    OBVIOUS
  <2>2. m # 0 => m \in 1 .. n
    BY <2>1, Zenon
  <2> QED  BY <2>2
<1>2. n <= m
  <2>1. n # 0 => n \in 1 .. n
    OBVIOUS
  <2>2. n # 0 => n \in 1 .. m
    BY <2>1, Zenon
  <2> QED  BY <2>2
<1> QED  BY <1>1, <1>2

(* The last handler goes on. *)
StepTo(hs, s) == [hs EXCEPT ![Len(hs)].step = s]

(* Only the step of the last one changes. *)
LEMMA StepIs ==
  ASSUME NEW hs \in Seq(HandlerType), hs # <<>>,
         NEW s \in {"serve", "eoi", "eoi master", "iret"}
  PROVE  /\ Len(hs) \in Nat /\ Len(hs) \in 1 .. Len(hs)
         /\ StepTo(hs, s) \in Seq(HandlerType) /\ Len(StepTo(hs, s)) = Len(hs)
         /\ StepTo(hs, s)[Len(hs)].irq = hs[Len(hs)].irq
         /\ StepTo(hs, s)[Len(hs)].step = s
         /\ \A i \in 1 .. Len(hs) : i # Len(hs) => StepTo(hs, s)[i] = hs[i]
         /\ \A i \in 1 .. Len(hs) :
              /\ StepTo(hs, s)[i].irq = hs[i].irq
              /\ Line(StepTo(hs, s)[i]) = Line(hs[i])
<1> DEFINE n == Len(hs)
           h == [hs[n] EXCEPT !.step = s]
<1>1. n \in Nat /\ n \in 1 .. n
  BY LastOf
<1>2. hs[n] \in HandlerType
  BY <1>1, ElementOfSeq
<1>3. h \in HandlerType /\ h.irq = hs[n].irq /\ h.step = s
  BY <1>2 DEF HandlerType
<1>4. StepTo(hs, s) = [hs EXCEPT ![n] = h]
  BY DEF StepTo
<1> HIDE DEF n, h
<1>5. /\ StepTo(hs, s) \in Seq(HandlerType) /\ Len(StepTo(hs, s)) = n
      /\ StepTo(hs, s)[n] = h
      /\ \A i \in 1 .. n : i # n => StepTo(hs, s)[i] = hs[i]
  <2>1. StepTo(hs, s) \in Seq(HandlerType) /\ Len(StepTo(hs, s)) = n
    <3> DEFINE g == [hs EXCEPT ![n] = h]
    <3>1. hs \in [1 .. n -> HandlerType]
      BY LenProperties DEF n
    <3>2. g \in [1 .. n -> HandlerType]
      BY <1>1, <1>3, <3>1
    <3> HIDE DEF g
    <3>3. g \in Seq(HandlerType)
      <4>1. Seq(HandlerType) = UNION {[1 .. m -> HandlerType] : m \in Nat}
        BY SeqDef, Zenon
      <4> QED  BY <1>1, <3>2, <4>1, Zenon
    <3>4. Len(g) \in Nat /\ DOMAIN g = 1 .. Len(g) /\ DOMAIN g = 1 .. n
      BY <3>2, <3>3, LenProperties
    <3>5. Len(g) = n
      <4>1. Len(g) \in Nat /\ 1 .. Len(g) = 1 .. n
        BY <3>4, Zenon
      <4> QED  BY <1>1, <4>1, SameBounds, Zenon
    <3> QED  BY <1>4, <3>3, <3>5 DEF g
  <2>2. hs \in [1 .. n -> HandlerType]
    BY LenProperties DEF n
  <2> QED  BY <1>1, <1>4, <2>1, <2>2
<1>6. \A i \in 1 .. n : StepTo(hs, s)[i].irq = hs[i].irq
  BY <1>3, <1>5
<1> QED  BY <1>1, <1>3, <1>5, <1>6 DEF n, Line

(* The keyboard's handler has read its byte. *)
LEMMA ReadKeepsSound ==
  ASSUME NEW p, NEW hs, NEW e, Sound(p, hs, e), hs # <<>>, hs[Len(hs)].step = "serve"
  PROVE  Sound(p, StepTo(hs, "eoi"), e)
<1> DEFINE gs == StepTo(hs, "eoi")
           n  == Len(hs)
<1>1. hs \in Seq(HandlerType)
  BY DEF Sound, Handling
<1>2. /\ n \in Nat /\ n \in 1 .. n
      /\ gs \in Seq(HandlerType) /\ Len(gs) = n
      /\ gs[n].irq = hs[n].irq /\ gs[n].step = "eoi"
      /\ \A i \in 1 .. n : i # n => gs[i] = hs[i]
      /\ \A i \in 1 .. n : gs[i].irq = hs[i].irq /\ Line(gs[i]) = Line(hs[i])
  BY <1>1, StepIs
<1>3. hs[n] \in HandlerType /\ hs[n].step = "serve"
  BY <1>1, <1>2
<1> HIDE DEF gs, n
<1>4. hs[n].irq < Levels /\ ~(hs[n].irq >= Levels)
  <2>1. ~(hs[n].irq >= Levels)
    BY <1>2, <1>3 DEF Sound, Handling, n
  <2> QED  BY <2>1, <1>3, HandlerLine
<1>5. \A i \in 1 .. n : (Holds(gs[i]) <=> Holds(hs[i])) /\ (AtSlave(gs[i]) <=> AtSlave(hs[i]))
  BY <1>2, <1>3, <1>4 DEF Holds, AtSlave
<1>6. Handling(p, gs, e)
  BY <1>2, <1>4 DEF Sound, Handling, n
<1>7. Serves(p, gs)
  BY <1>2, <1>5 DEF Sound, Serves, n
<1>8. Nested(p, gs)
  BY <1>2, <1>5 DEF Sound, Nested, n
<1> QED  BY <1>6, <1>7, <1>8 DEF Sound, gs

(* An end of interrupt at the master, by the last handler, whose line is   *)
(* the master's or that has ended its interrupt at the slave: it ends the  *)
(* line of that handler.                                                   *)
EndsAtMaster(h) == (h.irq < Levels /\ h.step = "eoi") \/ h.step = "eoi master"

(* ... and leaves the rest sound. *)
LEMMA MasterEndsKeepsSound ==
  ASSUME NEW p, NEW hs, NEW e, Sound(p, hs, e), hs # <<>>, NEW rotate \in BOOLEAN,
         EndsAtMaster(hs[Len(hs)])
  PROVE  Sound(EndOfInterrupt(p, "master", rotate), StepTo(hs, "iret"), e)
<1> DEFINE gs == StepTo(hs, "iret")
           n  == Len(hs)
           q  == EndOfInterrupt(p, "master", rotate)
           top == Line(hs[n])
           R(l, k) == Rank(p["master"], l) < Rank(p["master"], k)
           RR(l, k) == Rank(q["master"], l) < Rank(q["master"], k)
           Q(l, k) == Rank(p["slave"], l) < Rank(p["slave"], k)
<1>1. /\ hs \in Seq(HandlerType) /\ p \in [Chip -> PicItem] /\ p["master"] \in PicItem
  BY Pending DEF Sound, Handling, Wired
<1>2. /\ n \in Nat /\ n \in 1 .. n
      /\ gs \in Seq(HandlerType) /\ Len(gs) = n
      /\ gs[n].irq = hs[n].irq /\ gs[n].step = "iret"
      /\ \A i \in 1 .. n : i # n => gs[i] = hs[i]
      /\ \A i \in 1 .. n : gs[i].irq = hs[i].irq /\ Line(gs[i]) = Line(hs[i])
  BY <1>1, StepIs
<1>3. \A i \in 1 .. n : hs[i] \in HandlerType
  BY <1>1, ElementOfSeq
<1>4. \A i \in 1 .. n : i # n => i < n /\ ~(n < i)
  BY <1>2
<1>5. \A i \in 1 .. n : /\ hs[i].irq >= Levels => hs[i].step # "serve"
                        /\ hs[i].step = "eoi master" =>
                             i = n /\ ~e /\ p["slave"].isr = {} /\ hs[i].irq >= Levels
  BY DEF Sound, Handling
<1>6. \A l \in Lines :
        /\ l \in p["slave"].isr
           <=> \E i \in 1 .. n : AtSlave(hs[i]) /\ hs[i].irq = Levels + l
        /\ l \in p["master"].isr <=> \E i \in 1 .. n : Holds(hs[i]) /\ Line(hs[i]) = l
  BY DEF Sound, Serves
<1>7. \A i, j \in 1 .. n : i < j =>
        /\ Holds(hs[i]) /\ Holds(hs[j]) =>
             (hs[i].irq >= Levels /\ hs[j].irq >= Levels) \/ R(Line(hs[j]), Line(hs[i]))
        /\ AtSlave(hs[i]) /\ AtSlave(hs[j]) => Q(hs[j].irq - Levels, hs[i].irq - Levels)
  BY DEF Sound, Nested
<1>8. /\ (hs[n].irq < Levels /\ hs[n].step = "eoi") \/ hs[n].step = "eoi master"
      /\ e \in BOOLEAN
  BY DEF Sound, Handling, EndsAtMaster
<1>9. \A l, k \in Lines : ~(R(l, k) /\ l = k)
  <2> TAKE l, k \in Lines
  <2>1. Rank(p["master"], l) \in Nat
    BY <1>1, RankValue
  <2> QED  BY <2>1
<1> HIDE DEF gs, n, q, top, R, RR, Q
<1>10. \A i \in 1 .. n : /\ Line(hs[i]) \in Lines
                         /\ hs[i].irq < Levels <=> ~(hs[i].irq >= Levels)
                         /\ hs[i].irq < Levels => Line(hs[i]) # Cascade /\ ~AtSlave(hs[i])
                         /\ ~(hs[i].irq < Levels) => Line(hs[i]) = Cascade
                         /\ AtSlave(hs[i]) => Holds(hs[i]) /\ hs[i].irq - Levels \in Lines
                                              /\ hs[i].irq = Levels + (hs[i].irq - Levels)
  BY <1>3, HandlerLine, Numbers
<1>11. /\ Holds(hs[n]) /\ ~AtSlave(hs[n]) /\ top \in Lines
       /\ top \in p["master"].isr
  BY <1>2, <1>5, <1>6, <1>8, <1>10 DEF Holds, AtSlave, top
<1>12. \A i \in 1 .. n : i # n /\ Holds(hs[i]) => R(top, Line(hs[i]))
  <2> SUFFICES ASSUME NEW i \in 1 .. n, i # n, Holds(hs[i]),
                      hs[i].irq >= Levels /\ hs[n].irq >= Levels
               PROVE  FALSE
    BY <1>2, <1>4, <1>7, <1>11 DEF top
  <2>1. p["slave"].isr = {} /\ hs[n].step = "eoi master"
    BY <1>2, <1>5, <1>8, <1>10
  <2>2. AtSlave(hs[i])
    BY <1>5, <1>10 DEF AtSlave, Holds
  <2> QED  BY <1>6, <1>10, <2>1, <2>2
<1>13. \A k \in p["master"].isr \ {top} : R(top, k)
  <2> TAKE k \in p["master"].isr \ {top}
  <2>1. k \in Lines
    BY <1>1 DEF PicItem
  <2>2. PICK i \in 1 .. n : Holds(hs[i]) /\ Line(hs[i]) = k
    BY <1>6, <2>1
  <2> QED  BY <1>12, <2>2 DEF top
<1>14. /\ q \in [Chip -> PicItem]
       /\ q["master"].isr = p["master"].isr \ {top}
       /\ q["master"].irr = p["master"].irr /\ q["master"].imr = p["master"].imr
       /\ q["slave"] = p["slave"]
       /\ \A l, k \in Lines : R(top, l) /\ R(l, k) => RR(l, k)
  <2>1. "master" \in Chip /\ "slave" \in Chip \ {"master"}
    BY DEF Chip
  <2>2. Before(p["master"], top)
    BY <1>11, <1>13 DEF Before, R
  <2>3. Ended(p, q, "master", top)
    BY <1>1, <2>1, <2>2, ControllerEnds DEF q
  <2> QED  BY <2>1, <2>3 DEF Ended, R, RR
<1>15. /\ \A i \in 1 .. n : Holds(gs[i]) <=> Holds(hs[i]) /\ i # n
       /\ \A i \in 1 .. n : AtSlave(gs[i]) <=> AtSlave(hs[i])
  <2>1. ~Holds(gs[n]) /\ ~AtSlave(gs[n])
    BY <1>2 DEF Holds, AtSlave
  <2> QED  BY <1>2, <1>11, <2>1
<1>16. Wired(q)
  <2>1. ASSUME p["slave"].isr # {} PROVE Cascade \in q["master"].isr
    <3>1. hs[n].irq < Levels
      BY <1>2, <1>5, <1>8, <2>1
    <3>2. top # Cascade
      BY <1>2, <1>10, <3>1 DEF top
    <3> QED  BY <1>14, <2>1, <3>2 DEF Sound, Wired
  <2> QED  BY <1>14, <2>1 DEF Sound, Wired
<1>17. Handling(q, gs, e)
  <2>1. \A i \in 1 .. n : /\ gs[i].irq >= Levels => gs[i].step # "serve"
                          /\ gs[i].step # "eoi master"
    BY <1>2, <1>5
  <2> QED  BY <1>2, <1>8, <2>1 DEF Handling
<1>18. Serves(q, gs)
  <2> SUFFICES ASSUME NEW l \in Lines
               PROVE  /\ l \in q["slave"].isr
                         <=> \E i \in 1 .. n : AtSlave(gs[i]) /\ gs[i].irq = Levels + l
                      /\ l \in q["master"].isr
                         <=> \E i \in 1 .. n : Holds(gs[i]) /\ Line(gs[i]) = l
    BY <1>2 DEF Serves
  <2>1. l \in q["slave"].isr
        <=> \E i \in 1 .. n : AtSlave(gs[i]) /\ gs[i].irq = Levels + l
    BY <1>2, <1>6, <1>14, <1>15
  <2>2. ASSUME l \in q["master"].isr
        PROVE  \E i \in 1 .. n : Holds(gs[i]) /\ Line(gs[i]) = l
    <3>1. PICK i \in 1 .. n : Holds(hs[i]) /\ Line(hs[i]) = l
      BY <1>6, <1>14, <2>2
    <3>2. i # n
      BY <1>14, <2>2, <3>1 DEF top
    <3> QED  BY <1>2, <1>15, <3>1, <3>2
  <2>3. ASSUME NEW i \in 1 .. n, Holds(gs[i]), Line(gs[i]) = l
        PROVE  l \in q["master"].isr
    <3>1. i # n /\ Holds(hs[i]) /\ Line(hs[i]) = l
      BY <1>2, <1>15, <2>3
    <3>2. l \in p["master"].isr /\ l # top
      BY <1>6, <1>9, <1>11, <1>12, <3>1
    <3> QED  BY <1>14, <3>2
  <2> QED  BY <2>1, <2>2, <2>3
<1>19. Nested(q, gs)
  <2> SUFFICES ASSUME NEW i \in 1 .. n, NEW j \in 1 .. n, i < j
               PROVE  /\ Holds(gs[i]) /\ Holds(gs[j]) =>
                           \/ gs[i].irq >= Levels /\ gs[j].irq >= Levels
                           \/ RR(Line(gs[j]), Line(gs[i]))
                      /\ AtSlave(gs[i]) /\ AtSlave(gs[j]) =>
                           Q(gs[j].irq - Levels, gs[i].irq - Levels)
    BY <1>2, <1>14 DEF Nested, RR, Q
  <2>1. ASSUME Holds(gs[i]), Holds(gs[j])
        PROVE  \/ gs[i].irq >= Levels /\ gs[j].irq >= Levels
               \/ RR(Line(gs[j]), Line(gs[i]))
    <3>1. Holds(hs[i]) /\ Holds(hs[j]) /\ j # n /\ R(top, Line(hs[j]))
      BY <1>12, <1>15, <2>1
    <3>2. \/ hs[i].irq >= Levels /\ hs[j].irq >= Levels
          \/ R(Line(hs[j]), Line(hs[i]))
      BY <1>7, <3>1
    <3> QED  BY <1>2, <1>10, <1>14, <3>1, <3>2
  <2>2. AtSlave(gs[i]) /\ AtSlave(gs[j]) => Q(gs[j].irq - Levels, gs[i].irq - Levels)
    BY <1>2, <1>7, <1>15
  <2> QED  BY <2>1, <2>2
<1> QED  BY <1>16, <1>17, <1>18, <1>19 DEF Sound, gs, q

(* An end of interrupt at the slave, with interrupts off: it ends the line *)
(* of the last handler there, which goes on to the master if it was the    *)
(* last in service.                                                        *)
EndsAtSlave(h) == h.irq >= Levels /\ h.step = "eoi"
AfterSlave(q) == IF q["slave"].isr = {} THEN "eoi master" ELSE "iret"

(* ... and leaves the rest sound. *)
LEMMA SlaveEndsKeepsSound ==
  ASSUME NEW p, NEW hs, Sound(p, hs, FALSE), hs # <<>>, NEW rotate \in BOOLEAN,
         EndsAtSlave(hs[Len(hs)]),
         NEW q, q = EndOfInterrupt(p, "slave", rotate),
         NEW s, s = AfterSlave(q)
  PROVE  Sound(q, StepTo(hs, s), FALSE)
<1> DEFINE gs == StepTo(hs, s)
           n  == Len(hs)
           top == hs[n].irq - Levels
           R(l, k) == Rank(p["master"], l) < Rank(p["master"], k)
           Q(l, k) == Rank(p["slave"], l) < Rank(p["slave"], k)
           QQ(l, k) == Rank(q["slave"], l) < Rank(q["slave"], k)
<1>1. /\ hs \in Seq(HandlerType) /\ p \in [Chip -> PicItem] /\ p["slave"] \in PicItem
      /\ s \in {"serve", "eoi", "eoi master", "iret"}
  BY Pending DEF Sound, Handling, Wired, AfterSlave
<1>2. /\ n \in Nat /\ n \in 1 .. n
      /\ gs \in Seq(HandlerType) /\ Len(gs) = n
      /\ gs[n].irq = hs[n].irq /\ gs[n].step = s
      /\ \A i \in 1 .. n : i # n => gs[i] = hs[i]
      /\ \A i \in 1 .. n : gs[i].irq = hs[i].irq /\ Line(gs[i]) = Line(hs[i])
  BY <1>1, StepIs
<1>3. \A i \in 1 .. n : hs[i] \in HandlerType
  BY <1>1, ElementOfSeq
<1>4. \A i \in 1 .. n : i # n => i < n /\ ~(n < i)
  BY <1>2
<1>5. \A i \in 1 .. n : /\ hs[i].irq >= Levels => hs[i].step # "serve"
                        /\ hs[i].step = "eoi master" => i = n
  BY DEF Sound, Handling
<1>6. \A l \in Lines :
        /\ l \in p["slave"].isr
           <=> \E i \in 1 .. n : AtSlave(hs[i]) /\ hs[i].irq = Levels + l
        /\ l \in p["master"].isr <=> \E i \in 1 .. n : Holds(hs[i]) /\ Line(hs[i]) = l
  BY DEF Sound, Serves
<1>7. \A i, j \in 1 .. n : i < j =>
        /\ Holds(hs[i]) /\ Holds(hs[j]) =>
             (hs[i].irq >= Levels /\ hs[j].irq >= Levels) \/ R(Line(hs[j]), Line(hs[i]))
        /\ AtSlave(hs[i]) /\ AtSlave(hs[j]) => Q(hs[j].irq - Levels, hs[i].irq - Levels)
  BY DEF Sound, Nested
<1>8. hs[n].irq >= Levels /\ hs[n].step = "eoi" /\ AtSlave(hs[n])
      /\ s = IF q["slave"].isr = {} THEN "eoi master" ELSE "iret"
  BY DEF EndsAtSlave, AtSlave, AfterSlave
<1>9. \A l, k \in Lines : ~(Q(l, k) /\ l = k)
  <2> TAKE l, k \in Lines
  <2>1. Rank(p["slave"], l) \in Nat
    BY <1>1, RankValue
  <2> QED  BY <2>1
<1> HIDE DEF gs, n, top, R, Q, QQ
<1>10. \A i \in 1 .. n : /\ Line(hs[i]) \in Lines
                         /\ ~(hs[i].irq < Levels) <=> hs[i].irq >= Levels
                         /\ ~(hs[i].irq < Levels) => Line(hs[i]) = Cascade
                         /\ AtSlave(hs[i]) => Holds(hs[i]) /\ hs[i].irq - Levels \in Lines
                                              /\ hs[i].irq = Levels + (hs[i].irq - Levels)
  BY <1>3, HandlerLine, Numbers
<1>11. /\ top \in Lines /\ hs[n].irq = Levels + top
       /\ top \in p["slave"].isr
  BY <1>2, <1>6, <1>8, <1>10 DEF top
<1>12. \A i \in 1 .. n : i # n /\ AtSlave(hs[i]) => Q(top, hs[i].irq - Levels)
  BY <1>2, <1>4, <1>7, <1>8 DEF top
<1>13. \A l \in Lines : \A i \in 1 .. n : hs[i].irq = Levels + l => hs[i].irq - Levels = l
  BY <1>3, Numbers DEF Lines
<1>14. \A k \in p["slave"].isr \ {top} : Q(top, k)
  <2> TAKE k \in p["slave"].isr \ {top}
  <2>1. k \in Lines
    BY <1>1 DEF PicItem
  <2>2. PICK i \in 1 .. n : AtSlave(hs[i]) /\ hs[i].irq = Levels + k
    BY <1>6, <2>1
  <2>3. hs[i].irq - Levels = k
    BY <1>13, <2>1, <2>2
  <2> QED  BY <1>12, <2>2, <2>3 DEF top
<1>15. /\ q \in [Chip -> PicItem]
       /\ q["slave"].isr = p["slave"].isr \ {top}
       /\ q["master"] = p["master"]
       /\ \A l, k \in Lines : Q(top, l) /\ Q(l, k) => QQ(l, k)
  <2>1. "slave" \in Chip /\ "master" \in Chip \ {"slave"}
    BY DEF Chip
  <2>2. Before(p["slave"], top)
    BY <1>11, <1>14 DEF Before, Q
  <2>3. Ended(p, q, "slave", top)
    BY <1>1, <2>1, <2>2, ControllerEnds
  <2> QED  BY <2>1, <2>3 DEF Ended, Q, QQ
<1>16. /\ \A i \in 1 .. n : AtSlave(gs[i]) <=> AtSlave(hs[i]) /\ i # n
       /\ \A i \in 1 .. n : i # n => (Holds(gs[i]) <=> Holds(hs[i]))
       /\ \A i \in 1 .. n : Holds(gs[i]) => Holds(hs[i])
  <2>1. s # "eoi"
    BY <1>8
  <2>2. ~AtSlave(gs[n]) /\ Holds(hs[n])
    BY <1>2, <1>8, <1>10, <2>1 DEF AtSlave
  <2> QED  BY <1>2, <2>2
<1>17. Wired(q)
  BY <1>15 DEF Sound, Wired
<1>18. Handling(q, gs, FALSE)
  <2>1. ASSUME NEW i \in 1 .. n
        PROVE  /\ gs[i].irq >= Levels => gs[i].step # "serve"
               /\ gs[i].step = "eoi master" =>
                    i = n /\ q["slave"].isr = {} /\ gs[i].irq >= Levels
    <3>1. CASE i = n
      BY <1>2, <1>8, <3>1
    <3>2. CASE i # n
      BY <1>2, <1>5, <3>2
    <3> QED  BY <3>1, <3>2
  <2> QED  BY <1>2, <2>1 DEF Handling
<1>19. Serves(q, gs)
  <2> SUFFICES ASSUME NEW l \in Lines
               PROVE  /\ l \in q["slave"].isr
                         <=> \E i \in 1 .. n : AtSlave(gs[i]) /\ gs[i].irq = Levels + l
                      /\ l \in q["master"].isr
                         <=> \E i \in 1 .. n : Holds(gs[i]) /\ Line(gs[i]) = l
    BY <1>2 DEF Serves
  <2>1. ASSUME l \in q["slave"].isr
        PROVE  \E i \in 1 .. n : AtSlave(gs[i]) /\ gs[i].irq = Levels + l
    <3>1. PICK i \in 1 .. n : AtSlave(hs[i]) /\ hs[i].irq = Levels + l
      BY <1>6, <1>15, <2>1
    <3>2. hs[i].irq - Levels = l
      BY <1>13, <3>1
    <3>3. i # n
      BY <1>15, <2>1, <3>2 DEF top
    <3> QED  BY <1>2, <1>16, <3>1, <3>3
  <2>2. ASSUME NEW i \in 1 .. n, AtSlave(gs[i]), gs[i].irq = Levels + l
        PROVE  l \in q["slave"].isr
    <3>1. i # n /\ AtSlave(hs[i]) /\ hs[i].irq = Levels + l
      BY <1>2, <1>16, <2>2
    <3>2. hs[i].irq - Levels = l
      BY <1>13, <3>1
    <3>3. l \in p["slave"].isr /\ l # top
      BY <1>6, <1>9, <1>11, <1>12, <3>1, <3>2
    <3> QED  BY <1>15, <3>3
  <2>3. ASSUME l \in q["master"].isr
        PROVE  \E i \in 1 .. n : Holds(gs[i]) /\ Line(gs[i]) = l
    <3>1. PICK i \in 1 .. n : Holds(hs[i]) /\ Line(hs[i]) = l
      BY <1>6, <1>15, <2>3
    <3>2. CASE i # n
      BY <1>2, <1>16, <3>1, <3>2
    <3>3. CASE i = n /\ q["slave"].isr = {}
      <4>1. Holds(gs[n])
        BY <1>2, <1>8, <1>10, <3>3 DEF Holds
      <4> QED  BY <1>2, <3>1, <3>3, <4>1
    <3>4. CASE i = n /\ q["slave"].isr # {}
      <4>1. PICK k \in q["slave"].isr : k \in Lines
        BY <1>1, <1>15, <3>4 DEF PicItem
      <4>2. PICK j \in 1 .. n : AtSlave(hs[j]) /\ hs[j].irq = Levels + k
        BY <1>6, <1>15, <4>1
      <4>3. hs[j].irq - Levels = k
        BY <1>13, <4>1, <4>2
      <4>4. j # n
        BY <1>15, <4>1, <4>3 DEF top
      <4>5. Holds(gs[j]) /\ Line(gs[j]) = Cascade /\ l = Cascade
        BY <1>2, <1>8, <1>10, <1>16, <3>1, <3>4, <4>2, <4>4 DEF AtSlave
      <4> QED  BY <4>5
    <3> QED  BY <3>2, <3>3, <3>4
  <2>4. ASSUME NEW i \in 1 .. n, Holds(gs[i]), Line(gs[i]) = l
        PROVE  l \in q["master"].isr
    BY <1>2, <1>6, <1>15, <1>16, <2>4
  <2> QED  BY <2>1, <2>2, <2>3, <2>4
<1>20. Nested(q, gs)
  <2> SUFFICES ASSUME NEW i \in 1 .. n, NEW j \in 1 .. n, i < j
               PROVE  /\ Holds(gs[i]) /\ Holds(gs[j]) =>
                           \/ gs[i].irq >= Levels /\ gs[j].irq >= Levels
                           \/ R(Line(gs[j]), Line(gs[i]))
                      /\ AtSlave(gs[i]) /\ AtSlave(gs[j]) =>
                           QQ(gs[j].irq - Levels, gs[i].irq - Levels)
    BY <1>2, <1>15 DEF Nested, R, QQ
  <2>1. Holds(gs[i]) /\ Holds(gs[j]) =>
          \/ gs[i].irq >= Levels /\ gs[j].irq >= Levels
          \/ R(Line(gs[j]), Line(gs[i]))
    BY <1>2, <1>7, <1>16
  <2>2. ASSUME AtSlave(gs[i]), AtSlave(gs[j])
        PROVE  QQ(gs[j].irq - Levels, gs[i].irq - Levels)
    <3>1. /\ AtSlave(hs[i]) /\ AtSlave(hs[j]) /\ j # n
          /\ hs[i].irq - Levels \in Lines /\ hs[j].irq - Levels \in Lines
      BY <1>10, <1>16, <2>2
    <3>2. Q(top, hs[j].irq - Levels) /\ Q(hs[j].irq - Levels, hs[i].irq - Levels)
      BY <1>7, <1>12, <3>1
    <3> QED  BY <1>2, <1>15, <3>1, <3>2
  <2> QED  BY <2>1, <2>2
<1> QED  BY <1>17, <1>18, <1>19, <1>20 DEF Sound, gs

(* A handler that has ended its interrupt returns. *)
LEMMA IretKeepsSound ==
  ASSUME NEW p, NEW hs, NEW e, Sound(p, hs, e), hs # <<>>, hs[Len(hs)].step = "iret"
  PROVE  Sound(p, SubSeq(hs, 1, Len(hs) - 1), TRUE)
<1> DEFINE n  == Len(hs)
           gs == SubSeq(hs, 1, n - 1)
<1>1. hs \in Seq(HandlerType)
  BY DEF Sound, Handling
<1>2. n \in Nat /\ n \in 1 .. n
  BY <1>1, LastOf
<1>3. \A i \in 1 .. n : hs[i] \in HandlerType
  BY <1>1, ElementOfSeq
<1>4. /\ gs \in Seq(HandlerType) /\ Len(gs) = n - 1
      /\ \A i \in 1 .. n - 1 : gs[i] = hs[i] /\ i \in 1 .. n /\ i # n
      /\ \A i \in 1 .. n : i = n \/ i \in 1 .. n - 1
  <2> HIDE DEF n
  <2>1. n - 1 \in Int /\ 1 \in Int
    BY <1>2
  <2>2. /\ \A i \in 1 .. n - 1 : i \in 1 .. n /\ i # n
        /\ \A i \in 1 .. n : i = n \/ i \in 1 .. n - 1
    BY <1>2
  <2>3. \A i \in 1 .. n - 1 : hs[i] \in HandlerType
    BY <1>3, <2>2
  <2>4. gs \in Seq(HandlerType)
    BY <2>1, <2>3, SubSeqProperties
  <2>5. Len(gs) = n - 1
    BY <1>2, <2>1, <2>3, SubSeqProperties
  <2>6. \A i \in 1 .. n - 1 : gs[i] = hs[i]
    BY <1>2, <2>1, <2>3, SubSeqProperties
  <2> QED  BY <2>2, <2>4, <2>5, <2>6
<1>5. ~Holds(hs[n]) /\ ~AtSlave(hs[n])
  BY DEF Holds, AtSlave
<1>6. Handling(p, gs, TRUE)
  <2>1. \A i \in 1 .. n - 1 : /\ gs[i].irq >= Levels => gs[i].step # "serve"
                              /\ gs[i].step # "eoi master"
    BY <1>4 DEF Sound, Handling
  <2> QED  BY <1>4, <2>1 DEF Handling
<1>7. Serves(p, gs)
  BY <1>4, <1>5 DEF Sound, Serves
<1>8. Nested(p, gs)
  BY <1>4 DEF Sound, Nested
<1> QED  BY <1>6, <1>7, <1>8 DEF Sound

-----------------------------------------------------------------------------
(* What is sound is in particular in service. *)
LEMMA SoundInService ==
  ASSUME Sound(pic, handlers, ei)
  PROVE  InService
<1> DEFINE n == Len(handlers)
           irq(i) == handlers[i].irq
           step(i) == handlers[i].step
           atslave == {i \in 1 .. n : irq(i) >= Levels /\ step(i) \in {"serve", "eoi"}}
           unended == {i \in 1 .. n : irq(i) >= 0 /\ step(i) \in {"serve", "eoi"}}
           cascaded == {i \in 1 .. n : irq(i) >= Levels /\ step(i) # "iret"}
<1>1. /\ handlers \in Seq(HandlerType)
      /\ pic["slave"].isr \subseteq Lines /\ pic["master"].isr \subseteq Lines
  BY Pending DEF Sound, Handling, Wired
<1>2. \A i \in 1 .. n : handlers[i] \in HandlerType
  BY <1>1, ElementOfSeq
<1>3. \A i \in 1 .. n : step(i) \in {"serve", "eoi", "eoi master", "iret"}
                        /\ irq(i) \in Nat /\ irq(i) >= 0
                        /\ (irq(i) < Levels <=> ~(irq(i) >= Levels))
  <2>1. \A h \in HandlerType : h.step \in {"serve", "eoi", "eoi master", "iret"}
                               /\ h.irq \in Irqs
    BY DEF HandlerType
  <2>2. \A i \in 1 .. n : step(i) \in {"serve", "eoi", "eoi master", "iret"} /\ irq(i) \in Irqs
    BY <1>2, <2>1
  <2> HIDE DEF n, irq, step
  <2>3. \A i \in 1 .. n : /\ irq(i) \in Nat /\ irq(i) >= 0
                          /\ (irq(i) < Levels <=> ~(irq(i) >= Levels))
    <3>1. \A k \in Irqs : k \in Nat /\ k >= 0 /\ (k < Levels <=> ~(k >= Levels))
      BY Numbers
    <3> QED  BY <2>2, <3>1
  <2> QED  BY <2>2, <2>3, Zenon
<1>4. \A i \in 1 .. n : irq(i) >= Levels => step(i) # "serve"
  BY DEF Sound, Handling
<1>5. \A l \in Lines :
        /\ l \in pic["slave"].isr
           <=> \E i \in 1 .. n : AtSlave(handlers[i]) /\ irq(i) = Levels + l
        /\ l \in pic["master"].isr
           <=> \E i \in 1 .. n : Holds(handlers[i]) /\ Line(handlers[i]) = l
  BY DEF Sound, Serves
<1>6. \A i \in 1 .. n : /\ AtSlave(handlers[i]) <=> irq(i) >= Levels /\ step(i) = "eoi"
                        /\ Holds(handlers[i]) <=>
                             IF irq(i) < Levels THEN step(i) \in {"serve", "eoi"}
                             ELSE step(i) \in {"eoi", "eoi master"}
                        /\ Line(handlers[i]) = IF irq(i) < Levels THEN irq(i) ELSE Cascade
                        /\ Line(handlers[i]) \in Lines
                        /\ irq(i) >= Levels => irq(i) - Levels \in Lines
                                               /\ irq(i) = Levels + (irq(i) - Levels)
  BY <1>2, HandlerLine, Numbers DEF AtSlave, Holds, Line
<1>7. \A l \in Lines : \A i \in 1 .. n : irq(i) = Levels + l => irq(i) - Levels = l
  <2>1. \A l \in Lines : (Levels + l) - Levels = l
    BY Numbers DEF Lines
  <2> QED  BY <2>1, Zenon
<1> HIDE DEF n, irq, step
<1>8. pic["slave"].isr = {irq(i) - Levels : i \in atslave}
  <2>1. ASSUME NEW l \in pic["slave"].isr PROVE l \in {irq(i) - Levels : i \in atslave}
    <3>1. PICK i \in 1 .. n : AtSlave(handlers[i]) /\ irq(i) = Levels + l
      BY <1>1, <1>5
    <3>2. i \in atslave /\ irq(i) - Levels = l
      BY <1>1, <1>6, <1>7, <3>1
    <3> QED  BY <3>2
  <2>2. ASSUME NEW i \in atslave PROVE irq(i) - Levels \in pic["slave"].isr
    <3>1. AtSlave(handlers[i])
      BY <1>4, <1>6
    <3> QED  BY <1>5, <1>6, <3>1
  <2> QED  BY <2>1, <2>2
<1>9. pic["master"].isr = {irq(i) : i \in unended \ atslave} \cup {Cascade : i \in cascaded}
  <2>1. ASSUME NEW l \in pic["master"].isr
        PROVE  l \in {irq(i) : i \in unended \ atslave} \cup {Cascade : i \in cascaded}
    <3>1. PICK i \in 1 .. n : Holds(handlers[i]) /\ Line(handlers[i]) = l
      BY <1>1, <1>5
    <3>2. CASE irq(i) < Levels
      <4>1. i \in unended \ atslave /\ irq(i) = l
        BY <1>3, <1>6, <3>1, <3>2
      <4> QED  BY <4>1
    <3>3. CASE ~(irq(i) < Levels)
      <4>1. i \in cascaded /\ Cascade = l
        BY <1>3, <1>6, <3>1, <3>3
      <4> QED  BY <4>1
    <3> QED  BY <3>2, <3>3
  <2>2. ASSUME NEW i \in unended \ atslave PROVE irq(i) \in pic["master"].isr
    <3>1. Holds(handlers[i]) /\ Line(handlers[i]) = irq(i)
      BY <1>3, <1>6
    <3> QED  BY <1>5, <1>6, <3>1
  <2>3. ASSUME NEW i \in cascaded PROVE Cascade \in pic["master"].isr
    <3>1. Holds(handlers[i]) /\ Line(handlers[i]) = Cascade
      BY <1>3, <1>4, <1>6
    <3> QED  BY <1>5, <1>6, <3>1
  <2> QED  BY <2>1, <2>2, <2>3
<1> QED  BY <1>8, <1>9 DEF InService, n, irq, step

-----------------------------------------------------------------------------
(* The steps of the machine: all but those of the handlers, the taking of  *)
(* an interrupt and what a guest does to the masks leave sound what is so. *)
QuietStep ==
  /\ Quiet(pic, pic')
  /\ handlers' = handlers
  /\ ei' \in BOOLEAN
  /\ ei' => ei \/ handlers = <<>> \/ Handler.step # "eoi master"

QuietAction ==
  \/ HostKey \/ HostFrame \/ (\E m \in Multiples : HostSpeed(m))
  \/ Progress \/ Callback
  \/ (\E cost \in Costs : Run(cost))
  \/ Hlt \/ Cli \/ Sti \/ OutVsync \/ InData
  \/ (\E rate \in Modes : OutTimer(rate))
  \/ (\E line \in Device : OutDevice(line))
  \/ (\E r \in Reply, n \in 1 .. 3 : OutCommand([i \in 1 .. n |-> r]))
  \/ (\E held \in BOOLEAN : OutKeyReset(held))

(* All of these change requests only, if anything of the controllers. *)
LEMMA QuietSteps ==
  ASSUME Sound(pic, handlers, ei), QuietAction
  PROVE  QuietStep
<1>1. pic \in [Chip -> PicItem] /\ ei \in BOOLEAN
  BY DEF Sound, Wired, Handling
<1>2. Quiet(pic, pic)
  BY <1>1 DEF Quiet
<1>3. /\ Quiet(pic, SetIrq(pic, SystemTimer)) /\ Quiet(pic, SetIrq(pic, Keyboard))
      /\ Quiet(pic, SetIrq(pic, Crtv))
      /\ Quiet(pic, ResetIrq(pic, SystemTimer)) /\ Quiet(pic, ResetIrq(pic, Keyboard))
      /\ Quiet(pic, ResetIrq(pic, Crtv))
  BY <1>1, SetIrqQuiet, ResetIrqQuiet, Numbers
<1>4. ASSUME NEW line \in Device PROVE Quiet(pic, SetIrq(pic, Levels + line))
  <2>1. line \in Lines
    BY BoardAssumption
  <2>2. Levels + line \in Irqs \ {Cascade}
    BY <2>1, Numbers
  <2> QED  BY <1>1, <2>2, SetIrqQuiet
<1> DEFINE Same == pic' = pic /\ handlers' = handlers
<1>5. CASE Same /\ (ei' = ei \/ ei' = FALSE)
  <2>1. CASE ei' = ei
    BY <1>1, <1>2, <1>5, <2>1 DEF QuietStep
  <2>2. CASE ei' = FALSE
    BY <1>2, <1>5, <2>2 DEF QuietStep
  <2> QED  BY <1>5, <2>1, <2>2
<1>6. CASE HostKey \/ HostFrame \/ (\E m \in Multiples : HostSpeed(m)) \/ Progress
  BY <1>5, <1>6 DEF HostKey, HostFrame, HostSpeed, Progress, guest
<1>7. CASE (\E cost \in Costs : Run(cost)) \/ Hlt \/ Cli \/ OutVsync
  BY <1>5, <1>7 DEF Run, Hlt, Cli, OutVsync, guest
<1>8. CASE Sti
  <2>1. Same /\ ei' = TRUE /\ (handlers # <<>> => Handler.step # "eoi master")
    BY <1>8 DEF Sti, MayNest
  <2> QED  BY <1>2, <2>1 DEF QuietStep
<1>9. CASE Systimer
  BY <1>1, <1>2, <1>3, <1>9 DEF Systimer, guest, QuietStep
<1>10. CASE Picmask
  BY <1>1, <1>2, <1>3, <1>10 DEF Picmask, guest, QuietStep
<1>11. CASE KeyboardCallback
  BY <1>1, <1>2, <1>3, <1>11 DEF KeyboardCallback, guest, QuietStep
<1>12. CASE Screenvsync
  BY <1>1, <1>2, <1>3, <1>12 DEF Screenvsync, guest, QuietStep
<1>13. CASE Screendisp
  BY <1>1, <1>2, <1>3, <1>13 DEF Screendisp, guest, QuietStep
<1>14. CASE InData
  BY <1>1, <1>2, <1>3, <1>14 DEF InData, ReadData, guest, QuietStep
<1>15. CASE \E rate \in Modes : OutTimer(rate)
  BY <1>1, <1>2, <1>3, <1>15 DEF OutTimer, guest, QuietStep
<1>16. CASE \E line \in Device : OutDevice(line)
  BY <1>1, <1>4, <1>16 DEF OutDevice, guest, QuietStep
<1>17. CASE \E r \in Reply, n \in 1 .. 3 : OutCommand([i \in 1 .. n |-> r])
  <2>1. PICK reply : OutCommand(reply)
    BY <1>17
  <2> QED  BY <1>5, <2>1 DEF OutCommand, guest
<1>18. CASE \E held \in BOOLEAN : OutKeyReset(held)
  BY <1>5, <1>18 DEF OutKeyReset, guest
<1> QED  BY <1>6, <1>7, <1>8, <1>9, <1>10, <1>11, <1>12, <1>13, <1>14, <1>15, <1>16, <1>17, <1>18
         DEF Callback, QuietAction

(* While no handler runs nothing is in service, and masks may change. *)
LEMMA IdleIsSound ==
  ASSUME NEW p, NEW e, Sound(p, <<>>, e), NEW q \in [Chip -> PicItem],
         \A c \in Chip : q[c].isr = p[c].isr,
         Cascade \in q["master"].irr => Cascade \in p["master"].irr
  PROVE  Sound(q, <<>>, e) /\ p["master"].isr = {} /\ p["slave"].isr = {}
<1>1. Len(<<>>) = 0 /\ 1 .. 0 = {}
  OBVIOUS
<1>2. p["master"].isr \subseteq Lines /\ p["slave"].isr \subseteq Lines
  BY Pending DEF Sound, Wired
<1>3. p["master"].isr = {} /\ p["slave"].isr = {}
  BY <1>1, <1>2 DEF Sound, Serves
<1>4. q["master"].isr = {} /\ q["slave"].isr = {}
  BY <1>3 DEF Chip
<1>5. Wired(q)
  BY <1>4 DEF Sound, Wired
<1>6. Handling(q, <<>>, e)
  BY <1>1 DEF Sound, Handling
<1>7. Serves(q, <<>>)
  BY <1>1, <1>4 DEF Serves
<1>8. Nested(q, <<>>)
  BY <1>1 DEF Nested
<1> QED  BY <1>3, <1>5, <1>6, <1>7, <1>8 DEF Sound

(* pic_irq(), when the loop calls it: what is taken is what may be served  *)
(* and comes first, if anything may be served and the CPU takes it.        *)
LEMMA IrqIsRight ==
  ASSUME Sound(pic, handlers, ei), Irq
  PROVE  \/ /\ ei => May(pic) = {}
            /\ pic' = pic /\ handlers' = handlers /\ ei' = ei
         \/ /\ ei /\ ei' = FALSE
            /\ Taken \in May(pic) /\ Taken \in Irqs /\ ComesFirst(pic, Taken)
            /\ pic' = PicTake(pic, Taken)
            /\ handlers' = Append(handlers, [irq |-> Taken,
                 step |-> IF Taken = Keyboard THEN "serve" ELSE "eoi"])
<1>1. Wired(pic)
  BY DEF Sound
<1>2. \/ PicIrq(pic) = NoIrq /\ May(pic) = {}
      \/ PicIrq(pic) \in May(pic) /\ PicIrq(pic) \in Irqs /\ ComesFirst(pic, PicIrq(pic))
  BY <1>1, PicIrqIsRight
<1>3. Taken = IF ei THEN PicIrq(pic) ELSE NoIrq
  BY DEF Taken
<1>4. CASE Taken = NoIrq
  <2>1. pic' = pic /\ handlers' = handlers /\ ei' = ei
    BY <1>4 DEF Irq, guest
  <2>2. NoIrq \notin Irqs
    BY Numbers
  <2> QED  BY <1>2, <1>3, <1>4, <2>1, <2>2
<1>5. CASE Taken # NoIrq
  <2>1. /\ pic' = PicTake(pic, Taken) /\ ei' = FALSE
        /\ handlers' = Append(handlers, [irq |-> Taken,
             step |-> IF Taken = Keyboard THEN "serve" ELSE "eoi"])
    BY <1>5 DEF Irq
  <2> QED  BY <1>2, <1>3, <1>5, <2>1
<1> QED  BY <1>4, <1>5

(* At first no handler runs and nothing is in service. *)
LEMMA SoundInit ==
  ASSUME Init
  PROVE  Sound(pic, handlers, ei)
<1>1. handlers = <<>> /\ ei = FALSE
  BY DEF Init
<1>2. PICK m \in Masks : pic = PicReset(m)
  BY DEF Init
<1>3. m \in [Chip -> SUBSET Lines]
  BY BoardAssumption
<1>4. /\ pic \in [Chip -> PicItem]
      /\ pic["master"].isr = {} /\ pic["slave"].isr = {} /\ pic["master"].irr = {}
  BY <1>2, <1>3, PicAssumption DEF PicReset, Chip, PicItem, Lines
<1>5. Len(<<>>) = 0 /\ 1 .. 0 = {} /\ <<>> \in Seq(HandlerType)
  OBVIOUS
<1> QED  BY <1>1, <1>4, <1>5 DEF Sound, Wired, Handling, Serves, Nested

(* Every step keeps what is in service what the handlers have not ended. *)
LEMMA SoundNext ==
  ASSUME Sound(pic, handlers, ei), [Next]_vars
  PROVE  Sound(pic, handlers, ei)'
<1>1. /\ pic \in [Chip -> PicItem] /\ handlers \in Seq(HandlerType) /\ ei \in BOOLEAN
  BY DEF Sound, Wired, Handling
<1>2. ASSUME QuietAction PROVE Sound(pic, handlers, ei)'
  <2>1. QuietStep
    BY <1>2, QuietSteps
  <2> QED  BY <2>1, QuietKeepsSound DEF QuietStep, Handler
<1>3. CASE Irq
  <2>1. CASE pic' = pic /\ handlers' = handlers /\ ei' = ei
    BY <2>1
  <2>2. CASE /\ ei /\ ei' = FALSE
             /\ Taken \in May(pic) /\ Taken \in Irqs
             /\ pic' = PicTake(pic, Taken)
             /\ handlers' = Append(handlers, [irq |-> Taken,
                  step |-> IF Taken = Keyboard THEN "serve" ELSE "eoi"])
    <3> DEFINE step == IF Taken = Keyboard THEN "serve" ELSE "eoi"
    <3>1. step \in {"serve", "eoi"} /\ (Taken >= Levels => step = "eoi")
      BY <2>2, Numbers
    <3>2. ei = TRUE
      BY <1>1, <2>2
    <3> QED  BY <2>2, <3>1, <3>2, TakeKeepsSound
  <2> QED  BY <1>3, <2>1, <2>2, IrqIsRight
<1>4. CASE \E m \in Masks, c \in Chip : OutMask(c, m[c])
  <2>1. PICK m \in Masks, c \in Chip : OutMask(c, m[c])
    BY <1>4
  <2>2. handlers = <<>> /\ handlers' = <<>> /\ ei' = ei /\ pic' = SetMask(pic, c, m[c])
    BY <2>1 DEF OutMask, guest
  <2>3. m[c] \in SUBSET Lines
    BY BoardAssumption
  <2>4. /\ pic' \in [Chip -> PicItem] /\ \A d \in Chip : pic'[d].isr = pic[d].isr
        /\ pic'["master"].irr = pic["master"].irr
    BY <1>1, <2>2, <2>3 DEF SetMask, PicItem, Chip
  <2> QED  BY <2>2, <2>4, IdleIsSound
<1>5. CASE OutIcw
  <2>1. handlers = <<>> /\ handlers' = <<>> /\ ei' = ei /\ pic' = Icw1(pic, "master")
    BY <1>5 DEF OutIcw, guest
  <2>2. /\ pic' \in [Chip -> PicItem] /\ \A d \in Chip : pic'[d].isr = pic[d].isr
        /\ pic'["master"].irr = {}
    <3>1. pic["master"] \in PicItem /\ pic["slave"] \in PicItem /\ 0 \in Lines
      BY <1>1, PicAssumption DEF Chip, Lines
    <3>2. /\ pic'["slave"] = pic["slave"]
          /\ pic'["master"] = [pic["master"] EXCEPT !.irr = {}, !.imr = {}, !.pry = 0]
      BY <1>1, <2>1 DEF Icw1, Chip
    <3>3. pic'["master"] \in PicItem
      BY <3>1, <3>2 DEF PicItem
    <3>4. pic'["master"].isr = pic["master"].isr /\ pic'["master"].irr = {}
      BY <3>1, <3>2 DEF PicItem
    <3>5. pic' \in [Chip -> PicItem]
      BY <1>1, <2>1, <3>1, <3>2, <3>3 DEF Icw1, Chip
    <3> QED  BY <3>2, <3>4, <3>5 DEF Chip
  <2> QED  BY <2>1, <2>2, IdleIsSound
<1>6. CASE HandlerRead
  <2>1. /\ handlers # <<>> /\ handlers[Len(handlers)].step = "serve"
        /\ handlers' = StepTo(handlers, "eoi") /\ ei' = ei
        /\ pic' = ResetIrq(pic, Keyboard)
    BY <1>6 DEF HandlerRead, Handles, Handler, ReadData, NextStep, StepTo
  <2>2. Sound(pic, StepTo(handlers, "eoi"), ei)
    BY <2>1, ReadKeepsSound
  <2>3. Quiet(pic, ResetIrq(pic, Keyboard))
    BY <1>1, ResetIrqQuiet, Numbers
  <2>4. Sound(ResetIrq(pic, Keyboard), StepTo(handlers, "eoi"), ei)
    BY <1>1, <2>2, <2>3, QuietKeepsSound
  <2> QED  BY <2>1, <2>4
<1>7. CASE \E rotate \in Rotations : HandlerEoi(rotate)
  <2>1. PICK rotate \in Rotations : HandlerEoi(rotate)
    BY <1>7
  <2>2. rotate \in BOOLEAN
    BY BoardAssumption
  <2>3. /\ handlers # <<>> /\ handlers[Len(handlers)].step = "eoi" /\ ei' = ei
    BY <2>1 DEF HandlerEoi, Handles, Handler
  <2>4. CASE Handler.irq >= Levels
    <3>1. /\ ~ei /\ pic' = EndOfInterrupt(pic, "slave", rotate)
          /\ handlers' = StepTo(handlers, AfterSlave(pic'))
      BY <2>1, <2>4 DEF HandlerEoi, NextStep, StepTo, AfterSlave
    <3>2. EndsAtSlave(handlers[Len(handlers)]) /\ ei = FALSE
      BY <1>1, <2>3, <2>4, <3>1 DEF EndsAtSlave, Handler
    <3> QED  BY <2>2, <2>3, <3>1, <3>2, SlaveEndsKeepsSound
  <2>5. CASE ~(Handler.irq >= Levels)
    <3>1. /\ pic' = EndOfInterrupt(pic, "master", rotate)
          /\ handlers' = StepTo(handlers, "iret")
      BY <2>1, <2>5 DEF HandlerEoi, NextStep, StepTo
    <3>2. EndsAtMaster(handlers[Len(handlers)])
      <4>1. handlers[Len(handlers)] \in HandlerType
        BY <1>1, <2>3, LastOf, ElementOfSeq
      <4> QED  BY <2>3, <2>5, <4>1, HandlerLine, Numbers DEF EndsAtMaster, Handler
    <3> QED  BY <2>2, <2>3, <3>1, <3>2, MasterEndsKeepsSound
  <2> QED  BY <2>4, <2>5
<1>8. CASE \E rotate \in Rotations : HandlerEoiMaster(rotate)
  <2>1. PICK rotate \in Rotations : HandlerEoiMaster(rotate)
    BY <1>8
  <2>2. rotate \in BOOLEAN
    BY BoardAssumption
  <2>3. /\ handlers # <<>> /\ handlers[Len(handlers)].step = "eoi master" /\ ei' = ei
        /\ pic' = EndOfInterrupt(pic, "master", rotate)
        /\ handlers' = StepTo(handlers, "iret")
    BY <2>1 DEF HandlerEoiMaster, Handles, Handler, NextStep, StepTo
  <2>4. EndsAtMaster(handlers[Len(handlers)])
    BY <2>3 DEF EndsAtMaster
  <2> QED  BY <2>2, <2>3, <2>4, MasterEndsKeepsSound
<1>9. CASE HandlerIret
  <2>1. /\ handlers # <<>> /\ handlers[Len(handlers)].step = "iret"
        /\ handlers' = SubSeq(handlers, 1, Len(handlers) - 1)
        /\ pic' = pic /\ ei' = TRUE
    BY <1>9 DEF HandlerIret, Handles, Handler
  <2> QED  BY <2>1, IretKeepsSound
<1>10. CASE UNCHANGED vars
  BY <1>10 DEF vars, guest
<1> QED  BY <1>2, <1>3, <1>4, <1>5, <1>6, <1>7, <1>8, <1>9, <1>10
         DEF Next, Program, HandlerStep, QuietAction

(* What is in service is what the handlers that run have not ended yet     *)
(* (pic.c: pic_irq(), pic_o00()): module GuestBoard says it as InService.  *)
THEOREM InServiceHolds == Spec => []InService
<1>1. Init => Sound(pic, handlers, ei)
  BY SoundInit
<1>2. Sound(pic, handlers, ei) /\ [Next]_vars => Sound(pic, handlers, ei)'
  BY SoundNext
<1>3. Sound(pic, handlers, ei) => InService
  BY SoundInService
<1> QED  BY <1>1, <1>2, <1>3, PTL DEF Spec

(* The CPU is interrupted when, and only when, some request may be served, *)
(* and then by the one that comes before all others (pic.c: pic_irq()).    *)
THEOREM InterruptsLegalHolds == Spec => InterruptsLegal
<1> DEFINE Legal == phase = "irq" =>
                      IF ei /\ May(pic) # {}
                      THEN \E irq \in May(pic) :
                             ComesFirst(pic, irq) /\ Len(handlers') = Len(handlers) + 1
                             /\ handlers'[Len(handlers')].irq = irq
                      ELSE handlers' = handlers
<1>1. ASSUME Sound(pic, handlers, ei), Next, phase = "irq" PROVE Irq
  BY <1>1 DEF Next, Program, HandlerStep, Callback, Calls, Executes, Handles,
       HostKey, HostFrame, HostSpeed, Progress, Systimer, Picmask, KeyboardCallback,
       Screenvsync, Screendisp, Run, Hlt, Cli, Sti, OutMask, OutIcw, OutVsync, OutTimer,
       OutDevice, OutCommand, OutKeyReset, InData, HandlerRead, HandlerEoi,
       HandlerEoiMaster, HandlerIret
<1>2. ASSUME Sound(pic, handlers, ei), Next PROVE Legal
  <2> SUFFICES ASSUME phase = "irq"
               PROVE  IF ei /\ May(pic) # {}
                      THEN \E irq \in May(pic) :
                             ComesFirst(pic, irq) /\ Len(handlers') = Len(handlers) + 1
                             /\ handlers'[Len(handlers')].irq = irq
                      ELSE handlers' = handlers
    OBVIOUS
  <2>1. Irq
    BY <1>1, <1>2
  <2>2. CASE (ei => May(pic) = {}) /\ handlers' = handlers
    BY <2>2
  <2>3. CASE /\ ei /\ Taken \in May(pic) /\ Taken \in Irqs /\ ComesFirst(pic, Taken)
             /\ handlers' = Append(handlers, [irq |-> Taken,
                  step |-> IF Taken = Keyboard THEN "serve" ELSE "eoi"])
    <3> DEFINE h == [irq |-> Taken, step |-> IF Taken = Keyboard THEN "serve" ELSE "eoi"]
    <3>1. h.irq = Taken
      OBVIOUS
    <3>2. h \in [irq : Irqs, step : {"serve", "eoi"}]
      BY <2>3
    <3>3. handlers \in Seq(HandlerType)
      BY <1>2 DEF Sound, Handling
    <3> HIDE DEF h
    <3>4. Len(Append(handlers, h)) = Len(handlers) + 1
          /\ Append(handlers, h)[Len(handlers) + 1] = h
      BY <3>3
    <3>5. /\ Len(handlers') = Len(handlers) + 1
          /\ handlers'[Len(handlers')].irq = Taken
      BY <2>3, <3>1, <3>4 DEF h
    <3> QED  BY <2>3, <3>5
  <2> QED  BY <1>2, <2>1, <2>2, <2>3, IrqIsRight
<1>3. Sound(pic, handlers, ei) /\ [Next]_vars => [Legal]_vars
  BY <1>2
<1>4. Init => Sound(pic, handlers, ei)
  BY SoundInit
<1>5. Sound(pic, handlers, ei) /\ [Next]_vars => Sound(pic, handlers, ei)'
  BY SoundNext
<1> QED  BY <1>3, <1>4, <1>5, PTL DEF Spec, InterruptsLegal

-----------------------------------------------------------------------------
(* A request for the vertical sync is neither withdrawn nor taken without  *)
(* being served or asked for again.                                        *)
LEMMA VsyncNext ==
  ASSUME Sound(pic, handlers, ei), VsyncKept, [Next]_vars
  PROVE  VsyncKept'
<1> DEFINE Kept == Crtv \in MasterIrr => Crtv \in MasterIrr'
           Asked == (wanted' => wanted) /\ vsyncint' = vsyncint
<1>1. /\ pic \in [Chip -> PicItem] /\ pic["master"] \in PicItem /\ pic["slave"] \in PicItem
      /\ "master" \in Chip /\ "slave" \in Chip
  BY Pending DEF Sound, Wired, Chip
<1>2. CASE Kept /\ Asked
  BY <1>2 DEF VsyncKept
<1>3. CASE pic' = pic /\ Asked
  BY <1>2, <1>3 DEF MasterIrr
<1>4. /\ Crtv \in MasterIrr => Crtv \in SetIrq(pic, SystemTimer)["master"].irr
      /\ Crtv \in MasterIrr => Crtv \in SetIrq(pic, Keyboard)["master"].irr
      /\ Crtv \in MasterIrr => Crtv \in ResetIrq(pic, SystemTimer)["master"].irr
      /\ Crtv \in MasterIrr => Crtv \in ResetIrq(pic, Keyboard)["master"].irr
  BY <1>1, Numbers DEF SetIrq, ResetIrq, MasterIrr, PicItem
<1>5. CASE Irq
  <2>1. CASE pic' = pic /\ handlers' = handlers /\ ei' = ei
    BY <1>2, <1>5, <2>1 DEF Irq, MasterIrr
  <2>2. CASE /\ Taken \in May(pic) /\ Taken \in Irqs
             /\ pic' = PicTake(pic, Taken)
    <3> DEFINE m == IF Taken < Levels THEN Taken ELSE Cascade
    <3>1. Taken < Levels => Taken % Levels = Taken
      BY <2>2, Numbers
    <3>2. pic'["master"].irr = pic["master"].irr \ {m}
      BY <1>1, <2>2, <3>1 DEF PicTake, PicItem
    <3>3. Taken # Crtv => m # Crtv
      BY Numbers
    <3>4. wanted' = (wanted /\ Taken # Crtv) /\ vsyncint' = vsyncint
      BY <1>5 DEF Irq
    <3> QED  BY <3>2, <3>3, <3>4 DEF VsyncKept, MasterIrr
  <2> QED  BY <1>5, <2>1, <2>2, IrqIsRight
<1>6. CASE HostKey \/ HostFrame \/ (\E m \in Multiples : HostSpeed(m)) \/ Progress
  BY <1>3, <1>6 DEF HostKey, HostFrame, HostSpeed, Progress, history
<1>7. CASE \/ (\E cost \in Costs : Run(cost)) \/ Hlt \/ Cli \/ Sti
           \/ (\E held \in BOOLEAN : OutKeyReset(held)) \/ HandlerIret
  BY <1>3, <1>7 DEF Run, Hlt, Cli, Sti, OutKeyReset, HandlerIret, history
<1>8. CASE \E r \in Reply, n \in 1 .. 3 : OutCommand([i \in 1 .. n |-> r])
  <2>1. PICK reply : OutCommand(reply)
    BY <1>8
  <2> QED  BY <1>3, <2>1 DEF OutCommand
<1>9. CASE Systimer \/ KeyboardCallback
  BY <1>2, <1>4, <1>9 DEF Systimer, KeyboardCallback, MasterIrr, history
<1>10. CASE Picmask
  BY <1>2, <1>4, <1>10 DEF Picmask, MasterIrr, history
<1>11. CASE (\E rate \in Modes : OutTimer(rate)) \/ InData \/ HandlerRead
  BY <1>2, <1>4, <1>11 DEF OutTimer, InData, HandlerRead, ReadData, MasterIrr
<1>12. CASE Screenvsync
  <2>1. CASE vsyncint
    <3>1. /\ pic' = SetIrq(pic, Crtv)
          /\ Crtv \in pic["master"].isr => vsyncint'
      BY <1>12, <2>1 DEF Screenvsync
    <3>2. Crtv \notin pic["master"].isr => Crtv \in SetIrq(pic, Crtv)["master"].irr
      BY <1>1, Numbers DEF SetIrq, PicItem
    <3> QED  BY <3>1, <3>2 DEF VsyncKept, MasterIrr
  <2>2. CASE ~vsyncint
    <3>1. pic' = pic /\ wanted' = wanted
      BY <1>12, <2>2 DEF Screenvsync, history
    <3> QED  BY <2>2, <3>1 DEF VsyncKept, MasterIrr
  <2> QED  BY <2>1, <2>2
<1>13. CASE Screendisp
  <2>1. vsyncint' = (vsyncint \/ Crtv \in MasterIrr) /\ wanted' = wanted
    BY <1>13 DEF Screendisp, history
  <2> QED  BY <2>1 DEF VsyncKept
<1>14. CASE \E m \in Masks, c \in Chip : OutMask(c, m[c])
  <2>1. PICK m \in Masks, c \in Chip : OutMask(c, m[c])
    BY <1>14
  <2>2. pic' = SetMask(pic, c, m[c]) /\ Asked
    BY <2>1 DEF OutMask, history
  <2>3. pic'["master"].irr = pic["master"].irr
    BY <1>1, <2>2 DEF SetMask, PicItem
  <2> QED  BY <1>2, <2>2, <2>3 DEF MasterIrr
<1>15. CASE OutIcw
  <2>1. wanted' = (wanted /\ vsyncint) /\ vsyncint' = vsyncint
    BY <1>15 DEF OutIcw
  <2> QED  BY <2>1 DEF VsyncKept
<1>16. CASE OutVsync
  <2>1. vsyncint' = TRUE
    BY <1>16 DEF OutVsync
  <2> QED  BY <2>1 DEF VsyncKept
<1>17. CASE \E line \in Device : OutDevice(line)
  <2>1. PICK line \in Device : OutDevice(line)
    BY <1>17
  <2>2. line \in Lines
    BY BoardAssumption
  <2>3. pic' = SetIrq(pic, Levels + line) /\ Asked
    BY <2>1 DEF OutDevice
  <2>4. pic'["master"].irr = pic["master"].irr
    BY <1>1, <2>2, <2>3, Numbers DEF SetIrq
  <2> QED  BY <1>2, <2>3, <2>4 DEF MasterIrr
<1>18. CASE \E rotate \in Rotations : HandlerEoi(rotate) \/ HandlerEoiMaster(rotate)
  <2>1. \A c \in Chip : \A rotate : EndOfInterrupt(pic, c, rotate)["master"].irr = pic["master"].irr
    BY <1>1 DEF EndOfInterrupt, PicItem
  <2>2. PICK rotate \in Rotations : HandlerEoi(rotate) \/ HandlerEoiMaster(rotate)
    BY <1>18
  <2>3. Asked /\ \E c \in Chip : pic' = EndOfInterrupt(pic, c, rotate)
    <3>1. CASE HandlerEoi(rotate)
      <4>1. pic' = EndOfInterrupt(pic, IF Handler.irq >= Levels THEN "slave" ELSE "master", rotate)
            /\ Asked
        BY <3>1 DEF HandlerEoi
      <4> QED  BY <1>1, <4>1
    <3>2. CASE HandlerEoiMaster(rotate)
      <4>1. pic' = EndOfInterrupt(pic, "master", rotate) /\ Asked
        BY <3>2 DEF HandlerEoiMaster
      <4> QED  BY <1>1, <4>1
    <3> QED  BY <2>2, <3>1, <3>2
  <2> QED  BY <1>2, <2>1, <2>3 DEF MasterIrr
<1>19. CASE UNCHANGED vars
  BY <1>3, <1>19 DEF vars, history
<1> QED  BY <1>5, <1>6, <1>7, <1>8, <1>9, <1>10, <1>11, <1>12, <1>13, <1>14, <1>15, <1>16,
            <1>17, <1>18, <1>19
         DEF Next, Program, HandlerStep, Callback

(* A guest that asked for an interrupt at the vertical sync gets one       *)
(* (pccore.c: screenvsync(), screendisp()): VsyncKept of GuestBoard.       *)
THEOREM VsyncKeptHolds == Spec => []VsyncKept
<1>1. Init => Sound(pic, handlers, ei) /\ VsyncKept
  BY SoundInit DEF Init, VsyncKept
<1>2. Sound(pic, handlers, ei) /\ VsyncKept /\ [Next]_vars
      => (Sound(pic, handlers, ei) /\ VsyncKept)'
  BY SoundNext, VsyncNext
<1> QED  BY <1>1, <1>2, PTL DEF Spec

-----------------------------------------------------------------------------
(* Promptness.  Of the event list only the counter of the CPU plays a part. *)
Counted(n) == "rem" \in DOMAIN n

(* Every operation on the list keeps the counter, some set it. *)
LEMMA CountedOps ==
  ASSUME NEW n, Counted(n)
  PROVE  /\ \A x, t : Counted(NeventSet(n, x, t))
         /\ \A x, t : Counted(SetAbsolute(n, x, t)) /\ Counted(SetRelative(n, x, t))
         /\ \A x : Counted(NeventReset(n, x))
         /\ \A cost : Counted(Spend(n, cost)) /\ Spend(n, cost).rem = n.rem - cost
         /\ Counted(NeventForceExit(n)) /\ ~(NeventForceExit(n).rem > 0)
         /\ Counted(NextOpcode(n))
         /\ Counted(RemainAdjust(n)) /\ RemainAdjust(n).rem = 1
         /\ Counted(NeventProgress(n)) /\ Counted(NeventCalled(n))
         /\ \A old, new : Counted(NeventChangeClock(n, old, new))
         /\ Counted(Forgets(n)) /\ Forgets(n).rem = n.rem
         /\ Counted([n EXCEPT !.rem = -1]) /\ [n EXCEPT !.rem = -1].rem = -1
<1>1. \A x, t : Counted(NeventSet(n, x, t))
  <2>1. \A m, t : Counted(m) => Counted(FirstEvent(m, t))
    BY DEF Counted, FirstEvent
  <2>2. \A clock, setevent, level :
          Counted([n EXCEPT !.clock = clock, !.setevent = setevent, !.level = level])
    BY DEF Counted
  <2> QED  BY <2>1, <2>2 DEF NeventSet
<1>2. \A x, t : Counted(SetAbsolute(n, x, t)) /\ Counted(SetRelative(n, x, t))
  BY <1>1 DEF SetAbsolute, SetRelative
<1>3. \A x : Counted(NeventReset(n, x))
  BY DEF Counted, NeventReset
<1>4. \A cost : Counted(Spend(n, cost)) /\ Spend(n, cost).rem = n.rem - cost
  BY DEF Counted, Spend
<1>5. Counted(NeventForceExit(n)) /\ ~(NeventForceExit(n).rem > 0)
  BY DEF Counted, NeventForceExit
<1>6. Counted(NextOpcode(n)) /\ Counted(RemainAdjust(n)) /\ RemainAdjust(n).rem = 1
  BY DEF Counted, NextOpcode, RemainAdjust
<1>7. Counted(NeventProgress(n)) /\ Counted(NeventCalled(n))
  BY DEF Counted, NeventProgress, NeventCalled
<1>8. \A old, new : Counted(NeventChangeClock(n, old, new))
  BY DEF Counted, NeventChangeClock
<1>9. Counted(Forgets(n)) /\ Forgets(n).rem = n.rem
  BY DEF Counted, Forgets
<1>10. Counted([n EXCEPT !.rem = -1]) /\ [n EXCEPT !.rem = -1].rem = -1
  BY DEF Counted
<1> QED  BY <1>1, <1>2, <1>3, <1>4, <1>5, <1>6, <1>7, <1>8, <1>9, <1>10

(* Wherever the loop goes, it keeps the counter. *)
LEMMA CountedNext ==
  ASSUME Counted(nev), [Next]_vars
  PROVE  Counted(nev')
<1>1. ASSUME NEW m, Counted(m), \/ nev' = Forgets(m) \/ Runs(m) \/ RunsOn(m) \/ (\E d : Goes(m, d))
      PROVE  Counted(nev')
  BY <1>1, CountedOps DEF Runs, RunsOn, Goes
<1>2. ASSUME NEW m, Counted(m) PROVE Counted(NeventForceExit(m))
  BY <1>2, CountedOps
<1>3. \A cost : Counted(Spend(nev, cost)) /\ Counted(NeventForceExit(Spend(nev, cost)))
  BY <1>2, CountedOps
<1>4. CASE HostKey \/ HostFrame \/ (\E m \in Multiples : HostSpeed(m))
  <2>1. Counted(KeyboardArmed(nev))
    BY CountedOps DEF KeyboardArmed
  <2>2. \A x, t : Counted(SetRelative(nev, x, t))
    BY CountedOps
  <2>3. \A old, new : Counted(NeventChangeClock(nev, old, new))
    BY CountedOps
  <2>4. CASE HostKey
    BY <2>1, <2>4 DEF HostKey
  <2>5. CASE HostFrame
    BY <2>2, <2>5 DEF HostFrame
  <2>6. CASE \E m \in Multiples : HostSpeed(m)
    BY <2>3, <2>6 DEF HostSpeed
  <2> QED  BY <1>4, <2>4, <2>5, <2>6
<1>5. CASE Irq
  <2>1. Counted(NeventReset(nev, "PICMASK"))
    BY CountedOps
  <2>2. \/ Runs(nev)
        \/ Runs(Spend(IF Taken = SystemTimer THEN NeventReset(nev, "PICMASK") ELSE nev, IntCost))
    BY <1>5 DEF Irq
  <2>3. Counted(Spend(IF Taken = SystemTimer THEN NeventReset(nev, "PICMASK") ELSE nev, IntCost))
    BY <2>1, CountedOps
  <2> QED  BY <1>1, <2>2, <2>3
<1>6. CASE Progress
  <2>1. \E d : Goes(NeventProgress(nev), d)
    BY <1>6 DEF Progress
  <2> QED  BY <1>1, <2>1, CountedOps
<1>7. CASE Systimer
  <2>1. Counted(IF pit.i THEN MaskedTick(nev) ELSE nev)
    BY CountedOps DEF MaskedTick
  <2>2. PICK n, t, d : Counted(n) /\ Goes(NeventCalled(SetRelative(n, "ITIMER", t)), d)
    BY <1>7, <2>1 DEF Systimer
  <2>3. Counted(NeventCalled(SetRelative(n, "ITIMER", t)))
    BY <2>2, CountedOps
  <2> QED  BY <1>1, <2>2, <2>3
<1>8. CASE Picmask \/ KeyboardCallback \/ Screenvsync \/ Screendisp
  <2>1. \/ \E d : Goes(NeventCalled(nev), d)
        \/ \E x, t, d : Goes(NeventCalled(SetRelative(nev, x, t)), d)
    BY <1>8 DEF Picmask, KeyboardCallback, Screenvsync, Screendisp
  <2>2. \A x, t : Counted(NeventCalled(SetRelative(nev, x, t)))
    BY CountedOps
  <2> QED  BY <1>1, <2>1, <2>2, CountedOps
<1>9. CASE \E cost \in Costs : Run(cost)
  BY <1>1, <1>3, <1>9 DEF Run
<1>10. CASE Hlt
  BY <1>1, <1>10, CountedOps DEF Hlt
<1>11. CASE Cli \/ OutVsync \/ InData \/ HandlerRead \/ (\E line \in Device : OutDevice(line))
  BY <1>1, <1>3, <1>11 DEF Cli, OutVsync, InData, HandlerRead, OutDevice
<1>12. CASE Sti
  <2>1. Counted(RemainAdjust(Spend(nev, 1))) /\ Counted(NextOpcode(Spend(nev, 1)))
    BY <1>3, CountedOps
  <2>2. \E m : Counted(m) /\ Runs(m)
    BY <1>12, <2>1 DEF Sti
  <2> QED  BY <1>1, <2>2
<1>13. CASE \/ (\E m \in Masks, c \in Chip : OutMask(c, m[c])) \/ OutIcw \/ HandlerIret
            \/ (\E rotate \in Rotations : HandlerEoi(rotate) \/ HandlerEoiMaster(rotate))
  <2>1. Runs(Spend(nev, 1)) \/ Runs(NeventForceExit(Spend(nev, 1)))
    BY <1>13 DEF OutMask, OutIcw, HandlerIret, HandlerEoi, HandlerEoiMaster
  <2> QED  BY <1>1, <1>3, <2>1
<1>14. CASE \E rate \in Modes : OutTimer(rate)
  <2>1. \E t : RunsOn(SetAbsolute(Spend(nev, 1), "ITIMER", t))
    BY <1>14 DEF OutTimer
  <2>2. \A t : Counted(SetAbsolute(Spend(nev, 1), "ITIMER", t))
    BY <1>3, CountedOps
  <2> QED  BY <1>1, <2>1, <2>2
<1>15. ASSUME NEW m, Counted(m) PROVE Counted(KeyboardArmed(m))
  BY <1>15, CountedOps DEF KeyboardArmed
<1>16. CASE \E r \in Reply, n \in 1 .. 3 : OutCommand([i \in 1 .. n |-> r])
  <2>1. PICK reply : OutCommand(reply)
    BY <1>16
  <2>2. RunsOn(KeyboardArmed(Spend(nev, 1)))
    BY <2>1 DEF OutCommand
  <2> QED  BY <1>1, <1>3, <1>15, <2>2
<1>17. CASE \E held \in BOOLEAN : OutKeyReset(held)
  <2> DEFINE n == NeventReset(Spend(nev, 1), "KEYBOARD")
  <2>1. Counted(n)
    BY <1>3, CountedOps
  <2>2. RunsOn(KeyboardArmed(n)) \/ Runs(n)
    BY <1>17 DEF OutKeyReset
  <2> HIDE DEF n
  <2> QED  BY <1>1, <1>15, <2>1, <2>2
<1>18. CASE UNCHANGED vars
  BY <1>18 DEF vars
<1> QED  BY <1>4, <1>5, <1>6, <1>7, <1>8, <1>9, <1>10, <1>11, <1>12, <1>13, <1>14, <1>16,
            <1>17, <1>18
         DEF Next, Program, HandlerStep, Callback

(* A request that waits while the CPU runs waits for the instruction after *)
(* an STI, or for the event which that has set.                            *)
Waits == ei /\ MasterMay(pic) # {}
PromptStrong == phase = "exec" /\ Waits => prolonged \/ (sti /\ nev.rem = 1)

(* Every step leaves a request waiting for one instruction at most. *)
LEMMA PromptNext ==
  ASSUME Sound(pic, handlers, ei), Counted(nev), PromptStrong, [Next]_vars
  PROVE  PromptStrong'
<1>1. /\ pic \in [Chip -> PicItem] /\ pic["master"] \in PicItem /\ pic["slave"] \in PicItem
      /\ "master" \in Chip /\ "slave" \in Chip
  BY Pending DEF Sound, Wired, Chip
<1>2. CASE phase' # "exec" \/ ~ei'
  BY <1>2 DEF PromptStrong, Waits
(* An instruction that frees no request, or after which the CPU looks. *)
<1>3. ASSUME NEW m, Runs(m), Executes,
             Waits' => Waits \/ ~(m.rem > 0),
             nev.rem = 1 => ~(m.rem > 0)
      PROVE  PromptStrong'
  <2> SUFFICES ASSUME phase' = "exec", Waits' PROVE prolonged'
    BY DEF PromptStrong
  <2>1. m.rem > 0
    BY <1>3 DEF Runs
  <2>2. Waits /\ ~(nev.rem = 1)
    BY <1>3, <2>1
  <2>3. prolonged
    BY <1>3, <2>2 DEF PromptStrong, Executes
  <2> QED  BY <1>3, <2>3 DEF Runs
<1>4. ASSUME NEW m, RunsOn(m), Executes, Waits' => Waits
      PROVE  PromptStrong'
  <2> SUFFICES ASSUME phase' = "exec", Waits' PROVE prolonged'
    BY DEF PromptStrong
  <2>1. prolonged \/ sti
    BY <1>4 DEF PromptStrong, Executes
  <2> QED  BY <1>4, <2>1 DEF RunsOn
<1>5. \A p, q : p["master"] = q["master"] => MasterMay(p) = MasterMay(q)
  BY DEF MasterMay
<1>6. \A irq : MasterMay(ResetIrq(pic, irq)) \subseteq MasterMay(pic)
  <2> TAKE irq
  <2> DEFINE q == ResetIrq(pic, irq)
  <2>1. /\ q["master"].irr = pic["master"].irr \ {irq} /\ q["master"].imr = pic["master"].imr
        /\ q["master"].isr = pic["master"].isr /\ q["master"].pry = pic["master"].pry
    BY <1>1 DEF ResetIrq, PicItem
  <2> HIDE DEF q
  <2>2. \A l : Rank(q["master"], l) = Rank(pic["master"], l)
    BY <2>1 DEF Rank
  <2>3. MasterMay(q) \subseteq MasterMay(pic)
    BY <2>1, <2>2 DEF MasterMay
  <2> QED  BY <2>3 DEF q
<1>7. \A cost : /\ Counted(Spend(nev, cost)) /\ Spend(nev, cost).rem = nev.rem - cost
                /\ ~(NeventForceExit(Spend(nev, cost)).rem > 0)
  BY CountedOps
<1>8. nev.rem = 1 => ~(Spend(nev, 1).rem > 0)
  BY <1>7
<1>9. CASE Irq
  <2>1. CASE (ei => May(pic) = {}) /\ pic' = pic /\ ei' = ei
    BY <2>1 DEF May, PromptStrong, Waits
  <2> QED  BY <1>2, <1>9, <2>1, IrqIsRight
<1>10. CASE HostKey \/ HostFrame \/ (\E m \in Multiples : HostSpeed(m)) \/ Progress \/ Callback
  <2>1. phase' # "exec"
    BY <1>10 DEF HostKey, HostFrame, HostSpeed, Progress, Callback, Goes,
         Systimer, Picmask, KeyboardCallback, Screenvsync, Screendisp
  <2> QED  BY <1>2, <2>1
<1>11. CASE \E cost \in Costs : Run(cost)
  <2>1. PICK cost \in Costs : Run(cost)
    BY <1>11
  <2>2. cost \in Nat \ {0}
    BY BoardAssumption
  <2>3. nev.rem = 1 => ~(Spend(nev, cost).rem > 0)
    BY <1>7, <2>2
  <2>4. Runs(Spend(nev, cost)) /\ Executes /\ (Waits' => Waits)
    BY <2>1 DEF Run, guest, Waits
  <2> QED  BY <1>3, <2>3, <2>4
<1>12. CASE Hlt
  <2>1. [nev EXCEPT !.rem = -1].rem = -1
    BY CountedOps
  <2>2. ~([nev EXCEPT !.rem = -1].rem > 0)
    BY <2>1
  <2>3. phase' # "exec"
    BY <1>12, <2>2 DEF Hlt, Runs
  <2> QED  BY <1>2, <2>3
<1>13. CASE Cli \/ OutIcw
  <2>1. ~ei'
    BY <1>13 DEF Cli, OutIcw, guest
  <2> QED  BY <1>2, <2>1
<1>14. CASE Sti
  <2>1. Executes /\ ~sti /\ sti' = TRUE /\ pic' = pic
    BY <1>14 DEF Sti
  <2>2. CASE ~ei /\ PicExistIntr
    <3>1. Runs(RemainAdjust(Spend(nev, 1)))
      BY <1>14, <2>2 DEF Sti
    <3>2. Counted(RemainAdjust(Spend(nev, 1))) /\ RemainAdjust(Spend(nev, 1)).rem = 1
      BY <1>7, CountedOps
    <3>3. nev'.rem = 1
      BY <3>1, <3>2, CountedOps DEF Runs
    <3> QED  BY <2>1, <3>3 DEF PromptStrong
  <2>3. CASE ~ei /\ ~PicExistIntr
    <3>1. MasterMay(pic) = {}
      BY <1>1, <2>3 DEF PicExistIntr, MasterMay
    <3> QED  BY <2>1, <3>1 DEF PromptStrong, Waits
  <2>4. CASE ei
    <3> SUFFICES ASSUME phase' = "exec", Waits' PROVE prolonged'
      BY DEF PromptStrong
    <3>1. prolonged
      BY <2>1, <2>4 DEF PromptStrong, Waits, Executes
    <3>2. \E m : Runs(m)
      BY <1>14 DEF Sti
    <3> QED  BY <3>1, <3>2 DEF Runs
  <2> QED  BY <2>2, <2>3, <2>4
<1>15. CASE OutVsync
  <2>1. Runs(Spend(nev, 1)) /\ Executes /\ (Waits' => Waits)
    BY <1>15 DEF OutVsync, guest, Waits
  <2> QED  BY <1>3, <1>8, <2>1
<1>16. CASE InData \/ HandlerRead
  <2>1. Runs(Spend(nev, 1)) /\ Executes /\ ei' = ei /\ pic' = ResetIrq(pic, Keyboard)
    BY <1>16 DEF InData, HandlerRead, ReadData, guest, Handles
  <2>2. Waits' => Waits
    BY <1>6, <2>1 DEF Waits
  <2> QED  BY <1>3, <1>8, <2>1, <2>2
<1>17. CASE \E rate \in Modes : OutTimer(rate)
  <2>1. /\ Executes /\ ei' = ei /\ pic' = ResetIrq(pic, SystemTimer)
        /\ \E m : RunsOn(m)
    BY <1>17 DEF OutTimer, guest
  <2>2. Waits' => Waits
    BY <1>6, <2>1 DEF Waits
  <2> QED  BY <1>4, <2>1, <2>2
<1>18. CASE \E line \in Device : OutDevice(line)
  <2>1. PICK line \in Device : OutDevice(line)
    BY <1>18
  <2>2. line \in Lines
    BY BoardAssumption
  <2>3. /\ Executes /\ ei' = ei /\ pic' = SetIrq(pic, Levels + line)
        /\ Runs(Spend(nev, 1))
    BY <2>1 DEF OutDevice, guest
  <2>4. pic'["master"] = pic["master"]
    BY <1>1, <2>2, <2>3, Numbers DEF SetIrq
  <2>5. Waits' => Waits
    BY <1>5, <2>3, <2>4 DEF Waits
  <2> QED  BY <1>3, <1>8, <2>3, <2>5
<1>19. CASE \E r \in Reply, n \in 1 .. 3 : OutCommand([i \in 1 .. n |-> r])
  <2>1. PICK reply : OutCommand(reply)
    BY <1>19
  <2>2. Executes /\ (Waits' => Waits) /\ RunsOn(KeyboardArmed(Spend(nev, 1)))
    BY <2>1 DEF OutCommand, guest, Waits
  <2> QED  BY <1>4, <2>2
<1>20. CASE \E held \in BOOLEAN : OutKeyReset(held)
  <2> DEFINE n == NeventReset(Spend(nev, 1), "KEYBOARD")
  <2>1. n.rem = Spend(nev, 1).rem
    BY <1>7 DEF NeventReset, Counted
  <2>2. Executes /\ (Waits' => Waits) /\ (RunsOn(KeyboardArmed(n)) \/ Runs(n))
    BY <1>20 DEF OutKeyReset, guest, Waits
  <2> HIDE DEF n
  <2> QED  BY <1>3, <1>4, <1>8, <2>1, <2>2
<1>21. CASE \E m \in Masks, c \in Chip : OutMask(c, m[c])
  <2>1. PICK m \in Masks, c \in Chip : OutMask(c, m[c])
    BY <1>21
  <2>2. /\ Executes /\ ei' = ei /\ pic' = SetMask(pic, c, m[c])
        /\ Runs(IF ei /\ Unmasks(pic, c, m[c]) THEN NeventForceExit(Spend(nev, 1))
                ELSE Spend(nev, 1))
    BY <2>1 DEF OutMask, guest
  <2>3. CASE ei /\ Unmasks(pic, c, m[c])
    <3>1. phase' # "exec"
      BY <1>7, <2>2, <2>3 DEF Runs
    <3> QED  BY <1>2, <3>1
  <2>4. CASE ~(ei /\ Unmasks(pic, c, m[c]))
    <3>1. Runs(Spend(nev, 1))
      BY <2>2, <2>4
    <3>2. /\ pic'["master"].irr = pic["master"].irr
          /\ pic'["master"].isr = pic["master"].isr /\ pic'["master"].pry = pic["master"].pry
          /\ pic'["master"].imr = IF c = "master" THEN m[c] ELSE pic["master"].imr
      BY <1>1, <2>2 DEF SetMask, PicItem
    <3>3. \A l : Rank(pic'["master"], l) = Rank(pic["master"], l)
      BY <3>2 DEF Rank
    <3>4. ASSUME Waits' PROVE Waits
      <4>1. ei /\ ~Unmasks(pic, c, m[c])
        BY <2>2, <2>4, <3>4 DEF Waits
      <4>2. PICK l \in MasterMay(pic)' : TRUE
        BY <3>4 DEF Waits
      <4>3. l \in MasterMay(pic)
        BY <3>2, <3>3, <4>1, <4>2 DEF MasterMay, Unmasks
      <4> QED  BY <4>1, <4>3 DEF Waits
    <3> QED  BY <1>3, <1>8, <2>2, <3>1, <3>4
  <2> QED  BY <2>3, <2>4
<1>22. CASE \E rotate \in Rotations : HandlerEoi(rotate)
  <2>1. PICK rotate \in Rotations : HandlerEoi(rotate)
    BY <1>22
  <2> DEFINE c == IF Handler.irq >= Levels THEN "slave" ELSE "master"
  <2>2. /\ Executes /\ ei' = ei /\ pic' = EndOfInterrupt(pic, c, rotate)
        /\ Runs(IF pic[c].isr = {} THEN Spend(nev, 1) ELSE NeventForceExit(Spend(nev, 1)))
    BY <2>1 DEF HandlerEoi, Handles
  <2> HIDE DEF c
  <2>3. CASE pic[c].isr = {}
    <3>1. pic' = pic
      BY <2>2, <2>3 DEF EndOfInterrupt
    <3> QED  BY <1>3, <1>8, <2>2, <2>3, <3>1 DEF Waits
  <2>4. CASE pic[c].isr # {}
    <3>1. phase' # "exec"
      BY <1>7, <2>2, <2>4 DEF Runs
    <3> QED  BY <1>2, <3>1
  <2> QED  BY <2>3, <2>4
<1>23. CASE \E rotate \in Rotations : HandlerEoiMaster(rotate)
  <2>1. PICK rotate \in Rotations : HandlerEoiMaster(rotate)
    BY <1>23
  <2>2. /\ Executes /\ ei' = ei /\ pic' = EndOfInterrupt(pic, "master", rotate)
        /\ Runs(IF pic["master"].isr = {} THEN Spend(nev, 1) ELSE NeventForceExit(Spend(nev, 1)))
    BY <2>1 DEF HandlerEoiMaster, Handles
  <2>3. CASE pic["master"].isr = {}
    <3>1. pic' = pic
      BY <2>2, <2>3 DEF EndOfInterrupt
    <3> QED  BY <1>3, <1>8, <2>2, <2>3, <3>1 DEF Waits
  <2>4. CASE pic["master"].isr # {}
    <3>1. phase' # "exec"
      BY <1>7, <2>2, <2>4 DEF Runs
    <3> QED  BY <1>2, <3>1
  <2> QED  BY <2>3, <2>4
<1>24. CASE HandlerIret
  <2>1. /\ Executes /\ pic' = pic
        /\ Runs(IF PicExistIntr THEN NeventForceExit(Spend(nev, 1)) ELSE Spend(nev, 1))
    BY <1>24 DEF HandlerIret, Handles
  <2>2. CASE PicExistIntr
    <3>1. phase' # "exec"
      BY <1>7, <2>1, <2>2 DEF Runs
    <3> QED  BY <1>2, <3>1
  <2>3. CASE ~PicExistIntr
    <3>1. MasterMay(pic) = {}
      BY <1>1, <2>3 DEF PicExistIntr, MasterMay
    <3> QED  BY <2>1, <3>1 DEF PromptStrong, Waits
  <2> QED  BY <2>2, <2>3
<1>25. CASE UNCHANGED vars
  BY <1>25 DEF vars, guest, PromptStrong, Waits
<1> QED  BY <1>9, <1>10, <1>11, <1>12, <1>13, <1>14, <1>15, <1>16, <1>17, <1>18, <1>19, <1>20,
            <1>21, <1>22, <1>23, <1>24, <1>25
         DEF Next, Program, HandlerStep

(* A request of the master is not kept waiting by an STI, a mask, an end   *)
(* of interrupt or an IRET (i286c_mn.c: _sti, _iret; pic.c: pic_o00(),     *)
(* pic_o02()): Prompt of GuestBoard.                                       *)
THEOREM PromptHolds == Spec => []Prompt
<1>1. Init => Sound(pic, handlers, ei) /\ Counted(nev) /\ PromptStrong
  <2> SUFFICES ASSUME Init PROVE Sound(pic, handlers, ei) /\ Counted(nev) /\ PromptStrong
    OBVIOUS
  <2>1. Counted(NeventAllReset)
    BY DEF Counted, NeventAllReset
  <2>2. Counted(nev)
    BY <2>1, CountedOps DEF Init
  <2> QED  BY <2>2, SoundInit DEF Init, PromptStrong
<1>2. Sound(pic, handlers, ei) /\ Counted(nev) /\ PromptStrong /\ [Next]_vars
      => (Sound(pic, handlers, ei) /\ Counted(nev) /\ PromptStrong)'
  BY SoundNext, CountedNext, PromptNext
<1>3. PromptStrong => Prompt
  BY DEF PromptStrong, Waits, Prompt
<1> QED  BY <1>1, <1>2, <1>3, PTL DEF Spec
-----------------------------------------------------------------------------
(* Keys.  What the guest has not read yet: the data register, unless it    *)
(* holds a reply, and the buffer.                                          *)
Unread(k) == (IF k.ready /\ k.data \in Byte THEN <<k.data>> ELSE <<>>) \o k.buf

(* The bytes of s are numbered from h on, and n comes next. *)
Numbered(s, h, n) ==
  /\ \A i \in 1 .. Len(s) : s[i] = (h + i - 1) % Ids
  /\ n = (h + Len(s)) % Ids

KeyItem ==
  [ready : BOOLEAN, over : BOOLEAN, data : Byte \cup Reply, ctr : Seq(Reply), buf : Seq(Byte)]

InOrder(k, h, n) ==
  /\ k \in KeyItem /\ Len(k.buf) <= KbBuf
  /\ h \in Byte /\ n \in Byte
  /\ Numbered(Unread(k), h, n)

(* A number divided by m: it is so many times m and a rest, in one way only. *)
LEMMA Division ==
  ASSUME NEW m \in Nat \ {0}, NEW x \in Nat
  PROVE  x = m * (x \div m) + (x % m) /\ x % m \in 0 .. m - 1 /\ x \div m \in Nat
OBVIOUS

(* ... of two ways, neither has the smaller quotient. *)
LEMMA OneQuotient ==
  ASSUME NEW m \in Nat \ {0}, NEW q \in Nat, NEW r \in 0 .. m - 1,
         NEW p \in Nat, NEW s \in 0 .. m - 1, m * q + r = m * p + s
  PROVE  ~(q < p)
<1> SUFFICES ASSUME q < p PROVE FALSE
  OBVIOUS
<1>1. PICK d \in Nat : p = q + 1 + d
  <2>1. p - q - 1 \in Nat /\ p = q + 1 + (p - q - 1)
    OBVIOUS
  <2> QED  BY <2>1
<1>2. m * p = m * q + m + m * d
  BY <1>1
<1>3. m * q \in Nat /\ m * d \in Nat
  OBVIOUS
<1> QED  BY <1>2, <1>3

(* Once more m leaves the rest as it is. *)
LEMMA ModAdd ==
  ASSUME NEW m \in Nat \ {0}, NEW x \in Nat
  PROVE  (x + m) % m = x % m
<1> DEFINE q == x \div m
           r == x % m
           p == (x + m) \div m
           s == (x + m) % m
<1>1. x = m * q + r /\ r \in 0 .. m - 1 /\ q \in Nat
  BY Division
<1>2. x + m = m * p + s /\ s \in 0 .. m - 1 /\ p \in Nat
  <2>1. x + m \in Nat
    OBVIOUS
  <2> HIDE DEF p, s
  <2> QED  BY <2>1, Division DEF p, s
<1> HIDE DEF q, r, p, s
<1>3. m * (q + 1) = m * q + m /\ m * q \in Nat /\ m * p \in Nat
  BY <1>1, <1>2
<1>4. m * (q + 1) + r = m * p + s
  BY <1>1, <1>2, <1>3
<1>5. q + 1 = p
  BY <1>1, <1>2, <1>4, OneQuotient
<1>6. s = r
  BY <1>1, <1>2, <1>4, <1>5
<1> QED  BY <1>6 DEF r, s

(* Sums modulo a number. *)
LEMMA ModSum ==
  ASSUME NEW m \in Nat \ {0}, NEW a \in Nat, a < 2 * m, NEW b \in Nat
  PROVE  a % m \in 0 .. m - 1 /\ ((a % m) + b) % m = (a + b) % m
<1>1. a % m = IF a < m THEN a ELSE a - m
  <2>1. CASE a < m
    BY <2>1, Mod
  <2>2. CASE a >= m
    <3>1. a - m \in 1 - m .. m - 1 /\ a - m >= 0
      BY <2>2
    <3>2. (a - m) % m = a - m
      BY <3>1, Mod
    <3>4. a - m \in Nat /\ (a - m) + m = a
      BY <2>2
    <3>5. a % m = (a - m) % m
      BY <3>4, ModAdd
    <3> QED  BY <2>2, <3>2, <3>5
  <2> QED  BY <2>1, <2>2
<1>2. CASE a < m
  BY <1>1, <1>2
<1>3. CASE a >= m
  <2>1. a - m \in Nat /\ (a - m) + b \in Nat /\ ((a - m) + b) + m = a + b
    BY <1>3
  <2>3. (((a - m) + b) + m) % m = ((a - m) + b) % m
    BY <2>1, ModAdd
  <2> QED  BY <1>1, <1>3, <2>1, <2>3
<1> QED  BY <1>2, <1>3

(* The numbers of bytes. *)
LEMMA IdNumbers ==
  /\ Ids \in Nat \ {0} /\ KbBuf + 1 < Ids /\ KbBuf \in Nat \ {0} /\ Byte = 0 .. Ids - 1
  /\ Reply \cap Byte = {}
BY KeybrdAssumption, BoardAssumption DEF Ids

(* What is unread is a sequence of bytes, one more than the buffer at most. *)
LEMMA UnreadIs ==
  ASSUME NEW k \in KeyItem, Len(k.buf) <= KbBuf
  PROVE  /\ Unread(k) \in Seq(Byte) /\ Len(Unread(k)) < Ids
         /\ ~(k.ready /\ k.data \in Byte) => Unread(k) = k.buf
         /\ k.ready /\ k.data \in Byte => Unread(k) = <<k.data>> \o k.buf
<1>1. k.buf \in Seq(Byte) /\ Len(k.buf) \in Nat
  BY DEF KeyItem
<1>2. CASE k.ready /\ k.data \in Byte
  <2>1. <<k.data>> \in Seq(Byte) /\ Len(<<k.data>>) = 1
    BY <1>2
  <2>2. <<k.data>> \o k.buf \in Seq(Byte) /\ Len(<<k.data>> \o k.buf) = 1 + Len(k.buf)
    BY <1>1, <2>1
  <2> QED  BY <1>1, <1>2, <2>2, IdNumbers DEF Unread
<1>3. CASE ~(k.ready /\ k.data \in Byte)
  <2>1. <<>> \o k.buf = k.buf
    BY <1>1
  <2>2. Unread(k) = k.buf
    BY <1>3, <2>1 DEF Unread
  <2> QED  BY <1>1, <1>3, <2>2, IdNumbers
<1> QED  BY <1>2, <1>3

(* One byte more. *)
LEMMA NumberedAppend ==
  ASSUME NEW s \in Seq(Byte), NEW h \in Byte, NEW n \in Byte, Numbered(s, h, n), Len(s) < Ids
  PROVE  Numbered(Append(s, n), h, (n + 1) % Ids) /\ (n + 1) % Ids \in Byte
<1> DEFINE t == Append(s, n)
<1>1. Len(t) = Len(s) + 1 /\ t[Len(s) + 1] = n /\ \A i \in 1 .. Len(s) : t[i] = s[i]
  OBVIOUS
<1>2. h \in Nat /\ Len(s) \in Nat /\ h + Len(s) < 2 * Ids /\ Ids \in Nat \ {0} /\ h + Len(s) \in Nat
  BY IdNumbers
<1>3. n = (h + Len(s)) % Ids /\ \A i \in 1 .. Len(s) : s[i] = (h + i - 1) % Ids
  BY DEF Numbered
<1>4. (n + 1) % Ids = ((h + Len(s)) + 1) % Ids
  BY <1>2, <1>3, ModSum
<1>5. (n + 1) % Ids \in Byte
  <2>1. n \in Nat /\ n + 1 \in Nat /\ n + 1 < 2 * Ids
    BY IdNumbers
  <2>2. (n + 1) % Ids \in 0 .. Ids - 1
    BY <1>2, <2>1, ModSum
  <2> QED  BY <2>2, IdNumbers
<1> HIDE DEF t
<1>6. ASSUME NEW i \in 1 .. Len(t) PROVE t[i] = (h + i - 1) % Ids
  <2>1. CASE i \in 1 .. Len(s)
    BY <1>1, <1>3, <2>1
  <2>2. CASE i = Len(s) + 1
    <3>1. h + i - 1 = h + Len(s)
      BY <1>2, <2>2
    <3> QED  BY <1>1, <1>3, <2>2, <3>1
  <2> QED  BY <1>1, <1>2, <1>6, <2>1, <2>2
<1>7. h + Len(t) = (h + Len(s)) + 1
  BY <1>1, <1>2
<1>8. (n + 1) % Ids = (h + Len(t)) % Ids
  BY <1>4, <1>7
<1> QED  BY <1>5, <1>6, <1>8 DEF Numbered, t

(* One byte less. *)
LEMMA NumberedTail ==
  ASSUME NEW b \in Byte, NEW s \in Seq(Byte), NEW h \in Byte, NEW n,
         Numbered(<<b>> \o s, h, n), Len(s) < Ids
  PROVE  Numbered(s, (h + 1) % Ids, n) /\ (h + 1) % Ids \in Byte
<1> DEFINE t == <<b>> \o s
           g == (h + 1) % Ids
<1>1. Len(t) = Len(s) + 1 /\ Len(s) \in Nat /\ \A i \in 1 .. Len(s) : t[i + 1] = s[i]
  OBVIOUS
<1>2. /\ \A i \in 1 .. Len(t) : t[i] = (h + i - 1) % Ids
      /\ n = (h + Len(t)) % Ids
  BY DEF Numbered
<1>3. Ids \in Nat \ {0} /\ h \in Nat /\ h + 1 \in Nat /\ h + 1 < 2 * Ids
  BY IdNumbers
<1>4. g \in 0 .. Ids - 1 /\ \A i \in Nat : (g + i) % Ids = ((h + 1) + i) % Ids
  BY <1>3, ModSum
<1> HIDE DEF t, g
<1>5. ASSUME NEW i \in 1 .. Len(s) PROVE s[i] = (g + i - 1) % Ids
  <2>1. i \in Nat /\ i - 1 \in Nat /\ i + 1 \in 1 .. Len(t)
    BY <1>1, <1>5
  <2>2. s[i] = (h + (i + 1) - 1) % Ids
    BY <1>1, <1>2, <1>5, <2>1
  <2>3. h + (i + 1) - 1 = (h + 1) + (i - 1) /\ g + i - 1 = g + (i - 1)
    BY <1>3, <1>4, <2>1
  <2> QED  BY <1>4, <2>1, <2>2, <2>3
<1>6. h + Len(t) = (h + 1) + Len(s)
  BY <1>1, <1>3
<1>7. n = (g + Len(s)) % Ids
  BY <1>1, <1>2, <1>4, <1>6
<1>8. g \in Byte
  BY <1>4, IdNumbers
<1> QED  BY <1>5, <1>7, <1>8 DEF Numbered, g

(* keyboard_send() puts the next byte last, or drops it. *)
LEMMA SendInOrder ==
  ASSUME NEW k, NEW h, NEW n, InOrder(k, h, n)
  PROVE  /\ KeyboardAccepts(k) => InOrder(KeyboardSend(k, n), h, (n + 1) % Ids)
         /\ ~KeyboardAccepts(k) => InOrder(KeyboardSend(k, n), h, n)
<1> DEFINE q == KeyboardSend(k, n)
<1>1. /\ k \in KeyItem /\ Len(k.buf) <= KbBuf /\ h \in Byte /\ n \in Byte
      /\ Numbered(Unread(k), h, n)
  BY DEF InOrder
<1>2. k.buf \in Seq(Byte) /\ Len(k.buf) \in Nat
  BY <1>1 DEF KeyItem
<1>3. CASE KeyboardAccepts(k)
  <2>1. q = [k EXCEPT !.buf = Append(k.buf, n)] /\ Len(k.buf) < KbBuf
    BY <1>3 DEF KeyboardSend, KeyboardAccepts
  <2>2. Append(k.buf, n) \in Seq(Byte) /\ Len(Append(k.buf, n)) = Len(k.buf) + 1
    BY <1>1, <1>2
  <2>3. /\ q \in KeyItem /\ q.ready = k.ready /\ q.data = k.data /\ q.buf = Append(k.buf, n)
    BY <1>1, <2>1, <2>2 DEF KeyItem
  <2>4. Len(q.buf) <= KbBuf
    BY <1>2, <2>1, <2>2, <2>3, IdNumbers
  <2>5. Unread(q) = Append(Unread(k), n)
    <3>1. CASE k.ready /\ k.data \in Byte
      <4>1. Unread(q) = <<k.data>> \o Append(k.buf, n) /\ Unread(k) = <<k.data>> \o k.buf
        BY <3>1, <2>3 DEF Unread
      <4>2. <<k.data>> \o Append(k.buf, n) = Append(<<k.data>> \o k.buf, n)
        BY <1>1, <1>2, <3>1
      <4> QED  BY <4>1, <4>2
    <3>2. CASE ~(k.ready /\ k.data \in Byte)
      BY <1>1, <2>3, <2>4, <3>2, UnreadIs
    <3> QED  BY <3>1, <3>2
  <2>6. Numbered(Unread(q), h, (n + 1) % Ids) /\ (n + 1) % Ids \in Byte
    BY <1>1, <2>5, UnreadIs, NumberedAppend
  <2> QED  BY <1>1, <1>3, <2>3, <2>4, <2>6 DEF InOrder
<1>4. CASE ~KeyboardAccepts(k)
  <2>1. q = [k EXCEPT !.over = TRUE]
    BY <1>4 DEF KeyboardSend
  <2>2. q \in KeyItem /\ q.ready = k.ready /\ q.data = k.data /\ q.buf = k.buf
    BY <1>1, <2>1 DEF KeyItem
  <2>3. Unread(q) = Unread(k)
    BY <2>2 DEF Unread
  <2> QED  BY <1>1, <1>4, <2>2, <2>3 DEF InOrder
<1> QED  BY <1>3, <1>4

(* keyboard_callback() moves a byte from the buffer to the register. *)
LEMMA ReceiveInOrder ==
  ASSUME NEW k, NEW h, NEW n, InOrder(k, h, n), ~KeyboardIdle(k)
  PROVE  InOrder(Receive(k), h, n)
<1>1. /\ k \in KeyItem /\ Len(k.buf) <= KbBuf /\ h \in Byte /\ n \in Byte
      /\ Numbered(Unread(k), h, n)
  BY DEF InOrder
<1>2. k.buf \in Seq(Byte) /\ k.ctr \in Seq(Reply) /\ Len(k.buf) \in Nat
  BY <1>1 DEF KeyItem
<1>3. CASE k.ready
  BY <1>3 DEF Receive
<1>4. CASE ~k.ready /\ k.ctr # <<>>
  <2> DEFINE q == [k EXCEPT !.ready = TRUE, !.data = Head(k.ctr), !.ctr = Tail(k.ctr)]
  <2>1. Head(k.ctr) \in Reply /\ Tail(k.ctr) \in Seq(Reply)
    BY <1>2, <1>4
  <2>2. q \in KeyItem /\ q.data = Head(k.ctr) /\ q.buf = k.buf
    BY <1>1, <2>1 DEF KeyItem
  <2>3. q.data \notin Byte
    BY <2>1, <2>2, IdNumbers
  <2>4. Receive(k) = q
    BY <1>4 DEF Receive
  <2> HIDE DEF q
  <2>5. Unread(q) = k.buf /\ Unread(k) = k.buf
    BY <1>1, <1>4, <2>2, <2>3, UnreadIs
  <2> QED  BY <1>1, <2>2, <2>4, <2>5 DEF InOrder
<1>5. CASE ~k.ready /\ k.ctr = <<>>
  <2> DEFINE q == [k EXCEPT !.ready = TRUE, !.data = Head(k.buf), !.buf = Tail(k.buf)]
  <2>1. k.buf # <<>>
    BY <1>5 DEF KeyboardIdle
  <2>2. /\ Head(k.buf) \in Byte /\ Tail(k.buf) \in Seq(Byte) /\ Len(Tail(k.buf)) = Len(k.buf) - 1
        /\ <<Head(k.buf)>> \o Tail(k.buf) = k.buf
    BY <1>2, <2>1
  <2>3. /\ q \in KeyItem /\ q.data = Head(k.buf) /\ q.buf = Tail(k.buf) /\ q.ready = TRUE
    BY <1>1, <2>2 DEF KeyItem
  <2>4. Len(q.buf) <= KbBuf
    BY <1>1, <1>2, <2>2, <2>3, IdNumbers
  <2>5. Receive(k) = q
    BY <1>5 DEF Receive
  <2> HIDE DEF q
  <2>6. Unread(q) = k.buf /\ Unread(k) = k.buf
    BY <1>1, <1>5, <2>2, <2>3, <2>4, UnreadIs
  <2> QED  BY <1>1, <2>3, <2>4, <2>5, <2>6 DEF InOrder
<1> QED  BY <1>3, <1>4, <1>5

(* keyboard_i41() gives the guest the first byte, or a reply. *)
LEMMA ReadInOrder ==
  ASSUME NEW k, NEW h, NEW n, InOrder(k, h, n)
  PROVE  InOrder(DataRead(k), IF k.ready /\ k.data \in Byte THEN (h + 1) % Ids ELSE h, n)
<1> DEFINE q == DataRead(k)
<1>1. /\ k \in KeyItem /\ Len(k.buf) <= KbBuf /\ h \in Byte /\ n \in Byte
      /\ Numbered(Unread(k), h, n)
  BY DEF InOrder
<1>2. q \in KeyItem /\ q.ready = FALSE /\ q.buf = k.buf /\ k.buf \in Seq(Byte) /\ Len(k.buf) \in Nat
  <2>1. q = [k EXCEPT !.ready = FALSE]
    BY DEF DataRead
  <2> HIDE DEF q
  <2>2. q \in KeyItem /\ q.ready = FALSE /\ q.buf = k.buf
    BY <1>1, <2>1 DEF KeyItem
  <2>3. k.buf \in Seq(Byte)
    BY <1>1 DEF KeyItem
  <2> QED  BY <2>2, <2>3
<1> HIDE DEF q
<1>3. Unread(q) = k.buf
  BY <1>1, <1>2, UnreadIs
<1>4. CASE k.ready /\ k.data \in Byte
  <2>1. Unread(k) = <<k.data>> \o k.buf
    BY <1>1, <1>4, UnreadIs
  <2>2. Len(k.buf) < Ids
    BY <1>1, <1>2, IdNumbers
  <2>3. Numbered(k.buf, (h + 1) % Ids, n) /\ (h + 1) % Ids \in Byte
    BY <1>1, <1>2, <1>4, <2>1, <2>2, NumberedTail
  <2> QED  BY <1>1, <1>2, <1>3, <1>4, <2>3 DEF InOrder, q
<1>5. CASE ~(k.ready /\ k.data \in Byte)
  <2>1. Unread(k) = k.buf
    BY <1>1, <1>5, UnreadIs
  <2> QED  BY <1>1, <1>2, <1>3, <1>5, <2>1 DEF InOrder, q
<1> QED  BY <1>4, <1>5

(* A reply to a command touches no byte of a key. *)
LEMMA CtrlInOrder ==
  ASSUME NEW k, NEW h, NEW n, InOrder(k, h, n), NEW reply \in Seq(Reply)
  PROVE  InOrder(KeyboardCtrl(k, reply), h, n)
<1> DEFINE m == Min({KbCtr, Len(reply)})
           q == [k EXCEPT !.ctr = SubSeq(reply, 1, m)]
<1>1. /\ k \in KeyItem /\ Len(k.buf) <= KbBuf /\ h \in Byte /\ n \in Byte
      /\ Numbered(Unread(k), h, n)
  BY DEF InOrder
<1>2. m \in Nat /\ m <= Len(reply)
  <2>1. KbCtr \in Nat /\ Len(reply) \in Nat
    BY KeybrdAssumption
  <2>2. \E x \in {KbCtr, Len(reply)} : \A y \in {KbCtr, Len(reply)} : x <= y
    BY <2>1
  <2>3. m \in {KbCtr, Len(reply)} /\ \A y \in {KbCtr, Len(reply)} : m <= y
    BY <2>2 DEF Min
  <2> QED  BY <2>1, <2>3
<1> HIDE DEF m
<1>3. SubSeq(reply, 1, m) \in Seq(Reply)
  <2>1. \A i \in 1 .. m : reply[i] \in Reply
    BY <1>2
  <2> QED  BY <1>2, <2>1, SubSeqProperties
<1>4. q \in KeyItem /\ q.ready = k.ready /\ q.data = k.data /\ q.buf = k.buf
  BY <1>1, <1>3 DEF KeyItem
<1>5. KeyboardCtrl(k, reply) = q
  BY DEF KeyboardCtrl, m
<1> HIDE DEF q
<1>6. Unread(q) = Unread(k)
  BY <1>4 DEF Unread
<1> QED  BY <1>1, <1>4, <1>5, <1>6 DEF InOrder

(* The reset line forgets all bytes: the next one is the first to be read. *)
LEMMA ResetInOrder ==
  ASSUME NEW k, NEW h, NEW n, InOrder(k, h, n)
  PROVE  /\ InOrder(KeyboardResetSignal(k), n, n)
         /\ KeyboardAccepts(KeyboardResetSignal(k))
<1> DEFINE q == KeyboardResetSignal(k)
<1>1. k \in KeyItem /\ n \in Byte
  BY DEF InOrder
<1>2. q \in KeyItem /\ q.ready = FALSE /\ q.buf = <<>>
  <2>1. <<>> \in Seq(Reply) /\ <<>> \in Seq(Byte)
    OBVIOUS
  <2>2. q = [k EXCEPT !.ready = FALSE, !.over = FALSE, !.ctr = <<>>, !.buf = <<>>]
    BY DEF KeyboardResetSignal
  <2> HIDE DEF q
  <2> QED  BY <1>1, <2>1, <2>2 DEF KeyItem
<1> HIDE DEF q
<1>3. Len(q.buf) = 0 /\ Len(q.buf) <= KbBuf /\ Len(q.buf) < KbBuf
  BY <1>2, IdNumbers
<1>4. Unread(q) = <<>>
  BY <1>2, <1>3, UnreadIs
<1>5. n = (n + 0) % Ids
  <2>1. Ids \in Nat \ {0} /\ n \in 0 .. Ids - 1
    BY <1>1, IdNumbers
  <2>2. n \in 1 - Ids .. Ids - 1 /\ n >= 0 /\ n + 0 = n
    BY <2>1
  <2> QED  BY <2>1, <2>2, Mod
<1>6. Numbered(Unread(q), n, n)
  BY <1>4, <1>5 DEF Numbered
<1> QED  BY <1>1, <1>2, <1>3, <1>6 DEF InOrder, KeyboardAccepts, q

(* Nothing is sent or read when the machine starts. *)
LEMMA InOrderInit == Init => InOrder(kbd, heard, next)
<1> SUFFICES ASSUME Init PROVE InOrder(kbd, heard, next)
  OBVIOUS
<1> DEFINE r == CHOOSE r \in Reply : TRUE
<1>1. r \in Reply
  BY BoardAssumption
<1> HIDE DEF r
<1>2. kbd = KeyboardReset(r) /\ next = 0 /\ heard = 0
  BY DEF Init, r
<1>3. kbd \in KeyItem /\ kbd.ready = FALSE /\ kbd.buf = <<>>
  BY <1>1, <1>2 DEF KeyboardReset, KeyItem
<1>4. 0 \in Byte /\ Len(kbd.buf) <= KbBuf /\ Ids \in Nat \ {0}
  BY <1>3, IdNumbers
<1>5. Unread(kbd) = <<>>
  BY <1>3, <1>4, UnreadIs
<1>6. 0 = (0 + 0) % Ids
  BY <1>4, Mod
<1>7. Numbered(Unread(kbd), 0, 0)
  BY <1>5, <1>6 DEF Numbered
<1> QED  BY <1>2, <1>3, <1>4, <1>7 DEF InOrder

(* The bytes of keys pass through the interface in order. *)
LEMMA InOrderNext ==
  ASSUME InOrder(kbd, heard, next), [Next]_vars
  PROVE  InOrder(kbd, heard, next)'
<1>1. CASE kbd' = kbd /\ heard' = heard /\ next' = next
  BY <1>1 DEF InOrder
<1>2. CASE HostKey
  <2>1. /\ kbd' = KeyboardSend(kbd, next) /\ heard' = heard
        /\ next' = IF KeyboardAccepts(kbd) THEN (next + 1) % Ids ELSE next
    BY <1>2 DEF HostKey
  <2>2. InOrder(kbd', heard', next')
    BY <2>1, SendInOrder
  <2> QED  BY <2>2 DEF InOrder
<1>3. CASE KeyboardCallback
  <2>1. /\ heard' = heard /\ next' = next
        /\ kbd' = kbd \/ (kbd' = Receive(kbd) /\ ~KeyboardIdle(kbd))
    BY <1>3 DEF KeyboardCallback
  <2>2. InOrder(kbd', heard', next')
    BY <2>1, ReceiveInOrder
  <2> QED  BY <2>2 DEF InOrder
<1>4. CASE InData \/ HandlerRead
  <2>1. /\ kbd' = DataRead(kbd) /\ next' = next
        /\ heard' = IF kbd.ready /\ kbd.data \in Byte THEN (heard + 1) % Ids ELSE heard
    BY <1>4 DEF InData, HandlerRead, ReadData
  <2>2. InOrder(kbd', heard', next')
    BY <2>1, ReadInOrder
  <2> QED  BY <2>2 DEF InOrder
<1>5. CASE \E r \in Reply, n \in 1 .. 3 : OutCommand([i \in 1 .. n |-> r])
  <2>1. \A r \in Reply, n \in 1 .. 3 : [i \in 1 .. n |-> r] \in Seq(Reply)
    OBVIOUS
  <2>2. PICK reply \in Seq(Reply) : OutCommand(reply)
    BY <1>5, <2>1
  <2>3. kbd' = KeyboardCtrl(kbd, reply) /\ heard' = heard /\ next' = next
    BY <2>2 DEF OutCommand
  <2>4. InOrder(kbd', heard', next')
    BY <2>3, CtrlInOrder
  <2> QED  BY <2>4 DEF InOrder
<1>6. CASE \E held \in BOOLEAN : OutKeyReset(held)
  <2> DEFINE k == KeyboardResetSignal(kbd)
  <2>1. /\ heard' = next
        /\ \/ kbd' = KeyboardSend(k, next) /\ next' = (next + 1) % Ids
           \/ kbd' = k /\ next' = next
    BY <1>6 DEF OutKeyReset
  <2>2. InOrder(k, next, next) /\ KeyboardAccepts(k)
    BY ResetInOrder
  <2> HIDE DEF k
  <2>3. InOrder(kbd', heard', next')
    BY <2>1, <2>2, SendInOrder
  <2> QED  BY <2>3 DEF InOrder
<1>7. CASE HostFrame \/ (\E m \in Multiples : HostSpeed(m)) \/ Irq \/ Progress
  BY <1>1, <1>7 DEF HostFrame, HostSpeed, Irq, Progress, history
<1>8. CASE Systimer \/ Picmask \/ Screenvsync \/ Screendisp
  BY <1>1, <1>8 DEF Systimer, Picmask, Screenvsync, Screendisp, history
<1>9. CASE (\E cost \in Costs : Run(cost)) \/ Hlt \/ Cli \/ Sti \/ OutIcw \/ OutVsync
  BY <1>1, <1>9 DEF Run, Hlt, Cli, Sti, OutIcw, OutVsync, history
<1>10. CASE \/ (\E m \in Masks, c \in Chip : OutMask(c, m[c]))
            \/ (\E rate \in Modes : OutTimer(rate)) \/ (\E line \in Device : OutDevice(line))
  BY <1>1, <1>10 DEF OutMask, OutTimer, OutDevice, history
<1>11. CASE \/ HandlerIret
            \/ (\E rotate \in Rotations : HandlerEoi(rotate) \/ HandlerEoiMaster(rotate))
  BY <1>1, <1>11 DEF HandlerIret, HandlerEoi, HandlerEoiMaster, history
<1>12. CASE UNCHANGED vars
  BY <1>1, <1>12 DEF vars, history
<1> QED  BY <1>2, <1>3, <1>4, <1>5, <1>6, <1>7, <1>8, <1>9, <1>10, <1>11, <1>12
         DEF Next, Program, HandlerStep, Callback

(* The guest reads the bytes of keys in the order in which they were       *)
(* pressed, none twice and none skipped (serial.c: keyboard_callback(),    *)
(* keyboard_i41(), keyboard_send()): KeysInOrder of GuestBoard.            *)
THEOREM KeysInOrderHolds == Spec => []KeysInOrder
<1>1. InOrder(kbd, heard, next) => KeysInOrder
  <2> SUFFICES ASSUME InOrder(kbd, heard, next) PROVE KeysInOrder
    OBVIOUS
  <2> DEFINE s == Unread(kbd)
  <2>1. s \in Seq(Byte) /\ Numbered(s, heard, next)
    BY UnreadIs DEF InOrder
  <2>2. s = [i \in 1 .. Len(s) |-> (heard + i - 1) % Ids]
    BY <2>1 DEF Numbered
  <2> QED  BY <2>1, <2>2 DEF KeysInOrder, Numbered, Unread
<1> QED  BY <1>1, InOrderInit, InOrderNext, PTL DEF Spec

-----------------------------------------------------------------------------
(* The event list.  A pass that keeps some items of a list reads it from   *)
(* places that rise with those it writes, and skips nothing to be kept.    *)
Places(s, S) == {i \in DOMAIN s : s[i] \in S}
Keeps(s, S, f) ==
  LET n == Cardinality(Places(s, S))
  IN  /\ f \in [1 .. n -> Places(s, S)]
      /\ \A k, l \in 1 .. n : k < l => f[k] < f[l]
      /\ \A i \in Places(s, S) : \E k \in 1 .. n : f[k] = i
      /\ Only(s, S) = [k \in 1 .. n |-> s[f[k]]]

LEMMA OnlyIs ==
  ASSUME NEW T, NEW s \in Seq(T), NEW S
  PROVE  Cardinality(Places(s, S)) \in Nat /\ \E f : Keeps(s, S, f)
<1> DEFINE at == {i \in DOMAIN s : s[i] \in S}
           n == Cardinality(at)
           Below(i) == {j \in at : j < i}
           rank(i) == Cardinality(Below(i))
           f == [k \in 1 .. n |-> CHOOSE i \in at : rank(i) = k - 1]
<1>1. /\ at \subseteq Int
      /\ IsFiniteSet(at) /\ n \in Nat
  <2>1. Len(s) \in Nat /\ at \in SUBSET (1 .. Len(s))
    BY LenProperties
  <2>3. IsFiniteSet(1 .. Len(s))
    BY <2>1, FS_Interval
  <2> QED  BY <2>1, <2>3, FS_Subset, FS_CardinalityType
<1>2. \A i \in at : /\ IsFiniteSet(Below(i)) /\ rank(i) \in 0 .. n - 1
                    /\ \A j \in at : i < j => rank(i) < rank(j)
  <2> SUFFICES ASSUME NEW i \in at
               PROVE  /\ IsFiniteSet(Below(i)) /\ rank(i) \in 0 .. n - 1
                      /\ \A j \in at : i < j => rank(i) < rank(j)
    OBVIOUS
  <2>1. IsFiniteSet(Below(i)) /\ rank(i) \in Nat
    BY <1>1, FS_Subset, FS_CardinalityType
  <2>2. ASSUME NEW C \in SUBSET at, Below(i) \subseteq C, i \in C
        PROVE  rank(i) < Cardinality(C) /\ Cardinality(C) \in Nat
    <3>1. IsFiniteSet(C) /\ Cardinality(C) \in Nat
      BY <1>1, FS_Subset, FS_CardinalityType
    <3>2. IsFiniteSet(C \ {i}) /\ Cardinality(C \ {i}) = Cardinality(C) - 1
      BY <2>2, <3>1, FS_RemoveElement
    <3>3. Below(i) \in SUBSET (C \ {i})
      BY <1>1, <2>2
    <3> HIDE DEF Below
    <3>4. rank(i) <= Cardinality(C \ {i})
      BY <3>2, <3>3, FS_Subset
    <3> QED  BY <2>1, <3>1, <3>2, <3>4
  <2>3. rank(i) < n
    BY <2>2
  <2>4. ASSUME NEW j \in at, i < j PROVE rank(i) < rank(j)
    <3>1. Below(i) \subseteq Below(j) /\ i \in Below(j) /\ Below(j) \in SUBSET at
      BY <1>1, <2>4
    <3> HIDE DEF Below
    <3> QED  BY <2>2, <3>1
  <2> QED  BY <1>1, <2>1, <2>3, <2>4
<1> HIDE DEF Below
<1>3. \A k \in 1 .. n : \E i \in at : rank(i) = k - 1
  <2> SUFFICES ASSUME NEW k \in 1 .. n, \A i \in at : rank(i) # k - 1 PROVE FALSE
    OBVIOUS
  <2> DEFINE U == (0 .. n - 1) \ {k - 1}
             r == [i \in at |-> rank(i)]
  <2>0. n \in Nat /\ n = Cardinality(at)
    BY <1>1
  <2> HIDE DEF n
  <2>1. IsFiniteSet(0 .. n - 1) /\ Cardinality(0 .. n - 1) = n
    <3> DEFINE m == n - 1
    <3>1. m \in Int /\ m >= -1 /\ n = m + 1
      BY <2>0
    <3> HIDE DEF m
    <3>2. IsFiniteSet(0 .. m) /\ Cardinality(0 .. m) = IF 0 > m THEN 0 ELSE m - 0 + 1
      BY <3>1, FS_Interval
    <3>3. Cardinality(0 .. m) = n
      BY <3>1, <3>2
    <3> QED  BY <3>2, <3>3 DEF m
  <2>2. k - 1 \in 0 .. n - 1
    BY <2>0
  <2>3. IsFiniteSet(U) /\ Cardinality(U) = n - 1
    BY <2>1, <2>2, FS_RemoveElement
  <2>4. r \in [at -> U]
    BY <1>2
  <2> HIDE DEF U, r
  <2>5. Cardinality(U) < Cardinality(at)
    BY <2>0, <2>3
  <2>6. PICK i, j \in at : i # j /\ r[i] = r[j]
    BY <1>1, <2>3, <2>4, <2>5, FS_PigeonHole
  <2>7. rank(i) = rank(j)
    BY <2>6 DEF r
  <2>8. i < j \/ j < i
    BY <1>1, <2>6
  <2> QED  BY <1>1, <1>2, <2>7, <2>8
<1>4. \A k \in 1 .. n : f[k] \in at /\ rank(f[k]) = k - 1
  BY <1>3
<1>5. f \in [1 .. n -> at]
  BY <1>4
<1>6. Only(s, S) = [k \in 1 .. n |-> s[f[k]]]
  BY DEF Only, Below
<1> HIDE DEF f
<1>7. ASSUME NEW k \in 1 .. n, NEW l \in 1 .. n, k < l PROVE f[k] < f[l]
  <2>1. f[k] \in Int /\ f[l] \in Int /\ rank(f[k]) = k - 1 /\ rank(f[l]) = l - 1
    BY <1>1, <1>4
  <2>2. f[k] # f[l]
    BY <1>1, <1>7, <2>1
  <2>3. ~(f[l] < f[k])
    BY <1>1, <1>2, <1>4, <1>7, <2>1
  <2> QED  BY <2>1, <2>2, <2>3
<1>8. ASSUME NEW i \in at PROVE \E k \in 1 .. n : f[k] = i
  <2>1. rank(i) + 1 \in 1 .. n
    BY <1>1, <1>2
  <2>2. rank(f[rank(i) + 1]) = rank(i)
    BY <1>2, <1>4, <2>1
  <2>3. ~(i < f[rank(i) + 1]) /\ ~(f[rank(i) + 1] < i)
    BY <1>2, <1>4, <2>1, <2>2
  <2>4. i = f[rank(i) + 1]
    BY <1>1, <1>4, <2>1, <2>3
  <2> QED  BY <2>1, <2>4
<1> QED  BY <1>1, <1>5, <1>6, <1>7, <1>8 DEF Keeps, Places

(* It is a list of what is to be kept. *)
LEMMA OnlyItems ==
  ASSUME NEW T, NEW s \in Seq(T), NEW S
  PROVE  /\ Only(s, S) \in Seq(T)
         /\ ToSet(Only(s, S)) = ToSet(s) \cap S
<1> DEFINE at == Places(s, S)
           n == Cardinality(at)
<1>1. n \in Nat
  BY OnlyIs
<1>2. PICK f : Keeps(s, S, f)
  BY OnlyIs
<1>3. \A i \in at : i \in 1 .. Len(s) /\ s[i] \in T /\ s[i] \in S
  BY DEF Places
<1>4. \A i \in 1 .. Len(s) : s[i] \in S => i \in at
  BY DEF Places
<1>5. /\ f \in [1 .. n -> at]
      /\ \A i \in at : \E k \in 1 .. n : f[k] = i
      /\ Only(s, S) = [k \in 1 .. n |-> s[f[k]]]
  BY <1>2 DEF Keeps
<1> HIDE DEF n, at
<1>6. Only(s, S) \in Seq(T)
  BY <1>1, <1>5, <1>3, SeqDef
<1>7. ToSet(Only(s, S)) = {s[f[k]] : k \in 1 .. n}
  BY <1>5 DEF ToSet
<1>8. {s[f[k]] : k \in 1 .. n} \subseteq ToSet(s) \cap S
  BY <1>3, <1>5 DEF ToSet
<1>9. ToSet(s) \cap S \subseteq {s[f[k]] : k \in 1 .. n}
  <2> SUFFICES ASSUME NEW i \in 1 .. Len(s), s[i] \in S
               PROVE  s[i] \in {s[f[k]] : k \in 1 .. n}
    BY DEF ToSet
  <2>1. PICK k \in 1 .. n : f[k] = i
    BY <1>5, <1>4
  <2> QED  BY <2>1
<1> QED  BY <1>6, <1>7, <1>8, <1>9

(* Some number of a set of naturals is the least. *)
LEMMA Least ==
  ASSUME NEW T, T \subseteq Nat, T # {}
  PROVE  \E m \in T : \A t \in T : m <= t
<1>1. PICK m \in T : \A t \in T : <<t, m>> \notin OpToRel(<, Nat)
  BY WFMin, NatLessThanWellFounded, Zenon
<1>2. \A t \in T : ~(t < m)
  BY <1>1, Zenon DEF OpToRel
<1> QED  BY <1>2

(* A list of events in which none that is set has gone off; and an event   *)
(* that is set, or to be called.                                           *)
Listed(n) == n \in NeventType /\ ToSet(n.level) \cap n.setevent = {}
Rings(n, x) == x \in ToSet(n.level) \/ x \in ToSet(n.wait) \cap n.setevent

(* Steps of the counters and of the clocks leave the lists alone. *)
Alike(n, m) ==
  m \in NeventType /\ m.level = n.level /\ m.wait = n.wait /\ m.setevent = n.setevent

LEMMA AlikeListed ==
  ASSUME NEW n, NEW m, Listed(n), Alike(n, m)
  PROVE  Listed(m) /\ \A x : Rings(m, x) <=> Rings(n, x)
BY DEF Listed, Alike, Rings

LEMMA ListCounters ==
  ASSUME NEW n \in NeventType
  PROVE  /\ \A t \in Int : Alike(n, FirstEvent(n, t)) /\ Alike(n, Spend(n, t))
         /\ Alike(n, NeventForceExit(n)) /\ Alike(n, NextOpcode(n)) /\ Alike(n, RemainAdjust(n))
         /\ Alike(n, [n EXCEPT !.rem = -1]) /\ Alike(n, Forgets(n))
<1>1. n.base \in Int /\ n.rem \in Int /\ n.clock \in [Event -> Int]
  BY DEF NeventType
<1>2. \A b, r \in Int : Alike(n, [n EXCEPT !.base = b, !.rem = r]) /\ Alike(n, [n EXCEPT !.rem = r])
  BY DEF NeventType, Alike
<1>3. \A t \in Int : Alike(n, FirstEvent(n, t)) /\ Alike(n, Spend(n, t))
  <2> SUFFICES ASSUME NEW t \in Int PROVE Alike(n, FirstEvent(n, t)) /\ Alike(n, Spend(n, t))
    OBVIOUS
  <2>1. n.rem - (n.base - t) \in Int /\ n.rem - t \in Int
    BY <1>1
  <2> QED  BY <1>2, <2>1, Zenon DEF FirstEvent, Spend
<1>4. Alike(n, NeventForceExit(n)) /\ Alike(n, NextOpcode(n)) /\ Alike(n, RemainAdjust(n))
  <2>1. Alike(n, n)
    BY DEF Alike
  <2>2. n.base - n.rem \in Int /\ n.base + (1 - n.rem) \in Int /\ 0 \in Int /\ 1 \in Int
    BY <1>1
  <2> QED  BY <1>2, <2>1, <2>2, Zenon DEF NeventForceExit, NextOpcode, RemainAdjust
<1>5. Alike(n, [n EXCEPT !.rem = -1])
  <2>1. -1 \in Int
    OBVIOUS
  <2> QED  BY <1>2, <2>1
<1>6. Alike(n, Forgets(n))
  <2> DEFINE c == [x \in Event |->
        IF x = "FLAMES" \/ NeventIsWork(n, x) \/ x \in ToSet(n.wait) THEN n.clock[x] ELSE 0]
  <2>1. c \in [Event -> Int]
    BY <1>1
  <2> HIDE DEF c
  <2>2. Alike(n, [n EXCEPT !.clock = c])
    BY <2>1 DEF NeventType, Alike
  <2> QED  BY <2>2 DEF Forgets, c
<1> QED  BY <1>3, <1>4, <1>5, <1>6

(* An event leaves the list. *)
LEMMA ListReset ==
  ASSUME NEW n, Listed(n), NEW x
  PROVE  /\ Listed(NeventReset(n, x))
         /\ NeventReset(n, x).wait = n.wait /\ NeventReset(n, x).setevent = n.setevent
         /\ ToSet(NeventReset(n, x).level) = ToSet(n.level) \ {x}
<1> DEFINE l == Only(n.level, Event \ {x})
<1>1. n \in NeventType /\ n.level \in Seq(Event)
  BY DEF Listed, NeventType
<1>2. l \in Seq(Event) /\ ToSet(l) = ToSet(n.level) \cap (Event \ {x})
  BY <1>1, OnlyItems
<1>3. ToSet(n.level) \subseteq Event
  BY <1>1 DEF ToSet
<1> HIDE DEF l
<1>4. NeventReset(n, x) = [n EXCEPT !.level = l]
  BY DEF NeventReset, l
<1> QED  BY <1>1, <1>2, <1>3, <1>4 DEF Listed, NeventType

(* Where an item that enters a list goes, and what comes after it. *)
LEMMA InsertItems ==
  ASSUME NEW T, NEW s \in Seq(T), NEW x \in T, NEW i \in 1 .. Len(s) + 1
  PROVE  /\ InsertAt(s, i, x) \in Seq(T) /\ Len(InsertAt(s, i, x)) = Len(s) + 1
         /\ \A k \in 1 .. Len(s) + 1 :
              InsertAt(s, i, x)[k] = IF k < i THEN s[k] ELSE IF k = i THEN x ELSE s[k - 1]
<1> DEFINE a == SubSeq(s, 1, i - 1)
           b == SubSeq(s, i, Len(s))
           c == a \o <<x>>
           r == InsertAt(s, i, x)
<1>1. /\ a \in Seq(T) /\ Len(a) = i - 1 /\ \A k \in 1 .. i - 1 : a[k] = s[k]
      /\ b \in Seq(T) /\ Len(b) = Len(s) - i + 1 /\ \A k \in 1 .. Len(s) - i + 1 : b[k] = s[i + k - 1]
  OBVIOUS
<1>2. r = (a \o <<x>>) \o b
  BY DEF InsertAt
<1> HIDE DEF a, b, r
<1>3. /\ c \in Seq(T) /\ Len(c) = i
      /\ \A k \in 1 .. i : c[k] = IF k < i THEN s[k] ELSE x
  BY <1>1
<1>4. r = c \o b
  BY <1>2
<1> HIDE DEF c
<1>5. r \in Seq(T) /\ Len(r) = Len(s) + 1
  BY <1>1, <1>3, <1>4
<1>6. \A k \in 1 .. i : r[k] = c[k]
  BY <1>1, <1>3, <1>4
<1>7. \A k \in i + 1 .. Len(s) + 1 : r[k] = s[k - 1]
  <2> TAKE k \in i + 1 .. Len(s) + 1
  <2>1. r[k] = b[k - i] /\ k - i \in 1 .. Len(s) - i + 1
    BY <1>1, <1>3, <1>4
  <2> QED  BY <1>1, <2>1
<1> QED  BY <1>3, <1>5, <1>6, <1>7 DEF r

(* An event enters it, wherever its clock says. *)
LEMMA ListInsert ==
  ASSUME NEW T, NEW s \in Seq(T), NEW x \in T, NEW i \in 1 .. Len(s) + 1
  PROVE  InsertAt(s, i, x) \in Seq(T) /\ ToSet(InsertAt(s, i, x)) = ToSet(s) \cup {x}
<1> DEFINE r == InsertAt(s, i, x)
<1>1. /\ r \in Seq(T) /\ Len(r) = Len(s) + 1
      /\ \A k \in 1 .. Len(r) : r[k] = IF k < i THEN s[k] ELSE IF k = i THEN x ELSE s[k - 1]
  <2>1. /\ r \in Seq(T) /\ Len(r) = Len(s) + 1
        /\ \A k \in 1 .. Len(s) + 1 : r[k] = IF k < i THEN s[k] ELSE IF k = i THEN x ELSE s[k - 1]
    BY InsertItems
  <2> HIDE DEF r
  <2> QED  BY <2>1
<1> HIDE DEF r
<1>2. ToSet(r) \subseteq ToSet(s) \cup {x}
  BY <1>1 DEF ToSet
<1>3. x \in ToSet(r)
  BY <1>1 DEF ToSet
<1>4. \A k \in 1 .. Len(s) : s[k] = r[IF k < i THEN k ELSE k + 1]
  BY <1>1
<1>5. ToSet(s) \subseteq ToSet(r)
  <2>1. DOMAIN s = 1 .. Len(s) /\ DOMAIN r = 1 .. Len(r)
    BY <1>1, LenProperties
  <2>2. ToSet(s) = {s[k] : k \in 1 .. Len(s)} /\ ToSet(r) = {r[j] : j \in 1 .. Len(r)}
    BY <2>1, Zenon DEF ToSet
  <2> SUFFICES ASSUME NEW k \in 1 .. Len(s) PROVE s[k] \in {r[j] : j \in 1 .. Len(r)}
    BY <2>2
  <2>3. (IF k < i THEN k ELSE k + 1) \in 1 .. Len(r)
    BY <1>1
  <2> QED  BY <1>4, <2>3
<1> QED  BY <1>1, <1>2, <1>3, <1>5 DEF r

LEMMA ListSet ==
  ASSUME NEW n, Listed(n), NEW x \in Event, NEW t \in Int
  PROVE  /\ Listed(NeventSet(n, x, t))
         /\ NeventSet(n, x, t).wait = n.wait /\ NeventSet(n, x, t).setevent = n.setevent \ {x}
         /\ ToSet(NeventSet(n, x, t).level) = ToSet(n.level) \cup {x}
<1> DEFINE rest == NeventReset(n, x).level
           pos == InsertAtClock(rest, n.clock, t)
           level == InsertAt(rest, pos, x)
           set == [n EXCEPT !.clock[x] = t, !.setevent = @ \ {x}, !.level = level]
<1>1. n \in NeventType
  BY DEF Listed
<1>2. rest \in Seq(Event) /\ ToSet(rest) = ToSet(n.level) \ {x}
  BY ListReset DEF Listed, NeventType
<1> HIDE DEF rest
<1>3. pos \in 1 .. Len(rest) + 1
  <2> DEFINE S == {i \in 1 .. Len(rest) : \A j \in 1 .. i : n.clock[rest[j]] <= t}
  <2>1. Len(rest) \in Nat
    BY <1>2
  <2>2. IsFiniteSet(1 .. Len(rest)) /\ Cardinality(1 .. Len(rest)) = Len(rest)
    <3> DEFINE m == Len(rest)
    <3>1. m \in Nat
      BY <2>1
    <3> HIDE DEF m
    <3>2. IsFiniteSet(1 .. m) /\ Cardinality(1 .. m) = IF 1 > m THEN 0 ELSE m - 1 + 1
      BY <3>1, FS_Interval
    <3>3. Cardinality(1 .. m) = m
      BY <3>1, <3>2
    <3> QED  BY <3>2, <3>3 DEF m
  <2>3. S \in SUBSET (1 .. Len(rest))
    OBVIOUS
  <2> HIDE DEF S
  <2>4. Cardinality(S) \in Nat /\ Cardinality(S) <= Len(rest)
    BY <2>2, <2>3, FS_Subset, FS_CardinalityType
  <2>5. pos = Cardinality(S) + 1
    BY DEF InsertAtClock, S
  <2> QED  BY <2>1, <2>4, <2>5
<1> HIDE DEF pos
<1>4. level \in Seq(Event) /\ ToSet(level) = ToSet(n.level) \cup {x}
  BY <1>2, <1>3, ListInsert
<1> HIDE DEF level
<1>5. set \in NeventType /\ set.level = level /\ set.wait = n.wait /\ set.setevent = n.setevent \ {x}
  BY <1>1, <1>4 DEF NeventType
<1>6. Listed(set)
  BY <1>4, <1>5 DEF Listed
<1> HIDE DEF set
<1>7. NeventSet(n, x, t) = IF pos = 1 THEN FirstEvent(set, t) ELSE set
  BY DEF NeventSet, rest, pos, level, set
<1>8. Alike(set, FirstEvent(set, t))
  BY <1>5, ListCounters
<1>9. Alike(set, NeventSet(n, x, t))
  BY <1>5, <1>7, <1>8 DEF Alike
<1> QED  BY <1>4, <1>5, <1>6, <1>9, AlikeListed DEF Alike

LEMMA ListSetAt ==
  ASSUME NEW n, Listed(n), NEW x \in Event, NEW d \in Int
  PROVE  /\ \E t \in Int : SetAbsolute(n, x, d) = NeventSet(n, x, t)
         /\ \E t \in Int : SetRelative(n, x, d) = NeventSet(n, x, t)
<1>1. n.base \in Int /\ n.rem \in Int /\ n.clock[x] \in Int
  BY DEF Listed, NeventType
<1> QED  BY <1>1 DEF SetAbsolute, SetRelative, NeventNow

(* The first event that waits was called. *)
LEMMA ListCalled ==
  ASSUME NEW n, Listed(n), n.wait # <<>>
  PROVE  /\ Listed(NeventCalled(n)) /\ NeventCalled(n).level = n.level
         /\ \A x : Rings(n, x) /\ (x # Head(n.wait) \/ x \in ToSet(n.level)) => Rings(NeventCalled(n), x)
<1>1. n \in NeventType /\ n.wait \in Seq(Event)
  BY DEF Listed, NeventType
<1>2. /\ Head(n.wait) \in Event /\ Tail(n.wait) \in Seq(Event)
      /\ Len(Tail(n.wait)) = Len(n.wait) - 1 /\ Head(n.wait) = n.wait[1]
      /\ \A i \in 1 .. Len(n.wait) - 1 : Tail(n.wait)[i] = n.wait[i + 1]
  BY <1>1
<1>3. ASSUME NEW x \in ToSet(n.wait), x # Head(n.wait) PROVE x \in ToSet(Tail(n.wait))
  <2>1. PICK i \in 1 .. Len(n.wait) : n.wait[i] = x
    BY <1>1 DEF ToSet
  <2>2. i - 1 \in 1 .. Len(Tail(n.wait)) /\ Tail(n.wait)[i - 1] = x
    BY <1>1, <1>2, <1>3, <2>1
  <2>3. DOMAIN Tail(n.wait) = 1 .. Len(Tail(n.wait))
    BY <1>2
  <2> QED  BY <2>2, <2>3 DEF ToSet
<1>4. /\ NeventCalled(n) \in NeventType /\ NeventCalled(n).level = n.level
      /\ NeventCalled(n).wait = Tail(n.wait)
      /\ NeventCalled(n).setevent = n.setevent \ {Head(n.wait)}
  BY <1>1, <1>2 DEF NeventType, NeventCalled
<1> QED  BY <1>3, <1>4 DEF Listed, Rings

(* What is due goes off, and what is set stays so or waits to be called. *)
LEMMA ListProgress ==
  ASSUME NEW n, Listed(n), n.wait = <<>>
  PROVE  /\ Listed(NeventProgress(n))
         /\ \A x : Rings(n, x) => Rings(NeventProgress(n), x)
<1> DEFINE S == {x \in Event : n.clock[x] <= n.base}
           L == {x \in Event : n.clock[x] > n.base}
           late == Only(n.level, S)
           kept == Only(n.level, L)
           wait == Only(late, Event \ n.setevent)
           clock == [x \in Event |-> IF NeventIsWork(n, x) THEN n.clock[x] - n.base ELSE n.clock[x]]
           base == CHOOSE t \in {MaxClock} \cup {n.clock[x] - n.base : x \in ToSet(kept)} :
                     \A x \in ToSet(kept) : t <= MaxClock /\ t <= n.clock[x] - n.base
           p == NeventProgress(n)
<1>1. /\ n \in NeventType /\ n.level \in Seq(Event) /\ n.base \in Int /\ n.rem \in Int
      /\ n.clock \in [Event -> Int] /\ n.setevent \in SUBSET Event
  BY DEF Listed, NeventType
<1>2. /\ late \in Seq(Event) /\ ToSet(late) = ToSet(n.level) \cap S
      /\ kept \in Seq(Event) /\ ToSet(kept) = ToSet(n.level) \cap L
  BY <1>1, OnlyItems
<1> HIDE DEF late, kept
<1>3. wait \in Seq(Event) /\ ToSet(wait) = ToSet(late) \cap (Event \ n.setevent)
  BY <1>2, OnlyItems
<1>4. clock \in [Event -> Int]
  BY <1>1
<1>5. base \in Int
  <2> DEFINE T == {MaxClock} \cup {n.clock[x] - n.base : x \in ToSet(kept)}
  <2>1. T \subseteq Nat /\ T # {}
    <3>1. \A x \in ToSet(kept) : n.clock[x] - n.base \in Nat
      BY <1>1, <1>2
    <3> QED  BY <3>1, NeventAssumption
  <2>2. PICK m \in T : \A t \in T : m <= t
    BY <2>1, Least
  <2>3. base \in T
    BY <2>2
  <2> HIDE DEF T, base
  <2> QED  BY <2>1, <2>3
<1> HIDE DEF wait, clock, base
<1>6. p = [clock |-> clock, level |-> kept, wait |-> n.wait \o wait,
           setevent |-> n.setevent \cup ToSet(late), base |-> base, rem |-> n.rem + base]
  BY DEF NeventProgress, late, kept, wait, clock, base
<1>7. n.wait \o wait = wait
  BY <1>3
<1>8. ToSet(late) \subseteq Event
  BY <1>2
<1>9. p \in NeventType /\ p.level = kept /\ p.wait = wait /\ p.setevent = n.setevent \cup ToSet(late)
  BY <1>1, <1>2, <1>3, <1>4, <1>5, <1>6, <1>7, <1>8 DEF NeventType
<1> HIDE DEF p
<1>10. S \cap L = {} /\ Event \subseteq S \cup L
  BY <1>1
<1>11. ToSet(n.level) \cap n.setevent = {} /\ ToSet(n.level) \subseteq Event
  BY <1>1 DEF Listed, ToSet
<1> HIDE DEF S, L
<1>12. Listed(p)
  BY <1>2, <1>9, <1>10, <1>11 DEF Listed
<1>13. ASSUME NEW x, Rings(n, x) PROVE Rings(p, x)
  <2>1. x \in ToSet(n.level)
    BY <1>13 DEF Rings, ToSet
  <2> QED  BY <1>2, <1>3, <1>9, <1>10, <1>11, <2>1 DEF Rings
<1> QED  BY <1>12, <1>13 DEF p

(* Another clock for the CPU changes times only. *)
LEMMA ListChangeClock ==
  ASSUME NEW n, Listed(n), NEW old \in Nat \ {0}, NEW new \in Nat \ {0}
  PROVE  Alike(n, NeventChangeClock(n, old, new))
<1> DEFINE scaled == [x \in Event |->
              IF NeventIsWork(n, x) /\ n.clock[x] > 0
              THEN IF Scaled(n.clock[x], old, new) > 0 THEN Scaled(n.clock[x], old, new) ELSE 1
              ELSE n.clock[x]]
<1>1. /\ n \in NeventType /\ n.level \in Seq(Event) /\ n.base \in Int /\ n.rem \in Int
      /\ n.clock \in [Event -> Int]
  BY DEF Listed, NeventType
<1>2. \A t \in Int : Scaled(t, old, new) \in Int
  <2>1. \A a \in Int : a \div old \in Int
    OBVIOUS
  <2> SUFFICES ASSUME NEW t \in Int PROVE Scaled(t, old, new) \in Int
    OBVIOUS
  <2> DEFINE u == t * new + old \div 2
  <2>2. u \in Int
    BY <2>1
  <2> HIDE DEF u
  <2>3. u \div old \in Int /\ -((-u) \div old) \in Int
    BY <2>1, <2>2
  <2> QED  BY <2>3 DEF Scaled, u
<1>3. scaled \in [Event -> Int]
  BY <1>1, <1>2
<1> HIDE DEF scaled
<1>4. n.level # <<>> => scaled[Head(n.level)] \in Int
  BY <1>1, <1>3
<1>5. \A b, r \in Int : Alike(n, [n EXCEPT !.clock = scaled, !.base = b, !.rem = r])
  BY <1>1, <1>3 DEF Alike, NeventType
<1>6. Alike(n, n)
  BY <1>1 DEF Alike
<1> QED  BY <1>1, <1>2, <1>4, <1>5, <1>6, Zenon DEF NeventChangeClock, scaled

(* The list and the loop agree on whether events wait to be called.  A     *)
(* byte in the keyboard's buffers has an event that will send it.          *)
ListInv ==
  /\ Listed(nev) /\ (phase = "call" <=> nev.wait # <<>>)
  /\ multiple \in Multiples
KeysDue == ~KeyboardIdle(kbd) => Rings(nev, "KEYBOARD")

(* From n to m nothing is called, and the keyboard's event stays. *)
Carries(n, m) ==
  Listed(m) /\ m.wait = n.wait /\ (Rings(n, "KEYBOARD") => Rings(m, "KEYBOARD"))

LEMMA ListCarries ==
  ASSUME NEW n, Listed(n)
  PROVE  /\ Carries(n, n)
         /\ \A m : Alike(n, m) => Carries(n, m)
         /\ \A x \in Event, d \in Int :
              /\ Carries(n, SetAbsolute(n, x, d)) /\ Rings(SetAbsolute(n, x, d), x)
              /\ Carries(n, SetRelative(n, x, d)) /\ Rings(SetRelative(n, x, d), x)
         /\ Carries(n, NeventReset(n, "PICMASK"))
         /\ \A cost \in Int : Carries(n, Spend(n, cost)) /\ Carries(n, NeventForceExit(Spend(n, cost)))
<1>1. n \in NeventType
  BY DEF Listed
<1>2. ASSUME NEW m, Alike(n, m) PROVE Carries(n, m)
  BY <1>2, AlikeListed DEF Carries, Alike
<1>3. Carries(n, n)
  BY <1>1, <1>2 DEF Alike
<1>4. ASSUME NEW x \in Event, NEW t \in Int
      PROVE  Carries(n, NeventSet(n, x, t)) /\ Rings(NeventSet(n, x, t), x)
  <2>1. /\ Listed(NeventSet(n, x, t))
        /\ NeventSet(n, x, t).wait = n.wait /\ NeventSet(n, x, t).setevent = n.setevent \ {x}
        /\ ToSet(NeventSet(n, x, t).level) = ToSet(n.level) \cup {x}
    BY ListSet
  <2>2. Rings(NeventSet(n, x, t), x)
    BY <2>1 DEF Rings
  <2>3. Rings(n, "KEYBOARD") => Rings(NeventSet(n, x, t), "KEYBOARD")
    BY <2>1 DEF Rings
  <2> QED  BY <2>1, <2>2, <2>3 DEF Carries
<1>5. \A x \in Event, d \in Int :
         /\ Carries(n, SetAbsolute(n, x, d)) /\ Rings(SetAbsolute(n, x, d), x)
         /\ Carries(n, SetRelative(n, x, d)) /\ Rings(SetRelative(n, x, d), x)
  BY <1>4, ListSetAt
<1>6. Carries(n, NeventReset(n, "PICMASK"))
  BY ListReset DEF Carries, Rings
<1>7. ASSUME NEW cost \in Int
      PROVE  Carries(n, Spend(n, cost)) /\ Carries(n, NeventForceExit(Spend(n, cost)))
  <2>1. Alike(n, Spend(n, cost))
    BY <1>1, ListCounters
  <2>2. Alike(Spend(n, cost), NeventForceExit(Spend(n, cost)))
    BY <2>1, ListCounters DEF Alike
  <2> QED  BY <1>2, <2>1, <2>2 DEF Alike
<1> QED  BY <1>2, <1>3, <1>5, <1>6, <1>7

(* Clocks are numbers. *)
LEMMA Times ==
  ASSUME NEW m \in Multiples
  PROVE  /\ m \in Nat \ {0}
         /\ m * DispClock \in Int /\ m * VsyncClock \in Int /\ m * Period \in Int
         /\ m * LongPeriod \in Int /\ m * MaskClock \in Int /\ m * XferClock \in Int
         /\ IntCost \in Int /\ Costs \subseteq Int
         /\ Event = {"FLAMES", "ITIMER", "KEYBOARD", "PICMASK"}
<1>1. {DispClock, VsyncClock, Period, LongPeriod, MaskClock, XferClock, IntCost} \subseteq Nat \ {0}
  BY BoardAssumption
<1>2. m \in Nat \ {0} /\ Costs \subseteq Int /\ Event = {"FLAMES", "ITIMER", "KEYBOARD", "PICMASK"}
  BY BoardAssumption
<1>3. \A d \in Nat : m * d \in Int
  BY <1>2
<1> QED  BY <1>1, <1>2, <1>3

LEMMA ArmedCarries ==
  ASSUME NEW n, Listed(n), multiple \in Multiples
  PROVE  Carries(n, KeyboardArmed(n)) /\ Rings(KeyboardArmed(n), "KEYBOARD")
<1>1. "KEYBOARD" \in Event /\ multiple * XferClock \in Int
  BY Times
<1>2. NeventIsWork(n, "KEYBOARD") => Rings(n, "KEYBOARD")
  BY DEF NeventIsWork, Rings
<1> QED  BY <1>1, <1>2, ListCarries DEF KeyboardArmed

LEMMA ListNext ==
  ASSUME ListInv, KeysDue, [Next]_vars
  PROVE  ListInv' /\ KeysDue'
<1> DEFINE K == "KEYBOARD"
           Went == Listed(nev') /\ (phase' = "call" <=> nev'.wait # <<>>)
           Stays == Rings(nev, K) => Rings(nev', K)
           Same == kbd' = kbd /\ multiple' = multiple
<1>0. /\ Listed(nev) /\ nev \in NeventType /\ multiple \in Multiples
      /\ phase # "call" => nev.wait = <<>>
      /\ K \in Event /\ {"FLAMES", "ITIMER", "PICMASK"} \subseteq Event
  BY Times DEF ListInv, Listed
<1>1. ASSUME NEW m, Listed(m)
      PROVE  /\ Alike(m, Forgets(m)) /\ Listed(Forgets(m)) /\ Forgets(m).wait = m.wait
             /\ \A x : Rings(m, x) => Rings(Forgets(m), x)
  BY <1>1, ListCounters, AlikeListed DEF Alike, Listed
<1>2. ASSUME NEW m, Carries(nev, m), phase # "call", Runs(m) \/ RunsOn(m)
      PROVE  Went /\ Stays /\ (Rings(m, K) => Rings(nev', K))
  BY <1>0, <1>1, <1>2 DEF Carries, Runs, RunsOn
<1>3. ASSUME NEW m, NEW d, Listed(m), Goes(m, d)
      PROVE  Went /\ (Rings(m, K) => Rings(nev', K))
  <2>1. nev' = Forgets(m) /\ (phase' = "call" <=> m.wait # <<>>)
    BY <1>3 DEF Goes
  <2> QED  BY <1>1, <1>3, <2>1
<1>4. ASSUME Went, Stays, Same PROVE ListInv' /\ KeysDue'
  BY <1>0, <1>4 DEF ListInv, KeysDue
<1>5. \A cost \in Int : Carries(nev, Spend(nev, cost)) /\ Carries(nev, NeventForceExit(Spend(nev, cost)))
  BY <1>0, ListCarries
<1>6. CASE HostKey
  <2>1. /\ phase = "host" /\ phase' = phase /\ multiple' = multiple
        /\ kbd' = KeyboardSend(kbd, next)
        /\ nev' = IF KeyboardAccepts(kbd) THEN KeyboardArmed(nev) ELSE nev
    BY <1>6 DEF HostKey
  <2>2. Carries(nev, nev') /\ (KeyboardAccepts(kbd) => Rings(nev', K))
    BY <1>0, <2>1, ArmedCarries, ListCarries
  <2>3. ~KeyboardAccepts(kbd) => (KeyboardIdle(kbd') <=> KeyboardIdle(kbd))
    BY <2>1 DEF KeyboardSend, KeyboardIdle
  <2> QED  BY <1>0, <2>1, <2>2, <2>3 DEF Carries, ListInv, KeysDue
<1>7. CASE \E m \in Multiples : HostSpeed(m)
  <2>1. PICK m \in Multiples : HostSpeed(m)
    BY <1>7
  <2>2. /\ phase = "host" /\ phase' = phase /\ multiple' = m /\ kbd' = kbd
        /\ nev' = NeventChangeClock(nev, multiple, m)
    BY <2>1 DEF HostSpeed
  <2>3. Carries(nev, nev')
    BY <1>0, <2>2, Times, ListChangeClock, ListCarries
  <2> QED  BY <1>0, <2>2, <2>3 DEF Carries, ListInv, KeysDue
<1>8. CASE HostFrame
  <2>1. /\ phase = "host" /\ phase' = "irq" /\ Same
        /\ nev' = SetRelative(nev, "FLAMES", multiple * DispClock)
    BY <1>8 DEF HostFrame
  <2>2. Carries(nev, nev')
    BY <1>0, <2>1, Times, ListCarries
  <2> QED  BY <1>0, <1>4, <2>1, <2>2 DEF Carries
<1>9. CASE Irq
  <2> DEFINE m == IF Taken = SystemTimer THEN NeventReset(nev, "PICMASK") ELSE nev
  <2>1. phase = "irq" /\ Same /\ (Runs(nev) \/ Runs(Spend(m, IntCost)))
    BY <1>9 DEF Irq
  <2>2. Carries(nev, m)
    BY <1>0, ListCarries
  <2> HIDE DEF m
  <2>3. Carries(m, Spend(m, IntCost))
    BY <1>0, <2>2, Times, ListCarries DEF Carries
  <2>4. Carries(nev, Spend(m, IntCost)) /\ Carries(nev, nev)
    BY <1>0, <2>2, <2>3, ListCarries DEF Carries
  <2> QED  BY <1>2, <1>4, <2>1, <2>4
<1>10. CASE Progress
  <2>1. /\ phase = "progress" /\ Same
        /\ \E d : Goes(NeventProgress(nev), d)
    BY <1>10 DEF Progress
  <2>2. Listed(NeventProgress(nev)) /\ (Rings(nev, K) => Rings(NeventProgress(nev), K))
    BY <1>0, <2>1, ListProgress
  <2> QED  BY <1>3, <1>4, <2>1, <2>2
<1>11. ASSUME NEW m, Carries(nev, m), nev.wait # <<>>, NEW d, Goes(NeventCalled(m), d),
              Head(nev.wait) # K \/ K \in ToSet(m.level)
       PROVE  Went /\ Stays /\ (K \in ToSet(m.level) => Rings(nev', K))
  <2>1. Listed(m) /\ m.wait = nev.wait
    BY <1>11 DEF Carries
  <2>2. /\ Listed(NeventCalled(m)) /\ NeventCalled(m).level = m.level
        /\ \A x : Rings(m, x) /\ (x # Head(m.wait) \/ x \in ToSet(m.level)) => Rings(NeventCalled(m), x)
    BY <1>11, <2>1, ListCalled
  <2>3. Went /\ (Rings(NeventCalled(m), K) => Rings(nev', K))
    BY <1>3, <1>11, <2>2
  <2> QED  BY <1>11, <2>1, <2>2, <2>3 DEF Carries, Rings
<1>12. ASSUME NEW x, Calls(x) PROVE nev.wait # <<>> /\ Head(nev.wait) = x
  BY <1>12 DEF Calls, ListInv
<1>13. CASE Systimer
  <2> DEFINE n == IF pit.i THEN MaskedTick(nev) ELSE nev
             period == multiple * (IF pit.rate THEN Period ELSE LongPeriod)
  <2>1. Calls("ITIMER") /\ Same /\ Goes(NeventCalled(SetRelative(n, "ITIMER", period)), disp)
    BY <1>13 DEF Systimer
  <2>2. Carries(nev, n)
    BY <1>0, Times, ListCarries DEF MaskedTick
  <2>3. period \in Int
    BY <1>0, Times
  <2> HIDE DEF n, period
  <2>4. Carries(n, SetRelative(n, "ITIMER", period))
    BY <1>0, <2>2, <2>3, ListCarries DEF Carries
  <2>5. Carries(nev, SetRelative(n, "ITIMER", period))
    BY <2>2, <2>4 DEF Carries
  <2>6. Went /\ Stays
    BY <1>11, <1>12, <2>1, <2>5
  <2> QED  BY <1>4, <2>1, <2>6
<1>14. CASE Picmask
  <2>1. Calls("PICMASK") /\ Same /\ Goes(NeventCalled(nev), disp)
    BY <1>14 DEF Picmask
  <2> QED  BY <1>0, <1>4, <1>11, <1>12, <2>1, ListCarries
<1>15. CASE Screenvsync
  <2>1. /\ Calls("FLAMES") /\ Same
        /\ Goes(NeventCalled(SetRelative(nev, "FLAMES", multiple * VsyncClock)), disp)
    BY <1>15 DEF Screenvsync
  <2>2. Carries(nev, SetRelative(nev, "FLAMES", multiple * VsyncClock))
    BY <1>0, Times, ListCarries
  <2> QED  BY <1>4, <1>11, <1>12, <2>1, <2>2
<1>16. CASE Screendisp
  <2>1. Calls("FLAMES") /\ Same /\ \E d : Goes(NeventCalled(nev), d)
    BY <1>16 DEF Screendisp
  <2> QED  BY <1>0, <1>4, <1>11, <1>12, <2>1, ListCarries
<1>17. CASE KeyboardCallback
  <2>0. Calls(K) /\ multiple' = multiple /\ nev.wait # <<>> /\ Head(nev.wait) = K
    BY <1>12, <1>17 DEF KeyboardCallback
  <2>1. CASE Acts(K) /\ ~KeyboardIdle(kbd)
    <3> DEFINE m == SetRelative(nev, K, multiple * XferClock)
    <3>1. Goes(NeventCalled(m), disp)
      BY <1>17, <2>1 DEF KeyboardCallback
    <3>2. Carries(nev, m)
      BY <1>0, Times, ListCarries
    <3>3. K \in ToSet(m.level)
      <4>1. PICK t \in Int : m = NeventSet(nev, K, t)
        BY <1>0, Times, ListSetAt
      <4>2. ToSet(NeventSet(nev, K, t).level) = ToSet(nev.level) \cup {K}
        BY <1>0, ListSet
      <4> QED  BY <4>1, <4>2
    <3> HIDE DEF m
    <3>4. Went /\ Rings(nev', K)
      BY <1>11, <2>0, <3>1, <3>2, <3>3
    <3> QED  BY <1>0, <2>0, <3>4 DEF ListInv, KeysDue
  <2>2. CASE ~(Acts(K) /\ ~KeyboardIdle(kbd))
    <3>1. Goes(NeventCalled(nev), disp) /\ kbd' = kbd
      BY <1>17, <2>2 DEF KeyboardCallback
    <3>2. /\ Listed(NeventCalled(nev))
          /\ Rings(nev, K) /\ K \in ToSet(nev.level) => Rings(NeventCalled(nev), K)
      BY <1>0, <2>0, ListCalled
    <3>3. Went /\ (Rings(nev, K) /\ K \in ToSet(nev.level) => Rings(nev', K))
      BY <1>3, <3>1, <3>2
    <3>4. KeyboardIdle(kbd) \/ (Rings(nev, K) /\ K \in ToSet(nev.level))
      BY <2>2 DEF Acts, KeysDue, Rings
    <3> QED  BY <1>0, <2>0, <3>1, <3>3, <3>4 DEF ListInv, KeysDue
  <2> QED  BY <2>1, <2>2
<1>18. CASE \/ (\E cost \in Costs : Run(cost)) \/ Cli \/ OutVsync
            \/ (\E line \in Device : OutDevice(line))
            \/ (\E m \in Masks, c \in Chip : OutMask(c, m[c])) \/ OutIcw \/ HandlerIret
            \/ (\E rotate \in Rotations : HandlerEoi(rotate) \/ HandlerEoiMaster(rotate))
  <2>1. /\ phase = "exec" /\ Same
        /\ \/ \E cost \in Costs : Runs(Spend(nev, cost))
           \/ Runs(Spend(nev, 1)) \/ Runs(NeventForceExit(Spend(nev, 1)))
    BY <1>18
       DEF Run, Cli, OutVsync, OutDevice, OutMask, OutIcw, HandlerIret, HandlerEoi, HandlerEoiMaster,
           Executes, Handles, Board
  <2>2. Costs \subseteq Int /\ 1 \in Int
    BY <1>0, Times
  <2> QED  BY <1>2, <1>4, <1>5, <2>1, <2>2
<1>19. CASE Hlt
  <2>1. phase = "exec" /\ Same /\ Runs([nev EXCEPT !.rem = -1])
    BY <1>19 DEF Hlt, Executes, Board
  <2>2. Carries(nev, [nev EXCEPT !.rem = -1])
    BY <1>0, ListCounters, ListCarries
  <2> QED  BY <1>2, <1>4, <2>1, <2>2
<1>20. CASE Sti
  <2> DEFINE m == Spend(nev, 1)
  <2>1. phase = "exec" /\ Same /\ (Runs(RemainAdjust(m)) \/ Runs(NextOpcode(m)))
    BY <1>20 DEF Sti, Executes, Board
  <2>2. Carries(nev, m)
    BY <1>5
  <2> HIDE DEF m
  <2>3. Carries(nev, RemainAdjust(m)) /\ Carries(nev, NextOpcode(m))
    BY <2>2, ListCounters, ListCarries DEF Carries, Listed
  <2> QED  BY <1>2, <1>4, <2>1, <2>3
<1>21. CASE InData \/ HandlerRead
  <2>1. phase = "exec" /\ multiple' = multiple /\ kbd' = DataRead(kbd) /\ Runs(Spend(nev, 1))
    BY <1>21 DEF InData, HandlerRead, ReadData, Executes, Handles, Board
  <2>2. Went /\ Stays
    BY <1>2, <1>5, <2>1
  <2>3. KeyboardIdle(kbd') <=> KeyboardIdle(kbd)
    BY <2>1 DEF DataRead, KeyboardIdle
  <2> QED  BY <1>0, <2>1, <2>2, <2>3 DEF ListInv, KeysDue
<1>22. CASE \E rate \in Modes : OutTimer(rate)
  <2>1. phase = "exec" /\ Same /\ RunsOn(SetAbsolute(Spend(nev, 1), "ITIMER", multiple * Period))
    BY <1>22 DEF OutTimer, Executes
  <2> DEFINE m == Spend(nev, 1)
  <2>2. Carries(nev, m)
    BY <1>5
  <2> HIDE DEF m
  <2>3. Listed(m) /\ "ITIMER" \in Event /\ multiple * Period \in Int
    BY <1>0, <2>2, Times DEF Carries
  <2>4. Carries(m, SetAbsolute(m, "ITIMER", multiple * Period))
    BY <2>3, ListCarries
  <2>5. Carries(nev, SetAbsolute(Spend(nev, 1), "ITIMER", multiple * Period))
    BY <2>2, <2>4 DEF Carries, m
  <2> QED  BY <1>2, <1>4, <2>1, <2>5
<1>23. CASE \E r \in Reply, n \in 1 .. 3 : OutCommand([i \in 1 .. n |-> r])
  <2>1. PICK reply : OutCommand(reply)
    BY <1>23
  <2>2. phase = "exec" /\ multiple' = multiple /\ RunsOn(KeyboardArmed(Spend(nev, 1)))
    BY <2>1 DEF OutCommand, Executes, Board
  <2>3. Carries(nev, Spend(nev, 1))
    BY <1>5
  <2>4. Carries(nev, KeyboardArmed(Spend(nev, 1))) /\ Rings(KeyboardArmed(Spend(nev, 1)), K)
    BY <1>0, <2>3, ArmedCarries DEF Carries
  <2>5. Went /\ Rings(nev', K)
    BY <1>2, <2>2, <2>4
  <2> QED  BY <1>0, <2>2, <2>5 DEF ListInv, KeysDue
<1>24. CASE \E held \in BOOLEAN : OutKeyReset(held)
  <2> DEFINE n == NeventReset(Spend(nev, 1), K)
             k == KeyboardResetSignal(kbd)
  <2>1. phase = "exec" /\ multiple' = multiple /\ (RunsOn(KeyboardArmed(n)) \/ (kbd' = k /\ Runs(n)))
    BY <1>24 DEF OutKeyReset, Executes, Board
  <2>2. Listed(Spend(nev, 1)) /\ Spend(nev, 1).wait = nev.wait
    BY <1>5 DEF Carries
  <2>3. Listed(n) /\ n.wait = nev.wait
    BY <2>2, ListReset
  <2> HIDE DEF n
  <2>4. /\ Listed(KeyboardArmed(n)) /\ KeyboardArmed(n).wait = nev.wait
        /\ Rings(KeyboardArmed(n), K)
    BY <1>0, <2>3, ArmedCarries DEF Carries
  <2>5. ASSUME NEW m, Listed(m), m.wait = nev.wait, Runs(m) \/ RunsOn(m)
        PROVE  Went /\ (Rings(m, K) => Rings(nev', K))
    BY <1>0, <1>1, <2>1, <2>5 DEF Runs, RunsOn
  <2>6. CASE RunsOn(KeyboardArmed(n))
    <3>1. Went /\ Rings(nev', K)
      BY <2>4, <2>5, <2>6
    <3> QED  BY <1>0, <2>1, <3>1 DEF ListInv, KeysDue
  <2>7. CASE kbd' = k /\ Runs(n)
    <3>1. Went
      BY <2>3, <2>5, <2>7
    <3>2. KeyboardIdle(kbd')
      BY <2>7 DEF KeyboardResetSignal, KeyboardIdle
    <3> QED  BY <1>0, <2>1, <3>1, <3>2 DEF ListInv, KeysDue
  <2> QED  BY <2>1, <2>6, <2>7
<1>25. CASE UNCHANGED vars
  BY <1>25 DEF vars, ListInv, KeysDue
<1> QED  BY <1>6, <1>7, <1>8, <1>9, <1>10, <1>13, <1>14, <1>15, <1>16, <1>17, <1>18, <1>19, <1>20,
            <1>21, <1>22, <1>23, <1>24, <1>25
         DEF Next, Program, HandlerStep, Callback

(* A byte in the data register was announced: by a request, by the handler *)
(* that will read it, or by a request that ICW1 has dropped.               *)
Serving(hs) == \E i \in 1 .. Len(hs) : hs[i].step = "serve"
Told == kbd.ready => Keyboard \in MasterIrr \/ Serving(handlers) \/ wiped

LEMMA ToldNext ==
  ASSUME Sound(pic, handlers, ei), kbd \in KeyItem, Told, [Next]_vars
  PROVE  Told'
<1> DEFINE Ready == kbd'.ready => kbd.ready
           Asked == Keyboard \in MasterIrr => Keyboard \in MasterIrr'
           Still == Serving(handlers) => Serving(handlers')
<1>1. /\ pic \in [Chip -> PicItem] /\ pic["master"] \in PicItem /\ pic["slave"] \in PicItem
      /\ "master" \in Chip /\ "slave" \in Chip
      /\ handlers \in Seq(HandlerType)
  BY Pending DEF Sound, Wired, Chip, Handling
<1>2. CASE Ready /\ Asked /\ Still /\ (wiped => wiped')
  BY <1>2 DEF Told
<1>3. CASE kbd' = kbd /\ pic' = pic /\ handlers' = handlers /\ wiped' = wiped
  BY <1>2, <1>3 DEF MasterIrr
<1>4. CASE ~kbd'.ready
  BY <1>4 DEF Told
<1>5. CASE Irq
  <2>1. kbd' = kbd /\ wiped' = wiped
    BY <1>5 DEF Irq
  <2>2. CASE pic' = pic /\ handlers' = handlers
    BY <1>3, <2>1, <2>2
  <2>3. CASE /\ Taken \in Irqs /\ pic' = PicTake(pic, Taken)
             /\ handlers' = Append(handlers, [irq |-> Taken,
                  step |-> IF Taken = Keyboard THEN "serve" ELSE "eoi"])
    <3> DEFINE h == [irq |-> Taken, step |-> IF Taken = Keyboard THEN "serve" ELSE "eoi"]
               m == IF Taken < Levels THEN Taken ELSE Cascade
    <3>1. Taken < Levels => Taken % Levels = Taken
      BY <2>3, Numbers
    <3>2. pic'["master"].irr = pic["master"].irr \ {m}
      BY <1>1, <2>3, <3>1 DEF PicTake, PicItem
    <3>3. Taken # Keyboard => m # Keyboard
      BY Numbers
    <3>4. Taken = Keyboard => h.step = "serve"
      OBVIOUS
    <3> HIDE DEF h, m
    <3>5. /\ Len(handlers') = Len(handlers) + 1 /\ Len(handlers) \in Nat
          /\ handlers'[Len(handlers) + 1] = h
          /\ \A i \in 1 .. Len(handlers) : handlers'[i] = handlers[i]
      BY <1>1, <2>3 DEF h
    <3>6. Still
      BY <3>5 DEF Serving
    <3>7. Taken = Keyboard => Serving(handlers')
      BY <3>4, <3>5 DEF Serving
    <3>8. Taken # Keyboard => Asked
      BY <3>2, <3>3 DEF MasterIrr
    <3> QED  BY <1>2, <2>1, <3>6, <3>7, <3>8 DEF Told
  <2> QED  BY <1>5, <2>2, <2>3, IrqIsRight
<1>6. CASE HostKey
  <2>1. /\ kbd' = KeyboardSend(kbd, next) /\ pic' = pic /\ handlers' = handlers
        /\ wiped' = wiped
    BY <1>6 DEF HostKey, guest
  <2>2. kbd'.ready = kbd.ready
    BY <2>1 DEF KeyboardSend, KeyItem
  <2> QED  BY <1>2, <2>1, <2>2 DEF MasterIrr
<1>7. CASE HostFrame \/ (\E m \in Multiples : HostSpeed(m)) \/ Progress
  BY <1>3, <1>7 DEF HostFrame, HostSpeed, Progress, guest, history
<1>8. CASE \/ (\E cost \in Costs : Run(cost)) \/ Hlt \/ Cli \/ Sti \/ OutVsync
  BY <1>3, <1>8 DEF Run, Hlt, Cli, Sti, OutVsync, guest, history
<1>9. /\ Keyboard \in MasterIrr => Keyboard \in SetIrq(pic, SystemTimer)["master"].irr
      /\ Keyboard \in MasterIrr => Keyboard \in SetIrq(pic, Crtv)["master"].irr
      /\ Keyboard \in MasterIrr => Keyboard \in ResetIrq(pic, SystemTimer)["master"].irr
      /\ Keyboard \in MasterIrr => Keyboard \in ResetIrq(pic, Crtv)["master"].irr
      /\ Keyboard \in SetIrq(pic, Keyboard)["master"].irr
  <2>1. /\ Keyboard # Crtv /\ Keyboard # SystemTimer /\ SystemTimer # Crtv
        /\ ~(Keyboard >= Levels) /\ ~(SystemTimer >= Levels) /\ ~(Crtv >= Levels)
    BY PicAssumption DEF Keyboard, Crtv, SystemTimer
  <2>2. /\ SetIrq(pic, SystemTimer)["master"].irr = pic["master"].irr \cup {SystemTimer}
        /\ SetIrq(pic, Keyboard)["master"].irr = pic["master"].irr \cup {Keyboard}
    BY <1>1, <2>1 DEF SetIrq, PicItem
  <2>3. \/ SetIrq(pic, Crtv)["master"].irr = pic["master"].irr \cup {Crtv}
        \/ SetIrq(pic, Crtv)["master"].irr = pic["master"].irr \ {Crtv}
    BY <1>1, <2>1 DEF SetIrq, PicItem
  <2>4. /\ ResetIrq(pic, SystemTimer)["master"].irr = pic["master"].irr \ {SystemTimer}
        /\ ResetIrq(pic, Crtv)["master"].irr = pic["master"].irr \ {Crtv}
    BY <1>1 DEF ResetIrq, PicItem
  <2> QED  BY <2>1, <2>2, <2>3, <2>4 DEF MasterIrr
<1>10. CASE Systimer \/ Picmask \/ Screenvsync \/ Screendisp
  <2>1. kbd' = kbd /\ handlers' = handlers /\ wiped' = wiped
    BY <1>10 DEF Systimer, Picmask, Screenvsync, Screendisp, guest, history
  <2>2. \/ pic' = pic \/ pic' = SetIrq(pic, SystemTimer) \/ pic' = SetIrq(pic, Crtv)
        \/ pic' = ResetIrq(pic, SystemTimer) \/ pic' = ResetIrq(pic, Crtv)
    BY <1>10 DEF Systimer, Picmask, Screenvsync, Screendisp
  <2>3. Asked
    BY <1>9, <2>2 DEF MasterIrr
  <2> QED  BY <1>2, <2>1, <2>3
<1>11. CASE KeyboardCallback
  <2>1. CASE pic' = SetIrq(pic, Keyboard)
    BY <1>9, <2>1 DEF Told, MasterIrr
  <2>2. handlers' = handlers
    BY <1>11 DEF KeyboardCallback, guest
  <2> QED  BY <1>3, <1>11, <2>1, <2>2 DEF KeyboardCallback
<1>12. CASE \E m \in Masks, c \in Chip : OutMask(c, m[c])
  <2>1. PICK m \in Masks, c \in Chip : OutMask(c, m[c])
    BY <1>12
  <2>2. /\ pic' = SetMask(pic, c, m[c]) /\ kbd' = kbd /\ handlers' = handlers
        /\ wiped' = wiped
    BY <2>1 DEF OutMask, guest, history
  <2>3. pic'["master"].irr = pic["master"].irr
    BY <1>1, <2>2 DEF SetMask, PicItem
  <2> QED  BY <1>2, <2>2, <2>3 DEF MasterIrr
<1>13. CASE OutIcw
  <2>1. /\ kbd' = kbd /\ handlers' = handlers
        /\ wiped' = (wiped \/ Keyboard \in MasterIrr)
    BY <1>13 DEF OutIcw, guest
  <2> QED  BY <2>1 DEF Told
<1>14. CASE \E rate \in Modes : OutTimer(rate)
  <2>1. /\ kbd' = kbd /\ handlers' = handlers /\ wiped' = wiped
        /\ pic' = ResetIrq(pic, SystemTimer)
    BY <1>14 DEF OutTimer, guest
  <2> QED  BY <1>2, <1>9, <2>1 DEF MasterIrr
<1>15. CASE \E line \in Device : OutDevice(line)
  <2>1. PICK line \in Device : OutDevice(line)
    BY <1>15
  <2>2. line \in Lines
    BY BoardAssumption
  <2>3. /\ pic' = SetIrq(pic, Levels + line) /\ kbd' = kbd /\ handlers' = handlers
        /\ wiped' = wiped
    BY <2>1 DEF OutDevice, guest
  <2>4. pic'["master"].irr = pic["master"].irr
    BY <1>1, <2>2, <2>3, Numbers DEF SetIrq
  <2> QED  BY <1>2, <2>3, <2>4 DEF MasterIrr
<1>16. CASE \E r \in Reply, n \in 1 .. 3 : OutCommand([i \in 1 .. n |-> r])
  <2>1. PICK reply : OutCommand(reply)
    BY <1>16
  <2>2. /\ kbd' = KeyboardCtrl(kbd, reply) /\ pic' = pic /\ handlers' = handlers
        /\ wiped' = wiped
    BY <2>1 DEF OutCommand, guest
  <2>3. kbd'.ready = kbd.ready
    BY <2>2 DEF KeyboardCtrl, KeyItem
  <2> QED  BY <1>2, <2>2, <2>3 DEF MasterIrr
<1>17. CASE \E held \in BOOLEAN : OutKeyReset(held)
  <2> DEFINE k == KeyboardResetSignal(kbd)
  <2>1. kbd' = KeyboardSend(k, next) \/ kbd' = k
    BY <1>17 DEF OutKeyReset
  <2>2. <<>> \in Seq(Reply) /\ <<>> \in Seq(Byte)
    OBVIOUS
  <2>3. k \in KeyItem /\ ~k.ready
    BY <2>2 DEF KeyboardResetSignal, KeyItem
  <2> HIDE DEF k
  <2>4. KeyboardSend(k, next).ready = k.ready
    BY <2>3 DEF KeyboardSend, KeyItem
  <2> QED  BY <1>4, <2>1, <2>3, <2>4
<1>18. CASE InData \/ HandlerRead
  <2>1. kbd' = DataRead(kbd)
    BY <1>18 DEF InData, HandlerRead, ReadData
  <2>2. ~kbd'.ready
    BY <2>1 DEF DataRead, KeyItem
  <2> QED  BY <1>4, <2>2
<1>19. ASSUME handlers # <<>>, Handler.step # "serve",
              \/ \E s : handlers' = [handlers EXCEPT ![Len(handlers)].step = s]
              \/ handlers' = SubSeq(handlers, 1, Len(handlers) - 1)
       PROVE  Still
  <2> SUFFICES ASSUME NEW i \in 1 .. Len(handlers), handlers[i].step = "serve"
               PROVE  Serving(handlers')
    BY DEF Serving
  <2>1. i \in 1 .. Len(handlers) - 1 /\ Len(handlers) \in Nat
    BY <1>1, <1>19 DEF Handler
  <2>2. /\ i \in 1 .. Len(handlers') /\ handlers'[i] = handlers[i]
    <3>1. CASE \E s : handlers' = [handlers EXCEPT ![Len(handlers)].step = s]
      <4>1. PICK s : handlers' = [handlers EXCEPT ![Len(handlers)].step = s]
        BY <3>1
      <4>2. Len(handlers') = Len(handlers) /\ \A j \in 1 .. Len(handlers) - 1 : handlers'[j] = handlers[j]
        BY <1>1, <2>1, <4>1
      <4> QED  BY <2>1, <4>2
    <3>2. CASE handlers' = SubSeq(handlers, 1, Len(handlers) - 1)
      BY <1>1, <2>1, <3>2
    <3> QED  BY <1>19, <3>1, <3>2
  <2> QED  BY <2>2 DEF Serving
<1>20. CASE \E rotate \in Rotations : HandlerEoi(rotate) \/ HandlerEoiMaster(rotate)
  <2>1. \A c \in Chip : \A rotate : EndOfInterrupt(pic, c, rotate)["master"].irr = pic["master"].irr
    BY <1>1 DEF EndOfInterrupt, PicItem
  <2>2. PICK rotate \in Rotations : HandlerEoi(rotate) \/ HandlerEoiMaster(rotate)
    BY <1>20
  <2>3. CASE HandlerEoi(rotate)
    <3>1. /\ pic' = EndOfInterrupt(pic, IF Handler.irq >= Levels THEN "slave" ELSE "master", rotate)
          /\ kbd' = kbd /\ wiped' = wiped
          /\ handlers # <<>> /\ Handler.step = "eoi"
          /\ \E s : handlers' = [handlers EXCEPT ![Len(handlers)].step = s]
      BY <2>3 DEF HandlerEoi, Handles, NextStep
    <3>2. Still
      BY <1>19, <3>1
    <3> QED  BY <1>1, <1>2, <2>1, <3>1, <3>2 DEF MasterIrr
  <2>4. CASE HandlerEoiMaster(rotate)
    <3>1. /\ pic' = EndOfInterrupt(pic, "master", rotate)
          /\ kbd' = kbd /\ wiped' = wiped
          /\ handlers # <<>> /\ Handler.step = "eoi master"
          /\ \E s : handlers' = [handlers EXCEPT ![Len(handlers)].step = s]
      BY <2>4 DEF HandlerEoiMaster, Handles, NextStep
    <3>2. Still
      BY <1>19, <3>1
    <3> QED  BY <1>1, <1>2, <2>1, <3>1, <3>2 DEF MasterIrr
  <2> QED  BY <2>2, <2>3, <2>4
<1>21. CASE HandlerIret
  <2>1. /\ pic' = pic /\ kbd' = kbd /\ wiped' = wiped
        /\ handlers # <<>> /\ Handler.step = "iret"
        /\ handlers' = SubSeq(handlers, 1, Len(handlers) - 1)
    BY <1>21 DEF HandlerIret, Handles, history
  <2>2. Still
    BY <1>19, <2>1
  <2> QED  BY <1>2, <2>1, <2>2 DEF MasterIrr
<1>22. CASE UNCHANGED vars
  BY <1>3, <1>22 DEF vars, guest, history
<1> QED  BY <1>5, <1>6, <1>7, <1>8, <1>10, <1>11, <1>12, <1>13, <1>14, <1>15, <1>16, <1>17, <1>18,
            <1>20, <1>21, <1>22
         DEF Next, Program, HandlerStep, Callback

(* The replies to one command fit. *)
LEMMA RepliesNext ==
  ASSUME kbd \in KeyItem, Len(kbd.ctr) <= KbCtr, [Next]_vars
  PROVE  Len(kbd'.ctr) <= KbCtr
<1>1. KbCtr \in Nat /\ kbd.ctr \in Seq(Reply)
  BY KeybrdAssumption DEF KeyItem
<1>2. CASE kbd'.ctr = kbd.ctr
  BY <1>2
<1>3. CASE kbd' = kbd
  BY <1>3
<1>4. CASE HostKey
  <2>1. kbd' = KeyboardSend(kbd, next)
    BY <1>4 DEF HostKey
  <2>2. kbd'.ctr = kbd.ctr
    BY <2>1 DEF KeyboardSend, KeyItem
  <2> QED  BY <1>2, <2>2
<1>5. CASE KeyboardCallback
  <2>1. kbd' = kbd \/ kbd' = Receive(kbd)
    BY <1>5 DEF KeyboardCallback
  <2>2. \/ Receive(kbd).ctr = kbd.ctr
        \/ kbd.ctr # <<>> /\ Receive(kbd).ctr = Tail(kbd.ctr)
    BY DEF Receive, KeyItem
  <2>3. kbd.ctr # <<>> => Len(Tail(kbd.ctr)) = Len(kbd.ctr) - 1 /\ Len(kbd.ctr) \in Nat
    BY <1>1
  <2>4. Len(Receive(kbd).ctr) <= KbCtr
    <3>1. CASE Receive(kbd).ctr = kbd.ctr
      BY <3>1
    <3>2. CASE kbd.ctr # <<>> /\ Receive(kbd).ctr = Tail(kbd.ctr)
      <4> HIDE DEF KeyItem
      <4> QED  BY <1>1, <2>3, <3>2
    <3> QED  BY <2>2, <3>1, <3>2
  <2> QED  BY <2>1, <2>4
<1>6. CASE \E r \in Reply, n \in 1 .. 3 : OutCommand([i \in 1 .. n |-> r])
  <2>1. \A r \in Reply, n \in 1 .. 3 : [i \in 1 .. n |-> r] \in Seq(Reply)
    OBVIOUS
  <2>2. PICK reply \in Seq(Reply) : OutCommand(reply)
    BY <1>6, <2>1
  <2> DEFINE m == Min({KbCtr, Len(reply)})
  <2>3. m \in Nat /\ m <= Len(reply) /\ m <= KbCtr
    <3>1. KbCtr \in Nat /\ Len(reply) \in Nat
      BY <1>1
    <3>2. \E x \in {KbCtr, Len(reply)} : \A y \in {KbCtr, Len(reply)} : x <= y
      BY <3>1
    <3>3. m \in {KbCtr, Len(reply)} /\ \A y \in {KbCtr, Len(reply)} : m <= y
      BY <3>2 DEF Min
    <3> QED  BY <3>1, <3>3
  <2>4. kbd'.ctr = SubSeq(reply, 1, m)
    BY <2>2 DEF OutCommand, KeyboardCtrl, KeyItem
  <2> HIDE DEF m
  <2>5. Len(SubSeq(reply, 1, m)) = m
    BY <2>3
  <2> QED  BY <2>3, <2>4, <2>5
<1>7. CASE \E held \in BOOLEAN : OutKeyReset(held)
  <2> DEFINE k == KeyboardResetSignal(kbd)
  <2>1. kbd' = KeyboardSend(k, next) \/ kbd' = k
    BY <1>7 DEF OutKeyReset
  <2>2. <<>> \in Seq(Reply) /\ <<>> \in Seq(Byte) /\ Len(<<>>) = 0
    OBVIOUS
  <2>3. k \in KeyItem /\ k.ctr = <<>>
    BY <2>2 DEF KeyboardResetSignal, KeyItem
  <2> HIDE DEF k
  <2>4. KeyboardSend(k, next).ctr = k.ctr
    BY <2>3 DEF KeyboardSend, KeyItem
  <2> QED  BY <1>1, <2>1, <2>2, <2>3, <2>4
<1>8. CASE InData \/ HandlerRead
  <2>1. kbd' = DataRead(kbd)
    BY <1>8 DEF InData, HandlerRead, ReadData
  <2>2. kbd'.ctr = kbd.ctr
    BY <2>1 DEF DataRead, KeyItem
  <2> QED  BY <1>2, <2>2
<1>9. CASE HostFrame \/ (\E m \in Multiples : HostSpeed(m)) \/ Irq \/ Progress
  BY <1>3, <1>9 DEF HostFrame, HostSpeed, Irq, Progress
<1>10. CASE Systimer \/ Picmask \/ Screenvsync \/ Screendisp
  BY <1>3, <1>10 DEF Systimer, Picmask, Screenvsync, Screendisp
<1>11. CASE \/ (\E cost \in Costs : Run(cost)) \/ Hlt \/ Cli \/ Sti \/ OutIcw \/ OutVsync
            \/ (\E m \in Masks, c \in Chip : OutMask(c, m[c]))
            \/ (\E rate \in Modes : OutTimer(rate)) \/ (\E line \in Device : OutDevice(line))
  BY <1>3, <1>11 DEF Run, Hlt, Cli, Sti, OutIcw, OutVsync, OutMask, OutTimer, OutDevice
<1>12. CASE \/ HandlerIret
            \/ (\E rotate \in Rotations : HandlerEoi(rotate) \/ HandlerEoiMaster(rotate))
  BY <1>3, <1>12 DEF HandlerIret, HandlerEoi, HandlerEoiMaster
<1>13. CASE UNCHANGED vars
  BY <1>3, <1>13 DEF vars
<1> QED  BY <1>4, <1>5, <1>6, <1>7, <1>8, <1>9, <1>10, <1>11, <1>12, <1>13
         DEF Next, Program, HandlerStep, Callback

(* The flags. *)
Flags ==
  /\ phase \in {"host", "irq", "exec", "progress", "call"}
  /\ pit \in [i : BOOLEAN, rate : BOOLEAN]
  /\ vsyncint \in BOOLEAN /\ disp \in BOOLEAN /\ sti \in BOOLEAN /\ prolonged \in BOOLEAN
  /\ wanted \in BOOLEAN /\ wiped \in BOOLEAN
  /\ flames \in {"vsync", "disp"} /\ setups \in 0 .. MaxSetups

LEMMA FlagsNext ==
  ASSUME Flags, [Next]_vars
  PROVE  Flags'
<1> DEFINE P == {"host", "irq", "exec", "progress", "call"}
           Inner == /\ pit' = pit /\ flames' = flames
           Others == /\ vsyncint' = vsyncint /\ wanted' = wanted /\ wiped' = wiped
           Same == setups' = setups
<1>1. ASSUME NEW m, Runs(m) \/ RunsOn(m)
      PROVE  phase' \in P /\ prolonged' \in BOOLEAN
  BY <1>1 DEF Runs, RunsOn
<1>2. ASSUME NEW m, NEW d, Goes(m, d) PROVE phase' \in P /\ disp' = d
  BY <1>2 DEF Goes
<1>3. Setup => setups' \in 0 .. MaxSetups
  BY BoardAssumption DEF Setup, Flags
<1>4. CASE HostKey \/ HostFrame \/ (\E m \in Multiples : HostSpeed(m))
  BY <1>3, <1>4 DEF HostKey, HostFrame, HostSpeed, Flags, history
<1>5. CASE Irq
  <2>1. \E m : Runs(m)
    BY <1>5 DEF Irq
  <2>2. /\ wanted' = (wanted /\ Taken # Crtv) /\ sti' = FALSE
        /\ UNCHANGED <<pit, vsyncint, flames, disp, wiped, setups>>
    BY <1>5 DEF Irq
  <2> QED  BY <1>1, <2>1, <2>2 DEF Flags
<1>6. CASE Progress
  <2>1. /\ Goes(NeventProgress(nev), disp /\ NeventIsWork(nev, "FLAMES")) /\ sti' = FALSE
        /\ UNCHANGED <<pit, vsyncint, flames, prolonged, wanted, wiped, setups>>
    BY <1>6 DEF Progress, history
  <2>2. phase' \in P /\ disp' \in BOOLEAN
    BY <2>1 DEF Goes, Flags
  <2> QED  BY <2>1, <2>2 DEF Flags
<1>7. CASE Systimer
  <2>1. phase' \in P /\ disp' = disp
    BY <1>7 DEF Systimer, Goes
  <2>2. /\ pit' = [pit EXCEPT !.i = pit.rate]
        /\ UNCHANGED <<vsyncint, flames, sti, prolonged, wanted, wiped, setups>>
    BY <1>7 DEF Systimer, history
  <2> QED  BY <2>1, <2>2 DEF Flags
<1>8. CASE Picmask
  <2>1. phase' \in P /\ disp' = disp
    BY <1>8 DEF Picmask, Goes
  <2>2. UNCHANGED <<pit, vsyncint, flames, sti, prolonged, wanted, wiped, setups>>
    BY <1>8 DEF Picmask, history
  <2> QED  BY <2>1, <2>2 DEF Flags
<1>9. CASE KeyboardCallback
  <2>1. phase' \in P /\ disp' = disp
    BY <1>9 DEF KeyboardCallback, Goes
  <2>2. /\ wiped' = FALSE \/ wiped' = wiped
        /\ UNCHANGED <<pit, vsyncint, flames, sti, prolonged, wanted, setups>>
    BY <1>9 DEF KeyboardCallback
  <2> QED  BY <2>1, <2>2 DEF Flags
<1>10. CASE Screenvsync
  <2>1. phase' \in P /\ disp' = disp
    BY <1>10 DEF Screenvsync, Goes
  <2>2. /\ vsyncint' = (vsyncint /\ Crtv \in pic["master"].isr) /\ flames' = "disp"
        /\ UNCHANGED <<pit, sti, prolonged, wanted, wiped, setups>>
    BY <1>10 DEF Screenvsync, history
  <2> QED  BY <2>1, <2>2 DEF Flags
<1>11. CASE Screendisp
  <2>1. phase' \in P /\ disp' \in BOOLEAN
    BY <1>11 DEF Screendisp, Goes
  <2>2. /\ vsyncint' = (vsyncint \/ Crtv \in MasterIrr)
        /\ UNCHANGED <<pit, flames, sti, prolonged, wanted, wiped, setups>>
    BY <1>11 DEF Screendisp, history
  <2> QED  BY <2>1, <2>2 DEF Flags
<1>12. ASSUME phase' \in P, prolonged' \in BOOLEAN, sti' \in BOOLEAN,
              UNCHANGED <<pit, flames, disp>>, vsyncint' \in BOOLEAN,
              wanted' \in BOOLEAN, wiped' \in BOOLEAN, Same \/ Setup
       PROVE  Flags'
  BY <1>3, <1>12 DEF Flags
<1>13. /\ vsyncint \in BOOLEAN /\ wanted \in BOOLEAN /\ wiped \in BOOLEAN
  BY DEF Flags
<1>14. CASE \/ (\E cost \in Costs : Run(cost)) \/ Hlt \/ Cli \/ Sti
            \/ (\E m \in Masks, c \in Chip : OutMask(c, m[c])) \/ HandlerIret
            \/ (\E line \in Device : OutDevice(line))
            \/ (\E rotate \in Rotations : HandlerEoi(rotate) \/ HandlerEoiMaster(rotate))
            \/ (\E r \in Reply, n \in 1 .. 3 : OutCommand([i \in 1 .. n |-> r]))
  <2>1. (\E m : Runs(m) \/ RunsOn(m)) /\ sti' \in BOOLEAN
    BY <1>14 DEF Run, Hlt, Cli, Sti, OutMask, HandlerIret, OutDevice, HandlerEoi, HandlerEoiMaster,
                 OutCommand
  <2>2. UNCHANGED <<pit, flames, disp, vsyncint, wanted, wiped>> /\ (Same \/ Setup)
    BY <1>14 DEF Run, Hlt, Cli, Sti, OutMask, HandlerIret, OutDevice, HandlerEoi, HandlerEoiMaster,
                 OutCommand, Board, history, Rotates
  <2> QED  BY <1>1, <1>12, <1>13, <2>1, <2>2
<1>15. CASE \E held \in BOOLEAN : OutKeyReset(held)
  <2>1. (\E m : Runs(m) \/ RunsOn(m)) /\ sti' = FALSE
    BY <1>15 DEF OutKeyReset
  <2>2. UNCHANGED <<pit, flames, disp, vsyncint, wanted, wiped>> /\ Setup
    BY <1>15 DEF OutKeyReset, Board
  <2> QED  BY <1>1, <1>12, <1>13, <2>1, <2>2
<1>16. CASE OutIcw
  <2>1. (\E m : Runs(m)) /\ sti' = FALSE /\ UNCHANGED <<pit, flames, disp, vsyncint>> /\ Setup
    BY <1>16 DEF OutIcw, Board
  <2>2. wanted' \in BOOLEAN /\ wiped' \in BOOLEAN
    BY <1>16 DEF OutIcw
  <2> QED  BY <1>1, <1>12, <1>13, <2>1, <2>2
<1>17. CASE OutVsync
  <2>1. (\E m : Runs(m)) /\ sti' = FALSE /\ UNCHANGED <<pit, flames, disp, wiped>> /\ Same
    BY <1>17 DEF OutVsync, Board
  <2>2. wanted' = TRUE /\ vsyncint' = TRUE
    BY <1>17 DEF OutVsync
  <2> QED  BY <1>1, <1>12, <1>13, <2>1, <2>2
<1>18. CASE \E rate \in Modes : OutTimer(rate)
  <2>1. (\E m : RunsOn(m)) /\ sti' = FALSE /\ Setup
        /\ UNCHANGED <<vsyncint, flames, disp, wanted, wiped>>
    BY <1>18 DEF OutTimer
  <2>2. pit' \in [i : BOOLEAN, rate : BOOLEAN]
    BY <1>18, BoardAssumption DEF OutTimer
  <2> QED  BY <1>1, <1>3, <2>1, <2>2 DEF Flags
<1>19. CASE InData \/ HandlerRead
  <2>1. (\E m : Runs(m)) /\ sti' = FALSE /\ wiped' = FALSE
        /\ UNCHANGED <<pit, flames, disp, vsyncint, wanted>> /\ Same
    BY <1>19 DEF InData, HandlerRead, ReadData, Board
  <2> QED  BY <1>1, <1>12, <1>13, <2>1
<1>20. CASE UNCHANGED vars
  BY <1>20 DEF vars, Flags, history
<1> QED  BY <1>4, <1>5, <1>6, <1>7, <1>8, <1>9, <1>10, <1>11, <1>14, <1>15, <1>16, <1>17, <1>18,
            <1>19, <1>20
         DEF Next, Program, HandlerStep, Callback

(* All of it together, from the start. *)
BoardInv ==
  /\ Sound(pic, handlers, ei) /\ InOrder(kbd, heard, next)
  /\ ListInv /\ KeysDue
  /\ Told /\ Len(kbd.ctr) <= KbCtr
  /\ Flags

LEMMA BoardInit == Init => BoardInv
<1> SUFFICES ASSUME Init PROVE BoardInv
  OBVIOUS
<1>1. Sound(pic, handlers, ei) /\ InOrder(kbd, heard, next)
  BY SoundInit, InOrderInit
<1>2. multiple \in Multiples
  <2>1. Multiples \subseteq Nat /\ Multiples # {}
    BY BoardAssumption
  <2>2. PICK m \in Multiples : \A k \in Multiples : m <= k
    BY <2>1, Least
  <2> QED  BY <2>2 DEF Init
<1>3. Listed(NeventAllReset) /\ NeventAllReset.wait = <<>>
  <2>1. NeventAllReset \in NeventType
    BY DEF NeventAllReset, NeventType
  <2> QED  BY <2>1 DEF Listed, NeventAllReset
<1>4. nev = SetAbsolute(NeventAllReset, "ITIMER", multiple * Period) /\ phase = "host"
  BY DEF Init
<1>5. Carries(NeventAllReset, nev)
  BY <1>2, <1>3, <1>4, Times, ListCarries
<1>6. ListInv
  BY <1>2, <1>3, <1>4, <1>5 DEF ListInv, Carries
<1>7. kbd.ctr = <<>> /\ kbd.buf = <<>> /\ kbd.ready = FALSE
  BY DEF Init, KeyboardReset
<1>8. KeysDue /\ Told
  BY <1>7 DEF KeysDue, KeyboardIdle, Told
<1>9. Len(kbd.ctr) <= KbCtr
  BY <1>7, KeybrdAssumption
<1>10. Flags
  <2>1. 0 \in 0 .. MaxSetups
    BY BoardAssumption
  <2>2. /\ phase = "host" /\ pit = [i |-> TRUE, rate |-> TRUE] /\ flames = "vsync"
        /\ vsyncint = FALSE /\ disp = FALSE /\ sti = FALSE /\ prolonged = FALSE
        /\ wanted = FALSE /\ wiped = FALSE /\ setups = 0
    BY DEF Init
  <2> QED  BY <2>1, <2>2 DEF Flags
<1> QED  BY <1>1, <1>6, <1>8, <1>9, <1>10 DEF BoardInv

LEMMA BoardNext ==
  ASSUME BoardInv, [Next]_vars
  PROVE  BoardInv'
<1>1. Sound(pic, handlers, ei)' /\ InOrder(kbd, heard, next)'
  BY SoundNext, InOrderNext DEF BoardInv
<1>2. ListInv' /\ KeysDue'
  BY ListNext DEF BoardInv
<1>3. kbd \in KeyItem
  BY DEF BoardInv, InOrder
<1>4. Told' /\ Len(kbd'.ctr) <= KbCtr
  BY <1>3, ToldNext, RepliesNext DEF BoardInv
<1>5. Flags'
  BY FlagsNext DEF BoardInv
<1> QED  BY <1>1, <1>2, <1>4, <1>5 DEF BoardInv

(* The state of the board has its type whatever the guest does: the lists  *)
(* of events, the counters of the CPU and the keyboard's rings included    *)
(* (nevent.c, pic.c, serial.c): TypeOK of GuestBoard.                      *)
THEOREM TypeCorrect == Spec => []TypeOK
<1>1. BoardInv => TypeOK
  <2> SUFFICES ASSUME BoardInv PROVE TypeOK
    OBVIOUS
  <2>1. nev \in NeventType /\ multiple \in Multiples
    BY DEF BoardInv, ListInv, Listed
  <2>2. pic \in [Chip -> PicItem] /\ handlers \in Seq(HandlerType) /\ ei \in BOOLEAN
    BY DEF BoardInv, Sound, Wired, Handling
  <2>3. handlers \in Seq([irq : Irqs, step : {"serve", "eoi", "eoi master", "iret"}])
    <3>1. HandlerType \subseteq [irq : Irqs, step : {"serve", "eoi", "eoi master", "iret"}]
      BY DEF HandlerType
    <3> HIDE DEF HandlerType
    <3> QED  BY <2>2, <3>1, SeqMonotonic, Zenon
  <2>4. /\ kbd \in KeyItem /\ Len(kbd.buf) <= KbBuf /\ Len(kbd.ctr) <= KbCtr
        /\ heard \in 0 .. Ids - 1 /\ next \in 0 .. Ids - 1
    BY IdNumbers DEF BoardInv, InOrder
  <2>5. kbd \in KeybrdType
    <3>1. \A S : \A n \in Nat : \A s \in Seq(S) : Len(s) <= n => s \in SeqOf(S, n)
      <4> TAKE S
      <4> TAKE n \in Nat
      <4> TAKE s \in Seq(S)
      <4> HAVE Len(s) <= n
      <4>1. Len(s) \in 0 .. n /\ s \in [1 .. Len(s) -> S]
        BY LenProperties
      <4> QED  BY <4>1 DEF SeqOf
    <3>2. kbd.ctr \in SeqOf(Reply, KbCtr) /\ kbd.buf \in SeqOf(Byte, KbBuf)
      BY <2>4, <3>1, KeybrdAssumption DEF KeyItem
    <3> QED  BY <2>4, <3>2 DEF KeyItem, KeybrdType
  <2>6. {vsyncint, disp, ei, sti, prolonged, wanted, wiped} \subseteq BOOLEAN
    BY <2>2 DEF BoardInv, Flags
  <2> QED  BY <2>1, <2>2, <2>3, <2>4, <2>5, <2>6 DEF TypeOK, BoardInv, Flags
<1> QED  BY <1>1, BoardInit, BoardNext, PTL DEF Spec

(* A byte for the guest is never left behind: what is in the buffers has   *)
(* an event that will send it, and what is in the data register a request, *)
(* a handler or an ICW1 that has dropped the request (serial.c:            *)
(* keyboard_callback(), keyboard_send(), keyboard_i41()): NoStrandedKey of *)
(* GuestBoard.                                                             *)
THEOREM NoStrandedKeyHolds == Spec => []NoStrandedKey
<1>1. BoardInv => NoStrandedKey
  BY DEF BoardInv, KeysDue, Rings, Told, Serving, NoStrandedKey, NeventIsWork, Ringing
<1> QED  BY <1>1, BoardInit, BoardNext, PTL DEF Spec

-----------------------------------------------------------------------------
(* The event list implements Alarms.  First the list itself: it stays in   *)
(* the order of its clocks and no event is in it twice, whatever is set,   *)
(* cancelled, called or goes off, and a new clock for the CPU rounds       *)
(* without changing the order.                                             *)

(* A list of different items, in the order of their clocks. *)
Apart(s) == \A i, j \in 1 .. Len(s) : i < j => s[i] # s[j]
Rising(s, c) == \A i, j \in 1 .. Len(s) : i < j => c[s[i]] <= c[s[j]]

LEMMA OnlyApart ==
  ASSUME NEW T, NEW s \in Seq(T), NEW S, Apart(s)
  PROVE  /\ Apart(Only(s, S))
         /\ \A c : Rising(s, c) => Rising(Only(s, S), c)
<1> DEFINE at == Places(s, S)
           n == Cardinality(at)
           o == Only(s, S)
<1>1. n \in Nat
  BY OnlyIs
<1>2. PICK f : Keeps(s, S, f)
  BY OnlyIs
<1>3. at \subseteq 1 .. Len(s)
  BY DEF Places
<1>4. /\ f \in [1 .. n -> at]
      /\ \A k, l \in 1 .. n : k < l => f[k] < f[l]
      /\ o = [k \in 1 .. n |-> s[f[k]]]
  BY <1>2 DEF Keeps
<1> HIDE DEF n, at, o
<1>5. /\ Len(o) = n
      /\ \A k \in 1 .. n : o[k] = s[f[k]]
      /\ \A k \in 1 .. n : f[k] \in 1 .. Len(s)
  <2>1. Len(o) = n
    <3>1. o \in Seq(T) /\ DOMAIN o = 1 .. n
      BY <1>4, OnlyItems DEF o
    <3> QED  BY <1>1, <3>1
  <2>2. \A k \in 1 .. n : f[k] \in 1 .. Len(s)
    BY <1>3, <1>4
  <2> QED  BY <1>4, <2>1, <2>2
<1>6. Apart(o)
  <2> SUFFICES ASSUME NEW k \in 1 .. n, NEW l \in 1 .. n, k < l PROVE o[k] # o[l]
    BY <1>5 DEF Apart
  <2>1. f[k] < f[l]
    BY <1>4
  <2>2. s[f[k]] # s[f[l]]
    BY <1>5, <2>1 DEF Apart
  <2> QED  BY <1>5, <2>2
<1>7. ASSUME NEW c, Rising(s, c) PROVE Rising(o, c)
  BY <1>4, <1>5, <1>7 DEF Rising
<1> QED  BY <1>6, <1>7 DEF o

(* The place of an event that is due at t. *)
LEMMA PlaceAtClock ==
  ASSUME NEW T, NEW s \in Seq(T), NEW c, \A k \in 1 .. Len(s) : c[s[k]] \in Int, NEW t \in Int
  PROVE  LET p == InsertAtClock(s, c, t)
         IN  /\ p \in 1 .. Len(s) + 1
             /\ \A k \in 1 .. Len(s) : k < p => c[s[k]] <= t
             /\ p <= Len(s) => c[s[p]] > t
<1> DEFINE L == Len(s)
           S == {i \in 1 .. L : \A j \in 1 .. i : c[s[j]] <= t}
           E == {i \in 1 .. L + 1 : i = L + 1 \/ c[s[i]] > t}
<1>1. L \in Nat
  OBVIOUS
<1>2. E \subseteq Nat /\ E # {}
  BY <1>1
<1>3. PICK q \in E : \A i \in E : q <= i
  BY <1>2, Least
<1>4. q \in 1 .. L + 1 /\ (q <= L => c[s[q]] > t)
  BY <1>1, <1>3
<1>5. \A k \in 1 .. L : k < q => c[s[k]] <= t
  <2> SUFFICES ASSUME NEW k \in 1 .. L, k < q, ~(c[s[k]] <= t) PROVE FALSE
    OBVIOUS
  <2>1. c[s[k]] > t
    OBVIOUS
  <2>2. k \in E
    BY <1>1, <2>1
  <2> QED  BY <1>1, <1>3, <1>4, <2>2
<1>6. S = 1 .. q - 1
  <2>1. ASSUME NEW i \in S PROVE i \in 1 .. q - 1
    <3>1. ~(q <= i)
      <4> SUFFICES ASSUME q <= i PROVE FALSE
        OBVIOUS
      <4>1. q \in 1 .. i /\ q <= L
        BY <1>1, <1>4
      <4>2. c[s[q]] <= t /\ c[s[q]] > t /\ c[s[q]] \in Int
        BY <1>1, <1>4, <4>1
      <4> QED  BY <4>2
    <3> QED  BY <1>1, <1>4, <3>1
  <2>2. ASSUME NEW i \in 1 .. q - 1 PROVE i \in S
    BY <1>1, <1>4, <1>5
  <2> QED  BY <2>1, <2>2
<1>7. Cardinality(S) = q - 1
  <2> DEFINE m == q - 1
  <2>1. m \in Nat /\ q = m + 1 /\ S = 1 .. m
    BY <1>1, <1>4, <1>6
  <2> HIDE DEF m, S
  <2>2. Cardinality(1 .. m) = IF 1 > m THEN 0 ELSE m - 1 + 1
    BY <2>1, FS_Interval
  <2> QED  BY <2>1, <2>2
<1>8. InsertAtClock(s, c, t) = q
  BY <1>4, <1>7 DEF InsertAtClock, S
<1> QED  BY <1>4, <1>5, <1>8

LEMMA InsertApart ==
  ASSUME NEW T, NEW s \in Seq(T), NEW c \in [T -> Int], NEW d \in [T -> Int],
         NEW x \in T, NEW t \in Int, x \notin ToSet(s),
         Apart(s), Rising(s, c), d = [c EXCEPT ![x] = t]
  PROVE  LET r == InsertAt(s, InsertAtClock(s, c, t), x)
         IN  Apart(r) /\ Rising(r, d)
<1> DEFINE p == InsertAtClock(s, c, t)
           r == InsertAt(s, p, x)
<1>1. Len(s) \in Nat /\ \A k \in 1 .. Len(s) : s[k] \in T /\ s[k] # x
  BY DEF ToSet
<1>2. \A k \in 1 .. Len(s) : c[s[k]] \in Int /\ d[s[k]] = c[s[k]]
  BY <1>1
<1>3. /\ p \in 1 .. Len(s) + 1
      /\ \A k \in 1 .. Len(s) : k < p => c[s[k]] <= t
      /\ p <= Len(s) => c[s[p]] > t
  BY <1>2, PlaceAtClock
<1> HIDE DEF p
<1>4. /\ Len(r) = Len(s) + 1
      /\ \A k \in 1 .. Len(s) + 1 : r[k] = IF k < p THEN s[k] ELSE IF k = p THEN x ELSE s[k - 1]
  BY <1>3, InsertItems
<1> HIDE DEF r
<1>5. \A k \in 1 .. Len(s) : k >= p => c[s[k]] > t
  <2> TAKE k \in 1 .. Len(s)
  <2> HAVE k >= p
  <2>1. c[s[p]] > t /\ p \in 1 .. Len(s)
    BY <1>1, <1>3
  <2>2. k = p \/ p < k
    BY <1>3
  <2>3. c[s[p]] <= c[s[k]]
    BY <1>2, <2>1, <2>2 DEF Rising
  <2> QED  BY <1>2, <2>1, <2>3
<1>6. d[x] = t
  OBVIOUS
<1>7. ASSUME NEW i \in 1 .. Len(r), NEW j \in 1 .. Len(r), i < j
      PROVE  r[i] # r[j] /\ d[r[i]] <= d[r[j]]
  <2>1. CASE j < p
    <3>1. r[i] = s[i] /\ r[j] = s[j] /\ i \in 1 .. Len(s) /\ j \in 1 .. Len(s)
      BY <1>1, <1>3, <1>4, <1>7, <2>1
    <3> QED  BY <1>2, <1>7, <3>1 DEF Apart, Rising
  <2>2. CASE j = p
    <3>1. r[i] = s[i] /\ r[j] = x /\ i \in 1 .. Len(s) /\ i < p
      BY <1>1, <1>3, <1>4, <1>7, <2>2
    <3> QED  BY <1>1, <1>2, <1>3, <1>6, <3>1
  <2>3. CASE j > p /\ i = p
    <3>1. r[i] = x /\ r[j] = s[j - 1] /\ j - 1 \in 1 .. Len(s) /\ j - 1 >= p
      BY <1>1, <1>3, <1>4, <1>7, <2>3
    <3>2. c[s[j - 1]] > t /\ d[r[j]] = c[s[j - 1]] /\ r[j] # x
      BY <1>1, <1>2, <1>5, <3>1
    <3> QED  BY <1>2, <1>6, <3>1, <3>2
  <2>4. CASE j > p /\ i # p
    <3> DEFINE k == IF i < p THEN i ELSE i - 1
    <3>1. r[i] = s[k] /\ r[j] = s[j - 1] /\ k \in 1 .. Len(s) /\ j - 1 \in 1 .. Len(s) /\ k < j - 1
      BY <1>1, <1>3, <1>4, <1>7, <2>4
    <3> HIDE DEF k
    <3> QED  BY <1>2, <3>1 DEF Apart, Rising
  <2> QED  BY <1>1, <1>3, <1>4, <2>1, <2>2, <2>3, <2>4
<1>8. Apart(r) /\ Rising(r, d)
  BY <1>7 DEF Apart, Rising
<1> QED  BY <1>8 DEF r, p

-----------------------------------------------------------------------------
(* What an alarm sees of the list: how long it still has.  An ordered list *)
(* stops the CPU in time if no event is due before the slice is over, and  *)
(* nothing in it is later than b.                                          *)
Left(n, x) == n.clock[x] - NeventNow(n)
Ordered(n) == Listed(n) /\ Apart(n.level) /\ Rising(n.level, n.clock) /\ Apart(n.wait)
Stops(n) == n.rem > 0 => \A x \in ToSet(n.level) : n.rem <= Left(n, x)
Late(n, b) == b <= n.rem /\ \A x \in ToSet(n.level) : b <= Left(n, x)

(* From n to m d clocks passed, and at most the events of T were touched. *)
Ran(n, m, d, T) ==
  /\ m.wait = n.wait /\ NeventNow(m) = NeventNow(n) + d
  /\ m.setevent \subseteq n.setevent /\ n.setevent \ T \subseteq m.setevent
  /\ \A y \in Event \ T : /\ NeventIsWork(m, y) <=> NeventIsWork(n, y)
                          /\ m.clock[y] = n.clock[y]

LEMMA Numeric ==
  ASSUME NEW n \in NeventType
  PROVE  /\ n.base \in Int /\ n.rem \in Int /\ n.clock \in [Event -> Int] /\ NeventNow(n) \in Int
         /\ \A x \in Event : n.clock[x] \in Int /\ Left(n, x) \in Int
         /\ n.level \in Seq(Event) /\ n.wait \in Seq(Event) /\ n.setevent \in SUBSET Event
         /\ ToSet(n.level) \subseteq Event /\ ToSet(n.wait) \subseteq Event
<1>1. /\ n.base \in Int /\ n.rem \in Int /\ n.clock \in [Event -> Int]
      /\ n.level \in Seq(Event) /\ n.wait \in Seq(Event) /\ n.setevent \in SUBSET Event
  BY DEF NeventType
<1>2. NeventNow(n) \in Int
  BY <1>1 DEF NeventNow
<1>3. \A x \in Event : n.clock[x] \in Int /\ Left(n, x) \in Int
  BY <1>1, <1>2 DEF Left
<1>4. ToSet(n.level) \subseteq Event /\ ToSet(n.wait) \subseteq Event
  BY <1>1 DEF ToSet
<1> QED  BY <1>1, <1>2, <1>3, <1>4

LEMMA RanTwice ==
  ASSUME NEW n, NEW m, NEW o, NEW d \in Int, NEW e \in Int, NEW T, NEW U,
         n \in NeventType, Ran(n, m, d, T), Ran(m, o, e, U)
  PROVE  Ran(n, o, d + e, T \cup U)
<1>1. NeventNow(o) = NeventNow(n) + (d + e)
  BY Numeric DEF Ran
<1> QED  BY <1>1 DEF Ran

(* A move of the counters is the same time for all. *)
Moved(n, m) == Alike(n, m) /\ m.clock = n.clock

LEMMA MovedIs ==
  ASSUME NEW n, NEW m, Ordered(n), Moved(n, m), NEW d \in Int, NeventNow(m) = NeventNow(n) + d
  PROVE  /\ Ordered(m) /\ Ran(n, m, d, {})
         /\ \A x \in Event : Left(m, x) = Left(n, x) - d
         /\ n.level = m.level /\ m.rem \in Int
<1>1. n \in NeventType /\ m \in NeventType
  BY DEF Ordered, Listed, Moved, Alike
<1>2. \A x \in Event : Left(m, x) = Left(n, x) - d
  BY <1>1, Numeric DEF Left, Moved
<1>3. Ordered(m)
  BY AlikeListed DEF Ordered, Moved, Alike
<1>4. Ran(n, m, d, {})
  BY DEF Ran, Moved, Alike, NeventIsWork
<1> QED  BY <1>1, <1>2, <1>3, <1>4, Numeric DEF Moved, Alike

LEMMA Counters ==
  ASSUME NEW n \in NeventType
  PROVE  /\ \A c \in Int : /\ Moved(n, Spend(n, c)) /\ Spend(n, c).rem = n.rem - c
                           /\ NeventNow(Spend(n, c)) = NeventNow(n) + c
         /\ LET m == NeventForceExit(n)
            IN  Moved(n, m) /\ NeventNow(m) = NeventNow(n) /\ m.rem = IF n.rem > 0 THEN 0 ELSE n.rem
         /\ LET m == NextOpcode(n)
            IN  Moved(n, m) /\ NeventNow(m) = NeventNow(n) /\ m.rem = IF n.rem < 1 THEN 1 ELSE n.rem
         /\ LET m == RemainAdjust(n)
            IN  Moved(n, m) /\ NeventNow(m) = NeventNow(n) /\ m.rem = 1
         /\ LET m == [n EXCEPT !.rem = -1]
            IN  Moved(n, m) /\ NeventNow(m) = NeventNow(n) + (n.rem + 1) /\ m.rem = -1
         /\ \A t \in Int : LET m == FirstEvent(n, t)
            IN  Moved(n, m) /\ NeventNow(m) = NeventNow(n) /\ m.base = t
<1>1. n.base \in Int /\ n.rem \in Int
  BY DEF NeventType
<1>2. \A b, r \in Int :
        LET m == [n EXCEPT !.base = b, !.rem = r]
        IN  Moved(n, m) /\ m.base = b /\ m.rem = r /\ NeventNow(m) = b - r
  BY DEF NeventType, Moved, Alike, NeventNow
<1>3. \A r \in Int :
        LET m == [n EXCEPT !.rem = r]
        IN  Moved(n, m) /\ m.base = n.base /\ m.rem = r /\ NeventNow(m) = n.base - r
  BY DEF NeventType, Moved, Alike, NeventNow
<1>4. ASSUME NEW c \in Int
      PROVE  /\ Moved(n, Spend(n, c)) /\ Spend(n, c).rem = n.rem - c
             /\ NeventNow(Spend(n, c)) = NeventNow(n) + c
  <2>1. n.rem - c \in Int /\ n.base - (n.rem - c) = (n.base - n.rem) + c
    BY <1>1
  <2> QED  BY <1>3, <2>1, Zenon DEF Spend, NeventNow
<1>5. Moved(n, n)
  BY DEF Moved, Alike
<1>6. LET m == NeventForceExit(n)
      IN  Moved(n, m) /\ NeventNow(m) = NeventNow(n) /\ m.rem = IF n.rem > 0 THEN 0 ELSE n.rem
  <2> DEFINE m == [n EXCEPT !.base = @ - n.rem, !.rem = 0]
  <2> DEFINE b == n.base - n.rem
  <2>a. b \in Int /\ 0 \in Int /\ 1 \in Int /\ m = [n EXCEPT !.base = b, !.rem = 0]
    BY <1>1
  <2> HIDE DEF b, m
  <2>1. Moved(n, m) /\ m.rem = 0 /\ NeventNow(m) = b - 0
    BY <1>2, <2>a, Zenon
  <2>2. NeventForceExit(n) = IF n.rem > 0 THEN m ELSE n
    BY DEF NeventForceExit, m
  <2>3. NeventNow(m) = NeventNow(n)
    BY <1>1, <2>1 DEF NeventNow, b
  <2> QED  BY <1>5, <2>1, <2>2, <2>3
<1>7. LET m == RemainAdjust(n)
      IN  Moved(n, m) /\ NeventNow(m) = NeventNow(n) /\ m.rem = 1
  <2> DEFINE m == [n EXCEPT !.base = @ + (1 - n.rem), !.rem = 1]
  <2> DEFINE b == n.base + (1 - n.rem)
  <2>a. b \in Int /\ 0 \in Int /\ 1 \in Int /\ m = [n EXCEPT !.base = b, !.rem = 1]
    BY <1>1
  <2> HIDE DEF b, m
  <2>1. Moved(n, m) /\ m.rem = 1 /\ NeventNow(m) = b - 1
    BY <1>2, <2>a, Zenon
  <2>2. RemainAdjust(n) = m
    BY DEF RemainAdjust, m
  <2>3. NeventNow(m) = NeventNow(n)
    BY <1>1, <2>1 DEF NeventNow, b
  <2> QED  BY <2>1, <2>2, <2>3
<1>8. LET m == NextOpcode(n)
      IN  Moved(n, m) /\ NeventNow(m) = NeventNow(n) /\ m.rem = IF n.rem < 1 THEN 1 ELSE n.rem
  <2>1. NextOpcode(n) = IF n.rem < 1 THEN RemainAdjust(n) ELSE n
    BY DEF NextOpcode, RemainAdjust
  <2> QED  BY <1>5, <1>7, <2>1
<1>9. LET m == [n EXCEPT !.rem = -1]
      IN  Moved(n, m) /\ NeventNow(m) = NeventNow(n) + (n.rem + 1) /\ m.rem = -1
  <2>1. -1 \in Int /\ n.base - (-1) = (n.base - n.rem) + (n.rem + 1)
    BY <1>1
  <2> QED  BY <1>3, <2>1, Zenon DEF NeventNow
<1>10. ASSUME NEW t \in Int
       PROVE  LET m == FirstEvent(n, t)
              IN  Moved(n, m) /\ NeventNow(m) = NeventNow(n) /\ m.base = t
  <2> DEFINE m == FirstEvent(n, t)
             r == n.rem - (n.base - t)
  <2>1. r \in Int /\ t - r = n.base - n.rem
    BY <1>1
  <2>2. m = [n EXCEPT !.base = t, !.rem = r]
    BY DEF FirstEvent
  <2> HIDE DEF m, r
  <2>3. Moved(n, m) /\ m.base = t /\ NeventNow(m) = t - r
    BY <1>2, <2>1, <2>2
  <2> QED  BY <2>1, <2>3 DEF NeventNow, m
<1> QED  BY <1>4, <1>6, <1>7, <1>8, <1>9, <1>10

LEMMA MovedLate ==
  ASSUME NEW n, NEW m, Ordered(n), Moved(n, m), NEW d \in Int, NeventNow(m) = NeventNow(n) + d
  PROVE  /\ m.rem <= 0 => Stops(m)
         /\ Stops(n) /\ d >= 0 /\ m.rem <= n.rem - d => Stops(m)
         /\ \A b, c \in Int : Late(n, b) /\ c <= b - d /\ c <= m.rem => Late(m, c)
<1>1. n \in NeventType /\ m \in NeventType
  BY DEF Ordered, Listed, Moved, Alike
<1>2. n.rem \in Int /\ m.rem \in Int
  BY <1>1, Numeric
<1>3. \A x \in ToSet(m.level) : x \in ToSet(n.level) /\ Left(n, x) \in Int /\ Left(m, x) = Left(n, x) - d
  BY <1>1, MovedIs, Numeric
<1>4. m.rem <= 0 => Stops(m)
  BY <1>2 DEF Stops
<1>5. Stops(n) /\ d >= 0 /\ m.rem <= n.rem - d => Stops(m)
  BY <1>2, <1>3 DEF Stops
<1>6. \A b, c \in Int : Late(n, b) /\ c <= b - d /\ c <= m.rem => Late(m, c)
  BY <1>2, <1>3 DEF Late
<1> QED  BY <1>4, <1>5, <1>6

(* An event leaves an ordered list. *)
LEMMA ResetIs ==
  ASSUME NEW n, Ordered(n), NEW x \in Event
  PROVE  LET m == NeventReset(n, x)
         IN  /\ Ordered(m) /\ Ran(n, m, 0, {x}) /\ (Stops(n) => Stops(m))
             /\ m.rem = n.rem /\ m.clock = n.clock /\ m.setevent = n.setevent /\ ~NeventIsWork(m, x)
             /\ \A b \in Int : Late(n, b) => Late(m, b)
<1> DEFINE l == Only(n.level, Event \ {x})
           m == NeventReset(n, x)
<1>1. n \in NeventType /\ n.level \in Seq(Event) /\ NeventNow(n) \in Int
  BY Numeric DEF Ordered, Listed
<1>2. Apart(l) /\ Rising(l, n.clock)
  BY <1>1, OnlyApart DEF Ordered
<1>3. /\ Listed(m) /\ m.wait = n.wait /\ m.setevent = n.setevent
      /\ ToSet(m.level) = ToSet(n.level) \ {x}
  BY ListReset DEF Ordered
<1> HIDE DEF l
<1>4. m.level = l /\ m.clock = n.clock /\ m.base = n.base /\ m.rem = n.rem
  BY <1>1 DEF NeventReset, l, NeventType
<1> HIDE DEF m
<1>5. Ordered(m)
  BY <1>2, <1>3, <1>4 DEF Ordered
<1>6. NeventNow(m) = NeventNow(n)
  BY <1>4 DEF NeventNow
<1>7. Ran(n, m, 0, {x}) /\ ~NeventIsWork(m, x)
  BY <1>1, <1>3, <1>4, <1>6 DEF Ran, NeventIsWork
<1>8. \A y : Left(m, y) = Left(n, y)
  BY <1>4, <1>6 DEF Left
<1>9. (Stops(n) => Stops(m)) /\ \A b \in Int : Late(n, b) => Late(m, b)
  BY <1>3, <1>4, <1>8 DEF Stops, Late
<1> QED  BY <1>3, <1>4, <1>5, <1>7, <1>9 DEF m

(* One enters it: if it is the first, the slice ends when it is due. *)
LEMMA SetIs ==
  ASSUME NEW n, Ordered(n), Stops(n), NEW x \in Event, NEW t \in Int
  PROVE  LET m == NeventSet(n, x, t)
         IN  /\ Ordered(m) /\ Ran(n, m, 0, {x}) /\ Stops(m)
             /\ NeventIsWork(m, x) /\ m.setevent = n.setevent \ {x}
             /\ m.clock[x] = t /\ Left(m, x) = t - NeventNow(n)
             /\ \A b \in Int : Late(n, b) /\ b <= t - NeventNow(n) => Late(m, b)
<1> DEFINE r == NeventReset(n, x)
           rest == r.level
           pos == InsertAtClock(rest, n.clock, t)
           level == InsertAt(rest, pos, x)
           set == [n EXCEPT !.clock[x] = t, !.setevent = @ \ {x}, !.level = level]
           clock == [n.clock EXCEPT ![x] = t]
           m == NeventSet(n, x, t)
<1>1. n \in NeventType
  BY DEF Ordered, Listed
<1>2. /\ n.level \in Seq(Event) /\ n.base \in Int /\ n.rem \in Int /\ NeventNow(n) \in Int
      /\ n.clock \in [Event -> Int]
  BY <1>1, Numeric
<1>3. Ordered(r) /\ r.clock = n.clock
  BY ResetIs
<1>4. ToSet(rest) = ToSet(n.level) \ {x} /\ rest \in Seq(Event)
  BY <1>3, ListReset DEF Ordered, Listed, NeventType
<1>5. Apart(rest) /\ Rising(rest, n.clock)
  BY <1>3 DEF Ordered
<1> HIDE DEF rest
<1>6. \A k \in 1 .. Len(rest) : rest[k] \in Event /\ n.clock[rest[k]] \in Int /\ rest[k] \in ToSet(n.level)
  <2>1. \A k \in 1 .. Len(rest) : rest[k] \in ToSet(rest)
    BY <1>4 DEF ToSet
  <2> QED  BY <1>2, <1>4, <2>1
<1>7. /\ pos \in 1 .. Len(rest) + 1
      /\ \A k \in 1 .. Len(rest) : k < pos => n.clock[rest[k]] <= t
  BY <1>2, <1>4, <1>6, PlaceAtClock
<1>8. clock \in [Event -> Int] /\ clock[x] = t /\ \A y \in Event \ {x} : clock[y] = n.clock[y]
  BY <1>2
<1>9. Apart(level) /\ Rising(level, clock)
  <2>1. x \notin ToSet(rest)
    BY <1>4
  <2> QED  BY <1>2, <1>4, <1>5, <1>8, <2>1, InsertApart
<1> HIDE DEF pos
<1>10. /\ level \in Seq(Event) /\ ToSet(level) = ToSet(n.level) \cup {x}
       /\ pos = 1 => level[1] = x
  <2>1. level \in Seq(Event) /\ ToSet(level) = ToSet(rest) \cup {x}
    BY <1>4, <1>7, ListInsert
  <2>2. \A k \in 1 .. Len(rest) + 1 :
              level[k] = IF k < pos THEN rest[k] ELSE IF k = pos THEN x ELSE rest[k - 1]
    BY <1>4, <1>7, InsertItems
  <2> QED  BY <1>4, <2>1, <2>2
<1> HIDE DEF level, clock
<1>11. /\ set \in NeventType /\ set.level = level /\ set.clock = clock
       /\ set.wait = n.wait /\ set.setevent = n.setevent \ {x}
       /\ set.base = n.base /\ set.rem = n.rem
  BY <1>1, <1>8, <1>10 DEF NeventType, clock
<1>12. Ordered(set)
  <2>1. Listed(set)
    BY <1>10, <1>11 DEF Ordered, Listed
  <2> QED  BY <1>9, <1>11, <2>1 DEF Ordered
<1>13. NeventNow(set) = NeventNow(n)
  BY <1>11 DEF NeventNow
<1>14. Ran(n, set, 0, {x}) /\ NeventIsWork(set, x)
  BY <1>2, <1>8, <1>10, <1>11, <1>13 DEF Ran, NeventIsWork
<1>15. \A y \in Event : Left(set, y) = IF y = x THEN t - NeventNow(n) ELSE Left(n, y)
  BY <1>8, <1>11, <1>13 DEF Left
<1> HIDE DEF set
<1>16. m = IF pos = 1 THEN FirstEvent(set, t) ELSE set
  BY DEF NeventSet, rest, pos, level, set
<1>17. Moved(set, m) /\ NeventNow(m) = NeventNow(set) + 0 /\ m.rem \in Int /\ NeventNow(set) \in Int
  <2>1. Moved(set, set) /\ NeventNow(set) \in Int
    BY <1>11, Numeric DEF Moved, Alike
  <2>2. Moved(set, FirstEvent(set, t)) /\ NeventNow(FirstEvent(set, t)) = NeventNow(set)
    BY <1>11, Counters
  <2>3. Moved(set, m) /\ NeventNow(m) = NeventNow(set)
    BY <1>16, <2>1, <2>2
  <2>4. m \in NeventType
    BY <2>3 DEF Moved, Alike
  <2> QED  BY <2>1, <2>3, <2>4, Numeric
<1>18. /\ Ordered(m) /\ Ran(set, m, 0, {}) /\ m.level = level
       /\ \A y \in Event : Left(m, y) = Left(set, y) - 0
  BY <1>11, <1>12, <1>17, MovedIs
<1>19. /\ m.clock = clock /\ m.setevent = n.setevent \ {x} /\ NeventIsWork(m, x)
  BY <1>11, <1>14, <1>17 DEF Moved, Alike, NeventIsWork
<1>20. Ran(n, m, 0, {x})
  BY <1>1, <1>14, <1>18, RanTwice
<1>21. \A y \in Event : Left(m, y) = IF y = x THEN t - NeventNow(n) ELSE Left(n, y)
  <2>1. \A y \in Event : Left(n, y) \in Int
    BY <1>1, Numeric
  <2> QED  BY <1>2, <1>15, <1>18, <2>1
<1>22. m.rem = IF pos = 1 THEN t - NeventNow(n) ELSE n.rem
  <2>1. CASE pos = 1
    <3>1. m.base = t
      BY <1>11, <1>16, <2>1, Counters
    <3>2. m.base - m.rem = NeventNow(n)
      BY <1>13, <1>17 DEF NeventNow
    <3> QED  BY <1>2, <1>17, <2>1, <3>1, <3>2
  <2>2. CASE pos # 1
    BY <1>11, <1>16, <2>2
  <2> QED  BY <2>1, <2>2
<1>23. ToSet(m.level) = ToSet(n.level) \cup {x} /\ ToSet(n.level) \subseteq Event
  BY <1>1, <1>10, <1>18, Numeric
<1>24. Stops(m)
  <2>1. CASE pos = 1
    <3> SUFFICES ASSUME NEW y \in ToSet(m.level) PROVE m.rem <= Left(m, y)
      BY DEF Stops
    <3>1. PICK k \in 1 .. Len(level) : level[k] = y
      BY <1>10, <1>18 DEF ToSet
    <3>2. clock[x] <= clock[y] /\ clock[y] \in Int
      <4>1. y \in Event /\ clock[y] \in Int
        BY <1>8, <1>23
      <4>2. CASE k = 1
        BY <1>8, <1>10, <2>1, <3>1, <4>1, <4>2
      <4>3. CASE k # 1
        <5>1. 1 \in 1 .. Len(level) /\ 1 < k
          BY <1>10, <4>3
        <5> QED  BY <1>9, <1>10, <2>1, <3>1, <4>1, <5>1 DEF Rising
      <4> QED  BY <4>2, <4>3
    <3>3. Left(m, y) = clock[y] - NeventNow(n)
      <4>1. NeventNow(m) = NeventNow(n)
        BY <1>13, <1>17
      <4> QED  BY <1>19, <4>1 DEF Left
    <3> QED  BY <1>2, <1>8, <1>22, <2>1, <3>2, <3>3
  <2>2. CASE pos # 1
    <3> SUFFICES ASSUME n.rem > 0, NEW y \in ToSet(m.level) PROVE n.rem <= Left(m, y)
      BY <1>22, <2>2 DEF Stops
    <3>1. \A z \in ToSet(n.level) : n.rem <= Left(n, z)
      BY DEF Stops
    <3>2. CASE y = x
      <4>1. 1 \in 1 .. Len(rest) /\ 1 < pos
        BY <1>4, <1>7, <2>2
      <4>2. n.clock[rest[1]] <= t /\ n.clock[rest[1]] \in Int /\ n.rem <= Left(n, rest[1])
        BY <1>6, <1>7, <3>1, <4>1
      <4>3. n.rem <= t - NeventNow(n)
        BY <1>2, <4>2 DEF Left
      <4> QED  BY <1>21, <3>2, <4>3
    <3>3. CASE y # x
      BY <1>21, <1>23, <3>1, <3>3
    <3> QED  BY <3>2, <3>3
  <2> QED  BY <2>1, <2>2
<1>25. ASSUME NEW b \in Int, Late(n, b), b <= t - NeventNow(n) PROVE Late(m, b)
  BY <1>2, <1>21, <1>22, <1>23, <1>25 DEF Late
<1> HIDE DEF m
<1> QED  BY <1>8, <1>18, <1>19, <1>20, <1>21, <1>24, <1>25 DEF m

LEMMA SetAtIs ==
  ASSUME NEW n, Ordered(n), NEW x \in Event, NEW d \in Int
  PROVE  /\ \E t \in Int : SetAbsolute(n, x, d) = NeventSet(n, x, t) /\ t - NeventNow(n) = d
         /\ \E t \in Int : SetRelative(n, x, d) = NeventSet(n, x, t) /\ t - NeventNow(n) = d + Left(n, x)
<1>1. NeventNow(n) \in Int /\ n.clock[x] \in Int
  BY Numeric DEF Ordered, Listed
<1>2. d + NeventNow(n) \in Int /\ (d + NeventNow(n)) - NeventNow(n) = d
  BY <1>1
<1>3. d + n.clock[x] \in Int /\ (d + n.clock[x]) - NeventNow(n) = d + Left(n, x)
  BY <1>1 DEF Left
<1> QED  BY <1>2, <1>3, Zenon DEF SetAbsolute, SetRelative

(* The first event that waits is called. *)
LEMMA CalledIs ==
  ASSUME NEW n, Ordered(n), n.wait # <<>>
  PROVE  LET m == NeventCalled(n)
         IN  /\ Ordered(m) /\ m.level = n.level /\ m.clock = n.clock /\ m.base = n.base /\ m.rem = n.rem
             /\ m.setevent = n.setevent \ {Head(n.wait)} /\ m.wait = Tail(n.wait)
             /\ ToSet(m.wait) = ToSet(n.wait) \ {Head(n.wait)} /\ Head(n.wait) \in ToSet(n.wait)
<1> DEFINE m == NeventCalled(n)
           w == n.wait
<1>1. n \in NeventType /\ w \in Seq(Event)
  BY Numeric DEF Ordered, Listed
<1>2. /\ m.level = n.level /\ m.clock = n.clock /\ m.base = n.base /\ m.rem = n.rem
      /\ m.setevent = n.setevent \ {Head(n.wait)} /\ m.wait = Tail(n.wait)
  BY <1>1 DEF NeventCalled, NeventType
<1>3. Listed(m)
  BY ListCalled DEF Ordered
<1> HIDE DEF m
<1>4. /\ Tail(w) \in Seq(Event) /\ Len(w) >= 1 /\ Len(Tail(w)) = Len(w) - 1 /\ Head(w) = w[1]
      /\ \A i \in 1 .. Len(w) - 1 : Tail(w)[i] = w[i + 1]
  BY <1>1
<1>5. Apart(Tail(w))
  <2> SUFFICES ASSUME NEW i \in 1 .. Len(Tail(w)), NEW j \in 1 .. Len(Tail(w)), i < j
               PROVE  Tail(w)[i] # Tail(w)[j]
    BY DEF Apart
  <2>1. i + 1 \in 1 .. Len(w) /\ j + 1 \in 1 .. Len(w) /\ i + 1 < j + 1
    BY <1>1, <1>4
  <2>2. w[i + 1] # w[j + 1]
    BY <2>1 DEF Ordered, Apart
  <2> QED  BY <1>4, <2>2
<1>6. ToSet(w) = {w[i] : i \in 1 .. Len(w)} /\ ToSet(Tail(w)) = {Tail(w)[i] : i \in 1 .. Len(w) - 1}
  <2>1. DOMAIN w = 1 .. Len(w) /\ DOMAIN Tail(w) = 1 .. Len(w) - 1
    BY <1>1, <1>4, LenProperties
  <2> QED  BY <2>1, Zenon DEF ToSet
<1>7. Head(w) \in ToSet(w) /\ ToSet(Tail(w)) \subseteq ToSet(w) \ {Head(w)}
  <2>1. 1 \in 1 .. Len(w)
    BY <1>1, <1>4
  <2>2. ASSUME NEW i \in 1 .. Len(w) - 1 PROVE Tail(w)[i] \in ToSet(w) /\ Tail(w)[i] # Head(w)
    <3>1. i + 1 \in 1 .. Len(w) /\ 1 < i + 1 /\ Tail(w)[i] = w[i + 1]
      BY <1>1, <1>4
    <3>2. w[1] # w[i + 1]
      BY <2>1, <3>1 DEF Ordered, Apart
    <3> QED  BY <1>4, <1>6, <3>1, <3>2
  <2> QED  BY <1>4, <1>6, <2>1, <2>2
<1>8. ASSUME NEW x \in ToSet(w) \ {Head(w)} PROVE x \in ToSet(Tail(w))
  <2>1. PICK i \in 1 .. Len(w) : w[i] = x
    BY <1>6
  <2>2. i - 1 \in 1 .. Len(w) - 1 /\ Tail(w)[i - 1] = x
    BY <1>1, <1>4, <2>1
  <2> QED  BY <1>6, <2>2
<1>9. Ordered(m)
  BY <1>2, <1>3, <1>5 DEF Ordered
<1> QED  BY <1>2, <1>7, <1>8, <1>9 DEF m

(* What nobody reads is forgotten. *)
LEMMA ForgetsIs ==
  ASSUME NEW n, Ordered(n)
  PROVE  LET m == Forgets(n)
         IN  /\ Ordered(m) /\ m.level = n.level /\ m.wait = n.wait /\ m.setevent = n.setevent
             /\ m.base = n.base /\ m.rem = n.rem /\ NeventNow(m) = NeventNow(n)
             /\ \A x \in Event : x = "FLAMES" \/ NeventIsWork(n, x) \/ x \in ToSet(n.wait) =>
                  m.clock[x] = n.clock[x] /\ Left(m, x) = Left(n, x)
             /\ (Stops(n) => Stops(m)) /\ \A b : Late(n, b) => Late(m, b)
<1> DEFINE m == Forgets(n)
           c == [x \in Event |->
              IF x = "FLAMES" \/ NeventIsWork(n, x) \/ x \in ToSet(n.wait) THEN n.clock[x] ELSE 0]
<1>1. n \in NeventType
  BY DEF Ordered, Listed
<1>2. Alike(n, m)
  BY <1>1, ListCounters
<1>3. m.clock = c /\ m.base = n.base /\ m.rem = n.rem
  BY <1>1 DEF Forgets, NeventType
<1> HIDE DEF m
<1>4. \A x \in Event : x = "FLAMES" \/ NeventIsWork(n, x) \/ x \in ToSet(n.wait) =>
         m.clock[x] = n.clock[x]
  BY <1>3
<1> HIDE DEF c
<1>5. NeventNow(m) = NeventNow(n)
  BY <1>3 DEF NeventNow
<1>6. \A x \in Event : x = "FLAMES" \/ NeventIsWork(n, x) \/ x \in ToSet(n.wait) =>
         Left(m, x) = Left(n, x)
  BY <1>4, <1>5 DEF Left
<1>7. \A x \in ToSet(n.level) : x \in Event /\ m.clock[x] = n.clock[x] /\ Left(m, x) = Left(n, x)
  BY <1>1, <1>4, <1>6, Numeric DEF NeventIsWork
<1>8. m.level = n.level /\ m.wait = n.wait /\ m.setevent = n.setevent
  BY <1>2 DEF Alike
<1>9. Rising(m.level, m.clock)
  <2>1. n.level \in Seq(Event) /\ \A i \in 1 .. Len(n.level) : n.level[i] \in ToSet(n.level)
    BY <1>1, Numeric DEF ToSet
  <2> QED  BY <1>7, <1>8, <2>1 DEF Ordered, Rising
<1>10. Ordered(m)
  BY <1>2, <1>8, <1>9, AlikeListed DEF Ordered
<1>11. (Stops(n) => Stops(m)) /\ \A b : Late(n, b) => Late(m, b)
  BY <1>3, <1>7, <1>8 DEF Stops, Late
<1> QED  BY <1>3, <1>4, <1>5, <1>6, <1>8, <1>10, <1>11 DEF m

(* What is due goes off. *)
LEMMA ProgressIs ==
  ASSUME NEW n, Ordered(n), n.wait = <<>>, n.rem <= 0
  PROVE  LET m == NeventProgress(n)
         IN  /\ Ordered(m) /\ Stops(m) /\ NeventNow(m) = -n.rem
             /\ ToSet(m.level) = {x \in ToSet(n.level) : n.clock[x] > n.base}
             /\ ToSet(m.wait) = {x \in ToSet(n.level) : n.clock[x] <= n.base}
             /\ m.setevent = n.setevent \cup ToSet(m.wait)
             /\ \A x \in ToSet(n.level) : m.clock[x] = n.clock[x] - n.base /\ Left(m, x) = Left(n, x)
             /\ \A b \in Int : Late(n, b) => Late(m, b)
<1> DEFINE S == {x \in Event : n.clock[x] <= n.base}
           L == {x \in Event : n.clock[x] > n.base}
           late == Only(n.level, S)
           kept == Only(n.level, L)
           wait == Only(late, Event \ n.setevent)
           clock == [x \in Event |-> IF NeventIsWork(n, x) THEN n.clock[x] - n.base ELSE n.clock[x]]
           base == CHOOSE t \in {MaxClock} \cup {n.clock[x] - n.base : x \in ToSet(kept)} :
                     \A x \in ToSet(kept) : t <= MaxClock /\ t <= n.clock[x] - n.base
           m == NeventProgress(n)
<1>1. /\ n \in NeventType /\ n.level \in Seq(Event) /\ n.base \in Int /\ n.rem \in Int
      /\ n.clock \in [Event -> Int] /\ n.setevent \in SUBSET Event /\ ToSet(n.level) \subseteq Event
      /\ NeventNow(n) \in Int
  BY Numeric DEF Ordered, Listed
<1>2. /\ late \in Seq(Event) /\ ToSet(late) = ToSet(n.level) \cap S
      /\ kept \in Seq(Event) /\ ToSet(kept) = ToSet(n.level) \cap L
  BY <1>1, OnlyItems
<1>3. Apart(late) /\ Apart(kept) /\ Rising(kept, n.clock)
  BY <1>1, OnlyApart DEF Ordered
<1>4. ToSet(late) = {x \in ToSet(n.level) : n.clock[x] <= n.base}
      /\ ToSet(kept) = {x \in ToSet(n.level) : n.clock[x] > n.base}
  BY <1>1, <1>2
<1> HIDE DEF late, kept
<1>5. wait \in Seq(Event) /\ ToSet(wait) = ToSet(late) \cap (Event \ n.setevent) /\ Apart(wait)
  BY <1>2, <1>3, OnlyItems, OnlyApart
<1>6. ToSet(wait) = ToSet(late)
  BY <1>1, <1>4, <1>5 DEF Ordered, Listed
<1>7. \A x \in ToSet(n.level) : clock[x] = n.clock[x] - n.base /\ clock[x] \in Int
  BY <1>1 DEF NeventIsWork
<1>8. base \in Nat /\ \A x \in ToSet(kept) : base <= clock[x]
  <2> DEFINE T == {MaxClock} \cup {n.clock[x] - n.base : x \in ToSet(kept)}
  <2>1. T \subseteq Nat /\ T # {}
    <3>1. \A x \in ToSet(kept) : n.clock[x] - n.base \in Nat
      BY <1>1, <1>4
    <3> QED  BY <3>1, NeventAssumption
  <2>2. PICK k \in T : \A t \in T : k <= t
    BY <2>1, Least
  <2>3. base \in T /\ \A x \in ToSet(kept) : base <= n.clock[x] - n.base
    <3>1. \E t \in T : \A x \in ToSet(kept) : t <= MaxClock /\ t <= n.clock[x] - n.base
      BY <2>2
    <3> QED  BY <3>1
  <2> HIDE DEF T, base, clock
  <2> QED  BY <1>4, <1>7, <2>1, <2>3
<1> HIDE DEF wait, clock, base
<1>9. m = [clock |-> clock, level |-> kept, wait |-> n.wait \o wait,
           setevent |-> n.setevent \cup ToSet(late), base |-> base, rem |-> n.rem + base]
  BY DEF NeventProgress, late, kept, wait, clock, base
<1>10. n.wait \o wait = wait
  BY <1>5
<1>11. /\ m.clock = clock /\ m.level = kept /\ m.wait = wait /\ m.base = base /\ m.rem = n.rem + base
       /\ m.setevent = n.setevent \cup ToSet(wait)
  BY <1>6, <1>9, <1>10
<1>12. Listed(m)
  BY ListProgress DEF Ordered
<1> HIDE DEF m
<1>13. NeventNow(m) = -n.rem
  BY <1>1, <1>8, <1>11 DEF NeventNow
<1>14. \A x \in ToSet(n.level) : Left(m, x) = Left(n, x)
  <2> TAKE x \in ToSet(n.level)
  <2>1. clock[x] = n.clock[x] - n.base /\ n.clock[x] \in Int
    BY <1>1, <1>7
  <2>2. (n.clock[x] - n.base) - (-n.rem) = n.clock[x] - (n.base - n.rem)
    BY <1>1, <2>1
  <2> QED  BY <1>11, <1>13, <2>1, <2>2 DEF Left, NeventNow
<1>15. Rising(kept, clock)
  <2>1. \A i \in 1 .. Len(kept) : kept[i] \in ToSet(kept)
    BY <1>2 DEF ToSet
  <2>2. \A x \in ToSet(kept) : clock[x] = n.clock[x] - n.base /\ n.clock[x] \in Int
    BY <1>1, <1>4, <1>7
  <2>3. \A x, y \in ToSet(kept) : n.clock[x] <= n.clock[y] => clock[x] <= clock[y]
    BY <1>1, <2>2
  <2> QED  BY <1>3, <2>1, <2>3 DEF Rising
<1>16. Ordered(m)
  BY <1>3, <1>5, <1>11, <1>12, <1>15 DEF Ordered
<1>17. Stops(m)
  <2> SUFFICES ASSUME NEW x \in ToSet(kept) PROVE m.rem <= Left(m, x)
    BY <1>11 DEF Stops
  <2>1. base <= clock[x] /\ clock[x] \in Int
    BY <1>4, <1>7, <1>8
  <2>2. Left(m, x) = clock[x] - (-n.rem)
    BY <1>11, <1>13 DEF Left
  <2> QED  BY <1>1, <1>8, <1>11, <2>1, <2>2
<1>18. ASSUME NEW b \in Int, Late(n, b) PROVE Late(m, b)
  <2>1. b <= n.rem + base
    BY <1>1, <1>8, <1>18 DEF Late
  <2> QED  BY <1>4, <1>11, <1>14, <1>18, <2>1 DEF Late
<1> QED  BY <1>4, <1>6, <1>7, <1>11, <1>13, <1>14, <1>16, <1>17, <1>18 DEF m

-----------------------------------------------------------------------------
(* A scaled time is at most one and a half too much, half too little.  q   *)
(* times old is what the division leaves of u.                             *)
LEMMA Divided ==
  ASSUME NEW old \in Nat \ {0}, NEW new \in Nat \ {0}, NEW t \in Int
  PROVE  LET u == t * new + old \div 2
             q == Scaled(t, old, new)
         IN  /\ q \in Int /\ u \in Int
             /\ u >= 0 => q >= 0 /\ old * q <= u /\ u < old * q + old
             /\ u < 0 => q <= 0 /\ old * q >= u /\ old * q < u + old
<1> DEFINE h == old \div 2
           u == t * new + h
           q == Scaled(t, old, new)
<1>1. h \in Nat
  BY Division
<1>2. t * new \in Int
  OBVIOUS
<1>3. u \in Int
  BY <1>1, <1>2
<1> HIDE DEF u
<1>4. q = IF u >= 0 THEN u \div old ELSE -((-u) \div old)
  BY DEF Scaled, u
<1> HIDE DEF q
<1>5. CASE u >= 0
  <2> DEFINE p == u \div old
             r == u % old
  <2>0. u \in Nat
    BY <1>3, <1>5
  <2>1. u = old * p + r /\ r \in 0 .. old - 1 /\ p \in Nat
    BY <2>0, Division
  <2>2. q = p
    BY <1>3, <1>4, <1>5
  <2> HIDE DEF p, r
  <2>3. old * p \in Int
    BY <2>1
  <2> QED  BY <1>3, <1>5, <2>1, <2>2, <2>3 DEF u, q
<1>6. CASE u < 0
  <2> DEFINE v == -u
             p == v \div old
             r == v % old
  <2>0. v \in Nat /\ v = -u
    BY <1>3, <1>6
  <2> HIDE DEF v
  <2>1. v = old * p + r /\ r \in 0 .. old - 1 /\ p \in Nat
    BY <2>0, Division
  <2>2. q = -p
    BY <1>3, <1>4, <1>6 DEF v
  <2> HIDE DEF p, r
  <2>3. old * p \in Int /\ old * (-p) = -(old * p)
    BY <2>1
  <2> QED  BY <1>3, <1>6, <2>0, <2>1, <2>2, <2>3 DEF u, q
<1> QED  BY <1>3, <1>5, <1>6

LEMMA ScaledIs ==
  ASSUME NEW old \in Nat \ {0}, NEW new \in Nat \ {0}, NEW t \in Int
  PROVE  LET q == Scaled(t, old, new)
         IN  /\ q \in Int /\ old * q \in Int /\ t * new \in Int
             /\ t <= 0 => q <= 0
             /\ t >= 0 => q >= 0
             /\ 2 * (old * q) >= 2 * (t * new) - old
             /\ t < 0 => old * q >= t * new
             /\ t >= 0 => 2 * (old * q) <= 2 * (t * new) + old
             /\ 2 * (old * q) <= 2 * (t * new) + 3 * old
<1> DEFINE h == old \div 2
           a == t * new
           u == a + h
           q == Scaled(t, old, new)
           p == old * q
<1>1. /\ q \in Int /\ u \in Int
      /\ u >= 0 => q >= 0 /\ p <= u /\ u < p + old
      /\ u < 0 => q <= 0 /\ p >= u /\ p < u + old
  BY Divided
<1>2. h \in Nat /\ 2 * h <= old /\ old <= 2 * h + 1
  <2>1. old = 2 * h + (old % 2) /\ old % 2 \in 0 .. 1 /\ h \in Nat
    BY Division
  <2> HIDE DEF h
  <2> QED  BY <2>1
<1>3. a \in Int /\ (t <= 0 => a <= 0) /\ (t >= 0 => a >= 0)
  <2>1. CASE t >= 0
    BY <2>1
  <2>2. CASE t < 0
    <3>1. (-t) * new \in Nat /\ a = -((-t) * new)
      BY <2>2
    <3> QED  BY <2>2, <3>1
  <2> QED  BY <2>1, <2>2
<1>4. t < 0 => a <= -new
  <2> HAVE t < 0
  <2>1. -t - 1 \in Nat /\ (-t - 1) * new \in Nat /\ a = -((-t - 1) * new) - new
    OBVIOUS
  <2> QED  BY <2>1
<1>5. p \in Int
  BY <1>1
<1>6. q > 0 => p >= old
  <2> HAVE q > 0
  <2>1. q - 1 \in Nat /\ old * (q - 1) \in Nat /\ p = old * (q - 1) + old
    BY <1>1
  <2> QED  BY <2>1
<1> HIDE DEF h, a, q, p
<1>7. t <= 0 => q <= 0
  <2> SUFFICES ASSUME t <= 0, q > 0 PROVE FALSE
    BY <1>1
  <2>1. u >= 0 /\ p <= u /\ u <= h
    BY <1>1, <1>2, <1>3
  <2> QED  BY <1>1, <1>2, <1>5, <1>6, <2>1
<1>8. t >= 0 => q >= 0
  BY <1>1, <1>2, <1>3
<1>9. u = a + h
  OBVIOUS
<1> HIDE DEF u
<1>10. CASE u >= 0
  <2>1. 2 * p >= 2 * a - old /\ 2 * p <= 2 * a + old
    BY <1>1, <1>2, <1>3, <1>5, <1>9, <1>10
  <2>2. t < 0 => p >= a
    <3> HAVE t < 0
    <3>1. q >= 0 /\ q <= 0
      BY <1>1, <1>7, <1>10
    <3>2. q = 0
      BY <1>1, <3>1
    <3>3. p = 0
      BY <3>2 DEF p
    <3> QED  BY <1>3, <3>3
  <2> QED  BY <1>1, <1>3, <1>5, <1>7, <1>8, <2>1, <2>2 DEF p, q, a
<1>11. CASE u < 0
  <2>1. 2 * p >= 2 * a - old /\ p >= a /\ 2 * p <= 2 * a + 3 * old /\ t < 0
    BY <1>1, <1>2, <1>3, <1>5, <1>9, <1>11
  <2> QED  BY <1>1, <1>3, <1>5, <1>7, <1>8, <2>1 DEF p, q, a
<1> QED  BY <1>1, <1>10, <1>11

LEMMA ScaledRises ==
  ASSUME NEW old \in Nat \ {0}, NEW new \in Nat \ {0}, NEW t \in Int, NEW s \in Int, t <= s
  PROVE  Scaled(t, old, new) <= Scaled(s, old, new)
<1> DEFINE h == old \div 2
           u == t * new + h
           v == s * new + h
           q == Scaled(t, old, new)
           r == Scaled(s, old, new)
<1>1. /\ q \in Int /\ u \in Int
      /\ u >= 0 => q >= 0 /\ old * q <= u /\ u < old * q + old
      /\ u < 0 => q <= 0 /\ old * q >= u /\ old * q < u + old
  BY Divided
<1>2. /\ r \in Int /\ v \in Int
      /\ v >= 0 => r >= 0 /\ old * r <= v /\ v < old * r + old
      /\ v < 0 => r <= 0 /\ old * r >= v /\ old * r < v + old
  BY Divided
<1>3. u <= v
  <2>1. (s - t) * new \in Nat /\ s * new = t * new + (s - t) * new /\ t * new \in Int
    OBVIOUS
  <2>2. h \in Nat
    BY Division
  <2> HIDE DEF h
  <2> QED  BY <2>1, <2>2
<1> HIDE DEF u, v, q, r
<1>4. SUFFICES ASSUME q > r PROVE FALSE
  BY <1>1, <1>2 DEF q, r
<1>5. old * q >= old * r + old /\ old * q \in Int /\ old * r \in Int
  <2>1. q - r - 1 \in Nat
    BY <1>1, <1>2, <1>4
  <2>2. old * (q - r - 1) \in Nat
    BY <2>1
  <2>3. old * q = old * r + old + old * (q - r - 1) /\ old * r \in Int
    BY <1>1, <1>2
  <2> QED  BY <2>2, <2>3
<1> QED  BY <1>1, <1>2, <1>3, <1>4, <1>5

(* What the scaling of two counters does to their difference. *)
LEMMA ScaledDifference ==
  ASSUME NEW old \in Nat \ {0}, NEW new \in Nat \ {0}, NEW b \in Int, NEW r \in Int, b >= r
  PROVE  LET d == Scaled(b, old, new) - Scaled(r, old, new)
         IN  d \in Nat /\ d <= new * (b - r) + 2
<1> DEFINE B == Scaled(b, old, new)
           R == Scaled(r, old, new)
           d == B - R
<1>1. /\ B \in Int /\ old * B \in Int /\ b * new \in Int
      /\ 2 * (old * B) <= 2 * (b * new) + 3 * old
  BY ScaledIs
<1>2. /\ R \in Int /\ old * R \in Int /\ r * new \in Int
      /\ 2 * (old * R) >= 2 * (r * new) - old
  BY ScaledIs
<1>3. R <= B
  BY ScaledRises
<1> HIDE DEF B, R
<1>4. d \in Nat
  BY <1>1, <1>2, <1>3
<1>5. old * d = old * B - old * R /\ new * (b - r) = b * new - r * new
  BY <1>1, <1>2
<1>6. old * d <= new * (b - r) + 2 * old
  BY <1>1, <1>2, <1>5
<1>7. new * (b - r) \in Nat
  OBVIOUS
<1> HIDE DEF d
<1>8. d <= 2 => d <= new * (b - r) + 2
  BY <1>4, <1>7
<1>9. d > 2 => d <= new * (b - r) + 2
  <2> HAVE d > 2
  <2>1. d - 2 \in Nat /\ (old - 1) * (d - 2) \in Nat
    BY <1>4
  <2>2. old * d = (old - 1) * (d - 2) + (d - 2) + 2 * old
    BY <1>4
  <2> QED  BY <1>4, <1>6, <1>7, <2>1, <2>2
<1> QED  BY <1>4, <1>8, <1>9 DEF d, B, R

(* ... and to an event that is not due before either. *)
LEMMA ScaledLeft ==
  ASSUME NEW old \in Nat \ {0}, NEW new \in Nat \ {0}, NEW b \in Int, NEW r \in Int, b >= r,
         NEW c \in Int, c > b - r
  PROVE  Scaled(c, old, new) - (Scaled(b, old, new) - Scaled(r, old, new)) >= -1
<1> DEFINE B == Scaled(b, old, new)
           R == Scaled(r, old, new)
           C == Scaled(c, old, new)
           l == C - (B - R)
<1>1. /\ B \in Int /\ old * B \in Int /\ b * new \in Int
      /\ b >= 0 => 2 * (old * B) <= 2 * (b * new) + old
      /\ 2 * (old * B) <= 2 * (b * new) + 3 * old
  BY ScaledIs
<1>2. /\ R \in Int /\ old * R \in Int /\ r * new \in Int
      /\ 2 * (old * R) >= 2 * (r * new) - old
      /\ r < 0 => old * R >= r * new
  BY ScaledIs
<1>3. /\ C \in Int /\ old * C \in Int /\ c * new \in Int
      /\ 2 * (old * C) >= 2 * (c * new) - old
  BY ScaledIs
<1> HIDE DEF B, R, C
<1>4. l \in Int /\ old * l = old * C - old * B + old * R
  BY <1>1, <1>2, <1>3
<1>5. c * new - b * new + r * new >= new
  <2>1. c - b + r - 1 \in Nat
    OBVIOUS
  <2>2. (c - b + r - 1) * new \in Nat
    BY <2>1
  <2> QED  BY <2>2
<1>6. 2 * (old * l) > -4 * old
  <2>1. CASE b >= 0
    BY <1>1, <1>2, <1>3, <1>4, <1>5, <2>1
  <2>2. CASE b < 0
    BY <1>1, <1>2, <1>3, <1>4, <1>5, <2>2
  <2> QED  BY <2>1, <2>2
<1> HIDE DEF l
<1>7. SUFFICES ASSUME l <= -2 PROVE FALSE
  BY <1>4 DEF l, B, R, C
<1>8. -l - 2 \in Nat /\ old * (-l - 2) \in Nat
  BY <1>4, <1>7
<1>9. old * l = -(old * (-l - 2)) - 2 * old
  BY <1>4
<1> QED  BY <1>6, <1>8, <1>9

(* Another clock for the CPU. *)
LEMMA ChangeIs ==
  ASSUME NEW n, Ordered(n), Stops(n), NeventNow(n) >= 0,
         NEW old \in Nat \ {0}, NEW new \in Nat \ {0}
  PROVE  LET m == NeventChangeClock(n, old, new)
         IN  /\ Alike(n, m) /\ Ordered(m) /\ Stops(m)
             /\ NeventNow(m) >= 0 /\ NeventNow(m) <= new * NeventNow(n) + 2
             /\ \A x \in Event : ~NeventIsWork(n, x) => m.clock[x] = n.clock[x]
             /\ \A x, y \in ToSet(n.level) : Left(n, x) < Left(n, y) => Left(m, x) <= Left(m, y)
             /\ \A x \in ToSet(n.level) : Left(n, x) > 0 => Left(m, x) >= -1
             /\ \A b \in Int : b <= 0 /\ Late(n, b) /\ NeventNow(n) <= -b => Late(m, (new + 1) * b - 3)
<1> DEFINE m == NeventChangeClock(n, old, new)
           S(t) == Scaled(t, old, new)
           clock == [x \in Event |->
                  IF NeventIsWork(n, x) /\ n.clock[x] > 0
                  THEN IF Scaled(n.clock[x], old, new) > 0 THEN Scaled(n.clock[x], old, new) ELSE 1
                  ELSE n.clock[x]]
           now == NeventNow(n)
           h == n.level[1]
<1>1. /\ n \in NeventType /\ n.level \in Seq(Event) /\ n.base \in Int /\ n.rem \in Int
      /\ n.clock \in [Event -> Int] /\ ToSet(n.level) \subseteq Event /\ now \in Nat
      /\ now = n.base - n.rem
  BY Numeric DEF Ordered, Listed, NeventNow
<1>2. Alike(n, m)
  BY ListChangeClock DEF Ordered
<1>3. m \in NeventType /\ m.level = n.level /\ m.wait = n.wait /\ m.setevent = n.setevent
  BY <1>2 DEF Alike
<1>4. \A t \in Int : S(t) \in Int
  BY ScaledIs
<1>5. /\ \A x \in Event : ~NeventIsWork(n, x) => clock[x] = n.clock[x]
      /\ \A x \in ToSet(n.level) :
           /\ n.clock[x] <= 0 => clock[x] = n.clock[x]
           /\ n.clock[x] > 0 => clock[x] >= S(n.clock[x]) /\ clock[x] >= 1
           /\ clock[x] \in Int /\ n.clock[x] \in Int
  <2>1. \A x \in Event : ~NeventIsWork(n, x) => clock[x] = n.clock[x]
    OBVIOUS
  <2>2. ASSUME NEW x \in ToSet(n.level)
        PROVE  /\ n.clock[x] <= 0 => clock[x] = n.clock[x]
               /\ n.clock[x] > 0 => clock[x] >= S(n.clock[x]) /\ clock[x] >= 1
               /\ clock[x] \in Int /\ n.clock[x] \in Int
    <3>1. n.clock[x] \in Int /\ S(n.clock[x]) \in Int /\ x \in Event
      BY <1>1, <1>4
    <3>2. clock[x] = IF n.clock[x] > 0
                     THEN IF S(n.clock[x]) > 0 THEN S(n.clock[x]) ELSE 1
                     ELSE n.clock[x]
      BY <3>1 DEF NeventIsWork
    <3> HIDE DEF S, clock
    <3> QED  BY <3>1, <3>2
  <2> QED  BY <2>1, <2>2
<1>6. \A x, y \in ToSet(n.level) : n.clock[x] <= n.clock[y] => clock[x] <= clock[y]
  <2> SUFFICES ASSUME NEW x \in ToSet(n.level), NEW y \in ToSet(n.level), n.clock[x] <= n.clock[y]
               PROVE  clock[x] <= clock[y]
    OBVIOUS
  <2>1. n.clock[x] \in Int /\ n.clock[y] \in Int
    BY <1>5
  <2>2. CASE n.clock[x] <= 0
    BY <1>5, <2>1, <2>2
  <2>3. CASE n.clock[x] > 0
    <3>1. n.clock[y] > 0
      BY <2>1, <2>3
    <3>2. S(n.clock[x]) <= S(n.clock[y]) /\ S(n.clock[x]) \in Int /\ S(n.clock[y]) \in Int
      BY <1>4, <2>1, ScaledRises
    <3> HIDE DEF S
    <3>3. /\ clock[x] = IF S(n.clock[x]) > 0 THEN S(n.clock[x]) ELSE 1
          /\ clock[y] = IF S(n.clock[y]) > 0 THEN S(n.clock[y]) ELSE 1
      BY <1>1, <2>3, <3>1 DEF NeventIsWork, S
    <3> QED  BY <3>2, <3>3
  <2> QED  BY <2>1, <2>2, <2>3
<1> HIDE DEF clock
<1>7. /\ n.level = <<>> => m = n
      /\ n.level # <<>> /\ n.base = n.rem => /\ m.clock = clock /\ m.base = clock[h] /\ m.rem = clock[h]
      /\ n.level # <<>> /\ n.base # n.rem => /\ m.clock = clock /\ m.base = S(n.base) /\ m.rem = S(n.rem)
  <2>1. n.level # <<>> => Head(n.level) = h
    BY <1>1
  <2>2. \A b, r : LET o == [n EXCEPT !.clock = clock, !.base = b, !.rem = r]
                  IN  o.clock = clock /\ o.base = b /\ o.rem = r
    BY <1>1 DEF NeventType
  <2>3. m = IF n.level = <<>> THEN n
            ELSE IF n.base = n.rem
            THEN [n EXCEPT !.clock = clock, !.base = clock[Head(n.level)], !.rem = clock[Head(n.level)]]
            ELSE [n EXCEPT !.clock = clock, !.base = S(n.base), !.rem = S(n.rem)]
    <3>1. /\ [n EXCEPT !.base = Scaled(@, old, new)] = [n EXCEPT !.base = S(n.base)]
          /\ [n EXCEPT !.clock = clock, !.base = Scaled(@, old, new), !.rem = Scaled(@, old, new)]
             = [n EXCEPT !.clock = clock, !.base = S(n.base), !.rem = S(n.rem)]
      BY <1>1 DEF NeventType
    <3> QED  BY <3>1, Zenon DEF NeventChangeClock, clock
  <2> HIDE DEF m, S, h
  <2> QED  BY <2>1, <2>2, <2>3
<1> HIDE DEF m, S, h
<1>8. \A x \in Event : ~NeventIsWork(n, x) => m.clock[x] = n.clock[x]
  BY <1>5, <1>7
<1>9. /\ NeventNow(m) \in Nat /\ NeventNow(m) <= new * now + 2
      /\ n.level # <<>> /\ n.base # n.rem => NeventNow(m) = S(n.base) - S(n.rem)
      /\ n.base = n.rem => NeventNow(m) = 0 /\ now = 0
  <2>1. new * now \in Nat /\ now <= new * now
    <3>1. (new - 1) * now \in Nat /\ new * now = (new - 1) * now + now
      BY <1>1
    <3> QED  BY <1>1, <3>1
  <2>2. CASE n.level = <<>>
    <3>1. m = n
      BY <1>7, <2>2
    <3> QED  BY <1>1, <2>1, <2>2, <3>1
  <2>3. CASE n.level # <<>> /\ n.base = n.rem
    <3>1. clock[h] \in Int
      <4>1. h \in ToSet(n.level)
        BY <1>1, <2>3 DEF ToSet, h
      <4> QED  BY <1>5, <4>1
    <3>2. NeventNow(m) = 0 /\ now = 0
      BY <1>1, <1>7, <2>3, <3>1 DEF NeventNow
    <3> QED  BY <2>1, <2>3, <3>2
  <2>4. CASE n.level # <<>> /\ n.base # n.rem
    <3>1. NeventNow(m) = S(n.base) - S(n.rem)
      BY <1>7, <2>4 DEF NeventNow
    <3>2. S(n.base) - S(n.rem) \in Nat /\ S(n.base) - S(n.rem) <= new * (n.base - n.rem) + 2
      <4>1. n.base \in Int /\ n.rem \in Int /\ n.base >= n.rem
        BY <1>1
      <4> QED  BY <4>1, ScaledDifference DEF S
    <3> QED  BY <1>1, <2>4, <3>1, <3>2
  <2> QED  BY <2>2, <2>3, <2>4
<1>10. \A x \in ToSet(n.level) :
          m.clock[x] = clock[x] /\ Left(m, x) = clock[x] - NeventNow(m) /\ Left(n, x) = n.clock[x] - now
  <2>1. \A x \in ToSet(n.level) : n.level # <<>>
    BY DEF ToSet
  <2> QED  BY <1>7, <2>1 DEF Left
<1>11. \A x, y \in ToSet(n.level) : Left(n, x) < Left(n, y) => Left(m, x) <= Left(m, y)
  <2> SUFFICES ASSUME NEW x \in ToSet(n.level), NEW y \in ToSet(n.level), Left(n, x) < Left(n, y)
               PROVE  Left(m, x) <= Left(m, y)
    OBVIOUS
  <2>1. n.clock[x] <= n.clock[y]
    BY <1>1, <1>5, <1>10
  <2>2. clock[x] <= clock[y] /\ clock[x] \in Int /\ clock[y] \in Int
    BY <1>5, <1>6, <2>1
  <2> QED  BY <1>9, <1>10, <2>2
<1>12. Rising(m.level, m.clock)
  <2>1. \A i \in 1 .. Len(n.level) : n.level[i] \in ToSet(n.level)
    BY <1>1 DEF ToSet
  <2> QED  BY <1>3, <1>6, <1>10, <2>1 DEF Ordered, Rising
<1>13. Ordered(m)
  BY <1>2, <1>3, <1>12, AlikeListed DEF Ordered
<1>14. Stops(m)
  <2> SUFFICES ASSUME m.rem > 0, NEW x \in ToSet(n.level) PROVE m.rem <= Left(m, x)
    BY <1>3 DEF Stops
  <2>0. n.level # <<>>
    BY DEF ToSet
  <2>1. CASE n.base = n.rem
    <3>1. PICK i \in 1 .. Len(n.level) : n.level[i] = x
      BY <1>1 DEF ToSet
    <3>2. clock[h] <= clock[x]
      <4>1. CASE i = 1
        BY <1>5, <3>1, <4>1 DEF h
      <4>2. CASE i # 1
        <5>1. 1 \in 1 .. Len(n.level) /\ 1 < i
          BY <1>1, <4>2
        <5> QED  BY <1>3, <1>7, <1>12, <2>0, <2>1, <3>1, <5>1 DEF Rising, h
      <4> QED  BY <4>1, <4>2
    <3>3. clock[x] \in Int
      BY <1>5
    <3> QED  BY <1>7, <1>9, <1>10, <2>0, <2>1, <3>2, <3>3
  <2>2. CASE n.base # n.rem
    <3>1. m.rem = S(n.rem) /\ NeventNow(m) = S(n.base) - S(n.rem) /\ S(n.rem) > 0
      BY <1>7, <1>9, <2>0, <2>2
    <3>2. n.rem > 0
      <4>1. n.rem <= 0 => S(n.rem) <= 0
        BY <1>1, ScaledIs DEF S
      <4> QED  BY <1>1, <1>4, <3>1, <4>1
    <3>3. n.rem <= n.clock[x] - now
      BY <1>10, <3>2 DEF Stops
    <3>4. n.base <= n.clock[x] /\ n.clock[x] > 0
      BY <1>1, <1>5, <3>2, <3>3
    <3>5. S(n.base) <= S(n.clock[x])
      BY <1>1, <1>5, <3>4, ScaledRises DEF S
    <3>6. S(n.clock[x]) <= clock[x] /\ S(n.clock[x]) \in Int
      BY <1>4, <1>5, <3>4
    <3>7. S(n.base) \in Int /\ S(n.rem) \in Int /\ clock[x] \in Int
      BY <1>1, <1>4, <1>5
    <3>8. Left(m, x) = clock[x] - (S(n.base) - S(n.rem))
      BY <1>10, <3>1
    <3> QED  BY <3>1, <3>5, <3>6, <3>7, <3>8
  <2> QED  BY <2>1, <2>2
<1>15. ASSUME NEW x \in ToSet(n.level), Left(n, x) > 0 PROVE Left(m, x) >= -1
  <2>0. n.level # <<>> /\ n.clock[x] \in Int /\ clock[x] \in Int /\ Left(n, x) = n.clock[x] - now
    BY <1>5, <1>10 DEF ToSet
  <2>1. n.clock[x] > now /\ n.clock[x] > 0
    BY <1>1, <1>15, <2>0
  <2>2. clock[x] >= 1 /\ clock[x] >= S(n.clock[x])
    BY <1>5, <2>1
  <2>3. CASE n.base = n.rem
    BY <1>9, <1>10, <2>0, <2>2, <2>3
  <2>4. CASE n.base # n.rem
    <3> DEFINE c == n.clock[x]
               base == n.base
               rem == n.rem
    <3>1. base \in Int /\ rem \in Int /\ base >= rem /\ c \in Int /\ c > base - rem
      BY <1>1, <2>0, <2>1
    <3> HIDE DEF c, base, rem
    <3>2. S(c) - (S(base) - S(rem)) >= -1
      BY <3>1, ScaledLeft DEF S
    <3>3. S(n.clock[x]) - (S(n.base) - S(n.rem)) >= -1
      BY <3>2 DEF c, base, rem
    <3>4. S(n.base) \in Int /\ S(n.rem) \in Int /\ S(n.clock[x]) \in Int
      BY <1>1, <1>4, <2>0
    <3>5. Left(m, x) = clock[x] - (S(n.base) - S(n.rem))
      BY <1>9, <1>10, <2>0, <2>4
    <3> QED  BY <2>0, <2>2, <3>3, <3>4, <3>5
  <2> QED  BY <2>3, <2>4
<1>16. ASSUME NEW b \in Int, b <= 0, Late(n, b), now <= -b PROVE Late(m, (new + 1) * b - 3)
  <2> DEFINE p == new * b
             q == new * now
  <2>1. /\ (new + 1) * b - 3 = p + b - 3 /\ p \in Int /\ p <= 0 /\ q \in Nat /\ q <= -p /\ p <= b
    <3>0. -b \in Nat /\ new - 1 \in Nat
      BY <1>16
    <3>1. new * (-b) \in Nat /\ p = -(new * (-b)) /\ (new - 1) * (-b) \in Nat
      BY <3>0
    <3>2. q \in Nat /\ q <= -p
      <4>1. \A i \in Nat, j \in Int : i <= -j => new * i \in Nat /\ new * i <= -(new * j)
        <5> SUFFICES ASSUME NEW i \in Nat, NEW j \in Int, i <= -j
                     PROVE  new * i \in Nat /\ new * i <= -(new * j)
          OBVIOUS
        <5>1. -j - i \in Nat
          OBVIOUS
        <5>2. new * (-j - i) \in Nat /\ new * (-j - i) = -(new * j) - new * i
          BY <5>1
        <5> QED  BY <5>2
      <4>2. now \in Nat
        BY <1>1
      <4> HIDE DEF now
      <4> QED  BY <1>16, <4>1, <4>2
    <3>3. p = b - (new - 1) * (-b) /\ (new + 1) * b - 3 = p + b - 3
      OBVIOUS
    <3> HIDE DEF p, q
    <3> QED  BY <3>1, <3>2, <3>3
  <2>2. b <= n.rem
    BY <1>16 DEF Late
  <2>3. NeventNow(m) \in Nat /\ NeventNow(m) <= q + 2
    BY <1>9
  <2> HIDE DEF p, q
  <2>4. ASSUME NEW x \in ToSet(n.level) PROVE p + b - 3 <= Left(m, x) /\ b <= clock[x]
    <3>1. n.clock[x] \in Int /\ clock[x] \in Int /\ b <= n.clock[x] - now
      BY <1>5, <1>10, <1>16 DEF Late
    <3>2. b <= clock[x]
      <4>1. CASE n.clock[x] <= 0
        BY <1>1, <1>5, <3>1, <4>1
      <4>2. CASE n.clock[x] > 0
        BY <1>5, <1>16, <3>1, <4>2
      <4> QED  BY <3>1, <4>1, <4>2
    <3> QED  BY <1>10, <2>1, <2>3, <3>1, <3>2
  <2>5. p + b - 3 <= m.rem
    <3>1. CASE n.level = <<>>
      BY <1>1, <1>7, <1>16, <2>1, <2>2, <3>1
    <3>2. CASE n.level # <<>> /\ n.base = n.rem
      <4>1. h \in ToSet(n.level)
        BY <1>1, <3>2 DEF ToSet, h
      <4>2. b <= clock[h] /\ clock[h] \in Int
        BY <1>5, <2>4, <4>1
      <4> QED  BY <1>7, <1>16, <2>1, <3>2, <4>2
    <3>3. CASE n.level # <<>> /\ n.base # n.rem
      <4> DEFINE R == S(n.rem)
      <4>1. /\ R \in Int /\ old * R \in Int /\ n.rem * new \in Int
            /\ n.rem <= 0 => R <= 0
        BY <1>1, ScaledIs DEF S
      <4>1a. n.rem >= 0 => R >= 0
        BY <1>1, ScaledIs DEF S
      <4>1b. n.rem < 0 => old * R >= n.rem * new
        BY <1>1, ScaledIs DEF S
      <4>2. m.rem = R
        BY <1>7, <3>3
      <4> HIDE DEF R
      <4>3. CASE n.rem >= 0
        BY <1>16, <2>1, <4>1, <4>1a, <4>2, <4>3
      <4>4. CASE n.rem < 0
        <5>1. new * (n.rem - b) \in Nat /\ new * (n.rem - b) = n.rem * new - p
          <6>1. n.rem - b \in Nat
            BY <1>1, <1>16, <2>2
          <6>2. new * (n.rem - b) \in Nat /\ new * (n.rem - b) = n.rem * new - new * b
            BY <1>1, <6>1
          <6> QED  BY <6>2 DEF p
        <5>2. (old - 1) * (-R) \in Nat /\ old * R = R - (old - 1) * (-R)
          BY <1>1, <4>1, <4>4
        <5> QED  BY <1>16, <2>1, <4>1, <4>1b, <4>2, <4>4, <5>1, <5>2
      <4> QED  BY <1>1, <4>3, <4>4
    <3> QED  BY <3>1, <3>2, <3>3
  <2> QED  BY <1>3, <2>1, <2>4, <2>5 DEF Late
<1> QED  BY <1>2, <1>8, <1>9, <1>11, <1>13, <1>14, <1>15, <1>16 DEF m

-----------------------------------------------------------------------------
(* What the bounds of Alarms must be.  An event is late by the instruction *)
(* that runs over it, an STI before that, and by an interrupt that is      *)
(* taken before it goes off: one at most, for it disables the next.  A new *)
(* clock between two frames stretches what is late and the time that       *)
(* passed since the list was looked at; K[k] is how late an event may be   *)
(* after k such changes.                                                   *)
Enough(K) ==
  /\ K \in [0 .. MaxSetups -> Nat]
  /\ \A k \in 0 .. MaxSetups :
       /\ 2 <= K[k] /\ \A c \in Costs : c <= K[k]
       /\ K[k] + IntCost <= Latest
       /\ k < MaxSetups => \A m \in Multiples : (m + 1) * (K[k] + IntCost) + 3 <= K[k + 1]
  /\ Latest \in Nat /\ Longest \in Nat
  /\ IntCost <= Longest /\ \A c \in Costs : c <= Longest
  /\ \A m \in Multiples : m * DispClock < Longest /\ m * VsyncClock < Longest

LateBy(K) == K[setups] + (IF ei THEN 0 ELSE IntCost)

(* The event that ends the frame is always set or to be called while the   *)
(* frame goes on, and the next one starts from where it was due.           *)
FrameInv(K) ==
  /\ NeventIsWork(nev, "FLAMES") => Left(nev, "FLAMES") < Longest
  /\ phase \in {"irq", "exec", "progress"} => disp /\ NeventIsWork(nev, "FLAMES")
  /\ phase = "call" /\ disp => NeventIsWork(nev, "FLAMES") \/ "FLAMES" \in ToSet(nev.wait)
  /\ "FLAMES" \in ToSet(nev.wait) => disp /\ "FLAMES" \in nev.setevent /\ nev.clock["FLAMES"] <= 0
  /\ phase = "host" \/ (phase = "call" /\ ~disp) =>
       ~NeventIsWork(nev, "FLAMES") /\ nev.clock["FLAMES"] <= 0 /\ -LateBy(K) <= Left(nev, "FLAMES")

(* While the CPU executes nothing is late, and the slice ends when the     *)
(* first event is due; the instruction after an STI may run over it.       *)
SliceInv(K) ==
  IF phase = "exec"
  THEN nev.rem > 0 /\ Late(nev, 0) /\ (Stops(nev) \/ (sti /\ nev.rem = 1))
  ELSE /\ Stops(nev) /\ Late(nev, -LateBy(K))
       /\ phase = "progress" => nev.rem <= 0
       /\ phase # "progress" => NeventNow(nev) >= 0
       /\ \A x \in ToSet(nev.wait) \cap nev.setevent : -LateBy(K) <= Left(nev, x)

AlarmInv(K) ==
  /\ Ordered(nev) /\ (phase = "call" <=> nev.wait # <<>>)
  /\ phase \in {"host", "irq", "exec", "progress", "call"} /\ disp \in BOOLEAN
  /\ multiple \in Multiples /\ setups \in 0 .. MaxSetups /\ ei \in BOOLEAN
  /\ FrameInv(K) /\ SliceInv(K)

LEMMA Bounds ==
  ASSUME NEW K, Enough(K), NEW k \in 0 .. MaxSetups
  PROVE  /\ K[k] \in Nat /\ 2 <= K[k] /\ IntCost \in Nat /\ \A c \in Costs : c \in Nat \ {0} /\ c <= K[k] /\ c <= Longest
         /\ K[k] + IntCost <= Latest /\ Latest \in Nat /\ Longest \in Nat /\ IntCost <= Longest
         /\ MaxSetups \in Nat /\ "FLAMES" \in Event
         /\ \A m \in Multiples :
              /\ m \in Nat \ {0} /\ m * DispClock \in Nat \ {0} /\ m * VsyncClock \in Nat \ {0}
              /\ m * DispClock < Longest /\ m * VsyncClock < Longest
         /\ 2 <= Longest
<1>1. IntCost \in Nat /\ Costs \subseteq Nat \ {0} /\ MaxSetups \in Nat /\ "FLAMES" \in Event
  BY BoardAssumption
<1>2. ASSUME NEW m \in Multiples
      PROVE  m \in Nat \ {0} /\ m * DispClock \in Nat \ {0} /\ m * VsyncClock \in Nat \ {0}
  <2>1. \A i, j \in Nat \ {0} : i * j \in Nat \ {0}
    OBVIOUS
  <2> QED  BY <2>1, BoardAssumption
<1>3. PICK m \in Multiples : TRUE
  BY BoardAssumption
<1>4. 2 <= Longest
  BY <1>2, <1>3 DEF Enough
<1> QED  BY <1>1, <1>2, <1>4 DEF Enough

LEMMA RanLeft ==
  ASSUME NEW n \in NeventType, NEW m \in NeventType, NEW d \in Int, NEW T, Ran(n, m, d, T)
  PROVE  \A y \in Event \ T : Left(m, y) = Left(n, y) - d /\ Left(n, y) \in Int /\ Left(m, y) \in Int
BY Numeric DEF Ran, Left

(* Nothing is to be called. *)
LEMMA NothingRings ==
  ASSUME NEW n, n.wait = <<>>
  PROVE  /\ ToSet(n.wait) \cap n.setevent = {}
         /\ \A f : [x \in ToSet(n.wait) \cap n.setevent |-> f[x]] = [x \in {} |-> 0]
<1>1. ToSet(n.wait) = {}
  BY DEF ToSet
<1> QED  BY <1>1

(* A step of the CPU, or of the loop around it, that lets d clocks pass. *)
LEMMA PassIs ==
  ASSUME Ringing = {}, Ringing' = {}, multiple' = multiple, Longest \in Nat,
         nev \in NeventType, nev' \in NeventType, Off \notin Int,
         NEW d \in Nat, d <= Longest,
         d = 0 \/ sti \/ phase = "irq" \/ \A x \in ToSet(nev.level) : Left(nev, x) > 0,
         NEW x \in Event,
         \A y \in Event \ {x} : NeventIsWork(nev', y) <=> NeventIsWork(nev, y),
         \A y \in Event \ {x} : NeventIsWork(nev, y) => Left(nev', y) = Left(nev, y) - d
  PROVE  A!Pass
<1> DEFINE left == [y \in Event |-> IF NeventIsWork(nev, y) THEN nev.clock[y] - NeventNow(nev) ELSE Off]
<1>1. left = [y \in Event |-> IF NeventIsWork(nev, y) THEN Left(nev, y) ELSE Off]
  BY DEF Left
<1>2. left' = [y \in Event |-> IF NeventIsWork(nev', y) THEN Left(nev', y) ELSE Off]
  BY DEF Left
<1>3. Ringing = {} /\ Ringing' = {}
  OBVIOUS
<1>4. A!Silent
  BY <1>3 DEF A!Silent
<1>5. \A y \in Event : left[y] # Off => NeventIsWork(nev, y) /\ left[y] = Left(nev, y)
  BY <1>1
<1>6. d = 0 \/ sti \/ phase = "irq" \/ A!Due = {}
  <2> SUFFICES ASSUME \A y \in ToSet(nev.level) : Left(nev, y) > 0 PROVE A!Due = {}
    OBVIOUS
  <2>1. \A y \in Event : NeventIsWork(nev, y) => ~(Left(nev, y) <= 0)
    BY Numeric DEF NeventIsWork
  <2>2. A!Due = {y \in {z \in Event : left[z] # Off} : left[y] <= 0}
    BY DEF A!Due, A!Armed
  <2> HIDE DEF left
  <2> QED  BY <1>5, <2>1, <2>2
<1>7. A!Touched(A!After(d)) \subseteq {x}
  <2> DEFINE after == [y \in Event |-> IF left[y] = Off THEN Off ELSE left[y] - d]
  <2>1. A!Touched(A!After(d)) = {y \in Event : left'[y] # after[y]}
    BY DEF A!Touched, A!After
  <2>2. ASSUME NEW y \in Event \ {x} PROVE left'[y] = after[y]
    <3>1. Left(nev, y) \in Int
      BY Numeric
    <3>2. CASE NeventIsWork(nev, y)
      <4>1. left[y] = Left(nev, y) /\ left[y] # Off /\ left'[y] = Left(nev', y)
        BY <1>1, <1>2, <3>1, <3>2
      <4> HIDE DEF left
      <4> QED  BY <3>2, <4>1
    <3>3. CASE ~NeventIsWork(nev, y)
      <4>1. left[y] = Off /\ left'[y] = Off
        BY <1>1, <1>2, <3>3
      <4> HIDE DEF left
      <4> QED  BY <4>1
    <3> QED  BY <3>2, <3>3
  <2> QED  BY <2>1, <2>2
<1>8. d \in IF A!Due = {} \/ (sti \/ phase = "irq") THEN 0 .. Longest ELSE {0}
  BY <1>6
<1>9. [y \in Ringing |-> nev.clock[y] - NeventNow(nev)]' = [y \in Ringing |-> nev.clock[y] - NeventNow(nev)]
  BY <1>3
<1> QED  BY <1>4, <1>7, <1>8, <1>9 DEF A!Pass

(* A step of the CPU: m is the list before what nobody reads is forgotten. *)
LEMMA RunStep ==
  ASSUME NEW K, Enough(K), AlarmInv(K), phase \in {"irq", "exec"}, Off \notin Int,
         NEW m, NEW d \in Nat, d <= Longest, NEW x \in Event \ {"FLAMES"},
         d = 0 \/ sti \/ phase = "irq" \/ Stops(nev),
         Ordered(m), Ran(nev, m, d, {x}), Late(m, -LateBy(K)'),
         Stops(m) \/ (sti' /\ m.rem = 1 /\ Late(m, 0)),
         nev' = Forgets(m), phase' = IF m.rem > 0 THEN "exec" ELSE "progress",
         multiple' = multiple, disp' = disp, setups' \in 0 .. MaxSetups, ei' \in BOOLEAN
  PROVE  AlarmInv(K)' /\ A!Pass
<1> DEFINE F == "FLAMES"
<1>1. nev \in NeventType /\ m \in NeventType /\ nev.wait = <<>> /\ m.wait = <<>>
  BY DEF AlarmInv, Ordered, Listed, Ran
<1>2. /\ Ordered(nev') /\ nev'.level = m.level /\ nev'.wait = <<>> /\ nev'.setevent = m.setevent
      /\ nev'.rem = m.rem /\ NeventNow(nev') = NeventNow(m)
      /\ \A y \in Event : y = F \/ NeventIsWork(m, y) => Left(nev', y) = Left(m, y)
      /\ (Stops(m) => Stops(nev')) /\ \A b : Late(m, b) => Late(nev', b)
  BY <1>1, ForgetsIs
<1>3. \A y \in Event : NeventIsWork(nev', y) <=> NeventIsWork(m, y)
  BY <1>2 DEF NeventIsWork
<1>4. \A y \in Event \ {x} : /\ NeventIsWork(m, y) <=> NeventIsWork(nev, y)
                            /\ Left(m, y) = Left(nev, y) - d /\ Left(nev, y) \in Int
  <2>1. d \in Int
    OBVIOUS
  <2>2. \A y \in Event \ {x} : Left(m, y) = Left(nev, y) - d /\ Left(nev, y) \in Int
    BY <1>1, <2>1, RanLeft
  <2> QED  BY <2>2 DEF Ran
<1>5. nev' \in NeventType /\ m.rem \in Int /\ nev.rem \in Int
  BY <1>1, <1>2, Numeric DEF Ordered, Listed
<1>6. K[setups'] \in Nat /\ Longest \in Nat /\ F \in Event
  BY Bounds
<1>7. A!Pass
  <2>1. d = 0 \/ sti \/ phase = "irq" \/ \A y \in ToSet(nev.level) : Left(nev, y) > 0
    <3> SUFFICES ASSUME Stops(nev), phase = "exec", NEW y \in ToSet(nev.level) PROVE Left(nev, y) > 0
      OBVIOUS
    <3>1. nev.rem > 0 /\ nev.rem <= Left(nev, y)
      BY DEF AlarmInv, SliceInv, Stops
    <3>2. Left(nev, y) \in Int
      BY <1>1, Numeric
    <3> QED  BY <1>5, <3>1, <3>2
  <2>2. \A y \in Event \ {x} : NeventIsWork(nev', y) <=> NeventIsWork(nev, y)
    BY <1>3, <1>4
  <2>3. \A y \in Event \ {x} : NeventIsWork(nev, y) => Left(nev', y) = Left(nev, y) - d
    BY <1>2, <1>4
  <2>4. x \in Event /\ Ringing = {} /\ Ringing' = {}
    BY <1>1, <1>2, NothingRings DEF Ringing
  <2> QED  BY <1>1, <1>5, <1>6, <2>1, <2>2, <2>3, <2>4, PassIs
<1>8. FrameInv(K)'
  <2>1. disp /\ NeventIsWork(nev, F) /\ Left(nev, F) < Longest
    BY DEF AlarmInv, FrameInv
  <2>2. NeventIsWork(nev', F) /\ Left(nev', F) = Left(nev, F) - d /\ Left(nev, F) \in Int
    <3>1. F \in Event \ {x}
      BY <1>6
    <3>2. /\ NeventIsWork(m, F) <=> NeventIsWork(nev, F)
          /\ Left(m, F) = Left(nev, F) - d /\ Left(nev, F) \in Int
      BY <1>4, <3>1
    <3> QED  BY <1>2, <1>3, <1>6, <2>1, <3>2
  <2>3. Left(nev', F) < Longest
    BY <1>6, <2>1, <2>2
  <2>4. ~(F \in ToSet(nev'.wait)) /\ phase' \in {"exec", "progress"} /\ disp'
    BY <1>2, <2>1 DEF ToSet
  <2> QED  BY <2>2, <2>3, <2>4 DEF FrameInv
<1>9. SliceInv(K)'
  <2>1. CASE m.rem > 0
    <3>1. phase' = "exec" /\ nev'.rem > 0
      BY <1>2, <2>1
    <3>2. Late(nev', 0) /\ (Stops(nev') \/ (sti' /\ nev'.rem = 1))
      <4>1. CASE Stops(m)
        <5>1. \A y \in ToSet(m.level) : 0 <= Left(m, y)
          BY <1>1, <1>5, <2>1, <4>1, Numeric DEF Stops
        <5>2. Late(m, 0)
          BY <1>5, <2>1, <5>1 DEF Late
        <5> QED  BY <1>2, <4>1, <5>2
      <4>2. CASE sti' /\ m.rem = 1 /\ Late(m, 0)
        BY <1>2, <4>2
      <4> QED  BY <4>1, <4>2
    <3> QED  BY <3>1, <3>2 DEF SliceInv
  <2>2. CASE ~(m.rem > 0)
    <3>1. phase' = "progress" /\ nev'.rem <= 0 /\ Stops(nev') /\ Late(nev', -LateBy(K)')
      BY <1>2, <1>5, <2>2
    <3>2. ToSet(nev'.wait) = {}
      BY <1>2 DEF ToSet
    <3> QED  BY <3>1, <3>2 DEF SliceInv
  <2> QED  BY <2>1, <2>2
<1> QED  BY <1>2, <1>7, <1>8, <1>9 DEF AlarmInv

(* What the CPU may find before an instruction. *)
LEMMA Executing ==
  ASSUME NEW K, Enough(K), AlarmInv(K), phase = "exec"
  PROVE  /\ Ordered(nev) /\ nev \in NeventType /\ Late(nev, 0) /\ nev.rem \in Int /\ nev.rem >= 1
         /\ Stops(nev) \/ (sti /\ nev.rem = 1)
         /\ \A b \in Int : Stops(nev) /\ b <= nev.rem => Late(nev, b)
         /\ nev.rem < Longest
<1>1. /\ Ordered(nev) /\ nev \in NeventType /\ Late(nev, 0) /\ nev.rem > 0
      /\ Stops(nev) \/ (sti /\ nev.rem = 1)
  BY DEF AlarmInv, SliceInv, Ordered, Listed
<1>2. nev.rem \in Int /\ \A y \in ToSet(nev.level) : Left(nev, y) \in Int
  BY <1>1, Numeric
<1>3. \A b \in Int : Stops(nev) /\ b <= nev.rem => Late(nev, b)
  BY <1>1, <1>2 DEF Stops, Late
<1>4. nev.rem < Longest
  <2>1. CASE Stops(nev)
    <3>1. "FLAMES" \in ToSet(nev.level) /\ Left(nev, "FLAMES") < Longest
      BY DEF AlarmInv, FrameInv, NeventIsWork
    <3>2. nev.rem <= Left(nev, "FLAMES")
      BY <1>1, <2>1, <3>1 DEF Stops
    <3>3. Longest \in Nat
      BY DEF Enough
    <3> QED  BY <1>2, <3>1, <3>2, <3>3
  <2>2. CASE nev.rem = 1
    <3>1. setups \in 0 .. MaxSetups
      BY DEF AlarmInv
    <3>2. Longest \in Nat /\ 2 <= Longest
      BY <3>1, Bounds
    <3> QED  BY <2>2, <3>2
  <2> QED  BY <1>1, <2>1, <2>2
<1> QED  BY <1>1, <1>2, <1>3, <1>4

(* A list d clocks after that of now, nothing later than b: what the       *)
(* instructions that touch event x make of it.                             *)
Ready(m, d, b, x) == Ordered(m) /\ Stops(m) /\ Late(m, b) /\ Ran(nev, m, d, {x})

LEMMA MovedRan ==
  ASSUME NEW n, NEW m, Ordered(n), NEW d \in Int, NEW x, Ran(n, m, d, {}) \/ Ran(n, m, d, {x})
  PROVE  Ran(n, m, d, {x})
BY DEF Ran

LEMMA ReadyAgain ==
  ASSUME NEW m, NEW d \in Int, NEW b \in Int, NEW x \in Event, nev \in NeventType, Ready(m, d, b, x),
         NEW o, Ordered(o), Stops(o), Late(o, b), Ran(m, o, 0, {}) \/ Ran(m, o, 0, {x})
  PROVE  Ready(o, d, b, x)
<1>1. Ran(m, o, 0, {x})
  <2>1. Ran(m, o, 0, {}) => Ran(m, o, 0, {x})
    BY DEF Ran
  <2> QED  BY <2>1
<1>2. Ran(nev, o, d + 0, {x} \cup {x})
  BY <1>1, RanTwice DEF Ready
<1>3. d + 0 = d /\ {x} \cup {x} = {x}
  OBVIOUS
<1> QED  BY <1>2, <1>3 DEF Ready

(* An event is set for later, or reset. *)
LEMMA ReadySet ==
  ASSUME NEW m, NEW d \in Int, NEW b \in Int, b <= 0, NEW x \in Event, nev \in NeventType, Ready(m, d, b, x)
  PROVE  /\ \A t \in Nat : Ready(SetAbsolute(m, x, t), d, b, x)
         /\ Ready(NeventReset(m, x), d, b, x)
<1>1. Ordered(m) /\ Stops(m) /\ Late(m, b)
  BY DEF Ready
<1>2. ASSUME NEW t \in Nat PROVE Ready(SetAbsolute(m, x, t), d, b, x)
  <2>1. PICK u \in Int : SetAbsolute(m, x, t) = NeventSet(m, x, u) /\ u - NeventNow(m) = t
    BY <1>1, SetAtIs
  <2> DEFINE o == NeventSet(m, x, u)
  <2>2. b <= u - NeventNow(m)
    BY <2>1
  <2>3. Ordered(o) /\ Ran(m, o, 0, {x}) /\ Stops(o) /\ Late(o, b)
    BY <1>1, <2>2, SetIs
  <2> HIDE DEF o
  <2>4. Ready(o, d, b, x)
    BY <2>3, ReadyAgain
  <2> QED  BY <2>1, <2>4 DEF o
<1>3. Ready(NeventReset(m, x), d, b, x)
  <2> DEFINE o == NeventReset(m, x)
  <2>1. Ordered(o) /\ Ran(m, o, 0, {x}) /\ Stops(o) /\ Late(o, b)
    BY <1>1, ResetIs
  <2> HIDE DEF o
  <2>2. Ready(o, d, b, x)
    BY <2>1, ReadyAgain
  <2> QED  BY <2>2 DEF o
<1> QED  BY <1>2, <1>3

LEMMA ReadyArmed ==
  ASSUME NEW m, NEW d \in Int, NEW b \in Int, b <= 0, nev \in NeventType, Ready(m, d, b, "KEYBOARD"),
         multiple \in Multiples
  PROVE  Ready(KeyboardArmed(m), d, b, "KEYBOARD")
<1>1. "KEYBOARD" \in Event /\ multiple * XferClock \in Nat
  <2>1. multiple \in Nat /\ XferClock \in Nat /\ "KEYBOARD" \in Event
    BY BoardAssumption
  <2> QED  BY <2>1
<1>2. Ready(SetAbsolute(m, "KEYBOARD", multiple * XferClock), d, b, "KEYBOARD")
  BY <1>1, ReadySet
<1> QED  BY <1>2 DEF KeyboardArmed

(* Instructions that only take their time, or end the slice. *)
LEMMA ReadySpent ==
  ASSUME NEW K, Enough(K), AlarmInv(K), phase = "exec", NEW c \in Nat \ {0}, NEW x \in Event
  PROVE  /\ Ready(Spend(nev, c), c, -c, x)
         /\ Ready(NeventForceExit(Spend(nev, c)), c, -c, x)
         /\ Stops(nev) /\ c = 1 => Ready(Spend(nev, 1), 1, 0, x)
<1> DEFINE m == Spend(nev, c)
           f == NeventForceExit(m)
<1>1. /\ Ordered(nev) /\ nev \in NeventType /\ Late(nev, 0) /\ nev.rem \in Int /\ nev.rem >= 1
      /\ Stops(nev) \/ nev.rem = 1
      /\ Stops(nev) => Late(nev, 1)
  BY Executing
<1>2. Moved(nev, m) /\ m.rem = nev.rem - c /\ NeventNow(m) = NeventNow(nev) + c /\ c \in Int
  <2>1. \A e \in Int : /\ Moved(nev, Spend(nev, e)) /\ Spend(nev, e).rem = nev.rem - e
                       /\ NeventNow(Spend(nev, e)) = NeventNow(nev) + e
    BY <1>1, Counters
  <2>2. c \in Int
    OBVIOUS
  <2> QED  BY <2>1, <2>2
<1>3. Ordered(m) /\ Ran(nev, m, c, {x}) /\ m.rem \in Int
  BY <1>1, <1>2, MovedIs, MovedRan
<1> HIDE DEF m
<1>4. Stops(m)
  BY <1>1, <1>2, MovedLate
<1>5. Late(m, -c)
  <2>1. -c \in Int /\ 0 \in Int /\ -c <= 0 - c /\ -c <= m.rem
    BY <1>1, <1>2
  <2> QED  BY <1>1, <1>2, <2>1, MovedLate
<1>6. Stops(nev) /\ c = 1 => Late(m, 0)
  <2> HAVE Stops(nev) /\ c = 1
  <2>1. 0 \in Int /\ 1 \in Int /\ 0 <= 1 - c /\ 0 <= m.rem
    BY <1>1, <1>2
  <2> QED  BY <1>1, <1>2, <2>1, MovedLate
<1>7. Ready(m, c, -c, x)
  BY <1>3, <1>4, <1>5 DEF Ready
<1>8. Stops(nev) /\ c = 1 => Ready(m, 1, 0, x)
  BY <1>3, <1>4, <1>6 DEF Ready
<1>9. m \in NeventType
  BY <1>3 DEF Ordered, Listed
<1>10. Moved(m, f) /\ NeventNow(f) = NeventNow(m) + 0 /\ f.rem = (IF m.rem > 0 THEN 0 ELSE m.rem)
  <2>1. NeventNow(m) \in Int
    BY <1>9, Numeric
  <2>2. Moved(m, f) /\ NeventNow(f) = NeventNow(m) /\ f.rem = (IF m.rem > 0 THEN 0 ELSE m.rem)
    BY <1>9, Counters
  <2> QED  BY <2>1, <2>2
<1>11. Ordered(f) /\ Ran(m, f, 0, {})
  BY <1>3, <1>10, MovedIs
<1> HIDE DEF f
<1>12. Stops(f)
  BY <1>3, <1>10, MovedLate
<1>13. Late(f, -c)
  <2>1. -c <= m.rem
    BY <1>5 DEF Late
  <2>2. -c \in Int /\ -c <= -c - 0 /\ -c <= f.rem
    BY <1>3, <1>10, <2>1
  <2> QED  BY <1>3, <1>5, <1>10, <2>2, MovedLate
<1>14. Ready(f, c, -c, x)
  <2>1. -c \in Int
    OBVIOUS
  <2> QED  BY <1>1, <1>2, <1>7, <1>11, <1>12, <1>13, <2>1, ReadyAgain
<1> QED  BY <1>7, <1>8, <1>14 DEF m, f

LEMMA ReadyHalt ==
  ASSUME NEW K, Enough(K), AlarmInv(K), phase = "exec", NEW x \in Event
  PROVE  Ready([nev EXCEPT !.rem = -1], nev.rem + 1, -2, x)
<1> DEFINE m == [nev EXCEPT !.rem = -1]
           d == nev.rem + 1
<1>1. /\ Ordered(nev) /\ nev \in NeventType /\ Late(nev, 0) /\ nev.rem \in Int /\ nev.rem >= 1
      /\ Stops(nev) \/ nev.rem = 1
      /\ Stops(nev) => Late(nev, nev.rem)
  BY Executing
<1>2. Moved(nev, m) /\ m.rem = -1 /\ NeventNow(m) = NeventNow(nev) + d /\ d \in Int
  <2>1. Moved(nev, m) /\ m.rem = -1 /\ NeventNow(m) = NeventNow(nev) + (nev.rem + 1)
    BY <1>1, Counters
  <2> QED  BY <1>1, <2>1
<1> HIDE DEF m
<1>3. Ordered(m) /\ Ran(nev, m, d, {x})
  BY <1>1, <1>2, MovedIs, MovedRan
<1>4. Stops(m)
  BY <1>1, <1>2, MovedLate
<1>5. Late(m, -2)
  <2>1. -2 \in Int /\ -2 <= m.rem
    BY <1>2
  <2>2. CASE Stops(nev)
    <3>1. -2 <= nev.rem - d
      BY <1>1
    <3> QED  BY <1>1, <1>2, <2>1, <2>2, <3>1, MovedLate
  <2>3. CASE nev.rem = 1
    <3>1. 0 \in Int /\ -2 <= 0 - d
      BY <1>1, <2>3
    <3> QED  BY <1>1, <1>2, <2>1, <3>1, MovedLate
  <2> QED  BY <1>1, <2>2, <2>3
<1> QED  BY <1>3, <1>4, <1>5 DEF Ready, m

(* STI: the slice goes on, or lasts one instruction more. *)
LEMMA ReadySti ==
  ASSUME NEW K, Enough(K), AlarmInv(K), phase = "exec", ~sti, NEW x \in Event,
         NEW m, m \in {RemainAdjust(Spend(nev, 1)), NextOpcode(Spend(nev, 1))}
  PROVE  /\ Ordered(m) /\ Ran(nev, m, 1, {x}) /\ Late(m, 0) /\ m.rem > 0
         /\ Stops(m) \/ m.rem = 1
<1> DEFINE n == Spend(nev, 1)
<1>1. nev \in NeventType /\ Stops(nev) /\ 1 \in Nat \ {0}
  BY Executing
<1>2. Ready(n, 1, 0, x)
  BY <1>1, ReadySpent
<1> HIDE DEF n
<1>3. Ordered(n) /\ Stops(n) /\ Late(n, 0) /\ Ran(nev, n, 1, {x}) /\ n \in NeventType
  BY <1>2 DEF Ready, Ordered, Listed
<1>4. n.rem \in Int /\ n.rem >= 0 /\ NeventNow(n) \in Int
  BY <1>3, Numeric DEF Late
<1>5. /\ Moved(n, m) /\ NeventNow(m) = NeventNow(n) + 0
      /\ m.rem = 1 \/ (n.rem >= 1 /\ m.rem = n.rem)
  <2>1. Moved(n, RemainAdjust(n)) /\ NeventNow(RemainAdjust(n)) = NeventNow(n) /\ RemainAdjust(n).rem = 1
    BY <1>3, Counters
  <2>2. /\ Moved(n, NextOpcode(n)) /\ NeventNow(NextOpcode(n)) = NeventNow(n)
        /\ NextOpcode(n).rem = IF n.rem < 1 THEN 1 ELSE n.rem
    BY <1>3, Counters
  <2>3. m = RemainAdjust(n) \/ m = NextOpcode(n)
    BY DEF n
  <2> QED  BY <1>4, <2>1, <2>2, <2>3
<1>6. Ordered(m) /\ Ran(n, m, 0, {}) /\ m.rem > 0
  BY <1>3, <1>4, <1>5, MovedIs
<1>7. Late(m, 0)
  <2>1. 0 \in Int /\ 0 <= 0 - 0 /\ 0 <= m.rem
    BY <1>4, <1>5
  <2> QED  BY <1>3, <1>5, <2>1, MovedLate
<1>8. Stops(m) \/ m.rem = 1
  <2> SUFFICES ASSUME m.rem = n.rem PROVE Stops(m)
    BY <1>5
  <2>1. 0 \in Int /\ 0 >= 0 /\ m.rem <= n.rem - 0
    BY <1>4
  <2> QED  BY <1>3, <1>5, <2>1, MovedLate
<1>9. Ran(nev, m, 1 + 0, {x} \cup {})
  BY <1>1, <1>3, <1>6, RanTwice
<1>10. 1 + 0 = 1 /\ {x} \cup {} = {x}
  OBVIOUS
<1> QED  BY <1>6, <1>7, <1>8, <1>9, <1>10

(* What an instruction leaves alone. *)
Calm ==
  multiple' = multiple /\ disp' = disp /\ setups' \in 0 .. MaxSetups /\ ei' \in BOOLEAN

LEMMA ExecStep ==
  ASSUME NEW K, Enough(K), AlarmInv(K), phase = "exec", Off \notin Int, Calm,
         NEW m, Runs(m) \/ RunsOn(m), NEW x \in Event \ {"FLAMES"},
         NEW d \in Int, NEW b \in Int, Ready(m, d, b, x),
         (d = 1 /\ b = -1) \/ (d = nev.rem + 1 /\ b = -2) \/ (d \in Costs /\ b = -d)
  PROVE  AlarmInv(K)' /\ A!Pass
<1>1. nev' = Forgets(m) /\ phase' = IF m.rem > 0 THEN "exec" ELSE "progress"
  BY DEF Runs, RunsOn
<1>2. nev.rem \in Int /\ nev.rem >= 1 /\ nev.rem < Longest /\ (sti \/ Stops(nev))
  BY Executing
<1>3. setups' \in 0 .. MaxSetups /\ ei' \in BOOLEAN
  BY DEF Calm
<1>4. /\ K[setups'] \in Nat /\ 2 <= K[setups'] /\ IntCost \in Nat /\ Longest \in Nat /\ 2 <= Longest
      /\ \A c \in Costs : c \in Nat /\ c <= K[setups'] /\ c <= Longest
  BY <1>3, Bounds
<1>5. d \in Nat /\ d <= Longest
  BY <1>2, <1>4
<1>6. LateBy(K)' \in Nat /\ K[setups'] <= LateBy(K)'
  <2>1. LateBy(K)' = K[setups'] + (IF ei' THEN 0 ELSE IntCost)
    BY DEF LateBy
  <2> QED  BY <1>3, <1>4, <2>1
<1>7. -LateBy(K)' <= b
  BY <1>4, <1>6
<1>8. Late(m, -LateBy(K)')
  <2>1. m \in NeventType
    BY DEF Ready, Ordered, Listed
  <2>2. m.rem \in Int /\ \A y \in ToSet(m.level) : Left(m, y) \in Int
    BY <2>1, Numeric
  <2> QED  BY <1>6, <1>7, <2>2 DEF Ready, Late
<1> QED  BY <1>1, <1>2, <1>3, <1>5, <1>8, RunStep DEF Calm, Ready

LEMMA OneClock ==
  ASSUME NEW K, Enough(K), AlarmInv(K), phase = "exec", Off \notin Int, Calm,
         NEW m, Runs(m), m \in {Spend(nev, 1), NeventForceExit(Spend(nev, 1))}
  PROVE  AlarmInv(K)' /\ A!Pass
<1>1. 1 \in Nat \ {0} /\ 1 \in Int /\ -1 \in Int /\ "PICMASK" \in Event \ {"FLAMES"}
  BY BoardAssumption
<1>2. Ready(m, 1, -1, "PICMASK")
  <2>1. Ready(Spend(nev, 1), 1, -1, "PICMASK") /\ Ready(NeventForceExit(Spend(nev, 1)), 1, -1, "PICMASK")
    BY <1>1, ReadySpent
  <2> QED  BY <2>1
<1> QED  BY <1>1, <1>2, ExecStep

LEMMA ProgramAlarms ==
  ASSUME NEW K, Enough(K), AlarmInv(K), Off \notin Int, Program
  PROVE  AlarmInv(K)' /\ A!Pass
<1> DEFINE s == Spend(nev, 1)
           Fact == AlarmInv(K)' /\ A!Pass
<1>1. /\ setups \in 0 .. MaxSetups /\ ei \in BOOLEAN /\ multiple \in Multiples /\ MaxSetups \in Nat
      /\ nev \in NeventType
  BY BoardAssumption DEF AlarmInv, Ordered, Listed
<1>2. Setup => setups' \in 0 .. MaxSetups
  BY <1>1 DEF Setup
<1>3. /\ 1 \in Nat \ {0} /\ 1 \in Int /\ -1 \in Int /\ -1 <= 0
      /\ "PICMASK" \in Event \ {"FLAMES"} /\ "KEYBOARD" \in Event \ {"FLAMES"}
      /\ "ITIMER" \in Event \ {"FLAMES"}
  BY BoardAssumption
<1>4. ASSUME NEW cost \in Costs, Run(cost) PROVE Fact
  <2>1. phase = "exec" /\ Runs(Spend(nev, cost)) /\ Calm
    BY <1>1, <1>4 DEF Run, Executes, Board, guest, history, Calm
  <2>2. cost \in Nat \ {0} /\ cost \in Int /\ -cost \in Int
    BY BoardAssumption
  <2>3. Ready(Spend(nev, cost), cost, -cost, "PICMASK")
    BY <1>3, <2>1, <2>2, ReadySpent
  <2> QED  BY <1>3, <2>1, <2>2, <2>3, ExecStep
<1>5. ASSUME Hlt PROVE Fact
  <2>1. phase = "exec" /\ Runs([nev EXCEPT !.rem = -1]) /\ Calm
    BY <1>1, <1>5 DEF Hlt, Executes, Board, guest, history, Calm
  <2>2. nev.rem + 1 \in Int /\ -2 \in Int
    BY <1>1, Numeric
  <2>3. Ready([nev EXCEPT !.rem = -1], nev.rem + 1, -2, "PICMASK")
    BY <1>3, <2>1, ReadyHalt
  <2> QED  BY <1>3, <2>1, <2>2, <2>3, ExecStep
<1>6. ASSUME Cli PROVE Fact
  <2>1. phase = "exec" /\ Runs(s) /\ Calm
    BY <1>1, <1>6 DEF Cli, Executes, Board, guest, history, Calm
  <2> QED  BY <2>1, OneClock
<1>7. ASSUME Sti PROVE Fact
  <2>1. PICK m : m \in {RemainAdjust(s), NextOpcode(s)} /\ Runs(m)
    BY <1>7, Zenon DEF Sti
  <2>2. phase = "exec" /\ Calm /\ ~sti /\ sti' = TRUE
    BY <1>1, <1>7 DEF Sti, Executes, Board, history, Calm
  <2>3. /\ Ordered(m) /\ Ran(nev, m, 1, {"PICMASK"}) /\ Late(m, 0) /\ m.rem > 0
        /\ Stops(m) \/ m.rem = 1
    BY <1>3, <2>1, <2>2, ReadySti
  <2>4. Stops(nev)
    BY <2>2, Executing
  <2>5. setups' \in 0 .. MaxSetups /\ ei' \in BOOLEAN
    BY <2>2 DEF Calm
  <2>6. K[setups'] \in Nat /\ IntCost \in Nat /\ Longest \in Nat /\ 1 <= Longest
    <3>1. K[setups'] \in Nat /\ IntCost \in Nat /\ Longest \in Nat /\ 2 <= Longest
      BY <2>5, Bounds
    <3> QED  BY <3>1
  <2>7. Late(m, -LateBy(K)')
    <3>1. LateBy(K)' = K[setups'] + (IF ei' THEN 0 ELSE IntCost)
      BY DEF LateBy
    <3>2. -LateBy(K)' <= 0 /\ LateBy(K)' \in Nat
      BY <2>5, <2>6, <3>1
    <3>3. m \in NeventType
      BY <2>3 DEF Ordered, Listed
    <3>4. m.rem \in Int /\ \A y \in ToSet(m.level) : Left(m, y) \in Int
      BY <3>3, Numeric
    <3> QED  BY <2>3, <3>2, <3>4 DEF Late
  <2>8. nev' = Forgets(m) /\ phase' = IF m.rem > 0 THEN "exec" ELSE "progress"
    BY <2>1 DEF Runs
  <2>9. 1 \in Nat
    OBVIOUS
  <2> QED  BY <1>3, <2>2, <2>3, <2>4, <2>5, <2>6, <2>7, <2>8, <2>9, RunStep DEF Calm
<1>8. ASSUME OutIcw PROVE Fact
  <2>1. phase = "exec" /\ Runs(NeventForceExit(s)) /\ Calm
    BY <1>1, <1>2, <1>8 DEF OutIcw, Executes, Board, guest, Calm
  <2> QED  BY <2>1, OneClock
<1>9. ASSUME OutVsync PROVE Fact
  <2>1. phase = "exec" /\ Runs(s) /\ Calm
    BY <1>1, <1>9 DEF OutVsync, Executes, Board, guest, Calm
  <2> QED  BY <2>1, OneClock
<1>10. ASSUME InData PROVE Fact
  <2>1. phase = "exec" /\ Runs(s) /\ Calm
    BY <1>1, <1>10 DEF InData, Executes, Board, guest, Calm
  <2> QED  BY <2>1, OneClock
<1>11. ASSUME NEW c, NEW dat, OutMask(c, dat) PROVE Fact
  <2>1. PICK m : m \in {s, NeventForceExit(s)} /\ Runs(m)
    BY <1>11, Zenon DEF OutMask
  <2>2. phase = "exec" /\ Calm
    BY <1>1, <1>11 DEF OutMask, Executes, Board, guest, history, Calm
  <2> QED  BY <2>1, <2>2, OneClock
<1>12. ASSUME NEW rate, OutTimer(rate) PROVE Fact
  <2> DEFINE m == SetAbsolute(s, "ITIMER", multiple * Period)
  <2>1. phase = "exec" /\ RunsOn(m) /\ Calm
    BY <1>1, <1>2, <1>12 DEF OutTimer, Executes, guest, Calm
  <2>2. multiple * Period \in Nat
    <3>1. multiple \in Nat /\ Period \in Nat
      BY <1>1, BoardAssumption
    <3> QED  BY <3>1
  <2>3. Ready(s, 1, -1, "ITIMER")
    BY <1>3, <2>1, ReadySpent
  <2> HIDE DEF s
  <2>4. Ready(m, 1, -1, "ITIMER")
    BY <1>1, <1>3, <2>2, <2>3, ReadySet
  <2> HIDE DEF m
  <2> QED  BY <1>3, <2>1, <2>4, ExecStep
<1>13. ASSUME NEW line, OutDevice(line) PROVE Fact
  <2>1. phase = "exec" /\ Runs(s) /\ Calm
    BY <1>1, <1>2, <1>13 DEF OutDevice, Executes, Board, guest, Calm
  <2> QED  BY <2>1, OneClock
<1>14. ASSUME NEW r, OutCommand(r) PROVE Fact
  <2>1. phase = "exec" /\ RunsOn(KeyboardArmed(s)) /\ Calm
    BY <1>1, <1>2, <1>14 DEF OutCommand, Executes, Board, guest, Calm
  <2>2. Ready(s, 1, -1, "KEYBOARD")
    BY <1>3, <2>1, ReadySpent
  <2> HIDE DEF s
  <2>3. Ready(KeyboardArmed(s), 1, -1, "KEYBOARD")
    BY <1>1, <1>3, <2>2, ReadyArmed
  <2> QED  BY <1>3, <2>1, <2>3, ExecStep
<1>15. ASSUME NEW held, OutKeyReset(held) PROVE Fact
  <2> DEFINE n == NeventReset(s, "KEYBOARD")
  <2>1. phase = "exec" /\ (Runs(n) \/ RunsOn(KeyboardArmed(n))) /\ Calm
    BY <1>1, <1>2, <1>15 DEF OutKeyReset, Executes, Board, guest, Calm
  <2>2. Ready(s, 1, -1, "KEYBOARD")
    BY <1>3, <2>1, ReadySpent
  <2> HIDE DEF s
  <2>3. Ready(n, 1, -1, "KEYBOARD")
    BY <1>1, <1>3, <2>2, ReadySet
  <2> HIDE DEF n
  <2>4. Ready(KeyboardArmed(n), 1, -1, "KEYBOARD")
    BY <1>1, <1>3, <2>3, ReadyArmed
  <2> QED  BY <1>3, <2>1, <2>3, <2>4, ExecStep
<1> QED  BY <1>4, <1>5, <1>6, <1>7, <1>8, <1>9, <1>10, <1>11, <1>12, <1>13, <1>14, <1>15, Zenon
         DEF Program

LEMMA HandlerAlarms ==
  ASSUME NEW K, Enough(K), AlarmInv(K), Off \notin Int, HandlerStep
  PROVE  AlarmInv(K)' /\ A!Pass
<1> DEFINE s == Spend(nev, 1)
<1>1. /\ setups \in 0 .. MaxSetups /\ ei \in BOOLEAN /\ multiple \in Multiples /\ MaxSetups \in Nat
  BY BoardAssumption DEF AlarmInv
<1>2. \A rotate : Rotates(rotate) => setups' \in 0 .. MaxSetups
  BY <1>1 DEF Rotates, Setup
<1>3. phase = "exec" /\ (\E m \in {s, NeventForceExit(s)} : Runs(m)) /\ Calm
  <2>1. CASE HandlerRead
    BY <1>1, <2>1 DEF HandlerRead, Handles, Executes, Board, Calm
  <2>2. CASE HandlerIret
    <3>1. \E m \in {s, NeventForceExit(s)} : Runs(m)
      BY <2>2, Zenon DEF HandlerIret
    <3> QED  BY <1>1, <2>2, <3>1 DEF HandlerIret, Handles, Executes, Board, history, Calm
  <2>3. ASSUME NEW rotate, HandlerEoi(rotate)
        PROVE  phase = "exec" /\ (\E m \in {s, NeventForceExit(s)} : Runs(m)) /\ Calm
    <3>1. \E m \in {s, NeventForceExit(s)} : Runs(m)
      BY <2>3, Zenon DEF HandlerEoi
    <3> QED  BY <1>1, <1>2, <2>3, <3>1 DEF HandlerEoi, Handles, Executes, Board, Calm
  <2>4. ASSUME NEW rotate, HandlerEoiMaster(rotate)
        PROVE  phase = "exec" /\ (\E m \in {s, NeventForceExit(s)} : Runs(m)) /\ Calm
    <3>1. \E m \in {s, NeventForceExit(s)} : Runs(m)
      BY <2>4, Zenon DEF HandlerEoiMaster
    <3> QED  BY <1>1, <1>2, <2>4, <3>1 DEF HandlerEoiMaster, Handles, Executes, Board, Calm
  <2> QED  BY <2>1, <2>2, <2>3, <2>4, Zenon DEF HandlerStep
<1> QED  BY <1>3, OneClock

(* An interrupt that is taken makes late, by its clocks and only once. *)
LEMMA IrqAlarms ==
  ASSUME NEW K, Enough(K), AlarmInv(K), Off \notin Int, Irq
  PROVE  AlarmInv(K)' /\ A!Pass
<1> DEFINE x == "PICMASK"
           k == K[setups]
<1>1. /\ phase = "irq" /\ multiple' = multiple /\ disp' = disp /\ setups' = setups
      /\ setups \in 0 .. MaxSetups /\ ei \in BOOLEAN /\ nev \in NeventType
      /\ Ordered(nev) /\ Stops(nev) /\ Late(nev, -LateBy(K))
  BY DEF Irq, AlarmInv, SliceInv, Ordered, Listed
<1>2. k \in Nat /\ IntCost \in Nat /\ IntCost <= Longest /\ Longest \in Nat
  BY <1>1, Bounds
<1>3. x \in Event /\ x \in Event \ {"FLAMES"}
  BY BoardAssumption
<1>4. Ran(nev, nev, 0, {x})
  <2>1. NeventNow(nev) \in Int
    BY <1>1, Numeric
  <2> QED  BY <2>1 DEF Ran
<1>5. CASE Taken = NoIrq
  <2>1. Runs(nev) /\ ei' = ei
    BY <1>5 DEF Irq, guest
  <2>2. LateBy(K)' = LateBy(K)
    BY <1>1, <2>1 DEF LateBy
  <2>3. nev' = Forgets(nev) /\ phase' = IF nev.rem > 0 THEN "exec" ELSE "progress"
    BY <2>1 DEF Runs
  <2>4. 0 \in Nat /\ 0 <= Longest /\ phase \in {"irq", "exec"} /\ setups' \in 0 .. MaxSetups /\ ei' \in BOOLEAN
    BY <1>1, <1>2, <2>1
  <2> HIDE DEF x
  <2> QED  BY <1>1, <1>3, <1>4, <2>2, <2>3, <2>4, RunStep
<1>6. CASE Taken # NoIrq
  <2> DEFINE n == IF Taken = SystemTimer THEN NeventReset(nev, x) ELSE nev
             m == Spend(n, IntCost)
  <2>1. Runs(m) /\ ei' = FALSE
    BY <1>6 DEF Irq
  <2>2. ei
    BY <1>1, <1>6 DEF Taken
  <2>3. LateBy(K) = k /\ LateBy(K)' = k + IntCost
    BY <1>1, <1>2, <2>1, <2>2 DEF LateBy
  <2>4. Ordered(n) /\ Stops(n) /\ Late(n, -k) /\ Ran(nev, n, 0, {x})
    <3>1. LET r == NeventReset(nev, x)
          IN  Ordered(r) /\ Stops(r) /\ Late(r, -k) /\ Ran(nev, r, 0, {x})
      <4>1. -k \in Int
        BY <1>2
      <4> QED  BY <1>1, <1>3, <2>3, <4>1, ResetIs
    <3> QED  BY <1>1, <1>4, <2>3, <3>1
  <2> HIDE DEF n
  <2>5. n \in NeventType /\ n.rem \in Int
    BY <2>4, Numeric DEF Ordered, Listed
  <2>6. Moved(n, m) /\ m.rem = n.rem - IntCost /\ NeventNow(m) = NeventNow(n) + IntCost
    <3>1. IntCost \in Int
      BY <1>2
    <3> QED  BY <2>5, <3>1, Counters
  <2> HIDE DEF m
  <2>7. Ordered(m) /\ Ran(n, m, IntCost, {}) /\ m.rem \in Int
    BY <1>2, <2>4, <2>6, MovedIs
  <2>8. Stops(m)
    BY <1>2, <2>4, <2>5, <2>6, MovedLate
  <2>9. Late(m, -LateBy(K)')
    <3>1. /\ -k \in Int /\ -LateBy(K)' \in Int /\ -LateBy(K)' <= -k - IntCost
          /\ -LateBy(K)' <= m.rem
      <4>1. -k <= n.rem
        BY <2>4 DEF Late
      <4> QED  BY <1>2, <2>3, <2>5, <2>6, <4>1
    <3> QED  BY <1>2, <2>4, <2>6, <3>1, MovedLate
  <2>10. Ran(nev, m, IntCost, {x})
    <3>1. Ran(nev, m, 0 + IntCost, {x} \cup {})
      BY <1>1, <1>2, <2>4, <2>7, RanTwice
    <3>2. 0 + IntCost = IntCost /\ {x} \cup {} = {x}
      BY <1>2
    <3> QED  BY <3>1, <3>2
  <2>11. nev' = Forgets(m) /\ phase' = IF m.rem > 0 THEN "exec" ELSE "progress"
    BY <2>1 DEF Runs
  <2>12. phase \in {"irq", "exec"} /\ setups' \in 0 .. MaxSetups /\ ei' \in BOOLEAN
    BY <1>1, <2>1
  <2> HIDE DEF x, k
  <2> QED  BY <1>1, <1>2, <1>3, <2>7, <2>8, <2>9, <2>10, <2>11, <2>12, RunStep
<1> QED  BY <1>5, <1>6

(* A step that takes no time and touches one event. *)
LEMMA NoTime ==
  ASSUME nev \in NeventType, nev' \in NeventType, nev.wait = <<>>, NEW x \in Event,
         Ran(nev, nev', 0, {x}), multiple' = multiple, Off \notin Int, Longest \in Nat
  PROVE  A!Pass
<1>1. \A y \in Event \ {x} : Left(nev', y) = Left(nev, y) - 0
  BY RanLeft
<1>2. \A y \in Event \ {x} : NeventIsWork(nev', y) <=> NeventIsWork(nev, y)
  BY DEF Ran
<1>3. Ringing = {} /\ Ringing' = {} /\ 0 \in Nat /\ 0 <= Longest
  BY NothingRings DEF Ran, Ringing
<1> QED  BY <1>1, <1>2, <1>3, PassIs

(* What the emulator loop finds between frames. *)
LEMMA Hosting ==
  ASSUME NEW K, Enough(K), AlarmInv(K), phase = "host"
  PROVE  /\ Ordered(nev) /\ Stops(nev) /\ nev \in NeventType /\ nev.wait = <<>>
         /\ LateBy(K) \in Nat /\ Late(nev, -LateBy(K)) /\ NeventNow(nev) \in Nat
         /\ ~NeventIsWork(nev, "FLAMES") /\ nev.clock["FLAMES"] <= 0
         /\ -LateBy(K) <= Left(nev, "FLAMES") /\ Left(nev, "FLAMES") <= 0
         /\ Left(nev, "FLAMES") \in Int /\ nev.clock["FLAMES"] \in Int
         /\ setups \in 0 .. MaxSetups /\ ei \in BOOLEAN /\ multiple \in Multiples
         /\ Longest \in Nat /\ "FLAMES" \in Event
<1>1. /\ Ordered(nev) /\ Stops(nev) /\ nev \in NeventType /\ nev.wait = <<>>
      /\ Late(nev, -LateBy(K)) /\ NeventNow(nev) >= 0
      /\ setups \in 0 .. MaxSetups /\ ei \in BOOLEAN /\ multiple \in Multiples
  BY DEF AlarmInv, SliceInv, Ordered, Listed
<1>2. /\ ~NeventIsWork(nev, "FLAMES") /\ nev.clock["FLAMES"] <= 0
      /\ -LateBy(K) <= Left(nev, "FLAMES")
  BY DEF AlarmInv, FrameInv
<1>3. K[setups] \in Nat /\ IntCost \in Nat /\ Longest \in Nat /\ "FLAMES" \in Event
  BY <1>1, Bounds
<1>4. LateBy(K) \in Nat
  BY <1>1, <1>3 DEF LateBy
<1>5. /\ NeventNow(nev) \in Int /\ nev.clock["FLAMES"] \in Int /\ Left(nev, "FLAMES") \in Int
  BY <1>1, <1>3, Numeric
<1>6. Left(nev, "FLAMES") <= 0
  BY <1>1, <1>2, <1>5 DEF Left
<1> QED  BY <1>1, <1>2, <1>3, <1>4, <1>5, <1>6

LEMMA HostKeyAlarms ==
  ASSUME NEW K, Enough(K), AlarmInv(K), Off \notin Int, HostKey
  PROVE  AlarmInv(K)' /\ A!Pass
<1> DEFINE x == "KEYBOARD"
           b == -LateBy(K)
<1>1. /\ phase = "host" /\ phase' = "host" /\ multiple' = multiple /\ disp' = disp
      /\ setups' = setups /\ ei' = ei /\ (nev' = nev \/ nev' = KeyboardArmed(nev))
  BY DEF HostKey, guest
<1>2. /\ Ordered(nev) /\ Stops(nev) /\ nev \in NeventType /\ nev.wait = <<>>
      /\ LateBy(K) \in Nat /\ Late(nev, b) /\ NeventNow(nev) \in Nat
      /\ Longest \in Nat /\ multiple \in Multiples
  BY <1>1, Hosting
<1>3. x \in Event /\ x # "FLAMES" /\ "FLAMES" \in Event
  BY BoardAssumption
<1>4. Ready(nev, 0, b, x)
  <2>1. Ran(nev, nev, 0, {x})
    BY <1>2 DEF Ran
  <2> QED  BY <1>2, <2>1 DEF Ready
<1>5. Ready(nev', 0, b, x)
  <2>1. b \in Int /\ b <= 0 /\ 0 \in Int
    BY <1>2
  <2> HIDE DEF b
  <2>2. Ready(KeyboardArmed(nev), 0, b, x)
    BY <1>2, <1>4, <2>1, ReadyArmed
  <2> QED  BY <1>1, <1>4, <2>2
<1>6. /\ Ordered(nev') /\ Stops(nev') /\ Late(nev', b) /\ Ran(nev, nev', 0, {x})
      /\ nev' \in NeventType /\ nev'.wait = <<>> /\ NeventNow(nev') = NeventNow(nev) + 0
  BY <1>2, <1>5 DEF Ready, Ordered, Listed, Ran
<1>7. A!Pass
  BY <1>1, <1>2, <1>3, <1>6, NoTime
<1>8. LateBy(K)' = LateBy(K)
  BY <1>1 DEF LateBy
<1>9. /\ NeventIsWork(nev', "FLAMES") <=> NeventIsWork(nev, "FLAMES")
      /\ nev'.clock["FLAMES"] = nev.clock["FLAMES"] /\ Left(nev', "FLAMES") = Left(nev, "FLAMES")
  <2>1. Left(nev', "FLAMES") = Left(nev, "FLAMES") - 0 /\ Left(nev, "FLAMES") \in Int
    BY <1>2, <1>3, <1>6, RanLeft
  <2> QED  BY <1>3, <1>6, <2>1 DEF Ran
<1>10. ToSet(nev'.wait) = {} /\ ToSet(nev.wait) = {}
  BY <1>2, <1>6 DEF ToSet
<1>11. FrameInv(K)'
  <2>1. FrameInv(K)
    BY DEF AlarmInv
  <2> QED  BY <1>1, <1>8, <1>9, <1>10, <2>1 DEF FrameInv
<1>12. SliceInv(K)'
  BY <1>1, <1>2, <1>6, <1>8, <1>10 DEF SliceInv
<1> QED  BY <1>1, <1>6, <1>7, <1>11, <1>12 DEF AlarmInv

(* The frame starts from where the last one ended. *)
LEMMA HostFrameAlarms ==
  ASSUME NEW K, Enough(K), AlarmInv(K), Off \notin Int, HostFrame
  PROVE  AlarmInv(K)' /\ A!Pass
<1> DEFINE F == "FLAMES"
           c == multiple * DispClock
           b == -LateBy(K)
<1>1. /\ phase = "host" /\ phase' = "irq" /\ multiple' = multiple /\ disp' = TRUE
      /\ setups' = setups /\ ei' = ei /\ nev' = SetRelative(nev, F, c)
  BY DEF HostFrame, guest, history
<1>2. /\ Ordered(nev) /\ Stops(nev) /\ nev \in NeventType /\ nev.wait = <<>>
      /\ LateBy(K) \in Nat /\ Late(nev, b) /\ NeventNow(nev) \in Nat
      /\ b <= Left(nev, F) /\ Left(nev, F) <= 0 /\ Left(nev, F) \in Int
      /\ Longest \in Nat /\ multiple \in Multiples /\ setups \in 0 .. MaxSetups /\ F \in Event
  BY <1>1, Hosting
<1>3. c \in Nat /\ c < Longest /\ c \in Int
  <2>1. multiple * DispClock \in Nat \ {0} /\ multiple * DispClock < Longest
    BY <1>2, Bounds
  <2> QED  BY <2>1
<1> HIDE DEF c
<1>4. PICK t \in Int : nev' = NeventSet(nev, F, t) /\ t - NeventNow(nev) = c + Left(nev, F)
  BY <1>1, <1>2, <1>3, SetAtIs
<1>5. b \in Int /\ b <= t - NeventNow(nev)
  BY <1>2, <1>3, <1>4
<1>6. /\ Ordered(nev') /\ Stops(nev') /\ Late(nev', b) /\ Ran(nev, nev', 0, {F})
      /\ NeventIsWork(nev', F) /\ Left(nev', F) = c + Left(nev, F)
  BY <1>2, <1>4, <1>5, SetIs
<1>7. nev' \in NeventType /\ nev'.wait = <<>> /\ NeventNow(nev') = NeventNow(nev) + 0
  BY <1>2, <1>6 DEF Ordered, Listed, Ran
<1>8. A!Pass
  BY <1>1, <1>2, <1>6, <1>7, NoTime
<1>9. LateBy(K)' = LateBy(K)
  BY <1>1 DEF LateBy
<1>10. ToSet(nev'.wait) = {}
  BY <1>7 DEF ToSet
<1>11. FrameInv(K)'
  <2>1. Left(nev', F) < Longest
    BY <1>2, <1>3, <1>6
  <2> QED  BY <1>1, <1>6, <1>10, <2>1 DEF FrameInv
<1>12. SliceInv(K)'
  BY <1>1, <1>2, <1>6, <1>7, <1>9, <1>10 DEF SliceInv
<1>13. setups' \in 0 .. MaxSetups /\ ei' \in BOOLEAN /\ multiple' \in Multiples
  BY <1>1, <1>2 DEF AlarmInv
<1> QED  BY <1>1, <1>6, <1>7, <1>8, <1>11, <1>12, <1>13 DEF AlarmInv

(* What an alarm sees: left as Alarms has it. *)
LEMMA LeftIs ==
  ASSUME Off \notin Int, nev \in NeventType
  PROVE  LET left == [y \in Event |->
                        IF NeventIsWork(nev, y) THEN nev.clock[y] - NeventNow(nev) ELSE Off]
         IN  /\ \A y \in Event : IF NeventIsWork(nev, y)
                                 THEN left[y] = Left(nev, y) /\ left[y] # Off /\ left[y] \in Int
                                 ELSE left[y] = Off
             /\ A!Armed(left) = ToSet(nev.level)
             /\ A!Due = {y \in ToSet(nev.level) : Left(nev, y) <= 0}
<1> DEFINE left == [y \in Event |->
                      IF NeventIsWork(nev, y) THEN nev.clock[y] - NeventNow(nev) ELSE Off]
<1>1. \A y \in Event : Left(nev, y) \in Int
  BY Numeric
<1>2. \A y \in Event : IF NeventIsWork(nev, y)
                       THEN left[y] = Left(nev, y) /\ left[y] # Off /\ left[y] \in Int
                       ELSE left[y] = Off
  BY <1>1 DEF Left
<1>3. ToSet(nev.level) \subseteq Event
  BY Numeric
<1>4. A!Due = {y \in {z \in Event : left[z] # Off} : left[y] <= 0}
  BY DEF A!Due, A!Armed
<1>5. A!Armed(left) = {z \in Event : left[z] # Off}
  BY DEF A!Armed
<1> HIDE DEF left
<1>6. {z \in Event : left[z] # Off} = ToSet(nev.level)
  BY <1>2, <1>3 DEF NeventIsWork
<1>7. A!Due = {y \in ToSet(nev.level) : Left(nev, y) <= 0}
  BY <1>2, <1>3, <1>4, <1>6 DEF NeventIsWork
<1> QED  BY <1>2, <1>5, <1>6, <1>7 DEF left

LEMMA RescaleIs ==
  ASSUME nev \in NeventType, nev.wait = <<>>, Alike(nev, nev'), multiple' # multiple, Off \notin Int,
         \A x, y \in ToSet(nev.level) : Left(nev, x) < Left(nev, y) => Left(nev', x) <= Left(nev', y),
         \A x \in ToSet(nev.level) : Left(nev, x) > 0 => Left(nev', x) >= -1
  PROVE  A!Rescale
<1> DEFINE left == [y \in Event |->
                      IF NeventIsWork(nev, y) THEN nev.clock[y] - NeventNow(nev) ELSE Off]
<1>1. nev' \in NeventType /\ nev'.wait = <<>> /\ nev'.level = nev.level
  BY DEF Alike
<1>2. Ringing = {} /\ Ringing' = {}
  BY <1>1, NothingRings DEF Ringing
<1>3. A!Silent
  BY <1>2 DEF A!Silent
<1>4. ToSet(nev.level) \subseteq Event
  BY Numeric
<1>5. \A y \in ToSet(nev.level) : left[y] = Left(nev, y)
  BY <1>4 DEF Left, NeventIsWork
<1>6. \A y \in ToSet(nev.level) : left'[y] = Left(nev', y)
  BY <1>1, <1>4 DEF Left, NeventIsWork
<1>7. {z \in Event : left[z] # Off} = ToSet(nev.level)
  <2>1. \A y \in Event : left[y] # Off <=> y \in ToSet(nev.level)
    BY Numeric DEF Left, NeventIsWork
  <2> HIDE DEF left
  <2> QED  BY <1>4, <2>1
<1>8. {z \in Event : left'[z] # Off} = ToSet(nev.level)
  <2>1. \A y \in Event : Left(nev', y) \in Int
    BY <1>1, Numeric
  <2>2. \A y \in Event : left'[y] # Off <=> y \in ToSet(nev.level)
    BY <1>1, <2>1 DEF Left, NeventIsWork
  <2> HIDE DEF left
  <2> QED  BY <1>4, <2>2
<1>9. A!Armed(left) = ToSet(nev.level) /\ A!Armed(left') = ToSet(nev.level)
  BY <1>7, <1>8 DEF A!Armed
<1>10. [y \in Ringing |-> nev.clock[y] - NeventNow(nev)]' = [y \in Ringing |-> nev.clock[y] - NeventNow(nev)]
  BY <1>2
<1>11. \A x, y \in A!Armed(left) : left[x] < left[y] => left'[x] <= left'[y]
  <2> HIDE DEF left
  <2> QED  BY <1>5, <1>6, <1>9
<1>12. \A x \in A!Armed(left) : left[x] > 0 => left'[x] >= -1
  <2> HIDE DEF left
  <2> QED  BY <1>5, <1>6, <1>9
<1>13. A!Armed(left') = A!Armed(left)
  BY <1>9
<1> QED  BY <1>3, <1>10, <1>11, <1>12, <1>13, Zenon DEF A!Rescale

LEMMA HostSpeedAlarms ==
  ASSUME NEW K, Enough(K), AlarmInv(K), Off \notin Int, NEW m \in Multiples, HostSpeed(m)
  PROVE  AlarmInv(K)' /\ A!Rescale
<1> DEFINE F == "FLAMES"
           l == LateBy(K)
           b == -l
           now == NeventNow(nev)
<1>1. /\ phase = "host" /\ phase' = "host" /\ m # multiple /\ multiple' = m /\ disp' = disp
      /\ setups < MaxSetups /\ setups' = setups + 1 /\ ei' = ei
      /\ nev' = NeventChangeClock(nev, multiple, m)
  BY DEF HostSpeed, guest, Setup
<1>2. /\ Ordered(nev) /\ Stops(nev) /\ nev \in NeventType /\ nev.wait = <<>>
      /\ l \in Nat /\ Late(nev, b) /\ now \in Nat
      /\ ~NeventIsWork(nev, F) /\ nev.clock[F] <= 0 /\ nev.clock[F] \in Int
      /\ b <= Left(nev, F) /\ multiple \in Multiples /\ setups \in 0 .. MaxSetups /\ F \in Event
      /\ ei \in BOOLEAN
  BY <1>1, Hosting
<1>3. now <= l
  BY <1>2 DEF Left
<1>4. multiple \in Nat \ {0} /\ m \in Nat \ {0}
  BY <1>2, BoardAssumption
<1>5. /\ Alike(nev, nev') /\ Ordered(nev') /\ Stops(nev')
      /\ NeventNow(nev') >= 0 /\ NeventNow(nev') <= m * now + 2
      /\ nev'.clock[F] = nev.clock[F]
      /\ \A x, y \in ToSet(nev.level) : Left(nev, x) < Left(nev, y) => Left(nev', x) <= Left(nev', y)
      /\ \A x \in ToSet(nev.level) : Left(nev, x) > 0 => Left(nev', x) >= -1
      /\ Late(nev', (m + 1) * b - 3)
  <2>1. b \in Int /\ b <= 0 /\ now <= -b /\ now >= 0
    BY <1>2, <1>3
  <2> HIDE DEF b, l
  <2>2. LET o == NeventChangeClock(nev, multiple, m)
         IN  /\ Alike(nev, o) /\ Ordered(o) /\ Stops(o)
             /\ NeventNow(o) >= 0 /\ NeventNow(o) <= m * NeventNow(nev) + 2
             /\ \A x \in Event : ~NeventIsWork(nev, x) => o.clock[x] = nev.clock[x]
             /\ \A x, y \in ToSet(nev.level) : Left(nev, x) < Left(nev, y) => Left(o, x) <= Left(o, y)
             /\ \A x \in ToSet(nev.level) : Left(nev, x) > 0 => Left(o, x) >= -1
             /\ \A c \in Int : c <= 0 /\ Late(nev, c) /\ NeventNow(nev) <= -c => Late(o, (m + 1) * c - 3)
    BY <1>2, <1>4, <2>1, ChangeIs
  <2> QED  BY <1>1, <1>2, <2>1, <2>2
<1>6. A!Rescale
  BY <1>1, <1>2, <1>5, RescaleIs
<1>7. setups' \in 0 .. MaxSetups /\ ei' \in BOOLEAN /\ multiple' \in Multiples
  <2>1. MaxSetups \in Nat
    BY BoardAssumption
  <2> QED  BY <1>1, <1>2, <2>1
<1>8. LateBy(K)' \in Nat /\ (m + 1) * l + 3 <= LateBy(K)'
  <2>1. K[setups] \in Nat /\ IntCost \in Nat /\ K[setups + 1] \in Nat /\ setups + 1 \in 0 .. MaxSetups
    BY <1>1, <1>2, <1>7, Bounds
  <2>2. (m + 1) * (K[setups] + IntCost) + 3 <= K[setups + 1]
    BY <1>1, <1>2 DEF Enough
  <2>3. l <= K[setups] + IntCost
    BY <1>2, <2>1 DEF LateBy
  <2>4. LateBy(K)' \in Nat /\ LateBy(K)' >= K[setups + 1]
    BY <1>1, <1>7, <2>1 DEF LateBy
  <2>5. \A i, j, p \in Nat : i <= j => p * i <= p * j
    <3> SUFFICES ASSUME NEW i \in Nat, NEW j \in Nat, NEW p \in Nat, i <= j PROVE p * i <= p * j
      OBVIOUS
    <3>1. j - i \in Nat
      OBVIOUS
    <3>2. p * (j - i) \in Nat /\ p * j = p * i + p * (j - i)
      BY <3>1
    <3> QED  BY <3>2
  <2>6. (m + 1) * l <= (m + 1) * (K[setups] + IntCost)
    <3>1. K[setups] + IntCost \in Nat /\ m + 1 \in Nat
      BY <1>4, <2>1
    <3> HIDE DEF l
    <3> QED  BY <1>2, <2>3, <2>5, <3>1
  <2>7. (m + 1) * l \in Int /\ (m + 1) * (K[setups] + IntCost) \in Int
    <3> HIDE DEF l
    <3> QED  BY <1>2, <1>4, <2>1
  <2> HIDE DEF l
  <2> QED  BY <2>1, <2>2, <2>4, <2>6, <2>7
<1>9. (m + 1) * l = m * l + l /\ m * l \in Nat /\ m * now \in Nat /\ m * now <= m * l
      /\ (m + 1) * b = -((m + 1) * l)
  <2> HIDE DEF l
  <2>1. \A i, j \in Nat : i <= j => m * i \in Nat /\ m * j \in Nat /\ m * i <= m * j
    <3> SUFFICES ASSUME NEW i \in Nat, NEW j \in Nat, i <= j
                 PROVE m * i \in Nat /\ m * j \in Nat /\ m * i <= m * j
      OBVIOUS
    <3>1. j - i \in Nat
      OBVIOUS
    <3>2. m * (j - i) \in Nat /\ m * j = m * i + m * (j - i) /\ m * i \in Nat
      BY <1>4, <3>1
    <3> QED  BY <3>2
  <2> HIDE DEF now
  <2> QED  BY <1>2, <1>3, <1>4, <2>1
<1>10. nev' \in NeventType /\ nev'.wait = <<>> /\ nev'.level = nev.level /\ NeventNow(nev') \in Int
       /\ nev'.rem \in Int /\ \A x \in ToSet(nev'.level) : Left(nev', x) \in Int
  <2>1. nev' \in NeventType /\ nev'.wait = <<>> /\ nev'.level = nev.level
    BY <1>2, <1>5 DEF Alike
  <2> QED  BY <2>1, Numeric
<1>11. Late(nev', -LateBy(K)')
  <2>1. -LateBy(K)' <= (m + 1) * b - 3 /\ (m + 1) * b - 3 \in Int
    <3> HIDE DEF l
    <3> QED  BY <1>2, <1>8, <1>9
  <2> DEFINE c == (m + 1) * b - 3
             e == LateBy(K)'
  <2>2. -e <= c /\ c \in Int /\ e \in Nat /\ Late(nev', c)
    BY <1>5, <1>8, <2>1
  <2> HIDE DEF c, e
  <2>3. Late(nev', -e)
    BY <1>10, <2>2 DEF Late
  <2> QED  BY <2>3 DEF e
<1>12. -LateBy(K)' <= Left(nev', F)
  <2>1. nev.clock[F] >= -l
    BY <1>2 DEF Left
  <2>2. Left(nev', F) = nev.clock[F] - NeventNow(nev')
    BY <1>5 DEF Left
  <2>3. NeventNow(nev') <= m * l + 2
    <3> HIDE DEF l
    <3> QED  BY <1>5, <1>9, <1>10
  <2> DEFINE p == m * l
             c == nev.clock[F]
             t == NeventNow(nev')
             e == LateBy(K)'
  <2>4. c \in Int /\ c >= -l /\ l \in Nat /\ p \in Nat /\ t \in Int /\ t <= p + 2 /\ e \in Nat /\ p + l + 3 <= e
    <3>1. (m + 1) * l = p + l
      BY <1>9
    <3> QED  BY <1>2, <1>8, <1>9, <1>10, <2>1, <2>3, <3>1
  <2>5. Left(nev', F) = c - t
    BY <2>2
  <2> HIDE DEF l, p, c, t, e
  <2>6. -e <= c - t
    BY <2>4
  <2> QED  BY <2>5, <2>6 DEF e
<1>13. ToSet(nev'.wait) = {} /\ ToSet(nev.wait) = {}
  BY <1>2, <1>10 DEF ToSet
<1>14. FrameInv(K)'
  <2>1. ~NeventIsWork(nev', F) /\ nev'.clock[F] <= 0
    BY <1>2, <1>5, <1>10 DEF NeventIsWork
  <2> QED  BY <1>1, <1>12, <1>13, <2>1 DEF FrameInv
<1>15. SliceInv(K)'
  BY <1>1, <1>5, <1>11, <1>13 DEF SliceInv
<1> QED  BY <1>1, <1>5, <1>6, <1>7, <1>10, <1>14, <1>15 DEF AlarmInv

LEMMA ProgressAlarms ==
  ASSUME NEW K, Enough(K), AlarmInv(K), Off \notin Int, Progress
  PROVE  AlarmInv(K)' /\ A!GoOff
<1> DEFINE F == "FLAMES"
           m == NeventProgress(nev)
           b == -LateBy(K)
           off == ToSet(m.wait)
           left == [y \in Event |->
                      IF NeventIsWork(nev, y) THEN nev.clock[y] - NeventNow(nev) ELSE Off]
<1>1. /\ phase = "progress" /\ nev' = Forgets(m) /\ disp' = (disp /\ NeventIsWork(nev, F))
      /\ phase' = IF m.wait # <<>> THEN "call" ELSE IF disp /\ NeventIsWork(nev, F) THEN "irq" ELSE "host"
      /\ multiple' = multiple /\ setups' = setups /\ ei' = ei
  BY DEF Progress, Goes, guest, history
<1>2. /\ Ordered(nev) /\ Stops(nev) /\ nev \in NeventType /\ nev.wait = <<>> /\ nev.rem <= 0
      /\ Late(nev, b) /\ multiple \in Multiples /\ setups \in 0 .. MaxSetups /\ ei \in BOOLEAN
      /\ disp /\ NeventIsWork(nev, F) /\ Left(nev, F) < Longest
  BY <1>1 DEF AlarmInv, SliceInv, FrameInv, Ordered, Listed
<1>3. LateBy(K) \in Nat /\ LateBy(K) <= Latest /\ Latest \in Nat /\ F \in Event /\ b \in Int
  <2>1. K[setups] \in Nat /\ IntCost \in Nat /\ K[setups] + IntCost <= Latest /\ Latest \in Nat /\ F \in Event
    BY <1>2, Bounds
  <2> QED  BY <1>2, <2>1 DEF LateBy
<1>4. /\ Ordered(m) /\ Stops(m) /\ NeventNow(m) = -nev.rem
      /\ ToSet(m.level) = {x \in ToSet(nev.level) : nev.clock[x] > nev.base}
      /\ off = {x \in ToSet(nev.level) : nev.clock[x] <= nev.base}
      /\ off \subseteq m.setevent
      /\ \A x \in ToSet(nev.level) : m.clock[x] = nev.clock[x] - nev.base /\ Left(m, x) = Left(nev, x)
      /\ Late(m, b)
  BY <1>2, <1>3, ProgressIs
<1>5. /\ nev.rem \in Int /\ nev.base \in Int /\ ToSet(nev.level) \subseteq Event
      /\ \A x \in ToSet(nev.level) : nev.clock[x] \in Int /\ Left(nev, x) \in Int
      /\ NeventNow(nev) = nev.base - nev.rem
  BY <1>2, Numeric DEF NeventNow
<1> HIDE DEF m, off
<1>6. /\ Ordered(nev') /\ nev'.level = m.level /\ nev'.wait = m.wait /\ nev'.setevent = m.setevent
      /\ NeventNow(nev') = NeventNow(m) /\ Stops(nev') /\ Late(nev', b)
      /\ \A x \in Event : x = F \/ NeventIsWork(m, x) \/ x \in off =>
           nev'.clock[x] = m.clock[x] /\ Left(nev', x) = Left(m, x)
  <2>1. LET o == Forgets(m)
        IN  /\ Ordered(o) /\ o.level = m.level /\ o.wait = m.wait /\ o.setevent = m.setevent
            /\ o.base = m.base /\ o.rem = m.rem /\ NeventNow(o) = NeventNow(m)
            /\ \A x \in Event : x = "FLAMES" \/ NeventIsWork(m, x) \/ x \in ToSet(m.wait) =>
                 o.clock[x] = m.clock[x] /\ Left(o, x) = Left(m, x)
            /\ (Stops(m) => Stops(o)) /\ \A c : Late(m, c) => Late(o, c)
    BY <1>4, ForgetsIs
  <2> QED  BY <1>1, <1>4, <2>1 DEF off
<1>7. \A x \in ToSet(nev.level) : (x \in off \/ x \in ToSet(m.level)) /\ Left(nev', x) = Left(nev, x)
  BY <1>4, <1>5, <1>6 DEF NeventIsWork
<1>8. \A x \in off : x \in ToSet(nev.level) /\ x \in Event /\ Left(nev, x) <= 0 /\ b <= Left(nev, x)
                     /\ nev'.clock[x] <= 0
  <2> SUFFICES ASSUME NEW x \in off
               PROVE  x \in ToSet(nev.level) /\ x \in Event /\ Left(nev, x) <= 0 /\ b <= Left(nev, x)
                      /\ nev'.clock[x] <= 0
    OBVIOUS
  <2>1. x \in ToSet(nev.level) /\ x \in Event /\ nev.clock[x] <= nev.base
    BY <1>4, <1>5
  <2>2. Left(nev, x) = nev.clock[x] - (nev.base - nev.rem)
    BY <1>5 DEF Left
  <2>3. nev'.clock[x] = nev.clock[x] - nev.base
    BY <1>4, <1>6, <2>1
  <2> QED  BY <1>2, <1>5, <2>1, <2>2, <2>3 DEF Late
<1>9. A!GoOff
  <2>1. Ringing = {} /\ Ringing' = off
    <3>1. Ringing = {}
      BY <1>2, NothingRings DEF Ringing
    <3>2. Ringing' = off
      BY <1>4, <1>6 DEF Ringing, off
    <3> QED  BY <3>1, <3>2
  <2>2. A!Silent
    BY <2>1 DEF A!Silent
  <2>3. A!Due = {y \in ToSet(nev.level) : Left(nev, y) <= 0}
    BY <1>2, LeftIs
  <2>4. \A y \in Event : IF NeventIsWork(nev, y) THEN left[y] = Left(nev, y) ELSE left[y] = Off
    BY DEF Left
  <2>5. left' = [x \in Event |-> IF x \in off THEN Off ELSE left[x]]
    <3>1. left' = [y \in Event |-> IF y \in ToSet(nev'.level) THEN Left(nev', y) ELSE Off]
      BY DEF Left, NeventIsWork
    <3>2. ASSUME NEW y \in Event
          PROVE  (IF y \in ToSet(nev'.level) THEN Left(nev', y) ELSE Off)
                 = IF y \in off THEN Off ELSE left[y]
      <4>1. CASE y \in off
        <5>1. y \notin ToSet(nev'.level)
          BY <1>4, <1>5, <1>6, <4>1
        <5> QED  BY <4>1, <5>1
      <4>2. CASE y \notin off /\ y \in ToSet(nev.level)
        <5>1. y \in ToSet(nev'.level) /\ Left(nev', y) = Left(nev, y)
          BY <1>6, <1>7, <4>2
        <5>2. left[y] = Left(nev, y)
          BY <2>4, <4>2 DEF NeventIsWork
        <5> HIDE DEF left
        <5> QED  BY <4>2, <5>1, <5>2
      <4>3. CASE y \notin off /\ y \notin ToSet(nev.level)
        <5>1. y \notin ToSet(nev'.level)
          BY <1>4, <1>6, <4>3
        <5>2. left[y] = Off
          BY <2>4, <4>3 DEF NeventIsWork
        <5> HIDE DEF left
        <5> QED  BY <4>3, <5>1, <5>2
      <4> QED  BY <4>1, <4>2, <4>3
    <3> QED  BY <3>1, <3>2
  <2>6. \A x \in off : left[x] = Left(nev, x)
    BY <1>8, <2>4 DEF NeventIsWork
  <2> DEFINE ringing == [x \in Ringing |-> nev.clock[x] - NeventNow(nev)]
  <2>7. ringing' = [x \in off |-> left[x]]
    <3>1. ringing' = [x \in off |-> Left(nev', x)]
      BY <2>1 DEF Left
    <3>2. \A x \in off : Left(nev', x) = left[x]
      BY <1>7, <1>8, <2>6
    <3> HIDE DEF ringing, left
    <3> QED  BY <3>1, <3>2
  <2>8. DOMAIN ringing' = off
    <3> HIDE DEF ringing, left
    <3> QED  BY <2>7
  <2>9. off \subseteq A!Due
    BY <1>8, <2>3
  <2>10. \A x \in off, y \in A!Due \ off : left[x] < left[y]
    <3> SUFFICES ASSUME NEW x \in off, NEW y \in A!Due \ off PROVE left[x] < left[y]
      OBVIOUS
    <3>1. y \in ToSet(nev.level) /\ nev.clock[y] > nev.base /\ left[y] = Left(nev, y)
      BY <1>4, <1>5, <1>7, <2>3, <2>4 DEF NeventIsWork
    <3>2. nev.clock[x] <= nev.base /\ x \in ToSet(nev.level) /\ left[x] = Left(nev, x)
      BY <1>4, <2>6
    <3>3. Left(nev, x) < Left(nev, y)
      BY <1>5, <3>1, <3>2 DEF Left
    <3> QED  BY <3>1, <3>2, <3>3
  <2>11. \A x \in off : left[x] >= -Latest
    <3> HIDE DEF left
    <3> QED  BY <1>3, <1>5, <1>8, <2>6
  <2> HIDE DEF left, ringing
  <2>12. LET o == DOMAIN ringing'
         IN  /\ o \subseteq A!Due
             /\ \A x \in o, y \in A!Due \ o : left[x] < left[y]
             /\ ringing' = [x \in o |-> left[x]]
             /\ left' = [x \in Event |-> IF x \in o THEN Off ELSE left[x]]
             /\ \A x \in o : left[x] >= -Latest
    BY <2>5, <2>7, <2>8, <2>9, <2>10, <2>11, Zenon
  <2> QED  BY <1>1, <2>2, <2>12, Zenon DEF A!GoOff, left, ringing
<1>10. LateBy(K)' = LateBy(K)
  BY <1>1 DEF LateBy
<1>11. disp' = TRUE /\ phase' = IF m.wait # <<>> THEN "call" ELSE "irq"
  BY <1>1, <1>2 DEF AlarmInv
<1>12. m.wait = <<>> => off = {}
  BY DEF off, ToSet
<1>13. FrameInv(K)'
  <2>1. F \in ToSet(nev.level) /\ Left(nev', F) < Longest
    BY <1>2, <1>7 DEF NeventIsWork
  <2>2. F \in off \/ F \in ToSet(nev'.level)
    BY <1>6, <1>7, <2>1
  <2>3. F \in off => F \in nev'.setevent /\ nev'.clock[F] <= 0
    BY <1>4, <1>6, <1>8
  <2>4. ToSet(nev'.wait) = off
    BY <1>6 DEF off
  <2> QED  BY <1>11, <1>12, <2>1, <2>2, <2>3, <2>4 DEF FrameInv, NeventIsWork
<1>14. SliceInv(K)'
  <2>1. NeventNow(nev') >= 0
    BY <1>2, <1>4, <1>5, <1>6
  <2>2. \A x \in ToSet(nev'.wait) \cap nev'.setevent : b <= Left(nev', x)
    BY <1>6, <1>7, <1>8 DEF off
  <2>3. phase' # "exec" /\ phase' # "progress"
    BY <1>11
  <2> QED  BY <1>6, <1>10, <2>1, <2>2, <2>3 DEF SliceInv
<1> QED  BY <1>1, <1>2, <1>6, <1>9, <1>11, <1>13, <1>14 DEF AlarmInv

(* A callback has set the events of U, and nothing is too late yet. *)
Prepared(K, n, U) ==
  /\ Ordered(n) /\ Stops(n) /\ Late(n, -LateBy(K)) /\ Ran(nev, n, 0, U)
  /\ U \subseteq Event /\ \A z \in U : NeventIsWork(n, z)

(* The callback of x made m of the list. *)
CallMakes(K, m, x, T) ==
  /\ phase = "call" /\ x = Head(nev.wait) /\ nev' = Forgets(NeventCalled(m))
  /\ phase' = IF NeventCalled(m).wait # <<>> THEN "call" ELSE IF disp' THEN "irq" ELSE "host"
  /\ Prepared(K, m, T)
  /\ multiple' = multiple /\ setups' = setups /\ ei' = ei /\ disp' \in BOOLEAN

LEMMA CallList ==
  ASSUME NEW K, Enough(K), AlarmInv(K), NEW m, NEW x, NEW T, CallMakes(K, m, x, T)
  PROVE  /\ nev \in NeventType /\ m \in NeventType /\ x \in ToSet(nev.wait) /\ x \in Event
         /\ Ordered(nev') /\ Stops(nev') /\ Late(nev', -LateBy(K))
         /\ nev'.level = m.level /\ nev'.setevent = m.setevent \ {x}
         /\ ToSet(nev'.wait) = ToSet(nev.wait) \ {x} /\ NeventNow(nev') = NeventNow(nev)
         /\ phase' = IF nev'.wait # <<>> THEN "call" ELSE IF disp' THEN "irq" ELSE "host"
         /\ \A z \in Event : z = "FLAMES" \/ NeventIsWork(m, z) \/ z \in ToSet(nev'.wait) =>
              nev'.clock[z] = m.clock[z] /\ Left(nev', z) = Left(m, z)
         /\ \A z \in Event \ T : m.clock[z] = nev.clock[z] /\ Left(m, z) = Left(nev, z)
<1> DEFINE c == NeventCalled(m)
<1>1. /\ Ordered(nev) /\ nev \in NeventType /\ m \in NeventType /\ m.wait = nev.wait /\ m.wait # <<>>
      /\ NeventNow(m) = NeventNow(nev) + 0 /\ Ordered(m) /\ Ran(nev, m, 0, T)
      /\ Stops(m) /\ Late(m, -LateBy(K))
  BY DEF CallMakes, Prepared, AlarmInv, Ordered, Listed, Ran
<1>2. NeventNow(nev) \in Int /\ ToSet(nev.wait) \subseteq Event
  BY <1>1, Numeric
<1>3. /\ Ordered(c) /\ c.level = m.level /\ c.clock = m.clock /\ c.base = m.base /\ c.rem = m.rem
      /\ c.setevent = m.setevent \ {x} /\ ToSet(c.wait) = ToSet(nev.wait) \ {x}
      /\ x \in ToSet(nev.wait)
  BY <1>1, CalledIs DEF CallMakes, Prepared
<1> HIDE DEF c
<1>4. NeventNow(c) = NeventNow(nev) /\ \A z : Left(c, z) = Left(m, z)
  BY <1>1, <1>2, <1>3 DEF NeventNow, Left
<1>5. Stops(c) /\ Late(c, -LateBy(K))
  BY <1>1, <1>3, <1>4 DEF Stops, Late
<1>6. /\ Ordered(nev') /\ nev'.level = c.level /\ nev'.wait = c.wait /\ nev'.setevent = c.setevent
      /\ NeventNow(nev') = NeventNow(c) /\ Stops(nev') /\ Late(nev', -LateBy(K))
      /\ \A z \in Event : z = "FLAMES" \/ NeventIsWork(c, z) \/ z \in ToSet(c.wait) =>
           nev'.clock[z] = c.clock[z] /\ Left(nev', z) = Left(c, z)
  <2>1. LET o == Forgets(c)
        IN  /\ Ordered(o) /\ o.level = c.level /\ o.wait = c.wait /\ o.setevent = c.setevent
            /\ o.base = c.base /\ o.rem = c.rem /\ NeventNow(o) = NeventNow(c)
            /\ \A z \in Event : z = "FLAMES" \/ NeventIsWork(c, z) \/ z \in ToSet(c.wait) =>
                 o.clock[z] = c.clock[z] /\ Left(o, z) = Left(c, z)
            /\ (Stops(c) => Stops(o)) /\ \A b : Late(c, b) => Late(o, b)
    BY <1>3, ForgetsIs
  <2>2. nev' = Forgets(c)
    BY DEF CallMakes, Prepared, c
  <2> QED  BY <1>5, <2>1, <2>2
<1>7. \A z \in Event : NeventIsWork(m, z) <=> NeventIsWork(c, z)
  BY <1>3 DEF NeventIsWork
<1>8. \A z \in Event \ T : m.clock[z] = nev.clock[z] /\ Left(m, z) = Left(nev, z)
  <2>1. 0 \in Int
    OBVIOUS
  <2>2. \A z \in Event \ T : Left(m, z) = Left(nev, z) - 0 /\ Left(nev, z) \in Int
    BY <1>1, <2>1, RanLeft
  <2> QED  BY <1>1, <2>2 DEF Ran
<1>9. phase' = IF nev'.wait # <<>> THEN "call" ELSE IF disp' THEN "irq" ELSE "host"
  BY <1>6 DEF CallMakes, Prepared, c
<1> QED  BY <1>1, <1>2, <1>3, <1>4, <1>6, <1>7, <1>8, <1>9

(* What still waits was not touched, or is superseded. *)
LEMMA CallRings ==
  ASSUME NEW K, Enough(K), AlarmInv(K), NEW m, NEW x, NEW T, CallMakes(K, m, x, T)
  PROVE  /\ Ringing' = Ringing \ (T \cup {x})
         /\ \A z \in Ringing' : z \in Event /\ Left(nev', z) = Left(nev, z)
<1>1. /\ nev \in NeventType /\ x \in Event /\ Ordered(nev')
      /\ nev'.level = m.level /\ nev'.setevent = m.setevent \ {x}
      /\ ToSet(nev'.wait) = ToSet(nev.wait) \ {x}
      /\ \A z \in Event : z \in ToSet(nev'.wait) => Left(nev', z) = Left(m, z)
      /\ \A z \in Event \ T : Left(m, z) = Left(nev, z)
  BY CallList
<1>2. ToSet(nev.wait) \subseteq Event
  BY <1>1, Numeric
<1>3. Ran(nev, m, 0, T) /\ \A z \in T \ {x} : NeventIsWork(m, z)
  BY DEF CallMakes, Prepared
<1>4. nev'.setevent \cap ToSet(nev'.level) = {}
  BY <1>1 DEF Ordered, Listed
<1>5. \A z \in T \ {x} : z \notin nev'.setevent
  BY <1>1, <1>3, <1>4 DEF NeventIsWork
<1>6. Ringing' = Ringing \ (T \cup {x})
  BY <1>1, <1>3, <1>5 DEF Ringing, Ran
<1>7. \A z \in Ringing' : z \in Event \ T /\ z \in ToSet(nev'.wait)
  BY <1>2, <1>6 DEF Ringing
<1> QED  BY <1>1, <1>6, <1>7

LEMMA CallSlice ==
  ASSUME NEW K, Enough(K), AlarmInv(K), NEW m, NEW x, NEW T, CallMakes(K, m, x, T), FrameInv(K)'
  PROVE  AlarmInv(K)'
<1>1. /\ Ordered(nev') /\ Stops(nev') /\ Late(nev', -LateBy(K)) /\ NeventNow(nev') = NeventNow(nev)
      /\ phase' = IF nev'.wait # <<>> THEN "call" ELSE IF disp' THEN "irq" ELSE "host"
  BY CallList
<1>2. /\ setups \in 0 .. MaxSetups /\ ei \in BOOLEAN /\ multiple \in Multiples /\ NeventNow(nev) >= 0
      /\ \A z \in Ringing : -LateBy(K) <= Left(nev, z)
  BY DEF AlarmInv, SliceInv, CallMakes, Ringing
<1>3. multiple' = multiple /\ setups' = setups /\ ei' = ei /\ disp' \in BOOLEAN
  BY DEF CallMakes, Prepared
<1>4. LateBy(K)' = LateBy(K)
  BY <1>3 DEF LateBy
<1>5. \A z \in Ringing' : -LateBy(K) <= Left(nev', z)
  BY <1>2, CallRings
<1>6. SliceInv(K)'
  BY <1>1, <1>2, <1>4, <1>5 DEF SliceInv, Ringing
<1> QED  BY <1>1, <1>2, <1>3, <1>6 DEF AlarmInv

(* The others leave the frame alone. *)
LEMMA CallFrame ==
  ASSUME NEW K, Enough(K), AlarmInv(K), NEW m, NEW x, NEW T, CallMakes(K, m, x, T),
         x # "FLAMES", "FLAMES" \notin T, disp' = disp
  PROVE  AlarmInv(K)'
<1> DEFINE F == "FLAMES"
<1>1. /\ nev'.level = m.level /\ nev'.setevent = m.setevent \ {x}
      /\ ToSet(nev'.wait) = ToSet(nev.wait) \ {x}
      /\ phase' = IF nev'.wait # <<>> THEN "call" ELSE IF disp' THEN "irq" ELSE "host"
      /\ \A z \in Event : z = F => nev'.clock[z] = m.clock[z] /\ Left(nev', z) = Left(m, z)
      /\ \A z \in Event \ T : m.clock[z] = nev.clock[z] /\ Left(m, z) = Left(nev, z)
  BY CallList
<1>2. F \in Event
  BY BoardAssumption
<1>3. nev'.clock[F] = nev.clock[F] /\ Left(nev', F) = Left(nev, F)
  BY <1>1, <1>2
<1>4. /\ NeventIsWork(nev', F) <=> NeventIsWork(nev, F)
      /\ F \in nev.setevent => F \in nev'.setevent
  BY <1>1, <1>2 DEF CallMakes, Prepared, Ran, NeventIsWork
<1>5. F \in ToSet(nev'.wait) <=> F \in ToSet(nev.wait)
  BY <1>1
<1>6. nev'.wait = <<>> => F \notin ToSet(nev'.wait)
  BY DEF ToSet
<1>7. LateBy(K)' = LateBy(K) /\ phase = "call"
  BY DEF LateBy, CallMakes
<1>8. FrameInv(K) /\ disp \in BOOLEAN
  BY DEF AlarmInv
<1>9. FrameInv(K)'
  BY <1>1, <1>3, <1>4, <1>5, <1>6, <1>7, <1>8 DEF FrameInv
<1> QED  BY <1>9, CallSlice

(* How long after it was due an event is due again. *)
Delays(x) ==
  {k * d : k \in Multiples,
           d \in CASE x = "ITIMER" -> {Period, LongPeriod}
                   [] x = "KEYBOARD" -> {XferClock}
                   [] x = "FLAMES" -> {VsyncClock}
                   [] OTHER -> {}}

(* A callback that acts is a call. *)
LEMMA CallIs ==
  ASSUME NEW K, Enough(K), AlarmInv(K), NEW m, NEW x, NEW T, CallMakes(K, m, x, T),
         Off \notin Int, x \in nev.setevent, NEW y \in Event, T \subseteq {x, y},
         NeventIsWork(m, x) => Left(m, x) - Left(nev, x) \in Delays(x)
  PROVE  A!Call(x)
<1> DEFINE left == [z \in Event |->
                      IF NeventIsWork(nev, z) THEN nev.clock[z] - NeventNow(nev) ELSE Off]
           ringing == [z \in Ringing |-> nev.clock[z] - NeventNow(nev)]
           touched == A!Touched(left)
<1>0. A!Call(x) <=>
        /\ x \in DOMAIN ringing
        /\ \E z \in Event : touched \subseteq {x, z}
        /\ left[x] = Off
        /\ left'[x] = Off \/ left'[x] - ringing[x] \in [z \in Event |-> Delays(z)][x]
        /\ ringing' = A!Restrict(ringing, DOMAIN ringing \ ({x} \cup touched))
        /\ UNCHANGED multiple
  BY DEF A!Call, A!Touched, A!Restrict, Delays
<1>1. /\ nev \in NeventType /\ m \in NeventType /\ x \in ToSet(nev.wait) /\ x \in Event
      /\ Ordered(nev) /\ Ordered(nev') /\ nev'.level = m.level
      /\ \A z \in Event : NeventIsWork(m, z) => Left(nev', z) = Left(m, z)
      /\ \A z \in Event \ T : Left(m, z) = Left(nev, z)
  BY CallList DEF AlarmInv
<1>2. /\ Ringing' = Ringing \ (T \cup {x})
      /\ \A z \in Ringing' : z \in Event /\ Left(nev', z) = Left(nev, z)
  BY CallRings
<1>3. /\ \A z \in T \ {x} : NeventIsWork(m, z)
      /\ \A z \in Event \ T : NeventIsWork(m, z) <=> NeventIsWork(nev, z)
      /\ multiple' = multiple /\ T \subseteq Event
  BY DEF CallMakes, Prepared, Ran
<1>4. x \in Ringing /\ \A z \in Ringing : z \in Event /\ ~NeventIsWork(nev, z)
  <2>1. ToSet(nev.wait) \subseteq Event /\ ToSet(nev.level) \cap nev.setevent = {}
    BY <1>1, Numeric DEF Ordered, Listed
  <2> QED  BY <1>1, <2>1 DEF Ringing, NeventIsWork
<1>5. \A z \in Event : left[z] = IF NeventIsWork(nev, z) THEN Left(nev, z) ELSE Off
  BY DEF Left
<1>6. \A z \in Event : left'[z] = IF NeventIsWork(m, z) THEN Left(nev', z) ELSE Off
  BY <1>1 DEF Left, NeventIsWork
<1>7. \A z \in Event : Left(m, z) \in Int /\ Left(nev, z) \in Int
  BY <1>1, Numeric
<1>8. touched = {z \in Event : left'[z] # left[z]}
  BY DEF A!Touched
<1>9. \A z \in Ringing : ringing[z] = Left(nev, z)
  BY DEF Left
<1>10. ringing' = [z \in Ringing' |-> Left(nev', z)]
  BY DEF Left
<1>11. DOMAIN ringing = Ringing
  OBVIOUS
<1> HIDE DEF left, ringing, touched
<1>12. touched \subseteq T
  <2> SUFFICES ASSUME NEW z \in Event \ T PROVE left'[z] = left[z]
    BY <1>8
  <2> QED  BY <1>1, <1>3, <1>5, <1>6
<1>13. \A z \in (T \ {x}) \cap Ringing : z \in touched
  <2> SUFFICES ASSUME NEW z \in (T \ {x}) \cap Ringing PROVE left'[z] # left[z]
    BY <1>3, <1>8
  <2>1. z \in Event /\ left[z] = Off /\ left'[z] = Left(m, z)
    BY <1>1, <1>3, <1>4, <1>5, <1>6
  <2> QED  BY <1>7, <2>1
<1>14. Ringing \ (T \cup {x}) = Ringing \ ({x} \cup touched)
  BY <1>12, <1>13
<1>15. \E z \in Event : touched \subseteq {x, z}
  BY <1>12
<1>16. left[x] = Off
  BY <1>1, <1>4, <1>5
<1>17. left'[x] = Off \/ left'[x] - ringing[x] \in Delays(x)
  BY <1>1, <1>4, <1>6, <1>9
<1>18. ringing' = A!Restrict(ringing, DOMAIN ringing \ ({x} \cup touched))
  <2>1. Ringing' = Ringing \ ({x} \cup touched)
    BY <1>2, <1>14
  <2>2. \A z \in Ringing' : Left(nev', z) = ringing[z]
    BY <1>2, <1>9
  <2>3. ringing' = [z \in Ringing' |-> ringing[z]]
    BY <1>10, <2>2
  <2>4. A!Restrict(ringing, Ringing') = [z \in Ringing' |-> ringing[z]]
    BY DEF A!Restrict
  <2> QED  BY <1>11, <2>1, <2>3, <2>4
<1>19. x \in DOMAIN ringing
  BY <1>4, <1>11
<1> QED  BY <1>0, <1>1, <1>3, <1>15, <1>16, <1>17, <1>18, <1>19

(* What a callback finds. *)
LEMMA Calling ==
  ASSUME NEW K, Enough(K), AlarmInv(K), phase = "call"
  PROVE  /\ Ordered(nev) /\ Stops(nev) /\ nev \in NeventType /\ nev.wait # <<>>
         /\ LateBy(K) \in Nat /\ Late(nev, -LateBy(K)) /\ NeventNow(nev) \in Nat
         /\ Prepared(K, nev, {}) /\ multiple \in Multiples /\ disp \in BOOLEAN
         /\ Head(nev.wait) \in ToSet(nev.wait)
         /\ \A z \in Event : z \in nev.setevent => ~NeventIsWork(nev, z)
         /\ \A z \in Ringing : z \in Event /\ -LateBy(K) <= Left(nev, z) /\ Left(nev, z) \in Int
<1>1. /\ Ordered(nev) /\ Stops(nev) /\ nev \in NeventType /\ nev.wait # <<>>
      /\ Late(nev, -LateBy(K)) /\ NeventNow(nev) >= 0 /\ multiple \in Multiples /\ disp \in BOOLEAN
      /\ setups \in 0 .. MaxSetups /\ ei \in BOOLEAN
      /\ \A z \in Ringing : -LateBy(K) <= Left(nev, z)
  BY DEF AlarmInv, SliceInv, Ordered, Listed, Ringing
<1>2. LateBy(K) \in Nat
  <2>1. K[setups] \in Nat /\ IntCost \in Nat
    BY <1>1, Bounds
  <2> QED  BY <1>1, <2>1 DEF LateBy
<1>3. NeventNow(nev) \in Int /\ \A z \in Event : Left(nev, z) \in Int
  BY <1>1, Numeric
<1>4. ToSet(nev.wait) \subseteq Event
  BY <1>1, Numeric
<1>5. Prepared(K, nev, {})
  <2>1. Ran(nev, nev, 0, {})
    BY <1>3 DEF Ran
  <2> QED  BY <1>1, <2>1 DEF Prepared
<1>6. Head(nev.wait) \in ToSet(nev.wait)
  BY <1>1, CalledIs
<1>7. \A z \in Event : z \in nev.setevent => ~NeventIsWork(nev, z)
  BY <1>1 DEF Ordered, Listed, NeventIsWork
<1> QED  BY <1>1, <1>2, <1>3, <1>4, <1>5, <1>6, <1>7 DEF Ringing

(* A callback that is superseded makes nothing of the list. *)
LEMMA CallNone ==
  ASSUME NEW K, Enough(K), AlarmInv(K), NEW x, CallMakes(K, nev, x, {}),
         Off \notin Int, x \notin nev.setevent, sti' = sti
  PROVE  A!Pass \/ UNCHANGED A!vars
<1>1. /\ nev \in NeventType /\ x \in ToSet(nev.wait) /\ x \in Event
      /\ Ordered(nev') /\ nev'.level = nev.level
      /\ phase' = IF nev'.wait # <<>> THEN "call" ELSE IF disp' THEN "irq" ELSE "host"
      /\ \A z \in Event : NeventIsWork(nev, z) => Left(nev', z) = Left(nev, z)
  BY CallList
<1>2. nev' \in NeventType /\ \A z \in Event : NeventIsWork(nev', z) <=> NeventIsWork(nev, z)
  BY <1>1 DEF Ordered, Listed, NeventIsWork
<1>3. Ringing' = Ringing /\ \A z \in Ringing : Left(nev', z) = Left(nev, z)
  <2>1. /\ Ringing' = Ringing \ ({} \cup {x})
        /\ \A z \in Ringing' : z \in Event /\ Left(nev', z) = Left(nev, z)
    BY CallRings
  <2>2. x \notin Ringing
    BY DEF Ringing
  <2> QED  BY <2>1, <2>2
<1>4. multiple' = multiple /\ phase = "call"
  BY DEF CallMakes
<1>5. CASE Ringing = {}
  <2>1. \A y \in Event \ {x} : NeventIsWork(nev, y) => Left(nev', y) = Left(nev, y) - 0
    BY <1>1, Numeric
  <2>2. 0 \in Nat /\ Longest \in Nat /\ 0 <= Longest
    <3>1. Longest \in Nat
      BY DEF Enough
    <3> QED  BY <3>1
  <2>3. A!Pass
    BY <1>1, <1>2, <1>3, <1>4, <1>5, <2>1, <2>2, PassIs
  <2> QED  BY <2>3
<1>6. CASE Ringing # {}
  <2>1. phase' = "call"
    <3>1. ToSet(nev'.wait) # {}
      BY <1>3, <1>6 DEF Ringing
    <3>2. nev'.wait # <<>>
      BY <3>1 DEF ToSet
    <3> QED  BY <1>1, <3>2
  <2>2. (sti \/ phase = "irq")' = (sti \/ phase = "irq")
    BY <1>4, <2>1
  <2> DEFINE left == [z \in Event |->
                        IF NeventIsWork(nev, z) THEN nev.clock[z] - NeventNow(nev) ELSE Off]
             ringing == [z \in Ringing |-> nev.clock[z] - NeventNow(nev)]
  <2>3. left' = left
    BY <1>1, <1>2 DEF Left
  <2>4. ringing' = ringing
    BY <1>3 DEF Left
  <2>5. UNCHANGED A!vars
    BY <1>4, <2>2, <2>3, <2>4 DEF A!vars
  <2> QED  BY <2>5
<1> QED  BY <1>5, <1>6

(* It sets x anew, from when that was due. *)
LEMMA CallSets ==
  ASSUME NEW K, Enough(K), AlarmInv(K), phase = "call", NEW x, x = Head(nev.wait),
         x \in nev.setevent, NEW p \in Nat, NEW n, NEW U, Prepared(K, n, U), x \notin U
  PROVE  LET m == SetRelative(n, x, p)
         IN  Prepared(K, m, U \cup {x}) /\ Left(m, x) = p + Left(nev, x)
<1> DEFINE b == -LateBy(K)
<1>1. /\ nev \in NeventType /\ n \in NeventType /\ x \in Event /\ b \in Int
      /\ b <= Left(nev, x) /\ Left(nev, x) \in Int
      /\ Ordered(n) /\ Stops(n) /\ Late(n, b) /\ Ran(nev, n, 0, U)
      /\ U \subseteq Event /\ \A z \in U : NeventIsWork(n, z)
  BY Calling DEF Prepared, Ringing, Ordered, Listed
<1>2. Left(n, x) = Left(nev, x)
  <2>1. Left(n, x) = Left(nev, x) - 0
    BY <1>1, RanLeft
  <2> QED  BY <1>1, <2>1
<1>3. PICK t \in Int : SetRelative(n, x, p) = NeventSet(n, x, t) /\ t - NeventNow(n) = p + Left(n, x)
  <2>1. p \in Int
    OBVIOUS
  <2> QED  BY <1>1, <2>1, SetAtIs
<1> DEFINE m == NeventSet(n, x, t)
<1>4. b <= t - NeventNow(n)
  BY <1>1, <1>2, <1>3
<1>5. /\ Ordered(m) /\ Stops(m) /\ Late(m, b) /\ Ran(n, m, 0, {x}) /\ NeventIsWork(m, x)
      /\ Left(m, x) = p + Left(nev, x)
  BY <1>1, <1>2, <1>3, <1>4, SetIs
<1> HIDE DEF m
<1>6. Ran(nev, m, 0, U \cup {x})
  <2>1. Ran(nev, m, 0 + 0, U \cup {x})
    BY <1>1, <1>5, RanTwice
  <2>2. 0 + 0 = 0
    OBVIOUS
  <2> QED  BY <2>1, <2>2
<1>7. \A z \in U : NeventIsWork(m, z)
  BY <1>1, <1>5 DEF Ran
<1>8. Prepared(K, m, U \cup {x})
  BY <1>1, <1>5, <1>6, <1>7 DEF Prepared
<1> QED  BY <1>3, <1>5, <1>8 DEF m

LEMMA SystimerAlarms ==
  ASSUME NEW K, Enough(K), AlarmInv(K), Off \notin Int, Systimer
  PROVE  AlarmInv(K)' /\ A!Call("ITIMER")
<1> DEFINE x == "ITIMER"
           y == "PICMASK"
           b == -LateBy(K)
           n == IF pit.i THEN MaskedTick(nev) ELSE nev
           p == multiple * (IF pit.rate THEN Period ELSE LongPeriod)
           m == SetRelative(n, x, p)
<1>1. /\ phase = "call" /\ x = Head(nev.wait) /\ x \in nev.setevent
      /\ nev' = Forgets(NeventCalled(m)) /\ disp' = disp
      /\ phase' = IF NeventCalled(m).wait # <<>> THEN "call" ELSE IF disp THEN "irq" ELSE "host"
      /\ multiple' = multiple /\ setups' = setups /\ ei' = ei
  BY DEF Systimer, Calls, Acts, Goes, guest, history
<1>2. /\ Ordered(nev) /\ Stops(nev) /\ Late(nev, b) /\ Prepared(K, nev, {}) /\ multiple \in Multiples
      /\ LateBy(K) \in Nat /\ disp \in BOOLEAN /\ NeventNow(nev) \in Nat
  BY <1>1, Calling
<1>3. Event = {"FLAMES", "ITIMER", "KEYBOARD", "PICMASK"}
  BY BoardAssumption
<1>4. p \in Nat /\ p \in Delays(x)
  <2>1. multiple \in Nat /\ Period \in Nat /\ LongPeriod \in Nat
    BY <1>2, BoardAssumption
  <2>2. p \in Nat
    BY <2>1
  <2>3. p \in Delays(x)
    BY <1>2 DEF Delays
  <2> QED  BY <2>2, <2>3
<1>5. PICK U \in SUBSET {y} : Prepared(K, n, U)
  <2>1. CASE n = nev
    BY <1>2, <2>1
  <2>2. CASE n = SetAbsolute(nev, y, multiple * MaskClock)
    <3> DEFINE c == multiple * MaskClock
    <3>1. c \in Nat /\ c \in Int
      <4>1. multiple \in Nat /\ MaskClock \in Nat
        BY <1>2, BoardAssumption
      <4> QED  BY <4>1
    <3> HIDE DEF n, c
    <3>2. PICK t \in Int : n = NeventSet(nev, y, t) /\ t - NeventNow(nev) = c
      BY <1>2, <1>3, <2>2, <3>1, SetAtIs DEF c
    <3>3. b \in Int /\ b <= t - NeventNow(nev)
      BY <1>2, <3>1, <3>2
    <3>4. Ordered(n) /\ Stops(n) /\ Late(n, b) /\ Ran(nev, n, 0, {y}) /\ NeventIsWork(n, y)
      BY <1>2, <1>3, <3>2, <3>3, SetIs
    <3>5. Prepared(K, n, {y})
      BY <1>3, <3>4 DEF Prepared
    <3> QED  BY <3>5
  <2>3. n = nev \/ n = SetAbsolute(nev, y, multiple * MaskClock)
    BY DEF MaskedTick
  <2> QED  BY <2>1, <2>2, <2>3
<1> HIDE DEF n, p
<1>6. Prepared(K, m, U \cup {x}) /\ Left(m, x) = p + Left(nev, x)
  <2>1. x \notin U
    OBVIOUS
  <2> QED  BY <1>1, <1>4, <1>5, <2>1, CallSets
<1> HIDE DEF m
<1>7. CallMakes(K, m, x, U \cup {x})
  BY <1>1, <1>2, <1>6 DEF CallMakes
<1>8. AlarmInv(K)'
  BY <1>1, <1>7, CallFrame
<1>9. A!Call(x)
  <2>1. Left(nev, x) \in Int
    BY <1>1, Calling DEF Ringing
  <2>2. Left(m, x) - Left(nev, x) = p
    BY <1>4, <1>6, <2>1
  <2>3. Left(m, x) - Left(nev, x) \in Delays(x)
    BY <1>4, <2>2
  <2>4. U \cup {x} \subseteq {x, y} /\ y \in Event
    BY <1>3
  <2> QED  BY <1>1, <1>7, <2>3, <2>4, CallIs
<1> QED  BY <1>8, <1>9

LEMMA PicmaskAlarms ==
  ASSUME NEW K, Enough(K), AlarmInv(K), Off \notin Int, Picmask
  PROVE  AlarmInv(K)' /\ (A!Call("PICMASK") \/ A!Pass \/ UNCHANGED A!vars)
<1> DEFINE x == "PICMASK"
<1>1. /\ phase = "call" /\ x = Head(nev.wait)
      /\ nev' = Forgets(NeventCalled(nev)) /\ disp' = disp
      /\ phase' = IF NeventCalled(nev).wait # <<>> THEN "call" ELSE IF disp THEN "irq" ELSE "host"
      /\ multiple' = multiple /\ setups' = setups /\ ei' = ei /\ sti' = sti
  BY DEF Picmask, Calls, Goes, guest, history
<1>2. /\ Ordered(nev) /\ Stops(nev) /\ Prepared(K, nev, {})
      /\ disp \in BOOLEAN /\ \A z \in Event : z \in nev.setevent => ~NeventIsWork(nev, z)
  BY <1>1, Calling
<1>3. x \in Event
  BY BoardAssumption
<1>4. CallMakes(K, nev, x, {})
  BY <1>1, <1>2 DEF CallMakes
<1>5. AlarmInv(K)'
  BY <1>1, <1>4, CallFrame
<1>6. CASE x \in nev.setevent
  <2>1. ~NeventIsWork(nev, x)
    BY <1>2, <1>3, <1>6
  <2>2. A!Call(x)
    BY <1>3, <1>4, <1>6, <2>1, CallIs
  <2> QED  BY <1>5, <2>2
<1>7. CASE x \notin nev.setevent
  <2>1. A!Pass \/ UNCHANGED A!vars
    BY <1>1, <1>4, <1>7, CallNone
  <2> QED  BY <1>5, <2>1
<1> QED  BY <1>6, <1>7

LEMMA KeyboardAlarms ==
  ASSUME NEW K, Enough(K), AlarmInv(K), Off \notin Int, KeyboardCallback
  PROVE  AlarmInv(K)' /\ (A!Call("KEYBOARD") \/ A!Pass \/ UNCHANGED A!vars)
<1> DEFINE x == "KEYBOARD"
           p == multiple * XferClock
           m == SetRelative(nev, x, p)
<1>1. /\ phase = "call" /\ x = Head(nev.wait)
      /\ multiple' = multiple /\ setups' = setups /\ ei' = ei /\ sti' = sti
      /\ (x \in nev.setevent /\ Goes(NeventCalled(m), disp)) \/ Goes(NeventCalled(nev), disp)
  BY DEF KeyboardCallback, Calls, Acts, guest
<1>2. /\ Ordered(nev) /\ Stops(nev) /\ Prepared(K, nev, {})
      /\ disp \in BOOLEAN /\ multiple \in Multiples
      /\ \A z \in Event : z \in nev.setevent => ~NeventIsWork(nev, z)
  BY <1>1, Calling
<1>3. x \in Event
  BY BoardAssumption
<1>4. CASE x \in nev.setevent /\ Goes(NeventCalled(m), disp)
  <2>1. p \in Nat /\ p \in Delays(x)
    <3>1. multiple \in Nat /\ XferClock \in Nat
      BY <1>2, BoardAssumption
    <3>2. p \in Nat
      BY <3>1
    <3>3. p \in Delays(x)
      BY <1>2 DEF Delays
    <3> QED  BY <3>2, <3>3
  <2> HIDE DEF p
  <2>2. Prepared(K, m, {x}) /\ Left(m, x) = p + Left(nev, x)
    <3>1. x \notin {} /\ {} \cup {x} = {x}
      OBVIOUS
    <3> QED  BY <1>1, <1>2, <1>4, <2>1, <3>1, CallSets
  <2>3. Left(m, x) - Left(nev, x) = p
    <3>1. Left(nev, x) \in Int
      BY <1>1, <1>4, Calling DEF Ringing
    <3> QED  BY <2>1, <2>2, <3>1
  <2> HIDE DEF m
  <2>4. CallMakes(K, m, x, {x})
    BY <1>1, <1>2, <1>4, <2>2 DEF CallMakes, Goes
  <2>5. disp' = disp
    BY <1>4 DEF Goes
  <2>6. AlarmInv(K)'
    BY <2>4, <2>5, CallFrame
  <2>7. A!Call(x)
    BY <1>3, <1>4, <2>1, <2>3, <2>4, CallIs
  <2> QED  BY <2>6, <2>7
<1>5. CASE Goes(NeventCalled(nev), disp)
  <2>1. CallMakes(K, nev, x, {})
    BY <1>1, <1>2, <1>5 DEF CallMakes, Goes
  <2>2. disp' = disp
    BY <1>5 DEF Goes
  <2>3. AlarmInv(K)'
    BY <2>1, <2>2, CallFrame
  <2>4. CASE x \in nev.setevent
    <3>1. ~NeventIsWork(nev, x)
      BY <1>2, <1>3, <2>4
    <3>2. A!Call(x)
      BY <1>3, <2>1, <2>4, <3>1, CallIs
    <3> QED  BY <2>3, <3>2
  <2>5. CASE x \notin nev.setevent
    <3>1. A!Pass \/ UNCHANGED A!vars
      BY <1>1, <2>1, <2>5, CallNone
    <3> QED  BY <2>3, <3>1
  <2> QED  BY <2>4, <2>5
<1> QED  BY <1>1, <1>4, <1>5

(* The two callbacks of the frame. *)
LEMMA FrameAlarms ==
  ASSUME NEW K, Enough(K), AlarmInv(K), Off \notin Int, Screenvsync \/ Screendisp
  PROVE  AlarmInv(K)' /\ A!Call("FLAMES")
<1> DEFINE x == "FLAMES"
           p == multiple * VsyncClock
           v == SetRelative(nev, x, p)
<1>1. /\ phase = "call" /\ x = Head(nev.wait)
      /\ multiple' = multiple /\ setups' = setups /\ ei' = ei
      /\ Goes(NeventCalled(v), disp) \/ Goes(NeventCalled(nev), FALSE)
  BY DEF Screenvsync, Screendisp, Calls, guest, history
<1>2. /\ Ordered(nev) /\ Stops(nev) /\ Prepared(K, nev, {})
      /\ nev \in NeventType /\ disp \in BOOLEAN /\ multiple \in Multiples /\ x \in ToSet(nev.wait)
      /\ NeventNow(nev) \in Nat
      /\ \A z \in Event : z \in nev.setevent => ~NeventIsWork(nev, z)
      /\ \A z \in Ringing : z \in Event /\ -LateBy(K) <= Left(nev, z) /\ Left(nev, z) \in Int
  BY <1>1, Calling
<1>3. disp /\ x \in nev.setevent /\ nev.clock[x] <= 0
  BY <1>2 DEF AlarmInv, FrameInv
<1>4. x \in Event /\ -LateBy(K) <= Left(nev, x) /\ Left(nev, x) \in Int /\ ~NeventIsWork(nev, x)
      /\ Left(nev, x) <= 0
  <2>1. x \in Event /\ -LateBy(K) <= Left(nev, x) /\ Left(nev, x) \in Int
    BY <1>2, <1>3 DEF Ringing
  <2>2. nev.clock[x] \in Int
    BY <1>2, <2>1, Numeric
  <2>3. Left(nev, x) <= 0
    BY <1>2, <1>3, <2>2 DEF Left
  <2> QED  BY <1>2, <1>3, <2>1, <2>3
<1>5. LateBy(K)' = LateBy(K)
  BY <1>1 DEF LateBy
<1>6. CASE Goes(NeventCalled(v), disp)
  <2>1. p \in Nat /\ p \in Delays(x) /\ p < Longest /\ Longest \in Nat
    <3>1. p \in Nat /\ p < Longest /\ Longest \in Nat
      <4>1. setups \in 0 .. MaxSetups
        BY DEF AlarmInv
      <4> QED  BY <1>2, <4>1, Bounds
    <3>2. p \in Delays(x)
      BY <1>2 DEF Delays
    <3> QED  BY <3>1, <3>2
  <2> HIDE DEF p
  <2>2. Prepared(K, v, {x}) /\ Left(v, x) = p + Left(nev, x)
    <3>1. x \notin {} /\ {} \cup {x} = {x}
      OBVIOUS
    <3> QED  BY <1>1, <1>2, <1>3, <2>1, <3>1, CallSets
  <2>3. Left(v, x) - Left(nev, x) = p
    BY <1>4, <2>1, <2>2
  <2> HIDE DEF v
  <2>4. CallMakes(K, v, x, {x})
    BY <1>1, <1>2, <1>6, <2>2 DEF CallMakes, Goes
  <2>5. disp' = disp
    BY <1>6 DEF Goes
  <2>6. FrameInv(K)'
    <3>1. /\ nev'.level = v.level /\ ToSet(nev'.wait) = ToSet(nev.wait) \ {x}
          /\ phase' = IF nev'.wait # <<>> THEN "call" ELSE IF disp' THEN "irq" ELSE "host"
          /\ Left(nev', x) = Left(v, x)
      BY <1>4, <2>4, CallList
    <3>2. NeventIsWork(nev', x)
      BY <2>2, <3>1 DEF NeventIsWork, Prepared
    <3>3. Left(nev', x) < Longest
      BY <1>4, <2>1, <2>2, <3>1
    <3> QED  BY <1>3, <2>5, <3>1, <3>2, <3>3 DEF FrameInv
  <2>7. AlarmInv(K)'
    BY <2>4, <2>6, CallSlice
  <2>8. A!Call(x)
    BY <1>3, <1>4, <2>1, <2>3, <2>4, CallIs
  <2> QED  BY <2>7, <2>8
<1>7. CASE Goes(NeventCalled(nev), FALSE)
  <2>1. disp' = FALSE
    BY <1>7 DEF Goes
  <2>2. CallMakes(K, nev, x, {})
    BY <1>1, <1>2, <1>7, <2>1 DEF CallMakes, Goes
  <2>3. FrameInv(K)'
    <3>1. /\ nev'.level = nev.level /\ ToSet(nev'.wait) = ToSet(nev.wait) \ {x}
          /\ phase' = IF nev'.wait # <<>> THEN "call" ELSE IF disp' THEN "irq" ELSE "host"
          /\ Left(nev', x) = Left(nev, x) /\ nev'.clock[x] = nev.clock[x]
      BY <1>4, <2>2, CallList
    <3>2. ~NeventIsWork(nev', x)
      BY <1>4, <3>1 DEF NeventIsWork
    <3> QED  BY <1>3, <1>4, <1>5, <2>1, <3>1, <3>2 DEF FrameInv
  <2>4. AlarmInv(K)'
    BY <2>2, <2>3, CallSlice
  <2>5. A!Call(x)
    BY <1>3, <1>4, <2>2, CallIs
  <2> QED  BY <2>4, <2>5
<1> QED  BY <1>1, <1>6, <1>7

(* The list begins with the system timer alone. *)
LEMMA InitAlarms ==
  ASSUME NEW K, Enough(K), Off \notin Int, Init
  PROVE  AlarmInv(K) /\ A!Init
<1> DEFINE x == "ITIMER"
           F == "FLAMES"
           n == NeventAllReset
           p == multiple * Period
           b == -LateBy(K)
<1>1. /\ nev = SetAbsolute(n, x, p) /\ phase = "host" /\ disp = FALSE /\ ei = FALSE /\ setups = 0
      /\ multiple = CHOOSE m \in Multiples : \A k \in Multiples : m <= k
  BY DEF Init
<1>2. Event = {"FLAMES", "ITIMER", "KEYBOARD", "PICMASK"}
  BY BoardAssumption
<1>3. multiple \in Multiples
  <2>1. PICK m \in Multiples : \A k \in Multiples : m <= k
    <3>1. Multiples \subseteq Nat /\ Multiples # {}
      BY BoardAssumption
    <3> QED  BY <3>1, Least
  <2> QED  BY <1>1, <2>1
<1>4. p \in Int /\ p > 0
  <2>1. multiple \in Nat \ {0} /\ Period \in Nat \ {0}
    BY <1>3, BoardAssumption
  <2> QED  BY <2>1
<1>5. LateBy(K) \in Nat /\ b \in Int /\ b <= 0 /\ setups \in 0 .. MaxSetups
  <2>1. 0 \in 0 .. MaxSetups /\ IntCost \in Nat
    BY BoardAssumption
  <2>2. K[0] \in Nat
    BY <2>1, Bounds
  <2> QED  BY <1>1, <2>1, <2>2 DEF LateBy
<1> HIDE DEF p, b
<1>6. /\ Ordered(n) /\ Stops(n) /\ Late(n, b) /\ NeventNow(n) = 0
      /\ ToSet(n.level) = {} /\ n.wait = <<>> /\ n.clock[F] = 0
  <2>1. n \in NeventType
    BY DEF NeventAllReset, NeventType
  <2>2. /\ n.level = <<>> /\ n.wait = <<>> /\ n.setevent = {} /\ n.rem = 0 /\ n.base = 0
        /\ n.clock[F] = 0
    BY <1>2 DEF NeventAllReset
  <2>3. ToSet(n.level) = {}
    BY <2>2 DEF ToSet
  <2>4. Ordered(n)
    BY <2>1, <2>2, <2>3 DEF Ordered, Listed, Apart, Rising
  <2> QED  BY <1>5, <2>2, <2>3, <2>4 DEF Stops, Late, NeventNow
<1> HIDE DEF n
<1>7. PICK t \in Int : nev = NeventSet(n, x, t) /\ t - NeventNow(n) = p
  BY <1>1, <1>2, <1>4, <1>6, SetAtIs
<1>8. /\ Ordered(nev) /\ Ran(n, nev, 0, {x}) /\ Stops(nev) /\ NeventIsWork(nev, x)
      /\ Left(nev, x) = p /\ Late(nev, b)
  <2>1. b <= t - NeventNow(n)
    BY <1>4, <1>5, <1>7
  <2> QED  BY <1>2, <1>5, <1>6, <1>7, <2>1, SetIs
<1>9. /\ nev \in NeventType /\ nev.wait = <<>> /\ NeventNow(nev) = 0
      /\ ToSet(nev.level) = {x} /\ nev.clock[F] = 0 /\ Left(nev, F) = 0
  <2>1. nev \in NeventType /\ nev.wait = <<>> /\ NeventNow(nev) = 0
    BY <1>6, <1>8 DEF Ordered, Listed, Ran
  <2>2. \A y \in Event \ {x} : ~NeventIsWork(nev, y) /\ nev.clock[y] = n.clock[y]
    BY <1>6, <1>8 DEF Ran, NeventIsWork
  <2>3. ToSet(nev.level) = {x}
    BY <1>8, <2>1, <2>2, Numeric DEF NeventIsWork
  <2>4. nev.clock[F] = 0
    BY <1>2, <1>6, <2>2
  <2> QED  BY <2>1, <2>3, <2>4 DEF Left
<1>10. ToSet(nev.wait) = {}
  BY <1>9 DEF ToSet
<1>11. FrameInv(K)
  <2>1. ~NeventIsWork(nev, F)
    BY <1>9 DEF NeventIsWork
  <2>2. -LateBy(K) <= Left(nev, F)
    BY <1>5, <1>9
  <2> QED  BY <1>1, <1>9, <1>10, <2>1, <2>2 DEF FrameInv
<1>12. SliceInv(K)
  BY <1>1, <1>8, <1>9, <1>10 DEF SliceInv, b
<1>13. AlarmInv(K)
  BY <1>1, <1>3, <1>5, <1>8, <1>9, <1>11, <1>12 DEF AlarmInv
<1>14. A!Init
  <2>1. Ringing = {}
    BY <1>10 DEF Ringing
  <2>2. A!Silent
    BY <2>1 DEF A!Silent
  <2>3. A!Due = {y \in ToSet(nev.level) : Left(nev, y) <= 0}
    BY <1>9, LeftIs
  <2>4. A!Due = {}
    BY <1>4, <1>8, <1>9, <2>3
  <2> QED  BY <2>2, <2>4 DEF A!Init
<1> QED  BY <1>13, <1>14

LEMMA StillAlarms ==
  ASSUME NEW K, AlarmInv(K), UNCHANGED vars
  PROVE  AlarmInv(K)' /\ UNCHANGED A!vars
<1>1. /\ phase' = phase /\ nev' = nev /\ disp' = disp /\ multiple' = multiple /\ ei' = ei
      /\ sti' = sti /\ setups' = setups
  BY DEF vars, guest, history
<1>2. Ringing' = Ringing
  BY <1>1 DEF Ringing
<1>3. UNCHANGED A!vars
  BY <1>1, <1>2 DEF A!vars
<1>4. AlarmInv(K)'
  BY <1>1 DEF AlarmInv, FrameInv, SliceInv, LateBy
<1> QED  BY <1>3, <1>4

LEMMA NextAlarms ==
  ASSUME NEW K, Enough(K), AlarmInv(K), Off \notin Int, [Next]_vars
  PROVE  AlarmInv(K)' /\ [A!Next]_A!vars
<1> DEFINE Fact == AlarmInv(K)' /\ [A!Next]_A!vars
<1>1. {"ITIMER", "PICMASK", "KEYBOARD", "FLAMES"} \subseteq Event
  BY BoardAssumption
<1>2. /\ A!Pass \/ A!GoOff \/ A!Rescale => A!Next
      /\ \A x \in Event : A!Call(x) => A!Next
  BY DEF A!Next
<1>3. CASE UNCHANGED vars
  BY <1>3, StillAlarms
<1>4. CASE HostKey
  BY <1>2, <1>4, HostKeyAlarms
<1>5. CASE HostFrame
  BY <1>2, <1>5, HostFrameAlarms
<1>6. ASSUME NEW m \in Multiples, HostSpeed(m) PROVE Fact
  BY <1>2, <1>6, HostSpeedAlarms
<1>7. CASE Irq
  BY <1>2, <1>7, IrqAlarms
<1>8. CASE Progress
  BY <1>2, <1>8, ProgressAlarms
<1>9. CASE Program
  BY <1>2, <1>9, ProgramAlarms
<1>10. CASE HandlerStep
  BY <1>2, <1>10, HandlerAlarms
<1>11. CASE Callback
  <2>1. CASE Systimer
    BY <1>1, <1>2, <2>1, SystimerAlarms
  <2>2. CASE Picmask
    BY <1>1, <1>2, <2>2, PicmaskAlarms
  <2>3. CASE KeyboardCallback
    BY <1>1, <1>2, <2>3, KeyboardAlarms
  <2>4. CASE Screenvsync \/ Screendisp
    BY <1>1, <1>2, <2>4, FrameAlarms
  <2> QED  BY <1>11, <2>1, <2>2, <2>3, <2>4 DEF Callback
<1> QED  BY <1>3, <1>4, <1>5, <1>6, <1>7, <1>8, <1>9, <1>10, <1>11 DEF Next

(* The event list keeps what Alarms promises, in every run and with any    *)
(* number of clock changes, if Longest and Latest are what Enough asks     *)
(* (nevent.c; pccore.c: pccore_exec(); i286c.c: NEXT_OPCODE): AlarmsSpec   *)
(* of GuestBoard.                                                          *)
THEOREM AlarmsHolds ==
  ASSUME NEW K, Enough(K)
  PROVE  Spec => AlarmsSpec
<1>1. Off \notin Int
  BY BoardAssumption
<1>2. Init => AlarmInv(K) /\ A!Init
  BY <1>1, InitAlarms
<1>3. AlarmInv(K) /\ [Next]_vars => AlarmInv(K)' /\ [A!Next]_A!vars
  BY <1>1, NextAlarms
<1> QED  BY <1>2, <1>3, PTL DEF Spec, AlarmsSpec, A!Spec
=============================================================================

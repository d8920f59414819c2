-------------------------------- MODULE Pic --------------------------------
(***************************************************************************)
(* The two interrupt controllers of the machine (io/pic.c), as operators   *)
(* from one state of the pair to the next.  The slave hangs on line        *)
(* Cascade of the master.  Requests are numbered as in pic_setirq(): the   *)
(* lines of the master first, then those of the slave.                     *)
(* Left out: the special mask mode and which register a read returns.      *)
(***************************************************************************)
EXTENDS Integers, FiniteSets

CONSTANT Levels   \* lines of one controller: 8

ASSUME PicAssumption == Levels \in Nat /\ Levels >= 4

Lines == 0 .. Levels - 1
Irqs == 0 .. 2 * Levels - 1
SystemTimer == 0
Keyboard == 1
Crtv == 2
Cascade == Levels - 1
NoIrq == 2 * Levels

Chip == {"master", "slave"}
PicItem == [irr : SUBSET Lines, isr : SUBSET Lines, imr : SUBSET Lines, pry : Lines]

(* pic_reset(): def_master and def_slave, which the machine's BIOS then sets *)
(* up; what is masked is left to the instance.                               *)
PicReset(masks) == [c \in Chip |-> [irr |-> {}, isr |-> {}, imr |-> masks[c], pry |-> 0]]

(* How far line l is from the one with the highest priority. *)
Rank(item, l) == (l - item.pry) % Levels

(* The scans of pic_irq() and pic_o00(): from pry upwards. *)
First(S, item) == CHOOSE l \in S : \A k \in S : Rank(item, l) <= Rank(item, k)

SlavePending(p) == p["slave"].irr \ p["slave"].imr
MasterPending(p) ==
  (p["master"].irr \cup (IF SlavePending(p) # {} THEN {Cascade} ELSE {})) \ p["master"].imr

(* Mutant: what is in service does not count. *)
PicIrqNested(p) ==
  LET m == First(MasterPending(p), p["master"])
      s == First(SlavePending(p), p["slave"])
  IN  IF MasterPending(p) = {} THEN NoIrq
      ELSE IF m = Cascade THEN Levels + s ELSE m

(* pic_irq(): the request the CPU takes, once it takes any. *)
PicIrq(p) ==
  LET m == First(MasterPending(p) \cup p["master"].isr, p["master"])
      s == First(SlavePending(p) \cup p["slave"].isr, p["slave"])
  IN  IF MasterPending(p) = {} THEN NoIrq
      ELSE IF m = Cascade
      THEN IF SlavePending(p) = {} \/ s \in p["slave"].isr THEN NoIrq ELSE Levels + s
      ELSE IF m \in p["master"].isr THEN NoIrq ELSE m

(* ... and what it leaves in service. *)
PicTake(p, irq) ==
  LET l == irq % Levels
      m == IF irq < Levels THEN l ELSE Cascade
      master == [p["master"] EXCEPT !.isr = @ \cup {m}, !.irr = @ \ {m}]
      slave  == [p["slave"] EXCEPT !.isr = @ \cup {l}, !.irr = @ \ {l}]
  IN  [c \in Chip |-> IF c = "master" THEN master
                      ELSE IF irq < Levels THEN p["slave"] ELSE slave]

(* pic_setirq(), without what it does to other devices: a vertical sync    *)
(* that comes while one is in service is no request.                       *)
SetIrq(p, irq) ==
  IF irq >= Levels
  THEN [p EXCEPT !["slave"].irr = @ \cup {irq - Levels}]
  ELSE IF irq = Crtv /\ Crtv \in p["master"].isr
  THEN [p EXCEPT !["master"].irr = @ \ {Crtv}]
  ELSE [p EXCEPT !["master"].irr = @ \cup {irq}]

ResetIrq(p, irq) == [p EXCEPT !["master"].irr = @ \ {irq}]

(* Mutant: always the line that has the highest priority by default. *)
EndOfInterruptLowest(p, c, rotate) ==
  LET level == CHOOSE l \in p[c].isr : \A k \in p[c].isr : l >= k
  IN  IF p[c].isr = {} THEN p
      ELSE [p EXCEPT ![c].isr = @ \ {level},
                     ![c].pry = IF rotate THEN (level + 1) % Levels ELSE @]

(* pic_o00(), OCW2: the end of the interrupt that is in service with the   *)
(* highest priority, with or without a rotation.                           *)
EndOfInterrupt(p, c, rotate) ==
  LET level == First(p[c].isr, p[c])
  IN  IF p[c].isr = {} THEN p
      ELSE [p EXCEPT ![c].isr = @ \ {level},
                     ![c].pry = IF rotate THEN (level + 1) % Levels ELSE @]

(* pic_o00(), ICW1: requests and masks are forgotten, not what is in service. *)
Icw1(p, c) == [p EXCEPT ![c].irr = {}, ![c].imr = {}, ![c].pry = 0]

(* pic_o02(): does the new mask let a request through that is there?       *)
Unmasks(p, c, dat) == p[c].irr \cap (p[c].imr \ dat) # {}

SetMask(p, c, dat) == [p EXCEPT ![c].imr = dat]

-----------------------------------------------------------------------------
(* What the pair stands for, said line by line: a request may be served if *)
(* it is not masked and comes before all that is in service.  A slave that *)
(* has nothing left in service is not held up by its own line.             *)
MasterMay(p) ==
  {l \in Lines \ {Cascade} :
     /\ l \in p["master"].irr \ p["master"].imr
     /\ \A k \in p["master"].isr : Rank(p["master"], l) < Rank(p["master"], k)}

SlaveMay(p) ==
  {l \in Lines :
     /\ l \in p["slave"].irr \ p["slave"].imr
     /\ Cascade \notin p["master"].imr
     /\ \A k \in p["slave"].isr : Rank(p["slave"], l) < Rank(p["slave"], k)
     /\ \A k \in p["master"].isr \ {Cascade} :
          Rank(p["master"], Cascade) < Rank(p["master"], k)}

May(p) == MasterMay(p) \cup {Levels + l : l \in SlaveMay(p)}

(* irq comes before all others that may be served. *)
ComesFirst(p, irq) ==
  LET line(i) == IF i < Levels THEN i ELSE Cascade
  IN  \A other \in May(p) \ {irq} :
        \/ Rank(p["master"], line(irq)) < Rank(p["master"], line(other))
        \/ /\ irq >= Levels /\ other >= Levels
           /\ Rank(p["slave"], irq - Levels) < Rank(p["slave"], other - Levels)
=============================================================================

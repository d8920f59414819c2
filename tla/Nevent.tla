------------------------------- MODULE Nevent -------------------------------
(***************************************************************************)
(* The event list of np2kai, as operators from one state of the list to    *)
(* the next.  The CPU counts rem down; base - rem is the time since the    *)
(* list was last looked at, and clock[x] the time at which event x is due, *)
(* from then too.  level holds the events that are set, by their clocks;   *)
(* wait the events that went off and were not called yet; setevent those   *)
(* whose callback may act (NEVENT_SETEVENT).  An event keeps its clock     *)
(* when it leaves the list: a RELATIVE set starts from there.              *)
(***************************************************************************)
EXTENDS Integers, FiniteSets, Sequences, SequencesExt

CONSTANTS
  Event,          \* NEVENTID
  MaxClock        \* NEVENT_MAXCLOCK

ASSUME NeventAssumption == MaxClock \in Nat \ {0}

NeventType ==
  [clock : [Event -> Int], level : Seq(Event), wait : Seq(Event),
   setevent : SUBSET Event, base : Int, rem : Int]

(* nevent_allreset(), with nothing counted yet. *)
NeventAllReset ==
  [clock |-> [x \in Event |-> 0], level |-> <<>>, wait |-> <<>>,
   setevent |-> {}, base |-> 0, rem |-> 0]

NeventNow(n) == n.base - n.rem
NeventIsWork(n, x) == x \in ToSet(n.level)

(* The items of list s that are in S, in their order, as a pass over the    *)
(* list copies them down: the k-th is the one with k - 1 of them before it.  *)
Only(s, S) ==
  LET at == {i \in DOMAIN s : s[i] \in S}
  IN  [k \in 1 .. Cardinality(at) |->
         s[CHOOSE i \in at : Cardinality({j \in at : j < i}) = k - 1]]

(* nevent_reset() *)
NeventReset(n, x) == [n EXCEPT !.level = Only(@, Event \ {x})]

(* Mutant: behind all that come later too. *)
InsertLast(rest, clock, t) == Len(rest) + 1

(* Where an event due at t goes: before the first that is due later. *)
InsertAtClock(rest, clock, t) ==
  Cardinality({i \in 1 .. Len(rest) : \A j \in 1 .. i : clock[rest[j]] <= t}) + 1

(* The first event of the list says when the CPU is to stop. *)
FirstEvent(n, t) == [n EXCEPT !.base = t, !.rem = @ - (n.base - t)]

(* nevent_set(): event x due at t. *)
NeventSet(n, x, t) ==
  LET rest == NeventReset(n, x).level
      pos  == InsertAtClock(rest, n.clock, t)
      set  == [n EXCEPT !.clock[x] = t,
                        !.setevent = @ \ {x},
                        !.level = InsertAt(rest, pos, x)]
  IN  IF pos = 1 THEN FirstEvent(set, t) ELSE set

SetAbsolute(n, x, eventclock) == NeventSet(n, x, eventclock + NeventNow(n))
SetRelative(n, x, eventclock) == NeventSet(n, x, eventclock + n.clock[x])

(* nevent_forceexit(), and I286IRQCHECKTERM: the CPU stops here. *)
NeventForceExit(n) ==
  IF n.rem > 0 THEN [n EXCEPT !.base = @ - n.rem, !.rem = 0] ELSE n

(* NEXT_OPCODE: the CPU stops one instruction later at the earliest. *)
NextOpcode(n) == IF n.rem < 1 THEN [n EXCEPT !.base = @ + (1 - n.rem), !.rem = 1] ELSE n

(* REMAIN_ADJUST(1): the CPU stops after one more instruction. *)
RemainAdjust(n) == [n EXCEPT !.base = @ + (1 - n.rem), !.rem = 1]

(* nevent_progress() up to nevent_execute(): the events that are due leave *)
(* the list, and the next look is when the first of the others is due.     *)
NeventProgress(n) ==
  LET late == Only(n.level, {x \in Event : n.clock[x] <= n.base})
      kept == Only(n.level, {x \in Event : n.clock[x] > n.base})
      next == CHOOSE t \in {MaxClock} \cup {n.clock[x] - n.base : x \in ToSet(kept)} :
                \A x \in ToSet(kept) : t <= MaxClock /\ t <= n.clock[x] - n.base
  IN  [clock    |-> [x \in Event |-> IF NeventIsWork(n, x) THEN n.clock[x] - n.base
                                     ELSE n.clock[x]],
       level    |-> kept,
       wait     |-> n.wait \o Only(late, Event \ n.setevent),
       setevent |-> n.setevent \cup ToSet(late),
       base     |-> next,
       rem      |-> n.rem + next]

(* nevent_execute() after the callback of the first event that waits. *)
NeventCalled(n) == [n EXCEPT !.setevent = @ \ {Head(n.wait)}, !.wait = Tail(@)]

(* nevent_changeclock() scales with rounding, and C divides towards zero. *)
Scaled(t, old, new) ==
  LET u == t * new + old \div 2
  IN  IF u >= 0 THEN u \div old ELSE -((-u) \div old)

NeventChangeClock(n, old, new) ==
  LET clock == [x \in Event |->
                  IF NeventIsWork(n, x) /\ n.clock[x] > 0
                  THEN IF Scaled(n.clock[x], old, new) > 0 THEN Scaled(n.clock[x], old, new) ELSE 1
                  ELSE n.clock[x]]
  IN  IF n.level = <<>> THEN n
      ELSE IF n.base = n.rem
      THEN [n EXCEPT !.clock = clock, !.base = clock[Head(n.level)], !.rem = clock[Head(n.level)]]
      ELSE [n EXCEPT !.clock = clock, !.base = Scaled(@, old, new), !.rem = Scaled(@, old, new)]
=============================================================================

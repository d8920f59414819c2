------------------------------- MODULE Alarms -------------------------------
(***************************************************************************)
(* What the event list promises the emulated devices: alarms that go off   *)
(* in time.  left[x] is the time until alarm x is due, negative when it is *)
(* late.  Time passes for all alarms alike, and while one is due only      *)
(* where the CPU has the grace of an instruction.  What is due goes off,   *)
(* earlier alarms first and none of them later than Latest.  Each that     *)
(* went off is called once before time passes again, unless it was set     *)
(* anew in between, and one that sets itself does so from when it was due, *)
(* however late it is called.                                              *)
(***************************************************************************)
EXTENDS Integers, Functions

CONSTANTS
  Alarm,          \* the alarms
  Off,            \* left of an alarm that is not set
  Delay,          \* [Alarm -> SUBSET Nat]: after that an alarm sets itself
  Longest,        \* how long one step of the CPU takes at most
  Latest          \* how late an alarm goes off at most

VARIABLES
  left,           \* [Alarm -> Int \cup {Off}]
  ringing,        \* a function: the alarms to be called, and their left
  grace,          \* the CPU may run although an alarm is due
  rate            \* the CPU's clock, the unit of time

vars == <<left, ringing, grace, rate>>

Silent == ringing = [x \in {} |-> 0]
Armed(l) == {x \in Alarm : l[x] # Off}
Due == {x \in Armed(left) : left[x] <= 0}
After(d) == [x \in Alarm |-> IF left[x] = Off THEN Off ELSE left[x] - d]
Touched(l) == {x \in Alarm : left'[x] # l[x]}

Init == Silent /\ Due = {}

(* The CPU runs: time passes for every alarm alike, and what it executed   *)
(* may then set or cancel one of them.                                     *)
Pass ==
  /\ Silent
  /\ \E d \in IF Due = {} \/ grace THEN 0 .. Longest ELSE {0} :
       \E x \in Alarm : Touched(After(d)) \subseteq {x}
  /\ UNCHANGED <<ringing, rate>>

(* Alarms that are due go off, and none before one that was due earlier. *)
GoOff ==
  /\ Silent
  /\ LET off == DOMAIN ringing'
     IN  /\ off \subseteq Due
         /\ \A x \in off, y \in Due \ off : left[x] < left[y]
         /\ ringing' = [x \in off |-> left[x]]
         /\ left' = [x \in Alarm |-> IF x \in off THEN Off ELSE left[x]]
         /\ \A x \in off : left[x] >= -Latest
  /\ UNCHANGED rate

(* An alarm that went off is called.  It may set itself and one other,     *)
(* which silences that if it was to be called after it.                    *)
Call(x) ==
  /\ x \in DOMAIN ringing
  /\ \E y \in Alarm : Touched(left) \subseteq {x, y}
  /\ left[x] = Off
  /\ left'[x] = Off \/ left'[x] - ringing[x] \in Delay[x]
  /\ ringing' = Restrict(ringing, DOMAIN ringing \ ({x} \cup Touched(left)))
  /\ UNCHANGED rate

(* Another clock for the CPU: the alarms keep their order, and none that   *)
(* was not due becomes late by more than what is lost in rounding.         *)
Rescale ==
  /\ Silent
  /\ rate' # rate
  /\ Armed(left') = Armed(left)
  /\ \A x, y \in Armed(left) : left[x] < left[y] => left'[x] <= left'[y]
  /\ \A x \in Armed(left) : left[x] > 0 => left'[x] >= -1
  /\ UNCHANGED ringing

Next == Pass \/ GoOff \/ Rescale \/ \E x \in Alarm : Call(x)

Spec == Init /\ [][Next]_vars
=============================================================================

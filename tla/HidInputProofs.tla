--------------------------- MODULE HidInputProofs ---------------------------
(***************************************************************************)
(* Proofs about HidInput, for every number of keyboards, transports, keys  *)
(* and queue slots: types, and no key that stays down in the PC-98 matrix  *)
(* when no keyboard holds it, nor up when one does.                        *)
(***************************************************************************)
EXTENDS HidInput, FiniteSetTheorems, TLAPS

(* An event of the key is queued. *)
Queued(k) == \E i \in DOMAIN s_kq : s_kq[i].key = k

(* The last one is a press. *)
LastDown(k) ==
  \E i \in DOMAIN s_kq :
    /\ s_kq[i] = [key |-> k, down |-> TRUE]
    /\ \A j \in DOMAIN s_kq : j > i => s_kq[j].key # k

(* The queue, drained into the matrix, would leave the key down.           *)
DownAfter(k) == (k \in ref /\ ~Queued(k)) \/ LastDown(k)

(* The last thing that happened to the key does not reach the matrix.      *)
Missed(k) == k \in lost \/ (k \in ate /\ ~Queued(k))

(* Some transport still knows the key as held, or has its release to push. *)
Owned(k) ==
  \E s \in Sources :
    \/ k \in KeysOf(prev[s])
    \/ \E i \in DOMAIN pend[s] : pend[s][i] = [key |-> k, down |-> FALSE]

(* A press that is still to be pushed is in the report it came from.       *)
DownBacked ==
  \A s \in Sources : \A i \in DOMAIN pend[s] :
    pend[s][i].down => pend[s][i].key \in KeysOf(prev[s]) \cup {NoKey}

(* A transport's previous report is the report of one of its keyboards.    *)
PrevHeld ==
  \A s \in Sources : prev[s] # {} => \E d \in Devices : held[d] = prev[s] /\ SrcOf[d] = s

DownOwned == \A k \in NKeys : DownAfter(k) => Owned(k) \/ Missed(k)

KeyInv == DownBacked /\ PrevHeld /\ DownOwned

Inv == TypeOK /\ KeyInv

-----------------------------------------------------------------------------
(***************************************************************************)
(* What hid_kbd_report makes of two reports: a sequence of requests, whose *)
(* presses are keys of the new report, and in which each key of the old    *)
(* one that is not in the new one is released.                             *)
(***************************************************************************)
LEMMA EventSeqsType ==
  ASSUME NEW was \in SUBSET (Mods \cup Keys), NEW now \in SUBSET (Mods \cup Keys),
         NEW events \in EventSeqs(was, now)
  PROVE  /\ events \in Seq(Request)
         /\ \A i \in DOMAIN events :
              events[i].down => events[i].key \in KeysOf(now) \cup {NoKey}
         /\ \A u \in was \ now : NKeyOf[u] # NoKey =>
              \E i \in DOMAIN events : events[i] = [key |-> NKeyOf[u], down |-> FALSE]
<1> DEFINE C == Changed(was, now)
<1>1. C \subseteq Mods \cup Keys
  BY DEF Changed
<1>2. Cardinality(C) \in Nat
  BY <1>1, HidAssumption, FS_Subset, FS_CardinalityType
<1>3. PICK order \in Orders(was, now) :
        events = [i \in DOMAIN order |-> EventOf(order[i], now)]
  BY DEF EventSeqs
<1>4. /\ order \in [1 .. Cardinality(C) -> C]
      /\ \A u \in C : \E i \in DOMAIN order : order[i] = u
  BY DEF Orders
<1> HIDE DEF C
<1>5. \A i \in 1 .. Cardinality(C) : order[i] \in Mods \cup Keys
  BY <1>1, <1>4
<1>6. \A u \in Mods \cup Keys : NKeyOf[u] \in NKeys \cup {NoKey}
  BY DEF NKeys
<1>7. DOMAIN events = 1 .. Cardinality(C) /\ DOMAIN order = 1 .. Cardinality(C)
  BY <1>3, <1>4
<1>8. \A i \in 1 .. Cardinality(C) : events[i] = EventOf(order[i], now)
  BY <1>3, <1>7
<1>81. \A i \in 1 .. Cardinality(C) :
          /\ order[i] \in now => events[i] = [key |-> NKeyOf[order[i]], down |-> TRUE]
          /\ order[i] \notin now => events[i] = [key |-> NKeyOf[order[i]], down |-> FALSE]
  <2> TAKE i \in 1 .. Cardinality(C)
  <2>1. events[i] = [key |-> NKeyOf[order[i]], down |-> order[i] \in now]
    BY <1>8 DEF EventOf
  <2>2. CASE order[i] \in now
    <3>1. (order[i] \in now) = TRUE
      BY <2>2
    <3>2. QED
      BY <2>1, <2>2, <3>1, Zenon
  <2>3. CASE order[i] \notin now
    <3>1. (order[i] \in now) = FALSE
      BY <2>3
    <3>2. QED
      BY <2>1, <2>3, <3>1, Zenon
  <2>4. QED
    BY <2>2, <2>3
<1>9. events \in Seq(Request)
  <2>1. \A i \in 1 .. Cardinality(C) : events[i] \in Request
    <3> TAKE i \in 1 .. Cardinality(C)
    <3>1. NKeyOf[order[i]] \in NKeys \cup {NoKey}
      BY <1>5, <1>6
    <3>2. \E b \in BOOLEAN : events[i] = [key |-> NKeyOf[order[i]], down |-> b]
      BY <1>81
    <3>3. QED
      BY <3>1, <3>2 DEF Request
  <2>2. events \in [1 .. Cardinality(C) -> Request]
    BY <2>1, <1>3, <1>7
  <2>3. QED
    BY <2>2, <1>2
<1>10. ASSUME NEW i \in DOMAIN events, events[i].down
       PROVE  events[i].key \in KeysOf(now) \cup {NoKey}
  <2>1. order[i] \in now /\ events[i].key = NKeyOf[order[i]]
    BY <1>7, <1>81, <1>10
  <2>2. QED
    BY <2>1 DEF KeysOf
<1>11. ASSUME NEW u \in was \ now, NKeyOf[u] # NoKey
       PROVE  \E i \in DOMAIN events : events[i] = [key |-> NKeyOf[u], down |-> FALSE]
  <2>1. u \in C
    BY <1>11 DEF C, Changed
  <2>2. PICK i \in DOMAIN order : order[i] = u
    BY <2>1, <1>4
  <2>3. events[i] = [key |-> NKeyOf[u], down |-> FALSE]
    BY <2>2, <1>7, <1>81
  <2>4. QED
    BY <2>2, <2>3, <1>7
<1>12. QED
  BY <1>9, <1>10, <1>11

(***************************************************************************)
(* Type correctness: queue, matrix, previous reports and pending events of *)
(* hid_kbd_report, kq_push and the emulator loop.                          *)
(***************************************************************************)
LEMMA TypeStep == TypeOK /\ [Next]_vars => TypeOK'
<1> SUFFICES ASSUME TypeOK, [Next]_vars PROVE TypeOK'
  OBVIOUS
<1>1. ASSUME NEW d \in Devices, NEW now \in SUBSET (Mods \cup Keys), Report(d, now)
      PROVE  /\ held' \in [Devices -> SUBSET (Mods \cup Keys)]
             /\ prev' \in [Sources -> SUBSET (Mods \cup Keys)]
             /\ pend' \in [Sources -> Seq(Request)]
             /\ clash' \in BOOLEAN
             /\ s_kq' \in Seq(Event) /\ Len(s_kq') <= QueueLen
             /\ g_menu_req' \in BOOLEAN
             /\ loop' \in {"top", "drain", "menu"}
             /\ ref' \subseteq NKeys
             /\ lost' \subseteq NKeys /\ ate' \subseteq NKeys
  <2>1. SrcOf[d] \in Sources /\ prev[SrcOf[d]] \in SUBSET (Mods \cup Keys)
    BY HidAssumption DEF TypeOK
  <2>2. \A events \in EventSeqs(prev[SrcOf[d]], now) : events \in Seq(Request)
    BY <2>1, EventSeqsType
  <2>3. pend' \in [Sources -> Seq(Request)]
    BY <1>1, <2>1, <2>2 DEF Report, TypeOK
  <2>4. held' \in [Devices -> SUBSET (Mods \cup Keys)] /\ prev' \in [Sources -> SUBSET (Mods \cup Keys)]
    BY <1>1, <2>1 DEF Report, TypeOK
  <2>5. clash' \in BOOLEAN
    BY <1>1 DEF Report, TypeOK
  <2>6. QED
    BY <1>1, <2>3, <2>4, <2>5 DEF Report, TypeOK
<1>2. ASSUME NEW d \in Devices, KeyReport(d) PROVE TypeOK'
  <2>1. PICK now \in SUBSET (Mods \cup Keys) : Report(d, now)
    BY <1>2 DEF KeyReport
  <2>2. reports' \in 0 .. MaxReports /\ plugged' = plugged
    BY <1>2, HidAssumption DEF KeyReport, TypeOK
  <2>3. QED
    BY <2>1, <2>2, <1>1 DEF TypeOK
<1>3. ASSUME NEW d \in Devices, Unplug(d) PROVE TypeOK'
  <2>1. Report(d, {}) /\ {} \in SUBSET (Mods \cup Keys)
    BY <1>3 DEF Unplug
  <2>2. reports' = reports /\ plugged' \subseteq Devices
    BY <1>3 DEF Unplug, TypeOK
  <2>3. QED
    BY <2>1, <2>2, <1>1 DEF TypeOK
<1>4. ASSUME NEW d \in Devices, Plug(d) PROVE TypeOK'
  BY <1>4, HidAssumption DEF Plug, TypeOK
<1>5. ASSUME NEW s \in Sources, Push(s) PROVE TypeOK'
  <2>1. pend[s] \in Seq(Request) /\ pend[s] # << >>
    BY <1>5 DEF Push, TypeOK
  <2>2. Head(pend[s]) \in Request /\ Tail(pend[s]) \in Seq(Request)
    BY <2>1
  <2>3. Head(pend[s]).key # NoKey => Head(pend[s]) \in Event
    BY <2>2 DEF Request, Event
  <2>4. pend' \in [Sources -> Seq(Request)]
    BY <1>5, <2>2 DEF Push, TypeOK
  <2>5. s_kq' \in Seq(Event) /\ Len(s_kq') <= QueueLen
    <3>1. CASE s_kq' = s_kq
      BY <3>1 DEF TypeOK
    <3>2. CASE /\ s_kq' = Append(s_kq, Head(pend[s]))
               /\ Len(s_kq) < QueueLen /\ Head(pend[s]).key # NoKey
      <4>1. s_kq \in Seq(Event) /\ Head(pend[s]) \in Event
        BY <3>2, <2>3 DEF TypeOK
      <4>2. s_kq' \in Seq(Event) /\ Len(s_kq') = Len(s_kq) + 1
        BY <3>2, <4>1
      <4>3. Len(s_kq) \in Nat
        BY <4>1
      <4>4. QED
        BY <3>2, <4>2, <4>3, HidAssumption
    <3>3. QED
      BY <1>5, <3>1, <3>2 DEF Push
  <2>6. g_menu_req' \in BOOLEAN /\ lost' \subseteq NKeys
    <3>1. Head(pend[s]).key # NoKey => Head(pend[s]).key \in NKeys
      BY <2>3 DEF Event
    <3> QED  BY <1>5, <3>1 DEF Push, TypeOK
  <2>7. QED
    BY <1>5, <2>4, <2>5, <2>6 DEF Push, TypeOK
<1>6. CASE LoopTop
  BY <1>6 DEF LoopTop, TypeOK
<1>7. CASE DrainPop
  <2>1. Head(s_kq) \in Event /\ Tail(s_kq) \in Seq(Event) /\ Len(Tail(s_kq)) <= QueueLen
    BY <1>7, HidAssumption DEF DrainPop, TypeOK
  <2>2. ref' \subseteq NKeys /\ ate' \subseteq NKeys
    BY <1>7, <2>1 DEF DrainPop, Keystat, Event, TypeOK
  <2>3. QED
    BY <1>7, <2>1, <2>2 DEF DrainPop, TypeOK
<1>8. CASE DrainEnd
  BY <1>8 DEF DrainEnd, TypeOK
<1>9. CASE MenuPop
  <2>1. Tail(s_kq) \in Seq(Event) /\ Len(Tail(s_kq)) <= QueueLen /\ Head(s_kq) \in Event
    BY <1>9, HidAssumption DEF MenuPop, TypeOK
  <2>2. ate' \subseteq NKeys
    BY <1>9, <2>1 DEF MenuPop, Event, TypeOK
  <2>3. QED
    BY <1>9, <2>1, <2>2 DEF MenuPop, TypeOK
<1>10. CASE UNCHANGED vars
  BY <1>10 DEF vars, TypeOK
<1>11. QED
  BY <1>2, <1>3, <1>4, <1>5, <1>6, <1>7, <1>8, <1>9, <1>10 DEF Next

LEMMA TypeInit == Init => TypeOK
<1> SUFFICES ASSUME Init PROVE TypeOK
  OBVIOUS
<1>1. s_kq \in Seq(Event) /\ Len(s_kq) <= QueueLen
  BY HidAssumption DEF Init
<1>2. pend \in [Sources -> Seq(Request)]
  BY DEF Init
<1>3. reports \in 0 .. MaxReports
  BY HidAssumption DEF Init
<1>4. QED
  BY <1>1, <1>2, <1>3 DEF Init, TypeOK

(***************************************************************************)
(* The shared words of keyboard input keep their types in every run of the *)
(* HID tasks and the emulator loop.                                        *)
(***************************************************************************)
THEOREM TypeCorrect == Spec => []TypeOK
<1>1. QED
  BY TypeInit, TypeStep, PTL DEF Spec

-----------------------------------------------------------------------------
LEMMA KeyInit == Init => KeyInv
<1> SUFFICES ASSUME Init PROVE KeyInv
  OBVIOUS
<1>1. DownBacked
  BY DEF Init, DownBacked
<1>2. PrevHeld
  BY DEF Init, PrevHeld
<1>3. DownOwned
  BY DEF Init, DownOwned, DownAfter, LastDown
<1>4. QED
  BY <1>1, <1>2, <1>3 DEF KeyInv

(***************************************************************************)
(* A report, of a keyboard or for one that goes away, keeps every key that *)
(* is down owned: what it no longer holds it releases.                     *)
(***************************************************************************)
LEMMA ReportStep ==
  ASSUME Inv, NEW d \in Devices, NEW now \in SUBSET (Mods \cup Keys), Report(d, now)
  PROVE  KeyInv'
<1> DEFINE s == SrcOf[d]
<1>1. s \in Sources /\ prev[s] \in SUBSET (Mods \cup Keys)
  BY HidAssumption DEF Inv, TypeOK
<1>2. PICK events \in EventSeqs(prev[s], now) : pend' = [pend EXCEPT ![s] = events]
  BY DEF Report
<1>3. /\ \A i \in DOMAIN events :
           events[i].down => events[i].key \in KeysOf(now) \cup {NoKey}
      /\ \A u \in prev[s] \ now : NKeyOf[u] # NoKey =>
           \E i \in DOMAIN events : events[i] = [key |-> NKeyOf[u], down |-> FALSE]
  BY <1>1, EventSeqsType
<1>4. /\ pend'[s] = events /\ prev'[s] = now
      /\ \A t \in Sources \ {s} : pend'[t] = pend[t] /\ prev'[t] = prev[t]
      /\ pend[s] = << >>
  BY <1>1, <1>2 DEF Report, Inv, TypeOK
<1>5. /\ held'[d] = now
      /\ \A e \in Devices \ {d} : held'[e] = held[e]
  BY DEF Report, Inv, TypeOK
<1>6. UNCHANGED <<s_kq, ref, lost, ate>>
  BY DEF Report
<1> HIDE DEF s
<1>7. DownBacked'
  BY <1>3, <1>4 DEF DownBacked, Inv, KeyInv
<1>8. PrevHeld'
  <2>1. SUFFICES ASSUME NEW t \in Sources, prev'[t] # {}
                 PROVE  \E e \in Devices : held'[e] = prev'[t] /\ SrcOf[e] = t
    BY DEF PrevHeld
  <2>2. CASE t = s
    BY <2>2, <1>4, <1>5 DEF s
  <2>3. CASE t # s
    <3>1. PICK e \in Devices : held[e] = prev[t] /\ SrcOf[e] = t
      BY <2>1, <2>3, <1>4 DEF PrevHeld, Inv, KeyInv
    <3>2. e # d
      BY <3>1, <2>3 DEF s
    <3>3. QED
      BY <3>1, <3>2, <2>3, <1>4, <1>5
  <2>4. QED
    BY <2>2, <2>3
<1>9. ASSUME NEW k \in NKeys, Owned(k) PROVE Owned(k)'
  <2>1. k # NoKey
    BY DEF NKeys
  <2>2. PICK t \in Sources :
          \/ k \in KeysOf(prev[t])
          \/ \E i \in DOMAIN pend[t] : pend[t][i] = [key |-> k, down |-> FALSE]
    BY <1>9 DEF Owned
  <2>3. CASE t # s
    BY <2>2, <2>3, <1>4 DEF Owned
  <2>4. CASE t = s
    <3>1. PICK u \in prev[s] : NKeyOf[u] = k
      BY <2>2, <2>4, <1>4 DEF KeysOf
    <3>2. CASE u \in now
      BY <3>1, <3>2, <2>1, <1>1, <1>4 DEF Owned, KeysOf
    <3>3. CASE u \notin now
      BY <3>1, <3>3, <2>1, <1>1, <1>3, <1>4 DEF Owned
    <3>4. QED
      BY <3>2, <3>3
  <2>5. QED
    BY <2>3, <2>4
<1>10. DownOwned'
  <2>1. \A k \in NKeys : (DownAfter(k)' <=> DownAfter(k)) /\ (Missed(k)' <=> Missed(k))
    BY <1>6 DEF DownAfter, LastDown, Queued, Missed
  <2>2. QED
    BY <2>1, <1>9 DEF DownOwned, Inv, KeyInv
<1>11. QED
  BY <1>7, <1>8, <1>10 DEF KeyInv

(* An event appended to the queue changes nothing for the other keys.      *)
LEMMA AppendQueued ==
  ASSUME s_kq \in Seq(Event), NEW e \in Event, s_kq' = Append(s_kq, e),
         NEW k \in NKeys, k # e.key
  PROVE  (Queued(k)' <=> Queued(k)) /\ (LastDown(k)' <=> LastDown(k))
<1>1. /\ Len(s_kq) \in Nat
      /\ DOMAIN s_kq = 1 .. Len(s_kq) /\ DOMAIN s_kq' = 1 .. Len(s_kq) + 1
      /\ \A i \in 1 .. Len(s_kq) : s_kq'[i] = s_kq[i]
      /\ s_kq'[Len(s_kq) + 1] = e
  OBVIOUS
<1>2. \A i \in DOMAIN s_kq : i \in DOMAIN s_kq' /\ s_kq'[i] = s_kq[i]
  BY <1>1
<1>3. \A i \in DOMAIN s_kq' : i \in DOMAIN s_kq \/ s_kq'[i].key # k
  BY <1>1
<1>4. Queued(k)' <=> Queued(k)
  BY <1>2, <1>3 DEF Queued
<1>5. ASSUME LastDown(k) PROVE LastDown(k)'
  <2>1. PICK i \in DOMAIN s_kq :
               /\ s_kq[i] = [key |-> k, down |-> TRUE]
               /\ \A j \in DOMAIN s_kq : j > i => s_kq[j].key # k
    BY <1>5 DEF LastDown
  <2>2. \A j \in DOMAIN s_kq' : j > i => s_kq'[j].key # k
    BY <1>2, <1>3, <2>1
  <2>3. QED
    BY <1>2, <2>1, <2>2 DEF LastDown
<1>6. ASSUME LastDown(k)' PROVE LastDown(k)
  <2>1. PICK i \in DOMAIN s_kq' :
               /\ s_kq'[i] = [key |-> k, down |-> TRUE]
               /\ \A j \in DOMAIN s_kq' : j > i => s_kq'[j].key # k
    BY <1>6 DEF LastDown
  <2>2. i \in DOMAIN s_kq /\ s_kq[i] = [key |-> k, down |-> TRUE]
    BY <1>2, <1>3, <2>1
  <2>3. QED
    BY <1>2, <2>1, <2>2 DEF LastDown
<1>7. QED
  BY <1>4, <1>5, <1>6

(* For its own key it is the last one. *)
LEMMA AppendLast ==
  ASSUME s_kq \in Seq(Event), NEW e \in Event, s_kq' = Append(s_kq, e)
  PROVE  Queued(e.key)' /\ (LastDown(e.key)' <=> e.down)
<1>1. /\ Len(s_kq) \in Nat /\ DOMAIN s_kq' = 1 .. Len(s_kq) + 1
      /\ s_kq'[Len(s_kq) + 1] = e
  OBVIOUS
<1>2. Len(s_kq) + 1 \in DOMAIN s_kq' /\ \A j \in DOMAIN s_kq' : ~(j > Len(s_kq) + 1)
  BY <1>1
<1>3. Queued(e.key)'
  BY <1>1, <1>2 DEF Queued
<1>4. ASSUME e.down PROVE LastDown(e.key)'
  <2>1. e = [key |-> e.key, down |-> TRUE]
    BY <1>4 DEF Event
  <2>2. QED
    BY <1>1, <1>2, <2>1 DEF LastDown
<1>5. ASSUME LastDown(e.key)' PROVE e.down
  <2>1. PICK i \in DOMAIN s_kq' :
               /\ s_kq'[i] = [key |-> e.key, down |-> TRUE]
               /\ \A j \in DOMAIN s_kq' : j > i => s_kq'[j].key # e.key
    BY <1>5 DEF LastDown
  <2>2. i = Len(s_kq) + 1
    BY <1>1, <1>2, <2>1
  <2>3. QED
    BY <1>1, <2>1, <2>2
<1>6. QED
  BY <1>3, <1>4, <1>5

(***************************************************************************)
(* kq_push() keeps it too: a press it queues is in the report it came      *)
(* from, and a release it queues leaves the key up.                        *)
(***************************************************************************)
LEMMA PushStep ==
  ASSUME Inv, NEW s \in Sources, Push(s)
  PROVE  KeyInv'
<1> DEFINE e == Head(pend[s])
<1>1. /\ pend[s] \in Seq(Request) /\ pend[s] # << >>
      /\ pend[s][1] = e /\ e \in Request
  BY DEF Push, Inv, TypeOK
<1>2. /\ pend'[s] = Tail(pend[s])
      /\ \A t \in Sources \ {s} : pend'[t] = pend[t]
  BY DEF Push, Inv, TypeOK
<1>3. \A i \in DOMAIN pend'[s] : i + 1 \in DOMAIN pend[s] /\ pend'[s][i] = pend[s][i + 1]
  BY <1>1, <1>2
<1>4. \A i \in DOMAIN pend[s] : i # 1 =>
        i - 1 \in DOMAIN pend'[s] /\ pend'[s][i - 1] = pend[s][i]
  BY <1>1, <1>2
<1>5. UNCHANGED <<prev, held, ref, ate>>
  BY DEF Push
<1>6. \/ e.key = NoKey /\ UNCHANGED <<s_kq, lost>>
      \/ e.key # NoKey /\ s_kq' = Append(s_kq, e) /\ lost' = lost \ {e.key}
      \/ e.key # NoKey /\ s_kq' = s_kq /\ lost' = lost \cup {e.key}
  BY DEF Push
<1>7. s_kq \in Seq(Event)
  BY DEF Inv, TypeOK
<1> HIDE DEF e
<1>8. DownBacked'
  <2>1. SUFFICES ASSUME NEW t \in Sources, NEW i \in DOMAIN pend'[t], pend'[t][i].down
                 PROVE  pend'[t][i].key \in KeysOf(prev[t]) \cup {NoKey}
    BY <1>5 DEF DownBacked, KeysOf
  <2>2. CASE t = s
    BY <2>1, <2>2, <1>3 DEF DownBacked, Inv, KeyInv
  <2>3. CASE t # s
    BY <2>1, <2>3, <1>2 DEF DownBacked, Inv, KeyInv
  <2>4. QED
    BY <2>2, <2>3
<1>9. PrevHeld'
  BY <1>5 DEF PrevHeld, Inv, KeyInv
<1>10. ASSUME NEW k \in NKeys, Owned(k), k # e.key PROVE Owned(k)'
  <2>1. PICK t \in Sources :
          \/ k \in KeysOf(prev[t])
          \/ \E i \in DOMAIN pend[t] : pend[t][i] = [key |-> k, down |-> FALSE]
    BY <1>10 DEF Owned
  <2>2. CASE k \in KeysOf(prev[t])
    BY <2>2, <1>5 DEF Owned
  <2>3. CASE t # s
    BY <2>1, <2>3, <1>2, <1>5 DEF Owned
  <2>4. CASE t = s /\ \E i \in DOMAIN pend[s] : pend[s][i] = [key |-> k, down |-> FALSE]
    <3>1. PICK i \in DOMAIN pend[s] : pend[s][i] = [key |-> k, down |-> FALSE]
      BY <2>4
    <3>2. i # 1
      BY <3>1, <1>1, <1>10
    <3>3. QED
      BY <3>1, <3>2, <1>4 DEF Owned
  <2>5. QED
    BY <2>1, <2>2, <2>3, <2>4
<1>11. CASE e.key = NoKey /\ UNCHANGED <<s_kq, lost>>
  <2>1. \A k \in NKeys : k # e.key
    BY <1>11 DEF NKeys
  <2>2. \A k \in NKeys : (DownAfter(k)' <=> DownAfter(k)) /\ (Missed(k)' <=> Missed(k))
    BY <1>5, <1>11 DEF DownAfter, LastDown, Queued, Missed
  <2>3. DownOwned'
    BY <2>1, <2>2, <1>10 DEF DownOwned, Inv, KeyInv
  <2>4. QED
    BY <2>3, <1>8, <1>9 DEF KeyInv
<1>12. CASE e.key # NoKey /\ s_kq' = s_kq /\ lost' = lost \cup {e.key}
  <2>1. \A k \in NKeys : k # e.key =>
          (DownAfter(k)' <=> DownAfter(k)) /\ (Missed(k)' <=> Missed(k))
    BY <1>5, <1>12 DEF DownAfter, LastDown, Queued, Missed
  <2>2. \A k \in NKeys : k = e.key => Missed(k)'
    BY <1>12 DEF Missed
  <2>3. DownOwned'
    BY <2>1, <2>2, <1>10 DEF DownOwned, Inv, KeyInv
  <2>4. QED
    BY <2>3, <1>8, <1>9 DEF KeyInv
<1>13. CASE e.key # NoKey /\ s_kq' = Append(s_kq, e) /\ lost' = lost \ {e.key}
  <2>1. e \in Event
    BY <1>1, <1>13 DEF Request, Event
  <2>3. ASSUME NEW k \in NKeys, k # e.key PROVE DownAfter(k)' => DownAfter(k)
    <3>1. Queued(k)' <=> Queued(k)
      BY <1>13, <1>7, <2>1, <2>3, AppendQueued
    <3>2. LastDown(k)' <=> LastDown(k)
      BY <1>13, <1>7, <2>1, <2>3, AppendQueued
    <3>3. QED
      BY <3>1, <3>2, <1>5 DEF DownAfter
  <2>4. ASSUME NEW k \in NKeys, k = e.key, e.down PROVE Owned(k)'
    <3>1. k \in KeysOf(prev[s])
      <4>1. 1 \in DOMAIN pend[s]
        BY <1>1
      <4>2. QED
        BY <4>1, <1>1, <1>13, <2>4 DEF DownBacked, Inv, KeyInv
    <3>2. QED
      BY <3>1, <1>5 DEF Owned
  <2>5. ASSUME NEW k \in NKeys, k = e.key, ~e.down PROVE ~DownAfter(k)'
    <3>1. Queued(k)' /\ ~LastDown(k)'
      BY <1>13, <1>7, <2>1, <2>5, AppendLast
    <3>2. QED
      BY <3>1 DEF DownAfter
  <2>6. DownOwned'
    <3>1. SUFFICES ASSUME NEW k \in NKeys, DownAfter(k)'
                   PROVE  Owned(k)' \/ Missed(k)'
      BY DEF DownOwned
    <3>2. CASE k = e.key
      BY <3>1, <3>2, <2>4, <2>5
    <3>3. CASE k # e.key
      <4>1. DownAfter(k)
        BY <3>1, <3>3, <2>3
      <4>2. Owned(k) \/ Missed(k)
        BY <4>1 DEF DownOwned, Inv, KeyInv
      <4>3. Missed(k) => Missed(k)'
        BY <1>5, <1>13, <1>7, <2>1, <3>3, AppendQueued DEF Missed
      <4>4. QED
        BY <3>3, <4>2, <4>3, <1>10
    <3>4. QED
      BY <3>2, <3>3
  <2>7. QED
    BY <2>6, <1>8, <1>9 DEF KeyInv
<1>14. QED
  BY <1>6, <1>11, <1>12, <1>13

(***************************************************************************)
(* A pop takes the first event away.  The loop carries it out, and nothing *)
(* changes for what the matrix will be; the menu does not, and the key has *)
(* missed it unless another event of the key is behind.                    *)
(***************************************************************************)
LEMMA PopKeeps ==
  ASSUME Inv, DrainPop \/ MenuPop, NEW k \in NKeys
  PROVE  Missed(k)' \/ (~Missed(k) /\ (DownAfter(k)' <=> DownAfter(k)))
<1> DEFINE e == Head(s_kq)
<1>1. /\ s_kq \in Seq(Event) /\ s_kq # << >>
      /\ s_kq' = Tail(s_kq) /\ e \in Event /\ s_kq[1] = e /\ lost' = lost
      /\ \/ ref' = (IF e.down THEN ref \cup {e.key} ELSE ref \ {e.key}) /\ ate' = ate \ {e.key}
         \/ ref' = ref /\ ate' = ate \cup {e.key}
  BY DEF DrainPop, MenuPop, Keystat, Inv, TypeOK
<1>2. /\ Len(s_kq) \in Nat \ {0}
      /\ DOMAIN s_kq = 1 .. Len(s_kq) /\ DOMAIN s_kq' = 1 .. Len(s_kq) - 1
      /\ \A i \in 1 .. Len(s_kq) - 1 : s_kq'[i] = s_kq[i + 1]
  BY <1>1
<1> HIDE DEF e
<1>3. \A i \in DOMAIN s_kq' : i \in Nat /\ i + 1 \in DOMAIN s_kq /\ s_kq'[i] = s_kq[i + 1] /\ i + 1 > 1
  BY <1>2
<1>4. \A j \in DOMAIN s_kq : j > 1 =>
        j \in Nat /\ j - 1 \in DOMAIN s_kq' /\ s_kq'[j - 1] = s_kq[j]
  <2>1. SUFFICES ASSUME NEW j \in DOMAIN s_kq, j > 1
                 PROVE  j \in Nat /\ j - 1 \in DOMAIN s_kq' /\ s_kq'[j - 1] = s_kq[j]
    OBVIOUS
  <2>2. j \in Nat /\ j - 1 \in 1 .. Len(s_kq) - 1 /\ (j - 1) + 1 = j
    BY <1>2, <2>1
  <2>3. QED
    BY <1>2, <2>2
<1>5. \A j \in DOMAIN s_kq : j = 1 \/ j > 1
  BY <1>2
\* What is behind the first event.
<1>6. Queued(k) <=> (e.key = k \/ Queued(k)')
  <2>1. 1 \in DOMAIN s_kq
    BY <1>2
  <2>2. Queued(k)' => Queued(k)
    BY <1>3 DEF Queued
  <2>3. Queued(k) => e.key = k \/ Queued(k)'
    BY <1>1, <1>4, <1>5 DEF Queued
  <2>4. QED
    BY <1>1, <2>1, <2>2, <2>3 DEF Queued
<1>7. LastDown(k)' => LastDown(k)
  <2>1. SUFFICES ASSUME LastDown(k)' PROVE LastDown(k)
    OBVIOUS
  <2>2. PICK i \in DOMAIN s_kq' :
             /\ s_kq'[i] = [key |-> k, down |-> TRUE]
             /\ \A j \in DOMAIN s_kq' : j > i => s_kq'[j].key # k
    BY <2>1 DEF LastDown
  <2>3. ASSUME NEW j \in DOMAIN s_kq, j > i + 1 PROVE s_kq[j].key # k
    <3>1. j > 1 /\ j - 1 > i
      BY <1>2, <1>3, <2>3
    <3>2. QED
      BY <1>4, <2>2, <3>1
  <2>4. QED
    BY <1>3, <2>2, <2>3 DEF LastDown
<1>8. LastDown(k) => LastDown(k)' \/ (e.key = k /\ e.down /\ ~Queued(k)')
  <2>1. SUFFICES ASSUME LastDown(k) PROVE LastDown(k)' \/ (e.key = k /\ e.down /\ ~Queued(k)')
    OBVIOUS
  <2>2. PICK i \in DOMAIN s_kq :
             /\ s_kq[i] = [key |-> k, down |-> TRUE]
             /\ \A j \in DOMAIN s_kq : j > i => s_kq[j].key # k
    BY <2>1 DEF LastDown
  <2>3. CASE i = 1
    <3>1. e.key = k /\ e.down
      BY <1>1, <2>2, <2>3
    <3>2. ~Queued(k)'
      BY <1>3, <2>2, <2>3 DEF Queued
    <3>3. QED
      BY <3>1, <3>2
  <2>4. CASE i > 1
    <3>1. ASSUME NEW j \in DOMAIN s_kq', j > i - 1 PROVE s_kq'[j].key # k
      <4>1. j + 1 > i
        BY <1>3, <1>4, <2>4, <3>1
      <4>2. QED
        BY <1>3, <2>2, <4>1
    <3>2. QED
      BY <1>4, <2>2, <2>4, <3>1 DEF LastDown
  <2>5. QED
    BY <1>5, <2>3, <2>4
<1>9. e.key = k /\ ~Queued(k)' => (LastDown(k) <=> e.down)
  <2>1. SUFFICES ASSUME e.key = k, ~Queued(k)', e.down PROVE LastDown(k)
    BY <1>8 DEF LastDown, Queued
  <2>2. e = [key |-> k, down |-> TRUE] /\ 1 \in DOMAIN s_kq
    BY <1>1, <1>2, <2>1 DEF Event
  <2>3. \A j \in DOMAIN s_kq : j > 1 => s_kq[j].key # k
    BY <1>4, <2>1 DEF Queued
  <2>4. QED
    BY <1>1, <2>2, <2>3 DEF LastDown
<1>10. LastDown(k) => Queued(k)
  BY DEF LastDown, Queued
<1>11. LastDown(k)' => Queued(k)'
  BY DEF LastDown, Queued
<1>12. SUFFICES ASSUME ~Missed(k)' PROVE ~Missed(k) /\ (DownAfter(k)' <=> DownAfter(k))
  OBVIOUS
<1>13. ~Missed(k)
  BY <1>1, <1>6, <1>12 DEF Missed
<1>14. CASE e.key # k
  <2>1. k \in ref' <=> k \in ref
    BY <1>1, <1>14
  <2>2. QED
    BY <1>6, <1>7, <1>8, <1>13, <1>14, <2>1 DEF DownAfter
<1>15. CASE e.key = k /\ Queued(k)'
  BY <1>6, <1>7, <1>8, <1>13, <1>15 DEF DownAfter
<1>16. CASE e.key = k /\ ~Queued(k)'
  <2>1. k \in ref' <=> e.down
    BY <1>1, <1>12, <1>16 DEF Missed
  <2>2. QED
    BY <1>6, <1>9, <1>11, <1>13, <1>16, <2>1 DEF DownAfter
<1>17. QED
  BY <1>14, <1>15, <1>16

LEMMA PopStep ==
  ASSUME Inv, DrainPop \/ MenuPop
  PROVE  KeyInv'
<1>1. UNCHANGED <<held, prev, pend>>
  BY DEF DrainPop, MenuPop
<1>2. DownBacked' /\ PrevHeld'
  BY <1>1 DEF DownBacked, PrevHeld, Inv, KeyInv
<1>3. \A k \in NKeys : Owned(k)' <=> Owned(k)
  BY <1>1 DEF Owned
<1>4. QED
  BY <1>2, <1>3, PopKeeps DEF DownOwned, Inv, KeyInv

LEMMA KeyStep == Inv /\ [Next]_vars => KeyInv'
<1> SUFFICES ASSUME Inv, [Next]_vars PROVE KeyInv'
  OBVIOUS
<1>1. ASSUME NEW d \in Devices, KeyReport(d) PROVE KeyInv'
  BY <1>1, ReportStep DEF KeyReport
<1>2. ASSUME NEW d \in Devices, Unplug(d) PROVE KeyInv'
  <2>1. Report(d, {}) /\ {} \in SUBSET (Mods \cup Keys)
    BY <1>2 DEF Unplug
  <2>2. QED
    BY <2>1, ReportStep
<1>3. ASSUME NEW s \in Sources, Push(s) PROVE KeyInv'
  BY <1>3, PushStep
<1>4. CASE DrainPop
  BY <1>4, PopStep
<1>5. CASE MenuPop
  BY <1>5, PopStep
<1>6. CASE UNCHANGED <<held, prev, pend, s_kq, ref, lost, ate>>
  BY <1>6 DEF Inv, KeyInv, DownBacked, PrevHeld, DownOwned, DownAfter, LastDown, Queued,
              Missed, Owned
<1>7. ASSUME NEW d \in Devices, Plug(d) PROVE KeyInv'
  BY <1>6, <1>7 DEF Plug
<1>8. CASE LoopTop
  BY <1>6, <1>8 DEF LoopTop
<1>9. CASE DrainEnd
  BY <1>6, <1>9 DEF DrainEnd
<1>10. CASE UNCHANGED vars
  BY <1>6, <1>10 DEF vars
<1>11. QED
  BY <1>1, <1>2, <1>3, <1>4, <1>5, <1>7, <1>8, <1>9, <1>10 DEF Next

(***************************************************************************)
(* Once nothing is in flight, a key that is down and that no keyboard      *)
(* holds is one whose last event was dropped or went to the menu; no other *)
(* key, and no later: unplugging and reports of two transports in any      *)
(* order included.                                                         *)
(***************************************************************************)
THEOREM NoStuckKeyHolds == Spec => []NoStuckKey
<1>1. Init => Inv
  BY TypeInit, KeyInit DEF Inv
<1>2. Inv /\ [Next]_vars => Inv'
  BY TypeStep, KeyStep DEF Inv
<1>3. Inv => NoStuckKey
  <2>1. SUFFICES ASSUME Inv, Quiet, NEW k \in ref \ (lost \cup ate) PROVE k \in HeldKeys
    BY DEF NoStuckKey
  <2>2. k \in NKeys /\ DownAfter(k) /\ ~Missed(k)
    BY <2>1 DEF Inv, TypeOK, DownAfter, Queued, Missed, Quiet
  <2>3. PICK s \in Sources : k \in KeysOf(prev[s])
    <3>1. Owned(k)
      BY <2>1, <2>2 DEF Inv, KeyInv, DownOwned
    <3>2. \A s \in Sources : DOMAIN pend[s] = {}
      BY <2>1 DEF Quiet
    <3>3. QED
      BY <3>1, <3>2 DEF Owned
  <2>4. PICK d \in Devices : held[d] = prev[s]
    BY <2>1, <2>3 DEF Inv, KeyInv, PrevHeld, KeysOf
  <2>5. QED
    BY <2>3, <2>4 DEF HeldKeys, KeysOf
<1>4. QED
  BY <1>1, <1>2, <1>3, PTL DEF Spec

-----------------------------------------------------------------------------
(***************************************************************************)
(* The other half: a key that is held is down.                             *)
(***************************************************************************)

(* The key is down, or will be: its press is still to be pushed, with no   *)
(* release behind it, or the queue leaves it down, or has missed something. *)
Press(k) == [key |-> k, down |-> TRUE]
Release(k) == [key |-> k, down |-> FALSE]

Comes(s, k) ==
  \/ /\ \E i \in DOMAIN pend[s] : pend[s][i] = Press(k)
     /\ \A i, j \in DOMAIN pend[s] :
          i < j /\ pend[s][i] = Press(k) => pend[s][j] # Release(k)
  \/ ~InFlight(s, k) /\ (DownAfter(k) \/ Missed(k))

(* One keyboard and usage for each key.                                    *)
Single(h) ==
  \A d, e \in Devices : \A u \in h[d], v \in h[e] :
    NKeyOf[u] = NKeyOf[v] /\ NKeyOf[u] # NoKey => d = e /\ u = v

(* Without a clash every keyboard's keys are those its transport knows;    *)
(* their presses come; and no other transport has an event for them.       *)
HeldInv ==
  ~clash =>
    /\ Single(held)
    /\ \A d \in Devices : held[d] # {} => prev[SrcOf[d]] = held[d]
    /\ \A s \in Sources : \A k \in KeysOf(prev[s]) :
         /\ Comes(s, k)
         /\ \A t \in Sources \ {s} : ~InFlight(t, k)

LEMMA SingleIs ==
  ASSUME NEW h \in [Devices -> SUBSET (Mods \cup Keys)],
         \A k \in NKeys : ~(Cardinality(HeldBy(h, k)) > 1)
  PROVE  Single(h)
<1> SUFFICES ASSUME NEW d \in Devices, NEW e \in Devices, NEW u \in h[d], NEW v \in h[e],
                    NKeyOf[u] = NKeyOf[v], NKeyOf[u] # NoKey, <<d, u>> # <<e, v>>
             PROVE  FALSE
  BY DEF Single
<1> DEFINE S == HeldBy(h, NKeyOf[u])
<1>1. u \in Mods \cup Keys /\ v \in Mods \cup Keys
  OBVIOUS
<1>2. NKeyOf[u] \in NKeys
  BY <1>1 DEF NKeys
<1>3. <<d, u>> \in S /\ <<e, v>> \in S
  BY <1>1 DEF HeldBy
<1>4. IsFiniteSet(S) /\ Cardinality(S) \in Nat
  <2>1. IsFiniteSet(Devices \X (Mods \cup Keys))
    BY HidAssumption, FS_Product
  <2>2. S \in SUBSET (Devices \X (Mods \cup Keys))
    BY DEF HeldBy
  <2> QED  BY <2>1, <2>2, FS_Subset, FS_CardinalityType
<1>5. Cardinality({<<d, u>>, <<e, v>>}) = 2
  <2>1. IsFiniteSet({<<d, u>>}) /\ Cardinality({<<d, u>>}) = 1 /\ <<e, v>> \notin {<<d, u>>}
    BY FS_Singleton
  <2>2. Cardinality({<<d, u>>} \cup {<<e, v>>}) = 1 + 1
    BY <2>1, FS_AddElement
  <2>3. {<<d, u>>} \cup {<<e, v>>} = {<<d, u>>, <<e, v>>}
    OBVIOUS
  <2> QED  BY <2>2, <2>3
<1> HIDE DEF S
<1>6. Cardinality({<<d, u>>, <<e, v>>}) <= Cardinality(S)
  <2>1. {<<d, u>>, <<e, v>>} \in SUBSET S
    BY <1>3
  <2> QED  BY <1>4, <2>1, FS_Subset
<1>7. ~(Cardinality(S) > 1)
  BY <1>2 DEF S
<1> QED  BY <1>4, <1>5, <1>6, <1>7

(* What a report pushes is what it changes, in the order of the ranks.     *)
LEMMA EventsOfReport ==
  ASSUME NEW was \in SUBSET (Mods \cup Keys), NEW now \in SUBSET (Mods \cup Keys),
         NEW events \in EventSeqs(was, now)
  PROVE  /\ \A i \in DOMAIN events : \E u \in Changed(was, now) : events[i] = EventOf(u, now)
         /\ \A u \in Changed(was, now) : \E i \in DOMAIN events : events[i] = EventOf(u, now)
         /\ \A i, j \in DOMAIN events : i < j =>
              \E u, v \in Changed(was, now) :
                /\ events[i] = EventOf(u, now) /\ events[j] = EventOf(v, now)
                /\ Rank(u, now) <= Rank(v, now)
<1> DEFINE C == Changed(was, now)
<1>1. PICK order \in Orders(was, now) :
        events = [i \in DOMAIN order |-> EventOf(order[i], now)]
  BY DEF EventSeqs
<1>2. /\ order \in [1 .. Cardinality(C) -> C]
      /\ \A u \in C : \E i \in DOMAIN order : order[i] = u
      /\ \A i, j \in DOMAIN order : i < j => Rank(order[i], now) <= Rank(order[j], now)
  BY DEF Orders
<1> HIDE DEF C
<1>3. /\ DOMAIN events = DOMAIN order
      /\ \A i \in DOMAIN order : order[i] \in C /\ events[i] = EventOf(order[i], now)
  BY <1>1, <1>2
<1>4. \A i \in DOMAIN events : \E u \in C : events[i] = EventOf(u, now)
  BY <1>3
<1>5. \A u \in C : \E i \in DOMAIN events : events[i] = EventOf(u, now)
  BY <1>2, <1>3
<1>6. \A i, j \in DOMAIN events : i < j =>
        \E u, v \in C :
          /\ events[i] = EventOf(u, now) /\ events[j] = EventOf(v, now)
          /\ Rank(u, now) <= Rank(v, now)
  BY <1>2, <1>3
<1> QED  BY <1>4, <1>5, <1>6 DEF C

(* A usage that goes down and one that goes up are never of equal rank.    *)
LEMMA RankDiffers ==
  ASSUME NEW now \in SUBSET (Mods \cup Keys), NEW u \in now,
         NEW v \in (Mods \cup Keys) \ now
  PROVE  Rank(u, now) \in Nat /\ Rank(v, now) \in Nat /\ Rank(u, now) # Rank(v, now)
<1> DEFINE At(w) == CHOOSE i \in DOMAIN ModTable : ModTable[i] = w
<1>1. Len(ModTable) \in Nat /\ DOMAIN ModTable = 1 .. Len(ModTable)
  BY HidAssumption
<1>2. ASSUME NEW w \in Mods PROVE At(w) \in 1 .. Len(ModTable) /\ ModTable[At(w)] = w
  BY <1>1 DEF Mods
<1>3. Rank(u, now) = IF u \in Mods THEN At(u) ELSE Len(ModTable) + 2
  BY DEF Rank
<1>4. Rank(v, now) = IF v \in Mods THEN At(v) ELSE Len(ModTable) + 1
  BY DEF Rank
<1> HIDE DEF At
<1>5. u # v
  OBVIOUS
<1> QED  BY <1>1, <1>2, <1>3, <1>4, <1>5

(* Who holds a key, by what the transports know. *)
LEMMA HolderOf ==
  ASSUME Inv, NEW s \in Sources, NEW k \in KeysOf(prev[s])
  PROVE  /\ \E e \in Devices : SrcOf[e] = s /\ held[e] = prev[s]
         /\ k \in NKeys /\ k # NoKey
         /\ \E w \in prev[s] : w \in Mods \cup Keys /\ NKeyOf[w] = k
<1>1. prev[s] \in SUBSET (Mods \cup Keys) /\ prev[s] # {}
  BY DEF Inv, TypeOK, KeysOf
<1>2. \E e \in Devices : SrcOf[e] = s /\ held[e] = prev[s]
  BY <1>1 DEF Inv, KeyInv, PrevHeld
<1>3. k # NoKey /\ \E w \in prev[s] : w \in Mods \cup Keys /\ NKeyOf[w] = k
  BY <1>1 DEF KeysOf
<1>4. k \in NKeys
  BY <1>3 DEF NKeys
<1> QED  BY <1>2, <1>3, <1>4

(***************************************************************************)
(* A report without a clash: the keys it holds come, and nobody else has   *)
(* an event for them.                                                      *)
(***************************************************************************)
LEMMA ReportHeld ==
  ASSUME Inv, HeldInv, NEW d \in Devices, NEW now \in SUBSET (Mods \cup Keys), Report(d, now)
  PROVE  HeldInv'
<1> SUFFICES ASSUME ~clash'
             PROVE  /\ Single(held')
                    /\ \A e \in Devices : held'[e] # {} => prev'[SrcOf[e]] = held'[e]
                    /\ \A t \in Sources : \A k \in KeysOf(prev'[t]) :
                         /\ Comes(t, k)'
                         /\ \A r \in Sources \ {t} : ~InFlight(r, k)'
  BY DEF HeldInv, Single, KeysOf
<1> DEFINE s == SrcOf[d]
           was == prev[s]
<1>1. s \in Sources /\ was \in SUBSET (Mods \cup Keys) /\ held \in [Devices -> SUBSET (Mods \cup Keys)]
  BY HidAssumption DEF Inv, TypeOK
<1>2. PICK events \in EventSeqs(was, now) : pend' = [pend EXCEPT ![s] = events]
  BY DEF Report
<1>3. /\ \A i \in DOMAIN events : \E u \in Changed(was, now) : events[i] = EventOf(u, now)
      /\ \A u \in Changed(was, now) : \E i \in DOMAIN events : events[i] = EventOf(u, now)
      /\ \A i, j \in DOMAIN events : i < j =>
           \E u, v \in Changed(was, now) :
             /\ events[i] = EventOf(u, now) /\ events[j] = EventOf(v, now)
             /\ Rank(u, now) <= Rank(v, now)
  BY <1>1, EventsOfReport
<1>4. /\ pend'[s] = events /\ prev'[s] = now
      /\ \A t \in Sources \ {s} : pend'[t] = pend[t] /\ prev'[t] = prev[t]
      /\ pend[s] = << >>
  BY <1>1, <1>2 DEF Report, Inv, TypeOK
<1>5. /\ held' = [held EXCEPT ![d] = now] /\ held'[d] = now
      /\ \A e \in Devices \ {d} : held'[e] = held[e]
      /\ held' \in [Devices -> SUBSET (Mods \cup Keys)]
  BY DEF Report, Inv, TypeOK
<1>6. UNCHANGED <<s_kq, ref, lost, ate>>
  BY DEF Report
<1>7. /\ ~clash
      /\ \A k \in NKeys : ~(Cardinality(HeldBy(held', k)) > 1)
      /\ \A e \in Devices \ {d} : SrcOf[e] = s => held'[e] = {}
      /\ ~Handover(was, now)
      /\ \A k \in KeysOf(was \cup now), t \in Sources \ {s} : ~InFlight(t, k)
  BY <1>5 DEF Report
<1>8. /\ Single(held)
      /\ \A e \in Devices : held[e] # {} => prev[SrcOf[e]] = held[e]
      /\ \A t \in Sources : \A k \in KeysOf(prev[t]) :
           Comes(t, k) /\ \A r \in Sources \ {t} : ~InFlight(r, k)
  BY <1>6, <1>7 DEF HeldInv
<1>9. Single(held')
  BY <1>5, <1>7, SingleIs
<1> HIDE DEF s, was
<1>10. ASSUME NEW e \in Devices, held'[e] # {} PROVE prev'[SrcOf[e]] = held'[e]
  <2>1. CASE e = d
    BY <1>4, <1>5, <2>1 DEF s
  <2>2. CASE e # d
    <3>1. SrcOf[e] # s /\ SrcOf[e] \in Sources
      BY <1>7, <1>10, <2>2, HidAssumption
    <3> QED  BY <1>4, <1>5, <1>8, <1>10, <2>2, <3>1
  <2> QED  BY <2>1, <2>2
<1>11. \A u \in Changed(was, now) : u \in Mods \cup Keys /\ (u \in was \ now \/ u \in now \ was)
  BY <1>1 DEF Changed
<1>12. \A w \in Mods \cup Keys : EventOf(w, now) = [key |-> NKeyOf[w], down |-> w \in now]
  BY DEF EventOf
<1>13. \A t \in Sources, k \in NKeys : t # s => (InFlight(t, k)' <=> InFlight(t, k))
  BY <1>4 DEF InFlight
<1>14. \A k \in NKeys : (DownAfter(k)' <=> DownAfter(k)) /\ (Missed(k)' <=> Missed(k))
  BY <1>6 DEF DownAfter, LastDown, Queued, Missed
<1>15. \A k \in NKeys : InFlight(s, k)' =>
         \E u \in Changed(was, now) : NKeyOf[u] = k
  BY <1>3, <1>4, <1>11, <1>12 DEF InFlight
\* The keys of the report.
<1>16. ASSUME NEW k \in KeysOf(now) PROVE Comes(s, k)'
  <2>1. k # NoKey /\ k \in NKeys
    BY DEF KeysOf, NKeys
  <2>2. PICK u \in now : NKeyOf[u] = k
    BY DEF KeysOf
  <2>3. \A v \in now : NKeyOf[v] = k => v = u
    BY <1>5, <1>9, <2>1, <2>2 DEF Single
  <2>4. CASE u \in now \ was
    <3>1. u \in Changed(was, now)
      BY <2>1, <2>2, <2>4 DEF Changed
    <3>2. EventOf(u, now) = Press(k)
      BY <1>1, <1>12, <2>2 DEF Press
    <3>3. \E i \in DOMAIN events : events[i] = Press(k)
      BY <1>3, <3>1, <3>2
    <3>4. ASSUME NEW i \in DOMAIN events, NEW j \in DOMAIN events, i < j,
                 events[i] = Press(k), events[j] = Release(k)
          PROVE  FALSE
      <4>1. PICK x \in Changed(was, now), y \in Changed(was, now) :
              /\ events[i] = EventOf(x, now) /\ events[j] = EventOf(y, now)
              /\ Rank(x, now) <= Rank(y, now)
        BY <1>3, <3>4
      <4>2. NKeyOf[x] = k /\ x \in now /\ NKeyOf[y] = k /\ y \notin now
        <5>1. EventOf(x, now) = Press(k) /\ EventOf(y, now) = Release(k)
          BY <3>4, <4>1
        <5>2. EventOf(x, now).key = k /\ EventOf(x, now).down
          BY <5>1 DEF Press
        <5>3. EventOf(y, now).key = k /\ ~EventOf(y, now).down
          BY <5>1 DEF Release
        <5> QED  BY <5>2, <5>3 DEF EventOf
      <4>3. x = u /\ y \in was \ now /\ y \in Mods \cup Keys
        BY <1>11, <2>3, <4>2
      <4>4. ~(Rank(u, now) < Rank(y, now))
        BY <1>7, <2>1, <2>2, <2>4, <4>2, <4>3 DEF Handover
      <4>5. Rank(u, now) \in Nat /\ Rank(y, now) \in Nat /\ Rank(u, now) # Rank(y, now)
        BY <4>3, RankDiffers
      <4> QED  BY <4>1, <4>3, <4>4, <4>5
    <3> QED  BY <1>4, <3>3, <3>4 DEF Comes
  <2>5. CASE u \in was
    <3>1. k \in KeysOf(was)
      BY <2>1, <2>2, <2>5 DEF KeysOf
    <3>2. DownAfter(k) \/ Missed(k)
      <4>1. Comes(s, k)
        BY <1>1, <1>8, <3>1 DEF was
      <4>2. DOMAIN pend[s] = {}
        BY <1>4
      <4> QED  BY <4>1, <4>2 DEF Comes
    <3>3. ASSUME NEW v \in Changed(was, now), NKeyOf[v] = k PROVE FALSE
      <4>1. v # u
        BY <1>11, <2>2, <2>5
      <4>2. v \in was /\ v \notin now
        BY <1>11, <2>3, <3>3, <4>1
      <4>3. PICK e \in Devices : held[e] = was
        BY <1>1, <3>1, HolderOf DEF was
      <4> QED  BY <1>8, <2>1, <2>2, <2>5, <3>3, <4>1, <4>2, <4>3 DEF Single
    <3>4. ~InFlight(s, k)'
      BY <1>15, <2>1, <3>3
    <3> QED  BY <1>14, <2>1, <3>2, <3>4 DEF Comes
  <2> QED  BY <2>4, <2>5
<1>17. ASSUME NEW k \in KeysOf(now), NEW r \in Sources \ {s} PROVE ~InFlight(r, k)'
  <2>1. k \in KeysOf(was \cup now) /\ k \in NKeys
    BY DEF KeysOf, NKeys
  <2> QED  BY <1>7, <1>13, <2>1
\* The keys of the other transports.
<1>18. ASSUME NEW t \in Sources \ {s}, NEW k \in KeysOf(prev[t])
       PROVE  Comes(t, k)' /\ \A r \in Sources \ {t} : ~InFlight(r, k)'
  <2>1. k \in NKeys /\ k # NoKey /\ Comes(t, k) /\ \A r \in Sources \ {t} : ~InFlight(r, k)
    BY <1>8, HolderOf
  <2>2. Comes(t, k)'
    BY <1>4, <1>13, <1>14, <2>1 DEF Comes
  <2>3. ~InFlight(s, k)'
    <3> SUFFICES ASSUME NEW u \in Changed(was, now), NKeyOf[u] = k PROVE FALSE
      BY <1>15, <2>1
    <3>1. PICK e \in Devices : SrcOf[e] = t /\ held[e] = prev[t]
      BY HolderOf
    <3>2. PICK w \in prev[t] : NKeyOf[w] = k
      BY HolderOf
    <3>3. e # d /\ held'[e] = prev[t]
      BY <1>5, <3>1 DEF s
    <3>4. CASE u \in now
      BY <1>5, <1>9, <2>1, <3>2, <3>3, <3>4 DEF Single
    <3>5. CASE u \in was
      <4>1. k \in KeysOf(prev[s])
        BY <2>1, <3>5 DEF KeysOf, was
      <4>2. PICK a \in Devices : SrcOf[a] = s /\ held[a] = was
        BY <1>1, <4>1, HolderOf DEF was
      <4> QED  BY <1>8, <2>1, <3>1, <3>2, <3>5, <4>2 DEF Single
    <3> QED  BY <1>11, <3>4, <3>5
  <2>4. ASSUME NEW r \in Sources \ {t} PROVE ~InFlight(r, k)'
    BY <1>13, <2>1, <2>3
  <2> QED  BY <2>2, <2>4
<1>19. ASSUME NEW t \in Sources, NEW k \in KeysOf(prev'[t])
       PROVE  Comes(t, k)' /\ \A r \in Sources \ {t} : ~InFlight(r, k)'
  BY <1>4, <1>16, <1>17, <1>18, <1>19
<1> QED  BY <1>9, <1>10, <1>19

(* A press or release is queued: of a key of this transport only. *)
LEMMA PushHeld ==
  ASSUME Inv, HeldInv, NEW s \in Sources, Push(s)
  PROVE  HeldInv'
<1> SUFFICES ASSUME ~clash' PROVE HeldInv'
  BY DEF HeldInv
<1> DEFINE e == Head(pend[s])
<1>1. /\ pend[s] \in Seq(Request) /\ pend[s] # << >>
      /\ pend[s][1] = e /\ e \in Request /\ 1 \in DOMAIN pend[s]
  BY DEF Push, Inv, TypeOK
<1>2. /\ pend'[s] = Tail(pend[s])
      /\ \A t \in Sources \ {s} : pend'[t] = pend[t]
  BY DEF Push, Inv, TypeOK
<1>3. \A i \in DOMAIN pend'[s] :
        i \in Nat /\ i + 1 \in DOMAIN pend[s] /\ pend'[s][i] = pend[s][i + 1]
  BY <1>1, <1>2
<1>4. \A i \in DOMAIN pend[s] : i # 1 =>
        i - 1 \in DOMAIN pend'[s] /\ pend'[s][i - 1] = pend[s][i] /\ 1 < i
  BY <1>1, <1>2
<1>5. UNCHANGED <<prev, held, ref, ate, clash>> /\ s_kq \in Seq(Event)
  BY DEF Push, Inv, TypeOK
<1>6. \/ e.key = NoKey /\ UNCHANGED <<s_kq, lost>>
      \/ e.key # NoKey /\ s_kq' = Append(s_kq, e) /\ lost' = lost \ {e.key}
      \/ e.key # NoKey /\ s_kq' = s_kq /\ lost' = lost \cup {e.key}
  BY DEF Push
<1> HIDE DEF e
<1>7. /\ Single(held)
      /\ \A d \in Devices : held[d] # {} => prev[SrcOf[d]] = held[d]
      /\ \A t \in Sources : \A k \in KeysOf(prev[t]) :
           Comes(t, k) /\ \A r \in Sources \ {t} : ~InFlight(r, k)
  BY <1>5 DEF HeldInv
\* What is queued: nothing for the key, or its new last event.
<1>8. ASSUME NEW k \in NKeys, k # e.key, DownAfter(k) \/ Missed(k)
      PROVE  DownAfter(k)' \/ Missed(k)'
  <2>1. CASE s_kq' = s_kq
    BY <1>5, <1>6, <1>8, <2>1 DEF DownAfter, LastDown, Queued, Missed
  <2>2. CASE e.key # NoKey /\ s_kq' = Append(s_kq, e) /\ lost' = lost \ {e.key}
    <3>1. e \in Event
      BY <1>1, <2>2 DEF Request, Event
    <3>2. (Queued(k)' <=> Queued(k)) /\ (LastDown(k)' <=> LastDown(k))
      BY <1>5, <1>8, <2>2, <3>1, AppendQueued
    <3> QED  BY <1>5, <1>8, <2>2, <3>2 DEF DownAfter, Missed
  <2> QED  BY <1>6, <2>1, <2>2
<1>9. ASSUME NEW k \in NKeys, e = Press(k) PROVE DownAfter(k)' \/ Missed(k)'
  <2>1. e.key = k /\ e.down /\ e \in Event /\ k # NoKey
    BY <1>1, <1>9 DEF Press, Event, NKeys
  <2>2. CASE s_kq' = Append(s_kq, e)
    BY <1>5, <2>1, <2>2, AppendLast DEF DownAfter
  <2>3. CASE k \in lost'
    BY <2>3 DEF Missed
  <2> QED  BY <1>6, <2>1, <2>2, <2>3
<1>10. ASSUME NEW t \in Sources, NEW k \in NKeys, ~InFlight(t, k) PROVE ~InFlight(t, k)'
  BY <1>2, <1>3, <1>10 DEF InFlight
<1>11. ASSUME NEW t \in Sources, NEW k \in KeysOf(prev[t])
       PROVE  Comes(t, k)' /\ \A r \in Sources \ {t} : ~InFlight(r, k)'
  <2>1. k \in NKeys /\ k # NoKey /\ Comes(t, k) /\ \A r \in Sources \ {t} : ~InFlight(r, k)
    BY <1>7, HolderOf
  <2>2. \A r \in Sources \ {t} : ~InFlight(r, k)'
    BY <1>10, <2>1
  <2>3. CASE t # s
    <3>1. k # e.key
      BY <1>1, <2>1, <2>3 DEF InFlight
    <3>2. /\ pend'[t] = pend[t]
          /\ DownAfter(k) \/ Missed(k) => DownAfter(k)' \/ Missed(k)'
      BY <1>2, <1>8, <2>1, <2>3, <3>1
    <3>3. Comes(t, k)'
      BY <1>10, <2>1, <3>2 DEF Comes
    <3> QED  BY <2>2, <3>3
  <2>4. CASE t = s
    <3>1. CASE ~InFlight(s, k) /\ (DownAfter(k) \/ Missed(k))
      <4>1. k # e.key
        BY <1>1, <3>1 DEF InFlight
      <4>2. ~InFlight(s, k)' /\ (DownAfter(k)' \/ Missed(k)')
        BY <1>8, <1>10, <2>1, <3>1, <4>1
      <4> QED  BY <2>2, <2>4, <4>2 DEF Comes
    <3>2. CASE /\ \E i \in DOMAIN pend[s] : pend[s][i] = Press(k)
               /\ \A i, j \in DOMAIN pend[s] :
                    i < j /\ pend[s][i] = Press(k) => pend[s][j] # Release(k)
      <4>1. \A i, j \in DOMAIN pend'[s] :
              i < j /\ pend'[s][i] = Press(k) => pend'[s][j] # Release(k)
        <5> SUFFICES ASSUME NEW i \in DOMAIN pend'[s], NEW j \in DOMAIN pend'[s],
                            i < j, pend'[s][i] = Press(k)
                     PROVE  pend'[s][j] # Release(k)
          OBVIOUS
        <5>1. i + 1 < j + 1
          BY <1>3
        <5> QED  BY <1>3, <3>2, <5>1
      <4>2. CASE \E i \in DOMAIN pend'[s] : pend'[s][i] = Press(k)
        BY <2>2, <2>4, <4>1, <4>2 DEF Comes
      <4>3. CASE ~ \E i \in DOMAIN pend'[s] : pend'[s][i] = Press(k)
        <5>1. e = Press(k)
          BY <1>1, <1>4, <3>2, <4>3
        <5>2. ~InFlight(s, k)'
          <6> SUFFICES ASSUME NEW i \in DOMAIN pend'[s], pend'[s][i].key = k PROVE FALSE
            BY DEF InFlight
          <6>1. i + 1 \in DOMAIN pend[s] /\ pend'[s][i] = pend[s][i + 1] /\ 1 < i + 1
            <7>1. i \in 1 .. Len(pend'[s]) /\ Len(pend'[s]) \in Nat
              BY <1>1, <1>2
            <7> QED  BY <1>3, <7>1
          <6>2. pend[s][i + 1] # Release(k)
            BY <1>1, <3>2, <5>1, <6>1
          <6>3. pend'[s][i] \in Request
            BY <1>1, <6>1
          <6>4. pend'[s][i] = Press(k) \/ pend'[s][i] = Release(k)
            BY <6>3 DEF Press, Release, Request
          <6> QED  BY <4>3, <6>1, <6>2, <6>4
        <5>3. DownAfter(k)' \/ Missed(k)'
          BY <1>9, <2>1, <5>1
        <5> QED  BY <2>2, <2>4, <5>2, <5>3 DEF Comes
      <4> QED  BY <4>2, <4>3
    <3> QED  BY <2>1, <2>4, <3>1, <3>2 DEF Comes
  <2> QED  BY <2>3, <2>4
<1> QED  BY <1>5, <1>7, <1>11 DEF HeldInv, Single, KeysOf

LEMMA HeldInit == Init => HeldInv
<1> SUFFICES ASSUME Init PROVE HeldInv
  OBVIOUS
<1>1. Single(held)
  BY DEF Init, Single
<1>2. \A s \in Sources : KeysOf(prev[s]) = {}
  BY DEF Init, KeysOf
<1>3. \A d \in Devices : held[d] = {}
  BY DEF Init
<1> QED  BY <1>1, <1>2, <1>3 DEF HeldInv

LEMMA HeldStep == Inv /\ HeldInv /\ [Next]_vars => HeldInv'
<1> SUFFICES ASSUME Inv, HeldInv, [Next]_vars PROVE HeldInv'
  OBVIOUS
<1>1. ASSUME NEW d \in Devices, KeyReport(d) PROVE HeldInv'
  BY <1>1, ReportHeld DEF KeyReport
<1>2. ASSUME NEW d \in Devices, Unplug(d) PROVE HeldInv'
  <2>1. Report(d, {}) /\ {} \in SUBSET (Mods \cup Keys)
    BY <1>2 DEF Unplug
  <2> QED  BY <2>1, ReportHeld
<1>3. ASSUME NEW s \in Sources, Push(s) PROVE HeldInv'
  BY <1>3, PushHeld
<1>4. CASE DrainPop \/ MenuPop
  <2>1. UNCHANGED <<held, prev, pend, clash>>
    BY <1>4 DEF DrainPop, MenuPop
  <2>2. \A s \in Sources : \A k \in KeysOf(prev[s]) : k \in NKeys
    BY HolderOf
  <2>3. \A k \in NKeys : DownAfter(k) \/ Missed(k) => DownAfter(k)' \/ Missed(k)'
    BY <1>4, PopKeeps
  <2>4. \A s \in Sources, k \in NKeys : Comes(s, k) => Comes(s, k)'
    BY <2>1, <2>3 DEF Comes, InFlight
  <2> QED  BY <2>1, <2>2, <2>4 DEF HeldInv, Single, KeysOf, InFlight
<1>6. CASE UNCHANGED <<held, prev, pend, s_kq, ref, lost, ate, clash>>
  BY <1>6 DEF HeldInv, Single, KeysOf, InFlight, Comes, DownAfter, LastDown, Queued, Missed
<1>7. ASSUME NEW d \in Devices, Plug(d) PROVE HeldInv'
  BY <1>6, <1>7 DEF Plug
<1>8. CASE LoopTop
  BY <1>6, <1>8 DEF LoopTop
<1>9. CASE DrainEnd
  BY <1>6, <1>9 DEF DrainEnd
<1>10. CASE UNCHANGED vars
  BY <1>6, <1>10 DEF vars
<1> QED  BY <1>1, <1>2, <1>3, <1>4, <1>7, <1>8, <1>9, <1>10 DEF Next

(***************************************************************************)
(* Once nothing is in flight, every key that some keyboard holds is down   *)
(* in the matrix, unless its last event was dropped or went to the menu,   *)
(* or two holders got into each other's way.                               *)
(***************************************************************************)
THEOREM HeldKeysDownHolds == Spec => []HeldKeysDown
<1>1. Init => Inv
  BY TypeInit, KeyInit DEF Inv
<1>2. Inv /\ [Next]_vars => Inv'
  BY TypeStep, KeyStep DEF Inv
<1>3. Inv /\ HeldInv => HeldKeysDown
  <2> SUFFICES ASSUME Inv, HeldInv, Quiet, ~clash, NEW k \in HeldKeys \ (lost \cup ate)
               PROVE  k \in ref
    BY DEF HeldKeysDown
  <2>1. PICK d \in Devices : \E u \in held[d] : NKeyOf[u] = k /\ k # NoKey
    BY DEF HeldKeys, KeysOf
  <2>2. SrcOf[d] \in Sources /\ k \in KeysOf(prev[SrcOf[d]])
    BY <2>1, HidAssumption DEF HeldInv, KeysOf
  <2>3. Comes(SrcOf[d], k)
    BY <2>2 DEF HeldInv
  <2>4. DownAfter(k)
    <3>1. DOMAIN pend[SrcOf[d]] = {}
      BY <2>2 DEF Quiet
    <3> QED  BY <2>3, <3>1 DEF Comes, Missed
  <2>5. DOMAIN s_kq = {}
    BY DEF Quiet
  <2> QED  BY <2>4, <2>5 DEF DownAfter, LastDown
<1> QED  BY <1>1, <1>2, <1>3, HeldInit, HeldStep, PTL DEF Spec
=============================================================================

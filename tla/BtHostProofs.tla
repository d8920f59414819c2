----------------------------- MODULE BtHostProofs -----------------------------
(***************************************************************************)
(* For any peripherals and any size of the table: once the events of       *)
(* esp_hidh are through, the table is the links; and the radio is silent   *)
(* while the worker sleeps or connects.                                    *)
(***************************************************************************)
EXTENDS BtHost, FiniteSetTheorems, TLAPS

Events == [event : {"open", "close"}, dev : Devs]
LinkStates == {"off", "adv", "up"}

-----------------------------------------------------------------------------
(* The events of one peripheral on their way, its link, and the table.     *)

(* Event i of h is the last, or the first, of its peripheral. *)
LastOf(h, i) == \A k \in i + 1 .. Len(h) : h[k].dev # h[i].dev
FirstOf(h, i) == \A k \in 1 .. i - 1 : h[k].dev # h[i].dev

(* Opens and closes of a peripheral alternate: the last one says what its  *)
(* link does, and the first is no open when the peripheral is attached.    *)
(* One without events is attached when its link is up.                     *)
Alternate(h, l, A) ==
  /\ h \in Seq(Events)
  /\ l \in [Devs -> LinkStates]
  /\ A \subseteq Devs
  /\ \A i \in 1 .. Len(h) : LastOf(h, i) => (h[i].event = "open" <=> l[h[i].dev] = "up")
  /\ \A i \in 1 .. Len(h) : FirstOf(h, i) /\ h[i].event = "open" => h[i].dev \notin A
  /\ \A i, j \in 1 .. Len(h) :
       /\ i < j /\ h[i].dev = h[j].dev
       /\ \A k \in i + 1 .. j - 1 : h[k].dev # h[i].dev
       => h[i].event # h[j].event
  /\ \A d \in Devs : (\A i \in 1 .. Len(h) : h[i].dev # d) => (d \in A <=> l[d] = "up")

LEMMA AppendIs ==
  ASSUME NEW S, NEW h \in Seq(S), NEW e \in S
  PROVE  /\ Append(h, e) \in Seq(S) /\ Len(Append(h, e)) = Len(h) + 1 /\ Len(h) \in Nat
         /\ \A i \in 1 .. Len(h) : Append(h, e)[i] = h[i]
         /\ Append(h, e)[Len(h) + 1] = e
OBVIOUS

LEMMA TailIs ==
  ASSUME NEW S, NEW h \in Seq(S), h # <<>>
  PROVE  /\ Tail(h) \in Seq(S) /\ Len(Tail(h)) = Len(h) - 1 /\ Len(h) \in Nat \ {0}
         /\ \A i \in 1 .. Len(h) - 1 : Tail(h)[i] = h[i + 1]
         /\ Head(h) = h[1] /\ Head(h) \in S
OBVIOUS

(* A link that comes up or goes down, and says so. *)
LEMMA Announces ==
  ASSUME NEW h, NEW l, NEW A, Alternate(h, l, A),
         NEW d \in Devs, NEW s \in LinkStates, NEW ev \in {"open", "close"},
         ev = "open" <=> s = "up",
         l[d] = "up" <=> ev = "close"
  PROVE  Alternate(Append(h, [event |-> ev, dev |-> d]), [l EXCEPT ![d] = s], A)
<1> DEFINE e == [event |-> ev, dev |-> d]
           g == Append(h, e)
           m == [l EXCEPT ![d] = s]
           n == Len(h)
<1>1. /\ h \in Seq(Events) /\ l \in [Devs -> LinkStates] /\ A \subseteq Devs
      /\ e \in Events /\ e.event = ev /\ e.dev = d
  BY DEF Alternate, Events
<1>2. m \in [Devs -> LinkStates] /\ m[d] = s /\ \A x \in Devs \ {d} : m[x] = l[x]
  BY <1>1
<1>3. /\ \A i \in 1 .. n : LastOf(h, i) => (h[i].event = "open" <=> l[h[i].dev] = "up")
      /\ \A i \in 1 .. n : FirstOf(h, i) /\ h[i].event = "open" => h[i].dev \notin A
      /\ \A i, j \in 1 .. n :
           /\ i < j /\ h[i].dev = h[j].dev
           /\ \A k \in i + 1 .. j - 1 : h[k].dev # h[i].dev
           => h[i].event # h[j].event
      /\ \A x \in Devs : (\A i \in 1 .. n : h[i].dev # x) => (x \in A <=> l[x] = "up")
  BY DEF Alternate
<1> HIDE DEF e
<1>4. /\ g \in Seq(Events) /\ Len(g) = n + 1 /\ n \in Nat
      /\ \A i \in 1 .. n : g[i] = h[i]
      /\ g[n + 1] = e
  BY <1>1, AppendIs
<1>5. \A i \in 1 .. n : h[i] \in Events /\ h[i].dev \in Devs /\ h[i].event \in {"open", "close"}
  <2>1. \A i \in 1 .. n : h[i] \in Events
    BY <1>1 DEF n
  <2> QED  BY <2>1 DEF Events
<1> HIDE DEF g, m, n
<1>6. ASSUME NEW i \in 1 .. Len(g), LastOf(g, i)
      PROVE  g[i].event = "open" <=> m[g[i].dev] = "up"
  <2>1. CASE i = n + 1
    BY <1>1, <1>2, <1>4, <2>1
  <2>2. CASE i \in 1 .. n
    <3>1. g[i] = h[i] /\ n + 1 \in i + 1 .. Len(g)
      BY <1>4, <2>2
    <3>2. h[i].dev # d
      BY <1>1, <1>4, <1>6, <3>1 DEF LastOf
    <3>3. LastOf(h, i)
      <4>1. \A k \in i + 1 .. n : k \in i + 1 .. Len(g) /\ g[k] = h[k]
        BY <1>4, <2>2
      <4> QED  BY <1>6, <3>1, <4>1 DEF LastOf, n
    <3>4. m[h[i].dev] = l[h[i].dev]
      BY <1>2, <1>5, <2>2, <3>2
    <3> QED  BY <1>3, <2>2, <3>1, <3>3, <3>4
  <2> QED  BY <1>4, <2>1, <2>2
<1>7. ASSUME NEW i \in 1 .. Len(g), FirstOf(g, i), g[i].event = "open"
      PROVE  g[i].dev \notin A
  <2>1. CASE i \in 1 .. n
    <3>1. g[i] = h[i] /\ \A k \in 1 .. i - 1 : g[k] = h[k]
      BY <1>4, <2>1
    <3>2. FirstOf(h, i)
      BY <1>7, <3>1 DEF FirstOf
    <3> QED  BY <1>3, <1>7, <2>1, <3>1, <3>2
  <2>2. CASE i = n + 1
    <3>1. g[i] = e /\ ev = "open" /\ l[d] # "up"
      BY <1>1, <1>4, <1>7, <2>2
    <3>2. \A k \in 1 .. n : h[k].dev # d
      <4>1. \A k \in 1 .. n : k \in 1 .. i - 1 /\ g[k] = h[k]
        BY <1>4, <2>2
      <4> QED  BY <1>1, <1>7, <3>1, <4>1 DEF FirstOf
    <3>3. d \notin A
      BY <1>3, <3>1, <3>2
    <3> QED  BY <1>1, <3>1, <3>3
  <2> QED  BY <1>4, <2>1, <2>2
<1>8. ASSUME NEW i \in 1 .. Len(g), NEW j \in 1 .. Len(g), i < j, g[i].dev = g[j].dev,
             \A k \in i + 1 .. j - 1 : g[k].dev # g[i].dev
      PROVE  g[i].event # g[j].event
  <2>1. i \in 1 .. n /\ g[i] = h[i] /\ \A k \in i + 1 .. j - 1 : k \in 1 .. n /\ g[k] = h[k]
    BY <1>4, <1>8
  <2>2. CASE j \in 1 .. n
    <3>1. g[j] = h[j]
      BY <1>4, <2>2
    <3> QED  BY <1>3, <1>8, <2>1, <2>2, <3>1
  <2>3. CASE j = n + 1
    <3>1. g[j] = e /\ h[i].dev = d
      BY <1>1, <1>4, <1>8, <2>1, <2>3
    <3>2. LastOf(h, i)
      <4>1. \A k \in i + 1 .. n : k \in i + 1 .. j - 1
        BY <1>4, <2>3
      <4> QED  BY <1>8, <2>1, <4>1 DEF LastOf, n
    <3>3. h[i].event = "open" <=> l[d] = "up"
      BY <1>3, <2>1, <3>1, <3>2
    <3>4. h[i].event \in {"open", "close"}
      BY <1>5, <2>1
    <3> QED  BY <1>1, <2>1, <3>1, <3>3, <3>4
  <2> QED  BY <1>4, <2>2, <2>3
<1>9. ASSUME NEW x \in Devs, \A i \in 1 .. Len(g) : g[i].dev # x
      PROVE  x \in A <=> m[x] = "up"
  <2>1. x # d
    <3>1. n + 1 \in 1 .. Len(g)
      BY <1>4
    <3> QED  BY <1>1, <1>4, <1>9, <3>1
  <2>2. \A i \in 1 .. n : h[i].dev # x
    <3>1. \A i \in 1 .. n : i \in 1 .. Len(g) /\ g[i] = h[i]
      BY <1>4
    <3> QED  BY <1>9, <3>1
  <2> QED  BY <1>2, <1>3, <2>1, <2>2
<1>10. Alternate(g, m, A)
  BY <1>1, <1>2, <1>4, <1>6, <1>7, <1>8, <1>9 DEF Alternate
<1> QED  BY <1>10 DEF g, m, e

(* An event is taken off, and the table does what it says. *)
LEMMA Takes ==
  ASSUME NEW h, NEW l, NEW A, Alternate(h, l, A), h # <<>>,
         NEW B, B = IF Head(h).event = "open" THEN A \cup {Head(h).dev} ELSE A \ {Head(h).dev}
  PROVE  Alternate(Tail(h), l, B)
<1> DEFINE g == Tail(h)
           n == Len(h)
           d == Head(h).dev
<1>1. /\ h \in Seq(Events) /\ l \in [Devs -> LinkStates] /\ A \subseteq Devs
  BY DEF Alternate
<1>2. /\ g \in Seq(Events) /\ Len(g) = n - 1 /\ n \in Nat \ {0}
      /\ \A i \in 1 .. n - 1 : g[i] = h[i + 1]
      /\ Head(h) = h[1] /\ Head(h) \in Events
  BY <1>1, TailIs
<1>3. /\ \A i \in 1 .. n : LastOf(h, i) => (h[i].event = "open" <=> l[h[i].dev] = "up")
      /\ \A i \in 1 .. n : FirstOf(h, i) /\ h[i].event = "open" => h[i].dev \notin A
      /\ \A i, j \in 1 .. n :
           /\ i < j /\ h[i].dev = h[j].dev
           /\ \A k \in i + 1 .. j - 1 : h[k].dev # h[i].dev
           => h[i].event # h[j].event
      /\ \A x \in Devs : (\A i \in 1 .. n : h[i].dev # x) => (x \in A <=> l[x] = "up")
  BY DEF Alternate
<1>4. d \in Devs /\ Head(h).event \in {"open", "close"} /\ 1 \in 1 .. n /\ d = h[1].dev
  BY <1>2 DEF Events
<1>5. B \subseteq Devs /\ (d \in B <=> h[1].event = "open") /\ \A x \in Devs \ {d} : x \in B <=> x \in A
  BY <1>1, <1>2, <1>4
<1> HIDE DEF g, n
<1>6. ASSUME NEW i \in 1 .. Len(g), LastOf(g, i)
      PROVE  g[i].event = "open" <=> l[g[i].dev] = "up"
  <2>1. i + 1 \in 1 .. n /\ g[i] = h[i + 1]
    BY <1>2
  <2>2. LastOf(h, i + 1)
    <3>1. ASSUME NEW k \in i + 1 + 1 .. n PROVE h[k].dev # h[i + 1].dev
      <4>1. k - 1 \in i + 1 .. Len(g) /\ k - 1 \in 1 .. n - 1 /\ k - 1 + 1 = k
        BY <1>2
      <4>2. g[k - 1] = h[k]
        BY <1>2, <4>1
      <4> QED  BY <1>6, <2>1, <4>1, <4>2 DEF LastOf
    <3> QED  BY <3>1 DEF LastOf, n
  <2> QED  BY <1>3, <2>1, <2>2
<1>7. ASSUME NEW i \in 1 .. Len(g), FirstOf(g, i), g[i].event = "open"
      PROVE  g[i].dev \notin B
  <2>1. i + 1 \in 1 .. n /\ g[i] = h[i + 1] /\ h[i + 1].dev \in Devs
    <3>1. i + 1 \in 1 .. n /\ g[i] = h[i + 1]
      BY <1>2
    <3>2. h[i + 1] \in Events
      BY <1>1, <3>1 DEF n
    <3> QED  BY <3>1, <3>2 DEF Events
  <2>2. ASSUME NEW k \in 2 .. i PROVE h[k].dev # h[i + 1].dev
    <3>1. k - 1 \in 1 .. i - 1 /\ k - 1 \in 1 .. n - 1 /\ k - 1 + 1 = k
      BY <1>2
    <3>2. g[k - 1] = h[k]
      BY <1>2, <3>1
    <3> QED  BY <1>7, <2>1, <3>1, <3>2 DEF FirstOf
  <2>3. CASE h[i + 1].dev = d
    <3>1. 1 < i + 1 /\ \A k \in 1 + 1 .. i + 1 - 1 : h[k].dev # h[1].dev
      BY <1>4, <2>2, <2>3
    <3>2. h[1].event # h[i + 1].event
      BY <1>3, <1>4, <2>1, <2>3, <3>1
    <3> QED  BY <1>5, <1>7, <2>1, <2>3, <3>2
  <2>4. CASE h[i + 1].dev # d
    <3>1. FirstOf(h, i + 1)
      <4>1. ASSUME NEW k \in 1 .. i + 1 - 1 PROVE h[k].dev # h[i + 1].dev
        <5>1. k = 1 \/ k \in 2 .. i
          OBVIOUS
        <5> QED  BY <1>4, <2>2, <2>4, <5>1
      <4> QED  BY <4>1 DEF FirstOf
    <3> QED  BY <1>3, <1>5, <1>7, <2>1, <2>4, <3>1
  <2> QED  BY <2>3, <2>4
<1>8. ASSUME NEW i \in 1 .. Len(g), NEW j \in 1 .. Len(g), i < j, g[i].dev = g[j].dev,
             \A k \in i + 1 .. j - 1 : g[k].dev # g[i].dev
      PROVE  g[i].event # g[j].event
  <2>1. /\ i + 1 \in 1 .. n /\ g[i] = h[i + 1] /\ j + 1 \in 1 .. n /\ g[j] = h[j + 1]
        /\ i + 1 < j + 1
    <3>1. i < j /\ i \in 1 .. n - 1 /\ j \in 1 .. n - 1
      BY <1>2, <1>8
    <3> QED  BY <1>2, <3>1
  <2>2. ASSUME NEW k \in i + 1 + 1 .. j + 1 - 1 PROVE h[k].dev # h[i + 1].dev
    <3>1. k - 1 \in i + 1 .. j - 1 /\ k - 1 \in 1 .. n - 1 /\ k - 1 + 1 = k
      <4>1. i \in 1 .. n - 1 /\ j \in 1 .. n - 1
        BY <1>2
      <4> QED  BY <1>2, <4>1
    <3>2. g[k - 1] = h[k]
      BY <1>2, <3>1
    <3> QED  BY <1>8, <2>1, <3>1, <3>2
  <2> QED  BY <1>3, <1>8, <2>1, <2>2
<1>9. ASSUME NEW x \in Devs, \A i \in 1 .. Len(g) : g[i].dev # x
      PROVE  x \in B <=> l[x] = "up"
  <2>1. ASSUME NEW k \in 2 .. n PROVE h[k].dev # x
    <3>1. k - 1 \in 1 .. Len(g) /\ k - 1 \in 1 .. n - 1 /\ k - 1 + 1 = k
      BY <1>2
    <3>2. g[k - 1] = h[k]
      BY <1>2, <3>1
    <3> QED  BY <1>9, <3>1, <3>2
  <2>2. CASE x = d
    <3>1. LastOf(h, 1)
      BY <1>4, <2>1, <2>2 DEF LastOf, n
    <3> QED  BY <1>3, <1>4, <1>5, <2>2, <3>1
  <2>3. CASE x # d
    <3>1. \A k \in 1 .. n : k = 1 \/ k \in 2 .. n
      BY <1>2
    <3>2. \A k \in 1 .. n : h[k].dev # x
      BY <1>4, <2>1, <2>3, <3>1
    <3> QED  BY <1>3, <1>5, <2>3, <3>2
  <2> QED  BY <2>2, <2>3
<1> QED  BY <1>1, <1>2, <1>5, <1>6, <1>7, <1>8, <1>9 DEF Alternate, g

(* A peripheral with events on the way may be left out of the table. *)
LEMMA LeftOut ==
  ASSUME NEW h, NEW l, NEW A, Alternate(h, l, A), NEW d,
         \E i \in 1 .. Len(h) : h[i].dev = d
  PROVE  Alternate(h, l, A \ {d})
<1>1. \A i \in 1 .. Len(h) :
        FirstOf(h, i) /\ h[i].event = "open" => h[i].dev \notin A \ {d}
  BY DEF Alternate
<1>2. ASSUME NEW x \in Devs, \A i \in 1 .. Len(h) : h[i].dev # x
      PROVE  x \in A \ {d} <=> l[x] = "up"
  <2>1. x # d
    BY <1>2
  <2> QED  BY <1>2, <2>1 DEF Alternate
<1> QED  BY <1>1, <1>2 DEF Alternate

-----------------------------------------------------------------------------
(* The table. *)

Distinct == \A i, j \in Slots : s_dev[i] = s_dev[j] /\ s_dev[i] # NoDev => i = j

TableInv ==
  /\ s_dev \in [Slots -> Devs \cup {NoDev}]
  /\ Distinct
  /\ IsFiniteSet(Attached)
  /\ g_umouse_present = Cardinality(Attached \cap Mice)
  /\ Alternate(hidh, link, Attached)

LEMMA NoDevIsNone == NoDev \notin Devs
BY BtAssumption

LEMMA MiceCount ==
  ASSUME NEW A, IsFiniteSet(A), NEW d
  PROVE  /\ Cardinality(A \cap Mice) \in Nat
         /\ d \notin A => Cardinality((A \cup {d}) \cap Mice) = Cardinality(A \cap Mice) + IfMouse(d)
         /\ d \in A => Cardinality((A \ {d}) \cap Mice) = Cardinality(A \cap Mice) - IfMouse(d)
                       /\ IfMouse(d) <= Cardinality(A \cap Mice)
<1>1. IsFiniteSet(A \cap Mice) /\ Cardinality(A \cap Mice) \in Nat
  <2>1. A \cap Mice \in SUBSET A
    OBVIOUS
  <2> QED  BY <2>1, FS_Subset, FS_CardinalityType
<1>2. CASE d \in Mice
  <2>1. (A \cup {d}) \cap Mice = (A \cap Mice) \cup {d} /\ (A \ {d}) \cap Mice = (A \cap Mice) \ {d}
        /\ (d \in A <=> d \in A \cap Mice) /\ IfMouse(d) = 1
    BY <1>2 DEF IfMouse
  <2>2. Cardinality((A \cap Mice) \ {d}) \in Nat
    BY <1>1, FS_RemoveElement, FS_CardinalityType
  <2>3. Cardinality((A \cap Mice) \cup {d})
          = IF d \in A \cap Mice THEN Cardinality(A \cap Mice) ELSE Cardinality(A \cap Mice) + 1
    BY <1>1, FS_AddElement
  <2>4. Cardinality((A \cap Mice) \ {d})
          = IF d \in A \cap Mice THEN Cardinality(A \cap Mice) - 1 ELSE Cardinality(A \cap Mice)
    BY <1>1, FS_RemoveElement
  <2>5. d \notin A => Cardinality((A \cup {d}) \cap Mice) = Cardinality(A \cap Mice) + IfMouse(d)
    BY <2>1, <2>3
  <2>6. ASSUME d \in A
        PROVE  /\ Cardinality((A \ {d}) \cap Mice) = Cardinality(A \cap Mice) - IfMouse(d)
               /\ IfMouse(d) <= Cardinality(A \cap Mice)
    <3>1. Cardinality((A \ {d}) \cap Mice) = Cardinality(A \cap Mice) - 1
      BY <2>1, <2>4, <2>6
    <3>2. Cardinality(A \cap Mice) - 1 \in Nat
      BY <2>1, <2>2, <3>1
    <3>3. 1 <= Cardinality(A \cap Mice)
      BY <1>1, <3>2
    <3> QED  BY <2>1, <3>1, <3>3
  <2> QED  BY <1>1, <2>5, <2>6
<1>3. CASE d \notin Mice
  <2>1. (A \cup {d}) \cap Mice = A \cap Mice /\ (A \ {d}) \cap Mice = A \cap Mice /\ IfMouse(d) = 0
    BY <1>3 DEF IfMouse
  <2> QED  BY <1>1, <2>1
<1> QED  BY <1>2, <1>3

LEMMA TableInit == Init => TableInv
<1> SUFFICES ASSUME Init PROVE TableInv
  OBVIOUS
<1>1. /\ hidh = <<>> /\ link \in [Devs -> {"off", "adv"}]
      /\ s_dev = [i \in Slots |-> NoDev] /\ g_umouse_present = 0
  BY DEF Init
<1>2. Attached = {} /\ Distinct /\ s_dev \in [Slots -> Devs \cup {NoDev}]
  BY <1>1 DEF Attached, Distinct
<1>3. IsFiniteSet(Attached) /\ Cardinality(Attached \cap Mice) = 0
  <2>1. Attached \cap Mice = {}
    BY <1>2
  <2> QED  BY <1>2, <2>1, FS_EmptySet
<1>4. Alternate(hidh, link, Attached)
  <2>1. hidh \in Seq(Events) /\ Len(hidh) = 0
    BY <1>1
  <2>2. link \in [Devs -> LinkStates] /\ \A d \in Devs : link[d] # "up"
    BY <1>1 DEF LinkStates
  <2> QED  BY <1>2, <2>1, <2>2 DEF Alternate
<1> QED  BY <1>1, <1>2, <1>3, <1>4 DEF TableInv

(* A device gets a free slot. *)
LEMMA Attaches ==
  ASSUME TableInv, NEW d \in Devs, d \notin Attached,
         {i \in Slots : s_dev[i] = NoDev} # {},
         s_dev' = [s_dev EXCEPT ![CHOOSE i \in {j \in Slots : s_dev[j] = NoDev} : TRUE] = d]
  PROVE  /\ s_dev' \in [Slots -> Devs \cup {NoDev}]
         /\ Distinct'
         /\ Attached' = Attached \cup {d}
<1> DEFINE s == CHOOSE i \in {j \in Slots : s_dev[j] = NoDev} : TRUE
<1>1. s \in Slots /\ s_dev[s] = NoDev
  OBVIOUS
<1> HIDE DEF s
<1>2. s_dev' = [s_dev EXCEPT ![s] = d]
  BY DEF s
<1>3. s_dev \in [Slots -> Devs \cup {NoDev}] /\ Distinct
  BY DEF TableInv
<1>4. s_dev'[s] = d /\ \A i \in Slots \ {s} : s_dev'[i] = s_dev[i]
  BY <1>1, <1>2, <1>3
<1>5. \A i \in Slots : s_dev[i] # d
  BY NoDevIsNone DEF Attached
<1>6. Distinct'
  BY <1>1, <1>3, <1>4, <1>5 DEF Distinct
<1>7. Attached' = Attached \cup {d}
  <2>1. ASSUME NEW x \in Attached' PROVE x \in Attached \cup {d}
    BY <1>1, <1>4 DEF Attached
  <2>2. ASSUME NEW x \in Attached PROVE x \in Attached'
    <3>1. PICK i \in Slots : s_dev[i] = x /\ x # NoDev
      BY DEF Attached
    <3>2. i # s
      BY <1>1, <3>1
    <3>3. s_dev'[i] = x
      BY <1>4, <3>1, <3>2
    <3> QED  BY <3>1, <3>3 DEF Attached
  <2>3. d \in Attached'
    BY <1>1, <1>4, NoDevIsNone DEF Attached
  <2> QED  BY <2>1, <2>2, <2>3
<1> QED  BY <1>2, <1>3, <1>6, <1>7

(* A device loses its slot, if it has one. *)
LEMMA Detaches ==
  ASSUME TableInv, NEW d \in Devs,
         s_dev' = [i \in Slots |-> IF s_dev[i] = d THEN NoDev ELSE s_dev[i]]
  PROVE  /\ s_dev' \in [Slots -> Devs \cup {NoDev}]
         /\ Distinct'
         /\ Attached' = Attached \ {d}
<1>1. s_dev \in [Slots -> Devs \cup {NoDev}] /\ Distinct
  BY DEF TableInv
<1>2. \A i \in Slots : s_dev'[i] = IF s_dev[i] = d THEN NoDev ELSE s_dev[i]
  OBVIOUS
<1>3. Distinct'
  BY <1>1, <1>2 DEF Distinct
<1>4. Attached' = Attached \ {d}
  <2>1. ASSUME NEW x \in Attached' PROVE x \in Attached \ {d}
    BY <1>2 DEF Attached
  <2>2. ASSUME NEW x \in Attached \ {d} PROVE x \in Attached'
    <3>1. PICK i \in Slots : s_dev[i] = x /\ x # NoDev
      BY DEF Attached
    <3>2. s_dev'[i] = x
      BY <1>2, <3>1
    <3> QED  BY <3>1, <3>2 DEF Attached
  <2> QED  BY <2>1, <2>2
<1> QED  BY <1>1, <1>3, <1>4

(* The steps that touch neither events nor links nor the table. *)
LEMMA Elsewhere ==
  ASSUME TableInv, UNCHANGED <<link, hidh, table>>
  PROVE  TableInv'
BY DEF TableInv, table, Distinct, Attached

LEMMA TableNext == TableInv /\ [Next]_vars => TableInv'
<1> SUFFICES ASSUME TableInv, [Next]_vars PROVE TableInv'
  OBVIOUS
<1>0. /\ hidh \in Seq(Events) /\ link \in [Devs -> LinkStates] /\ Attached \subseteq Devs
      /\ s_dev \in [Slots -> Devs \cup {NoDev}] /\ Distinct /\ IsFiniteSet(Attached)
      /\ g_umouse_present = Cardinality(Attached \cap Mice)
      /\ Alternate(hidh, link, Attached)
  BY DEF TableInv, Alternate
<1>1. CASE \E d \in Devs : Power(d)
  <2>1. PICK d \in Devs : Power(d)
    BY <1>1
  <2>2. /\ link' \in [Devs -> LinkStates] /\ \A x \in Devs : (link'[x] = "up") <=> (link[x] = "up")
        /\ hidh' = hidh /\ UNCHANGED table
    BY <1>0, <2>1 DEF Power, LinkStates
  <2>3. Attached' = Attached /\ Distinct'
    BY <1>0, <2>2 DEF table, Attached, Distinct
  <2>4. \A i \in 1 .. Len(hidh) : hidh[i].dev \in Devs
    <3>1. \A i \in 1 .. Len(hidh) : hidh[i] \in Events
      BY <1>0
    <3> QED  BY <3>1 DEF Events
  <2>5. Alternate(hidh', link', Attached')
    <3>1. \A i \in 1 .. Len(hidh) :
            LastOf(hidh, i) => (hidh[i].event = "open" <=> link'[hidh[i].dev] = "up")
      <4>1. \A i \in 1 .. Len(hidh) :
              LastOf(hidh, i) => (hidh[i].event = "open" <=> link[hidh[i].dev] = "up")
        BY <1>0 DEF Alternate
      <4> QED  BY <2>2, <2>4, <4>1
    <3>2. \A d1 \in Devs : (\A i \in 1 .. Len(hidh) : hidh[i].dev # d1)
                            => (d1 \in Attached <=> link'[d1] = "up")
      BY <1>0, <2>2 DEF Alternate
    <3>3. Alternate(hidh, link', Attached)
      BY <1>0, <2>2, <3>1, <3>2 DEF Alternate
    <3> QED  BY <2>2, <2>3, <3>3
  <2> QED  BY <1>0, <2>2, <2>3, <2>5 DEF TableInv, table
<1>2. CASE \E d \in Devs : LinkLost(d)
  <2>1. PICK d \in Devs : LinkLost(d)
    BY <1>2
  <2>2. PICK s \in {"off", "adv"} : link' = [link EXCEPT ![d] = s]
    BY <2>1 DEF LinkLost
  <2>3. link[d] = "up" /\ hidh' = Append(hidh, [event |-> "close", dev |-> d]) /\ UNCHANGED table
    BY <2>1 DEF LinkLost
  <2>4. Alternate(hidh', link', Attached)
    <3>1. s \in LinkStates /\ s # "up"
      BY DEF LinkStates
    <3> QED  BY <1>0, <2>2, <2>3, <3>1, Announces
  <2>5. Attached' = Attached /\ Distinct'
    BY <1>0, <2>3 DEF table, Attached, Distinct
  <2> QED  BY <1>0, <2>3, <2>4, <2>5 DEF TableInv, table
<1>3. CASE \E d \in Devs : Opened(d)
  <2>1. PICK d \in Devs : Opened(d)
    BY <1>3
  <2>2. /\ link[d] = "adv" /\ link' = [link EXCEPT ![d] = "up"]
        /\ hidh' = Append(hidh, [event |-> "open", dev |-> d]) /\ UNCHANGED table
    BY <2>1 DEF Opened
  <2>3. Alternate(hidh', link', Attached)
    <3>1. "up" \in LinkStates
      BY DEF LinkStates
    <3> QED  BY <1>0, <2>2, <3>1, Announces
  <2>4. Attached' = Attached /\ Distinct'
    BY <1>0, <2>2 DEF table, Attached, Distinct
  <2> QED  BY <1>0, <2>2, <2>3, <2>4 DEF TableInv, table
<1>4. CASE handle_open
  <2> DEFINE d == Head(hidh).dev
             free == {i \in Slots : s_dev[i] = NoDev}
  <2>1. hidh # <<>> /\ Head(hidh).event = "open"
    BY <1>4 DEF handle_open
  <2>2. d \in Devs /\ hidh[1] = Head(hidh) /\ 1 \in 1 .. Len(hidh) /\ Tail(hidh) \in Seq(Events)
    <3>1. Head(hidh) \in Events /\ hidh[1] = Head(hidh) /\ Len(hidh) \in Nat \ {0}
          /\ Tail(hidh) \in Seq(Events)
      BY <1>0, <2>1, TailIs
    <3> QED  BY <3>1 DEF Events
  <2>3. d \notin Attached
    <3>1. FirstOf(hidh, 1)
      BY DEF FirstOf
    <3> QED  BY <1>0, <2>1, <2>2, <3>1 DEF Alternate
  <2>4. Alternate(Tail(hidh), link, Attached \cup {d})
    BY <1>0, <2>1, Takes
  <2>5. CASE free # {}
    <3>1. /\ hidh' = Tail(hidh) /\ link' = link
          /\ s_dev' = [s_dev EXCEPT ![CHOOSE i \in free : TRUE] = d]
          /\ g_umouse_present' = g_umouse_present + IfMouse(d)
      BY <1>4, <2>5 DEF handle_open
    <3>2. /\ s_dev' \in [Slots -> Devs \cup {NoDev}] /\ Distinct'
          /\ Attached' = Attached \cup {d}
      BY <2>2, <2>3, <2>5, <3>1, Attaches
    <3>3. IsFiniteSet(Attached')
      BY <1>0, <3>2, FS_AddElement
    <3>4. g_umouse_present' = Cardinality(Attached' \cap Mice)
      BY <1>0, <2>3, <3>1, <3>2, MiceCount
    <3> QED  BY <2>4, <3>1, <3>2, <3>3, <3>4 DEF TableInv
  <2>6. CASE free = {}
    <3>1. UNCHANGED table /\ link' = [link EXCEPT ![d] = IF @ = "up" THEN "adv" ELSE @]
          /\ hidh' = IF link[d] = "up" THEN Append(Tail(hidh), [event |-> "close", dev |-> d])
                                       ELSE Tail(hidh)
      BY <1>4, <2>6 DEF handle_open
    <3>2. Attached' = Attached /\ Distinct' /\ (Attached \cup {d}) \ {d} = Attached
      BY <1>0, <2>3, <3>1 DEF table, Attached, Distinct
    <3>3. Alternate(hidh', link', Attached)
      <4>1. CASE link[d] = "up"
        <5>1. Alternate(hidh', link', Attached \cup {d})
          <6>1. link' = [link EXCEPT ![d] = "adv"] /\ "adv" \in LinkStates
                /\ hidh' = Append(Tail(hidh), [event |-> "close", dev |-> d])
            BY <3>1, <4>1 DEF LinkStates
          <6> QED  BY <2>2, <2>4, <4>1, <6>1, Announces
        <5>2. \E i \in 1 .. Len(hidh') : hidh'[i].dev = d
          <6>1. [event |-> "close", dev |-> d] \in Events
            BY <2>2 DEF Events
          <6>2. /\ Len(hidh') = Len(Tail(hidh)) + 1 /\ Len(Tail(hidh)) \in Nat
                /\ hidh'[Len(Tail(hidh)) + 1] = [event |-> "close", dev |-> d]
            BY <2>2, <3>1, <4>1, <6>1, AppendIs
          <6> QED  BY <6>2
        <5>3. Alternate(hidh', link', (Attached \cup {d}) \ {d})
          BY <5>1, <5>2, LeftOut
        <5> QED  BY <3>2, <5>3
      <4>2. CASE link[d] # "up"
        <5>1. hidh' = Tail(hidh) /\ link' = link
          BY <1>0, <2>2, <3>1, <4>2
        <5>2. \E i \in 1 .. Len(hidh') : hidh'[i].dev = d
          BY <2>2, <2>4, <4>2, <5>1 DEF Alternate
        <5>3. Alternate(hidh', link', (Attached \cup {d}) \ {d})
          BY <2>4, <5>1, <5>2, LeftOut
        <5> QED  BY <3>2, <5>3
      <4> QED  BY <4>1, <4>2
    <3> QED  BY <1>0, <3>1, <3>2, <3>3 DEF TableInv, table
  <2> QED  BY <2>5, <2>6
<1>5. CASE handle_close
  <2> DEFINE d == Head(hidh).dev
             was == IF dev_known_bda(d) THEN IfMouse(d) ELSE 0
  <2>1. /\ hidh # <<>> /\ Head(hidh).event = "close" /\ hidh' = Tail(hidh) /\ link' = link
        /\ s_dev' = [i \in Slots |-> IF s_dev[i] = d THEN NoDev ELSE s_dev[i]]
        /\ g_umouse_present' = IF was <= g_umouse_present
                                 THEN g_umouse_present - was ELSE g_umouse_present
    BY <1>5 DEF handle_close
  <2>2. d \in Devs
    <3>1. Head(hidh) \in Events
      BY <1>0, <2>1, TailIs
    <3> QED  BY <3>1 DEF Events
  <2>3. /\ s_dev' \in [Slots -> Devs \cup {NoDev}] /\ Distinct' /\ Attached' = Attached \ {d}
    BY <2>1, <2>2, Detaches
  <2>4. IsFiniteSet(Attached')
    BY <1>0, <2>3, FS_RemoveElement
  <2>5. g_umouse_present' = Cardinality(Attached' \cap Mice)
    <3>1. CASE d \in Attached
      <4>1. was = IfMouse(d)
        BY <3>1 DEF dev_known_bda
      <4> QED  BY <1>0, <2>1, <2>3, <3>1, <4>1, MiceCount
    <3>2. CASE d \notin Attached
      <4>1. was = 0 /\ Attached' = Attached
        BY <2>3, <3>2 DEF dev_known_bda
      <4>2. Cardinality(Attached \cap Mice) \in Nat
        BY <1>0, MiceCount
      <4> QED  BY <1>0, <2>1, <4>1, <4>2
    <3> QED  BY <3>1, <3>2
  <2>6. Alternate(hidh', link', Attached')
    <3>1. Alternate(Tail(hidh), link, Attached \ {d})
      BY <1>0, <2>1, Takes
    <3> QED  BY <2>1, <2>3, <3>1
  <2> QED  BY <2>3, <2>4, <2>5, <2>6 DEF TableInv
<1>6. CASE \/ StackUp \/ Top \/ Wake \/ SetScanning \/ StartScanning \/ StartFails
           \/ Receive \/ NoHit \/ Check \/ Deadline \/ Settle \/ NotOpened \/ Close
  BY <1>6, Elsewhere DEF StackUp, Top, Wake, SetScanning, StartScanning, StartFails,
     Receive, NoHit, Check, Deadline, Settle, NotOpened, Close
<1>7. CASE GapCb \/ (\E d \in Devs : Heard(d)) \/ WindowEnds \/ GraceEnds
  BY <1>7, Elsewhere DEF GapCb, Result, ScanOver, Heard, WindowEnds, GraceEnds
<1>8. CASE UNCHANGED vars
  BY <1>8, Elsewhere DEF vars, table
<1> QED  BY <1>1, <1>2, <1>3, <1>4, <1>5, <1>6, <1>7, <1>8 DEF Next, Worker, HidhCb, World

(***************************************************************************)
(* When the events of esp_hidh are through, the table holds the devices    *)
(* whose link is up, each once, and the mice among them are counted.       *)
(***************************************************************************)
THEOREM TableSoundHolds == Spec => []TableSound
<1>1. TableInv => TableSound
  <2> SUFFICES ASSUME TableInv PROVE TableSound
    OBVIOUS
  <2>1. hidh = <<>> => Attached = {d \in Devs : link[d] = "up"}
    <3> SUFFICES ASSUME hidh = <<>> PROVE Attached = {d \in Devs : link[d] = "up"}
      OBVIOUS
    <3>1. Len(hidh) = 0
      OBVIOUS
    <3>2. Attached \subseteq Devs /\ \A d \in Devs : d \in Attached <=> link[d] = "up"
      BY <3>1 DEF TableInv, Alternate
    <3> QED  BY <3>2
  <2> QED  BY <2>1 DEF TableInv, Distinct, TableSound
<1> QED  BY <1>1, TableInit, TableNext, PTL DEF Spec

-----------------------------------------------------------------------------
(* The radio. *)

NoEndDue == \A i \in 1 .. Len(gap) : gap[i] \in Devs

NoOpen(h) == \A i \in 1 .. Len(h) : h[i].event # "open"
OneOpen(h) ==
  \A i, j \in 1 .. Len(h) : h[i].event = "open" /\ h[j].event = "open" => i = j

(* The radio is on in a window only.  Who closes the window knows that it  *)
(* is on, since no end of an earlier scan is still due.  After a sleep     *)
(* that is so, and a worker that goes on without one, because it now has   *)
(* everything, has just opened a device.                                   *)
Searching == {"start", "scan", "window", "check", "stopping", "open"}

RadioInv ==
  /\ gap \in Seq(Devs \cup {"cmpl", "stopped"})
  /\ radio => worker \in {"window", "check"} /\ s_scanning /\ NoEndDue
  /\ worker \in {"boot", "top", "start", "scan"} => gap = <<>>
  /\ worker = "scan" => s_scanning
  /\ worker = "open" => ~s_scanning
  /\ worker \in Searching => ~have_everything
  /\ worker = "slow" => Attached = {}
  /\ worker \notin {"close", "pause"} => NoOpen(hidh)
  /\ worker = "close" =>
       /\ OneOpen(hidh) /\ (NoOpen(hidh) \/ ~have_everything)
       /\ \/ NoOpen(hidh) /\ ~have_everything
          \/ gap = <<>> /\ ~s_scanning

(* Taking an event off, and adding one that is no open. *)
LEMMA OpensOfTail ==
  ASSUME NEW h \in Seq(Events), h # <<>>
  PROVE  /\ NoOpen(h) => NoOpen(Tail(h))
         /\ OneOpen(h) => OneOpen(Tail(h))
         /\ OneOpen(h) /\ Head(h).event = "open" => NoOpen(Tail(h))
<1>1. /\ Len(Tail(h)) = Len(h) - 1 /\ Len(h) \in Nat \ {0} /\ Head(h) = h[1]
      /\ \A i \in 1 .. Len(h) - 1 : Tail(h)[i] = h[i + 1]
  BY TailIs
<1>2. \A i \in 1 .. Len(Tail(h)) : i + 1 \in 1 .. Len(h) /\ i + 1 # 1 /\ Tail(h)[i] = h[i + 1]
  BY <1>1
<1>3. NoOpen(h) => NoOpen(Tail(h))
  BY <1>2 DEF NoOpen
<1>4. ASSUME OneOpen(h) PROVE OneOpen(Tail(h))
  <2> SUFFICES ASSUME NEW i \in 1 .. Len(Tail(h)), NEW j \in 1 .. Len(Tail(h)),
                      Tail(h)[i].event = "open", Tail(h)[j].event = "open"
               PROVE  i = j
    BY DEF OneOpen
  <2>1. i + 1 = j + 1
    BY <1>2, <1>4 DEF OneOpen
  <2> QED  BY <1>1, <2>1
<1>5. ASSUME OneOpen(h), Head(h).event = "open" PROVE NoOpen(Tail(h))
  <2>1. 1 \in 1 .. Len(h)
    BY <1>1
  <2> QED  BY <1>1, <1>2, <1>5, <2>1 DEF OneOpen, NoOpen
<1> QED  BY <1>3, <1>4, <1>5

LEMMA OpensOfAppend ==
  ASSUME NEW h \in Seq(Events), NEW e \in Events
  PROVE  /\ e.event # "open" /\ NoOpen(h) => NoOpen(Append(h, e))
         /\ e.event # "open" /\ OneOpen(h) => OneOpen(Append(h, e))
         /\ NoOpen(h) => OneOpen(Append(h, e))
<1>1. /\ Len(Append(h, e)) = Len(h) + 1 /\ Len(h) \in Nat
      /\ \A i \in 1 .. Len(h) : Append(h, e)[i] = h[i]
      /\ Append(h, e)[Len(h) + 1] = e
  BY AppendIs
<1>2. \A i \in 1 .. Len(Append(h, e)) : i \in 1 .. Len(h) \/ i = Len(h) + 1
  BY <1>1
<1> QED  BY <1>1, <1>2 DEF NoOpen, OneOpen

(* A device that is taken off does not complete the set. *)
LEMMA FewerDevices ==
  ASSUME Attached' \subseteq Attached, ~have_everything
  PROVE  ~have_everything'
BY DEF have_everything, s_have_kbd_now

(* The steps that touch neither events nor the table keep what is said of  *)
(* both.                                                                   *)
LEMMA SameTable ==
  ASSUME UNCHANGED <<hidh, table>>
  PROVE  /\ Attached' = Attached /\ (have_everything' <=> have_everything)
         /\ (NoOpen(hidh)' <=> NoOpen(hidh)) /\ (OneOpen(hidh)' <=> OneOpen(hidh))
<1>1. Attached' = Attached
  BY DEF table, Attached
<1> QED  BY <1>1 DEF have_everything, s_have_kbd_now, NoOpen, OneOpen

LEMMA RadioInit == Init => RadioInv
<1> SUFFICES ASSUME Init PROVE RadioInv
  OBVIOUS
<1>1. /\ worker = "boot" /\ ~s_scanning /\ ~radio /\ gap = <<>> /\ hidh = <<>>
  BY DEF Init
<1>2. NoOpen(hidh)
  <2>1. Len(hidh) = 0
    BY <1>1
  <2> QED  BY <2>1 DEF NoOpen
<1> QED  BY <1>1, <1>2 DEF RadioInv, Searching

(* The events of esp_hidh, while the worker goes its way. *)
LEMMA RadioHidh ==
  ASSUME TableInv, TableInv', RadioInv, HidhCb
  PROVE  RadioInv'
<1>1. /\ hidh # <<>> /\ hidh \in Seq(Events)
      /\ UNCHANGED <<worker, radio, gap, s_scanning>>
  BY DEF TableInv, Alternate, HidhCb, handle_open, handle_close
<1>2. Head(hidh) \in Events /\ Tail(hidh) \in Seq(Events)
  BY <1>1, TailIs
<1>3. CASE handle_close
  <2>1. hidh' = Tail(hidh)
    BY <1>3 DEF handle_close
  <2>2. Attached' \subseteq Attached
    <3>1. Head(hidh).dev \in Devs
      BY <1>2 DEF Events
    <3>2. s_dev' = [i \in Slots |-> IF s_dev[i] = Head(hidh).dev THEN NoDev ELSE s_dev[i]]
      BY <1>3 DEF handle_close
    <3>3. Attached' = Attached \ {Head(hidh).dev}
      BY <3>1, <3>2, Detaches
    <3> QED  BY <3>3
  <2>3. /\ (NoOpen(hidh) => NoOpen(hidh')) /\ (OneOpen(hidh) => OneOpen(hidh'))
        /\ ~have_everything => ~have_everything'
    BY <1>1, <2>1, <2>2, OpensOfTail, FewerDevices
  <2> QED  BY <1>1, <2>2, <2>3 DEF RadioInv, NoEndDue
<1>4. CASE handle_open
  <2>1. Head(hidh).event = "open"
    BY <1>4 DEF handle_open
  <2>2. ~NoOpen(hidh)
    <3>1. 1 \in 1 .. Len(hidh) /\ hidh[1] = Head(hidh)
      <4>1. Len(hidh) \in Nat \ {0} /\ Head(hidh) = hidh[1]
        BY <1>1, TailIs
      <4> QED  BY <4>1
    <3> QED  BY <2>1, <3>1 DEF NoOpen
  <2>3. worker \in {"close", "pause"}
    BY <2>2 DEF RadioInv
  <2>4. worker = "close" => OneOpen(hidh) /\ gap = <<>> /\ ~s_scanning
    BY <2>2 DEF RadioInv
  <2>5. worker = "close" => NoOpen(hidh')
    <3>1. OneOpen(hidh) => NoOpen(Tail(hidh))
      BY <1>1, <2>1, OpensOfTail
    <3>2. hidh' = Tail(hidh) \/ hidh' = Append(Tail(hidh), [event |-> "close", dev |-> Head(hidh).dev])
      BY <1>4 DEF handle_open
    <3>3. [event |-> "close", dev |-> Head(hidh).dev] \in Events
      BY <1>2 DEF Events
    <3> QED  BY <1>2, <2>4, <3>1, <3>2, <3>3, OpensOfAppend
  <2>6. NoOpen(hidh') => OneOpen(hidh')
    BY DEF NoOpen, OneOpen
  <2> QED  BY <1>1, <2>3, <2>4, <2>5, <2>6 DEF RadioInv, Searching
<1> QED  BY <1>3, <1>4 DEF HidhCb

(* What comes and goes around the host. *)
LEMMA RadioWorld ==
  ASSUME TableInv, RadioInv, World \/ GapCb \/ UNCHANGED vars
  PROVE  RadioInv'
<1>0. gap \in Seq(Devs \cup {"cmpl", "stopped"}) /\ hidh \in Seq(Events)
  BY DEF RadioInv, TableInv, Alternate
<1>1. CASE (\E d \in Devs : Power(d)) \/ GraceEnds \/ UNCHANGED vars
  <2>1. UNCHANGED <<worker, radio, gap, s_scanning, hidh, table>>
    BY <1>1 DEF Power, GraceEnds, vars, table
  <2> QED  BY <2>1, SameTable DEF RadioInv, NoEndDue
<1>2. CASE \E d \in Devs : LinkLost(d)
  <2>1. PICK d \in Devs : LinkLost(d)
    BY <1>2
  <2>2. /\ UNCHANGED <<worker, radio, gap, s_scanning, table>>
        /\ hidh' = Append(hidh, [event |-> "close", dev |-> d])
    BY <2>1 DEF LinkLost
  <2>3. [event |-> "close", dev |-> d] \in Events
    BY DEF Events
  <2>5. (NoOpen(hidh) => NoOpen(hidh')) /\ (OneOpen(hidh) => OneOpen(hidh'))
    BY <1>0, <2>2, <2>3, OpensOfAppend
  <2>6. Attached' = Attached /\ (have_everything' <=> have_everything)
    <3>1. Attached' = Attached
      BY <2>2 DEF table, Attached
    <3> QED  BY <3>1 DEF have_everything, s_have_kbd_now
  <2> QED  BY <2>2, <2>5, <2>6 DEF RadioInv, NoEndDue
<1>3. CASE \E d \in Devs : Heard(d)
  <2>1. PICK d \in Devs : Heard(d)
    BY <1>3
  <2>2. /\ UNCHANGED <<worker, radio, s_scanning, hidh, table>> /\ radio
        /\ gap' = Append(gap, d)
    BY <2>1 DEF Heard
  <2>3. /\ gap' \in Seq(Devs \cup {"cmpl", "stopped"})
        /\ Len(gap') = Len(gap) + 1 /\ Len(gap) \in Nat
        /\ \A i \in 1 .. Len(gap) : gap'[i] = gap[i]
        /\ gap'[Len(gap) + 1] = d
    BY <1>0, <2>2, AppendIs
  <2>4. NoEndDue => NoEndDue'
    <3>1. \A i \in 1 .. Len(gap') : i \in 1 .. Len(gap) \/ i = Len(gap) + 1
      BY <2>3
    <3> QED  BY <2>3, <3>1 DEF NoEndDue
  <2> QED  BY <2>2, <2>3, <2>4, SameTable DEF RadioInv
<1>4. CASE WindowEnds
  <2>1. /\ UNCHANGED <<worker, s_scanning, hidh, table>> /\ radio /\ ~radio'
        /\ gap' = Append(gap, "cmpl")
    BY <1>4 DEF WindowEnds
  <2>2. gap' \in Seq(Devs \cup {"cmpl", "stopped"})
    BY <1>0, <2>1, AppendIs
  <2> QED  BY <2>1, <2>2, SameTable DEF RadioInv
<1>5. CASE Result
  <2>1. /\ UNCHANGED <<worker, radio, s_scanning, hidh, table>> /\ gap # <<>>
        /\ gap' = Tail(gap)
    BY <1>5 DEF Result
  <2>2. /\ gap' \in Seq(Devs \cup {"cmpl", "stopped"})
        /\ Len(gap') = Len(gap) - 1 /\ Len(gap) \in Nat \ {0}
        /\ \A i \in 1 .. Len(gap) - 1 : gap'[i] = gap[i + 1]
    BY <1>0, <2>1, TailIs
  <2>3. NoEndDue => NoEndDue'
    <3>1. \A i \in 1 .. Len(gap') : i + 1 \in 1 .. Len(gap) /\ gap'[i] = gap[i + 1]
      BY <2>2
    <3> QED  BY <3>1 DEF NoEndDue
  <2> QED  BY <2>1, <2>2, <2>3, SameTable DEF RadioInv
<1>6. CASE ScanOver
  <2>1. /\ UNCHANGED <<worker, radio, hidh, table>> /\ gap # <<>> /\ ~s_scanning'
        /\ gap' = Tail(gap) /\ Head(gap) \in {"cmpl", "stopped"}
    BY <1>6 DEF ScanOver
  <2>2. /\ gap' \in Seq(Devs \cup {"cmpl", "stopped"})
        /\ Len(gap) \in Nat \ {0} /\ Head(gap) = gap[1]
    BY <1>0, <2>1, TailIs
  <2>3. ~NoEndDue
    <3>1. 1 \in 1 .. Len(gap) /\ gap[1] \notin Devs
      BY <2>1, <2>2, BtAssumption
    <3> QED  BY <3>1 DEF NoEndDue
  <2> QED  BY <2>1, <2>2, <2>3, SameTable DEF RadioInv
<1> QED  BY <1>1, <1>2, <1>3, <1>4, <1>5, <1>6 DEF World, GapCb

(* The worker. *)
LEMMA RadioWorker ==
  ASSUME TableInv, RadioInv, Worker
  PROVE  RadioInv'
<1>0. gap \in Seq(Devs \cup {"cmpl", "stopped"}) /\ hidh \in Seq(Events)
  BY DEF RadioInv, TableInv, Alternate
<1>1. CASE StackUp
  <2>1. /\ worker = "boot" /\ worker' \in {"top", "dead"}
        /\ UNCHANGED <<radio, gap, s_scanning, hidh, table>>
    BY <1>1 DEF StackUp
  <2> QED  BY <2>1, SameTable DEF RadioInv, Searching
<1>2. CASE Top
  <2>1. /\ worker = "top" /\ worker' \in {"idle", "slow", "slowKbd", "start"}
        /\ worker' = "start" => ~have_everything
        /\ worker' = "slow" => dev_count = 0
        /\ UNCHANGED <<radio, gap, s_scanning, hidh, table>>
    BY <1>2 DEF Top
  <2>2. dev_count = 0 => Attached = {}
    <3> SUFFICES ASSUME dev_count = 0 PROVE Attached = {}
      OBVIOUS
    <3>1. IsFiniteSet({i \in Slots : s_dev[i] # NoDev})
      <4>1. IsFiniteSet(Slots)
        BY BtAssumption, FS_Interval DEF Slots
      <4> QED  BY <4>1, FS_Subset
    <3>2. {i \in Slots : s_dev[i] # NoDev} = {}
      BY <3>1, FS_EmptySet DEF dev_count
    <3> QED  BY <3>2 DEF Attached
  <2> QED  BY <2>1, <2>2, SameTable DEF RadioInv, Searching
<1>3. CASE Wake
  <2>1. /\ worker \in Sleeps /\ gap = <<>> /\ hidh = <<>>
        /\ worker' \in {"top", "start"}
        /\ worker' = "start" => worker = "slow" \/ ~have_everything
        /\ UNCHANGED <<radio, gap, s_scanning, hidh, table>>
    BY <1>3 DEF Wake, Sleeps
  <2>2. NoOpen(hidh)
    <3>1. Len(hidh) = 0
      BY <2>1
    <3> QED  BY <3>1 DEF NoOpen
  <2>3. Attached = {} => ~have_everything
    BY DEF have_everything, s_have_kbd_now
  <2> QED  BY <2>1, <2>2, <2>3, SameTable DEF RadioInv, Searching, Sleeps
<1>4. CASE SetScanning
  <2>1. /\ worker = "start" /\ worker' = "scan" /\ s_scanning'
        /\ UNCHANGED <<radio, gap, hidh, table>>
    BY <1>4 DEF SetScanning
  <2> QED  BY <2>1, SameTable DEF RadioInv, Searching
<1>5. CASE StartScanning
  <2>1. /\ worker = "scan" /\ worker' = "window" /\ radio'
        /\ UNCHANGED <<s_scanning, gap, hidh, table>>
    BY <1>5 DEF StartScanning
  <2>2. NoEndDue'
    <3>1. Len(gap') = 0
      BY <2>1 DEF RadioInv
    <3> QED  BY <3>1 DEF NoEndDue
  <2> QED  BY <2>1, <2>2, SameTable DEF RadioInv, Searching
<1>6. CASE StartFails
  <2>1. /\ worker = "scan" /\ worker' = "pause" /\ ~s_scanning'
        /\ UNCHANGED <<radio, gap, hidh, table>>
    BY <1>6 DEF StartFails
  <2> QED  BY <2>1, SameTable DEF RadioInv, Searching
<1>7. CASE Receive
  <2>1. worker = "window" /\ UNCHANGED <<s_scanning, hidh, table>>
    BY <1>7 DEF Receive
  <2>2. CASE dev_known_bda(f')
    <3>1. worker' = "window" /\ UNCHANGED <<radio, gap>>
      BY <1>7, <2>2 DEF Receive
    <3> QED  BY <2>1, <3>1, SameTable DEF RadioInv, Searching, NoEndDue
  <2>3. CASE ~dev_known_bda(f')
    <3>1. /\ worker' = "stopping"
          /\ IF s_scanning THEN ~radio' /\ gap' = Append(gap, "stopped")
                           ELSE UNCHANGED <<radio, gap>>
      BY <1>7, <2>3 DEF Receive, StopScanning
    <3>2. gap' \in Seq(Devs \cup {"cmpl", "stopped"}) /\ ~radio'
      <4>1. Append(gap, "stopped") \in Seq(Devs \cup {"cmpl", "stopped"})
        BY <1>0, AppendIs
      <4> QED  BY <1>0, <3>1, <4>1 DEF RadioInv
    <3> QED  BY <2>1, <3>1, <3>2, SameTable DEF RadioInv, Searching
  <2> QED  BY <2>2, <2>3
<1>8. CASE NoHit
  <2>1. /\ worker = "window" /\ worker' = "check"
        /\ UNCHANGED <<radio, s_scanning, gap, hidh, table>>
    BY <1>8 DEF NoHit
  <2> QED  BY <2>1, SameTable DEF RadioInv, Searching, NoEndDue
<1>9. CASE Check
  <2>1. /\ worker = "check" /\ worker' = IF s_scanning THEN "window" ELSE "close"
        /\ UNCHANGED <<radio, s_scanning, gap, hidh, table>>
    BY <1>9 DEF Check
  <2>2. NoOpen(hidh) => OneOpen(hidh)
    BY DEF NoOpen, OneOpen
  <2> QED  BY <2>1, <2>2, SameTable DEF RadioInv, Searching, NoEndDue
<1>10. CASE Deadline
  <2>1. /\ worker = "window" /\ worker' = "close" /\ ~radio
        /\ UNCHANGED <<radio, s_scanning, gap, hidh, table>>
    BY <1>10 DEF Deadline
  <2>2. NoOpen(hidh) => OneOpen(hidh)
    BY DEF NoOpen, OneOpen
  <2> QED  BY <2>1, <2>2, SameTable DEF RadioInv, Searching
<1>11. CASE Settle
  <2>1. /\ worker = "stopping" /\ worker' = "open" /\ ~s_scanning'
        /\ UNCHANGED <<radio, gap, hidh, table>>
    BY <1>11 DEF Settle
  <2> QED  BY <2>1, SameTable DEF RadioInv, Searching
<1>12. CASE \E d \in Devs : Opened(d)
  <2>1. PICK d \in Devs : Opened(d)
    BY <1>12
  <2>2. /\ worker = "open" /\ gap = <<>> /\ worker' = "close"
        /\ hidh' = Append(hidh, [event |-> "open", dev |-> d])
        /\ UNCHANGED <<s_scanning, radio, gap, table>>
    BY <2>1 DEF Opened
  <2>3. OneOpen(hidh')
    <3>1. [event |-> "open", dev |-> d] \in Events
      BY DEF Events
    <3>2. NoOpen(hidh)
      BY <2>2 DEF RadioInv
    <3> QED  BY <1>0, <2>2, <3>1, <3>2, OpensOfAppend
  <2>4. have_everything' <=> have_everything
    <3>1. Attached' = Attached
      BY <2>2 DEF table, Attached
    <3> QED  BY <3>1 DEF have_everything, s_have_kbd_now
  <2> QED  BY <2>2, <2>3, <2>4 DEF RadioInv, Searching
<1>13. CASE NotOpened
  <2>1. /\ worker = "open" /\ gap = <<>> /\ worker' = "close"
        /\ UNCHANGED <<s_scanning, radio, gap, hidh, table>>
    BY <1>13 DEF NotOpened
  <2>2. NoOpen(hidh) => OneOpen(hidh)
    BY DEF NoOpen, OneOpen
  <2> QED  BY <2>1, <2>2, SameTable DEF RadioInv, Searching
<1>14. CASE Close
  <2>1. /\ worker = "close" /\ worker' = IF have_everything THEN "top" ELSE "pause"
        /\ IF s_scanning THEN ~radio' /\ gap' = Append(gap, "stopped")
                         ELSE UNCHANGED <<radio, gap>>
        /\ UNCHANGED <<s_scanning, hidh, table>>
    BY <1>14 DEF Close, StopScanning
  <2>2. gap' \in Seq(Devs \cup {"cmpl", "stopped"}) /\ ~radio'
    <3>1. Append(gap, "stopped") \in Seq(Devs \cup {"cmpl", "stopped"})
      BY <1>0, AppendIs
    <3> QED  BY <1>0, <2>1, <3>1 DEF RadioInv
  <2> QED  BY <2>1, <2>2, SameTable DEF RadioInv, Searching
<1> QED  BY <1>1, <1>2, <1>3, <1>4, <1>5, <1>6, <1>7, <1>8, <1>9, <1>10, <1>11, <1>12,
            <1>13, <1>14 DEF Worker

(***************************************************************************)
(* The radio never scans while the worker sleeps, and never while it       *)
(* connects: whoever ends a window early also ends the scan.               *)
(***************************************************************************)
THEOREM RadioRestsHolds == Spec => []RadioRests
<1>1. RadioInv => RadioRests
  BY DEF RadioInv, RadioRests, Sleeps
<1>2. TableInv /\ TableInv' /\ RadioInv /\ [Next]_vars => RadioInv'
  BY RadioHidh, RadioWorld, RadioWorker DEF Next
<1> QED  BY <1>1, <1>2, TableInit, TableNext, RadioInit, PTL DEF Spec
=============================================================================

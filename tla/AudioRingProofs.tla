--------------------------- MODULE AudioRingProofs ---------------------------
(***************************************************************************)
(* Proofs about AudioRing, for every capacity, block and buffer size: when *)
(* the ring holds a whole number of frames, left and right keep their      *)
(* places and the drop counter is exact. Whatever it holds, the bytes      *)
(* come in order.                                                          *)
(***************************************************************************)
EXTENDS AudioRing, SequenceTheorems, TLAPS

LEMMA ModShift ==
  ASSUME NEW a \in Nat, NEW b \in Nat, a % 4 = 0
  PROVE  (a + b) % 4 = b % 4
OBVIOUS

LEMMA ModTimes ==
  ASSUME NEW m \in Nat
  PROVE  (m * 4) % 4 = 0
OBVIOUS

LEMMA WholeIsWhole ==
  ASSUME NEW n \in Nat
  PROVE  /\ Whole(n) \in 0 .. n /\ Whole(n) % 4 = 0
         /\ n - Whole(n) < 4
         /\ n % 4 = 0 => Whole(n) = n
BY DEF Whole, FrameBytes

LEMMA SmallerIs ==
  ASSUME NEW m \in Int, NEW n \in Int
  PROVE  /\ Smaller(m, n) \in {m, n}
         /\ Smaller(m, n) <= m /\ Smaller(m, n) <= n
BY DEF Smaller

(* Whole frames, from the first byte of one on. *)
Framed(s) ==
  /\ s \in Seq(Nat)
  /\ Len(s) % 4 = 0
  /\ \A i \in 1 .. Len(s) : s[i] % 4 = (i - 1) % 4

LEMMA FramedBytes ==
  ASSUME NEW m \in Nat, NEW n \in Nat, n % 4 = 0
  PROVE  Framed(Bytes(m * 4, n)) /\ Len(Bytes(m * 4, n)) = n
<1>1. /\ Bytes(m * 4, n) \in Seq(Nat) /\ Len(Bytes(m * 4, n)) = n
      /\ \A i \in 1 .. n : Bytes(m * 4, n)[i] = m * 4 + (i - 1)
  BY DEF Bytes
<1>2. \A i \in 1 .. n : (m * 4 + (i - 1)) % 4 = (i - 1) % 4
  BY ModShift, ModTimes
<1>3. QED
  BY <1>1, <1>2 DEF Framed

LEMMA FramedConcat ==
  ASSUME NEW s, NEW t, Framed(s), Framed(t)
  PROVE  Framed(s \o t) /\ Len(s \o t) = Len(s) + Len(t)
<1>1. /\ s \in Seq(Nat) /\ t \in Seq(Nat)
      /\ Len(s) \in Nat /\ Len(t) \in Nat
      /\ Len(s) % 4 = 0 /\ Len(t) % 4 = 0
  BY DEF Framed
<1>2. s \o t \in Seq(Nat) /\ Len(s \o t) = Len(s) + Len(t)
  BY <1>1
<1>3. (Len(s) + Len(t)) % 4 = 0
  BY <1>1, ModShift
<1>4. ASSUME NEW i \in 1 .. Len(s) + Len(t)
      PROVE  (s \o t)[i] % 4 = (i - 1) % 4
  <2>1. CASE i <= Len(s)
    <3>1. i \in 1 .. Len(s) /\ (s \o t)[i] = s[i]
      BY <2>1, <1>1
    <3>2. QED
      BY <3>1 DEF Framed
  <2>2. CASE i > Len(s)
    <3>1. PICK j \in 1 .. Len(t) : i = Len(s) + j
      <4>1. i - Len(s) \in 1 .. Len(t) /\ i = Len(s) + (i - Len(s))
        BY <2>2, <1>1
      <4>2. QED
        BY <4>1
    <3>2. (s \o t)[i] = t[j]
      BY <3>1, <2>2, <1>1
    <3>3. t[j] % 4 = (j - 1) % 4
      BY <3>1 DEF Framed
    <3>4. (Len(s) + (j - 1)) % 4 = (j - 1) % 4
      <4>1. j - 1 \in Nat
        BY <3>1
      <4>2. QED
        BY <4>1, <1>1, ModShift
    <3>5. i - 1 = Len(s) + (j - 1)
      BY <3>1, <1>1
    <3>6. QED
      BY <3>2, <3>3, <3>4, <3>5
  <2>3. i <= Len(s) \/ i > Len(s)
    BY <1>1
  <2>4. QED
    BY <2>1, <2>2, <2>3
<1>5. QED
  BY <1>2, <1>3, <1>4 DEF Framed

LEMMA FramedCut ==
  ASSUME NEW s, Framed(s), NEW n \in 0 .. Len(s), n % 4 = 0
  PROVE  /\ Framed(SubSeq(s, 1, n)) /\ Len(SubSeq(s, 1, n)) = n
         /\ Framed(SubSeq(s, n + 1, Len(s)))
         /\ Len(SubSeq(s, n + 1, Len(s))) = Len(s) - n
<1>1. s \in Seq(Nat) /\ Len(s) \in Nat /\ Len(s) % 4 = 0 /\ n \in Nat
  BY DEF Framed
<1>2. Framed(SubSeq(s, 1, n)) /\ Len(SubSeq(s, 1, n)) = n
  <2>1. /\ SubSeq(s, 1, n) \in Seq(Nat) /\ Len(SubSeq(s, 1, n)) = n
        /\ \A i \in 1 .. n : SubSeq(s, 1, n)[i] = s[i]
    BY <1>1
  <2>2. \A i \in 1 .. n : i \in 1 .. Len(s)
    BY <1>1
  <2>3. \A i \in 1 .. n : s[i] % 4 = (i - 1) % 4
    BY <2>2 DEF Framed
  <2>4. QED
    BY <2>1, <2>3 DEF Framed
<1>3. DEFINE t == SubSeq(s, n + 1, Len(s))
<1>4. /\ t \in Seq(Nat) /\ Len(t) = Len(s) - n
      /\ \A i \in 1 .. Len(s) - n : t[i] = s[n + i]
  BY <1>1
<1> HIDE DEF t
<1>5. (Len(s) - n) % 4 = 0
  BY <1>1
<1>6. ASSUME NEW i \in 1 .. Len(s) - n PROVE t[i] % 4 = (i - 1) % 4
  <2>1. n + i \in 1 .. Len(s) /\ (n + i) - 1 = n + (i - 1) /\ i - 1 \in Nat
    BY <1>1
  <2>2. s[n + i] % 4 = ((n + i) - 1) % 4
    BY <2>1 DEF Framed
  <2>3. (n + (i - 1)) % 4 = (i - 1) % 4
    BY <2>1, <1>1, ModShift
  <2>4. QED
    BY <1>4, <2>1, <2>2, <2>3
<1>7. QED
  BY <1>2, <1>4, <1>5, <1>6 DEF t, Framed

-----------------------------------------------------------------------------
FrameInv ==
  /\ room \in Nat /\ room % 4 = 0
  /\ made \in Nat /\ heard \in Nat /\ g_audio_drops \in Nat
  /\ Framed(s_ring) /\ Framed(rx) /\ Framed(played)
  /\ Len(s_ring) <= room /\ Len(rx) <= RxBytes
  /\ pc0 = "receive" => Len(rx) = 0
  /\ Counted

LEMMA FrameStep ==
  ASSUME FrameInv, [Next]_vars
  PROVE  FrameInv'
<1> USE DEF FrameBytes
<1>1. CASE Write
  <2> DEFINE bytes == BlockFrames * 4
             sent  == Smaller(bytes, room - Len(s_ring))
             new   == Bytes(made * 4, sent)
  <2>1. /\ s_ring' = s_ring \o new
        /\ g_audio_drops' = g_audio_drops + (bytes - sent) \div 4
        /\ made' = made + BlockFrames
        /\ UNCHANGED <<room, rx, pc0, played, heard>>
    BY <1>1 DEF Write
  <2>2. /\ bytes \in Nat /\ bytes % 4 = 0
        /\ Len(s_ring) \in Nat /\ room - Len(s_ring) \in Nat
        /\ (room - Len(s_ring)) % 4 = 0
    <3>1. bytes \in Nat /\ bytes % 4 = 0
      BY AudioAssumption, ModTimes
    <3>2. /\ Len(s_ring) \in Nat /\ Len(s_ring) % 4 = 0
          /\ Len(s_ring) <= room /\ room \in Nat /\ room % 4 = 0
      <4>1. Framed(s_ring) /\ Len(s_ring) <= room
        BY DEF FrameInv
      <4>2. s_ring \in Seq(Nat) /\ Len(s_ring) % 4 = 0
        BY <4>1 DEF Framed
      <4>3. room \in Nat /\ room % 4 = 0
        BY DEF FrameInv
      <4>4. QED
        BY <4>1, <4>2, <4>3
    <3>3. QED
      BY <3>1, <3>2
  <2>3. sent \in {bytes, room - Len(s_ring)} /\ sent <= bytes /\ sent <= room - Len(s_ring)
    BY <2>2, SmallerIs
  <2> HIDE DEF sent
  <2>4. sent \in Nat /\ sent % 4 = 0 /\ bytes - sent \in Nat
    BY <2>2, <2>3
  <2>5. Framed(new) /\ Len(new) = sent
    BY <2>4, FramedBytes DEF FrameInv
  <2> HIDE DEF new
  <2>6. Framed(s_ring') /\ Len(s_ring') = Len(s_ring) + sent
    BY <2>1, <2>5, FramedConcat DEF FrameInv
  <2>7. (bytes - sent) \div 4 \in Nat /\ ((bytes - sent) \div 4) * 4 = bytes - sent
    BY <2>2, <2>4
  <2>8. Counted'
    <3>1. /\ made \in Nat /\ heard \in Nat /\ g_audio_drops \in Nat /\ BlockFrames \in Nat
          /\ (made - heard - g_audio_drops) * 4 = Len(s_ring) + Len(rx)
          /\ Len(rx) \in Nat
      BY AudioAssumption DEF FrameInv, Framed, Counted
    <3>2. (made' - heard' - g_audio_drops') * 4
            = (made - heard - g_audio_drops) * 4 + BlockFrames * 4 - ((bytes - sent) \div 4) * 4
      BY <3>1, <2>1, <2>7
    <3>3. (made' - heard' - g_audio_drops') * 4 = Len(s_ring) + Len(rx) + sent
      BY <3>1, <3>2, <2>2, <2>4, <2>7
    <3>4. QED
      BY <3>1, <3>3, <2>1, <2>2, <2>4, <2>6 DEF Counted
  <2>9. Len(s_ring') <= room'
    BY <2>1, <2>2, <2>3, <2>4, <2>6 DEF FrameInv
  <2>10. made' \in Nat /\ g_audio_drops' \in Nat
    BY <2>1, <2>7, AudioAssumption DEF FrameInv
  <2>11. QED
    BY <2>1, <2>6, <2>8, <2>9, <2>10 DEF FrameInv
<1>2. CASE Receive
  <2> DEFINE n == Smaller(Len(s_ring), RxBytes - Len(rx))
  <2>1. /\ rx' = rx \o SubSeq(s_ring, 1, n)
        /\ s_ring' = SubSeq(s_ring, n + 1, Len(s_ring))
        /\ pc0' = "write" /\ pc0 = "receive"
        /\ UNCHANGED <<room, made, played, heard, g_audio_drops>>
    BY <1>2 DEF Receive
  <2>2. /\ Len(s_ring) \in Nat /\ Len(s_ring) % 4 = 0
        /\ Len(rx) = 0 /\ RxBytes \in Nat /\ RxBytes % 4 = 0
    <3>1. Len(s_ring) \in Nat /\ Len(s_ring) % 4 = 0
      BY DEF FrameInv, Framed
    <3>2. Len(rx) = 0
      BY <2>1 DEF FrameInv
    <3>3. QED
      BY <3>1, <3>2, AudioAssumption
  <2>3. n \in 0 .. Len(s_ring) /\ n <= RxBytes /\ n % 4 = 0
    BY <2>2, SmallerIs
  <2> HIDE DEF n
  <2>4. /\ Framed(SubSeq(s_ring, 1, n)) /\ Len(SubSeq(s_ring, 1, n)) = n
        /\ Framed(s_ring') /\ Len(s_ring') = Len(s_ring) - n
    BY <2>1, <2>3, FramedCut DEF FrameInv
  <2>5. Framed(rx') /\ Len(rx') = Len(rx) + n
    BY <2>1, <2>4, FramedConcat DEF FrameInv
  <2>6. QED
    <3>1. Len(s_ring') <= room /\ Len(rx') <= RxBytes
      BY <2>2, <2>3, <2>4, <2>5, AudioAssumption DEF FrameInv
    <3>2. Len(s_ring') + Len(rx') = Len(s_ring) + Len(rx)
      BY <2>2, <2>3, <2>4, <2>5
    <3>3. Counted'
      BY <2>1, <3>2 DEF FrameInv, Counted
    <3>4. QED
      BY <2>1, <2>4, <2>5, <3>1, <3>3 DEF FrameInv
<1>3. CASE Play
  <2> DEFINE play == Whole(Len(rx))
  <2>1. /\ played' = SubSeq(rx, 1, play)
        /\ heard' = heard + play \div 4
        /\ rx' = SubSeq(rx, play + 1, Len(rx))
        /\ UNCHANGED <<room, made, s_ring, g_audio_drops>>
    BY <1>3 DEF Play
  <2>2. Len(rx) \in Nat /\ Len(rx) % 4 = 0
    BY DEF FrameInv, Framed
  <2>3. play = Len(rx)
    BY <2>2, WholeIsWhole
  <2> HIDE DEF play
  <2>4. /\ Framed(played') /\ Framed(rx') /\ Len(rx') = 0
    <3>1. Len(rx) \in 0 .. Len(rx)
      BY <2>2
    <3>2. /\ Framed(SubSeq(rx, 1, Len(rx)))
          /\ Framed(SubSeq(rx, Len(rx) + 1, Len(rx)))
          /\ Len(SubSeq(rx, Len(rx) + 1, Len(rx))) = Len(rx) - Len(rx)
      BY <3>1, <2>2, FramedCut DEF FrameInv
    <3>3. QED
      BY <3>2, <2>1, <2>2, <2>3
  <2>5. (Len(rx) \div 4) * 4 = Len(rx) /\ Len(rx) \div 4 \in Nat
    BY <2>2
  <2>6. heard' = heard + Len(rx) \div 4 /\ heard' \in Nat
    BY <2>1, <2>3, <2>5 DEF FrameInv
  <2>7. Len(s_ring) \in Nat
    <3>1. Framed(s_ring)
      BY DEF FrameInv
    <3>2. s_ring \in Seq(Nat)
      BY <3>1 DEF Framed
    <3>3. QED
      BY <3>2
  <2>8. Counted'
    <3>1. /\ made \in Nat /\ heard \in Nat /\ g_audio_drops \in Nat
          /\ (made - heard - g_audio_drops) * 4 = Len(s_ring) + Len(rx)
      BY DEF FrameInv, Counted
    <3>2. (made - (heard + Len(rx) \div 4) - g_audio_drops) * 4
            = (made - heard - g_audio_drops) * 4 - (Len(rx) \div 4) * 4
      BY <3>1, <2>5
    <3>3. (made - (heard + Len(rx) \div 4) - g_audio_drops) * 4 = Len(s_ring)
      BY <3>1, <3>2, <2>2, <2>5, <2>7
    <3>4. (made' - heard' - g_audio_drops') * 4 = Len(s_ring)
      BY <3>3, <2>1, <2>6
    <3>5. Len(s_ring') + Len(rx') = Len(s_ring)
      <4>1. Len(s_ring') = Len(s_ring)
        BY <2>1
      <4>2. Len(rx') = 0
        BY <2>4
      <4>3. QED
        BY <4>1, <4>2, <2>7
    <3>6. QED
      BY <3>4, <3>5 DEF Counted
  <2>9. Len(rx') <= RxBytes
    BY <2>4, AudioAssumption
  <2>10. QED
    BY <2>1, <2>4, <2>6, <2>8, <2>9 DEF FrameInv
<1>4. CASE Starve
  BY <1>4 DEF Starve, FrameInv, Counted
<1>5. CASE UNCHANGED vars
  BY <1>5 DEF vars, FrameInv, Counted
<1>6. QED
  BY <1>1, <1>2, <1>3, <1>4, <1>5 DEF Next

(* The capacity never changes; what FrameInv says holds if it is whole. *)
WholeInv == room \in Nat /\ (HoldsWholeFrames => FrameInv)

LEMMA RoomFixed == [Next]_vars => room' = room
BY DEF Next, vars, Write, Receive, Starve, Play

LEMMA WholeInit == Init => WholeInv
<1> SUFFICES ASSUME Init PROVE WholeInv
  OBVIOUS
<1>1. Framed(<< >>) /\ Len(<< >>) = 0
  BY DEF Framed
<1>2. room \in Nat
  BY AudioAssumption DEF Init
<1>3. ASSUME HoldsWholeFrames PROVE FrameInv
  BY <1>1, <1>2, <1>3, AudioAssumption
     DEF Init, FrameInv, Counted, HoldsWholeFrames, FrameBytes
<1>4. QED
  BY <1>2, <1>3 DEF WholeInv

LEMMA WholeStep == WholeInv /\ [Next]_vars => WholeInv'
<1> SUFFICES ASSUME WholeInv, [Next]_vars PROVE WholeInv'
  OBVIOUS
<1>1. room' = room
  BY RoomFixed
<1>2. ASSUME HoldsWholeFrames' PROVE FrameInv'
  BY <1>1, <1>2, FrameStep DEF WholeInv, HoldsWholeFrames
<1>3. QED
  BY <1>1, <1>2 DEF WholeInv

(***************************************************************************)
(* With room for whole frames in the ring, overruns of any length leave    *)
(* left and right of audio_task's output in their places.                  *)
(***************************************************************************)
THEOREM PhaseKeptHolds == SafeSpec => []PhaseKept
<1>1. WholeInv => PhaseKept
  <2>1. SUFFICES ASSUME FrameInv, NEW i \in DOMAIN played
                 PROVE  played[i] % 4 = (i - 1) % 4
    BY DEF WholeInv, PhaseKept, InPhase, FrameBytes
  <2>2. played \in Seq(Nat) /\ i \in 1 .. Len(played)
    <3>1. Framed(played)
      BY <2>1 DEF FrameInv
    <3>2. played \in Seq(Nat)
      BY <3>1 DEF Framed
    <3>3. QED
      BY <3>2, <2>1
  <2>3. QED
    BY <2>1, <2>2 DEF FrameInv, Framed
<1>2. QED
  BY <1>1, WholeInit, WholeStep, PTL DEF SafeSpec

(***************************************************************************)
(* With room for whole frames in the ring, g_audio_drops accounts exactly  *)
(* for the frames that audio_write_s32 was given and the DAC never gets.   *)
(***************************************************************************)
THEOREM DropsCountedHolds == SafeSpec => []DropsCounted
<1>1. WholeInv => DropsCounted
  BY DEF WholeInv, FrameInv, DropsCounted
<1>2. QED
  BY <1>1, WholeInit, WholeStep, PTL DEF SafeSpec

-----------------------------------------------------------------------------
(* The order of the bytes, whatever the ring holds.                        *)

LEMMA ByteConcat ==
  ASSUME NEW s \in Seq(Nat), NEW t \in Seq(Nat)
  PROVE  /\ s \o t \in Seq(Nat) /\ Len(s \o t) = Len(s) + Len(t)
         /\ \A i \in 1 .. Len(s) : (s \o t)[i] = s[i]
         /\ \A i \in Len(s) + 1 .. Len(s) + Len(t) : (s \o t)[i] = t[i - Len(s)]
OBVIOUS

LEMMA ByteConcatAgain ==
  ASSUME NEW s \in Seq(Nat), NEW t \in Seq(Nat), NEW u \in Seq(Nat)
  PROVE  (s \o t) \o u = s \o (t \o u)
BY ConcatAssociative

Rising(s, m) ==
  /\ s \in Seq(Nat)
  /\ \A i \in 1 .. Len(s) : s[i] < m
  /\ \A i \in 1 .. Len(s) - 1 : s[i] < s[i + 1]

(* The bytes of a block come after all that were made before. *)
LEMMA RisingWrite ==
  ASSUME NEW m \in Nat, NEW s, Rising(s, m), NEW n \in Nat
  PROVE  Rising(s \o Bytes(m, n), m + n)
<1> DEFINE b == Bytes(m, n)
           t == s \o b
<1>1. b \in Seq(Nat) /\ Len(b) = n /\ \A i \in 1 .. n : b[i] = m + (i - 1)
  BY DEF Bytes
<1>2. s \in Seq(Nat) /\ Len(s) \in Nat
  BY DEF Rising
<1> HIDE DEF b
<1>3. /\ t \in Seq(Nat) /\ Len(t) = Len(s) + n
      /\ \A i \in 1 .. Len(s) : t[i] = s[i]
      /\ \A i \in Len(s) + 1 .. Len(s) + n : t[i] = b[i - Len(s)]
  BY <1>1, <1>2, ByteConcat, Zenon
<1> HIDE DEF t
<1>4. \A i \in Len(s) + 1 .. Len(s) + n : t[i] = m + (i - Len(s) - 1)
  <2>1. SUFFICES ASSUME NEW i \in Len(s) + 1 .. Len(s) + n PROVE t[i] = m + (i - Len(s) - 1)
    OBVIOUS
  <2>2. i - Len(s) \in 1 .. n
    BY <1>2
  <2> QED  BY <1>1, <1>3, <2>2
<1>5. ASSUME NEW i \in 1 .. Len(t) PROVE t[i] < m + n
  <2>1. CASE i \in 1 .. Len(s)
    <3>1. s[i] \in Nat /\ s[i] < m
      BY <1>2, <2>1 DEF Rising
    <3> QED  BY <1>3, <2>1, <3>1
  <2>2. CASE i \in Len(s) + 1 .. Len(s) + n
    BY <1>2, <1>4, <2>2
  <2> QED  BY <1>2, <1>3, <1>5, <2>1, <2>2
<1>6. ASSUME NEW i \in 1 .. Len(t) - 1 PROVE t[i] < t[i + 1]
  <2>1. CASE i < Len(s)
    <3>1. i \in 1 .. Len(s) - 1 /\ i \in 1 .. Len(s) /\ i + 1 \in 1 .. Len(s)
      BY <1>2, <2>1
    <3>2. s[i] < s[i + 1]
      BY <3>1 DEF Rising
    <3> QED  BY <1>3, <3>1, <3>2
  <2>2. CASE i = Len(s)
    <3>1. i \in 1 .. Len(s) /\ i + 1 \in Len(s) + 1 .. Len(s) + n /\ i + 1 - Len(s) - 1 = 0
      BY <1>2, <1>3, <2>2
    <3>2. t[i] = s[i] /\ s[i] < m
      BY <1>3, <3>1 DEF Rising
    <3>3. t[i + 1] = m
      BY <1>4, <3>1
    <3> QED  BY <3>2, <3>3
  <2>3. CASE i > Len(s)
    <3>1. i \in Len(s) + 1 .. Len(s) + n /\ i + 1 \in Len(s) + 1 .. Len(s) + n
      BY <1>2, <1>3, <2>3
    <3>2. t[i] = m + (i - Len(s) - 1) /\ t[i + 1] = m + (i + 1 - Len(s) - 1)
      BY <1>4, <3>1
    <3> QED  BY <1>2, <3>1, <3>2
  <2> QED  BY <1>2, <2>1, <2>2, <2>3
<1> QED  BY <1>3, <1>5, <1>6 DEF Rising, t, b

(* What is left of a stream that rises, when its beginning is gone. *)
LEMMA RisingRest ==
  ASSUME NEW a \in Seq(Nat), NEW b \in Seq(Nat), NEW m, Rising(a \o b, m)
  PROVE  Rising(b, m)
<1> DEFINE t == a \o b
<1>1. /\ Len(t) = Len(a) + Len(b) /\ Len(a) \in Nat /\ Len(b) \in Nat
      /\ \A i \in 1 .. Len(b) : t[Len(a) + i] = b[i]
  OBVIOUS
<1>2. /\ \A i \in 1 .. Len(t) : t[i] < m
      /\ \A i \in 1 .. Len(t) - 1 : t[i] < t[i + 1]
  BY DEF Rising
<1> HIDE DEF t
<1>3. ASSUME NEW i \in 1 .. Len(b) PROVE b[i] < m
  <2>1. Len(a) + i \in 1 .. Len(t)
    BY <1>1
  <2> QED  BY <1>1, <1>2, <2>1
<1>4. ASSUME NEW i \in 1 .. Len(b) - 1 PROVE b[i] < b[i + 1]
  <2>1. /\ Len(a) + i \in 1 .. Len(t) - 1 /\ i \in 1 .. Len(b) /\ i + 1 \in 1 .. Len(b)
        /\ Len(a) + i + 1 = Len(a) + (i + 1)
    BY <1>1
  <2> QED  BY <1>1, <1>2, <2>1
<1> QED  BY <1>3, <1>4 DEF Rising

(* A cut loses nothing. *)
LEMMA CutWhole ==
  ASSUME NEW s \in Seq(Nat), NEW n \in 0 .. Len(s)
  PROVE  /\ SubSeq(s, 1, n) \in Seq(Nat) /\ SubSeq(s, n + 1, Len(s)) \in Seq(Nat)
         /\ Len(SubSeq(s, 1, n)) = n /\ Len(SubSeq(s, n + 1, Len(s))) = Len(s) - n
         /\ SubSeq(s, 1, n) \o SubSeq(s, n + 1, Len(s)) = s
<1>1. /\ 1 \in 1 .. Len(s) + 1 /\ n \in 1 - 1 .. Len(s) /\ Len(s) \in n .. Len(s)
      /\ Len(s) \in Nat
  OBVIOUS
<1>2. SubSeq(s, 1, n) \o SubSeq(s, n + 1, Len(s)) = s
  BY <1>1, ConcatAdjacentSubSeq, SubSeqFull
<1>3. \A i \in 1 .. Len(s) : s[i] \in Nat
  OBVIOUS
<1>4. /\ SubSeq(s, 1, n) \in Seq(Nat) /\ Len(SubSeq(s, 1, n)) = n
  BY <1>1, <1>3
<1>5. /\ SubSeq(s, n + 1, Len(s)) \in Seq(Nat) /\ Len(SubSeq(s, n + 1, Len(s))) = Len(s) - n
  BY <1>1, <1>3
<1> QED  BY <1>2, <1>4, <1>5

(* The pipeline rises, and holds nothing that was not made. *)
OrderInv ==
  /\ room \in Nat /\ made \in Nat
  /\ played \in Seq(Nat) /\ rx \in Seq(Nat) /\ s_ring \in Seq(Nat)
  /\ Len(s_ring) <= room /\ Len(rx) <= RxBytes
  /\ Rising(Pipeline, made * FrameBytes)

(* A send appends, a receive moves the border, a block played goes away. *)
LEMMA OrderStep ==
  ASSUME OrderInv, [Next]_vars
  PROVE  OrderInv'
<1> USE DEF FrameBytes
<1>0. /\ played \in Seq(Nat) /\ rx \in Seq(Nat) /\ s_ring \in Seq(Nat)
      /\ Len(s_ring) \in Nat /\ Len(rx) \in Nat /\ room \in Nat /\ made \in Nat
      /\ Len(s_ring) <= room /\ Len(rx) <= RxBytes /\ RxBytes \in Nat /\ BlockFrames \in Nat
  BY AudioAssumption DEF OrderInv
<1>1. CASE Write
  <2> DEFINE bytes == BlockFrames * 4
             sent  == Smaller(bytes, room - Len(s_ring))
             new   == Bytes(made * 4, sent)
  <2>1. /\ s_ring' = s_ring \o new /\ made' = made + BlockFrames
        /\ UNCHANGED <<room, rx, played>>
    BY <1>1 DEF Write
  <2>2. sent \in Nat /\ sent <= bytes /\ sent <= room - Len(s_ring) /\ bytes \in Nat
    BY <1>0, SmallerIs
  <2> HIDE DEF sent, bytes
  <2>3. new \in Seq(Nat) /\ Len(new) = sent
    BY <1>0, <2>2 DEF Bytes
  <2>4. Pipeline' = Pipeline \o new
    <3>1. played \o rx \in Seq(Nat)
      BY <1>0
    <3>2. ((played \o rx) \o s_ring) \o new = (played \o rx) \o (s_ring \o new)
      BY <1>0, <2>3, <3>1, ByteConcatAgain
    <3> QED  BY <2>1, <3>2 DEF Pipeline
  <2>5. Rising(Pipeline \o new, made * 4 + sent)
    <3>1. made * 4 \in Nat /\ Rising(Pipeline, made * 4)
      BY <1>0 DEF OrderInv
    <3> QED  BY <2>2, <3>1, RisingWrite
  <2>6. Rising(Pipeline \o new, made' * 4)
    <3>1. made' * 4 = made * 4 + bytes /\ made * 4 \in Nat
      BY <1>0, <2>1 DEF bytes
    <3>2. made * 4 + sent <= made' * 4 /\ made' * 4 \in Nat /\ made * 4 + sent \in Nat
      BY <2>2, <3>1
    <3>3. ASSUME NEW t, Rising(t, made * 4 + sent) PROVE Rising(t, made' * 4)
      <4>1. \A i \in 1 .. Len(t) : t[i] \in Nat /\ t[i] < made * 4 + sent
        BY <3>3 DEF Rising
      <4>2. \A i \in 1 .. Len(t) : t[i] < made' * 4
        BY <3>2, <4>1
      <4> QED  BY <3>3, <4>2 DEF Rising
    <3> QED  BY <2>5, <3>3
  <2>7. s_ring' \in Seq(Nat) /\ Len(s_ring') <= room
    BY <1>0, <2>1, <2>2, <2>3
  <2>8. made' \in Nat
    BY <1>0, <2>1
  <2> QED  BY <1>0, <2>1, <2>4, <2>6, <2>7, <2>8 DEF OrderInv
<1>2. CASE Receive
  <2> DEFINE n == Smaller(Len(s_ring), RxBytes - Len(rx))
             a == SubSeq(s_ring, 1, n)
             b == SubSeq(s_ring, n + 1, Len(s_ring))
  <2>1. rx' = rx \o a /\ s_ring' = b /\ UNCHANGED <<room, made, played>>
    BY <1>2 DEF Receive
  <2>2. n \in 0 .. Len(s_ring) /\ n <= RxBytes - Len(rx)
    BY <1>0, SmallerIs
  <2> HIDE DEF n
  <2>3. /\ a \in Seq(Nat) /\ b \in Seq(Nat) /\ Len(a) = n /\ Len(b) = Len(s_ring) - n
        /\ a \o b = s_ring
    BY <1>0, <2>2, CutWhole
  <2> HIDE DEF a, b
  <2>4. rx' \in Seq(Nat) /\ Len(rx') = Len(rx) + n
    BY <1>0, <2>1, <2>3, ByteConcat
  <2>5. Pipeline' = Pipeline
    <3>1. (played \o (rx \o a)) \o b = (played \o rx) \o (a \o b)
      <4>1. played \o rx \in Seq(Nat)
        BY <1>0
      <4>2. (played \o (rx \o a)) = (played \o rx) \o a
        BY <1>0, <2>3, ByteConcatAgain
      <4>3. ((played \o rx) \o a) \o b = (played \o rx) \o (a \o b)
        BY <2>3, <4>1, ByteConcatAgain
      <4> QED  BY <4>2, <4>3
    <3> QED  BY <2>1, <2>3, <3>1 DEF Pipeline
  <2>6. Len(rx') <= RxBytes /\ Len(s_ring') <= room
    BY <1>0, <2>1, <2>2, <2>3, <2>4
  <2> QED  BY <1>0, <2>1, <2>3, <2>4, <2>5, <2>6 DEF OrderInv
<1>3. CASE Play
  <2> DEFINE play == Whole(Len(rx))
             a == SubSeq(rx, 1, play)
             b == SubSeq(rx, play + 1, Len(rx))
  <2>1. played' = a /\ rx' = b /\ UNCHANGED <<room, made, s_ring>>
    BY <1>3 DEF Play
  <2>2. play \in 0 .. Len(rx)
    BY <1>0, WholeIsWhole
  <2> HIDE DEF play
  <2>3. /\ a \in Seq(Nat) /\ b \in Seq(Nat) /\ Len(b) = Len(rx) - play
        /\ a \o b = rx
    BY <1>0, <2>2, CutWhole
  <2> HIDE DEF a, b
  <2>4. Pipeline' = rx \o s_ring /\ Pipeline = played \o (rx \o s_ring)
    <3>1. a \o b = rx
      BY <2>3
    <3>2. (a \o b) \o s_ring = rx \o s_ring
      BY <3>1
    <3>3. (played \o rx) \o s_ring = played \o (rx \o s_ring)
      BY <1>0, ByteConcatAgain
    <3> QED  BY <2>1, <3>2, <3>3 DEF Pipeline
  <2>5. Rising(rx \o s_ring, made * 4)
    <3>1. rx \o s_ring \in Seq(Nat)
      BY <1>0
    <3>2. Rising(played \o (rx \o s_ring), made * 4)
      BY <2>4 DEF OrderInv
    <3> QED  BY <1>0, <3>1, <3>2, RisingRest
  <2>6. Len(rx') <= RxBytes
    BY <1>0, <2>1, <2>2, <2>3
  <2> QED  BY <1>0, <2>1, <2>3, <2>4, <2>5, <2>6 DEF OrderInv
<1>4. CASE Starve
  BY <1>4 DEF Starve, OrderInv, Pipeline
<1>5. CASE UNCHANGED vars
  BY <1>5 DEF vars, OrderInv, Pipeline
<1> QED  BY <1>1, <1>2, <1>3, <1>4, <1>5 DEF Next

LEMMA OrderInit == Init => OrderInv
<1> SUFFICES ASSUME Init PROVE OrderInv
  OBVIOUS
<1>1. room \in Nat /\ RxBytes \in Nat
  BY AudioAssumption DEF Init
<1>2. Pipeline = <<>> /\ made = 0 /\ played = <<>> /\ rx = <<>> /\ s_ring = <<>>
  BY DEF Init, Pipeline
<1>3. Rising(<<>>, made * FrameBytes)
  BY DEF Rising
<1> QED  BY <1>1, <1>2, <1>3 DEF OrderInv

(***************************************************************************)
(* Whatever is dropped and cut, the DAC gets what it gets in order and no  *)
(* byte twice; and that does not rest on room for whole frames.            *)
(***************************************************************************)
THEOREM InOrderHolds == SafeSpec => []InOrder
<1>1. Init => OrderInv
  BY OrderInit
<1>2. OrderInv => InOrder
  BY DEF OrderInv, Rising, InOrder
<1> QED  BY <1>1, <1>2, OrderStep, PTL DEF SafeSpec

-----------------------------------------------------------------------------
(* The types: lengths that are bounded and what the task carries.          *)

LEMMA DivNat ==
  ASSUME NEW n \in Nat
  PROVE  n \div FrameBytes \in Nat
BY DEF FrameBytes

RestOK ==
  /\ room \in {RingBytes, RingBytes - 1}
  /\ pc0 \in {"receive", "write"} /\ run \in BOOLEAN
  /\ pc0 = "receive" => Len(rx) < FrameBytes
  /\ heard \in Nat /\ g_audio_drops \in Nat

LEMMA RestStep ==
  ASSUME OrderInv, RestOK, [Next]_vars
  PROVE  RestOK'
<1>0. /\ rx \in Seq(Nat) /\ s_ring \in Seq(Nat)
      /\ Len(s_ring) \in Nat /\ Len(rx) \in Nat /\ room \in Nat
      /\ Len(s_ring) <= room /\ BlockFrames \in Nat
  BY AudioAssumption DEF OrderInv
<1>1. CASE Write
  <2> DEFINE bytes == BlockFrames * FrameBytes
             sent  == Smaller(bytes, room - Len(s_ring))
  <2>1. g_audio_drops' = g_audio_drops + (bytes - sent) \div FrameBytes
        /\ UNCHANGED <<room, rx, pc0, heard, run>>
    BY <1>1 DEF Write
  <2>2. bytes \in Nat /\ sent \in Nat /\ sent <= bytes
    BY <1>0, SmallerIs DEF FrameBytes
  <2> HIDE DEF bytes, sent
  <2>3. (bytes - sent) \div FrameBytes \in Nat
    <3>1. bytes - sent \in Nat
      BY <2>2
    <3> QED  BY <3>1, DivNat
  <2> QED  BY <2>1, <2>3 DEF RestOK
<1>2. CASE Receive
  BY <1>2 DEF Receive, RestOK
<1>3. CASE Play
  <2> DEFINE play == Whole(Len(rx))
  <2>1. /\ heard' = heard + play \div FrameBytes /\ run' = (run \/ play > 0)
        /\ rx' = SubSeq(rx, play + 1, Len(rx)) /\ pc0' = "receive"
        /\ UNCHANGED <<room, g_audio_drops>>
    BY <1>3 DEF Play
  <2>2. play \in 0 .. Len(rx) /\ Len(rx) - play < 4
    BY <1>0, WholeIsWhole
  <2> HIDE DEF play
  <2>3. Len(rx') < FrameBytes
    <3>1. Len(SubSeq(rx, play + 1, Len(rx))) = Len(rx) - play
      BY <1>0, <2>2, CutWhole
    <3> QED  BY <2>1, <2>2, <3>1 DEF FrameBytes
  <2>4. heard' \in Nat
    <3>1. play \in Nat
      BY <1>0, <2>2
    <3>2. play \div FrameBytes \in Nat
      BY <3>1, DivNat
    <3> QED  BY <2>1, <3>2 DEF RestOK
  <2>5. run' \in BOOLEAN
    BY <2>1
  <2> QED  BY <2>1, <2>3, <2>4, <2>5 DEF RestOK
<1>4. CASE Starve
  BY <1>4 DEF Starve, RestOK
<1>5. CASE UNCHANGED vars
  BY <1>5 DEF vars, RestOK
<1> QED  BY <1>1, <1>2, <1>3, <1>4, <1>5 DEF Next

(***************************************************************************)
(* The words of the audio path keep their types: the ring within its room, *)
(* the task's block within rx, and less than a frame carried over.         *)
(***************************************************************************)
THEOREM TypeCorrect == SafeSpec => []TypeOK
<1>1. Init => OrderInv /\ RestOK
  <2> SUFFICES ASSUME Init PROVE OrderInv /\ RestOK
    OBVIOUS
  <2>1. OrderInv
    BY OrderInit
  <2>2. RestOK
    <3>1. Len(rx) < FrameBytes
      BY DEF Init, FrameBytes
    <3> QED  BY <3>1 DEF Init, RestOK
  <2> QED  BY <2>1, <2>2
<1>2. OrderInv /\ RestOK => TypeOK
  BY DEF OrderInv, RestOK, TypeOK
<1> QED  BY <1>1, <1>2, OrderStep, RestStep, PTL DEF SafeSpec
=============================================================================

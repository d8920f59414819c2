-------------------------- MODULE SoundStreamProofs --------------------------
(***************************************************************************)
(* Whatever the clock, the rate, the block and the reserve, and however    *)
(* renderings, drains and lost samples follow each other: each block is    *)
(* the next samples that were rendered, and the drain keeps up.            *)
(***************************************************************************)
EXTENDS SoundStream, TLAPS

-----------------------------------------------------------------------------
(* Arithmetic.                                                             *)

LEMMA Division ==
  ASSUME NEW m \in Nat \ {0}, NEW x \in Nat
  PROVE  x = m * (x \div m) + (x % m) /\ x % m \in 0 .. m - 1 /\ x \div m \in Nat
OBVIOUS

(* Of two ways to divide a number, neither has the smaller quotient. *)
LEMMA OneQuotient ==
  ASSUME NEW m \in Nat \ {0}, NEW q \in Nat, NEW r \in 0 .. m - 1,
         NEW p \in Nat, NEW s \in Nat, m * q + r = m * p + s
  PROVE  ~(q < p)
<1> SUFFICES ASSUME q < p PROVE FALSE
  OBVIOUS
<1>1. PICK d \in Nat : p = q + 1 + d
  <2>1. p - q - 1 \in Nat /\ p = q + 1 + (p - q - 1)
    OBVIOUS
  <2> QED  BY <2>1
<1>2. m * p = m * q + m + m * d
  BY <1>1
<1>3. m * q \in Nat /\ m * d \in Nat
  OBVIOUS
<1> QED  BY <1>2, <1>3

LEMMA ModAdd ==
  ASSUME NEW m \in Nat \ {0}, NEW x \in Nat
  PROVE  (x + m) % m = x % m
<1> DEFINE q == x \div m
           r == x % m
           p == (x + m) \div m
           s == (x + m) % m
<1>1. x = m * q + r /\ r \in 0 .. m - 1 /\ q \in Nat
  BY Division
<1>2. x + m = m * p + s /\ s \in 0 .. m - 1 /\ p \in Nat
  <2>1. x + m \in Nat
    OBVIOUS
  <2> HIDE DEF p, s
  <2> QED  BY <2>1, Division DEF p, s
<1> HIDE DEF q, r, p, s
<1>3. m * (q + 1) = m * q + m /\ m * q \in Nat /\ m * p \in Nat
  BY <1>1, <1>2
<1>4. m * (q + 1) + r = m * p + s
  BY <1>1, <1>2, <1>3
<1>5. q + 1 = p
  BY <1>1, <1>2, <1>4, OneQuotient
<1>6. s = r
  BY <1>1, <1>2, <1>4, <1>5
<1> QED  BY <1>6 DEF r, s

LEMMA ModSmall ==
  ASSUME NEW m \in Nat \ {0}, NEW x \in 0 .. m - 1
  PROVE  x % m = x
OBVIOUS

(* Sums modulo a number. *)
LEMMA ModSum ==
  ASSUME NEW m \in Nat \ {0}, NEW a \in Nat, a < 2 * m, NEW b \in Nat
  PROVE  a % m \in 0 .. m - 1 /\ ((a % m) + b) % m = (a + b) % m
<1>1. a % m \in 0 .. m - 1
  BY Division
<1>2. CASE a < m
  BY <1>1, <1>2, ModSmall
<1>3. CASE a >= m
  <2>1. a - m \in 0 .. m - 1 /\ a - m \in Nat /\ (a - m) + m = a
        /\ (a - m) + b \in Nat /\ ((a - m) + b) + m = a + b
    BY <1>3
  <2>2. a % m = a - m
    BY <2>1, ModAdd, ModSmall
  <2>3. (((a - m) + b) + m) % m = ((a - m) + b) % m
    BY <2>1, ModAdd
  <2> QED  BY <1>1, <2>1, <2>2, <2>3
<1> QED  BY <1>2, <1>3

(* More factors, a larger product. *)
LEMMA Product ==
  ASSUME NEW a \in Nat, NEW b \in Nat, NEW c \in Nat, a <= b
  PROVE  a * c <= b * c
<1>1. PICK d \in Nat : b = a + d
  <2>1. b - a \in Nat /\ b = a + (b - a)
    OBVIOUS
  <2> QED  BY <2>1
<1>2. b * c = a * c + d * c
  BY <1>1
<1>3. a * c \in Nat /\ d * c \in Nat
  BY <1>1
<1> QED  BY <1>2, <1>3

(* Samples rendered are worth no more cycles than there were. *)
LEMMA WorthAtMost ==
  ASSUME NEW h \in Nat \ {0}, NEW c \in Nat \ {0}, NEW a \in Nat
  PROVE  LET length == (a * h) \div c
         IN  length \in Nat /\ (length * c) \div h \in 0 .. a
<1> DEFINE length == (a * h) \div c
           worth == (length * c) \div h
<1>1. a * h \in Nat
  OBVIOUS
<1>2. a * h = c * length + ((a * h) % c) /\ (a * h) % c \in Nat /\ length \in Nat
  <2> DEFINE x == a * h
  <2>1. x \in Nat
    BY <1>1
  <2> HIDE DEF x
  <2>2. x = c * (x \div c) + (x % c) /\ x % c \in 0 .. c - 1 /\ x \div c \in Nat
    BY <2>1, Division
  <2> QED  BY <2>2 DEF x
<1> HIDE DEF length
<1>3. length * c = c * length /\ length * c \in Nat
  BY <1>2
<1>4. length * c = h * worth + ((length * c) % h) /\ (length * c) % h \in 0 .. h - 1 /\ worth \in Nat
  BY <1>3, Division
<1> HIDE DEF worth
<1>5. ASSUME a < worth PROVE FALSE
  <2>1. a + 1 <= worth /\ a + 1 \in Nat
    BY <1>4, <1>5
  <2>2. (a + 1) * h <= worth * h
    BY <1>4, <2>1, Product
  <2>3. (a + 1) * h = a * h + h /\ worth * h = h * worth /\ h * worth \in Nat
    BY <1>4
  <2> QED  BY <1>1, <1>2, <1>3, <1>4, <2>2, <2>3
<1> QED  BY <1>2, <1>4, <1>5 DEF length, worth

-----------------------------------------------------------------------------
LEMMA Sizes ==
  /\ Clk \in Nat \ {0} /\ Hz \in Nat \ {0} /\ Samples \in Nat \ {0} /\ Guard \in Nat \ {0}
  /\ Reserve \in Nat /\ Sane \in Nat \ {0} /\ OneFrame \in Nat \ {0} /\ MaxFrame \in Nat \ {0}
  /\ Room \in Nat \ {0} /\ Room = Samples + Reserve /\ Ids = Room + 1 /\ Ids \in Nat \ {0}
  /\ Slots = 0 .. Room - 1
  /\ Block \in Nat \ {0} /\ OneFrame <= Sane /\ Sane * Hz <= Guard * Block
<1>1. /\ Clk \in Nat \ {0} /\ Hz \in Nat \ {0} /\ Samples \in Nat \ {0} /\ Guard \in Nat \ {0}
      /\ Reserve \in Nat /\ Sane \in Nat \ {0} /\ OneFrame \in Nat \ {0} /\ MaxFrame \in Nat \ {0}
      /\ OneFrame <= Sane /\ Sane * Hz <= Guard * Block
  BY SoundAssumption
<1>2. Samples * Clk \in Nat \ {0}
  BY <1>1
<1> QED  BY <1>1, <1>2 DEF Room, Ids, Slots, Block

LEMMA SmallerIs ==
  ASSUME NEW m \in Nat, NEW n \in Nat
  PROVE  Smaller(m, n) \in Nat /\ Smaller(m, n) <= m /\ Smaller(m, n) <= n
BY DEF Smaller

(* What is in the buffer are the samples from heard on, and the next to be *)
(* rendered is the one after them.                                         *)
InBuffer ==
  /\ \A i \in 0 .. ptr - 1 : mem[i] = (heard + i) % Ids
  /\ gen = (heard + ptr) % Ids

(* The blocks the loop may still take cover what it owes. *)
Paid ==
  /\ phase = "exec" => snd_acc < Block
  /\ phase # "exec" => snd_acc + guard * Block < Block + Guard * Block
  /\ phase = "locked" => snd_acc >= Block /\ guard < Guard

StreamInv == TypeOK /\ InBuffer /\ Paid

LEMMA StreamInit == Init => StreamInv
<1> SUFFICES ASSUME Init PROVE StreamInv
  OBVIOUS
<1>1. 0 % Ids = 0
  BY Sizes, ModSmall
<1>2. mem \in [Slots -> 0 .. Room]
  BY Sizes DEF Init
<1>3. Paid
  BY Sizes DEF Init, Paid
<1>4. InBuffer
  BY <1>1, Sizes DEF Init, InBuffer
<1>5. TypeOK
  <2>1. /\ phase = "exec" /\ dcyc = 0 /\ owed = 0 /\ ptr = 0 /\ remain = Room /\ gen = 0
        /\ heard = 0 /\ snd_acc = 0 /\ guard = 0 /\ skipped = FALSE
    BY DEF Init
  <2>2. 0 \in 0 .. MaxFrame /\ 0 \in 0 .. Room /\ Room \in 0 .. Room /\ 0 + Room = Room
        /\ 0 \in 0 .. Guard
    BY Sizes
  <2> QED  BY <1>2, <2>1, <2>2 DEF TypeOK
<1> QED  BY <1>3, <1>4, <1>5 DEF StreamInv

(* Rendering goes on where it stopped, and stops at the end of the buffer. *)
LEMMA Prepares ==
  ASSUME StreamInv, NEW n \in Nat, StreamPrepare(n), heard' = heard
  PROVE  /\ mem' \in [Slots -> 0 .. Room] /\ ptr' \in 0 .. Room /\ remain' \in 0 .. Room
         /\ ptr' + remain' = Room /\ gen' \in 0 .. Room /\ skipped' \in BOOLEAN
         /\ remain' <= remain /\ (n >= remain => remain' = 0)
         /\ (n <= remain => remain' = remain - n)
         /\ InBuffer'
<1> DEFINE count == Smaller(remain, n)
<1>1. /\ mem' = [i \in Slots |-> IF i >= ptr /\ i < ptr + count
                                 THEN (gen + (i - ptr)) % Ids ELSE mem[i]]
      /\ ptr' = ptr + count /\ remain' = remain - count /\ gen' = (gen + count) % Ids
      /\ skipped' = (skipped \/ count < n)
  BY DEF StreamPrepare
<1>2. /\ ptr \in 0 .. Room /\ remain \in 0 .. Room /\ ptr + remain = Room
      /\ gen \in 0 .. Room /\ heard \in 0 .. Room /\ mem \in [Slots -> 0 .. Room]
      /\ skipped \in BOOLEAN
  BY DEF StreamInv, TypeOK
<1>3. count \in Nat /\ count <= remain /\ count <= n
      /\ (n >= remain => count = remain) /\ (n <= remain => count = n)
  BY <1>2, SmallerIs DEF Smaller
<1>4. /\ gen = (heard + ptr) % Ids
      /\ \A i \in 0 .. ptr - 1 : mem[i] = (heard + i) % Ids
  BY DEF StreamInv, InBuffer
<1>5. ASSUME NEW k \in Nat PROVE (gen + k) % Ids = (heard + ptr + k) % Ids
  <2>1. heard + ptr \in Nat /\ heard + ptr < 2 * Ids
    BY <1>2, Sizes
  <2> QED  BY <1>4, <2>1, Sizes, ModSum
<1> HIDE DEF count
<1>6. ASSUME NEW i \in ptr .. ptr + count - 1
      PROVE  i \in Slots /\ mem'[i] = (heard + i) % Ids
  <2>1. i \in Slots /\ i >= ptr /\ i < ptr + count /\ i - ptr \in Nat
    BY <1>2, <1>3, Sizes
  <2>2. mem'[i] = (gen + (i - ptr)) % Ids
    BY <1>1, <2>1
  <2>3. (gen + (i - ptr)) % Ids = (heard + ptr + (i - ptr)) % Ids
    BY <1>5, <2>1
  <2>4. heard + ptr + (i - ptr) = heard + i
    BY <1>2, <2>1
  <2> QED  BY <2>1, <2>2, <2>3, <2>4
<1>7. ASSUME NEW i \in 0 .. ptr' - 1 PROVE mem'[i] = (heard' + i) % Ids
  <2>1. CASE i < ptr
    <3>1. i \in Slots /\ i \in 0 .. ptr - 1 /\ ~(i >= ptr)
      BY <1>2, <2>1, <1>1, <1>3, Sizes
    <3> QED  BY <1>1, <1>4, <3>1
  <2>2. CASE i >= ptr
    <3>1. i \in ptr .. ptr + count - 1
      BY <1>1, <1>2, <1>3, <2>2
    <3> QED  BY <1>6, <3>1
  <2> QED  BY <1>2, <1>1, <1>3, <2>1, <2>2
<1>8. gen' = (heard' + ptr') % Ids
  <2>1. heard + ptr + count = heard + (ptr + count)
    BY <1>2, <1>3
  <2> QED  BY <1>1, <1>3, <1>5, <2>1
<1>9. \A x \in Nat : x % Ids \in 0 .. Room
  BY Sizes
<1>10. mem' \in [Slots -> 0 .. Room]
  <2>1. ASSUME NEW i \in Slots PROVE mem'[i] \in 0 .. Room
    <3>1. CASE i >= ptr /\ i < ptr + count
      <4>1. gen + (i - ptr) \in Nat
        BY <1>2, <3>1, Sizes
      <4> QED  BY <1>1, <1>9, <3>1, <4>1
    <3>2. CASE ~(i >= ptr /\ i < ptr + count)
      BY <1>1, <1>2, <3>2
    <3> QED  BY <3>1, <3>2
  <2> QED  BY <1>1, <2>1
<1>11. gen' \in 0 .. Room
  <2>1. gen + count \in Nat
    BY <1>2, <1>3
  <2> QED  BY <1>1, <1>9, <2>1
<1>12. /\ ptr' \in 0 .. Room /\ remain' \in 0 .. Room /\ ptr' + remain' = Room
       /\ remain' <= remain /\ (n >= remain => remain' = 0) /\ (n <= remain => remain' = remain - n)
  BY <1>1, <1>2, <1>3, Sizes
<1>13. skipped' \in BOOLEAN
  BY <1>1, <1>2
<1> QED  BY <1>7, <1>8, <1>10, <1>11, <1>12, <1>13 DEF InBuffer

(* So does sound_sync(), which pays for what it renders. *)
LEMMA Syncs ==
  ASSUME StreamInv, SoundSync, heard' = heard
  PROVE  /\ mem' \in [Slots -> 0 .. Room] /\ ptr' \in 0 .. Room /\ remain' \in 0 .. Room
         /\ ptr' + remain' = Room /\ gen' \in 0 .. Room /\ skipped' \in BOOLEAN
         /\ owed' \in Nat /\ InBuffer'
<1> DEFINE length == IF owed < MinClock THEN 0 ELSE (owed * Hz) \div Clk
<1>0. owed \in Nat
  BY DEF StreamInv, TypeOK
<1>1. length \in Nat /\ (length # 0 => (length * Clk) \div Hz \in 0 .. owed)
  <2>1. (owed * Hz) \div Clk \in Nat /\ (((owed * Hz) \div Clk) * Clk) \div Hz \in 0 .. owed
    BY <1>0, Sizes, WorthAtMost
  <2> QED  BY <2>1
<1>2. \/ length = 0 /\ UNCHANGED <<stream, owed>>
      \/ length # 0 /\ StreamPrepare(length) /\ owed' = owed - (length * Clk) \div Hz
  BY DEF SoundSync
<1> HIDE DEF length
<1>3. CASE length = 0 /\ UNCHANGED <<stream, owed>>
  BY <1>3 DEF StreamInv, TypeOK, InBuffer, stream
<1>4. CASE length # 0 /\ StreamPrepare(length) /\ owed' = owed - (length * Clk) \div Hz
  <2>1. owed' \in Nat
    BY <1>0, <1>1, <1>4
  <2> QED  BY <1>1, <1>4, <2>1, Prepares
<1> QED  BY <1>2, <1>3, <1>4

(* A frame adds at most what Guard blocks pay; each block pays its part;   *)
(* the loop goes on when nothing is owed, or has then taken Guard blocks.  *)
LEMMA PaidNext == StreamInv /\ [Next]_vars => Paid'
<1> SUFFICES ASSUME StreamInv, [Next]_vars PROVE Paid'
  OBVIOUS
<1>0. /\ phase \in {"exec", "drain", "locked"} /\ dcyc \in 0 .. MaxFrame
      /\ snd_acc \in Nat /\ guard \in 0 .. Guard
  BY DEF StreamInv, TypeOK
<1>1. /\ phase = "exec" => snd_acc < Block
      /\ phase # "exec" => snd_acc + guard * Block < Block + Guard * Block
      /\ phase = "locked" => snd_acc >= Block /\ guard < Guard
  BY DEF StreamInv, Paid
<1>2. CASE Cycle \/ Sync
  BY <1>1, <1>2 DEF Cycle, Sync, Paid
<1>3. CASE EndFrame
  <2> DEFINE cycles == IF dcyc = 0 \/ dcyc > Sane THEN OneFrame ELSE dcyc
  <2>1. snd_acc' = snd_acc + cycles * Hz /\ phase' = "drain" /\ guard' = 0 /\ phase = "exec"
    BY <1>3 DEF EndFrame
  <2>2. cycles \in Nat /\ cycles <= Sane
    BY <1>0, Sizes
  <2> HIDE DEF cycles
  <2>3. cycles * Hz <= Sane * Hz
    BY <2>2, Sizes, Product
  <2>4. cycles * Hz \in Nat /\ Sane * Hz \in Nat /\ Guard * Block \in Nat
        /\ Sane * Hz <= Guard * Block /\ 0 * Block = 0
    BY <2>2, Sizes
  <2>5. snd_acc' + guard' * Block < Block + Guard * Block
    BY <1>0, <1>1, <2>1, <2>3, <2>4, Sizes
  <2> QED  BY <2>1, <2>5 DEF Paid
<1>4. CASE Lock
  BY <1>0, <1>1, <1>4 DEF Lock, Paid
<1>5. CASE Unlock
  <2>1. snd_acc' = snd_acc - Block /\ guard' = guard + 1 /\ phase' = "drain" /\ phase = "locked"
    BY <1>5 DEF Unlock
  <2>2. guard' * Block = guard * Block + Block /\ guard * Block \in Nat
    BY <1>0, <2>1, Sizes
  <2>3. snd_acc' + guard' * Block = snd_acc + guard * Block
    BY <1>0, <2>1, <2>2, Sizes
  <2> QED  BY <1>1, <2>1, <2>3 DEF Paid
<1>6. CASE DrainEnd
  <2>1. phase' = "exec" /\ phase = "drain" /\ snd_acc' = snd_acc
        /\ (snd_acc < Block \/ guard = Guard)
    BY <1>6 DEF DrainEnd
  <2>2. snd_acc < Block
    <3>1. CASE guard = Guard
      <4>1. snd_acc + Guard * Block < Block + Guard * Block /\ Guard * Block \in Nat
        BY <1>1, <2>1, <3>1, Sizes
      <4> QED  BY <1>0, <4>1, Sizes
    <3> QED  BY <2>1, <3>1
  <2> QED  BY <2>1, <2>2 DEF Paid
<1>7. CASE UNCHANGED vars
  BY <1>1, <1>7 DEF vars, Paid
<1> QED  BY <1>2, <1>3, <1>4, <1>5, <1>6, <1>7 DEF Next

LEMMA StreamNext == StreamInv /\ [Next]_vars => StreamInv'
<1> SUFFICES ASSUME StreamInv, [Next]_vars PROVE TypeOK' /\ InBuffer'
  BY PaidNext DEF StreamInv
<1>0. /\ phase \in {"exec", "drain", "locked"} /\ dcyc \in 0 .. MaxFrame /\ owed \in Nat
      /\ mem \in [Slots -> 0 .. Room] /\ ptr \in 0 .. Room /\ remain \in 0 .. Room
      /\ ptr + remain = Room /\ gen \in 0 .. Room /\ heard \in 0 .. Room
      /\ snd_acc \in Nat /\ guard \in 0 .. Guard /\ skipped \in BOOLEAN
      /\ phase = "locked" => remain <= Reserve
  BY DEF StreamInv, TypeOK
<1>1. CASE Cycle
  <2>1. dcyc' \in 0 .. MaxFrame /\ owed' \in Nat
    BY <1>0, <1>1, Sizes DEF Cycle
  <2> QED  BY <1>0, <1>1, <2>1 DEF Cycle, StreamInv, TypeOK, InBuffer, stream
<1>2. CASE Sync
  <2>1. SoundSync /\ heard' = heard /\ UNCHANGED <<phase, dcyc, snd_acc, guard>> /\ phase = "exec"
    BY <1>2 DEF Sync
  <2> QED  BY <1>0, <2>1, Syncs DEF StreamInv, TypeOK
<1>3. CASE EndFrame
  <2> DEFINE cycles == IF dcyc = 0 \/ dcyc > Sane THEN OneFrame ELSE dcyc
  <2>1. SoundSync /\ heard' = heard /\ snd_acc' = snd_acc + cycles * Hz
        /\ phase' = "drain" /\ guard' = 0 /\ dcyc' = 0
    BY <1>3 DEF EndFrame
  <2>2. cycles \in Nat
    BY <1>0, Sizes
  <2> HIDE DEF cycles
  <2>3. snd_acc' \in Nat /\ guard' \in 0 .. Guard /\ dcyc' \in 0 .. MaxFrame /\ phase' # "locked"
    BY <1>0, <2>1, <2>2, Sizes
  <2> QED  BY <1>0, <2>1, <2>3, Syncs DEF StreamInv, TypeOK
<1>4. CASE Lock
  <2>1. phase' = "locked" /\ UNCHANGED <<dcyc, heard, snd_acc, guard>>
    BY <1>4 DEF Lock
  <2>2. CASE remain > Reserve
    <3>1. StreamPrepare(remain - Reserve) /\ owed' = 0
      BY <1>4, <2>2 DEF Lock
    <3>2. remain - Reserve \in Nat /\ remain - Reserve <= remain
      BY <1>0, <2>2, Sizes
    <3>3. remain' = remain - (remain - Reserve)
      BY <2>1, <3>1, <3>2, Prepares
    <3>4. remain' <= Reserve
      BY <1>0, <3>3, Sizes
    <3> QED  BY <1>0, <2>1, <3>1, <3>2, <3>4, Prepares DEF StreamInv, TypeOK
  <2>3. CASE ~(remain > Reserve)
    <3>1. UNCHANGED <<stream, owed>>
      BY <1>4, <2>3 DEF Lock
    <3>2. remain <= Reserve
      BY <1>0, <2>3, Sizes
    <3> QED  BY <1>0, <2>1, <3>1, <3>2 DEF StreamInv, TypeOK, InBuffer, stream
  <2> QED  BY <2>2, <2>3
<1>5. CASE Unlock
  <2> DEFINE leng == Reserve - remain
  <2>1. /\ mem' = [i \in Slots |-> IF i < leng THEN mem[Samples + i] ELSE mem[i]]
        /\ ptr' = leng /\ remain' = remain + Samples /\ heard' = (heard + Samples) % Ids
        /\ snd_acc' = snd_acc - Block /\ guard' = guard + 1 /\ phase' = "drain"
        /\ UNCHANGED <<dcyc, owed, gen, skipped>> /\ phase = "locked"
    BY <1>5 DEF Unlock
  <2>2. leng \in Nat /\ ptr = Samples + leng /\ leng <= Reserve
    BY <1>0, <2>1, Sizes
  <2> HIDE DEF leng
  <2>3. heard + Samples \in Nat /\ heard + Samples < 2 * Ids /\ heard' \in 0 .. Room
    <3>1. heard + Samples \in Nat /\ heard + Samples < 2 * Ids
      BY <1>0, Sizes
    <3>2. (heard + Samples) % Ids \in 0 .. Ids - 1
      BY <3>1, Sizes, ModSum
    <3> QED  BY <2>1, <3>1, <3>2, Sizes
  <2>4. ASSUME NEW k \in Nat PROVE (heard' + k) % Ids = (heard + (Samples + k)) % Ids
    <3>1. (heard' + k) % Ids = (heard + Samples + k) % Ids
      <4>1. (((heard + Samples) % Ids) + k) % Ids = (heard + Samples + k) % Ids
        BY <2>3, Sizes, ModSum
      <4> QED  BY <2>1, <4>1
    <3>2. heard + Samples + k = heard + (Samples + k)
      BY <1>0, Sizes
    <3> QED  BY <3>1, <3>2
  <2>5. ASSUME NEW i \in 0 .. ptr' - 1 PROVE mem'[i] = (heard' + i) % Ids
    <3>1. i \in Slots /\ i < leng /\ i \in Nat /\ Samples + i \in 0 .. ptr - 1
      BY <2>1, <2>2, Sizes
    <3>2. mem'[i] = mem[Samples + i]
      BY <2>1, <3>1
    <3>3. mem[Samples + i] = (heard + (Samples + i)) % Ids
      BY <3>1 DEF StreamInv, InBuffer
    <3> QED  BY <2>4, <3>1, <3>2, <3>3
  <2>6. gen' = (heard' + ptr') % Ids
    <3>1. gen = (heard + (Samples + leng)) % Ids
      BY <2>2 DEF StreamInv, InBuffer
    <3> QED  BY <2>1, <2>2, <2>4, <3>1
  <2>7. mem' \in [Slots -> 0 .. Room]
    <3>1. ASSUME NEW i \in Slots PROVE mem'[i] \in 0 .. Room
      <4>1. CASE i < leng
        <5>1. Samples + i \in Slots
          BY <2>2, <4>1, Sizes
        <5> QED  BY <1>0, <2>1, <4>1, <5>1
      <4>2. CASE ~(i < leng)
        BY <1>0, <2>1, <4>2
      <4> QED  BY <4>1, <4>2
    <3> QED  BY <2>1, <3>1
  <2>8. ptr' \in 0 .. Room /\ remain' \in 0 .. Room /\ ptr' + remain' = Room
    BY <1>0, <2>1, <2>2, Sizes
  <2>9. snd_acc' \in Nat /\ guard' \in 0 .. Guard
    BY <1>0, <2>1, Sizes DEF StreamInv, Paid
  <2> QED  BY <1>0, <2>1, <2>3, <2>5, <2>6, <2>7, <2>8, <2>9 DEF StreamInv, TypeOK, InBuffer
<1>6. CASE DrainEnd
  BY <1>6 DEF DrainEnd, StreamInv, TypeOK, InBuffer, stream
<1>7. CASE UNCHANGED vars
  BY <1>7 DEF vars, StreamInv, TypeOK, InBuffer
<1> QED  BY <1>1, <1>2, <1>3, <1>4, <1>5, <1>6, <1>7 DEF Next

THEOREM StreamSafe == Spec => []StreamInv
BY StreamInit, StreamNext, PTL DEF Spec

(***************************************************************************)
(* The block that is handed to audio_write_s32() is the next samples that  *)
(* were rendered, none missing and none twice.                             *)
(***************************************************************************)
THEOREM InOrderHolds == Spec => []InOrder
<1>1. StreamInv => InOrder
  <2> SUFFICES ASSUME StreamInv, phase = "locked", NEW i \in 0 .. Samples - 1
               PROVE  mem[i] = (heard + i) % Ids
    BY DEF InOrder
  <2>1. i \in 0 .. ptr - 1
    BY Sizes DEF StreamInv, TypeOK
  <2> QED  BY <2>1 DEF StreamInv, InBuffer
<1> QED  BY <1>1, StreamSafe, PTL

(***************************************************************************)
(* When the CPU goes on, the loop owes less than a block.                  *)
(***************************************************************************)
THEOREM NothingOwedHolds == Spec => []NothingOwed
<1>1. StreamInv => NothingOwed
  BY DEF StreamInv, Paid, NothingOwed
<1> QED  BY <1>1, StreamSafe, PTL
=============================================================================

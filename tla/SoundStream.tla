----------------------------- MODULE SoundStream -----------------------------
(***************************************************************************)
(* np2kai's sound stream and its drain.  While the CPU executes a frame,   *)
(* device writes call sound_sync(), which renders the samples the elapsed  *)
(* cycles are worth into the stream buffer (streamprepare).  After the     *)
(* frame the emulator loop takes one block out of the buffer for every     *)
(* block's worth of cycles, with sound_pcmlock() and sound_pcmunlock().    *)
(*                                                                         *)
(* Samples are numbered modulo Ids, which is more than the buffer holds.   *)
(* Rates are scaled: Clk cycles last as long as Hz samples (clockbase and  *)
(* hzbase of sound_changeclock, rt_hz and FM_RATE of the loop).  A stream   *)
(* was made at boot; without one the whole module stands still.            *)
(***************************************************************************)
EXTENDS Integers

CONSTANTS
  Clk, Hz,
  Samples,        \* sndstream.samples, g_fm_frames: a block
  Reserve,        \* sndstream.reserve: two blocks in this build
  Guard,          \* blocks the loop takes per frame at most: 8
  Sane,           \* rt_hz / 20: longer frames are not believed
  OneFrame,       \* rt_hz / 60: what they count as
  MaxFrame        \* bound on the cycles of a frame

Room == Samples + Reserve
Slots == 0 .. Room - 1
Ids == Room + 1
MinClock == (2 * Clk) \div Hz
Block == Samples * Clk

ASSUME SoundAssumption ==
  /\ {Clk, Hz, Samples, Guard, Sane, OneFrame, MaxFrame} \subseteq Nat \ {0}
  /\ Reserve \in Nat
  /\ OneFrame <= Sane
  /\ Sane * Hz <= Guard * Block    \* a frame's worth of blocks is no more than the loop takes

VARIABLES
  phase,          \* exec, drain, locked
  dcyc,           \* cycles of this frame so far
  owed,           \* CPU clock - soundcfg.lastclock: cycles not yet rendered
  mem, ptr, remain, \* sndstream: buffer, ptr (as an index), remain
  gen,            \* number of the next sample the devices render
  heard,          \* history: number of the next sample to be taken
  snd_acc,        \* cycles not yet paid with a block, in units of 1 / Hz
  guard,
  skipped         \* history: g_np2_snd_skip # 0

vars == <<phase, dcyc, owed, mem, ptr, remain, gen, heard, snd_acc, guard, skipped>>
stream == <<mem, ptr, remain, gen, skipped>>

Smaller(m, n) == IF m <= n THEN m ELSE n

Init ==
  /\ phase = "exec"
  /\ dcyc = 0 /\ owed = 0
  /\ mem = [i \in Slots |-> 0]
  /\ ptr = 0 /\ remain = Room
  /\ gen = 0 /\ heard = 0
  /\ snd_acc = 0 /\ guard = 0
  /\ skipped = FALSE

-----------------------------------------------------------------------------
(* streamprepare(): what does not fit is not rendered. *)
StreamPrepare(samples) ==
  LET count == Smaller(remain, samples)
  IN  /\ mem' = [i \in Slots |-> IF i >= ptr /\ i < ptr + count
                                 THEN (gen + (i - ptr)) % Ids ELSE mem[i]]
      /\ ptr' = ptr + count
      /\ remain' = remain - count
      /\ gen' = (gen + count) % Ids
      /\ skipped' = (skipped \/ count < samples)

(* sound_sync(): nothing below two samples' worth of cycles. *)
SoundSync ==
  LET length == IF owed < MinClock THEN 0 ELSE (owed * Hz) \div Clk
  IN  IF length = 0
      THEN UNCHANGED <<stream, owed>>
      ELSE /\ StreamPrepare(length)
           /\ owed' = owed - (length * Clk) \div Hz

-----------------------------------------------------------------------------
(* The CPU executes a cycle of the frame (MaxFrame bounds them). *)
Cycle ==
  /\ phase = "exec"
  /\ dcyc < MaxFrame
  /\ dcyc' = dcyc + 1
  /\ owed' = owed + 1
  /\ UNCHANGED <<phase, stream, heard, snd_acc, guard>>

(* A device write in the middle of the frame. *)
Sync ==
  /\ phase = "exec"
  /\ owed >= MinClock
  /\ SoundSync
  /\ UNCHANGED <<phase, dcyc, heard, snd_acc, guard>>

(* Mutant: whole samples per frame, as the loop once counted them. *)
EndFrameTruncates ==
  LET cycles == IF dcyc = 0 \/ dcyc > Sane THEN OneFrame ELSE dcyc
  IN  /\ phase = "exec"
      /\ dcyc > 0
      /\ SoundSync
      /\ snd_acc' = snd_acc + ((cycles * Hz) \div Clk) * Clk
      /\ phase' = "drain" /\ guard' = 0 /\ dcyc' = 0
      /\ UNCHANGED heard

(* pccore_exec() ends with a sound_sync(), and the loop counts its cycles. *)
EndFrame ==
  LET cycles == IF dcyc = 0 \/ dcyc > Sane THEN OneFrame ELSE dcyc
  IN  /\ phase = "exec"
      /\ dcyc > 0
      /\ SoundSync
      /\ snd_acc' = snd_acc + cycles * Hz
      /\ phase' = "drain" /\ guard' = 0 /\ dcyc' = 0
      /\ UNCHANGED heard

(* sound_pcmlock(): what a block still lacks is rendered on the spot, and  *)
(* the renderer is then up to the CPU's clock.                             *)
(* It always gives a block here.  Where it would not, the loop leaves the  *)
(* drain: that is while another block is locked, and only the loop locks   *)
(* any, or when sound_create() found no memory for the buffer at boot, and *)
(* then nothing is ever rendered.                                          *)
Lock ==
  /\ phase = "drain"
  /\ snd_acc >= Block /\ guard < Guard
  /\ IF remain > Reserve
     THEN StreamPrepare(remain - Reserve) /\ owed' = 0
     ELSE UNCHANGED <<stream, owed>>
  /\ phase' = "locked"
  /\ UNCHANGED <<dcyc, heard, snd_acc, guard>>

(* Mutant: the samples after the block stay where they are. *)
UnlockForgets ==
  LET leng == Reserve - remain
  IN  /\ phase = "locked"
      /\ ptr' = leng
      /\ remain' = remain + Samples
      /\ heard' = (heard + Samples) % Ids
      /\ snd_acc' = snd_acc - Block
      /\ guard' = guard + 1
      /\ phase' = "drain"
      /\ UNCHANGED <<dcyc, owed, mem, gen, skipped>>

(* audio_write_s32() takes the block, and sound_pcmunlock() moves what is  *)
(* behind it to the front.                                                 *)
Unlock ==
  LET leng == Reserve - remain
  IN  /\ phase = "locked"
      /\ mem' = [i \in Slots |-> IF i < leng THEN mem[Samples + i] ELSE mem[i]]
      /\ ptr' = leng
      /\ remain' = remain + Samples
      /\ heard' = (heard + Samples) % Ids
      /\ snd_acc' = snd_acc - Block
      /\ guard' = guard + 1
      /\ phase' = "drain"
      /\ UNCHANGED <<dcyc, owed, gen, skipped>>

(* Mutant: one block a frame. *)
DrainEndEarly ==
  /\ phase = "drain"
  /\ snd_acc < Block \/ guard = 1
  /\ phase' = "exec"
  /\ UNCHANGED <<dcyc, owed, stream, heard, snd_acc, guard>>

DrainEnd ==
  /\ phase = "drain"
  /\ snd_acc < Block \/ guard = Guard
  /\ phase' = "exec"
  /\ UNCHANGED <<dcyc, owed, stream, heard, snd_acc, guard>>

Next == Cycle \/ Sync \/ EndFrame \/ Lock \/ Unlock \/ DrainEnd

Spec == Init /\ [][Next]_vars

-----------------------------------------------------------------------------
(* ptr and remain agree: no sample is rendered or moved outside the buffer. *)
TypeOK ==
  /\ phase \in {"exec", "drain", "locked"}
  /\ dcyc \in 0 .. MaxFrame /\ owed \in Nat
  /\ mem \in [Slots -> 0 .. Room]
  /\ ptr \in 0 .. Room /\ remain \in 0 .. Room /\ ptr + remain = Room
  /\ gen \in 0 .. Room /\ heard \in 0 .. Room
  /\ snd_acc \in Nat /\ guard \in 0 .. Guard
  /\ skipped \in BOOLEAN
  /\ phase = "locked" => remain <= Reserve

(* The block the loop takes is the next samples the devices rendered, none *)
(* missing, none twice, however the renderer and the drain interleave.     *)
InOrder ==
  phase = "locked" =>
    \A i \in 0 .. Samples - 1 : mem[i] = (heard + i) % Ids

(* The drain keeps up: when the CPU goes on, less than a block is owed.    *)
NothingOwed == phase = "exec" => snd_acc < Block

(* Every sample the emulated time is worth is rendered: the loop takes     *)
(* blocks as fast as the CPU clock makes them, so the buffer never fills.  *)
NoHole == ~skipped
=============================================================================

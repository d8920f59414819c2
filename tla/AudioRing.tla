------------------------------ MODULE AudioRing ------------------------------
(***************************************************************************)
(* Sound output: audio_write_s32, called by the emulator loop on core 1,   *)
(* sends blocks of stereo frames into a byte stream buffer and never       *)
(* waits; audio_task on core 0 receives from it, hands whole frames to the *)
(* DAC and carries the bytes of a split frame over to its next block.      *)
(*                                                                         *)
(* A byte is its number in the stream the emulator produces: byte b        *)
(* belongs to frame b \div 4 and is that frame's byte b % 4, of which 0    *)
(* and 1 are the left sample and 2 and 3 the right one.                    *)
(***************************************************************************)
EXTENDS Integers, Sequences

CONSTANTS
  RingBytes,      \* the bytes the stream buffer is made for: 10 blocks
  RxBytes,        \* sizeof(rx): 2048
  BlockFrames,    \* g_fm_frames
  MaxFrames       \* bound on the frames produced

FrameBytes == 4

ASSUME AudioAssumption ==
  /\ RingBytes \in Nat \ {0} /\ RingBytes % FrameBytes = 0
  /\ RxBytes \in Nat \ {0} /\ RxBytes % FrameBytes = 0
  /\ BlockFrames \in Nat \ {0}
  /\ MaxFrames \in Nat

VARIABLES
  room,           \* bytes the stream buffer holds
  made,           \* frames handed to audio_write_s32
  s_ring,         \* bytes in the stream buffer
  rx,             \* bytes in the task's block: what it carried and received
  pc0,            \* the task: receive, write
  played,         \* the block last handed to i2s_write
  heard,          \* history: frames handed to i2s_write
  g_audio_drops,
  run             \* run_start # 0: playback is being timed

vars == <<room, made, s_ring, rx, pc0, played, heard, g_audio_drops, run>>

Smaller(m, n) == IF m <= n THEN m ELSE n

(* n & ~3 *)
Whole(n) == n - (n % FrameBytes)

Bytes(first, n) == [i \in 1 .. n |-> first + i - 1]

(* A stream buffer with storage of its own holds one byte less than the     *)
(* storage has; xStreamBufferCreateWithCaps() may or may not add the byte.  *)
Init ==
  /\ room \in {RingBytes, RingBytes - 1}
  /\ made = 0
  /\ s_ring = << >> /\ rx = << >> /\ played = << >>
  /\ pc0 = "receive"
  /\ heard = 0 /\ g_audio_drops = 0
  /\ run = FALSE

(* Mutant: the drop is counted, the bytes are sent once there is room.     *)
WriteLate ==
  LET bytes == BlockFrames * FrameBytes
      sent  == Smaller(bytes, room - Len(s_ring))
  IN  /\ made + BlockFrames <= MaxFrames
      /\ made' = made + BlockFrames
      /\ s_ring' = s_ring \o Bytes(made * FrameBytes, bytes)
      /\ g_audio_drops' = g_audio_drops + (bytes - sent) \div FrameBytes
      /\ UNCHANGED <<room, rx, pc0, played, heard, run>>

(* Mutant: the size of the block is its number of samples. *)
WriteSamples ==
  LET bytes == BlockFrames * 2
      sent  == Smaller(bytes, room - Len(s_ring))
  IN  /\ made + BlockFrames <= MaxFrames
      /\ made' = made + BlockFrames
      /\ s_ring' = s_ring \o Bytes(made * FrameBytes, sent)
      /\ g_audio_drops' = g_audio_drops + (bytes - sent) \div FrameBytes
      /\ UNCHANGED <<room, rx, pc0, played, heard, run>>

(* Mutant: a block that does not fit overwrites the end of the stream.     *)
WriteOver ==
  LET bytes == BlockFrames * FrameBytes
      keep  == Smaller(Len(s_ring), room - bytes)
  IN  /\ made + BlockFrames <= MaxFrames
      /\ made' = made + BlockFrames
      /\ s_ring' = SubSeq(s_ring, 1, keep) \o Bytes(made * FrameBytes, bytes)
      /\ UNCHANGED <<room, rx, pc0, played, heard, g_audio_drops, run>>

-----------------------------------------------------------------------------
(* audio_write_s32(): a send that does not wait, of as many bytes as fit;  *)
(* the rest of the block is gone, and counted in whole frames.             *)
Write ==
  LET bytes == BlockFrames * FrameBytes
      sent  == Smaller(bytes, room - Len(s_ring))
  IN  /\ made + BlockFrames <= MaxFrames
      /\ made' = made + BlockFrames
      /\ s_ring' = s_ring \o Bytes(made * FrameBytes, sent)
      /\ g_audio_drops' = g_audio_drops + (bytes - sent) \div FrameBytes
      /\ UNCHANGED <<room, rx, pc0, played, heard, run>>

-----------------------------------------------------------------------------
(* audio_task() *)

(* xStreamBufferReceive() returns what is there, up to the free part of rx. *)
Receive ==
  LET n == Smaller(Len(s_ring), RxBytes - Len(rx))
  IN  /\ pc0 = "receive"
      /\ s_ring # << >>
      /\ rx' = rx \o SubSeq(s_ring, 1, n)
      /\ s_ring' = SubSeq(s_ring, n + 1, Len(s_ring))
      /\ pc0' = "write"
      /\ UNCHANGED <<room, made, played, heard, g_audio_drops, run>>

(* 100 ms without a byte: the run is over. *)
Starve ==
  /\ pc0 = "receive"
  /\ s_ring = << >>
  /\ run
  /\ run' = FALSE
  /\ UNCHANGED <<room, made, s_ring, rx, pc0, played, heard, g_audio_drops>>

(* Mutant: the task stops reading while it carries bytes. *)
PlayStops ==
  LET play == Whole(Len(rx))
  IN  /\ pc0 = "write"
      /\ Len(rx) % FrameBytes = 0
      /\ played' = SubSeq(rx, 1, play)
      /\ heard' = heard + play \div FrameBytes
      /\ run' = (run \/ play > 0)
      /\ rx' = << >>
      /\ pc0' = "receive"
      /\ UNCHANGED <<room, made, s_ring, g_audio_drops>>

(* Mutant: the memmove() of the carry takes the head of the block. *)
PlayCarriesHead ==
  LET play == Whole(Len(rx))
  IN  /\ pc0 = "write"
      /\ played' = SubSeq(rx, 1, play)
      /\ heard' = heard + play \div FrameBytes
      /\ run' = (run \/ play > 0)
      /\ rx' = SubSeq(rx, 1, Len(rx) - play)
      /\ pc0' = "receive"
      /\ UNCHANGED <<room, made, s_ring, g_audio_drops>>

(* i2s_write() of the whole frames, memmove() of the carry. *)
Play ==
  LET play == Whole(Len(rx))
  IN  /\ pc0 = "write"
      /\ played' = SubSeq(rx, 1, play)
      /\ heard' = heard + play \div FrameBytes
      /\ run' = (run \/ play > 0)
      /\ rx' = SubSeq(rx, play + 1, Len(rx))
      /\ pc0' = "receive"
      /\ UNCHANGED <<room, made, s_ring, g_audio_drops>>

Next == Write \/ Receive \/ Starve \/ Play

(* The task runs whenever it can; the emulator owes it nothing. *)
Spec == Init /\ [][Next]_vars /\ WF_vars(Receive \/ Starve \/ Play)

SafeSpec == Init /\ [][Next]_vars

-----------------------------------------------------------------------------
TypeOK ==
  /\ room \in {RingBytes, RingBytes - 1}
  /\ made \in Nat
  /\ s_ring \in Seq(Nat) /\ Len(s_ring) <= room
  /\ rx \in Seq(Nat) /\ Len(rx) <= RxBytes
  /\ pc0 \in {"receive", "write"}
  /\ pc0 = "receive" => Len(rx) < FrameBytes
  /\ played \in Seq(Nat)
  /\ heard \in Nat /\ g_audio_drops \in Nat
  /\ run \in BOOLEAN

(* The DAC gets the stream in order, no byte twice: what is played, what   *)
(* the task holds and what is in the ring are increasing, across partial   *)
(* sends, carries and block boundaries.                                    *)
Pipeline == played \o rx \o s_ring

InOrder ==
  \A i \in 1 .. Len(Pipeline) - 1 : Pipeline[i] < Pipeline[i + 1]

(* Everything the ring took gets to the DAC, but for at most a split frame. *)
RingDrains == <>[](s_ring = << >> /\ Len(rx) < FrameBytes)

(* The bytes the DAC is given start at a frame and go through the four     *)
(* bytes of a frame in turn: left and right in their places.               *)
InPhase == \A i \in DOMAIN played : played[i] % FrameBytes = (i - 1) % FrameBytes

HoldsWholeFrames == room % FrameBytes = 0

(* With room for whole frames left and right stay left and right, whatever *)
(* is dropped and however a block is cut (the sends of audio_write_s32).   *)
(* With a byte less the carry of audio_task cannot help: it keeps only the *)
(* count a multiple of 4, and the rest of a frame that was cut is dropped. *)
PhaseKept == HoldsWholeFrames => InPhase

Counted == (made - heard - g_audio_drops) * FrameBytes = Len(s_ring) + Len(rx)

(* With room for whole frames, the drop counter of the statistics line     *)
(* tells exactly how many frames never reach the DAC.                      *)
DropsCounted == HoldsWholeFrames => Counted

=============================================================================

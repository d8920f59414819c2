------------------------------- MODULE Keybrd -------------------------------
(***************************************************************************)
(* The guest's keyboard interface (io/serial.c), as operators from one     *)
(* state to the next.  The bytes of keys wait in buf, replies to commands  *)
(* in ctr; ready says that data was not read yet (status & 2), over that   *)
(* a byte found buf full (status & 0x10).                                  *)
(***************************************************************************)
EXTENDS Integers, Sequences, FiniteSetsExt, SequencesExt

CONSTANTS
  KbBuf,          \* KB_BUF: 128
  KbCtr,          \* KB_CTR: 8
  Byte,           \* what keys send
  Reply           \* what the keyboard replies

ASSUME KeybrdAssumption == KbBuf \in Nat \ {0} /\ KbCtr \in Nat \ {0}

KeybrdType ==
  [ready : BOOLEAN, over : BOOLEAN, data : Byte \cup Reply,
   ctr : SeqOf(Reply, KbCtr), buf : SeqOf(Byte, KbBuf)]

(* keyboard_reset(); data is then 0xff, which no key sends. *)
KeyboardReset(data) ==
  [ready |-> FALSE, over |-> FALSE, data |-> data, ctr |-> <<>>, buf |-> <<>>]

KeyboardIdle(k) == k.ctr = <<>> /\ k.buf = <<>>

(* Mutant: the byte that was not read yet is not waited for. *)
ReceiveOver(k) ==
  IF k.ctr # <<>>
  THEN [k EXCEPT !.ready = TRUE, !.data = Head(k.ctr), !.ctr = Tail(@)]
  ELSE [k EXCEPT !.ready = TRUE, !.data = Head(k.buf), !.buf = Tail(@)]

(* keyboard_callback(), when something waits: the next byte, unless the    *)
(* last one was not read; replies before keys.                             *)
Receive(k) ==
  IF k.ready THEN k
  ELSE IF k.ctr # <<>>
  THEN [k EXCEPT !.ready = TRUE, !.data = Head(k.ctr), !.ctr = Tail(@)]
  ELSE [k EXCEPT !.ready = TRUE, !.data = Head(k.buf), !.buf = Tail(@)]

(* keyboard_i41() *)
DataRead(k) == [k EXCEPT !.ready = FALSE]

(* Mutant: the count is compared after the byte is in. *)
KeyboardAcceptsOneMore(k) == Len(k.buf) <= KbBuf

(* keyboard_send() *)
KeyboardAccepts(k) == Len(k.buf) < KbBuf

KeyboardSend(k, b) ==
  IF KeyboardAccepts(k) THEN [k EXCEPT !.buf = Append(@, b)] ELSE [k EXCEPT !.over = TRUE]

(* keyboard_ctrl(), once for each byte of a reply to a command: every reply *)
(* starts with 0xfa or 0xfc, which drops what was still to be sent.         *)
KeyboardCtrl(k, reply) == [k EXCEPT !.ctr = SubSeq(reply, 1, Min({KbCtr, Len(reply)}))]

(* keyboard_resetsignal(), without what the held keys send again. *)
KeyboardResetSignal(k) ==
  [k EXCEPT !.ready = FALSE, !.over = FALSE, !.ctr = <<>>, !.buf = <<>>]
=============================================================================

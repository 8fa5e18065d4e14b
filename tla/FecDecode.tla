----------------------------- MODULE FecDecode ------------------------------
(***************************************************************************)
(* The CCSDS receiver: the block fec_decode_b (lib/fec_decode_b_impl.cc)   *)
(* around ccsds_rx_proc and ccsds_pull of lib/ccsds/ccsds.c.               *)
(*                                                                         *)
(* work() writes the bytes of its input to rx_fifo, then ccsds_pull looks  *)
(* at them bit by bit.  A byte is a tuple of ByteBits bits, the high bit   *)
(* first; a mask is the number of the bit it selects, 1 for 0x80, and      *)
(* ByteBits + 1 when it has been shifted out.  Which bytes arrive is left  *)
(* open: it stands for the channel, the Viterbi decoder and the NRZ-M      *)
(* decoder.  decode_rs may accept or reject any frame.                     *)
(***************************************************************************)
EXTENDS Integers, Sequences, FiniteSets

CONSTANTS
  SyncWord,     \* the bits of sync_word
  ByteBits,     \* bits in a byte
  FrameBytes,   \* len_frame + RS_LENGTH
  RxRoom,       \* bytes rx_fifo can hold: its array less one
  WorkBytes     \* bytes one work() may bring

Bit  == {0, 1}
Byte == [1 .. ByteBits -> Bit]

ASSUME SizeAssumption ==
  /\ SyncWord \in Seq(Bit) /\ SyncWord # <<>>
  /\ ByteBits \in Nat \ {0}
  /\ FrameBytes \in Nat \ {0}
  /\ RxRoom \in Nat \ {0}

\* set_output_multiple(16) is 16 symbols: a byte of the convolutional code,
\* two bytes without it.
ASSUME WorkAssumption == WorkBytes \subseteq Nat \ {0}

VARIABLES
  pc,              \* "wait", "rx" (ccsds_rx_proc), "pull" (ccsds_pull)
  n,               \* bytes the input of this work() makes
  i,               \* of them, those ccsds_rx_proc has written
  rx_fifo,
  current_in,      \* of ccsds_pull
  mask_bit_in,     \* of ccsds_pull
  syncing,
  buffer_sync_det,
  n_out,
  mask_bit_out,
  buf_sync_out,
  out              \* the last call of hook: the frame, and whether it published

input == <<n, i, rx_fifo>>
loop  == <<current_in, mask_bit_in>>
frame == <<n_out, mask_bit_out, buf_sync_out>>
vars  == <<pc, input, loop, syncing, buffer_sync_det, frame, out>>

EmptyRegister == [k \in DOMAIN SyncWord |-> 0]

\* ccsds_init.  buf_sync_out is not cleared; its bits are written before they
\* are read, so that zeros will do.
Init ==
  /\ pc = "wait"
  /\ n = 0
  /\ i = 0
  /\ rx_fifo = <<>>
  /\ current_in = [k \in 1 .. ByteBits |-> 0]
  /\ mask_bit_in = 1
  /\ syncing = FALSE
  /\ buffer_sync_det = EmptyRegister
  /\ n_out = 0
  /\ mask_bit_out = 1
  /\ buf_sync_out = [k \in 0 .. FrameBytes - 1 |-> [j \in 1 .. ByteBits |-> 0]]
  /\ out = <<>>

-----------------------------------------------------------------------------
(* work(): ccsds_rx_proc. *)

\* (Faulty variants that the checks must tell from the code have names of the
\* form <operation>_<fault>; Next does not use them.)
StartWork_Empty(k) ==
  /\ pc = "wait"
  /\ pc' = "rx"
  /\ n' = k - 1
  /\ i' = 0
  /\ UNCHANGED <<rx_fifo, loop, syncing, buffer_sync_det, frame, out>>

StartWork(k) ==
  /\ pc = "wait"
  /\ pc' = "rx"
  /\ n' = k
  /\ i' = 0
  /\ UNCHANGED <<rx_fifo, loop, syncing, buffer_sync_det, frame, out>>

\* ccsds_rxwrite: a full FIFO is flushed first, and the byte is kept.
RxWrite(c) ==
  /\ pc = "rx"
  /\ i < n
  /\ i' = i + 1
  /\ rx_fifo' = IF Len(rx_fifo) = RxRoom THEN <<c>> ELSE Append(rx_fifo, c)
  /\ UNCHANGED <<pc, n, loop, syncing, buffer_sync_det, frame, out>>

StartPull ==
  /\ pc = "rx"
  /\ i = n
  /\ pc' = "pull"
  /\ mask_bit_in' = 1
  /\ UNCHANGED <<input, current_in, syncing, buffer_sync_det, frame, out>>

-----------------------------------------------------------------------------
(* work(): one pass of the loop of ccsds_pull takes one bit. *)

\* The loop goes on while bytes wait or bits of the current one are left.
LoopGoesOn_MaskOnly == mask_bit_in <= ByteBits

LoopGoesOn == rx_fifo # <<>> \/ mask_bit_in <= ByteBits

\* The mask of this pass: one that was shifted out starts again.
Mask == IF mask_bit_in = ByteBits + 1 THEN 1 ELSE mask_bit_in

\* A byte is popped when the mask is on its first bit.  (The FIFO is not
\* tested: on the first pass the caller must have written a byte.)
Current == IF Mask = 1 THEN Head(rx_fifo) ELSE current_in

TakeBit_NoShift ==
  /\ pc = "pull"
  /\ LoopGoesOn
  /\ Mask = 1 => rx_fifo # <<>>
  /\ current_in' = Current
  /\ rx_fifo' = IF Mask = 1 THEN Tail(rx_fifo) ELSE rx_fifo
  /\ mask_bit_in' = Mask
  /\ UNCHANGED <<pc, n, i>>

TakeBit ==
  /\ pc = "pull"
  /\ LoopGoesOn
  /\ Mask = 1 => rx_fifo # <<>>
  /\ current_in' = Current
  /\ rx_fifo' = IF Mask = 1 THEN Tail(rx_fifo) ELSE rx_fifo
  /\ mask_bit_in' = Mask + 1
  /\ UNCHANGED <<pc, n, i>>

CurrentBit == Current[Mask]

\* The switch over the 33 values of the register xor the sync word.
WithinOne(r) == Cardinality({k \in DOMAIN SyncWord : r[k] # SyncWord[k]}) <= 1

Shifted == Append(Tail(buffer_sync_det), CurrentBit)

Hunt_KeepPlace ==
  /\ ~syncing
  /\ TakeBit
  /\ syncing' = WithinOne(Shifted)
  /\ buffer_sync_det' = IF syncing' THEN EmptyRegister ELSE Shifted
  /\ UNCHANGED <<frame, out>>

Hunt_KeepRegister ==
  /\ ~syncing
  /\ TakeBit
  /\ syncing' = WithinOne(Shifted)
  /\ buffer_sync_det' = Shifted
  /\ mask_bit_out' = IF syncing' THEN 1 ELSE mask_bit_out
  /\ n_out' = IF syncing' THEN 0 ELSE n_out
  /\ UNCHANGED <<buf_sync_out, out>>

\* Not syncing: shift the bit into the register and compare.
Hunt ==
  /\ ~syncing
  /\ TakeBit
  /\ IF WithinOne(Shifted)
       THEN /\ syncing' = TRUE
            /\ buffer_sync_det' = EmptyRegister
            /\ mask_bit_out' = 1
            /\ n_out' = 0
       ELSE /\ buffer_sync_det' = Shifted
            /\ UNCHANGED <<syncing, n_out, mask_bit_out>>
  /\ UNCHANGED <<buf_sync_out, out>>

\* Syncing: the bit goes to its place in the frame.
Store == [buf_sync_out EXCEPT ![n_out][mask_bit_out] = CurrentBit]

Collect ==
  /\ syncing
  /\ TakeBit
  /\ buf_sync_out' = Store
  /\ IF mask_bit_out < ByteBits
       THEN mask_bit_out' = mask_bit_out + 1 /\ UNCHANGED n_out
       ELSE /\ n_out + 1 # FrameBytes
            /\ mask_bit_out' = 1
            /\ n_out' = n_out + 1
  /\ UNCHANGED <<syncing, buffer_sync_det, out>>

\* Its last bit: the frame goes through decode_rs to hook, and the callback
\* publishes it if decode_rs accepted it or d_pass_all is set.
Complete ==
  /\ syncing
  /\ TakeBit
  /\ mask_bit_out = ByteBits
  /\ n_out + 1 = FrameBytes
  /\ buf_sync_out' = Store
  /\ mask_bit_out' = 1
  /\ n_out' = n_out + 1
  /\ syncing' = FALSE
  /\ \E accepted, pass_all \in BOOLEAN :
       out' = <<buf_sync_out', accepted \/ pass_all>>
  /\ UNCHANGED buffer_sync_det

EndPull ==
  /\ pc = "pull"
  /\ ~LoopGoesOn
  /\ pc' = "wait"
  /\ UNCHANGED <<input, loop, syncing, buffer_sync_det, frame, out>>

-----------------------------------------------------------------------------
Thread ==
  \/ \E c \in Byte : RxWrite(c)
  \/ StartPull
  \/ Hunt
  \/ Collect
  \/ Complete
  \/ EndPull

Next ==
  \/ \E k \in WorkBytes : StartWork(k)
  \/ Thread

Spec == Init /\ [][Next]_vars

\* The thread of the block runs; nothing makes symbols arrive.
FairSpec == Spec /\ WF_vars(Thread)

-----------------------------------------------------------------------------
(* Properties. *)

\* Every variable keeps its type; the place of the next bit is in the frame.
TypeOK ==
  /\ pc \in {"wait", "rx", "pull"}
  /\ n \in Nat
  /\ i \in 0 .. n
  /\ rx_fifo \in Seq(Byte) /\ Len(rx_fifo) <= RxRoom
  /\ current_in \in Byte
  /\ mask_bit_in \in 1 .. ByteBits + 1
  /\ syncing \in BOOLEAN
  /\ buffer_sync_det \in [DOMAIN SyncWord -> Bit]
  /\ n_out \in 0 .. FrameBytes
  /\ syncing => n_out < FrameBytes
  /\ mask_bit_out \in 1 .. ByteBits
  /\ buf_sync_out \in [0 .. FrameBytes - 1 -> Byte]
  /\ out = <<>> \/ out \in [0 .. FrameBytes - 1 -> Byte] \X BOOLEAN

\* ccsds_pull never pops an empty FIFO, although its loop is entered without
\* a test: each work() has brought a byte.
PopsAByte == pc = "pull" /\ LoopGoesOn /\ Mask = 1 => rx_fifo # <<>>

\* Received bytes are lost only in a work() that brings more of them than
\* rx_fifo can hold, never for what an earlier one brought: every bit has been
\* looked at when ccsds_pull returns.
LossIsOverrun ==
  [][pc = "rx" /\ Len(rx_fifo') <= Len(rx_fifo) /\ i' # i => n > RxRoom]_vars

\* Cutting the bits into bytes and calls of work(), and writing the frame
\* through a mask, does not show: the block is the bit by bit Deframer.
Bits(bytes) ==
  [k \in 1 .. Len(bytes) * ByteBits |->
     bytes[((k - 1) \div ByteBits) + 1][((k - 1) % ByteBits) + 1]]

\* The first len bits of a frame buffer, whose bytes are numbered from 0.
FirstBits(buffer, len) ==
  [k \in 1 .. len |-> buffer[(k - 1) \div ByteBits][((k - 1) % ByteBits) + 1]]

Waiting ==
  (IF pc = "pull" /\ mask_bit_in # 1
     THEN SubSeq(current_in, mask_bit_in, ByteBits) ELSE <<>>) \o Bits(rx_fifo)

Gathered ==
  IF syncing THEN FirstBits(buf_sync_out, n_out * ByteBits + mask_bit_out - 1)
             ELSE <<>>

Passed ==
  IF out = <<>> THEN <<>>
                ELSE <<FirstBits(out[1], FrameBytes * ByteBits), out[2]>>

BitDeframer ==
  INSTANCE Deframer
    WITH FrameBits <- FrameBytes * ByteBits,
         Room <- RxRoom * ByteBits,
         pending <- Waiting,
         register <- buffer_sync_det,
         got <- Gathered,
         collecting <- syncing,
         out <- Passed

DeframerSpec == BitDeframer!Spec

\* Each call of work() comes to an end.
WorkEnds == (pc = "rx") ~> (pc = "wait")
=============================================================================

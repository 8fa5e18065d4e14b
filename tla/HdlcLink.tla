------------------------------ MODULE HdlcLink ------------------------------
(***************************************************************************)
(* The AX.25 link bit by bit: the bits afsk_tx_proc sends for the          *)
(* characters of AfskTx (lib/afsk/afsk.c: bit stuffing and NRZI), a line,  *)
(* hdlc_parse, which finds the characters again and pushes them to rx_fifo *)
(* with an ESC in front of every flag, reset and ESC that is data, and     *)
(* ax25_poll (lib/afsk/ax25.c), which finds the frames.                    *)
(*                                                                         *)
(* The block afsk1200_rx_f calls ax25_poll at the end of every work(),     *)
(* wherever the input was cut.  The line may send a tone wrong, and        *)
(* rx_fifo may be full.  The check sequence is part of a frame and ideal:  *)
(* it accepts a frame that was sent and nothing else.                      *)
(***************************************************************************)
EXTENDS Integers, Sequences, SequencesExt, FiniteSets

CONSTANTS
  Frames,      \* the frames that may be sent, each once
  MinLen,      \* AX25_MIN_FRAME_LEN
  BufLen,      \* CONFIG_AX25_FRAME_BUF_LEN
  RxRoom,      \* characters rx_fifo can hold: its array less one
  MaxFrames,   \* bound on the frames sent
  MaxErrors    \* bound on the wrong tones

HDLC_FLAG  == 126
HDLC_RESET == 127
AX25_ESC   == 27
Special    == {HDLC_FLAG, HDLC_RESET, AX25_ESC}

Byte == 0 .. 255

ASSUME FrameAssumption ==
  \A f \in Frames : f \in Seq(Byte) /\ Len(f) >= MinLen

ASSUME LenAssumption ==
  /\ MinLen \in Nat \ {0}
  /\ BufLen \in Nat /\ BufLen >= MinLen
  /\ RxRoom \in Nat \ {0}
  /\ MaxFrames \in Nat
  /\ MaxErrors \in Nat

VARIABLES
  sent,        \* the frames sent, the last of them perhaps not to its end
  in_frame,    \* the characters left are those of the last frame
  chars,       \* <<character, with bit stuffing>> still to be sent
  tx_bit,      \* bits of the first of them already sent
  stuff_cnt,
  tone,        \* the tone sent last
  flipped,     \* the line turned it into the other one
  errors,      \* wrong tones so far
  found,       \* the tone received last
  demod_bits, bit_idx, currchar, rxstart,   \* Hdlc
  rx_fifo,
  polling,     \* work() is in ax25_poll
  sync, escape, buf,                        \* AX25Ctx
  got,         \* the frames given to the hook
  cut,         \* rx_fifo took an ESC and not what it escapes, and no flag since
  hurt         \* the places in sent of the frames hurt on the way

tx   == <<sent, in_frame, chars, tx_bit, stuff_cnt, tone>>
hdlc == <<demod_bits, bit_idx, currchar, rxstart>>
ax25 == <<sync, escape, buf, got>>
vars == <<tx, flipped, errors, found, hdlc, rx_fifo, polling, ax25, cut, hurt>>

\* afsk_init, direwolf_afsk_init and ax25_init.  The sender starts on the mark
\* tone, the receiver from a zero: it has the tone before the first bit wrong.
Init ==
  /\ sent = <<>> /\ in_frame = FALSE
  /\ chars = <<>> /\ tx_bit = 0 /\ stuff_cnt = 0
  /\ tone = 1
  /\ flipped = TRUE /\ errors = 0
  /\ found = 0
  /\ demod_bits = 0 /\ bit_idx = 0 /\ currchar = 0 /\ rxstart = FALSE
  /\ rx_fifo = <<>>
  /\ polling = FALSE
  /\ sync = FALSE /\ escape = FALSE /\ buf = <<>>
  /\ got = <<>>
  /\ cut = FALSE /\ hurt = {}

-----------------------------------------------------------------------------
(* What is sent: frames, with any number of flags around them. *)

Flag == <<HDLC_FLAG, FALSE>>

\* ax25_sendVia, as it leaves tx_fifo (AfskTx!FramesIntact).
StartFrame(f) ==
  /\ chars = <<>>
  /\ Len(sent) < MaxFrames
  /\ f \notin Range(sent)
  /\ sent' = Append(sent, f)
  /\ in_frame' = TRUE
  /\ chars' = <<Flag>> \o [k \in DOMAIN f |-> <<f[k], TRUE>>] \o <<Flag>>
  /\ UNCHANGED <<tx_bit, stuff_cnt, tone, flipped, errors, found, hdlc,
                 rx_fifo, polling, ax25, cut, hurt>>

\* A flag of a preamble or a trailer.
Fill ==
  /\ chars = <<>>
  /\ in_frame' = FALSE
  /\ chars' = <<Flag>>
  /\ UNCHANGED <<sent, tx_bit, stuff_cnt, tone, flipped, errors, found, hdlc,
                 rx_fifo, polling, ax25, cut, hurt>>

\* A zero goes in behind five ones.
Stuffing == Head(chars)[2] /\ stuff_cnt >= 5

\* The bit to be sent, least significant first.
TxBit == IF Stuffing THEN 0 ELSE (Head(chars)[1] \div 2 ^ tx_bit) % 2

\* afsk_tx_proc, for the samples of one bit: a zero switches the tone.
Send ==
  LET last == ~Stuffing /\ tx_bit = 7
      ones == IF TxBit = 1 THEN stuff_cnt + 1 ELSE 0
  IN /\ tone' = IF TxBit = 0 THEN 1 - tone ELSE tone
     /\ tx_bit' = IF Stuffing THEN tx_bit ELSE (tx_bit + 1) % 8
     /\ stuff_cnt' = IF last /\ ~Head(chars)[2] THEN 0 ELSE ones
     /\ chars' = IF last THEN Tail(chars) ELSE chars
     /\ UNCHANGED <<sent, in_frame>>

-----------------------------------------------------------------------------
(* hdlc_parse. *)

\* demod_bits with the new bit in it: direwolf_afsk_demod_callback undoes NRZI.
Demod == (2 * demod_bits + (IF found' = found THEN 1 ELSE 0)) % 256

\* (Faulty variants that the checks must tell from the code have names of the
\* form <definition>_<fault>; Next does not use them.)
Escaped_NotEsc(c) ==
  IF c \in {HDLC_FLAG, HDLC_RESET} THEN <<AX25_ESC, c>> ELSE <<c>>

\* What a character becomes in rx_fifo.
Escaped(c) == IF c \in Special THEN <<AX25_ESC, c>> ELSE <<c>>

IsFlag  == Demod = HDLC_FLAG
IsReset == Demod % 128 = HDLC_RESET      \* seven ones

IsStuffed == Demod % 64 = 62             \* 111110

IsData == rxstart /\ ~IsFlag /\ ~IsReset /\ ~IsStuffed

\* currchar with the new bit in it.
Char == currchar + 128 * (Demod % 2)

\* What this bit completes, and how much of it rx_fifo has no room for.
Pushed ==
  IF IsFlag THEN <<HDLC_FLAG>>
  ELSE IF IsData /\ bit_idx = 7 THEN Escaped(Char) ELSE <<>>

Room    == RxRoom - Len(rx_fifo)
Overrun == Len(Pushed) > Room

Parse ==
  /\ rx_fifo' = rx_fifo \o (IF Overrun THEN SubSeq(Pushed, 1, Room) ELSE Pushed)
  /\ rxstart' = IF Overrun \/ (IsReset /\ ~IsFlag) THEN FALSE
                ELSE rxstart \/ IsFlag
  /\ bit_idx' = IF IsFlag THEN 0
                ELSE IF IsData THEN (bit_idx + 1) % 8 ELSE bit_idx
  /\ currchar' = IF IsFlag THEN 0
                 ELSE IF ~IsData THEN currchar
                 ELSE IF bit_idx = 7 THEN 0 ELSE Char \div 2

-----------------------------------------------------------------------------
\* One bit crosses the line.  A wrong tone makes its bit and the next one wrong;
\* a lost character may leave an ESC in rx_fifo with nothing behind it, and the
\* next flag is then no flag to ax25_poll.
Bit(flip) ==
  /\ chars # <<>>
  /\ ~polling
  /\ flip => errors < MaxErrors
  /\ errors' = IF flip THEN errors + 1 ELSE errors
  /\ flipped' = flip
  /\ Send
  /\ found' = IF flip THEN 1 - tone' ELSE tone'
  /\ demod_bits' = Demod
  /\ Parse
  /\ cut' = IF Overrun THEN cut \/ Room = 1 ELSE cut /\ ~IsFlag
  /\ hurt' = IF in_frame /\ (flip \/ flipped \/ Overrun \/ (cut /\ IsFlag))
               THEN hurt \union {Len(sent)} ELSE hurt
  /\ UNCHANGED <<polling, ax25>>

-----------------------------------------------------------------------------
(* ax25_poll, one character at a time, until rx_fifo is empty. *)

StartPoll ==
  /\ ~polling
  /\ rx_fifo # <<>>
  /\ polling' = TRUE
  /\ UNCHANGED <<tx, flipped, errors, found, hdlc, rx_fifo, ax25, cut, hurt>>

Getc(c) ==
  /\ polling
  /\ rx_fifo # <<>>
  /\ Head(rx_fifo) = c
  /\ rx_fifo' = Tail(rx_fifo)
  /\ UNCHANGED <<tx, flipped, errors, found, hdlc, polling, cut, hurt>>

\* ax25_decode gives the hook a frame whose check sequence is right.
PollFlag_KeepFrame ==
  /\ ~escape
  /\ Getc(HDLC_FLAG)
  /\ got' = IF Len(buf) >= MinLen /\ buf \in Range(sent)
              THEN Append(got, buf) ELSE got
  /\ sync' = TRUE
  /\ UNCHANGED <<escape, buf>>

PollFlag ==
  /\ ~escape
  /\ Getc(HDLC_FLAG)
  /\ got' = IF Len(buf) >= MinLen /\ buf \in Range(sent)
              THEN Append(got, buf) ELSE got
  /\ sync' = TRUE
  /\ buf' = <<>>
  /\ UNCHANGED escape

PollEsc ==
  /\ ~escape
  /\ Getc(AX25_ESC)
  /\ escape' = TRUE
  /\ UNCHANGED <<sync, buf, got>>

PollChar_NoLimit(c) ==
  /\ escape \/ c \notin Special
  /\ Getc(c)
  /\ IF sync /\ Len(buf) <= BufLen
       THEN buf' = Append(buf, c) /\ UNCHANGED sync
       ELSE sync' = FALSE /\ UNCHANGED buf
  /\ escape' = FALSE
  /\ UNCHANGED got

\* (ax25_poll also has a case for an unescaped HDLC_RESET, which hdlc_parse
\* never pushes.)
PollChar(c) ==
  /\ escape \/ c \notin Special
  /\ Getc(c)
  /\ IF sync /\ Len(buf) < BufLen
       THEN buf' = Append(buf, c) /\ UNCHANGED sync
       ELSE sync' = FALSE /\ UNCHANGED buf
  /\ escape' = FALSE
  /\ UNCHANGED got

EndPoll ==
  /\ polling
  /\ rx_fifo = <<>>
  /\ polling' = FALSE
  /\ UNCHANGED <<tx, flipped, errors, found, hdlc, rx_fifo, ax25, cut, hurt>>

-----------------------------------------------------------------------------
Next ==
  \/ \E f \in Frames : StartFrame(f)
  \/ Fill
  \/ \E flip \in BOOLEAN : Bit(flip)
  \/ StartPoll
  \/ PollFlag
  \/ PollEsc
  \/ \E c \in Byte : PollChar(c)
  \/ EndPoll

Spec == Init /\ [][Next]_vars

-----------------------------------------------------------------------------
(* Properties. *)

\* Every variable keeps its type, and ax25_poll has a case for the character in
\* front of it: hdlc_parse pushes no HDLC_RESET but behind an ESC, and where it
\* lost what an ESC escapes, the next character is a flag.
TypeOK ==
  /\ sent \in Seq(Frames) /\ Len(sent) <= MaxFrames
  /\ in_frame \in BOOLEAN
  /\ chars \in Seq(Byte \X BOOLEAN)
  /\ tx_bit \in 0 .. 7 /\ stuff_cnt \in 0 .. 6
  /\ tone \in {0, 1} /\ found \in {0, 1}
  /\ flipped \in BOOLEAN /\ errors \in 0 .. MaxErrors
  /\ demod_bits \in Byte /\ bit_idx \in 0 .. 7 /\ currchar \in 0 .. 127
  /\ rxstart \in BOOLEAN /\ polling \in BOOLEAN
  /\ rx_fifo \in Seq(Byte) /\ Len(rx_fifo) <= RxRoom
  /\ sync \in BOOLEAN /\ escape \in BOOLEAN
  /\ buf \in Seq(Byte) /\ Len(buf) <= BufLen
  /\ got \in Seq(Frames)
  /\ cut \in BOOLEAN /\ hurt \subseteq 1 .. MaxFrames
  /\ rx_fifo # <<>> /\ ~escape => Head(rx_fifo) # HDLC_RESET

\* The hook gets no frame twice, and none before one that was sent earlier,
\* whatever the line and the FIFO lose.  (Of frames that the wrong tones cannot
\* turn into each other: there the ideal check sequence is none.)
NoFrameTwice ==
  got = SelectSeq(sent, LAMBDA f : f \in Range(got))

\* When the last bit of a frame has been heard and ax25_poll has seen it, the
\* hook has got every frame that fits its buffer, but for those hurt: one whose
\* own bits were wrong (the flags at its ends among them), one that did not
\* fit rx_fifo, and one whose flag came behind an ESC whose character had been
\* lost.  What else happened before or happens after does not matter: no frame
\* is lost for another's error.
LossExplained ==
  chars = <<>> /\ rx_fifo = <<>> =>
    \A k \in DOMAIN sent :
      sent[k] \in Range(got) \/ k \in hurt \/ Len(sent[k]) > BufLen
=============================================================================

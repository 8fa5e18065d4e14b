------------------------------- MODULE AfskTx -------------------------------
(***************************************************************************)
(* The AX.25 transmitter: the block afsk1200_tx_f                          *)
(* (lib/afsk1200_tx_f_impl.cc) around ax25_sendVia (lib/afsk/ax25.c),      *)
(* afsk_write and afsk_tx_proc (lib/afsk/afsk.c).                          *)
(*                                                                         *)
(* ax25_sendVia writes a frame between two flags, and an ESC in front of   *)
(* every character of the frame that is a flag, a reset or an ESC itself;  *)
(* afsk_tx_proc takes the ESC out again and sends the character behind it  *)
(* with bit stuffing, so that only the flags between frames go out         *)
(* unstuffed.  A frame (addresses, control, payload, CRC) is a sequence of *)
(* characters; HDLC_RESET is treated as HDLC_FLAG is, and both are "flag". *)
(*                                                                         *)
(* The handler that writes and the work() that sends run in one thread.    *)
(***************************************************************************)
EXTENDS Integers, Sequences, SequencesExt

CONSTANTS
  Frames,        \* the frames a client may post
  PreambleLen,   \* flags before the first frame of a burst
  TrailerLen,    \* flags after the last one
  TxRoom,        \* characters tx_fifo can hold: its array less one
  CharLen,       \* samples of a character
  WorkSamples,   \* samples the output buffer may have room for, in one work()
  MaxPosts       \* bound on the messages posted

Char == {"data", "flag", "esc"}

ASSUME FrameAssumption == Frames \subseteq Seq(Char) \ {<<>>}

ASSUME LenAssumption ==
  /\ PreambleLen \in Nat
  /\ TrailerLen \in Nat \ {0}
  /\ TxRoom \in Nat \ {0}
  /\ CharLen \in Nat \ {0}
  /\ WorkSamples \subseteq Nat \ {0}
  /\ MaxPosts \in Nat

VARIABLES
  cfg_padding_zero, \* constructor argument: zeros between bursts
  posted,        \* the messages posted, in order
  taken,         \* how many of them pmt_in_callback was called with
  pc,            \* the block's thread: "sched", "write" (ax25_sendVia), "work"
  at,            \* of ax25_sendVia: 0 at the opening flag, k at character k of
                 \* the frame, behind the last one at the closing flag
  escapes,       \* ESCs it has written for that character
  tx_fifo,
  sending,
  preamble_len,
  trailer_len,
  left,          \* samples of the current character still to be put out
  n,             \* blocksize of this afsk_tx_proc
  i,             \* samples it has put out
  d_ptt,
  heard,         \* what a receiver has of the frame it is in
  received,      \* the frames it got
  flags,         \* flags since its last frame, or since sending was set
  first          \* the first frame of this burst

client  == <<posted, taken>>
cursor  == <<at, escapes>>
loop    == <<n, i>>
channel == <<heard, received, flags>>
vars    == <<cfg_padding_zero, client, pc, cursor, tx_fifo, sending,
             preamble_len, trailer_len, left, loop, d_ptt, channel, first>>

Init ==
  /\ cfg_padding_zero \in BOOLEAN
  /\ posted = <<>> /\ taken = 0
  /\ pc = "sched"
  /\ at = 0 /\ escapes = 0
  /\ tx_fifo = <<>>
  /\ sending = FALSE
  /\ preamble_len = 0
  /\ trailer_len = 0
  /\ left = 0
  /\ n = 0 /\ i = 0
  /\ d_ptt = 0
  /\ heard = <<>> /\ received = <<>> /\ flags = 0
  /\ first = 0

-----------------------------------------------------------------------------
(* The message handler. *)

\* (Faulty variants that the checks must tell from the code have names of the
\* form <definition>_<fault>; Next does not use them.)
NeedsEsc_NotEsc(frame, k, e) == k \in DOMAIN frame /\ e = 0 /\ frame[k] = "flag"

\* ax25_putchar writes an ESC first.
NeedsEsc(frame, k, e) ==
  k \in DOMAIN frame /\ e = 0 /\ frame[k] \in {"flag", "esc"}

\* What ax25_sendVia writes next, at place k of a frame with e ESCs written.
Written(frame, k, e) ==
  IF NeedsEsc(frame, k, e) THEN "esc"
  ELSE IF k \in DOMAIN frame THEN frame[k] ELSE "flag"

LastPlace_NotClosed(frame) == Len(frame)

LastPlace(frame) == Len(frame) + 1

Post(frame) ==
  /\ Len(posted) < MaxPosts
  /\ posted' = Append(posted, frame)
  /\ UNCHANGED <<cfg_padding_zero, taken, pc, cursor, tx_fifo, sending,
                 preamble_len, trailer_len, left, loop, d_ptt, channel, first>>

\* The scheduler hands over every queued message before it calls work().
Dispatch ==
  /\ pc = "sched"
  /\ taken < Len(posted)
  /\ taken' = taken + 1
  /\ pc' = "write"
  /\ UNCHANGED <<cfg_padding_zero, posted, cursor, tx_fifo, sending,
                 preamble_len, trailer_len, left, loop, d_ptt, channel, first>>

\* One character of the frame goes to the FIFO, and the call of ax25_sendVia
\* returns behind the closing flag.
PutNext ==
  LET frame == posted[taken]
  IN  /\ tx_fifo' = Append(tx_fifo, Written(frame, at, escapes))
      /\ escapes' = IF NeedsEsc(frame, at, escapes) THEN 1 ELSE 0
      /\ at' = IF NeedsEsc(frame, at, escapes) THEN at
               ELSE IF at = LastPlace(frame) THEN 0 ELSE at + 1
      /\ pc' = IF at = LastPlace(frame) THEN "sched" ELSE "write"

Write_NoTrailer ==
  /\ pc = "write"
  /\ Len(tx_fifo) < TxRoom
  /\ PutNext
  /\ sending' = TRUE
  /\ IF sending THEN UNCHANGED <<preamble_len, trailer_len, flags, first>>
                ELSE /\ preamble_len' = PreambleLen
                     /\ trailer_len' = TrailerLen
                     /\ flags' = 0
                     /\ first' = taken
  /\ UNCHANGED <<cfg_padding_zero, client, left, loop, d_ptt, heard, received>>

\* afsk_write, and afsk_txStart.  It waits while the FIFO is full.
Write ==
  /\ pc = "write"
  /\ Len(tx_fifo) < TxRoom
  /\ PutNext
  /\ sending' = TRUE
  /\ trailer_len' = TrailerLen
  /\ IF sending THEN UNCHANGED <<preamble_len, flags, first>>
                ELSE /\ preamble_len' = PreambleLen
                     /\ flags' = 0
                     /\ first' = taken
  /\ UNCHANGED <<cfg_padding_zero, client, left, loop, d_ptt, heard, received>>

-----------------------------------------------------------------------------
(* work(): afsk_tx_proc.  A character is on the air for CharLen samples, and  *)
(* the output buffer may end between any two of them.                         *)

StartWork(k) ==
  /\ pc = "sched"
  /\ taken = Len(posted)
  /\ pc' = "work"
  /\ n' = k
  /\ i' = 0
  /\ UNCHANGED <<cfg_padding_zero, client, cursor, tx_fifo, sending,
                 preamble_len, trailer_len, left, d_ptt, channel, first>>

\* The guards all four kinds of character share, and their first sample.
NextChar ==
  /\ pc = "work"
  /\ i < n
  /\ left = 0
  /\ tx_fifo # <<>> \/ trailer_len > 0
  /\ left' = CharLen - 1
  /\ i' = i + 1
  /\ UNCHANGED <<cfg_padding_zero, client, pc, cursor, sending, n, d_ptt,
                 first>>

\* A receiver takes an unstuffed flag for the end of a frame, and anything else
\* for a character of it.
HearFlag ==
  /\ received' = IF heard = <<>> THEN received ELSE Append(received, heard)
  /\ heard' = <<>>
  /\ flags' = IF heard = <<>> THEN flags + 1 ELSE 1

Hear(c) == heard' = Append(heard, c) /\ UNCHANGED <<received, flags>>

\* The next character is taken out before the preamble is looked at.
TxPreamble_AfterPop ==
  /\ preamble_len > 0
  /\ NextChar
  /\ preamble_len' = preamble_len - 1
  /\ tx_fifo' = IF tx_fifo = <<>> THEN <<>> ELSE Tail(tx_fifo)
  /\ HearFlag
  /\ UNCHANGED trailer_len

TxPreamble ==
  /\ preamble_len > 0
  /\ NextChar
  /\ preamble_len' = preamble_len - 1
  /\ HearFlag
  /\ UNCHANGED <<tx_fifo, trailer_len>>

TxTrailer ==
  /\ preamble_len = 0
  /\ tx_fifo = <<>>
  /\ NextChar
  /\ trailer_len' = trailer_len - 1
  /\ HearFlag
  /\ UNCHANGED <<tx_fifo, preamble_len>>

TxChar ==
  /\ preamble_len = 0
  /\ tx_fifo # <<>>
  /\ Head(tx_fifo) # "esc"
  /\ NextChar
  /\ tx_fifo' = Tail(tx_fifo)
  /\ IF Head(tx_fifo) = "flag" THEN HearFlag ELSE Hear(Head(tx_fifo))
  /\ UNCHANGED <<preamble_len, trailer_len>>

\* An ESC and the character behind it.  (afsk_tx_proc also has a branch for an
\* ESC with nothing behind it, which gives up; EscHasChar.)
TxEscaped ==
  /\ preamble_len = 0
  /\ Len(tx_fifo) > 1
  /\ Head(tx_fifo) = "esc"
  /\ NextChar
  /\ tx_fifo' = Tail(Tail(tx_fifo))
  /\ Hear(tx_fifo[2])
  /\ UNCHANGED <<preamble_len, trailer_len>>

\* The other samples of a character.
TxSample ==
  /\ pc = "work"
  /\ i < n
  /\ left > 0
  /\ left' = left - 1
  /\ i' = i + 1
  /\ UNCHANGED <<cfg_padding_zero, client, pc, cursor, tx_fifo, sending,
                 preamble_len, trailer_len, n, d_ptt, channel, first>>

\* Nothing to send: a zero, or the end of the loop.
TxStop ==
  /\ pc = "work"
  /\ i < n
  /\ left = 0
  /\ tx_fifo = <<>>
  /\ trailer_len = 0
  /\ sending' = FALSE
  /\ IF cfg_padding_zero THEN i' = i + 1 /\ UNCHANGED n
                         ELSE n' = i /\ UNCHANGED i
  /\ UNCHANGED <<cfg_padding_zero, client, pc, cursor, tx_fifo, preamble_len,
                 trailer_len, left, d_ptt, channel, first>>

EndWork_OnSending ==
  /\ pc = "work"
  /\ i = n
  /\ pc' = "sched"
  /\ d_ptt' = IF tx_fifo # <<>> \/ trailer_len > 0 THEN 1 ELSE 0
  /\ UNCHANGED <<cfg_padding_zero, client, cursor, tx_fifo, sending,
                 preamble_len, trailer_len, left, loop, channel, first>>

\* work() returns i samples.  It switches the PTT when it has some for the first
\* time, or none any more.
EndWork ==
  /\ pc = "work"
  /\ i = n
  /\ pc' = "sched"
  /\ d_ptt' = IF i # 0 THEN 1 ELSE 0
  /\ UNCHANGED <<cfg_padding_zero, client, cursor, tx_fifo, sending,
                 preamble_len, trailer_len, left, loop, channel, first>>

-----------------------------------------------------------------------------
Thread ==
  \/ Dispatch
  \/ Write
  \/ \E k \in WorkSamples : StartWork(k)
  \/ TxPreamble
  \/ TxTrailer
  \/ TxChar
  \/ TxEscaped
  \/ TxSample
  \/ TxStop
  \/ EndWork

Next ==
  \/ \E frame \in Frames : Post(frame)
  \/ Thread

Spec == Init /\ [][Next]_vars

\* The thread of the block runs; nobody has to post.
FairSpec == Spec /\ WF_vars(Thread)
-----------------------------------------------------------------------------
(* Properties. *)

\* Every variable keeps its type; an ESC is never left in the FIFO for work()
\* without the character it escapes.
TypeOK ==
  /\ cfg_padding_zero \in BOOLEAN
  /\ posted \in Seq(Frames)
  /\ taken \in 0 .. Len(posted)
  /\ pc \in {"sched", "write", "work"}
  /\ at \in Nat /\ escapes \in {0, 1}
  /\ IF pc = "write" THEN taken > 0 /\ at <= LastPlace(posted[taken])
                     ELSE at = 0 /\ escapes = 0
  /\ tx_fifo \in Seq(Char) /\ Len(tx_fifo) <= TxRoom
  /\ pc = "work" /\ tx_fifo # <<>> => Last(tx_fifo) = "flag"
  /\ sending \in BOOLEAN
  /\ preamble_len \in 0 .. PreambleLen
  /\ trailer_len \in 0 .. TrailerLen
  /\ left \in 0 .. CharLen - 1
  /\ n \in Nat /\ i \in 0 .. n
  /\ d_ptt \in {0, 1}
  /\ heard \in Seq(Char)
  /\ received \in Seq(Seq(Char))
  /\ flags \in Nat
  /\ first \in 0 .. taken

\* A receiver that takes what is between unstuffed flags for a frame gets the
\* frames posted, each once and in order, with every flag and ESC that is in
\* them: ax25_putchar and afsk_tx_proc agree on the escapes, across characters
\* cut by the end of an output buffer and frames that come during a burst.
FramesIntact ==
  /\ IsPrefix(received, posted)
  /\ heard # <<>> => /\ Len(received) < taken
                     /\ IsPrefix(heard, posted[Len(received) + 1])

\* The first frame of a burst comes after the whole preamble and its own flag;
\* the modem stops after the closing flag and a whole trailer, although a
\* frame may have come in the middle of an earlier trailer.
BurstFramed ==
  [][/\ heard = <<>> /\ heard' # <<>> /\ Len(received) + 1 = first
         => flags = PreambleLen + 1
     /\ sending /\ ~sending'
         => heard = <<>> /\ flags >= TrailerLen + 1]_vars

\* While the PTT is off, no burst is on the air: nothing of a frame, no rest of
\* a character, and no flag of a burst that goes on.
PttCoversBurst ==
  pc = "sched" /\ d_ptt = 0
    => /\ heard = <<>>
       /\ left = 0
       /\ sending => flags = 0

\* What is posted is sent, if the FIFO has room for it.
FramesSent == \A k \in 1 .. MaxPosts : Len(posted) >= k ~> Len(received) >= k

\* "This function has to be called by the DAC ISR when a sample of the
\* configured channel has been converted out" (afsk_tx_proc): while the modem
\* sends, its samples go on being asked for.
DacServed == sending ~> pc = "work"
=============================================================================

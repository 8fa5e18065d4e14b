-------------------------------- MODULE Kiss --------------------------------
(***************************************************************************)
(* KISS framing as this repository has it three times: the encoder         *)
(* (kiss_encode_pdu) and the decoder of the KISS blocks (lib/kiss/kiss.c), *)
(* the decoder of the LilacSat-1 proxy and that of the DSLWP proxy         *)
(* (kiss_decoder.py), which differ in what they do with a wrong character  *)
(* behind an escape and with what follows a frame in the same read.        *)
(*                                                                         *)
(* The three decoders read side by side what one encoder sends through TCP *)
(* connections.  A connection may break anywhere and lose the rest of what *)
(* was sent; the decoders live as long as the program and see one          *)
(* connection after the other as one stream.  A step is a byte that        *)
(* arrives: the encoder's place is that of the last byte that did, since   *)
(* nothing depends on how far ahead the sender is.                         *)
(***************************************************************************)
EXTENDS Integers, Sequences

CONSTANTS
  Frames,      \* the frames that are sent
  MaxFrames,   \* how many of them
  BufLen,      \* LEN_KISS_BUFFER
  ConstLength  \* const_length of kiss_encode_pdu, 0 for -1

Byte == 0 .. 255

ASSUME FramesAssumption ==
  \A f \in Frames : f \in Seq(Byte) /\ Len(f) <= BufLen

ASSUME KissAssumption ==
  MaxFrames \in Nat /\ BufLen \in Nat /\ ConstLength \in Nat

FEND  == 192
FESC  == 219
TFEND == 220
TFESC == 221

VARIABLES
  count,     \* frames sent
  pc,        \* "frame" within one, "idle" behind one, "broken" after a break
  frame,     \* the frame, <<>> behind it
  at,        \* the place in it of the next character
  escaped,   \* its FESC has arrived, what stands behind it has not
  size,      \* bytes that arrived of what is sent for the frame
  block,     \* the decoder of the KISS blocks
  lilac,     \* that of the LilacSat-1 proxy
  dslwp,     \* that of the DSLWP proxy
  returned,  \* which has returned from AppendStream, but not read again
  merged,    \* the first FEND of the frame stood behind an escape
  missed     \* or that decoder has not looked at every byte of the frame

encoder  == <<count, pc, frame, at, escaped, size>>
decoders == <<block, lilac, dslwp, returned>>
kissVars == <<encoder, decoders, merged, missed>>

-----------------------------------------------------------------------------
(* The decoder of the blocks. *)

BlockInit == [escaping |-> FALSE, buffer |-> <<>>, out |-> <<>>]

\* (Faulty variants that the checks must tell from the code have names of the
\* form <definition>_<fault>; nothing uses them.)
\* A wrong character leaves the escape pending.
kiss_rx_byte_stuck(d, b) ==
  CASE d.escaping /\ b = TFEND -> [d EXCEPT !.escaping = FALSE, !.buffer = Append(@, FEND)]
    [] d.escaping /\ b = TFESC -> [d EXCEPT !.escaping = FALSE, !.buffer = Append(@, FESC)]
    [] d.escaping /\ b \notin {TFEND, TFESC} -> [d EXCEPT !.buffer = <<>>]
    [] ~d.escaping /\ b = FEND ->
         [d EXCEPT !.buffer = <<>>,
                   !.out = IF d.buffer = <<>> THEN @ ELSE Append(@, d.buffer)]
    [] ~d.escaping /\ b = FESC -> [d EXCEPT !.escaping = TRUE]
    [] ~d.escaping /\ b \notin {FEND, FESC} -> [d EXCEPT !.buffer = Append(@, b)]

\* A wrong character behind an escape empties the buffer.
kiss_rx_byte(d, b) ==
  CASE d.escaping /\ b = TFEND -> [d EXCEPT !.escaping = FALSE, !.buffer = Append(@, FEND)]
    [] d.escaping /\ b = TFESC -> [d EXCEPT !.escaping = FALSE, !.buffer = Append(@, FESC)]
    [] d.escaping /\ b \notin {TFEND, TFESC} -> [d EXCEPT !.escaping = FALSE, !.buffer = <<>>]
    [] ~d.escaping /\ b = FEND ->
         [d EXCEPT !.buffer = <<>>,
                   !.out = IF d.buffer = <<>> THEN @ ELSE Append(@, d.buffer)]
    [] ~d.escaping /\ b = FESC -> [d EXCEPT !.escaping = TRUE]
    [] ~d.escaping /\ b \notin {FEND, FESC} -> [d EXCEPT !.buffer = Append(@, b)]

-----------------------------------------------------------------------------
(* The decoders of the proxies: DecodedLength counts a wrong character that*)
(* adds nothing to DataBuf.                                                *)

DecoderInit == [InEscMode |-> FALSE, DataBuf |-> <<>>, DecodedLength |-> 0, out |-> <<>>]

\* One turn of the loop of AppendStream.
AppendByte(d, b) ==
  CASE d.InEscMode ->
         [d EXCEPT !.InEscMode = FALSE,
                   !.DecodedLength = @ + 1,
                   !.DataBuf = CASE b = TFEND -> Append(@, FEND)
                                 [] b = TFESC -> Append(@, FESC)
                                 [] b \notin {TFEND, TFESC} -> @]
    [] ~d.InEscMode /\ b = FEND ->
         [d EXCEPT !.DataBuf = <<>>,
                   !.DecodedLength = 0,
                   !.out = IF d.DecodedLength = 0 THEN @ ELSE Append(@, d.DataBuf)]
    [] ~d.InEscMode /\ b = FESC -> [d EXCEPT !.InEscMode = TRUE]
    [] ~d.InEscMode /\ b \notin {FEND, FESC} ->
         [d EXCEPT !.DataBuf = Append(@, b), !.DecodedLength = @ + 1]

\* A byte arrives.  The decoder of the LilacSat-1 proxy gives every frame to a
\* callback; that of the DSLWP proxy returns the first it completes, and what
\* follows it in the same read is not looked at.
Deliver(b) ==
  /\ block' = kiss_rx_byte(block, b)
  /\ lilac' = AppendByte(lilac, b)
  /\ dslwp' = IF returned THEN dslwp ELSE AppendByte(dslwp, b)
  /\ returned' = (returned \/ Len(dslwp'.out) > Len(dslwp.out))

-----------------------------------------------------------------------------
KissInit ==
  /\ count = 0 /\ pc = "idle"
  /\ frame = <<>> /\ at = 1 /\ escaped = FALSE /\ size = 0
  /\ block = BlockInit /\ lilac = DecoderInit /\ dslwp = DecoderInit
  /\ returned = FALSE /\ merged = FALSE /\ missed = FALSE

\* kiss_tx_packet begins a frame.  (That the padding of the one before has not
\* arrived to its end is a break that no decoder sees.)
Open(f) ==
  /\ pc # "frame"
  /\ count < MaxFrames
  /\ count' = count + 1
  /\ pc' = "frame" /\ frame' = f /\ at' = 1 /\ escaped' = FALSE /\ size' = 1
  /\ merged' = escaped
  /\ missed' = (escaped \/ returned)
  /\ Deliver(FEND)

\* Another byte of the frame.
More ==
  /\ pc = "frame"
  /\ size' = size + 1
  /\ missed' = (missed \/ returned)
  /\ UNCHANGED <<count, merged>>

Plain ==
  /\ More
  /\ at \in DOMAIN frame
  /\ frame[at] \notin {FEND, FESC}
  /\ at' = at + 1
  /\ Deliver(frame[at])
  /\ UNCHANGED <<pc, frame, escaped>>

Escape ==
  /\ More
  /\ at \in DOMAIN frame
  /\ frame[at] \in {FEND, FESC}
  /\ ~escaped
  /\ escaped' = TRUE
  /\ Deliver(FESC)
  /\ UNCHANGED <<pc, frame, at>>

Escaped ==
  /\ More
  /\ escaped
  /\ escaped' = FALSE
  /\ at' = at + 1
  /\ Deliver(IF frame[at] = FEND THEN TFEND ELSE TFESC)
  /\ UNCHANGED <<pc, frame>>

Close ==
  /\ More
  /\ at = Len(frame) + 1
  /\ pc' = "idle" /\ frame' = <<>> /\ at' = 1
  /\ Deliver(FEND)
  /\ UNCHANGED escaped

\* kiss_encode_pdu fills its last piece with FENDs.
Pad ==
  /\ pc = "idle"
  /\ ConstLength # 0 /\ size % ConstLength # 0
  /\ size' = size + 1
  /\ Deliver(FEND)
  /\ UNCHANGED <<count, pc, frame, at, escaped, merged, missed>>

\* The connection breaks, and what has not arrived is lost.
Break ==
  /\ pc = "frame"
  /\ pc' = "broken"
  /\ UNCHANGED <<count, frame, at, escaped, size, decoders, merged, missed>>

\* A recv returns what is there, and AppendStream is called for what comes.
EndRead ==
  /\ returned
  /\ returned' = FALSE
  /\ UNCHANGED <<encoder, block, lilac, dslwp, merged, missed>>

KissNext ==
  \/ \E f \in Frames : Open(f)
  \/ Plain
  \/ Escape
  \/ Escaped
  \/ Close
  \/ Pad
  \/ Break
  \/ EndRead
=============================================================================

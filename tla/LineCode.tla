------------------------------ MODULE LineCode ------------------------------
(***************************************************************************)
(* The NRZ-M line code of lib/ccsds/ccsds.c (cfg_using_m): ccsds_tx_proc   *)
(* encodes a byte by m_encode_tab and one bit of state, ccsds_rx_proc      *)
(* decodes a byte by m_decode_tab and one bit of state.  Between them is a *)
(* line that may be inverted (the demodulator does not know the phase of   *)
(* the carrier), that the receiver may cut into bytes at another bit than  *)
(* the sender, and that may flip one bit.                                  *)
(*                                                                         *)
(* The bits on the line are kept as a number: the receiver is offset bits  *)
(* late, so that offset bits are left when it has taken a byte.            *)
(***************************************************************************)
EXTENDS Integers, Sequences

CONSTANT Offsets   \* bits the receiver may be late, a subset of 0 .. 7

ASSUME OffsetAssumption == Offsets # {} /\ Offsets \subseteq 0 .. 7

m_encode_tab ==
  <<   0,   1,   3,   2,   7,   6,   4,   5,  15,  14,  12,  13,   8,   9,  11,  10,
      31,  30,  28,  29,  24,  25,  27,  26,  16,  17,  19,  18,  23,  22,  20,  21,
      63,  62,  60,  61,  56,  57,  59,  58,  48,  49,  51,  50,  55,  54,  52,  53,
      32,  33,  35,  34,  39,  38,  36,  37,  47,  46,  44,  45,  40,  41,  43,  42,
     127, 126, 124, 125, 120, 121, 123, 122, 112, 113, 115, 114, 119, 118, 116, 117,
      96,  97,  99,  98, 103, 102, 100, 101, 111, 110, 108, 109, 104, 105, 107, 106,
      64,  65,  67,  66,  71,  70,  68,  69,  79,  78,  76,  77,  72,  73,  75,  74,
      95,  94,  92,  93,  88,  89,  91,  90,  80,  81,  83,  82,  87,  86,  84,  85,
     255, 254, 252, 253, 248, 249, 251, 250, 240, 241, 243, 242, 247, 246, 244, 245,
     224, 225, 227, 226, 231, 230, 228, 229, 239, 238, 236, 237, 232, 233, 235, 234,
     192, 193, 195, 194, 199, 198, 196, 197, 207, 206, 204, 205, 200, 201, 203, 202,
     223, 222, 220, 221, 216, 217, 219, 218, 208, 209, 211, 210, 215, 214, 212, 213,
     128, 129, 131, 130, 135, 134, 132, 133, 143, 142, 140, 141, 136, 137, 139, 138,
     159, 158, 156, 157, 152, 153, 155, 154, 144, 145, 147, 146, 151, 150, 148, 149,
     191, 190, 188, 189, 184, 185, 187, 186, 176, 177, 179, 178, 183, 182, 180, 181,
     160, 161, 163, 162, 167, 166, 164, 165, 175, 174, 172, 173, 168, 169, 171, 170 >>

m_decode_tab ==
  <<   0,   1,   3,   2,   6,   7,   5,   4,  12,  13,  15,  14,  10,  11,   9,   8,
      24,  25,  27,  26,  30,  31,  29,  28,  20,  21,  23,  22,  18,  19,  17,  16,
      48,  49,  51,  50,  54,  55,  53,  52,  60,  61,  63,  62,  58,  59,  57,  56,
      40,  41,  43,  42,  46,  47,  45,  44,  36,  37,  39,  38,  34,  35,  33,  32,
      96,  97,  99,  98, 102, 103, 101, 100, 108, 109, 111, 110, 106, 107, 105, 104,
     120, 121, 123, 122, 126, 127, 125, 124, 116, 117, 119, 118, 114, 115, 113, 112,
      80,  81,  83,  82,  86,  87,  85,  84,  92,  93,  95,  94,  90,  91,  89,  88,
      72,  73,  75,  74,  78,  79,  77,  76,  68,  69,  71,  70,  66,  67,  65,  64,
     192, 193, 195, 194, 198, 199, 197, 196, 204, 205, 207, 206, 202, 203, 201, 200,
     216, 217, 219, 218, 222, 223, 221, 220, 212, 213, 215, 214, 210, 211, 209, 208,
     240, 241, 243, 242, 246, 247, 245, 244, 252, 253, 255, 254, 250, 251, 249, 248,
     232, 233, 235, 234, 238, 239, 237, 236, 228, 229, 231, 230, 226, 227, 225, 224,
     160, 161, 163, 162, 166, 167, 165, 164, 172, 173, 175, 174, 170, 171, 169, 168,
     184, 185, 187, 186, 190, 191, 189, 188, 180, 181, 183, 182, 178, 179, 177, 176,
     144, 145, 147, 146, 150, 151, 149, 148, 156, 157, 159, 158, 154, 155, 153, 152,
     136, 137, 139, 138, 142, 143, 141, 140, 132, 133, 135, 134, 130, 131, 129, 128 >>

VARIABLES
  offset,        \* where the receiver cuts: fixed from the start
  inverted,      \* whether the line is inverted: fixed from the start
  tx_bit_state,
  rx_bit_state,
  line,          \* the bits on the line, not yet decoded
  plain,         \* what these bits should be decoded to
  full,          \* they are offset + 8, not only offset
  owed,          \* the last bit sent was flipped: the next is wrong too
  heard          \* the receiver has decoded a byte

vars == <<offset, inverted, tx_bit_state, rx_bit_state, line, plain, full,
          owed, heard>>

\* The receiver starts, as ccsds_init leaves it, in the middle of a
\* transmission; the offset bits on the line are nobody's.
Init ==
  /\ offset \in Offsets
  /\ inverted \in BOOLEAN
  /\ tx_bit_state \in {0, 1}
  /\ rx_bit_state = 0
  /\ line = 0
  /\ plain = 0
  /\ full = FALSE
  /\ owed = FALSE
  /\ heard = FALSE

-----------------------------------------------------------------------------
(* The transmitter and the line. *)

\* ccsds_tx_proc: the table, and its complement after a one.
Encode(c) ==
  IF tx_bit_state = 1 THEN 255 - m_encode_tab[c + 1] ELSE m_encode_tab[c + 1]

\* x with the bit of weight w flipped, if w is not 0.
Flip(x, w) ==
  IF w = 0 THEN x ELSE IF (x \div w) % 2 = 1 THEN x - w ELSE x + w

\* A byte goes on the line, one bit of it flipped at most.  That bit will be
\* decoded wrong, and so will the one behind it.
Send(c, w) ==
  /\ ~full
  /\ full' = TRUE
  /\ tx_bit_state' = Encode(c) % 2
  /\ line' = 256 * line + Flip(IF inverted THEN 255 - Encode(c) ELSE Encode(c), w)
  /\ plain' = 256 * plain + Flip(Flip(Flip(c, IF owed THEN 128 ELSE 0), w), w \div 2)
  /\ owed' = (w = 1)
  /\ UNCHANGED <<offset, inverted, rx_bit_state, heard>>

-----------------------------------------------------------------------------
(* The receiver. *)

\* The byte it takes from the line, and the one it should get out of it.
Taken    == line \div 2 ^ offset
Expected == plain \div 2 ^ offset

\* (Faulty variants that the checks must tell from the code have names of the
\* form <operation>_<fault>; Next does not use them.)
Decoded_NoComplement == m_decode_tab[Taken + 1]

\* ccsds_rx_proc.
Decoded ==
  IF rx_bit_state = 1 THEN m_decode_tab[255 - Taken + 1]
                      ELSE m_decode_tab[Taken + 1]

\* The state is the last bit as it came from the line.
Receive ==
  /\ full
  /\ full' = FALSE
  /\ rx_bit_state' = Taken % 2
  /\ heard' = TRUE
  /\ line' = line % 2 ^ offset
  /\ plain' = plain % 2 ^ offset
  /\ UNCHANGED <<offset, inverted, tx_bit_state, owed>>

-----------------------------------------------------------------------------
Next ==
  \/ \E c \in 0 .. 255, w \in {0} \cup {2 ^ k : k \in 0 .. 7} : Send(c, w)
  \/ Receive

Spec == Init /\ [][Next]_vars

-----------------------------------------------------------------------------
(* Properties. *)

\* What is decoded is what was sent, for every byte, on either phase of the
\* line and at every cut into bytes; a bit flipped on the line makes itself
\* and the next bit wrong, in the next byte if need be, and no other.  Of the
\* first byte only the bits that have one before them on the line are right.
DecodedRight ==
  full => IF heard THEN Decoded = Expected
          ELSE Decoded % 2 ^ (7 - offset) = Expected % 2 ^ (7 - offset)
=============================================================================

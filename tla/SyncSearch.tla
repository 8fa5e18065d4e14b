----------------------------- MODULE SyncSearch -----------------------------
(***************************************************************************)
(* The search for the sync word by ccsds_pull (lib/ccsds/ccsds.c) in what  *)
(* ccsds_tx_proc sends between frames, with the values of the source: the  *)
(* sync word 0x1ACFFC1D, the bytes of sequence (lib/ccsds/randomizer.c)    *)
(* that fill preamble and trailer from wherever their static counters      *)
(* stand, the byte put out when the transmitter stops, and padding zeros.  *)
(* The channel may flip one bit of a sync word.                            *)
(*                                                                         *)
(* A step sends a byte and searches its eight bits.  The frame itself is   *)
(* one step: the receiver collects it and does not search.                 *)
(***************************************************************************)
EXTENDS Integers, Sequences, FiniteSets

CONSTANT Enough   \* bytes of one kind sent before the next: 4 fill the register

ASSUME EnoughAssumption == Enough \in Nat \ {0}

\* The table of randomizer.c.
sequence ==
  <<255,  72,  14, 192, 154,  13, 112, 188, 142,  44, 147, 173, 167, 183,  70,
   206,  90, 151, 125, 204,  50, 162, 191,  62,  10,  16, 241, 136, 148, 205,
   234, 177, 254, 144,  29, 129,  52,  26, 225, 121,  28,  89,  39,  91,  79,
   110, 141, 156, 181,  46, 251, 152, 101,  69, 126, 124,  20,  33, 227,  17,
    41, 155, 213,  99, 253,  32,  59,   2, 104,  53, 194, 242,  56, 178,  78,
   182, 158, 221,  27,  57, 106,  93, 247,  48, 202, 138, 252, 248,  40,  67,
   198,  34,  83,  55, 170, 199, 250,  64, 118,   4, 208, 107, 133, 228, 113,
   100, 157, 109,  61, 186,  54, 114, 212, 187, 238,  97, 149,  21, 249, 240,
    80, 135, 140,  68, 166, 111,  85, 143, 244, 128, 236,   9, 160, 215,  11,
   200, 226, 201,  58, 218, 123, 116, 108, 229, 169, 119, 220, 195,  42,  43,
   243, 224, 161,  15,  24, 137,  76, 222, 171,  31, 233,   1, 216,  19,  65,
   174,  23, 145, 197, 146, 117, 180, 246, 232, 217, 203,  82, 239, 185, 134,
    84,  87, 231, 193,  66,  30,  49,  18, 153, 189,  86,  63, 210,   3, 176,
    38, 131,  92,  47,  35, 139,  36, 235, 105, 237, 209, 179, 150, 165, 223,
   115,  12, 168, 175, 207, 130, 132,  60,  98,  37,  51, 122, 172, 127, 164,
     7,  96,  77,   6, 184,  94,  71,  22,  73, 214, 211, 219, 163, 103,  45,
    75, 190, 230,  25,  81,  95, 159,   5,   8, 120, 196,  74, 102, 245,  88 >>

\* The bits of a byte, first sent first.
Bits == [c \in 0 .. 255 |-> [k \in 1 .. 8 |-> (c \div 2 ^ (8 - k)) % 2]]

\* The table is what ccsds_generate_sequence makes of h(x) = x8 + x7 + x5 +
\* x3 + 1, from a register of ones.
SequenceBit(k) == Bits[sequence[(k \div 8) + 1]][(k % 8) + 1]

ASSUME SequenceAssumption ==
  /\ Len(sequence) = 255
  /\ \A k \in 0 .. 7 : SequenceBit(k) = 1
  /\ \A k \in 0 .. 254 * 8 - 1 :
       SequenceBit(k + 8) = (SequenceBit(k) + SequenceBit(k + 3)
                             + SequenceBit(k + 5) + SequenceBit(k + 7)) % 2

\* 0x1ACFFC1D.
sync_word == Bits[26] \o Bits[207] \o Bits[252] \o Bits[29]

Zeros == [k \in 1 .. 32 |-> 0]

\* The byte sent when the transmitter stops is whatever current_data held:
\* a 2 stands for a bit that may be either, and agrees with any other.
Unknown == [k \in 1 .. 8 |-> 2]

VARIABLES
  stage,            \* what is being sent
  sent,             \* bytes of it so far, up to Enough
  i,                \* the static counter of the preamble or the trailer
  wrong,            \* the bit of this sync word the channel flips, 0 for none
  buffer_sync_det,  \* the receiver's register
  hit               \* the bit of the last byte that completed a match, or 0

vars == <<stage, sent, i, wrong, buffer_sync_det, hit>>

\* The receiver has been reset, or has just collected a frame.
Init ==
  /\ stage = "frame"
  /\ sent = 0
  /\ i = 0
  /\ wrong = 0
  /\ buffer_sync_det = Zeros
  /\ hit = 0

-----------------------------------------------------------------------------
(* The receiver: one byte searched. *)

\* (Faulty variants that the checks must tell from the code have names of the
\* form <operation>_<fault>; Next does not use them.)
Matches_LowHalf(r) ==
  Cardinality({k \in 17 .. 32 : r[k] # 2 /\ r[k] # sync_word[k]}) <= 1

Matches_Exact(r) == \A k \in 1 .. 32 : r[k] \in {2, sync_word[k]}

\* The switch over the register xor the sync word: one wrong bit allowed.
Matches(r) ==
  Cardinality({k \in 1 .. 32 : r[k] # 2 /\ r[k] # sync_word[k]}) <= 1

\* The bits b pass the register.
Search(b) ==
  LET passed == buffer_sync_det \o b
      at     == {k \in 1 .. 8 : Matches(SubSeq(passed, k + 1, k + 32))}
  IN /\ buffer_sync_det' = SubSeq(passed, 9, 40)
     /\ hit' = IF at = {} THEN 0 ELSE CHOOSE k \in at : \A j \in at : k <= j

-----------------------------------------------------------------------------
(* The transmitter. *)

More == sent' = IF sent < Enough THEN sent + 1 ELSE sent

\* A byte of sequence; i is an unsigned char.
Sequence(from) ==
  /\ Search(Bits[sequence[(from % 255) + 1]])
  /\ i' = (from + 1) % 256
  /\ wrong' = 0

\* The trailer starts where its counter stands, behind a frame.
StartTrailer(from) ==
  /\ stage = "frame"
  /\ stage' = "trailer"
  /\ sent' = 1
  /\ Sequence(from)

Trailer ==
  /\ stage = "trailer"
  /\ sent < Enough
  /\ More
  /\ Sequence(i)
  /\ UNCHANGED stage

\* The transmitter is turned off.
Stop ==
  /\ stage = "trailer"
  /\ stage' = "off"
  /\ sent' = 0
  /\ i' = 0
  /\ Search(Unknown)
  /\ UNCHANGED wrong

Padding ==
  /\ stage = "off"
  /\ sent < Enough
  /\ More
  /\ Search(Bits[0])
  /\ UNCHANGED <<stage, i, wrong>>

\* A new burst; the preamble has a counter of its own.
StartPreamble(from) ==
  /\ stage = "off"
  /\ stage' = "preamble"
  /\ sent' = 1
  /\ Sequence(from)

Preamble ==
  /\ stage = "preamble"
  /\ sent < Enough
  /\ More
  /\ Sequence(i)
  /\ UNCHANGED stage

\* The next frame: behind another, during the trailer, or after the preamble.
\* Its sync word goes out byte by byte.
Damaged(w) == [k \in 1 .. 32 |-> IF k = w THEN 1 - sync_word[k] ELSE sync_word[k]]

StartSync(w) ==
  /\ stage \in {"frame", "trailer", "off"} \/ (stage = "preamble" /\ sent = Enough)
  /\ stage' = "sync"
  /\ sent' = 1
  /\ i' = 0
  /\ wrong' = w
  /\ Search(SubSeq(Damaged(w), 1, 8))

Sync ==
  /\ stage = "sync"
  /\ sent < 4
  /\ sent' = sent + 1
  /\ Search(SubSeq(Damaged(wrong), 8 * sent + 1, 8 * sent + 8))
  /\ UNCHANGED <<stage, i, wrong>>

\* The frame is sent, and collected if its sync word was seen.
Frame ==
  /\ stage = "sync"
  /\ sent = 4
  /\ stage' = "frame"
  /\ sent' = 0
  /\ wrong' = 0
  /\ buffer_sync_det' = Zeros
  /\ hit' = 0
  /\ UNCHANGED i

Next ==
  \/ \E from \in 0 .. 255 : StartTrailer(from)
  \/ Trailer
  \/ Stop
  \/ Padding
  \/ \E from \in 0 .. 255 : StartPreamble(from)
  \/ Preamble
  \/ \E w \in 0 .. 32 : StartSync(w)
  \/ Sync
  \/ Frame

Spec == Init /\ [][Next]_vars

-----------------------------------------------------------------------------
(* Properties. *)

\* What is sent between frames is never taken for a sync word, although one
\* wrong bit is allowed: not the preamble or the trailer from any position of
\* their counters, not where they meet the stop byte, the padding, an empty
\* register or the first bits of the sync word itself.
NoFalseSync == hit # 0 => stage = "sync" /\ sent = 4 /\ hit = 8

\* A sync word with one wrong bit at most is seen at its last bit, whatever
\* was sent before it.
SyncSeen == stage = "sync" /\ sent = 4 => hit = 8
=============================================================================

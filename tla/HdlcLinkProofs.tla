--------------------------- MODULE HdlcLinkProofs ---------------------------
(***************************************************************************)
(* The AX.25 link, for all frames, sizes of the FIFO and of the frame      *)
(* buffer, and numbers of wrong tones.                                     *)
(***************************************************************************)
EXTENDS HdlcLink, TLAPS

-----------------------------------------------------------------------------
(* The inductive invariant.                                                *)

\* The frame sent last, and how many of its characters are behind.
Frame == sent[Len(sent)]
Done  == Len(Frame) + 2 - Len(chars)

\* Character i of frame f with its flags.
CharOf(f, i) == IF i \in 2 .. Len(f) + 1 THEN <<f[i - 1], TRUE>> ELSE Flag

\* The characters left to send are the end of a frame, or a flag.
SenderInv ==
  /\ chars = <<>> => tx_bit = 0 /\ stuff_cnt = 0
  /\ ~in_frame => Len(chars) <= 1
  /\ in_frame => sent # <<>> /\ Done \in 0 .. Len(Frame) + 2
  /\ \A k \in 1 .. Len(chars) :
       chars[k] = IF in_frame THEN CharOf(Frame, Done + k) ELSE Flag

\* Within a flag, the ones are those of its first bits; else there are five at
\* most.
StuffInv ==
  IF chars # <<>> /\ ~Head(chars)[2] /\ tx_bit # 0
    THEN stuff_cnt = tx_bit - 1
    ELSE stuff_cnt <= 5

LineInv == found = IF flipped THEN 1 - tone ELSE tone

\* The frame sent last, of which nothing has been hurt so far.
Clean == in_frame /\ Len(sent) \notin hurt

\* The last bits of d are a zero and n ones.
EndsIn(d, n) == d % 2 ^ (n + 1) = 2 ^ n - 1

\* Of a frame that was not hurt, the receiver has the bits of the character that
\* is being sent, and has counted the same ones.
BitsInv ==
  Clean =>
    /\ Done # 0 \/ tx_bit # 0 => ~flipped /\ EndsIn(demod_bits, stuff_cnt)
    /\ Done # 0 => ~cut
    /\ Done # 0 /\ chars # <<>> =>
         IF Head(chars)[2]
           THEN /\ rxstart
                /\ bit_idx = tx_bit
                /\ currchar = (Head(chars)[1] % 2 ^ tx_bit) * 2 ^ (7 - tx_bit)
           ELSE bit_idx <= tx_bit

\* The AX25Ctx, and the one ax25_poll makes of x with the character c.
AX25Ctx == [sync : BOOLEAN, escape : BOOLEAN, buf : Seq(Byte)]
Ctxs    == [Nat \ {0} -> AX25Ctx]
Ctx     == [sync |-> sync, escape |-> escape, buf |-> buf]

After(x, c) ==
  IF ~x.escape /\ c = HDLC_FLAG
    THEN [sync |-> TRUE, escape |-> FALSE, buf |-> <<>>]
  ELSE IF ~x.escape /\ c = AX25_ESC
    THEN [sync |-> x.sync, escape |-> TRUE, buf |-> x.buf]
  ELSE IF x.sync /\ Len(x.buf) < BufLen
    THEN [sync |-> TRUE, escape |-> FALSE, buf |-> Append(x.buf, c)]
    ELSE [sync |-> FALSE, escape |-> FALSE, buf |-> x.buf]

\* ax25_poll reads z from x on with r[k] in front of character k, and meets no
\* character it has no case for.
Polls(r, x, z) ==
  /\ r \in Ctxs
  /\ r[1] = x
  /\ \A k \in 1 .. Len(z) :
       /\ r[k + 1] = After(r[k], z[k])
       /\ r[k].escape \/ z[k] # HDLC_RESET

\* What is behind the characters of rx_fifo: an ESC waits there for a lost
\* character only before the next flag, and of a frame that was not hurt its
\* characters so far are in the buffer.
EndInv(x) ==
  /\ x.escape = cut
  /\ Clean /\ Done # 0 /\ chars # <<>> /\ Len(Frame) <= BufLen =>
       /\ x.sync
       /\ Len(x.buf) = Done - 1
       /\ \A i \in 1 .. Done - 1 : x.buf[i] = Frame[i]

\* Frame k will be given to the hook by a flag of rx_fifo.
Waits(r, k) ==
  \E q \in 1 .. Len(rx_fifo) :
    rx_fifo[q] = HDLC_FLAG /\ ~r[q].escape /\ r[q].buf = sent[k]

\* Every frame was given to the hook, is given by a flag of rx_fifo, is still
\* being sent, or is excused.
Accounted(r, k) ==
  \/ \E i \in 1 .. Len(got) : got[i] = sent[k]
  \/ k \in hurt
  \/ Len(sent[k]) > BufLen
  \/ k = Len(sent) /\ in_frame /\ chars # <<>>
  \/ Waits(r, k)

FifoInv ==
  \E r \in Ctxs :
    /\ Polls(r, Ctx, rx_fifo)
    /\ EndInv(r[Len(rx_fifo) + 1])
    /\ \A k \in 1 .. Len(sent) : Accounted(r, k)

CutInv == cut => ~rxstart

IInv ==
  TypeOK /\ SenderInv /\ StuffInv /\ LineInv /\ BitsInv /\ CutInv /\ FifoInv

-----------------------------------------------------------------------------
(* Sequences.                                                              *)

LEMMA AppendFacts ==
  ASSUME NEW S, NEW s \in Seq(S), NEW x \in S
  PROVE  /\ Append(s, x) \in Seq(S)
         /\ Len(s) \in Nat /\ Len(Append(s, x)) = Len(s) + 1
         /\ \A k \in 1 .. Len(s) : Append(s, x)[k] = s[k]
         /\ Append(s, x)[Len(s) + 1] = x
  OBVIOUS

LEMMA TailFacts ==
  ASSUME NEW S, NEW s \in Seq(S), s # <<>>
  PROVE  /\ Tail(s) \in Seq(S) /\ Head(s) \in S /\ Head(s) = s[1]
         /\ Len(s) \in Nat \ {0} /\ Len(Tail(s)) = Len(s) - 1
         /\ \A k \in 1 .. Len(s) - 1 : Tail(s)[k] = s[k + 1]
  OBVIOUS

LEMMA ConcatFacts ==
  ASSUME NEW S, NEW s \in Seq(S)
  PROVE  /\ s \o <<>> = s
         /\ \A x \in S : s \o <<x>> = Append(s, x)
  OBVIOUS

LEMMA PairFacts ==
  ASSUME NEW x, NEW y, NEW p, p = <<x, y>>
  PROVE  p[1] = x /\ p[2] = y
  OBVIOUS

LEMMA ElementFacts ==
  ASSUME NEW S, NEW s \in Seq(S)
  PROVE  /\ Len(s) \in Nat
         /\ \A k \in 1 .. Len(s) : s[k] \in S
         /\ DOMAIN s = 1 .. Len(s)
         /\ Len(s) = 0 <=> s = <<>>
  OBVIOUS

\* Sequences of the same length with the same elements are the same.
LEMMA SameSequence ==
  ASSUME NEW S, NEW s \in Seq(S), NEW t \in Seq(S), Len(s) = Len(t),
         \A k \in 1 .. Len(s) : s[k] = t[k]
  PROVE  s = t
  OBVIOUS

LEMMA OfOneElement ==
  ASSUME NEW s \in Seq(Byte), Len(s) = 1
  PROVE  s = <<s[1]>>
  OBVIOUS

LEMMA FirstElement ==
  ASSUME NEW s \in Seq(Byte), Len(s) = 2, s[1] = 27
  PROVE  /\ SubSeq(s, 1, 1) \in Seq(Byte) /\ Len(SubSeq(s, 1, 1)) = 1
         /\ SubSeq(s, 1, 1)[1] = 27
  OBVIOUS

LEMMA FirstOfTwo ==
  ASSUME NEW x \in Byte
  PROVE  SubSeq(<<27, x>>, 1, 1) = <<27>>
<1>1. <<27, x>> \in Seq(Byte) /\ Len(<<27, x>>) = 2 /\ <<27, x>>[1] = 27
  BY DEF Byte
<1>2. /\ SubSeq(<<27, x>>, 1, 1) \in Seq(Byte)
      /\ Len(SubSeq(<<27, x>>, 1, 1)) = 1
      /\ SubSeq(<<27, x>>, 1, 1)[1] = 27
  BY <1>1, FirstElement, Zenon
<1>3. QED
  BY <1>2, OfOneElement, Zenon

LEMMA PairIn ==
  ASSUME NEW S, NEW T, NEW x \in S, NEW y \in T
  PROVE  <<x, y>> \in S \X T
  OBVIOUS

LEMMA FunctionSequence ==
  ASSUME NEW S, NEW n \in Nat, NEW s \in [1 .. n -> S]
  PROVE  s \in Seq(S) /\ Len(s) = n
  OBVIOUS

\* A sequence with the same element at both ends.
LEMMA Between ==
  ASSUME NEW S, NEW g \in S, NEW s \in Seq(S), NEW t, t = <<g>> \o s \o <<g>>
  PROVE  /\ t \in Seq(S) /\ Len(t) = Len(s) + 2
         /\ \A k \in 1 .. Len(s) + 2 :
              t[k] = IF k \in 2 .. Len(s) + 1 THEN s[k - 1] ELSE g
<1>1. PICK u : u = <<g>> \o s
  OBVIOUS
<1>2. u \in Seq(S) /\ Len(u) = Len(s) + 1 /\ Len(s) \in Nat
  BY <1>1
<1>3. \A k \in 1 .. Len(s) + 1 : u[k] = IF k = 1 THEN g ELSE s[k - 1]
  BY <1>1
<1>4. t = Append(u, g)
  BY <1>1, <1>2
<1>5. /\ t \in Seq(S) /\ Len(t) = Len(s) + 2 /\ t[Len(s) + 2] = g
      /\ \A k \in 1 .. Len(s) + 1 : t[k] = u[k]
  <2>1. PICK l \in Nat : l = Len(s) /\ Len(u) = l + 1
    BY <1>2
  <2>2. /\ Append(u, g) \in Seq(S) /\ Len(Append(u, g)) = l + 2
        /\ Append(u, g)[l + 2] = g
        /\ \A k \in 1 .. l + 1 : Append(u, g)[k] = u[k]
    BY <1>2, <2>1
  <2>3. QED
    BY <1>4, <2>1, <2>2, Zenon
<1>6. QED
  BY <1>2, <1>3, <1>5

-----------------------------------------------------------------------------
(* Bits.                                                                   *)

LEMMA Powers ==
  /\ 2 ^ 0 = 1 /\ 2 ^ 1 = 2 /\ 2 ^ 2 = 4 /\ 2 ^ 3 = 8
  /\ 2 ^ 4 = 16 /\ 2 ^ 5 = 32 /\ 2 ^ 6 = 64 /\ 2 ^ 7 = 128
  OBVIOUS

LEMMA PowerOf ==
  ASSUME NEW n
  PROVE  /\ n = 0 => 2 ^ n = 1
         /\ n = 1 => 2 ^ n = 2
         /\ n = 2 => 2 ^ n = 4
         /\ n = 3 => 2 ^ n = 8
         /\ n = 4 => 2 ^ n = 16
         /\ n = 5 => 2 ^ n = 32
         /\ n = 6 => 2 ^ n = 64
         /\ n = 7 => 2 ^ n = 128
  BY Powers, Zenon

\* Bit n of a character, and what comes of currchar when it arrives.
LEMMA BitOf ==
  ASSUME NEW c \in Byte, NEW n \in 0 .. 7
  PROVE  (c \div 2 ^ n) % 2 \in {0, 1}
<1>1. PICK w : w = 2 ^ n
  OBVIOUS
<1>2. w \in {1, 2, 4, 8, 16, 32, 64, 128}
  BY <1>1, PowerOf
<1>3. (c \div w) % 2 \in {0, 1}
  BY <1>2 DEF Byte
<1>4. QED
  BY <1>1, <1>3

LEMMA NamedPower ==
  ASSUME NEW n, NEW w, w = 2 ^ n
  PROVE  /\ n = 0 => w = 1
         /\ n = 1 => w = 2
         /\ n = 2 => w = 4
         /\ n = 3 => w = 8
         /\ n = 4 => w = 16
         /\ n = 5 => w = 32
         /\ n = 6 => w = 64
         /\ n = 7 => w = 128
  BY PowerOf, Zenon

\* A character arrives bit by bit, the least significant first: each goes in at
\* the top of currchar.
LEMMA CharGrows ==
  ASSUME NEW c \in Byte, NEW n \in 0 .. 7, NEW grown,
         grown = (c % 2 ^ n) * 2 ^ (7 - n) + 128 * ((c \div 2 ^ n) % 2)
  PROVE  /\ n = 7 => grown = c
         /\ n < 7 => grown \div 2 = (c % 2 ^ (n + 1)) * 2 ^ (7 - (n + 1))
<1>1. PICK a : a = 2 ^ n
  OBVIOUS
<1>2. PICK m \in Nat : m = n + 1
  OBVIOUS
<1>3. PICK k \in Nat : k = 7 - n
  OBVIOUS
<1>4. PICK l \in Int : l = 7 - m
  BY <1>2
<1>5. PICK b : b = 2 ^ m
  OBVIOUS
<1>6. PICK d : d = 2 ^ k
  OBVIOUS
<1>7. PICK e : e = 2 ^ l
  OBVIOUS
<1>8. /\ n = 7 => a = 128 /\ d = 1
      /\ n < 7 => \/ a = 1 /\ b = 2 /\ d = 128 /\ e = 64
                  \/ a = 2 /\ b = 4 /\ d = 64 /\ e = 32
                  \/ a = 4 /\ b = 8 /\ d = 32 /\ e = 16
                  \/ a = 8 /\ b = 16 /\ d = 16 /\ e = 8
                  \/ a = 16 /\ b = 32 /\ d = 8 /\ e = 4
                  \/ a = 32 /\ b = 64 /\ d = 4 /\ e = 2
                  \/ a = 64 /\ b = 128 /\ d = 2 /\ e = 1
  <2>1. /\ n = 0 => a = 1
        /\ n = 1 => a = 2
        /\ n = 2 => a = 4
        /\ n = 3 => a = 8
        /\ n = 4 => a = 16
        /\ n = 5 => a = 32
        /\ n = 6 => a = 64
        /\ n = 7 => a = 128
    BY <1>1, NamedPower
  <2>2. /\ m = 1 => b = 2
        /\ m = 2 => b = 4
        /\ m = 3 => b = 8
        /\ m = 4 => b = 16
        /\ m = 5 => b = 32
        /\ m = 6 => b = 64
        /\ m = 7 => b = 128
    BY <1>5, NamedPower
  <2>3. /\ k = 0 => d = 1
        /\ k = 1 => d = 2
        /\ k = 2 => d = 4
        /\ k = 3 => d = 8
        /\ k = 4 => d = 16
        /\ k = 5 => d = 32
        /\ k = 6 => d = 64
        /\ k = 7 => d = 128
    BY <1>6, NamedPower
  <2>4. /\ l = 0 => e = 1
        /\ l = 1 => e = 2
        /\ l = 2 => e = 4
        /\ l = 3 => e = 8
        /\ l = 4 => e = 16
        /\ l = 5 => e = 32
        /\ l = 6 => e = 64
    BY <1>7, NamedPower
  <2>5. QED
    BY <1>2, <1>3, <1>4, <2>1, <2>2, <2>3, <2>4
<1>9. ASSUME n < 7
      PROVE  ((c % a) * d + 128 * ((c \div a) % 2)) \div 2 = (c % b) * e
  <2>1. CASE a = 1 /\ b = 2 /\ d = 128 /\ e = 64
    <3>1. ((c % 1) * 128 + 128 * ((c \div 1) % 2)) \div 2 = (c % 2) * 64
      BY DEF Byte
    <3>2. QED
      BY <2>1, <3>1, Zenon
  <2>2. CASE a = 2 /\ b = 4 /\ d = 64 /\ e = 32
    <3>1. ((c % 2) * 64 + 128 * ((c \div 2) % 2)) \div 2 = (c % 4) * 32
      BY DEF Byte
    <3>2. QED
      BY <2>2, <3>1, Zenon
  <2>3. CASE a = 4 /\ b = 8 /\ d = 32 /\ e = 16
    <3>1. ((c % 4) * 32 + 128 * ((c \div 4) % 2)) \div 2 = (c % 8) * 16
      BY DEF Byte
    <3>2. QED
      BY <2>3, <3>1, Zenon
  <2>4. CASE a = 8 /\ b = 16 /\ d = 16 /\ e = 8
    <3>1. ((c % 8) * 16 + 128 * ((c \div 8) % 2)) \div 2 = (c % 16) * 8
      BY DEF Byte
    <3>2. QED
      BY <2>4, <3>1, Zenon
  <2>5. CASE a = 16 /\ b = 32 /\ d = 8 /\ e = 4
    <3>1. ((c % 16) * 8 + 128 * ((c \div 16) % 2)) \div 2 = (c % 32) * 4
      BY DEF Byte
    <3>2. QED
      BY <2>5, <3>1, Zenon
  <2>6. CASE a = 32 /\ b = 64 /\ d = 4 /\ e = 2
    <3>1. ((c % 32) * 4 + 128 * ((c \div 32) % 2)) \div 2 = (c % 64) * 2
      BY DEF Byte
    <3>2. QED
      BY <2>6, <3>1, Zenon
  <2>7. CASE a = 64 /\ b = 128 /\ d = 2 /\ e = 1
    <3>1. ((c % 64) * 2 + 128 * ((c \div 64) % 2)) \div 2 = (c % 128) * 1
      BY DEF Byte
    <3>2. QED
      BY <2>7, <3>1, Zenon
  <2>8. QED
    BY <1>8, <1>9, <2>1, <2>2, <2>3, <2>4, <2>5, <2>6, <2>7
<1>10. n = 7 => (c % a) * d + 128 * ((c \div a) % 2) = c
  BY <1>8 DEF Byte
<1>11. QED
  BY <1>1, <1>2, <1>3, <1>4, <1>5, <1>6, <1>7, <1>9, <1>10, Zenon

LEMMA CharStarts ==
  ASSUME NEW c \in Byte
  PROVE  (c % 2 ^ 0) * 2 ^ (7 - 0) = 0
  BY Powers DEF Byte

\* The last bits d of the receiver are a zero and n ones.
LEMMA EndsInCases ==
  ASSUME NEW d \in Byte, NEW n \in 0 .. 6
  PROVE  EndsIn(d, n) <=> \/ n = 0 /\ d % 2 = 0
                          \/ n = 1 /\ d % 4 = 1
                          \/ n = 2 /\ d % 8 = 3
                          \/ n = 3 /\ d % 16 = 7
                          \/ n = 4 /\ d % 32 = 15
                          \/ n = 5 /\ d % 64 = 31
                          \/ n = 6 /\ d % 128 = 63
<1>1. PICK m \in Nat : m = n + 1
  OBVIOUS
<1>2. PICK a : a = 2 ^ n
  OBVIOUS
<1>3. PICK b : b = 2 ^ m
  OBVIOUS
<1>4. /\ n = 0 => a = 1
      /\ n = 1 => a = 2
      /\ n = 2 => a = 4
      /\ n = 3 => a = 8
      /\ n = 4 => a = 16
      /\ n = 5 => a = 32
      /\ n = 6 => a = 64
  BY <1>2, NamedPower
<1>5. /\ m = 1 => b = 2
      /\ m = 2 => b = 4
      /\ m = 3 => b = 8
      /\ m = 4 => b = 16
      /\ m = 5 => b = 32
      /\ m = 6 => b = 64
      /\ m = 7 => b = 128
  BY <1>3, NamedPower
<1>6. EndsIn(d, n) <=> d % b = a - 1
  BY <1>1, <1>2, <1>3, Zenon DEF EndsIn
<1>7. d % b = a - 1 <=> \/ n = 0 /\ d % 2 = 0
                        \/ n = 1 /\ d % 4 = 1
                        \/ n = 2 /\ d % 8 = 3
                        \/ n = 3 /\ d % 16 = 7
                        \/ n = 4 /\ d % 32 = 15
                        \/ n = 5 /\ d % 64 = 31
                        \/ n = 6 /\ d % 128 = 63
  BY <1>1, <1>4, <1>5
<1>8. QED
  BY <1>6, <1>7

\* The receiver counts the ones it gets.
Shifted(d, x) == (2 * d + x) % 256

LEMMA OneMore ==
  ASSUME NEW d \in Byte, NEW n \in 0 .. 6, EndsIn(d, n), NEW x \in {0, 1}
  PROVE  /\ x = 0 => EndsIn(Shifted(d, x), 0)
         /\ x = 1 /\ n < 6 => EndsIn(Shifted(d, x), n + 1)
         /\ Shifted(d, x) = 126 <=> x = 0 /\ n = 6
         /\ Shifted(d, x) % 128 = 127 <=> x = 1 /\ n = 6
         /\ n <= 5 => (Shifted(d, x) % 64 = 62 <=> x = 0 /\ n = 5)
<1> DEFINE d2 == Shifted(d, x)
<1>0. d2 = (2 * d + x) % 256 /\ d2 \in Byte
  BY DEF Shifted, Byte
<1> HIDE DEF d2
<1>1. \/ n = 0 /\ d % 2 = 0
      \/ n = 1 /\ d % 4 = 1
      \/ n = 2 /\ d % 8 = 3
      \/ n = 3 /\ d % 16 = 7
      \/ n = 4 /\ d % 32 = 15
      \/ n = 5 /\ d % 64 = 31
      \/ n = 6 /\ d % 128 = 63
  BY EndsInCases
<1>2. d2 % 2 = x
  BY <1>0
<1>3. x = 0 => EndsIn(d2, 0)
  BY <1>0, <1>2, EndsInCases
<1>4. ASSUME x = 1
      PROVE  \/ n = 0 /\ d2 % 4 = 1
             \/ n = 1 /\ d2 % 8 = 3
             \/ n = 2 /\ d2 % 16 = 7
             \/ n = 3 /\ d2 % 32 = 15
             \/ n = 4 /\ d2 % 64 = 31
             \/ n = 5 /\ d2 % 128 = 63
             \/ n = 6 /\ d2 % 128 = 127
  <2>1. d2 = 2 * d + 1 \/ d2 = 2 * d - 255
    BY <1>0, <1>4 DEF Byte
  <2>2. d % 2 = 0 => d2 % 4 = 1
    BY <1>0, <2>1
  <2>3. d % 4 = 1 => d2 % 8 = 3
    BY <1>0, <2>1
  <2>4. d % 8 = 3 => d2 % 16 = 7
    BY <1>0, <2>1
  <2>5. d % 16 = 7 => d2 % 32 = 15
    BY <1>0, <2>1
  <2>6. d % 32 = 15 => d2 % 64 = 31
    BY <1>0, <2>1
  <2>7. d % 64 = 31 => d2 % 128 = 63
    BY <1>0, <2>1
  <2>8. d % 128 = 63 => d2 % 128 = 127
    BY <1>0, <2>1
  <2>9. QED
    BY <1>1, <2>2, <2>3, <2>4, <2>5, <2>6, <2>7, <2>8
<1>5. x = 1 /\ n < 6 => EndsIn(d2, n + 1)
  <2>1. PICK m \in 0 .. 7 : m = n + 1
    OBVIOUS
  <2>2. x = 1 /\ n < 6 => EndsIn(d2, m)
    BY <1>0, <1>4, <2>1, EndsInCases
  <2>3. QED
    BY <2>1, <2>2
<1>6. x = 0 => \/ n = 0 /\ d2 % 4 = 0
               \/ n = 1 /\ d2 % 8 = 2
               \/ n = 2 /\ d2 % 16 = 6
               \/ n = 3 /\ d2 % 32 = 14
               \/ n = 4 /\ d2 % 64 = 30
               \/ n = 5 /\ d2 % 128 = 62
               \/ n = 6 /\ d2 = 126
  BY <1>0, <1>1
<1>7. d2 = 126 <=> x = 0 /\ n = 6
  BY <1>0, <1>4, <1>6
<1>8. d2 % 128 = 127 <=> x = 1 /\ n = 6
  <2>1. d2 % 128 = 127 => x = 1
    BY <1>0, <1>2
  <2>2. QED
    BY <1>0, <1>4, <2>1
<1>9. n <= 5 => (d2 % 64 = 62 <=> x = 0 /\ n = 5)
  BY <1>0, <1>4, <1>6
<1>10. QED
  BY <1>3, <1>5, <1>7, <1>8, <1>9 DEF d2

-----------------------------------------------------------------------------
(* The sender.                                                             *)

Chars == Byte \X BOOLEAN

\* The last frame and what is left of it.
LEMMA FrameFacts ==
  ASSUME TypeOK, SenderInv, in_frame
  PROVE  /\ Len(sent) \in 1 .. MaxFrames
         /\ Frame \in Frames /\ Frame \in Seq(Byte)
         /\ Len(Frame) \in Nat /\ Len(Frame) >= 1
         /\ Len(chars) \in Nat /\ Done \in Nat
         /\ Len(chars) = Len(Frame) + 2 - Done
<1>1. Len(sent) \in Nat /\ Len(sent) # 0 /\ Len(sent) <= MaxFrames
  BY ElementFacts DEF TypeOK, SenderInv
<1>2. Len(sent) \in 1 .. MaxFrames
  BY <1>1, LenAssumption
<1>3. Frame \in Frames
  BY <1>1, ElementFacts DEF TypeOK, Frame
<1>4. Frame \in Seq(Byte) /\ Len(Frame) >= MinLen /\ Len(Frame) \in Nat
  BY <1>3, FrameAssumption, ElementFacts
<1>5. Len(chars) \in Nat
  BY ElementFacts DEF TypeOK
<1>6. QED
  BY <1>2, <1>3, <1>4, <1>5, LenAssumption DEF Done, SenderInv

\* The character that is being sent.
LEMMA HeadFacts ==
  ASSUME TypeOK, SenderInv, chars # <<>>
  PROVE  /\ Head(chars) = chars[1]
         /\ Head(chars) \in Chars
         /\ Head(chars)[1] \in Byte /\ Head(chars)[2] \in BOOLEAN
         /\ Head(chars)[2] \/ Head(chars) = <<126, FALSE>>
         /\ in_frame => /\ Done < Len(Frame) + 2
                        /\ Head(chars)[2] <=> Done \in 1 .. Len(Frame)
                        /\ Done \in 1 .. Len(Frame) =>
                             Head(chars)[1] = Frame[Done]
         /\ ~in_frame => ~Head(chars)[2]
<1>1. /\ Head(chars) = chars[1] /\ Head(chars) \in Chars
      /\ Len(chars) \in Nat \ {0}
  BY TailFacts DEF TypeOK, Chars
<1>2. chars[1] = IF in_frame THEN CharOf(Frame, Done + 1) ELSE Flag
  BY <1>1 DEF SenderInv
<1>3. Flag = <<126, FALSE>> /\ Flag[2] = FALSE
  BY DEF Flag, HDLC_FLAG
<1>4. CASE in_frame
  <2>1. /\ Done \in Nat /\ Len(Frame) \in Nat
        /\ Len(chars) = Len(Frame) + 2 - Done
    BY <1>4, FrameFacts
  <2>2. Done < Len(Frame) + 2
    BY <1>1, <2>1
  <2>3. CASE Done \in 1 .. Len(Frame)
    <3>1. Done + 1 \in 2 .. Len(Frame) + 1 /\ (Done + 1) - 1 = Done
      BY <2>1, <2>3
    <3>2. chars[1] = <<Frame[Done], TRUE>>
      BY <1>2, <1>4, <3>1 DEF CharOf
    <3>3. Head(chars)[1] = Frame[Done] /\ Head(chars)[2] = TRUE
      <4>1. chars[1][1] = Frame[Done] /\ chars[1][2] = TRUE
        BY <3>2, PairFacts, Zenon
      <4>2. QED
        BY <1>1, <4>1, Zenon
    <3>4. Head(chars)[1] \in Byte
      BY <1>1 DEF Chars
    <3>5. QED
      BY <1>1, <1>4, <2>2, <2>3, <3>3, <3>4, Zenon
  <2>4. CASE ~(Done \in 1 .. Len(Frame))
    <3>1. ~(Done + 1 \in 2 .. Len(Frame) + 1)
      BY <2>1, <2>4
    <3>2. chars[1] = Flag
      BY <1>2, <1>4, <3>1 DEF CharOf
    <3>3. Head(chars) = <<126, FALSE>> /\ Head(chars)[2] = FALSE
      BY <1>1, <1>3, <3>2
    <3>4. Head(chars)[1] \in Byte
      BY <1>1 DEF Chars
    <3>5. QED
      BY <1>1, <1>4, <2>2, <2>4, <3>3, <3>4, Zenon
  <2>5. QED
    BY <2>3, <2>4
<1>5. CASE ~in_frame
  <2>1. Head(chars) = <<126, FALSE>> /\ Head(chars)[2] = FALSE
    BY <1>1, <1>2, <1>3, <1>5
  <2>2. Head(chars)[1] \in Byte
    BY <1>1 DEF Chars
  <2>3. QED
    BY <1>1, <1>5, <2>1, <2>2, Zenon
<1>6. QED
  BY <1>4, <1>5

\* The bits of a flag are a zero, six ones and a zero.
LEMMA TxBitFacts ==
  ASSUME TypeOK, SenderInv, chars # <<>>
  PROVE  /\ TxBit \in {0, 1}
         /\ Stuffing => TxBit = 0
         /\ ~Head(chars)[2] => (TxBit = 0 <=> tx_bit \in {0, 7})
         /\ ~Stuffing => TxBit = (Head(chars)[1] \div 2 ^ tx_bit) % 2
<1>1. tx_bit \in 0 .. 7 /\ Head(chars)[1] \in Byte
  BY HeadFacts DEF TypeOK
<1>2. (Head(chars)[1] \div 2 ^ tx_bit) % 2 \in {0, 1}
  BY <1>1, BitOf
<1>3. TxBit \in {0, 1}
  BY <1>2 DEF TxBit
<1>4. ASSUME ~Head(chars)[2] PROVE TxBit = 0 <=> tx_bit \in {0, 7}
  <2>1. Head(chars)[1] = 126
    <3>1. Head(chars) = <<126, FALSE>>
      BY <1>4, HeadFacts, Zenon
    <3>2. QED
      BY <3>1
  <2>2. TxBit = (126 \div 2 ^ tx_bit) % 2
    BY <1>4, <2>1, Zenon DEF TxBit, Stuffing
  <2>3. PICK w : w = 2 ^ tx_bit
    OBVIOUS
  <2>4. /\ tx_bit = 0 => w = 1
        /\ tx_bit = 1 => w = 2
        /\ tx_bit = 2 => w = 4
        /\ tx_bit = 3 => w = 8
        /\ tx_bit = 4 => w = 16
        /\ tx_bit = 5 => w = 32
        /\ tx_bit = 6 => w = 64
        /\ tx_bit = 7 => w = 128
    BY <2>3, NamedPower
  <2>5. (126 \div w) % 2 = 0 <=> tx_bit \in {0, 7}
    BY <1>1, <2>4
  <2>6. QED
    BY <2>2, <2>3, <2>5
<1>5. QED
  BY <1>3, <1>4 DEF TxBit

\* The character behind the one that was sent to its end.
LastBit == ~Stuffing /\ tx_bit = 7

LEMMA SendFacts ==
  ASSUME TypeOK, SenderInv, chars # <<>>, Send
  PROVE  /\ tone' = IF TxBit = 0 THEN 1 - tone ELSE tone
         /\ tx_bit' = IF Stuffing THEN tx_bit ELSE (tx_bit + 1) % 8
         /\ stuff_cnt' = IF LastBit /\ ~Head(chars)[2] THEN 0
                         ELSE IF TxBit = 1 THEN stuff_cnt + 1 ELSE 0
         /\ chars' = IF LastBit THEN Tail(chars) ELSE chars
         /\ sent' = sent /\ in_frame' = in_frame
  BY DEF Send, LastBit

LEMMA SendCounts ==
  ASSUME TypeOK, SenderInv, StuffInv, chars # <<>>, Send
  PROVE  /\ tone' \in {0, 1} /\ tx_bit' \in 0 .. 7 /\ stuff_cnt' \in 0 .. 6
         /\ chars' \in Seq(Chars)
         /\ LastBit => tx_bit' = 0 /\ stuff_cnt' <= 5
         /\ ~LastBit /\ Head(chars)[2] => stuff_cnt' <= 5
         /\ ~LastBit /\ ~Head(chars)[2] =>
              tx_bit' # 0 /\ stuff_cnt' = tx_bit' - 1
<1>1. /\ tx_bit \in 0 .. 7 /\ stuff_cnt \in 0 .. 6 /\ tone \in {0, 1}
      /\ chars \in Seq(Chars)
  BY DEF TypeOK, Chars
<1>2. TxBit \in {0, 1}
  BY TxBitFacts
<1>3. CASE Head(chars)[2]
  <2>1. stuff_cnt <= 5
    BY <1>3 DEF StuffInv
  <2>2. Stuffing <=> stuff_cnt = 5
    BY <1>1, <1>3, <2>1 DEF Stuffing
  <2>3. Stuffing => TxBit = 0
    BY TxBitFacts
  <2>4. stuff_cnt' = IF TxBit = 1 THEN stuff_cnt + 1 ELSE 0
    BY <1>3, SendFacts
  <2>5. stuff_cnt' \in 0 .. 5
    BY <1>1, <1>2, <2>1, <2>2, <2>3, <2>4
  <2>6. tone' \in {0, 1} /\ tx_bit' \in 0 .. 7 /\ (LastBit => tx_bit' = 0)
    BY <1>1, SendFacts DEF LastBit
  <2>7. chars' \in Seq(Chars)
    BY <1>1, SendFacts, TailFacts
  <2>8. stuff_cnt' \in 0 .. 6 /\ stuff_cnt' <= 5
    BY <2>5
  <2>9. QED
    BY <1>3, <2>6, <2>7, <2>8, Zenon
<1>4. CASE ~Head(chars)[2]
  <2>1. ~Stuffing /\ (LastBit <=> tx_bit = 7)
    BY <1>4 DEF Stuffing, LastBit
  <2>2. tx_bit # 0 => stuff_cnt = tx_bit - 1
    BY <1>4 DEF StuffInv
  <2>3. TxBit = 0 <=> tx_bit \in {0, 7}
    BY <1>4, TxBitFacts
  <2>4. stuff_cnt' = IF tx_bit = 7 THEN 0
                     ELSE IF TxBit = 1 THEN stuff_cnt + 1 ELSE 0
    BY <1>4, <2>1, SendFacts
  <2>5. tx_bit' = (tx_bit + 1) % 8 /\ tone' \in {0, 1}
    BY <1>1, <2>1, SendFacts
  <2>6. tx_bit # 7 => tx_bit' = tx_bit + 1 /\ stuff_cnt' = tx_bit
    BY <1>1, <1>2, <2>2, <2>3, <2>4, <2>5
  <2>7. tx_bit = 7 => tx_bit' = 0 /\ stuff_cnt' = 0
    BY <2>4, <2>5
  <2>8. chars' \in Seq(Chars)
    BY <1>1, SendFacts, TailFacts
  <2>9. tx_bit' \in 0 .. 7 /\ stuff_cnt' \in 0 .. 6
    BY <1>1, <2>6, <2>7
  <2>10. /\ LastBit => tx_bit' = 0 /\ stuff_cnt' <= 5
         /\ ~LastBit => tx_bit' # 0 /\ stuff_cnt' = tx_bit' - 1
    BY <1>1, <2>1, <2>6, <2>7
  <2>11. QED
    BY <1>4, <2>5, <2>8, <2>9, <2>10, Zenon
<1>5. QED
  BY <1>3, <1>4

\* A character sent to its end leaves those behind it.
LEMMA SendChars ==
  ASSUME TypeOK, SenderInv, chars # <<>>, Send
  PROVE  /\ Len(chars) \in Nat \ {0}
         /\ LastBit => /\ Len(chars') = Len(chars) - 1
                       /\ \A k \in 1 .. Len(chars') : chars'[k] = chars[k + 1]
         /\ ~LastBit => chars' = chars
         /\ Frame' = Frame
         /\ in_frame => Done' = IF LastBit THEN Done + 1 ELSE Done
<1>1. Len(chars) \in Nat \ {0}
  BY TailFacts DEF TypeOK
<1>2. LastBit => /\ Len(chars') = Len(chars) - 1
                 /\ \A k \in 1 .. Len(chars') : chars'[k] = chars[k + 1]
  <2>1. /\ Len(Tail(chars)) = Len(chars) - 1
        /\ \A k \in 1 .. Len(chars) - 1 : Tail(chars)[k] = chars[k + 1]
    BY TailFacts DEF TypeOK
  <2>2. LastBit => chars' = Tail(chars)
    BY SendFacts
  <2>3. QED
    BY <2>1, <2>2, Zenon
<1>3. ~LastBit => chars' = chars
  BY SendFacts
<1>4. Frame' = Frame
  BY SendFacts DEF Frame
<1>5. Done' = Len(Frame) + 2 - Len(chars')
  BY <1>4 DEF Done
<1>6. ASSUME in_frame PROVE Done' = IF LastBit THEN Done + 1 ELSE Done
  <2>1. Len(Frame) \in Nat /\ Done = Len(Frame) + 2 - Len(chars)
    BY <1>6, FrameFacts DEF Done
  <2>2. QED
    BY <1>1, <1>2, <1>3, <1>5, <2>1
<1>7. QED
  BY <1>1, <1>2, <1>3, <1>4, <1>6

LEMMA SenderStep ==
  ASSUME TypeOK, SenderInv, StuffInv, chars # <<>>, Send
  PROVE  SenderInv' /\ StuffInv'
<1>1. CASE LastBit
  <2>1. tx_bit' = 0 /\ stuff_cnt' <= 5
    BY <1>1, SendCounts
  <2>2. StuffInv'
    BY <2>1 DEF StuffInv
  <2>3. PICK L \in Nat \ {0} : L = Len(chars)
    BY SendChars
  <2>4. Len(chars') = L - 1 /\ \A k \in 1 .. L - 1 : chars'[k] = chars[k + 1]
    BY <1>1, <2>3, SendChars
  <2>5. in_frame' = in_frame /\ sent' = sent /\ Frame' = Frame
    BY SendFacts, SendChars
  <2>6. chars' \in Seq(Chars)
    BY SendCounts
  <2>7. CASE in_frame
    <3>1. /\ Done \in Nat /\ Len(Frame) \in Nat
          /\ L = Len(Frame) + 2 - Done
      BY <2>3, <2>7, FrameFacts
    <3>2. Done' = Done + 1
      BY <1>1, <2>7, SendChars
    <3>3. ASSUME NEW k \in 1 .. L - 1
          PROVE  chars'[k] = CharOf(Frame, Done' + k)
      <4>1. k + 1 \in 1 .. L /\ Done + (k + 1) = Done' + k
        BY <2>3, <3>1, <3>2
      <4>2. chars[k + 1] = CharOf(Frame, Done + (k + 1))
        BY <2>3, <2>7, <4>1 DEF SenderInv
      <4>3. QED
        BY <2>4, <4>1, <4>2
    <3>4. L = 1 => stuff_cnt' = 0
      <4>1. ASSUME L = 1 PROVE ~Head(chars)[2]
        <5>1. Done = Len(Frame) + 1
          BY <3>1, <4>1
        <5>2. ~(Done \in 1 .. Len(Frame))
          BY <3>1, <5>1
        <5>3. QED
          BY <2>7, <5>2, HeadFacts
      <4>2. QED
        BY <1>1, <4>1, SendFacts
    <3>5. chars' = <<>> => L = 1
      BY <2>4, <2>3
    <3>6. sent' # <<>> /\ Done' \in 0 .. Len(Frame') + 2
      <4>1. sent # <<>>
        BY <2>7 DEF SenderInv
      <4>2. Done' \in 0 .. Len(Frame) + 2
        BY <2>3, <3>1, <3>2
      <4>3. QED
        BY <2>5, <4>1, <4>2
    <3>7. \A k \in 1 .. Len(chars') : chars'[k] = CharOf(Frame', Done' + k)
      BY <2>4, <2>5, <3>3
    <3>8. chars' = <<>> => tx_bit' = 0 /\ stuff_cnt' = 0
      BY <2>1, <3>4, <3>5
    <3>9. SenderInv'
      BY <2>5, <2>7, <3>6, <3>7, <3>8 DEF SenderInv
    <3>10. QED
      BY <2>2, <3>9
  <2>8. CASE ~in_frame
    <3>1. L = 1
      BY <2>3, <2>8 DEF SenderInv
    <3>2. Len(chars') = 0
      BY <2>4, <3>1
    <3>3. stuff_cnt' = 0
      BY <1>1, <2>8, HeadFacts, SendFacts
    <3>4. SenderInv'
      BY <2>1, <2>5, <2>8, <3>2, <3>3 DEF SenderInv
    <3>5. QED
      BY <2>2, <3>4
  <2>9. QED
    BY <2>2, <2>7, <2>8
<1>2. CASE ~LastBit
  <2>1. chars' = chars /\ sent' = sent /\ in_frame' = in_frame
    BY <1>2, SendFacts
  <2>2. Frame' = Frame /\ Done' = Done
    BY <2>1 DEF Frame, Done
  <2>3. SenderInv'
    BY <2>1, <2>2 DEF SenderInv
  <2>4. StuffInv'
    BY <1>2, <2>1, SendCounts DEF StuffInv
  <2>5. QED
    BY <2>3, <2>4
<1>3. QED
  BY <1>1, <1>2

-----------------------------------------------------------------------------
(* The line and hdlc_parse.                                                *)

\* The bit that arrives.
NewBit == IF found' = found THEN 1 ELSE 0

LEMMA LineStep ==
  ASSUME TypeOK, SenderInv, LineInv, NEW flip \in BOOLEAN, Bit(flip)
  PROVE  /\ found' \in {0, 1} /\ LineInv'
         /\ ~flip /\ ~flipped => NewBit = TxBit
<1>1. TxBit \in {0, 1}
  BY TxBitFacts DEF Bit
<1>2. tone' = IF TxBit = 0 THEN 1 - tone ELSE tone
  BY SendFacts DEF Bit
<1>3. found' = IF flip THEN 1 - tone' ELSE tone'
  BY DEF Bit
<1>4. tone \in {0, 1} /\ found \in {0, 1}
  BY DEF TypeOK
<1>5. tone' \in {0, 1}
  BY <1>2, <1>4
<1>6. found' \in {0, 1}
  <2>1. \A t \in {0, 1} : 1 - t \in {0, 1}
    OBVIOUS
  <2>2. QED
    BY <1>3, <1>5, <2>1, Zenon
<1>7. LineInv'
  <2>1. flipped' = flip
    BY DEF Bit
  <2>2. QED
    BY <1>3, <2>1 DEF LineInv
<1>8. ASSUME ~flip, ~flipped PROVE NewBit = TxBit
  <2>1. found' = tone' /\ found = tone
    BY <1>3, <1>8 DEF LineInv
  <2>2. QED
    BY <1>1, <1>2, <1>4, <2>1 DEF NewBit
<1>9. QED
  BY <1>6, <1>7, <1>8

LEMMA DemodFacts ==
  ASSUME TypeOK, NEW flip, Bit(flip)
  PROVE  /\ NewBit \in {0, 1}
         /\ demod_bits \in Byte /\ demod_bits' \in Byte
         /\ demod_bits' = Shifted(demod_bits, NewBit)
         /\ IsFlag <=> demod_bits' = 126
         /\ IsReset <=> demod_bits' % 128 = 127
         /\ IsStuffed <=> demod_bits' % 64 = 62
         /\ demod_bits' % 2 = NewBit
         /\ Char = currchar + 128 * NewBit
         /\ Char \in Byte
<1>1. NewBit \in {0, 1}
  BY DEF NewBit
<1>2. demod_bits \in Byte /\ currchar \in 0 .. 127
  BY DEF TypeOK
<1>3. demod_bits' = Demod
  BY DEF Bit
<1>4. Demod = (2 * demod_bits + NewBit) % 256
  BY DEF Demod, NewBit
<1>5. demod_bits' \in Byte
  BY <1>1, <1>2, <1>3, <1>4 DEF Byte
<1>6. demod_bits' % 2 = NewBit
  BY <1>1, <1>2, <1>3, <1>4 DEF Byte
<1>7. Char = currchar + 128 * NewBit
  BY <1>3, <1>6 DEF Char
<1>8. demod_bits' = Shifted(demod_bits, NewBit)
  BY <1>3, <1>4 DEF Shifted
<1>9. /\ IsFlag <=> demod_bits' = 126
      /\ IsReset <=> demod_bits' % 128 = 127
      /\ IsStuffed <=> demod_bits' % 64 = 62
  BY <1>3 DEF IsFlag, IsReset, IsStuffed, HDLC_FLAG, HDLC_RESET
<1>10. Char \in Byte
  BY <1>1, <1>2, <1>7 DEF Byte
<1>11. QED
  BY <1>1, <1>2, <1>5, <1>6, <1>7, <1>8, <1>9, <1>10

LEMMA ParseFacts ==
  ASSUME TypeOK, NEW flip, Bit(flip)
  PROVE  /\ rxstart' \in BOOLEAN
         /\ bit_idx' \in 0 .. 7
         /\ currchar' \in 0 .. 127
<1>1. bit_idx \in 0 .. 7 /\ currchar \in 0 .. 127 /\ rxstart \in BOOLEAN
  BY DEF TypeOK
<1>2. Char \in Byte
  BY DemodFacts
<1>3. bit_idx' \in 0 .. 7
  <2>1. bit_idx' = IF IsFlag THEN 0
                   ELSE IF IsData THEN (bit_idx + 1) % 8 ELSE bit_idx
    BY DEF Bit, Parse
  <2>2. QED
    BY <1>1, <2>1
<1>4. currchar' \in 0 .. 127
  <2>1. currchar' = IF IsFlag THEN 0
                    ELSE IF ~IsData THEN currchar
                    ELSE IF bit_idx = 7 THEN 0 ELSE Char \div 2
    BY DEF Bit, Parse
  <2>2. QED
    BY <1>1, <1>2, <2>1 DEF Byte
<1>5. rxstart' \in BOOLEAN
  <2>1. rxstart' = IF Overrun \/ (IsReset /\ ~IsFlag) THEN FALSE
                   ELSE rxstart \/ IsFlag
    BY DEF Bit, Parse
  <2>2. QED
    BY <2>1
<1>6. QED
  BY <1>3, <1>4, <1>5

\* What hdlc_parse can do to rx_fifo.
PushedNothing == /\ rx_fifo' = rx_fifo /\ cut' = cut
                 /\ IsFlag => Overrun
                 /\ IsData /\ bit_idx = 7 => Overrun
PushedFlag    == /\ IsFlag /\ ~Overrun /\ ~cut'
                 /\ rx_fifo' = Append(rx_fifo, HDLC_FLAG)
PushedPlain   == /\ ~Overrun /\ ~cut /\ ~cut' /\ ~IsFlag
                 /\ IsData /\ bit_idx = 7 /\ Char \notin Special
                 /\ rx_fifo' = Append(rx_fifo, Char)
PushedEscaped == /\ ~Overrun /\ ~cut /\ ~cut' /\ ~IsFlag
                 /\ IsData /\ bit_idx = 7 /\ Char \in Special
                 /\ rx_fifo' = Append(Append(rx_fifo, AX25_ESC), Char)
PushedHalf    == /\ Overrun /\ ~cut /\ cut' /\ ~rxstart'
                 /\ rx_fifo' = Append(rx_fifo, AX25_ESC)

LEMMA PushCases ==
  ASSUME TypeOK, CutInv, NEW flip, Bit(flip)
  PROVE  /\ rx_fifo' \in Seq(Byte) /\ Len(rx_fifo') <= RxRoom
         /\ CutInv' /\ cut' \in BOOLEAN
         /\ \/ PushedNothing \/ PushedFlag \/ PushedPlain
            \/ PushedEscaped \/ PushedHalf
<1>1. /\ rx_fifo \in Seq(Byte) /\ Len(rx_fifo) \in Nat
      /\ Len(rx_fifo) <= RxRoom /\ RxRoom \in Nat
      /\ cut \in BOOLEAN /\ rxstart \in BOOLEAN
  BY ElementFacts, LenAssumption DEF TypeOK
<1>2. Char \in Byte /\ 126 \in Byte /\ 27 \in Byte
  BY DemodFacts DEF Byte
<1>3. Room \in Nat /\ Room = RxRoom - Len(rx_fifo)
  BY <1>1 DEF Room
<1>4. /\ rx_fifo' = rx_fifo \o (IF Overrun THEN SubSeq(Pushed, 1, Room)
                                           ELSE Pushed)
      /\ rxstart' = IF Overrun \/ (IsReset /\ ~IsFlag) THEN FALSE
                    ELSE rxstart \/ IsFlag
      /\ cut' = IF Overrun THEN cut \/ Room = 1 ELSE cut /\ ~IsFlag
  BY DEF Bit, Parse
<1>5. IsFlag => ~IsData
  BY DEF IsData
<1>6. IsData => rxstart /\ ~cut
  BY DEF IsData, CutInv
<1>7. CASE ~IsFlag /\ ~(IsData /\ bit_idx = 7)
  <2>1. Pushed = <<>>
    BY <1>7 DEF Pushed
  <2>2. ~Overrun
    BY <1>3, <2>1 DEF Overrun
  <2>3. rx_fifo' = rx_fifo
    BY <1>1, <1>4, <2>1, <2>2
  <2>4. cut' = cut
    BY <1>1, <1>4, <1>7, <2>2, Zenon
  <2>5. cut' => ~rxstart'
    BY <1>4, <1>7, <2>2, <2>4 DEF CutInv
  <2>6. QED
    BY <1>1, <1>7, <2>3, <2>4, <2>5 DEF PushedNothing, CutInv
<1>8. CASE IsFlag
  <2>1. Pushed = <<126>> /\ Len(Pushed) = 1
    BY <1>8 DEF Pushed, HDLC_FLAG
  <2>2. Overrun <=> Room = 0
    BY <1>3, <2>1 DEF Overrun
  <2>3. CASE Overrun
    <3>1. SubSeq(Pushed, 1, Room) = <<>>
      BY <2>1, <2>2, <2>3
    <3>2. rx_fifo' = rx_fifo
      <4>1. rx_fifo' = rx_fifo \o <<>>
        BY <1>4, <2>3, <3>1, Zenon
      <4>2. QED
        BY <1>1, <4>1, ConcatFacts, Zenon
    <3>3. cut' = cut /\ ~rxstart'
      BY <1>1, <1>4, <2>2, <2>3
    <3>4. QED
      BY <1>1, <1>8, <2>3, <3>2, <3>3 DEF PushedNothing, CutInv
  <2>4. CASE ~Overrun
    <3>1. rx_fifo' = Append(rx_fifo, 126)
      BY <1>1, <1>4, <2>1, <2>4
    <3>2. ~cut' /\ cut' \in BOOLEAN
      BY <1>4, <1>8, <2>4
    <3>3. rx_fifo' \in Seq(Byte) /\ Len(rx_fifo') <= RxRoom
      BY <1>1, <1>2, <1>3, <2>2, <2>4, <3>1
    <3>4. QED
      BY <1>8, <2>4, <3>1, <3>2, <3>3 DEF PushedFlag, CutInv, HDLC_FLAG
  <2>5. QED
    BY <2>3, <2>4
<1>9. CASE ~IsFlag /\ IsData /\ bit_idx = 7 /\ Char \notin Special
  <2>1. Pushed = <<Char>> /\ Len(Pushed) = 1
    BY <1>9 DEF Pushed, Escaped
  <2>2. Overrun <=> Room = 0
    BY <1>3, <2>1 DEF Overrun
  <2>3. CASE Overrun
    <3>1. SubSeq(Pushed, 1, Room) = <<>>
      BY <2>1, <2>2, <2>3
    <3>2. rx_fifo' = rx_fifo
      <4>1. rx_fifo' = rx_fifo \o <<>>
        BY <1>4, <2>3, <3>1, Zenon
      <4>2. QED
        BY <1>1, <4>1, ConcatFacts, Zenon
    <3>3. cut' = cut /\ ~rxstart'
      BY <1>1, <1>4, <2>2, <2>3
    <3>4. QED
      BY <1>1, <1>9, <2>3, <3>2, <3>3 DEF PushedNothing, CutInv
  <2>4. CASE ~Overrun
    <3>1. rx_fifo' = Append(rx_fifo, Char)
      BY <1>1, <1>2, <1>4, <2>1, <2>4
    <3>2. ~cut /\ ~cut' /\ cut' \in BOOLEAN
      BY <1>4, <1>6, <1>9, <2>4
    <3>3. rx_fifo' \in Seq(Byte) /\ Len(rx_fifo') <= RxRoom
      BY <1>1, <1>2, <1>3, <2>2, <2>4, <3>1
    <3>4. QED
      BY <1>9, <2>4, <3>1, <3>2, <3>3 DEF PushedPlain, CutInv
  <2>5. QED
    BY <2>3, <2>4
<1>10. CASE ~IsFlag /\ IsData /\ bit_idx = 7 /\ Char \in Special
  <2>1. Pushed = <<27, Char>> /\ Len(Pushed) = 2
    BY <1>10 DEF Pushed, Escaped, AX25_ESC
  <2>2. Overrun <=> Room = 0 \/ Room = 1
    BY <1>3, <2>1 DEF Overrun
  <2>3. ~cut
    BY <1>6, <1>10
  <2>4. CASE Room = 0
    <3>1. SubSeq(Pushed, 1, Room) = <<>>
      BY <2>1, <2>4
    <3>2. rx_fifo' = rx_fifo
      BY <1>1, <1>4, <2>2, <2>4, <3>1
    <3>3. cut' = cut /\ ~rxstart'
      BY <1>1, <1>4, <2>2, <2>4
    <3>4. QED
      BY <1>1, <1>10, <2>2, <2>4, <3>2, <3>3 DEF PushedNothing, CutInv
  <2>5. CASE Room = 1
    <3>1. SubSeq(Pushed, 1, Room) = <<27>>
      <4>1. SubSeq(<<27, Char>>, 1, 1) = <<27>>
        BY <1>2, FirstOfTwo
      <4>2. QED
        BY <2>1, <2>5, <4>1, Zenon
    <3>2. rx_fifo' = Append(rx_fifo, 27)
      <4>1. Overrun
        BY <2>2, <2>5
      <4>2. rx_fifo' = rx_fifo \o <<27>>
        BY <1>4, <3>1, <4>1, Zenon
      <4>3. QED
        BY <1>1, <1>2, <4>2, ConcatFacts, Zenon
    <3>3. cut' /\ ~rxstart' /\ cut' \in BOOLEAN
      BY <1>4, <2>2, <2>5
    <3>4. rx_fifo' \in Seq(Byte) /\ Len(rx_fifo') <= RxRoom
      BY <1>1, <1>2, <1>3, <2>5, <3>2
    <3>5. QED
      BY <2>2, <2>3, <2>5, <3>2, <3>3, <3>4 DEF PushedHalf, CutInv, AX25_ESC
  <2>6. CASE Room # 0 /\ Room # 1
    <3>1. ~Overrun
      BY <2>2, <2>6
    <3>2. rx_fifo' = Append(Append(rx_fifo, 27), Char)
      BY <1>1, <1>2, <1>4, <2>1, <3>1
    <3>3. ~cut' /\ cut' \in BOOLEAN
      BY <1>4, <2>3, <3>1
    <3>4. rx_fifo' \in Seq(Byte) /\ Len(rx_fifo') <= RxRoom
      BY <1>1, <1>2, <1>3, <2>6, <3>2
    <3>5. QED
      BY <1>10, <2>3, <3>1, <3>2, <3>3, <3>4
         DEF PushedEscaped, CutInv, AX25_ESC
  <2>7. QED
    BY <2>4, <2>5, <2>6
<1>11. QED
  BY <1>7, <1>8, <1>9, <1>10

-----------------------------------------------------------------------------
(* A frame that is not hurt.                                               *)

LEMMA CleanStep ==
  ASSUME TypeOK, NEW flip \in BOOLEAN, Bit(flip), Clean'
  PROVE  /\ Clean /\ in_frame /\ ~flip /\ ~flipped /\ ~Overrun
         /\ ~(cut /\ IsFlag)
<1>1. sent' = sent /\ in_frame' = in_frame
  BY DEF Bit, Send
<1>2. hurt' = IF in_frame /\ (flip \/ flipped \/ Overrun \/ (cut /\ IsFlag))
               THEN hurt \union {Len(sent)} ELSE hurt
  BY DEF Bit
<1>3. in_frame /\ Len(sent) \notin hurt'
  BY <1>1 DEF Clean
<1>4. ~(flip \/ flipped \/ Overrun \/ (cut /\ IsFlag))
  BY <1>2, <1>3
<1>5. hurt' = hurt
  BY <1>2, <1>4
<1>6. QED
  BY <1>3, <1>4, <1>5 DEF Clean

\* The receiver counts the ones that are sent.
LEMMA CleanOnes ==
  ASSUME TypeOK, SenderInv, StuffInv, LineInv, BitsInv,
         NEW flip \in BOOLEAN, Bit(flip), Clean'
  PROVE  EndsIn(demod_bits', stuff_cnt')
<1>1. Clean /\ in_frame /\ ~flip /\ ~flipped /\ ~Overrun /\ ~(cut /\ IsFlag)
  BY CleanStep
<1>2. NewBit = TxBit /\ TxBit \in {0, 1}
  BY <1>1, LineStep, TxBitFacts DEF Bit
<1>3. /\ demod_bits \in Byte /\ demod_bits' \in Byte
      /\ demod_bits' = Shifted(demod_bits, TxBit)
      /\ demod_bits' % 2 = TxBit
  BY <1>2, DemodFacts
<1>4. stuff_cnt' = IF LastBit /\ ~Head(chars)[2] THEN 0
                   ELSE IF TxBit = 1 THEN stuff_cnt + 1 ELSE 0
  BY SendFacts DEF Bit
<1>5. LastBit /\ ~Head(chars)[2] => TxBit = 0
  BY TxBitFacts DEF Bit, LastBit
<1>6. stuff_cnt \in 0 .. 6 /\ stuff_cnt' \in 0 .. 6
  BY SendCounts DEF Bit, TypeOK
<1>7. CASE TxBit = 0
  <2>1. stuff_cnt' = 0
    BY <1>4, <1>7
  <2>2. EndsIn(demod_bits', 0)
    BY <1>3, <1>7, EndsInCases
  <2>3. QED
    BY <2>1, <2>2
<1>8. CASE TxBit = 1
  <2>1. stuff_cnt' = stuff_cnt + 1
    BY <1>4, <1>5, <1>8
  <2>2. Done # 0 \/ tx_bit # 0
    <3>1. ASSUME Done = 0 PROVE ~Head(chars)[2]
      <4>1. ~(Done \in 1 .. Len(Frame))
        BY <3>1, <1>1, FrameFacts
      <4>2. QED
        BY <4>1, <1>1, HeadFacts DEF Bit
    <3>2. Done = 0 => tx_bit # 0
      BY <1>8, <3>1, TxBitFacts DEF Bit
    <3>3. QED
      BY <3>2
  <2>3. EndsIn(demod_bits, stuff_cnt)
    BY <1>1, <2>2 DEF BitsInv
  <2>4. stuff_cnt < 6
    BY <1>6, <2>1
  <2>5. EndsIn(demod_bits', stuff_cnt + 1)
    BY <1>3, <1>6, <1>8, <2>3, <2>4, OneMore
  <2>6. QED
    BY <2>1, <2>5
<1>9. QED
  BY <1>2, <1>7, <1>8

\* Its opening flag is found by its last bit.
LEMMA CleanOpening ==
  ASSUME TypeOK, SenderInv, StuffInv, LineInv, BitsInv,
         NEW flip \in BOOLEAN, Bit(flip), Clean', Done = 0, LastBit
  PROVE  IsFlag
<1>1. Clean /\ in_frame /\ ~flip /\ ~flipped
  BY CleanStep
<1>2. ~Head(chars)[2]
  <2>1. ~(Done \in 1 .. Len(Frame))
    BY <1>1, FrameFacts
  <2>2. QED
    BY <2>1, <1>1, HeadFacts DEF Bit
<1>3. tx_bit = 7 /\ stuff_cnt = 6
  BY <1>2 DEF LastBit, StuffInv, Bit
<1>4. TxBit = 0 /\ NewBit = TxBit
  BY <1>1, <1>2, <1>3, LineStep, TxBitFacts DEF Bit
<1>5. EndsIn(demod_bits, 6)
  BY <1>1, <1>3 DEF BitsInv
<1>6. demod_bits' = 126
  BY <1>4, <1>5, DemodFacts, OneMore
<1>7. QED
  BY <1>6, DemodFacts

\* No bit of its characters makes a flag or a reset of them, the stuffed bits
\* are those hdlc_parse drops, and the last bit of a character completes it.
LEMMA CleanData ==
  ASSUME TypeOK, SenderInv, StuffInv, LineInv, BitsInv,
         NEW flip \in BOOLEAN, Bit(flip), Clean', Done \in 1 .. Len(Frame)
  PROVE  /\ ~IsFlag /\ ~IsReset /\ rxstart /\ bit_idx = tx_bit
         /\ IsData <=> ~Stuffing
         /\ LastBit => IsData /\ bit_idx = 7 /\ Char = Frame[Done]
         /\ ~LastBit /\ IsData =>
              /\ tx_bit < 7
              /\ Char \div 2 =
                   (Frame[Done] % 2 ^ (tx_bit + 1)) * 2 ^ (7 - (tx_bit + 1))
<1>1. Clean /\ in_frame /\ ~flip /\ ~flipped
  BY CleanStep
<1>2. /\ Head(chars)[2] /\ Head(chars)[1] = Frame[Done]
      /\ Frame[Done] \in Byte
  BY <1>1, HeadFacts DEF Bit
<1>3. Done # 0
  BY <1>1, FrameFacts
<1>4. /\ EndsIn(demod_bits, stuff_cnt) /\ rxstart /\ bit_idx = tx_bit
      /\ currchar = (Frame[Done] % 2 ^ tx_bit) * 2 ^ (7 - tx_bit)
  BY <1>1, <1>2, <1>3 DEF BitsInv, Bit
<1>5. stuff_cnt \in 0 .. 6 /\ stuff_cnt <= 5 /\ tx_bit \in 0 .. 7
  BY <1>2 DEF StuffInv, TypeOK
<1>6. NewBit = TxBit /\ TxBit \in {0, 1} /\ (Stuffing => TxBit = 0)
  BY <1>1, LineStep, TxBitFacts DEF Bit
<1>7. Stuffing <=> stuff_cnt = 5
  BY <1>2, <1>5 DEF Stuffing
<1>8. /\ demod_bits' = 126 <=> TxBit = 0 /\ stuff_cnt = 6
      /\ demod_bits' % 128 = 127 <=> TxBit = 1 /\ stuff_cnt = 6
      /\ demod_bits' % 64 = 62 <=> TxBit = 0 /\ stuff_cnt = 5
  <2>1. demod_bits \in Byte /\ demod_bits' = Shifted(demod_bits, TxBit)
    BY <1>6, DemodFacts
  <2>2. /\ stuff_cnt \in 0 .. 6 /\ stuff_cnt <= 5 /\ TxBit \in {0, 1}
        /\ EndsIn(demod_bits, stuff_cnt)
    BY <1>4, <1>5, <1>6
  <2>3. QED
    BY <2>1, <2>2, OneMore
<1>9. ~IsFlag /\ ~IsReset /\ (IsStuffed <=> TxBit = 0 /\ stuff_cnt = 5)
  BY <1>5, <1>8, DemodFacts
<1>10. IsData <=> ~Stuffing
  BY <1>4, <1>6, <1>7, <1>9 DEF IsData
<1>11. ASSUME ~Stuffing
       PROVE  Char = (Frame[Done] % 2 ^ tx_bit) * 2 ^ (7 - tx_bit)
                       + 128 * ((Frame[Done] \div 2 ^ tx_bit) % 2)
  <2>1. NewBit = (Frame[Done] \div 2 ^ tx_bit) % 2
    BY <1>2, <1>6, <1>11, TxBitFacts DEF Bit
  <2>2. Char = currchar + 128 * NewBit
    BY DemodFacts
  <2>3. QED
    BY <1>4, <2>1, <2>2, Zenon
<1>12. ASSUME LastBit PROVE IsData /\ bit_idx = 7 /\ Char = Frame[Done]
  <2>1. ~Stuffing /\ tx_bit = 7
    BY <1>12 DEF LastBit
  <2>2. Char = Frame[Done]
    BY <1>2, <1>5, <1>11, <2>1, CharGrows
  <2>3. QED
    BY <1>4, <1>10, <2>1, <2>2
<1>13. ASSUME ~LastBit, IsData
       PROVE  /\ tx_bit < 7
              /\ Char \div 2 =
                   (Frame[Done] % 2 ^ (tx_bit + 1)) * 2 ^ (7 - (tx_bit + 1))
  <2>1. ~Stuffing /\ tx_bit < 7
    BY <1>5, <1>10, <1>13 DEF LastBit
  <2>2. QED
    BY <1>2, <1>5, <1>11, <2>1, CharGrows, Zenon
<1>14. QED
  BY <1>4, <1>9, <1>10, <1>12, <1>13, Zenon

\* Its closing flag is found by its last bit, and none before completes a
\* character.
LEMMA CleanClosing ==
  ASSUME TypeOK, SenderInv, StuffInv, LineInv, BitsInv,
         NEW flip \in BOOLEAN, Bit(flip), Clean', Done = Len(Frame) + 1
  PROVE  /\ LastBit => IsFlag
         /\ ~LastBit => /\ ~IsFlag /\ bit_idx <= tx_bit /\ tx_bit < 7
                        /\ tx_bit' = tx_bit + 1
<1>1. Clean /\ in_frame /\ ~flip /\ ~flipped
  BY CleanStep
<1>2. Done # 0 /\ ~Head(chars)[2]
  <2>1. ~(Done \in 1 .. Len(Frame)) /\ Done # 0
    BY <1>1, FrameFacts
  <2>2. QED
    BY <2>1, <1>1, HeadFacts DEF Bit
<1>3. EndsIn(demod_bits, stuff_cnt) /\ bit_idx <= tx_bit
  BY <1>1, <1>2 DEF BitsInv, Bit
<1>4. ~Stuffing /\ (LastBit <=> tx_bit = 7)
  BY <1>2 DEF LastBit, Stuffing
<1>5. /\ tx_bit \in 0 .. 7 /\ stuff_cnt \in 0 .. 6
      /\ IF tx_bit = 0 THEN stuff_cnt <= 5 ELSE stuff_cnt = tx_bit - 1
  BY <1>2 DEF StuffInv, TypeOK, Bit
<1>6. NewBit = TxBit /\ TxBit \in {0, 1} /\ (TxBit = 0 <=> tx_bit \in {0, 7})
  BY <1>1, <1>2, LineStep, TxBitFacts DEF Bit
<1>7. demod_bits' = 126 <=> TxBit = 0 /\ stuff_cnt = 6
  <2>1. demod_bits \in Byte /\ demod_bits' = Shifted(demod_bits, TxBit)
    BY <1>6, DemodFacts
  <2>2. /\ stuff_cnt \in 0 .. 6 /\ TxBit \in {0, 1}
        /\ EndsIn(demod_bits, stuff_cnt)
    BY <1>3, <1>5, <1>6
  <2>3. QED
    BY <2>1, <2>2, OneMore
<1>8. IsFlag <=> tx_bit = 7
  BY <1>5, <1>6, <1>7, DemodFacts
<1>9. tx_bit' = (tx_bit + 1) % 8
  BY <1>4, SendFacts DEF Bit
<1>10. tx_bit # 7 => tx_bit' = tx_bit + 1 /\ tx_bit < 7
  BY <1>5, <1>9
<1>11. QED
  BY <1>3, <1>4, <1>8, <1>10

-----------------------------------------------------------------------------
(* What ax25_poll makes of the characters in rx_fifo.                      *)

LEMMA CtxFields ==
  ASSUME NEW x \in AX25Ctx
  PROVE  x.sync \in BOOLEAN /\ x.escape \in BOOLEAN /\ x.buf \in Seq(Byte)
  BY DEF AX25Ctx

LEMMA AfterType ==
  ASSUME NEW x \in AX25Ctx, NEW c \in Byte
  PROVE  After(x, c) \in AX25Ctx
<1>1. x.sync \in BOOLEAN /\ x.escape \in BOOLEAN /\ x.buf \in Seq(Byte)
  BY CtxFields
<1>2. <<>> \in Seq(Byte) /\ Append(x.buf, c) \in Seq(Byte)
  BY <1>1
<1>3. \A s \in BOOLEAN, e \in BOOLEAN, b \in Seq(Byte) :
        [sync |-> s, escape |-> e, buf |-> b] \in AX25Ctx
  BY DEF AX25Ctx
<1>4. QED
  BY <1>1, <1>2, <1>3, Zenon DEF After

LEMMA AfterFlag ==
  ASSUME NEW x, ~x.escape, NEW y, y = After(x, HDLC_FLAG)
  PROVE  y.sync = TRUE /\ y.escape = FALSE /\ y.buf = <<>>
<1>1. y = [sync |-> TRUE, escape |-> FALSE, buf |-> <<>>]
  BY Zenon DEF After
<1>2. QED
  BY <1>1

LEMMA AfterEsc ==
  ASSUME NEW x, ~x.escape, NEW y, y = After(x, AX25_ESC)
  PROVE  y.sync = x.sync /\ y.escape = TRUE /\ y.buf = x.buf
<1>1. AX25_ESC # HDLC_FLAG
  BY DEF AX25_ESC, HDLC_FLAG
<1>2. y = [sync |-> x.sync, escape |-> TRUE, buf |-> x.buf]
  BY <1>1, Zenon DEF After
<1>3. QED
  BY <1>2

LEMMA AfterChar ==
  ASSUME NEW x, NEW c, x.escape \/ c \notin {HDLC_FLAG, AX25_ESC},
         NEW y, y = After(x, c)
  PROVE  /\ y.escape = FALSE
         /\ x.sync /\ Len(x.buf) < BufLen =>
              y.sync = TRUE /\ y.buf = Append(x.buf, c)
         /\ ~(x.sync /\ Len(x.buf) < BufLen) =>
              y.sync = FALSE /\ y.buf = x.buf
<1>1. CASE x.sync /\ Len(x.buf) < BufLen
  <2>1. y =
          [sync |-> TRUE, escape |-> FALSE, buf |-> Append(x.buf, c)]
    BY <1>1, Zenon DEF After
  <2>2. QED
    BY <1>1, <2>1
<1>2. CASE ~(x.sync /\ Len(x.buf) < BufLen)
  <2>1. y = [sync |-> FALSE, escape |-> FALSE, buf |-> x.buf]
    BY <1>2, Zenon DEF After
  <2>2. QED
    BY <1>2, <2>1
<1>3. QED
  BY <1>1, <1>2

\* An ESC is only before what it escapes.
LEMMA AfterEscaped ==
  ASSUME NEW x, NEW c, x.escape, NEW y, y = After(x, c)
  PROVE  y.escape = FALSE
  BY AfterChar, Zenon

\* A character goes in behind the others.
LEMMA PollsPush ==
  ASSUME NEW r \in Ctxs, NEW x, NEW z \in Seq(Byte), Polls(r, x, z),
         NEW c \in Byte, r[Len(z) + 1].escape \/ c # HDLC_RESET
  PROVE  \E R \in Ctxs : /\ Polls(R, x, Append(z, c))
                         /\ \A k \in 1 .. Len(z) + 1 : R[k] = r[k]
                         /\ R[Len(z) + 2] = After(r[Len(z) + 1], c)
<1>1. PICK L \in Nat : L = Len(z)
  BY ElementFacts
<1>2. PICK y \in AX25Ctx : y = After(r[L + 1], c)
  BY <1>1, AfterType DEF Ctxs
<1> DEFINE R == [k \in Nat \ {0} |-> IF k = L + 2 THEN y ELSE r[k]]
<1>3. R \in Ctxs
  BY <1>1, <1>2 DEF Ctxs
<1>4. (\A k \in 1 .. L + 1 : R[k] = r[k]) /\ R[L + 2] = y
  BY <1>1
<1> HIDE DEF R
<1>5. /\ Len(Append(z, c)) = L + 1 /\ Append(z, c)[L + 1] = c
      /\ \A k \in 1 .. L : Append(z, c)[k] = z[k]
  BY <1>1, AppendFacts
<1>6. R[1] = x
  <2>1. R[1] = r[1]
    BY <1>1, <1>4
  <2>2. QED
    BY <2>1 DEF Polls
<1>7. ASSUME NEW k \in 1 .. L + 1
      PROVE  /\ R[k + 1] = After(R[k], Append(z, c)[k])
             /\ R[k].escape \/ Append(z, c)[k] # HDLC_RESET
  <2>1. CASE k = L + 1
    <3>1. R[k] = r[L + 1] /\ R[k + 1] = y /\ Append(z, c)[k] = c
      BY <1>1, <1>4, <1>5, <2>1
    <3>2. QED
      BY <1>1, <1>2, <3>1, Zenon
  <2>2. CASE k # L + 1
    <3>1. k \in 1 .. L /\ k + 1 \in 1 .. L + 1 /\ k \in 1 .. L + 1
      BY <1>1, <2>2
    <3>2. R[k] = r[k] /\ R[k + 1] = r[k + 1] /\ Append(z, c)[k] = z[k]
      BY <1>4, <1>5, <3>1
    <3>3. /\ r[k + 1] = After(r[k], z[k])
          /\ r[k].escape \/ z[k] # HDLC_RESET
      BY <1>1, <3>1 DEF Polls
    <3>4. QED
      BY <3>2, <3>3, Zenon
  <2>3. QED
    BY <2>1, <2>2
<1>8. Polls(R, x, Append(z, c))
  BY <1>3, <1>5, <1>6, <1>7 DEF Polls, Ctxs
<1>9. QED
  BY <1>1, <1>2, <1>3, <1>4, <1>8

\* ax25_poll takes the first character.
LEMMA PollsPop ==
  ASSUME NEW r \in Ctxs, NEW x, NEW z \in Seq(Byte), Polls(r, x, z),
         z # <<>>
  PROVE  /\ r[2] = After(x, Head(z)) /\ (x.escape \/ Head(z) # HDLC_RESET)
         /\ \E R \in Ctxs : /\ Polls(R, r[2], Tail(z))
                            /\ \A k \in Nat \ {0} : R[k] = r[k + 1]
<1>1. PICK L \in Nat \ {0} : L = Len(z)
  BY TailFacts
<1>2. /\ Head(z) = z[1] /\ Len(Tail(z)) = L - 1
      /\ \A k \in 1 .. L - 1 : Tail(z)[k] = z[k + 1]
  BY <1>1, TailFacts
<1>3. \A k \in 1 .. L : /\ r[k + 1] = After(r[k], z[k])
                        /\ r[k].escape \/ z[k] # HDLC_RESET
  BY <1>1 DEF Polls
<1>4. r[2] = After(x, Head(z)) /\ (x.escape \/ Head(z) # HDLC_RESET)
  <2>1. 1 \in 1 .. L /\ 1 + 1 = 2
    BY <1>1
  <2>2. r[2] = After(r[1], z[1]) /\ (r[1].escape \/ z[1] # HDLC_RESET)
    BY <1>3, <2>1
  <2>3. QED
    BY <1>2, <2>2, Zenon DEF Polls
<1> DEFINE R == [k \in Nat \ {0} |-> r[k + 1]]
<1>5. R \in Ctxs /\ \A k \in Nat \ {0} : R[k] = r[k + 1]
  BY DEF Ctxs
<1> HIDE DEF R
<1>6. R[1] = r[2]
  <2>1. 1 \in Nat \ {0} /\ 1 + 1 = 2
    OBVIOUS
  <2>2. QED
    BY <1>5, <2>1
<1>7. ASSUME NEW k \in 1 .. L - 1
      PROVE  /\ R[k + 1] = After(R[k], Tail(z)[k])
             /\ R[k].escape \/ Tail(z)[k] # HDLC_RESET
  <2>1. k \in Nat \ {0} /\ k + 1 \in Nat \ {0} /\ k + 1 \in 1 .. L
    BY <1>1
  <2>2. R[k] = r[k + 1] /\ R[k + 1] = r[(k + 1) + 1] /\ Tail(z)[k] = z[k + 1]
    BY <1>2, <1>5, <2>1
  <2>3. /\ r[(k + 1) + 1] = After(r[k + 1], z[k + 1])
        /\ r[k + 1].escape \/ z[k + 1] # HDLC_RESET
    BY <1>3, <2>1
  <2>4. QED
    BY <2>2, <2>3, Zenon
<1>8. Polls(R, r[2], Tail(z))
  BY <1>2, <1>5, <1>6, <1>7 DEF Polls, Ctxs
<1>9. QED
  BY <1>4, <1>5, <1>8

\* What is behind the characters of rx_fifo.
Behind(r) == r[Len(rx_fifo) + 1]

\* R goes on from r behind the characters that are in rx_fifo already.
Extends(R, r) ==
  /\ R \in Ctxs
  /\ Len(rx_fifo) <= Len(rx_fifo')
  /\ \A q \in 1 .. Len(rx_fifo) : rx_fifo'[q] = rx_fifo[q]
  /\ \A q \in 1 .. Len(rx_fifo) + 1 : R[q] = r[q]

\* What hdlc_parse pushed, as ax25_poll will see it.
Pushes(R, r) ==
  LET x == Behind(r)
      y == Behind(R)'
  IN  /\ y.escape = cut'
      /\ PushedNothing => y = x
      /\ PushedFlag =>
           /\ Len(rx_fifo') = Len(rx_fifo) + 1
           /\ rx_fifo'[Len(rx_fifo) + 1] = HDLC_FLAG
           /\ ~cut => y.sync = TRUE /\ y.buf = <<>>
      /\ PushedPlain \/ PushedEscaped =>
           (x.sync /\ Len(x.buf) < BufLen =>
              y.sync = TRUE /\ y.buf = Append(x.buf, Char))

LEMMA PushOne ==
  ASSUME rx_fifo \in Seq(Byte), NEW x, NEW r \in Ctxs, Polls(r, x, rx_fifo),
         NEW c \in Byte, Behind(r).escape \/ c # HDLC_RESET,
         rx_fifo' = Append(rx_fifo, c)
  PROVE  \E R \in Ctxs :
           /\ Polls(R, x, rx_fifo') /\ Extends(R, r)
           /\ Behind(R)' = After(Behind(r), c)
           /\ Len(rx_fifo') = Len(rx_fifo) + 1
           /\ rx_fifo'[Len(rx_fifo) + 1] = c
<1>1. PICK L \in Nat : L = Len(rx_fifo)
  BY ElementFacts
<1>2. /\ Len(rx_fifo') = L + 1 /\ rx_fifo'[L + 1] = c
      /\ \A q \in 1 .. L : rx_fifo'[q] = rx_fifo[q]
  BY <1>1, AppendFacts
<1>3. PICK R \in Ctxs : /\ Polls(R, x, Append(rx_fifo, c))
                        /\ \A k \in 1 .. L + 1 : R[k] = r[k]
                        /\ R[L + 2] = After(r[L + 1], c)
  BY <1>1, PollsPush DEF Behind
<1>4. Behind(R)' = R[L + 2] /\ Behind(r) = r[L + 1]
  <2>1. Behind(R)' = R[Len(rx_fifo') + 1]
    BY DEF Behind
  <2>2. Len(rx_fifo') + 1 = L + 2
    BY <1>1, <1>2
  <2>3. QED
    BY <1>1, <2>1, <2>2 DEF Behind
<1>5. Extends(R, r)
  BY <1>1, <1>2, <1>3 DEF Extends
<1>6. Polls(R, x, rx_fifo')
  BY <1>3, Zenon
<1>7. QED
  BY <1>1, <1>2, <1>3, <1>4, <1>5, <1>6, Zenon

LEMMA PushStep ==
  ASSUME TypeOK, CutInv, NEW flip, Bit(flip),
         NEW x, NEW r \in Ctxs, Polls(r, x, rx_fifo), Behind(r).escape = cut
  PROVE  \E R \in Ctxs : Polls(R, x, rx_fifo') /\ Extends(R, r) /\ Pushes(R, r)
<1>1. /\ rx_fifo \in Seq(Byte) /\ Len(rx_fifo) \in Nat
      /\ cut \in BOOLEAN /\ cut' \in BOOLEAN
  BY ElementFacts, PushCases DEF TypeOK
<1>2. /\ HDLC_FLAG \in Byte /\ AX25_ESC \in Byte /\ Char \in Byte
      /\ HDLC_FLAG # HDLC_RESET /\ AX25_ESC # HDLC_RESET
      /\ Special = {HDLC_FLAG, HDLC_RESET, AX25_ESC}
  BY DemodFacts DEF HDLC_FLAG, HDLC_RESET, AX25_ESC, Byte, Special
<1>3. CASE PushedNothing
  <2>1. rx_fifo' = rx_fifo /\ cut' = cut
    BY <1>3 DEF PushedNothing
  <2>2. Behind(r)' = Behind(r)
    BY <2>1 DEF Behind
  <2>3. Extends(r, r)
    BY <1>1, <2>1 DEF Extends
  <2>4. ~PushedFlag /\ ~PushedPlain /\ ~PushedEscaped
    BY <1>3 DEF PushedNothing, PushedFlag, PushedPlain, PushedEscaped
  <2>5. Pushes(r, r)
    BY <2>1, <2>2, <2>4 DEF Pushes
  <2>6. QED
    BY <2>1, <2>3, <2>5
<1>4. CASE PushedFlag
  <2>1. rx_fifo' = Append(rx_fifo, HDLC_FLAG) /\ ~cut' /\ IsFlag /\ ~Overrun
    BY <1>4 DEF PushedFlag
  <2>2. PICK R \in Ctxs :
          /\ Polls(R, x, rx_fifo') /\ Extends(R, r)
          /\ Behind(R)' = After(Behind(r), HDLC_FLAG)
          /\ Len(rx_fifo') = Len(rx_fifo) + 1
          /\ rx_fifo'[Len(rx_fifo) + 1] = HDLC_FLAG
    BY <1>1, <1>2, <2>1, PushOne
  <2>3. Behind(R)'.escape = FALSE
    BY <2>2, AfterFlag, AfterEscaped, Zenon
  <2>4. ~cut => Behind(R)'.sync = TRUE /\ Behind(R)'.buf = <<>>
    BY <2>2, AfterFlag, Zenon
  <2>5. ~PushedNothing /\ ~PushedPlain /\ ~PushedEscaped
    BY <2>1 DEF PushedNothing, PushedPlain, PushedEscaped
  <2>6. cut' = FALSE
    BY <1>1, <2>1
  <2>7. Pushes(R, r)
    BY <2>2, <2>3, <2>4, <2>5, <2>6, Zenon DEF Pushes
  <2>8. QED
    BY <2>2, <2>7
<1>5. CASE PushedPlain
  <2>1. /\ rx_fifo' = Append(rx_fifo, Char) /\ cut' = FALSE /\ ~IsFlag
        /\ ~Overrun /\ Char \notin Special /\ cut = FALSE
        /\ IsData /\ bit_idx = 7
    BY <1>1, <1>5, Zenon DEF PushedPlain
  <2>2. Char \notin {HDLC_FLAG, AX25_ESC} /\ Char # HDLC_RESET
    BY <1>2, <2>1
  <2>3. PICK R \in Ctxs :
          /\ Polls(R, x, rx_fifo') /\ Extends(R, r)
          /\ Behind(R)' = After(Behind(r), Char)
    BY <1>1, <1>2, <2>1, <2>2, PushOne
  <2>4. Behind(R)'.escape = FALSE
    BY <2>2, <2>3, AfterChar, Zenon
  <2>5. Behind(r).sync /\ Len(Behind(r).buf) < BufLen =>
          Behind(R)'.sync = TRUE /\ Behind(R)'.buf = Append(Behind(r).buf, Char)
    BY <2>2, <2>3, AfterChar, Zenon
  <2>6. ~PushedNothing /\ ~PushedFlag
    BY <2>1 DEF PushedNothing, PushedFlag
  <2>7. Pushes(R, r)
    BY <2>1, <2>4, <2>5, <2>6, Zenon DEF Pushes
  <2>8. QED
    BY <2>3, <2>7
<1>6. CASE PushedEscaped
  <2>1. /\ rx_fifo' = Append(Append(rx_fifo, AX25_ESC), Char)
        /\ cut' = FALSE /\ ~IsFlag
        /\ ~Overrun /\ cut = FALSE
        /\ IsData /\ bit_idx = 7
    BY <1>1, <1>6, Zenon DEF PushedEscaped
  <2>2. PICK L \in Nat : L = Len(rx_fifo)
    BY <1>1
  <2>3. PICK z \in Seq(Byte) : z = Append(rx_fifo, AX25_ESC)
    BY <1>1, <1>2, AppendFacts
  <2>4. Len(z) = L + 1 /\ \A q \in 1 .. L : z[q] = rx_fifo[q]
    BY <1>1, <1>2, <2>2, <2>3, AppendFacts
  <2>5. PICK u \in Ctxs : /\ Polls(u, x, z)
                          /\ \A k \in 1 .. L + 1 : u[k] = r[k]
                          /\ u[L + 2] = After(r[L + 1], AX25_ESC)
    BY <1>1, <1>2, <2>2, <2>3, PollsPush
  <2>6. PICK v : v = u[L + 2]
    OBVIOUS
  <2>7. /\ v.sync = Behind(r).sync /\ v.escape = TRUE
        /\ v.buf = Behind(r).buf
    <3>1. ~Behind(r).escape
      BY <2>1
    <3>2. v = After(Behind(r), AX25_ESC)
      BY <2>2, <2>5, <2>6 DEF Behind
    <3>3. QED
      BY <3>1, <3>2, AfterEsc, Zenon
  <2>8. Len(z) + 1 = L + 2 /\ Len(z) + 2 = L + 3
    BY <2>4
  <2>9. rx_fifo' = Append(z, Char)
    BY <2>1, <2>3
  <2>10. PICK R \in Ctxs : /\ Polls(R, x, Append(z, Char))
                           /\ \A k \in 1 .. L + 2 : R[k] = u[k]
                           /\ R[L + 3] = After(v, Char)
    <3>1. u[Len(z) + 1] = v /\ v.escape
      BY <2>6, <2>7, <2>8
    <3>2. u[Len(z) + 1].escape \/ Char # HDLC_RESET
      BY <3>1, Zenon
    <3>3. u \in Ctxs /\ z \in Seq(Byte) /\ Polls(u, x, z) /\ Char \in Byte
      BY <1>2, <2>3, <2>5
    <3>4. \E R \in Ctxs : /\ Polls(R, x, Append(z, Char))
                          /\ \A k \in 1 .. Len(z) + 1 : R[k] = u[k]
                          /\ R[Len(z) + 2] = After(u[Len(z) + 1], Char)
      BY <3>2, <3>3, PollsPush
    <3>5. QED
      BY <2>8, <3>1, <3>4, Zenon
  <2>11. /\ Len(rx_fifo') = L + 2
         /\ \A q \in 1 .. L : rx_fifo'[q] = rx_fifo[q]
    <3>1. /\ Len(Append(z, Char)) = L + 2
          /\ \A q \in 1 .. L + 1 : Append(z, Char)[q] = z[q]
      BY <1>2, <2>3, <2>4, AppendFacts
    <3>2. QED
      BY <2>4, <2>9, <3>1
  <2>12. Extends(R, r)
    <3>1. \A q \in 1 .. L + 1 : R[q] = r[q]
      BY <2>5, <2>10
    <3>2. QED
      BY <2>2, <2>10, <2>11, <3>1 DEF Extends
  <2>13. Behind(R)' = After(v, Char)
    <3>1. Behind(R)' = R[Len(rx_fifo') + 1] /\ Len(rx_fifo') + 1 = L + 3
      BY <2>11 DEF Behind
    <3>2. QED
      BY <2>10, <3>1
  <2>14. Behind(R)'.escape = FALSE
    BY <2>7, <2>13, AfterChar, Zenon
  <2>15. Behind(r).sync /\ Len(Behind(r).buf) < BufLen =>
          Behind(R)'.sync = TRUE /\ Behind(R)'.buf = Append(Behind(r).buf, Char)
    <3>1. ASSUME Behind(r).sync, Len(Behind(r).buf) < BufLen
          PROVE  v.sync /\ Len(v.buf) < BufLen
      BY <2>7, <3>1, Zenon
    <3>2. v.sync /\ Len(v.buf) < BufLen =>
            Behind(R)'.sync = TRUE /\ Behind(R)'.buf = Append(v.buf, Char)
      BY <2>7, <2>13, AfterChar, Zenon
    <3>3. QED
      BY <2>7, <3>1, <3>2, Zenon
  <2>16. ~PushedNothing /\ ~PushedFlag
    BY <2>1 DEF PushedNothing, PushedFlag
  <2>17. Pushes(R, r)
    BY <2>1, <2>14, <2>15, <2>16, Zenon DEF Pushes
  <2>18. Polls(R, x, rx_fifo')
    BY <2>9, <2>10, Zenon
  <2>19. QED
    BY <2>10, <2>12, <2>17, <2>18
<1>7. CASE PushedHalf
  <2>1. /\ rx_fifo' = Append(rx_fifo, AX25_ESC) /\ cut' = TRUE /\ cut = FALSE
        /\ Overrun
    BY <1>1, <1>7, Zenon DEF PushedHalf
  <2>2. PICK R \in Ctxs :
          /\ Polls(R, x, rx_fifo') /\ Extends(R, r)
          /\ Behind(R)' = After(Behind(r), AX25_ESC)
    BY <1>1, <1>2, <2>1, PushOne
  <2>3. Behind(R)'.escape = TRUE
    BY <2>1, <2>2, AfterEsc, Zenon
  <2>4. ~PushedNothing /\ ~PushedFlag /\ ~PushedPlain /\ ~PushedEscaped
    BY <2>1 DEF PushedNothing, PushedFlag, PushedPlain, PushedEscaped
  <2>5. Pushes(R, r)
    BY <2>1, <2>3, <2>4, Zenon DEF Pushes
  <2>6. QED
    BY <2>2, <2>5
<1>8. QED
  BY <1>3, <1>4, <1>5, <1>6, <1>7, PushCases

-----------------------------------------------------------------------------
(* A bit, and what ax25_poll will get to see.                              *)

\* Of a frame that is not hurt, rx_fifo gets what was sent.
LEMMA CleanPush ==
  ASSUME TypeOK, SenderInv, StuffInv, LineInv, BitsInv, CutInv,
         NEW flip \in BOOLEAN, Bit(flip), Clean'
  PROVE  /\ Done = 0 /\ LastBit => PushedFlag /\ ~cut
         /\ Done \in 1 .. Len(Frame) /\ LastBit =>
              (PushedPlain \/ PushedEscaped) /\ Char = Frame[Done]
         /\ Done = Len(Frame) + 1 /\ LastBit => PushedFlag
         /\ Done \in 1 .. Len(Frame) + 1 /\ ~LastBit => PushedNothing
<1>1. /\ Clean /\ in_frame /\ ~Overrun /\ ~(cut /\ IsFlag)
  BY CleanStep
<1>2. \/ PushedNothing \/ PushedFlag \/ PushedPlain
      \/ PushedEscaped \/ PushedHalf
  BY PushCases
<1>3. ~PushedHalf
  BY <1>1 DEF PushedHalf
<1>4. IsFlag => PushedFlag
  BY <1>1, <1>2, <1>3 DEF PushedNothing, PushedPlain, PushedEscaped
<1>5. ~IsFlag => ~PushedFlag
  BY DEF PushedFlag
<1>6. IsData /\ bit_idx = 7 => ~PushedNothing
  BY <1>1 DEF PushedNothing
<1>7. ~(IsData /\ bit_idx = 7) => ~PushedPlain /\ ~PushedEscaped
  BY DEF PushedPlain, PushedEscaped
<1>8. Len(Frame) \in Nat /\ Done \in Nat
  BY <1>1, FrameFacts
<1>9. Done = 0 /\ LastBit => PushedFlag /\ ~cut
  BY <1>1, <1>4, CleanOpening
<1>10. ASSUME Done \in 1 .. Len(Frame), LastBit
       PROVE  (PushedPlain \/ PushedEscaped) /\ Char = Frame[Done]
  <2>1. ~IsFlag /\ IsData /\ bit_idx = 7 /\ Char = Frame[Done]
    BY <1>10, CleanData
  <2>2. QED
    BY <1>2, <1>3, <1>5, <1>6, <2>1, Zenon
<1>11. ASSUME Done = Len(Frame) + 1, LastBit PROVE PushedFlag
  BY <1>4, <1>11, CleanClosing
<1>12. ASSUME Done \in 1 .. Len(Frame), ~LastBit PROVE PushedNothing
  <2>1. ~IsFlag
    BY <1>12, CleanData
  <2>2. IsData => tx_bit < 7 /\ bit_idx = tx_bit
    BY <1>12, CleanData
  <2>3. ~(IsData /\ bit_idx = 7)
    <3>1. tx_bit \in 0 .. 7
      BY DEF TypeOK
    <3>2. QED
      BY <2>2, <3>1
  <2>4. QED
    BY <1>2, <1>3, <1>5, <1>7, <2>1, <2>3, Zenon
<1>13. ASSUME Done = Len(Frame) + 1, ~LastBit PROVE PushedNothing
  <2>1. ~IsFlag /\ bit_idx <= tx_bit /\ tx_bit < 7
    BY <1>13, CleanClosing
  <2>2. bit_idx # 7
    <3>1. tx_bit \in 0 .. 7 /\ bit_idx \in 0 .. 7
      BY DEF TypeOK
    <3>2. QED
      BY <2>1, <3>1
  <2>3. QED
    BY <1>2, <1>3, <1>5, <1>7, <2>1, <2>2, Zenon
<1>14. Done \in 1 .. Len(Frame) + 1 =>
         Done \in 1 .. Len(Frame) \/ Done = Len(Frame) + 1
  BY <1>8
<1>15. QED
  BY <1>9, <1>10, <1>11, <1>12, <1>13, <1>14, Zenon

\* What is behind the characters keeps EndInv.
LEMMA EndStep ==
  ASSUME TypeOK, SenderInv, StuffInv, LineInv, BitsInv, CutInv,
         NEW flip \in BOOLEAN, Bit(flip),
         NEW r \in Ctxs, NEW R \in Ctxs, Pushes(R, r),
         NEW x \in AX25Ctx, x = Behind(r), EndInv(x),
         NEW y \in AX25Ctx, y = Behind(R)'
  PROVE  /\ y.escape = cut'
         /\ Clean' /\ Done' # 0 /\ chars' # <<>> /\ Len(Frame) <= BufLen =>
              /\ y.sync
              /\ Len(y.buf) = Done' - 1
              /\ \A i \in 1 .. Done' - 1 : y.buf[i] = Frame[i]
<1>1. y.escape = cut'
  BY DEF Pushes
<1>2. /\ PushedNothing => y = x
      /\ PushedFlag => (~cut => y.sync = TRUE /\ y.buf = <<>>)
      /\ PushedPlain \/ PushedEscaped =>
           (x.sync /\ Len(x.buf) < BufLen =>
              y.sync = TRUE /\ y.buf = Append(x.buf, Char))
  BY Zenon DEF Pushes
<1>3. ASSUME Clean', Done' # 0, chars' # <<>>, Len(Frame) <= BufLen
      PROVE  /\ y.sync
             /\ Len(y.buf) = Done' - 1
             /\ \A i \in 1 .. Done' - 1 : y.buf[i] = Frame[i]
  <2>1. Clean /\ in_frame /\ chars # <<>>
    BY <1>3, CleanStep DEF Bit
  <2>2. Send
    BY DEF Bit
  <2>3. Done' = IF LastBit THEN Done + 1 ELSE Done
    BY <2>1, <2>2, SendChars
  <2>4. PICK N \in Nat : N = Len(Frame)
    BY <2>1, FrameFacts
  <2>5. PICK D \in Nat : D = Done
    BY <2>1, FrameFacts
  <2>6. Frame \in Seq(Byte) /\ D \in 0 .. N + 1
    BY <2>1, <2>4, <2>5, FrameFacts, HeadFacts
  <2>7. D # 0 => /\ x.sync /\ Len(x.buf) = D - 1
                 /\ \A i \in 1 .. D - 1 : x.buf[i] = Frame[i]
    BY <1>3, <2>1, <2>5, Zenon DEF EndInv
  <2>8. CASE D = 0
    <3>1. LastBit /\ Done' = 1
      BY <1>3, <2>3, <2>5, <2>8
    <3>2. PushedFlag /\ ~cut
      BY <1>3, <2>5, <2>8, <3>1, CleanPush
    <3>3. y.sync = TRUE /\ y.buf = <<>>
      BY <1>2, <3>2, Zenon
    <3>4. Len(y.buf) = 0
      BY <3>3
    <3>5. QED
      BY <3>1, <3>3, <3>4
  <2>9. CASE D \in 1 .. N /\ LastBit
    <3>1. (PushedPlain \/ PushedEscaped) /\ Char = Frame[D]
      BY <1>3, <2>4, <2>5, <2>9, CleanPush
    <3>2. x.sync /\ Len(x.buf) = D - 1 /\ Len(x.buf) < BufLen
      <4>1. D - 1 < BufLen /\ D # 0
        BY <1>3, <2>4, <2>9, LenAssumption
      <4>2. x.sync /\ Len(x.buf) = D - 1
        BY <2>7, <4>1
      <4>3. QED
        BY <4>1, <4>2
    <3>3. y.sync = TRUE /\ y.buf = Append(x.buf, Frame[D])
      BY <1>2, <3>1, <3>2, Zenon
    <3>4. x.buf \in Seq(Byte) /\ Frame[D] \in Byte
      BY <2>4, <2>6, <2>9, ElementFacts, CtxFields
    <3>5. /\ Len(y.buf) = Len(x.buf) + 1
          /\ \A i \in 1 .. Len(x.buf) : y.buf[i] = x.buf[i]
          /\ y.buf[Len(x.buf) + 1] = Frame[D]
      BY <3>3, <3>4, AppendFacts
    <3>6. Len(y.buf) = D /\ y.buf[D] = Frame[D]
      BY <2>9, <3>2, <3>5
    <3>7. \A i \in 1 .. D - 1 : y.buf[i] = Frame[i]
      <4>1. \A i \in 1 .. D - 1 : x.buf[i] = Frame[i]
        BY <2>7, <2>9
      <4>2. QED
        BY <3>2, <3>5, <4>1
    <3>8. \A i \in 1 .. D : y.buf[i] = Frame[i]
      <4>1. \A i \in 1 .. D : i \in 1 .. D - 1 \/ i = D
        OBVIOUS
      <4>2. QED
        BY <3>6, <3>7, <4>1, Zenon
    <3>9. Done' - 1 = D
      BY <2>3, <2>5, <2>9
    <3>10. QED
      BY <3>3, <3>6, <3>8, <3>9
  <2>10. CASE D \in 1 .. N + 1 /\ ~LastBit
    <3>1. PushedNothing
      BY <1>3, <2>4, <2>5, <2>10, CleanPush
    <3>2. y = x /\ D # 0
      BY <1>2, <2>10, <3>1
    <3>3. Done' = D
      BY <2>3, <2>5, <2>10
    <3>4. QED
      BY <2>7, <3>2, <3>3
  <2>11. CASE D = N + 1 /\ LastBit
    <3>1. Len(chars') = Len(chars) - 1 /\ Len(chars) = N + 2 - D
      BY <2>1, <2>2, <2>4, <2>5, <2>11, SendChars, FrameFacts
    <3>2. Len(chars') = 0
      BY <2>11, <3>1
    <3>3. chars' \in Seq(Chars)
      BY <2>1, <2>2, SendCounts
    <3>4. chars' = <<>>
      BY <3>2, <3>3, ElementFacts
    <3>5. QED
      BY <1>3, <3>4
  <2>12. QED
    BY <2>6, <2>8, <2>9, <2>10, <2>11
<1>4. QED
  BY <1>1, <1>3

\* What the flag that ends a frame gives the hook is the frame.
LEMMA FrameWaits ==
  ASSUME TypeOK, SenderInv, StuffInv, LineInv, BitsInv, CutInv,
         NEW flip \in BOOLEAN, Bit(flip), Clean', chars' = <<>>,
         Len(Frame) <= BufLen,
         NEW r \in Ctxs, NEW R \in Ctxs, Extends(R, r), Pushes(R, r),
         EndInv(Behind(r))
  PROVE  Waits(R, Len(sent))'
<1>1. Clean /\ in_frame /\ chars # <<>> /\ Send
  BY CleanStep DEF Bit
<1>2. PICK N \in Nat : N = Len(Frame)
  BY <1>1, FrameFacts
<1>3. PICK D \in Nat : D = Done
  BY <1>1, FrameFacts
<1>4. PICK L \in Nat : L = Len(rx_fifo)
  BY ElementFacts DEF TypeOK
<1>5. PICK x \in AX25Ctx : x = r[L + 1]
  BY DEF Ctxs
<1>6. LastBit /\ D = N + 1
  <2>1. Len(chars) = N + 2 - D /\ Len(chars) \in Nat \ {0}
    BY <1>1, <1>2, <1>3, FrameFacts, SendChars
  <2>2. LastBit
    BY <1>1, SendChars
  <2>3. Len(chars') = Len(chars) - 1 /\ Len(chars') = 0
    BY <1>1, <2>2, SendChars
  <2>4. QED
    BY <2>1, <2>2, <2>3
<1>7. PushedFlag
  BY <1>2, <1>3, <1>6, CleanPush
<1>8. Len(rx_fifo') = L + 1 /\ rx_fifo'[L + 1] = HDLC_FLAG
  BY <1>4, <1>7 DEF Pushes
<1>9. R[L + 1] = x
  BY <1>4, <1>5 DEF Extends
<1>10. /\ x.escape = cut /\ ~cut
       /\ Len(x.buf) = N /\ \A i \in 1 .. N : x.buf[i] = Frame[i]
  <2>1. D # 0 /\ D - 1 = N
    BY <1>6
  <2>2. x = Behind(r)
    BY <1>4, <1>5 DEF Behind
  <2>3. /\ x.escape = cut
        /\ Len(x.buf) = D - 1
        /\ \A i \in 1 .. D - 1 : x.buf[i] = Frame[i]
    BY <1>1, <1>3, <2>1, <2>2, Zenon DEF EndInv
  <2>4. ~cut
    BY <1>1, <1>3, <2>1 DEF BitsInv
  <2>5. QED
    BY <2>1, <2>3, <2>4
<1>11. x.buf = Frame
  <2>1. x.buf \in Seq(Byte) /\ Frame \in Seq(Byte)
    BY <1>1, CtxFields, FrameFacts
  <2>2. QED
    BY <1>2, <1>10, <2>1, SameSequence
<1>12. sent' = sent /\ Frame = sent[Len(sent)]
  BY DEF Bit, Send, Frame
<1>13. L + 1 \in 1 .. Len(rx_fifo')
  BY <1>8
<1>14. ~R[L + 1].escape /\ R[L + 1].buf = sent'[Len(sent')]
  BY <1>9, <1>10, <1>11, <1>12, Zenon
<1>15. QED
  BY <1>8, <1>13, <1>14 DEF Waits

\* No frame is lost by a bit.
LEMMA AccountedStep ==
  ASSUME TypeOK, SenderInv, StuffInv, LineInv, BitsInv, CutInv,
         NEW flip \in BOOLEAN, Bit(flip),
         NEW r \in Ctxs, NEW R \in Ctxs, Extends(R, r), Pushes(R, r),
         EndInv(Behind(r)), NEW k \in 1 .. Len(sent), Accounted(r, k)
  PROVE  Accounted(R, k)'
<1>1. sent' = sent /\ in_frame' = in_frame /\ got' = got
  BY DEF Bit, Send, ax25
<1>2. hurt \subseteq hurt'
  BY DEF Bit
<1>3. CASE \E i \in 1 .. Len(got) : got[i] = sent[k]
  BY <1>1, <1>3 DEF Accounted
<1>4. CASE k \in hurt
  BY <1>2, <1>4 DEF Accounted
<1>5. CASE Len(sent[k]) > BufLen
  BY <1>1, <1>5 DEF Accounted
<1>6. CASE k = Len(sent) /\ in_frame /\ chars # <<>>
  <2>1. CASE chars' # <<>>
    BY <1>1, <1>6, <2>1 DEF Accounted
  <2>2. CASE k \in hurt'
    BY <2>2 DEF Accounted
  <2>3. CASE chars' = <<>> /\ k \notin hurt' /\ Len(sent[k]) <= BufLen
    <3>1. Clean' /\ Len(Frame) <= BufLen
      BY <1>1, <1>6, <2>3 DEF Clean, Frame
    <3>2. Waits(R, Len(sent))'
      BY <2>3, <3>1, FrameWaits
    <3>3. Waits(R, k)'
      BY <1>1, <1>6, <3>2 DEF Waits
    <3>4. QED
      BY <3>3 DEF Accounted
  <2>4. CASE ~(Len(sent[k]) <= BufLen)
    <3>1. Len(sent[k]) \in Nat /\ BufLen \in Nat
      <4>1. sent[k] \in Frames
        BY ElementFacts DEF TypeOK
      <4>2. QED
        BY <4>1, FrameAssumption, LenAssumption, ElementFacts
    <3>2. Len(sent[k]) > BufLen
      BY <2>4, <3>1
    <3>3. QED
      BY <1>1, <3>2 DEF Accounted
  <2>5. QED
    BY <2>1, <2>2, <2>3, <2>4
<1>7. CASE Waits(r, k)
  <2>1. PICK q \in 1 .. Len(rx_fifo) :
          rx_fifo[q] = HDLC_FLAG /\ ~r[q].escape /\ r[q].buf = sent[k]
    BY <1>7 DEF Waits
  <2>2. q \in 1 .. Len(rx_fifo') /\ q \in 1 .. Len(rx_fifo) + 1
    <3>1. Len(rx_fifo) \in Nat /\ Len(rx_fifo') \in Nat
      BY ElementFacts, PushCases DEF TypeOK
    <3>2. Len(rx_fifo) <= Len(rx_fifo')
      BY DEF Extends
    <3>3. QED
      BY <3>1, <3>2
  <2>3. rx_fifo'[q] = rx_fifo[q] /\ R[q] = r[q]
    BY <2>2 DEF Extends
  <2>4. rx_fifo'[q] = HDLC_FLAG /\ ~R[q].escape /\ R[q].buf = sent'[k]
    BY <1>1, <2>1, <2>3, Zenon
  <2>5. Waits(R, k)'
    BY <2>2, <2>4 DEF Waits
  <2>6. QED
    BY <2>5 DEF Accounted
<1>8. QED
  BY <1>3, <1>4, <1>5, <1>6, <1>7 DEF Accounted

\* A witness of FifoInv behind a step.
LEMMA FifoNext ==
  ASSUME NEW R \in Ctxs, Polls(R, Ctx', rx_fifo'),
         NEW y, y = R[Len(rx_fifo') + 1],
         y.escape = cut',
         Clean' /\ Done' # 0 /\ chars' # <<>> /\ Len(Frame') <= BufLen =>
           /\ y.sync
           /\ Len(y.buf) = Done' - 1
           /\ \A i \in 1 .. Done' - 1 : y.buf[i] = Frame'[i],
         \A k \in 1 .. Len(sent') : Accounted(R, k)'
  PROVE  FifoInv'
<1>1. EndInv(y)'
  BY DEF EndInv
<1>2. EndInv(R[Len(rx_fifo) + 1])'
  BY <1>1
<1>3. Polls(R, Ctx, rx_fifo)'
  OBVIOUS
<1>4. QED
  BY <1>2, <1>3 DEF FifoInv

LEMMA BitFifo ==
  ASSUME TypeOK, SenderInv, StuffInv, LineInv, BitsInv, CutInv, FifoInv,
         NEW flip \in BOOLEAN, Bit(flip)
  PROVE  FifoInv'
<1>1. PICK r \in Ctxs : /\ Polls(r, Ctx, rx_fifo)
                        /\ EndInv(r[Len(rx_fifo) + 1])
                        /\ \A k \in 1 .. Len(sent) : Accounted(r, k)
  BY DEF FifoInv
<1>2. EndInv(Behind(r))
  BY <1>1 DEF Behind
<1>3. Behind(r).escape = cut
  BY <1>2 DEF EndInv
<1>4. PICK R \in Ctxs : /\ Polls(R, Ctx, rx_fifo')
                        /\ Extends(R, r) /\ Pushes(R, r)
  BY <1>1, <1>3, PushStep
<1>5. /\ Len(rx_fifo) + 1 \in Nat \ {0}
      /\ Len(rx_fifo') + 1 \in Nat \ {0}
  BY PushCases, ElementFacts DEF TypeOK
<1>6. PICK x \in AX25Ctx : x = Behind(r)
  BY <1>5 DEF Ctxs, Behind
<1>7. PICK y \in AX25Ctx : y = R[Len(rx_fifo') + 1]
  BY <1>5 DEF Ctxs
<1>8. y = Behind(R)'
  BY <1>7 DEF Behind
<1>9. EndInv(x)
  BY <1>2, <1>6
<1>10. /\ y.escape = cut'
       /\ Clean' /\ Done' # 0 /\ chars' # <<>> /\ Len(Frame) <= BufLen =>
            /\ y.sync
            /\ Len(y.buf) = Done' - 1
            /\ \A i \in 1 .. Done' - 1 : y.buf[i] = Frame[i]
  BY <1>4, <1>6, <1>8, <1>9, EndStep
<1>11. sent' = sent /\ Frame' = Frame
  BY DEF Bit, Send, Frame
<1>12. Ctx' = Ctx
  BY DEF Bit, ax25, Ctx
<1>13. \A k \in 1 .. Len(sent') : Accounted(R, k)'
  BY <1>1, <1>2, <1>4, <1>11, AccountedStep
<1>14. QED
  BY <1>4, <1>7, <1>10, <1>11, <1>12, <1>13, FifoNext

\* ax25_poll has a case for the character in front of it.
LEMMA NextHead ==
  ASSUME rx_fifo' \in Seq(Byte), FifoInv'
  PROVE  rx_fifo' # <<>> /\ ~escape' => Head(rx_fifo') # HDLC_RESET
<1>1. PICK r \in Ctxs : Polls(r, Ctx', rx_fifo')
  BY DEF FifoInv
<1>2. ASSUME rx_fifo' # <<>>, ~escape' PROVE Head(rx_fifo') # HDLC_RESET
  <2>1. 1 \in 1 .. Len(rx_fifo') /\ Head(rx_fifo') = rx_fifo'[1]
    BY <1>2, TailFacts
  <2>2. r[1].escape \/ rx_fifo'[1] # HDLC_RESET
    BY <1>1, <2>1 DEF Polls
  <2>3. r[1] = Ctx'
    BY <1>1 DEF Polls
  <2>4. Ctx'.escape = escape'
    BY DEF Ctx
  <2>5. QED
    BY <1>2, <2>1, <2>2, <2>3, <2>4, Zenon
<1>3. QED
  BY <1>2

LEMMA BitType ==
  ASSUME TypeOK, SenderInv, StuffInv, LineInv, CutInv, FifoInv',
         NEW flip \in BOOLEAN, Bit(flip)
  PROVE  TypeOK'
<1>1. /\ sent' = sent /\ in_frame' = in_frame /\ polling' = polling
      /\ sync' = sync /\ escape' = escape /\ buf' = buf /\ got' = got
  BY DEF Bit, Send, ax25
<1>2. /\ sent' \in Seq(Frames) /\ Len(sent') <= MaxFrames
      /\ in_frame' \in BOOLEAN /\ polling' \in BOOLEAN
      /\ sync' \in BOOLEAN /\ escape' \in BOOLEAN
      /\ buf' \in Seq(Byte) /\ Len(buf') <= BufLen
      /\ got' \in Seq(Frames)
  BY <1>1 DEF TypeOK
<1>3. /\ chars' \in Seq(Byte \X BOOLEAN) /\ tx_bit' \in 0 .. 7
      /\ stuff_cnt' \in 0 .. 6 /\ tone' \in {0, 1}
  BY SendCounts DEF Bit, Chars
<1>4. found' \in {0, 1} /\ flipped' \in BOOLEAN
  BY LineStep DEF Bit
<1>5. errors' \in 0 .. MaxErrors
  <2>1. errors \in 0 .. MaxErrors /\ MaxErrors \in Nat
    BY LenAssumption DEF TypeOK
  <2>2. /\ flip => errors < MaxErrors
        /\ errors' = IF flip THEN errors + 1 ELSE errors
    BY DEF Bit
  <2>3. QED
    BY <2>1, <2>2
<1>6. demod_bits' \in Byte
  BY DemodFacts
<1>7. rxstart' \in BOOLEAN /\ bit_idx' \in 0 .. 7 /\ currchar' \in 0 .. 127
  BY ParseFacts
<1>8. /\ rx_fifo' \in Seq(Byte) /\ Len(rx_fifo') <= RxRoom
      /\ cut' \in BOOLEAN
  BY PushCases
<1>9. hurt' \subseteq 1 .. MaxFrames
  <2>1. in_frame => Len(sent) \in 1 .. MaxFrames
    BY FrameFacts
  <2>2. hurt' = hurt \/ (in_frame /\ hurt' = hurt \union {Len(sent)})
    BY DEF Bit
  <2>3. hurt \subseteq 1 .. MaxFrames
    BY DEF TypeOK
  <2>4. QED
    BY <2>1, <2>2, <2>3, Zenon
<1>10. rx_fifo' # <<>> /\ ~escape' => Head(rx_fifo') # HDLC_RESET
  BY <1>8, NextHead
<1>11. QED
  BY <1>2, <1>3, <1>4, <1>5, <1>6, <1>7, <1>8, <1>9, <1>10, Zenon DEF TypeOK

\* The character that is sent next.
LEMMA NextChar ==
  ASSUME TypeOK, SenderInv, StuffInv, chars # <<>>, Send, in_frame,
         chars' # <<>>
  PROVE  /\ Done' \in Nat
         /\ Head(chars')[2] <=> Done' \in 1 .. Len(Frame)
         /\ Done' \in 1 .. Len(Frame) => Head(chars')[1] = Frame[Done']
<1>1. SenderInv' /\ in_frame' /\ Frame' = Frame
  BY SenderStep, SendFacts, SendChars
<1>2. PICK N \in Nat : N = Len(Frame)
  BY FrameFacts
<1>3. PICK d \in Nat : d = Done'
  <2>1. Done \in Nat /\ Done' = IF LastBit THEN Done + 1 ELSE Done
    BY FrameFacts, SendChars
  <2>2. QED
    BY <2>1
<1>4. chars' \in Seq(Chars)
  BY SendCounts
<1>5. 1 \in 1 .. Len(chars') /\ Head(chars') = chars'[1]
  BY <1>4, TailFacts
<1>6. Head(chars') = CharOf(Frame, d + 1)
  <2>1. \A k \in 1 .. Len(chars') : chars'[k] = CharOf(Frame', Done' + k)
    BY <1>1 DEF SenderInv
  <2>2. QED
    BY <1>1, <1>3, <1>5, <2>1
<1>7. CASE d \in 1 .. N
  <2>1. d + 1 \in 2 .. N + 1 /\ (d + 1) - 1 = d
    BY <1>7
  <2>2. Head(chars') = <<Frame[d], TRUE>>
    BY <1>2, <1>6, <2>1 DEF CharOf
  <2>3. Head(chars')[1] = Frame[d] /\ Head(chars')[2] = TRUE
    BY <2>2, PairFacts, Zenon
  <2>4. QED
    BY <1>2, <1>3, <1>7, <2>3
<1>8. CASE ~(d \in 1 .. N)
  <2>1. ~(d + 1 \in 2 .. N + 1)
    BY <1>8
  <2>2. Head(chars') = <<126, FALSE>>
    BY <1>2, <1>6, <2>1 DEF CharOf, Flag, HDLC_FLAG
  <2>3. Head(chars')[2] = FALSE
    <3>1. \A p \in Chars : p = <<126, FALSE>> => p[2] = FALSE
      BY DEF Chars
    <3>2. Head(chars') \in Chars
      BY <1>4, TailFacts
    <3>3. QED
      BY <2>2, <3>1, <3>2, Zenon
  <2>4. QED
    BY <1>2, <1>3, <1>8, <2>3
<1>9. QED
  BY <1>7, <1>8

\* What hdlc_parse counts and collects.
LEMMA ParseStep ==
  ASSUME TypeOK, NEW flip, Bit(flip), ~Overrun
  PROVE  /\ IsFlag => rxstart' /\ bit_idx' = 0 /\ currchar' = 0
         /\ ~IsFlag /\ ~IsReset => rxstart' = rxstart
         /\ ~IsFlag /\ ~IsData => bit_idx' = bit_idx /\ currchar' = currchar
         /\ IsData /\ bit_idx = 7 => bit_idx' = 0 /\ currchar' = 0
         /\ IsData /\ bit_idx # 7 => /\ bit_idx' = bit_idx + 1
                                     /\ currchar' = Char \div 2
<1>1. /\ rxstart' = IF Overrun \/ (IsReset /\ ~IsFlag) THEN FALSE
                    ELSE rxstart \/ IsFlag
      /\ bit_idx' = IF IsFlag THEN 0
                    ELSE IF IsData THEN (bit_idx + 1) % 8 ELSE bit_idx
      /\ currchar' = IF IsFlag THEN 0
                     ELSE IF ~IsData THEN currchar
                     ELSE IF bit_idx = 7 THEN 0 ELSE Char \div 2
  BY DEF Bit, Parse
<1>2. bit_idx \in 0 .. 7 /\ rxstart \in BOOLEAN
  BY DEF TypeOK
<1>3. IsData => ~IsFlag
  BY DEF IsData
<1>4. IsFlag => rxstart' /\ bit_idx' = 0 /\ currchar' = 0
  BY <1>1
<1>5. ~IsFlag /\ ~IsReset => rxstart' = rxstart
  BY <1>1, <1>2
<1>6. ~IsFlag /\ ~IsData => bit_idx' = bit_idx /\ currchar' = currchar
  BY <1>1
<1>7. IsData /\ bit_idx = 7 => bit_idx' = 0 /\ currchar' = 0
  BY <1>1, <1>3
<1>8. IsData /\ bit_idx # 7 => bit_idx' = bit_idx + 1
  BY <1>1, <1>2, <1>3
<1>9. IsData /\ bit_idx # 7 => currchar' = Char \div 2
  BY <1>1, <1>3
<1>10. QED
  BY <1>4, <1>5, <1>6, <1>7, <1>8, <1>9, Zenon

\* The receiver stays with the sender.
LEMMA BitsStep ==
  ASSUME TypeOK, SenderInv, StuffInv, LineInv, BitsInv, CutInv,
         NEW flip \in BOOLEAN, Bit(flip)
  PROVE  BitsInv'
<1>1. SUFFICES ASSUME Clean'
               PROVE  /\ ~flipped' /\ EndsIn(demod_bits', stuff_cnt')
                      /\ Done' # 0 => ~cut'
                      /\ Done' # 0 /\ chars' # <<>> =>
                           IF Head(chars')[2]
                             THEN /\ rxstart'
                                  /\ bit_idx' = tx_bit'
                                  /\ currchar' = (Head(chars')[1] % 2 ^ tx_bit')
                                                   * 2 ^ (7 - tx_bit')
                             ELSE bit_idx' <= tx_bit'
  BY DEF BitsInv
<1>2. /\ Clean /\ in_frame /\ ~flip /\ ~Overrun /\ chars # <<>> /\ Send
      /\ ~(cut /\ IsFlag)
  BY <1>1, CleanStep DEF Bit
<1>3. ~flipped'
  BY <1>2 DEF Bit
<1>4. EndsIn(demod_bits', stuff_cnt')
  BY <1>1, CleanOnes
<1>5. PICK N \in Nat : N = Len(Frame)
  BY <1>2, FrameFacts
<1>6. PICK D \in Nat : D = Done
  BY <1>2, FrameFacts
<1>7. D \in 0 .. N + 1 /\ N >= 1
  BY <1>2, <1>5, <1>6, HeadFacts, FrameFacts
<1>8. Done' = IF LastBit THEN D + 1 ELSE D
  BY <1>2, <1>6, SendChars
<1>9. Done' # 0 => ~cut'
  <2>1. cut' = (cut /\ ~IsFlag)
    BY <1>2 DEF Bit
  <2>2. D # 0 => ~cut
    BY <1>2, <1>6 DEF BitsInv
  <2>3. D = 0 /\ LastBit => ~cut
    BY <1>1, <1>6, CleanPush
  <2>4. QED
    BY <1>8, <2>1, <2>2, <2>3
<1>10. ASSUME Done' # 0, chars' # <<>>
       PROVE  IF Head(chars')[2]
                THEN /\ rxstart'
                     /\ bit_idx' = tx_bit'
                     /\ currchar' = (Head(chars')[1] % 2 ^ tx_bit')
                                      * 2 ^ (7 - tx_bit')
                ELSE bit_idx' <= tx_bit'
  <2>1. /\ Head(chars')[2] <=> Done' \in 1 .. N
        /\ Done' \in 1 .. N => Head(chars')[1] = Frame[Done']
    BY <1>2, <1>5, <1>10, NextChar
  <2>2. /\ LastBit => tx_bit' = 0
        /\ tx_bit' = IF Stuffing THEN tx_bit ELSE (tx_bit + 1) % 8
    BY <1>2, SendCounts, SendFacts
  <2>3. tx_bit \in 0 .. 7
    BY DEF TypeOK
  <2>4. ASSUME Done' \in 1 .. N PROVE Frame[Done'] \in Byte
    <3>1. Frame \in Seq(Byte)
      BY <1>2, FrameFacts
    <3>2. QED
      BY <1>5, <2>4, <3>1, ElementFacts
  <2>5. CASE LastBit
    <3>1. D # N + 1
      <4>1. ASSUME D = N + 1 PROVE FALSE
        <5>1. Len(chars') = Len(chars) - 1 /\ Len(chars) = N + 2 - D
          BY <1>2, <1>5, <1>6, <2>5, SendChars, FrameFacts
        <5>2. Len(chars') = 0
          BY <4>1, <5>1
        <5>3. chars' \in Seq(Chars)
          BY <1>2, SendCounts
        <5>4. QED
          BY <1>10, <5>2, <5>3, ElementFacts
      <4>2. QED
        BY <4>1
    <3>2. rxstart' /\ bit_idx' = 0 /\ currchar' = 0
      <4>1. CASE D = 0
        <5>1. IsFlag
          BY <1>1, <1>6, <2>5, <4>1, CleanOpening
        <5>2. QED
          BY <1>2, <5>1, ParseStep
      <4>2. CASE D \in 1 .. N
        <5>1. /\ ~IsFlag /\ ~IsReset /\ rxstart
              /\ IsData /\ bit_idx = 7
          BY <1>1, <1>5, <1>6, <2>5, <4>2, CleanData
        <5>2. rxstart' = rxstart /\ bit_idx' = 0 /\ currchar' = 0
          BY <1>2, <5>1, ParseStep
        <5>3. QED
          BY <5>1, <5>2
      <4>3. QED
        BY <1>7, <3>1, <4>1, <4>2
    <3>3. tx_bit' = 0
      BY <2>2, <2>5
    <3>4. Done' \in 1 .. N =>
            0 = (Head(chars')[1] % 2 ^ tx_bit') * 2 ^ (7 - tx_bit')
      <4>1. ASSUME Done' \in 1 .. N
            PROVE  0 = (Frame[Done'] % 2 ^ 0) * 2 ^ (7 - 0)
        BY <2>4, <4>1, CharStarts
      <4>2. QED
        BY <2>1, <3>3, <4>1, Zenon
    <3>5. bit_idx' <= tx_bit'
      BY <3>2, <3>3
    <3>6. bit_idx' = tx_bit'
      BY <3>2, <3>3
    <3>7. Head(chars')[2] =>
            currchar' = (Head(chars')[1] % 2 ^ tx_bit') * 2 ^ (7 - tx_bit')
      BY <2>1, <3>2, <3>4, Zenon
    <3>8. QED
      BY <3>2, <3>5, <3>6, <3>7, Zenon
  <2>6. CASE ~LastBit /\ D \in 1 .. N
    <3>1. Done' = D /\ Head(chars')[2] /\ Head(chars')[1] = Frame[D]
      BY <1>8, <2>1, <2>6
    <3>2. ~IsFlag /\ ~IsReset /\ rxstart /\ bit_idx = tx_bit
      BY <1>1, <1>5, <1>6, <2>6, CleanData
    <3>3. (IsData <=> ~Stuffing)
      BY <1>1, <1>5, <1>6, <2>6, CleanData
    <3>4. rxstart'
      BY <1>2, <3>2, ParseStep
    <3>5. CASE Stuffing
      <4>1. tx_bit' = tx_bit /\ bit_idx' = bit_idx /\ currchar' = currchar
        BY <1>2, <2>2, <3>2, <3>3, <3>5, ParseStep
      <4>2. Head(chars)[2] /\ Head(chars)[1] = Frame[D]
        BY <1>2, <1>5, <1>6, <2>6, HeadFacts
      <4>3. D # 0
        BY <2>6
      <4>4. currchar = (Head(chars)[1] % 2 ^ tx_bit) * 2 ^ (7 - tx_bit)
        BY <1>2, <1>6, <4>2, <4>3, Zenon DEF BitsInv
      <4>5. currchar' = (Head(chars')[1] % 2 ^ tx_bit') * 2 ^ (7 - tx_bit')
        BY <3>1, <4>1, <4>2, <4>4, Zenon
      <4>6. bit_idx' = tx_bit'
        BY <3>2, <4>1
      <4>7. QED
        BY <3>1, <3>4, <4>5, <4>6, Zenon
    <3>6. CASE ~Stuffing
      <4>1. /\ IsData /\ tx_bit < 7
            /\ Char \div 2 =
                 (Frame[D] % 2 ^ (tx_bit + 1)) * 2 ^ (7 - (tx_bit + 1))
        <5>1. IsData /\ tx_bit < 7
          BY <1>1, <1>5, <1>6, <2>6, <3>3, <3>6, CleanData
        <5>2. Done \in 1 .. Len(Frame)
          BY <1>5, <1>6, <2>6
        <5>3. Char \div 2 =
                (Frame[Done] % 2 ^ (tx_bit + 1)) * 2 ^ (7 - (tx_bit + 1))
          BY <1>1, <2>6, <5>1, <5>2, CleanData, Zenon
        <5>4. QED
          BY <1>6, <5>1, <5>3, Zenon
      <4>2. tx_bit' = tx_bit + 1
        BY <2>2, <2>3, <3>6, <4>1
      <4>3. bit_idx' = bit_idx + 1 /\ currchar' = Char \div 2
        <5>1. bit_idx # 7
          BY <2>3, <3>2, <4>1
        <5>2. QED
          BY <1>2, <4>1, <5>1, ParseStep, Zenon
      <4>4. bit_idx' = tx_bit'
        BY <3>2, <4>2, <4>3
      <4>5. currchar' = (Head(chars')[1] % 2 ^ tx_bit') * 2 ^ (7 - tx_bit')
        BY <3>1, <4>1, <4>2, <4>3, Zenon
      <4>6. QED
        BY <3>1, <3>4, <4>4, <4>5, Zenon
    <3>7. QED
      BY <3>5, <3>6
  <2>7. CASE ~LastBit /\ D = N + 1
    <3>1. ~IsFlag /\ bit_idx <= tx_bit /\ tx_bit < 7 /\ tx_bit' = tx_bit + 1
      BY <1>1, <1>5, <1>6, <2>7, CleanClosing
    <3>2. ~Head(chars')[2]
      BY <1>8, <2>1, <2>7
    <3>3. bit_idx \in 0 .. 7
      BY DEF TypeOK
    <3>4. bit_idx # 7
      BY <2>3, <3>1, <3>3
    <3>5. bit_idx' = bit_idx \/ bit_idx' = bit_idx + 1
      BY <1>2, <3>1, <3>4, ParseStep
    <3>6. bit_idx' <= tx_bit'
      BY <2>3, <3>1, <3>3, <3>5
    <3>7. QED
      BY <3>2, <3>6, Zenon
  <2>8. QED
    BY <1>7, <1>8, <1>10, <2>5, <2>6, <2>7
<1>11. QED
  BY <1>3, <1>4, <1>9, <1>10, Zenon

LEMMA BitStep ==
  ASSUME IInv, NEW flip \in BOOLEAN, Bit(flip)
  PROVE  IInv'
<1>1. /\ TypeOK /\ SenderInv /\ StuffInv /\ LineInv /\ BitsInv
      /\ CutInv /\ FifoInv /\ chars # <<>> /\ Send
  BY DEF IInv, Bit
<1>2. FifoInv'
  BY <1>1, BitFifo
<1>3. TypeOK'
  BY <1>1, <1>2, BitType
<1>4. SenderInv' /\ StuffInv'
  BY <1>1, SenderStep
<1>5. LineInv' /\ CutInv'
  BY <1>1, LineStep, PushCases
<1>6. BitsInv'
  BY <1>1, BitsStep
<1>7. QED
  BY <1>2, <1>3, <1>4, <1>5, <1>6 DEF IInv

-----------------------------------------------------------------------------
(* The sender begins a frame or a flag.                                    *)

\* It does so when the frames before are behind.
LEMMA BeginFifo ==
  ASSUME TypeOK, FifoInv, chars = <<>>, UNCHANGED <<rx_fifo, ax25, cut, hurt>>,
         Clean' => Done' = 0,
         \A k \in 1 .. Len(sent') :
           \/ k \in 1 .. Len(sent) /\ sent'[k] = sent[k]
           \/ k = Len(sent') /\ in_frame' /\ chars' # <<>>
  PROVE  FifoInv'
<1>1. PICK r \in Ctxs : /\ Polls(r, Ctx, rx_fifo)
                        /\ EndInv(r[Len(rx_fifo) + 1])
                        /\ \A k \in 1 .. Len(sent) : Accounted(r, k)
  BY DEF FifoInv
<1>2. /\ Ctx' = Ctx /\ rx_fifo' = rx_fifo /\ cut' = cut /\ hurt' = hurt
      /\ got' = got
  BY DEF Ctx, ax25
<1>3. PICK y : y = r[Len(rx_fifo) + 1]
  OBVIOUS
<1>4. y.escape = cut'
  BY <1>1, <1>2, <1>3 DEF EndInv
<1>5. ASSUME NEW k \in 1 .. Len(sent') PROVE Accounted(r, k)'
  <2>1. CASE k = Len(sent') /\ in_frame' /\ chars' # <<>>
    BY <2>1 DEF Accounted
  <2>2. CASE k \in 1 .. Len(sent) /\ sent'[k] = sent[k]
    <3>1. \/ \E i \in 1 .. Len(got) : got[i] = sent[k]
          \/ k \in hurt
          \/ Len(sent[k]) > BufLen
          \/ Waits(r, k)
      BY <1>1, <2>2, Zenon DEF Accounted
    <3>2. Waits(r, k) => Waits(r, k)'
      BY <1>2, <2>2 DEF Waits
    <3>3. QED
      BY <1>2, <2>2, <3>1, <3>2 DEF Accounted
  <2>3. QED
    BY <2>1, <2>2
<1>6. QED
  BY <1>1, <1>2, <1>3, <1>4, <1>5, FifoNext

LEMMA FlagIn ==
  Flag \in Chars
<1>1. HDLC_FLAG \in Byte
  BY DEF HDLC_FLAG, Byte
<1>2. QED
  BY <1>1, PairIn, Zenon DEF Flag, Chars

LEMMA StartFrameStep ==
  ASSUME IInv, NEW f \in Frames, StartFrame(f)
  PROVE  IInv'
<1>1. /\ TypeOK /\ SenderInv /\ StuffInv /\ LineInv /\ BitsInv
      /\ CutInv /\ FifoInv
  BY DEF IInv
<1>2. /\ chars = <<>> /\ Len(sent) < MaxFrames
      /\ sent' = Append(sent, f) /\ in_frame' = TRUE
      /\ chars' = <<Flag>> \o [k \in DOMAIN f |-> <<f[k], TRUE>>] \o <<Flag>>
      /\ UNCHANGED <<tx_bit, stuff_cnt, tone, flipped, errors, found, hdlc,
                     rx_fifo, polling, ax25, cut, hurt>>
  BY DEF StartFrame
<1>3. tx_bit' = 0 /\ stuff_cnt' = 0
  BY <1>1, <1>2 DEF SenderInv
<1>4. PICK N \in Nat : N = Len(f) /\ f \in Seq(Byte) /\ DOMAIN f = 1 .. N
  BY FrameAssumption, ElementFacts
<1>5. /\ chars' \in Seq(Byte \X BOOLEAN) /\ Len(chars') = N + 2
      /\ \A k \in 1 .. N + 2 : chars'[k] = CharOf(f, k)
  <2>1. PICK g \in Chars : g = Flag
    BY FlagIn
  <2>2. PICK m : m = [k \in 1 .. N |-> <<f[k], TRUE>>]
    OBVIOUS
  <2>3. m \in Seq(Chars) /\ Len(m) = N
    <3>1. \A k \in 1 .. N : f[k] \in Byte
      BY <1>4
    <3>2. \A k \in 1 .. N : <<f[k], TRUE>> \in Chars
      BY <3>1, PairIn, Zenon DEF Chars
    <3>3. m \in [1 .. N -> Chars]
      BY <2>2, <3>2
    <3>4. QED
      BY <3>3, FunctionSequence
  <2>4. chars' = <<g>> \o m \o <<g>>
    BY <1>2, <1>4, <2>1, <2>2, Zenon
  <2>5. /\ chars' \in Seq(Chars) /\ Len(chars') = N + 2
        /\ \A k \in 1 .. N + 2 :
             chars'[k] = IF k \in 2 .. N + 1 THEN m[k - 1] ELSE g
    BY <2>3, <2>4, Between
  <2>6. \A k \in 1 .. N + 2 : k \in 2 .. N + 1 => k - 1 \in 1 .. N
    OBVIOUS
  <2>7. QED
    BY <1>4, <2>1, <2>2, <2>5, <2>6 DEF CharOf, Chars
<1>6. /\ Len(sent) \in Nat /\ sent' \in Seq(Frames)
      /\ Len(sent') = Len(sent) + 1 /\ sent'[Len(sent')] = f
      /\ \A k \in 1 .. Len(sent) : sent'[k] = sent[k]
  BY <1>1, <1>2, AppendFacts DEF TypeOK
<1>7. Frame' = f /\ Done' = 0
  <2>1. Frame' = f
    BY <1>6 DEF Frame
  <2>2. QED
    BY <1>4, <1>5, <2>1 DEF Done
<1>8. chars' # <<>> /\ sent' # <<>>
  <2>1. Len(chars') # 0
    BY <1>4, <1>5
  <2>2. Len(sent') # 0
    BY <1>6
  <2>3. QED
    BY <1>5, <1>6, <2>1, <2>2, ElementFacts
<1>9. TypeOK'
  <2>1. Len(sent') <= MaxFrames
    BY <1>2, <1>6, LenAssumption
  <2>2. QED
    BY <1>1, <1>2, <1>5, <1>6, <2>1 DEF TypeOK, hdlc, ax25
<1>10. SenderInv'
  <2>1. \A k \in 1 .. Len(chars') : chars'[k] = CharOf(Frame', Done' + k)
    BY <1>4, <1>5, <1>7
  <2>2. Done' \in 0 .. Len(Frame') + 2
    BY <1>4, <1>7
  <2>3. QED
    BY <1>2, <1>3, <1>8, <2>1, <2>2 DEF SenderInv
<1>11. StuffInv'
  BY <1>3 DEF StuffInv
<1>12. LineInv'
  BY <1>1, <1>2 DEF LineInv
<1>13. CutInv'
  BY <1>1, <1>2 DEF CutInv, hdlc
<1>14. BitsInv'
  BY <1>3, <1>7 DEF BitsInv
<1>15. FifoInv'
  <2>1. ASSUME NEW k \in 1 .. Len(sent')
        PROVE  \/ k \in 1 .. Len(sent) /\ sent'[k] = sent[k]
               \/ k = Len(sent') /\ in_frame' /\ chars' # <<>>
    <3>1. k \in 1 .. Len(sent) \/ k = Len(sent')
      BY <1>6
    <3>2. QED
      BY <1>2, <1>6, <1>8, <3>1
  <2>2. QED
    BY <1>1, <1>2, <1>7, <2>1, BeginFifo
<1>16. QED
  BY <1>9, <1>10, <1>11, <1>12, <1>13, <1>14, <1>15 DEF IInv

LEMMA FillStep ==
  ASSUME IInv, Fill
  PROVE  IInv'
<1>1. /\ TypeOK /\ SenderInv /\ StuffInv /\ LineInv /\ BitsInv
      /\ CutInv /\ FifoInv
  BY DEF IInv
<1>2. /\ chars = <<>> /\ in_frame' = FALSE /\ chars' = <<Flag>>
      /\ UNCHANGED <<sent, tx_bit, stuff_cnt, tone, flipped, errors, found,
                     hdlc, rx_fifo, polling, ax25, cut, hurt>>
  BY DEF Fill
<1>3. tx_bit' = 0 /\ stuff_cnt' = 0
  BY <1>1, <1>2 DEF SenderInv
<1>4. ~Clean'
  BY <1>2 DEF Clean
<1>5. Flag \in Byte \X BOOLEAN
  BY FlagIn DEF Chars
<1>6. /\ chars' \in Seq(Byte \X BOOLEAN) /\ Len(chars') = 1
      /\ \A k \in 1 .. 1 : chars'[k] = Flag
  <2>1. PICK g \in Byte \X BOOLEAN : g = Flag
    BY <1>5
  <2>2. chars' = <<g>>
    BY <1>2, <2>1
  <2>3. QED
    BY <2>1, <2>2
<1>7. TypeOK'
  BY <1>1, <1>2, <1>6 DEF TypeOK, hdlc, ax25
<1>8. SenderInv'
  BY <1>2, <1>3, <1>6 DEF SenderInv
<1>9. StuffInv'
  BY <1>3 DEF StuffInv
<1>10. LineInv' /\ CutInv'
  BY <1>1, <1>2 DEF LineInv, CutInv, hdlc
<1>11. BitsInv'
  BY <1>4 DEF BitsInv
<1>12. FifoInv'
  BY <1>1, <1>2, <1>4, BeginFifo
<1>13. QED
  BY <1>7, <1>8, <1>9, <1>10, <1>11, <1>12 DEF IInv

-----------------------------------------------------------------------------
(* ax25_poll.                                                              *)

\* A frame that waits behind its flag is given to the hook, or comes nearer.
LEMMA PollFifo ==
  ASSUME TypeOK, FifoInv, NEW c \in Byte, Getc(c), Ctx' = After(Ctx, c),
         \/ got' = got
         \/ got' = Append(got, buf) /\ buf \in Frames,
         ~escape /\ c = HDLC_FLAG /\ Len(buf) >= MinLen /\ buf \in Range(sent)
           => got' = Append(got, buf) /\ buf \in Frames
  PROVE  FifoInv'
<1>1. PICK r \in Ctxs : /\ Polls(r, Ctx, rx_fifo)
                        /\ EndInv(r[Len(rx_fifo) + 1])
                        /\ \A k \in 1 .. Len(sent) : Accounted(r, k)
  BY DEF FifoInv
<1>2. /\ rx_fifo # <<>> /\ Head(rx_fifo) = c /\ rx_fifo' = Tail(rx_fifo)
      /\ sent' = sent /\ in_frame' = in_frame /\ chars' = chars
      /\ cut' = cut /\ hurt' = hurt
  BY DEF Getc, tx
<1>3. rx_fifo \in Seq(Byte) /\ got \in Seq(Frames) /\ sent \in Seq(Frames)
  BY DEF TypeOK
<1>4. PICK L \in Nat \ {0} : L = Len(rx_fifo)
  BY <1>2, <1>3, TailFacts
<1>5. /\ c = rx_fifo[1] /\ Len(rx_fifo') = L - 1
      /\ \A q \in 1 .. L - 1 : rx_fifo'[q] = rx_fifo[q + 1]
  BY <1>2, <1>3, <1>4, TailFacts
<1>6. r[2] = Ctx'
  <2>1. r[2] = After(Ctx, Head(rx_fifo))
    BY <1>1, <1>2, <1>3, PollsPop
  <2>2. QED
    BY <1>2, <2>1, Zenon
<1>7. PICK R \in Ctxs : /\ Polls(R, r[2], Tail(rx_fifo))
                        /\ \A k \in Nat \ {0} : R[k] = r[k + 1]
  BY <1>1, <1>2, <1>3, PollsPop, Zenon
<1>8. Polls(R, Ctx', rx_fifo')
  BY <1>2, <1>6, <1>7, Zenon
<1>9. PICK y : y = R[Len(rx_fifo') + 1]
  OBVIOUS
<1>10. y = r[L + 1]
  <2>1. Len(rx_fifo') + 1 = L /\ L \in Nat \ {0}
    BY <1>5
  <2>2. QED
    BY <1>7, <1>9, <2>1
<1>11. EndInv(y)
  BY <1>1, <1>4, <1>10
<1>12. Clean' = Clean /\ Frame' = Frame /\ Done' = Done
  BY <1>2 DEF Clean, Frame, Done
<1>13. y.escape = cut'
  BY <1>2, <1>11, Zenon DEF EndInv
<1>14. Clean' /\ Done' # 0 /\ chars' # <<>> /\ Len(Frame') <= BufLen =>
         /\ y.sync
         /\ Len(y.buf) = Done' - 1
         /\ \A i \in 1 .. Done' - 1 : y.buf[i] = Frame'[i]
  BY <1>2, <1>11, <1>12, Zenon DEF EndInv
<1>15. \/ got' = got
       \/ /\ Len(got') = Len(got) + 1 /\ got'[Len(got) + 1] = buf
          /\ \A i \in 1 .. Len(got) : got'[i] = got[i]
  BY <1>3, AppendFacts
<1>16. Len(got) \in Nat
  BY <1>3, ElementFacts
<1>17. ASSUME NEW k \in 1 .. Len(sent') PROVE Accounted(R, k)'
  <2>1. k \in 1 .. Len(sent) /\ Accounted(r, k)
    BY <1>1, <1>2
  <2>2. CASE \E i \in 1 .. Len(got) : got[i] = sent[k]
    <3>1. PICK i \in 1 .. Len(got) : got[i] = sent[k]
      BY <2>2
    <3>2. i \in 1 .. Len(got') /\ got'[i] = sent'[k]
      BY <1>2, <1>15, <1>16, <3>1
    <3>3. QED
      BY <3>2 DEF Accounted
  <2>3. CASE k \in hurt
    BY <1>2, <2>3 DEF Accounted
  <2>4. CASE Len(sent[k]) > BufLen
    BY <1>2, <2>4 DEF Accounted
  <2>5. CASE k = Len(sent) /\ in_frame /\ chars # <<>>
    BY <1>2, <2>5 DEF Accounted
  <2>6. CASE Waits(r, k)
    <3>1. PICK q \in 1 .. L :
            rx_fifo[q] = HDLC_FLAG /\ ~r[q].escape /\ r[q].buf = sent[k]
      BY <1>4, <2>6 DEF Waits
    <3>2. CASE q = 1
      <4>1. r[1] = Ctx
        BY <1>1 DEF Polls
      <4>2. Ctx.escape = escape /\ Ctx.buf = buf
        BY DEF Ctx
      <4>3. ~escape /\ c = HDLC_FLAG /\ buf = sent[k]
        BY <1>5, <3>1, <3>2, <4>1, <4>2, Zenon
      <4>4. buf \in Range(sent) /\ sent[k] \in Frames
        BY <1>3, <2>1, <4>3, ElementFacts DEF Range
      <4>5. Len(buf) >= MinLen
        BY <4>3, <4>4, FrameAssumption
      <4>6. got' = Append(got, buf) /\ buf \in Frames
        BY <4>3, <4>4, <4>5
      <4>7. Len(got') = Len(got) + 1 /\ got'[Len(got) + 1] = buf
        BY <1>3, <4>6, AppendFacts
      <4>8. Len(got) + 1 \in 1 .. Len(got')
        BY <1>16, <4>7
      <4>9. got'[Len(got) + 1] = sent'[k]
        BY <1>2, <4>3, <4>7
      <4>10. QED
        BY <4>8, <4>9 DEF Accounted
    <3>3. CASE q # 1
      <4>1. PICK p \in 1 .. L - 1 : p + 1 = q
        <5>1. q - 1 \in 1 .. L - 1 /\ (q - 1) + 1 = q
          BY <1>4, <3>3
        <5>2. QED
          BY <5>1
      <4>2. rx_fifo'[p] = rx_fifo[q] /\ R[p] = r[q]
        <5>1. p \in Nat \ {0}
          BY <4>1
        <5>2. QED
          BY <1>5, <1>7, <4>1, <5>1
      <4>3. rx_fifo'[p] = HDLC_FLAG /\ ~R[p].escape /\ R[p].buf = sent'[k]
        BY <1>2, <3>1, <4>2, Zenon
      <4>4. Waits(R, k)'
        BY <1>5, <4>1, <4>3 DEF Waits
      <4>5. QED
        BY <4>4 DEF Accounted
    <3>4. QED
      BY <3>2, <3>3
  <2>7. QED
    BY <2>1, <2>2, <2>3, <2>4, <2>5, <2>6 DEF Accounted
<1>18. QED
  BY <1>8, <1>9, <1>13, <1>14, <1>17, FifoNext

LEMMA SameBits ==
  ASSUME BitsInv, Clean' = Clean, Done' = Done,
         chars' = chars, tx_bit' = tx_bit, stuff_cnt' = stuff_cnt,
         flipped' = flipped, demod_bits' = demod_bits, cut' = cut,
         bit_idx' = bit_idx, currchar' = currchar, rxstart' = rxstart
  PROVE  BitsInv'
  BY Zenon DEF BitsInv

LEMMA PollStep ==
  ASSUME IInv, NEW c \in Byte, Getc(c), Ctx' = After(Ctx, c),
         sync' \in BOOLEAN, escape' \in BOOLEAN,
         buf' \in Seq(Byte), Len(buf') <= BufLen,
         \/ got' = got
         \/ got' = Append(got, buf) /\ buf \in Frames,
         ~escape /\ c = HDLC_FLAG /\ Len(buf) >= MinLen /\ buf \in Range(sent)
           => got' = Append(got, buf) /\ buf \in Frames
  PROVE  IInv'
<1>1. /\ TypeOK /\ SenderInv /\ StuffInv /\ LineInv /\ BitsInv
      /\ CutInv /\ FifoInv
  BY DEF IInv
<1>2. FifoInv'
  BY <1>1, PollFifo
<1>3. /\ rx_fifo # <<>> /\ rx_fifo' = Tail(rx_fifo)
      /\ UNCHANGED <<tx, flipped, errors, found, hdlc, polling, cut, hurt>>
  BY DEF Getc
<1>4. /\ UNCHANGED <<sent, in_frame, chars, tx_bit, stuff_cnt, tone>>
      /\ UNCHANGED <<demod_bits, bit_idx, currchar, rxstart>>
      /\ UNCHANGED <<flipped, errors, found, polling, cut, hurt>>
  BY <1>3 DEF tx, hdlc
<1>5. rx_fifo' \in Seq(Byte) /\ Len(rx_fifo') <= RxRoom
  <2>1. rx_fifo \in Seq(Byte) /\ Len(rx_fifo) <= RxRoom /\ RxRoom \in Nat
    BY <1>1, LenAssumption DEF TypeOK
  <2>2. /\ Tail(rx_fifo) \in Seq(Byte) /\ Len(rx_fifo) \in Nat
        /\ Len(Tail(rx_fifo)) = Len(rx_fifo) - 1
    BY <1>3, <2>1, TailFacts
  <2>3. QED
    BY <1>3, <2>1, <2>2
<1>6. got' \in Seq(Frames)
  <2>1. got \in Seq(Frames)
    BY <1>1 DEF TypeOK
  <2>2. QED
    BY <2>1, AppendFacts
<1>7. rx_fifo' # <<>> /\ ~escape' => Head(rx_fifo') # HDLC_RESET
  BY <1>2, <1>5, NextHead
<1>8. TypeOK'
  BY <1>1, <1>4, <1>5, <1>6, <1>7 DEF TypeOK
<1>9. Clean' = Clean /\ Frame' = Frame /\ Done' = Done
  BY <1>4 DEF Clean, Frame, Done
<1>10. SenderInv' /\ StuffInv' /\ LineInv' /\ CutInv'
  BY <1>1, <1>4, <1>9 DEF SenderInv, StuffInv, LineInv, CutInv
<1>11. BitsInv'
  BY <1>1, <1>4, <1>9, SameBits
<1>12. QED
  BY <1>2, <1>8, <1>10, <1>11 DEF IInv

LEMMA PollFlagStep ==
  ASSUME IInv, PollFlag
  PROVE  IInv'
<1>1. /\ ~escape /\ Getc(HDLC_FLAG)
      /\ got' = IF Len(buf) >= MinLen /\ buf \in Range(sent)
                  THEN Append(got, buf) ELSE got
      /\ sync' = TRUE /\ buf' = <<>> /\ escape' = escape
  BY DEF PollFlag
<1>2. TypeOK
  BY DEF IInv
<1>3. escape' = FALSE
  BY <1>1, <1>2 DEF TypeOK
<1>4. Ctx' = After(Ctx, HDLC_FLAG)
  <2>1. ~Ctx.escape
    BY <1>1 DEF Ctx
  <2>2. After(Ctx, HDLC_FLAG) =
          [sync |-> TRUE, escape |-> FALSE, buf |-> <<>>]
    BY <2>1, Zenon DEF After
  <2>3. Ctx' = [sync |-> sync', escape |-> escape', buf |-> buf']
    BY DEF Ctx
  <2>4. QED
    BY <1>1, <1>3, <2>2, <2>3, Zenon
<1>5. buf' \in Seq(Byte) /\ Len(buf') <= BufLen
  BY <1>1, LenAssumption
<1>6. Range(sent) \subseteq Frames
  <2>1. sent \in Seq(Frames)
    BY <1>2 DEF TypeOK
  <2>2. QED
    BY <2>1, ElementFacts DEF Range
<1>7. HDLC_FLAG \in Byte
  BY DEF HDLC_FLAG, Byte
<1>8. \/ got' = got
      \/ got' = Append(got, buf) /\ buf \in Frames
  BY <1>1, <1>6
<1>9. Len(buf) >= MinLen /\ buf \in Range(sent) =>
        got' = Append(got, buf) /\ buf \in Frames
  BY <1>1, <1>6
<1>10. sync' \in BOOLEAN /\ escape' \in BOOLEAN
  BY <1>1, <1>3
<1>11. QED
  BY <1>1, <1>4, <1>5, <1>7, <1>8, <1>9, <1>10, PollStep

LEMMA PollEscStep ==
  ASSUME IInv, PollEsc
  PROVE  IInv'
<1>1. /\ ~escape /\ Getc(AX25_ESC) /\ escape' = TRUE
      /\ sync' = sync /\ buf' = buf /\ got' = got
  BY DEF PollEsc
<1>2. /\ sync' \in BOOLEAN /\ escape' \in BOOLEAN
      /\ buf' \in Seq(Byte) /\ Len(buf') <= BufLen
  BY <1>1 DEF IInv, TypeOK
<1>3. AX25_ESC \in Byte /\ AX25_ESC # HDLC_FLAG
  BY DEF AX25_ESC, HDLC_FLAG, Byte
<1>4. Ctx' = After(Ctx, AX25_ESC)
  <2>1. ~Ctx.escape /\ Ctx.sync = sync /\ Ctx.buf = buf
    BY <1>1 DEF Ctx
  <2>2. After(Ctx, AX25_ESC) =
          [sync |-> sync, escape |-> TRUE, buf |-> buf]
    BY <1>3, <2>1, Zenon DEF After
  <2>3. Ctx' = [sync |-> sync', escape |-> escape', buf |-> buf']
    BY DEF Ctx
  <2>4. QED
    BY <1>1, <2>2, <2>3, Zenon
<1>5. QED
  BY <1>1, <1>2, <1>3, <1>4, PollStep

LEMMA PollCharStep ==
  ASSUME IInv, NEW c \in Byte, PollChar(c)
  PROVE  IInv'
<1>1. /\ escape \/ c \notin Special
      /\ Getc(c) /\ escape' = FALSE /\ got' = got
      /\ IF sync /\ Len(buf) < BufLen
           THEN buf' = Append(buf, c) /\ sync' = sync
           ELSE sync' = FALSE /\ buf' = buf
  BY DEF PollChar
<1>2. /\ sync \in BOOLEAN /\ buf \in Seq(Byte) /\ Len(buf) <= BufLen
      /\ BufLen \in Nat /\ Len(buf) \in Nat
  BY LenAssumption, ElementFacts DEF IInv, TypeOK
<1>3. escape \/ c \notin {HDLC_FLAG, AX25_ESC}
  BY <1>1 DEF Special
<1>4. /\ Ctx.escape = escape /\ Ctx.sync = sync /\ Ctx.buf = buf
      /\ Ctx' = [sync |-> sync', escape |-> escape', buf |-> buf']
  BY DEF Ctx
<1>5. CASE sync /\ Len(buf) < BufLen
  <2>1. /\ buf' = Append(buf, c) /\ sync' = TRUE
    BY <1>1, <1>2, <1>5
  <2>2. buf' \in Seq(Byte) /\ Len(buf') <= BufLen
    BY <1>2, <1>5, <2>1, AppendFacts
  <2>3. After(Ctx, c) =
          [sync |-> TRUE, escape |-> FALSE, buf |-> Append(buf, c)]
    BY <1>3, <1>4, <1>5, Zenon DEF After
  <2>4. Ctx' = After(Ctx, c)
    BY <1>1, <1>4, <2>1, <2>3, Zenon
  <2>5. QED
    BY <1>1, <1>3, <2>1, <2>2, <2>4, PollStep
<1>6. CASE ~(sync /\ Len(buf) < BufLen)
  <2>1. buf' = buf /\ sync' = FALSE
    BY <1>1, <1>6
  <2>2. After(Ctx, c) = [sync |-> FALSE, escape |-> FALSE, buf |-> buf]
    BY <1>3, <1>4, <1>6, Zenon DEF After
  <2>3. Ctx' = After(Ctx, c)
    BY <1>1, <1>4, <2>1, <2>2, Zenon
  <2>4. QED
    BY <1>1, <1>2, <1>3, <2>1, <2>3, PollStep
<1>7. QED
  BY <1>5, <1>6

LEMMA PollingStep ==
  ASSUME IInv, polling' \in BOOLEAN,
         UNCHANGED <<tx, flipped, errors, found, hdlc, rx_fifo, ax25, cut, hurt>>
  PROVE  IInv'
<1>1. /\ TypeOK /\ SenderInv /\ StuffInv /\ LineInv /\ BitsInv
      /\ CutInv /\ FifoInv
  BY DEF IInv
<1>2. /\ UNCHANGED <<sent, in_frame, chars, tx_bit, stuff_cnt, tone>>
      /\ UNCHANGED <<demod_bits, bit_idx, currchar, rxstart>>
      /\ UNCHANGED <<flipped, errors, found, rx_fifo, cut, hurt>>
      /\ UNCHANGED <<sync, escape, buf, got>>
  BY DEF tx, hdlc, ax25
<1>3. Clean' = Clean /\ Frame' = Frame /\ Done' = Done /\ Ctx' = Ctx
  BY <1>2 DEF Clean, Frame, Done, Ctx
<1>4. TypeOK'
  BY <1>1, <1>2 DEF TypeOK
<1>5. SenderInv' /\ StuffInv' /\ LineInv' /\ CutInv'
  BY <1>1, <1>2, <1>3 DEF SenderInv, StuffInv, LineInv, CutInv
<1>6. BitsInv'
  <2>1. /\ chars' = chars /\ tx_bit' = tx_bit /\ stuff_cnt' = stuff_cnt
        /\ flipped' = flipped /\ demod_bits' = demod_bits /\ cut' = cut
        /\ bit_idx' = bit_idx /\ currchar' = currchar /\ rxstart' = rxstart
    BY <1>2
  <2>2. Clean' = Clean /\ Done' = Done
    BY <1>3
  <2>3. QED
    BY <1>1, <2>1, <2>2, SameBits
<1>7. FifoInv'
  <2>1. PICK r \in Ctxs : /\ Polls(r, Ctx, rx_fifo)
                          /\ EndInv(r[Len(rx_fifo) + 1])
                          /\ \A k \in 1 .. Len(sent) : Accounted(r, k)
    BY <1>1 DEF FifoInv
  <2>2. PICK y : y = r[Len(rx_fifo) + 1]
    OBVIOUS
  <2>3. EndInv(y)
    BY <2>1, <2>2
  <2>4. y.escape = cut'
    BY <1>2, <2>3, Zenon DEF EndInv
  <2>5. Clean' /\ Done' # 0 /\ chars' # <<>> /\ Len(Frame') <= BufLen =>
          /\ y.sync
          /\ Len(y.buf) = Done' - 1
          /\ \A i \in 1 .. Done' - 1 : y.buf[i] = Frame'[i]
    BY <1>2, <1>3, <2>3, Zenon DEF EndInv
  <2>6. ASSUME NEW k \in 1 .. Len(sent') PROVE Accounted(r, k)'
    BY <1>2, <2>1, <2>6 DEF Accounted, Waits
  <2>7. QED
    BY <1>2, <1>3, <2>1, <2>2, <2>4, <2>5, <2>6, FifoNext
<1>8. QED
  BY <1>4, <1>5, <1>6, <1>7 DEF IInv

-----------------------------------------------------------------------------
(* The theorems.                                                           *)

LEMMA InitInv ==
  ASSUME Init
  PROVE  IInv
<1>1. TypeOK
  <2>1. /\ sent \in Seq(Frames) /\ got \in Seq(Frames) /\ buf \in Seq(Byte)
        /\ rx_fifo \in Seq(Byte) /\ chars \in Seq(Byte \X BOOLEAN)
    BY DEF Init
  <2>2. /\ Len(sent) <= MaxFrames /\ Len(rx_fifo) <= RxRoom
        /\ Len(buf) <= BufLen /\ errors \in 0 .. MaxErrors
    BY LenAssumption DEF Init
  <2>3. /\ tx_bit \in 0 .. 7 /\ stuff_cnt \in 0 .. 6 /\ demod_bits \in Byte
        /\ tone \in {0, 1} /\ found \in {0, 1} /\ bit_idx \in 0 .. 7
        /\ currchar \in 0 .. 127
    BY DEF Init, Byte
  <2>4. /\ in_frame \in BOOLEAN /\ flipped \in BOOLEAN /\ rxstart \in BOOLEAN
        /\ polling \in BOOLEAN /\ sync \in BOOLEAN /\ escape \in BOOLEAN
        /\ cut \in BOOLEAN
    BY DEF Init
  <2>5. hurt \subseteq 1 .. MaxFrames /\ rx_fifo = <<>>
    BY DEF Init
  <2>6. QED
    BY <2>1, <2>2, <2>3, <2>4, <2>5, Zenon DEF TypeOK
<1>2. SenderInv /\ StuffInv /\ LineInv /\ CutInv
  BY DEF Init, SenderInv, StuffInv, LineInv, CutInv
<1>3. BitsInv /\ ~Clean
  BY DEF Init, BitsInv, Clean
<1>4. FifoInv
  <2>1. Ctx \in AX25Ctx /\ Ctx.escape = FALSE
    <3>1. Ctx = [sync |-> FALSE, escape |-> FALSE, buf |-> <<>>]
      BY Zenon DEF Init, Ctx
    <3>2. <<>> \in Seq(Byte)
      OBVIOUS
    <3>3. QED
      BY <3>1, <3>2 DEF AX25Ctx
  <2> DEFINE r == [k \in Nat \ {0} |-> Ctx]
  <2>2. r \in Ctxs /\ r[1] = Ctx
    BY <2>1 DEF Ctxs
  <2> HIDE DEF r
  <2>3. rx_fifo = <<>> /\ Len(rx_fifo) + 1 = 1 /\ 1 .. Len(rx_fifo) = {}
    BY DEF Init
  <2>4. Polls(r, Ctx, rx_fifo)
    BY <2>2, <2>3 DEF Polls
  <2>5. EndInv(Ctx)
    BY <1>3, <2>1 DEF EndInv, Init
  <2>6. EndInv(r[Len(rx_fifo) + 1])
    BY <2>2, <2>3, <2>5
  <2>7. 1 .. Len(sent) = {}
    BY DEF Init
  <2>8. QED
    BY <2>2, <2>4, <2>6, <2>7 DEF FifoInv
<1>5. QED
  BY <1>1, <1>2, <1>3, <1>4 DEF IInv

\* The inductive invariant: every frame that was not hurt is sent as its
\* characters, received as them with the same bits stuffed and unstuffed, and
\* told from the others by ax25_poll.
THEOREM Inductive == Spec => []IInv
<1>1. Init => IInv
  BY InitInv
<1>2. IInv /\ [Next]_vars => IInv'
  <2>1. SUFFICES ASSUME IInv, [Next]_vars PROVE IInv'
    OBVIOUS
  <2>2. CASE \E f \in Frames : StartFrame(f)
    BY <2>1, <2>2, StartFrameStep
  <2>3. CASE Fill
    BY <2>1, <2>3, FillStep
  <2>4. CASE \E flip \in BOOLEAN : Bit(flip)
    BY <2>1, <2>4, BitStep
  <2>5. CASE StartPoll
    <3>1. /\ polling' \in BOOLEAN
          /\ UNCHANGED <<tx, flipped, errors, found, hdlc, rx_fifo, ax25, cut,
                         hurt>>
      BY <2>5 DEF StartPoll
    <3>2. QED
      BY <2>1, <3>1, PollingStep
  <2>6. CASE PollFlag
    BY <2>1, <2>6, PollFlagStep
  <2>7. CASE PollEsc
    BY <2>1, <2>7, PollEscStep
  <2>8. CASE \E c \in Byte : PollChar(c)
    BY <2>1, <2>8, PollCharStep
  <2>9. CASE EndPoll
    <3>1. /\ polling' \in BOOLEAN
          /\ UNCHANGED <<tx, flipped, errors, found, hdlc, rx_fifo, ax25, cut,
                         hurt>>
      BY <2>9 DEF EndPoll
    <3>2. QED
      BY <2>1, <3>1, PollingStep
  <2>10. CASE UNCHANGED vars
    <3>1. /\ polling' \in BOOLEAN
          /\ UNCHANGED <<tx, flipped, errors, found, hdlc, rx_fifo, ax25, cut,
                         hurt>>
      BY <2>1, <2>10 DEF vars, IInv, TypeOK
    <3>2. QED
      BY <2>1, <3>1, PollingStep
  <2>11. QED
    BY <2>1, <2>2, <2>3, <2>4, <2>5, <2>6, <2>7, <2>8, <2>9, <2>10 DEF Next
<1>3. QED
  BY <1>1, <1>2, PTL DEF Spec

\* The types, and that ax25_poll meets no character it has no case for.
THEOREM TypeCorrect == Spec => []TypeOK
<1>1. IInv => TypeOK
  BY DEF IInv
<1>2. QED
  BY <1>1, Inductive, PTL

\* Whatever the line and rx_fifo lose and wherever the input was cut, every
\* frame that fits ax25_poll's buffer and was not hurt itself is given to the
\* hook.
THEOREM Explained == Spec => []LossExplained
<1>1. IInv => LossExplained
  <2>1. SUFFICES ASSUME IInv, chars = <<>>, rx_fifo = <<>>,
                        NEW k \in DOMAIN sent
                 PROVE  \/ sent[k] \in Range(got) \/ k \in hurt
                        \/ Len(sent[k]) > BufLen
    BY DEF LossExplained
  <2>2. PICK r \in Ctxs : \A i \in 1 .. Len(sent) : Accounted(r, i)
    BY <2>1 DEF IInv, FifoInv
  <2>3. /\ k \in 1 .. Len(sent) /\ DOMAIN got = 1 .. Len(got)
    BY <2>1, ElementFacts DEF IInv, TypeOK
  <2>4. Accounted(r, k)
    BY <2>2, <2>3
  <2>5. ~Waits(r, k)
    BY <2>1 DEF Waits
  <2>6. \/ \E i \in 1 .. Len(got) : got[i] = sent[k]
        \/ k \in hurt
        \/ Len(sent[k]) > BufLen
    BY <2>1, <2>4, <2>5, Zenon DEF Accounted
  <2>7. (\E i \in 1 .. Len(got) : got[i] = sent[k]) => sent[k] \in Range(got)
    BY <2>3 DEF Range
  <2>8. QED
    BY <2>6, <2>7
<1>2. QED
  BY <1>1, Inductive, PTL
=============================================================================

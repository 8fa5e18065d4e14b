---------------------------- MODULE AfskTxProofs ----------------------------
(***************************************************************************)
(* The AX.25 transmitter, for all frames, lengths of preamble and trailer, *)
(* sizes of the FIFO and of the output buffers.                            *)
(***************************************************************************)
EXTENDS AfskTx, TLAPS

-----------------------------------------------------------------------------
(* The inductive invariant.                                                *)

\* The frame ax25_sendVia writes, or the one it will write next.
Writing == IF pc = "write" THEN taken ELSE taken + 1

\* Character k of the FIFO is what ax25_sendVia wrote at place p[k] of frame
\* f[k] after e[k] ESCs, and the next one is from the place it went on to.
Follows(f, p, e, k) ==
  LET frame == posted[f[k]]
      esc   == NeedsEsc(frame, p[k], e[k])
      end   == p[k] = LastPlace(frame)
  IN  /\ f[k] \in 1 .. taken
      /\ p[k] <= LastPlace(frame)
      /\ tx_fifo[k] = Written(frame, p[k], e[k])
      /\ e[k + 1] = IF esc THEN 1 ELSE 0
      /\ p[k + 1] = IF esc THEN p[k] ELSE IF end THEN 0 ELSE p[k] + 1
      /\ f[k + 1] = IF ~esc /\ end THEN f[k] + 1 ELSE f[k]

\* Behind the characters of the FIFO comes the place ax25_sendVia is at.
FifoSource(f, p, e) ==
  /\ \A k \in 1 .. Len(tx_fifo) : Follows(f, p, e, k)
  /\ f[Len(tx_fifo) + 1] = Writing
  /\ p[Len(tx_fifo) + 1] = at
  /\ e[Len(tx_fifo) + 1] = escapes

\* The receiver has the frames before f, and of frame f what is before place p.
ReceiverInv(f, p) ==
  /\ Len(received) = f - 1
  /\ \A k \in 1 .. Len(received) : received[k] = posted[k]
  /\ Len(heard) = IF p = 0 THEN 0 ELSE p - 1
  /\ \A k \in 1 .. Len(heard) : heard[k] = posted[f][k]

\* With place p of frame f to be sent next: the preamble is before the first
\* frame of the burst, a trailer that was begun ends the preamble, and the flags
\* sent behind a frame are those the trailer has less.
BurstInv(f, p) ==
  /\ preamble_len > 0 => p = 0
  /\ trailer_len < TrailerLen => preamble_len = 0 /\ tx_fifo = <<>>
  /\ ~sending => /\ tx_fifo = <<>> /\ trailer_len = 0 /\ left = 0
                 /\ p = 0
  /\ sending => first <= f
  /\ sending /\ f = first =>
       /\ p = 0 => flags + preamble_len = PreambleLen
       /\ p = 1 => preamble_len = 0 /\ flags = PreambleLen + 1
  /\ sending /\ first < f /\ p = 0 => flags + trailer_len >= TrailerLen + 1

\* A work() that put out nothing had nothing to send, and while the PTT is off
\* nothing has been sent since.
PttInv ==
  /\ pc = "work" /\ n = 0 => ~sending
  /\ pc # "work" /\ d_ptt = 0 =>
       heard = <<>> /\ left = 0 /\ (sending => flags = 0)

Inv ==
  \E f, p, e \in [1 .. Len(tx_fifo) + 1 -> Nat] :
    /\ FifoSource(f, p, e)
    /\ e[1] = 0
    /\ ReceiverInv(f[1], p[1])
    /\ BurstInv(f[1], p[1])

\* TypeOK without what it says of the end of the FIFO, which follows from Inv.
Types ==
  /\ cfg_padding_zero \in BOOLEAN
  /\ posted \in Seq(Frames)
  /\ taken \in 0 .. Len(posted)
  /\ pc \in {"sched", "write", "work"}
  /\ at \in Nat /\ escapes \in {0, 1}
  /\ IF pc = "write" THEN taken > 0 /\ at <= LastPlace(posted[taken])
                     ELSE at = 0 /\ escapes = 0
  /\ tx_fifo \in Seq(Char) /\ Len(tx_fifo) <= TxRoom
  /\ sending \in BOOLEAN
  /\ preamble_len \in 0 .. PreambleLen
  /\ trailer_len \in 0 .. TrailerLen
  /\ left \in 0 .. CharLen - 1
  /\ n \in Nat /\ i \in 0 .. n
  /\ d_ptt \in {0, 1}
  /\ heard \in Seq(Char)
  /\ received \in Seq(Seq(Char))
  /\ flags \in Nat
  /\ first \in 0 .. taken

IInv == Types /\ Inv /\ PttInv

-----------------------------------------------------------------------------
(* Sequences and frames.                                                   *)

LEMMA AppendFacts ==
  ASSUME NEW S, NEW s \in Seq(S), NEW x \in S
  PROVE  /\ Append(s, x) \in Seq(S)
         /\ Len(s) \in Nat /\ Len(Append(s, x)) = Len(s) + 1
         /\ \A k \in 1 .. Len(s) : Append(s, x)[k] = s[k]
         /\ Append(s, x)[Len(s) + 1] = x
  OBVIOUS

LEMMA TailFacts ==
  ASSUME NEW S, NEW s \in Seq(S), s # <<>>
  PROVE  /\ Tail(s) \in Seq(S) /\ Head(s) \in S /\ Head(s) = s[1]
         /\ Len(s) \in Nat \ {0} /\ Len(Tail(s)) = Len(s) - 1
         /\ \A k \in 1 .. Len(s) - 1 : Tail(s)[k] = s[k + 1]
         /\ Len(s) > 1 => Tail(s) # <<>>
  OBVIOUS

LEMMA ElementFacts ==
  ASSUME NEW S, NEW s \in Seq(S)
  PROVE  /\ Len(s) \in Nat
         /\ \A k \in 1 .. Len(s) : s[k] \in S
         /\ DOMAIN s = 1 .. Len(s)
         /\ Len(s) = 0 <=> s = <<>>
  OBVIOUS

\* Sequences of the same length with the same elements are the same.
LEMMA SameSequence ==
  ASSUME NEW S, NEW s \in Seq(S), NEW t \in Seq(S), Len(s) = Len(t),
         \A k \in 1 .. Len(s) : s[k] = t[k]
  PROVE  s = t
  OBVIOUS

\* A sequence is the beginning of another that has its elements.
LEMMA PrefixFacts ==
  ASSUME NEW S, NEW T, NEW s \in Seq(S), NEW t \in Seq(T), Len(s) <= Len(t),
         \A k \in 1 .. Len(s) : s[k] = t[k]
  PROVE  IsPrefix(s, t)
  BY DEF IsPrefix

\* A posted frame is a sequence of characters and not empty.
LEMMA FrameFacts ==
  ASSUME Types, NEW k \in 1 .. Len(posted)
  PROVE  /\ posted[k] \in Seq(Char) /\ Len(posted[k]) \in Nat \ {0}
         /\ DOMAIN posted[k] = 1 .. Len(posted[k])
         /\ \A j \in 1 .. Len(posted[k]) : posted[k][j] \in Char
         /\ LastPlace(posted[k]) = Len(posted[k]) + 1
<1>1. posted[k] \in Seq(Char) /\ posted[k] # <<>>
  BY FrameAssumption, ElementFacts DEF Types
<1>2. QED
  BY <1>1, ElementFacts DEF LastPlace

\* ax25_sendVia writes characters.
LEMMA WrittenType ==
  ASSUME NEW frame \in Seq(Char), NEW k \in Nat, NEW e
  PROVE  Written(frame, k, e) \in Char
<1>1. k \in DOMAIN frame => frame[k] \in Char
  BY ElementFacts
<1>2. QED
  BY <1>1 DEF Written, Char

-----------------------------------------------------------------------------
(* The characters in the FIFO.                                             *)

Places == [1 .. Len(tx_fifo) + 1 -> Nat]

LEMMA LongerFunction ==
  ASSUME NEW k \in Nat, NEW g \in [1 .. k + 1 -> Nat], NEW x \in Nat
  PROVE  \E G \in [1 .. k + 2 -> Nat] :
           (\A j \in 1 .. k + 1 : G[j] = g[j]) /\ G[k + 2] = x
<1> DEFINE G == [j \in 1 .. k + 2 |-> IF j <= k + 1 THEN g[j] ELSE x]
<1>1. G \in [1 .. k + 2 -> Nat]
  OBVIOUS
<1>2. (\A j \in 1 .. k + 1 : G[j] = g[j]) /\ G[k + 2] = x
  OBVIOUS
<1>3. QED
  BY <1>1, <1>2

LEMMA ShorterFunction ==
  ASSUME NEW k \in Nat, NEW g \in [1 .. k + 1 -> Nat], NEW m \in 1 .. k
  PROVE  \E G \in [1 .. k + 1 - m -> Nat] :
           \A j \in 1 .. k + 1 - m : G[j] = g[j + m]
<1> DEFINE G == [j \in 1 .. k + 1 - m |-> g[j + m]]
<1>1. G \in [1 .. k + 1 - m -> Nat]
  OBVIOUS
<1>2. \A j \in 1 .. k + 1 - m : G[j] = g[j + m]
  OBVIOUS
<1>3. QED
  BY <1>1, <1>2

LEMMA SourceStays ==
  ASSUME Types, NEW f \in Places, NEW p \in Places, NEW e \in Places,
         FifoSource(f, p, e), tx_fifo' = tx_fifo, Writing' = Writing,
         UNCHANGED cursor, taken <= taken', taken' \in Nat,
         \A k \in 1 .. taken : posted'[k] = posted[k]
  PROVE  FifoSource(f, p, e)'
<1>1. ASSUME NEW k \in 1 .. Len(tx_fifo) PROVE Follows(f, p, e, k)'
  <2>1. Follows(f, p, e, k)
    BY DEF FifoSource
  <2>2. f[k] \in 1 .. taken
    BY <2>1 DEF Follows
  <2>3. posted'[f[k]] = posted[f[k]]
    BY <2>2
  <2>4. f[k] \in 1 .. taken'
    BY <2>2 DEF Types
  <2>5. QED
    BY <2>1, <2>3, <2>4 DEF Follows
<1>2. QED
  BY <1>1 DEF FifoSource, cursor

\* A character is written: it is from the place ax25_sendVia was at.
LEMMA SourceWrite ==
  ASSUME Types, NEW f \in Places, NEW p \in Places, NEW e \in Places,
         FifoSource(f, p, e), pc = "write", PutNext, UNCHANGED client
  PROVE  /\ Len(tx_fifo') = Len(tx_fifo) + 1
         /\ \E F, P, E \in Places' :
              /\ FifoSource(F, P, E)'
              /\ F[1] = f[1] /\ P[1] = p[1] /\ E[1] = e[1]
<1>1. PICK L \in Nat : L = Len(tx_fifo)
  BY ElementFacts DEF Types
<1>2. taken \in 1 .. Len(posted) /\ taken' = taken /\ posted' = posted
  BY ElementFacts DEF Types, client
<1>3. Written(posted[taken], at, escapes) \in Char
  BY <1>2, FrameFacts, WrittenType DEF Types
<1>4. /\ Len(tx_fifo') = L + 1
      /\ \A k \in 1 .. L : tx_fifo'[k] = tx_fifo[k]
      /\ tx_fifo'[L + 1] = Written(posted[taken], at, escapes)
  BY <1>1, <1>3, AppendFacts DEF Types, PutNext
<1>L. /\ Writing' \in Nat /\ at' \in Nat /\ escapes' \in Nat
  BY <1>2, FrameFacts DEF PutNext, Writing, Types
<1>F. PICK F \in [1 .. L + 2 -> Nat] :
        /\ \A k \in 1 .. L + 1 : F[k] = f[k]
        /\ F[L + 2] = Writing'
  BY <1>1, <1>L, LongerFunction DEF Places
<1>P. PICK P \in [1 .. L + 2 -> Nat] :
        /\ \A k \in 1 .. L + 1 : P[k] = p[k]
        /\ P[L + 2] = at'
  BY <1>1, <1>L, LongerFunction DEF Places
<1>E. PICK E \in [1 .. L + 2 -> Nat] :
        /\ \A k \in 1 .. L + 1 : E[k] = e[k]
        /\ E[L + 2] = escapes'
  BY <1>1, <1>L, LongerFunction DEF Places
<1>6. ASSUME NEW k \in 1 .. L PROVE Follows(F, P, E, k)'
  <2>1. Follows(f, p, e, k)
    BY <1>1 DEF FifoSource
  <2>2. /\ F[k] = f[k] /\ P[k] = p[k] /\ E[k] = e[k]
        /\ F[k + 1] = f[k + 1] /\ P[k + 1] = p[k + 1] /\ E[k + 1] = e[k + 1]
        /\ tx_fifo'[k] = tx_fifo[k]
    BY <1>1, <1>4, <1>F, <1>P, <1>E
  <2>3. QED
    BY <1>2, <2>1, <2>2 DEF Follows
<1>7. Follows(F, P, E, L + 1)'
  <2>1. F[L + 1] = taken /\ P[L + 1] = at /\ E[L + 1] = escapes
    BY <1>1, <1>F, <1>P, <1>E DEF FifoSource, Writing
  <2>2. F[L + 2] = Writing' /\ P[L + 2] = at' /\ E[L + 2] = escapes'
    BY <1>F, <1>P, <1>E
  <2>3. at <= LastPlace(posted[taken])
    BY DEF Types
  <2>4. Writing' = IF at = LastPlace(posted[taken]) THEN taken + 1 ELSE taken
    BY <1>2 DEF PutNext, Writing
  <2>5. ~NeedsEsc(posted[taken], LastPlace(posted[taken]), escapes)
    BY <1>2, FrameFacts DEF NeedsEsc
  <2>6. L + 1 + 1 = L + 2
    BY <1>1
  <2>7. QED
    BY <1>2, <1>4, <2>1, <2>2, <2>3, <2>4, <2>5, <2>6 DEF Follows, PutNext
<1>8. QED
  <2>1. \A k \in 1 .. L + 1 : k \in 1 .. L \/ k = L + 1
    BY <1>1
  <2>2. L + 1 + 1 = L + 2
    BY <1>1
  <2>3. \A k \in 1 .. L + 1 : Follows(F, P, E, k)'
    BY <2>1, <1>6, <1>7
  <2>4. FifoSource(F, P, E)'
    BY <2>2, <2>3, <1>1, <1>4, <1>F, <1>P, <1>E DEF FifoSource
  <2>5. F \in Places' /\ P \in Places' /\ E \in Places'
    BY <2>2, <1>1, <1>4 DEF Places
  <2>6. F[1] = f[1] /\ P[1] = p[1] /\ E[1] = e[1]
    BY <1>1, <1>F, <1>P, <1>E
  <2>7. QED
    BY <1>1, <1>4, <2>4, <2>5, <2>6

\* Characters are taken out: those behind them have the places they had.
LEMMA SourcePop ==
  ASSUME Types, NEW f \in Places, NEW p \in Places, NEW e \in Places,
         FifoSource(f, p, e), UNCHANGED <<client, cursor, pc>>,
         NEW m \in 1 .. Len(tx_fifo),
         Len(tx_fifo') = Len(tx_fifo) - m,
         \A k \in 1 .. Len(tx_fifo) - m : tx_fifo'[k] = tx_fifo[k + m]
  PROVE  \E F, P, E \in Places' :
           /\ FifoSource(F, P, E)'
           /\ F[1] = f[1 + m] /\ P[1] = p[1 + m] /\ E[1] = e[1 + m]
<1>1. PICK L \in Nat : L = Len(tx_fifo)
  BY ElementFacts DEF Types
<1>F. PICK F \in [1 .. L + 1 - m -> Nat] :
        \A k \in 1 .. L + 1 - m : F[k] = f[k + m]
  BY <1>1, ShorterFunction DEF Places
<1>P. PICK P \in [1 .. L + 1 - m -> Nat] :
        \A k \in 1 .. L + 1 - m : P[k] = p[k + m]
  BY <1>1, ShorterFunction DEF Places
<1>E. PICK E \in [1 .. L + 1 - m -> Nat] :
        \A k \in 1 .. L + 1 - m : E[k] = e[k + m]
  BY <1>1, ShorterFunction DEF Places
<1>3. ASSUME NEW k \in 1 .. L - m PROVE Follows(F, P, E, k)'
  <2>1. k + m \in 1 .. L /\ k + 1 + m = k + m + 1
    BY <1>1
  <2>2. Follows(f, p, e, k + m)
    BY <1>1, <2>1 DEF FifoSource
  <2>3. k \in 1 .. L + 1 - m /\ k + 1 \in 1 .. L + 1 - m
    BY <1>1
  <2>4. /\ F[k] = f[k + m] /\ P[k] = p[k + m] /\ E[k] = e[k + m]
        /\ F[k + 1] = f[k + m + 1] /\ P[k + 1] = p[k + m + 1]
        /\ E[k + 1] = e[k + m + 1]
        /\ tx_fifo'[k] = tx_fifo[k + m]
    BY <1>1, <1>F, <1>P, <1>E, <2>1, <2>3
  <2>5. taken' = taken /\ posted' = posted
    BY DEF client
  <2>6. QED
    BY <2>2, <2>4, <2>5 DEF Follows
<1>4. L - m + 1 \in 1 .. L + 1 - m /\ L - m + 1 + m = L + 1
  BY <1>1
<1>5. Writing' = Writing
  BY DEF Writing, client
<1>6. FifoSource(F, P, E)'
  BY <1>1, <1>3, <1>4, <1>5, <1>F, <1>P, <1>E DEF FifoSource, cursor
<1>7. Len(tx_fifo') + 1 = L + 1 - m /\ 1 \in 1 .. L + 1 - m
  BY <1>1
<1>8. F \in Places' /\ P \in Places' /\ E \in Places'
  BY <1>7 DEF Places
<1>9. F[1] = f[1 + m] /\ P[1] = p[1 + m] /\ E[1] = e[1 + m]
  BY <1>7, <1>F, <1>P, <1>E
<1>10. QED
  BY <1>6, <1>8, <1>9

\* The place to be sent next is in a frame taken, or before the next one.
LEMMA FirstPlace ==
  ASSUME Types, NEW f \in Places, NEW p \in Places, NEW e \in Places,
         FifoSource(f, p, e)
  PROVE  /\ f[1] \in 1 .. taken + 1 /\ p[1] \in Nat
         /\ p[1] > 0 => f[1] <= taken
         /\ tx_fifo = <<>> => f[1] = Writing /\ p[1] = at /\ e[1] = escapes
         /\ tx_fifo # <<>> => Follows(f, p, e, 1)
<1>1. Len(tx_fifo) \in Nat /\ (Len(tx_fifo) = 0 <=> tx_fifo = <<>>)
  BY ElementFacts DEF Types
<1>2. p[1] \in Nat
  BY <1>1 DEF Places
<1>3. CASE tx_fifo = <<>>
  <2>1. f[1] = Writing /\ p[1] = at /\ e[1] = escapes
    BY <1>1, <1>3 DEF FifoSource
  <2>2. QED
    BY <1>2, <1>3, <2>1 DEF Types, Writing
<1>4. CASE tx_fifo # <<>>
  <2>1. 1 \in 1 .. Len(tx_fifo)
    BY <1>1, <1>4
  <2>2. Follows(f, p, e, 1)
    BY <2>1 DEF FifoSource
  <2>3. f[1] \in 1 .. taken
    BY <2>2 DEF Follows
  <2>4. QED
    BY <1>2, <1>4, <2>2, <2>3 DEF Types
<1>5. QED
  BY <1>3, <1>4

-----------------------------------------------------------------------------
(* Steps that send nothing.                                                *)

LEMMA ReceiverStays ==
  ASSUME Types, NEW f \in 1 .. taken + 1, NEW p \in Nat,
         p > 0 => f <= taken, ReceiverInv(f, p), UNCHANGED <<heard, received>>,
         \A k \in 1 .. taken : posted'[k] = posted[k]
  PROVE  ReceiverInv(f, p)'
<1>1. Len(received) = f - 1 /\ Len(heard) = IF p = 0 THEN 0 ELSE p - 1
  BY DEF ReceiverInv
<1>2. \A k \in 1 .. Len(received) : k \in 1 .. taken
  BY <1>1 DEF Types
<1>3. ASSUME NEW k \in 1 .. Len(heard) PROVE f \in 1 .. taken
  BY <1>1 DEF Types
<1>4. QED
  BY <1>2, <1>3 DEF ReceiverInv

LEMMA InvQuiet ==
  ASSUME Types, Inv, Writing' = Writing, UNCHANGED cursor,
         taken <= taken', taken' \in Nat,
         \A k \in 1 .. taken : posted'[k] = posted[k],
         UNCHANGED <<tx_fifo, preamble_len, trailer_len, sending, channel, first>>,
         left' = left \/ left > 0
  PROVE  Inv'
<1>1. PICK f \in Places, p \in Places, e \in Places :
        FifoSource(f, p, e) /\ e[1] = 0 /\ ReceiverInv(f[1], p[1])
          /\ BurstInv(f[1], p[1])
  BY DEF Inv, Places
<1>2. FifoSource(f, p, e)'
  BY <1>1, SourceStays
<1>3. /\ f[1] \in 1 .. taken + 1 /\ p[1] \in Nat
      /\ p[1] > 0 => f[1] <= taken
  BY <1>1, FirstPlace
<1>4. ReceiverInv(f[1], p[1])'
  BY <1>1, <1>3, ReceiverStays DEF channel
<1>5. BurstInv(f[1], p[1])'
  BY <1>1 DEF BurstInv, channel, Types
<1>6. f \in Places' /\ p \in Places' /\ e \in Places'
  BY DEF Places
<1>7. QED
  BY <1>1, <1>2, <1>4, <1>5, <1>6 DEF Inv, Places

LEMMA InvPost ==
  ASSUME Types, Inv, NEW frame \in Frames, Post(frame)
  PROVE  Inv'
<1>1. \A k \in 1 .. taken : k \in 1 .. Len(posted)
  BY ElementFacts DEF Types
<1>2. \A k \in 1 .. taken : posted'[k] = posted[k]
  BY <1>1, AppendFacts DEF Post, Types
<1>3. QED
  BY <1>2, InvQuiet DEF Post, Writing, Types

LEMMA InvDispatch == Types /\ Inv /\ Dispatch => Inv'
  BY InvQuiet DEF Dispatch, Writing, Types

LEMMA InvStartWork ==
  ASSUME Types, Inv, NEW k \in WorkSamples, StartWork(k)
  PROVE  Inv'
  BY InvQuiet DEF StartWork, Writing, client, Types

LEMMA InvSample == Types /\ Inv /\ TxSample => Inv'
  BY InvQuiet DEF TxSample, Writing, client, Types

LEMMA InvEndWork == Types /\ Inv /\ EndWork => Inv'
  BY InvQuiet DEF EndWork, Writing, client, Types

LEMMA InvStutter == Types /\ Inv /\ UNCHANGED vars => Inv'
  BY InvQuiet DEF vars, Writing, client, Types

\* What Inv says of a modem that has stopped.
LEMMA Stopped ==
  ASSUME Types, Inv, ~sending
  PROVE  tx_fifo = <<>> /\ trailer_len = 0 /\ left = 0 /\ heard = <<>>
<1>1. PICK f \in Places, p \in Places, e \in Places :
        ReceiverInv(f[1], p[1]) /\ BurstInv(f[1], p[1])
  BY DEF Inv, Places
<1>2. tx_fifo = <<>> /\ trailer_len = 0 /\ left = 0 /\ Len(heard) = 0
  BY <1>1 DEF ReceiverInv, BurstInv
<1>3. QED
  BY <1>2, ElementFacts DEF Types

\* At the end of the FIFO in work(), all frames taken are with the receiver,
\* behind each a whole trailer but for what is left of it.
LEMMA AllSent ==
  ASSUME Types, Inv, pc = "work", tx_fifo = <<>>
  PROVE  /\ heard = <<>> /\ Len(received) = taken
         /\ sending => flags + trailer_len >= TrailerLen + 1
         /\ trailer_len = 0 => preamble_len = 0
<1>1. PICK f \in Places, p \in Places, e \in Places :
        FifoSource(f, p, e) /\ ReceiverInv(f[1], p[1])
          /\ BurstInv(f[1], p[1])
  BY DEF Inv, Places
<1>2. f[1] = taken + 1 /\ p[1] = 0
  BY <1>1, FirstPlace DEF Writing, Types
<1>3. Len(heard) = 0 /\ Len(received) = taken
  BY <1>1, <1>2 DEF ReceiverInv, Types
<1>4. first < f[1] /\ TrailerLen \in Nat \ {0}
  BY <1>2, LenAssumption DEF Types
<1>5. /\ sending => flags + trailer_len >= TrailerLen + 1
      /\ trailer_len = 0 => preamble_len = 0
  BY <1>1, <1>2, <1>4 DEF BurstInv, Types
<1>6. QED
  BY <1>3, <1>5, ElementFacts DEF Types

LEMMA InvStop == Types /\ Inv /\ TxStop => Inv'
<1> SUFFICES ASSUME Types, Inv, TxStop PROVE Inv'
  OBVIOUS
<1>1. PICK f \in Places, p \in Places, e \in Places :
        FifoSource(f, p, e) /\ e[1] = 0 /\ ReceiverInv(f[1], p[1])
          /\ BurstInv(f[1], p[1])
  BY DEF Inv, Places
<1> USE DEF TxStop
<1>2. FifoSource(f, p, e)'
  BY <1>1, SourceStays DEF Writing, client, Types
<1>3. /\ f[1] \in 1 .. taken + 1 /\ p[1] \in Nat
      /\ p[1] > 0 => f[1] <= taken
      /\ p[1] = at
  BY <1>1, FirstPlace
<1>4. ReceiverInv(f[1], p[1])'
  BY <1>1, <1>3, ReceiverStays DEF channel, client
<1>5. BurstInv(f[1], p[1])'
  BY <1>1, <1>3, AllSent, LenAssumption DEF BurstInv, channel, Types
<1>6. f \in Places' /\ p \in Places' /\ e \in Places'
  BY DEF Places
<1>7. QED
  BY <1>1, <1>2, <1>4, <1>5, <1>6 DEF Inv, Places

-----------------------------------------------------------------------------
(* Steps that send a flag which is not in the FIFO, between two frames.    *)

LEMMA InvFlag ==
  ASSUME Types, Inv, TxPreamble \/ TxTrailer
  PROVE  Inv'
<1>1. PICK f \in Places, p \in Places, e \in Places :
        FifoSource(f, p, e) /\ e[1] = 0 /\ ReceiverInv(f[1], p[1])
          /\ BurstInv(f[1], p[1])
  BY DEF Inv, Places
<1> USE DEF TxPreamble, TxTrailer, NextChar
<1>2. FifoSource(f, p, e)'
  <2>1. UNCHANGED <<client, cursor, tx_fifo, pc>>
    OBVIOUS
  <2>2. QED
    BY <1>1, <2>1, SourceStays DEF Writing, client, Types
<1>3. /\ f[1] \in 1 .. taken + 1 /\ p[1] \in Nat
      /\ p[1] > 0 => f[1] <= taken
      /\ tx_fifo = <<>> => p[1] = at /\ f[1] = Writing
  BY <1>1, FirstPlace
<1>4. p[1] = 0
  <2>1. CASE TxPreamble
    BY <2>1, <1>1 DEF BurstInv, Types
  <2>2. CASE TxTrailer
    BY <2>2, <1>3 DEF Types
  <2>3. QED
    BY <2>1, <2>2
<1>5. heard = <<>>
  BY <1>1, <1>4, ElementFacts DEF ReceiverInv, Types
<1>6. heard' = heard /\ received' = received /\ flags' = flags + 1
  BY <1>5 DEF HearFlag
<1>7. ReceiverInv(f[1], p[1])'
  BY <1>1, <1>3, <1>6, ReceiverStays DEF client
<1>8. BurstInv(f[1], p[1])'
  <2>1. CASE TxPreamble
    BY <2>1, <1>1, <1>4, <1>6, LenAssumption, Stopped DEF BurstInv, Types
  <2>2. CASE TxTrailer
    <3>1. first < f[1] /\ sending
      BY <2>2, <1>3, Stopped DEF Writing, Types
    <3>2. QED
      BY <2>2, <3>1, <1>1, <1>4, <1>6, LenAssumption DEF BurstInv, Types
  <2>3. QED
    BY <2>1, <2>2
<1>9. f \in Places' /\ p \in Places' /\ e \in Places'
  BY DEF Places
<1>10. QED
  BY <1>1, <1>2, <1>7, <1>8, <1>9 DEF Inv, Places

-----------------------------------------------------------------------------
(* A character is written.                                                 *)

LEMMA InvWrite == Types /\ Inv /\ Write => Inv'
<1> SUFFICES ASSUME Types, Inv, Write PROVE Inv'
  OBVIOUS
<1>1. PICK f \in Places, p \in Places, e \in Places :
        FifoSource(f, p, e) /\ e[1] = 0 /\ ReceiverInv(f[1], p[1])
          /\ BurstInv(f[1], p[1])
  BY DEF Inv, Places
<1> USE DEF Write
<1>2. PICK F \in Places', P \in Places', E \in Places' :
        /\ FifoSource(F, P, E)'
        /\ F[1] = f[1] /\ P[1] = p[1] /\ E[1] = e[1]
  BY <1>1, SourceWrite
<1>3. /\ f[1] \in 1 .. taken + 1 /\ p[1] \in Nat
      /\ p[1] > 0 => f[1] <= taken
      /\ tx_fifo = <<>> => f[1] = taken
  BY <1>1, FirstPlace DEF Writing
<1>4. ReceiverInv(F[1], P[1])'
  BY <1>1, <1>2, <1>3, ReceiverStays DEF client
<1>5. BurstInv(f[1], p[1])'
  <2>1. CASE sending
    BY <2>1, <1>1, <1>3, LenAssumption DEF BurstInv, Types
  <2>2. CASE ~sending
    <3>1. p[1] = 0 /\ f[1] = taken
      BY <2>2, <1>1, <1>3 DEF BurstInv
    <3>2. QED
      BY <2>2, <3>1, LenAssumption DEF BurstInv, Types
  <2>3. QED
    BY <2>1, <2>2
<1>6. QED
  BY <1>1, <1>2, <1>4, <1>5 DEF Inv, Places

-----------------------------------------------------------------------------
(* A character is sent from the FIFO.                                      *)

\* The receiver is given the character at place p of frame f.
LEMMA HearNext ==
  ASSUME Types, NEW f \in 1 .. taken, NEW p \in 1 .. Len(posted[f]),
         ReceiverInv(f, p), Hear(posted[f][p]), UNCHANGED client
  PROVE  ReceiverInv(f, p + 1)'
<1>1. f \in 1 .. Len(posted) /\ posted' = posted
  BY ElementFacts DEF Types, client
<1>2. p \in Nat \ {0} /\ posted[f][p] \in Char
  BY <1>1, FrameFacts
<1>3. Len(heard) = p - 1 /\ \A k \in 1 .. Len(heard) : heard[k] = posted[f][k]
  BY <1>2 DEF ReceiverInv
<1>4. /\ Len(heard') = Len(heard) + 1
      /\ \A k \in 1 .. Len(heard) : heard'[k] = heard[k]
      /\ heard'[Len(heard) + 1] = posted[f][p]
  BY <1>2, AppendFacts DEF Hear, Types
<1>5. \A k \in 1 .. p : k \in 1 .. p - 1 \/ k = p
  BY <1>2
<1>6. \A k \in 1 .. p : heard'[k] = posted[f][k]
  BY <1>2, <1>3, <1>4, <1>5
<1>7. Len(heard') = p
  BY <1>2, <1>3, <1>4
<1>8. received' = received
  BY DEF Hear
<1>9. p + 1 # 0 /\ p + 1 - 1 = p
  BY <1>2
<1>10. QED
  BY <1>1, <1>6, <1>7, <1>8, <1>9 DEF ReceiverInv

\* The receiver is given the flag behind frame f.
LEMMA HearEnd ==
  ASSUME Types, NEW f \in 1 .. taken,
         ReceiverInv(f, LastPlace(posted[f])), HearFlag, UNCHANGED client
  PROVE  ReceiverInv(f + 1, 0)' /\ heard # <<>>
<1>1. f \in 1 .. Len(posted) /\ posted' = posted
  BY ElementFacts DEF Types, client
<1>2. /\ posted[f] \in Seq(Char) /\ Len(posted[f]) \in Nat \ {0}
      /\ LastPlace(posted[f]) = Len(posted[f]) + 1
  BY <1>1, FrameFacts
<1>3. /\ Len(heard) = Len(posted[f])
      /\ \A k \in 1 .. Len(heard) : heard[k] = posted[f][k]
  BY <1>2 DEF ReceiverInv
<1>4. heard = posted[f]
  BY <1>2, <1>3, SameSequence DEF Types
<1>5. heard # <<>>
  BY <1>2, <1>4, ElementFacts
<1>6. received' = Append(received, posted[f]) /\ heard' = <<>>
  BY <1>4, <1>5 DEF HearFlag
<1>7. Len(received) = f - 1 /\ \A k \in 1 .. Len(received) : received[k] = posted[k]
  BY DEF ReceiverInv
<1>8. /\ Len(received') = Len(received) + 1
      /\ \A k \in 1 .. Len(received) : received'[k] = received[k]
      /\ received'[Len(received) + 1] = posted[f]
  BY <1>2, <1>6, AppendFacts DEF Types
<1>9. \A k \in 1 .. f : k \in 1 .. f - 1 \/ k = f
  OBVIOUS
<1>10. Len(received') = f /\ f + 1 - 1 = f
  BY <1>7, <1>8
<1>11. \A k \in 1 .. f : received'[k] = posted[k]
  BY <1>7, <1>8, <1>9
<1>12. Len(heard') = 0
  BY <1>6
<1>13. QED
  BY <1>1, <1>5, <1>10, <1>11, <1>12 DEF ReceiverInv

\* Of frames that have been sent whole, the flag behind them counts as the first
\* of a trailer.
LEMMA InvChar == Types /\ Inv /\ TxChar => Inv'
<1> SUFFICES ASSUME Types, Inv, TxChar PROVE Inv'
  OBVIOUS
<1>1. PICK f \in Places, p \in Places, e \in Places :
        FifoSource(f, p, e) /\ e[1] = 0 /\ ReceiverInv(f[1], p[1])
          /\ BurstInv(f[1], p[1])
  BY DEF Inv, Places
<1>A. /\ preamble_len = 0 /\ tx_fifo # <<>> /\ Head(tx_fifo) # "esc"
      /\ tx_fifo' = Tail(tx_fifo)
      /\ IF Head(tx_fifo) = "flag" THEN HearFlag ELSE Hear(Head(tx_fifo))
      /\ UNCHANGED <<client, cursor, pc, preamble_len, trailer_len, sending, first>>
  BY DEF TxChar, NextChar
<1>2. /\ Head(tx_fifo) = tx_fifo[1] /\ 1 \in 1 .. Len(tx_fifo)
      /\ Len(tx_fifo') = Len(tx_fifo) - 1
      /\ \A k \in 1 .. Len(tx_fifo) - 1 : tx_fifo'[k] = tx_fifo[k + 1]
  BY <1>A, TailFacts DEF Types
<1>3. PICK F \in Places', P \in Places', E \in Places' :
        /\ FifoSource(F, P, E)'
        /\ F[1] = f[1 + 1] /\ P[1] = p[1 + 1] /\ E[1] = e[1 + 1]
  BY <1>1, <1>A, <1>2, SourcePop
<1>4. Follows(f, p, e, 1) /\ p[1] \in Nat
  BY <1>1, <1>A, FirstPlace
<1> DEFINE frame == posted[f[1]]
<1>5. f[1] \in 1 .. taken /\ p[1] <= LastPlace(frame)
  BY <1>4 DEF Follows
<1>6. /\ frame \in Seq(Char) /\ Len(frame) \in Nat \ {0}
      /\ DOMAIN frame = 1 .. Len(frame)
      /\ \A j \in 1 .. Len(frame) : frame[j] \in Char
      /\ LastPlace(frame) = Len(frame) + 1
  <2>1. f[1] \in 1 .. Len(posted)
    BY <1>5, ElementFacts DEF Types
  <2>2. QED
    BY <2>1, FrameFacts
<1>7. ~NeedsEsc(frame, p[1], 0)
  BY <1>1, <1>2, <1>4, <1>A DEF Follows, Written
<1>8. /\ Head(tx_fifo) = IF p[1] \in 1 .. Len(frame) THEN frame[p[1]] ELSE "flag"
      /\ p[1] \in 1 .. Len(frame) => frame[p[1]] = "data"
  BY <1>1, <1>2, <1>4, <1>6, <1>7 DEF Follows, Written, NeedsEsc, Char
<1>9. /\ E[1] = 0
      /\ P[1] = IF p[1] = LastPlace(frame) THEN 0 ELSE p[1] + 1
      /\ F[1] = IF p[1] = LastPlace(frame) THEN f[1] + 1 ELSE f[1]
  BY <1>1, <1>3, <1>4, <1>7 DEF Follows
<1>10. /\ trailer_len = TrailerLen /\ sending /\ first <= f[1]
       /\ TrailerLen \in Nat \ {0}
  BY <1>1, <1>A, LenAssumption DEF BurstInv, Types
<1>11. ReceiverInv(F[1], P[1])' /\ BurstInv(F[1], P[1])'
  <2>1. CASE p[1] = 0
    <3>1. HearFlag /\ F[1] = f[1] /\ P[1] = 1
      BY <2>1, <1>A, <1>6, <1>8, <1>9
    <3>2. heard = <<>>
      BY <2>1, <1>1, ElementFacts DEF ReceiverInv, Types
    <3>3. heard' = heard /\ received' = received /\ flags' = flags + 1
      BY <3>1, <3>2 DEF HearFlag
    <3>4. ReceiverInv(F[1], P[1])'
      BY <2>1, <3>1, <3>2, <3>3, <1>1, <1>A DEF ReceiverInv, client
    <3>5. BurstInv(F[1], P[1])'
      BY <2>1, <3>1, <3>3, <1>1, <1>A, <1>10, LenAssumption DEF BurstInv, Types
    <3>6. QED
      BY <3>4, <3>5
  <2>2. CASE p[1] \in 1 .. Len(frame)
    <3>1. Hear(frame[p[1]]) /\ F[1] = f[1] /\ P[1] = p[1] + 1
      BY <2>2, <1>A, <1>6, <1>8, <1>9
    <3>2. ReceiverInv(f[1], p[1] + 1)'
      BY <2>2, <3>1, <1>1, <1>5, <1>A, HearNext
    <3>3. ReceiverInv(F[1], P[1])'
      BY <3>1, <3>2
    <3>4. BurstInv(F[1], P[1])'
      BY <2>2, <3>1, <1>1, <1>4, <1>A, <1>10 DEF BurstInv, Types
    <3>5. QED
      BY <3>3, <3>4
  <2>3. CASE p[1] = LastPlace(frame)
    <3>1. HearFlag /\ F[1] = f[1] + 1 /\ P[1] = 0
      BY <2>3, <1>A, <1>6, <1>8, <1>9
    <3>2. ReceiverInv(f[1] + 1, 0)' /\ heard # <<>>
      BY <2>3, <3>1, <1>1, <1>5, <1>A, HearEnd
    <3>3. flags' = 1
      BY <3>1, <3>2 DEF HearFlag
    <3>4. ReceiverInv(F[1], P[1])'
      BY <3>1, <3>2
    <3>5. BurstInv(F[1], P[1])'
      BY <3>1, <3>3, <1>5, <1>A, <1>10 DEF BurstInv, Types
    <3>6. QED
      BY <3>4, <3>5
  <2>4. QED
    BY <2>1, <2>2, <2>3, <1>4, <1>5, <1>6
<1>12. QED
  BY <1>3, <1>9, <1>11 DEF Inv, Places

LEMMA InvEscaped == Types /\ Inv /\ TxEscaped => Inv'
<1> SUFFICES ASSUME Types, Inv, TxEscaped PROVE Inv'
  OBVIOUS
<1>1. PICK f \in Places, p \in Places, e \in Places :
        FifoSource(f, p, e) /\ e[1] = 0 /\ ReceiverInv(f[1], p[1])
          /\ BurstInv(f[1], p[1])
  BY DEF Inv, Places
<1>A. /\ preamble_len = 0 /\ Len(tx_fifo) > 1 /\ Head(tx_fifo) = "esc"
      /\ tx_fifo' = Tail(Tail(tx_fifo))
      /\ Hear(tx_fifo[2])
      /\ UNCHANGED <<client, cursor, pc, preamble_len, trailer_len, sending, first>>
  BY DEF TxEscaped, NextChar
<1>2. /\ Head(tx_fifo) = tx_fifo[1] /\ Len(tx_fifo) \in Nat
      /\ Tail(tx_fifo) \in Seq(Char) /\ Len(Tail(tx_fifo)) = Len(tx_fifo) - 1
      /\ \A k \in 1 .. Len(tx_fifo) - 1 : Tail(tx_fifo)[k] = tx_fifo[k + 1]
      /\ tx_fifo # <<>> /\ Tail(tx_fifo) # <<>>
  <2>1. tx_fifo \in Seq(Char) /\ tx_fifo # <<>>
    BY <1>A DEF Types
  <2>2. /\ Head(tx_fifo) = tx_fifo[1] /\ Len(tx_fifo) \in Nat
        /\ Tail(tx_fifo) \in Seq(Char) /\ Len(Tail(tx_fifo)) = Len(tx_fifo) - 1
        /\ \A k \in 1 .. Len(tx_fifo) - 1 : Tail(tx_fifo)[k] = tx_fifo[k + 1]
    BY <2>1, TailFacts
  <2>3. Tail(tx_fifo) # <<>>
    BY <2>1, <1>A, TailFacts
  <2>4. QED
    BY <2>1, <2>2, <2>3
<1>3. /\ Len(tx_fifo') = Len(tx_fifo) - 2
      /\ \A k \in 1 .. Len(tx_fifo) - 2 : tx_fifo'[k] = Tail(tx_fifo)[k + 1]
  BY <1>A, <1>2, TailFacts
<1>4. /\ 2 \in 1 .. Len(tx_fifo) /\ 1 \in 1 .. Len(tx_fifo)
      /\ \A k \in 1 .. Len(tx_fifo) - 2 :
           k + 1 \in 1 .. Len(tx_fifo) - 1 /\ k + 1 + 1 = k + 2
  BY <1>A, <1>2
<1>5. \A k \in 1 .. Len(tx_fifo) - 2 : tx_fifo'[k] = tx_fifo[k + 2]
  BY <1>2, <1>3, <1>4
<1>6. PICK F \in Places', P \in Places', E \in Places' :
        /\ FifoSource(F, P, E)'
        /\ F[1] = f[1 + 2] /\ P[1] = p[1 + 2] /\ E[1] = e[1 + 2]
  BY <1>1, <1>A, <1>3, <1>4, <1>5, SourcePop
<1>7. Follows(f, p, e, 1) /\ Follows(f, p, e, 2) /\ p[1] \in Nat
  BY <1>1, <1>2, <1>4, FirstPlace DEF FifoSource
<1> DEFINE frame == posted[f[1]]
<1>8. f[1] \in 1 .. taken
  BY <1>7 DEF Follows
<1>9. /\ frame \in Seq(Char) /\ Len(frame) \in Nat \ {0}
      /\ DOMAIN frame = 1 .. Len(frame)
      /\ LastPlace(frame) = Len(frame) + 1
  BY <1>8, FrameFacts, ElementFacts DEF Types
<1>10. NeedsEsc(frame, p[1], 0)
  BY <1>1, <1>2, <1>7, <1>9, <1>A DEF Follows, Written, NeedsEsc
<1>11. p[1] \in 1 .. Len(frame) /\ p[1] # LastPlace(frame)
  BY <1>9, <1>10 DEF NeedsEsc
<1>12. f[2] = f[1] /\ p[2] = p[1] /\ e[2] = 1
  BY <1>1, <1>7, <1>10 DEF Follows
<1>13. ~NeedsEsc(frame, p[1], 1)
  BY DEF NeedsEsc
<1>14. /\ tx_fifo[2] = frame[p[1]]
       /\ F[1] = f[1] /\ P[1] = p[1] + 1 /\ E[1] = 0
  BY <1>6, <1>7, <1>9, <1>11, <1>12, <1>13 DEF Follows, Written
<1>15. ReceiverInv(F[1], P[1])'
  BY <1>1, <1>8, <1>11, <1>14, <1>A, HearNext
<1>16. flags' = flags
  BY <1>A DEF Hear
<1>17. BurstInv(F[1], P[1])'
  BY <1>1, <1>2, <1>7, <1>11, <1>14, <1>A DEF BurstInv, Types
<1>18. QED
  BY <1>6, <1>14, <1>15, <1>17 DEF Inv, Places

-----------------------------------------------------------------------------
(* The theorems.                                                           *)

LEMMA InitIInv == Init => IInv
<1> SUFFICES ASSUME Init PROVE IInv
  OBVIOUS
<1> USE LenAssumption DEF Init
<1>1. <<>> \in Seq(Frames) /\ <<>> \in Seq(Char) /\ <<>> \in Seq(Seq(Char))
  OBVIOUS
<1>2. Len(posted) = 0 /\ Len(tx_fifo) = 0 /\ Len(heard) = 0 /\ Len(received) = 0
  OBVIOUS
<1>3. Types
  <2>1. /\ taken \in 0 .. Len(posted)
        /\ at \in Nat /\ escapes \in {0, 1} /\ Len(tx_fifo) <= TxRoom
        /\ preamble_len \in 0 .. PreambleLen /\ trailer_len \in 0 .. TrailerLen
        /\ left \in 0 .. CharLen - 1 /\ n \in Nat /\ i \in 0 .. n
        /\ d_ptt \in {0, 1} /\ flags \in Nat /\ first \in 0 .. taken
    BY <1>2
  <2>2. sending \in BOOLEAN /\ pc \in {"sched", "write", "work"} /\ pc # "write"
    OBVIOUS
  <2>3. QED
    BY <1>1, <2>1, <2>2, Zenon DEF Types
<1> DEFINE f == [k \in 1 .. 1 |-> 1]
           p == [k \in 1 .. 1 |-> 0]
<1>4. f \in Places /\ p \in Places /\ f[1] = 1 /\ p[1] = 0
  BY <1>2 DEF Places
<1> HIDE DEF f, p
<1>5. FifoSource(f, p, p)
  BY <1>2, <1>4 DEF FifoSource, Writing
<1>6. ReceiverInv(f[1], p[1])
  BY <1>2, <1>4 DEF ReceiverInv
<1>7. BurstInv(f[1], p[1])
  BY <1>4 DEF BurstInv
<1>8. Inv
  BY <1>4, <1>5, <1>6, <1>7 DEF Inv, Places
<1>9. PttInv
  BY DEF PttInv
<1>10. QED
  BY <1>3, <1>8, <1>9 DEF IInv

LEMMA InvStep == Types /\ Inv /\ [Next]_vars => Inv'
  BY InvPost, InvDispatch, InvWrite, InvStartWork, InvFlag, InvChar, InvEscaped,
     InvSample, InvStop, InvEndWork, InvStutter
     DEF Next, Thread

LEMMA PttStep == Types /\ Inv /\ PttInv /\ [Next]_vars => PttInv'
<1> SUFFICES ASSUME Types, Inv, PttInv, [Next]_vars PROVE PttInv'
  OBVIOUS
<1> USE DEF client, cursor, loop, channel
<1>1. ASSUME NEW frame \in Frames, Post(frame) PROVE PttInv'
  BY <1>1 DEF Post, PttInv
<1>2. CASE Dispatch
  BY <1>2 DEF Dispatch, PttInv
<1>3. CASE Write
  BY <1>3 DEF Write, PutNext, PttInv, Types
<1>4. ASSUME NEW k \in WorkSamples, StartWork(k) PROVE PttInv'
  BY <1>4, LenAssumption DEF StartWork, PttInv
<1>5. CASE TxPreamble \/ TxTrailer \/ TxChar \/ TxEscaped
  BY <1>5 DEF TxPreamble, TxTrailer, TxChar, TxEscaped, NextChar, PttInv, Types
<1>6. CASE TxSample
  BY <1>6 DEF TxSample, PttInv, Types
<1>7. CASE TxStop
  BY <1>7 DEF TxStop, PttInv
<1>8. CASE EndWork
  BY <1>8, Stopped DEF EndWork, PttInv, Types
<1>9. CASE UNCHANGED vars
  BY <1>9 DEF vars, PttInv
<1>10. QED
  BY <1>1, <1>2, <1>3, <1>4, <1>5, <1>6, <1>7, <1>8, <1>9 DEF Next, Thread

LEMMA TypesStep == Types /\ Inv /\ [Next]_vars => Types'
<1> SUFFICES ASSUME Types, Inv, [Next]_vars PROVE Types'
  OBVIOUS
<1> USE DEF client, cursor, loop, channel
<1>1. ASSUME NEW frame \in Frames, Post(frame) PROVE Types'
  <2>1. posted' \in Seq(Frames) /\ Len(posted') = Len(posted) + 1
    BY <1>1, AppendFacts DEF Post, Types
  <2>2. pc = "write" => posted'[taken] = posted[taken]
    BY <1>1, AppendFacts DEF Post, Types
  <2>3. taken \in 0 .. Len(posted')
    BY <2>1, ElementFacts DEF Types
  <2>4. QED
    BY <1>1, <2>1, <2>2, <2>3 DEF Post, Types
<1>2. CASE Dispatch
  <2>1. taken' \in 1 .. Len(posted) /\ first \in 0 .. taken'
    BY <1>2, ElementFacts DEF Dispatch, Types
  <2>2. at' <= LastPlace(posted'[taken'])
    BY <1>2, <2>1, FrameFacts DEF Dispatch, Types
  <2>3. QED
    BY <1>2, <2>1, <2>2 DEF Dispatch, Types
<1>3. CASE Write
  <2>1. taken \in 1 .. Len(posted)
    BY <1>3, ElementFacts DEF Write, Types
  <2>2. /\ posted[taken] \in Seq(Char)
        /\ LastPlace(posted[taken]) = Len(posted[taken]) + 1
        /\ Len(posted[taken]) \in Nat
        /\ DOMAIN posted[taken] = 1 .. Len(posted[taken])
    BY <2>1, FrameFacts
  <2>3. Written(posted[taken], at, escapes) \in Char
    BY <2>2, WrittenType DEF Types
  <2>4. tx_fifo' \in Seq(Char) /\ Len(tx_fifo') <= TxRoom
    BY <1>3, <2>3, AppendFacts, LenAssumption DEF Write, PutNext, Types
  <2>5. /\ at' \in Nat /\ escapes' \in {0, 1} /\ pc' \in {"sched", "write"}
        /\ IF pc' = "write" THEN at' <= LastPlace(posted[taken])
                            ELSE at' = 0 /\ escapes' = 0
    BY <1>3, <2>2 DEF Write, PutNext, NeedsEsc, Types
  <2>6. /\ preamble_len' \in 0 .. PreambleLen /\ trailer_len' \in 0 .. TrailerLen
        /\ flags' \in Nat /\ first' \in 0 .. taken
    BY <1>3, LenAssumption DEF Write, Types
  <2>7. /\ UNCHANGED <<cfg_padding_zero, client, left, loop, d_ptt, heard, received>>
        /\ sending' = TRUE
    BY <1>3 DEF Write
  <2>8. QED
    BY <2>1, <2>4, <2>5, <2>6, <2>7 DEF Types
<1>4. ASSUME NEW k \in WorkSamples, StartWork(k) PROVE Types'
  <2>1. n' \in Nat /\ i' \in 0 .. n'
    BY <1>4, LenAssumption DEF StartWork
  <2>2. QED
    BY <1>4, <2>1 DEF StartWork, Types
<1>5. CASE TxPreamble \/ TxTrailer \/ TxChar \/ TxEscaped
  <2>1. NextChar
    BY <1>5 DEF TxPreamble, TxTrailer, TxChar, TxEscaped
  <2>2. left' \in 0 .. CharLen - 1 /\ n' \in Nat /\ i' \in 0 .. n'
    BY <2>1, LenAssumption DEF NextChar, Types
  <2>3. tx_fifo' \in Seq(Char) /\ Len(tx_fifo') <= TxRoom
    <3>1. CASE TxPreamble \/ TxTrailer
      BY <3>1 DEF TxPreamble, TxTrailer, Types
    <3>2. CASE TxChar
      BY <3>2, TailFacts, LenAssumption DEF TxChar, Types
    <3>3. CASE TxEscaped
      <4>1. tx_fifo # <<>> /\ Len(Tail(tx_fifo)) = Len(tx_fifo) - 1
            /\ Tail(tx_fifo) \in Seq(Char)
        BY <3>3, TailFacts, ElementFacts DEF TxEscaped, Types
      <4>2. Tail(tx_fifo) # <<>>
        BY <3>3, <4>1, TailFacts DEF TxEscaped, Types
      <4>3. tx_fifo' \in Seq(Char) /\ Len(tx_fifo') = Len(tx_fifo) - 2
        BY <3>3, <4>1, <4>2, TailFacts DEF TxEscaped
      <4>4. QED
        BY <4>3, LenAssumption DEF Types
    <3>4. QED
      BY <1>5, <3>1, <3>2, <3>3
  <2>4. preamble_len' \in 0 .. PreambleLen /\ trailer_len' \in 0 .. TrailerLen
    BY <1>5, LenAssumption
       DEF TxPreamble, TxTrailer, TxChar, TxEscaped, NextChar, Types
  <2>5. /\ heard' \in Seq(Char) /\ received' \in Seq(Seq(Char)) /\ flags' \in Nat
    <3>1. CASE HearFlag
      BY <3>1, AppendFacts DEF HearFlag, Types
    <3>2. ASSUME NEW c \in Char, Hear(c)
          PROVE  heard' \in Seq(Char) /\ received' \in Seq(Seq(Char)) /\ flags' \in Nat
      BY <3>2, AppendFacts DEF Hear, Types
    <3>3. CASE TxPreamble \/ TxTrailer
      BY <3>1, <3>3 DEF TxPreamble, TxTrailer
    <3>4. CASE TxChar
      <4>1. Head(tx_fifo) \in Char
        BY <3>4, TailFacts DEF TxChar, Types
      <4>2. QED
        BY <3>1, <3>2, <3>4, <4>1 DEF TxChar
    <3>5. CASE TxEscaped
      <4>1. tx_fifo[2] \in Char
        BY <3>5, ElementFacts DEF TxEscaped, Types
      <4>2. QED
        BY <3>2, <3>5, <4>1 DEF TxEscaped
    <3>6. QED
      BY <1>5, <3>3, <3>4, <3>5
  <2>6. UNCHANGED <<cfg_padding_zero, client, pc, cursor, sending, d_ptt, first>>
    BY <2>1 DEF NextChar
  <2>7. QED
    BY <2>2, <2>3, <2>4, <2>5, <2>6 DEF Types
<1>6. CASE TxSample
  <2>1. left' \in 0 .. CharLen - 1 /\ n' \in Nat /\ i' \in 0 .. n'
    BY <1>6, LenAssumption DEF TxSample, Types
  <2>2. QED
    BY <1>6, <2>1 DEF TxSample, Types
<1>7. CASE TxStop
  <2>1. n' \in Nat /\ i' \in 0 .. n'
    BY <1>7 DEF TxStop, Types
  <2>2. QED
    BY <1>7, <2>1 DEF TxStop, Types
<1>8. CASE EndWork
  <2>1. pc' \in {"sched", "write", "work"} /\ pc' # "write" /\ d_ptt' \in {0, 1}
        /\ at = 0 /\ escapes = 0
    BY <1>8 DEF EndWork, Types
  <2>2. QED
    BY <1>8, <2>1 DEF EndWork, Types
<1>9. CASE UNCHANGED vars
  BY <1>9 DEF vars, Types
<1>10. QED
  BY <1>1, <1>2, <1>3, <1>4, <1>5, <1>6, <1>7, <1>8, <1>9 DEF Next, Thread

THEOREM Inductive == Spec => []IInv
<1>1. Init => IInv
  BY InitIInv
<1>2. IInv /\ [Next]_vars => IInv'
  BY TypesStep, InvStep, PttStep DEF IInv
<1>3. QED
  BY <1>1, <1>2, PTL DEF Spec

\* In work() the FIFO ends with the flag that closes the last frame.
LEMMA EndsClosed ==
  ASSUME Types, Inv, pc = "work", tx_fifo # <<>>
  PROVE  Last(tx_fifo) = "flag"
<1>1. PICK f \in Places, p \in Places, e \in Places : FifoSource(f, p, e)
  BY DEF Inv, Places
<1>2. PICK L \in Nat : L = Len(tx_fifo) /\ L \in 1 .. Len(tx_fifo)
  BY ElementFacts DEF Types
<1>3. Follows(f, p, e, L) /\ f[L + 1] = taken + 1
  BY <1>1, <1>2 DEF FifoSource, Writing
<1>4. f[L] \in 1 .. taken
  BY <1>3 DEF Follows
<1>5. p[L] = LastPlace(posted[f[L]])
  BY <1>3, <1>4 DEF Follows, Types
<1>6. f[L] \in 1 .. Len(posted)
  BY <1>4, ElementFacts DEF Types
<1>7. p[L] \notin DOMAIN posted[f[L]]
  BY <1>5, <1>6, FrameFacts
<1>8. QED
  BY <1>2, <1>3, <1>7 DEF Follows, Written, NeedsEsc, Last

\* Type invariant of the transmitter: an ESC is never left in the FIFO for
\* work() without the character it escapes.
THEOREM TypeCorrect == Spec => []TypeOK
<1>1. IInv => TypeOK
  BY EndsClosed DEF IInv, Types, TypeOK
<1>2. QED
  BY <1>1, Inductive, PTL

\* The receiver gets the frames posted, each once, in order and whole.
LEMMA WhatIsHeard == IInv => FramesIntact
<1> SUFFICES ASSUME IInv PROVE FramesIntact
  OBVIOUS
<1> USE DEF IInv
<1>1. PICK f \in Places, p \in Places, e \in Places :
        FifoSource(f, p, e) /\ ReceiverInv(f[1], p[1])
  BY DEF Inv, Places
<1>2. /\ f[1] \in 1 .. taken + 1 /\ p[1] \in Nat
      /\ p[1] > 0 => f[1] <= taken
  BY <1>1, FirstPlace
<1>3. Len(received) = f[1] - 1 /\ \A k \in 1 .. Len(received) : received[k] = posted[k]
  BY <1>1 DEF ReceiverInv
<1>4. IsPrefix(received, posted)
  BY <1>2, <1>3, PrefixFacts DEF Types
<1>5. ASSUME heard # <<>>
      PROVE  Len(received) < taken /\ IsPrefix(heard, posted[Len(received) + 1])
  <2>1. p[1] > 0 /\ Len(heard) = p[1] - 1
    BY <1>1, <1>2, <1>5, ElementFacts DEF ReceiverInv, Types
  <2>2. f[1] \in 1 .. Len(posted) /\ Len(received) + 1 = f[1] /\ f[1] <= taken
    BY <1>2, <1>3, <2>1, ElementFacts DEF Types
  <2>3. p[1] <= LastPlace(posted[f[1]])
    BY <1>1, <2>1, FirstPlace DEF Follows, Types, Writing
  <2>4. Len(heard) <= Len(posted[f[1]])
    BY <1>2, <2>1, <2>2, <2>3, FrameFacts
  <2>5. IsPrefix(heard, posted[f[1]])
    BY <1>1, <2>2, <2>4, FrameFacts, PrefixFacts DEF ReceiverInv, Types
  <2>6. QED
    BY <1>3, <2>2, <2>5 DEF Types
<1>6. QED
  BY <1>4, <1>5 DEF FramesIntact

THEOREM Intact == Spec => []FramesIntact
  BY WhatIsHeard, Inductive, PTL

\* While the PTT is off, no burst is on the air.
THEOREM Covered == Spec => []PttCoversBurst
<1>1. IInv => PttCoversBurst
  BY DEF IInv, PttInv, PttCoversBurst
<1>2. QED
  BY <1>1, Inductive, PTL

\* The preamble is whole where the first frame of a burst begins, the trailer
\* where the modem stops.
LEMMA BurstStep ==
  IInv /\ [Next]_vars
    => /\ heard = <<>> /\ heard' # <<>> /\ Len(received) + 1 = first
            => flags = PreambleLen + 1
       /\ sending /\ ~sending'
            => heard = <<>> /\ flags >= TrailerLen + 1
<1> SUFFICES ASSUME IInv, [Next]_vars
             PROVE  /\ heard = <<>> /\ heard' # <<>> /\ Len(received) + 1 = first
                         => flags = PreambleLen + 1
                    /\ sending /\ ~sending'
                         => heard = <<>> /\ flags >= TrailerLen + 1
  OBVIOUS
<1> USE DEF IInv
<1>1. ASSUME sending, ~sending' PROVE heard = <<>> /\ flags >= TrailerLen + 1
  <2>1. TxStop
    BY <1>1 DEF Next, Thread, Post, Dispatch, Write, StartWork, TxPreamble,
                TxTrailer, TxChar, TxEscaped, NextChar, TxSample, EndWork, vars
  <2>2. QED
    BY <1>1, <2>1, AllSent, LenAssumption DEF TxStop, Types
<1>2. ASSUME heard = <<>>, heard' # <<>>, Len(received) + 1 = first
      PROVE  flags = PreambleLen + 1
  <2>1. TxChar \/ TxEscaped
    BY <1>2 DEF Next, Thread, Post, Dispatch, Write, StartWork, TxPreamble,
                TxTrailer, HearFlag, TxStop, TxSample, EndWork, channel, vars
  <2>2. PICK f \in Places, p \in Places, e \in Places :
          FifoSource(f, p, e) /\ e[1] = 0 /\ ReceiverInv(f[1], p[1])
            /\ BurstInv(f[1], p[1])
    BY DEF Inv, Places
  <2>3. tx_fifo # <<>> /\ Head(tx_fifo) = tx_fifo[1] /\ Head(tx_fifo) # "flag"
    BY <1>2, <2>1, TailFacts, ElementFacts
       DEF TxChar, TxEscaped, HearFlag, Types
  <2>4. Follows(f, p, e, 1) /\ p[1] \in Nat /\ f[1] \in 1 .. taken + 1
    BY <2>2, <2>3, FirstPlace
  <2>5. f[1] \in 1 .. Len(posted)
    BY <2>4, ElementFacts DEF Follows, Types
  <2>6. p[1] # 0
    BY <2>3, <2>4, <2>5, FrameFacts DEF Follows, Written, NeedsEsc
  <2>7. Len(heard) = 0
    BY <1>2
  <2>8. p[1] = 1 /\ f[1] = first
    BY <1>2, <2>2, <2>4, <2>6, <2>7 DEF ReceiverInv
  <2>9. QED
    BY <2>2, <2>3, <2>8 DEF BurstInv
<1>3. QED
  BY <1>1, <1>2

THEOREM Framed == Spec => BurstFramed
<1>1. IInv /\ [Next]_vars =>
        [/\ heard = <<>> /\ heard' # <<>> /\ Len(received) + 1 = first
              => flags = PreambleLen + 1
         /\ sending /\ ~sending'
              => heard = <<>> /\ flags >= TrailerLen + 1]_vars
  BY BurstStep
<1>2. QED
  BY <1>1, Inductive, PTL DEF Spec, BurstFramed

=============================================================================
